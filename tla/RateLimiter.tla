----------------------------- MODULE RateLimiter -----------------------------
(***************************************************************************)
(* The limiter in front of the JSON API (lib/apiServer.js: RateLimiter): a *)
(* window per address that starts with a request and is replaced by the    *)
(* first request after its end.                                            *)
(***************************************************************************)
EXTENDS Naturals, Sequences, FiniteSets

CONSTANTS
    Addresses,
    RequestsPerWindow,   \* 60 in the code
    WindowMs,            \* 60000 in the code
    MaxClock,            \* bound: the clock
    MaxRequests          \* bound: requests of an address

ASSUME LimiterAssumption ==
    /\ RequestsPerWindow \in Nat \ {0}
    /\ WindowMs \in Nat \ {0}
    /\ MaxClock \in Nat
    /\ MaxRequests \in Nat

VARIABLES
    clock,
    buckets,     \* _buckets
    allowed,     \* auxiliary: per address, the times requests were let through
    refused      \* auxiliary: and the times they were refused

limiterVars == <<clock, buckets, allowed, refused>>

NoBucket == [none |-> TRUE]

\* Mutant: the window is over one tick late.
Bucket_Late(ip) ==
    IF buckets[ip] = NoBucket \/ clock > buckets[ip].windowStart + WindowMs
    THEN [count |-> 0, windowStart |-> clock]
    ELSE buckets[ip]

\* The bucket a request of ip is counted in.
Bucket(ip) ==
    IF buckets[ip] = NoBucket \/ clock >= buckets[ip].windowStart + WindowMs
    THEN [count |-> 0, windowStart |-> clock]
    ELSE buckets[ip]

Requests(ip) == Len(allowed[ip]) + Len(refused[ip])

\* isAllowed: a refused request is counted too.
IsAllowed(ip) ==
    /\ Requests(ip) < MaxRequests
    /\ buckets' = [buckets EXCEPT ![ip] = [Bucket(ip) EXCEPT !.count = @ + 1]]
    /\ IF Bucket(ip).count + 1 <= RequestsPerWindow
       THEN /\ allowed' = [allowed EXCEPT ![ip] = Append(@, clock)]
            /\ UNCHANGED refused
       ELSE /\ refused' = [refused EXCEPT ![ip] = Append(@, clock)]
            /\ UNCHANGED allowed
    /\ UNCHANGED clock

Pass ==
    /\ clock < MaxClock
    /\ clock' = clock + 1
    /\ UNCHANGED <<buckets, allowed, refused>>

LimiterInit ==
    /\ clock = 0
    /\ buckets = [ip \in Addresses |-> NoBucket]
    /\ allowed = [ip \in Addresses |-> <<>>]
    /\ refused = [ip \in Addresses |-> <<>>]

LimiterNext == Pass \/ \E ip \in Addresses : IsAllowed(ip)

LimiterSpec == LimiterInit /\ [][LimiterNext]_limiterVars

-----------------------------------------------------------------------------
\* Requests of ip let through in the WindowMs that end with t.
LetThrough(ip, t) ==
    Cardinality({i \in DOMAIN allowed[ip] :
                   allowed[ip][i] <= t /\ allowed[ip][i] + WindowMs > t})

\* In no stretch of WindowMs, aligned or not, are two windows' worth of requests
\* let through (a window starts with a request, so one less is the most), and a
\* request is only refused when a full window's worth was let through just before
\* it: neither refused requests nor another address's prolong the wait.
LimiterExact ==
    \A ip \in Addresses :
       /\ \A t \in 0 .. clock : LetThrough(ip, t) < 2 * RequestsPerWindow
       /\ \A i \in DOMAIN refused[ip] :
             LetThrough(ip, refused[ip][i]) >= RequestsPerWindow
=============================================================================
