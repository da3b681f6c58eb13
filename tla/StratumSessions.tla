--------------------------- MODULE StratumSessions ---------------------------
(***************************************************************************)
(* Life and death of Stratum connections (lib/stratumServer.js: start and  *)
(* the handlers it installs, handleRequest as far as authorization goes,   *)
(* bans, kickInactiveClients; index.js: the authorize and                  *)
(* clientDisconnected events).                                             *)
(*                                                                         *)
(* A socket that is destroyed stays in the clients map until Node emits    *)
(* its close event.  end, error and close each call cleanup, in any of the *)
(* orders Node can produce.                                                *)
(***************************************************************************)
EXTENDS Naturals, FiniteSets

CONSTANTS
    Conns,              \* connections, by the client object made for them
    Addresses,          \* remote addresses, as normalizeRemoteAddress gives them
    Allowed,            \* the addresses the connection ACL lets in
    MaxPerIp,           \* config maxConnectionsPerIp
    MaxPreAuth,         \* maxPreAuthMessages (10 in the code)
    MaxBadJson,         \* config connectionAcl.maxBadJsonBeforeClose
    BanOnBadJson        \* config connectionAcl.banOnBadJson

ASSUME SessionsAssumption ==
    /\ Addresses # {}
    /\ Allowed \subseteq Addresses
    /\ MaxPerIp \in Nat \ {0}
    /\ MaxPreAuth \in Nat
    /\ MaxBadJson \in Nat \ {0}
    /\ BanOnBadJson \in BOOLEAN

VARIABLES
    sock,        \* per connection: absent, open, ended (peer's FIN), destroyed
    addr,        \* client.remoteAddress
    cleanedUp,   \* the flag that makes cleanup idempotent
    authorized,
    preAuthMessages,
    badJsonCount,
    quiet,       \* no data for inactiveTimeoutMs
    draining,    \* a reply destroyed the socket with lines of the chunk left
    clients,     \* the clients map
    ipCount,     \* _ipCount, 0 for a missing key
    banned,      \* addresses whose ban has not run out
    miners       \* stats.miners of the pool

perConn == <<sock, addr, cleanedUp, authorized, preAuthMessages, badJsonCount, quiet,
             draining>>
vars == <<perConn, clients, ipCount, banned, miners>>

-----------------------------------------------------------------------------
\* The address of a client object that does not exist: any one will do.
NoClientAddress == CHOOSE a \in Addresses : TRUE

Live(c) == sock[c] = "open"

\* The data handler goes on with the lines it has although a reply met a full
\* backlog and destroyed the socket.
Receiving(c) == Live(c) \/ draining[c]

HeldBy(a) == {c \in clients : addr[c] = a}
AuthorizedIn(S, auth) == {c \in S : auth[c]}

\* The connection event: limit, ban, ACL, then the client object and its
\* bookkeeping.  Refused sockets leave no trace.
Connect(c, a) ==
    /\ sock[c] = "absent"
    /\ ipCount[a] < MaxPerIp
    /\ a \notin banned
    /\ a \in Allowed
    /\ sock' = [sock EXCEPT ![c] = "open"]
    /\ addr' = [addr EXCEPT ![c] = a]
    /\ cleanedUp' = [cleanedUp EXCEPT ![c] = FALSE]
    /\ authorized' = [authorized EXCEPT ![c] = FALSE]
    /\ preAuthMessages' = [preAuthMessages EXCEPT ![c] = 0]
    /\ badJsonCount' = [badJsonCount EXCEPT ![c] = 0]
    /\ quiet' = [quiet EXCEPT ![c] = FALSE]
    /\ draining' = [draining EXCEPT ![c] = FALSE]
    /\ clients' = clients \cup {c}
    /\ ipCount' = [ipCount EXCEPT ![a] = @ + 1]
    /\ UNCHANGED <<banned, miners>>

\* Mutant: the flag is not looked at, every event of a socket cleans up.
Cleanup_EveryTime(c) ==
    /\ cleanedUp' = [cleanedUp EXCEPT ![c] = TRUE]
    /\ clients' = clients \ {c}
    /\ ipCount' = [ipCount EXCEPT ![addr[c]] = IF @ > 1 THEN @ - 1 ELSE 0]
    /\ miners' = Cardinality(AuthorizedIn(clients', authorized))

\* Mutant: the pool is not told of the disconnection.
Cleanup_NoEvent(c) ==
    /\ cleanedUp' = [cleanedUp EXCEPT ![c] = TRUE]
    /\ clients' = clients \ {c}
    /\ ipCount' = IF cleanedUp[c] THEN ipCount
                  ELSE [ipCount EXCEPT ![addr[c]] = IF @ > 1 THEN @ - 1 ELSE 0]
    /\ miners' = miners

\* The first event of a dying socket takes the client out and tells the pool,
\* which counts its miners afresh; the others find cleanedUp set.
Cleanup(c) ==
    IF cleanedUp[c]
    THEN UNCHANGED <<cleanedUp, clients, ipCount, miners>>
    ELSE /\ cleanedUp' = [cleanedUp EXCEPT ![c] = TRUE]
         /\ clients' = clients \ {c}
         /\ ipCount' = [ipCount EXCEPT ![addr[c]] = IF @ > 1 THEN @ - 1 ELSE 0]
         /\ miners' = Cardinality(AuthorizedIn(clients', authorized))

\* The peer's FIN: Node will close its side later.
End(c) ==
    /\ sock[c] = "open"
    /\ sock' = [sock EXCEPT ![c] = "ended"]
    /\ Cleanup(c)
    /\ UNCHANGED <<addr, authorized, preAuthMessages, badJsonCount, quiet,
                   draining, banned>>

Error(c) ==
    /\ sock[c] \in {"open", "ended"}
    /\ sock' = [sock EXCEPT ![c] = "destroyed"]
    /\ Cleanup(c)
    /\ UNCHANGED <<addr, authorized, preAuthMessages, badJsonCount, quiet,
                   draining, banned>>

\* The last event; the client object is gone with the socket.
Close(c) ==
    /\ sock[c] \in {"ended", "destroyed"}
    /\ sock' = [sock EXCEPT ![c] = "absent"]
    /\ Cleanup(c)
    /\ addr' = [addr EXCEPT ![c] = NoClientAddress]
    /\ authorized' = [authorized EXCEPT ![c] = FALSE]
    /\ preAuthMessages' = [preAuthMessages EXCEPT ![c] = 0]
    /\ badJsonCount' = [badJsonCount EXCEPT ![c] = 0]
    /\ quiet' = [quiet EXCEPT ![c] = FALSE]
    /\ draining' = [draining EXCEPT ![c] = FALSE]
    /\ UNCHANGED banned

-----------------------------------------------------------------------------
\* One line of a data event.  How a chunk is cut into lines does not matter:
\* a line that destroys the socket ends the chunk, and TCP may deliver every
\* line on its own.

BanAddress(a, ban) == banned' = IF ban THEN banned \cup {a} ELSE banned

DestroyFor(c, ban) ==
    /\ sock' = [sock EXCEPT ![c] = "destroyed"]
    /\ draining' = [draining EXCEPT ![c] = FALSE]
    /\ BanAddress(addr[c], ban)

\* Mutant: the limit is off by one.
PreAuthFlood_OneMore(c) == ~authorized[c] /\ preAuthMessages[c] > MaxPreAuth

\* The check in front of every line of a client that is not authorized.
PreAuthFlood(c) == ~authorized[c] /\ preAuthMessages[c] >= MaxPreAuth

CountLine(c) ==
    preAuthMessages' = IF authorized[c] THEN preAuthMessages
                       ELSE [preAuthMessages EXCEPT ![c] = @ + 1]

Flood(c) ==
    /\ Receiving(c)
    /\ PreAuthFlood(c)
    /\ CountLine(c)
    /\ DestroyFor(c, BanOnBadJson)
    /\ quiet' = [quiet EXCEPT ![c] = FALSE]
    /\ UNCHANGED <<addr, cleanedUp, authorized, badJsonCount, clients, ipCount, miners>>

\* A line that does not parse.  The address of an authorized miner is spared.
BadJson(c) ==
    /\ Receiving(c)
    /\ ~PreAuthFlood(c)
    /\ CountLine(c)
    /\ badJsonCount' = [badJsonCount EXCEPT ![c] = @ + 1]
    /\ IF badJsonCount'[c] >= MaxBadJson
       THEN DestroyFor(c, BanOnBadJson /\ ~authorized[c])
       ELSE UNCHANGED <<sock, draining, banned>>
    /\ quiet' = [quiet EXCEPT ![c] = FALSE]
    /\ UNCHANGED <<addr, cleanedUp, authorized, clients, ipCount, miners>>

\* More than 16 KB without a line end.
BufferOverflow(c) ==
    /\ Live(c)
    /\ DestroyFor(c, BanOnBadJson)
    /\ quiet' = [quiet EXCEPT ![c] = FALSE]
    /\ UNCHANGED <<addr, cleanedUp, authorized, preAuthMessages, badJsonCount,
                   clients, ipCount, miners>>

\* mining.authorize: the pool counts its miners in the event it emits.
Authorize(c) ==
    /\ Receiving(c)
    /\ ~PreAuthFlood(c)
    /\ CountLine(c)
    /\ authorized' = [authorized EXCEPT ![c] = TRUE]
    /\ miners' = Cardinality(AuthorizedIn(clients, authorized'))
    /\ quiet' = [quiet EXCEPT ![c] = FALSE]
    /\ UNCHANGED <<sock, addr, cleanedUp, badJsonCount, draining, clients,
                   ipCount, banned>>

\* Any other request that parses: it is answered and changes nothing here.
OtherRequest(c) ==
    /\ Receiving(c)
    /\ ~PreAuthFlood(c)
    /\ CountLine(c)
    /\ quiet' = [quiet EXCEPT ![c] = FALSE]
    /\ UNCHANGED <<sock, addr, cleanedUp, authorized, badJsonCount, draining,
                   clients, ipCount, banned, miners>>

-----------------------------------------------------------------------------
\* Timers, and writes that meet a full backlog.

\* Mutant: the first line of a client stops its timer.
PreAuthTimeout_StoppedByLine(c) ==
    /\ Live(c)
    /\ preAuthMessages[c] = 0
    /\ sock' = [sock EXCEPT ![c] = "destroyed"]
    /\ UNCHANGED <<addr, cleanedUp, authorized, preAuthMessages, badJsonCount,
                   quiet, draining, clients, ipCount, banned, miners>>

PreAuthTimeout(c) ==
    /\ Live(c)
    /\ ~authorized[c]
    /\ sock' = [sock EXCEPT ![c] = "destroyed"]
    /\ UNCHANGED <<addr, cleanedUp, authorized, preAuthMessages, badJsonCount,
                   quiet, draining, clients, ipCount, banned, miners>>

\* A write (job, difficulty, answer) finds more than the cap still unsent.  If
\* it answers a request, lines of the same chunk may be left.
Backlog(c) ==
    /\ Live(c)
    /\ sock' = [sock EXCEPT ![c] = "destroyed"]
    /\ \E more \in BOOLEAN : draining' = [draining EXCEPT ![c] = more]
    /\ UNCHANGED <<addr, cleanedUp, authorized, preAuthMessages, badJsonCount,
                   quiet, clients, ipCount, banned, miners>>

\* inactiveTimeoutMs pass without data from c.
FallSilent(c) ==
    /\ Live(c)
    /\ ~quiet[c]
    /\ quiet' = [quiet EXCEPT ![c] = TRUE]
    /\ UNCHANGED <<sock, addr, cleanedUp, authorized, preAuthMessages,
                   badJsonCount, draining, clients, ipCount, banned, miners>>

\* The socket's own timeout: nothing was written to it either.
SocketTimeout(c) ==
    /\ Live(c)
    /\ quiet[c]
    /\ sock' = [sock EXCEPT ![c] = "destroyed"]
    /\ UNCHANGED <<addr, cleanedUp, authorized, preAuthMessages, badJsonCount,
                   quiet, draining, clients, ipCount, banned, miners>>

\* Mutant: only clients that never authorized are swept.
Inactive_Unauthorized == {c \in clients : quiet[c] /\ ~authorized[c]}

Inactive == {c \in clients : quiet[c]}

KickInactiveClients ==
    /\ Inactive # {}
    /\ sock' = [c \in Conns |-> IF c \in Inactive THEN "destroyed" ELSE sock[c]]
    /\ UNCHANGED <<addr, cleanedUp, authorized, preAuthMessages, badJsonCount,
                   quiet, draining, clients, ipCount, banned, miners>>

\* badJsonBanSeconds have passed.
BanExpires(a) ==
    /\ a \in banned
    /\ banned' = banned \ {a}
    /\ UNCHANGED <<perConn, clients, ipCount, miners>>

-----------------------------------------------------------------------------
Init ==
    /\ sock = [c \in Conns |-> "absent"]
    /\ addr = [c \in Conns |-> NoClientAddress]
    /\ cleanedUp = [c \in Conns |-> TRUE]
    /\ authorized = [c \in Conns |-> FALSE]
    /\ preAuthMessages = [c \in Conns |-> 0]
    /\ badJsonCount = [c \in Conns |-> 0]
    /\ quiet = [c \in Conns |-> FALSE]
    /\ draining = [c \in Conns |-> FALSE]
    /\ clients = {}
    /\ ipCount = [a \in Addresses |-> 0]
    /\ banned = {}
    /\ miners = 0

Next ==
    \/ \E c \in Conns :
          \/ \E a \in Addresses : Connect(c, a)
          \/ End(c) \/ Error(c) \/ Close(c)
          \/ Flood(c) \/ BadJson(c) \/ Authorize(c) \/ OtherRequest(c)
          \/ BufferOverflow(c)
          \/ PreAuthTimeout(c) \/ Backlog(c) \/ FallSilent(c) \/ SocketTimeout(c)
    \/ KickInactiveClients
    \/ \E a \in Addresses : BanExpires(a)

Spec == Init /\ [][Next]_vars

\* Timers fire and Node emits close for every socket that ends.
Fairness ==
    /\ \A c \in Conns : WF_vars(PreAuthTimeout(c)) /\ WF_vars(Close(c))
    /\ WF_vars(KickInactiveClients)

FairSpec == Spec /\ Fairness

-----------------------------------------------------------------------------
TypeOK ==
    /\ sock \in [Conns -> {"absent", "open", "ended", "destroyed"}]
    /\ addr \in [Conns -> Addresses]
    /\ cleanedUp \in [Conns -> BOOLEAN]
    /\ authorized \in [Conns -> BOOLEAN]
    /\ preAuthMessages \in [Conns -> 0 .. MaxPreAuth + 1]
    /\ badJsonCount \in [Conns -> 0 .. MaxBadJson]
    /\ quiet \in [Conns -> BOOLEAN]
    /\ draining \in [Conns -> BOOLEAN]
    /\ clients \in SUBSET Conns
    /\ ipCount \in [Addresses -> Nat]
    /\ banned \in SUBSET Addresses
    /\ miners \in Nat

\* The counter the per-address limit is checked against is the number of
\* clients the address holds, and stays within the limit, whatever mixture of
\* end, error, close, kicks and bans the sockets go through.
IpCountExact ==
    \A a \in Addresses : ipCount[a] = Cardinality(HeldBy(a)) /\ ipCount[a] <= MaxPerIp

\* The number of miners the pool reports is the number of authorized clients
\* in the map after every event.
MinersExact == miners = Cardinality(AuthorizedIn(clients, authorized))

\* What makes these inductive: a client is in the map until the first cleanup
\* of its socket, and the two message limits end the socket that reaches them.
MapFollowsSockets ==
    /\ IsFiniteSet(clients)
    /\ \A c \in Conns : cleanedUp[c] <=> c \notin clients
    /\ \A c \in Conns : sock[c] \in {"absent", "ended"} => c \notin clients

LimitsKept ==
    \A c \in Conns : Receiving(c) =>
        /\ badJsonCount[c] < MaxBadJson
        /\ ~authorized[c] => preAuthMessages[c] <= MaxPreAuth

IInv == TypeOK /\ IpCountExact /\ MinersExact /\ MapFollowsSockets /\ LimitsKept

\* A connection that never authorizes does not keep its slot.
UnauthorizedLeaves ==
    \A c \in Conns : c \in clients /\ ~authorized[c] ~> c \notin clients \/ authorized[c]

\* A client that has gone silent leaves the map unless it speaks again, although
\* the pool goes on writing jobs to its socket.
SilentLeaves == \A c \in Conns : quiet[c] ~> c \notin clients \/ ~quiet[c]
=============================================================================
