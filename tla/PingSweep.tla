------------------------------ MODULE PingSweep ------------------------------
(***************************************************************************)
(* The miner ping sweep (index.js: runMinerPingSweep, pingHost), started   *)
(* by a timer and by every authorize.  Only one sweep runs at a time; a    *)
(* trigger that comes meanwhile is lost.                                   *)
(***************************************************************************)
EXTENDS Naturals

CONSTANTS
    PingClients,    \* connections, each used once
    HostOf          \* the host of each

VARIABLES
    standing,                \* per client: new, authorized, gone
    pingSweepInFlight,
    pingCommandUnavailable,
    hostMap,                 \* the clients the sweep in flight is for
    answers,                 \* per host: idle, pending, ok, fail, unavailable
    pinged                   \* clients whose metrics hold a ping

pingVars ==
    <<standing, pingSweepInFlight, pingCommandUnavailable, hostMap, answers, pinged>>

Hosts == {HostOf[c] : c \in PingClients}

SweepMayRun == ~pingSweepInFlight /\ ~pingCommandUnavailable

\* Mutant: the return for an empty map is in front of the try.
Launch_FlagStuck(clients) ==
    /\ pingSweepInFlight' = TRUE
    /\ hostMap' = clients
    /\ answers' = [h \in Hosts |-> IF \E c \in clients : HostOf[c] = h
                                   THEN "pending" ELSE "idle"]

\* A sweep for these clients, up to its await.  Without clients it returns, and
\* the finally clears the flag at once.
Launch(clients) ==
    /\ pingSweepInFlight' = (clients # {})
    /\ hostMap' = clients
    /\ answers' = [h \in Hosts |-> IF \E c \in clients : HostOf[c] = h
                                   THEN "pending" ELSE "idle"]

AuthorizedNow == {c \in PingClients : standing'[c] = "authorized"}

RunMinerPingSweep ==
    IF SweepMayRun THEN Launch(AuthorizedNow)
    ELSE UNCHANGED <<pingSweepInFlight, hostMap, answers>>

AuthorizePing(c) ==
    /\ standing[c] = "new"
    /\ standing' = [standing EXCEPT ![c] = "authorized"]
    /\ RunMinerPingSweep
    /\ UNCHANGED <<pingCommandUnavailable, pinged>>

SweepTimer ==
    /\ UNCHANGED standing
    /\ RunMinerPingSweep
    /\ UNCHANGED <<pingCommandUnavailable, pinged>>

\* ping ends, fails, is killed after its timeout or cannot be found.
PingHost(h) ==
    /\ answers[h] = "pending"
    /\ \E result \in {"ok", "fail", "unavailable"} :
          answers' = [answers EXCEPT ![h] = result]
    /\ UNCHANGED <<standing, pingSweepInFlight, pingCommandUnavailable, hostMap, pinged>>

\* The code behind the await.  Results are noted host by host until one says
\* that there is no ping command; the order of the hosts is left open.
SweepDone ==
    LET swept == {HostOf[c] : c \in hostMap}
        good  == {h \in swept : answers[h] \in {"ok", "fail"}}
    IN  /\ pingSweepInFlight
        /\ hostMap # {}
        /\ \A h \in swept : answers[h] # "pending"
        /\ \E noted \in (IF good = swept THEN {good} ELSE SUBSET good) :
              pinged' = pinged \cup {c \in hostMap : HostOf[c] \in noted}
        /\ pingCommandUnavailable' = (good # swept)
        /\ pingSweepInFlight' = FALSE
        /\ hostMap' = {}
        /\ answers' = [h \in Hosts |-> "idle"]
        /\ UNCHANGED standing

Leave(c) ==
    /\ standing[c] \in {"new", "authorized"}
    /\ standing' = [standing EXCEPT ![c] = "gone"]
    /\ UNCHANGED <<pingSweepInFlight, pingCommandUnavailable, hostMap, answers, pinged>>

PingInit ==
    /\ standing = [c \in PingClients |-> "new"]
    /\ pingSweepInFlight = FALSE
    /\ pingCommandUnavailable = FALSE
    /\ hostMap = {}
    /\ answers = [h \in Hosts |-> "idle"]
    /\ pinged = {}

PingNext ==
    \/ \E c \in PingClients : AuthorizePing(c) \/ Leave(c)
    \/ \E h \in Hosts : PingHost(h)
    \/ SweepTimer
    \/ SweepDone

-----------------------------------------------------------------------------
\* A miner that stays is pinged in the end, though its own trigger may have
\* been lost to a sweep that began before it authorized, unless the machine has
\* no ping command: no path leaves the flag set.
EveryMinerPinged ==
    \A c \in PingClients :
       standing[c] = "authorized"
          ~> c \in pinged \/ standing[c] # "authorized" \/ pingCommandUnavailable
=============================================================================
