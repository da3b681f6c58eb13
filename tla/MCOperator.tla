------------------------------ MODULE MCOperator ------------------------------
(***************************************************************************)
(* The services around the pool for TLC: the log, the API's limiter, the   *)
(* dashboard's cache and the ping sweep.  They share no state, so that the *)
(* behaviours of each are those it has while the others stand still; the   *)
(* initial state chooses the one that runs.                                *)
(***************************************************************************)
EXTENDS Logger, RateLimiter, FileCache, PingSweep

VARIABLE running

operatorVars == <<running, vars, limiterVars, cacheVars, pingVars>>

\* Two of the three miners are behind one address.
MCHostOf == [c \in PingClients |-> IF c = 3 THEN "elsewhere" ELSE "nat"]

OperatorInit ==
    /\ running \in {"logger", "limiter", "cache", "ping"}
    /\ Init /\ (running # "logger" => rotateBy = "date")
    /\ LimiterInit
    /\ CacheInit
    /\ PingInit

Only(service) == running = service /\ UNCHANGED running

OperatorNext ==
    \/ Only("logger") /\ Next /\ UNCHANGED <<limiterVars, cacheVars, pingVars>>
    \/ Only("limiter") /\ LimiterNext /\ UNCHANGED <<vars, cacheVars, pingVars>>
    \/ Only("cache") /\ CacheNext /\ UNCHANGED <<vars, limiterVars, pingVars>>
    \/ Only("ping") /\ PingNext /\ UNCHANGED <<vars, limiterVars, cacheVars>>

Ping(action) == Only("ping") /\ action /\ UNCHANGED <<vars, limiterVars, cacheVars>>

\* The interval fires again and again, a ping process ends or is killed, and
\* the awaiting code is resumed.
OperatorFairness ==
    /\ WF_operatorVars(Ping(SweepTimer))
    /\ \A h \in Hosts : WF_operatorVars(Ping(PingHost(h)))
    /\ WF_operatorVars(Ping(SweepDone))

OperatorSpec == OperatorInit /\ [][OperatorNext]_operatorVars /\ OperatorFairness
=============================================================================
