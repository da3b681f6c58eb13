----------------------- MODULE StratumSessionsProofs -----------------------
(***************************************************************************)
(* StratumSessions for every number of connections and addresses and every *)
(* limit.                                                                  *)
(***************************************************************************)
EXTENDS StratumSessions, FiniteSetTheorems, TLAPS

-----------------------------------------------------------------------------
\* The clients an address holds are finitely many.
LEMMA HeldFinite ==
    ASSUME MapFollowsSockets, NEW a
    PROVE  IsFiniteSet(HeldBy(a)) /\ Cardinality(HeldBy(a)) \in Nat
  <1>1. IsFiniteSet(HeldBy(a))
    BY FS_Subset DEF MapFollowsSockets, HeldBy
  <1> QED BY <1>1, FS_CardinalityType

\* So are the authorized ones.
LEMMA AuthorizedFinite ==
    ASSUME NEW S, NEW auth, IsFiniteSet(S)
    PROVE  Cardinality(AuthorizedIn(S, auth)) \in Nat
  <1>1. IsFiniteSet(AuthorizedIn(S, auth))
    BY FS_Subset DEF AuthorizedIn
  <1> QED BY <1>1, FS_CardinalityType

\* cleanup keeps the bookkeeping exact, the first time and every other time.
LEMMA CleanupStep ==
    ASSUME IInv, NEW c \in Conns, Cleanup(c),
           \A d \in Conns \ {c} : addr'[d] = addr[d] /\ authorized'[d] = authorized[d]
    PROVE  /\ cleanedUp' \in [Conns -> BOOLEAN]
           /\ clients' = clients \ {c}
           /\ IsFiniteSet(clients')
           /\ \A d \in Conns : cleanedUp'[d] <=> d \notin clients'
           /\ ipCount' \in [Addresses -> Nat]
           /\ IpCountExact'
           /\ miners' \in Nat
           /\ MinersExact'
  <1> USE DEF IInv, TypeOK
  <1>1. CASE cleanedUp[c]
    <2>1. UNCHANGED <<cleanedUp, clients, ipCount, miners>> /\ c \notin clients
      BY <1>1 DEF Cleanup, MapFollowsSockets
    <2>2. \A a \in Addresses : HeldBy(a)' = HeldBy(a)
      BY <2>1 DEF HeldBy
    <2>3. AuthorizedIn(clients', authorized') = AuthorizedIn(clients, authorized)
      BY <2>1 DEF AuthorizedIn
    <2>4. IpCountExact' /\ MinersExact'
      BY <2>1, <2>2, <2>3 DEF IpCountExact, MinersExact
    <2> QED BY <2>1, <2>4 DEF MapFollowsSockets
  <1>2. CASE ~cleanedUp[c]
    <2> PICK a \in Addresses : a = addr[c]
      OBVIOUS
    <2>1. /\ cleanedUp' = [cleanedUp EXCEPT ![c] = TRUE]
          /\ clients' = clients \ {c}
          /\ ipCount' = [ipCount EXCEPT ![a] = IF @ > 1 THEN @ - 1 ELSE 0]
          /\ miners' = Cardinality(AuthorizedIn(clients', authorized))
      BY <1>2 DEF Cleanup
    <2>2. c \in clients /\ c \in HeldBy(a)
      BY <1>2 DEF MapFollowsSockets, HeldBy
    <2>3. IsFiniteSet(clients')
      BY <2>1, FS_RemoveElement DEF MapFollowsSockets
    <2>4. HeldBy(a)' = HeldBy(a) \ {c}
      BY <2>1 DEF HeldBy
    <2>5. \A b \in Addresses : b # a => HeldBy(b)' = HeldBy(b)
      BY <2>1 DEF HeldBy
    <2>6. /\ Cardinality(HeldBy(a) \ {c}) = Cardinality(HeldBy(a)) - 1
          /\ Cardinality(HeldBy(a)) \in Nat
          /\ Cardinality(HeldBy(a) \ {c}) \in Nat
      <3>1. IsFiniteSet(HeldBy(a)) /\ Cardinality(HeldBy(a)) \in Nat
        BY HeldFinite
      <3>2. /\ IsFiniteSet(HeldBy(a) \ {c})
            /\ Cardinality(HeldBy(a) \ {c}) = Cardinality(HeldBy(a)) - 1
        BY <2>2, <3>1, FS_RemoveElement
      <3>3. Cardinality(HeldBy(a) \ {c}) \in Nat
        BY <3>2, FS_CardinalityType
      <3> QED BY <3>1, <3>2, <3>3
    <2>7. ipCount[a] \in Nat /\ ipCount[a] = Cardinality(HeldBy(a)) /\ ipCount[a] <= MaxPerIp
      BY <2>2 DEF IpCountExact
    <2>8. ipCount'[a] = Cardinality(HeldBy(a)') /\ ipCount'[a] <= MaxPerIp
      <3>1. ipCount[a] >= 1
        BY <2>6, <2>7
      <3>2. ipCount'[a] = ipCount[a] - 1
        BY <2>1, <2>2, <2>7, <3>1
      <3> QED BY <2>4, <2>6, <2>7, <3>2, SessionsAssumption
    <2>9. ipCount' \in [Addresses -> Nat]
      BY <2>1, <2>2, <2>7
    <2>10. IpCountExact'
      <3>1. ASSUME NEW b \in Addresses, b # a
            PROVE  ipCount'[b] = Cardinality(HeldBy(b)') /\ ipCount'[b] <= MaxPerIp
        <4>1. ipCount'[b] = ipCount[b]
          BY <2>1, <3>1
        <4> QED BY <2>5, <3>1, <4>1 DEF IpCountExact
      <3> QED BY <2>8, <3>1 DEF IpCountExact
    <2>11. MinersExact' /\ miners' \in Nat
      <3>1. AuthorizedIn(clients', authorized') = AuthorizedIn(clients', authorized)
        BY <2>1 DEF AuthorizedIn
      <3>2. miners' = Cardinality(AuthorizedIn(clients', authorized'))
        BY <2>1, <3>1
      <3>3. Cardinality(AuthorizedIn(clients', authorized')) \in Nat
        BY <2>3, AuthorizedFinite
      <3> QED BY <3>2, <3>3 DEF MinersExact
    <2> QED BY <2>1, <2>2, <2>3, <2>9, <2>10, <2>11 DEF MapFollowsSockets
  <1> QED BY <1>1, <1>2

\* A new connection is counted once, for its own address.
LEMMA ConnectStep ==
    ASSUME IInv, NEW c \in Conns, NEW a \in Addresses, Connect(c, a)
    PROVE  IInv'
  <1> USE DEF IInv, TypeOK
  <1>1. c \notin clients
    BY DEF Connect, MapFollowsSockets
  <1>2. /\ clients' = clients \cup {c}
        /\ addr' = [addr EXCEPT ![c] = a]
        /\ ipCount' = [ipCount EXCEPT ![a] = @ + 1]
        /\ authorized' = [authorized EXCEPT ![c] = FALSE]
        /\ UNCHANGED <<banned, miners>>
    BY DEF Connect
  <1>3. HeldBy(a)' = HeldBy(a) \cup {c} /\ c \notin HeldBy(a)
    BY <1>1, <1>2 DEF HeldBy
  <1>4. \A b \in Addresses : b # a => HeldBy(b)' = HeldBy(b)
    BY <1>1, <1>2 DEF HeldBy
  <1>5. IsFiniteSet(clients')
    BY <1>2, FS_AddElement DEF MapFollowsSockets
  <1>6. Cardinality(HeldBy(a)') = ipCount[a] + 1
    <2>1. IsFiniteSet(HeldBy(a))
      BY HeldFinite
    <2>2. Cardinality(HeldBy(a) \cup {c}) = Cardinality(HeldBy(a)) + 1
      BY <1>3, <2>1, FS_AddElement
    <2>3. Cardinality(HeldBy(a)) = ipCount[a]
      BY DEF IpCountExact
    <2> QED BY <1>3, <2>2, <2>3
  <1>7. IpCountExact'
    <2>1. ipCount'[a] = Cardinality(HeldBy(a)') /\ ipCount'[a] <= MaxPerIp
      <3>1. ipCount[a] \in Nat /\ ipCount[a] < MaxPerIp /\ MaxPerIp \in Nat
        BY SessionsAssumption DEF Connect
      <3>2. ipCount'[a] = ipCount[a] + 1
        BY <1>2
      <3> QED BY <1>6, <3>1, <3>2
    <2>2. ASSUME NEW b \in Addresses, b # a
          PROVE  ipCount'[b] = Cardinality(HeldBy(b)') /\ ipCount'[b] <= MaxPerIp
      <3>1. ipCount'[b] = ipCount[b]
        BY <1>2, <2>2
      <3> QED BY <1>4, <2>2, <3>1 DEF IpCountExact
    <2> QED BY <2>1, <2>2 DEF IpCountExact
  <1>8. MinersExact'
    <2>1. AuthorizedIn(clients', authorized') = AuthorizedIn(clients, authorized)
      BY <1>1, <1>2 DEF AuthorizedIn
    <2> QED BY <1>2, <2>1 DEF MinersExact
  <1>9. MapFollowsSockets'
    BY <1>2, <1>5 DEF Connect, MapFollowsSockets
  <1>10. TypeOK'
    BY <1>2, SessionsAssumption DEF Connect
  <1>11. LimitsKept'
    BY SessionsAssumption DEF Connect, LimitsKept, Receiving, Live
  <1> QED BY <1>7, <1>8, <1>9, <1>10, <1>11

\* The three events that end a socket.
LEMMA EventStep ==
    ASSUME IInv, NEW c \in Conns, End(c) \/ Error(c) \/ Close(c)
    PROVE  IInv'
  <1> USE DEF IInv, TypeOK
  <1>1. Cleanup(c) /\ UNCHANGED banned
    BY DEF End, Error, Close
  <1>2. /\ sock' \in [Conns -> {"absent", "open", "ended", "destroyed"}]
        /\ quiet' \in [Conns -> BOOLEAN]
        /\ draining' \in [Conns -> BOOLEAN]
        /\ \A d \in Conns : d # c => sock'[d] = sock[d]
        /\ \A d \in Conns : Receiving(d)' => Receiving(d)
    BY DEF End, Error, Close, Receiving, Live
  <1>3. /\ addr' \in [Conns -> Addresses]
        /\ authorized' \in [Conns -> BOOLEAN]
        /\ preAuthMessages' \in [Conns -> 0 .. MaxPreAuth + 1]
        /\ badJsonCount' \in [Conns -> 0 .. MaxBadJson]
        /\ \A d \in Conns \ {c} : addr'[d] = addr[d] /\ authorized'[d] = authorized[d]
        /\ \A d \in Conns : Receiving(d)' =>
              /\ authorized'[d] = authorized[d]
              /\ preAuthMessages'[d] = preAuthMessages[d]
              /\ badJsonCount'[d] = badJsonCount[d]
    <2>1. NoClientAddress \in Addresses /\ MaxPreAuth \in Nat /\ MaxBadJson \in Nat
      BY SessionsAssumption DEF NoClientAddress
    <2>2. CASE End(c) \/ Error(c)
      BY <2>2 DEF End, Error
    <2>3. CASE Close(c)
      <3>1. /\ sock' = [sock EXCEPT ![c] = "absent"]
            /\ addr' = [addr EXCEPT ![c] = NoClientAddress]
            /\ authorized' = [authorized EXCEPT ![c] = FALSE]
            /\ preAuthMessages' = [preAuthMessages EXCEPT ![c] = 0]
            /\ badJsonCount' = [badJsonCount EXCEPT ![c] = 0]
            /\ draining' = [draining EXCEPT ![c] = FALSE]
        BY <2>3 DEF Close
      <3>2. ~Receiving(c)'
        BY <3>1 DEF Receiving, Live
      <3>3. \A d \in Conns \ {c} : /\ addr'[d] = addr[d]
                                  /\ authorized'[d] = authorized[d]
                                  /\ preAuthMessages'[d] = preAuthMessages[d]
                                  /\ badJsonCount'[d] = badJsonCount[d]
        BY <3>1
      <3>4. addr' \in [Conns -> Addresses] /\ authorized' \in [Conns -> BOOLEAN]
        BY <2>1, <3>1
      <3>5. /\ preAuthMessages' \in [Conns -> 0 .. MaxPreAuth + 1]
            /\ badJsonCount' \in [Conns -> 0 .. MaxBadJson]
        BY <2>1, <3>1
      <3> QED BY <3>2, <3>3, <3>4, <3>5
    <2> QED BY <2>2, <2>3
  <1>4. /\ cleanedUp' \in [Conns -> BOOLEAN]
        /\ clients' = clients \ {c}
        /\ IsFiniteSet(clients')
        /\ \A d \in Conns : cleanedUp'[d] <=> d \notin clients'
        /\ ipCount' \in [Addresses -> Nat]
        /\ IpCountExact'
        /\ miners' \in Nat
        /\ MinersExact'
    BY <1>1, <1>3, CleanupStep
  <1>5. TypeOK'
    BY <1>1, <1>2, <1>4, <1>3
  <1>6. MapFollowsSockets'
    BY <1>2, <1>4 DEF MapFollowsSockets
  <1>7. LimitsKept'
    BY <1>1, <1>2, <1>3 DEF LimitsKept
  <1> QED BY <1>4, <1>5, <1>6, <1>7

\* What a line, a timer or a sweep does to a socket: the map and the counts
\* of the addresses stay as they are.
LEMMA SameMap ==
    ASSUME IInv, UNCHANGED <<addr, cleanedUp, clients, ipCount>>,
           sock' \in [Conns -> {"absent", "open", "ended", "destroyed"}],
           \A d \in Conns : sock'[d] = sock[d] \/ sock'[d] = "destroyed"
    PROVE  IpCountExact' /\ MapFollowsSockets'
  BY DEF IInv, IpCountExact, HeldBy, MapFollowsSockets

\* Lines.
LEMMA LineStep ==
    ASSUME IInv, NEW c \in Conns,
           Flood(c) \/ BadJson(c) \/ Authorize(c) \/ OtherRequest(c)
    PROVE  IInv'
  <1> USE DEF IInv, TypeOK
  <1>1. UNCHANGED <<addr, cleanedUp, clients, ipCount>>
    BY DEF Flood, BadJson, Authorize, OtherRequest
  <1>2. /\ sock' \in [Conns -> {"absent", "open", "ended", "destroyed"}]
        /\ \A d \in Conns : sock'[d] = sock[d] \/ sock'[d] = "destroyed"
        /\ draining' \in [Conns -> BOOLEAN]
        /\ quiet' \in [Conns -> BOOLEAN]
        /\ banned' \in SUBSET Addresses
        /\ authorized' \in [Conns -> BOOLEAN]
    <2>1. ASSUME NEW ban \in BOOLEAN, DestroyFor(c, ban)
          PROVE  /\ sock' = [sock EXCEPT ![c] = "destroyed"]
                 /\ draining' = [draining EXCEPT ![c] = FALSE]
                 /\ banned' \in SUBSET Addresses
      BY <2>1 DEF DestroyFor, BanAddress
    <2>2. CASE Flood(c)
      BY <2>1, <2>2, SessionsAssumption DEF Flood
    <2>3. CASE BadJson(c)
      <3>1. DestroyFor(c, BanOnBadJson /\ ~authorized[c])
            \/ UNCHANGED <<sock, draining, banned>>
        BY <2>3 DEF BadJson
      <3>2. (BanOnBadJson /\ ~authorized[c]) \in BOOLEAN
        OBVIOUS
      <3>3. /\ sock' = [sock EXCEPT ![c] = "destroyed"] \/ sock' = sock
            /\ draining' = [draining EXCEPT ![c] = FALSE] \/ draining' = draining
            /\ banned' \in SUBSET Addresses
        BY <2>1, <3>1, <3>2
      <3>4. quiet' = [quiet EXCEPT ![c] = FALSE] /\ UNCHANGED authorized
        BY <2>3 DEF BadJson
      <3> QED BY <3>3, <3>4
    <2>4. CASE Authorize(c)
      BY <2>4 DEF Authorize
    <2>5. CASE OtherRequest(c)
      BY <2>5 DEF OtherRequest
    <2> QED BY <2>2, <2>3, <2>4, <2>5
  <1>3. IpCountExact' /\ MapFollowsSockets'
    BY <1>1, <1>2, SameMap
  <1>4. MinersExact' /\ miners' \in Nat
    <2>1. CASE Authorize(c)
      BY <1>1, <2>1, AuthorizedFinite DEF Authorize, MinersExact, MapFollowsSockets
    <2>2. CASE Flood(c) \/ BadJson(c) \/ OtherRequest(c)
      BY <1>1, <2>2 DEF Flood, BadJson, OtherRequest, MinersExact
    <2> QED BY <2>1, <2>2
  <1>5. /\ preAuthMessages' \in [Conns -> 0 .. MaxPreAuth + 1]
        /\ badJsonCount' \in [Conns -> 0 .. MaxBadJson]
        /\ LimitsKept'
    <2>1. /\ Receiving(c)
          /\ badJsonCount[c] < MaxBadJson
          /\ ~authorized[c] => preAuthMessages[c] <= MaxPreAuth
      BY DEF Flood, BadJson, Authorize, OtherRequest, LimitsKept
    <2>2. CASE Flood(c)
      BY <2>1, <2>2, SessionsAssumption
      DEF Flood, CountLine, DestroyFor, LimitsKept, Receiving, Live
    <2>3. CASE BadJson(c)
      BY <2>1, <2>3, SessionsAssumption
      DEF BadJson, PreAuthFlood, CountLine, DestroyFor, LimitsKept, Receiving, Live
    <2>4. CASE Authorize(c)
      BY <2>1, <2>4, SessionsAssumption
      DEF Authorize, PreAuthFlood, CountLine, LimitsKept, Receiving, Live
    <2>5. CASE OtherRequest(c)
      BY <2>1, <2>5, SessionsAssumption
      DEF OtherRequest, PreAuthFlood, CountLine, LimitsKept, Receiving, Live
    <2> QED BY <2>2, <2>3, <2>4, <2>5
  <1> QED BY <1>1, <1>2, <1>3, <1>4, <1>5

\* Overflow, timers, backlog and the sweep.
LEMMA TimerStep ==
    ASSUME IInv,
           \/ \E c \in Conns : BufferOverflow(c) \/ PreAuthTimeout(c) \/ Backlog(c)
                             \/ FallSilent(c) \/ SocketTimeout(c)
           \/ KickInactiveClients
           \/ \E a \in Addresses : BanExpires(a)
    PROVE  IInv'
  <1> USE DEF IInv, TypeOK
  <1>1. UNCHANGED <<addr, cleanedUp, authorized, preAuthMessages, badJsonCount,
                    clients, ipCount, miners>>
    BY DEF BufferOverflow, PreAuthTimeout, Backlog, FallSilent, SocketTimeout,
           KickInactiveClients, BanExpires, perConn
  <1>2. /\ sock' \in [Conns -> {"absent", "open", "ended", "destroyed"}]
        /\ \A d \in Conns : sock'[d] = sock[d] \/ sock'[d] = "destroyed"
        /\ draining' \in [Conns -> BOOLEAN]
        /\ quiet' \in [Conns -> BOOLEAN]
        /\ banned' \in SUBSET Addresses
    <2>1. ASSUME NEW c \in Conns, BufferOverflow(c)
          PROVE  /\ sock' = [sock EXCEPT ![c] = "destroyed"]
                 /\ draining' = [draining EXCEPT ![c] = FALSE]
                 /\ quiet' = [quiet EXCEPT ![c] = FALSE]
                 /\ banned' \in SUBSET Addresses
      BY <2>1 DEF BufferOverflow, DestroyFor, BanAddress
    <2>2. ASSUME NEW c \in Conns,
                 PreAuthTimeout(c) \/ Backlog(c) \/ FallSilent(c) \/ SocketTimeout(c)
          PROVE  /\ sock' = [sock EXCEPT ![c] = "destroyed"] \/ sock' = sock
                 /\ draining' \in [Conns -> BOOLEAN]
                 /\ quiet' \in [Conns -> BOOLEAN]
                 /\ banned' = banned
      BY <2>2 DEF PreAuthTimeout, Backlog, FallSilent, SocketTimeout
    <2>3. CASE \E c \in Conns : BufferOverflow(c)
      BY <2>1, <2>3
    <2>4. CASE \E c \in Conns : PreAuthTimeout(c) \/ Backlog(c) \/ FallSilent(c)
                                \/ SocketTimeout(c)
      BY <2>2, <2>4
    <2>5. CASE KickInactiveClients
      BY <2>5 DEF KickInactiveClients
    <2>6. CASE \E a \in Addresses : BanExpires(a)
      BY <2>6 DEF BanExpires, perConn
    <2> QED BY <2>3, <2>4, <2>5, <2>6
  <1>3. \A d \in Conns : Receiving(d)' => Receiving(d)
    BY DEF BufferOverflow, PreAuthTimeout, Backlog, FallSilent, SocketTimeout,
           KickInactiveClients, BanExpires, perConn, DestroyFor, Receiving, Live
  <1>4. IpCountExact' /\ MapFollowsSockets'
    BY <1>1, <1>2, SameMap
  <1>5. LimitsKept'
    BY <1>1, <1>3 DEF LimitsKept
  <1>6. MinersExact'
    BY <1>1 DEF MinersExact, AuthorizedIn
  <1> QED BY <1>1, <1>2, <1>4, <1>5, <1>6

-----------------------------------------------------------------------------
\* The initial state satisfies the inductive invariant.
LEMMA InitIInv == Init => IInv
  <1> SUFFICES ASSUME Init PROVE IInv
    OBVIOUS
  <1>1. TypeOK
    <2>1. NoClientAddress \in Addresses
      BY SessionsAssumption DEF NoClientAddress
    <2> QED BY <2>1, SessionsAssumption DEF Init, TypeOK
  <1>2. MapFollowsSockets
    BY FS_EmptySet DEF Init, MapFollowsSockets
  <1>3. IpCountExact
    <2>1. \A a \in Addresses : HeldBy(a) = {}
      BY DEF Init, HeldBy
    <2>2. \A a \in Addresses : Cardinality(HeldBy(a)) = 0
      BY <2>1, FS_EmptySet
    <2>3. \A a \in Addresses : ipCount[a] = 0
      BY DEF Init
    <2> QED BY <2>2, <2>3, SessionsAssumption DEF IpCountExact
  <1>4. MinersExact
    <2>1. AuthorizedIn(clients, authorized) = {}
      BY DEF Init, AuthorizedIn
    <2> QED BY <2>1, FS_EmptySet DEF Init, MinersExact
  <1>5. LimitsKept
    BY SessionsAssumption DEF Init, LimitsKept, Receiving, Live
  <1> QED BY <1>1, <1>2, <1>3, <1>4, <1>5 DEF IInv

\* Every step keeps it.
LEMMA NextIInv == IInv /\ [Next]_vars => IInv'
  <1> SUFFICES ASSUME IInv, [Next]_vars PROVE IInv'
    OBVIOUS
  <1>1. CASE UNCHANGED vars
    BY <1>1
    DEF vars, perConn, IInv, TypeOK, IpCountExact, HeldBy, MinersExact,
        AuthorizedIn, MapFollowsSockets, LimitsKept, Receiving, Live
  <1> QED
    BY <1>1, ConnectStep, EventStep, LineStep, TimerStep DEF Next

\* The inductive invariant holds throughout.
THEOREM Invariance == Spec => []IInv
  BY InitIInv, NextIInv, PTL DEF Spec

\* Every variable keeps its type, the message counters their limits.
THEOREM TypeCorrect == Spec => []TypeOK
  <1>1. IInv => TypeOK
    BY DEF IInv
  <1> QED BY <1>1, Invariance, PTL

\* The connection count of every address is exact and within the limit.
THEOREM ExactIpCount == Spec => []IpCountExact
  <1>1. IInv => IpCountExact
    BY DEF IInv
  <1> QED BY <1>1, Invariance, PTL

\* The reported number of miners is exact.
THEOREM ExactMiners == Spec => []MinersExact
  <1>1. IInv => MinersExact
    BY DEF IInv
  <1> QED BY <1>1, Invariance, PTL

\* However close, error, timeouts, the sweep and messages interleave, for any
\* number of clients: a client is in the map exactly until its first cleanup,
\* which comes no later than the end of its socket, and a socket that is still
\* read is below its message limits.
THEOREM NoClientLeaks == Spec => [](MapFollowsSockets /\ LimitsKept)
  <1>1. IInv => MapFollowsSockets /\ LimitsKept
    BY DEF IInv
  <1> QED BY <1>1, Invariance, PTL
=============================================================================
