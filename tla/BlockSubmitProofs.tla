--------------------------- MODULE BlockSubmitProofs ---------------------------
(***************************************************************************)
(* BlockSubmit for every number of handlers, blocks and attempts, and every *)
(* length of the history.                                                  *)
(***************************************************************************)
EXTENDS BlockSubmit, FiniteSetTheorems, SequenceTheorems, TLAPS

Stats == [shares : 0 .. MaxShares, candidates : 0 .. MaxCandidates,
          blocks : Nat, rejected : Nat]

-----------------------------------------------------------------------------
\* A handler that waits for submitblock is one of the waiting states.
LEMMA SubmittingShape ==
    ASSUME TypeOK, NEW h \in Handlers, IsSubmitting(h)
    PROVE  \E b \in Blocks, n \in 1 .. Attempts, r \in Replies, a \in 0 .. 1 :
              handler[h] = Submitting(b, n, r, a)
  <1>1. handler[h] \in HandlerStates
    BY DEF TypeOK
  <1>2. handler[h] # Idle /\ \A b \in Blocks : handler[h] # Proposing(b)
    BY DEF IsSubmitting, Idle, Proposing
  <1> QED BY <1>1, <1>2 DEF HandlerStates

\* The handlers that wait are finitely many.
LEMMA OutstandingFinite == IsFiniteSet(Outstanding) /\ Cardinality(Outstanding) \in Nat
  <1>1. IsFiniteSet(Outstanding)
    BY BlockSubmitAssumption, FS_Subset DEF Outstanding
  <1> QED BY <1>1, FS_CardinalityType

\* Giving one handler a new state takes it out of Outstanding, adds it, or
\* leaves it there.
LEMMA OutstandingUpdate ==
    ASSUME handler \in [Handlers -> HandlerStates], NEW h \in Handlers, NEW s,
           handler' = [handler EXCEPT ![h] = s]
    PROVE  Outstanding' = IF s.at = "submit" THEN Outstanding \cup {h}
                                             ELSE Outstanding \ {h}
  BY DEF Outstanding, IsSubmitting

\* A save leaves the file as it was or writes what it was given.
LEMMA SaveIsFile ==
    ASSUME NEW st \in Stats, NEW best \in Difficulties \cup {0}, NEW hist \in Seq(Blocks),
           disk \in Files, SaveTo(FileOf(st, best, hist))
    PROVE  /\ disk' \in Files
           /\ disk' = disk \/ disk' = FileOf(st, best, hist)
  BY DEF SaveTo, FileOf, Files, Stats

\* Cutting the history leaves a sequence of blocks.
LEMMA LastNType == ASSUME NEW s \in Seq(Blocks) PROVE LastN(s) \in Seq(Blocks)
  <1>1. CASE Len(s) > MaxHistory
    <2>1. /\ Len(s) \in Nat /\ MaxHistory \in Nat
          /\ Len(s) - MaxHistory + 1 \in Int
          /\ Len(s) - MaxHistory + 1 >= 1
      BY <1>1, BlockSubmitAssumption
    <2>2. SubSeq(s, Len(s) - MaxHistory + 1, Len(s)) \in Seq(Blocks)
      BY <2>1
    <2> QED BY <1>1, <2>2 DEF LastN
  <1>2. CASE ~(Len(s) > MaxHistory)
    BY <1>2 DEF LastN
  <1> QED BY <1>1, <1>2

-----------------------------------------------------------------------------
\* A share is counted, and a new best one may be saved.
LEMMA NoteShareStep ==
    ASSUME IInv, NEW d \in Difficulties, NoteShare(d), stats.shares < MaxShares
    PROVE  /\ Counted \in Stats
           /\ allTimeBest' \in Difficulties \cup {0}
           /\ allTimeBest' >= allTimeBest
           /\ disk' \in Files
           /\ \/ disk' = disk
              \/ disk' = FileOf(Counted, d, blockHistory) /\ allTimeBest' = d
  <1>1. stats \in Stats /\ stats.shares + 1 \in 0 .. MaxShares
    BY BlockSubmitAssumption DEF IInv, TypeOK, Stats
  <1>2. Counted \in Stats
    BY <1>1 DEF Counted, Stats
  <1>3. /\ d \in Nat /\ allTimeBest \in Nat /\ allTimeBest \in Difficulties \cup {0}
        /\ disk \in Files /\ blockHistory \in Seq(Blocks)
    BY BlockSubmitAssumption DEF IInv, TypeOK
  <1>4. CASE d > allTimeBest
    <2>1. allTimeBest' = d /\ SaveTo(FileOf(Counted, d, blockHistory))
      BY <1>4 DEF NoteShare
    <2>2. disk' \in Files /\ (disk' = disk \/ disk' = FileOf(Counted, d, blockHistory))
      BY <1>2, <1>3, <2>1, SaveIsFile
    <2> QED BY <1>2, <1>3, <1>4, <2>1, <2>2
  <1>5. CASE ~(d > allTimeBest)
    <2>1. UNCHANGED <<allTimeBest, disk>>
      BY <1>5 DEF NoteShare
    <2> QED BY <1>2, <1>3, <2>1
  <1> QED BY <1>4, <1>5

-----------------------------------------------------------------------------
\* How many handlers wait after one of them got a new state.
LEMMA CardinalityUpdate ==
    ASSUME TypeOK, NEW h \in Handlers, NEW s, handler' = [handler EXCEPT ![h] = s]
    PROVE  /\ Cardinality(Outstanding)' \in Nat
           /\ Cardinality(Outstanding)' =
                 IF s.at = "submit"
                 THEN IF IsSubmitting(h) THEN Cardinality(Outstanding)
                                         ELSE Cardinality(Outstanding) + 1
                 ELSE IF IsSubmitting(h) THEN Cardinality(Outstanding) - 1
                                         ELSE Cardinality(Outstanding)
  <1>1. Outstanding' = IF s.at = "submit" THEN Outstanding \cup {h}
                                          ELSE Outstanding \ {h}
    BY OutstandingUpdate DEF TypeOK
  <1>2. h \in Outstanding <=> IsSubmitting(h)
    BY DEF Outstanding
  <1>3. IsFiniteSet(Outstanding) /\ Cardinality(Outstanding) \in Nat
    BY OutstandingFinite
  <1>4. CASE s.at = "submit"
    <2>1. /\ IsFiniteSet(Outstanding \cup {h})
          /\ Cardinality(Outstanding \cup {h}) =
                IF h \in Outstanding THEN Cardinality(Outstanding)
                                     ELSE Cardinality(Outstanding) + 1
      BY <1>3, FS_AddElement
    <2> QED BY <1>1, <1>2, <1>3, <1>4, <2>1
  <1>5. CASE ~(s.at = "submit")
    <2>1. /\ IsFiniteSet(Outstanding \ {h})
          /\ Cardinality(Outstanding \ {h}) =
                IF h \in Outstanding THEN Cardinality(Outstanding) - 1
                                     ELSE Cardinality(Outstanding)
      BY <1>3, FS_RemoveElement
    <2>2. Cardinality(Outstanding \ {h}) \in Nat
      BY <2>1, FS_CardinalityType
    <2> QED BY <1>1, <1>2, <1>5, <2>1, <2>2
  <1> QED BY <1>4, <1>5

\* Counters that only grow, and a file that stays or is written from memory.
LEMMA Bookkeeping ==
    ASSUME IInv,
           stats' \in Stats, allTimeBest' \in Difficulties \cup {0},
           Cardinality(Outstanding)' \in Nat,
           stats'.blocks + stats'.rejected + Cardinality(Outstanding)' <= stats'.candidates,
           stats'.blocks >= stats.blocks, stats'.rejected >= stats.rejected,
           stats'.candidates >= stats.candidates, allTimeBest' >= allTimeBest,
           disk' = disk \/ disk' = FileOf(stats', allTimeBest', blockHistory')
    PROVE  OutcomesHaveCandidates' /\ MemoryAheadOfDisk'
  <1>1. /\ allTimeBest \in Nat /\ allTimeBest' \in Nat
        /\ disk.best \in Nat /\ disk.candidates \in Nat
        /\ disk.blocks \in Nat /\ disk.rejected \in Nat
        /\ stats \in Stats
    <2>1. \A d \in Difficulties \cup {0} : d \in Nat
      BY BlockSubmitAssumption
    <2>2. /\ allTimeBest \in Difficulties \cup {0} /\ disk \in Files /\ stats \in Stats
      BY DEF IInv, TypeOK, Stats
    <2>3. /\ disk.best \in Difficulties \cup {0} /\ disk.candidates \in 0 .. MaxCandidates
          /\ disk.blocks \in Nat /\ disk.rejected \in Nat
      BY <2>2 DEF Files
    <2> QED BY <2>1, <2>2, <2>3
  <1>2. /\ stats.blocks \in Nat /\ stats.rejected \in Nat /\ stats.candidates \in Nat
        /\ stats'.blocks \in Nat /\ stats'.rejected \in Nat /\ stats'.candidates \in Nat
    BY <1>1, BlockSubmitAssumption DEF Stats
  <1>3. CASE disk' = disk
    BY <1>1, <1>2, <1>3 DEF IInv, OutcomesHaveCandidates, MemoryAheadOfDisk
  <1>4. CASE disk' = FileOf(stats', allTimeBest', blockHistory')
    <2>1. /\ disk'.blocks = stats'.blocks /\ disk'.rejected = stats'.rejected
          /\ disk'.candidates = stats'.candidates /\ disk'.best = allTimeBest'
      BY <1>4 DEF FileOf
    <2> QED BY <1>1, <1>2, <2>1 DEF OutcomesHaveCandidates, MemoryAheadOfDisk
  <1> QED BY <1>3, <1>4

\* The states a handler can be given.
LEMMA StateTypes ==
    /\ Idle \in HandlerStates /\ Idle.at # "submit"
    /\ \A b \in Blocks : Proposing(b) \in HandlerStates /\ Proposing(b).at # "submit"
    /\ \A b \in Blocks, n \in 1 .. Attempts, r \in Replies, a \in 0 .. 1 :
          /\ Submitting(b, n, r, a) \in HandlerStates
          /\ Submitting(b, n, r, a).at = "submit"
  <1>1. /\ Idle \in HandlerStates
        /\ \A b \in Blocks : Proposing(b) \in HandlerStates
        /\ \A b \in Blocks, n \in 1 .. Attempts, r \in Replies, a \in 0 .. 1 :
              Submitting(b, n, r, a) \in HandlerStates
    BY DEF HandlerStates
  <1>2. /\ Idle.at # "submit"
        /\ \A b : Proposing(b).at # "submit"
        /\ \A b, n, r, a : Submitting(b, n, r, a).at = "submit"
    BY DEF Idle, Proposing, Submitting
  <1> QED BY <1>1, <1>2

-----------------------------------------------------------------------------
\* The pool starts with nothing counted and nothing written.
LEMMA InitStep == Init => IInv
  <1> SUFFICES ASSUME Init PROVE IInv
    OBVIOUS
  <1>1. 0 \in 0 .. MaxShares /\ 0 \in 0 .. MaxCandidates /\ <<>> \in Seq(Blocks)
    BY BlockSubmitAssumption
  <1>2. ZeroStats \in Stats /\ NoFile \in Files
    BY <1>1 DEF ZeroStats, Stats, NoFile, FileOf, Files
  <1>3. TypeOK
    <2>1. Never \in Never .. Window + 1
      BY BlockSubmitAssumption DEF Never
    <2>2. handler \in [Handlers -> HandlerStates]
      BY StateTypes DEF Init
    <2> QED BY <1>1, <1>2, <2>1, <2>2 DEF Init, TypeOK, Stats
  <1>4. Cardinality(Outstanding) = 0
    <2>1. Outstanding = {}
      BY StateTypes DEF Init, Outstanding, IsSubmitting
    <2> QED BY <2>1, FS_EmptySet
  <1>5. OutcomesHaveCandidates /\ MemoryAheadOfDisk
    BY <1>4 DEF Init, OutcomesHaveCandidates, MemoryAheadOfDisk, ZeroStats, NoFile, FileOf
  <1> QED BY <1>3, <1>5 DEF IInv

\* A share that is no block changes the share count and perhaps the best share.
LEMMA AcceptShareStep ==
    ASSUME IInv, NEW d \in Difficulties, AcceptShare(d)
    PROVE  IInv'
  <1>1. /\ Counted \in Stats
        /\ allTimeBest' \in Difficulties \cup {0} /\ allTimeBest' >= allTimeBest
        /\ disk' \in Files
        /\ disk' = disk \/ (disk' = FileOf(Counted, d, blockHistory) /\ allTimeBest' = d)
    BY NoteShareStep DEF AcceptShare
  <1>2. stats' = Counted /\ UNCHANGED <<handler, recentBlockSubmissions, mined, blockHistory>>
    BY DEF AcceptShare
  <1>3. Cardinality(Outstanding)' = Cardinality(Outstanding)
    BY <1>2 DEF Outstanding, IsSubmitting
  <1>4. /\ Counted.blocks = stats.blocks /\ Counted.rejected = stats.rejected
        /\ Counted.candidates = stats.candidates
    BY DEF Counted, IInv, TypeOK
  <1>5. OutcomesHaveCandidates' /\ MemoryAheadOfDisk'
    <2>1. /\ stats.blocks \in Nat /\ stats.rejected \in Nat /\ stats.candidates \in Nat
      BY BlockSubmitAssumption DEF IInv, TypeOK
    <2>2. stats'.blocks + stats'.rejected + Cardinality(Outstanding)' <= stats'.candidates
      BY <1>2, <1>3, <1>4 DEF IInv, OutcomesHaveCandidates
    <2> QED BY <1>1, <1>2, <1>3, <1>4, <2>1, <2>2, OutstandingFinite, Bookkeeping
  <1>6. TypeOK'
    BY <1>1, <1>2 DEF IInv, TypeOK, Stats
  <1> QED BY <1>5, <1>6 DEF IInv

\* The arithmetic of an outcome: one more counted, one fewer waiting.
LEMMA Balance ==
    \A counted, waiting, candidates, more, fewer \in Nat :
        counted + waiting <= candidates /\ more <= counted + 1 /\ fewer = waiting - 1
        => more + fewer <= candidates
  OBVIOUS

\* What has to be shown of a step that moves one handler, for any such step:
\* the outcomes counted and the handlers waiting together do not outgrow the
\* candidates, and the counters do not shrink.
LEMMA HandlerMove ==
    ASSUME IInv, NEW h \in Handlers, NEW s \in HandlerStates,
           handler' = [handler EXCEPT ![h] = s],
           recentBlockSubmissions' \in [Blocks -> Never .. Window + 1],
           mined' \in SUBSET Blocks,
           stats' \in Stats, stats'.blocks >= stats.blocks,
           stats'.rejected >= stats.rejected, stats'.candidates = stats.candidates,
           allTimeBest' = allTimeBest,
           blockHistory' \in Seq(Blocks),
           disk' = disk \/ disk' = FileOf(stats', allTimeBest', blockHistory'),
           stats'.blocks + stats'.rejected <=
              IF IsSubmitting(h) /\ s.at # "submit"
              THEN stats.blocks + stats.rejected + 1
              ELSE stats.blocks + stats.rejected,
           s.at = "submit" => IsSubmitting(h)
    PROVE  IInv'
  <1>1. TypeOK /\ OutcomesHaveCandidates
    BY DEF IInv
  <1>2. /\ Cardinality(Outstanding) \in Nat /\ Cardinality(Outstanding)' \in Nat
        /\ Cardinality(Outstanding)' =
              IF IsSubmitting(h) /\ s.at # "submit" THEN Cardinality(Outstanding) - 1
                                                   ELSE Cardinality(Outstanding)
    BY <1>1, CardinalityUpdate, OutstandingFinite
  <1>3. /\ stats.blocks \in Nat /\ stats.rejected \in Nat /\ stats.candidates \in Nat
        /\ stats'.blocks \in Nat /\ stats'.rejected \in Nat
    BY <1>1, BlockSubmitAssumption DEF TypeOK, Stats
  <1>4. stats'.blocks + stats'.rejected + Cardinality(Outstanding)' <= stats'.candidates
    <2>1. stats.blocks + stats.rejected + Cardinality(Outstanding) <= stats.candidates
      BY <1>1 DEF OutcomesHaveCandidates
    <2>2. CASE IsSubmitting(h) /\ s.at # "submit"
      <3>1. /\ Cardinality(Outstanding)' = Cardinality(Outstanding) - 1
            /\ stats'.blocks + stats'.rejected <= stats.blocks + stats.rejected + 1
        BY <1>2, <2>2
      <3>2. /\ stats'.blocks + stats'.rejected \in Nat
            /\ stats.blocks + stats.rejected \in Nat
        BY <1>3
      <3>3. (stats'.blocks + stats'.rejected) + Cardinality(Outstanding)' <= stats.candidates
        BY ONLY <1>2, <1>3, <2>1, <3>1, <3>2, Balance
      <3> QED BY <3>3
    <2>3. CASE ~(IsSubmitting(h) /\ s.at # "submit")
      <3>1. /\ Cardinality(Outstanding)' = Cardinality(Outstanding)
            /\ stats'.blocks + stats'.rejected <= stats.blocks + stats.rejected
        BY <1>2, <2>3
      <3> QED BY SMTT(60), <1>2, <1>3, <2>1, <3>1
    <2> QED BY <2>2, <2>3
  <1>5. allTimeBest' \in Difficulties \cup {0} /\ allTimeBest' >= allTimeBest
    BY <1>1, BlockSubmitAssumption DEF TypeOK
  <1>6. OutcomesHaveCandidates' /\ MemoryAheadOfDisk'
    BY <1>2, <1>3, <1>4, <1>5, Bookkeeping
  <1>7. disk' \in Files
    <2>1. FileOf(stats', allTimeBest', blockHistory') \in Files
      BY <1>5 DEF FileOf, Files, Stats
    <2> QED BY <1>1, <2>1 DEF TypeOK
  <1>8. handler' \in [Handlers -> HandlerStates]
    BY <1>1 DEF TypeOK
  <1>9. TypeOK'
    BY <1>5, <1>7, <1>8 DEF TypeOK, Stats
  <1> QED BY <1>6, <1>9 DEF IInv

\* The types of what a handler's step leaves alone.
LEMMA Unmoved ==
    ASSUME IInv
    PROVE  /\ handler \in [Handlers -> HandlerStates]
           /\ recentBlockSubmissions \in [Blocks -> Never .. Window + 1]
           /\ mined \in SUBSET Blocks
           /\ stats \in Stats
           /\ stats.blocks \in Nat /\ stats.rejected \in Nat
           /\ blockHistory \in Seq(Blocks)
           /\ disk \in Files
           /\ allTimeBest \in Difficulties \cup {0}
  BY DEF IInv, TypeOK, Stats

\* The node answers a waiting call, which keeps waiting for the answer to arrive.
LEMMA NodeDecidesStep ==
    ASSUME IInv, NEW h \in Handlers, NodeDecides(h)
    PROVE  IInv'
  <1>1. PICK b \in Blocks, n \in 1 .. Attempts, r \in Replies, a \in 0 .. 1 :
           handler[h] = Submitting(b, n, r, a)
    BY SubmittingShape DEF NodeDecides, IInv
  <1>2. PICK q \in Replies : handler' = [handler EXCEPT ![h] = Submitting(b, n, q, a)]
    <2>1. \A q : [handler[h] EXCEPT !.reply = q] = Submitting(b, n, q, a)
      BY <1>1 DEF Submitting
    <2>2. \/ handler' = [handler EXCEPT ![h] = [handler[h] EXCEPT !.reply = "accepted"]]
          \/ handler' = [handler EXCEPT ![h] = [handler[h] EXCEPT !.reply = "refused"]]
      BY DEF NodeDecides
    <2> QED BY <2>1, <2>2 DEF Replies
  <1>3. mined' \in SUBSET Blocks
    <2>1. handler[h].block \in Blocks
      BY <1>1 DEF Submitting
    <2> QED BY <2>1, Unmoved DEF NodeDecides
  <1>4. UNCHANGED <<recentBlockSubmissions, stats, allTimeBest, blockHistory, disk>>
    BY DEF NodeDecides, memory
  <1>5. Submitting(b, n, q, a) \in HandlerStates /\ IsSubmitting(h)
    BY StateTypes DEF NodeDecides
  <1>6. /\ stats'.blocks >= stats.blocks /\ stats'.rejected >= stats.rejected
        /\ stats'.blocks + stats'.rejected <= stats.blocks + stats.rejected
    BY <1>4, Unmoved
  <1>7. Submitting(b, n, q, a).at = "submit"
    BY StateTypes
  <1> QED BY <1>2, <1>3, <1>4, <1>5, <1>6, <1>7, Unmoved, HandlerMove

\* The next parameter shape is tried by the same handler.
LEMMA RetryStep ==
    ASSUME IInv, NEW h \in Handlers, Retry(h)
    PROVE  IInv'
  <1>1. PICK b \in Blocks, n \in 1 .. Attempts, r \in Replies, a \in 0 .. 1 :
           handler[h] = Submitting(b, n, r, a)
    BY SubmittingShape DEF Retry, IInv
  <1>2. /\ handler' = [handler EXCEPT ![h] = Submitting(b, n + 1, "none", 0)]
        /\ n + 1 \in 1 .. Attempts
    <2>1. handler[h].block = b /\ handler[h].attempt = n
      BY <1>1 DEF Submitting
    <2> QED BY <2>1, BlockSubmitAssumption DEF Retry
  <1>3. UNCHANGED <<recentBlockSubmissions, mined, stats, allTimeBest, blockHistory, disk>>
    BY DEF Retry, memory
  <1>4. /\ Submitting(b, n + 1, "none", 0) \in HandlerStates
        /\ Submitting(b, n + 1, "none", 0).at = "submit"
        /\ IsSubmitting(h)
    BY <1>2, StateTypes DEF Retry, Replies
  <1>5. /\ stats'.blocks >= stats.blocks /\ stats'.rejected >= stats.rejected
        /\ stats'.blocks + stats'.rejected <= stats.blocks + stats.rejected
    BY <1>3, Unmoved
  <1> QED BY <1>2, <1>3, <1>4, <1>5, Unmoved, HandlerMove

\* Counting an outcome leaves the other counters alone.
LEMMA CountOutcome ==
    ASSUME NEW st \in Stats
    PROVE  LET mine == [st EXCEPT !.blocks = @ + 1]
               none == [st EXCEPT !.rejected = @ + 1]
           IN  /\ mine \in Stats /\ none \in Stats
               /\ mine.blocks = st.blocks + 1 /\ mine.rejected = st.rejected
               /\ none.blocks = st.blocks /\ none.rejected = st.rejected + 1
               /\ mine.candidates = st.candidates /\ none.candidates = st.candidates
  BY DEF Stats

\* The block counts as mined: one more outcome, one fewer handler waiting.
LEMMA AcceptedStep ==
    ASSUME IInv, NEW h \in Handlers, Accepted(h)
    PROVE  IInv'
  <1>1. PICK b \in Blocks, n \in 1 .. Attempts, r \in Replies, a \in 0 .. 1 :
           handler[h] = Submitting(b, n, r, a)
    BY SubmittingShape DEF Accepted, IInv
  <1>2. stats' = [stats EXCEPT !.blocks = @ + 1] /\ UNCHANGED allTimeBest
    BY DEF Accepted
  <1>3. /\ stats' \in Stats
        /\ stats'.blocks = stats.blocks + 1 /\ stats'.rejected = stats.rejected
        /\ stats'.candidates = stats.candidates
    BY <1>2, Unmoved, CountOutcome
  <1>4. blockHistory' \in Seq(Blocks)
    <2>1. handler[h].block \in Blocks
      BY <1>1 DEF Submitting
    <2>2. Append(blockHistory, handler[h].block) \in Seq(Blocks)
      BY <2>1, Unmoved
    <2> QED BY <2>2, LastNType DEF Accepted
  <1>5. disk' = disk \/ disk' = FileOf(stats', allTimeBest', blockHistory')
    BY <1>2 DEF Accepted, SaveTo
  <1>6. Idle \in HandlerStates /\ Idle.at # "submit" /\ IsSubmitting(h)
    BY StateTypes DEF Accepted
  <1>7. /\ stats'.blocks >= stats.blocks /\ stats'.rejected >= stats.rejected
        /\ stats'.blocks + stats'.rejected <= stats.blocks + stats.rejected + 1
    BY <1>3, Unmoved
  <1>8. /\ handler' = [handler EXCEPT ![h] = Idle]
        /\ UNCHANGED <<recentBlockSubmissions, mined>>
    BY DEF Accepted
  <1> QED BY <1>2, <1>3, <1>4, <1>5, <1>6, <1>7, <1>8, Unmoved, HandlerMove

\* The block counts as refused, and its handler goes on to the proposal.
LEMMA RefusedStep ==
    ASSUME IInv, NEW h \in Handlers, Refused(h)
    PROVE  IInv'
  <1>1. PICK b \in Blocks, n \in 1 .. Attempts, r \in Replies, a \in 0 .. 1 :
           handler[h] = Submitting(b, n, r, a)
    BY SubmittingShape DEF Refused, IInv
  <1>2. /\ stats' = [stats EXCEPT !.rejected = @ + 1]
        /\ UNCHANGED <<recentBlockSubmissions, mined, allTimeBest, blockHistory, disk>>
    BY DEF Refused
  <1>3. /\ stats' \in Stats
        /\ stats'.blocks = stats.blocks /\ stats'.rejected = stats.rejected + 1
        /\ stats'.candidates = stats.candidates
    BY <1>2, Unmoved, CountOutcome
  <1>4. handler' = [handler EXCEPT ![h] = Proposing(b)]
    BY <1>1 DEF Refused, Submitting
  <1>5. Proposing(b) \in HandlerStates /\ Proposing(b).at # "submit" /\ IsSubmitting(h)
    BY StateTypes DEF Refused
  <1>6. /\ stats'.blocks >= stats.blocks /\ stats'.rejected >= stats.rejected
        /\ stats'.blocks + stats'.rejected <= stats.blocks + stats.rejected + 1
    BY <1>3, Unmoved
  <1> QED BY <1>2, <1>3, <1>4, <1>5, <1>6, Unmoved, HandlerMove

\* The proposal is over: nothing is counted, the file may be written.
LEMMA ProposedStep ==
    ASSUME IInv, NEW h \in Handlers, Proposed(h)
    PROVE  IInv'
  <1>1. /\ handler' = [handler EXCEPT ![h] = Idle]
        /\ UNCHANGED <<recentBlockSubmissions, mined, stats, allTimeBest, blockHistory>>
        /\ disk' = disk \/ disk' = FileOf(stats', allTimeBest', blockHistory')
    BY DEF Proposed, memory, SaveTo
  <1>2. Idle \in HandlerStates /\ Idle.at # "submit" /\ ~IsSubmitting(h)
    BY StateTypes DEF Proposed, IsSubmitting
  <1>3. /\ stats'.blocks >= stats.blocks /\ stats'.rejected >= stats.rejected
        /\ stats'.blocks + stats'.rejected <= stats.blocks + stats.rejected
    BY <1>1, Unmoved
  <1> QED BY <1>1, <1>2, <1>3, Unmoved, HandlerMove

\* A call that throws counts as refused.
LEMMA FailedStep ==
    ASSUME IInv, NEW h \in Handlers, Failed(h)
    PROVE  IInv'
  <1>1. /\ stats' = [stats EXCEPT !.rejected = @ + 1]
        /\ UNCHANGED <<recentBlockSubmissions, mined, allTimeBest, blockHistory>>
        /\ handler' = [handler EXCEPT ![h] = Idle]
    BY DEF Failed
  <1>2. disk' = disk \/ disk' = FileOf(stats', allTimeBest', blockHistory')
    BY <1>1 DEF Failed, SaveTo
  <1>3. /\ stats' \in Stats
        /\ stats'.blocks = stats.blocks /\ stats'.rejected = stats.rejected + 1
        /\ stats'.candidates = stats.candidates
    BY <1>1, Unmoved, CountOutcome
  <1>4. Idle \in HandlerStates /\ Idle.at # "submit" /\ IsSubmitting(h)
    BY StateTypes DEF Failed
  <1>5. /\ stats'.blocks >= stats.blocks /\ stats'.rejected >= stats.rejected
        /\ stats'.blocks + stats'.rejected <= stats.blocks + stats.rejected + 1
    BY <1>3, Unmoved
  <1> QED BY <1>1, <1>2, <1>3, <1>4, <1>5, Unmoved, HandlerMove

-----------------------------------------------------------------------------
\* What has to be shown of a step of the timers: no handler starts or stops
\* waiting and nothing is counted.
LEMMA TimerMove ==
    ASSUME IInv,
           handler' \in [Handlers -> HandlerStates],
           \A h \in Handlers : IsSubmitting(h)' = IsSubmitting(h),
           recentBlockSubmissions' \in [Blocks -> Never .. Window + 1],
           UNCHANGED <<mined, stats, allTimeBest, blockHistory>>,
           disk' = disk \/ disk' = FileOf(stats', allTimeBest', blockHistory')
    PROVE  IInv'
  <1>1. TypeOK /\ OutcomesHaveCandidates
    BY DEF IInv
  <1>2. Outstanding' = Outstanding
    BY DEF Outstanding
  <1>3. /\ stats.blocks \in Nat /\ stats.rejected \in Nat /\ stats.candidates \in Nat
        /\ allTimeBest \in Nat
    BY <1>1, BlockSubmitAssumption DEF TypeOK
  <1>4. stats'.blocks + stats'.rejected + Cardinality(Outstanding)' <= stats'.candidates
    BY <1>1, <1>2 DEF OutcomesHaveCandidates
  <1>5. OutcomesHaveCandidates' /\ MemoryAheadOfDisk'
    <2>1. Cardinality(Outstanding)' \in Nat
      BY <1>2, OutstandingFinite
    <2>2. /\ stats'.blocks >= stats.blocks /\ stats'.rejected >= stats.rejected
          /\ stats'.candidates >= stats.candidates /\ allTimeBest' >= allTimeBest
      BY <1>3
    <2> QED BY <1>4, <2>1, <2>2, Unmoved, Bookkeeping
  <1>6. disk' \in Files
    <2>1. FileOf(stats', allTimeBest', blockHistory') \in Files
      BY Unmoved DEF FileOf, Files, Stats
    <2> QED BY <2>1, Unmoved
  <1>7. TypeOK'
    BY <1>1, <1>6 DEF TypeOK
  <1> QED BY <1>5, <1>7 DEF IInv

\* Time passes: calls and entries age.
LEMMA TickStep ==
    ASSUME IInv, Tick
    PROVE  IInv'
  <1>1. UNCHANGED <<mined, stats, allTimeBest, blockHistory, disk>>
    BY DEF Tick, memory
  <1>2. \A h \in Handlers : /\ handler'[h] \in HandlerStates
                            /\ IsSubmitting(h)' = IsSubmitting(h)
    <2> TAKE h \in Handlers
    <2>1. CASE IsSubmitting(h)
      <3>1. PICK b \in Blocks, n \in 1 .. Attempts, r \in Replies, a \in 0 .. 1 :
               handler[h] = Submitting(b, n, r, a)
        BY <2>1, SubmittingShape DEF IInv
      <3>2. handler'[h] = Submitting(b, n, r, 1)
        BY <2>1, <3>1 DEF Tick, Submitting
      <3>3. /\ Submitting(b, n, r, 1) \in HandlerStates
            /\ Submitting(b, n, r, 1).at = "submit"
        BY StateTypes
      <3> QED BY <2>1, <3>2, <3>3 DEF IsSubmitting
    <2>2. CASE ~IsSubmitting(h)
      <3>1. handler'[h] = handler[h]
        BY <2>2 DEF Tick
      <3> QED BY <3>1, Unmoved DEF IsSubmitting
    <2> QED BY <2>1, <2>2
  <1>3. handler' \in [Handlers -> HandlerStates]
    BY <1>2 DEF Tick
  <1>4. recentBlockSubmissions' \in [Blocks -> Never .. Window + 1]
    BY SMTT(60), BlockSubmitAssumption, Unmoved DEF Tick, Never
  <1> QED BY <1>1, <1>2, <1>3, <1>4, TimerMove

\* The clean-up timer only forgets old entries.
LEMMA PruneStep ==
    ASSUME IInv, Prune
    PROVE  IInv'
  <1>1. UNCHANGED <<handler, mined, stats, allTimeBest, blockHistory, disk>>
    BY DEF Prune, memory
  <1>2. recentBlockSubmissions' \in [Blocks -> Never .. Window + 1]
    BY BlockSubmitAssumption, Unmoved DEF Prune, Never
  <1>3. \A h \in Handlers : IsSubmitting(h)' = IsSubmitting(h)
    BY <1>1 DEF IsSubmitting
  <1> QED BY <1>1, <1>2, <1>3, Unmoved, TimerMove

\* The timer writes what memory holds.
LEMMA SaveTimerStep ==
    ASSUME IInv, SaveTimer
    PROVE  IInv'
  <1>1. /\ UNCHANGED <<handler, recentBlockSubmissions, mined, stats, allTimeBest, blockHistory>>
        /\ disk' = disk \/ disk' = FileOf(stats', allTimeBest', blockHistory')
    BY DEF SaveTimer, memory, SaveTo
  <1>2. \A h \in Handlers : IsSubmitting(h)' = IsSubmitting(h)
    BY <1>1 DEF IsSubmitting
  <1> QED BY <1>1, <1>2, Unmoved, TimerMove

-----------------------------------------------------------------------------
\* A candidate is counted, and a handler may start to wait for its outcome.
\* The file, if one is written for a best share, has the count from before.
LEMMA FindBlockStep ==
    ASSUME IInv, NEW h \in Handlers, NEW b \in Blocks, NEW d \in Difficulties,
           FindBlock(h, b, d)
    PROVE  IInv'
  <1>1. /\ Counted \in Stats
        /\ allTimeBest' \in Difficulties \cup {0} /\ allTimeBest' >= allTimeBest
        /\ disk' \in Files
        /\ disk' = disk \/ (disk' = FileOf(Counted, d, blockHistory) /\ allTimeBest' = d)
    BY NoteShareStep DEF FindBlock
  <1>2. /\ stats' = [Counted EXCEPT !.candidates = @ + 1]
        /\ UNCHANGED <<mined, blockHistory>>
    BY DEF FindBlock
  <1>3. /\ Counted.blocks = stats.blocks /\ Counted.rejected = stats.rejected
        /\ Counted.candidates = stats.candidates
    BY DEF Counted, IInv, TypeOK
  <1>4. /\ stats.blocks \in Nat /\ stats.rejected \in Nat /\ stats.candidates \in Nat
        /\ stats.candidates + 1 \in 0 .. MaxCandidates
        /\ allTimeBest \in Nat /\ allTimeBest' \in Nat
        /\ disk.blocks \in Nat /\ disk.rejected \in Nat /\ disk.candidates \in Nat
        /\ disk.best \in Nat
    <2>1. \A x \in Difficulties \cup {0} : x \in Nat
      BY BlockSubmitAssumption
    <2>2. /\ stats.candidates \in 0 .. MaxCandidates /\ stats.candidates < MaxCandidates
          /\ stats.blocks \in Nat /\ stats.rejected \in Nat
      BY Unmoved DEF FindBlock, Stats
    <2>3. /\ disk.blocks \in Nat /\ disk.rejected \in Nat
          /\ disk.candidates \in 0 .. MaxCandidates /\ disk.best \in Difficulties \cup {0}
      BY Unmoved DEF Files
    <2>4. /\ stats.candidates \in Nat /\ stats.candidates + 1 \in 0 .. MaxCandidates
          /\ disk.candidates \in Nat
      BY <2>2, <2>3, BlockSubmitAssumption
    <2>5. allTimeBest \in Nat /\ allTimeBest' \in Nat /\ disk.best \in Nat
      BY <1>1, <2>1, <2>3, Unmoved
    <2> QED BY <2>2, <2>3, <2>4, <2>5
  <1>5. /\ stats' \in Stats
        /\ stats'.blocks = stats.blocks /\ stats'.rejected = stats.rejected
        /\ stats'.candidates = stats.candidates + 1
    BY <1>1, <1>2, <1>3, <1>4 DEF Stats
  <1>6. /\ handler' \in [Handlers -> HandlerStates]
        /\ recentBlockSubmissions' \in [Blocks -> Never .. Window + 1]
        /\ Cardinality(Outstanding)' \in Nat
        /\ Cardinality(Outstanding)' <= Cardinality(Outstanding) + 1
    <2>1. CASE Suppressed(b) /\ UNCHANGED <<handler, recentBlockSubmissions>>
      <3>1. Outstanding' = Outstanding
        BY <2>1 DEF Outstanding, IsSubmitting
      <3> QED BY <2>1, <3>1, Unmoved, OutstandingFinite
    <2>2. CASE ~Suppressed(b) /\ Submit(h, b)
      <3>1. /\ Submitting(b, 1, "none", 0) \in HandlerStates
            /\ Submitting(b, 1, "none", 0).at = "submit"
        BY BlockSubmitAssumption, StateTypes DEF Replies
      <3>2. handler' = [handler EXCEPT ![h] = Submitting(b, 1, "none", 0)]
        BY <2>2 DEF Submit
      <3>3. ~IsSubmitting(h)
        BY StateTypes DEF FindBlock, IsSubmitting
      <3>4. TypeOK
        BY DEF IInv
      <3>5. /\ Cardinality(Outstanding)' \in Nat
            /\ Cardinality(Outstanding)' = Cardinality(Outstanding) + 1
        BY <3>1, <3>2, <3>3, <3>4, CardinalityUpdate
      <3>6. recentBlockSubmissions' \in [Blocks -> Never .. Window + 1]
        BY <2>2, Unmoved, BlockSubmitAssumption DEF Submit, Never
      <3> QED BY <3>1, <3>2, <3>5, <3>6, Unmoved, OutstandingFinite
    <2> QED BY <2>1, <2>2 DEF FindBlock
  <1>7. stats'.blocks + stats'.rejected + Cardinality(Outstanding)' <= stats'.candidates
    <2>1. stats.blocks + stats.rejected + Cardinality(Outstanding) <= stats.candidates
      BY DEF IInv, OutcomesHaveCandidates
    <2>2. Cardinality(Outstanding) \in Nat
      BY OutstandingFinite
    <2>3. stats.blocks + stats.rejected + Cardinality(Outstanding)' <= stats.candidates + 1
      BY ONLY <1>4, <1>6, <2>1, <2>2
    <2> QED BY <1>5, <2>3
  <1>8. OutcomesHaveCandidates' /\ MemoryAheadOfDisk'
    <2>1. /\ disk.blocks <= stats.blocks /\ disk.rejected <= stats.rejected
          /\ disk.candidates <= stats.candidates /\ disk.best <= allTimeBest
          /\ disk.blocks + disk.rejected <= disk.candidates
          /\ stats.blocks + stats.rejected + Cardinality(Outstanding) <= stats.candidates
          /\ Cardinality(Outstanding) \in Nat
      BY OutstandingFinite DEF IInv, MemoryAheadOfDisk, OutcomesHaveCandidates
    <2>2. stats.blocks + stats.rejected <= stats.candidates
      BY ONLY <1>4, <2>1
    <2>3. CASE disk' = disk
      BY <1>1, <1>4, <1>5, <1>7, <2>1, <2>3 DEF OutcomesHaveCandidates, MemoryAheadOfDisk
    <2>4. CASE disk' = FileOf(Counted, d, blockHistory) /\ allTimeBest' = d
      <3>1. /\ disk'.blocks = stats.blocks /\ disk'.rejected = stats.rejected
            /\ disk'.candidates = stats.candidates /\ disk'.best = allTimeBest'
        BY <1>3, <2>4 DEF FileOf
      <3> QED BY <1>4, <1>5, <1>7, <2>2, <3>1 DEF OutcomesHaveCandidates, MemoryAheadOfDisk
    <2> QED BY <1>1, <2>3, <2>4
  <1>9. TypeOK'
    <2>1. mined' \in SUBSET Blocks /\ blockHistory' \in Seq(Blocks)
      BY <1>2, Unmoved
    <2> QED BY <1>1, <1>5, <1>6, <2>1 DEF TypeOK, Stats
  <1> QED BY <1>8, <1>9 DEF IInv

\* A restart: memory becomes what the file says, and nobody waits.
LEMMA Restart ==
    ASSUME IInv, disk' = disk \/ disk' = FileOf(stats, allTimeBest, blockHistory),
           LoadPersistedState(disk'),
           handler' = [h \in Handlers |-> Idle],
           recentBlockSubmissions' = [b \in Blocks |-> Never],
           UNCHANGED mined
    PROVE  IInv'
  <1>1. /\ disk' \in Files
        /\ disk'.blocks + disk'.rejected <= disk'.candidates
    <2>1. CASE disk' = disk
      BY <2>1, Unmoved DEF IInv, OutcomesHaveCandidates
    <2>2. CASE disk' = FileOf(stats, allTimeBest, blockHistory)
      <3>1. disk' \in Files
        BY <2>2, Unmoved DEF FileOf, Files, Stats
      <3>2. /\ disk'.blocks = stats.blocks /\ disk'.rejected = stats.rejected
            /\ disk'.candidates = stats.candidates
        BY <2>2 DEF FileOf
      <3>3. /\ stats.blocks + stats.rejected + Cardinality(Outstanding) <= stats.candidates
            /\ Cardinality(Outstanding) \in Nat
            /\ stats.blocks + stats.rejected \in Nat /\ stats.candidates \in Nat
        BY OutstandingFinite, Unmoved, BlockSubmitAssumption
        DEF IInv, OutcomesHaveCandidates, Stats
      <3>4. stats.blocks + stats.rejected <= stats.candidates
        BY ONLY <3>3
      <3> QED BY <3>1, <3>2, <3>4
    <2> QED BY <2>1, <2>2
  <1>2. /\ stats' = [shares |-> 0, candidates |-> disk'.candidates,
                     blocks |-> disk'.blocks, rejected |-> disk'.rejected]
        /\ allTimeBest' = disk'.best /\ blockHistory' = disk'.history
    BY DEF LoadPersistedState
  <1>3. /\ stats' \in Stats /\ allTimeBest' \in Difficulties \cup {0}
        /\ blockHistory' \in Seq(Blocks)
        /\ stats'.blocks = disk'.blocks /\ stats'.rejected = disk'.rejected
        /\ stats'.candidates = disk'.candidates
    BY <1>1, <1>2, BlockSubmitAssumption DEF Files, Stats
  <1>4. Cardinality(Outstanding)' = 0
    <2>1. Outstanding' = {}
      BY StateTypes DEF Outstanding, IsSubmitting
    <2> QED BY <2>1, FS_EmptySet
  <1>5. TypeOK'
    <2>1. /\ handler' \in [Handlers -> HandlerStates]
          /\ recentBlockSubmissions' \in [Blocks -> Never .. Window + 1]
      BY StateTypes, BlockSubmitAssumption DEF Never
    <2>2. mined' \in SUBSET Blocks
      BY Unmoved
    <2> QED BY <1>1, <1>3, <2>1, <2>2 DEF TypeOK, Stats
  <1>6. /\ disk'.blocks \in Nat /\ disk'.rejected \in Nat
        /\ disk'.candidates \in Nat /\ disk'.best \in Nat
    <2>1. /\ disk'.blocks \in Nat /\ disk'.rejected \in Nat
          /\ disk'.candidates \in 0 .. MaxCandidates /\ disk'.best \in Difficulties \cup {0}
      BY <1>1 DEF Files
    <2>2. \A x \in Difficulties \cup {0} : x \in Nat
      BY BlockSubmitAssumption
    <2>3. \A x \in 0 .. MaxCandidates : x \in Nat
      BY BlockSubmitAssumption
    <2> QED BY ONLY <2>1, <2>2, <2>3
  <1>7. OutcomesHaveCandidates' /\ MemoryAheadOfDisk'
    BY <1>1, <1>2, <1>3, <1>4, <1>6 DEF OutcomesHaveCandidates, MemoryAheadOfDisk
  <1> QED BY <1>5, <1>7 DEF IInv

\* Every step of the pool preserves the invariant.
LEMMA NextStep ==
    ASSUME IInv, [Next]_vars
    PROVE  IInv'
  <1>1. ASSUME NEW d \in Difficulties, AcceptShare(d) PROVE IInv'
    BY <1>1, AcceptShareStep
  <1>2. ASSUME NEW h \in Handlers, NEW b \in Blocks, NEW d \in Difficulties, FindBlock(h, b, d)
        PROVE IInv'
    BY <1>2, FindBlockStep
  <1>3. ASSUME NEW h \in Handlers, HandlerStep(h) PROVE IInv'
    BY <1>3, NodeDecidesStep, RetryStep, AcceptedStep, RefusedStep, ProposedStep, FailedStep
    DEF HandlerStep
  <1>4. CASE Tick
    BY <1>4, TickStep
  <1>5. CASE Prune
    BY <1>5, PruneStep
  <1>6. CASE SaveTimer
    BY <1>6, SaveTimerStep
  <1>7. CASE Crash
    <2>1. disk' = disk
      BY <1>7 DEF Crash
    <2>2. LoadPersistedState(disk')
      BY <1>7, <2>1 DEF Crash, LoadPersistedState
    <2> QED BY <1>7, <2>1, <2>2, Restart DEF Crash
  <1>8. CASE GracefulShutdown
    BY <1>8, Restart DEF GracefulShutdown, SaveTo
  <1>9. CASE UNCHANGED vars
    BY <1>9 DEF vars, memory, IInv, TypeOK, OutcomesHaveCandidates, MemoryAheadOfDisk,
                Outstanding, IsSubmitting
  <1> QED BY <1>1, <1>2, <1>3, <1>4, <1>5, <1>6, <1>7, <1>8, <1>9 DEF Next

\* IInv holds in every reachable state.
THEOREM Invariance == Spec => []IInv
  BY InitStep, NextStep, PTL DEF Spec

\* The state always has its type, for any number of handlers and blocks.
THEOREM TypeCorrect == Spec => []TypeOK
  <1>1. IInv => TypeOK
    BY DEF IInv
  <1> QED BY <1>1, Invariance, PTL

\* Whatever crashes, timeouts and retries do, no outcome is counted without a
\* candidate, in memory or in the file.
THEOREM OutcomesAccounted == Spec => []OutcomesHaveCandidates
  <1>1. IInv => OutcomesHaveCandidates
    BY DEF IInv
  <1> QED BY <1>1, Invariance, PTL

-----------------------------------------------------------------------------
\* The types of the counters, as numbers.
LEMMA Numbers ==
    ASSUME IInv
    PROVE  /\ stats.blocks \in Nat /\ stats.rejected \in Nat /\ stats.candidates \in Nat
           /\ disk.blocks \in Nat /\ disk.rejected \in Nat /\ disk.candidates \in Nat
           /\ allTimeBest \in Nat /\ disk.best \in Nat
  <1>1. /\ stats.blocks \in Nat /\ stats.rejected \in Nat
        /\ stats.candidates \in 0 .. MaxCandidates
        /\ disk.blocks \in Nat /\ disk.rejected \in Nat
        /\ disk.candidates \in 0 .. MaxCandidates
        /\ allTimeBest \in Difficulties \cup {0} /\ disk.best \in Difficulties \cup {0}
    BY Unmoved DEF Stats, Files
  <1>2. /\ \A x \in Difficulties \cup {0} : x \in Nat
        /\ \A x \in 0 .. MaxCandidates : x \in Nat
    BY BlockSubmitAssumption
  <1> QED BY ONLY <1>1, <1>2

\* The file has at least what memory had when it was written.
Caught ==
    /\ disk'.blocks >= stats.blocks /\ disk'.rejected >= stats.rejected
    /\ disk'.candidates >= stats.candidates /\ disk'.best >= allTimeBest

\* A write of the counters as they are, or with one more outcome.
LEMMA WriteCaught ==
    ASSUME IInv, NEW st \in Stats, NEW best \in Nat, NEW hist,
           st.blocks >= stats.blocks, st.rejected >= stats.rejected,
           st.candidates >= stats.candidates, best >= allTimeBest,
           SaveTo(FileOf(st, best, hist))
    PROVE  disk' = disk \/ Caught
  <1>1. CASE disk' = disk
    BY <1>1
  <1>2. CASE disk' = FileOf(st, best, hist)
    <2>1. /\ disk'.blocks = st.blocks /\ disk'.rejected = st.rejected
          /\ disk'.candidates = st.candidates /\ disk'.best = best
      BY <1>2 DEF FileOf
    <2> QED BY <2>1 DEF Caught
  <1> QED BY <1>1, <1>2 DEF SaveTo

\* No step writes anything older than what memory holds.
LEMMA FileWrites ==
    ASSUME IInv, [Next]_vars
    PROVE  disk' = disk \/ Caught
  <1>1. /\ stats \in Stats
        /\ stats.blocks >= stats.blocks /\ stats.rejected >= stats.rejected
        /\ stats.candidates >= stats.candidates /\ allTimeBest >= allTimeBest
        /\ allTimeBest \in Nat
    BY Unmoved, Numbers
  <1>2. ASSUME SaveTo(FileOf(stats, allTimeBest, blockHistory))
        PROVE  disk' = disk \/ Caught
    BY <1>1, <1>2, WriteCaught
  <1>3. ASSUME NEW d \in Difficulties, NoteShare(d), stats.shares < MaxShares
        PROVE  disk' = disk \/ Caught
    <2>1. /\ Counted \in Stats /\ allTimeBest' \in Difficulties \cup {0}
          /\ allTimeBest' >= allTimeBest
          /\ disk' = disk \/ (disk' = FileOf(Counted, d, blockHistory) /\ allTimeBest' = d)
      BY <1>3, NoteShareStep
    <2>2. /\ Counted.blocks = stats.blocks /\ Counted.rejected = stats.rejected
          /\ Counted.candidates = stats.candidates
      BY DEF Counted, IInv, TypeOK
    <2>3. CASE disk' = FileOf(Counted, d, blockHistory) /\ allTimeBest' = d
      <3>1. /\ disk'.blocks = stats.blocks /\ disk'.rejected = stats.rejected
            /\ disk'.candidates = stats.candidates /\ disk'.best = allTimeBest'
        BY <2>2, <2>3 DEF FileOf
      <3> QED BY <1>1, <2>1, <3>1 DEF Caught
    <2> QED BY <2>1, <2>3
  <1>4. ASSUME NEW d \in Difficulties, AcceptShare(d) PROVE disk' = disk \/ Caught
    BY <1>3, <1>4 DEF AcceptShare
  <1>5. ASSUME NEW h \in Handlers, NEW b \in Blocks, NEW d \in Difficulties, FindBlock(h, b, d)
        PROVE  disk' = disk \/ Caught
    BY <1>3, <1>5 DEF FindBlock
  <1>6. ASSUME NEW h \in Handlers, HandlerStep(h) PROVE disk' = disk \/ Caught
    <2>1. CASE NodeDecides(h) \/ Retry(h) \/ Refused(h)
      BY <2>1 DEF NodeDecides, Retry, Refused
    <2>2. CASE Accepted(h)
      <3>1. /\ stats' = [stats EXCEPT !.blocks = @ + 1]
            /\ SaveTo(FileOf(stats', allTimeBest, blockHistory'))
        BY <2>2 DEF Accepted
      <3>2. /\ stats' \in Stats
            /\ stats'.blocks >= stats.blocks /\ stats'.rejected >= stats.rejected
            /\ stats'.candidates >= stats.candidates
        <4>1. /\ stats' \in Stats
              /\ stats'.blocks = stats.blocks + 1 /\ stats'.rejected = stats.rejected
              /\ stats'.candidates = stats.candidates
          BY ONLY <1>1, <3>1, CountOutcome
        <4> QED BY ONLY IInv, <4>1, Numbers
      <3> QED BY <1>1, <3>1, <3>2, WriteCaught
    <2>3. CASE Failed(h)
      <3>1. /\ stats' = [stats EXCEPT !.rejected = @ + 1]
            /\ SaveTo(FileOf(stats', allTimeBest, blockHistory))
        BY <2>3 DEF Failed
      <3>2. /\ stats' \in Stats
            /\ stats'.blocks >= stats.blocks /\ stats'.rejected >= stats.rejected
            /\ stats'.candidates >= stats.candidates
        <4>1. /\ stats' \in Stats
              /\ stats'.rejected = stats.rejected + 1 /\ stats'.blocks = stats.blocks
              /\ stats'.candidates = stats.candidates
          BY ONLY <1>1, <3>1, CountOutcome
        <4> QED BY ONLY IInv, <4>1, Numbers
      <3> QED BY <1>1, <3>1, <3>2, WriteCaught
    <2>4. CASE Proposed(h)
      BY <1>2, <2>4 DEF Proposed
    <2> QED BY <1>6, <2>1, <2>2, <2>3, <2>4 DEF HandlerStep
  <1>7. CASE Tick \/ Prune \/ Crash \/ UNCHANGED vars
    BY <1>7 DEF Tick, Prune, Crash, vars
  <1>8. CASE SaveTimer \/ GracefulShutdown
    BY <1>2, <1>8 DEF SaveTimer, GracefulShutdown
  <1> QED BY <1>4, <1>5, <1>6, <1>7, <1>8 DEF Next

\* The totals and the best share in the file never go back, for any number of
\* handlers and any interleaving of crashes and failing saves.
THEOREM FileMonotone == Spec => FileNeverGoesBack
  <1>1. ASSUME IInv, [Next]_vars
        PROVE  [/\ disk'.blocks >= disk.blocks
                /\ disk'.rejected >= disk.rejected
                /\ disk'.candidates >= disk.candidates
                /\ disk'.best >= disk.best]_disk
    <2>1. CASE disk' = disk
      BY <2>1
    <2>2. CASE Caught
      <3>1. IInv'
        BY <1>1, NextStep
      <3>2. /\ disk'.blocks \in Nat /\ disk'.rejected \in Nat
            /\ disk'.candidates \in Nat /\ disk'.best \in Nat
        <4>1. disk' \in Files
          BY <3>1 DEF IInv, TypeOK
        <4>2. /\ disk'.blocks \in Nat /\ disk'.rejected \in Nat
              /\ disk'.candidates \in 0 .. MaxCandidates
              /\ disk'.best \in Difficulties \cup {0}
          BY <4>1 DEF Files
        <4>3. /\ \A x \in Difficulties \cup {0} : x \in Nat
              /\ \A x \in 0 .. MaxCandidates : x \in Nat
          BY BlockSubmitAssumption
        <4> QED BY ONLY <4>2, <4>3
      <3>3. MemoryAheadOfDisk
        BY <1>1 DEF IInv
      <3> QED BY <1>1, <2>2, <3>2, <3>3, Numbers DEF Caught, MemoryAheadOfDisk
    <2> QED BY <1>1, <2>1, <2>2, FileWrites
  <1> QED BY <1>1, Invariance, PTL DEF Spec, FileNeverGoesBack

-----------------------------------------------------------------------------
\* Where a waiting handler stands, as far as the duplicate map is concerned.
LEMMA WaitingFields ==
    ASSUME IInv, NEW g \in Outstanding
    PROVE  /\ g \in Handlers /\ handler[g].block \in Blocks
           /\ handler[g].attempt \in Int /\ handler[g].attempt >= 1
           /\ handler[g].attempt <= Attempts
           /\ handler[g].age \in 0 .. 1
           /\ recentBlockSubmissions[handler[g].block] \in Never .. Window + 1
           /\ recentBlockSubmissions[handler[g].block] \in Int
  <1>1. g \in Handlers /\ IsSubmitting(g)
    BY DEF Outstanding
  <1>2. PICK b \in Blocks, n \in 1 .. Attempts, r \in Replies, a \in 0 .. 1 :
           handler[g] = Submitting(b, n, r, a)
    BY <1>1, SubmittingShape DEF IInv
  <1>3. handler[g].block = b /\ handler[g].attempt = n /\ handler[g].age = a
    BY <1>2 DEF Submitting
  <1>4. recentBlockSubmissions[b] \in Never .. Window + 1
    BY Unmoved
  <1> QED BY <1>1, <1>3, <1>4, BlockSubmitAssumption DEF Never

\* A step after which every handler that waits has waited before, as far along
\* or further, and the entries of the blocks in hand are as old as before.
LEMMA NoneNew ==
    ASSUME IInv, EntryCoversSubmission, NoConcurrentDuplicate,
           \A g \in Outstanding' :
              /\ g \in Outstanding
              /\ handler'[g].block = handler[g].block
              /\ handler'[g].attempt \in Int /\ handler'[g].age \in Int
              /\ handler'[g].attempt + handler'[g].age
                    >= handler[g].attempt + handler[g].age
              /\ recentBlockSubmissions'[handler[g].block] =
                    recentBlockSubmissions[handler[g].block]
    PROVE  EntryCoversSubmission' /\ NoConcurrentDuplicate'
  <1>1. ASSUME NEW g \in Outstanding'
        PROVE  LET age == recentBlockSubmissions'[handler'[g].block]
               IN  0 <= age /\ age <= handler'[g].attempt - 1 + handler'[g].age
    <2>1. /\ g \in Outstanding /\ handler'[g].block = handler[g].block
          /\ handler'[g].attempt \in Int /\ handler'[g].age \in Int
          /\ handler'[g].attempt + handler'[g].age >= handler[g].attempt + handler[g].age
          /\ recentBlockSubmissions'[handler'[g].block] =
                recentBlockSubmissions[handler[g].block]
      BY <1>1
    <2>2. LET age == recentBlockSubmissions[handler[g].block]
          IN  0 <= age /\ age <= handler[g].attempt - 1 + handler[g].age
      BY <2>1 DEF EntryCoversSubmission
    <2>3. /\ handler[g].attempt \in Int /\ handler[g].age \in Int
          /\ recentBlockSubmissions[handler[g].block] \in Int
      BY <2>1, WaitingFields
    <2> QED BY ONLY <2>1, <2>2, <2>3
  <1>2. EntryCoversSubmission'
    BY <1>1 DEF EntryCoversSubmission
  <1>3. NoConcurrentDuplicate'
    BY DEF NoConcurrentDuplicate
  <1> QED BY <1>2, <1>3

\* A handler that takes a block finds no other at work on it: as long as the
\* window is longer than a submission can take, the entry suppresses it.
LEMMA FindCovers ==
    ASSUME IInv, EntryCoversSubmission, NoConcurrentDuplicate, Window > Attempts,
           NEW h \in Handlers, NEW b \in Blocks, NEW d \in Difficulties, FindBlock(h, b, d)
    PROVE  EntryCoversSubmission' /\ NoConcurrentDuplicate'
  <1>1. CASE Suppressed(b) /\ UNCHANGED <<handler, recentBlockSubmissions>>
    BY <1>1 DEF EntryCoversSubmission, NoConcurrentDuplicate, Outstanding, IsSubmitting
  <1>2. CASE ~Suppressed(b) /\ Submit(h, b)
    <2>1. /\ handler' = [handler EXCEPT ![h] = Submitting(b, 1, "none", 0)]
          /\ recentBlockSubmissions' = [recentBlockSubmissions EXCEPT ![b] = 0]
      BY <1>2 DEF Submit
    <2>2. \A g \in Outstanding : handler[g].block # b
      <3> SUFFICES ASSUME NEW g \in Outstanding, handler[g].block = b PROVE FALSE
        OBVIOUS
      <3>1. /\ 0 <= recentBlockSubmissions[b]
            /\ recentBlockSubmissions[b] <= handler[g].attempt - 1 + handler[g].age
        BY DEF EntryCoversSubmission
      <3>2. recentBlockSubmissions[b] # Never /\ recentBlockSubmissions[b] < Window
        <4>1. Attempts \in Int /\ Window \in Int /\ Window > Attempts
          BY BlockSubmitAssumption
        <4>2. /\ handler[g].attempt \in Int /\ handler[g].attempt <= Attempts
              /\ handler[g].age \in 0 .. 1 /\ recentBlockSubmissions[b] \in Int
          BY WaitingFields
        <4> QED BY ONLY <3>1, <4>1, <4>2 DEF Never
      <3> QED BY <1>2, <3>2 DEF Suppressed
    <2>3. Outstanding' = Outstanding \cup {h} /\ h \notin Outstanding
      <3>1. Submitting(b, 1, "none", 0).at = "submit" /\ ~IsSubmitting(h)
        BY StateTypes DEF Submitting, FindBlock, IsSubmitting
      <3> QED BY <2>1, <3>1, Unmoved, OutstandingUpdate DEF Outstanding
    <2>4. /\ handler'[h].block = b /\ handler'[h].attempt = 1 /\ handler'[h].age = 0
          /\ recentBlockSubmissions'[b] = 0
      BY <2>1, Unmoved DEF Submitting
    <2>5. \A g \in Outstanding :
             /\ handler'[g] = handler[g]
             /\ recentBlockSubmissions'[handler[g].block] =
                   recentBlockSubmissions[handler[g].block]
      BY <2>1, <2>2, <2>3, WaitingFields, Unmoved
    <2>6. EntryCoversSubmission'
      <3> SUFFICES ASSUME NEW g \in Outstanding'
                   PROVE  LET age == recentBlockSubmissions'[handler'[g].block]
                          IN  0 <= age /\ age <= handler'[g].attempt - 1 + handler'[g].age
        BY DEF EntryCoversSubmission
      <3>1. CASE g = h
        BY <2>4, <3>1
      <3>2. CASE g \in Outstanding
        BY <2>5, <3>2 DEF EntryCoversSubmission
      <3> QED BY <2>3, <3>1, <3>2
    <2>7. NoConcurrentDuplicate'
      BY <2>2, <2>3, <2>4, <2>5 DEF NoConcurrentDuplicate
    <2> QED BY <2>6, <2>7
  <1> QED BY <1>1, <1>2 DEF FindBlock

\* A handler's own step keeps its block, or ends its wait.
LEMMA HandlerCovers ==
    ASSUME IInv, EntryCoversSubmission, NoConcurrentDuplicate,
           NEW h \in Handlers, HandlerStep(h)
    PROVE  EntryCoversSubmission' /\ NoConcurrentDuplicate'
  <1>1. ASSUME NEW s,
               handler' = [handler EXCEPT ![h] = s],
               recentBlockSubmissions' = recentBlockSubmissions,
               \/ s.at # "submit"
               \/ /\ IsSubmitting(h) /\ s.block = handler[h].block
                  /\ s.attempt \in Int /\ s.age \in Int
                  /\ s.attempt + s.age >= handler[h].attempt + handler[h].age
        PROVE  EntryCoversSubmission' /\ NoConcurrentDuplicate'
    <2>1. Outstanding' = IF s.at = "submit" THEN Outstanding \cup {h} ELSE Outstanding \ {h}
      BY <1>1, Unmoved, OutstandingUpdate
    <2>2. \A g \in Outstanding' :
             /\ g \in Outstanding
             /\ handler'[g].block = handler[g].block
             /\ handler'[g].attempt \in Int /\ handler'[g].age \in Int
             /\ handler'[g].attempt + handler'[g].age >= handler[g].attempt + handler[g].age
      <3> TAKE g \in Outstanding'
      <3>1. CASE g = h
        <4>1. s.at = "submit" /\ handler'[g] = s
          BY <1>1, <2>1, <3>1, Unmoved
        <4> QED BY <1>1, <3>1, <4>1 DEF Outstanding
      <3>2. CASE g # h
        <4>1. g \in Outstanding /\ handler'[g] = handler[g]
          BY <1>1, <2>1, <3>2, Unmoved DEF Outstanding
        <4>2. handler[g].attempt \in Int /\ handler[g].age \in 0 .. 1
          BY <4>1, WaitingFields
        <4> QED BY <4>1, <4>2
      <3> QED BY <3>1, <3>2
    <2> QED BY <1>1, <2>2, NoneNew
  <1>2. CASE NodeDecides(h) \/ Retry(h)
    <2>1. PICK b \in Blocks, n \in 1 .. Attempts, r \in Replies, a \in 0 .. 1 :
             handler[h] = Submitting(b, n, r, a)
      BY <1>2, SubmittingShape DEF NodeDecides, Retry, IInv
    <2>2. /\ handler[h].block = b /\ handler[h].attempt = n /\ handler[h].age = a
          /\ IsSubmitting(h)
      BY <1>2, <2>1 DEF Submitting, NodeDecides, Retry
    <2>3. CASE NodeDecides(h)
      <3>1. \A q : [handler[h] EXCEPT !.reply = q] = Submitting(b, n, q, a)
        BY <2>1 DEF Submitting
      <3>2. PICK q : handler' = [handler EXCEPT ![h] = Submitting(b, n, q, a)]
        <4>1. PICK q : handler' = [handler EXCEPT ![h] = [handler[h] EXCEPT !.reply = q]]
          BY <2>3 DEF NodeDecides
        <4> QED BY <3>1, <4>1
      <3> DEFINE new == Submitting(b, n, q, a)
      <3>3. /\ new.block = handler[h].block
            /\ new.attempt \in Int /\ new.age \in Int
            /\ new.attempt + new.age >= handler[h].attempt + handler[h].age
        <4>1. new.block = b /\ new.attempt = n /\ new.age = a
          BY DEF Submitting
        <4> QED BY ONLY <2>2, <4>1, BlockSubmitAssumption, n \in 1 .. Attempts, a \in 0 .. 1
      <3>4. /\ recentBlockSubmissions' = recentBlockSubmissions
            /\ handler' = [handler EXCEPT ![h] = new]
        BY <2>3, <3>2 DEF NodeDecides
      <3> HIDE DEF new
      <3> QED BY ONLY <1>1, <2>2, <3>3, <3>4
    <2>4. CASE Retry(h)
      <3>1. handler' = [handler EXCEPT ![h] = Submitting(b, n + 1, "none", 0)]
        BY <2>2, <2>4 DEF Retry
      <3> DEFINE new == Submitting(b, n + 1, "none", 0)
      <3>2. /\ new.block = handler[h].block
            /\ new.attempt \in Int /\ new.age \in Int
            /\ new.attempt + new.age >= handler[h].attempt + handler[h].age
        <4>1. new.block = b /\ new.attempt = n + 1 /\ new.age = 0
          BY DEF Submitting
        <4> QED BY ONLY <2>2, <4>1, BlockSubmitAssumption, n \in 1 .. Attempts, a \in 0 .. 1
      <3>3. /\ recentBlockSubmissions' = recentBlockSubmissions
            /\ handler' = [handler EXCEPT ![h] = new]
        BY <2>4, <3>1 DEF Retry
      <3> HIDE DEF new
      <3> QED BY ONLY <1>1, <2>2, <3>2, <3>3
    <2> QED BY <1>2, <2>3, <2>4
  <1>3. CASE Accepted(h) \/ Proposed(h) \/ Failed(h)
    <2>1. /\ handler' = [handler EXCEPT ![h] = Idle]
          /\ recentBlockSubmissions' = recentBlockSubmissions
      BY <1>3 DEF Accepted, Proposed, Failed
    <2> QED BY <1>1, <2>1, StateTypes
  <1>4. CASE Refused(h)
    <2>1. /\ handler' = [handler EXCEPT ![h] = Proposing(handler[h].block)]
          /\ recentBlockSubmissions' = recentBlockSubmissions
      BY <1>4 DEF Refused
    <2>2. Proposing(handler[h].block).at # "submit"
      BY DEF Proposing
    <2> QED BY <1>1, <2>1, <2>2
  <1> QED BY <1>2, <1>3, <1>4 DEF HandlerStep

\* A tick ages entries and calls alike, and finds every call young.
LEMMA TickCovers ==
    ASSUME IInv, EntryCoversSubmission, NoConcurrentDuplicate, Tick
    PROVE  EntryCoversSubmission' /\ NoConcurrentDuplicate'
  <1>1. ASSUME NEW g \in Outstanding'
        PROVE  /\ g \in Outstanding /\ handler'[g].block = handler[g].block
               /\ handler'[g].attempt = handler[g].attempt /\ handler'[g].age = 1
               /\ handler[g].age = 0
    <2>1. g \in Handlers /\ handler'[g].at = "submit"
      BY DEF Outstanding, IsSubmitting
    <2>2. IsSubmitting(g)
      BY <2>1 DEF Tick, IsSubmitting
    <2>3. PICK b \in Blocks, n \in 1 .. Attempts, r \in Replies, a \in 0 .. 1 :
             handler[g] = Submitting(b, n, r, a)
      BY <2>1, <2>2, SubmittingShape DEF IInv
    <2>4. handler'[g] = Submitting(b, n, r, 1)
      BY <2>1, <2>2, <2>3 DEF Tick, Submitting
    <2>5. g \in Outstanding
      BY <2>1, <2>2 DEF Outstanding
    <2> QED BY <2>3, <2>4, <2>5 DEF Submitting, Tick
  <1>2. ASSUME NEW g \in Outstanding'
        PROVE  LET age == recentBlockSubmissions'[handler'[g].block]
               IN  0 <= age /\ age <= handler'[g].attempt - 1 + handler'[g].age
    <2>1. /\ g \in Outstanding /\ handler'[g].block = handler[g].block
          /\ handler'[g].attempt = handler[g].attempt /\ handler'[g].age = 1
          /\ handler[g].age = 0
      BY <1>1
    <2>2. LET age == recentBlockSubmissions[handler[g].block]
          IN  0 <= age /\ age <= handler[g].attempt - 1
      <3>1. LET age == recentBlockSubmissions[handler[g].block]
            IN  0 <= age /\ age <= handler[g].attempt - 1 + handler[g].age
        BY <2>1 DEF EntryCoversSubmission
      <3> QED BY <2>1, <3>1, WaitingFields
    <2>3. recentBlockSubmissions'[handler[g].block]
             \in {recentBlockSubmissions[handler[g].block],
                  recentBlockSubmissions[handler[g].block] + 1}
      BY <2>1, WaitingFields DEF Tick
    <2>4. /\ handler[g].attempt \in Int
          /\ recentBlockSubmissions[handler[g].block] \in Int
      BY <2>1, WaitingFields
    <2> QED BY ONLY <2>1, <2>2, <2>3, <2>4
  <1>3. EntryCoversSubmission'
    BY <1>2 DEF EntryCoversSubmission
  <1>4. NoConcurrentDuplicate'
    BY <1>1 DEF NoConcurrentDuplicate
  <1> QED BY <1>3, <1>4

\* The clean-up timer finds no entry of a block in hand older than the window.
LEMMA PruneCovers ==
    ASSUME IInv, EntryCoversSubmission, NoConcurrentDuplicate, Window > Attempts, Prune
    PROVE  EntryCoversSubmission' /\ NoConcurrentDuplicate'
  <1>1. handler' = handler /\ Outstanding' = Outstanding
    BY DEF Prune, Outstanding, IsSubmitting
  <1>2. ASSUME NEW g \in Outstanding
        PROVE  /\ handler'[g].attempt \in Int /\ handler'[g].age \in Int
               /\ handler'[g].attempt + handler'[g].age >= handler[g].attempt + handler[g].age
               /\ recentBlockSubmissions'[handler[g].block] =
                     recentBlockSubmissions[handler[g].block]
    <2>1. /\ handler[g].attempt \in Int /\ handler[g].attempt <= Attempts
          /\ handler[g].age \in 0 .. 1
          /\ recentBlockSubmissions[handler[g].block] \in Int
          /\ handler[g].block \in Blocks
      BY WaitingFields
    <2>2. recentBlockSubmissions[handler[g].block] <= handler[g].attempt - 1 + handler[g].age
      BY DEF EntryCoversSubmission
    <2>3. Attempts \in Int /\ Window \in Int /\ Window > Attempts
      BY BlockSubmitAssumption
    <2>4. ~(recentBlockSubmissions[handler[g].block] > Window)
      BY ONLY <2>1, <2>2, <2>3
    <2>5. recentBlockSubmissions'[handler[g].block] = recentBlockSubmissions[handler[g].block]
      BY <2>1, <2>4 DEF Prune
    <2>6. handler'[g].attempt + handler'[g].age >= handler[g].attempt + handler[g].age
      BY ONLY <1>1, <2>1
    <2> QED BY <1>1, <2>1, <2>5, <2>6
  <1> QED BY <1>1, <1>2, NoneNew

DInv == EntryCoversSubmission /\ NoConcurrentDuplicate

LEMMA DInvAlways ==
    ASSUME Window > Attempts
    PROVE  Spec => []DInv
  <1>1. Init => DInv
    <2> SUFFICES ASSUME Init PROVE DInv
      OBVIOUS
    <2>1. Outstanding = {}
      BY StateTypes DEF Init, Outstanding, IsSubmitting
    <2> QED BY <2>1 DEF DInv, EntryCoversSubmission, NoConcurrentDuplicate
  <1>2. IInv /\ DInv /\ [Next]_vars => DInv'
    <2> SUFFICES ASSUME IInv, EntryCoversSubmission, NoConcurrentDuplicate, [Next]_vars
                 PROVE  DInv'
      BY DEF DInv
    <2>1. ASSUME UNCHANGED <<handler, recentBlockSubmissions>> PROVE DInv'
      BY <2>1 DEF DInv, EntryCoversSubmission, NoConcurrentDuplicate, Outstanding, IsSubmitting
    <2>2. ASSUME NEW d \in Difficulties, AcceptShare(d) PROVE DInv'
      BY <2>1, <2>2 DEF AcceptShare
    <2>3. ASSUME NEW h \in Handlers, NEW b \in Blocks, NEW d \in Difficulties, FindBlock(h, b, d)
          PROVE  DInv'
      BY <2>3, FindCovers DEF DInv
    <2>4. ASSUME NEW h \in Handlers, HandlerStep(h) PROVE DInv'
      BY <2>4, HandlerCovers DEF DInv
    <2>5. CASE Tick
      BY <2>5, TickCovers DEF DInv
    <2>6. CASE Prune
      BY <2>6, PruneCovers DEF DInv
    <2>7. CASE SaveTimer \/ UNCHANGED vars
      BY <2>1, <2>7 DEF SaveTimer, vars
    <2>8. CASE Crash \/ GracefulShutdown
      <3>1. handler' = [h \in Handlers |-> Idle]
        BY <2>8 DEF Crash, GracefulShutdown
      <3>2. Outstanding' = {}
        BY <3>1, StateTypes DEF Outstanding, IsSubmitting
      <3> QED BY <3>2 DEF DInv, EntryCoversSubmission, NoConcurrentDuplicate
    <2> QED BY <2>2, <2>3, <2>4, <2>5, <2>6, <2>7, <2>8 DEF Next
  <1> QED BY <1>1, <1>2, Invariance, PTL DEF Spec

\* No two handlers ever hand the node the same block at once, for any number
\* of handlers and blocks, if the window is longer than a submission can take
\* (8 and 5 calls' worth in the code).
THEOREM NoDuplicate ==
    ASSUME Window > Attempts
    PROVE  Spec => []NoConcurrentDuplicate
  <1>1. DInv => NoConcurrentDuplicate
    BY DEF DInv
  <1> QED BY <1>1, DInvAlways, PTL

\* As long as a block is being submitted, its entry exists, is no older than all
\* the calls a submission can make, and turns every repetition away: neither the
\* window nor the clean-up timer can end the suppression before the submission.
RepetitionsSuppressed ==
    \A h \in Outstanding :
       /\ recentBlockSubmissions[handler[h].block] \in 0 .. Attempts
       /\ Suppressed(handler[h].block)

\* Every submission is over within the time of its calls, and until then its
\* block is suppressed, however the handlers, the clock and the clean-up timer
\* interleave, if the window is longer than a submission can take.
THEOREM SubmissionsAreCovered ==
    ASSUME Window > Attempts
    PROVE  Spec => []RepetitionsSuppressed
  <1>1. IInv /\ DInv => RepetitionsSuppressed
    <2> SUFFICES ASSUME IInv, DInv, NEW h \in Outstanding
                 PROVE  /\ recentBlockSubmissions[handler[h].block] \in 0 .. Attempts
                        /\ Suppressed(handler[h].block)
      BY DEF RepetitionsSuppressed
    <2> DEFINE entry == recentBlockSubmissions[handler[h].block]
    <2>1. 0 <= entry /\ entry <= handler[h].attempt - 1 + handler[h].age
      BY DEF DInv, EntryCoversSubmission
    <2>2. /\ handler[h].attempt \in Int /\ handler[h].attempt <= Attempts
          /\ handler[h].age \in 0 .. 1 /\ entry \in Int
      BY WaitingFields
    <2>3. Attempts \in Int /\ Window \in Int /\ Window > Attempts
      BY BlockSubmitAssumption
    <2> HIDE DEF entry
    <2>4. entry \in 0 .. Attempts /\ entry < Window /\ entry # -1
      BY ONLY <2>1, <2>2, <2>3
    <2> QED BY <2>4 DEF entry, Suppressed, Never
  <1> QED BY <1>1, DInvAlways, Invariance, PTL

-----------------------------------------------------------------------------
\* The claims of the pool: each claimed block was mined, none is claimed twice,
\* and the history agrees with the total.  Every step of the pool is one of four
\* as far as claims go; the invariant is about those.

\* Handlers that hold an acceptance they have not counted yet.
Won == {h \in Handlers : IsSubmitting(h) /\ handler[h].reply = "accepted"}

\* The file is what memory is now.
FileCatches == disk'.blocks = stats'.blocks /\ disk'.history = blockHistory'

\* No claim is made.
Quiet ==
    /\ stats'.blocks = stats.blocks /\ blockHistory' = blockHistory /\ mined' = mined
    /\ \A h \in Won' : h \in Won /\ handler'[h].block = handler[h].block
    /\ disk' = disk \/ FileCatches

\* The node accepts the block of h.
Wins(h) ==
    /\ h \in Handlers \ Won /\ handler[h].block \notin mined
    /\ mined' = mined \cup {handler[h].block}
    /\ Won' = Won \cup {h}
    /\ \A g \in Won' : handler'[g].block = handler[g].block
    /\ stats'.blocks = stats.blocks /\ blockHistory' = blockHistory /\ disk' = disk

\* The pool claims the block of h.
Claims(h) ==
    /\ h \in Won /\ Won' = Won \ {h} /\ mined' = mined
    /\ \A g \in Won' : handler'[g].block = handler[g].block
    /\ stats'.blocks = stats.blocks + 1
    /\ blockHistory' = LastN(Append(blockHistory, handler[h].block))
    /\ disk' = disk \/ FileCatches

\* Memory becomes what the file says.
Restarts ==
    /\ Won' = {} /\ mined' = mined
    /\ disk' = disk \/ (disk'.blocks = stats.blocks /\ disk'.history = blockHistory)
    /\ stats'.blocks = disk'.blocks /\ blockHistory' = disk'.history

-----------------------------------------------------------------------------
\* What a save is caught to write.
LEMMA SaveCatches ==
    ASSUME NEW st, NEW best, NEW hist, SaveTo(FileOf(st, best, hist))
    PROVE  disk' = disk \/ (disk'.blocks = st.blocks /\ disk'.history = hist)
  BY DEF SaveTo, FileOf

LEMMA CountedBlocks == ASSUME IInv PROVE Counted.blocks = stats.blocks
  BY DEF Counted, IInv, TypeOK

\* Handlers that move to a state without an acceptance.
LEMMA NoNewWinner ==
    ASSUME IInv, NEW h \in Handlers, NEW s, handler' = [handler EXCEPT ![h] = s],
           s.at # "submit" \/ s.reply # "accepted"
    PROVE  Won' = Won \ {h} /\ \A g \in Won' : g \in Won /\ handler'[g].block = handler[g].block
  BY Unmoved DEF Won, IsSubmitting

LEMMA IdleHandlers ==
    /\ Idle.at # "submit"
    /\ \A b : Proposing(b).at # "submit"
    /\ \A b, n, a : Submitting(b, n, "none", a).reply # "accepted"
  BY DEF Idle, Proposing, Submitting

LEMMA NoteShareQuiet ==
    ASSUME IInv, NEW d \in Difficulties, NoteShare(d), stats'.blocks = stats.blocks,
           blockHistory' = blockHistory
    PROVE  disk' = disk \/ FileCatches
  <1>1. CASE SaveTo(FileOf(Counted, d, blockHistory))
    BY <1>1, SaveCatches, CountedBlocks DEF FileCatches
  <1>2. CASE UNCHANGED disk
    BY <1>2
  <1> QED BY <1>1, <1>2 DEF NoteShare

LEMMA HandlerClaims ==
    ASSUME IInv, NEW h \in Handlers, HandlerStep(h)
    PROVE  Quiet \/ Wins(h) \/ Claims(h)
  <1>0. handler \in [Handlers -> HandlerStates] /\ stats \in Stats
    BY Unmoved
  <1>1. CASE NodeDecides(h)
    <2>1. /\ IsSubmitting(h) /\ handler[h].reply = "none"
          /\ stats' = stats /\ blockHistory' = blockHistory /\ disk' = disk
      BY <1>1 DEF NodeDecides, memory
    <2>2. PICK b \in Blocks, n \in 1 .. Attempts, r \in Replies, a \in 0 .. 1 :
             handler[h] = Submitting(b, n, r, a)
      BY <2>1, SubmittingShape DEF IInv
    <2>3. h \notin Won
      BY <2>1 DEF Won
    <2>4. CASE /\ handler[h].block \notin mined
               /\ mined' = mined \cup {handler[h].block}
               /\ handler' = [handler EXCEPT ![h].reply = "accepted"]
      <3>1. handler'[h] = Submitting(b, n, "accepted", a)
        BY <1>0, <2>2, <2>4 DEF Submitting
      <3>2. \A g \in Handlers \ {h} : handler'[g] = handler[g]
        BY <1>0, <2>4
      <3>3. handler'[h].at = "submit" /\ handler'[h].reply = "accepted"
            /\ handler'[h].block = handler[h].block
        BY <2>2, <3>1 DEF Submitting
      <3>4. Won' = Won \cup {h}
        BY <3>2, <3>3 DEF Won, IsSubmitting
      <3>5. \A g \in Won' : handler'[g].block = handler[g].block
        BY <3>2, <3>3 DEF Won
      <3> QED BY <2>1, <2>3, <2>4, <3>4, <3>5 DEF Wins
    <2>5. CASE mined' = mined /\ handler' = [handler EXCEPT ![h].reply = "refused"]
      <3>1. handler'[h] = Submitting(b, n, "refused", a)
        BY <1>0, <2>2, <2>5 DEF Submitting
      <3>2. \A g \in Handlers \ {h} : handler'[g] = handler[g]
        BY <1>0, <2>5
      <3>3. handler'[h].reply # "accepted"
        BY <3>1 DEF Submitting
      <3>4. \A g \in Won' : g \in Won /\ handler'[g].block = handler[g].block
        BY <3>2, <3>3 DEF Won, IsSubmitting
      <3> QED BY <2>1, <2>5, <3>4 DEF Quiet
    <2> QED BY <1>1, <2>4, <2>5 DEF NodeDecides
  <1>2. CASE Retry(h)
    <2>1. /\ handler' = [handler EXCEPT ![h] =
                           Submitting(handler[h].block, handler[h].attempt + 1, "none", 0)]
          /\ stats' = stats /\ blockHistory' = blockHistory /\ disk' = disk /\ mined' = mined
      BY <1>2 DEF Retry, memory
    <2> QED BY <2>1, IdleHandlers, NoNewWinner DEF Quiet
  <1>3. CASE Accepted(h)
    <2>1. /\ h \in Won /\ mined' = mined
          /\ handler' = [handler EXCEPT ![h] = Idle]
          /\ stats' = [stats EXCEPT !.blocks = @ + 1]
          /\ blockHistory' = LastN(Append(blockHistory, handler[h].block))
          /\ SaveTo(FileOf(stats', allTimeBest, blockHistory'))
      BY <1>3 DEF Accepted, RpcAccepted, Won
    <2>2. Won' = Won \ {h} /\ \A g \in Won' : handler'[g].block = handler[g].block
      BY <2>1, IdleHandlers, NoNewWinner
    <2>3. disk' = disk \/ FileCatches
      BY <2>1, SaveCatches DEF FileCatches
    <2>4. stats'.blocks = stats.blocks + 1
      BY <1>0, <2>1 DEF Stats
    <2> QED BY <2>1, <2>2, <2>3, <2>4 DEF Claims
  <1>4. CASE Refused(h)
    <2>1. /\ handler' = [handler EXCEPT ![h] = Proposing(handler[h].block)]
          /\ stats' = [stats EXCEPT !.rejected = @ + 1]
          /\ blockHistory' = blockHistory /\ disk' = disk /\ mined' = mined
      BY <1>4 DEF Refused
    <2>2. stats'.blocks = stats.blocks
      BY <1>0, <2>1 DEF Stats
    <2> QED BY <2>1, <2>2, IdleHandlers, NoNewWinner DEF Quiet
  <1>5. CASE Proposed(h)
    <2>1. /\ handler' = [handler EXCEPT ![h] = Idle] /\ mined' = mined
          /\ stats' = stats /\ blockHistory' = blockHistory
          /\ SaveTo(FileOf(stats, allTimeBest, blockHistory))
      BY <1>5 DEF Proposed, memory
    <2>2. disk' = disk \/ FileCatches
      BY <2>1, SaveCatches DEF FileCatches
    <2> QED BY <2>1, <2>2, IdleHandlers, NoNewWinner DEF Quiet
  <1>6. CASE Failed(h)
    <2>1. /\ handler' = [handler EXCEPT ![h] = Idle] /\ mined' = mined
          /\ stats' = [stats EXCEPT !.rejected = @ + 1] /\ blockHistory' = blockHistory
          /\ SaveTo(FileOf(stats', allTimeBest, blockHistory))
      BY <1>6 DEF Failed
    <2>2. stats'.blocks = stats.blocks
      BY <1>0, <2>1 DEF Stats
    <2>3. disk' = disk \/ FileCatches
      BY <2>1, SaveCatches DEF FileCatches
    <2> QED BY <2>1, <2>2, <2>3, IdleHandlers, NoNewWinner DEF Quiet
  <1> QED BY <1>1, <1>2, <1>3, <1>4, <1>5, <1>6 DEF HandlerStep

\* A step is quiet, wins, claims or restarts.
LEMMA StepKinds ==
    ASSUME IInv, [Next]_vars
    PROVE  Quiet \/ Restarts \/ \E h \in Handlers : Wins(h) \/ Claims(h)
  <1>0. stats \in Stats /\ handler \in [Handlers -> HandlerStates]
    BY Unmoved
  <1>1. ASSUME NEW d \in Difficulties, AcceptShare(d) PROVE Quiet
    <2>1. /\ stats' = Counted /\ handler' = handler /\ mined' = mined
          /\ blockHistory' = blockHistory /\ NoteShare(d)
      BY <1>1 DEF AcceptShare
    <2>2. disk' = disk \/ FileCatches
      BY <2>1, CountedBlocks, NoteShareQuiet
    <2> QED BY <2>1, <2>2, CountedBlocks DEF Quiet, Won, IsSubmitting
  <1>2. ASSUME NEW h \in Handlers, NEW b \in Blocks, NEW d \in Difficulties, FindBlock(h, b, d)
        PROVE Quiet
    <2>1. /\ stats' = [Counted EXCEPT !.candidates = @ + 1] /\ mined' = mined
          /\ blockHistory' = blockHistory /\ NoteShare(d)
          /\ \/ handler' = handler
             \/ handler' = [handler EXCEPT ![h] = Submitting(b, 1, "none", 0)]
      BY <1>2 DEF FindBlock, Submit
    <2>2. stats'.blocks = stats.blocks
      BY <1>0, <2>1 DEF Counted, Stats
    <2>3. disk' = disk \/ FileCatches
      BY <2>1, <2>2, NoteShareQuiet
    <2>4. \A g \in Won' : g \in Won /\ handler'[g].block = handler[g].block
      <3>1. CASE handler' = handler
        BY <3>1 DEF Won, IsSubmitting
      <3>2. CASE handler' = [handler EXCEPT ![h] = Submitting(b, 1, "none", 0)]
        BY <3>2, IdleHandlers, NoNewWinner
      <3> QED BY <2>1, <3>1, <3>2
    <2> QED BY <2>1, <2>2, <2>3, <2>4 DEF Quiet
  <1>3. CASE Tick
    <2>1. /\ stats' = stats /\ mined' = mined /\ blockHistory' = blockHistory /\ disk' = disk
      BY <1>3 DEF Tick, memory
    <2>2. ASSUME NEW g \in Won' PROVE g \in Won /\ handler'[g].block = handler[g].block
      <3>1. g \in Handlers /\ handler'[g].at = "submit" /\ handler'[g].reply = "accepted"
        BY <2>2 DEF Won, IsSubmitting
      <3>2. IsSubmitting(g) /\ handler'[g] = [handler[g] EXCEPT !.age = 1]
        BY <1>3, <3>1 DEF Tick, IsSubmitting
      <3>3. PICK b \in Blocks, n \in 1 .. Attempts, r \in Replies, a \in 0 .. 1 :
               handler[g] = Submitting(b, n, r, a)
        BY <3>1, <3>2, SubmittingShape DEF IInv
      <3>4. handler'[g].reply = handler[g].reply /\ handler'[g].block = handler[g].block
        BY <3>2, <3>3 DEF Submitting
      <3> QED BY <3>1, <3>2, <3>4 DEF Won
    <2> QED BY <2>1, <2>2 DEF Quiet
  <1>4. CASE Prune \/ UNCHANGED vars
    BY <1>4 DEF Prune, vars, memory, Quiet, Won, IsSubmitting
  <1>5. CASE SaveTimer
    <2>1. /\ stats' = stats /\ mined' = mined /\ blockHistory' = blockHistory
          /\ handler' = handler /\ SaveTo(FileOf(stats, allTimeBest, blockHistory))
      BY <1>5 DEF SaveTimer, memory
    <2> QED BY <2>1, SaveCatches DEF Quiet, FileCatches, Won, IsSubmitting
  <1>6. CASE Crash \/ GracefulShutdown
    <2>1. Won' = {}
      BY <1>6, IdleHandlers DEF Crash, GracefulShutdown, Won, IsSubmitting
    <2>2. mined' = mined /\ LoadPersistedState(disk')
      BY <1>6 DEF Crash, GracefulShutdown, LoadPersistedState
    <2>3. disk' = disk \/ (disk'.blocks = stats.blocks /\ disk'.history = blockHistory)
      BY <1>6, SaveCatches DEF Crash, GracefulShutdown
    <2>4. stats'.blocks = disk'.blocks /\ blockHistory' = disk'.history
      BY <2>2 DEF LoadPersistedState
    <2> QED BY <2>1, <2>2, <2>3, <2>4 DEF Restarts
  <1> QED BY <1>1, <1>2, <1>3, <1>4, <1>5, <1>6, HandlerClaims DEF Next

-----------------------------------------------------------------------------
Cut(n) == IF n > MaxHistory THEN MaxHistory ELSE n

\* The cut history keeps its newest entries: its length, what is in it, and
\* that it does not repeat itself.
LEMMA CutHistory ==
    ASSUME NEW s \in Seq(Blocks), NEW b \in Blocks
    PROVE  LET t == LastN(Append(s, b))
           IN  /\ \A n \in Nat : Len(s) = Cut(n) => Len(t) = Cut(n + 1)
               /\ Range(t) \subseteq Range(s) \cup {b}
               /\ IsInjective(s) /\ b \notin Range(s) => IsInjective(t)
  <1> DEFINE t == Append(s, b)
  <1>1. /\ t \in Seq(Blocks) /\ Len(t) = Len(s) + 1 /\ Len(s) \in Nat
        /\ \A i \in 1 .. Len(s) : t[i] = s[i]
        /\ t[Len(s) + 1] = b
    OBVIOUS
  <1>2. MaxHistory \in Nat /\ MaxHistory > 0
    BY BlockSubmitAssumption
  <1>3. Range(t) \subseteq Range(s) \cup {b}
    <2>1. \A i \in 1 .. Len(t) : t[i] \in Range(s) \cup {b}
      BY <1>1 DEF Range
    <2> QED BY <1>1, <2>1 DEF Range
  <1>4. ASSUME IsInjective(s), b \notin Range(s) PROVE IsInjective(t)
    <2>1. \A i, j \in 1 .. Len(s) : s[i] = s[j] => i = j
      BY <1>4 DEF IsInjective
    <2>2. \A i \in 1 .. Len(s) : s[i] # b
      BY <1>4 DEF Range
    <2>3. ASSUME NEW i \in 1 .. Len(t), NEW j \in 1 .. Len(t), t[i] = t[j] PROVE i = j
      <3>1. CASE i \in 1 .. Len(s) /\ j \in 1 .. Len(s)
        BY <1>1, <2>1, <2>3, <3>1
      <3>2. CASE i = Len(s) + 1
        BY <1>1, <2>2, <2>3, <3>2
      <3>3. CASE j = Len(s) + 1
        BY <1>1, <2>2, <2>3, <3>3
      <3> QED BY <1>1, <3>1, <3>2, <3>3
    <2> QED BY <1>1, <2>3 DEF IsInjective
  <1> HIDE DEF t
  <1>5. CASE Len(t) > MaxHistory
    <2> DEFINE m == Len(t) - MaxHistory
               u == SubSeq(t, m + 1, Len(t))
    <2>1. m \in Nat /\ m + MaxHistory = Len(t) /\ LastN(t) = u
      BY <1>1, <1>2, <1>5 DEF LastN
    <2>2. /\ u \in Seq(Blocks) /\ Len(u) = MaxHistory
          /\ \A i \in 1 .. MaxHistory : u[i] = t[m + i]
      BY <1>1, <1>2, <2>1
    <2> HIDE DEF u, m
    <2>3. \A i \in 1 .. MaxHistory : m + i \in 1 .. Len(t)
      BY <1>2, <2>1
    <2>4. Range(u) \subseteq Range(t)
      BY <1>1, <2>2, <2>3 DEF Range
    <2>5. ASSUME IsInjective(t) PROVE IsInjective(u)
      <3>1. \A i, j \in 1 .. Len(t) : t[i] = t[j] => i = j
        BY <1>1, <2>5 DEF IsInjective
      <3>2. ASSUME NEW i \in 1 .. MaxHistory, NEW j \in 1 .. MaxHistory, u[i] = u[j]
            PROVE  i = j
        <4>1. t[m + i] = t[m + j] /\ m + i \in 1 .. Len(t) /\ m + j \in 1 .. Len(t)
          BY <2>2, <2>3, <3>2
        <4>2. m + i = m + j
          BY <3>1, <4>1
        <4> QED BY <1>2, <2>1, <4>2
      <3> QED BY <2>2, <3>2 DEF IsInjective
    <2>6. \A n \in Nat : Len(s) = Cut(n) => Len(u) = Cut(n + 1)
      BY <1>1, <1>2, <1>5, <2>2 DEF Cut
    <2> QED BY <1>3, <1>4, <2>1, <2>4, <2>5, <2>6 DEF t
  <1>6. CASE ~(Len(t) > MaxHistory)
    <2>1. LastN(t) = t
      BY <1>6 DEF LastN
    <2>2. \A n \in Nat : Len(s) = Cut(n) => Len(t) = Cut(n + 1)
      BY <1>1, <1>2, <1>6 DEF Cut
    <2> QED BY <1>3, <1>4, <2>1, <2>2 DEF t
  <1> QED BY <1>5, <1>6

\* What is claimed in memory and in the file.
ClaimInv ==
    /\ Len(blockHistory) = Cut(stats.blocks) /\ Len(disk.history) = Cut(disk.blocks)
    /\ Range(blockHistory) \subseteq mined /\ Range(disk.history) \subseteq mined
    /\ IsInjective(blockHistory) /\ IsInjective(disk.history)
    /\ \A h \in Won : /\ handler[h].block \in mined
                      /\ handler[h].block \notin Range(blockHistory) \cup Range(disk.history)
    /\ \A g, h \in Won : handler[g].block = handler[h].block => g = h
    /\ IsFiniteSet(mined)
    /\ stats.blocks + Cardinality(Won) <= Cardinality(mined)

LEMMA WonFinite == IsFiniteSet(Won) /\ Cardinality(Won) \in Nat
  <1>1. IsFiniteSet(Won)
    BY BlockSubmitAssumption, FS_Subset DEF Won
  <1> QED BY <1>1, FS_CardinalityType

LEMMA WonBlocks == ASSUME IInv, NEW h \in Won PROVE h \in Handlers /\ handler[h].block \in Blocks
  <1>1. h \in Outstanding
    BY DEF Won, Outstanding
  <1> QED BY <1>1, WaitingFields

\* The file, if it was written, says what memory does.
LEMMA FileFollows ==
    ASSUME ClaimInv, disk' = disk \/ FileCatches, mined \subseteq mined',
           Len(blockHistory') = Cut(stats'.blocks), Range(blockHistory') \subseteq mined',
           IsInjective(blockHistory')
    PROVE  /\ Len(disk'.history) = Cut(disk'.blocks)
           /\ Range(disk'.history) \subseteq mined' /\ IsInjective(disk'.history)
           /\ disk' = disk \/ disk'.history = blockHistory'
  BY DEF ClaimInv, FileCatches

LEMMA QuietKeeps == ASSUME IInv, ClaimInv, Quiet PROVE ClaimInv'
  <1>1. /\ stats'.blocks = stats.blocks /\ blockHistory' = blockHistory /\ mined' = mined
        /\ disk' = disk \/ FileCatches
    BY DEF Quiet
  <1>2. /\ Len(blockHistory') = Cut(stats'.blocks) /\ Range(blockHistory') \subseteq mined'
        /\ IsInjective(blockHistory')
    BY <1>1 DEF ClaimInv
  <1>3. /\ Len(disk'.history) = Cut(disk'.blocks)
        /\ Range(disk'.history) \subseteq mined' /\ IsInjective(disk'.history)
        /\ disk' = disk \/ disk'.history = blockHistory'
    BY <1>1, <1>2, FileFollows
  <1>4. \A h \in Won' :
           /\ handler'[h].block \in mined'
           /\ handler'[h].block \notin Range(blockHistory') \cup Range(disk'.history)
    BY <1>1, <1>3 DEF Quiet, ClaimInv
  <1>5. \A g, h \in Won' : handler'[g].block = handler'[h].block => g = h
    BY DEF Quiet, ClaimInv
  <1>6. IsFiniteSet(mined')
    BY <1>1 DEF ClaimInv
  <1>7. stats'.blocks + Cardinality(Won') <= Cardinality(mined')
    <2>1. Won' \subseteq Won
      BY DEF Quiet
    <2>2. Cardinality(Won') <= Cardinality(Won) /\ Cardinality(Won') \in Nat
      BY <2>1, WonFinite, FS_Subset, FS_CardinalityType
    <2>3. stats.blocks + Cardinality(Won) <= Cardinality(mined) /\ Cardinality(mined) \in Nat
      BY FS_CardinalityType DEF ClaimInv
    <2> QED BY <1>1, <2>2, <2>3, WonFinite, Unmoved
  <1> QED BY <1>2, <1>3, <1>4, <1>5, <1>6, <1>7 DEF ClaimInv

\* The node accepts no block twice: the block is in no history and no other
\* handler holds an acceptance of it.
LEMMA WinKeeps == ASSUME IInv, ClaimInv, NEW h \in Handlers, Wins(h) PROVE ClaimInv'
  <1>1. /\ stats'.blocks = stats.blocks /\ blockHistory' = blockHistory /\ disk' = disk
        /\ mined' = mined \cup {handler[h].block} /\ handler[h].block \notin mined
        /\ Won' = Won \cup {h} /\ h \notin Won
        /\ \A g \in Won' : handler'[g].block = handler[g].block
    BY DEF Wins
  <1>2. /\ Len(blockHistory') = Cut(stats'.blocks) /\ Range(blockHistory') \subseteq mined'
        /\ IsInjective(blockHistory')
        /\ Len(disk'.history) = Cut(disk'.blocks)
        /\ Range(disk'.history) \subseteq mined' /\ IsInjective(disk'.history)
    BY <1>1 DEF ClaimInv
  <1>3. \A g \in Won' :
           /\ handler'[g].block \in mined'
           /\ handler'[g].block \notin Range(blockHistory') \cup Range(disk'.history)
    BY <1>1 DEF ClaimInv
  <1>4. \A f, g \in Won' : handler'[f].block = handler'[g].block => f = g
    BY <1>1 DEF ClaimInv
  <1>5. /\ IsFiniteSet(mined') /\ Cardinality(mined') = Cardinality(mined) + 1
        /\ Cardinality(mined) \in Nat
    BY <1>1, FS_AddElement, FS_CardinalityType DEF ClaimInv
  <1>6. Cardinality(Won') = Cardinality(Won) + 1
    BY <1>1, WonFinite, FS_AddElement
  <1>7. stats'.blocks + Cardinality(Won') <= Cardinality(mined')
    BY <1>1, <1>5, <1>6, WonFinite, Unmoved DEF ClaimInv
  <1> QED BY <1>2, <1>3, <1>4, <1>5, <1>7 DEF ClaimInv

LEMMA ClaimKeeps == ASSUME IInv, ClaimInv, NEW h \in Handlers, Claims(h) PROVE ClaimInv'
  <1> DEFINE b == handler[h].block
  <1>1. /\ stats'.blocks = stats.blocks + 1 /\ mined' = mined
        /\ blockHistory' = LastN(Append(blockHistory, b))
        /\ Won' = Won \ {h} /\ h \in Won
        /\ \A g \in Won' : handler'[g].block = handler[g].block
        /\ disk' = disk \/ FileCatches
    BY DEF Claims
  <1>2. b \in Blocks /\ blockHistory \in Seq(Blocks) /\ stats.blocks \in Nat
    BY <1>1, WonBlocks, Unmoved
  <1>3. b \in mined /\ b \notin Range(blockHistory) /\ b \notin Range(disk.history)
    BY <1>1 DEF ClaimInv
  <1>4. \A g \in Won' : handler[g].block # b
    BY <1>1 DEF ClaimInv
  <1> HIDE DEF b
  <1>5. /\ Len(blockHistory') = Cut(stats'.blocks)
        /\ Range(blockHistory') \subseteq Range(blockHistory) \cup {b}
        /\ IsInjective(blockHistory')
    BY <1>1, <1>2, <1>3, CutHistory DEF ClaimInv
  <1>6. Range(blockHistory') \subseteq mined'
    BY <1>1, <1>3, <1>5 DEF ClaimInv
  <1>7. /\ Len(disk'.history) = Cut(disk'.blocks)
        /\ Range(disk'.history) \subseteq mined' /\ IsInjective(disk'.history)
        /\ disk' = disk \/ disk'.history = blockHistory'
    BY <1>1, <1>5, <1>6, FileFollows
  <1>8. \A g \in Won' :
           /\ handler'[g].block \in mined'
           /\ handler'[g].block \notin Range(blockHistory') \cup Range(disk'.history)
    BY <1>1, <1>4, <1>5, <1>7 DEF ClaimInv
  <1>9. \A f, g \in Won' : handler'[f].block = handler'[g].block => f = g
    BY <1>1 DEF ClaimInv
  <1>10. IsFiniteSet(mined')
    BY <1>1 DEF ClaimInv
  <1>11. stats'.blocks + Cardinality(Won') <= Cardinality(mined')
    <2>1. Cardinality(Won') = Cardinality(Won) - 1
      BY <1>1, WonFinite, FS_RemoveElement
    <2>2. stats.blocks + Cardinality(Won) <= Cardinality(mined) /\ Cardinality(mined) \in Nat
      BY FS_CardinalityType DEF ClaimInv
    <2> QED BY <1>1, <1>2, <2>1, <2>2, WonFinite
  <1> QED BY <1>5, <1>6, <1>7, <1>8, <1>9, <1>10, <1>11 DEF ClaimInv

\* A restart forgets at most what the file did not have yet.
LEMMA RestartKeeps == ASSUME IInv, ClaimInv, Restarts PROVE ClaimInv'
  <1>1. /\ Won' = {} /\ mined' = mined
        /\ stats'.blocks = disk'.blocks /\ blockHistory' = disk'.history
        /\ disk' = disk \/ (disk'.blocks = stats.blocks /\ disk'.history = blockHistory)
    BY DEF Restarts
  <1>2. /\ Len(disk'.history) = Cut(disk'.blocks)
        /\ Range(disk'.history) \subseteq mined' /\ IsInjective(disk'.history)
    BY <1>1 DEF ClaimInv
  <1>3. IsFiniteSet(mined') /\ Cardinality(mined) \in Nat
    BY <1>1, FS_CardinalityType DEF ClaimInv
  <1>4. stats'.blocks + Cardinality(Won') <= Cardinality(mined')
    <2>1. stats'.blocks \in Nat /\ stats'.blocks <= stats.blocks /\ stats.blocks \in Nat
      BY <1>1, Numbers DEF IInv, MemoryAheadOfDisk
    <2>2. Cardinality(Won') = 0
      BY <1>1, FS_EmptySet
    <2>3. stats.blocks + Cardinality(Won) <= Cardinality(mined)
      BY DEF ClaimInv
    <2> QED BY <1>1, <1>3, <2>1, <2>2, <2>3, WonFinite
  <1> QED BY <1>1, <1>2, <1>3, <1>4 DEF ClaimInv

LEMMA ClaimsAlways == Spec => [](IInv /\ ClaimInv)
  <1>1. Init => ClaimInv
    <2> SUFFICES ASSUME Init PROVE ClaimInv
      OBVIOUS
    <2>1. /\ Won = {} /\ mined = {} /\ stats.blocks = 0 /\ blockHistory = <<>>
          /\ disk.history = <<>> /\ disk.blocks = 0
      BY IdleHandlers DEF Init, Won, IsSubmitting, ZeroStats, NoFile, FileOf
    <2>2. Len(<<>>) = 0 /\ Range(<<>>) = {} /\ IsInjective(<<>>)
      BY DEF Range, IsInjective
    <2>3. Cut(0) = 0
      BY BlockSubmitAssumption DEF Cut
    <2>4. IsFiniteSet({}) /\ Cardinality({}) = 0
      BY FS_EmptySet
    <2> QED BY <2>1, <2>2, <2>3, <2>4 DEF ClaimInv
  <1>2. IInv /\ ClaimInv /\ [Next]_vars => ClaimInv'
    BY StepKinds, QuietKeeps, WinKeeps, ClaimKeeps, RestartKeeps
  <1> QED BY <1>1, <1>2, Invariance, PTL DEF Spec

\* The pool claims only blocks the node accepted from it, and each once, across
\* retries, timeouts and restarts (submitBlockCandidate, the state file).
THEOREM OnlyMinedClaimed == Spec => []ClaimsAreMined
  <1>1. IInv /\ ClaimInv => ClaimsAreMined
    <2> SUFFICES ASSUME IInv, ClaimInv PROVE ClaimsAreMined
      OBVIOUS
    <2>1. stats.blocks <= Cardinality(mined)
      <3>1. stats.blocks + Cardinality(Won) <= Cardinality(mined) /\ Cardinality(mined) \in Nat
        BY FS_CardinalityType DEF ClaimInv
      <3> QED BY <3>1, WonFinite, Unmoved
    <2> QED BY <2>1 DEF ClaimInv, ClaimsAreMined
  <1> QED BY <1>1, ClaimsAlways, PTL

\* The history and the block total agree, in memory and in the file, for every
\* length the history is cut to (LastN, savePersistedState, loadPersistedState).
THEOREM HistoryAgrees == Spec => []HistoryMatchesTotal
  <1>1. ClaimInv => HistoryMatchesTotal
    BY DEF ClaimInv, HistoryMatchesTotal, Cut
  <1> QED BY <1>1, ClaimsAlways, PTL
=============================================================================
