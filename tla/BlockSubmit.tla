----------------------------- MODULE BlockSubmit -----------------------------
(***************************************************************************)
(* What the pool does with accepted shares that solve a block: duplicate   *)
(* suppression, submitblock with its alternate parameter shapes, counting, *)
(* block history, and the state file that has to survive a crash           *)
(* (index.js: the submit handler, submitBlockCandidate,                    *)
(* savePersistedState, loadPersistedState; lib/zcashRpc.js: submitBlock).  *)
(*                                                                         *)
(* Time passes in ticks of one RPC timeout (15 s).  The job update that    *)
(* ends the handler is BlockFound in JobUpdate.                            *)
(***************************************************************************)
EXTENDS Integers, Sequences, FiniteSets, Functions

CONSTANTS
    Blocks,         \* block hashes miners can find
    Handlers,       \* submit handlers that can be suspended at once
    Attempts,       \* submitblock calls of one submission (5 in the code)
    Window,         \* blockSubmitDedupWindowMs, in ticks (8 by default)
    MaxHistory,     \* maxBlockHistory (200 in the code)
    Difficulties,   \* difficulties shares can have
    MaxShares,      \* bound on stats.shares
    MaxCandidates   \* bound on stats.blockCandidates

ASSUME BlockSubmitAssumption ==
    /\ Attempts \in Nat \ {0}
    /\ Window \in Nat
    /\ MaxHistory \in Nat \ {0}
    /\ Difficulties \subseteq Nat \ {0}
    /\ MaxShares \in Nat /\ MaxCandidates \in Nat
    /\ IsFiniteSet(Handlers)

VARIABLES
    handler,                 \* per handler: where its submission stands
    recentBlockSubmissions,  \* per block: ticks since it was recorded
    mined,                   \* blocks the node has accepted (external)
    stats,
    allTimeBest,             \* allTimeBestShare.difficulty
    blockHistory,
    disk                     \* pool-state.json

memory == <<stats, allTimeBest, blockHistory>>
vars == <<handler, recentBlockSubmissions, mined, memory, disk>>

-----------------------------------------------------------------------------
Never == -1     \* the block is not in recentBlockSubmissions

Idle == [at |-> "idle"]
\* Waiting for the answer to the n-th submitblock; reply is what the node has
\* decided, age the ticks the call has taken.
Submitting(b, n, reply, age) ==
    [at |-> "submit", block |-> b, attempt |-> n, reply |-> reply, age |-> age]
Proposing(b) == [at |-> "propose", block |-> b]

Replies == {"none", "accepted", "refused"}
HandlerStates ==
    {Idle} \cup {Proposing(b) : b \in Blocks}
    \cup {Submitting(b, n, r, a) :
             b \in Blocks, n \in 1 .. Attempts, r \in Replies, a \in 0 .. 1}

IsSubmitting(h) == handler[h].at = "submit"
Outstanding == {h \in Handlers : IsSubmitting(h)}

ZeroStats == [shares |-> 0, candidates |-> 0, blocks |-> 0, rejected |-> 0]

\* What savePersistedState writes.
FileOf(st, best, hist) ==
    [shares |-> st.shares, candidates |-> st.candidates, blocks |-> st.blocks,
     rejected |-> st.rejected, best |-> best, history |-> hist]

NoFile == FileOf(ZeroStats, 0, <<>>)

\* Mutant: the state file is written in place; a crash in the middle leaves a
\* file that does not parse, which loads as if there were none.
SaveTo_InPlace(file) == disk' \in {disk, file, NoFile}

\* Written to a temporary file and renamed: the old contents or the new.  A
\* failure is caught and logged.
SaveTo(file) == disk' \in {disk, file}

-----------------------------------------------------------------------------
\* Shares.  The share is counted, and a new best one is saved, before the
\* handler looks whether it is a block.

Counted == [stats EXCEPT !.shares = @ + 1]

NoteShare(d) ==
    IF d > allTimeBest
    THEN /\ allTimeBest' = d
         /\ SaveTo(FileOf(Counted, d, blockHistory))
    ELSE UNCHANGED <<allTimeBest, disk>>

AcceptShare(d) ==
    /\ stats.shares < MaxShares
    /\ NoteShare(d)
    /\ stats' = Counted
    /\ UNCHANGED <<handler, recentBlockSubmissions, mined, blockHistory>>

\* prev && now - prev < blockSubmitDedupWindowMs
Suppressed(b) ==
    /\ recentBlockSubmissions[b] # Never
    /\ recentBlockSubmissions[b] < Window

\* Mutant: the block is recorded only when its submission is over.
Submit_RecordedLate(h, b) ==
    /\ UNCHANGED recentBlockSubmissions
    /\ handler' = [handler EXCEPT ![h] = Submitting(b, 1, "none", 0)]

Submit(h, b) ==
    /\ recentBlockSubmissions' = [recentBlockSubmissions EXCEPT ![b] = 0]
    /\ handler' = [handler EXCEPT ![h] = Submitting(b, 1, "none", 0)]

FindBlock(h, b, d) ==
    /\ handler[h] = Idle
    /\ stats.shares < MaxShares
    /\ stats.candidates < MaxCandidates
    /\ NoteShare(d)
    /\ stats' = [Counted EXCEPT !.candidates = @ + 1]
    /\ \/ Suppressed(b) /\ UNCHANGED <<handler, recentBlockSubmissions>>
       \/ ~Suppressed(b) /\ Submit(h, b)
    /\ UNCHANGED <<mined, blockHistory>>

-----------------------------------------------------------------------------
\* The node (external).  It accepts a block once; later it is a duplicate.
NodeDecides(h) ==
    /\ IsSubmitting(h)
    /\ handler[h].reply = "none"
    /\ \/ /\ handler[h].block \notin mined
          /\ mined' = mined \cup {handler[h].block}
          /\ handler' = [handler EXCEPT ![h].reply = "accepted"]
       \/ /\ UNCHANGED mined
          /\ handler' = [handler EXCEPT ![h].reply = "refused"]
    /\ UNCHANGED <<recentBlockSubmissions, memory, disk>>

\* Mutant: the parameter shapes never run out.
Retry_NoEnd(h) ==
    /\ IsSubmitting(h)
    /\ handler[h].reply = "none"
    /\ handler' = [handler EXCEPT ![h] =
                     Submitting(@.block, @.attempt + 1, "none", 0)]
    /\ UNCHANGED <<recentBlockSubmissions, mined, memory, disk>>

\* The node did not understand the parameters (shouldRetrySubmitBlock): the
\* next shape is tried; after the last one the error is thrown.
Retry(h) ==
    /\ IsSubmitting(h)
    /\ handler[h].reply = "none"
    /\ handler[h].attempt < Attempts
    /\ handler' = [handler EXCEPT ![h] =
                     Submitting(@.block, @.attempt + 1, "none", 0)]
    /\ UNCHANGED <<recentBlockSubmissions, mined, memory, disk>>

-----------------------------------------------------------------------------
\* submitBlockCandidate after its await.

LastN(s) ==
    IF Len(s) > MaxHistory THEN SubSeq(s, Len(s) - MaxHistory + 1, Len(s)) ELSE s

\* Mutant: any answer from the node counts, a refusal as a duplicate too.
RpcAccepted_AnyAnswer(h) == handler[h].reply \in {"accepted", "refused"}

\* rpcResult == null
RpcAccepted(h) == handler[h].reply = "accepted"

Accepted(h) ==
    /\ IsSubmitting(h)
    /\ RpcAccepted(h)
    /\ stats' = [stats EXCEPT !.blocks = @ + 1]
    /\ blockHistory' = LastN(Append(blockHistory, handler[h].block))
    /\ SaveTo(FileOf(stats', allTimeBest, blockHistory'))
    /\ handler' = [handler EXCEPT ![h] = Idle]
    /\ UNCHANGED <<recentBlockSubmissions, mined, allTimeBest>>

\* The count goes up at once, the file is written after the proposal.
Refused(h) ==
    /\ IsSubmitting(h)
    /\ handler[h].reply = "refused"
    /\ ~RpcAccepted(h)
    /\ stats' = [stats EXCEPT !.rejected = @ + 1]
    /\ handler' = [handler EXCEPT ![h] = Proposing(handler[h].block)]
    /\ UNCHANGED <<recentBlockSubmissions, mined, allTimeBest, blockHistory, disk>>

\* Mutant: a proposal that fails ends in the outer catch, which counts again.
Proposed_CountsAgain(h) ==
    /\ handler[h].at = "propose"
    /\ handler' = [handler EXCEPT ![h] = Idle]
    /\ stats' = [stats EXCEPT !.rejected = @ + 1]
    /\ SaveTo(FileOf(stats', allTimeBest, blockHistory))
    /\ UNCHANGED <<recentBlockSubmissions, mined, allTimeBest, blockHistory>>

\* proposeBlock answered or failed; either way only a text changes.
Proposed(h) ==
    /\ handler[h].at = "propose"
    /\ handler' = [handler EXCEPT ![h] = Idle]
    /\ SaveTo(FileOf(stats, allTimeBest, blockHistory))
    /\ UNCHANGED <<recentBlockSubmissions, mined, memory>>

\* Mutant: the calls carry no timeout, so only an answer ends them.
Failed_NoTimeout(h) ==
    /\ IsSubmitting(h)
    /\ handler[h].reply # "none"
    /\ stats' = [stats EXCEPT !.rejected = @ + 1]
    /\ SaveTo(FileOf(stats', allTimeBest, blockHistory))
    /\ handler' = [handler EXCEPT ![h] = Idle]
    /\ UNCHANGED <<recentBlockSubmissions, mined, allTimeBest, blockHistory>>

\* The call threw: a timeout, a lost answer, an error that is not retried, or
\* the last shape was not understood.  The node may have accepted the block.
Failed(h) ==
    /\ IsSubmitting(h)
    /\ stats' = [stats EXCEPT !.rejected = @ + 1]
    /\ SaveTo(FileOf(stats', allTimeBest, blockHistory))
    /\ handler' = [handler EXCEPT ![h] = Idle]
    /\ UNCHANGED <<recentBlockSubmissions, mined, allTimeBest, blockHistory>>

-----------------------------------------------------------------------------
\* Timers, shutdown and restart.

\* No call outlives its timeout: it ends before the second tick it sees.
Tick ==
    /\ \A h \in Outstanding : handler[h].age = 0
    /\ handler' = [h \in Handlers |->
                     IF IsSubmitting(h) THEN [handler[h] EXCEPT !.age = 1]
                                        ELSE handler[h]]
    /\ recentBlockSubmissions' =
          [b \in Blocks |-> IF recentBlockSubmissions[b] \in {Never, Window + 1}
                            THEN recentBlockSubmissions[b]
                            ELSE recentBlockSubmissions[b] + 1]
    /\ UNCHANGED <<mined, memory, disk>>

\* Mutant: entries are dropped without a look at their age.
Prune_All ==
    /\ recentBlockSubmissions' = [b \in Blocks |-> Never]
    /\ UNCHANGED <<handler, mined, memory, disk>>

\* The clean-up timer: entries older than the window go.
Prune ==
    /\ recentBlockSubmissions' =
          [b \in Blocks |-> IF recentBlockSubmissions[b] > Window
                            THEN Never ELSE recentBlockSubmissions[b]]
    /\ UNCHANGED <<handler, mined, memory, disk>>

SaveTimer ==
    /\ SaveTo(FileOf(stats, allTimeBest, blockHistory))
    /\ UNCHANGED <<handler, recentBlockSubmissions, mined, memory>>

\* Mutant: the block totals are not read back.
LoadPersistedState_NoTotals(file) ==
    /\ stats' = ZeroStats
    /\ allTimeBest' = file.best
    /\ blockHistory' = file.history

\* Mutant: the history is not read back.
LoadPersistedState_NoHistory(file) ==
    /\ stats' = [shares |-> 0, candidates |-> file.candidates,
                 blocks |-> file.blocks, rejected |-> file.rejected]
    /\ allTimeBest' = file.best
    /\ blockHistory' = <<>>

\* The constructor starts from zero and takes back the totals of the blocks,
\* the best share and the history.
LoadPersistedState(file) ==
    /\ stats' = [shares |-> 0, candidates |-> file.candidates,
                 blocks |-> file.blocks, rejected |-> file.rejected]
    /\ allTimeBest' = file.best
    /\ blockHistory' = file.history

\* The process dies and a new one starts: suspended handlers and the
\* duplicate map are gone, the file is read.
Crash ==
    /\ LoadPersistedState(disk)
    /\ handler' = [h \in Handlers |-> Idle]
    /\ recentBlockSubmissions' = [b \in Blocks |-> Never]
    /\ UNCHANGED <<mined, disk>>

\* SIGINT or SIGTERM: as a crash, after a last save.
GracefulShutdown ==
    /\ SaveTo(FileOf(stats, allTimeBest, blockHistory))
    /\ LoadPersistedState(disk')
    /\ handler' = [h \in Handlers |-> Idle]
    /\ recentBlockSubmissions' = [b \in Blocks |-> Never]
    /\ UNCHANGED mined

-----------------------------------------------------------------------------
Init ==
    /\ handler = [h \in Handlers |-> Idle]
    /\ recentBlockSubmissions = [b \in Blocks |-> Never]
    /\ mined = {}
    /\ stats = ZeroStats
    /\ allTimeBest = 0
    /\ blockHistory = <<>>
    /\ disk = NoFile

HandlerStep(h) ==
    \/ NodeDecides(h) \/ Retry(h)
    \/ Accepted(h) \/ Refused(h) \/ Proposed(h) \/ Failed(h)

Next ==
    \/ \E d \in Difficulties : AcceptShare(d)
    \/ \E h \in Handlers, b \in Blocks, d \in Difficulties : FindBlock(h, b, d)
    \/ \E h \in Handlers : HandlerStep(h)
    \/ Tick
    \/ Prune
    \/ SaveTimer
    \/ Crash
    \/ GracefulShutdown

Spec == Init /\ [][Next]_vars

\* Every call to the node is answered or times out, and the continuation runs.
Fairness ==
    \A h \in Handlers : WF_vars(Accepted(h) \/ Refused(h) \/ Proposed(h) \/ Failed(h))

FairSpec == Spec /\ Fairness

-----------------------------------------------------------------------------
Files == [shares : 0 .. MaxShares, candidates : 0 .. MaxCandidates,
          blocks : Nat, rejected : Nat,
          best : Difficulties \cup {0}, history : Seq(Blocks)]

TypeOK ==
    /\ handler \in [Handlers -> HandlerStates]
    /\ recentBlockSubmissions \in [Blocks -> Never .. Window + 1]
    /\ mined \in SUBSET Blocks
    /\ stats \in [shares : 0 .. MaxShares, candidates : 0 .. MaxCandidates,
                  blocks : Nat, rejected : Nat]
    /\ allTimeBest \in Difficulties \cup {0}
    /\ blockHistory \in Seq(Blocks)
    /\ disk \in Files

\* While one handler waits for the node's verdict on a block, no other hands
\* the node the same block: the duplicate map is written before the await and
\* neither the clock nor the clean-up timer forgets an entry in use.
NoConcurrentDuplicate ==
    \A g, h \in Outstanding : handler[g].block = handler[h].block => g = h

\* Every outcome belongs to a candidate, across every crash: what was counted
\* as mined or refused, and what is still open, never exceeds the candidates;
\* and what the file says is consistent too.
OutcomesHaveCandidates ==
    /\ stats.blocks + stats.rejected + Cardinality(Outstanding) <= stats.candidates
    /\ disk.blocks + disk.rejected <= disk.candidates

\* The pool only ever claims blocks the node accepted from it, and claims each
\* of them once, whatever was retried, lost or repeated after a restart.
ClaimsAreMined ==
    /\ Range(blockHistory) \subseteq mined
    /\ IsInjective(blockHistory)
    /\ stats.blocks <= Cardinality(mined)

\* The history shown to the operator and the block total agree, in memory and
\* in the file, up to the length the history is cut to.
HistoryMatchesTotal ==
    LET Cut(n) == IF n > MaxHistory THEN MaxHistory ELSE n
    IN  /\ Len(blockHistory) = Cut(stats.blocks)
        /\ Len(disk.history) = Cut(disk.blocks)

\* The file never loses a mined block or the best share, however crashes and
\* failing saves are interleaved with the handlers.
FileNeverGoesBack ==
    [][/\ disk'.blocks >= disk.blocks
       /\ disk'.rejected >= disk.rejected
       /\ disk'.candidates >= disk.candidates
       /\ disk'.best >= disk.best]_disk

\* What makes these inductive: memory is never behind the file, and the entry
\* of a block is at most as old as the calls its submission has made.
MemoryAheadOfDisk ==
    /\ disk.blocks <= stats.blocks
    /\ disk.rejected <= stats.rejected
    /\ disk.candidates <= stats.candidates
    /\ disk.best <= allTimeBest

EntryCoversSubmission ==
    \A h \in Outstanding :
        LET age == recentBlockSubmissions[handler[h].block]
        IN  0 <= age /\ age <= handler[h].attempt - 1 + handler[h].age

IInv == TypeOK /\ OutcomesHaveCandidates /\ MemoryAheadOfDisk

\* Every block handed to the node gets an outcome (or the process died).
EveryCandidateResolved == \A h \in Handlers : IsSubmitting(h) ~> ~IsSubmitting(h)

\* README.md: "persisted pool state across restarts (block history, best
\* share, counts)".  The share count in the file is such a count.
ShareCountSurvives == [][disk'.shares >= disk.shares]_disk
=============================================================================
