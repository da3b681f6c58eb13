----------------------------- MODULE JobPipeline -----------------------------
(***************************************************************************)
(* From the node's template to the miners: JobUpdate composed with the job *)
(* store of lib/workManager.js (generateJob) and the notifications of      *)
(* lib/stratumServer.js (broadcastJob, the notify that follows authorize   *)
(* and its delayed repetition).                                            *)
(*                                                                         *)
(* A step of JobUpdate that finishes generateJob is here one step with the *)
(* storing of the job and its broadcast: the code has no await in between. *)
(***************************************************************************)
EXTENDS JobUpdate, Sequences

CONSTANTS
    Clients,       \* Stratum connections
    MaxJobs,       \* jobs a WorkManager keeps (64 in the code)
    MaxJobId,      \* bound: generations after which the model stops counting
    MaxResends     \* bound: delayed repetitions pending per connection

ASSUME PipelineAssumption ==
    MaxJobs \in Nat \ {0} /\ MaxJobId \in Nat /\ MaxResends \in Nat

VARIABLES
    jobCounter,
    jobs,          \* WorkManager.jobs: insertion order is the order of the ids
    history,       \* auxiliary: every job broadcast so far, oldest first
    conn,          \* per client: absent, open, authorized, destroyed
    notified,      \* per client: the last job written to its socket
    resend         \* per client: delayed repetitions that are still due

storeVars == <<jobCounter, jobs, history>>
connVars  == <<conn, notified, resend>>
pipelineVars == <<vars, storeVars, connVars>>

-----------------------------------------------------------------------------
\* WorkManager: the job store.

StoredJobs == [id : 1 .. MaxJobId, height : 1 .. MaxHeight + 1,
               branch : Branches, clean : BOOLEAN]

NoNotify == [id |-> 0]

StoredJob(id, tmpl, cleanJobs) ==
    [id |-> id, height |-> tmpl.height, branch |-> tmpl.branch, clean |-> cleanJobs]

\* jobs.delete(jobs.keys().next().value): the first key is the lowest id.
AllButOldest(S) == {j \in S : \E k \in S : k.id < j.id}

\* Mutant: a full store drops the job it has just been given.
Bounded_DropsNewest(S) ==
    IF Cardinality(S) > MaxJobs
    THEN {j \in S : \E k \in S : k.id > j.id}
    ELSE S

\* if (jobs.size > 64) ...
Bounded(S) == IF Cardinality(S) > MaxJobs THEN AllButOldest(S) ELSE S

\* Mutant: jobs of other heights are only dropped by a clean job.
Retained_AllHeights(S, job) ==
    Bounded((IF job.clean THEN {} ELSE S) \cup {job})

\* What is left of the jobs S when job is stored.
Retained(S, job) ==
    LET kept == IF job.clean THEN {} ELSE S
    IN  Bounded({j \in kept : j.height = job.height} \cup {job})

-----------------------------------------------------------------------------
\* StratumServer: who is told which job.  The last job broadcast is the last
\* of history; the code keeps it in lastJob.

Authorized == {c \in Clients : conn[c] = "authorized"}
lastJob == history[Len(history)]

\* Mutant: only connections that were told an earlier job get the new one.
Broadcast_SkipsNew(job) ==
    /\ notified' = [c \in Clients |->
                      IF c \in Authorized /\ notified[c] # NoNotify
                      THEN job ELSE notified[c]]
    /\ UNCHANGED <<conn, resend>>

\* A connection whose outbound backlog is over the cap is destroyed instead
\* of being written to; Node decides how much it has flushed.
Broadcast(job) ==
    \E slow \in SUBSET Authorized :
        /\ conn' = [c \in Clients |-> IF c \in slow THEN "destroyed" ELSE conn[c]]
        /\ notified' = [c \in Clients |->
                          IF c \in Authorized \ slow THEN job ELSE notified[c]]
        /\ resend' = resend

Publish(l) ==
    /\ jobCounter < MaxJobId
    /\ GenDone(l)
    /\ jobCounter' = jobCounter + 1
    /\ LET job == StoredJob(jobCounter + 1, gen[l].tmpl, gen[l].clean)
       IN  /\ jobs' = Retained(jobs, job)
           /\ history' = Append(history, job)
           /\ Broadcast(job)

\* A generation that fails after the answer may have used up a job id
\* (++jobCounter precedes the check of the coinbase).
Abandon(l) ==
    /\ GenFail(l)
    /\ \/ jobCounter' = jobCounter
       \/ /\ gen[l].at = "answered"
          /\ jobCounter < MaxJobId
          /\ jobCounter' = jobCounter + 1
    /\ UNCHANGED <<jobs, history, connVars>>

Connect(c) ==
    /\ conn[c] = "absent"
    /\ conn' = [conn EXCEPT ![c] = "open"]
    /\ notified' = [notified EXCEPT ![c] = NoNotify]
    /\ UNCHANGED <<vars, storeVars, resend>>

\* Mutant: the job only goes out with the delayed repetition.
Authorize_DelayedOnly(c) ==
    /\ conn[c] \in {"open", "authorized"}
    /\ IF history = <<>>
       THEN UNCHANGED resend
       ELSE resend[c] < MaxResends /\ resend' = [resend EXCEPT ![c] = @ + 1]
    /\ conn' = [conn EXCEPT ![c] = "authorized"]
    /\ UNCHANGED <<vars, storeVars, notified>>

\* mining.authorize: the last job, if there is one, goes out at once and once
\* more after jobResendDelayMs.  A miner may authorize again.  A write that
\* meets a full backlog destroys the socket: that is Destroy.
Authorize(c) ==
    /\ conn[c] \in {"open", "authorized"}
    /\ IF history = <<>>
       THEN UNCHANGED <<notified, resend>>
       ELSE /\ resend[c] < MaxResends
            /\ resend' = [resend EXCEPT ![c] = @ + 1]
            /\ notified' = [notified EXCEPT ![c] = lastJob]
    /\ conn' = [conn EXCEPT ![c] = "authorized"]
    /\ UNCHANGED <<vars, storeVars>>

\* Mutant: what is repeated is the first job of the session.
Resend_FirstJob(c) ==
    /\ resend[c] > 0
    /\ resend' = [resend EXCEPT ![c] = @ - 1]
    /\ notified' = IF conn[c] = "authorized"
                   THEN [notified EXCEPT ![c] = history[1]] ELSE notified
    /\ UNCHANGED <<vars, storeVars, conn>>

Resend(c) ==
    /\ resend[c] > 0
    /\ resend' = [resend EXCEPT ![c] = @ - 1]
    /\ notified' = IF conn[c] = "authorized"
                   THEN [notified EXCEPT ![c] = lastJob] ELSE notified
    /\ UNCHANGED <<vars, storeVars, conn>>

\* The socket dies: closed by the miner, by the pool or by a full backlog.
Destroy(c) ==
    /\ conn[c] \in {"open", "authorized"}
    /\ conn' = [conn EXCEPT ![c] = "destroyed"]
    /\ UNCHANGED <<vars, storeVars, notified, resend>>

\* The cleanup of its close event.  Repetitions still due refer to the old
\* client object, whose socket stays destroyed: they do nothing.
Cleanup(c) ==
    /\ conn[c] = "destroyed"
    /\ conn' = [conn EXCEPT ![c] = "absent"]
    /\ resend' = [resend EXCEPT ![c] = 0]
    /\ UNCHANGED <<vars, storeVars, notified>>

-----------------------------------------------------------------------------
PipelineInit ==
    /\ Init
    /\ jobCounter = 0
    /\ jobs = {}
    /\ history = <<>>
    /\ conn = [c \in Clients |-> "absent"]
    /\ notified = [c \in Clients |-> NoNotify]
    /\ resend = [c \in Clients |-> 0]

\* The steps of JobUpdate that neither finish nor abandon a generation.
UpdateStep ==
    /\ \/ Start \/ RefreshTick \/ BlockFound \/ NodeTip
       \/ \E p \in Polls : PollTick(p) \/ CountAnswer(p) \/ PollReturn(p) \/ PollFail(p)
       \/ \E l \in Loops : TemplateAnswer(l)
    /\ UNCHANGED <<storeVars, connVars>>

PipelineNext ==
    \/ UpdateStep
    \/ \E l \in Loops : Publish(l) \/ Abandon(l)
    \/ \E c \in Clients :
          Connect(c) \/ Authorize(c) \/ Resend(c) \/ Destroy(c) \/ Cleanup(c)

PipelineSpec == PipelineInit /\ [][PipelineNext]_pipelineVars

-----------------------------------------------------------------------------
PipelineTypeOK ==
    /\ TypeOK
    /\ jobCounter \in 0 .. MaxJobId
    /\ jobs \in SUBSET StoredJobs
    /\ history \in Seq(StoredJobs)
    /\ conn \in [Clients -> {"absent", "open", "authorized", "destroyed"}]
    /\ notified \in [Clients -> StoredJobs \cup {NoNotify}]
    /\ resend \in [Clients -> 0 .. MaxResends]

\* Every job a share can still be submitted for is of the current height, so
\* validateShare's "Stale Job" branch is never taken.
JobsAtCurrentHeight == \A j \in jobs : j.height = currentJob.height

\* Every authorized miner has been told the job the pool mines on now (once
\* there is one), by the broadcast or by the notify that follows authorize,
\* and a share for it would be found in the store.
MinersOnLastJob ==
    history # <<>> => \A c \in Authorized : notified[c] = lastJob /\ lastJob \in jobs

\* The store holds exactly the jobs a miner may still be working on: the last
\* MaxJobs broadcast, back to the last clean job or change of height, and no
\* other.  So a share in flight when a refresh that is not clean goes out is
\* still found, and none from before a clean job is.
RetentionExact ==
    LET n == Len(history)
        Usable(k) == /\ k + MaxJobs > n
                     /\ \A i \in k + 1 .. n : ~history[i].clean
                     /\ \A i \in k .. n : history[i].height = history[n].height
    IN  jobs = {history[k] : k \in {i \in 1 .. n : Usable(i)}}

\* What makes these inductive: ids are handed out in order, the job of the
\* last broadcast is stored and current, and a socket that has not been authorized has
\* been told nothing.
IdsInOrder ==
    /\ \A j \in jobs : j.id <= jobCounter
    /\ \A c \in Clients : notified[c].id <= jobCounter

LastJobStored ==
    /\ history = <<>> => jobs = {} /\ \A c \in Clients : resend[c] = 0
    /\ history # <<>> => lastJob \in jobs /\ currentJob # NoJob

OpenIsSilent == \A c \in Clients : conn[c] = "open" => notified[c] = NoNotify

PipelineIInv ==
    /\ IInv
    /\ PipelineTypeOK
    /\ JobsAtCurrentHeight
    /\ MinersOnLastJob
    /\ IdsInOrder
    /\ LastJobStored
    /\ OpenIsSilent

\* What a socket is told never goes back to an older job while it is the same
\* connection, repetition or not.
NotifyNeverOlder ==
    [][\A c \in Clients :
          notified'[c] # notified[c] =>
             notified'[c] = NoNotify \/ notified'[c].id > notified[c].id]_notified

\* What a miner sees of the feed: an authorized one the job it was told last.
DeafMiner == [deaf |-> TRUE]
ViewOf(c) == IF conn[c] = "authorized" THEN notified[c] ELSE DeafMiner

Feed == INSTANCE JobFeed
            WITH Miners <- Clients, Job <- StoredJobs, Waiting <- NoNotify,
                 Deaf <- DeafMiner, published <- history,
                 view <- [c \in Clients |-> ViewOf(c)]

\* The pipeline is a job feed: generations, polls and refreshes that overlap,
\* late repetitions, repeated authorization and connections that die or are
\* replaced show up as a sequence of ever newer jobs of which every authorized
\* miner has the last, or do not show at all.
FeedSpec == Feed!Spec
=============================================================================
