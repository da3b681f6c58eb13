------------------------------ MODULE JobUpdate ------------------------------
(***************************************************************************)
(* How the pool keeps its current mining job in step with the node's tip   *)
(* (index.js: updateJob, the timers of start, the block-found call).       *)
(*                                                                         *)
(* Node.js runs one continuation at a time, so everything between two      *)
(* awaits is one action.  A call to the node is split into three steps:    *)
(* the pool asks, the node answers from the tip it has at that moment, the *)
(* pool handles the answer.  The tip may move between any two of them.     *)
(***************************************************************************)
EXTENDS Naturals, FiniteSets

CONSTANTS
    Branches,      \* names that tell competing blocks of one height apart
    MaxHeight,     \* bound: the node's tip stops growing here
    Polls,         \* height polls that can overlap (3 s timeout, 2 s period)
    Loops,         \* identities of the promises kept in jobUpdateInFlight
    NoLoop,        \* jobUpdateInFlight = null
    Refresh,       \* config pool.jobRefresh.enabled
    RefreshClean   \* config pool.jobRefresh.cleanJobs

ASSUME ConstantsAssumption ==
    /\ MaxHeight \in Nat
    /\ Refresh \in BOOLEAN
    /\ RefreshClean \in BOOLEAN
    /\ NoLoop \notin Loops

VARIABLES
    tip,                   \* the node's best block (external)
    phase,                 \* how far start() has come
    poll,                  \* per overlapping poll: waiting, answered, free
    gen,                   \* per loop: its generateJob call
    jobUpdateInFlight,
    jobUpdateQueued,
    jobUpdateQueuedClean,
    currentJob

updateVars == <<gen, jobUpdateInFlight, jobUpdateQueued, jobUpdateQueuedClean>>
vars == <<tip, phase, poll, updateVars, currentJob>>

-----------------------------------------------------------------------------
Tips      == [height : 0 .. MaxHeight, branch : Branches]
Templates == [height : 1 .. MaxHeight + 1, branch : Branches]
Jobs      == [height : 1 .. MaxHeight + 1, branch : Branches, clean : BOOLEAN]

\* getblocktemplate builds on the tip: its height is the tip's plus one.
TemplateOn(t) == [height |-> t.height + 1, branch |-> t.branch]

\* Mutant: the template's height is taken for the tip's.
JobFrom_NextHeight(tmpl, cleanJobs) ==
    [height |-> tmpl.height + 1, branch |-> tmpl.branch, clean |-> cleanJobs]

JobFrom(tmpl, cleanJobs) ==
    [height |-> tmpl.height, branch |-> tmpl.branch, clean |-> cleanJobs]

NoJob == [none |-> TRUE]

IdlePoll        == [at |-> "idle"]
AskedPoll       == [at |-> "asked"]
AnsweredPoll(h) == [at |-> "answered", height |-> h]
PollStates ==
    {IdlePoll, AskedPoll} \cup {AnsweredPoll(h) : h \in 0 .. MaxHeight}

IdleGen              == [at |-> "idle"]
AskedGen(clean)      == [at |-> "asked", clean |-> clean]
AnsweredGen(clean, tmpl) ==
    [at |-> "answered", clean |-> clean, tmpl |-> tmpl]
GenStates ==
    {IdleGen}
    \cup {AskedGen(clean) : clean \in BOOLEAN}
    \cup {AnsweredGen(clean, tmpl) : clean \in BOOLEAN, tmpl \in Templates}

Running(l) == gen[l].at # "idle"

-----------------------------------------------------------------------------
\* Every job update the pool ever wants goes through updateJob(clean): it
\* starts a loop, or leaves a note for the loop that is running.
StartLoop(clean) ==
    \E l \in Loops :
        /\ ~Running(l)
        /\ gen' = [gen EXCEPT ![l] = AskedGen(clean)]
        /\ jobUpdateInFlight' = l
        /\ UNCHANGED <<jobUpdateQueued, jobUpdateQueuedClean>>

QueueUpdate(clean) ==
    /\ jobUpdateQueued' = TRUE
    /\ jobUpdateQueuedClean' = (jobUpdateQueuedClean \/ clean)
    /\ UNCHANGED <<gen, jobUpdateInFlight>>

\* Mutant: no look at jobUpdateInFlight, every caller starts a loop.
UpdateJob_Unguarded(clean) == StartLoop(clean)

UpdateJob(clean) ==
    \/ jobUpdateInFlight = NoLoop /\ StartLoop(clean)
    \/ jobUpdateInFlight # NoLoop /\ QueueUpdate(clean)

\* Mutant: the finally clause that clears jobUpdateInFlight is missing.
EndLoop_NoFinally(l) ==
    /\ gen' = [gen EXCEPT ![l] = IdleGen]
    /\ jobUpdateInFlight' = jobUpdateInFlight
    /\ phase' = "running"

\* The finally clause: only the promise that is still registered is cleared.
EndLoop(l) ==
    /\ gen' = [gen EXCEPT ![l] = IdleGen]
    /\ jobUpdateInFlight' =
          IF jobUpdateInFlight = l THEN NoLoop ELSE jobUpdateInFlight
    \* start() awaits the first update before it arms the timers
    /\ phase' = "running"

\* Mutant: the next round keeps the clean flag the loop was started with.
ServeQueue_KeepsClean(l) ==
    /\ jobUpdateQueued
    /\ gen' = [gen EXCEPT ![l] = AskedGen(gen[l].clean)]
    /\ UNCHANGED <<jobUpdateInFlight, phase>>

\* generateJob returned: the job is current (and broadcast), then the loop
\* runs again if somebody asked meanwhile.
ServeQueue(l) ==
    /\ jobUpdateQueued
    /\ gen' = [gen EXCEPT ![l] = AskedGen(jobUpdateQueuedClean)]
    /\ UNCHANGED <<jobUpdateInFlight, phase>>

\* Mutant: jobUpdateQueued is not reset after it has been read.
GenDone_NoReset(l) ==
    /\ gen[l].at = "answered"
    /\ currentJob' = JobFrom(gen[l].tmpl, gen[l].clean)
    /\ \/ ServeQueue(l)
       \/ ~jobUpdateQueued /\ EndLoop(l)
    /\ jobUpdateQueued' = jobUpdateQueued
    /\ jobUpdateQueuedClean' = FALSE
    /\ UNCHANGED <<tip, poll>>

GenDone(l) ==
    /\ gen[l].at = "answered"
    /\ currentJob' = JobFrom(gen[l].tmpl, gen[l].clean)
    /\ \/ ServeQueue(l)
       \/ ~jobUpdateQueued /\ EndLoop(l)
    /\ jobUpdateQueued' = FALSE
    /\ jobUpdateQueuedClean' = FALSE
    /\ UNCHANGED <<tip, poll>>

\* The call failed, timed out, or the template did not pay the pool wallet:
\* the error is logged and the loop breaks, past the lines that read and
\* reset the queue flags.
GenFail(l) ==
    /\ Running(l)
    /\ EndLoop(l)
    /\ UNCHANGED <<tip, poll, jobUpdateQueued, jobUpdateQueuedClean, currentJob>>

-----------------------------------------------------------------------------
\* The callers of updateJob.

Start ==
    /\ phase = "starting"
    /\ phase' = "awaiting"
    /\ UpdateJob(TRUE)
    /\ UNCHANGED <<tip, poll, currentJob>>

PollTick(p) ==
    /\ phase = "running"
    /\ poll[p] = IdlePoll
    /\ poll' = [poll EXCEPT ![p] = AskedPoll]
    /\ UNCHANGED <<tip, phase, updateVars, currentJob>>

\* The poll's comparison of getblockcount with the current job's height.
PollWantsJob(height) == currentJob # NoJob => height # currentJob.height

PollReturn(p) ==
    /\ poll[p].at = "answered"
    /\ \/ PollWantsJob(poll[p].height) /\ UpdateJob(TRUE)
       \/ ~PollWantsJob(poll[p].height) /\ UNCHANGED updateVars
    /\ poll' = [poll EXCEPT ![p] = IdlePoll]
    /\ UNCHANGED <<tip, phase, currentJob>>

PollFail(p) ==
    /\ poll[p].at # "idle"
    /\ poll' = [poll EXCEPT ![p] = IdlePoll]
    /\ UNCHANGED <<tip, phase, updateVars, currentJob>>

RefreshTick ==
    /\ Refresh
    /\ phase = "running"
    /\ UpdateJob(RefreshClean)
    /\ UNCHANGED <<tip, phase, poll, currentJob>>

\* A share that solved a block has been dealt with (BlockSubmit has the steps
\* before this one).  Shares are valid only against a job that exists.
BlockFound ==
    /\ currentJob # NoJob
    /\ UpdateJob(TRUE)
    /\ UNCHANGED <<tip, phase, poll, currentJob>>

-----------------------------------------------------------------------------
\* The node (external): its tip grows or is replaced by a competing block of
\* at least the same height, and it answers from the tip of the moment.

NodeTip ==
    /\ \E t \in Tips : t # tip /\ t.height \in {tip.height, tip.height + 1} /\ tip' = t
    /\ UNCHANGED <<phase, poll, updateVars, currentJob>>

CountAnswer(p) ==
    /\ poll[p] = AskedPoll
    /\ poll' = [poll EXCEPT ![p] = AnsweredPoll(tip.height)]
    /\ UNCHANGED <<tip, phase, updateVars, currentJob>>

TemplateAnswer(l) ==
    /\ gen[l].at = "asked"
    /\ gen' = [gen EXCEPT ![l] = AnsweredGen(gen[l].clean, TemplateOn(tip))]
    /\ UNCHANGED <<tip, phase, poll, jobUpdateInFlight, jobUpdateQueued,
                   jobUpdateQueuedClean, currentJob>>

-----------------------------------------------------------------------------
Init ==
    /\ tip \in [height : {0}, branch : Branches]
    /\ phase = "starting"
    /\ poll = [p \in Polls |-> IdlePoll]
    /\ gen = [l \in Loops |-> IdleGen]
    /\ jobUpdateInFlight = NoLoop
    /\ jobUpdateQueued = FALSE
    /\ jobUpdateQueuedClean = FALSE
    /\ currentJob = NoJob

Next ==
    \/ Start
    \/ RefreshTick
    \/ BlockFound
    \/ NodeTip
    \/ \E p \in Polls : PollTick(p) \/ CountAnswer(p) \/ PollReturn(p) \/ PollFail(p)
    \/ \E l \in Loops : TemplateAnswer(l) \/ GenDone(l) \/ GenFail(l)

Spec == Init /\ [][Next]_vars

\* The event loop runs every continuation and timer that is due (WF).  The
\* node is assumed not to fail every call forever (SF on the good answers).
Fairness ==
    /\ WF_vars(Start)
    /\ WF_vars(RefreshTick)
    /\ \A p \in Polls :
          /\ WF_vars(PollTick(p))
          /\ SF_vars(CountAnswer(p))
          /\ SF_vars(PollReturn(p))
    /\ \A l \in Loops :
          /\ SF_vars(TemplateAnswer(l))
          /\ SF_vars(GenDone(l))

FairSpec == Spec /\ Fairness

-----------------------------------------------------------------------------
TypeOK ==
    /\ tip \in Tips
    /\ phase \in {"starting", "awaiting", "running"}
    /\ poll \in [Polls -> PollStates]
    /\ gen \in [Loops -> GenStates]
    /\ jobUpdateInFlight \in Loops \cup {NoLoop}
    /\ jobUpdateQueued \in BOOLEAN
    /\ jobUpdateQueuedClean \in BOOLEAN
    /\ currentJob \in Jobs \cup {NoJob}

\* At most one generateJob is outstanding, and it is the registered one: two
\* overlapping updateJob calls never race each other to the node.
SingleGeneration == \A l \in Loops : Running(l) <=> jobUpdateInFlight = l

\* The pool never replaces its job by one for a lower height, however node
\* answers, polls, refreshes and block-found calls overlap (the node's own
\* tip never goes down here).
JobNeverGoesBack ==
    [][currentJob # NoJob => currentJob'.height >= currentJob.height]_currentJob

\* A request for a clean job that arrives while a loop is running is never
\* lost: its flag is only ever cleared by starting a clean generation.
QueuedCleanHonoured ==
    [][jobUpdateQueuedClean /\ ~jobUpdateQueuedClean' =>
          \E l \in Loops : gen'[l] = AskedGen(TRUE)]_vars

\* What makes the two action properties inductive: no answer in flight is
\* older than the job it will replace, and a queued clean request is queued.
AnswersAreFresh ==
    /\ currentJob # NoJob => currentJob.height <= tip.height + 1
    /\ \A l \in Loops :
          gen[l].at = "answered" =>
             /\ gen[l].tmpl.height <= tip.height + 1
             /\ currentJob # NoJob => gen[l].tmpl.height >= currentJob.height

CleanIsQueued == jobUpdateQueuedClean => jobUpdateQueued

IInv == TypeOK /\ SingleGeneration /\ AnswersAreFresh /\ CleanIsQueued

\* A queued update is served even when the running generation fails and its
\* break leaves the flag behind for a later caller to act on.
QueuedUpdateServed == jobUpdateQueued ~> ~jobUpdateQueued

\* Once the node's tip stays put, the pool ends up mining on it for good,
\* whatever calls failed, overlapped or answered late before.
MinesOnTip ==
    currentJob # NoJob
      /\ currentJob.height = tip.height + 1 /\ currentJob.branch = tip.branch
FollowsTip == \A t \in Tips : <>[](tip = t) => <>[]MinesOnTip
=============================================================================
