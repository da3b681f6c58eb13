-------------------------- MODULE JobUpdateProofs --------------------------
(***************************************************************************)
(* JobUpdate for every tip height, every number of branches, overlapping   *)
(* polls and promises, and every jobRefresh setting.                       *)
(***************************************************************************)
EXTENDS JobUpdate, TLAPS

-----------------------------------------------------------------------------
\* The shapes a generation can have, and the fields each shape brings.
LEMMA GenShapes ==
    /\ IdleGen \in GenStates /\ IdleGen.at = "idle"
    /\ \A c \in BOOLEAN : AskedGen(c) \in GenStates /\ AskedGen(c).at = "asked"
    /\ \A c \in BOOLEAN, t \in Templates :
          /\ AnsweredGen(c, t) \in GenStates
          /\ AnsweredGen(c, t).at = "answered"
          /\ AnsweredGen(c, t).tmpl = t
  <1>1. IdleGen \in GenStates /\ IdleGen.at = "idle"
    BY DEF GenStates, IdleGen
  <1>2. ASSUME NEW c \in BOOLEAN
        PROVE  AskedGen(c) \in GenStates /\ AskedGen(c).at = "asked"
    <2>1. AskedGen(c) \in GenStates
      BY DEF GenStates
    <2> QED BY <2>1 DEF AskedGen
  <1>3. ASSUME NEW c \in BOOLEAN, NEW t \in Templates
        PROVE  /\ AnsweredGen(c, t) \in GenStates
               /\ AnsweredGen(c, t).at = "answered"
               /\ AnsweredGen(c, t).tmpl = t
    <2>1. AnsweredGen(c, t) \in GenStates
      BY DEF GenStates
    <2> QED BY <2>1 DEF AnsweredGen
  <1> QED BY <1>1, <1>2, <1>3

\* What is known of a generation in each phase.
LEMMA GenFields ==
    ASSUME NEW g \in GenStates
    PROVE  /\ g.at = "asked" => g.clean \in BOOLEAN
           /\ g.at = "answered" => g.clean \in BOOLEAN /\ g.tmpl \in Templates
  BY DEF GenStates, IdleGen, AskedGen, AnsweredGen

\* The shapes of a poll.
LEMMA PollShapes ==
    /\ IdlePoll \in PollStates
    /\ AskedPoll \in PollStates
    /\ \A h \in 0 .. MaxHeight : AnsweredPoll(h) \in PollStates
  BY DEF PollStates

\* A template on a tip is a template, one higher than the tip.
LEMMA TemplateHeight ==
    ASSUME NEW t \in Tips
    PROVE  TemplateOn(t) \in Templates /\ TemplateOn(t).height = t.height + 1
  BY ConstantsAssumption DEF Tips, Templates, TemplateOn

\* A job has the height of the template it was made from.
LEMMA JobShape ==
    ASSUME NEW t \in Templates, NEW c \in BOOLEAN
    PROVE  JobFrom(t, c) \in Jobs /\ JobFrom(t, c).height = t.height
  BY DEF Templates, Jobs, JobFrom

-----------------------------------------------------------------------------
\* updateJob itself, whoever calls it, keeps the part of the invariant that
\* speaks of the loop and its queue.
LEMMA UpdateJobStep ==
    ASSUME IInv, NEW c \in BOOLEAN, UpdateJob(c), UNCHANGED <<tip, currentJob>>
    PROVE  /\ gen' \in [Loops -> GenStates]
           /\ jobUpdateInFlight' \in Loops \cup {NoLoop}
           /\ jobUpdateQueued' \in BOOLEAN
           /\ jobUpdateQueuedClean' \in BOOLEAN
           /\ SingleGeneration'
           /\ AnswersAreFresh'
           /\ CleanIsQueued'
           /\ jobUpdateQueuedClean => jobUpdateQueuedClean'
  <1>1. CASE jobUpdateInFlight = NoLoop /\ StartLoop(c)
    <2>1. PICK l \in Loops : /\ ~Running(l)
                             /\ gen' = [gen EXCEPT ![l] = AskedGen(c)]
                             /\ jobUpdateInFlight' = l
                             /\ UNCHANGED <<jobUpdateQueued, jobUpdateQueuedClean>>
      BY <1>1 DEF StartLoop
    <2>2. AskedGen(c) \in GenStates /\ AskedGen(c).at = "asked"
      BY GenShapes
    <2>3. gen' \in [Loops -> GenStates] /\ jobUpdateInFlight' \in Loops
      BY <2>1, <2>2 DEF IInv, TypeOK
    <2>4. SingleGeneration'
      BY <1>1, <2>1, <2>2, ConstantsAssumption
      DEF IInv, TypeOK, SingleGeneration, Running
    <2>5. AnswersAreFresh'
      BY <2>1, <2>2 DEF IInv, TypeOK, AnswersAreFresh
    <2> QED BY <2>1, <2>3, <2>4, <2>5 DEF IInv, TypeOK, CleanIsQueued
  <1>2. CASE jobUpdateInFlight # NoLoop /\ QueueUpdate(c)
    <2>1. UNCHANGED <<gen, jobUpdateInFlight, tip, currentJob>>
      BY <1>2 DEF QueueUpdate
    <2>2. SingleGeneration' /\ AnswersAreFresh'
      BY <2>1 DEF IInv, SingleGeneration, Running, AnswersAreFresh
    <2> QED BY <1>2, <2>1, <2>2 DEF IInv, TypeOK, QueueUpdate, CleanIsQueued
  <1> QED BY <1>1, <1>2 DEF UpdateJob

\* A loop that ends leaves no generation registered.
LEMMA EndLoopStep ==
    ASSUME IInv, NEW l \in Loops, Running(l), EndLoop(l)
    PROVE  /\ gen' \in [Loops -> GenStates]
           /\ \A k \in Loops : gen'[k].at # "answered"
           /\ jobUpdateInFlight' \in Loops \cup {NoLoop}
           /\ phase' = "running"
           /\ SingleGeneration'
  <1>1. gen' = [gen EXCEPT ![l] = IdleGen] /\ phase' = "running"
    BY DEF EndLoop
  <1>2. IdleGen \in GenStates /\ IdleGen.at = "idle"
    BY GenShapes
  <1>3. jobUpdateInFlight = l /\ jobUpdateInFlight' = NoLoop
    BY DEF EndLoop, IInv, SingleGeneration
  <1>4. \A k \in Loops : k # l => gen[k].at = "idle"
    BY <1>3 DEF IInv, SingleGeneration, Running
  <1> QED
    BY <1>1, <1>2, <1>3, <1>4, ConstantsAssumption
    DEF IInv, TypeOK, SingleGeneration, Running

\* The initial state satisfies the inductive invariant.
LEMMA InitIInv == Init => IInv
  <1> SUFFICES ASSUME Init PROVE IInv
    OBVIOUS
  <1>1. IdleGen \in GenStates /\ IdleGen.at = "idle" /\ IdlePoll \in PollStates
    BY GenShapes, PollShapes
  <1>2. TypeOK
    <2>1. tip \in Tips
      BY ConstantsAssumption DEF Init, Tips
    <2> QED BY <1>1, <2>1 DEF Init, TypeOK
  <1>3. SingleGeneration
    BY <1>1, ConstantsAssumption DEF Init, SingleGeneration, Running
  <1>4. AnswersAreFresh /\ CleanIsQueued
    BY <1>1 DEF Init, AnswersAreFresh, CleanIsQueued
  <1> QED BY <1>2, <1>3, <1>4 DEF IInv

\* Every step of the pool and of the node keeps the inductive invariant.
LEMMA NextIInv == IInv /\ [Next]_vars => IInv'
  <1> SUFFICES ASSUME IInv, [Next]_vars PROVE IInv'
    OBVIOUS
  <1> USE DEF IInv, TypeOK
  <1>1. CASE Start
    BY <1>1, UpdateJobStep DEF Start
  <1>2. CASE RefreshTick
    BY <1>2, UpdateJobStep, ConstantsAssumption DEF RefreshTick
  <1>3. CASE BlockFound
    BY <1>3, UpdateJobStep DEF BlockFound
  <1>4. CASE NodeTip
    <2>1. tip' \in Tips /\ tip'.height >= tip.height /\ tip.height \in Nat
      BY <1>4 DEF NodeTip, Tips
    <2>2. UNCHANGED <<phase, poll, updateVars, currentJob>>
      BY <1>4 DEF NodeTip
    <2>3. AnswersAreFresh'
      <3>1. tip'.height \in Nat
        BY <2>1 DEF Tips
      <3>2. currentJob # NoJob => currentJob.height \in Nat
        BY DEF Jobs
      <3>3. \A l \in Loops : gen[l].at = "answered" => gen[l].tmpl.height \in Nat
        BY GenFields DEF Templates
      <3> QED BY <2>1, <2>2, <3>1, <3>2, <3>3 DEF AnswersAreFresh, updateVars
    <2> QED BY <2>1, <2>2, <2>3 DEF updateVars, SingleGeneration, Running, CleanIsQueued
  <1>5. ASSUME NEW p \in Polls,
               PollTick(p) \/ CountAnswer(p) \/ PollReturn(p) \/ PollFail(p)
        PROVE  IInv'
    <2>1. tip.height \in 0 .. MaxHeight
      BY DEF Tips
    <2>2. poll' \in [Polls -> PollStates]
      BY <1>5, <2>1, PollShapes DEF PollTick, CountAnswer, PollReturn, PollFail
    <2>3. UNCHANGED <<tip, phase, currentJob>>
      BY <1>5 DEF PollTick, CountAnswer, PollReturn, PollFail
    <2>4. UNCHANGED updateVars \/ UpdateJob(TRUE)
      BY <1>5 DEF PollTick, CountAnswer, PollReturn, PollFail
    <2>5. CASE UNCHANGED updateVars
      BY <2>2, <2>3, <2>5
      DEF updateVars, SingleGeneration, Running, AnswersAreFresh, CleanIsQueued
    <2>6. CASE UpdateJob(TRUE)
      BY <2>2, <2>3, <2>6, UpdateJobStep
    <2> QED BY <2>4, <2>5, <2>6
  <1>6. ASSUME NEW l \in Loops, TemplateAnswer(l) PROVE IInv'
    <2> DEFINE g == AnsweredGen(gen[l].clean, TemplateOn(tip))
    <2>1. gen[l].clean \in BOOLEAN /\ gen[l].at = "asked"
      BY <1>6, GenFields DEF TemplateAnswer
    <2>2. TemplateOn(tip) \in Templates /\ TemplateOn(tip).height = tip.height + 1
      BY TemplateHeight
    <2>3. g \in GenStates /\ g.at = "answered" /\ g.tmpl = TemplateOn(tip)
      BY <2>1, <2>2, GenShapes
    <2> HIDE DEF g
    <2>4. gen' = [gen EXCEPT ![l] = g]
      BY <1>6 DEF TemplateAnswer, g
    <2>5. UNCHANGED <<tip, phase, poll, jobUpdateInFlight, jobUpdateQueued,
                      jobUpdateQueuedClean, currentJob>>
      BY <1>6 DEF TemplateAnswer
    <2>6. SingleGeneration'
      BY <2>1, <2>3, <2>4, <2>5 DEF SingleGeneration, Running
    <2>7. AnswersAreFresh'
      <3>1. tip.height + 1 \in Nat /\ (currentJob # NoJob => currentJob.height \in Nat)
        BY DEF Tips, Jobs
      <3> QED BY <2>2, <2>3, <2>4, <2>5, <3>1 DEF AnswersAreFresh
    <2> QED BY <2>3, <2>4, <2>5, <2>6, <2>7 DEF CleanIsQueued
  <1>7. ASSUME NEW l \in Loops, GenDone(l) PROVE IInv'
    <2>1. Running(l) /\ gen[l].clean \in BOOLEAN /\ gen[l].tmpl \in Templates
      BY <1>7, GenFields DEF GenDone, Running
    <2>2. /\ currentJob' \in Jobs
          /\ currentJob'.height = gen[l].tmpl.height
          /\ currentJob'.height <= tip.height + 1
      BY <1>7, <2>1, JobShape DEF GenDone, AnswersAreFresh
    <2>3. UNCHANGED <<tip, poll>> /\ ~jobUpdateQueued' /\ ~jobUpdateQueuedClean'
          /\ jobUpdateQueued' \in BOOLEAN /\ jobUpdateQueuedClean' \in BOOLEAN
      BY <1>7 DEF GenDone
    <2>4. CASE ServeQueue(l)
      <3> DEFINE g == AskedGen(jobUpdateQueuedClean)
      <3>1. g \in GenStates /\ g.at = "asked"
        BY GenShapes
      <3> HIDE DEF g
      <3>2. gen' = [gen EXCEPT ![l] = g] /\ UNCHANGED <<jobUpdateInFlight, phase>>
        BY <2>4 DEF ServeQueue, g
      <3>3. SingleGeneration'
        BY <2>1, <3>1, <3>2 DEF SingleGeneration, Running
      <3>4. \A k \in Loops : gen'[k].at # "answered"
        BY <2>1, <3>1, <3>2 DEF SingleGeneration, Running
      <3> QED BY <2>2, <2>3, <3>1, <3>2, <3>3, <3>4 DEF AnswersAreFresh, CleanIsQueued
    <2>5. CASE EndLoop(l)
      BY <2>1, <2>2, <2>3, <2>5, EndLoopStep DEF AnswersAreFresh, CleanIsQueued
    <2> QED BY <1>7, <2>4, <2>5 DEF GenDone
  <1>8. ASSUME NEW l \in Loops, GenFail(l) PROVE IInv'
    <2>1. Running(l) /\ EndLoop(l)
      BY <1>8 DEF GenFail
    <2>2. UNCHANGED <<tip, poll, jobUpdateQueued, jobUpdateQueuedClean, currentJob>>
      BY <1>8 DEF GenFail
    <2> QED BY <2>1, <2>2, EndLoopStep DEF AnswersAreFresh, CleanIsQueued
  <1>9. CASE UNCHANGED vars
    BY <1>9 DEF vars, updateVars, SingleGeneration, Running, AnswersAreFresh, CleanIsQueued
  <1> QED
    BY <1>1, <1>2, <1>3, <1>4, <1>5, <1>6, <1>7, <1>8, <1>9 DEF Next

\* The inductive invariant holds throughout.
THEOREM Invariance == Spec => []IInv
  BY InitIInv, NextIInv, PTL DEF Spec

\* Every variable keeps its type.
THEOREM TypeCorrect == Spec => []TypeOK
  <1>1. IInv => TypeOK
    BY DEF IInv
  <1> QED BY <1>1, Invariance, PTL

\* At most one generateJob is outstanding and it is the one registered in
\* jobUpdateInFlight, however many callers overlap.
THEOREM OneGeneration == Spec => []SingleGeneration
  <1>1. IInv => SingleGeneration
    BY DEF IInv
  <1> QED BY <1>1, Invariance, PTL

-----------------------------------------------------------------------------
\* Only generateJob's return changes the job, and then to one that is not
\* lower than the job it replaces.
LEMMA JobStep ==
    ASSUME IInv, [Next]_vars, currentJob' # currentJob, currentJob # NoJob
    PROVE  currentJob'.height >= currentJob.height
  <1>1. PICK l \in Loops : GenDone(l)
    BY DEF Next, vars, updateVars, Start, RefreshTick, BlockFound, NodeTip,
           PollTick, CountAnswer, PollReturn, PollFail, TemplateAnswer, GenFail
  <1>2. gen[l].at = "answered" /\ currentJob' = JobFrom(gen[l].tmpl, gen[l].clean)
    BY <1>1 DEF GenDone
  <1>3. gen[l].tmpl \in Templates /\ gen[l].clean \in BOOLEAN
    BY <1>2, GenFields DEF IInv, TypeOK
  <1>4. currentJob'.height = gen[l].tmpl.height
    BY <1>2, <1>3, JobShape
  <1> QED BY <1>2, <1>4 DEF IInv, AnswersAreFresh

\* The pool never replaces its job by one for a lower height, whatever
\* overlap of polls, refreshes, found blocks and node answers occurs.
THEOREM JobMonotone == Spec => JobNeverGoesBack
  <1>1. IInv /\ [Next]_vars =>
          [currentJob # NoJob => currentJob'.height >= currentJob.height]_currentJob
    BY JobStep
  <1> QED BY <1>1, Invariance, PTL DEF Spec, JobNeverGoesBack

-----------------------------------------------------------------------------
\* Only generateJob's return clears the queued clean flag, and then it starts
\* a clean generation.
LEMMA CleanStep ==
    ASSUME IInv, [Next]_vars, jobUpdateQueuedClean, ~jobUpdateQueuedClean'
    PROVE  \E l \in Loops : gen'[l] = AskedGen(TRUE)
  <1>1. ASSUME NEW c \in BOOLEAN, UpdateJob(c) PROVE FALSE
    BY <1>1 DEF UpdateJob, StartLoop, QueueUpdate
  <1>2. PICK l \in Loops : GenDone(l)
    BY <1>1, ConstantsAssumption
    DEF Next, vars, updateVars, Start, RefreshTick, BlockFound, NodeTip,
        PollTick, CountAnswer, PollReturn, PollFail, TemplateAnswer, GenFail
  <1>3. jobUpdateQueued /\ jobUpdateQueuedClean = TRUE
    BY DEF IInv, TypeOK, CleanIsQueued
  <1>4. gen' = [gen EXCEPT ![l] = AskedGen(jobUpdateQueuedClean)]
    BY <1>2, <1>3 DEF GenDone, ServeQueue
  <1>5. gen'[l] = AskedGen(jobUpdateQueuedClean)
    BY <1>4 DEF IInv, TypeOK
  <1> QED BY <1>3, <1>5

\* A clean job asked for while a loop runs is never forgotten.
THEOREM CleanHonoured == Spec => QueuedCleanHonoured
  <1>1. IInv /\ [Next]_vars =>
          [jobUpdateQueuedClean /\ ~jobUpdateQueuedClean' =>
              \E l \in Loops : gen'[l] = AskedGen(TRUE)]_vars
    BY CleanStep
  <1> QED BY <1>1, Invariance, PTL DEF Spec, QueuedCleanHonoured
=============================================================================
