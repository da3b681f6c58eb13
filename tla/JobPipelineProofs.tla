------------------------- MODULE JobPipelineProofs -------------------------
(***************************************************************************)
(* JobPipeline for every number of miners, every size of the job store and *)
(* every bound on the ids.                                                 *)
(***************************************************************************)
EXTENDS JobPipeline, JobUpdateProofs, SequenceTheorems, FiniteSetTheorems

-----------------------------------------------------------------------------
\* The composition takes only steps JobUpdate takes.
LEMMA PipelineStep == [PipelineNext]_pipelineVars => [Next]_vars
  <1> SUFFICES ASSUME [PipelineNext]_pipelineVars PROVE [Next]_vars
    OBVIOUS
  <1>1. CASE UpdateStep
    BY <1>1 DEF UpdateStep, Next
  <1>2. ASSUME NEW l \in Loops, Publish(l) \/ Abandon(l) PROVE [Next]_vars
    BY <1>2 DEF Publish, Abandon, Next
  <1>3. ASSUME NEW c \in Clients,
               Connect(c) \/ Authorize(c) \/ Resend(c) \/ Destroy(c) \/ Cleanup(c)
        PROVE  UNCHANGED vars
    BY <1>3 DEF Connect, Authorize, Resend, Destroy, Cleanup
  <1>4. CASE UNCHANGED pipelineVars
    BY <1>4 DEF pipelineVars
  <1> QED BY <1>1, <1>2, <1>3, <1>4 DEF PipelineNext

\* The pipeline implements JobUpdate, so all that is proved of updateJob
\* alone holds with the job store and the miners attached.
THEOREM PipelineImplementsUpdate == PipelineSpec => Spec
  <1>1. PipelineInit => Init
    BY DEF PipelineInit
  <1> QED BY <1>1, PipelineStep, PTL DEF PipelineSpec, Spec

-----------------------------------------------------------------------------
\* Storing a job keeps it, keeps only jobs of its height, and adds nothing
\* that was not there.
LEMMA RetainedFacts ==
    ASSUME NEW S, NEW job, job.id \in Nat,
           \A j \in S : j.id \in Nat /\ j.id < job.id
    PROVE  /\ job \in Retained(S, job)
           /\ Retained(S, job) \subseteq S \cup {job}
           /\ \A j \in Retained(S, job) : j.height = job.height
  <1> DEFINE kept == IF job.clean THEN {} ELSE S
             T == {j \in kept : j.height = job.height} \cup {job}
  <1>1. Retained(S, job) = Bounded(T)
    BY DEF Retained
  <1>2. /\ job \in T
        /\ T \subseteq S \cup {job}
        /\ \A j \in T : j.height = job.height
    OBVIOUS
  <1>3. Cardinality({job}) = 1
    BY FS_Singleton
  <1> HIDE DEF T
  <1>4. Bounded(T) \subseteq T
    BY DEF Bounded, AllButOldest
  <1>5. job \in Bounded(T)
    <2>1. CASE Cardinality(T) > MaxJobs
      <3>1. T # {job}
        <4>1. SUFFICES ASSUME T = {job} PROVE FALSE
          OBVIOUS
        <4> QED BY <1>3, <2>1, <4>1, PipelineAssumption
      <3>2. PICK k \in T : k # job
        BY <1>2, <3>1
      <3>3. k.id < job.id
        BY <1>2, <3>2
      <3> QED BY <1>2, <2>1, <3>2, <3>3 DEF Bounded, AllButOldest
    <2>2. CASE ~(Cardinality(T) > MaxJobs)
      BY <1>2, <2>2 DEF Bounded
    <2> QED BY <2>1, <2>2
  <1> QED BY <1>1, <1>2, <1>4, <1>5

\* The job made from a template of a type-correct state.
LEMMA StoredJobFacts ==
    ASSUME NEW id \in 1 .. MaxJobId, NEW t \in Templates, NEW c \in BOOLEAN
    PROVE  /\ StoredJob(id, t, c) \in StoredJobs
           /\ StoredJob(id, t, c).id = id
           /\ StoredJob(id, t, c).height = JobFrom(t, c).height
  BY DEF StoredJobs, StoredJob, Templates, JobFrom

\* Appending makes the appended job the last one.
LEMMA LastAppended ==
    ASSUME NEW s \in Seq(StoredJobs), NEW j \in StoredJobs
    PROVE  /\ Append(s, j) \in Seq(StoredJobs)
           /\ Append(s, j) # <<>>
           /\ Append(s, j)[Len(Append(s, j))] = j
  BY AppendProperties

\* The last job of a history that has one is a stored job.
LEMMA LastIsJob ==
    ASSUME history \in Seq(StoredJobs), history # <<>>
    PROVE  lastJob \in StoredJobs
  BY EmptySeq, LenProperties DEF lastJob

-----------------------------------------------------------------------------
\* The initial state satisfies the inductive invariant.
LEMMA PipelineInitIInv == PipelineInit => PipelineIInv
  <1> SUFFICES ASSUME PipelineInit PROVE PipelineIInv
    OBVIOUS
  <1>1. IInv
    BY InitIInv DEF PipelineInit
  <1>2. history \in Seq(StoredJobs)
    BY EmptySeq DEF PipelineInit
  <1>3. PipelineTypeOK
    BY <1>1, <1>2, PipelineAssumption DEF PipelineInit, PipelineTypeOK, IInv
  <1>4. IdsInOrder /\ LastJobStored /\ OpenIsSilent
    BY PipelineAssumption DEF PipelineInit, IdsInOrder, NoNotify, LastJobStored, OpenIsSilent
  <1> QED
    BY <1>1, <1>3, <1>4
    DEF PipelineInit, PipelineIInv, JobsAtCurrentHeight, MinersOnLastJob

\* What the parts of the invariant say of a client that is told a job.
LEMMA NotifyIds ==
    ASSUME PipelineTypeOK, NEW c \in Clients
    PROVE  notified[c].id \in Nat
  BY DEF PipelineTypeOK, StoredJobs, NoNotify

\* A finished generation stores the job and tells every miner.
LEMMA PublishIInv ==
    ASSUME PipelineIInv, NEW l \in Loops, Publish(l), IInv'
    PROVE  PipelineIInv'
  <1> DEFINE job == StoredJob(jobCounter + 1, gen[l].tmpl, gen[l].clean)
  <1>1. gen[l].tmpl \in Templates /\ gen[l].clean \in BOOLEAN
    BY GenFields DEF Publish, GenDone, PipelineIInv, IInv, TypeOK
  <1>2. jobCounter \in Nat /\ jobCounter + 1 \in 1 .. MaxJobId
    BY PipelineAssumption DEF Publish, PipelineIInv, PipelineTypeOK
  <1>3. /\ job \in StoredJobs
        /\ job.id = jobCounter + 1
        /\ job.height = JobFrom(gen[l].tmpl, gen[l].clean).height
    BY <1>1, <1>2, StoredJobFacts
  <1>4. /\ jobCounter' = jobCounter + 1
        /\ jobs' = Retained(jobs, job)
        /\ history' = Append(history, job)
        /\ Broadcast(job)
        /\ currentJob'.height = job.height
    BY <1>3 DEF Publish, GenDone
  <1> HIDE DEF job
  <1>5. \A j \in jobs : j.id \in Nat /\ j.id < job.id
    BY <1>2, <1>3 DEF PipelineIInv, PipelineTypeOK, IdsInOrder, StoredJobs
  <1>6. /\ job \in jobs'
        /\ jobs' \subseteq jobs \cup {job}
        /\ \A j \in jobs' : j.height = job.height
    BY <1>2, <1>3, <1>4, <1>5, RetainedFacts
  <1>7. history' \in Seq(StoredJobs) /\ history' # <<>> /\ lastJob' = job
    BY <1>3, <1>4, LastAppended DEF PipelineIInv, PipelineTypeOK, lastJob
  <1>8. PICK slow \in SUBSET Authorized :
          /\ conn' = [c \in Clients |-> IF c \in slow THEN "destroyed" ELSE conn[c]]
          /\ notified' = [c \in Clients |->
                            IF c \in Authorized \ slow THEN job ELSE notified[c]]
          /\ resend' = resend
    BY <1>4 DEF Broadcast
  <1>9. PipelineTypeOK'
    <2>1. jobs' \subseteq StoredJobs /\ jobCounter' \in 0 .. MaxJobId
      BY <1>2, <1>3, <1>4, <1>6 DEF PipelineIInv, PipelineTypeOK
    <2>2. /\ conn' \in [Clients -> {"absent", "open", "authorized", "destroyed"}]
          /\ notified' \in [Clients -> StoredJobs \cup {NoNotify}]
          /\ resend' \in [Clients -> 0 .. MaxResends]
      BY <1>3, <1>8 DEF PipelineIInv, PipelineTypeOK
    <2> QED BY <1>7, <2>1, <2>2 DEF PipelineTypeOK, IInv
  <1>10. JobsAtCurrentHeight'
    BY <1>4, <1>6 DEF JobsAtCurrentHeight
  <1>11. MinersOnLastJob'
    BY <1>6, <1>7, <1>8 DEF MinersOnLastJob, Authorized
  <1>12. IdsInOrder'
    <2>1. \A j \in jobs' : j.id <= jobCounter'
      BY <1>2, <1>3, <1>4, <1>5, <1>6
    <2>2. \A c \in Clients : notified'[c].id <= jobCounter'
      BY <1>2, <1>3, <1>4, <1>8, NotifyIds DEF PipelineIInv, IdsInOrder
    <2> QED BY <2>1, <2>2 DEF IdsInOrder
  <1>13. LastJobStored'
    <2>1. currentJob' # NoJob
      <3>1. "clean" \in DOMAIN currentJob'
        BY DEF Publish, GenDone, JobFrom
      <3>2. "clean" \notin DOMAIN NoJob
        BY DEF NoJob
      <3> QED BY <3>1, <3>2
    <2> QED BY <1>6, <1>7, <2>1 DEF LastJobStored
  <1>14. OpenIsSilent'
    BY <1>8 DEF PipelineIInv, OpenIsSilent, Authorized
  <1> QED
    BY <1>9, <1>10, <1>11, <1>12, <1>13, <1>14 DEF PipelineIInv

\* What a connection goes through leaves the job store alone.
LEMMA ConnectionIInv ==
    ASSUME PipelineIInv, IInv', NEW c \in Clients,
           Connect(c) \/ Authorize(c) \/ Resend(c) \/ Destroy(c) \/ Cleanup(c)
    PROVE  PipelineIInv'
  <1> USE DEF PipelineIInv, PipelineTypeOK
  <1>1. UNCHANGED <<jobCounter, jobs, history, currentJob>> /\ UNCHANGED lastJob
    BY DEF Connect, Authorize, Resend, Destroy, Cleanup, vars, storeVars, lastJob
  <1>2. history # <<>> => lastJob \in StoredJobs /\ lastJob.id <= jobCounter
    BY LastIsJob DEF LastJobStored, IdsInOrder
  <1>3. LastJobStored'
    BY <1>1, PipelineAssumption
    DEF Connect, Authorize, Resend, Destroy, Cleanup, LastJobStored
  <1>4. PipelineTypeOK' /\ IdsInOrder' /\ OpenIsSilent' /\ MinersOnLastJob'
    <2>1. CASE Connect(c)
      BY <1>1, <2>1, NotifyIds
      DEF Connect, IdsInOrder, OpenIsSilent, MinersOnLastJob, Authorized, IInv, NoNotify
    <2>2. CASE Authorize(c)
      <3>1. /\ resend' \in [Clients -> 0 .. MaxResends]
            /\ conn' = [conn EXCEPT ![c] = "authorized"]
        BY <2>2, PipelineAssumption DEF Authorize
      <3>2. notified' = IF history = <<>> THEN notified
                                          ELSE [notified EXCEPT ![c] = lastJob]
        BY <2>2 DEF Authorize
      <3>3. PipelineTypeOK'
        BY <1>1, <1>2, <3>1, <3>2 DEF IInv
      <3>4. IdsInOrder' /\ OpenIsSilent' /\ MinersOnLastJob'
        BY <1>1, <1>2, <3>1, <3>2
        DEF IdsInOrder, OpenIsSilent, MinersOnLastJob, LastJobStored, Authorized
      <3> QED BY <3>3, <3>4
    <2>3. CASE Resend(c)
      <3>1. resend' \in [Clients -> 0 .. MaxResends] /\ UNCHANGED conn
        BY <2>3, PipelineAssumption DEF Resend
      <3>2. UNCHANGED notified
        <4>1. resend[c] > 0 /\ history # <<>>
          BY <2>3 DEF Resend, LastJobStored
        <4>2. CASE conn[c] = "authorized"
          BY <2>3, <4>1, <4>2 DEF Resend, MinersOnLastJob, Authorized
        <4>3. CASE conn[c] # "authorized"
          BY <2>3, <4>3 DEF Resend
        <4> QED BY <4>2, <4>3
      <3> QED
        BY <1>1, <3>1, <3>2
        DEF IdsInOrder, OpenIsSilent, MinersOnLastJob, Authorized, IInv
    <2>4. CASE Destroy(c)
      BY <1>1, <2>4
      DEF Destroy, IdsInOrder, OpenIsSilent, MinersOnLastJob, Authorized, IInv
    <2>5. CASE Cleanup(c)
      BY <1>1, <2>5, PipelineAssumption
      DEF Cleanup, IdsInOrder, OpenIsSilent, MinersOnLastJob, Authorized, IInv
    <2> QED BY <2>1, <2>2, <2>3, <2>4, <2>5
  <1>5. JobsAtCurrentHeight'
    BY <1>1 DEF JobsAtCurrentHeight
  <1> QED BY <1>3, <1>4, <1>5

\* Every step of the pipeline keeps the inductive invariant.
LEMMA PipelineNextIInv ==
    PipelineIInv /\ [PipelineNext]_pipelineVars => PipelineIInv'
  <1> SUFFICES ASSUME PipelineIInv, [PipelineNext]_pipelineVars
               PROVE  PipelineIInv'
    OBVIOUS
  <1>1. IInv'
    BY PipelineStep, NextIInv DEF PipelineIInv
  <1>2. ASSUME UNCHANGED <<storeVars, connVars, currentJob>> PROVE PipelineIInv'
    BY <1>1, <1>2
    DEF PipelineIInv, PipelineTypeOK, IInv, storeVars, connVars,
        JobsAtCurrentHeight, MinersOnLastJob, IdsInOrder, LastJobStored,
        OpenIsSilent, Authorized, lastJob
  <1>3. CASE UpdateStep
    <2>1. UNCHANGED currentJob
      BY <1>3
      DEF UpdateStep, Start, RefreshTick, BlockFound, NodeTip, PollTick,
          CountAnswer, PollReturn, PollFail, TemplateAnswer
    <2> QED BY <1>2, <1>3, <2>1 DEF UpdateStep
  <1>4. ASSUME NEW l \in Loops, Publish(l) PROVE PipelineIInv'
    BY <1>1, <1>4, PublishIInv
  <1>5. ASSUME NEW l \in Loops, Abandon(l) PROVE PipelineIInv'
    <2>1. UNCHANGED <<jobs, history, conn, notified, resend, currentJob>>
      BY <1>5 DEF Abandon, GenFail, connVars
    <2>2. jobCounter' \in 0 .. MaxJobId /\ jobCounter' >= jobCounter
      BY <1>5, PipelineAssumption DEF Abandon, PipelineIInv, PipelineTypeOK
    <2>3. \A j \in jobs : j.id \in Nat
      BY DEF PipelineIInv, PipelineTypeOK, StoredJobs
    <2>4. \A c \in Clients : notified[c].id \in Nat
      BY NotifyIds DEF PipelineIInv
    <2>5. jobCounter \in Nat
      BY DEF PipelineIInv, PipelineTypeOK
    <2>6. IdsInOrder'
      BY <2>1, <2>2, <2>3, <2>4, <2>5 DEF PipelineIInv, IdsInOrder
    <2>7. PipelineTypeOK'
      BY <1>1, <2>1, <2>2 DEF PipelineIInv, PipelineTypeOK, IInv
    <2>8. JobsAtCurrentHeight' /\ OpenIsSilent'
      BY <2>1 DEF PipelineIInv, JobsAtCurrentHeight, OpenIsSilent
    <2>9. MinersOnLastJob' /\ LastJobStored'
      BY <2>1 DEF PipelineIInv, MinersOnLastJob, LastJobStored, Authorized, lastJob
    <2> QED BY <1>1, <2>6, <2>7, <2>8, <2>9 DEF PipelineIInv
  <1>6. ASSUME NEW c \in Clients,
               Connect(c) \/ Authorize(c) \/ Resend(c) \/ Destroy(c) \/ Cleanup(c)
        PROVE  PipelineIInv'
    BY <1>1, <1>6, ConnectionIInv
  <1>7. CASE UNCHANGED pipelineVars
    BY <1>2, <1>7 DEF pipelineVars, vars
  <1> QED BY <1>3, <1>4, <1>5, <1>6, <1>7 DEF PipelineNext

\* The inductive invariant of the pipeline holds throughout.
THEOREM PipelineInvariance == PipelineSpec => []PipelineIInv
  BY PipelineInitIInv, PipelineNextIInv, PTL DEF PipelineSpec

\* Every variable of the pipeline keeps its type.
THEOREM PipelineTypeCorrect == PipelineSpec => []PipelineTypeOK
  <1>1. PipelineIInv => PipelineTypeOK
    BY DEF PipelineIInv
  <1> QED BY <1>1, PipelineInvariance, PTL

\* Every retained job is of the current height: validateShare's "Stale Job"
\* branch is dead code.
THEOREM StoreAtCurrentHeight == PipelineSpec => []JobsAtCurrentHeight
  <1>1. PipelineIInv => JobsAtCurrentHeight
    BY DEF PipelineIInv
  <1> QED BY <1>1, PipelineInvariance, PTL

\* Every authorized miner has been told the current job, and a share for it
\* is found in the store.
THEOREM EveryMinerOnLastJob == PipelineSpec => []MinersOnLastJob
  <1>1. PipelineIInv => MinersOnLastJob
    BY DEF PipelineIInv
  <1> QED BY <1>1, PipelineInvariance, PTL

-----------------------------------------------------------------------------
\* What changes in what a client was told: a new connection has been told
\* nothing, and any other change is to a job with a higher id.
LEMMA NotifyStep ==
    ASSUME PipelineIInv, [PipelineNext]_pipelineVars,
           NEW c \in Clients, notified'[c] # notified[c]
    PROVE  notified'[c] = NoNotify \/ notified'[c].id > notified[c].id
  <1> USE DEF PipelineIInv, PipelineTypeOK
  <1>1. jobCounter \in Nat /\ notified[c].id \in Nat /\ notified[c].id <= jobCounter
    BY NotifyIds DEF IdsInOrder
  <1>2. ASSUME NEW l \in Loops, Publish(l) PROVE notified'[c].id > notified[c].id
    <2>1. gen[l].tmpl \in Templates /\ gen[l].clean \in BOOLEAN
      BY <1>2, GenFields DEF Publish, GenDone, TypeOK
    <2>2. jobCounter + 1 \in 1 .. MaxJobId
      BY <1>1, <1>2, PipelineAssumption DEF Publish
    <2>3. notified'[c] = StoredJob(jobCounter + 1, gen[l].tmpl, gen[l].clean)
      BY <1>2 DEF Publish, Broadcast
    <2>4. notified'[c].id = jobCounter + 1
      BY <2>1, <2>2, <2>3, StoredJobFacts
    <2> QED BY <1>1, <2>4
  <1>3. ASSUME NEW d \in Clients, Authorize(d) PROVE notified'[c].id > notified[c].id
    <2>1. history # <<>> /\ d = c /\ notified'[c] = lastJob
      BY <1>3 DEF Authorize
    <2>2. conn[c] = "open"
      BY <1>3, <2>1 DEF Authorize, MinersOnLastJob, Authorized
    <2>3. notified[c].id = 0
      BY <2>2 DEF OpenIsSilent, NoNotify
    <2>4. lastJob.id \in Nat /\ lastJob.id > 0
      BY <2>1, LastIsJob DEF StoredJobs
    <2> QED BY <2>1, <2>3, <2>4
  <1>4. ASSUME NEW d \in Clients, Resend(d) PROVE FALSE
    <2>1. d = c /\ conn[c] = "authorized" /\ notified'[c] = lastJob
      BY <1>4 DEF Resend
    <2>2. history # <<>>
      BY <1>4, <2>1 DEF Resend, LastJobStored
    <2> QED BY <2>1, <2>2 DEF MinersOnLastJob, Authorized
  <1>5. ASSUME NEW d \in Clients, Connect(d) PROVE notified'[c] = NoNotify
    BY <1>5 DEF Connect
  <1>6. (\E l \in Loops : Publish(l))
        \/ (\E d \in Clients : Authorize(d) \/ Resend(d) \/ Connect(d))
    BY DEF PipelineNext, pipelineVars, connVars, UpdateStep, Abandon, Destroy, Cleanup
  <1> QED BY <1>2, <1>3, <1>4, <1>5, <1>6

\* No broadcast, authorize or delayed repetition ever tells a connection an
\* older job than the one it was told before.
THEOREM NotifyMonotone == PipelineSpec => NotifyNeverOlder
  <1>1. PipelineIInv /\ [PipelineNext]_pipelineVars =>
          [\A c \in Clients :
              notified'[c] # notified[c] =>
                 notified'[c] = NoNotify \/ notified'[c].id > notified[c].id]_notified
    BY NotifyStep
  <1> QED BY <1>1, PipelineInvariance, PTL DEF PipelineSpec, NotifyNeverOlder

-----------------------------------------------------------------------------
\* What a connection has been told is never mistaken for not listening.
LEMMA ToldIsNotDeaf ==
    ASSUME PipelineTypeOK, NEW c \in Clients
    PROVE  notified[c] # DeafMiner
  <1>1. \A j \in StoredJobs \cup {NoNotify} : "id" \in DOMAIN j
    BY DEF StoredJobs, NoNotify
  <1>2. "id" \notin DOMAIN DeafMiner
    BY DEF DeafMiner
  <1> QED BY <1>1, <1>2 DEF PipelineTypeOK

\* The listeners of the feed are the authorized connections.
LEMMA ListenersAreAuthorized ==
    ASSUME PipelineTypeOK
    PROVE  Feed!Listening = Authorized
  BY ToldIsNotDeaf DEF Feed!Listening, Authorized, ViewOf

\* The latest job of the feed is the last of the history.
LEMMA LatestIsLast ==
    Feed!Latest = IF history = <<>> THEN NoNotify ELSE lastJob
  BY DEF Feed!Latest, lastJob

\* A finished generation publishes its job: newer than the last one by id, and
\* not of a lower height, because no answer in flight is older than the
\* current job.
LEMMA PublishIsFeedPublish ==
    ASSUME PipelineIInv, NEW l \in Loops, Publish(l)
    PROVE  Feed!Publish
  <1> DEFINE job == StoredJob(jobCounter + 1, gen[l].tmpl, gen[l].clean)
  <1> USE DEF PipelineIInv, PipelineTypeOK
  <1>1. gen[l].at = "answered" /\ gen[l].tmpl \in Templates /\ gen[l].clean \in BOOLEAN
    BY GenFields DEF Publish, GenDone, TypeOK
  <1>2. jobCounter \in Nat /\ jobCounter + 1 \in 1 .. MaxJobId
    BY PipelineAssumption DEF Publish
  <1>3. job \in StoredJobs /\ job.id = jobCounter + 1 /\ job.height = gen[l].tmpl.height
    BY SMTT(60), <1>1, <1>2, StoredJobFacts DEF JobFrom
  <1>4. history' = Append(history, job) /\ Broadcast(job)
    BY DEF Publish
  <1> HIDE DEF job
  <1>5. Feed!Succeeds(job)
    <2> SUFFICES ASSUME history # <<>>
                 PROVE  job.id > lastJob.id /\ job.height >= lastJob.height
      BY LatestIsLast DEF Feed!Succeeds
    <2>1. lastJob \in jobs /\ lastJob \in StoredJobs /\ currentJob # NoJob
      BY LastIsJob DEF LastJobStored
    <2>2. job.id > lastJob.id
      BY <1>2, <1>3, <2>1 DEF IdsInOrder, StoredJobs
    <2>3. lastJob.height = currentJob.height
      BY <2>1 DEF JobsAtCurrentHeight
    <2>4. gen[l].tmpl.height >= currentJob.height
      BY <1>1, <2>1 DEF IInv, AnswersAreFresh
    <2> QED BY <1>3, <2>2, <2>3, <2>4
  <1>6. PICK slow \in SUBSET Authorized :
          /\ conn' = [c \in Clients |-> IF c \in slow THEN "destroyed" ELSE conn[c]]
          /\ notified' = [c \in Clients |->
                            IF c \in Authorized \ slow THEN job ELSE notified[c]]
    BY <1>4 DEF Broadcast
  <1>7. \A c \in Clients :
          ViewOf(c)' = IF c \in Feed!Listening \ slow THEN job ELSE DeafMiner
    BY <1>6, ListenersAreAuthorized DEF ViewOf, Authorized
  <1>8. slow \in SUBSET Feed!Listening
    BY ListenersAreAuthorized
  <1> QED BY ZenonT(60), <1>3, <1>4, <1>5, <1>7, <1>8 DEF Feed!Publish

\* What happens to one connection is a miner that starts or stops to listen,
\* or nothing the feed can see.
LEMMA ConnectionIsFeedStep ==
    ASSUME PipelineIInv, NEW c \in Clients,
           Connect(c) \/ Authorize(c) \/ Resend(c) \/ Destroy(c) \/ Cleanup(c)
    PROVE  [Feed!Next]_Feed!feedVars
  <1> USE DEF PipelineIInv, PipelineTypeOK
  <1> DEFINE views == [d \in Clients |-> ViewOf(d)]
  <1>1. UNCHANGED history
    BY DEF Connect, Authorize, Resend, Destroy, Cleanup, storeVars
  <1>2. \A d \in Clients \ {c} : ViewOf(d)' = ViewOf(d)
    BY DEF Connect, Authorize, Resend, Destroy, Cleanup, ViewOf
  <1>3. ASSUME ViewOf(c)' = ViewOf(c) PROVE UNCHANGED Feed!feedVars
    BY <1>1, <1>2, <1>3 DEF Feed!feedVars
  <1>4. CASE Authorize(c) /\ conn[c] = "open"
    <2>1. ViewOf(c) = DeafMiner /\ notified[c] = NoNotify
      BY <1>4 DEF ViewOf, OpenIsSilent
    <2>2. ViewOf(c)' = Feed!Latest
      BY <1>4, <2>1, LatestIsLast DEF Authorize, ViewOf
    <2>3. views' = [views EXCEPT ![c] = Feed!Latest]
      BY <1>2, <2>2
    <2> QED BY <1>1, <2>1, <2>3 DEF Feed!Join, Feed!Next
  <1>5. CASE Destroy(c) /\ conn[c] = "authorized"
    <2>1. ViewOf(c) # DeafMiner
      BY <1>5, ToldIsNotDeaf DEF ViewOf
    <2>2. ViewOf(c)' = DeafMiner
      BY <1>5 DEF Destroy, ViewOf
    <2>3. views' = [views EXCEPT ![c] = DeafMiner]
      BY <1>2, <2>2
    <2> QED BY <1>1, <2>1, <2>3 DEF Feed!Leave, Feed!Next
  <1>6. CASE Authorize(c) /\ conn[c] = "authorized"
    <2>1. history # <<>> => notified[c] = lastJob
      BY <1>6 DEF MinersOnLastJob, Authorized
    <2>2. notified'[c] = notified[c]
      BY <1>6, <2>1 DEF Authorize
    <2> QED BY <1>3, <1>6, <2>2 DEF Authorize, ViewOf
  <1>7. CASE Resend(c)
    <2>1. history # <<>>
      BY <1>7 DEF Resend, LastJobStored
    <2>2. conn[c] = "authorized" => notified[c] = lastJob
      BY <2>1 DEF MinersOnLastJob, Authorized
    <2> QED BY <1>3, <1>7, <2>2 DEF Resend, ViewOf
  <1>8. CASE Connect(c) \/ Cleanup(c) \/ (Destroy(c) /\ conn[c] # "authorized")
    BY <1>3, <1>8 DEF Connect, Cleanup, Destroy, ViewOf
  <1> QED BY <1>4, <1>5, <1>6, <1>7, <1>8 DEF Authorize

\* Every step of the pipeline is a step of the feed or invisible to it.
LEMMA FeedStep ==
    ASSUME PipelineIInv, [PipelineNext]_pipelineVars
    PROVE  [Feed!Next]_Feed!feedVars
  <1>1. ASSUME UNCHANGED <<history, conn, notified>> PROVE UNCHANGED Feed!feedVars
    BY <1>1 DEF Feed!feedVars, ViewOf
  <1>2. CASE UpdateStep \/ UNCHANGED pipelineVars \/ (\E l \in Loops : Abandon(l))
    BY <1>1, <1>2 DEF UpdateStep, pipelineVars, Abandon, storeVars, connVars
  <1>3. CASE \E l \in Loops : Publish(l)
    BY <1>3, PublishIsFeedPublish DEF Feed!Next
  <1>4. CASE \E c \in Clients :
               Connect(c) \/ Authorize(c) \/ Resend(c) \/ Destroy(c) \/ Cleanup(c)
    BY <1>4, ConnectionIsFeedStep
  <1> QED BY <1>2, <1>3, <1>4 DEF PipelineNext

\* The pipeline implements the job feed: updateJob, the store, the broadcasts,
\* the repetitions and the connections together give every miner that listens
\* the latest of a sequence of ever newer jobs.
THEOREM PipelineImplementsFeed == PipelineSpec => FeedSpec
  <1>1. PipelineInit => Feed!Init
    BY DEF PipelineInit, Feed!Init, ViewOf
  <1>2. PipelineIInv /\ [PipelineNext]_pipelineVars => [Feed!Next]_Feed!feedVars
    BY FeedStep
  <1> QED BY <1>1, <1>2, PipelineInvariance, PTL DEF PipelineSpec, FeedSpec, Feed!Spec

-----------------------------------------------------------------------------
LEMMA IdsAreNats == \A job \in StoredJobs : job.id \in Nat
  BY DEF StoredJobs

\* The jobs of a history a miner may still be working on, and which they are.
UsableAt(h, k) ==
    LET n == Len(h)
    IN  /\ k + MaxJobs > n
        /\ \A i \in k + 1 .. n : ~h[i].clean
        /\ \A i \in k .. n : h[i].height = h[n].height

UsableJobs(h) == {h[k] : k \in {i \in 1 .. Len(h) : UsableAt(h, i)}}

IdsAscend(h) == \A i, j \in 1 .. Len(h) : i < j => h[i].id < h[j].id

\* A run of a history has as many jobs as its interval has indices.
LEMMA RunSize ==
    ASSUME NEW h \in Seq(StoredJobs), IdsAscend(h),
           NEW a \in 1 .. Len(h), NEW b \in 1 .. Len(h), a <= b
    PROVE  LET run == {h[k] : k \in a .. b}
           IN  IsFiniteSet(run) /\ Cardinality(run) = b - a + 1
  <1> DEFINE I == a .. b
             run == {h[k] : k \in I}
             f == [k \in I |-> h[k]]
  <1>1. IsFiniteSet(I) /\ Cardinality(I) = b - a + 1
    BY FS_Interval
  <1>2. \A i \in I : i \in 1 .. Len(h) /\ h[i] \in StoredJobs
    OBVIOUS
  <1>3. \A i, j \in I : i # j => h[i] # h[j]
    <2> SUFFICES ASSUME NEW i \in I, NEW j \in I, i < j PROVE h[i] # h[j]
      BY <1>2
    <2>1. h[i].id < h[j].id /\ h[i].id \in Nat
      BY SMTT(60), <1>2 DEF IdsAscend, StoredJobs
    <2> QED BY <2>1
  <1>4. f \in Surjection(I, run)
    BY DEF Surjection
  <1>5. f \in Injection(I, run)
    BY <1>3 DEF Injection, IsInjective
  <1> HIDE DEF I, run, f
  <1>6. IsFiniteSet(run) /\ Cardinality(run) = b - a + 1
    BY <1>1, <1>4, <1>5, FS_Surjection
  <1> QED BY <1>6 DEF run, I

\* Storing a job keeps exactly what is usable of the longer history.
LEMMA RetainedIsUsable ==
    ASSUME NEW h \in Seq(StoredJobs), NEW job \in StoredJobs, IdsAscend(Append(h, job))
    PROVE  Retained(UsableJobs(h), job) = UsableJobs(Append(h, job))
  <1> DEFINE n == Len(h)
             g == Append(h, job)
             S == UsableJobs(h)
  <1>1. /\ n \in Nat /\ g \in Seq(StoredJobs) /\ Len(g) = n + 1
        /\ \A i \in 1 .. n : g[i] = h[i] /\ h[i] \in StoredJobs
        /\ g[n + 1] = job
    OBVIOUS
  <1>2. MaxJobs \in Nat /\ MaxJobs >= 1
    BY PipelineAssumption
  <1>3. UsableAt(g, n + 1)
    BY <1>1, <1>2 DEF UsableAt
  <1>4. CASE job.clean \/ (n > 0 => h[n].height # job.height)
    <2>1. \A k \in 1 .. n : ~UsableAt(g, k)
      BY <1>1, <1>4 DEF UsableAt
    <2>2. UsableJobs(g) = {job}
      BY <1>1, <1>3, <2>1 DEF UsableJobs
    <2>3. \A j \in S : n > 0 /\ j.height = h[n].height
      BY <1>1 DEF UsableJobs, UsableAt
    <2>4. Retained(S, job) = Bounded({job})
      <3> HIDE DEF S, g
      <3>1. CASE job.clean
        <4>1. {j \in {} : j.height = job.height} \cup {job} = {job}
          OBVIOUS
        <4> QED BY <3>1, <4>1 DEF Retained
      <3>2. CASE n > 0 => h[n].height # job.height
        <4>1. {j \in S : j.height = job.height} = {}
          BY <2>3, <3>2
        <4> QED BY <4>1 DEF Retained
      <3> QED BY <1>4, <3>1, <3>2
    <2>5. Bounded({job}) = {job}
      <3>1. Cardinality({job}) = 1
        BY FS_Singleton
      <3>2. ~(Cardinality({job}) > MaxJobs)
        BY <1>2, <3>1
      <3> QED BY <3>2 DEF Bounded
    <2> QED BY <2>2, <2>4, <2>5
  <1>5. CASE ~job.clean /\ n > 0 /\ h[n].height = job.height
    <2> DEFINE lo == n + 1 - MaxJobs
               T == S \cup {job}
    <2>1. \A k \in 1 .. n : UsableAt(g, k) <=> UsableAt(h, k) /\ k # lo
      <3> SUFFICES ASSUME NEW k \in 1 .. n
                   PROVE  UsableAt(g, k) <=> UsableAt(h, k) /\ k # lo
        OBVIOUS
      <3>1. k + MaxJobs > n + 1 <=> k + MaxJobs > n /\ k # lo
        BY <1>1, <1>2
      <3>2. (\A i \in k + 1 .. n + 1 : ~g[i].clean) <=> (\A i \in k + 1 .. n : ~h[i].clean)
        <4>1. \A i \in k + 1 .. n : i \in k + 1 .. n + 1 /\ i \in 1 .. n
          BY <1>1
        <4>2. \A i \in k + 1 .. n + 1 : i = n + 1 \/ i \in k + 1 .. n
          BY <1>1
        <4> QED BY <1>1, <1>5, <4>1, <4>2
      <3>3. (\A i \in k .. n + 1 : g[i].height = job.height)
               <=> (\A i \in k .. n : h[i].height = h[n].height)
        <4>1. \A i \in k .. n : i \in k .. n + 1 /\ i \in 1 .. n
          BY <1>1
        <4>2. \A i \in k .. n + 1 : i = n + 1 \/ i \in k .. n
          BY <1>1
        <4> QED BY <1>1, <1>5, <4>1, <4>2
      <3> QED BY <1>1, <3>1, <3>2, <3>3 DEF UsableAt
    <2>2. Retained(S, job) = Bounded(T)
      <3>1. \A j \in S : j.height = job.height
        BY <1>1, <1>5 DEF UsableJobs, UsableAt
      <3>2. {j \in S : j.height = job.height} = S
        BY <3>1
      <3> QED BY <1>5, <3>2 DEF Retained
    <2>3. UsableJobs(g) = {h[k] : k \in {i \in 1 .. n : UsableAt(h, i) /\ i # lo}} \cup {job}
      <3>1. \A i : i \in 1 .. n + 1 /\ UsableAt(g, i) <=>
                     (i \in 1 .. n /\ UsableAt(h, i) /\ i # lo) \/ i = n + 1
        BY <1>1, <1>3, <2>1
      <3> QED BY <1>1, <3>1 DEF UsableJobs
    <2>4. CASE lo \in 1 .. n /\ UsableAt(h, lo)
      <3>1. \A k \in 1 .. n : UsableAt(h, k) <=> k >= lo
        BY <1>1, <1>2, <2>4 DEF UsableAt
      <3>2. T = {g[k] : k \in lo .. n + 1}
        BY <1>1, <2>4, <3>1 DEF UsableJobs
      <3>3. IsFiniteSet(T) /\ Cardinality(T) = n + 1 - lo + 1
        <4>1. lo \in 1 .. Len(g) /\ n + 1 \in 1 .. Len(g) /\ lo <= n + 1
          BY <1>1, <1>2, <2>4
        <4> HIDE DEF g, lo, T
        <4>2. g \in Seq(StoredJobs) /\ IdsAscend(g)
          BY <1>1 DEF g
        <4> DEFINE R == {g[k] : k \in lo .. n + 1}
        <4>3. IsFiniteSet(R) /\ Cardinality(R) = n + 1 - lo + 1
          BY <4>1, <4>2, RunSize
        <4> QED BY <3>2, <4>3
      <3>4. Bounded(T) = AllButOldest(T)
        BY <1>1, <1>2, <3>3 DEF Bounded
      <3>5. AllButOldest(T) = {g[k] : k \in lo + 1 .. n + 1}
        <4>1. \A i, k \in lo .. n + 1 : g[k].id < g[i].id <=> k < i
          <5> SUFFICES ASSUME NEW i \in lo .. n + 1, NEW k \in lo .. n + 1
                       PROVE  g[k].id < g[i].id <=> k < i
            OBVIOUS
          <5>1. i \in 1 .. Len(g) /\ k \in 1 .. Len(g) /\ g[i] \in StoredJobs /\ g[k] \in StoredJobs
            BY <1>1, <1>2, <2>4
          <5>2. g[i].id \in Nat /\ g[k].id \in Nat
            BY <5>1, IdsAreNats
          <5>3. (k < i => g[k].id < g[i].id) /\ (i < k => g[i].id < g[k].id)
            BY <5>1 DEF IdsAscend
          <5> QED BY <5>1, <5>2, <5>3
        <4>2. \A i \in lo .. n + 1 : (\E k \in lo .. n + 1 : k < i) <=> i \in lo + 1 .. n + 1
          BY <1>1, <1>2, <2>4
        <4>3. \A i \in lo + 1 .. n + 1 : i \in lo .. n + 1
          BY <1>1, <1>2
        <4> HIDE DEF g, lo, T
        <4> QED BY SMTT(60), <3>2, <4>1, <4>2, <4>3 DEF AllButOldest
      <3>6. UsableJobs(g) = {g[k] : k \in lo + 1 .. n + 1}
        <4>1. \A i : (i \in 1 .. n /\ UsableAt(h, i) /\ i # lo) <=> i \in lo + 1 .. n
          BY <1>1, <1>2, <2>4, <3>1
        <4>2. \A i : i \in lo + 1 .. n + 1 <=> i \in lo + 1 .. n \/ i = n + 1
          BY <1>1, <1>2, <2>4
        <4>3. \A i \in lo + 1 .. n : g[i] = h[i]
          BY <1>1, <1>2, <2>4
        <4> QED BY <1>1, <2>3, <4>1, <4>2, <4>3
      <3> QED BY <2>2, <3>4, <3>5, <3>6
    <2>5. CASE ~(lo \in 1 .. n /\ UsableAt(h, lo))
      <3>1. UsableJobs(g) = T
        BY <1>1, <2>3, <2>5 DEF UsableJobs
      <3>2. \A k \in 1 .. n : UsableAt(h, k) => k > lo
        BY <1>1, <1>2, <2>5 DEF UsableAt
      <3> DEFINE a == IF lo < 0 THEN 1 ELSE lo + 1
      <3>3. a \in 1 .. n + 1 /\ a >= lo + 1
        BY <1>1, <1>2
      <3>4. T \subseteq {g[k] : k \in a .. n + 1}
        <4>1. \A k \in 1 .. n : UsableAt(h, k) => k \in a .. n + 1 /\ g[k] = h[k]
          <5> SUFFICES ASSUME NEW k \in 1 .. n, UsableAt(h, k)
                       PROVE  k \in a .. n + 1 /\ g[k] = h[k]
            OBVIOUS
          <5>1. k > lo /\ g[k] = h[k]
            BY <1>1, <3>2
          <5>2. k >= a
            BY <1>1, <1>2, <5>1
          <5> HIDE DEF a, g
          <5> QED BY <1>1, <3>3, <5>1, <5>2
        <4>2. n + 1 \in a .. n + 1
          BY <1>1, <3>3
        <4> QED BY <1>1, <4>1, <4>2 DEF UsableJobs
      <3>5. Cardinality(T) <= n + 1 - a + 1 /\ Cardinality(T) \in Nat
        <4> HIDE DEF g, a, T
        <4>1. g \in Seq(StoredJobs) /\ IdsAscend(g) /\ n + 1 \in 1 .. Len(g) /\ a \in 1 .. Len(g)
              /\ a <= n + 1
          BY <1>1, <3>3 DEF g
        <4> DEFINE R == {g[k] : k \in a .. n + 1}
        <4>2. IsFiniteSet(R) /\ Cardinality(R) = n + 1 - a + 1
          BY <4>1, RunSize
        <4>3. T \in SUBSET R
          BY <3>4
        <4> HIDE DEF R
        <4>4. IsFiniteSet(T) /\ Cardinality(T) <= Cardinality(R)
          BY <4>2, <4>3, FS_Subset
        <4> QED BY <4>2, <4>4, FS_CardinalityType
      <3>6. Cardinality(T) <= MaxJobs
        <4>1. n + 1 - a + 1 <= MaxJobs /\ n + 1 - a + 1 \in Int
          BY <1>1, <1>2
        <4> HIDE DEF T, a
        <4> QED BY <1>2, <3>5, <4>1
      <3>7. Bounded(T) = T
        BY <1>2, <3>5, <3>6 DEF Bounded
      <3> QED BY <2>2, <3>1, <3>7
    <2> QED BY <2>4, <2>5
  <1> QED BY <1>4, <1>5

\* What makes RetentionExact inductive: ids ascend along the history.
HistoryInOrder ==
    /\ IdsAscend(history)
    /\ \A i \in 1 .. Len(history) : history[i].id <= jobCounter

RetentionInv == HistoryInOrder /\ jobs = UsableJobs(history)

LEMMA HistoryJobs ==
    ASSUME PipelineIInv, NEW i \in 1 .. Len(history)
    PROVE  history[i] \in StoredJobs /\ history[i].id \in Nat
  <1>1. history \in Seq(StoredJobs)
    BY DEF PipelineIInv, PipelineTypeOK
  <1>2. history[i] \in StoredJobs
    BY <1>1
  <1> QED BY <1>2 DEF StoredJobs

LEMMA PublishRetains ==
    ASSUME PipelineIInv, RetentionInv, NEW l \in Loops, Publish(l)
    PROVE  RetentionInv'
  <1> DEFINE job == StoredJob(jobCounter + 1, gen[l].tmpl, gen[l].clean)
  <1>1. gen[l].tmpl \in Templates /\ gen[l].clean \in BOOLEAN
    BY GenFields DEF Publish, GenDone, PipelineIInv, IInv, TypeOK
  <1>2. jobCounter \in Nat /\ jobCounter + 1 \in 1 .. MaxJobId
    BY PipelineAssumption DEF Publish, PipelineIInv, PipelineTypeOK
  <1>3. job \in StoredJobs /\ job.id = jobCounter + 1
    BY <1>1, <1>2, StoredJobFacts
  <1>4. /\ jobCounter' = jobCounter + 1
        /\ jobs' = Retained(jobs, job)
        /\ history' = Append(history, job)
    BY DEF Publish
  <1> HIDE DEF job
  <1>5. history \in Seq(StoredJobs)
    BY DEF PipelineIInv, PipelineTypeOK
  <1>6. /\ Len(history') = Len(history) + 1 /\ Len(history) \in Nat
        /\ \A i \in 1 .. Len(history) :
              history'[i] = history[i] /\ history[i].id \in Nat /\ history[i].id <= jobCounter
        /\ history'[Len(history) + 1] = job
    <2>1. /\ Len(history') = Len(history) + 1 /\ Len(history) \in Nat
          /\ \A i \in 1 .. Len(history) : history'[i] = history[i]
          /\ history'[Len(history) + 1] = job
      BY <1>3, <1>4, <1>5
    <2> QED BY <2>1, HistoryJobs DEF RetentionInv, HistoryInOrder
  <1>7. IdsAscend(history')
    <2> SUFFICES ASSUME NEW i \in 1 .. Len(history) + 1, NEW j \in 1 .. Len(history) + 1, i < j
                 PROVE  history'[i].id < history'[j].id
      BY <1>6 DEF IdsAscend
    <2>1. i \in 1 .. Len(history)
      BY <1>6
    <2>2. CASE j = Len(history) + 1
      BY <1>2, <1>3, <1>6, <2>1, <2>2
    <2>3. CASE j \in 1 .. Len(history)
      BY <1>6, <2>1, <2>3 DEF RetentionInv, HistoryInOrder, IdsAscend
    <2> QED BY <1>6, <2>2, <2>3
  <1>8. \A i \in 1 .. Len(history') : history'[i].id <= jobCounter'
    <2> SUFFICES ASSUME NEW i \in 1 .. Len(history) + 1 PROVE history'[i].id <= jobCounter'
      BY <1>6
    <2>1. CASE i \in 1 .. Len(history)
      BY <1>2, <1>4, <1>6, <2>1
    <2>2. CASE i = Len(history) + 1
      BY <1>2, <1>3, <1>4, <1>6, <2>2
    <2> QED BY <1>6, <2>1, <2>2
  <1>9. jobs' = UsableJobs(history')
    <2>1. Retained(UsableJobs(history), job) = UsableJobs(Append(history, job))
      BY <1>3, <1>4, <1>5, <1>7, RetainedIsUsable
    <2> QED BY <1>4, <2>1 DEF RetentionInv
  <1> QED BY <1>7, <1>8, <1>9 DEF RetentionInv, HistoryInOrder

LEMMA RetentionStep ==
    ASSUME PipelineIInv, RetentionInv, [PipelineNext]_pipelineVars
    PROVE  RetentionInv'
  <1>1. CASE \E l \in Loops : Publish(l)
    BY <1>1, PublishRetains
  <1>2. CASE \E l \in Loops : Abandon(l)
    <2>1. UNCHANGED <<jobs, history>>
      BY <1>2 DEF Abandon
    <2>2. jobCounter' \in Nat /\ jobCounter \in Nat /\ jobCounter' >= jobCounter
      BY <1>2 DEF Abandon, PipelineIInv, PipelineTypeOK
    <2>3. \A i \in 1 .. Len(history) : history[i].id \in Nat
      BY HistoryJobs
    <2> QED BY <2>1, <2>2, <2>3 DEF RetentionInv, HistoryInOrder
  <1>3. CASE UNCHANGED storeVars
    BY <1>3 DEF storeVars, RetentionInv, HistoryInOrder
  <1>4. UNCHANGED storeVars \/ (\E l \in Loops : Publish(l) \/ Abandon(l))
    BY DEF PipelineNext, pipelineVars, UpdateStep, Connect, Authorize, Resend, Destroy, Cleanup
  <1> QED BY <1>1, <1>2, <1>3, <1>4

\* The store holds the last MaxJobs jobs since the last clean job or change of
\* height and no other, for every history and every size of the store
\* (generateJob's clear, filter and eviction of the oldest).
THEOREM StoreHoldsUsable == PipelineSpec => []RetentionExact
  <1>1. PipelineInit => RetentionInv
    <2> SUFFICES ASSUME PipelineInit PROVE RetentionInv
      OBVIOUS
    <2>1. history = <<>> /\ jobs = {} /\ 1 .. Len(history) = {}
      BY DEF PipelineInit
    <2>2. UsableJobs(history) = {}
      BY <2>1 DEF UsableJobs
    <2> QED BY <2>1, <2>2 DEF RetentionInv, HistoryInOrder, IdsAscend
  <1>2. PipelineIInv /\ RetentionInv /\ [PipelineNext]_pipelineVars => RetentionInv'
    BY RetentionStep
  <1>3. RetentionInv => RetentionExact
    BY DEF RetentionInv, RetentionExact, UsableJobs, UsableAt
  <1> QED BY <1>1, <1>2, <1>3, PipelineInvariance, PTL DEF PipelineSpec
=============================================================================
