------------------------------- MODULE JobFeed -------------------------------
(***************************************************************************)
(* What the pool promises its miners, whatever happens between the node,   *)
(* updateJob, the job store and the sockets: a feed of jobs, each newer    *)
(* than the one before, of which every listening miner has the last.       *)
(* JobPipeline implements it.                                              *)
(***************************************************************************)
EXTENDS Naturals, Sequences

CONSTANTS
    Miners,
    Job,           \* records with an id and a height
    Waiting,       \* a miner listens and nothing has been published yet
    Deaf           \* a miner does not listen

VARIABLES
    published,     \* the jobs of the feed, oldest first
    view           \* per miner: the job it works on, Waiting or Deaf

feedVars == <<published, view>>

-----------------------------------------------------------------------------
Listening == {m \in Miners : view[m] # Deaf}

Latest == IF published = <<>> THEN Waiting ELSE published[Len(published)]

\* A later job never carries an older id and never goes back to a lower block.
Succeeds(job) ==
    published # <<>> => job.id > Latest.id /\ job.height >= Latest.height

\* A new job reaches every listener that the publication does not lose.
Publish ==
    \E job \in Job, lost \in SUBSET Listening :
        /\ Succeeds(job)
        /\ published' = Append(published, job)
        /\ view' = [m \in Miners |-> IF m \in Listening \ lost THEN job ELSE Deaf]

\* A miner that starts to listen has the latest job at once.
Join(m) ==
    /\ view[m] = Deaf
    /\ view' = [view EXCEPT ![m] = Latest]
    /\ UNCHANGED published

Leave(m) ==
    /\ view[m] # Deaf
    /\ view' = [view EXCEPT ![m] = Deaf]
    /\ UNCHANGED published

Init == published = <<>> /\ view = [m \in Miners |-> Deaf]
Next == Publish \/ \E m \in Miners : Join(m) \/ Leave(m)
Spec == Init /\ [][Next]_feedVars
=============================================================================
