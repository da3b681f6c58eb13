------------------------------- MODULE VarDiff -------------------------------
(***************************************************************************)
(* The share difficulty of one authorized miner (lib/stratumServer.js:     *)
(* applyDifficulty, noteAcceptedShare, checkIdleMinersVardiff and          *)
(* mining.suggest_difficulty; lib/workManager.js: the grace target of      *)
(* validateShare; index.js: computeShareDifficulty).  Miners do not share  *)
(* any of this state.                                                      *)
(*                                                                         *)
(* Difficulties are whole numbers; a target is named by the difficulty it  *)
(* belongs to, and a lower target is a higher difficulty.  The average     *)
(* interval between shares can be anything, so a retarget is any change    *)
(* the dampening lets through.                                             *)
(*                                                                         *)
(* A share is judged by validateShare and credited by the rest of the      *)
(* submit handler, with an await in between: the lines of one chunk of     *)
(* data are all read before the first of their shares is credited, and no  *)
(* timer fires until the last one is.                                      *)
(***************************************************************************)
EXTENDS Naturals, Sequences

CONSTANTS
    MinDifficulty, MaxDifficulty,   \* the two limits clampDifficulty uses
    InitialDifficulty,
    Grace,        \* ticks previousShareTarget is honoured (30 s)
    RetargetTime, \* ticks between two retargets
    IdleTime,     \* ticks without a share before the idle check acts
    MinSamples,
    MaxShare,     \* bound: the hardest target a share of the model can meet
    MaxChunk      \* bound: shares that arrive in one chunk

ASSUME VarDiffAssumption ==
    /\ MinDifficulty \in Nat \ {0}
    /\ MaxDifficulty \in Nat
    /\ MinDifficulty <= MaxDifficulty
    /\ InitialDifficulty \in MinDifficulty .. MaxDifficulty
    /\ Grace \in Nat \ {0}
    /\ RetargetTime \in Nat /\ IdleTime \in Nat
    /\ MinSamples \in Nat \ {0}
    /\ MaxShare \in Nat /\ MaxChunk \in Nat

VARIABLES
    currentDifficulty,
    previous,        \* difficulty of previousShareTarget, 0 for null
    graceLeft,       \* ticks until previousTargetExpiresAt
    samples,         \* length of shareTimes, up to MinSamples
    sinceRetarget,   \* ticks since lastRetargetAt, up to RetargetTime
    sinceShare,      \* ticks since the last accepted share, up to IdleTime
    validated,       \* shares judged and not yet credited, in order
    crediting,       \* the chunk is read, its shares are being credited
    best,            \* metrics.bestShareDifficulty
    superseded,      \* auxiliary: ticks since a difficulty stopped being the
                     \* one in force, up to Grace
    suggested,       \* auxiliary: ticks since the miner suggested a difficulty,
                     \* up to Grace
    hardest,         \* auxiliary: the hardest target any accepted share met
    stalled          \* the miner finds no share and suggests nothing any more

graceVars == <<previous, graceLeft>>
chunkVars == <<validated, crediting>>
shareVars == <<samples, sinceShare, best, hardest>>
vars == <<currentDifficulty, graceVars, chunkVars, shareVars, sinceRetarget,
          superseded, suggested, stalled>>

-----------------------------------------------------------------------------
Diffs == MinDifficulty .. MaxDifficulty
Larger(a, b) == IF a >= b THEN a ELSE b
Smaller(a, b) == IF a <= b THEN a ELSE b

\* Mutant: no upper limit.
ClampDifficulty_NoMax(d) == Larger(MinDifficulty, d)

ClampDifficulty(d) == Larger(MinDifficulty, Smaller(MaxDifficulty, d))

\* Mutant: a decrease leaves an open grace window as it is.
KeepGrace_NotCleared(new) ==
    IF new > currentDifficulty
    THEN previous' = currentDifficulty /\ graceLeft' = Grace
    ELSE UNCHANGED graceVars

\* previousShareTarget and its expiry, for a change to difficulty new.
KeepGrace(new) ==
    IF new > currentDifficulty
    THEN previous' = currentDifficulty /\ graceLeft' = Grace
    ELSE previous' = 0 /\ graceLeft' = 0

ApplyDifficulty(d) ==
    /\ KeepGrace(ClampDifficulty(d))
    /\ currentDifficulty' = ClampDifficulty(d)
    /\ superseded' = IF ClampDifficulty(d) = currentDifficulty THEN superseded
                     ELSE [superseded EXCEPT ![currentDifficulty] = 0]

-----------------------------------------------------------------------------
\* validateShare, for a share that meets target t and none below it.

MeetsShareTarget(t) == t >= currentDifficulty
MeetsGraceTarget(t) ==
    /\ graceLeft > 0
    /\ previous < currentDifficulty
    /\ t >= previous
Passes(t) == MeetsShareTarget(t) \/ MeetsGraceTarget(t)

\* The difficulty whose target the quality of the share is relative to.
HeldTo(t) == IF MeetsShareTarget(t) THEN currentDifficulty ELSE previous

ValidateShare(t) ==
    /\ ~stalled
    /\ ~crediting
    /\ Len(validated) < MaxChunk
    /\ Passes(t)
    /\ validated' = Append(validated, [meets |-> t, held |-> HeldTo(t)])
    /\ UNCHANGED <<currentDifficulty, graceVars, crediting, shareVars,
                   sinceRetarget, superseded, suggested, stalled>>

\* computeShareDifficulty: the quality times the difficulty of the moment.
ShareDifficulty(s) == (currentDifficulty * s.meets) \div s.held

\* Increase at most by half, decrease at most to 0.33, at least 5% either way.
Proposals ==
    {n \in Diffs : /\ n # currentDifficulty
                   /\ 2 * n <= 3 * currentDifficulty
                   /\ 100 * n >= 33 * currentDifficulty
                   /\ \/ 100 * n >= 105 * currentDifficulty
                      \/ 100 * n <= 95 * currentDifficulty}

\* Mutant: retargets are not kept apart.
RetargetDue_AtOnce == samples' >= MinSamples

RetargetDue == samples' >= MinSamples /\ sinceRetarget >= RetargetTime

\* Shares older than four retarget times leave shareTimes.
Retarget ==
    \/ /\ ~RetargetDue
       /\ UNCHANGED <<currentDifficulty, graceVars, superseded, sinceRetarget>>
    \/ /\ RetargetDue
       /\ sinceRetarget' = 0
       /\ \/ UNCHANGED <<currentDifficulty, graceVars, superseded>>
          \/ \E n \in Proposals : ApplyDifficulty(n)

\* The handler after its await: recordShareOutcome, then noteAcceptedShare.
CreditShare ==
    /\ validated # <<>>
    /\ validated' = Tail(validated)
    /\ crediting' = (Len(validated) > 1)
    /\ best' = Larger(best, ShareDifficulty(Head(validated)))
    /\ hardest' = Larger(hardest, Head(validated).meets)
    /\ sinceShare' = 0
    /\ samples' \in 1 .. Smaller(samples + 1, MinSamples)
    /\ Retarget
    /\ UNCHANGED <<suggested, stalled>>

\* mining.suggest_difficulty takes effect at once and is not rate limited.
Suggest(d) ==
    /\ ~stalled
    /\ ~crediting
    /\ ApplyDifficulty(d)
    /\ suggested' = 0
    /\ UNCHANGED <<chunkVars, shareVars, sinceRetarget, stalled>>

\* Mutant: the idle check waits for enough samples, as the retarget does.
IdleCheckDue_NeedsSamples ==
    /\ sinceShare >= IdleTime
    /\ samples >= MinSamples
    /\ currentDifficulty > MinDifficulty
    /\ sinceRetarget >= RetargetTime

IdleCheckDue ==
    /\ sinceShare >= IdleTime
    /\ currentDifficulty > MinDifficulty
    /\ sinceRetarget >= RetargetTime

\* checkIdleMinersVardiff halves the difficulty.
IdleCheck ==
    /\ validated = <<>>
    /\ IdleCheckDue
    /\ ClampDifficulty(currentDifficulty \div 2) < currentDifficulty
    /\ ApplyDifficulty(currentDifficulty \div 2)
    /\ sinceRetarget' = 0
    /\ UNCHANGED <<chunkVars, shareVars, suggested, stalled>>

Tick ==
    /\ validated = <<>>
    /\ graceLeft' = IF graceLeft > 0 THEN graceLeft - 1 ELSE 0
    /\ sinceRetarget' = Smaller(sinceRetarget + 1, RetargetTime)
    /\ sinceShare' = Smaller(sinceShare + 1, IdleTime)
    /\ superseded' = [d \in Diffs |-> Smaller(superseded[d] + 1, Grace)]
    /\ suggested' = Smaller(suggested + 1, Grace)
    /\ UNCHANGED <<currentDifficulty, previous, chunkVars, samples, best, hardest, stalled>>

Stall ==
    /\ ~stalled
    /\ validated = <<>>
    /\ stalled' = TRUE
    /\ UNCHANGED <<currentDifficulty, graceVars, chunkVars, shareVars, sinceRetarget,
                   superseded, suggested>>

-----------------------------------------------------------------------------
Init ==
    /\ currentDifficulty = InitialDifficulty
    /\ previous = 0
    /\ graceLeft = 0
    /\ samples = 0
    /\ sinceRetarget = RetargetTime      \* lastRetargetAt: 0
    /\ sinceShare = 0
    /\ validated = <<>>
    /\ crediting = FALSE
    /\ best = 0
    /\ superseded = [d \in Diffs |-> Grace]
    /\ suggested = Grace
    /\ hardest = 0
    /\ stalled = FALSE

Next ==
    \/ \E t \in 1 .. MaxShare : ValidateShare(t)
    \/ CreditShare
    \/ \E d \in 1 .. MaxDifficulty + 1 : Suggest(d)
    \/ IdleCheck
    \/ Tick
    \/ Stall

Spec == Init /\ [][Next]_vars

\* Continuations run, time passes and the idle timer fires.
FairSpec == Spec /\ WF_vars(CreditShare) /\ WF_vars(Tick) /\ WF_vars(IdleCheck)

-----------------------------------------------------------------------------
TypeOK ==
    /\ currentDifficulty \in Diffs
    /\ previous \in Diffs \cup {0}
    /\ graceLeft \in 0 .. Grace
    /\ samples \in 0 .. MinSamples
    /\ sinceRetarget \in 0 .. RetargetTime
    /\ sinceShare \in 0 .. IdleTime
    /\ superseded \in [Diffs -> 0 .. Grace]
    /\ suggested \in 0 .. Grace
    /\ validated \in Seq([meets : 1 .. MaxShare, held : Diffs])
    /\ crediting \in BOOLEAN
    /\ best \in Nat
    /\ hardest \in 0 .. MaxShare
    /\ stalled \in BOOLEAN

\* While a grace window is open, shares down to the difficulty before the
\* increase pass, and no share below it does: the window opens the door to the
\* superseded difficulty and to nothing easier.
GraceIsForSuperseded ==
    graceLeft > 0 =>
        /\ previous # 0 /\ previous < currentDifficulty
        /\ superseded[previous] < Grace
        /\ \A t \in Diffs : Passes(t) <=> t >= previous

\* A miner that finds no share at all ends up at the lowest difficulty, however
\* high VarDiff or its own suggestion had put it.
StalledMinerRescued == stalled ~> currentDifficulty = MinDifficulty

\* applyDifficulty's comment: the grace window is there "so in-flight shares
\* aren't rejected".  A share in flight was made for the difficulty in force
\* when the miner started on it.
InFlightSharesPass ==
    \A d \in Diffs : superseded[d] < Grace => Passes(d)

\* The window covers what VarDiff itself does: if retargets are at least the
\* grace time apart, no difficulty in force within the grace time is rejected
\* unless the miner suggested one meanwhile.  A decrease may close the window,
\* and an increase may replace it, only when nothing in flight needs it.
RejectsOnlyAfterSuggestion ==
    RetargetTime >= Grace /\ suggested >= Grace =>
        \A d \in Diffs : superseded[d] < Grace => Passes(d)

\* README.md: bestDiff is the "highest observed effective difficulty".
BestIsObserved == best <= hardest
=============================================================================
