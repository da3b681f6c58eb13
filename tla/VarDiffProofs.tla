---------------------------- MODULE VarDiffProofs ----------------------------
(***************************************************************************)
(* For any limits, grace time and history of difficulties: the grace       *)
(* window is open for the superseded difficulty and nothing easier, and    *)
(* it is open for all that VarDiff itself supersedes.  A miner's best      *)
(* difficulty is off by at most the ratio of the limits.                   *)
(***************************************************************************)
EXTENDS VarDiff, TLAPS

\* While the window is open the clock of the superseded difficulty and the
\* window's own run together.
WindowInStep ==
    graceLeft > 0 =>
        /\ previous \in Diffs /\ previous < currentDifficulty
        /\ superseded[previous] + graceLeft <= Grace

GraceInv == TypeOK /\ WindowInStep

LEMMA ClampInRange ==
    ASSUME NEW d \in Nat
    PROVE  ClampDifficulty(d) \in Diffs
  BY VarDiffAssumption DEF ClampDifficulty, Larger, Smaller, Diffs

\* A new difficulty opens a window of full length, or closes it.
LEMMA ApplyKeepsWindow ==
    ASSUME GraceInv, NEW d \in Nat, ApplyDifficulty(d)
    PROVE  /\ currentDifficulty' \in Diffs
           /\ previous' \in Diffs \cup {0}
           /\ graceLeft' \in 0 .. Grace
           /\ superseded' \in [Diffs -> 0 .. Grace]
           /\ WindowInStep'
  <1> DEFINE new == ClampDifficulty(d)
  <1>1. new \in Diffs /\ currentDifficulty \in Diffs /\ superseded \in [Diffs -> 0 .. Grace]
    BY ClampInRange DEF GraceInv, TypeOK
  <1>2. /\ KeepGrace(new) /\ currentDifficulty' = new
        /\ superseded' = IF new = currentDifficulty THEN superseded
                         ELSE [superseded EXCEPT ![currentDifficulty] = 0]
    BY DEF ApplyDifficulty
  <1> HIDE DEF new
  <1>3. superseded' \in [Diffs -> 0 .. Grace]
    BY <1>1, <1>2, VarDiffAssumption
  <1>4. CASE new > currentDifficulty
    <2>1. previous' = currentDifficulty /\ graceLeft' = Grace
      BY <1>2, <1>4 DEF KeepGrace
    <2>2. superseded'[currentDifficulty] = 0
      BY <1>1, <1>2, <1>4, VarDiffAssumption DEF Diffs
    <2> QED BY <1>1, <1>2, <1>3, <1>4, <2>1, <2>2, VarDiffAssumption DEF WindowInStep, Diffs
  <1>5. CASE ~(new > currentDifficulty)
    <2>1. previous' = 0 /\ graceLeft' = 0
      BY <1>2, <1>5 DEF KeepGrace
    <2> QED BY <1>1, <1>2, <1>3, <2>1, VarDiffAssumption DEF WindowInStep
  <1> QED BY <1>4, <1>5

\* Where neither the difficulty nor the clocks change, the window stays.
LEMMA WindowUnmoved ==
    ASSUME GraceInv, UNCHANGED <<currentDifficulty, graceVars, superseded>>
    PROVE  /\ currentDifficulty' \in Diffs
           /\ previous' \in Diffs \cup {0}
           /\ graceLeft' \in 0 .. Grace
           /\ superseded' \in [Diffs -> 0 .. Grace]
           /\ WindowInStep'
  BY DEF GraceInv, TypeOK, WindowInStep, graceVars

\* What a share is held to is one of the difficulties.
LEMMA HeldToADifficulty ==
    ASSUME GraceInv, NEW t \in 1 .. MaxShare, Passes(t)
    PROVE  HeldTo(t) \in Diffs
  BY DEF GraceInv, TypeOK, WindowInStep, Passes, MeetsShareTarget, MeetsGraceTarget, HeldTo

LEMMA GraceInitInv == Init => GraceInv
  <1> SUFFICES ASSUME Init PROVE GraceInv
    OBVIOUS
  <1>1. validated \in Seq([meets : 1 .. MaxShare, held : Diffs])
    BY DEF Init
  <1>2. superseded \in [Diffs -> 0 .. Grace] /\ suggested \in 0 .. Grace
    BY VarDiffAssumption DEF Init
  <1>3. /\ currentDifficulty \in Diffs
        /\ samples \in 0 .. MinSamples /\ sinceRetarget \in 0 .. RetargetTime
        /\ sinceShare \in 0 .. IdleTime /\ hardest \in 0 .. MaxShare
    BY VarDiffAssumption DEF Init, Diffs
  <1>4. previous = 0 /\ graceLeft = 0 /\ graceLeft \in 0 .. Grace
    BY VarDiffAssumption DEF Init
  <1>5. crediting \in BOOLEAN /\ best \in Nat /\ stalled \in BOOLEAN
    BY DEF Init
  <1>6. TypeOK
    BY ONLY <1>1, <1>2, <1>3, <1>4, <1>5 DEF TypeOK
  <1>7. WindowInStep
    BY ONLY <1>4 DEF WindowInStep
  <1> QED BY <1>6, <1>7 DEF GraceInv

LEMMA ValidateKeeps ==
    ASSUME GraceInv, NEW t \in 1 .. MaxShare, ValidateShare(t)
    PROVE  GraceInv'
  <1>1. [meets |-> t, held |-> HeldTo(t)] \in [meets : 1 .. MaxShare, held : Diffs]
    BY HeldToADifficulty DEF ValidateShare
  <1>2. validated' \in Seq([meets : 1 .. MaxShare, held : Diffs])
    BY <1>1 DEF ValidateShare, GraceInv, TypeOK
  <1>3. UNCHANGED <<currentDifficulty, graceVars, superseded>>
    BY DEF ValidateShare
  <1> QED BY <1>2, <1>3, WindowUnmoved DEF ValidateShare, GraceInv, TypeOK, shareVars

LEMMA CreditKeeps ==
    ASSUME GraceInv, CreditShare
    PROVE  GraceInv'
  <1> DEFINE Shares == [meets : 1 .. MaxShare, held : Diffs]
  <1>0. validated \in Seq(Shares) /\ validated # <<>> /\ validated' = Tail(validated)
    BY DEF CreditShare, GraceInv, TypeOK
  <1>1. PICK s \in Shares : s = Head(validated)
    <2> HIDE DEF Shares
    <2> QED BY <1>0
  <1>2. validated' \in Seq(Shares)
    <2> HIDE DEF Shares
    <2> QED BY <1>0
  <1>3. best' \in Nat
    <2>1. ShareDifficulty(s) \in Nat
      <3>1. s.held \in Nat \ {0} /\ s.meets \in Nat /\ currentDifficulty \in Nat
        BY VarDiffAssumption DEF GraceInv, TypeOK, Diffs
      <3>2. currentDifficulty * s.meets \in Nat
        BY <3>1
      <3> QED BY <3>1, <3>2 DEF ShareDifficulty
    <2>2. best' = Larger(best, ShareDifficulty(s)) /\ best \in Nat
      BY <1>1 DEF CreditShare, GraceInv, TypeOK
    <2> QED BY <2>1, <2>2 DEF Larger
  <1>4. hardest' \in 0 .. MaxShare
    BY SMTT(60), <1>1, VarDiffAssumption DEF CreditShare, GraceInv, TypeOK, Larger
  <1>5. samples' \in 0 .. MinSamples /\ sinceShare' \in 0 .. IdleTime
    BY VarDiffAssumption DEF CreditShare, GraceInv, TypeOK, Smaller
  <1>6. crediting' \in BOOLEAN /\ stalled' \in BOOLEAN
    BY DEF CreditShare, GraceInv, TypeOK
  <1>7. /\ sinceRetarget' \in 0 .. RetargetTime
        /\ currentDifficulty' \in Diffs
        /\ previous' \in Diffs \cup {0}
        /\ graceLeft' \in 0 .. Grace
        /\ superseded' \in [Diffs -> 0 .. Grace]
        /\ WindowInStep'
    <2>1. sinceRetarget' \in 0 .. RetargetTime
      <3>1. 0 \in 0 .. RetargetTime /\ sinceRetarget \in 0 .. RetargetTime
        BY VarDiffAssumption DEF GraceInv, TypeOK
      <3>2. sinceRetarget' = sinceRetarget \/ sinceRetarget' = 0
        BY DEF CreditShare, Retarget
      <3> QED BY <3>1, <3>2
    <2>2. CASE UNCHANGED <<currentDifficulty, graceVars, superseded>>
      BY <2>1, <2>2, WindowUnmoved
    <2>3. CASE \E n \in Proposals : ApplyDifficulty(n)
      <3>1. \A n \in Proposals : n \in Nat
        BY VarDiffAssumption DEF Proposals, Diffs
      <3> QED BY <2>1, <2>3, <3>1, ApplyKeepsWindow
    <2> QED BY <2>2, <2>3 DEF CreditShare, Retarget
  <1>8. suggested' \in 0 .. Grace
    BY DEF CreditShare, GraceInv, TypeOK
  <1> QED BY <1>2, <1>3, <1>4, <1>5, <1>6, <1>7, <1>8 DEF GraceInv, TypeOK

LEMMA SuggestKeeps ==
    ASSUME GraceInv, NEW d \in Nat, Suggest(d)
    PROVE  GraceInv'
  <1>1. ApplyDifficulty(d)
    BY DEF Suggest
  <1>2. suggested' \in 0 .. Grace
    BY VarDiffAssumption DEF Suggest
  <1> QED BY <1>1, <1>2, ApplyKeepsWindow DEF Suggest, chunkVars, shareVars, GraceInv, TypeOK

LEMMA IdleCheckKeeps ==
    ASSUME GraceInv, IdleCheck
    PROVE  GraceInv'
  <1>1. currentDifficulty \div 2 \in Nat
    BY VarDiffAssumption DEF GraceInv, TypeOK, Diffs
  <1>2. ApplyDifficulty(currentDifficulty \div 2)
    BY DEF IdleCheck
  <1>3. sinceRetarget' \in 0 .. RetargetTime
    BY VarDiffAssumption DEF IdleCheck
  <1> QED BY <1>1, <1>2, <1>3, ApplyKeepsWindow
          DEF IdleCheck, chunkVars, shareVars, GraceInv, TypeOK

\* A tick ages the superseded difficulty and the window alike.
LEMMA TickKeeps ==
    ASSUME GraceInv, Tick
    PROVE  GraceInv'
  <1>1. graceLeft' \in 0 .. Grace
    BY VarDiffAssumption DEF Tick, GraceInv, TypeOK
  <1>2. sinceRetarget' \in 0 .. RetargetTime /\ sinceShare' \in 0 .. IdleTime
    BY VarDiffAssumption DEF Tick, GraceInv, TypeOK, Smaller
  <1>3. superseded' \in [Diffs -> 0 .. Grace]
    BY VarDiffAssumption DEF Tick, GraceInv, TypeOK, Smaller
  <1>4. WindowInStep'
    <2> SUFFICES ASSUME graceLeft' > 0
                 PROVE  /\ previous' \in Diffs /\ previous' < currentDifficulty'
                        /\ superseded'[previous'] + graceLeft' <= Grace
      BY DEF WindowInStep
    <2>1. graceLeft \in Nat /\ graceLeft > 0 /\ graceLeft' = graceLeft - 1
      BY VarDiffAssumption DEF Tick, GraceInv, TypeOK
    <2>2. previous \in Diffs /\ previous < currentDifficulty
          /\ superseded[previous] + graceLeft <= Grace
      BY <2>1 DEF GraceInv, WindowInStep
    <2>3. superseded[previous] \in Nat
      BY <2>2 DEF GraceInv, TypeOK
    <2>4. superseded'[previous] <= superseded[previous] + 1 /\ superseded'[previous] \in Nat
      BY <2>2, <2>3, VarDiffAssumption DEF Tick, Smaller
    <2>5. previous' = previous /\ currentDifficulty' = currentDifficulty
      BY DEF Tick
    <2> QED BY <2>1, <2>2, <2>3, <2>4, <2>5, VarDiffAssumption
  <1>5. suggested' \in 0 .. Grace
    BY VarDiffAssumption DEF Tick, GraceInv, TypeOK, Smaller
  <1> QED BY <1>1, <1>2, <1>3, <1>4, <1>5 DEF Tick, chunkVars, GraceInv, TypeOK

LEMMA GraceStepInv == GraceInv /\ [Next]_vars => GraceInv'
  <1> SUFFICES ASSUME GraceInv, [Next]_vars PROVE GraceInv'
    OBVIOUS
  <1>1. ASSUME NEW t \in 1 .. MaxShare, ValidateShare(t) PROVE GraceInv'
    BY <1>1, ValidateKeeps
  <1>2. CASE CreditShare
    BY <1>2, CreditKeeps
  <1>3. ASSUME NEW d \in 1 .. MaxDifficulty + 1, Suggest(d) PROVE GraceInv'
    BY <1>3, SuggestKeeps, VarDiffAssumption
  <1>4. CASE IdleCheck
    BY <1>4, IdleCheckKeeps
  <1>5. CASE Tick
    BY <1>5, TickKeeps
  <1>6. CASE Stall
    <2>1. UNCHANGED <<currentDifficulty, graceVars, superseded>>
      BY <1>6 DEF Stall
    <2> QED BY <1>6, <2>1, WindowUnmoved
            DEF Stall, GraceInv, TypeOK, chunkVars, shareVars
  <1>7. CASE UNCHANGED vars
    <2>1. UNCHANGED <<currentDifficulty, graceVars, superseded>>
      BY <1>7 DEF vars
    <2> QED BY <1>7, <2>1, WindowUnmoved
            DEF vars, GraceInv, TypeOK, chunkVars, shareVars
  <1> QED BY <1>1, <1>2, <1>3, <1>4, <1>5, <1>6, <1>7 DEF Next

LEMMA GraceAlways == Spec => []GraceInv
  BY GraceInitInv, GraceStepInv, PTL DEF Spec

\* Every variable has its type, for any limits and any shares.
THEOREM TypeCorrect == Spec => []TypeOK
  <1>1. GraceInv => TypeOK
    BY DEF GraceInv
  <1> QED BY <1>1, GraceAlways, PTL

\* While previousShareTarget is honoured it is a target that was in force within
\* the last 30 s, and it admits shares down to that difficulty and none easier
\* (applyDifficulty, validateShare).
THEOREM GraceOnlyForSuperseded == Spec => []GraceIsForSuperseded
  <1>1. GraceInv => GraceIsForSuperseded
    <2> SUFFICES ASSUME GraceInv, graceLeft > 0
                 PROVE  /\ previous # 0 /\ previous < currentDifficulty
                        /\ superseded[previous] < Grace
                        /\ \A t \in Diffs : Passes(t) <=> t >= previous
      BY DEF GraceIsForSuperseded
    <2>1. /\ previous \in Diffs /\ previous < currentDifficulty
          /\ superseded[previous] + graceLeft <= Grace
      BY DEF GraceInv, WindowInStep
    <2>2. /\ superseded[previous] \in Nat /\ graceLeft \in Nat
          /\ currentDifficulty \in Nat
      BY <2>1, VarDiffAssumption DEF GraceInv, TypeOK, Diffs
    <2>3. previous # 0 /\ superseded[previous] < Grace
      BY <2>1, <2>2, VarDiffAssumption DEF Diffs
    <2>4. \A t \in Diffs : Passes(t) <=> t >= previous
      BY <2>1, <2>2, VarDiffAssumption
         DEF Passes, MeetsShareTarget, MeetsGraceTarget, Diffs
    <2> QED BY <2>1, <2>3, <2>4
  <1> QED BY <1>1, GraceAlways, PTL

-----------------------------------------------------------------------------
\* Why a difficulty that was in force within the grace time still passes: it is
\* older than the last suggestion, or else the last retarget superseded it, and
\* either lowered the difficulty or opened the window for it.
SpacedOut ==
    RetargetTime >= Grace =>
        \A d \in Diffs :
            \/ superseded[d] >= Grace
            \/ suggested <= superseded[d]
            \/ /\ sinceRetarget = superseded[d]
               /\ \/ d >= currentDifficulty
                  \/ previous = d /\ graceLeft + superseded[d] = Grace

\* A change by VarDiff itself, when the last one is longer ago than a window.
LEMMA RetargetSpaced ==
    ASSUME GraceInv, SpacedOut, NEW new \in Nat, ApplyDifficulty(new),
           sinceRetarget >= RetargetTime, sinceRetarget' = 0, suggested' = suggested
    PROVE  SpacedOut'
  <1> SUFFICES ASSUME RetargetTime >= Grace, NEW d \in Diffs
               PROVE  \/ superseded'[d] >= Grace
                      \/ suggested' <= superseded'[d]
                      \/ /\ sinceRetarget' = superseded'[d]
                         /\ \/ d >= currentDifficulty'
                            \/ previous' = d /\ graceLeft' + superseded'[d] = Grace
    BY DEF SpacedOut
  <1>1. /\ superseded \in [Diffs -> 0 .. Grace] /\ Grace \in Nat /\ RetargetTime \in Nat
        /\ sinceRetarget \in Nat /\ currentDifficulty \in Diffs /\ Diffs \subseteq Nat
    BY VarDiffAssumption DEF GraceInv, TypeOK, Diffs
  <1>2. CASE superseded'[d] = superseded[d]
    <2>1. superseded[d] >= Grace \/ suggested <= superseded[d] \/ sinceRetarget = superseded[d]
      BY DEF SpacedOut
    <2>2. sinceRetarget = superseded[d] => superseded[d] >= Grace
      BY <1>1
    <2> QED BY <1>2, <2>1, <2>2
  <1>3. CASE superseded'[d] # superseded[d]
    <2> DEFINE c == ClampDifficulty(new)
    <2>1. c \in Diffs
      BY ClampInRange
    <2>2. /\ KeepGrace(c) /\ currentDifficulty' = c
          /\ superseded' = IF c = currentDifficulty THEN superseded
                           ELSE [superseded EXCEPT ![currentDifficulty] = 0]
      BY DEF ApplyDifficulty
    <2> HIDE DEF c
    <2>3. c # currentDifficulty /\ d = currentDifficulty /\ superseded'[d] = 0
      BY <1>1, <1>3, <2>2
    <2>4. CASE c > currentDifficulty
      <3>1. previous' = d /\ graceLeft' = Grace
        BY <2>2, <2>3, <2>4 DEF KeepGrace
      <3> QED BY <1>1, <2>3, <3>1
    <2>5. CASE ~(c > currentDifficulty)
      BY <1>1, <2>1, <2>2, <2>3, <2>5
    <2> QED BY <2>4, <2>5
  <1> QED BY <1>2, <1>3

LEMMA UnmovedSpaced ==
    ASSUME SpacedOut,
           UNCHANGED <<currentDifficulty, graceVars, superseded, sinceRetarget, suggested>>
    PROVE  SpacedOut'
  BY DEF SpacedOut, graceVars

LEMMA CreditSpaced ==
    ASSUME GraceInv, SpacedOut, CreditShare
    PROVE  SpacedOut'
  <1>1. Retarget /\ suggested' = suggested
    BY DEF CreditShare
  <1>2. CASE ~RetargetDue
    BY <1>1, <1>2, UnmovedSpaced DEF Retarget
  <1>3. CASE RetargetDue
    <2>1. sinceRetarget >= RetargetTime /\ sinceRetarget' = 0
      BY <1>1, <1>3 DEF Retarget, RetargetDue
    <2>2. CASE UNCHANGED <<currentDifficulty, graceVars, superseded>>
      <3> SUFFICES ASSUME RetargetTime >= Grace, NEW d \in Diffs
                   PROVE  superseded'[d] >= Grace \/ suggested' <= superseded'[d]
        BY DEF SpacedOut
      <3>1. superseded[d] >= Grace \/ suggested <= superseded[d] \/ sinceRetarget = superseded[d]
        BY DEF SpacedOut
      <3>2. sinceRetarget \in Nat /\ RetargetTime \in Nat /\ Grace \in Nat
        BY VarDiffAssumption DEF GraceInv, TypeOK
      <3> QED BY <1>1, <2>1, <2>2, <3>1, <3>2
    <2>3. CASE \E n \in Proposals : ApplyDifficulty(n)
      <3>1. \A n \in Proposals : n \in Nat
        BY VarDiffAssumption DEF Proposals, Diffs
      <3> QED BY <1>1, <2>1, <2>3, <3>1, RetargetSpaced
    <2> QED BY <1>1, <1>3, <2>2, <2>3 DEF Retarget
  <1> QED BY <1>2, <1>3

\* All clocks advance together; the ones that have reached their end matter no more.
LEMMA TickSpaced ==
    ASSUME GraceInv, SpacedOut, Tick
    PROVE  SpacedOut'
  <1> SUFFICES ASSUME RetargetTime >= Grace, NEW d \in Diffs, superseded'[d] < Grace
               PROVE  \/ suggested' <= superseded'[d]
                      \/ /\ sinceRetarget' = superseded'[d]
                         /\ \/ d >= currentDifficulty'
                            \/ previous' = d /\ graceLeft' + superseded'[d] = Grace
    <2>1. \A e \in Diffs : superseded'[e] \in Nat /\ Grace \in Nat
      BY VarDiffAssumption, TickKeeps DEF GraceInv, TypeOK
    <2> QED BY <2>1 DEF SpacedOut
  <1>1. /\ superseded[d] \in Nat /\ Grace \in Nat /\ RetargetTime \in Nat
        /\ sinceRetarget \in Nat /\ suggested \in Nat /\ graceLeft \in Nat
    BY VarDiffAssumption DEF GraceInv, TypeOK
  <1>2. superseded'[d] = Smaller(superseded[d] + 1, Grace)
    BY DEF Tick
  <1>3. superseded'[d] = superseded[d] + 1 /\ superseded[d] + 1 < Grace
    BY <1>1, <1>2 DEF Smaller
  <1>4. CASE suggested <= superseded[d]
    <2>1. suggested' = Smaller(suggested + 1, Grace)
      BY DEF Tick
    <2> QED BY <1>1, <1>3, <1>4, <2>1 DEF Smaller
  <1>5. CASE ~(suggested <= superseded[d])
    <2>1. /\ sinceRetarget = superseded[d]
          /\ d >= currentDifficulty \/ (previous = d /\ graceLeft + superseded[d] = Grace)
      BY <1>1, <1>3, <1>5 DEF SpacedOut
    <2>2. sinceRetarget' = superseded'[d]
      BY <1>1, <1>3, <2>1 DEF Tick, Smaller
    <2>3. graceLeft + superseded[d] = Grace => graceLeft' + superseded'[d] = Grace
      BY <1>1, <1>3 DEF Tick
    <2> QED BY <2>1, <2>2, <2>3 DEF Tick
  <1> QED BY <1>4, <1>5

LEMMA SpacedStep == GraceInv /\ SpacedOut /\ [Next]_vars => SpacedOut'
  <1> SUFFICES ASSUME GraceInv, SpacedOut, [Next]_vars PROVE SpacedOut'
    OBVIOUS
  <1>1. ASSUME NEW t \in 1 .. MaxShare, ValidateShare(t) PROVE SpacedOut'
    BY <1>1, UnmovedSpaced DEF ValidateShare
  <1>2. CASE CreditShare
    BY <1>2, CreditSpaced
  <1>3. ASSUME NEW new \in 1 .. MaxDifficulty + 1, Suggest(new) PROVE SpacedOut'
    <2>1. suggested' = 0
      BY <1>3 DEF Suggest
    <2>2. \A d \in Diffs : superseded'[d] \in Nat
      <3>1. GraceInv'
        BY <1>3, SuggestKeeps, VarDiffAssumption
      <3> QED BY <3>1, VarDiffAssumption DEF GraceInv, TypeOK
    <2> QED BY <2>1, <2>2 DEF SpacedOut
  <1>4. CASE IdleCheck
    <2>1. currentDifficulty \div 2 \in Nat
      BY VarDiffAssumption DEF GraceInv, TypeOK, Diffs
    <2> QED BY <1>4, <2>1, RetargetSpaced DEF IdleCheck, IdleCheckDue
  <1>5. CASE Tick
    BY <1>5, TickSpaced
  <1>6. CASE Stall
    BY <1>6, UnmovedSpaced DEF Stall
  <1>7. CASE UNCHANGED vars
    BY <1>7, UnmovedSpaced DEF vars
  <1> QED BY <1>1, <1>2, <1>3, <1>4, <1>5, <1>6, <1>7 DEF Next

\* If retargets are at least the grace time apart, no difficulty in force within
\* that time is rejected unless the miner suggested one meanwhile: retargets and
\* idle checks never drop a window that is still needed (applyDifficulty's comment
\* holds of all that VarDiff does itself).
THEOREM VarDiffRejectsNothingItself == Spec => []RejectsOnlyAfterSuggestion
  <1>1. Init => SpacedOut
    BY VarDiffAssumption DEF Init, SpacedOut
  <1>2. GraceInv /\ SpacedOut => RejectsOnlyAfterSuggestion
    <2> SUFFICES ASSUME GraceInv, SpacedOut, RetargetTime >= Grace, suggested >= Grace,
                        NEW d \in Diffs, superseded[d] < Grace
                 PROVE  Passes(d)
      BY DEF RejectsOnlyAfterSuggestion
    <2>1. /\ superseded[d] \in Nat /\ Grace \in Nat /\ suggested \in Nat /\ graceLeft \in Nat
      BY VarDiffAssumption DEF GraceInv, TypeOK
    <2>2. d >= currentDifficulty \/ (previous = d /\ graceLeft + superseded[d] = Grace)
      BY <2>1 DEF SpacedOut
    <2>3. CASE d >= currentDifficulty
      BY <2>3 DEF Passes, MeetsShareTarget
    <2>4. CASE previous = d /\ graceLeft + superseded[d] = Grace
      <3>1. graceLeft > 0 /\ previous < currentDifficulty
        BY <2>1, <2>4 DEF GraceInv, WindowInStep
      <3>2. d >= previous
        BY <2>4, VarDiffAssumption DEF Diffs
      <3> QED BY <3>1, <3>2 DEF Passes, MeetsGraceTarget
    <2> QED BY <2>2, <2>3, <2>4
  <1> QED BY <1>1, <1>2, GraceAlways, SpacedStep, PTL DEF Spec

-----------------------------------------------------------------------------
\* How far a miner's best difficulty can be off: a share is held to at least
\* MinDifficulty and multiplied by at most MaxDifficulty.
BestIsBounded == best * MinDifficulty <= hardest * MaxDifficulty

LEMMA TimesMonotone ==
    ASSUME NEW a \in Nat, NEW b \in Nat, NEW c \in Nat, b <= c
    PROVE  a * b <= a * c
  <1>1. PICK k \in Nat : c = b + k
    <2>1. c - b \in Nat /\ c = b + (c - b)
      OBVIOUS
    <2> QED BY <2>1
  <1>2. a * c = a * b + a * k /\ a * k \in Nat /\ a * b \in Nat
    BY <1>1
  <1> QED BY ONLY <1>2

LEMMA QuotientTimes ==
    ASSUME NEW n \in Nat, NEW d \in Nat \ {0}
    PROVE  (n \div d) \in Nat /\ d * (n \div d) <= n
  OBVIOUS

LEMMA CreditBounded ==
    ASSUME GraceInv, BestIsBounded, CreditShare
    PROVE  BestIsBounded'
  <1> DEFINE s == Head(validated)
             q == ShareDifficulty(s)
  <1>1. s.meets \in 1 .. MaxShare /\ s.held \in Diffs
    <2> DEFINE Shares == [meets : 1 .. MaxShare, held : Diffs]
    <2>1. validated # <<>> /\ validated \in Seq(Shares)
      BY DEF GraceInv, TypeOK, CreditShare
    <2>2. s \in Shares
      <3> HIDE DEF Shares
      <3> QED BY <2>1
    <2> HIDE DEF s
    <2> QED BY ONLY <2>2
  <1>2. best' = Larger(best, q) /\ hardest' = Larger(hardest, s.meets)
    BY DEF CreditShare
  <1>3. q = (currentDifficulty * s.meets) \div s.held
    BY DEF ShareDifficulty
  <1>4. /\ currentDifficulty \in Nat /\ currentDifficulty <= MaxDifficulty
        /\ s.held \in Nat \ {0} /\ MinDifficulty <= s.held
        /\ MinDifficulty \in Nat /\ MaxDifficulty \in Nat
        /\ s.meets \in Nat /\ best \in Nat /\ hardest \in Nat
    <2>1. currentDifficulty \in Diffs /\ best \in Nat /\ hardest \in 0 .. MaxShare
      BY DEF GraceInv, TypeOK
    <2> HIDE DEF s
    <2> QED BY ONLY <1>1, <2>1, VarDiffAssumption DEF Diffs
  <1> HIDE DEF s, q
  <1>5. currentDifficulty * s.meets \in Nat
    BY <1>4
  <1>6. q \in Nat /\ s.held * q <= currentDifficulty * s.meets
    BY <1>3, <1>4, <1>5, QuotientTimes
  <1>7. q * MinDifficulty <= q * s.held
    BY <1>4, <1>6, TimesMonotone
  <1>8. s.meets * currentDifficulty <= s.meets * MaxDifficulty
    BY <1>4, TimesMonotone
  <1>9. q * MinDifficulty <= s.meets * MaxDifficulty
    <2>1. q * s.held = s.held * q /\ currentDifficulty * s.meets = s.meets * currentDifficulty
      BY <1>4, <1>6
    <2>2. /\ q * MinDifficulty \in Nat /\ s.held * q \in Nat
          /\ s.meets * currentDifficulty \in Nat /\ s.meets * MaxDifficulty \in Nat
      BY <1>4, <1>6
    <2> QED BY ONLY <1>6, <1>7, <1>8, <2>1, <2>2
  <1>10. hardest' \in Nat /\ hardest <= hardest' /\ s.meets <= hardest'
    BY <1>2, <1>4 DEF Larger
  <1>11. /\ MaxDifficulty * hardest <= MaxDifficulty * hardest'
         /\ MaxDifficulty * s.meets <= MaxDifficulty * hardest'
    BY <1>4, <1>10, TimesMonotone
  <1>12. best' = best \/ best' = q
    BY <1>2 DEF Larger
  <1>13. /\ MaxDifficulty * hardest = hardest * MaxDifficulty
         /\ MaxDifficulty * hardest' = hardest' * MaxDifficulty
         /\ MaxDifficulty * s.meets = s.meets * MaxDifficulty
    BY <1>4, <1>10
  <1>14. /\ best * MinDifficulty \in Nat /\ q * MinDifficulty \in Nat
         /\ hardest * MaxDifficulty \in Nat /\ hardest' * MaxDifficulty \in Nat
         /\ s.meets * MaxDifficulty \in Nat
    <2>1. \A a, b \in Nat : a * b \in Nat
      OBVIOUS
    <2> QED BY ONLY <1>4, <1>6, <1>10, <2>1
  <1>15. best * MinDifficulty <= hardest * MaxDifficulty
    BY DEF BestIsBounded
  <1>16. CASE best' = best
    <2>1. best * MinDifficulty <= hardest' * MaxDifficulty
      BY ONLY <1>11, <1>13, <1>14, <1>15
    <2> QED BY <1>16, <2>1 DEF BestIsBounded
  <1>17. CASE best' = q
    <2>1. q * MinDifficulty <= hardest' * MaxDifficulty
      BY ONLY <1>9, <1>11, <1>13, <1>14
    <2> QED BY <1>17, <2>1 DEF BestIsBounded
  <1> QED BY <1>12, <1>16, <1>17

LEMMA BoundedStep == GraceInv /\ BestIsBounded /\ [Next]_vars => BestIsBounded'
  <1> SUFFICES ASSUME GraceInv, BestIsBounded, [Next]_vars PROVE BestIsBounded'
    OBVIOUS
  <1>1. CASE CreditShare
    BY <1>1, CreditBounded
  <1>2. ASSUME UNCHANGED <<best, hardest>> PROVE BestIsBounded'
    BY <1>2 DEF BestIsBounded
  <1>3. CASE ~CreditShare
    <2>1. UNCHANGED <<best, hardest>>
      BY <1>3 DEF Next, ValidateShare, Suggest, IdleCheck, Tick, Stall, vars, shareVars
    <2> QED BY <1>2, <2>1
  <1> QED BY <1>1, <1>3

\* A miner's best difficulty can be above that of its hardest share (finding of
\* the run vardiff_best), but by no more than the ratio of the two limits,
\* however the difficulty moves between a share's check and its credit.
THEOREM BestWithinLimits == Spec => []BestIsBounded
  <1>1. Init => BestIsBounded
    BY VarDiffAssumption DEF Init, BestIsBounded
  <1> QED BY <1>1, GraceAlways, BoundedStep, PTL DEF Spec
=============================================================================
