--------------------------- MODULE ShareCheckProofs ---------------------------
(***************************************************************************)
(* Theorems of ShareCheck.  All of them rest on ShareInv (while a          *)
(* submission is checked the candidates are those made of it) and on       *)
(* UnpackInv (expandArray has kept every bit it has read).                 *)
(*                                                                         *)
(* ShareTypes             the type invariant                               *)
(* UnpackingLosesNothing  the indices come out of the bytes as packed      *)
(* RunsBounded            a submission costs a bounded number of runs of   *)
(*                        the verifier                                     *)
(* ConventionsUnderstood  a share that is not ambiguous is accepted        *)
(* BlocksAreSolved        a block is read by the node as what was solved   *)
(*                                                                         *)
(* The second and the fourth are about the parameters of the code, 21 bits *)
(* an index and one byte of padding, with any number of indices; the fifth *)
(* takes a solution no longer than the node reads.                         *)
(***************************************************************************)
EXTENDS ShareCheck, ShareEncodingProofs

------------------------------------------------------------------------------
\* Solutions and packed indices.

\* A bit of the packed solution is a bit.
LEMMA BitIsBit ==
    ASSUME NEW indices, IsIndices(indices), NEW b \in Nat, b < NumIndices * BitLen
    PROVE  BitOf(indices, b) \in 0 .. 1
<1>1. PICK w \in Positive, n \in Nat : w = BitLen /\ n = NumIndices /\ w \in 8 .. 25
  BY SMT, ExpandAssumption DEF Positive
<1>2. PICK q \in Nat, r \in Nat : Splits(b, w, q, r) /\ q = b \div w /\ r = b % w
  BY Zenon, DivSplit
<1>3. q < n
  <2>1. b = w * q + r
    BY Zenon, <1>2 DEF Splits
  <2>2. b < w * n
    BY SMT, <1>1 DEF Positive
  <2>3. \A y, z \in Nat : y <= z => w * y <= w * z
    BY SMT DEF Positive
  <2>4. n <= q => w * n <= w * q
    BY Zenon, <2>3
  <2>5. PICK u \in Nat, v \in Nat : u = w * n /\ v = w * q
    BY SMT DEF Positive
  <2> QED BY SMT, <2>1, <2>2, <2>4, <2>5
<1>4. PICK i \in Nat : i = indices[q + 1]
  <2>1. q + 1 \in 1 .. NumIndices
    BY SMT, <1>1, <1>3
  <2>2. indices[q + 1] \in 0 .. 2 ^ BitLen - 1
    BY Zenon, <2>1, ElementOfSeq DEF IsIndices
  <2>3. 0 .. 2 ^ BitLen - 1 \subseteq Nat
    BY SMT
  <2> QED BY Zenon, <2>2, <2>3
<1>5. PICK p \in Positive : p = Pow2((BitLen - 1) - r)
  <2>1. r < w
    BY Zenon, <1>2 DEF Splits
  <2>2. (BitLen - 1) - r \in 0 .. 31
    BY SMT, <1>1, <2>1
  <2> QED BY Zenon, <2>2, Doubles
<1>6. PICK m \in Nat : m = i \div p
  BY Zenon, DivSplit
<1>7. BitOf(indices, b) = m % 2
  BY Zenon, <1>1, <1>2, <1>4, <1>5, <1>6 DEF BitOf, Pow2
<1> QED BY SMT, <1>7

\* A packed list of indices is a sequence of SolutionLen bytes.
LEMMA PackedIsBytes ==
    ASSUME NEW indices, IsIndices(indices)
    PROVE  Packed(indices) \in Seq(Bytes) /\ Len(Packed(indices)) = SolutionLen
<1>0. SolutionLen \in Nat
  BY SizesAre
<1>1. ASSUME NEW i \in 1 .. SolutionLen, NEW k \in 0 .. 7
      PROVE  BitOf(indices, 8 * (i - 1) + k) \in 0 .. 1
  <2>1. 8 * (i - 1) + k \in Nat /\ 8 * (i - 1) + k < 8 * SolutionLen
    BY SMT, <1>0
  <2>2. PICK t \in Nat : t = NumIndices * BitLen
    BY SMT, ExpandAssumption
  <2>3. 8 * SolutionLen = t
    BY SMT, <2>2, ExpandAssumption DEF SolutionLen
  <2> QED BY Zenon, <2>1, <2>2, <2>3, BitIsBit
<1>2. ASSUME NEW i \in 1 .. SolutionLen
      PROVE  Packed(indices)[i] \in Bytes
  <2>. DEFINE bit(k) == BitOf(indices, 8 * (i - 1) + k)
  <2>1. Packed(indices)[i] = 128 * bit(0) + 64 * bit(1) + 32 * bit(2) + 16 * bit(3)
             + 8 * bit(4) + 4 * bit(5) + 2 * bit(6) + bit(7)
    BY Zenon DEF Packed, IsIndices, SolutionLen
  <2>2. /\ bit(0) \in 0 .. 1 /\ bit(1) \in 0 .. 1 /\ bit(2) \in 0 .. 1 /\ bit(3) \in 0 .. 1
        /\ bit(4) \in 0 .. 1 /\ bit(5) \in 0 .. 1 /\ bit(6) \in 0 .. 1 /\ bit(7) \in 0 .. 1
    <3>1. /\ 0 \in 0 .. 7 /\ 1 \in 0 .. 7 /\ 2 \in 0 .. 7 /\ 3 \in 0 .. 7
          /\ 4 \in 0 .. 7 /\ 5 \in 0 .. 7 /\ 6 \in 0 .. 7 /\ 7 \in 0 .. 7
      BY SMT
    <3> QED BY Zenon, <1>1, <3>1
  <2>. HIDE DEF bit
  <2> QED BY SMT, <2>1, <2>2 DEF Bytes
<1>3. PICK p : p = Packed(indices)
  OBVIOUS
<1>4. p \in [1 .. SolutionLen -> Bytes]
  BY Zenon, <1>2, <1>3 DEF Packed, IsIndices, SolutionLen
<1>5. p \in Seq(Bytes) /\ Len(p) = SolutionLen
  BY <1>0, <1>4
<1> QED BY Zenon, <1>3, <1>5

\* A solution without its size, whichever way it was written.
Body(s) == IF IsSized(s) THEN AfterSize(s) ELSE s

\* A compact size takes one to nine bytes.
LEMMA WidthSmall ==
    ASSUME NEW s \in Seq(Bytes), Len(s) >= 1
    PROVE  SizeWidth(s[1]) \in 1 .. 9
<1>1. s[1] \in 0 .. 255
  <2>1. 1 \in 1 .. Len(s)
    BY SMT
  <2> QED BY Zenon, <2>1, ElementOfSeq DEF Bytes
<1> QED BY SMT, <1>1 DEF SizeWidth

\* What is left of a string of bytes behind its size.
LEMMA AfterSizeIs ==
    ASSUME NEW s \in Seq(Bytes), Len(s) >= 1
    PROVE  AfterSize(s) \in Seq(Bytes)
           /\ Len(AfterSize(s)) = IF SizeWidth(s[1]) <= Len(s) THEN Len(s) - SizeWidth(s[1]) ELSE 0
<1>1. PICK w \in 1 .. 9 : w = SizeWidth(s[1])
  BY Zenon, WidthSmall
<1>2. w + 1 \in Nat \ {0} /\ Len(s) \in Nat /\ w + 1 \in Int
  BY SMT
<1>3. SubSeq(s, w + 1, Len(s)) \in Seq(Bytes)
      /\ Len(SubSeq(s, w + 1, Len(s))) = IF w <= Len(s) THEN Len(s) - w ELSE 0
  BY <1>2, SubSeqProperties
<1> QED BY Zenon, <1>1, <1>3 DEF AfterSize

\* All solution fields of a submission carry the same solution.
LEMMA SolutionIs ==
    ASSUME NEW s \in Seq(Bytes)
    PROVE  RawSolutions(SolutionFields(s)) = {Body(s)} /\ Body(s) \in Seq(Bytes)
<1>0. Bytes \subseteq Nat
  BY SMT DEF Bytes
<1>1. Seq(Bytes) \subseteq Seq(Nat)
  BY <1>0, SeqMonotonic
<1>2. CASE ~IsSized(s)
  <2>1. RawSolutions(SolutionFields(s)) = {s}
    BY Zenon, <1>1, <1>2, SolutionRecovered
  <2> QED BY Zenon, <1>2, <2>1 DEF Body
<1>3. CASE IsSized(s)
  <2>1. PICK raw : raw = AfterSize(s) /\ raw \in Seq(Bytes)
    <3>1. Len(s) >= 1
      BY <1>3 DEF IsSized, HasSize
    <3> QED BY Zenon, <3>1, AfterSizeIs
  <2>2. IsSized(Sized(raw)) /\ AfterSize(Sized(raw)) = raw
    BY Zenon, <1>1, <2>1, SizedReadsBack
  <2>3. SolutionFields(s) = {s, Sized(raw)}
    BY Zenon, <1>3, <2>1 DEF SolutionFields
  <2>4. RawSolutions(SolutionFields(s)) = {raw}
    BY Zenon, <1>3, <2>1, <2>2, <2>3 DEF RawSolutions
  <2> QED BY Zenon, <1>3, <2>1, <2>4 DEF Body
<1> QED BY Zenon, <1>2, <1>3

------------------------------------------------------------------------------
\* The invariant, and what unpacking keeps.

\* What a miner sends as its solution is the packed indices, unless it is raw and
\* happens to start with its own length; then it is too short to be well sized.
LEMMA SubmissionShape ==
    ASSUME NEW s \in Submissions
    PROVE  /\ IsIndices(s.solved.indices)
           /\ s.solution \in Seq(Nat)
           /\ Body(s.solution) \in Seq(Bytes)
           /\ RawSolutions(SolutionFields(s.solution)) = {Body(s.solution)}
           /\ ~s.raw => Body(s.solution) = Packed(s.solved.indices)
           /\ s.raw /\ ~IsSized(s.solution) => Body(s.solution) = Packed(s.solved.indices)
           /\ s.raw /\ IsSized(s.solution) => Len(Body(s.solution)) < SolutionLen
<1>1. IsIndices(s.solved.indices)
      /\ s.solution = IF s.raw THEN Packed(s.solved.indices) ELSE Sized(Packed(s.solved.indices))
  BY Zenon, SubmissionAssumption DEF SolutionSent, IsIndices
<1>2. PICK p \in Seq(Bytes) : p = Packed(s.solved.indices) /\ Len(p) = SolutionLen
  BY Zenon, <1>1, PackedIsBytes
<1>3. Seq(Bytes) \subseteq Seq(Nat)
  <2>1. Bytes \subseteq Nat
    BY DEF Bytes
  <2> QED BY <2>1, SeqMonotonic
<1>4. CASE s.raw
  <2>1. s.solution = p
    BY Zenon, <1>1, <1>2, <1>4
  <2>2. RawSolutions(SolutionFields(p)) = {Body(p)} /\ Body(p) \in Seq(Bytes)
    BY Zenon, SolutionIs
  <2>3. ~IsSized(p) => Body(p) = p
    BY Zenon DEF Body
  <2>4. ASSUME IsSized(p) PROVE Len(Body(p)) < SolutionLen
    <3>1. Len(p) >= 1
      BY <2>4 DEF IsSized, HasSize
    <3>2. PICK w \in 1 .. 9 : w = SizeWidth(p[1])
      BY Zenon, <3>1, WidthSmall
    <3>3. Len(AfterSize(p)) = IF w <= Len(p) THEN Len(p) - w ELSE 0
      BY Zenon, <3>1, <3>2, AfterSizeIs
    <3>4. Body(p) = AfterSize(p)
      BY Zenon, <2>4 DEF Body
    <3> QED BY SMT, <1>2, <3>1, <3>3, <3>4
  <2> QED BY Zenon, <1>1, <1>2, <1>3, <1>4, <2>1, <2>2, <2>3, <2>4
<1>5. CASE ~s.raw
  <2>1. s.solution = Sized(p)
    BY Zenon, <1>1, <1>2, <1>5
  <2>2. RawSolutions(SolutionFields(Sized(p))) = {p} /\ IsSized(Sized(p)) /\ AfterSize(Sized(p)) = p
    BY Zenon, <1>3, SolutionRecovered, SizedReadsBack
  <2>3. Body(Sized(p)) = p
    BY Zenon, <2>2 DEF Body
  <2>4. Sized(p) \in Seq(Nat)
    <3>1. CompactSizeHex(Len(p)) \in Seq(Nat) /\ p \in Seq(Nat)
      BY <1>3, CompactSizeShape
    <3> QED BY <3>1, ConcatProperties DEF Sized
  <2> QED BY Zenon, <1>1, <1>2, <1>5, <2>1, <2>2, <2>3, <2>4
<1> QED BY Zenon, <1>4, <1>5

\* While a submission is checked, the candidates are those made of it.
ShareInv ==
    /\ sub \in Submissions
    /\ phase \in {"sent", "checking", "done"}
    /\ loop \in LoopVars
    /\ phase = "checking" => cand = CandidatesOf(Read) /\ sub.jobKnown

\* The solution that is unpacked is the one that was sent, without its size.
LEMMA SolutionOf ==
    ASSUME ShareInv, phase = "checking"
    PROVE  Solution = Body(sub.solution)
<1>1. cand.fields = SolutionFields(sub.solution)
  BY DEF ShareInv, CandidatesOf
<1>2. RawSolutions(cand.fields) = {Body(sub.solution)}
  BY Zenon, <1>1, SubmissionShape DEF ShareInv
<1> QED BY Zenon, <1>2 DEF Solution

\* expandArray's variables are in their ranges at the start.
LEMMA StartTyped == StartLoop \in LoopVars
<1>1. 0 \in 0 .. SolutionLen
  BY SMT, SizesAre
<1>2. 0 \in 0 .. BitLen - 1
  BY SMT, ExpandAssumption
<1>3. [hi |-> 0, lo |-> 0] \in Halves
  <2>1. 0 \in Half
    BY SMT DEF Half
  <2> QED BY <2>1 DEF Halves
<1>4. << >> \in Seq(0 .. 255)
  OBVIOUS
<1> QED BY <1>1, <1>2, <1>3, <1>4 DEF StartLoop, LoopVars

\* Unpacking reads the next byte of the solution and keeps the ranges.
LEMMA UnpackTyped ==
    ASSUME ShareInv, Unpack
    PROVE  /\ loop' = ExpandByte(loop, Body(sub.solution)[loop.read + 1])
           /\ loop.read < SolutionLen
           /\ loop' \in LoopVars
<1>1. PICK s \in Seq(Bytes) : s = Body(sub.solution) /\ s = Solution /\ Len(s) = SolutionLen
  BY Zenon, SolutionOf, SubmissionShape DEF ShareInv, Unpack, WellSized
<1>2. loop.read < SolutionLen /\ loop' = ExpandByte(loop, s[loop.read + 1])
  BY Zenon, <1>1 DEF Unpack
<1>3. loop.read + 1 \in 1 .. Len(s)
  BY SMT, <1>1, <1>2, SizesAre DEF ShareInv, LoopVars
<1>4. s[loop.read + 1] \in Bytes
  BY Zenon, <1>3, ElementOfSeq
<1>5. loop' \in LoopVars
  BY Zenon, <1>2, <1>4, ExpandTyped DEF ShareInv
<1> QED BY Zenon, <1>1, <1>2, <1>5

\* The candidates are those of the submission throughout the check.
LEMMA ShareInvHolds == ShareSpec => []ShareInv
<1>1. ShareInit => ShareInv
  BY StartTyped DEF ShareInit, ShareInv
<1>2. ShareInv /\ [ShareNext]_shareVars => ShareInv'
  <2>. SUFFICES ASSUME ShareInv, [ShareNext]_shareVars
                PROVE  ShareInv'
    OBVIOUS
  <2>1. ASSUME NEW error, Reject(error) PROVE ShareInv'
    BY <2>1 DEF Reject, ShareInv
  <2>2. CASE Expired
    BY <2>1, <2>2 DEF Expired
  <2>3. CASE Malformed
    BY <2>1, <2>3 DEF Malformed
  <2>4. CASE Normalize
    BY <2>4, StartTyped DEF Normalize, ShareInv, Read, CandidatesOf
  <2>5. CASE Unpack
    <3>1. loop' \in LoopVars
      BY <2>5, UnpackTyped
    <3>2. phase' = phase /\ sub' = sub /\ cand' = cand
      BY <2>5 DEF Unpack
    <3> QED BY <3>1, <3>2 DEF ShareInv, Read, CandidatesOf
  <2>6. CASE Accept
    BY <2>6 DEF Accept, ShareInv
  <2>7. CASE LowDiff
    BY <2>1, <2>7 DEF LowDiff
  <2>8. CASE Unsolved
    BY <2>1, <2>8 DEF Unsolved
  <2>9. CASE UNCHANGED shareVars
    BY <2>9 DEF shareVars, ShareInv, Read, CandidatesOf
  <2> QED BY <2>2, <2>3, <2>4, <2>5, <2>6, <2>7, <2>8, <2>9 DEF ShareNext
<1> QED BY <1>1, <1>2, PTL DEF ShareSpec

\* The type invariant: the phases of validateShare, and expandArray's variables
\* within the widths the C code gives them.
THEOREM ShareTypes == ShareSpec => []ShareTypeOK
<1>1. ShareInv => ShareTypeOK
  BY DEF ShareInv, ShareTypeOK
<1> QED BY <1>1, ShareInvHolds, PTL

\* Bits read so far, as long as the bytes are those of the solved indices.
UnpackInv ==
    phase = "checking" /\ Body(sub.solution) = Packed(sub.solved.indices)
        => Unpacked(loop, sub.solved.indices)

\* The bits that are read are kept throughout the check.
LEMMA UnpackInvHolds ==
    ASSUME BitLen = 21, BytePad = 1
    PROVE  ShareSpec => []UnpackInv
<1>1. ShareInit => UnpackInv
  BY DEF ShareInit, UnpackInv
<1>2. ShareInv /\ UnpackInv /\ [ShareNext]_shareVars => UnpackInv'
  <2>. SUFFICES ASSUME ShareInv, UnpackInv, [ShareNext]_shareVars,
                       phase' = "checking", Body(sub'.solution) = Packed(sub'.solved.indices)
                PROVE  Unpacked(loop', sub'.solved.indices)
    BY DEF UnpackInv
  <2>1. \A error : ~Reject(error)
    BY DEF Reject
  <2>2. ~Expired /\ ~Malformed /\ ~LowDiff /\ ~Unsolved /\ ~Accept
    BY <2>1 DEF Expired, Malformed, LowDiff, Unsolved, Accept
  <2>3. CASE Normalize
    <3>1. loop' = StartLoop /\ sub' = sub
      BY <2>3 DEF Normalize
    <3>2. IsIndices(sub.solved.indices)
      BY Zenon, SubmissionShape DEF ShareInv
    <3> QED BY <3>1, <3>2, StartUnpacked
  <2>4. CASE Unpack
    <3>1. PICK indices : indices = sub.solved.indices /\ IsIndices(indices)
      BY Zenon, SubmissionShape DEF ShareInv
    <3>2. sub' = sub /\ phase = "checking" /\ phase' = phase
      BY <2>4 DEF Unpack
    <3>3. Unpacked(loop, indices) /\ Body(sub.solution) = Packed(indices)
      BY Zenon, <3>1, <3>2 DEF UnpackInv
    <3>4. loop' = ExpandByte(loop, Packed(indices)[loop.read + 1]) /\ loop.read < SolutionLen
      BY Zenon, <2>4, <3>3, UnpackTyped
    <3>5. loop \in LoopVars
      BY DEF ShareInv
    <3>6. Unpacked(ExpandByte(loop, Packed(indices)[loop.read + 1]), indices)
      BY Zenon, <3>1, <3>3, <3>4, <3>5, ExpandUnpacks
    <3> QED BY Zenon, <3>1, <3>2, <3>4, <3>6
  <2>5. CASE UNCHANGED shareVars
    BY <2>5 DEF shareVars, UnpackInv
  <2> QED BY <2>2, <2>3, <2>4, <2>5 DEF ShareNext
<1> QED BY <1>1, <1>2, ShareInvHolds, PTL DEF ShareSpec

\* expandArray with the parameters of Equihash 200, 9 (21 bits, one byte of
\* padding): for every number of indices and every list of them, the loop that
\* has read all bytes has written the indices the miner packed and holds no bit.
THEOREM UnpackingLosesNothing ==
    ASSUME BitLen = 21, BytePad = 1
    PROVE  ShareSpec => []IndicesAsPacked
<1>1. ShareInv /\ UnpackInv => IndicesAsPacked
  <2>. SUFFICES ASSUME ShareInv, UnpackInv, phase = "checking", WellSized, Checked,
                       Solution = Packed(sub.solved.indices)
                PROVE  IndicesIn(loop.out) = sub.solved.indices /\ loop.accBits = 0
    BY DEF IndicesAsPacked
  <2>1. PICK indices : indices = sub.solved.indices /\ IsIndices(indices)
    BY Zenon, SubmissionShape DEF ShareInv
  <2>2. Unpacked(loop, indices)
    BY Zenon, <2>1, SolutionOf DEF UnpackInv
  <2>3. loop \in LoopVars /\ loop.read = SolutionLen
    BY Zenon DEF ShareInv, Checked
  <2> QED BY Zenon, <2>1, <2>2, <2>3, AllUnpacked
<1> QED BY <1>1, ShareInvHolds, UnpackInvHolds, PTL

------------------------------------------------------------------------------
\* How many times the verifier runs.

\* S is finite and has no more than n members.
AtMost(n, S) == IsFiniteSet(S) /\ Cardinality(S) \in Nat /\ Cardinality(S) <= n

\* One member.
LEMMA AtMostOne == \A a : AtMost(1, {a})
<1> TAKE a
<1>1. IsFiniteSet({a}) /\ Cardinality({a}) = 1
  BY FS_Singleton
<1> QED BY SMT, <1>1 DEF AtMost

\* A bound may be raised.
LEMMA AtMostMore ==
    ASSUME NEW m \in Nat, NEW n \in Nat, m <= n, NEW S, AtMost(m, S)
    PROVE  AtMost(n, S)
BY SMT DEF AtMost

\* The bounds of a union add up.
LEMMA AtMostUnion ==
    ASSUME NEW m \in Nat, NEW n \in Nat, NEW S, NEW T, AtMost(m, S), AtMost(n, T)
    PROVE  AtMost(m + n, S \cup T)
<1>1. IsFiniteSet(S) /\ IsFiniteSet(T)
  BY DEF AtMost
<1>2. /\ IsFiniteSet(S \cup T) /\ Cardinality(S \cup T) \in Nat
      /\ Cardinality(S \cup T) = Cardinality(S) + Cardinality(T) - Cardinality(S \cap T)
      /\ Cardinality(S \cap T) \in Nat
  <2>1. IsFiniteSet(S \cap T)
    BY <1>1, FS_Subset
  <2> QED BY <1>1, <2>1, FS_Union, FS_CardinalityType
<1> QED BY SMT, <1>2 DEF AtMost

\* A pair.
LEMMA AtMostTwo == \A a, b : AtMost(2, {a, b})
<1> TAKE a, b
<1>1. AtMost(1, {a}) /\ AtMost(1, {b})
  BY AtMostOne
<1>2. AtMost(1 + 1, {a} \cup {b})
  <2>1. 1 \in Nat
    OBVIOUS
  <2> QED BY Zenon, <1>1, <2>1, AtMostUnion
<1>3. {a} \cup {b} = {a, b} /\ 1 + 1 = 2
  OBVIOUS
<1> QED BY <1>2, <1>3

\* Four members.
LEMMA AtMostFour == \A a, b, c, d : AtMost(4, {a, b, c, d})
<1> TAKE a, b, c, d
<1>1. AtMost(2, {a, b}) /\ AtMost(2, {c, d})
  BY AtMostTwo
<1>2. AtMost(2 + 2, {a, b} \cup {c, d})
  <2>1. 2 \in Nat
    OBVIOUS
  <2> QED BY Zenon, <1>1, <2>1, AtMostUnion
<1>3. {a, b} \cup {c, d} = {a, b, c, d} /\ 2 + 2 = 4
  OBVIOUS
<1> QED BY <1>2, <1>3

\* Products grow with their factors.
LEMMA ProductsGrow ==
    ASSUME NEW a \in Nat, NEW b \in Nat, NEW c \in Nat, NEW d \in Nat, a <= b, c <= d
    PROVE  a * c \in Nat /\ b * d \in Nat /\ a * c <= b * d
<1>1. \A x, y, z \in Nat : y <= z => x * y \in Nat /\ x * z \in Nat /\ x * y <= x * z
  BY SMT
<1>2. a * c \in Nat /\ a * d \in Nat /\ a * c <= a * d
  BY <1>1
<1>3. d * a \in Nat /\ d * b \in Nat /\ d * a <= d * b
  BY <1>1
<1>4. d * a = a * d /\ d * b = b * d
  BY SMT
<1> QED BY SMT, <1>2, <1>3, <1>4

\* The headers are the combinations of the candidates.
LEMMA AtMostHeaders ==
    ASSUME NEW n \in Nat, NEW t \in Nat, NEW b \in Nat,
           NEW N, NEW T, NEW B, AtMost(n, N), AtMost(t, T), AtMost(b, B)
    PROVE  AtMost(n * (t * b), [nonce : N, time : T, bits : B])
<1>. DEFINE H == [nonce : N, time : T, bits : B]
            P == N \X (T \X B)
            f == [h \in H |-> <<h.nonce, <<h.time, h.bits>>>>]
<1>1. f \in Injection(H, P)
  <2>1. \A h \in H : f[h] \in P
    OBVIOUS
  <2>2. f \in [H -> P]
    BY Zenon, <2>1
  <2>3. ASSUME NEW g \in H, NEW h \in H, f[g] = f[h] PROVE g = h
    <3>1. g.nonce = h.nonce /\ g.time = h.time /\ g.bits = h.bits
      BY <2>3
    <3> QED BY <3>1
  <2> QED BY Zenon, <2>2, <2>3 DEF Injection, IsInjective
<1>2. IsFiniteSet(N) /\ IsFiniteSet(T) /\ IsFiniteSet(B)
      /\ Cardinality(N) \in Nat /\ Cardinality(T) \in Nat /\ Cardinality(B) \in Nat
      /\ Cardinality(N) <= n /\ Cardinality(T) <= t /\ Cardinality(B) <= b
  BY DEF AtMost
<1>. HIDE DEF f, H
<1>3. IsFiniteSet(P) /\ Cardinality(P) = Cardinality(N) * (Cardinality(T) * Cardinality(B))
  <2>1. IsFiniteSet(T \X B) /\ Cardinality(T \X B) = Cardinality(T) * Cardinality(B)
    BY <1>2, FS_Product
  <2>2. /\ IsFiniteSet(N \X (T \X B))
        /\ Cardinality(N \X (T \X B)) = Cardinality(N) * Cardinality(T \X B)
    BY <1>2, <2>1, FS_Product
  <2> QED BY Zenon, <2>1, <2>2
<1>4. Cardinality(N) * (Cardinality(T) * Cardinality(B)) <= n * (t * b)
      /\ n * (t * b) \in Nat /\ Cardinality(N) * (Cardinality(T) * Cardinality(B)) \in Nat
  <2>0. Cardinality(T) * Cardinality(B) \in Nat /\ t * b \in Nat
        /\ Cardinality(T) * Cardinality(B) <= t * b
    BY <1>2, ProductsGrow
  <2>1. PICK x \in Nat, y \in Nat : x = Cardinality(T) * Cardinality(B) /\ y = t * b /\ x <= y
    BY Zenon, <2>0
  <2>2. /\ Cardinality(N) * x \in Nat /\ n * y \in Nat
        /\ Cardinality(N) * x <= n * y
    BY <1>2, <2>1, ProductsGrow
  <2> QED BY Zenon, <2>1, <2>2
<1>. HIDE DEF P
<1>5. IsFiniteSet(H) /\ Cardinality(H) <= Cardinality(P)
  BY Zenon, <1>1, <1>3, FS_Injection
<1>6. Cardinality(H) \in Nat
  BY <1>5, FS_CardinalityType
<1>7. AtMost(n * (t * b), H)
  <2>1. PICK x \in Nat, y \in Nat : x = Cardinality(P) /\ y = n * (t * b) /\ x <= y
    BY Zenon, <1>3, <1>4
  <2>2. Cardinality(H) <= y
    BY SMT, <1>5, <1>6, <2>1
  <2> QED BY Zenon, <1>5, <1>6, <2>1, <2>2 DEF AtMost
<1> QED BY <1>7 DEF H

\* extranonce1 is inserted at no more than Inserts places.
LEMMA FewInsertions ==
    ASSUME NEW h, Len(h) \in Nat, NEW extra
    PROVE  AtMost(Inserts, Insertions(h, extra))
<1>0. Inserts \in Nat
  BY EncodingAssumption
<1>. DEFINE S == {q \in 0 .. NonceDigits : q < Inserts /\ 2 * q <= Len(h)}
            T == Insertions(h, extra)
            f == [p \in S |-> InsertedAt(h, extra, 2 * p)]
<1>1. AtMost(Inserts, S)
  <2>1. S \subseteq 0 .. Inserts - 1
    BY <1>0
  <2>2. IsFiniteSet(0 .. Inserts - 1) /\ Cardinality(0 .. Inserts - 1) = Inserts
    <3>1. 0 \in Int /\ Inserts - 1 \in Int
      BY <1>0
    <3>2. /\ IsFiniteSet(0 .. Inserts - 1)
          /\ Cardinality(0 .. Inserts - 1) = IF 0 > Inserts - 1 THEN 0 ELSE Inserts - 1 - 0 + 1
      BY <3>1, FS_Interval
    <3> QED BY SMT, <1>0, <3>2
  <2>. HIDE DEF S
  <2>3. IsFiniteSet(S) /\ Cardinality(S) <= Inserts
    BY <2>1, <2>2, FS_Subset
  <2> QED BY <2>3, FS_CardinalityType DEF AtMost
<1>2. f \in Surjection(S, T)
  <2>1. T = {InsertedAt(h, extra, 2 * p) : p \in S}
    BY Zenon DEF Insertions
  <2>. HIDE DEF S, T
  <2>2. f \in [S -> T]
    BY Zenon, <2>1
  <2>3. \A t \in T : \E p \in S : f[p] = t
    BY Zenon, <2>1
  <2> QED BY Zenon, <2>2, <2>3 DEF Surjection
<1>. HIDE DEF S, T, f
<1>3. IsFiniteSet(T) /\ Cardinality(T) <= Cardinality(S)
  BY Zenon, <1>1, <1>2, FS_Surjection DEF AtMost
<1>4. Cardinality(T) \in Nat
  BY <1>3, FS_CardinalityType
<1>5. AtMost(Inserts, T)
  BY SMT, <1>0, <1>1, <1>3, <1>4 DEF AtMost
<1> QED BY <1>5 DEF T

\* The nonce candidates: the insertions and the two fills.
LEMMA FewNonces ==
    ASSUME NEW h, Len(h) \in Nat, NEW extra
    PROVE  AtMost(Inserts + 2, NonceCandidates(h, extra))
<1>0. Inserts \in Nat
  BY EncodingAssumption
<1>1. AtMost(0, {})
  BY FS_EmptySet DEF AtMost
<1>. DEFINE I == IF Len(extra) = ExtraDigits /\ Len(h) + ExtraDigits = NonceDigits
                 THEN Insertions(h, extra) ELSE {}
            F == IF Len(h) >= MinDigits THEN Filled(h) ELSE {}
<1>2. AtMost(Inserts, I)
  <2>1. AtMost(Inserts, {})
    BY <1>0, <1>1, AtMostMore
  <2> QED BY Zenon, <2>1, FewInsertions
<1>3. AtMost(2, F)
  <2>1. AtMost(2, {})
    BY <1>1, AtMostMore
  <2> QED BY Zenon, <2>1, AtMostTwo DEF Filled
<1>4. NonceCandidates(h, extra) = {} \/ NonceCandidates(h, extra) = {h}
      \/ NonceCandidates(h, extra) = I \cup F
  BY Zenon DEF NonceCandidates
<1>. HIDE DEF I, F
<1>5. AtMost(Inserts + 2, I \cup F)
  <2>1. 2 \in Nat
    OBVIOUS
  <2> QED BY Zenon, <1>0, <1>2, <1>3, <2>1, AtMostUnion
<1>6. AtMost(Inserts + 2, {}) /\ AtMost(Inserts + 2, {h})
  <2>1. Inserts + 2 \in Nat /\ 0 \in Nat /\ 1 \in Nat /\ 0 <= Inserts + 2 /\ 1 <= Inserts + 2
    BY SMT, <1>0
  <2> QED BY Zenon, <1>1, <2>1, AtMostOne, AtMostMore
<1> QED BY Zenon, <1>4, <1>5, <1>6

\* The bits are tried in two orders: the compact form is one of them.
LEMMA FewBits ==
    ASSUME NEW h \in Seq(Digits), Len(h) = 8
    PROVE  AtMost(2, CompactBitsCandidates(h))
<1>1. ReverseHex(ReverseHex(h)) = h
  BY ReverseTwice
<1>2. CompactBitsLE(h) = h \/ CompactBitsLE(h) = ReverseHex(h)
  BY Zenon DEF CompactBitsLE
<1>3. CompactBitsCandidates(h) = {h, ReverseHex(h)}
  BY <1>1, <1>2 DEF CompactBitsCandidates
<1> QED BY Zenon, <1>3, AtMostTwo

\* A solution is tried as it was sent and with the shortest size.
LEMMA FewFields == \A s : AtMost(2, SolutionFields(s))
<1> TAKE s
<1>1. \A x : AtMost(2, {x})
  BY AtMostOne, AtMostMore
<1> QED BY Zenon, <1>1, AtMostTwo DEF SolutionFields

\* The first of two positions.
LEMMA FirstOfTwo ==
    ASSUME NEW S \in SUBSET (1 .. 2), S # {}
    PROVE  FirstOf(S) = IF 1 \in S THEN 1 ELSE 2
<1>1. CASE 1 \in S
  <2>1. \A i \in S : (\A j \in S : i <= j) <=> i = 1
    BY SMT, <1>1
  <2> QED BY Zenon, <1>1, <2>1 DEF FirstOf
<1>2. CASE 1 \notin S
  <2>0. \A i \in 1 .. 2 : i = 1 \/ i = 2
    OBVIOUS
  <2>1. S = {2}
    BY Zenon, <1>2, <2>0
  <2>2. \A i \in S : (\A j \in S : i <= j) <=> i = 2
    BY SMT, <2>1
  <2>3. 2 \in S
    BY <2>1
  <2> QED BY Zenon, <1>2, <2>2, <2>3 DEF FirstOf
<1> QED BY <1>1, <1>2

\* Whatever rule applies, time and nonce are parameters of the submission.
LEMMA ParsedFrom ==
    ASSUME NEW worker \in BOOLEAN, NEW params, DOMAIN params = 1 .. 2,
           Len(params[1]) \in Nat, Len(params[2]) \in Nat
    PROVE  /\ ParseSubmit(worker, params).nonce \in {params[1], params[2]}
           /\ ParseSubmit(worker, params).nTime \in {params[1], params[2]}
<1>1. /\ ByPosition(params).nonce \in {params[1], params[2]}
      /\ ByPosition(params).nTime \in {params[1], params[2]}
  BY DEF ByPosition
<1>. DEFINE T == {i \in DOMAIN params : IsTime(params[i])}
            O == {i \in DOMAIN params : params[i] # <<>> /\ params[i] # params[FirstOf(T)]}
            L == {i \in O : \A j \in O : Len(params[j]) <= Len(params[i])}
<1>2. ASSUME T # {}, O # {}
      PROVE  FirstOf(T) \in 1 .. 2 /\ FirstOf(L) \in 1 .. 2
  <2>1. T \in SUBSET (1 .. 2) /\ O \in SUBSET (1 .. 2)
    BY Zenon
  <2>2. L \in SUBSET (1 .. 2)
    BY Zenon, <2>1
  <2>3. L # {}
    <3>. DEFINE l == [i \in 1 .. 2 |-> Len(params[i])]
    <3>1. \A i \in 1 .. 2 : l[i] \in Nat
      BY SMT
    <3>2. \E i \in O : \A j \in O : l[j] <= l[i]
      <4>. HIDE DEF l, O, T
      <4>1. O \subseteq 1 .. 2 /\ O # {}
        BY <1>2, <2>1
      <4>2. l[1] \in Nat /\ l[2] \in Nat
        BY <3>1
      <4>3. \A i \in O : i = 1 \/ i = 2
        BY SMT, <4>1
      <4>4. l[1] <= l[1] /\ l[2] <= l[2] /\ (l[1] <= l[2] \/ l[2] <= l[1])
        BY SMT, <4>2
      <4> QED BY ZenonT(60), <4>1, <4>3, <4>4
    <3> QED BY Zenon, <2>1, <3>2
  <2>. HIDE DEF L, O, T
  <2>4. FirstOf(T) = (IF 1 \in T THEN 1 ELSE 2) /\ FirstOf(L) = (IF 1 \in L THEN 1 ELSE 2)
    BY Zenon, <1>2, <2>1, <2>2, <2>3, FirstOfTwo
  <2>5. 1 \in 1 .. 2 /\ 2 \in 1 .. 2
    OBVIOUS
  <2> QED BY Zenon, <2>4, <2>5
<1>3. WithWorker(params) =
        IF T # {} /\ O # {}
        THEN [nTime |-> params[FirstOf(T)], nonce |-> params[FirstOf(L)]]
        ELSE ByPosition(params)
  BY Zenon DEF WithWorker, Longest
<1>. HIDE DEF T, O, L
<1>4. \A i \in 1 .. 2 : params[i] \in {params[1], params[2]}
  <2>1. \A i \in 1 .. 2 : i = 1 \/ i = 2
    OBVIOUS
  <2> QED BY Zenon, <2>1
<1>5. CASE T # {} /\ O # {}
  <2>1. /\ WithWorker(params).nonce = params[FirstOf(L)]
        /\ WithWorker(params).nTime = params[FirstOf(T)]
    BY <1>3, <1>5
  <2> QED BY Zenon, <1>1, <1>2, <1>4, <1>5, <2>1 DEF ParseSubmit
<1>6. CASE ~(T # {} /\ O # {})
  BY Zenon, <1>1, <1>3, <1>6 DEF ParseSubmit
<1> QED BY <1>5, <1>6

\* A time stays a time when its bytes are reversed.
LEMMA DigitsReversed ==
    ASSUME NEW h \in Seq(Digits), Len(h) = TimeDigits
    PROVE  ReverseHex(h) \in Seq(Digits) /\ Len(ReverseHex(h)) = TimeDigits
<1>1. Len(h) = 8
  BY DEF TimeDigits
<1>2. \A i \in 1 .. 8 : h[i] \in Digits
  BY <1>1, ElementOfSeq
<1>3. \A i \in 1 .. 8 : (IF i % 2 = 1 THEN h[8 - i] ELSE h[10 - i]) \in Digits
  <2>1. \A i \in 1 .. 8 : (i % 2 = 1 => 8 - i \in 1 .. 8) /\ (i % 2 # 1 => 10 - i \in 1 .. 8)
    BY SMT
  <2> QED BY Zenon, <1>2, <2>1
<1>4. ReverseHex(h) = [i \in 1 .. 8 |-> IF i % 2 = 1 THEN h[8 - i] ELSE h[10 - i]]
  BY <1>1 DEF ReverseHex
<1> QED BY <1>3, <1>4 DEF TimeDigits

\* The parameters a miner sends are hex strings.
LEMMA SentIsHex ==
    ASSUME NEW s \in Submissions
    PROVE  s.params[1] \in Seq(Digits) /\ s.params[2] \in Seq(Digits)
<1>1. /\ HeaderSolved(s) /\ NonceSent(s) /\ s.extra \in Seq(Digits)
      /\ s.nonceAt \in {1, 2} /\ s.extraAt \in Nat
      /\ SentTime(s) \in {s.solved.header.time, ReverseHex(s.solved.header.time)}
  BY Zenon, SubmissionAssumption
<1>2. SentTime(s) \in Seq(Digits)
  BY <1>1, DigitsReversed DEF HeaderSolved
<1>3. PICK full \in Seq(Digits) : full = s.solved.header.nonce /\ Len(full) = NonceDigits
  BY Zenon, <1>1 DEF HeaderSolved
<1>4. \A m, n \in Nat : m >= 1 /\ n <= NonceDigits => SubSeq(full, m, n) \in Seq(Digits)
  <2>. TAKE m, n \in Nat
  <2>. HAVE m >= 1 /\ n <= NonceDigits
  <2>1. \A i \in m .. n : full[i] \in Digits
    BY <1>3, ElementOfSeq
  <2> QED BY <2>1, <1>3
<1>5. SentNonce(s) \in Seq(Digits)
  <2>0. NonceDigits \in Nat /\ ExtraDigits \in Nat
    BY EncodingAssumption
  <2>1. CASE SentNonce(s) = full
    BY <1>3, <2>1
  <2>2. CASE /\ 2 * s.extraAt + ExtraDigits <= NonceDigits
             /\ SentNonce(s) = SubSeq(full, 1, 2 * s.extraAt)
                               \o SubSeq(full, 2 * s.extraAt + ExtraDigits + 1, NonceDigits)
    <3>0. PICK at \in Nat : at = 2 * s.extraAt
      BY <1>1
    <3>1. at + ExtraDigits <= NonceDigits
      BY Zenon, <2>2, <3>0
    <3>2. 1 \in Nat /\ 1 >= 1 /\ at <= NonceDigits /\ NonceDigits <= NonceDigits
          /\ at + ExtraDigits + 1 \in Nat /\ at + ExtraDigits + 1 >= 1
      BY SMT, <2>0, <3>1
    <3>3. SubSeq(full, 1, at) \in Seq(Digits)
          /\ SubSeq(full, at + ExtraDigits + 1, NonceDigits) \in Seq(Digits)
      BY Zenon, <1>4, <2>0, <3>2
    <3>4. SentNonce(s) = SubSeq(full, 1, at) \o SubSeq(full, at + ExtraDigits + 1, NonceDigits)
      BY Zenon, <2>2, <3>0
    <3> QED BY Zenon, <3>3, <3>4, ConcatProperties
  <2>3. CASE \E z \in 1 .. NonceDigits : SentNonce(s) = SubSeq(full, z + 1, NonceDigits)
    <3>1. PICK z \in 1 .. NonceDigits : SentNonce(s) = SubSeq(full, z + 1, NonceDigits)
      BY <2>3
    <3>2. z + 1 \in Nat /\ z + 1 >= 1 /\ NonceDigits <= NonceDigits
      BY SMT, <2>0
    <3> QED BY Zenon, <1>4, <2>0, <3>1, <3>2
  <2>4. CASE \E z \in 1 .. NonceDigits : SentNonce(s) = SubSeq(full, 1, NonceDigits - z)
    <3>1. PICK z \in 1 .. NonceDigits : SentNonce(s) = SubSeq(full, 1, NonceDigits - z)
      BY <2>4
    <3>2. 1 \in Nat /\ 1 >= 1 /\ NonceDigits - z \in Nat /\ NonceDigits - z <= NonceDigits
      BY SMT, <2>0
    <3> QED BY Zenon, <1>4, <3>1, <3>2
  <2> QED BY Zenon, <1>1, <1>3, <2>1, <2>2, <2>3, <2>4 DEF NonceSent
<1> QED BY <1>1, <1>2, <1>5 DEF SentNonce, SentTime

\* For every submission the number of runs of the verifier is bounded by the
\* constants: no way of writing the fields makes the candidate lists grow.
THEOREM RunsBounded == ShareSpec => []VerifierRunsBounded
<1>1. ShareInv => VerifierRunsBounded
  <2>. SUFFICES ASSUME ShareInv, phase = "checking"
                PROVE  Cardinality(Headers) * Cardinality(cand.fields)
                          <= (Inserts + 2) * 4 * 2 * 2
    BY DEF VerifierRunsBounded
  <2>1. sub \in Submissions /\ cand = CandidatesOf(Read)
    BY DEF ShareInv
  <2>2. /\ cand.nonces = NonceCandidates(Evened(Read.nonce), sub.extra)
        /\ cand.times = HeaderTimeCandidates(Read.nTime, sub.jobTime)
        /\ cand.bits = CompactBitsCandidates(sub.jobBits)
        /\ cand.fields = SolutionFields(sub.solution)
    BY <2>1 DEF CandidatesOf
  <2>3. Len(Evened(Read.nonce)) \in Nat
    <3>1. sub.params[1] \in Seq(Digits) /\ sub.params[2] \in Seq(Digits)
      BY <2>1, SentIsHex
    <3>2. Read.nonce \in {sub.params[1], sub.params[2]}
      <4>1. sub.worker \in BOOLEAN /\ DOMAIN sub.params = 1 .. 2
        BY <2>1, SubmissionAssumption
      <4>2. Len(sub.params[1]) \in Nat /\ Len(sub.params[2]) \in Nat
        BY <3>1
      <4> QED BY Zenon, <4>1, <4>2, ParsedFrom DEF Read
    <3>3. Read.nonce \in Seq(Digits)
      BY Zenon, <3>1, <3>2
    <3>4. \A d \in Seq(Digits) : Len(Evened(d)) \in Nat
      <4>1. 0 \in Digits
        BY DEF Digits
      <4>. HIDE DEF Digits
      <4> QED BY <4>1 DEF Evened
    <3> QED BY Zenon, <3>3, <3>4
  <2>4. AtMost(Inserts + 2, cand.nonces)
    BY Zenon, <2>2, <2>3, FewNonces
  <2>5. AtMost(4, cand.times)
    <3>1. PICK a, b, c, d : cand.times = {a, b, c, d}
      BY ZenonT(60), <2>2 DEF HeaderTimeCandidates
    <3>2. AtMost(4, {a, b, c, d})
      BY AtMostFour
    <3> QED BY <3>1, <3>2
  <2>6. AtMost(2, cand.bits)
    <3>1. sub.jobBits \in Seq(Digits) /\ Len(sub.jobBits) = 8
      BY <2>1, SubmissionAssumption DEF TimeDigits
    <3> QED BY Zenon, <2>2, <3>1, FewBits
  <2>7. AtMost(2, cand.fields)
    BY Zenon, <2>2, FewFields
  <2>8. PICK i \in Nat : i = Inserts + 2
    BY SMT, EncodingAssumption
  <2>9. AtMost(i * (4 * 2), Headers)
    <3>1. 4 \in Nat /\ 2 \in Nat
      OBVIOUS
    <3> QED BY Zenon, <2>4, <2>5, <2>6, <2>8, <3>1, AtMostHeaders DEF Headers
  <2>10. Cardinality(Headers) * Cardinality(cand.fields) <= (i * (4 * 2)) * 2
    <3>1. i * (4 * 2) \in Nat /\ 2 \in Nat
      BY SMT
    <3> QED BY <2>7, <2>9, <3>1, ProductsGrow DEF AtMost
  <2>11. (i * (4 * 2)) * 2 = i * 4 * 2 * 2
    BY SMT
  <2> QED BY Zenon, <2>8, <2>10, <2>11
<1> QED BY <1>1, ShareInvHolds, PTL

------------------------------------------------------------------------------
\* How a submission is read.

\* The submissions the pool can make sense of.
Clear(s) ==
    /\ s.extraAt < Inserts
    /\ Len(Evened(SentNonce(s))) >= MinDigits
    /\ ~(IsTime(s.params[1]) /\ IsTime(s.params[2]) /\ s.nonceAt = 1)
    /\ ~(s.raw /\ IsSized(s.solution))

\* The time that is sent has eight digits.
LEMMA TimeSent ==
    ASSUME NEW s \in Submissions
    PROVE  /\ SentTime(s) \in Seq(Digits) /\ IsTime(SentTime(s))
           /\ s.solved.header.time \in HeaderTimeCandidates(SentTime(s), s.jobTime)
<1>1. /\ HeaderSolved(s)
      /\ SentTime(s) \in {s.solved.header.time, ReverseHex(s.solved.header.time)}
  BY Zenon, SubmissionAssumption
<1>2. PICK t \in Seq(Digits) : t = s.solved.header.time /\ Len(t) = TimeDigits
  BY Zenon, <1>1 DEF HeaderSolved
<1>3. ReverseHex(t) \in Seq(Digits) /\ Len(ReverseHex(t)) = TimeDigits
  BY Zenon, <1>2, DigitsReversed
<1>4. Len(t) = 8
  BY <1>2 DEF TimeDigits
<1>5. /\ t \in HeaderTimeCandidates(t, s.jobTime)
      /\ t \in HeaderTimeCandidates(ReverseHex(t), s.jobTime)
  BY Zenon, <1>4, TimeFound
<1>6. SentTime(s) = t \/ SentTime(s) = ReverseHex(t)
  BY Zenon, <1>1, <1>2
<1> QED BY Zenon, <1>2, <1>3, <1>5, <1>6 DEF IsTime

\* Only an odd nonce gets a digit in front.
LEMMA OddOrEven ==
    ASSUME NEW h \in Seq(Digits)
    PROVE  /\ Len(h) % 2 = 0 => Evened(h) = h
           /\ Len(h) % 2 = 1 => Evened(h) = <<0>> \o h
           /\ Len(h) % 2 \in {0, 1} /\ Len(h) \in Nat
<1>1. Len(h) \in Nat
  OBVIOUS
<1>2. Len(h) % 2 \in {0, 1}
  BY SMT, <1>1
<1>3. Len(h) % 2 = 0 => Len(h) % 2 # 1
  BY SMT
<1> QED BY Zenon, <1>1, <1>2, <1>3 DEF Evened

\* Zeros cut off an even nonce leave an even number of digits exactly when their
\* number is even.
LEMMA Parity ==
    ASSUME NEW n \in Nat, n % 2 = 0, NEW z \in 1 .. n
    PROVE  /\ z % 2 = 0 => (n - z) % 2 = 0
           /\ z % 2 # 0 => (n - z) % 2 = 1 /\ (n - (z - 1)) % 2 = 0
BY SMT

\* A nonce sent whole is its own candidate.
LEMMA WholeFound ==
    ASSUME NEW full \in Seq(Digits), Len(full) = NonceDigits, NEW extra
    PROVE  full \in NonceCandidates(full, extra)
<1>1. NonceDigits \in Nat /\ NonceDigits % 2 = 0
  BY EncodingAssumption
<1>2. ~(NonceDigits % 2 = 1) /\ ~(NonceDigits > NonceDigits)
  BY SMT, <1>1
<1> QED BY Zenon, <1>2 DEF NonceCandidates

\* The header's nonce is among the candidates.
LEMMA NonceUnderstood ==
    ASSUME NEW s \in Submissions, Clear(s)
    PROVE  s.solved.header.nonce \in NonceCandidates(Evened(SentNonce(s)), s.extra)
<1>1. HeaderSolved(s) /\ NonceSent(s) /\ s.extraAt \in Nat
  BY Zenon, SubmissionAssumption
<1>2. PICK full \in Seq(Digits) : full = s.solved.header.nonce /\ Len(full) = NonceDigits
  BY Zenon, <1>1 DEF HeaderSolved
<1>3. PICK h \in Seq(Digits) : h = SentNonce(s)
  BY SentIsHex, SubmissionAssumption DEF SentNonce
<1>4. PICK n \in Nat : n = NonceDigits /\ n % 2 = 0 /\ n > 0
  BY EncodingAssumption
<1>5. PICK e \in Nat : e = ExtraDigits /\ e % 2 = 0 /\ e > 0
  BY EncodingAssumption
<1>6. MinDigits \in Nat /\ MinDigits > 0
  BY EncodingAssumption
<1>7. Len(Evened(h)) >= MinDigits /\ s.extraAt < Inserts
  BY Zenon, <1>3 DEF Clear
<1>8. CASE h = full
  <2>1. Evened(h) = full
    BY <1>2, <1>4, <1>8, OddOrEven
  <2> QED BY Zenon, <1>2, <1>3, <2>1, WholeFound
<1>9. CASE /\ 2 * s.extraAt + ExtraDigits <= NonceDigits
           /\ s.extra = SubSeq(full, 2 * s.extraAt + 1, 2 * s.extraAt + ExtraDigits)
           /\ h = SubSeq(full, 1, 2 * s.extraAt)
                  \o SubSeq(full, 2 * s.extraAt + ExtraDigits + 1, NonceDigits)
  <2>1. PICK p \in Nat : p = s.extraAt
    BY <1>1
  <2>2. (n - e) % 2 = 0
    BY SMT, <1>4, <1>5
  <2>3. full \in NonceCandidates(h, s.extra)
    BY Zenon, <1>2, <1>4, <1>5, <1>7, <1>9, <2>1, <2>2, InsertionFound
  <2>4. Len(h) % 2 = 0
    <3>1. Len(h) % 2 # 1
      BY Zenon, <2>3 DEF NonceCandidates
    <3> QED BY Zenon, <3>1, OddOrEven
  <2> QED BY Zenon, <1>2, <1>3, <2>3, <2>4, OddOrEven
<1>10. CASE \E z \in 1 .. NonceDigits :
               /\ \A i \in 1 .. z : full[i] = 0
               /\ h = SubSeq(full, z + 1, NonceDigits)
  <2>1. PICK z \in 1 .. NonceDigits :
               /\ \A i \in 1 .. z : full[i] = 0
               /\ h = SubSeq(full, z + 1, NonceDigits)
    BY <1>10
  <2>2. Len(h) = n - z /\ \A i \in 1 .. n - z : h[i] = full[z + i]
    BY SMTT(60), <1>2, <1>4, <2>1
  <2>3. CASE z % 2 = 0
    <3>1. (n - z) % 2 = 0
      BY Zenon, <1>4, <2>3, Parity
    <3>2. Evened(h) = h
      BY Zenon, <2>2, <3>1, OddOrEven
    <3>3. NonceDigits - z >= MinDigits
      BY Zenon, <1>4, <1>7, <2>2, <3>2
    <3>4. full \in NonceCandidates(h, s.extra)
      BY Zenon, <1>2, <1>4, <2>1, <3>1, <3>3, FillFound
    <3> QED BY Zenon, <1>2, <1>3, <3>2, <3>4
  <2>4. CASE z % 2 # 0
    <3>1. (n - z) % 2 = 1 /\ z - 1 \in 0 .. n /\ z \in 1 .. n /\ (n - (z - 1)) % 2 = 0
      <4>1. z - 1 \in 0 .. n /\ z \in 1 .. n
        BY SMT, <1>4
      <4> QED BY Zenon, <1>4, <2>4, <4>1, Parity
    <3>2. Evened(h) = <<0>> \o h
      BY Zenon, <2>2, <3>1, OddOrEven
    <3>3. PICK g \in Seq(Digits) : /\ g = SubSeq(full, (z - 1) + 1, NonceDigits)
                                   /\ Len(g) = n - (z - 1)
                                   /\ \A i \in 1 .. n - (z - 1) : g[i] = full[(z - 1) + i]
      <4>1. PICK m \in 1 .. n : m = (z - 1) + 1
        BY SMT, <3>1
      <4>2. \A i \in m .. n : full[i] \in Digits
        BY <1>2, <1>4, ElementOfSeq
      <4>3. /\ SubSeq(full, m, n) \in Seq(Digits)
            /\ Len(SubSeq(full, m, n)) = (IF m <= n THEN (n - m) + 1 ELSE 0)
            /\ \A i \in 1 .. (n - m) + 1 : SubSeq(full, m, n)[i] = full[(m + i) - 1]
        <5>1. m \in Int /\ n \in Int
          OBVIOUS
        <5>2. /\ SubSeq(full, m, n) \in Seq(Digits)
              /\ Len(SubSeq(full, m, n)) = IF m <= n THEN n-m+1 ELSE 0
              /\ \A i \in 1 .. n-m+1 : SubSeq(full, m, n)[i] = full[m+i-1]
          BY <4>2, <5>1, SubSeqProperties
        <5> QED BY SMT, <5>1, <5>2
      <4>4. (n - m) + 1 = n - (z - 1) /\ m <= n
            /\ \A i \in 1 .. n - (z - 1) : (m + i) - 1 = (z - 1) + i
        BY SMT, <4>1, <3>1
      <4>5. PICK g : g = SubSeq(full, m, n)
        OBVIOUS
      <4>6. g \in Seq(Digits) /\ g = SubSeq(full, (z - 1) + 1, NonceDigits)
        BY Zenon, <1>4, <4>1, <4>3, <4>5
      <4>7. Len(g) = n - (z - 1)
        BY Zenon, <4>3, <4>4, <4>5
      <4>8. \A i \in 1 .. n - (z - 1) : g[i] = full[(z - 1) + i]
        BY Zenon, <4>3, <4>4, <4>5
      <4> QED BY Zenon, <4>6, <4>7, <4>8
    <3>4. Evened(h) = g
      <4>1. 0 \in Digits
        BY DEF Digits
      <4>2. <<0>> \in Seq(Digits) /\ Len(<<0>>) = 1 /\ <<0>>[1] = 0
        BY <4>1
      <4>3. /\ <<0>> \o h \in Seq(Digits)
            /\ Len(<<0>> \o h) = 1 + Len(h)
            /\ \A i \in 1 .. 1 + Len(h) : (<<0>> \o h)[i] = IF i <= 1 THEN <<0>>[i] ELSE h[i - 1]
        BY <4>2, ConcatProperties
      <4>4. Len(<<0>> \o h) = Len(g)
        BY SMT, <2>2, <3>1, <3>3, <4>3, <1>4
      <4>5. ASSUME NEW i \in 1 .. Len(g) PROVE (<<0>> \o h)[i] = g[i]
        <5>0. i \in 1 .. 1 + Len(h) /\ i \in 1 .. n - (z - 1) /\ g[i] = full[(z - 1) + i]
          BY SMT, <3>3, <4>3, <4>4
        <5>1. CASE i = 1
          <6>1. full[z] = 0
            BY <2>1, <3>1
          <6>2. (z - 1) + 1 = z /\ 1 <= 1
            BY SMT
          <6> QED BY Zenon, <4>2, <4>3, <5>0, <5>1, <6>1, <6>2
        <5>2. CASE i # 1
          <6>1. ~(i <= 1) /\ i - 1 \in 1 .. n - z /\ z + (i - 1) = (z - 1) + i
            BY SMT, <5>0, <5>2, <1>4, <3>1
          <6> QED BY Zenon, <2>2, <4>3, <5>0, <6>1
        <5> QED BY <5>1, <5>2
      <4> QED BY Zenon, <3>2, <4>3, <4>4, <4>5, <3>3, SeqEqual
    <3>5. CASE z = 1
      <4>1. g = full
        <5>1. Len(g) = Len(full) /\ \A i \in 1 .. Len(g) : g[i] = full[i]
          BY SMT, <1>2, <1>4, <3>3, <3>5
        <5> QED BY Zenon, <1>2, <3>3, <5>1, SeqEqual
      <4> QED BY Zenon, <1>2, <1>3, <3>4, <4>1, WholeFound
    <3>6. CASE z # 1
      <4>1. PICK y \in 1 .. NonceDigits : y = z - 1
        BY SMT, <1>4, <3>1, <3>6
      <4>2. (NonceDigits - y) % 2 = 0
        BY Zenon, <1>4, <3>1, <4>1
      <4>3. NonceDigits - y >= MinDigits
        BY Zenon, <1>4, <1>7, <3>3, <3>4, <4>1
      <4>4. \A i \in 1 .. y : full[i] = 0
        BY SMT, <2>1, <4>1, <1>4
      <4>5. full \in NonceCandidates(SubSeq(full, y + 1, NonceDigits), s.extra)
        BY Zenon, <1>2, <4>2, <4>3, <4>4, FillFound
      <4> QED BY Zenon, <1>2, <1>3, <3>3, <3>4, <4>1, <4>5
    <3> QED BY <3>5, <3>6
  <2> QED BY <2>3, <2>4
<1>11. CASE \E z \in 1 .. NonceDigits :
               /\ z % 2 = 0
               /\ \A i \in NonceDigits - z + 1 .. NonceDigits : full[i] = 0
               /\ h = SubSeq(full, 1, NonceDigits - z)
  <2>1. PICK z \in 1 .. NonceDigits :
               /\ z % 2 = 0
               /\ \A i \in NonceDigits - z + 1 .. NonceDigits : full[i] = 0
               /\ h = SubSeq(full, 1, NonceDigits - z)
    BY <1>11
  <2>2. Len(h) = n - z
    BY <1>2, <1>4, <2>1
  <2>3. (n - z) % 2 = 0
    BY SMT, <1>4, <2>1
  <2>4. Evened(h) = h
    BY Zenon, <2>2, <2>3, OddOrEven
  <2>5. NonceDigits - z >= MinDigits
    BY Zenon, <1>4, <1>7, <2>2, <2>4
  <2>6. full \in NonceCandidates(h, s.extra)
    BY Zenon, <1>2, <1>4, <2>1, <2>3, <2>5, FillFound
  <2> QED BY Zenon, <1>2, <1>3, <2>4, <2>6
<1> QED BY Zenon, <1>1, <1>2, <1>3, <1>8, <1>9, <1>10, <1>11 DEF NonceSent

\* The parameters are told apart.
LEMMA ReadUnderstood ==
    ASSUME NEW s \in Submissions, Clear(s)
    PROVE  /\ ParseSubmit(s.worker, s.params).nonce = SentNonce(s)
           /\ ParseSubmit(s.worker, s.params).nTime = SentTime(s)
           /\ SentNonce(s) # << >>
<1>. DEFINE p1 == s.params[1]
            p2 == s.params[2]
<1>1. /\ s.nonceAt \in {1, 2} /\ DOMAIN s.params = 1 .. 2 /\ s.worker \in BOOLEAN
      /\ p1 \in Seq(Digits) /\ p2 \in Seq(Digits)
  BY SubmissionAssumption, SentIsHex
<1>2. SentNonce(s) # << >>
  <2>1. ASSUME SentNonce(s) = << >> PROVE FALSE
    <3>1. Len(<< >>) % 2 = 0 /\ << >> \in Seq(Digits) /\ Len(<< >>) = 0
      BY SMT
    <3>2. Evened(<< >>) = << >>
      BY Zenon, <3>1, OddOrEven
    <3>3. Len(<< >>) >= MinDigits
      BY Zenon, <2>1, <3>2 DEF Clear
    <3> QED BY SMT, <3>1, <3>3, EncodingAssumption
  <2> QED BY <2>1
<1>3. IsTime(SentTime(s))
  BY TimeSent
<1>. DEFINE T == {i \in DOMAIN s.params : IsTime(s.params[i])}
            O == {i \in DOMAIN s.params :
                     s.params[i] # <<>> /\ s.params[i] # s.params[FirstOf(T)]}
            L == {i \in O : \A j \in O : Len(s.params[j]) <= Len(s.params[i])}
<1>4. WithWorker(s.params) =
        IF T # {} /\ O # {}
        THEN [nTime |-> s.params[FirstOf(T)], nonce |-> s.params[FirstOf(L)]]
        ELSE ByPosition(s.params)
  BY Zenon DEF WithWorker, Longest
<1>5. \A i \in 1 .. 2 : i = 1 \/ i = 2
  OBVIOUS
<1>6. 1 \in 1 .. 2 /\ 2 \in 1 .. 2 /\ 1 # 2 /\ 3 - 1 = 2 /\ 3 - 2 = 1
  OBVIOUS
<1>7. T \in SUBSET (1 .. 2) /\ O \in SUBSET (1 .. 2)
  BY Zenon, <1>1
<1>8. \A i \in 1 .. 2 : Len(s.params[i]) <= Len(s.params[i])
  BY SMT, <1>1
<1>9. \A i \in 1 .. 2 : O = {i} => L = {i} /\ FirstOf(L) = i
  <2>. TAKE i \in 1 .. 2
  <2>. HAVE O = {i}
  <2>1. L = {i}
    BY Zenon, <1>8
  <2>. HIDE DEF L
  <2>2. FirstOf(L) = IF 1 \in L THEN 1 ELSE 2
    <3>1. L \in SUBSET (1 .. 2) /\ L # {}
      BY <2>1
    <3> QED BY Zenon, <3>1, FirstOfTwo
  <2>3. i = 1 \/ i = 2
    BY Zenon, <1>5
  <2> QED BY Zenon, <1>6, <2>1, <2>2, <2>3
<1>10. ASSUME T # {} PROVE FirstOf(T) = IF 1 \in T THEN 1 ELSE 2
  <2>. HIDE DEF T
  <2> QED BY Zenon, <1>7, <1>10, FirstOfTwo
<1>11. CASE s.nonceAt = 2
  <2>1. SentNonce(s) = p2 /\ SentTime(s) = p1
    BY Zenon, <1>6, <1>11 DEF SentNonce, SentTime
  <2>2. IsTime(p1)
    BY Zenon, <1>3, <2>1
  <2>3. ByPosition(s.params) = [nTime |-> p1, nonce |-> p2]
    BY Zenon, <2>2 DEF ByPosition
  <2>4. 1 \in T /\ FirstOf(T) = 1
    BY Zenon, <1>1, <1>6, <1>10, <2>2
  <2>5. CASE p2 = p1
    <3>1. O = {}
      <4>1. \A i \in 1 .. 2 : s.params[i] = s.params[1]
        BY Zenon, <1>5, <2>5
      <4> QED BY Zenon, <1>1, <2>4, <4>1
    <3>2. WithWorker(s.params) = [nTime |-> p1, nonce |-> p2]
      BY Zenon, <1>4, <2>3, <3>1
    <3>3. ParseSubmit(s.worker, s.params) = [nTime |-> p1, nonce |-> p2]
      BY Zenon, <2>3, <3>2 DEF ParseSubmit
    <3> QED BY <1>2, <2>1, <3>3
  <2>6. CASE p2 # p1
    <3>1. O = {2}
      BY Zenon, <1>1, <1>2, <1>5, <1>6, <2>1, <2>4, <2>6
    <3>2. FirstOf(L) = 2
      BY Zenon, <1>6, <1>9, <3>1
    <3>3. WithWorker(s.params) = [nTime |-> p1, nonce |-> p2]
      BY Zenon, <1>4, <2>4, <3>1, <3>2
    <3>4. ParseSubmit(s.worker, s.params) = [nTime |-> p1, nonce |-> p2]
      BY Zenon, <2>3, <3>3 DEF ParseSubmit
    <3> QED BY <1>2, <2>1, <3>4
  <2> QED BY <2>5, <2>6
<1>12. CASE s.nonceAt = 1
  <2>1. SentNonce(s) = p1 /\ SentTime(s) = p2
    BY Zenon, <1>6, <1>12 DEF SentNonce, SentTime
  <2>2. IsTime(p2) /\ ~IsTime(p1)
    BY Zenon, <1>3, <1>12, <2>1 DEF Clear
  <2>3. ByPosition(s.params) = [nTime |-> p2, nonce |-> p1]
    BY Zenon, <2>2 DEF ByPosition
  <2>4. 2 \in T /\ 1 \notin T /\ FirstOf(T) = 2
    BY Zenon, <1>1, <1>6, <1>10, <2>2
  <2>5. p1 # p2
    BY Zenon, <2>2
  <2>6. O = {1}
    BY Zenon, <1>1, <1>2, <1>5, <1>6, <2>1, <2>4, <2>5
  <2>7. FirstOf(L) = 1
    BY Zenon, <1>6, <1>9, <2>6
  <2>8. WithWorker(s.params) = [nTime |-> p2, nonce |-> p1]
    BY Zenon, <1>4, <2>4, <2>6, <2>7
  <2>9. ParseSubmit(s.worker, s.params) = [nTime |-> p2, nonce |-> p1]
    BY Zenon, <2>3, <2>8 DEF ParseSubmit
  <2> QED BY <1>2, <2>1, <2>9
<1> QED BY <1>1, <1>11, <1>12

------------------------------------------------------------------------------
\* Clear shares are accepted.

\* A clear share is found among its candidates once its solution is unpacked.
LEMMA SolvedIsFound ==
    ASSUME BitLen = 21, BytePad = 1, ShareInv, UnpackInv, phase = "checking", Checked, Clear(sub)
    PROVE  \E header \in Headers : Verify(header)
<1>1. sub \in Submissions /\ cand = CandidatesOf(Read) /\ loop \in LoopVars
  BY DEF ShareInv
<1>2. /\ Read.nonce = SentNonce(sub) /\ Read.nTime = SentTime(sub)
  BY Zenon, <1>1, ReadUnderstood DEF Read
<1>3. /\ cand.nonces = NonceCandidates(Evened(SentNonce(sub)), sub.extra)
      /\ cand.times = HeaderTimeCandidates(SentTime(sub), sub.jobTime)
      /\ cand.bits = CompactBitsCandidates(sub.jobBits)
  BY <1>1, <1>2 DEF CandidatesOf
<1>4. PICK header : header = sub.solved.header
  OBVIOUS
<1>0. header \in [nonce : Seq(Digits), time : Seq(Digits),
                   bits : {sub.jobBits, ReverseHex(sub.jobBits)}]
  BY Zenon, <1>1, <1>4, SubmissionAssumption DEF HeaderSolved
<1>5. header \in Headers
  <2>2. header.nonce \in cand.nonces
    BY Zenon, <1>1, <1>3, <1>4, NonceUnderstood
  <2>3. header.time \in cand.times
    BY Zenon, <1>1, <1>3, <1>4, TimeSent
  <2>4. header.bits \in cand.bits
    BY <1>0, <1>3 DEF CompactBitsCandidates
  <2> QED BY <1>0, <2>2, <2>3, <2>4 DEF Headers
<1>6. PICK indices : indices = sub.solved.indices /\ IsIndices(indices)
  BY Zenon, <1>1, SubmissionShape
<1>7. Solution = Packed(indices) /\ Body(sub.solution) = Packed(indices)
  <2>1. sub.raw \in BOOLEAN
    BY <1>1, SubmissionAssumption
  <2>2. Body(sub.solution) = Packed(indices)
    BY Zenon, <1>1, <1>6, <2>1, SubmissionShape DEF Clear
  <2> QED BY Zenon, <2>2, SolutionOf
<1>8. WellSized
  BY Zenon, <1>6, <1>7, PackedIsBytes DEF WellSized
<1>9. IndicesIn(loop.out) = indices
  <2>1. loop.read = SolutionLen
    BY Zenon, <1>8 DEF Checked
  <2>2. Unpacked(loop, indices)
    BY Zenon, <1>6, <1>7 DEF UnpackInv
  <2> QED BY Zenon, <1>1, <1>6, <2>1, <2>2, AllUnpacked
<1> QED BY Zenon, <1>4, <1>5, <1>6, <1>8, <1>9 DEF Verify

\* A clear share is not malformed.
LEMMA ClearIsLegible ==
    ASSUME ShareInv, Clear(sub)
    PROVE  Legible(Read) /\ CandidatesOf(Read).nonces # {}
<1>1. sub \in Submissions
  BY DEF ShareInv
<1>2. Read.nonce = SentNonce(sub) /\ Read.nTime = SentTime(sub) /\ SentNonce(sub) # << >>
  BY Zenon, <1>1, ReadUnderstood DEF Read
<1>3. IsTime(SentTime(sub))
  BY Zenon, <1>1, TimeSent
<1>4. CandidatesOf(Read).nonces = NonceCandidates(Evened(SentNonce(sub)), sub.extra)
  BY <1>2 DEF CandidatesOf
<1>5. CandidatesOf(Read).nonces # {}
  BY Zenon, <1>1, <1>4, NonceUnderstood
<1>6. Len(sub.solution) > 0
  <2>1. PICK indices : indices = sub.solved.indices /\ IsIndices(indices)
    BY Zenon, <1>1, SubmissionShape
  <2>2. PICK p \in Seq(Bytes) : p = Packed(indices) /\ Len(p) = SolutionLen
    BY Zenon, <2>1, PackedIsBytes
  <2>3. sub.solution = p \/ sub.solution = Sized(p)
    BY Zenon, <1>1, <2>1, <2>2, SubmissionAssumption DEF SolutionSent
  <2>4. Len(p) > 0
    <3>1. PICK n \in Nat, w \in Nat : n = NumIndices /\ w = BitLen /\ 1 <= n /\ 8 <= w
      BY SMT, ExpandAssumption
    <3>2. n * w \in Nat /\ 1 * 8 <= n * w
      <4>1. 1 \in Nat /\ 8 \in Nat
        OBVIOUS
      <4> QED BY Zenon, <3>1, <4>1, ProductsGrow
    <3>3. \A t \in Nat : 1 * 8 <= t => t \div 8 > 0
      BY SMT
    <3>4. SolutionLen > 0
      BY Zenon, <3>1, <3>2, <3>3 DEF SolutionLen
    <3> QED BY Zenon, <2>2, <3>4
  <2>5. Len(Sized(p)) > 0
    <3>1. p \in Seq(Nat)
      <4>1. Bytes \subseteq Nat
        BY DEF Bytes
      <4> QED BY <4>1, SeqMonotonic
    <3>2. PICK n \in Nat : n = Len(p)
      OBVIOUS
    <3>3. CompactSizeHex(n) \in Seq(Nat) /\ Len(CompactSizeHex(n)) >= 1
      BY Zenon, CompactSizeShape
    <3>4. Len(CompactSizeHex(n) \o p) = Len(CompactSizeHex(n)) + n
      BY Zenon, <3>1, <3>2, <3>3, ConcatProperties
    <3>5. Len(CompactSizeHex(n)) + n > 0
      BY SMT, <3>3
    <3> QED BY Zenon, <3>2, <3>4, <3>5 DEF Sized
  <2> QED BY Zenon, <2>3, <2>4, <2>5
<1> QED BY Zenon, <1>2, <1>3, <1>5, <1>6 DEF Legible

\* What is not ambiguous is clear.
LEMMA ClearIsClear == ShareInv /\ ~Ambiguous => Clear(sub)
<1>. SUFFICES ASSUME ShareInv, ~Ambiguous PROVE Clear(sub)
  OBVIOUS
<1>1. sub \in Submissions
  BY DEF ShareInv
<1>2. PICK e \in Nat : e = sub.extraAt
  BY Zenon, <1>1, SubmissionAssumption
<1>3. Inserts \in Nat /\ MinDigits \in Nat
  BY EncodingAssumption
<1>4. PICK m \in Nat : m = Len(Evened(SentNonce(sub)))
  <2>1. PICK h \in Seq(Digits) : h = SentNonce(sub)
    BY <1>1, SentIsHex, SubmissionAssumption DEF SentNonce
  <2>2. Len(Evened(h)) \in Nat
    <3>1. 0 \in Digits
      BY DEF Digits
    <3>. HIDE DEF Digits
    <3> QED BY <3>1 DEF Evened
  <2> QED BY Zenon, <2>1, <2>2
<1>5. ~(e >= Inserts) /\ ~(m < MinDigits)
  BY Zenon, <1>2, <1>4 DEF Ambiguous, SentNonce
<1>6. e < Inserts /\ m >= MinDigits
  BY SMT, <1>3, <1>5
<1> QED BY Zenon, <1>2, <1>4, <1>6 DEF Ambiguous, Clear

\* Every convention of the miners is understood: for every nonce length, list of
\* indices and submission, a share for a known job that meets a target is
\* accepted unless it is one of the ambiguous cases.
THEOREM ConventionsUnderstood ==
    ASSUME BitLen = 21, BytePad = 1
    PROVE  ShareSpec => []EveryConventionUnderstood
<1>1. ShareInit => EveryConventionUnderstood
  BY DEF ShareInit, EveryConventionUnderstood
<1>2. ShareInv /\ UnpackInv /\ EveryConventionUnderstood /\ [ShareNext]_shareVars
        => EveryConventionUnderstood'
  <2>. SUFFICES ASSUME ShareInv, UnpackInv, EveryConventionUnderstood, [ShareNext]_shareVars,
                       phase' = "done", sub'.jobKnown, sub'.meets # "nothing", ~Ambiguous'
                PROVE  result'.valid
    BY DEF EveryConventionUnderstood
  <2>1. ASSUME sub' = sub PROVE Clear(sub) /\ sub.jobKnown /\ sub.meets # "nothing"
    <3>1. ~Ambiguous
      BY <2>1 DEF Ambiguous
    <3> QED BY Zenon, <2>1, <3>1, ClearIsClear
  <2>2. \A error : Reject(error) => sub' = sub
    BY DEF Reject
  <2>3. ~Expired
    BY <2>1, <2>2 DEF Expired
  <2>4. ~Malformed
    BY <2>1, <2>2, ClearIsLegible DEF Malformed
  <2>5. ~Normalize /\ ~Unpack
    BY DEF Normalize, Unpack
  <2>6. ~LowDiff
    BY <2>1, <2>2 DEF LowDiff
  <2>7. ~Unsolved
    BY <2>1, <2>2, SolvedIsFound DEF Unsolved
  <2>8. CASE Accept
    BY <2>8 DEF Accept
  <2>9. CASE UNCHANGED shareVars
    BY <2>9 DEF shareVars, EveryConventionUnderstood, Ambiguous
  <2> QED BY <2>3, <2>4, <2>5, <2>6, <2>7, <2>8, <2>9 DEF ShareNext
<1> QED BY <1>1, <1>2, ShareInvHolds, UnpackInvHolds, PTL DEF ShareSpec

------------------------------------------------------------------------------
\* Merkle roots.

\* A set of numbers that holds 0 and every successor holds all of them.
LEMMA SetInduction ==
    ASSUME NEW S, 0 \in S, \A n \in Nat : n \in S => n + 1 \in S
    PROVE  Nat \subseteq S
<1>. SUFFICES ASSUME Nat \ S # {} PROVE FALSE
  OBVIOUS
<1>1. PICK x \in Nat \ S : \A y \in Nat \ S : x <= y
  <2>. DEFINE T == Nat \ S
  <2>1. T \subseteq Nat /\ T # {}
    OBVIOUS
  <2>. HIDE DEF T
  <2>2. \E x \in T : \A y \in T : x <= y
    BY Zenon, <2>1, LeastNat
  <2> QED BY Zenon, <2>2 DEF T
<1>2. x # 0 /\ x - 1 \in Nat /\ (x - 1) + 1 = x /\ ~(x <= x - 1)
  BY SMT, <1>1
<1>3. x - 1 \in S
  BY Zenon, <1>1, <1>2
<1> QED BY Zenon, <1>1, <1>2, <1>3

\* Hashes as the Merkle tree holds them, in internal byte order.
IsHash(h) == \E x : h = DoubleHash(x)

\* A layer: at least one hash.
Hashed(b) == \E S : b \in Seq(S) /\ Len(b) > 0 /\ \A h \in S : IsHash(h)

\* Reversing the byte order of a hash twice changes nothing.
LEMMA FlippedTwice == \A x : Flipped(Flipped(DoubleHash(x))) = DoubleHash(x)
<1> TAKE x
<1>1. DoubleHash(x) = [of |-> x, order |-> "internal"]
  BY DEF DoubleHash
<1>2. Flipped(DoubleHash(x)) = [of |-> x, order |-> "display"]
  BY <1>1 DEF Flipped
<1>3. Flipped([of |-> x, order |-> "display"]) = [of |-> x, order |-> "internal"]
  BY DEF Flipped
<1> QED BY <1>1, <1>2, <1>3

\* The pool's pairing and the node's give the same layer above, of half the size.
LEMMA LayersAgree ==
    ASSUME NEW b, Hashed(b)
    PROVE  /\ MerkleLayer(b) = NodeLayer(b) /\ Hashed(MerkleLayer(b))
           /\ Len(MerkleLayer(b)) = (Len(b) + 1) \div 2
<1>1. PICK S : b \in Seq(S) /\ Len(b) > 0
  BY DEF Hashed
<1>2. PICK n \in Nat : n = Len(b) /\ n > 0
  BY <1>1
<1>. DEFINE half == (n + 1) \div 2
            right(i) == IF 2 * i <= n THEN 2 * i ELSE 2 * i - 1
            even == IF n % 2 = 1 THEN Append(b, b[n]) ELSE b
            pairs == [i \in 1 .. half |-> DoubleHash(<<b[2 * i - 1], b[right(i)]>>)]
<1>3. MerkleLayer(b) = pairs
  BY Zenon, <1>2 DEF MerkleLayer
<1>4. NodeLayer(b) = [i \in 1 .. Len(even) \div 2 |-> DoubleHash(<<even[2 * i - 1], even[2 * i]>>)]
  BY Zenon, <1>2 DEF NodeLayer
<1>5. half \in Nat /\ half > 0
  BY SMT, <1>2
<1>6. b[n] \in S
  <2>1. n \in 1 .. Len(b)
    BY SMT, <1>2
  <2> QED BY Zenon, <1>1, <2>1, ElementOfSeq
<1>7. /\ Len(Append(b, b[n])) = n + 1
      /\ \A i \in 1 .. n : Append(b, b[n])[i] = b[i]
      /\ Append(b, b[n])[n + 1] = b[n]
  BY <1>1, <1>2, <1>6, AppendProperties
<1>8. /\ Len(even) \div 2 = half
      /\ \A i \in 1 .. half : even[2 * i - 1] = b[2 * i - 1] /\ even[2 * i] = b[right(i)]
  <2>1. CASE n % 2 = 1
    <3>1. half + half = n + 1
      BY SMT, <1>2, <2>1
    <3>2. \A i \in 1 .. half : /\ 2 * i - 1 \in 1 .. n
                               /\ 2 * i <= n => 2 * i \in 1 .. n
                               /\ ~(2 * i <= n) => 2 * i = n + 1 /\ 2 * i - 1 = n
      BY SMT, <1>2, <1>5, <3>1
    <3>3. even = Append(b, b[n])
      BY Zenon, <2>1
    <3>4. Len(even) \div 2 = half
      BY Zenon, <3>3, <1>7
    <3>. HIDE DEF half
    <3> QED BY Zenon, <1>7, <3>2, <3>3, <3>4
  <2>2. CASE n % 2 # 1
    <3>1. half + half = n /\ n \div 2 = half
      BY SMT, <1>2, <2>2
    <3>2. \A i \in 1 .. half : 2 * i <= n
      BY SMT, <1>2, <1>5, <3>1
    <3>3. even = b
      BY Zenon, <2>2
    <3>. HIDE DEF half
    <3> QED BY Zenon, <1>2, <3>1, <3>2, <3>3
  <2> QED BY <2>1, <2>2
<1>. HIDE DEF half, right, even
<1>9. MerkleLayer(b) = NodeLayer(b)
  BY Zenon, <1>3, <1>4, <1>8
<1>10. Hashed(pairs) /\ Len(pairs) = half
  <2>. DEFINE R == {pairs[i] : i \in 1 .. half}
  <2>1. \A h \in R : IsHash(h)
    BY Zenon DEF IsHash
  <2>2. pairs \in [1 .. half -> R]
    OBVIOUS
  <2>. HIDE DEF R, pairs
  <2>3. pairs \in Seq(R) /\ Len(pairs) = half
    BY <1>5, <2>2
  <2> QED BY <1>5, <2>1, <2>3 DEF Hashed
<1> QED BY Zenon, <1>2, <1>3, <1>9, <1>10 DEF half

\* The layer above, as the pool and as the node make it.
Above(b) == IF Len(b) > 1 THEN MerkleLayer(b) ELSE b
NodeAbove(b) == IF Len(b) > 1 THEN NodeLayer(b) ELSE b

\* The layers one above the other, the pool's and the node's.
Rounds(leaves, g) == [n \in Nat |-> IF n = 0 THEN leaves ELSE Above(g[n - 1])]
NodeRounds(leaves, g) == [n \in Nat |-> IF n = 0 THEN leaves ELSE NodeAbove(g[n - 1])]

\* The round that leaves one hash.
Last(leaves, g) == CHOOSE n \in 0 .. Len(leaves) : Len(g[n]) = 1

\* g holds the first n rounds above the leaves.
UpTo(leaves, g, n) == g[0] = leaves /\ \A i \in 1 .. n : g[i] = Above(g[i - 1])

\* Any number of rounds can be made.
LEMMA SomeRounds == \A leaves : \A n \in Nat : \E g : UpTo(leaves, g, n)
<1> TAKE leaves
<1>. DEFINE S == {n \in Nat : \E g : UpTo(leaves, g, n)}
<1>1. 0 \in S
  <2>. DEFINE g == [i \in Nat |-> leaves]
  <2>1. g[0] = leaves /\ 1 .. 0 = {}
    BY SMT
  <2>2. UpTo(leaves, g, 0)
    BY Zenon, <2>1 DEF UpTo
  <2> QED BY <2>2
<1>2. \A n \in Nat : n \in S => n + 1 \in S
  <2>. TAKE n \in Nat
  <2>. HAVE n \in S
  <2>1. PICK g : UpTo(leaves, g, n)
    OBVIOUS
  <2>. DEFINE h == [i \in Nat |-> IF i = n + 1 THEN Above(g[n]) ELSE g[i]]
  <2>2. n + 1 \in Nat /\ (n + 1) - 1 = n /\ n # n + 1 /\ 0 # n + 1 /\ 0 \in Nat
    BY SMT
  <2>3. h[0] = leaves /\ h[n + 1] = Above(g[n]) /\ h[n] = g[n]
    BY Zenon, <2>1, <2>2 DEF UpTo
  <2>4. ASSUME NEW i \in 1 .. n + 1 PROVE h[i] = Above(h[i - 1])
    <3>1. CASE i = n + 1
      BY Zenon, <2>2, <2>3, <3>1
    <3>2. CASE i # n + 1
      <4>1. i \in 1 .. n /\ i \in Nat /\ i - 1 \in Nat /\ i - 1 # n + 1
        BY SMT, <3>2
      <4>2. h[i] = g[i] /\ h[i - 1] = g[i - 1]
        BY Zenon, <3>2, <4>1
      <4> QED BY Zenon, <2>1, <4>1, <4>2 DEF UpTo
    <3> QED BY <3>1, <3>2
  <2>5. UpTo(leaves, h, n + 1)
    <3>. HIDE DEF h
    <3> QED BY Zenon, <2>3, <2>4 DEF UpTo
  <2> QED BY Zenon, <2>2, <2>5
<1>. HIDE DEF S
<1>3. Nat \subseteq S
  BY Zenon, <1>1, <1>2, SetInduction
<1> QED BY Zenon, <1>3 DEF S

\* The rounds are determined by the leaves.
LEMMA SameRounds ==
    ASSUME NEW leaves, NEW g, NEW h, NEW n \in Nat, UpTo(leaves, g, n), UpTo(leaves, h, n)
    PROVE  g[n] = h[n]
<1>. DEFINE S == {i \in Nat : i <= n => g[i] = h[i]}
<1>1. 0 \in S
  BY Zenon DEF UpTo
<1>2. \A i \in Nat : i \in S => i + 1 \in S
  <2>. TAKE i \in Nat
  <2>. HAVE i \in S
  <2>1. CASE i + 1 <= n
    <3>1. i <= n /\ i + 1 \in 1 .. n /\ (i + 1) - 1 = i /\ i + 1 \in Nat
      BY SMT, <2>1
    <3>2. g[i + 1] = Above(g[i]) /\ h[i + 1] = Above(h[i])
      BY Zenon, <3>1 DEF UpTo
    <3> QED BY Zenon, <3>1, <3>2
  <2>2. CASE ~(i + 1 <= n)
    <3>1. i + 1 \in Nat
      BY SMT
    <3> QED BY Zenon, <2>2, <3>1
  <2> QED BY <2>1, <2>2
<1>3. Nat \subseteq S
  <2>. HIDE DEF S
  <2> QED BY Zenon, <1>1, <1>2, SetInduction
<1>4. n <= n
  BY SMT
<1> QED BY Zenon, <1>3, <1>4

\* The rounds define a function.
LEMMA AllRounds == \A leaves : \E g : g = Rounds(leaves, g)
<1> TAKE leaves
<1>. DEFINE upto(n) == CHOOSE g : UpTo(leaves, g, n)
            f == [n \in Nat |-> upto(n)[n]]
<1>1. \A n \in Nat : UpTo(leaves, upto(n), n)
  BY Zenon, SomeRounds
<1>. HIDE DEF upto
<1>2. f[0] = leaves
  BY Zenon, <1>1 DEF UpTo
<1>3. ASSUME NEW n \in Nat, n # 0 PROVE f[n] = Above(f[n - 1])
  <2>1. n \in 1 .. n /\ n - 1 \in Nat /\ 1 .. n - 1 \subseteq 1 .. n
    BY SMT, <1>3
  <2>2. UpTo(leaves, upto(n), n - 1)
    BY Zenon, <1>1, <2>1 DEF UpTo
  <2>3. upto(n)[n - 1] = upto(n - 1)[n - 1]
    <3>1. PICK m \in Nat : m = n - 1
      BY Zenon, <2>1
    <3>2. PICK g : g = upto(n)
      OBVIOUS
    <3>3. PICK h : h = upto(m)
      OBVIOUS
    <3>4. UpTo(leaves, g, m) /\ UpTo(leaves, h, m)
      BY Zenon, <1>1, <2>2, <3>1, <3>2, <3>3
    <3>5. g[m] = h[m]
      BY <3>4, SameRounds
    <3> QED BY Zenon, <3>1, <3>2, <3>3, <3>5
  <2>4. upto(n)[n] = Above(upto(n)[n - 1])
    BY Zenon, <1>1, <2>1 DEF UpTo
  <2> QED BY Zenon, <2>1, <2>3, <2>4
<1>4. \A n \in Nat : f[n] = IF n = 0 THEN leaves ELSE Above(f[n - 1])
  BY Zenon, <1>2, <1>3
<1>5. f = [n \in Nat |-> IF n = 0 THEN leaves ELSE Above(f[n - 1])]
  <2>1. f = [n \in Nat |-> f[n]]
    OBVIOUS
  <2>. HIDE DEF f
  <2> QED BY Zenon, <1>4, <2>1
<1> QED BY Zenon, <1>5 DEF Rounds

\* A layer of more than one hash is longer than the one above it, and no layer
\* is empty.
LEMMA AboveIsShorter ==
    ASSUME NEW b, Hashed(b)
    PROVE  /\ Len(b) \in Nat \ {0} /\ Hashed(Above(b)) /\ Len(Above(b)) \in Nat
           /\ Len(b) > 1 => Len(Above(b)) < Len(b)
           /\ Len(b) = 1 => Len(Above(b)) = 1
<1>1. PICK n \in Nat : n = Len(b) /\ n > 0
  BY DEF Hashed
<1>2. CASE n > 1
  <2>1. Above(b) = MerkleLayer(b)
    BY Zenon, <1>1, <1>2 DEF Above
  <2>2. (n + 1) \div 2 \in Nat /\ (n + 1) \div 2 < n
    BY SMT, <1>2
  <2>3. Hashed(Above(b)) /\ Len(Above(b)) = (n + 1) \div 2
    BY Zenon, <1>1, <2>1, LayersAgree
  <2> QED BY <1>1, <1>2, <2>2, <2>3
<1>3. CASE ~(n > 1)
  <2>1. Above(b) = b
    BY Zenon, <1>1, <1>3 DEF Above
  <2> QED BY <1>1, <1>3, <2>1
<1> QED BY Zenon, <1>2, <1>3

\* The rounds end.
LEMMA OneIsLeft ==
    ASSUME NEW leaves, Hashed(leaves), NEW f,
           f[0] = leaves, \A n \in Nat : f[n + 1] = Above(f[n])
    PROVE  \E n \in 0 .. Len(leaves) : Len(f[n]) = 1
<1>1. PICK k \in Nat : k = Len(leaves) /\ k > 0
  BY DEF Hashed
<1>. DEFINE Shrunk(n) == Len(f[n]) = 1 \/ Len(f[n]) + n <= k
            S == {n \in Nat : Hashed(f[n]) /\ Shrunk(n)}
<1>2. 0 \in S
  BY <1>1
<1>3. \A n \in Nat : n \in S => n + 1 \in S
  <2>. TAKE n \in Nat
  <2>. HAVE n \in S
  <2>1. PICK b : b = f[n]
    OBVIOUS
  <2>2. Hashed(b) /\ (Len(b) = 1 \/ Len(b) + n <= k)
    BY Zenon, <2>1
  <2>3. f[n + 1] = Above(b)
    BY Zenon, <2>1
  <2>4. PICK l \in Nat \ {0} : l = Len(b)
    BY Zenon, <2>2, AboveIsShorter
  <2>5. PICK m \in Nat : m = Len(Above(b))
    BY Zenon, <2>2, AboveIsShorter
  <2>6. (l > 1 => m < l) /\ (l = 1 => m = 1) /\ (l = 1 \/ l + n <= k)
    BY Zenon, <2>2, <2>4, <2>5, AboveIsShorter
  <2>7. m = 1 \/ m + (n + 1) <= k
    BY SMT, <2>6
  <2>8. Hashed(f[n + 1]) /\ Shrunk(n + 1)
    BY Zenon, <2>2, <2>3, <2>5, <2>7, AboveIsShorter
  <2>9. n + 1 \in Nat
    BY SMT
  <2> QED BY Zenon, <2>8, <2>9
<1>4. k \in S
  <2>. HIDE DEF S
  <2> QED BY Zenon, <1>1, <1>2, <1>3, SetInduction
<1>5. PICK l \in Nat \ {0} : l = Len(f[k])
  BY Zenon, <1>4, AboveIsShorter
<1>6. l = 1 \/ l + k <= k
  BY Zenon, <1>4, <1>5
<1>7. l = 1 /\ k \in 0 .. k
  BY SMT, <1>6
<1> QED BY Zenon, <1>1, <1>5, <1>7

\* The pool and the node find the same root.
LEMMA RootsAgree ==
    ASSUME NEW leaves, Hashed(leaves)
    PROVE  MerkleTop(leaves) = NodeRoot(leaves) /\ IsHash(MerkleTop(leaves))
<1>. DEFINE f == CHOOSE g : g = Rounds(leaves, g)
            h == CHOOSE g : g = NodeRounds(leaves, g)
<1>1. MerkleTop(leaves) = f[Last(leaves, f)][1]
  BY Zenon DEF MerkleTop, TopOf, Rounds, Above, Last
<1>2. NodeRoot(leaves) = h[Last(leaves, h)][1]
  BY Zenon DEF NodeRoot, TopOf, NodeRounds, NodeAbove, Last
<1>3. f = Rounds(leaves, f)
  BY Zenon, AllRounds
<1>. HIDE DEF f
<1>4. f = [n \in Nat |-> IF n = 0 THEN leaves ELSE Above(f[n - 1])]
  BY Zenon, <1>3 DEF Rounds
<1>. DEFINE S == {n \in Nat : Hashed(f[n])}
<1>5. 0 \in S
  BY Zenon, <1>4
<1>6. \A n \in Nat : n \in S => n + 1 \in S
  <2>. TAKE n \in Nat
  <2>. HAVE n \in S
  <2>1. n + 1 \in Nat /\ n + 1 # 0 /\ (n + 1) - 1 = n
    BY SMT
  <2>2. f[n + 1] = Above(f[n])
    BY Zenon, <1>4, <2>1
  <2>3. Hashed(Above(f[n]))
    BY Zenon, LayersAgree DEF Above
  <2> QED BY Zenon, <2>1, <2>2, <2>3
<1>7. \A n \in Nat : Hashed(f[n])
  <2>. HIDE DEF S
  <2>1. Nat \subseteq S
    BY Zenon, <1>5, <1>6, SetInduction
  <2> QED BY Zenon, <2>1 DEF S
<1>8. \A n \in Nat : Above(f[n]) = NodeAbove(f[n])
  BY Zenon, <1>7, LayersAgree DEF Above, NodeAbove
<1>9. f = NodeRounds(leaves, f)
  <2>1. \A n \in Nat : n # 0 => n - 1 \in Nat
    BY SMT
  <2>2. \A n \in Nat : (IF n = 0 THEN leaves ELSE Above(f[n - 1]))
                       = (IF n = 0 THEN leaves ELSE NodeAbove(f[n - 1]))
    BY Zenon, <1>8, <2>1
  <2>3. [n \in Nat |-> IF n = 0 THEN leaves ELSE Above(f[n - 1])]
        = [n \in Nat |-> IF n = 0 THEN leaves ELSE NodeAbove(f[n - 1])]
    BY Zenon, <2>2
  <2> QED BY Zenon, <1>4, <2>3 DEF NodeRounds
<1>10. h = NodeRounds(leaves, h)
  BY Zenon, <1>9
<1>. HIDE DEF h
<1>11. h = [n \in Nat |-> IF n = 0 THEN leaves ELSE NodeAbove(h[n - 1])]
  BY Zenon, <1>10 DEF NodeRounds
<1>. DEFINE E == {n \in Nat : f[n] = h[n]}
<1>12. 0 \in E
  BY Zenon, <1>4, <1>11
<1>13. \A n \in Nat : n \in E => n + 1 \in E
  <2>. TAKE n \in Nat
  <2>. HAVE n \in E
  <2>1. n + 1 \in Nat /\ n + 1 # 0 /\ (n + 1) - 1 = n
    BY SMT
  <2>2. f[n + 1] = Above(f[n]) /\ h[n + 1] = NodeAbove(h[n])
    BY Zenon, <1>4, <1>11, <2>1
  <2> QED BY Zenon, <1>8, <2>1, <2>2
<1>14. \A n \in Nat : f[n] = h[n]
  <2>. HIDE DEF E
  <2>1. Nat \subseteq E
    BY Zenon, <1>12, <1>13, SetInduction
  <2> QED BY Zenon, <2>1 DEF E
<1>15. f = h
  <2>1. f = [n \in Nat |-> f[n]] /\ h = [n \in Nat |-> h[n]]
    <3>1. f = [n \in Nat |-> f[n]]
      BY Zenon, <1>4
    <3>2. h = [n \in Nat |-> h[n]]
      BY Zenon, <1>11
    <3> QED BY <3>1, <3>2
  <2> QED BY Zenon, <1>14, <2>1
<1>17. Last(leaves, f) \in Nat
  <2>1. \A n \in Nat : n + 1 \in Nat /\ n + 1 # 0 /\ (n + 1) - 1 = n
    BY SMT
  <2>2. f[0] = leaves /\ \A n \in Nat : f[n + 1] = Above(f[n])
    BY Zenon, <1>4, <2>1
  <2>3. \E n \in 0 .. Len(leaves) : Len(f[n]) = 1
    BY Zenon, <2>2, OneIsLeft
  <2>4. Last(leaves, f) \in 0 .. Len(leaves)
    BY Zenon, <2>3 DEF Last
  <2> QED BY <2>4
<1>16. \A b : Hashed(b) => IsHash(b[1])
  <2>. TAKE b
  <2>. HAVE Hashed(b)
  <2>1. PICK R : b \in Seq(R) /\ Len(b) > 0 /\ \A x \in R : IsHash(x)
    BY DEF Hashed
  <2>2. 1 \in 1 .. Len(b)
    BY <2>1
  <2> QED BY Zenon, <2>1, <2>2, ElementOfSeq
<1> QED BY Zenon, <1>1, <1>2, <1>7, <1>15, <1>16, <1>17

------------------------------------------------------------------------------
\* Blocks as the node reads them.

\* The leaves the pool computes are the ids of the transactions of the block.
LEMMA LeavesAreIds ==
    ASSUME NEW s \in Submissions
    PROVE  LET txs == [i \in 1 .. 1 + s.tmpl.txs |-> TxId(i - 1, s.tmpl.v5)]
           IN  Leaves(s.tmpl) = txs /\ Hashed(txs) /\ Len(txs) = 1 + s.tmpl.txs
<1>. DEFINE txs == [i \in 1 .. 1 + s.tmpl.txs |-> TxId(i - 1, s.tmpl.v5)]
            S == {txs[i] : i \in 1 .. 1 + s.tmpl.txs}
            first == IF s.tmpl.givesId THEN Flipped(GivenId(s.tmpl, 0))
                     ELSE DoubleHash(<<"bytes", 0>>)
            others == [i \in 1 .. s.tmpl.txs |-> Flipped(GivenId(s.tmpl, i))]
<1>0. SUFFICES Leaves(s.tmpl) = txs /\ Hashed(txs) /\ Len(txs) = 1 + s.tmpl.txs
  OBVIOUS
<1>1. PICK n \in Nat : n = s.tmpl.txs
  BY Zenon, SubmissionAssumption
<1>2. s.tmpl.v5 \in BOOLEAN /\ s.tmpl.givesId \in BOOLEAN /\ (s.tmpl.v5 => s.tmpl.givesId)
  BY Zenon, SubmissionAssumption
<1>3. \A i : IsHash(TxId(i, s.tmpl.v5))
  BY Zenon DEF IsHash, TxId
<1>4. \A i : Flipped(GivenId(s.tmpl, i)) = TxId(i, s.tmpl.v5)
  <2>. TAKE i
  <2>1. PICK x : TxId(i, s.tmpl.v5) = DoubleHash(x)
    BY Zenon, <1>3 DEF IsHash
  <2> QED BY Zenon, <2>1, FlippedTwice DEF GivenId
<1>5. first = TxId(0, s.tmpl.v5)
  BY Zenon, <1>2, <1>4 DEF TxId
<1>6. 1 + n \in Nat /\ 1 + n > 0
  BY SMT, <1>1
<1>7. txs \in [1 .. 1 + n -> S]
  BY Zenon, <1>1
<1>8. \A h \in S : IsHash(h)
  BY Zenon, <1>3
<1>9. \A i \in 1 .. 1 + n : txs[i] = TxId(i - 1, s.tmpl.v5)
  BY Zenon, <1>1
<1>10. \A i \in 1 .. 1 + n : txs[i] \in S
  BY Zenon, <1>1
<1>11. Leaves(s.tmpl) = <<first>> \o others
  BY Zenon DEF Leaves
<1>12. \A i \in 1 .. n : others[i] = TxId(i, s.tmpl.v5)
  BY Zenon, <1>1, <1>4
<1>13. others = [i \in 1 .. n |-> others[i]]
  BY Zenon, <1>1
<1>. HIDE DEF S, txs, first, others
<1>14. txs \in Seq(S) /\ Len(txs) = 1 + n
  BY <1>6, <1>7
<1>15. Hashed(txs)
  BY Zenon, <1>6, <1>8, <1>14 DEF Hashed
<1>16. <<first>> \in Seq(S) /\ Len(<<first>>) = 1 /\ <<first>>[1] = first
  <2>1. 1 \in 1 .. 1 + n /\ 1 - 1 = 0
    BY SMT
  <2>2. first \in S
    BY Zenon, <1>5, <1>9, <1>10, <2>1
  <2> QED BY <2>2
<1>17. others \in Seq(S) /\ Len(others) = n
  <2>1. \A i \in 1 .. n : others[i] \in S
    <3>1. \A i \in 1 .. n : i + 1 \in 1 .. 1 + n /\ (i + 1) - 1 = i
      BY SMT
    <3> QED BY Zenon, <1>9, <1>10, <1>12, <3>1
  <2>2. others \in [1 .. n -> S]
    BY Zenon, <1>13, <2>1
  <2> QED BY <2>2
<1>18. <<first>> \o others = txs
  <2>1. /\ <<first>> \o others \in Seq(S)
        /\ Len(<<first>> \o others) = Len(<<first>>) + Len(others)
        /\ \A i \in 1 .. Len(<<first>>) + Len(others) :
              (<<first>> \o others)[i] =
                 IF i <= Len(<<first>>) THEN <<first>>[i] ELSE others[i - Len(<<first>>)]
    BY Zenon, <1>16, <1>17, ConcatProperties
  <2>2. Len(<<first>> \o others) = Len(txs)
    BY Zenon, <2>1, <1>14, <1>16, <1>17
  <2>3. ASSUME NEW i \in 1 .. 1 + n PROVE (<<first>> \o others)[i] = txs[i]
    <3>1. (<<first>> \o others)[i] = IF i <= 1 THEN <<first>>[i] ELSE others[i - 1]
      BY Zenon, <2>1, <1>16, <1>17
    <3>2. CASE i <= 1
      <4>1. i = 1 /\ i - 1 = 0
        BY SMT, <3>2
      <4> QED BY Zenon, <1>5, <1>9, <1>16, <3>1, <3>2, <4>1
    <3>3. CASE ~(i <= 1)
      <4>1. i - 1 \in 1 .. n
        BY SMT, <3>3
      <4> QED BY Zenon, <1>9, <1>12, <3>1, <3>3, <4>1
    <3> QED BY <3>2, <3>3
  <2>4. \A i \in 1 .. Len(<<first>> \o others) : (<<first>> \o others)[i] = txs[i]
    BY Zenon, <1>14, <2>2, <2>3
  <2> QED BY Zenon, <1>14, <2>1, <2>2, <2>4, SeqEqual
<1> QED BY Zenon, <1>1, <1>11, <1>14, <1>15, <1>18

\* The block's header commits to its transactions.
LEMMA RootCommits ==
    ASSUME NEW s \in Submissions
    PROVE  HeaderRoot(s.tmpl)
             = NodeRoot([i \in 1 .. 1 + s.tmpl.txs |-> TxId(i - 1, s.tmpl.v5)])
<1>1. PICK txs : txs = [i \in 1 .. 1 + s.tmpl.txs |-> TxId(i - 1, s.tmpl.v5)]
  OBVIOUS
<1>2. Leaves(s.tmpl) = txs /\ Hashed(txs)
  BY Zenon, <1>1, LeavesAreIds
<1>3. MerkleTop(txs) = NodeRoot(txs) /\ IsHash(MerkleTop(txs))
  BY Zenon, <1>2, RootsAgree
<1>4. HeaderRoot(s.tmpl) = Flipped(Flipped(MerkleTop(txs)))
  BY Zenon, <1>2 DEF HeaderRoot, CalculateFullMerkleRoot
<1>5. Flipped(Flipped(MerkleTop(txs))) = MerkleTop(txs)
  BY Zenon, <1>3, FlippedTwice DEF IsHash
<1> QED BY Zenon, <1>1, <1>3, <1>4, <1>5

\* What the pool writes as a size the node reads as that size.
LEMMA NodeReadsSize ==
    ASSUME NEW v \in Nat, v <= MaxSize, NEW s \in Seq(Nat)
    PROVE  LET t == CompactSizeHex(v) \o s
           IN  /\ ReadsSize(t)
               /\ SizeValue(t) = v
               /\ SizeWidth(t[1]) = Len(CompactSizeHex(v))
<1>. DEFINE size == CompactSizeHex(v)
            t == size \o s
<1>0. SUFFICES ReadsSize(t) /\ SizeValue(t) = v /\ SizeWidth(t[1]) = Len(size)
  OBVIOUS
<1>1. size \in Seq(Nat) /\ Len(size) >= 1 /\ Len(size) = SizeWidth(size[1]) /\ size[1] # 255
  BY CompactSizeShape
<1>2. SizeValue(t) = v
  BY Zenon, CompactSizeReadsBack
<1>3. (size[1] = 253 => v >= 253) /\ (size[1] = 254 => v >= 65536)
  <2>1. CASE v < 253
    <3>1. size = <<v>>
      BY <2>1, CompactSizeForms
    <3> QED BY SMT, <2>1, <3>1
  <2>2. CASE v >= 253 /\ v < 65536
    <3>1. size[1] = 253
      BY <2>2, CompactSizeForms
    <3> QED BY SMT, <2>2, <3>1
  <2>3. CASE v >= 65536
    BY SMT, <2>3
  <2> QED BY SMT, <2>1, <2>2, <2>3
<1>. HIDE DEF size
<1>4. /\ Len(t) = Len(size) + Len(s)
      /\ t[1] = size[1]
  <2>1. /\ Len(t) = Len(size) + Len(s)
        /\ \A i \in 1 .. Len(size) + Len(s) :
              t[i] = IF i <= Len(size) THEN size[i] ELSE s[i - Len(size)]
    BY <1>1, ConcatProperties
  <2>. HIDE DEF t
  <2>2. 1 \in 1 .. Len(size) + Len(s) /\ 1 <= Len(size)
    BY SMT, <1>1
  <2> QED BY Zenon, <2>1, <2>2
<1>. HIDE DEF t
<1>5. Len(t) >= 1 /\ Len(t) >= Len(size)
  BY SMT, <1>1, <1>4
<1> QED BY SMT, <1>1, <1>2, <1>3, <1>4, <1>5 DEF ReadsSize

\* Concatenation is associative.
Associative(S) == \A x, y, z \in Seq(S) : (x \o y) \o z = x \o (y \o z)

\* On sequences of any kind.
LEMMA AnyConcat == \A S : Associative(S)
BY ZenonT(30), ConcatAssociative DEF Associative

\* Sequences of bytes are concatenated in any grouping.
LEMMA NatConcat == \A x, y, z \in Seq(Nat) : (x \o y) \o z = x \o (y \o z)
<1>1. Associative(Nat)
  BY Zenon, AnyConcat
<1> QED BY Zenon, <1>1 DEF Associative

\* The bytes of a block read back as the solution and the number of transactions.
LEMMA BlockReadsBack ==
    ASSUME NEW p \in Seq(Nat), Len(p) <= MaxSize, NEW v \in Nat, v <= MaxSize,
           NEW block, block.bytes = Sized(p) \o CompactSizeHex(v)
    PROVE  NodeReads(block) = [solution |-> p, txs |-> v]
<1>. DEFINE front == CompactSizeHex(Len(p))
            back  == CompactSizeHex(v)
            bytes == block.bytes
            w     == Len(front)
            n     == Len(p)
<1>1. n \in Nat /\ Len(back) \in Nat
  <2>1. \A u \in Seq(Nat) : Len(u) \in Nat
    OBVIOUS
  <2> QED BY Zenon, <2>1, CompactSizeShape
<1>2. front \in Seq(Nat) /\ back \in Seq(Nat) /\ w >= 1 /\ w \in Nat
  BY <1>1, CompactSizeShape
<1>3. bytes = front \o (p \o back) /\ p \o back \in Seq(Nat)
  <2>1. bytes = (front \o p) \o back
    BY Zenon DEF Sized
  <2>. HIDE DEF front, back, bytes
  <2>2. (front \o p) \o back = front \o (p \o back)
    BY Zenon, <1>2, NatConcat
  <2> QED BY Zenon, <1>2, <2>1, <2>2, ConcatProperties
<1>4. ReadsSize(bytes) /\ SizeValue(bytes) = n /\ SizeWidth(bytes[1]) = w
  BY Zenon, <1>1, <1>3, NodeReadsSize
<1>5. ReadsSize(back) /\ SizeValue(back) = v /\ SizeWidth(back[1]) = Len(back)
  <2>1. back \o << >> = back /\ << >> \in Seq(Nat)
    <3>1. << >> \in Seq(Nat)
      OBVIOUS
    <3>. HIDE DEF back
    <3> QED BY <1>2, <3>1, ConcatEmptySeq
  <2> QED BY Zenon, <2>1, NodeReadsSize
<1>. HIDE DEF front, back, bytes
<1>6. /\ bytes \in Seq(Nat)
      /\ Len(bytes) = w + (n + Len(back))
      /\ \A i \in 1 .. w + (n + Len(back)) :
            bytes[i] = IF i <= w THEN front[i] ELSE (p \o back)[i - w]
      /\ \A i \in 1 .. n + Len(back) : (p \o back)[i] = IF i <= n THEN p[i] ELSE back[i - n]
  <2>1. /\ p \o back \in Seq(Nat)
        /\ Len(p \o back) = n + Len(back)
        /\ \A i \in 1 .. n + Len(back) : (p \o back)[i] = IF i <= n THEN p[i] ELSE back[i - n]
    BY Zenon, <1>2, ConcatProperties
  <2>2. /\ bytes \in Seq(Nat)
        /\ Len(bytes) = w + Len(p \o back)
        /\ \A i \in 1 .. w + Len(p \o back) :
              bytes[i] = IF i <= w THEN front[i] ELSE (p \o back)[i - w]
    BY Zenon, <1>2, <1>3, ConcatProperties
  <2> QED BY Zenon, <2>1, <2>2
<1>. DEFINE b == Len(back)
            l == Len(bytes)
<1>7. \A i \in 1 .. l : bytes[i] \in Nat
  BY Zenon, <1>6, ElementOfSeq
<1>. HIDE DEF w, n, b
<1>8. ASSUME NEW lo \in Nat, NEW hi \in Nat, lo >= 1, hi <= l, lo <= hi + 1
      PROVE  LET part == SubSeq(bytes, lo, hi)
             IN  /\ part \in Seq(Nat)
                 /\ Len(part) = (hi - lo) + 1
                 /\ \A i \in 1 .. (hi - lo) + 1 : part[i] = bytes[(lo + i) - 1]
  <2>1. lo \in Int /\ hi \in Int /\ l \in Nat
    BY SMT, <1>1, <1>2, <1>6 DEF b
  <2>2. \A i \in lo .. hi : bytes[i] \in Nat
    <3>1. \A i \in lo .. hi : i \in 1 .. l
      BY SMT, <1>8, <2>1
    <3> QED BY Zenon, <1>7, <3>1
  <2>3. /\ SubSeq(bytes, lo, hi) \in Seq(Nat)
        /\ Len(SubSeq(bytes, lo, hi)) = IF lo <= hi THEN hi-lo+1 ELSE 0
        /\ \A i \in 1 .. hi-lo+1 : SubSeq(bytes, lo, hi)[i] = bytes[lo+i-1]
    BY <2>1, <2>2, SubSeqProperties
  <2>4. \A i \in 1 .. (hi - lo) + 1 : lo+i-1 = (lo + i) - 1
    BY SMT
  <2>5. hi-lo+1 = (hi - lo) + 1 /\ (~(lo <= hi) => (hi - lo) + 1 = 0)
    BY SMT, <1>8
  <2> QED BY Zenon, <2>3, <2>4, <2>5
<1>9. SubSeq(bytes, w + 1, w + n) = p
  <2>1. PICK lo \in Nat, hi \in Nat : lo = w + 1 /\ hi = w + n
    BY <1>1, <1>2
  <2>2. lo >= 1 /\ hi <= l /\ lo <= hi + 1 /\ (hi - lo) + 1 = n
    BY SMT, <1>1, <1>2, <1>6, <2>1 DEF b
  <2>3. PICK part \in Seq(Nat) : part = SubSeq(bytes, lo, hi) /\ Len(part) = n
                          /\ \A i \in 1 .. n : part[i] = bytes[(lo + i) - 1]
    BY Zenon, <1>8, <2>2
  <2>4. ASSUME NEW i \in 1 .. n PROVE part[i] = p[i]
    <3>1. (lo + i) - 1 \in 1 .. w + (n + Len(back)) /\ ~((lo + i) - 1 <= w)
          /\ ((lo + i) - 1) - w = i /\ i \in 1 .. n + Len(back) /\ i <= n
      BY SMT, <1>1, <1>2, <2>1
    <3> QED BY Zenon, <1>6, <2>3, <3>1
  <2>5. part = p
    BY Zenon, <2>3, <2>4, SeqEqual DEF n
  <2> QED BY Zenon, <2>1, <2>3, <2>5
<1>10. SubSeq(bytes, w + n + 1, l) = back
  <2>1. PICK lo \in Nat, hi \in Nat : lo = w + n + 1 /\ hi = l
    <3>1. w + n + 1 \in Nat /\ w + (n + Len(back)) \in Nat
      BY SMT, <1>1, <1>2
    <3> QED BY Zenon, <1>6, <3>1
  <2>2. lo >= 1 /\ hi <= l /\ lo <= hi + 1 /\ (hi - lo) + 1 = b
    BY SMT, <1>1, <1>2, <1>6, <2>1 DEF b
  <2>3. PICK part \in Seq(Nat) : part = SubSeq(bytes, lo, hi) /\ Len(part) = b
                          /\ \A i \in 1 .. b : part[i] = bytes[(lo + i) - 1]
    BY Zenon, <1>8, <2>2
  <2>4. ASSUME NEW i \in 1 .. b PROVE part[i] = back[i]
    <3>1. (lo + i) - 1 \in 1 .. w + (n + Len(back)) /\ ~((lo + i) - 1 <= w)
          /\ ((lo + i) - 1) - w = n + i /\ n + i \in 1 .. n + Len(back) /\ ~(n + i <= n)
          /\ (n + i) - n = i
      BY SMT, <1>1, <1>2, <2>1 DEF b
    <3> QED BY Zenon, <1>6, <2>3, <3>1
  <2>5. part = back
    BY Zenon, <1>2, <2>3, <2>4, SeqEqual DEF b
  <2> QED BY Zenon, <2>1, <2>3, <2>5
<1> QED BY Zenon, <1>4, <1>5, <1>9, <1>10 DEF NodeReads, bytes

\* A block that is accepted is read by the node as what was solved.
LEMMA AcceptedIsSolved ==
    ASSUME SolutionLen <= MaxSize, ShareInv, phase = "checking",
           NEW header, NEW field \in cand.fields, Verify(header)
    PROVE  LET block == Assemble(header, field)
           IN  /\ block.header = sub.solved.header
               /\ block.root = NodeRoot(block.txs)
               /\ NodeReads(block) = [solution |-> Packed(sub.solved.indices),
                                      txs |-> Len(block.txs)]
<1>. DEFINE block == Assemble(header, field)
            txs == [i \in 1 .. 1 + sub.tmpl.txs |-> TxId(i - 1, sub.tmpl.v5)]
<1>0. SUFFICES /\ block.header = sub.solved.header
               /\ block.root = NodeRoot(block.txs)
               /\ NodeReads(block) = [solution |-> Packed(sub.solved.indices),
                                      txs |-> Len(block.txs)]
  OBVIOUS
<1>1. sub \in Submissions /\ cand.fields = SolutionFields(sub.solution)
  BY DEF ShareInv, CandidatesOf
<1>2. header = sub.solved.header /\ WellSized
  BY Zenon DEF Verify
<1>3. /\ block.header = header
      /\ block.root = HeaderRoot(sub.tmpl)
      /\ block.bytes = field \o CompactSizeHex(1 + sub.tmpl.txs)
      /\ block.txs = txs
  BY DEF Assemble
<1>. HIDE DEF block
<1>4. block.root = NodeRoot(block.txs)
  BY Zenon, <1>1, <1>3, RootCommits
<1>5. PICK indices : indices = sub.solved.indices /\ IsIndices(indices)
  BY Zenon, <1>1, SubmissionShape
<1>6. PICK p \in Seq(Bytes) : p = Packed(indices) /\ Len(p) = SolutionLen
  BY Zenon, <1>5, PackedIsBytes
<1>7. p \in Seq(Nat) /\ Len(p) <= MaxSize
  <2>1. Bytes \subseteq Nat
    BY DEF Bytes
  <2>2. Seq(Bytes) \subseteq Seq(Nat)
    BY <2>1, SeqMonotonic
  <2> QED BY Zenon, <1>6, <2>2
<1>8. Body(sub.solution) = p /\ (sub.raw => ~IsSized(sub.solution))
  <2>1. sub.raw \in BOOLEAN
    BY Zenon, <1>1, SubmissionAssumption
  <2>2. Len(Body(sub.solution)) = SolutionLen
    BY Zenon, <1>2, SolutionOf DEF WellSized
  <2>3. SolutionLen \in Nat /\ ~(SolutionLen < SolutionLen)
    BY SMT, SizesAre
  <2> QED BY Zenon, <1>1, <1>5, <1>6, <2>1, <2>2, <2>3, SubmissionShape
<1>9. field = Sized(p)
  <2>1. CASE IsSized(sub.solution)
    <3>1. ~sub.raw /\ AfterSize(sub.solution) = p
      BY Zenon, <1>8, <2>1 DEF Body
    <3>2. sub.solution = Sized(p)
      BY Zenon, <1>1, <1>5, <1>6, <3>1, SubmissionAssumption DEF SolutionSent
    <3> QED BY Zenon, <1>1, <2>1, <3>1, <3>2 DEF SolutionFields
  <2>2. CASE ~IsSized(sub.solution)
    BY Zenon, <1>1, <1>8, <2>2 DEF SolutionFields, Body
  <2> QED BY <2>1, <2>2
<1>10. PICK v \in Nat : v = 1 + sub.tmpl.txs /\ v <= MaxSize
  <2>1. sub.tmpl.txs \in Nat /\ 1 + sub.tmpl.txs <= MaxSize
    BY Zenon, <1>1, SubmissionAssumption
  <2>2. 1 + sub.tmpl.txs \in Nat
    BY SMT, <2>1
  <2> QED BY Zenon, <2>1, <2>2
<1>11. NodeReads(block) = [solution |-> p, txs |-> v]
  BY Zenon, <1>3, <1>7, <1>9, <1>10, BlockReadsBack
<1>12. Len(block.txs) = v
  BY Zenon, <1>1, <1>3, <1>10, LeavesAreIds
<1> QED BY Zenon, <1>2, <1>3, <1>4, <1>5, <1>6, <1>11, <1>12

\* A block that is handed to the node is the one the miner solved, for every
\* template and every submission: its header commits to its transactions and its
\* bytes read back as the solution and the number of transactions.
THEOREM BlocksAreSolved ==
    ASSUME SolutionLen <= MaxSize
    PROVE  ShareSpec => []BlockIsWhatWasSolved
<1>1. ShareInit => BlockIsWhatWasSolved
  BY DEF ShareInit, BlockIsWhatWasSolved, Accepted
<1>2. ShareInv /\ BlockIsWhatWasSolved /\ [ShareNext]_shareVars => BlockIsWhatWasSolved'
  <2>. SUFFICES ASSUME ShareInv, BlockIsWhatWasSolved, [ShareNext]_shareVars,
                       phase' = "done", result'.valid, result'.block # NoBlock
                PROVE  BlockIsWhatWasSolved'
    BY DEF BlockIsWhatWasSolved, Accepted
  <2>1. ASSUME NEW error PROVE ~Reject(error)
    BY DEF Reject, Rejected
  <2>2. ~Expired /\ ~Malformed /\ ~LowDiff /\ ~Unsolved
    BY <2>1 DEF Expired, Malformed, LowDiff, Unsolved
  <2>3. ~Normalize /\ ~Unpack
    BY DEF Normalize, Unpack
  <2>4. CASE Accept
    <3>1. PICK header \in Headers, field \in cand.fields :
             /\ Verify(header)
             /\ result' = [valid |-> TRUE, header |-> header,
                           block |-> IF sub.meets = "network" THEN Assemble(header, field)
                                     ELSE NoBlock]
      BY Zenon, <2>4 DEF Accept
    <3>2. phase = "checking" /\ sub' = sub
      BY <2>4 DEF Accept
    <3>3. result'.block = Assemble(header, field)
      <4>1. result'.block = IF sub.meets = "network" THEN Assemble(header, field) ELSE NoBlock
        BY <3>1
      <4> QED BY Zenon, <4>1
    <3> QED BY Zenon, <3>1, <3>2, <3>3, AcceptedIsSolved DEF BlockIsWhatWasSolved
  <2>5. CASE UNCHANGED shareVars
    BY <2>5 DEF shareVars, BlockIsWhatWasSolved, Accepted
  <2> QED BY <2>2, <2>3, <2>4, <2>5 DEF ShareNext
<1> QED BY <1>1, <1>2, ShareInvHolds, PTL DEF ShareSpec
==============================================================================
