------------------------- MODULE ShareEncodingProofs -------------------------
(***************************************************************************)
(* What a miner wrote is among the candidates, for every length of nonce   *)
(* and extranonce1, every insertion point and every solution; and the      *)
(* loop that unpacks a solution loses no bit of it, for every list of      *)
(* indices: the operators of ShareEncoding and Equihash as lemmas about    *)
(* all their inputs.                                                       *)
(***************************************************************************)
EXTENDS ShareEncoding, Equihash, Integers, SequenceTheorems, FiniteSetTheorems,
        WellFoundedInduction, TLAPS

USE DEF Digits, TimeDigits

-----------------------------------------------------------------------------
\* Compact sizes.

\* The three forms.
LEMMA CompactSizeForms ==
    ASSUME NEW v \in Nat
    PROVE  /\ v < 253 => CompactSizeHex(v) = <<v>>
           /\ v >= 253 /\ v < 65536 => CompactSizeHex(v) = <<253, v % 256, v \div 256>>
           /\ v >= 65536 => CompactSizeHex(v) = <<254, v % 256, (v \div 256) % 256,
                                                  (v \div 65536) % 256, v \div 16777216>>
<1>1. ASSUME v < 253 PROVE CompactSizeHex(v) = <<v>>
  BY SMT, <1>1 DEF CompactSizeHex
<1>2. ASSUME v >= 253 /\ v < 65536 PROVE CompactSizeHex(v) = <<253, v % 256, v \div 256>>
  <2>1. ~(v < 253)
    BY SMT, <1>2
  <2>. QED BY SMT, <1>2, <2>1 DEF CompactSizeHex
<1>3. ASSUME v >= 65536
      PROVE  CompactSizeHex(v) = <<254, v % 256, (v \div 256) % 256,
                                   (v \div 65536) % 256, v \div 16777216>>
  <2>1. ~(v < 253) /\ ~(v >= 253 /\ v < 65536)
    BY SMT, <1>3
  <2>. QED BY SMT, <2>1 DEF CompactSizeHex
<1>. QED BY SMT, <1>1, <1>2, <1>3

\* The widths of the forms that are written.
LEMMA Widths ==
    /\ \A v \in Nat : v < 253 => SizeWidth(v) = 1
    /\ SizeWidth(253) = 3
    /\ SizeWidth(254) = 5
<1>1. ASSUME NEW v \in Nat, v < 253 PROVE SizeWidth(v) = 1
  BY SMT, <1>1 DEF SizeWidth
<1>2. SizeWidth(253) = 3
  BY SMT DEF SizeWidth
<1>3. SizeWidth(254) = 5
  BY SMT DEF SizeWidth
<1>. QED BY SMT, <1>1, <1>2, <1>3

\* The longer forms: the digits of v to the base 256, behind 253 or 254.
TwoByteForm(size, v) ==
    \E a \in Nat, b \in Nat : size = <<253, a, b>> /\ v = a + 256 * b

FourByteForm(size, v) ==
    \E a \in Nat, b \in Nat, c \in Nat, d \in Nat :
       /\ size = <<254, a, b, c, d>>
       /\ v = a + 256 * b + 65536 * c + 16777216 * d

\* The longer forms hold the digits of the value to the base 256.
LEMMA CompactSizeDigits ==
    ASSUME NEW v \in Nat
    PROVE  /\ v >= 253 /\ v < 65536 => TwoByteForm(CompactSizeHex(v), v)
           /\ v >= 65536 => FourByteForm(CompactSizeHex(v), v)
<1>1. PICK a \in Nat, b \in Nat, c \in Nat, d \in Nat, e \in Nat :
          /\ a = v % 256
          /\ b = (v \div 256) % 256
          /\ c = (v \div 65536) % 256
          /\ d = v \div 16777216
          /\ e = v \div 256
  BY SMT
<1>2. v = a + 256 * e /\ v = a + 256 * b + 65536 * c + 16777216 * d
  BY SMT, <1>1
<1>3. ASSUME v >= 253 /\ v < 65536
      PROVE  TwoByteForm(CompactSizeHex(v), v)
  <2>1. CompactSizeHex(v) = <<253, a, e>>
    BY SMT, <1>1, <1>3, CompactSizeForms
  <2>. QED BY <1>2, <2>1 DEF TwoByteForm
<1>4. ASSUME v >= 65536
      PROVE  FourByteForm(CompactSizeHex(v), v)
  <2>1. CompactSizeHex(v) = <<254, a, b, c, d>>
    BY SMT, <1>1, <1>4, CompactSizeForms
  <2>. QED BY <1>2, <2>1 DEF FourByteForm
<1>. QED BY SMT, <1>3, <1>4

\* The bytes of a compact size are numbers, as many as its first one announces.
LEMMA CompactSizeShape ==
    ASSUME NEW v \in Nat
    PROVE  /\ CompactSizeHex(v) \in Seq(Nat)
           /\ Len(CompactSizeHex(v)) >= 1
           /\ Len(CompactSizeHex(v)) = SizeWidth(CompactSizeHex(v)[1])
           /\ CompactSizeHex(v)[1] # 255
<1>1. CASE v < 253
  <2>1. CompactSizeHex(v) = <<v>>
    BY SMT, <1>1, CompactSizeForms
  <2>. QED BY SMT, <1>1, <2>1, Widths
<1>2. CASE v >= 253 /\ v < 65536
  <2>1. PICK a \in Nat, b \in Nat : CompactSizeHex(v) = <<253, a, b>>
    <3>1. TwoByteForm(CompactSizeHex(v), v)
      BY SMT, <1>2, CompactSizeDigits
    <3>. QED BY <3>1 DEF TwoByteForm
  <2>. QED BY SMT, <2>1, Widths
<1>3. CASE v >= 65536
  <2>1. PICK size : size = CompactSizeHex(v)
    OBVIOUS
  <2>2. PICK a \in Nat, b \in Nat, c \in Nat, d \in Nat :
            /\ size = <<254, a, b, c, d>>
            /\ v = a + 256 * b + 65536 * c + 16777216 * d
    <3>1. FourByteForm(size, v)
      BY SMT, <1>3, <2>1, CompactSizeDigits
    <3>. QED BY <3>1 DEF FourByteForm
  <2>. QED BY SMT, <2>1, <2>2, Widths
<1>. QED BY SMT, <1>1, <1>2, <1>3

\* Reading the three forms.
LEMMA SizeValues ==
    ASSUME NEW t, NEW a \in Nat, NEW b \in Nat, NEW c \in Nat, NEW d \in Nat
    PROVE  /\ t[1] = a /\ a < 253 => SizeValue(t) = a
           /\ t[1] = 253 /\ t[2] = a /\ t[3] = b => SizeValue(t) = a + 256 * b
           /\ t[1] = 254 /\ t[2] = a /\ t[3] = b /\ t[4] = c /\ t[5] = d
                => SizeValue(t) = a + 256 * b + 65536 * c + 16777216 * d
<1>1. ASSUME t[1] = a, a < 253 PROVE SizeValue(t) = a
  <2>1. a # 253
    BY SMT, <1>1
  <2>. QED BY SMT, <1>1, <2>1 DEF SizeValue
<1>2. ASSUME t[1] = 253, t[2] = a, t[3] = b PROVE SizeValue(t) = a + 256 * b
  <2>1. ~(253 < 253)
    BY SMT
  <2>. QED BY SMT, <1>2, <2>1 DEF SizeValue
<1>3. ASSUME t[1] = 254, t[2] = a, t[3] = b, t[4] = c, t[5] = d
      PROVE  SizeValue(t) = a + 256 * b + 65536 * c + 16777216 * d
  <2>1. ~(254 < 253) /\ 254 # 253
    BY SMT
  <2>. QED BY SMT, <1>3, <2>1 DEF SizeValue
<1>. QED BY SMT, <1>1, <1>2, <1>3

\* Reading a compact size in front of anything gives the value written, in all
\* three forms.
LEMMA CompactSizeReadsBack ==
    ASSUME NEW v \in Nat, NEW s \in Seq(Nat)
    PROVE  SizeValue(CompactSizeHex(v) \o s) = v
<1>. DEFINE size == CompactSizeHex(v)
            t == size \o s
<1>1. size \in Seq(Nat) /\ Len(size) >= 1
  BY Zenon, CompactSizeShape
<1>. HIDE DEF size
<1>2. \A i \in 1 .. Len(size) + Len(s) :
          t[i] = IF i <= Len(size) THEN size[i] ELSE s[i - Len(size)]
  BY <1>1, ConcatProperties, Zenon
<1>. HIDE DEF t
<1>3. \A i \in 1 .. Len(size) : t[i] = size[i]
  <2>1. Len(size) \in Nat /\ Len(s) \in Nat
    BY <1>1, LenProperties, Zenon
  <2>2. \A i \in 1 .. Len(size) : i \in 1 .. Len(size) + Len(s) /\ i <= Len(size)
    BY SMT, <2>1
  <2>. QED BY Zenon, <1>2, <2>2
<1>4. SizeValue(t) = v
  <2>1. CASE v < 253
    <3>1. size = <<v>>
      BY SMT, <2>1, CompactSizeForms DEF size
    <3>2. t[1] = v
      BY SMT, <1>3, <3>1
    <3>. QED BY SMT, <2>1, <3>2, SizeValues
  <2>2. CASE v >= 253 /\ v < 65536
    <3>1. PICK a \in Nat, b \in Nat : size = <<253, a, b>> /\ v = a + 256 * b
      <4>1. TwoByteForm(size, v)
        BY SMT, <2>2, CompactSizeDigits DEF size
      <4>. QED BY <4>1 DEF TwoByteForm
    <3>2. t[1] = 253 /\ t[2] = a /\ t[3] = b
      BY SMT, <1>3, <3>1
    <3>. QED BY SMT, <3>1, <3>2, SizeValues
  <2>3. CASE v >= 65536
    <3>1. PICK a \in Nat, b \in Nat, c \in Nat, d \in Nat :
              /\ size = <<254, a, b, c, d>>
              /\ v = a + 256 * b + 65536 * c + 16777216 * d
      <4>1. FourByteForm(size, v)
        BY SMT, <2>3, CompactSizeDigits DEF size
      <4>. QED BY <4>1 DEF FourByteForm
    <3>2. t[1] = 254 /\ t[2] = a /\ t[3] = b /\ t[4] = c /\ t[5] = d
      BY SMT, <1>3, <3>1
    <3>. QED BY SMT, <3>1, <3>2, SizeValues
  <2>. QED BY SMT, <2>1, <2>2, <2>3
<1>. QED BY <1>4, Zenon DEF t, size

\* A body behind its own compact size is recognized and read back whole, at
\* every length (compactSizeHex against parseCompactSize).
THEOREM SizedReadsBack ==
    ASSUME NEW body \in Seq(Nat)
    PROVE  IsSized(Sized(body)) /\ AfterSize(Sized(body)) = body
<1>. DEFINE n == Len(body)
            size == CompactSizeHex(n)
<1>1. n \in Nat
  BY SMT
<1>2. /\ size \in Seq(Nat)
      /\ Len(size) >= 1
      /\ Len(size) = SizeWidth(size[1])
      /\ size[1] # 255
  BY SMT, <1>1, CompactSizeShape
<1>3. SizeValue(size \o body) = n
  BY SMT, <1>1, CompactSizeReadsBack
<1>4. Sized(body) = size \o body
  BY SMT DEF Sized
<1>. HIDE DEF size
<1>5. (size \o body)[1] = size[1] /\ Len(size \o body) = Len(size) + n
  BY SMT, <1>2
<1>6. IsSized(size \o body)
  BY SMT, <1>2, <1>3, <1>5 DEF IsSized, HasSize
<1>7. SubSeq(size \o body, Len(size) + 1, Len(size) + n) = body
  BY SMT, <1>2
<1>8. AfterSize(size \o body) = body
  BY SMTT(60), <1>2, <1>5, <1>7 DEF AfterSize
<1>. QED BY SMT, <1>4, <1>6, <1>8

\* Whether the miner sends its solution with its size or without, the verifier
\* is given the solution and nothing else; only a raw one that starts with its
\* own length is mistaken.
THEOREM SolutionRecovered ==
    ASSUME NEW raw \in Seq(Nat)
    PROVE  /\ RawSolutions(SolutionFields(Sized(raw))) = {raw}
           /\ ~IsSized(raw) => RawSolutions(SolutionFields(raw)) = {raw}
<1>1. IsSized(Sized(raw)) /\ AfterSize(Sized(raw)) = raw
  BY SMT, SizedReadsBack
<1>2. SolutionFields(Sized(raw)) = {Sized(raw)}
  BY SMT, <1>1 DEF SolutionFields
<1>3. ~IsSized(raw) => SolutionFields(raw) = {Sized(raw)}
  BY SMT DEF SolutionFields
<1>4. RawSolutions({Sized(raw)}) = {raw}
  BY SMT, <1>1 DEF RawSolutions
<1>. QED BY Zenon, <1>2, <1>3, <1>4

-----------------------------------------------------------------------------
\* Times.

\* Reversing eight digits twice gives them back.
LEMMA ReverseTwice ==
    ASSUME NEW h \in Seq(Digits), Len(h) = 8
    PROVE  ReverseHex(ReverseHex(h)) = h
<1>. DEFINE r == ReverseHex(h)
<1>1. r = [i \in 1 .. 8 |-> IF i % 2 = 1 THEN h[8 - i] ELSE h[8 + 2 - i]]
  BY Zenon DEF ReverseHex
<1>2. \A i \in 1 .. 8 : h[i] \in Digits
  BY ElementOfSeq, Zenon
<1>. HIDE DEF r
<1>3. r \in Seq(Digits) /\ Len(r) = 8
  BY <1>1, <1>2
<1>4. ReverseHex(r) = [i \in 1 .. 8 |-> IF i % 2 = 1 THEN r[8 - i] ELSE r[8 + 2 - i]]
  BY <1>3, Zenon DEF ReverseHex
<1>5. PICK q : q = ReverseHex(r)
  OBVIOUS
<1>6. \A i \in 1 .. 8 : q[i] = h[i]
  BY <1>1, <1>4, <1>5
<1>7. q \in Seq(Digits) /\ Len(q) = 8
  <2>1. q = [i \in 1 .. 8 |-> q[i]]
    BY <1>4, <1>5
  <2>. QED BY <1>2, <1>6, <2>1
<1>8. q = h
  BY <1>6, <1>7, SeqEqual, Zenon
<1>. QED BY <1>5, <1>8, Zenon DEF r

\* A header's time is among the candidates in whichever byte order it is sent.
THEOREM TimeFound ==
    ASSUME NEW time \in Seq(Digits), Len(time) = 8, NEW jobTime
    PROVE  /\ time \in HeaderTimeCandidates(time, jobTime)
           /\ time \in HeaderTimeCandidates(ReverseHex(time), jobTime)
BY ReverseTwice DEF HeaderTimeCandidates

-----------------------------------------------------------------------------
\* Nonces.

\* An inserted extranonce1 lengthens a nonce by its own digits.
LEMMA InsertedShape ==
    ASSUME NEW h \in Seq(Digits), NEW extra \in Seq(Digits), NEW i \in 0 .. Len(h)
    PROVE  /\ InsertedAt(h, extra, i) \in Seq(Digits)
           /\ Len(InsertedAt(h, extra, i)) = Len(h) + Len(extra)
<1>. DEFINE front == SubSeq(h, 1, i)
            back  == SubSeq(h, i + 1, Len(h))
<1>1. front \in Seq(Digits) /\ Len(front) = i
  BY SMTT(60)
<1>2. back \in Seq(Digits) /\ Len(back) = Len(h) - i
  BY SMTT(60)
<1>3. InsertedAt(h, extra, i) = (front \o extra) \o back
  BY DEF InsertedAt
<1>. HIDE DEF front, back
<1>4. front \o extra \in Seq(Digits) /\ Len(front \o extra) = i + Len(extra)
  BY <1>1, ConcatProperties, Zenon
<1>5. /\ (front \o extra) \o back \in Seq(Digits)
      /\ Len((front \o extra) \o back) = Len(front \o extra) + Len(back)
  BY <1>2, <1>4, ConcatProperties, Zenon
<1>6. Len(front \o extra) + Len(back) = Len(h) + Len(extra)
  <2>1. Len(extra) \in Nat /\ Len(h) \in Nat
    BY LenProperties, Zenon
  <2>. QED BY SMT, <1>2, <1>4, <2>1
<1>. QED BY <1>3, <1>5, <1>6, Zenon

\* Both fills have the digits of a header's nonce.
LEMMA FilledShape ==
    ASSUME NEW h \in Seq(Digits), Len(h) <= NonceDigits, NEW c \in Filled(h)
    PROVE  c \in Seq(Digits) /\ Len(c) = NonceDigits
<1>. DEFINE zeros == Zeros(NonceDigits - Len(h))
<1>1. NonceDigits - Len(h) \in Nat /\ NonceDigits \in Nat /\ Len(h) \in Nat
  BY EncodingAssumption
<1>2. zeros \in Seq(Digits) /\ Len(zeros) = NonceDigits - Len(h)
  BY <1>1 DEF Zeros
<1>3. c = zeros \o h \/ c = h \o zeros
  BY DEF Filled
<1>. HIDE DEF zeros
<1>4. /\ zeros \o h \in Seq(Digits) /\ Len(zeros \o h) = Len(zeros) + Len(h)
      /\ h \o zeros \in Seq(Digits) /\ Len(h \o zeros) = Len(h) + Len(zeros)
  BY <1>2, ConcatProperties, Zenon
<1>5. Len(zeros) + Len(h) = NonceDigits /\ Len(h) + Len(zeros) = NonceDigits
  BY <1>1, <1>2
<1>. QED BY <1>3, <1>4, <1>5, Zenon

\* Every candidate fills the header's nonce field exactly, whatever was sent.
THEOREM CandidatesFit ==
    ASSUME NEW h \in Seq(Digits), NEW extra \in Seq(Digits),
           NEW c \in NonceCandidates(h, extra)
    PROVE  c \in Seq(Digits) /\ Len(c) = NonceDigits
<1>1. Len(h) <= NonceDigits
  BY EncodingAssumption DEF NonceCandidates
<1>2. CASE Len(h) = NonceDigits
  BY <1>1, <1>2 DEF NonceCandidates
<1>3. CASE c \in Insertions(h, extra) /\ Len(extra) = ExtraDigits
           /\ Len(h) + ExtraDigits = NonceDigits
  <2>1. PICK p \in 0 .. NonceDigits : 2 * p <= Len(h) /\ c = InsertedAt(h, extra, 2 * p)
    BY <1>3 DEF Insertions
  <2>2. 2 * p \in 0 .. Len(h)
    BY <2>1, EncodingAssumption
  <2>. QED BY <1>3, <2>1, <2>2, InsertedShape
<1>4. CASE c \in Filled(h)
  BY <1>1, <1>4, FilledShape
<1>. QED BY <1>1, <1>2, <1>3, <1>4 DEF NonceCandidates

\* A nonce with extranonce1 at one of the tried positions is found again when
\* it is sent without it (normalizeNonceCandidates).
THEOREM InsertionFound ==
    ASSUME NEW full \in Seq(Digits), Len(full) = NonceDigits,
           NEW p \in Nat, p < Inserts, 2 * p + ExtraDigits <= NonceDigits,
           (NonceDigits - ExtraDigits) % 2 = 0
    PROVE  full \in NonceCandidates(
                      SubSeq(full, 1, 2 * p)
                        \o SubSeq(full, 2 * p + ExtraDigits + 1, NonceDigits),
                      SubSeq(full, 2 * p + 1, 2 * p + ExtraDigits))
<1>. DEFINE front == SubSeq(full, 1, 2 * p)
            extra == SubSeq(full, 2 * p + 1, 2 * p + ExtraDigits)
            back  == SubSeq(full, 2 * p + ExtraDigits + 1, NonceDigits)
            sent  == front \o back
<1>0. ExtraDigits \in Nat \ {0} /\ NonceDigits \in Nat \ {0} /\ Inserts \in Nat
  BY EncodingAssumption
<1>1. front \in Seq(Digits) /\ Len(front) = 2 * p
  BY <1>0
<1>2. extra \in Seq(Digits) /\ Len(extra) = ExtraDigits
  BY <1>0
<1>3. back \in Seq(Digits) /\ Len(back) = NonceDigits - 2 * p - ExtraDigits
  BY <1>0
<1>4. full = front \o extra \o back
  BY <1>0
<1>. HIDE DEF front, extra, back
<1>5. sent \in Seq(Digits) /\ Len(sent) = NonceDigits - ExtraDigits
  BY <1>0, <1>1, <1>3
<1>6. SubSeq(sent, 1, 2 * p) = front
  BY <1>0, <1>1, <1>3
<1>7. SubSeq(sent, 2 * p + 1, Len(sent)) = back
  BY <1>0, <1>1, <1>3
<1>8. InsertedAt(sent, extra, 2 * p) = full
  BY <1>4, <1>6, <1>7 DEF InsertedAt
<1>9. full \in Insertions(sent, extra)
  <2>1. p \in 0 .. NonceDigits /\ 2 * p <= Len(sent)
    BY <1>0, <1>5
  <2>. QED BY <1>8, <2>1 DEF Insertions
<1>10. full \in NonceCandidates(sent, extra)
  BY <1>0, <1>2, <1>5, <1>9 DEF NonceCandidates
<1>. QED BY <1>10 DEF front, extra, back

\* A nonce whose zeros were cut off, at either end, is found again as long as
\* MinDigits of it are left.
THEOREM FillFound ==
    ASSUME NEW full \in Seq(Digits), Len(full) = NonceDigits,
           NEW z \in 1 .. NonceDigits, NonceDigits - z >= MinDigits,
           (NonceDigits - z) % 2 = 0, NEW extra
    PROVE  /\ (\A i \in 1 .. z : full[i] = 0)
                => full \in NonceCandidates(SubSeq(full, z + 1, NonceDigits), extra)
           /\ (\A i \in NonceDigits - z + 1 .. NonceDigits : full[i] = 0)
                => full \in NonceCandidates(SubSeq(full, 1, NonceDigits - z), extra)
<1>0. NonceDigits \in Nat \ {0} /\ MinDigits \in Nat
  BY EncodingAssumption
<1>1. ASSUME NEW h \in Seq(Digits), Len(h) = NonceDigits - z, full \in Filled(h)
      PROVE  full \in NonceCandidates(h, extra)
  BY <1>0, <1>1 DEF NonceCandidates
<1>2. ASSUME \A i \in 1 .. z : full[i] = 0
      PROVE  full \in NonceCandidates(SubSeq(full, z + 1, NonceDigits), extra)
  <2>. DEFINE h == SubSeq(full, z + 1, NonceDigits)
  <2>1. h \in Seq(Digits) /\ Len(h) = NonceDigits - z
    BY <1>0
  <2>2. Zeros(z) \in Seq(Digits) /\ Len(Zeros(z)) = z
    BY <1>0 DEF Zeros
  <2>3. \A i \in 1 .. NonceDigits : (Zeros(z) \o h)[i] = full[i]
    BY <1>0, <1>2, <2>1, <2>2 DEF Zeros
  <2>4. full = Zeros(z) \o h
    <3>1. /\ Zeros(z) \o h \in Seq(Digits)
          /\ Len(Zeros(z) \o h) = NonceDigits
      BY <1>0, <2>1, <2>2
    <3>. HIDE DEF h
    <3>. QED BY <2>3, <3>1, SeqEqual, Zenon
  <2>5. NonceDigits - Len(h) = z
    BY <1>0, <2>1
  <2>6. full \in Filled(h)
    BY <2>4, <2>5 DEF Filled
  <2>. QED BY <1>1, <2>1, <2>6
<1>3. ASSUME \A i \in NonceDigits - z + 1 .. NonceDigits : full[i] = 0
      PROVE  full \in NonceCandidates(SubSeq(full, 1, NonceDigits - z), extra)
  <2>. DEFINE h == SubSeq(full, 1, NonceDigits - z)
  <2>1. h \in Seq(Digits) /\ Len(h) = NonceDigits - z
    BY <1>0
  <2>2. Zeros(z) \in Seq(Digits) /\ Len(Zeros(z)) = z
    BY <1>0 DEF Zeros
  <2>3. \A i \in 1 .. NonceDigits : (h \o Zeros(z))[i] = full[i]
    BY <1>0, <1>3, <2>1, <2>2 DEF Zeros
  <2>4. full = h \o Zeros(z)
    <3>1. /\ h \o Zeros(z) \in Seq(Digits)
          /\ Len(h \o Zeros(z)) = NonceDigits
      BY SMTT(60), <1>0, <2>1, <2>2
    <3>. HIDE DEF h
    <3>. QED BY <2>3, <3>1, SeqEqual, Zenon
  <2>5. NonceDigits - Len(h) = z
    BY <1>0, <2>1
  <2>6. full \in Filled(h)
    BY <2>4, <2>5 DEF Filled
  <2>. QED BY <1>1, <2>1, <2>6
<1>. QED BY <1>2, <1>3

-----------------------------------------------------------------------------
\* Induction over a number.

\* A set of naturals that is not empty has a least element: what induction over
\* a number rests on.
LEMMA LeastNat ==
  ASSUME NEW T, T \subseteq Nat, T # {}
  PROVE  \E x \in T : \A y \in T : x <= y
<1> DEFINE U == {0 .. x : x \in T}
<1>1. U \subseteq FiniteSubsetsOf(Nat) /\ U # {}
  <2>1. \A x \in T : IsFiniteSet(0 .. x) /\ 0 .. x \subseteq Nat
    BY FS_Interval
  <2> QED BY <2>1 DEF FiniteSubsetsOf
<1> HIDE DEF U
<1>2. PICK u \in U : \A v \in U : ~(<<v, u>> \in StrictSubsetOrdering(Nat))
  BY <1>1, FS_StrictSubsetOrderingWellFounded, WFMin
<1>3. PICK x \in T : u = 0 .. x
  BY DEF U
<1>4. ASSUME NEW y \in T, y < x PROVE FALSE
  <2>1. 0 .. y \in U /\ 0 .. y \subseteq Nat /\ 0 .. x \subseteq Nat
    BY <1>4 DEF U
  <2>2. 0 .. y \subseteq 0 .. x /\ x \in 0 .. x /\ x \notin 0 .. y
    BY <1>4
  <2> QED BY <1>2, <1>3, <2>1, <2>2 DEF StrictSubsetOrdering
<1> QED BY <1>4


-----------------------------------------------------------------------------
\* Division, with the products hidden behind names: the provers do not look for
\* instances of facts that multiply.

Positive == Nat \ {0}
Product(big, m, g) == big = m * g
Splits(a, k, q, r) == a = k * q + r /\ r < k

\* A quotient and a remainder are the only ones.
LEMMA DivUnique ==
    ASSUME NEW a \in Nat, NEW k \in Positive, NEW q \in Nat, NEW r \in Nat, Splits(a, k, q, r)
    PROVE  a \div k = q /\ a % k = r
BY SMT DEF Positive, Splits

\* Division splits a number.
LEMMA DivSplit ==
    ASSUME NEW a \in Nat, NEW k \in Positive
    PROVE  Splits(a, k, a \div k, a % k) /\ a \div k \in Nat /\ a % k \in Nat
BY SMT DEF Positive, Splits

\* Dividing twice is dividing by the product.
LEMMA DivDiv ==
    ASSUME NEW a \in Nat, NEW big \in Positive, NEW m \in Positive, NEW g \in Positive,
           Product(big, m, g)
    PROVE  a \div big = (a \div g) \div m
<1>1. PICK n \in Nat, r \in Nat : Splits(a, g, n, r) /\ n = a \div g
  BY DivSplit
<1>2. PICK h \in Nat, s \in Nat : Splits(n, m, h, s) /\ h = n \div m
  BY DivSplit
<1>3. PICK e \in Nat : e = g * s + r
  BY SMT DEF Positive
<1>4. Splits(a, big, h, e)
  <2>1. a = g * n + r /\ r < g /\ n = m * h + s /\ s < m
    BY <1>1, <1>2 DEF Splits
  <2>2. PICK u \in Nat, v \in Nat, x \in Nat : u = big * h /\ v = g * s /\ x = g * n
    BY SMT DEF Positive
  <2>3. x = u + v
    <3>1. x = g * (m * h) + g * s
      BY SMT, <2>1, <2>2 DEF Positive
    <3>2. u = g * (m * h)
      BY SMT, <2>2 DEF Positive, Product
    <3> QED BY <2>2, <3>1, <3>2
  <2>4. a = u + e
    BY SMT, <1>3, <2>1, <2>2, <2>3
  <2>5. e < big
    <3>1. e < g * (s + 1)
      BY SMT, <1>3, <2>1 DEF Positive
    <3>2. \A y, z \in Nat : y <= z => g * y <= g * z
      BY SMT DEF Positive
    <3>3. g * (s + 1) <= g * m
      BY SMT, <2>1, <3>2 DEF Positive
    <3>4. big = g * m /\ g * (s + 1) \in Nat
      BY SMT DEF Positive, Product
    <3> QED BY SMT, <3>1, <3>3, <3>4 DEF Positive
  <2> QED BY <2>2, <2>4, <2>5 DEF Splits
<1>5. a \div big = h
  BY Zenon, <1>4, DivUnique
<1> QED BY <1>1, <1>2, <1>5, Zenon

\* A remainder of a remainder, when one divisor divides the other.
LEMMA ModMod ==
    ASSUME NEW a \in Nat, NEW big \in Positive, NEW m \in Positive, NEW g \in Positive,
           Product(big, m, g)
    PROVE  (a % big) % g = a % g
<1>1. PICK n \in Nat, r \in Nat : Splits(a, big, n, r) /\ r = a % big
  BY DivSplit
<1>2. PICK h \in Nat, s \in Nat : Splits(r, g, h, s) /\ s = r % g
  BY DivSplit
<1>3. PICK k \in Nat : k = m * n + h
  BY SMT DEF Positive
<1>4. Splits(a, g, k, s)
  <2>1. a = big * n + r /\ r = g * h + s /\ s < g
    BY <1>1, <1>2 DEF Splits
  <2>2. PICK u \in Nat, v \in Nat, x \in Nat : u = big * n /\ v = g * h /\ x = g * k
    BY SMT DEF Positive
  <2>3. x = u + v
    <3>1. x = g * (m * n) + g * h
      BY SMT, <1>3, <2>2 DEF Positive
    <3>2. u = g * (m * n)
      BY SMT, <2>2 DEF Positive, Product
    <3> QED BY <2>2, <3>1, <3>2
  <2>4. a = x + s
    BY SMT, <2>1, <2>2, <2>3
  <2> QED BY <2>1, <2>2, <2>4 DEF Splits
<1>5. a % g = s
  BY Zenon, <1>4, DivUnique
<1> QED BY <1>1, <1>2, <1>5, Zenon

\* The powers of two up to the width of the accumulator, as an operator of its own
\* for the provers' sake.
Pow2(i) == 2 ^ i

\* The powers of two a uint32_t can hold, and the next one.
LEMMA PowersOfTwo ==
   /\ Pow2(0) = 1 /\ Pow2(1) = 2 /\ Pow2(2) = 4 /\ Pow2(3) = 8
   /\ Pow2(4) = 16 /\ Pow2(5) = 32 /\ Pow2(6) = 64 /\ Pow2(7) = 128
   /\ Pow2(8) = 256 /\ Pow2(9) = 512 /\ Pow2(10) = 1024 /\ Pow2(11) = 2048
   /\ Pow2(12) = 4096 /\ Pow2(13) = 8192 /\ Pow2(14) = 16384 /\ Pow2(15) = 32768
   /\ Pow2(16) = 65536 /\ Pow2(17) = 131072 /\ Pow2(18) = 262144 /\ Pow2(19) = 524288
   /\ Pow2(20) = 1048576 /\ Pow2(21) = 2097152 /\ Pow2(22) = 4194304 /\ Pow2(23) = 8388608
   /\ Pow2(24) = 16777216 /\ Pow2(25) = 33554432 /\ Pow2(26) = 67108864 /\ Pow2(27) = 134217728
   /\ Pow2(28) = 268435456 /\ Pow2(29) = 536870912 /\ Pow2(30) = 1073741824 /\ Pow2(31) = 2147483648
   /\ Pow2(32) = 4294967296
BY SMT DEF Pow2

\* Each is twice the one before.
LEMMA Doubles == \A i \in 0 .. 31 : Pow2(i) \in Positive /\ Pow2(i + 1) = 2 * Pow2(i)
<1>1. \A i \in 0 .. 15 : Pow2(i) \in Positive /\ Pow2(i + 1) = 2 * Pow2(i)
  BY SMT, PowersOfTwo DEF Positive
<1>2. \A i \in 16 .. 31 : Pow2(i) \in Positive /\ Pow2(i + 1) = 2 * Pow2(i)
  BY SMT, PowersOfTwo DEF Positive
<1> QED BY SMT, <1>1, <1>2

\* Two indices next to each other take up to 42 bits.
Pow(i) == IF i <= 21 THEN Pow2(i) ELSE Pow2(21) * Pow2(i - 21)

\* So are the powers up to twice the bits of an index.
LEMMA PowDoubles == \A i \in 0 .. 42 : Pow(i) \in Positive /\ Pow(i + 1) = 2 * Pow(i)
<1>1. ASSUME NEW i \in 0 .. 20 PROVE Pow(i) \in Positive /\ Pow(i + 1) = 2 * Pow(i)
  BY SMT, Doubles DEF Pow
<1>0. PICK w \in Positive : w = Pow2(21)
  BY SMT, Doubles
<1>2. ASSUME NEW i \in 21 .. 42 PROVE Pow(i) \in Positive /\ Pow(i + 1) = 2 * Pow(i)
  <2>1. PICK j \in 0 .. 21 : j = i - 21 /\ (i + 1) - 21 = j + 1
    BY SMT
  <2>2. Pow(i) = w * Pow2(j)
    <3>1. CASE i = 21
      BY SMT, <1>0, <2>1, <3>1, PowersOfTwo DEF Pow, Positive
    <3>2. CASE i # 21
      BY SMT, <1>0, <2>1, <3>2 DEF Pow
    <3> QED BY <3>1, <3>2
  <2>3. Pow(i + 1) = w * Pow2(j + 1)
    BY SMT, <1>0, <2>1 DEF Pow
  <2>4. Pow2(j) \in Positive /\ Pow2(j + 1) = 2 * Pow2(j)
    BY SMT, <2>1, Doubles
  <2> QED BY SMT, <2>2, <2>3, <2>4 DEF Positive
<1> QED BY SMT, <1>1, <1>2

\* None of them is zero.
LEMMA PowPositive == \A i \in 0 .. 43 : Pow(i) \in Positive
<1>1. \A i \in 0 .. 42 : Pow(i) \in Positive
  BY PowDoubles
<1>2. Pow(42 + 1) = 2 * Pow(42) /\ Pow(42) \in Positive
  BY SMT, PowDoubles
<1>3. 42 + 1 = 43
  BY SMT
<1>4. Pow(43) \in Positive
  BY SMT, <1>2, <1>3 DEF Positive
<1> QED BY SMT, <1>1, <1>4

\* The power of a sum of exponents is the product of the powers.
LEMMA PowAdds ==
    ASSUME NEW i \in Nat, NEW j \in Nat, i + j <= 43
    PROVE  Product(Pow(i + j), Pow(i), Pow(j))
<1>0. Pow(0) = 1
  BY SMT, PowersOfTwo DEF Pow
<1>. DEFINE T == {x \in Nat : \E k \in Nat : k + x <= 43 /\ Pow(k + x) # Pow(k) * Pow(x)}
<1>2. CASE T = {}
  BY <1>2 DEF Product
<1>3. CASE T # {}
  <2>1. PICK x \in T : \A y \in T : x <= y
    BY <1>3, LeastNat
  <2>2. PICK k \in Nat : k + x <= 43 /\ Pow(k + x) # Pow(k) * Pow(x)
    BY <2>1
  <2>3. x # 0
    BY SMT, <2>1, <2>2, <1>0, PowPositive DEF Positive
  <2>4. PICK y \in Nat : x = y + 1
    BY <2>1, <2>3
  <2>5. Pow(k + y) = Pow(k) * Pow(y)
    BY <2>1, <2>2, <2>4
  <2>. HIDE DEF T
  <2>6. /\ Pow(y + 1) = 2 * Pow(y) /\ Pow((k + y) + 1) = 2 * Pow(k + y)
        /\ Pow(y) \in Nat /\ Pow(k) \in Nat
    <3>1. y \in 0 .. 42 /\ k + y \in 0 .. 42 /\ k \in 0 .. 43 /\ y \in 0 .. 43
      BY SMT, <2>2, <2>4
    <3> QED BY <3>1, PowDoubles, PowPositive DEF Positive
  <2>7. (k + y) + 1 = k + x
    BY SMT, <2>4
  <2> QED BY SMT, <2>2, <2>4, <2>5, <2>6, <2>7
<1> QED BY <1>2, <1>3

\* Eight bits make the last byte of a number.
LEMMA EightBits ==
    ASSUME NEW n \in Nat
    PROVE  128 * ((n \div 128) % 2) + 64 * ((n \div 64) % 2) + 32 * ((n \div 32) % 2)
           + 16 * ((n \div 16) % 2) + 8 * ((n \div 8) % 2) + 4 * ((n \div 4) % 2)
           + 2 * ((n \div 2) % 2) + (n % 2) = n % 256
<1>1. \A m \in Nat : m % 2 = m - 2 * (m \div 2)
  BY SMT
<1>2. /\ n \div 4 = (n \div 2) \div 2 /\ n \div 8 = (n \div 4) \div 2
      /\ n \div 16 = (n \div 8) \div 2 /\ n \div 32 = (n \div 16) \div 2
      /\ n \div 64 = (n \div 32) \div 2 /\ n \div 128 = (n \div 64) \div 2
      /\ n \div 256 = (n \div 128) \div 2
  BY SMT
<1>3. n % 256 = n - 256 * (n \div 256)
  BY SMT
<1> QED BY SMT, <1>1, <1>2, <1>3


\* Bit o of two indices side by side is bit o of the first or bit o - 21 of the
\* second.
LEMMA PairBit ==
    ASSUME NEW I \in Nat, NEW J \in Nat, J < Pow2(21), NEW o \in 0 .. 41,
           NEW M \in Nat, M = I * Pow2(21) + J
    PROVE  (M \div Pow(41 - o)) % 2
             = IF o <= 20 THEN (I \div Pow2(20 - o)) % 2 ELSE (J \div Pow2(41 - o)) % 2
<1>0. PICK w \in Positive : w = Pow2(21) /\ w = Pow(21)
  BY SMT, Doubles DEF Pow
<1>2. CASE o <= 20
  <2>1. PICK e \in 0 .. 20 : e = 20 - o /\ e + 21 = 41 - o
    BY SMT, <1>2
  <2>2. PICK p \in Positive, big \in Positive : p = Pow(e) /\ p = Pow2(e) /\ big = Pow(41 - o)
    <3>1. 41 - o \in 0 .. 42 /\ e \in 0 .. 42 /\ e <= 21
      BY SMT
    <3> QED BY <3>1, PowDoubles DEF Pow
  <2>3. Product(big, p, w)
    <3>1. Product(Pow(e + 21), Pow(e), Pow(21))
      <4>1. e \in Nat /\ 21 \in Nat /\ e + 21 <= 43
        BY SMT
      <4> QED BY PowAdds, <4>1, Zenon
    <3> QED BY Zenon, <1>0, <2>1, <2>2, <3>1
  <2>4. M \div w = I
    <3>1. Splits(M, w, I, J)
      BY SMT, <1>0 DEF Splits, Positive
    <3> QED BY Zenon, <3>1, DivUnique
  <2>5. M \div big = (M \div w) \div p
    BY <2>3, DivDiv
  <2> QED BY Zenon, <1>2, <2>1, <2>2, <2>4, <2>5
<1>3. CASE ~(o <= 20)
  <2>1. PICK e \in 0 .. 20 : e = 41 - o
    BY SMT, <1>3
  <2>2. PICK p \in Positive : p = Pow(e) /\ p = Pow2(e)
    BY SMT, <2>1, PowDoubles DEF Pow
  <2>3. PICK f \in 0 .. 20 : f = 20 - e /\ (f + 1) + e = 21
    BY SMT, <2>1
  <2>4. PICK g \in Positive : g = Pow(f) /\ Pow(f + 1) = 2 * g
    BY PowDoubles
  <2>5. Product(w, 2 * g, p)
    <3>1. Product(Pow((f + 1) + e), Pow(f + 1), Pow(e))
      <4>1. f + 1 \in Nat /\ e \in Nat /\ (f + 1) + e <= 43
        BY SMT, <2>3
      <4> QED BY PowAdds, <4>1, Zenon
    <3> QED BY Zenon, <1>0, <2>2, <2>3, <2>4, <3>1
  <2>6. PICK j \in Nat, r \in Nat : Splits(J, p, j, r) /\ j = J \div p
    BY DivSplit
  <2>7. PICK c \in Nat, i \in Nat : c = g * I /\ i = 2 * c + j
    BY SMT DEF Positive
  <2>8. Splits(M, p, i, r)
    <3>1. J = p * j + r /\ r < p
      BY <2>6 DEF Splits
    <3>2. PICK u \in Nat, v \in Nat, x \in Nat : u = p * (2 * c) /\ v = p * j /\ x = p * i
      BY SMT DEF Positive
    <3>3. I * w = u
      BY SMT, <2>5, <2>7, <3>2 DEF Positive, Product
    <3>4. x = u + v
      BY SMT, <2>7, <3>2 DEF Positive
    <3>5. M = x + r
      BY SMT, <1>0, <3>1, <3>2, <3>3, <3>4
    <3> QED BY Zenon, <3>1, <3>2, <3>5 DEF Splits
  <2>9. M \div p = i
    BY Zenon, <2>8, DivUnique
  <2>10. i % 2 = j % 2
    BY SMT, <2>7
  <2> QED BY Zenon, <1>3, <2>1, <2>2, <2>6, <2>9, <2>10
<1> QED BY Zenon, <1>2, <1>3

\* Most significant bit first.
ByteOf(bit) == 128 * bit[0] + 64 * bit[1] + 32 * bit[2] + 16 * bit[3]
               + 8 * bit[4] + 4 * bit[5] + 2 * bit[6] + bit[7]

\* Eight bits from bit b on make the byte that starts there.
LEMMA PairByte ==
    ASSUME NEW M \in Nat, NEW b \in 0 .. 20,
           NEW bit, \A k \in 0 .. 7 : bit[k] = (M \div Pow(41 - (b + k))) % 2
    PROVE  ByteOf(bit) = (M \div Pow(34 - b)) % 256
<1>1. PICK g \in Positive : g = Pow(34 - b)
  <2>1. 34 - b \in 0 .. 42
    BY SMT
  <2> QED BY <2>1, PowDoubles
<1>2. PICK n \in Nat : n = M \div g
  BY DivSplit
<1>3. ASSUME NEW k \in 0 .. 7
      PROVE  bit[k] = (n \div Pow2(7 - k)) % 2
  <2>1. PICK e \in 0 .. 7 : e = 7 - k /\ 41 - (b + k) = e + (34 - b)
    BY SMT
  <2>2. PICK p \in Positive, big \in Positive : p = Pow(e) /\ p = Pow2(e) /\ big = Pow(41 - (b + k))
    <3>1. 41 - (b + k) \in 0 .. 42 /\ e \in 0 .. 42 /\ e <= 21
      BY SMT
    <3> QED BY <3>1, PowDoubles DEF Pow
  <2>3. Product(Pow(e + (34 - b)), Pow(e), Pow(34 - b))
    <3>1. e \in Nat /\ 34 - b \in Nat /\ e + (34 - b) <= 43
      BY SMT
    <3> QED BY PowAdds, <3>1, Zenon
  <2>4. Product(big, p, g)
    BY Zenon, <1>1, <2>1, <2>2, <2>3
  <2>5. M \div big = (M \div g) \div p
    BY <2>4, DivDiv
  <2>6. bit[k] = (M \div Pow(41 - (b + k))) % 2
    OBVIOUS
  <2> QED BY Zenon, <1>2, <2>1, <2>2, <2>5, <2>6
<1>4. /\ bit[0] = (n \div 128) % 2 /\ bit[1] = (n \div 64) % 2
      /\ bit[2] = (n \div 32) % 2 /\ bit[3] = (n \div 16) % 2
      /\ bit[4] = (n \div 8) % 2 /\ bit[5] = (n \div 4) % 2
      /\ bit[6] = (n \div 2) % 2 /\ bit[7] = n % 2
  <2>1. /\ bit[0] = (n \div Pow2(7)) % 2 /\ bit[1] = (n \div Pow2(6)) % 2
        /\ bit[2] = (n \div Pow2(5)) % 2 /\ bit[3] = (n \div Pow2(4)) % 2
        /\ bit[4] = (n \div Pow2(3)) % 2 /\ bit[5] = (n \div Pow2(2)) % 2
        /\ bit[6] = (n \div Pow2(1)) % 2 /\ bit[7] = (n \div Pow2(0)) % 2
    BY SMT, <1>3
  <2>2. n \div 1 = n
    BY SMT
  <2>3. /\ Pow2(0) = 1 /\ Pow2(1) = 2 /\ Pow2(2) = 4 /\ Pow2(3) = 8 /\ Pow2(4) = 16
        /\ Pow2(5) = 32 /\ Pow2(6) = 64 /\ Pow2(7) = 128
    BY SMT, PowersOfTwo
  <2> QED BY <2>1, <2>2, <2>3
<1>5. ByteOf(bit) = n % 256
  <2>1. 128 * ((n \div 128) % 2) + 64 * ((n \div 64) % 2) + 32 * ((n \div 32) % 2)
           + 16 * ((n \div 16) % 2) + 8 * ((n \div 8) % 2) + 4 * ((n \div 4) % 2)
           + 2 * ((n \div 2) % 2) + (n % 2) = n % 256
    BY Zenon, EightBits
  <2> QED BY ZenonT(60), <1>4, <2>1 DEF ByteOf
<1> QED BY Zenon, <1>1, <1>2, <1>5

\* What the accumulator holds of two indices after eight more bits of them.
LEMMA PairShift ==
    ASSUME NEW M \in Nat, NEW V \in Nat, NEW b \in 0 .. 20,
           V % Pow(b) = M \div Pow(42 - b), NEW y \in Nat, y = (M \div Pow(34 - b)) % 256,
           NEW a \in Nat, a = V * 256 + y
    PROVE  (a % Pow(32)) % Pow(b + 8) = M \div Pow(34 - b)
<1>1. PICK g \in Positive, p \in Positive, q \in Positive, c \in Positive, d \in Positive, w \in Positive :
        /\ g = Pow(34 - b) /\ p = Pow(b) /\ q = Pow(b + 8) /\ c = Pow(42 - b) /\ d = Pow(24 - b)
        /\ w = Pow(32)
  <2>1. 34 - b \in 0 .. 42 /\ b \in 0 .. 42 /\ b + 8 \in 0 .. 42 /\ 42 - b \in 0 .. 42 /\ 24 - b \in 0 .. 42 /\ 32 \in 0 .. 42
    BY SMT
  <2> QED BY <2>1, PowDoubles
<1>2. Pow(8) = 256 /\ 256 \in Positive
  BY SMT, PowersOfTwo DEF Pow, Positive
<1>3. Product(q, 256, p)
  <2>1. 8 \in Nat /\ b \in Nat /\ 8 + b <= 43 /\ 8 + b = b + 8
    BY SMT
  <2> QED BY <1>1, <1>2, <2>1, PowAdds
<1>4. Product(c, 256, g)
  <2>1. 8 \in Nat /\ 34 - b \in Nat /\ 8 + (34 - b) <= 43 /\ 8 + (34 - b) = 42 - b
    BY SMT
  <2> QED BY <1>1, <1>2, <2>1, PowAdds
<1>5. Product(w, d, q)
  <2>1. 24 - b \in Nat /\ b + 8 \in Nat /\ (24 - b) + (b + 8) <= 43 /\ (24 - b) + (b + 8) = 32
    BY SMT
  <2> QED BY Zenon, <1>1, <2>1, PowAdds
<1>6. PICK n \in Nat, h \in Nat : n = M \div g /\ h = n \div 256 /\ n = 256 * h + y /\ y < 256
  <2>1. PICK n \in Nat : n = M \div g
    BY DivSplit
  <2>2. PICK h \in Nat : h = n \div 256
    BY SMT
  <2>3. PICK r \in 0 .. 255 : r = n % 256 /\ n = 256 * h + r /\ r < 256
    BY SMT, <2>2
  <2>4. y = r
    BY Zenon, <1>1, <2>1, <2>3
  <2> QED BY <2>1, <2>2, <2>3, <2>4
<1>7. h = V % p
  <2>1. M \div c = (M \div g) \div 256
    BY <1>2, <1>4, DivDiv
  <2> QED BY ZenonT(60), <1>1, <1>6, <2>1
<1>8. PICK v \in Nat : V = p * v + h /\ h < p
  BY <1>7, DivSplit DEF Splits
<1>9. Splits(a, q, v, n)
  <2>1. PICK z \in Nat : z = p * v
    BY SMT DEF Positive
  <2>2. q * v = 256 * z /\ q = 256 * p
    BY SMT, <1>3, <2>1 DEF Product, Positive
  <2>3. a = 256 * z + n
    BY SMT, <1>6, <1>8, <2>1
  <2>4. n < 256 * p
    BY SMT, <1>6, <1>8 DEF Positive
  <2> QED BY ZenonT(60), <2>2, <2>3, <2>4 DEF Splits
<1>12. a % q = n
  BY <1>9, DivUnique
<1>13. (a % w) % q = a % q
  BY <1>5, ModMod
<1> QED BY ZenonT(60), <1>1, <1>6, <1>12, <1>13

\* The number in the accumulator.
Value(acc) == acc.hi * Pow2(16) + acc.lo

\* A half is a number below 2^16.
LEMMA InHalf == \A x \in Nat : x \in Half <=> x < Pow2(16)
BY SMT, PowersOfTwo DEF Half, Pow2

\* The accumulator after a byte is shifted in.
ShiftIs(old, byte, new) == Value(new) = (Value(old) * 256 + byte) % Pow(32)

\* Shifting a byte in multiplies by 256, adds the byte and loses what a uint32_t
\* cannot hold.
LEMMA ShiftInValue ==
    ASSUME NEW acc \in Halves, NEW byte \in 0 .. 255
    PROVE  /\ ShiftIn(acc, byte) \in Halves
           /\ Value(acc) \in Nat
           /\ ShiftIs(acc, byte, ShiftIn(acc, byte))
<1>1. PICK hi \in Nat, lo \in Nat, w \in Positive :
        acc = [hi |-> hi, lo |-> lo] /\ hi < w /\ lo < w /\ w = Pow2(16)
  <2>1. acc.hi \in Half /\ acc.lo \in Half /\ acc = [hi |-> acc.hi, lo |-> acc.lo]
    BY DEF Halves
  <2>2. Half \subseteq Nat
    BY SMT DEF Half
  <2>3. Pow2(16) \in Positive
    BY SMT, PowersOfTwo DEF Positive
  <2> QED BY Zenon, <2>1, <2>2, <2>3, InHalf
<1>2. \A x \in Nat : x < w =>
        \E a \in Nat : \E b \in 0 .. 255 : a = x \div 256 /\ b = x % 256 /\ x = 256 * a + b /\ a < 256
  <2>1. \A x \in Nat : x < w => /\ x \div 256 \in Nat /\ x % 256 \in 0 .. 255
                                /\ x = 256 * (x \div 256) + (x % 256) /\ x \div 256 < 256
    BY SMT, PowersOfTwo, <1>1
  <2> QED BY SMT, <2>1
<1>20. PICK a \in Nat : \E b \in 0 .. 255 : a = hi \div 256 /\ b = hi % 256 /\ hi = 256 * a + b /\ a < 256
  BY Zenon, <1>1, <1>2
<1>21. PICK b \in 0 .. 255 : a = hi \div 256 /\ b = hi % 256 /\ hi = 256 * a + b /\ a < 256
  BY Zenon, <1>20
<1>22. PICK c \in Nat : \E d \in 0 .. 255 : c = lo \div 256 /\ d = lo % 256 /\ lo = 256 * c + d /\ c < 256
  BY Zenon, <1>1, <1>2
<1>23. PICK d \in 0 .. 255 : c = lo \div 256 /\ d = lo % 256 /\ lo = 256 * c + d /\ c < 256
  BY Zenon, <1>22
<1>3. ShiftIn(acc, byte) = [hi |-> b * 256 + c, lo |-> d * 256 + byte]
  BY SMT, <1>1, <1>21, <1>23 DEF ShiftIn
<1>4. ShiftIn(acc, byte) \in Halves
  <2>1. /\ b * 256 + c \in Nat /\ d * 256 + byte \in Nat
        /\ b * 256 + c < Pow2(16) /\ d * 256 + byte < Pow2(16)
    BY SMT, <1>21, <1>23, PowersOfTwo
  <2>2. b * 256 + c \in Half /\ d * 256 + byte \in Half
    BY Zenon, <2>1, InHalf
  <2> QED BY <1>3, <2>2 DEF Halves
<1>5. PICK v \in Nat, x \in Nat, big \in Positive :
        v = Value(acc) * 256 + byte /\ x = Value(ShiftIn(acc, byte)) /\ big = Pow(32)
  <2>1. Value(acc) * 256 + byte \in Nat /\ Value(ShiftIn(acc, byte)) \in Nat
    BY SMT, <1>1, <1>21, <1>23, <1>3, PowersOfTwo DEF Value
  <2>2. Pow(32) \in Positive
    BY SMT, PowPositive
  <2> QED BY Zenon, <2>1, <2>2
<1>6. v = big * a + x /\ x < big
  <2>1. v = (hi * w + lo) * 256 + byte /\ x = (b * 256 + c) * w + (d * 256 + byte)
    BY SMT, <1>1, <1>3, <1>5 DEF Value
  <2>2. big = 256 * (256 * w) /\ w = 256 * 256
    BY SMT, <1>1, <1>5, PowersOfTwo DEF Pow
  <2> QED BY SMT, <1>21, <1>23, <2>1, <2>2
<1>7. v % big = x
  <2>1. Splits(v, big, a, x)
    BY SMT, <1>6 DEF Splits, Positive
  <2> QED BY <2>1, DivUnique
<1>8. Value(acc) \in Nat
  BY SMT, <1>1, PowersOfTwo DEF Value
<1> QED BY Zenon, <1>4, <1>5, <1>7, <1>8 DEF ShiftIs
\* The two names of the powers agree as far as both are used.
LEMMA SmallPow == \A i \in 0 .. 32 : Pow(i) = Pow2(i)
<1>1. \A i \in 0 .. 21 : Pow(i) = Pow2(i)
  BY SMT DEF Pow
<1>2. /\ Pow(22) = Pow2(22) /\ Pow(23) = Pow2(23) /\ Pow(24) = Pow2(24) /\ Pow(25) = Pow2(25)
      /\ Pow(26) = Pow2(26) /\ Pow(27) = Pow2(27) /\ Pow(28) = Pow2(28) /\ Pow(29) = Pow2(29)
      /\ Pow(30) = Pow2(30) /\ Pow(31) = Pow2(31) /\ Pow(32) = Pow2(32)
  BY SMT, PowersOfTwo DEF Pow
<1> QED BY SMT, <1>1, <1>2

\* A byte of the accumulator, by its value.
LEMMA ByteAtValue ==
    ASSUME NEW acc \in Halves, NEW s \in 0 .. 31
    PROVE  ByteAt(acc, s) = (Value(acc) \div Pow2(s)) % 256
<1>1. PICK hi \in Nat, lo \in Nat, w \in Positive :
        acc = [hi |-> hi, lo |-> lo] /\ hi < w /\ lo < w /\ w = Pow2(16)
  <2>1. acc.hi \in Half /\ acc.lo \in Half /\ acc = [hi |-> acc.hi, lo |-> acc.lo]
    BY DEF Halves
  <2>2. Half \subseteq Nat
    BY SMT DEF Half
  <2>3. Pow2(16) \in Positive
    BY SMT, PowersOfTwo DEF Positive
  <2> QED BY Zenon, <2>1, <2>2, <2>3, InHalf
<1>2. PICK v \in Nat : v = Value(acc) /\ v = w * hi + lo
  <2>1. Value(acc) = w * hi + lo /\ w * hi + lo \in Nat
    BY SMT, <1>1 DEF Value, Positive
  <2> QED BY Zenon, <2>1
<1>3. CASE s >= 16
  <2>1. PICK e \in 0 .. 15 : e = s - 16 /\ e + 16 = s
    BY SMT, <1>3
  <2>2. PICK p \in Positive, big \in Positive : p = Pow2(e) /\ p = Pow(e) /\ big = Pow2(s) /\ big = Pow(s)
    <3>1. s \in 0 .. 31 /\ e \in 0 .. 31 /\ e <= 21
      BY SMT
    <3>2. Pow(e) = Pow2(e)
      BY Zenon, <3>1 DEF Pow
    <3>3. Pow(s) = Pow2(s)
      BY SmallPow
    <3> QED BY Zenon, <3>1, <3>2, <3>3, Doubles
  <2>3. Product(big, p, w)
    <3>1. e \in Nat /\ 16 \in Nat /\ e + 16 <= 43
      BY SMT
    <3>2. Product(Pow(e + 16), Pow(e), Pow(16))
      BY Zenon, <3>1, PowAdds
    <3>3. Pow(16) = w
      BY SMT, <1>1 DEF Pow
    <3> QED BY Zenon, <2>1, <2>2, <3>2, <3>3
  <2>4. v \div w = hi
    <3>1. Splits(v, w, hi, lo)
      BY SMT, <1>1, <1>2 DEF Splits, Positive
    <3> QED BY Zenon, <3>1, DivUnique
  <2>5. v \div big = hi \div p
    <3>1. v \div big = (v \div w) \div p
      BY <2>3, DivDiv
    <3> QED BY Zenon, <3>1, <2>4
  <2>6. ByteAt(acc, s) = (hi \div Pow2(e)) % 256
    BY SMT, <1>1, <1>3, <2>1 DEF ByteAt, Pow2
  <2> QED BY Zenon, <1>2, <2>2, <2>5, <2>6
<1>4. CASE ~(s >= 16)
  <2>1. PICK e \in 1 .. 16 : e = 16 - s /\ e + s = 16 /\ s <= 15
    BY SMT, <1>4
  <2>2. PICK m \in Positive, p \in Positive : m = Pow2(e) /\ p = Pow2(s) /\ Product(w, m, p)
    <3>1. e \in 0 .. 31 /\ s \in 0 .. 31 /\ e \in Nat /\ s \in Nat /\ e + s <= 43 /\ e <= 21 /\ s <= 21 /\ 16 <= 21
      BY SMT, <2>1
    <3>2. Product(Pow(e + s), Pow(e), Pow(s))
      BY Zenon, <3>1, PowAdds
    <3>3. Pow(e + s) = w /\ Pow(e) = Pow2(e) /\ Pow(s) = Pow2(s)
      BY Zenon, <1>1, <2>1, <3>1 DEF Pow
    <3> QED BY Zenon, <3>1, <3>2, <3>3, Doubles
  <2>3. PICK l \in Nat, r \in Nat : Splits(lo, p, l, r) /\ l = lo \div p
    BY Zenon, DivSplit
  <2>4. PICK a \in Nat, b \in Nat : hi = 256 * a + b /\ b = hi % 256
    BY SMT
  <2>5. PICK x \in Nat, y \in Nat, u \in Nat : x = a * m /\ y = b * m /\ u = 256 * x + (y + l)
    BY SMT DEF Positive
  <2>6. Splits(v, p, u, r)
    <3>1. lo = p * l + r /\ r < p
      BY Zenon, <2>3 DEF Splits
    <3>2. PICK f \in Nat, g \in Nat, h \in Nat, i \in Nat : f = p * x /\ g = p * y /\ h = p * l /\ i = p * u
      BY SMT DEF Positive
    <3>3. i = 256 * f + (g + h)
      <4>1. p * u = 256 * (p * x) + (p * y + p * l)
        BY SMT, <2>5 DEF Positive
      <4> QED BY Zenon, <3>2, <4>1
    <3>4. w * hi = 256 * f + g
      <4>1. w = p * m
        BY SMT, <2>2 DEF Product, Positive
      <4>2. p * (m * a) = f /\ p * (m * b) = g
        BY SMT, <2>5, <3>2 DEF Positive
      <4>3. w * a = f /\ w * b = g
        BY SMT, <4>1, <4>2 DEF Positive
      <4>4. w * hi = 256 * (w * a) + w * b
        BY SMT, <2>4 DEF Positive
      <4> QED BY Zenon, <4>3, <4>4
    <3>5. PICK z \in Nat : z = w * hi
      BY SMT DEF Positive
    <3>6. v = i + r
      BY SMT, <1>2, <3>1, <3>2, <3>3, <3>4, <3>5
    <3> QED BY Zenon, <3>1, <3>2, <3>6 DEF Splits
  <2>7. v \div p = u
    BY Zenon, <2>6, DivUnique
  <2>8. u % 256 = (y + l) % 256
    BY SMT, <2>5
  <2>9. ByteAt(acc, s) = ((hi % 256) * Pow2(e) + (lo \div Pow2(s))) % 256
    BY SMT, <1>1, <1>4, <2>1 DEF ByteAt, Pow2
  <2>10. ByteAt(acc, s) = (y + l) % 256
    BY ZenonT(60), <2>2, <2>3, <2>4, <2>5, <2>9
  <2> QED BY Zenon, <1>2, <2>2, <2>7, <2>8, <2>10
<1> QED BY Zenon, <1>3, <1>4

\* Big-endian.
FourBytes(a, b, c, d) == 16777216 * a + 65536 * b + 256 * c + d

\* Five bits and two bytes of a number make its last 21 bits.
LEMMA ThreeBytes ==
    ASSUME NEW n \in Nat
    PROVE  FourBytes(0, ((n \div Pow2(16)) % Pow2(8)) % Pow2(5), (n \div Pow2(8)) % Pow2(8), n % Pow2(8))
             = n % Pow2(21)
<1>1. PICK w \in Positive, k \in Positive, t \in Positive, big \in Positive, o \in Positive :
        /\ w = Pow2(16) /\ k = Pow2(8) /\ t = Pow2(5) /\ big = Pow2(21) /\ o = Pow2(3)
  <2>1. 16 \in 0 .. 31 /\ 8 \in 0 .. 31 /\ 5 \in 0 .. 31 /\ 21 \in 0 .. 31 /\ 3 \in 0 .. 31
    BY SMT
  <2> QED BY Zenon, <2>1, Doubles
<1>2. PICK a \in Nat, x \in Nat : Splits(n, k, a, x) /\ a = n \div k /\ x = n % k
  BY Zenon, DivSplit
<1>3. PICK b \in Nat, y \in Nat : Splits(a, k, b, y) /\ b = a \div k /\ y = a % k
  BY Zenon, DivSplit
<1>4. PICK c \in Nat, z \in Nat : Splits(b, t, c, z) /\ c = b \div t /\ z = b % t
  BY Zenon, DivSplit
<1>5. n \div w = b
  <2>1. Product(w, k, k)
    BY SMT, PowersOfTwo, <1>1 DEF Product
  <2>2. n \div w = (n \div k) \div k
    BY <2>1, DivDiv
  <2> QED BY Zenon, <1>2, <1>3, <2>2
<1>6. (b % k) % t = z
  <2>1. Product(k, o, t)
    BY SMT, PowersOfTwo, <1>1 DEF Product
  <2>2. (b % k) % t = b % t
    BY <2>1, ModMod
  <2> QED BY Zenon, <1>4, <2>2
<1>7. PICK m \in Nat : m = FourBytes(0, z, y, x)
  <2>1. FourBytes(0, z, y, x) \in Nat
    BY SMT DEF FourBytes
  <2> QED BY Zenon, <2>1
<1>8. Splits(n, big, c, m)
  <2>1. /\ n = 256 * a + x /\ x < 256 /\ a = 256 * b + y /\ y < 256 /\ b = 32 * c + z /\ z < 32
    <3>1. k = 256 /\ t = 32
      BY SMT, PowersOfTwo, <1>1
    <3>2. n = k * a + x /\ x < k /\ a = k * b + y /\ y < k /\ b = t * c + z /\ z < t
      BY Zenon, <1>2, <1>3, <1>4 DEF Splits
    <3> QED BY SMT, <3>1, <3>2
  <2>2. m = 65536 * z + 256 * y + x
    BY SMT, <1>7 DEF FourBytes
  <2>3. big = 2097152
    BY SMT, <1>1, PowersOfTwo
  <2>4. n = 2097152 * c + m /\ m < 2097152
    BY SMT, <2>1, <2>2
  <2> QED BY SMT, <2>3, <2>4 DEF Splits
<1>9. n % big = m
  BY Zenon, <1>8, DivUnique
<1> QED BY Zenon, <1>1, <1>2, <1>3, <1>5, <1>6, <1>7, <1>9

\* An element of the output takes four bytes.
LEMMA OutWidthIs ==
    ASSUME BitLen = 21, BytePad = 1
    PROVE  OutWidth = 4
BY SMT DEF OutWidth

\* The bytes of an element.
LEMMA ElementIs ==
    ASSUME BitLen = 21, BytePad = 1, NEW acc, NEW rest \in 0 .. 7
    PROVE  LET e == Element(acc, rest)
           IN  /\ DOMAIN e = 1 .. 4
               /\ e[1] = 0
               /\ e[2] = ByteAt(acc, rest + 16) % 32
               /\ e[3] = ByteAt(acc, rest + 8)
               /\ e[4] = ByteAt(acc, rest)
<1>1. Element(acc, rest) =
        [x \in 1 .. 4 |-> IF x <= 1 THEN 0
                          ELSE Masked(ByteAt(acc, rest + 8 * (4 - x)), 8 * (4 - x))]
  BY OutWidthIs DEF Element
<1>2. \A v : Masked(v, 16) = v % 32 /\ Masked(v, 8) = v /\ Masked(v, 0) = v
  <2>1. 2 ^ 5 = 32
    BY SMT
  <2>2. \A v : Masked(v, 16) = v % 2 ^ 5
    BY SMT DEF Masked
  <2> QED BY SMT, <2>1, <2>2 DEF Masked
<1>3. 8 * (4 - 2) = 16 /\ 8 * (4 - 3) = 8 /\ 8 * (4 - 4) = 0 /\ rest + 0 = rest
  BY SMT
<1>4. 1 \in 1 .. 4 /\ 2 \in 1 .. 4 /\ 3 \in 1 .. 4 /\ 4 \in 1 .. 4
      /\ 1 <= 1 /\ ~(2 <= 1) /\ ~(3 <= 1) /\ ~(4 <= 1)
  BY SMT
<1>5. DOMAIN Element(acc, rest) = 1 .. 4
  BY Zenon, <1>1
<1>6. Element(acc, rest)[1] = 0
  BY Zenon, <1>1, <1>4
<1>7. Element(acc, rest)[2] = Masked(ByteAt(acc, rest + 16), 16)
  BY Zenon, <1>1, <1>3, <1>4
<1>8. Element(acc, rest)[3] = Masked(ByteAt(acc, rest + 8), 8)
  BY Zenon, <1>1, <1>3, <1>4
<1>9. Element(acc, rest)[4] = Masked(ByteAt(acc, rest), 0)
  <2>1. Element(acc, rest)[4] = Masked(ByteAt(acc, rest + 8 * (4 - 4)), 8 * (4 - 4))
    BY Zenon, <1>1, <1>4
  <2> QED BY Zenon, <1>3, <2>1
<1> QED BY Zenon, <1>2, <1>5, <1>6, <1>7, <1>8, <1>9

\* An element is 21 bits of the accumulator.
LEMMA ElementValue ==
    ASSUME BitLen = 21, BytePad = 1, NEW acc \in Halves, NEW rest \in 0 .. 7, Value(acc) \in Nat,
           NEW e, e = Element(acc, rest)
    PROVE  FourBytes(e[1], e[2], e[3], e[4]) = (Value(acc) \div Pow2(rest)) % Pow2(21)
<1>1. PICK n \in Nat, p \in Positive : p = Pow2(rest) /\ n = Value(acc) \div p
  <2>1. rest \in 0 .. 31
    BY SMT
  <2>2. PICK p \in Positive : p = Pow2(rest)
    BY Zenon, <2>1, Doubles
  <2> QED BY Zenon, <2>2, DivSplit
<1>2. ByteAt(acc, rest) = n % 256
  <2>1. rest \in 0 .. 31
    BY SMT
  <2> QED BY ZenonT(60), <1>1, <2>1, ByteAtValue
<1>3. ASSUME NEW k \in 0 .. 16
      PROVE  ByteAt(acc, rest + k) = (n \div Pow2(k)) % 256
  <2>1. rest + k \in 0 .. 31 /\ k \in Nat /\ rest \in Nat /\ k + rest <= 43
        /\ rest \in 0 .. 31 /\ k \in 0 .. 31 /\ k + rest = rest + k
        /\ rest + k \in 0 .. 32 /\ rest \in 0 .. 32 /\ k \in 0 .. 32
    BY SMT
  <2>2. PICK big \in Positive, m \in Positive : big = Pow2(rest + k) /\ m = Pow2(k)
    BY Zenon, <2>1, Doubles
  <2>3. Product(Pow(k + rest), Pow(k), Pow(rest))
    BY Zenon, <2>1, PowAdds
  <2>4. Product(big, m, p)
    BY Zenon, <1>1, <2>1, <2>2, <2>3, SmallPow
  <2>5. PICK v \in Nat : v = Value(acc)
    BY Zenon
  <2>6. v \div big = (v \div p) \div m
    BY ZenonT(60), <2>4, DivDiv
  <2>7. ByteAt(acc, rest + k) = (v \div Pow2(rest + k)) % 256
    BY ZenonT(60), <2>1, <2>5, ByteAtValue
  <2> QED BY Zenon, <1>1, <2>2, <2>5, <2>6, <2>7
<1>4. /\ ByteAt(acc, rest + 16) = (n \div Pow2(16)) % 256
      /\ ByteAt(acc, rest + 8) = (n \div Pow2(8)) % 256
  <2>1. 16 \in 0 .. 16 /\ 8 \in 0 .. 16
    BY SMT
  <2> QED BY Zenon, <1>3, <2>1
<1>5. /\ e[1] = 0 /\ e[2] = ByteAt(acc, rest + 16) % 32
      /\ e[3] = ByteAt(acc, rest + 8) /\ e[4] = ByteAt(acc, rest)
  BY Zenon, ElementIs
<1>6. /\ e[1] = 0 /\ e[2] = ((n \div Pow2(16)) % Pow2(8)) % Pow2(5)
      /\ e[3] = (n \div Pow2(8)) % Pow2(8) /\ e[4] = n % Pow2(8)
  <2>1. 256 = Pow2(8) /\ 32 = Pow2(5)
    BY SMT, PowersOfTwo
  <2> QED BY ZenonT(60), <1>2, <1>4, <1>5, <2>1
<1> QED BY Zenon, <1>1, <1>6, ThreeBytes

\* The first bits of two indices side by side are those of the first.
LEMMA PairFill ==
    ASSUME NEW I \in Nat, NEW J \in Nat, J < Pow2(21), NEW e \in 0 .. 21,
           NEW M \in Nat, M = I * Pow2(21) + J
    PROVE  M \div Pow(e + 21) = I \div Pow(e)
<1>1. PICK w \in Positive, p \in Positive, big \in Positive :
        w = Pow2(21) /\ w = Pow(21) /\ p = Pow(e) /\ big = Pow(e + 21)
  <2>1. 21 \in 0 .. 31 /\ 21 \in 0 .. 32 /\ e \in 0 .. 42 /\ e + 21 \in 0 .. 42
    BY SMT
  <2> QED BY Zenon, <2>1, Doubles, SmallPow, PowDoubles
<1>2. Product(big, p, w)
  <2>1. e \in Nat /\ 21 \in Nat /\ e + 21 <= 43
    BY SMT
  <2> QED BY Zenon, <1>1, <2>1, PowAdds
<1>3. M \div w = I
  <2>1. Splits(M, w, I, J)
    BY SMT, <1>1 DEF Splits, Positive
  <2> QED BY Zenon, <2>1, DivUnique
<1>4. M \div big = (M \div w) \div p
  BY <1>2, DivDiv
<1> QED BY Zenon, <1>1, <1>3, <1>4

\* When the accumulator ends with the first index and t bits of the second, the
\* element is the first index and the t bits are left.
LEMMA PairEmit ==
    ASSUME NEW I \in Nat, NEW J \in Nat, I < Pow2(21), J < Pow2(21), NEW t \in 0 .. 7,
           NEW M \in Nat, M = I * Pow2(21) + J,
           NEW X \in Nat, X % Pow(t + 21) = M \div Pow(21 - t)
    PROVE  (X \div Pow2(t)) % Pow2(21) = I /\ X % Pow(t) = J \div Pow(21 - t)
<1>1. PICK w \in Positive, p \in Positive, g \in Positive, big \in Positive :
        /\ w = Pow2(21) /\ w = Pow(21) /\ p = Pow(t) /\ p = Pow2(t)
        /\ g = Pow(21 - t) /\ big = Pow(t + 21)
  <2>1. 21 \in 0 .. 31 /\ 21 \in 0 .. 32 /\ t \in 0 .. 42 /\ t \in 0 .. 32 /\ t + 21 \in 0 .. 42
        /\ 21 - t \in 0 .. 42 /\ t \in 0 .. 31
    BY SMT
  <2> QED BY Zenon, <2>1, Doubles, SmallPow, PowDoubles
<1>2. Product(w, p, g)
  <2>1. t \in Nat /\ 21 - t \in Nat /\ t + (21 - t) <= 43 /\ t + (21 - t) = 21
    BY SMT
  <2> QED BY Zenon, <1>1, <2>1, PowAdds
<1>3. Product(big, p, w)
  <2>1. t \in Nat /\ 21 \in Nat /\ t + 21 <= 43
    BY SMT
  <2> QED BY Zenon, <1>1, <2>1, PowAdds
<1>4. PICK j \in Nat, r \in Nat : Splits(J, g, j, r) /\ j = J \div g
  BY Zenon, DivSplit
<1>5. PICK c \in Nat, i \in Nat : c = p * I /\ i = c + j
  BY SMT DEF Positive
<1>6. M \div g = i
  <2>1. J = g * j + r /\ r < g
    BY Zenon, <1>4 DEF Splits
  <2>2. g * i = g * (p * I) + g * j
    BY SMT, <1>5 DEF Positive
  <2>3. g * (p * I) = I * w
    BY SMT, <1>2 DEF Product, Positive
  <2>4. PICK u \in Nat, v \in Nat, x \in Nat : u = g * i /\ v = g * j /\ x = I * w
    BY SMT DEF Positive
  <2>5. M = x + J
    BY Zenon, <1>1, <2>4
  <2>6. M = u + r
    BY SMT, <2>1, <2>2, <2>3, <2>4, <2>5
  <2>7. Splits(M, g, i, r)
    BY Zenon, <2>1, <2>4, <2>6 DEF Splits
  <2> QED BY Zenon, <2>7, DivUnique
<1>7. j < p
  <2>1. J = g * j + r
    BY Zenon, <1>4 DEF Splits
  <2>2. w = g * p
    BY SMT, <1>2 DEF Product, Positive
  <2>3. \A y, z \in Nat : y <= z => g * y <= g * z
    BY SMT DEF Positive
  <2>4. p <= j => w <= g * j
    BY SMT, <2>2, <2>3 DEF Positive
  <2>5. PICK v \in Nat : v = g * j
    BY SMT DEF Positive
  <2>6. J < w
    BY Zenon, <1>1
  <2> QED BY SMT, <2>1, <2>4, <2>5, <2>6 DEF Positive
<1>8. PICK z \in Nat : Splits(X, big, z, i)
  <2>1. Splits(X, big, X \div big, X % big) /\ X \div big \in Nat
    BY Zenon, DivSplit
  <2>2. X % big = i
    BY Zenon, <1>1, <1>6
  <2> QED BY Zenon, <2>1, <2>2
<1>9. PICK u \in Nat : u = w * z + I
  BY SMT DEF Positive
<1>10. Splits(X, p, u, j)
  <2>1. X = big * z + i /\ i = p * I + j
    BY Zenon, <1>5, <1>8 DEF Splits
  <2>2. p * u = p * (w * z) + p * I
    BY SMT, <1>9 DEF Positive
  <2>3. big * z = p * (w * z)
    BY SMT, <1>3 DEF Product, Positive
  <2>4. PICK x \in Nat, y \in Nat, v \in Nat : x = big * z /\ y = p * I /\ v = p * u
    BY SMT DEF Positive
  <2>5. X = v + j
    BY SMT, <2>1, <2>2, <2>3, <2>4
  <2> QED BY Zenon, <1>7, <2>4, <2>5 DEF Splits
<1>11. X \div p = u /\ X % p = j
  BY Zenon, <1>10, DivUnique
<1>12. u % w = I
  <2>1. Splits(u, w, z, I)
    BY Zenon, <1>1, <1>9 DEF Splits
  <2> QED BY Zenon, <2>1, DivUnique
<1> QED BY Zenon, <1>1, <1>4, <1>11, <1>12

\* An index has no bits beyond its 21.
LEMMA FillByte ==
    ASSUME NEW I \in Nat, I < Pow2(21)
    PROVE  I \div Pow(21) = 0
<1>1. PICK w \in Positive : w = Pow2(21) /\ w = Pow(21)
  <2>1. 21 \in 0 .. 31 /\ 21 \in 0 .. 32
    BY SMT
  <2> QED BY Zenon, <2>1, Doubles, SmallPow
<1>2. Splits(I, w, 0, I)
  BY SMT, <1>1 DEF Splits, Positive
<1> QED BY <1>1, <1>2, DivUnique

\* A list of indices, as the miner found it.
IsIndices(indices) == indices \in Seq(0 .. 2 ^ BitLen - 1) /\ Len(indices) = NumIndices

\* Index j of the list, 0 behind its end.
Idx(indices, j) == IF j \in 1 .. NumIndices THEN indices[j] ELSE 0

\* Every index has 21 bits.
LEMMA IdxBound ==
    ASSUME BitLen = 21, NEW indices, IsIndices(indices), NEW j
    PROVE  Idx(indices, j) \in Nat /\ Idx(indices, j) < Pow2(21)
<1>1. CASE j \in 1 .. NumIndices
  <2>1. Idx(indices, j) \in 0 .. 2 ^ BitLen - 1
    <3>1. indices[j] \in 0 .. 2 ^ BitLen - 1
      BY Zenon, <1>1, ElementOfSeq DEF IsIndices
    <3> QED BY Zenon, <1>1, <3>1 DEF Idx
  <2>2. 2 ^ BitLen = Pow2(21) /\ Pow2(21) \in Nat
    BY SMT, PowersOfTwo DEF Pow2
  <2> QED BY SMT, <2>1, <2>2
<1>2. CASE j \notin 1 .. NumIndices
  BY SMT, <1>2, PowersOfTwo DEF Idx
<1> QED BY Zenon, <1>1, <1>2

\* Indices q + 1 and q + 2 side by side.
Pair(indices, q) == Idx(indices, q + 1) * Pow2(21) + Idx(indices, q + 2)

\* Two indices side by side are a number.
LEMMA PairNat ==
    ASSUME BitLen = 21, NEW indices, IsIndices(indices), NEW q \in Nat
    PROVE  Pair(indices, q) \in Nat
<1>1. Idx(indices, q + 1) \in Nat /\ Idx(indices, q + 2) \in Nat
  BY Zenon, IdxBound
<1>2. Pow2(21) \in Nat
  BY SMT, PowersOfTwo
<1> QED BY SMT, <1>1, <1>2 DEF Pair

\* A bit of the packed solution is a bit of the pair of indices around it.
LEMMA BitIs ==
    ASSUME BitLen = 21, NEW indices, IsIndices(indices), NEW q \in Nat, NEW o \in 0 .. 27,
           21 * q + o < 21 * NumIndices
    PROVE  BitOf(indices, 21 * q + o) = (Pair(indices, q) \div Pow(41 - o)) % 2
<1>0. NumIndices \in Nat
  BY ExpandAssumption
<1>1. PICK I \in Nat, J \in Nat, M \in Nat :
        /\ I = Idx(indices, q + 1) /\ J = Idx(indices, q + 2) /\ J < Pow2(21)
        /\ M = I * Pow2(21) + J /\ M = Pair(indices, q)
  BY Zenon, IdxBound, PairNat DEF Pair
<1>2. (M \div Pow(41 - o)) % 2
        = IF o <= 20 THEN (I \div Pow2(20 - o)) % 2 ELSE (J \div Pow2(41 - o)) % 2
  <2>1. o \in 0 .. 41
    BY SMT
  <2> QED BY SMTT(60), <1>1, <2>1, PairBit
<1>3. \A b : BitOf(indices, b) = (indices[b \div 21 + 1] \div Pow2(20 - (b % 21))) % 2
  BY SMT DEF BitOf, Pow2
<1>4. CASE o <= 20
  <2>1. (21 * q + o) \div 21 = q /\ (21 * q + o) % 21 = o /\ q + 1 \in 1 .. NumIndices
    BY SMT, <1>0, <1>4
  <2>2. indices[q + 1] = I
    BY Zenon, <1>1, <2>1 DEF Idx
  <2> QED BY Zenon, <1>1, <1>2, <1>3, <1>4, <2>1, <2>2
<1>5. CASE ~(o <= 20)
  <2>1. (21 * q + o) \div 21 = q + 1 /\ (21 * q + o) % 21 = o - 21 /\ q + 2 \in 1 .. NumIndices
        /\ 20 - (o - 21) = 41 - o /\ (q + 1) + 1 = q + 2
    BY SMT, <1>0, <1>5
  <2>2. indices[q + 2] = J
    BY Zenon, <1>1, <2>1 DEF Idx
  <2>3. BitOf(indices, 21 * q + o) = (indices[(q + 1) + 1] \div Pow2(20 - (o - 21))) % 2
    BY Zenon, <1>3, <2>1
  <2> QED BY Zenon, <1>1, <1>2, <1>5, <2>1, <2>2, <2>3
<1> QED BY Zenon, <1>4, <1>5

\* Byte r + 1 of a packed solution lies in the pair of indices it starts in.
LEMMA PackedByte ==
    ASSUME BitLen = 21, NEW indices, IsIndices(indices), NEW r \in Nat, NEW q \in Nat, NEW b \in 0 .. 20,
           8 * r = 21 * q + b, r < SolutionLen
    PROVE  r + 1 \in DOMAIN Packed(indices)
           /\ Packed(indices)[r + 1] = (Pair(indices, q) \div Pow(34 - b)) % 256
<1>0. NumIndices \in Nat /\ 8 * SolutionLen = 21 * NumIndices /\ SolutionLen \in Nat
  BY SMT, ExpandAssumption DEF SolutionLen
<1>. DEFINE bit == [k \in 0 .. 7 |-> BitOf(indices, 21 * q + (b + k))]
<1>1. PICK M \in Nat : M = Pair(indices, q)
  BY Zenon, PairNat
<1>2. ASSUME NEW k \in 0 .. 7
      PROVE  BitOf(indices, 21 * q + (b + k)) = (M \div Pow(41 - (b + k))) % 2
  <2>1. b + k \in 0 .. 27 /\ 21 * q + (b + k) < 21 * NumIndices
    BY SMT, <1>0
  <2> QED BY Zenon, <1>1, <2>1, BitIs
<1>3. ByteOf(bit) = (M \div Pow(34 - b)) % 256
  <2>1. \A k \in 0 .. 7 : bit[k] = (M \div Pow(41 - (b + k))) % 2
    BY Zenon, <1>2
  <2>. HIDE DEF bit
  <2> QED BY <2>1, PairByte
<1>4. Packed(indices) =
        [i \in 1 .. SolutionLen |->
           128 * BitOf(indices, 8 * (i - 1) + 0) + 64 * BitOf(indices, 8 * (i - 1) + 1)
           + 32 * BitOf(indices, 8 * (i - 1) + 2) + 16 * BitOf(indices, 8 * (i - 1) + 3)
           + 8 * BitOf(indices, 8 * (i - 1) + 4) + 4 * BitOf(indices, 8 * (i - 1) + 5)
           + 2 * BitOf(indices, 8 * (i - 1) + 6) + BitOf(indices, 8 * (i - 1) + 7)]
  BY Zenon DEF Packed, IsIndices, SolutionLen
<1>5. r + 1 \in 1 .. SolutionLen /\ \A k \in 0 .. 7 : 8 * ((r + 1) - 1) + k = 21 * q + (b + k)
  BY SMT, <1>0
<1>6. \A k \in 0 .. 7 : BitOf(indices, 8 * ((r + 1) - 1) + k) = bit[k]
  BY Zenon, <1>5
<1>. HIDE DEF bit
<1>7. Packed(indices)[r + 1] =
           128 * BitOf(indices, 8 * ((r + 1) - 1) + 0) + 64 * BitOf(indices, 8 * ((r + 1) - 1) + 1)
           + 32 * BitOf(indices, 8 * ((r + 1) - 1) + 2) + 16 * BitOf(indices, 8 * ((r + 1) - 1) + 3)
           + 8 * BitOf(indices, 8 * ((r + 1) - 1) + 4) + 4 * BitOf(indices, 8 * ((r + 1) - 1) + 5)
           + 2 * BitOf(indices, 8 * ((r + 1) - 1) + 6) + BitOf(indices, 8 * ((r + 1) - 1) + 7)
  BY Zenon, <1>4, <1>5
<1>8. /\ BitOf(indices, 8 * ((r + 1) - 1) + 0) = bit[0] /\ BitOf(indices, 8 * ((r + 1) - 1) + 1) = bit[1]
      /\ BitOf(indices, 8 * ((r + 1) - 1) + 2) = bit[2] /\ BitOf(indices, 8 * ((r + 1) - 1) + 3) = bit[3]
      /\ BitOf(indices, 8 * ((r + 1) - 1) + 4) = bit[4] /\ BitOf(indices, 8 * ((r + 1) - 1) + 5) = bit[5]
      /\ BitOf(indices, 8 * ((r + 1) - 1) + 6) = bit[6] /\ BitOf(indices, 8 * ((r + 1) - 1) + 7) = bit[7]
  <2>1. 0 \in 0 .. 7 /\ 1 \in 0 .. 7 /\ 2 \in 0 .. 7 /\ 3 \in 0 .. 7 /\ 4 \in 0 .. 7 /\ 5 \in 0 .. 7
        /\ 6 \in 0 .. 7 /\ 7 \in 0 .. 7
    BY SMT
  <2> QED BY Zenon, <1>6, <2>1
<1>9. Packed(indices)[r + 1] = ByteOf(bit)
  BY Zenon, <1>7, <1>8 DEF ByteOf
<1> QED BY Zenon, <1>1, <1>3, <1>4, <1>5, <1>9

\* Sizes are naturals.
LEMMA SizesAre == SolutionLen \in Nat /\ OutWidth \in Nat
BY SMT, ExpandAssumption DEF SolutionLen, OutWidth

\* Masking a byte leaves a byte.
LEMMA MaskedIsByte ==
    ASSUME NEW v \in Bytes, NEW below \in Nat, below < BitLen
    PROVE  Masked(v, below) \in Bytes
<1>1. CASE BitLen - below >= 8
  BY Zenon, <1>1 DEF Masked
<1>2. CASE ~(BitLen - below >= 8)
  <2>1. PICK e \in 1 .. 7 : e = BitLen - below
    BY SMT, <1>2, ExpandAssumption
  <2>2. PICK p \in Positive : p = Pow2(e)
    <3>1. e \in 0 .. 31
      BY SMT
    <3> QED BY Zenon, <3>1, Doubles
  <2>3. Masked(v, below) = v % p
    BY Zenon, <1>2, <2>1, <2>2 DEF Masked, Pow2
  <2>4. v \in Nat /\ v <= 255
    BY SMT DEF Bytes
  <2>5. v % p \in Nat /\ v % p <= v
    BY SMT, <2>4 DEF Positive
  <2> QED BY SMT, <2>3, <2>4, <2>5 DEF Bytes
<1> QED BY Zenon, <1>1, <1>2

\* Eight bits of the accumulator are a byte.
LEMMA ByteAtIsByte ==
    ASSUME NEW acc \in Halves, NEW s \in 0 .. 31
    PROVE  ByteAt(acc, s) \in Bytes
<1>1. PICK p \in Positive : p = Pow2(s)
  BY Zenon, Doubles
<1>2. PICK v \in Nat : v = Value(acc)
  <2>1. 0 \in 0 .. 255
    BY SMT
  <2> QED BY ZenonT(60), <2>1, ShiftInValue
<1>3. PICK n \in Nat : n = v \div p
  BY Zenon, DivSplit
<1>4. ByteAt(acc, s) = n % 256
  BY ZenonT(60), <1>1, <1>2, <1>3, ByteAtValue
<1> QED BY SMT, <1>4 DEF Bytes

\* An element is OutWidth bytes.
LEMMA ElementIsBytes ==
    ASSUME NEW acc \in Halves, NEW rest \in 0 .. 7
    PROVE  Element(acc, rest) \in Seq(Bytes) /\ Len(Element(acc, rest)) = OutWidth
<1>1. ASSUME NEW x \in 1 .. OutWidth
      PROVE  Element(acc, rest)[x] \in Bytes
  <2>1. CASE x <= BytePad
    BY SMT, <2>1 DEF Element, Bytes
  <2>2. CASE ~(x <= BytePad)
    <3>1. PICK below \in Nat : below = 8 * (OutWidth - x) /\ below < BitLen /\ rest + below \in 0 .. 31
      <4>1. OutWidth - x \in Nat
        BY SMT, SizesAre
      <4>2. OutWidth - x <= ((BitLen + 7) \div 8) - 1
        BY SMT, <2>2, ExpandAssumption DEF OutWidth
      <4>3. 8 * ((BitLen + 7) \div 8) <= BitLen + 7 /\ 8 * ((BitLen + 7) \div 8) <= 32 /\ (BitLen + 7) \div 8 \in Nat
        BY SMT, ExpandAssumption
      <4>4. BitLen \in 8 .. 25
        BY ExpandAssumption
      <4> QED BY SMT, <4>1, <4>2, <4>3, <4>4
    <3>2. Element(acc, rest)[x] = Masked(ByteAt(acc, rest + below), below)
      BY Zenon, <2>2, <3>1 DEF Element
    <3> QED BY Zenon, <3>1, <3>2, ByteAtIsByte, MaskedIsByte
  <2> QED BY Zenon, <2>1, <2>2
<1>2. Element(acc, rest) = [x \in 1 .. OutWidth |-> Element(acc, rest)[x]]
  BY Zenon DEF Element
<1>3. OutWidth \in Nat
  BY SizesAre
<1>. DEFINE e == Element(acc, rest)
<1>4. e \in [1 .. OutWidth -> Bytes]
  BY Zenon, <1>1, <1>2
<1>. HIDE DEF e
<1>5. e \in Seq(Bytes) /\ Len(e) = OutWidth
  BY <1>3, <1>4
<1> QED BY <1>5 DEF e

\* The three cases of a round.
LEMMA Round ==
    ASSUME NEW lp \in LoopVars, NEW byte
    PROVE  LET r == ExpandByte(lp, byte)
           IN  /\ lp.accBits + 8 >= BitLen =>
                    r = [read |-> lp.read + 1, acc |-> ShiftIn(lp.acc, byte),
                         accBits |-> (lp.accBits + 8) - BitLen,
                         out |-> lp.out \o Element(ShiftIn(lp.acc, byte), (lp.accBits + 8) - BitLen)]
               /\ ~(lp.accBits + 8 >= BitLen) =>
                    r = [read |-> lp.read + 1, acc |-> ShiftIn(lp.acc, byte),
                         accBits |-> lp.accBits + 8, out |-> lp.out]
<1>1. lp = [read |-> lp.read, acc |-> lp.acc, accBits |-> lp.accBits, out |-> lp.out]
  BY DEF LoopVars
<1>2. CASE lp.accBits + 8 >= BitLen
  <2>1. ExpandByte(lp, byte) =
          [read |-> lp.read + 1, acc |-> ShiftIn(lp.acc, byte), accBits |-> (lp.accBits + 8) - BitLen,
           out |-> lp.out \o Element(ShiftIn(lp.acc, byte), (lp.accBits + 8) - BitLen)]
    BY <1>2 DEF ExpandByte
  <2> QED BY <1>2, <2>1
<1>3. CASE ~(lp.accBits + 8 >= BitLen)
  <2>1. ExpandByte(lp, byte) = [lp EXCEPT !.read = lp.read + 1, !.acc = ShiftIn(lp.acc, byte),
                                          !.accBits = lp.accBits + 8]
    BY Zenon, <1>3 DEF ExpandByte
  <2> QED BY <1>1, <1>3, <2>1
<1> QED BY <1>2, <1>3

\* A round keeps the types of the loop's variables.
LEMMA ExpandTyped ==
    ASSUME NEW lp \in LoopVars, lp.read < SolutionLen, NEW byte \in Bytes
    PROVE  ExpandByte(lp, byte) \in LoopVars
<1>1. lp.read + 1 \in 0 .. SolutionLen
  BY SMT, SizesAre DEF LoopVars
<1>2. ShiftIn(lp.acc, byte) \in Halves
  <2>1. lp.acc \in Halves /\ byte \in 0 .. 255
    BY DEF LoopVars, Bytes
  <2> QED BY Zenon, <2>1, ShiftInValue
<1>3. lp.accBits \in 0 .. BitLen - 1 /\ lp.out \in Seq(Bytes)
  BY Zenon DEF LoopVars, Bytes
<1>4. BitLen \in 8 .. 25
  BY ExpandAssumption
<1>5. CASE lp.accBits + 8 >= BitLen
  <2>1. (lp.accBits + 8) - BitLen \in 0 .. 7 /\ (lp.accBits + 8) - BitLen \in 0 .. BitLen - 1
    <3>1. PICK b \in 0 .. BitLen - 1 : b = lp.accBits
      BY Zenon, <1>3
    <3>2. b + 8 >= BitLen
      BY Zenon, <1>5, <3>1
    <3>3. (b + 8) - BitLen \in 0 .. 7 /\ (b + 8) - BitLen \in 0 .. BitLen - 1
      BY SMT, <1>4, <3>2
    <3> QED BY Zenon, <3>1, <3>3
  <2>. DEFINE e == Element(ShiftIn(lp.acc, byte), (lp.accBits + 8) - BitLen)
  <2>2. e \in Seq(Bytes)
    BY Zenon, <1>2, <2>1, ElementIsBytes
  <2>. HIDE DEF e
  <2>3. lp.out \o e \in Seq(Bytes)
    BY <1>3, <2>2, ConcatProperties
  <2>4. ExpandByte(lp, byte) = [read |-> lp.read + 1, acc |-> ShiftIn(lp.acc, byte),
                                accBits |-> (lp.accBits + 8) - BitLen, out |-> lp.out \o e]
    BY Zenon, <1>5, Round DEF e
  <2> QED BY <1>1, <1>2, <2>1, <2>3, <2>4 DEF LoopVars, Bytes
<1>6. CASE ~(lp.accBits + 8 >= BitLen)
  <2>1. lp.accBits + 8 \in 0 .. BitLen - 1
    BY SMT, <1>3, <1>4, <1>6
  <2>2. ExpandByte(lp, byte) = [read |-> lp.read + 1, acc |-> ShiftIn(lp.acc, byte),
                                accBits |-> lp.accBits + 8, out |-> lp.out]
    BY Zenon, <1>6, Round
  <2> QED BY <1>1, <1>2, <1>3, <2>1, <2>2 DEF LoopVars, Bytes
<1> QED BY Zenon, <1>5, <1>6

\* What the loop has done when q indices are written: the bits left in the
\* accumulator are the first ones of index q + 1.
Written(out, indices, q) ==
    /\ Len(out) = 4 * q
    /\ \A j \in 1 .. q : IndexAt(out, j) = Idx(indices, j)

UnpackedTo(lp, indices, q) ==
    /\ Written(lp.out, indices, q)
    /\ 8 * lp.read = 21 * q + lp.accBits
    /\ Value(lp.acc) % Pow(lp.accBits) = Idx(indices, q + 1) \div Pow(21 - lp.accBits)

Unpacked(lp, indices) == \E q \in Nat : UnpackedTo(lp, indices, q)

\* An index is read from its four bytes.
LEMMA IndexAtIs ==
    ASSUME BitLen = 21, BytePad = 1, NEW out, NEW j
    PROVE  IndexAt(out, j) = FourBytes(out[4 * (j - 1) + 1], out[4 * (j - 1) + 2],
                                       out[4 * (j - 1) + 3], out[4 * (j - 1) + 4])
<1>1. OutWidth = 4
  BY OutWidthIs
<1> QED BY SMT, <1>1 DEF IndexAt, FourBytes

\* Writing one more element leaves the others as they are.
LEMMA OutGrows ==
    ASSUME BitLen = 21, BytePad = 1, NEW out \in Seq(Bytes), NEW e \in Seq(Bytes), NEW q \in Nat,
           NEW indices, Written(out, indices, q),
           Len(e) = 4, FourBytes(e[1], e[2], e[3], e[4]) = Idx(indices, q + 1)
    PROVE  Written(out \o e, indices, q + 1)
<1>0. Len(out) = 4 * q /\ \A j \in 1 .. q : IndexAt(out, j) = Idx(indices, j)
  BY Zenon DEF Written
<1>1. /\ Len(out \o e) = Len(out) + Len(e)
      /\ \A i \in 1 .. Len(out) + Len(e) :
            (out \o e)[i] = IF i <= Len(out) THEN out[i] ELSE e[i - Len(out)]
  BY ConcatProperties
<1>2. Len(out \o e) = 4 * (q + 1)
  BY SMT, <1>0, <1>1
<1>3. ASSUME NEW j \in 1 .. q
      PROVE  IndexAt(out \o e, j) = Idx(indices, j)
  <2>1. PICK a \in Nat : a = 4 * (j - 1) /\ a + 4 <= 4 * q
    <3>1. 4 * (j - 1) \in Nat /\ 4 * (j - 1) + 4 <= 4 * q
      BY SMT
    <3> QED BY Zenon, <3>1
  <2>2. ASSUME NEW k \in 1 .. 4
        PROVE  (out \o e)[a + k] = out[a + k]
    <3>1. a + k \in 1 .. Len(out) + Len(e) /\ a + k <= Len(out)
      BY SMT, <1>0, <2>1
    <3> QED BY Zenon, <1>1, <3>1
  <2>3. 1 \in 1 .. 4 /\ 2 \in 1 .. 4 /\ 3 \in 1 .. 4 /\ 4 \in 1 .. 4
    BY SMT
  <2>4. /\ (out \o e)[a + 1] = out[a + 1] /\ (out \o e)[a + 2] = out[a + 2]
        /\ (out \o e)[a + 3] = out[a + 3] /\ (out \o e)[a + 4] = out[a + 4]
    BY Zenon, <2>2, <2>3
  <2>5. IndexAt(out \o e, j) = IndexAt(out, j)
    BY Zenon, <2>1, <2>4, IndexAtIs
  <2> QED BY Zenon, <1>0, <2>5
<1>4. IndexAt(out \o e, q + 1) = Idx(indices, q + 1)
  <2>1. PICK a \in Nat : a = 4 * ((q + 1) - 1) /\ a = 4 * q
    <3>1. 4 * ((q + 1) - 1) \in Nat /\ 4 * ((q + 1) - 1) = 4 * q
      BY SMT
    <3> QED BY Zenon, <3>1
  <2>2. ASSUME NEW k \in 1 .. 4
        PROVE  (out \o e)[a + k] = e[k]
    <3>1. a + k \in 1 .. Len(out) + Len(e) /\ ~(a + k <= Len(out)) /\ (a + k) - Len(out) = k
      BY SMT, <1>0, <2>1
    <3> QED BY Zenon, <1>1, <3>1
  <2>3. 1 \in 1 .. 4 /\ 2 \in 1 .. 4 /\ 3 \in 1 .. 4 /\ 4 \in 1 .. 4
    BY SMT
  <2>4. /\ (out \o e)[a + 1] = e[1] /\ (out \o e)[a + 2] = e[2]
        /\ (out \o e)[a + 3] = e[3] /\ (out \o e)[a + 4] = e[4]
    BY Zenon, <2>2, <2>3
  <2> QED BY Zenon, <2>1, <2>4, IndexAtIs
<1>5. \A j \in 1 .. q + 1 : j \in 1 .. q \/ j = q + 1
  BY SMT
<1> QED BY Zenon, <1>2, <1>3, <1>4, <1>5 DEF Written

\* A round of the loop keeps the indices read so far and the bits of the next one.
LEMMA ExpandUnpacks ==
    ASSUME BitLen = 21, BytePad = 1, NEW indices, IsIndices(indices),
           NEW lp \in LoopVars, lp.read < SolutionLen, Unpacked(lp, indices),
           NEW byte, byte = Packed(indices)[lp.read + 1]
    PROVE  Unpacked(ExpandByte(lp, byte), indices)
<1>1. PICK r \in Nat, b \in 0 .. 20 : r = lp.read /\ b = lp.accBits /\ r < SolutionLen
  <2>1. lp.read \in 0 .. SolutionLen /\ lp.accBits \in 0 .. BitLen - 1
    BY Zenon DEF LoopVars
  <2>2. 0 .. SolutionLen \subseteq Nat /\ BitLen - 1 = 20
    BY SMT, SizesAre
  <2> QED BY Zenon, <2>1, <2>2
<1>2. PICK q \in Nat : UnpackedTo(lp, indices, q)
  BY Zenon DEF Unpacked
<1>3. PICK I \in Nat, J \in Nat, M \in Nat :
        /\ I = Idx(indices, q + 1) /\ J = Idx(indices, q + 2) /\ I < Pow2(21) /\ J < Pow2(21)
        /\ M = I * Pow2(21) + J /\ M = Pair(indices, q)
  BY Zenon, IdxBound, PairNat DEF Pair
<1>4. byte = (M \div Pow(34 - b)) % 256
  <2>1. 8 * r = 21 * q + b
    BY Zenon, <1>1, <1>2 DEF UnpackedTo
  <2>2. Packed(indices)[r + 1] = (Pair(indices, q) \div Pow(34 - b)) % 256
    BY SMTT(60), <1>1, <2>1, PackedByte
  <2> QED BY Zenon, <1>1, <1>3, <2>2
<1>5. byte \in 0 .. 255 /\ byte \in Nat
  <2>1. PICK g \in Positive : g = Pow(34 - b)
    <3>1. 34 - b \in 0 .. 42
      BY SMT
    <3> QED BY Zenon, <3>1, PowDoubles
  <2>2. PICK n \in Nat : n = M \div g
    BY Zenon, DivSplit
  <2> QED BY SMT, <1>4, <2>1, <2>2
<1>6. PICK acc \in Halves : acc = ShiftIn(lp.acc, byte)
  <2>1. lp.acc \in Halves
    BY DEF LoopVars
  <2> QED BY Zenon, <1>5, <2>1, ShiftInValue
<1>7. PICK V \in Nat, X \in Nat, a \in Nat :
        /\ V = Value(lp.acc) /\ a = V * 256 + byte /\ X = Value(acc) /\ X = a % Pow(32)
  <2>1. lp.acc \in Halves
    BY DEF LoopVars
  <2>2. Value(lp.acc) \in Nat /\ Value(acc) \in Nat
        /\ Value(acc) = (Value(lp.acc) * 256 + byte) % Pow(32)
    <3>1. Value(lp.acc) \in Nat /\ ShiftIs(lp.acc, byte, ShiftIn(lp.acc, byte))
      BY ZenonT(60), <1>5, <2>1, ShiftInValue
    <3>2. Value(acc) \in Nat
      BY ZenonT(60), <1>5, ShiftInValue
    <3> QED BY Zenon, <1>6, <3>1, <3>2 DEF ShiftIs
  <2>3. Value(lp.acc) * 256 + byte \in Nat
    BY SMT, <1>5, <2>2
  <2> QED BY ZenonT(60), <2>2, <2>3
<1>8. V % Pow(b) = M \div Pow(42 - b)
  <2>1. V % Pow(b) = I \div Pow(21 - b)
    BY Zenon, <1>1, <1>2, <1>3, <1>7 DEF UnpackedTo
  <2>2. PICK e \in 0 .. 21 : e = 21 - b /\ e + 21 = 42 - b
    BY SMT
  <2>3. M \div Pow(e + 21) = I \div Pow(e)
    BY SMTT(60), <1>3, PairFill
  <2> QED BY Zenon, <2>1, <2>2, <2>3
<1>9. X % Pow(b + 8) = M \div Pow(34 - b)
  <2>1. (a % Pow(32)) % Pow(b + 8) = M \div Pow(34 - b)
    BY SMTT(60), <1>4, <1>5, <1>7, <1>8, PairShift
  <2> QED BY Zenon, <1>7, <2>1
<1>10. lp.out \in Seq(Bytes) /\ Written(lp.out, indices, q) /\ 8 * r = 21 * q + b
  BY Zenon, <1>1, <1>2 DEF UnpackedTo, LoopVars, Bytes
<1>11. CASE b + 8 >= 21
  <2>1. PICK t \in 0 .. 7 : t = (b + 8) - 21 /\ t + 21 = b + 8 /\ 21 - t = 34 - b
                            /\ 8 * (r + 1) = 21 * (q + 1) + t
    BY SMT, <1>10, <1>11
  <2>2. (X \div Pow2(t)) % Pow2(21) = I /\ X % Pow(t) = J \div Pow(21 - t)
    <3>1. X % Pow(t + 21) = M \div Pow(21 - t)
      BY Zenon, <1>9, <2>1
    <3> QED BY <1>3, <3>1, PairEmit
  <2>3. PICK e \in Seq(Bytes) : e = Element(acc, t) /\ Len(e) = 4
    BY Zenon, ElementIsBytes, OutWidthIs
  <2>4. FourBytes(e[1], e[2], e[3], e[4]) = Idx(indices, q + 1)
    <3>1. Value(acc) \in Nat
      BY Zenon, <1>7
    <3> QED BY ZenonT(60), <1>3, <1>7, <2>2, <2>3, <3>1, ElementValue
  <2>5. Written(lp.out \o e, indices, q + 1)
    BY <1>10, <2>3, <2>4, OutGrows
  <2>6. PICK new : /\ new = ExpandByte(lp, byte) /\ new.read = r + 1 /\ new.acc = acc
                   /\ new.accBits = t /\ new.out = lp.out \o e
    <3>1. ExpandByte(lp, byte) = [read |-> r + 1, acc |-> acc, accBits |-> t, out |-> lp.out \o e]
      BY Zenon, <1>1, <1>6, <1>11, <2>1, <2>3, Round
    <3>. DEFINE f == [read |-> r + 1, acc |-> acc, accBits |-> t, out |-> lp.out \o e]
    <3>2. /\ f.read = r + 1 /\ f.acc = acc /\ f.accBits = t /\ f.out = lp.out \o e
      OBVIOUS
    <3> QED BY Zenon, <3>1, <3>2
  <2>7. (q + 1) + 1 = q + 2 /\ q + 1 \in Nat
    BY SMT
  <2>8. UnpackedTo(new, indices, q + 1)
    BY Zenon, <1>3, <1>7, <2>1, <2>2, <2>5, <2>6, <2>7 DEF UnpackedTo
  <2> QED BY Zenon, <2>6, <2>7, <2>8 DEF Unpacked
<1>12. CASE ~(b + 8 >= 21)
  <2>1. PICK e \in 0 .. 21 : e = 13 - b /\ e + 21 = 34 - b /\ 21 - (b + 8) = e
                             /\ 8 * (r + 1) = 21 * q + (b + 8)
    BY SMT, <1>10, <1>12
  <2>2. M \div Pow(e + 21) = I \div Pow(e)
    BY SMTT(60), <1>3, PairFill
  <2>3. PICK new : /\ new = ExpandByte(lp, byte) /\ new.read = r + 1 /\ new.acc = acc
                   /\ new.accBits = b + 8 /\ new.out = lp.out
    <3>1. ExpandByte(lp, byte) = [read |-> r + 1, acc |-> acc, accBits |-> b + 8, out |-> lp.out]
      BY Zenon, <1>1, <1>6, <1>12, Round
    <3>. DEFINE f == [read |-> r + 1, acc |-> acc, accBits |-> b + 8, out |-> lp.out]
    <3>2. /\ f.read = r + 1 /\ f.acc = acc /\ f.accBits = b + 8 /\ f.out = lp.out
      OBVIOUS
    <3> QED BY Zenon, <3>1, <3>2
  <2>4. UnpackedTo(new, indices, q)
    BY ZenonT(60), <1>3, <1>7, <1>9, <1>10, <2>1, <2>2, <2>3 DEF UnpackedTo
  <2> QED BY Zenon, <2>3, <2>4 DEF Unpacked
<1> QED BY Zenon, <1>11, <1>12

\* Nothing is unpacked at the start.
LEMMA StartUnpacked ==
    ASSUME BitLen = 21, NEW indices, IsIndices(indices)
    PROVE  Unpacked(StartLoop, indices)
<1>1. PICK I \in Nat : I = Idx(indices, 1) /\ I < Pow2(21)
  BY Zenon, IdxBound
<1>2. I \div Pow(21) = 0
  BY Zenon, <1>1, FillByte
<1>3. Pow(0) = 1 /\ Value(StartLoop.acc) = 0
  BY SMT, PowersOfTwo DEF Pow, Value, StartLoop
<1>4. Value(StartLoop.acc) % Pow(0) = 0
  BY SMT, <1>3
<1>5. 0 + 1 = 1 /\ 21 - 0 = 21 /\ 4 * 0 = 0 /\ 8 * 0 = 21 * 0 + 0 /\ 0 \in Nat /\ 1 .. 0 = {}
  BY SMT
<1>6. StartLoop.read = 0 /\ StartLoop.accBits = 0 /\ StartLoop.out = << >> /\ Len(<< >>) = 0
  BY DEF StartLoop
<1>7. UnpackedTo(StartLoop, indices, 0)
  BY Zenon, <1>1, <1>2, <1>4, <1>5, <1>6 DEF UnpackedTo, Written
<1> QED BY Zenon, <1>5, <1>7 DEF Unpacked

\* When every byte is read, every index is there and no bit is left.
LEMMA AllUnpacked ==
    ASSUME BitLen = 21, BytePad = 1, NEW indices, IsIndices(indices),
           NEW lp \in LoopVars, lp.read = SolutionLen, Unpacked(lp, indices)
    PROVE  IndicesIn(lp.out) = indices /\ lp.accBits = 0
<1>1. PICK b \in 0 .. 20 : b = lp.accBits
  <2>1. lp.accBits \in 0 .. BitLen - 1 /\ BitLen - 1 = 20
    BY DEF LoopVars
  <2> QED BY Zenon, <2>1
<1>2. PICK q \in Nat : UnpackedTo(lp, indices, q)
  BY Zenon DEF Unpacked
<1>3. 8 * SolutionLen = 21 * NumIndices /\ NumIndices \in Nat
  BY SMT, ExpandAssumption DEF SolutionLen
<1>4. 21 * NumIndices = 21 * q + b
  BY Zenon, <1>1, <1>2, <1>3 DEF UnpackedTo
<1>5. q = NumIndices /\ b = 0
  BY SMT, <1>3, <1>4
<1>6. IndicesIn(lp.out) = [j \in 1 .. NumIndices |-> IndexAt(lp.out, j)]
  <2>1. (4 * NumIndices) \div 4 = NumIndices
    BY SMT, <1>3
  <2>2. OutWidth = 4
    BY OutWidthIs
  <2> QED BY Zenon, <1>2, <1>5, <2>1, <2>2 DEF IndicesIn, UnpackedTo, Written
<1>7. indices = [j \in 1 .. NumIndices |-> indices[j]]
  <2>1. indices \in Seq(0 .. 2 ^ BitLen - 1) /\ Len(indices) = NumIndices
    BY Zenon DEF IsIndices
  <2>. DEFINE S == 0 .. 2 ^ BitLen - 1
  <2>2. indices \in Seq(S)
    BY <2>1
  <2>. HIDE DEF S
  <2>3. indices \in [1 .. Len(indices) -> S]
    BY Zenon, <2>2, LenProperties
  <2> QED BY Zenon, <2>1, <2>3
<1>8. \A j \in 1 .. NumIndices : IndexAt(lp.out, j) = indices[j]
  BY Zenon, <1>2, <1>5 DEF UnpackedTo, Written, Idx
<1> QED BY Zenon, <1>1, <1>5, <1>6, <1>7, <1>8
=============================================================================
