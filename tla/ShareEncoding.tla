---------------------------- MODULE ShareEncoding ----------------------------
(***************************************************************************)
(* How a submitted share is read (lib/stratumServer.js: parseSubmit;       *)
(* lib/workManager.js: the normalize functions and the compact sizes).     *)
(*                                                                         *)
(* Miners write the same share in different ways, so most of these         *)
(* functions answer with several candidates.  A hex string is a sequence   *)
(* of digits 0 .. 15 where its parity or its length in digits matters, and *)
(* a sequence of bytes where it is known to be even.  The order in which   *)
(* candidates are tried is left open: they are sets.                       *)
(***************************************************************************)
EXTENDS Naturals, Sequences, FiniteSets

CONSTANTS
    NonceDigits,   \* digits of a nonce in the header (64 in the code)
    ExtraDigits,   \* digits of extranonce1 (8)
    MinDigits,     \* shortest nonce that is filled up with zeros (8)
    Inserts        \* insertion points tried for extranonce1 (8)

ASSUME EncodingAssumption ==
    /\ NonceDigits \in Nat \ {0} /\ NonceDigits % 2 = 0    \* whole bytes
    /\ ExtraDigits \in Nat \ {0} /\ ExtraDigits % 2 = 0
    /\ MinDigits \in Nat \ {0}
    /\ Inserts \in Nat

Digits == 0 .. 15
Bytes  == 0 .. 255
TimeDigits == 8

-----------------------------------------------------------------------------
\* Compact sizes.  The nine-byte form is only ever read.

\* Mutant: the three-byte form starts one value late.
CompactSizeHex_LateForm(v) ==
    CASE v < 254               -> <<v>>
      [] v >= 254 /\ v < 65536 -> <<253, v % 256, v \div 256>>
      [] OTHER                 -> <<254, v % 256, (v \div 256) % 256,
                                    (v \div 65536) % 256, v \div 16777216>>

\* Little-endian behind the first byte.
CompactSizeHex(v) ==
    CASE v < 253               -> <<v>>
      [] v >= 253 /\ v < 65536 -> <<253, v % 256, v \div 256>>
      [] OTHER                 -> <<254, v % 256, (v \div 256) % 256,
                                    (v \div 65536) % 256, v \div 16777216>>

\* Bytes a compact size takes, by its first one.
SizeWidth(first) ==
    CASE first < 253 -> 1 [] first = 253 -> 3 [] first = 254 -> 5 [] OTHER -> 9

\* The value s starts with.  Of the nine-byte form only the low half is read
\* here: with a high half that is not zero it exceeds every string's length.
SizeValue(s) ==
    CASE s[1] < 253 -> s[1]
      [] s[1] = 253 -> s[2] + 256 * s[3]
      [] OTHER      -> s[2] + 256 * s[3] + 65536 * s[4] + 16777216 * s[5]

HasSize(s) ==
    /\ Len(s) >= 1
    /\ Len(s) >= SizeWidth(s[1])
    /\ s[1] = 255 => \A i \in 6 .. 9 : s[i] = 0

AfterSize(s) == SubSeq(s, SizeWidth(s[1]) + 1, Len(s))

\* s is a compact size followed by as many bytes as it says.
IsSized(s) == HasSize(s) /\ SizeValue(s) = Len(s) - SizeWidth(s[1])

Sized(body) == CompactSizeHex(Len(body)) \o body

\* A solution that starts with its own length is taken as it is, and once
\* more with the shortest size; any other is raw and gets one.
SolutionFields(s) == IF IsSized(s) THEN {s, Sized(AfterSize(s))} ELSE {Sized(s)}

RawSolutions(fields) == {AfterSize(f) : f \in {g \in fields : IsSized(g)}}

-----------------------------------------------------------------------------
\* Nonces.

Zeros(n) == [i \in 1 .. n |-> 0]

\* normalizeHexField with allowOddLength.
Evened(h) == IF Len(h) % 2 = 1 THEN <<0>> \o h ELSE h

InsertedAt(h, extra, i) == SubSeq(h, 1, i) \o extra \o SubSeq(h, i + 1, Len(h))

\* Mutant: every byte position is tried.
Insertions_Uncapped(h, extra) ==
    {InsertedAt(h, extra, 2 * p) : p \in {q \in 0 .. NonceDigits : 2 * q <= Len(h)}}

\* extranonce1 put into the first byte positions of a nonce sent without it.
Insertions(h, extra) ==
    {InsertedAt(h, extra, 2 * p) :
        p \in {q \in 0 .. NonceDigits : q < Inserts /\ 2 * q <= Len(h)}}

Filled(h) == {Zeros(NonceDigits - Len(h)) \o h, h \o Zeros(NonceDigits - Len(h))}

NonceCandidates(h, extra) ==
    IF Len(h) % 2 = 1 \/ Len(h) > NonceDigits THEN {}
    ELSE IF Len(h) = NonceDigits THEN {h}
    ELSE (IF Len(extra) = ExtraDigits /\ Len(h) + ExtraDigits = NonceDigits
          THEN Insertions(h, extra) ELSE {})
         \cup (IF Len(h) >= MinDigits THEN Filled(h) ELSE {})

-----------------------------------------------------------------------------
\* Times and bits: eight digits, in either byte order.

ReverseHex(h) ==
    [i \in 1 .. Len(h) |-> IF i % 2 = 1 THEN h[Len(h) - i] ELSE h[Len(h) + 2 - i]]

\* Mutant: the time is only tried in the byte order it was sent in.
HeaderTimeCandidates_AsSent(sent, jobTime) == {sent, ReverseHex(jobTime), jobTime}

HeaderTimeCandidates(sent, jobTime) ==
    {sent, ReverseHex(sent), ReverseHex(jobTime), jobTime}

PlausibleExponent(high, low) == 16 * high + low \in 3 .. 32

CompactBitsLE(h) ==
    IF PlausibleExponent(h[1], h[2]) /\ ~PlausibleExponent(h[7], h[8])
    THEN ReverseHex(h) ELSE h

CompactBitsCandidates(h) ==
    {h, ReverseHex(h), CompactBitsLE(h), ReverseHex(CompactBitsLE(h))}

-----------------------------------------------------------------------------
\* parseSubmit.  The parameters between the job id and the solution are hex
\* strings; the worker's name in front of the job id plays no part.

IsTime(h) == Len(h) = TimeDigits

FirstOf(S) == CHOOSE i \in S : \A j \in S : i <= j

\* The longest of the parameters in S, the first of those.
Longest(params, S) ==
    FirstOf({i \in S : \A j \in S : Len(params[j]) <= Len(params[i])})

\* What neither rule finds is taken by position.
ByPosition(params) ==
    IF ~IsTime(params[1]) /\ IsTime(params[2])
    THEN [nTime |-> params[2], nonce |-> params[1]]
    ELSE [nTime |-> params[1], nonce |-> params[2]]

\* With a worker in front: the first parameter as long as a time is the time,
\* the longest other one the nonce.
WithWorker(params) ==
    LET times  == {i \in DOMAIN params : IsTime(params[i])}
        others == {i \in DOMAIN params :
                     /\ params[i] # <<>>
                     /\ params[i] # params[FirstOf(times)]}
    IN  IF times # {} /\ others # {}
        THEN [nTime |-> params[FirstOf(times)], nonce |-> params[Longest(params, others)]]
        ELSE ByPosition(params)

ParseSubmit(worker, params) ==
    IF worker THEN WithWorker(params) ELSE ByPosition(params)
=============================================================================
