---------------------------- MODULE MCShareCheck ----------------------------
(***************************************************************************)
(* ShareCheck for TLC: one header solved in many ways, each sent in many   *)
(* forms.  Sets that are crossed are kept small; what is independent of    *)
(* the rest (index patterns, template sizes) varies on its own.            *)
(***************************************************************************)
EXTENDS ShareCheck

JobTime == <<6, 5, 1, 2, 3, 4, 9, 10>>
RolledTime == <<6, 5, 1, 2, 3, 4, 9, 13>>
JobBits == <<1, 15, 0, 7, 15, 15, 14, 10>>
Extra == <<11, 12, 13, 10, 11, 12, 13, 10>>

\* A nonce with z zeros in front, y behind, and extranonce1 at byte p.
NonceWith(z, y) ==
    [i \in 1 .. NonceDigits |-> IF i <= z \/ i > NonceDigits - y THEN 0 ELSE (i % 9) + 1]
NonceAround(p) ==
    [i \in 1 .. NonceDigits |->
       IF i \in 2 * p + 1 .. 2 * p + ExtraDigits THEN Extra[i - 2 * p] ELSE (i % 9) + 1]
WithoutExtra(p) ==
    SubSeq(NonceAround(p), 1, 2 * p)
    \o SubSeq(NonceAround(p), 2 * p + ExtraDigits + 1, NonceDigits)

\* The nonce in the header, what is sent of it, and where extranonce1 goes.
Nonces ==
    {[full |-> NonceWith(0, 0), sent |-> NonceWith(0, 0), at |-> 0]}
    \cup {[full |-> NonceAround(p), sent |-> WithoutExtra(p), at |-> p] :
            p \in {0, 1, Inserts - 1, Inserts, 28}}
    \cup {[full |-> NonceWith(z, 0), sent |-> SubSeq(NonceWith(z, 0), z + 1, NonceDigits),
           at |-> 0] : z \in {1, 2, 7, 8, 55, 56, 57, 58}}
    \cup {[full |-> NonceWith(0, y), sent |-> SubSeq(NonceWith(0, y), 1, NonceDigits - y),
           at |-> 0] : y \in {2, 8, 54, 56, 58}}

\* Index lists: one bit set, all bits set, and one whose packed form starts
\* with the number of the bytes that follow.
OneBit(j, b) == [i \in 1 .. NumIndices |-> IF i = j THEN 2 ^ b ELSE 0]
AllBits == [i \in 1 .. NumIndices |-> 2 ^ BitLen - 1]
OwnLength == [i \in 1 .. NumIndices |-> IF i = 1 THEN (SolutionLen - 1) * 2 ^ (BitLen - 8) ELSE i]

Share(nonce, nonceAt, headerTime, sentTime, bits, indices, raw, worker, tmpl, meets, known) ==
    [jobKnown |-> known, jobTime |-> JobTime, jobBits |-> JobBits, extra |-> Extra,
     tmpl |-> tmpl, worker |-> worker, nonceAt |-> nonceAt, extraAt |-> nonce.at,
     params |-> IF nonceAt = 1 THEN <<nonce.sent, sentTime>> ELSE <<sentTime, nonce.sent>>,
     raw |-> raw,
     solution |-> IF raw THEN Packed(indices) ELSE Sized(Packed(indices)),
     solved |-> [header |-> [nonce |-> nonce.full, time |-> headerTime, bits |-> bits],
                 indices |-> indices],
     meets |-> meets]

PlainNonce == [full |-> NonceWith(0, 0), sent |-> NonceWith(0, 0), at |-> 0]
PlainTemplate == [txs |-> 2, givesId |-> TRUE, v5 |-> TRUE]
Times == {ReverseHex(JobTime), ReverseHex(RolledTime)}

Conventions ==
    {Share(n, at, t, IF rev THEN ReverseHex(t) ELSE t, b, OneBit(1, 0), raw, worker,
           PlainTemplate, "pool", TRUE) :
        n \in Nonces, at \in {1, 2}, t \in Times, rev \in BOOLEAN,
        b \in {JobBits, ReverseHex(JobBits)}, raw \in BOOLEAN, worker \in BOOLEAN}

Solutions ==
    {Share(PlainNonce, 2, RolledTime, RolledTime, ReverseHex(JobBits), indices, raw, TRUE,
           PlainTemplate, meets, TRUE) :
        indices \in {AllBits, OwnLength}
                    \cup {OneBit(j, b) : j \in {1, 2, NumIndices}, b \in 0 .. BitLen - 1},
        raw \in BOOLEAN, meets \in {"network", "nothing"}}

Blocks ==
    {Share(PlainNonce, 2, RolledTime, RolledTime, ReverseHex(JobBits), OneBit(1, 0), TRUE, TRUE,
           tmpl, "network", TRUE) :
        tmpl \in {t \in [txs : (0 .. 7) \cup {251, 252, 253}, givesId : BOOLEAN, v5 : BOOLEAN] :
                    t.v5 => t.givesId}}

Late ==
    {Share(PlainNonce, 2, RolledTime, RolledTime, JobBits, AllBits, FALSE, TRUE,
           PlainTemplate, "pool", FALSE)}

MCSubmissions == Conventions \cup Solutions \cup Blocks \cup Late
=============================================================================
