------------------------------ MODULE Equihash ------------------------------
(***************************************************************************)
(* The bit arithmetic of native/equihashverify/src/equi/equi.c: how        *)
(* verifyEH unpacks a solution into indices (expandArray), byte by byte.   *)
(*                                                                         *)
(* The accumulator is a uint32_t.  It is kept as two halves of 16 bits, so *)
(* that what the shift loses is lost here too.                             *)
(***************************************************************************)
EXTENDS Naturals, Sequences

CONSTANTS
    BitLen,        \* bits of an index: collisionBitLength + 1 (21 in the code)
    BytePad,       \* bytes of zero in front of every element (1)
    NumIndices     \* indices of a solution (512)

ASSUME ExpandAssumption ==
    /\ BitLen \in 8 .. 25      \* the two assertions of expandArray
    /\ BytePad \in Nat
    /\ NumIndices \in Nat \ {0}
    /\ (NumIndices * BitLen) % 8 = 0

SolutionLen == (NumIndices * BitLen) \div 8
OutWidth == (BitLen + 7) \div 8 + BytePad

-----------------------------------------------------------------------------
Half == 0 .. 2 ^ 16 - 1
Halves == [hi : Half, lo : Half]

\* Mutant: the accumulator is wider than a uint32_t.
ShiftIn_NoWrap(acc, byte) ==
    [hi |-> acc.hi * 256 + acc.lo \div 256,
     lo |-> (acc.lo % 256) * 256 + byte]

\* acc_value = (acc_value << 8) | in[i]
ShiftIn(acc, byte) ==
    [hi |-> ((acc.hi % 256) * 256) + acc.lo \div 256,
     lo |-> (acc.lo % 256) * 256 + byte]

\* (acc_value >> shift) & 0xFF
ByteAt(acc, shift) ==
    IF shift >= 16 THEN (acc.hi \div 2 ^ (shift - 16)) % 256
    ELSE ((acc.hi % 256) * 2 ^ (16 - shift) + acc.lo \div 2 ^ shift) % 256

\* v & (bit_len_mask >> below) & 0xFF, for below < BitLen
Masked(v, below) == IF BitLen - below >= 8 THEN v ELSE v % 2 ^ (BitLen - below)

\* One output element, most significant byte first; rest bits of the
\* accumulator belong to the next element.
Element(acc, rest) ==
    [x \in 1 .. OutWidth |->
       IF x <= BytePad THEN 0
       ELSE LET below == 8 * (OutWidth - x)
            IN  Masked(ByteAt(acc, rest + below), below)]

\* Mutant: a full accumulator is only emptied when another bit arrives.
ExpandByte_Late(loop, byte) ==
    LET acc  == ShiftIn(loop.acc, byte)
        have == loop.accBits + 8
    IN  IF have > BitLen
        THEN [read |-> loop.read + 1, acc |-> acc, accBits |-> have - BitLen,
              out |-> loop.out \o Element(acc, have - BitLen)]
        ELSE [loop EXCEPT !.read = @ + 1, !.acc = acc, !.accBits = have]

\* One round of expandArray's loop.
ExpandByte(loop, byte) ==
    LET acc  == ShiftIn(loop.acc, byte)
        have == loop.accBits + 8
    IN  IF have >= BitLen
        THEN [read |-> loop.read + 1, acc |-> acc, accBits |-> have - BitLen,
              out |-> loop.out \o Element(acc, have - BitLen)]
        ELSE [loop EXCEPT !.read = @ + 1, !.acc = acc, !.accBits = have]

\* The variables of expandArray's loop.
LoopVars ==
    [read : 0 .. SolutionLen, acc : Halves, accBits : 0 .. BitLen - 1, out : Seq(0 .. 255)]

StartLoop == [read |-> 0, acc |-> [hi |-> 0, lo |-> 0], accBits |-> 0, out |-> <<>>]

\* be32toh(indices[j]): element j of the output, of four bytes.
IndexAt(out, j) ==
    LET at == OutWidth * (j - 1)
    IN  16777216 * out[at + 1] + 65536 * out[at + 2] + 256 * out[at + 3] + out[at + 4]

IndicesIn(out) == [j \in 1 .. Len(out) \div OutWidth |-> IndexAt(out, j)]

-----------------------------------------------------------------------------
\* What the miner does (external): the indices as BitLen-bit numbers in a row.

BitOf(indices, b) ==
    (indices[b \div BitLen + 1] \div 2 ^ (BitLen - 1 - (b % BitLen))) % 2

Packed(indices) ==
    [i \in 1 .. (Len(indices) * BitLen) \div 8 |->
       LET bit(k) == BitOf(indices, 8 * (i - 1) + k)
       IN  128 * bit(0) + 64 * bit(1) + 32 * bit(2) + 16 * bit(3)
             + 8 * bit(4) + 4 * bit(5) + 2 * bit(6) + bit(7)]
=============================================================================
