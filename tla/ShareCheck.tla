----------------------------- MODULE ShareCheck -----------------------------
(***************************************************************************)
(* One share from the miner's solver to the verdict of validateShare and   *)
(* the block that goes to the node (lib/workManager.js: validateShare,     *)
(* calculateFullMerkleRoot, assemble; lib/equihashVerifier.js; the native  *)
(* verifyEH).                                                              *)
(*                                                                         *)
(* The miner solved one header with one list of indices; it may write the  *)
(* header's fields and the solution in any of the ways miners do.  Hashes  *)
(* are free terms: the Equihash condition holds for what the miner solved  *)
(* and for nothing else, and which targets the header's hash meets is part *)
(* of the submission.                                                      *)
(***************************************************************************)
EXTENDS ShareEncoding, Equihash

CONSTANTS
    Submissions    \* what miners send, with what they solved

-----------------------------------------------------------------------------
\* What a miner sends of what it solved: params[nonceAt] is the nonce, the
\* other parameter the time.

SentNonce(s) == s.params[s.nonceAt]
SentTime(s)  == s.params[3 - s.nonceAt]

\* The whole nonce; what is left of it without the digits the pool assigned;
\* or what is left when zeros are cut off, in front by digits and behind by bytes.
NonceSent(s) ==
    LET full == s.solved.header.nonce
        at   == 2 * s.extraAt
    IN  \/ SentNonce(s) = full
        \/ /\ at + ExtraDigits <= NonceDigits
           /\ s.extra = SubSeq(full, at + 1, at + ExtraDigits)
           /\ SentNonce(s) = SubSeq(full, 1, at) \o SubSeq(full, at + ExtraDigits + 1, NonceDigits)
        \/ \E z \in 1 .. NonceDigits :
              /\ \A i \in 1 .. z : full[i] = 0
              /\ SentNonce(s) = SubSeq(full, z + 1, NonceDigits)
        \/ \E z \in 1 .. NonceDigits :
              /\ z % 2 = 0
              /\ \A i \in NonceDigits - z + 1 .. NonceDigits : full[i] = 0
              /\ SentNonce(s) = SubSeq(full, 1, NonceDigits - z)

HeaderSolved(s) ==
    LET header == s.solved.header
    IN  /\ header \in [nonce : Seq(Digits), time : Seq(Digits),
                        bits : {s.jobBits, ReverseHex(s.jobBits)}]
        /\ Len(header.nonce) = NonceDigits /\ Len(header.time) = TimeDigits

\* The largest size the node reads; a block cannot hold as many transactions.
MaxSize == 33554432

SolutionSent(s) ==
    LET indices == s.solved.indices
    IN  /\ indices \in Seq(0 .. 2 ^ BitLen - 1) /\ Len(indices) = NumIndices
        /\ s.solution = IF s.raw THEN Packed(indices) ELSE Sized(Packed(indices))

ASSUME SubmissionAssumption ==
    \A s \in Submissions :
       /\ s.jobKnown \in BOOLEAN /\ s.worker \in BOOLEAN /\ s.raw \in BOOLEAN
       /\ s.jobTime \in Seq(Digits) /\ Len(s.jobTime) = TimeDigits
       /\ s.jobBits \in Seq(Digits) /\ Len(s.jobBits) = TimeDigits
       /\ s.extra \in Seq(Digits) /\ Len(s.extra) = ExtraDigits /\ s.extraAt \in Nat
       /\ s.nonceAt \in {1, 2} /\ DOMAIN s.params = 1 .. 2
       /\ HeaderSolved(s)
       /\ NonceSent(s)
       /\ SentTime(s) \in {s.solved.header.time, ReverseHex(s.solved.header.time)}
       /\ SolutionSent(s)
       /\ s.tmpl.txs \in Nat /\ 1 + s.tmpl.txs <= MaxSize
       /\ s.tmpl.v5 \in BOOLEAN /\ s.tmpl.givesId \in BOOLEAN
       /\ (s.tmpl.v5 => s.tmpl.givesId)
       /\ s.meets \in {"nothing", "pool", "network"}

-----------------------------------------------------------------------------
VARIABLES
    sub,           \* the submission and the job it is for
    phase,         \* sent, checking, done
    cand,          \* the candidates made of the submission
    loop,          \* expandArray's variables
    result         \* validateShare's answer

shareVars == <<sub, phase, cand, loop, result>>

-----------------------------------------------------------------------------
\* Transaction ids and the Merkle root.  A hash has a byte order: display is
\* what JSON carries, internal is what is hashed.

Flipped(h) == [h EXCEPT !.order = IF @ = "display" THEN "internal" ELSE "display"]

DoubleHash(x) == [of |-> x, order |-> "internal"]

\* The id of transaction i of the block, 0 the coinbase.  For version 5 it is
\* not the double hash of the transaction's bytes.
TxId(i, v5) == IF v5 THEN DoubleHash(<<"body", i>>) ELSE DoubleHash(<<"bytes", i>>)

\* One round of the pairing loop; an odd layer's last hash is paired with itself.
MerkleLayer(layer) ==
    LET size == Len(layer)
    IN  [i \in 1 .. (size + 1) \div 2 |->
           DoubleHash(<<layer[2 * i - 1],
                        layer[IF 2 * i <= size THEN 2 * i ELSE 2 * i - 1]>>)]

\* Layers are paired up until one hash is left; each is shorter than the one
\* below, so there are fewer rounds than leaves.
TopOf(Layer(_), leaves) ==
    LET layer[n \in Nat] ==
            IF n = 0 THEN leaves
            ELSE LET below == layer[n - 1]
                 IN  IF Len(below) > 1 THEN Layer(below) ELSE below
        rounds == CHOOSE n \in 0 .. Len(leaves) : Len(layer[n]) = 1
    IN  layer[rounds][1]

MerkleTop(leaves) == TopOf(MerkleLayer, leaves)

\* getblocktemplate writes ids in display order.
GivenId(tmpl, i) == Flipped(TxId(i, tmpl.v5))

\* Mutant: the coinbase's id is always computed from its bytes.
Leaves_ComputedId(tmpl) ==
    <<DoubleHash(<<"bytes", 0>>)>>
    \o [i \in 1 .. tmpl.txs |-> Flipped(GivenId(tmpl, i))]

\* The leaves: the coinbase's id if the template gives it, or else the hash of
\* its bytes, then the ids of the template's transactions.
Leaves(tmpl) ==
    <<IF tmpl.givesId THEN Flipped(GivenId(tmpl, 0)) ELSE DoubleHash(<<"bytes", 0>>)>>
    \o [i \in 1 .. tmpl.txs |-> Flipped(GivenId(tmpl, i))]

\* The root in display order, as generateJob stores it, and in the header.
CalculateFullMerkleRoot(tmpl) == Flipped(MerkleTop(Leaves(tmpl)))
HeaderRoot(tmpl) == Flipped(CalculateFullMerkleRoot(tmpl))

-----------------------------------------------------------------------------
\* validateShare.

NoCandidates == [none |-> TRUE]
NoResult == [none |-> TRUE]
Rejected(error) == [valid |-> FALSE, error |-> error]

Reject(error) ==
    /\ phase' = "done"
    /\ result' = Rejected(error)
    /\ UNCHANGED <<sub, cand, loop>>

\* No such job, or not one of the current height.
Expired ==
    /\ phase = "sent"
    /\ ~sub.jobKnown
    /\ Reject("Job Expired")

Read == ParseSubmit(sub.worker, sub.params)

CandidatesOf(read) ==
    [nonces |-> NonceCandidates(Evened(read.nonce), sub.extra),
     times  |-> HeaderTimeCandidates(read.nTime, sub.jobTime),
     bits   |-> CompactBitsCandidates(sub.jobBits),
     fields |-> SolutionFields(sub.solution)]

Legible(read) == IsTime(read.nTime) /\ read.nonce # <<>> /\ Len(sub.solution) > 0

Malformed ==
    /\ phase = "sent"
    /\ sub.jobKnown
    /\ ~Legible(Read) \/ CandidatesOf(Read).nonces = {}
    /\ Reject("Invalid layout")

\* The candidates are made and the loops begin.  All fields carry the same
\* solution, so the verifier unpacks the same bytes for every candidate.
Normalize ==
    /\ phase = "sent"
    /\ sub.jobKnown
    /\ Legible(Read)
    /\ CandidatesOf(Read).nonces # {}
    /\ phase' = "checking"
    /\ cand' = CandidatesOf(Read)
    /\ loop' = StartLoop
    /\ UNCHANGED <<sub, result>>

\* What varies in the header; the rest of it is the job's.
Headers == [nonce : cand.nonces, time : cand.times, bits : cand.bits]

Solution == CHOOSE raw \in RawSolutions(cand.fields) : TRUE

\* The wrapper and the addon both refuse a solution of another length.
WellSized == Len(Solution) = SolutionLen

Unpack ==
    /\ phase = "checking"
    /\ WellSized
    /\ loop.read < SolutionLen
    /\ loop' = ExpandByte(loop, Solution[loop.read + 1])
    /\ UNCHANGED <<sub, phase, cand, result>>

Checked == ~WellSized \/ loop.read = SolutionLen

\* verifyEH: the hashes of the indices, for this header, add up to zero.
Verify(header) ==
    /\ WellSized
    /\ header = sub.solved.header
    /\ IndicesIn(loop.out) = sub.solved.indices

\* The header, the solution with its size, the number of transactions, and
\* the transactions.
Assemble(header, field) ==
    [header |-> header,
     root |-> HeaderRoot(sub.tmpl),
     bytes |-> field \o CompactSizeHex(1 + sub.tmpl.txs),
     txs |-> [i \in 1 .. 1 + sub.tmpl.txs |-> TxId(i - 1, sub.tmpl.v5)]]

NoBlock == [none |-> TRUE]

Accept ==
    /\ phase = "checking"
    /\ Checked
    /\ sub.meets # "nothing"
    /\ \E header \in Headers, field \in cand.fields :
          /\ Verify(header)
          /\ result' = [valid |-> TRUE, header |-> header,
                        block |-> IF sub.meets = "network" THEN Assemble(header, field)
                                  ELSE NoBlock]
    /\ phase' = "done"
    /\ UNCHANGED <<sub, cand, loop>>

LowDiff ==
    /\ phase = "checking"
    /\ Checked
    /\ sub.meets = "nothing"
    /\ \E header \in Headers : Verify(header)
    /\ Reject("Low Diff")

Unsolved ==
    /\ phase = "checking"
    /\ Checked
    /\ ~\E header \in Headers : Verify(header)
    /\ Reject("Invalid solution")

ShareInit ==
    /\ sub \in Submissions
    /\ phase = "sent"
    /\ cand = NoCandidates
    /\ loop = StartLoop
    /\ result = NoResult

ShareNext ==
    Expired \/ Malformed \/ Normalize \/ Unpack \/ Accept \/ LowDiff \/ Unsolved

ShareSpec == ShareInit /\ [][ShareNext]_shareVars

-----------------------------------------------------------------------------
\* The node's side of a block (zcash/src).

\* ComputeMerkleRoot: the last hash of an odd layer is pushed once more, then
\* neighbours are hashed.
NodeLayer(hashes) ==
    LET even == IF Len(hashes) % 2 = 1 THEN Append(hashes, hashes[Len(hashes)]) ELSE hashes
    IN  [i \in 1 .. Len(even) \div 2 |-> DoubleHash(<<even[2 * i - 1], even[2 * i]>>)]

NodeRoot(txs) == TopOf(NodeLayer, txs)

\* ReadCompactSize: sizes written longer than necessary, and sizes above
\* MaxSize, are refused.
ReadsSize(s) ==
    /\ Len(s) >= 1
    /\ Len(s) >= SizeWidth(s[1])
    /\ s[1] = 253 => SizeValue(s) >= 253
    /\ s[1] = 254 => SizeValue(s) >= 65536 /\ SizeValue(s) <= MaxSize
    /\ s[1] # 255

RefusedBlock == [none |-> TRUE]

\* The bytes of a block from the left: a size, a solution of that size, the
\* number of transactions, nothing more.
NodeReads(block) ==
    LET width == SizeWidth(block.bytes[1])
        size  == SizeValue(block.bytes)
        rest  == SubSeq(block.bytes, width + size + 1, Len(block.bytes))
    IN  IF ReadsSize(block.bytes) /\ ReadsSize(rest) /\ Len(rest) = SizeWidth(rest[1])
        THEN [solution |-> SubSeq(block.bytes, width + 1, width + size),
              txs |-> SizeValue(rest)]
        ELSE RefusedBlock

-----------------------------------------------------------------------------
ShareTypeOK ==
    /\ phase \in {"sent", "checking", "done"}
    /\ loop \in LoopVars

Accepted == phase = "done" /\ result.valid

\* A block that is handed to the node is the one the miner solved: its header
\* commits to the transactions it carries (odd layers, given and computed
\* coinbase ids, byte orders), and its bytes read back as the solution and the
\* number of transactions, at the edges of the compact sizes too.
BlockIsWhatWasSolved ==
    Accepted /\ result.block # NoBlock =>
        LET block == result.block
        IN  /\ block.header = sub.solved.header
            /\ block.root = NodeRoot(block.txs)
            /\ NodeReads(block) = [solution |-> Packed(sub.solved.indices),
                                   txs |-> Len(block.txs)]

\* The submissions the pool cannot make sense of: extranonce1 beyond the last
\* insertion point, a nonce cut down below MinDigits or to the length of a time
\* in front of the time, and a raw solution that happens to start with its own
\* length.
Ambiguous ==
    \/ sub.extraAt >= Inserts
    \/ Len(Evened(sub.params[sub.nonceAt])) < MinDigits
    \/ IsTime(sub.params[1]) /\ IsTime(sub.params[2]) /\ sub.nonceAt = 1
    \/ sub.raw /\ IsSized(sub.solution)

\* Whatever mixture of conventions a miner follows (order of the parameters,
\* byte order of the time, extranonce1 left out at some offset, zeros cut off,
\* solution with or without its size), a share for a known job that meets a
\* target is accepted, except for the cases above.
EveryConventionUnderstood ==
    phase = "done" /\ sub.jobKnown /\ sub.meets # "nothing" /\ ~Ambiguous
        => result.valid

\* Unpacking loses no bit: once all bytes are read the indices are those the
\* miner packed, with nothing left in the accumulator.
IndicesAsPacked ==
    phase = "checking" /\ WellSized /\ Checked /\ Solution = Packed(sub.solved.indices)
        => IndicesIn(loop.out) = sub.solved.indices /\ loop.accBits = 0

\* A submission costs a bounded number of runs of the verifier, however its
\* fields are written: the insertion points and the two fills, four times, two
\* bit orders, two solution fields.
VerifierRunsBounded ==
    phase = "checking" =>
        Cardinality(Headers) * Cardinality(cand.fields) <= (Inserts + 2) * 4 * 2 * 2
=============================================================================
