# ZcashSoloPool: a TLA+ verification development

TLA+ models of the solo mining pool in `src/`, the TLC configurations that
check them on small instances, and TLAPS proofs of the properties that matter
most for instances of any size.  The pool is a single Node.js process: one
continuation runs at a time, and everything that is hard about it happens
between two awaits, between a timer and an answer, between a socket's events,
or between a crash and the next start.

## 1. The system

| Component | Source | State | Operations | Talks to |
|---|---|---|---|---|
| Job update loop | `index.js` `updateJob`, timers of `start` | `jobUpdateInFlight`, `jobUpdateQueued`, `jobUpdateQueuedClean` | start or queue an update, serve the queue, height poll, refresh timer, block found | node (RPC), job store, Stratum server |
| Job store | `lib/workManager.js` `generateJob` | `currentJob`, `jobs`, `jobCounter` | store a job, drop old ones | update loop, share validation |
| Stratum notification | `lib/stratumServer.js` `broadcastJob`, `sendJob`, authorize | `lastJob`, per-client socket | broadcast, notify after authorize, delayed repetition | miners |
| Stratum connections | `lib/stratumServer.js` `start`, `handleRequest`; `index.js` `countAuthorizedMiners` | `clients`, `_ipCount`, bans, per-client flags and counters, `stats.miners` | connect, lines of data, end/error/close, timeouts, sweep | miners, pool statistics |
| VarDiff | `lib/stratumServer.js` `applyDifficulty`, `noteAcceptedShare`, `checkIdleMinersVardiff` | per-client difficulty, previous target, share times | retarget, suggestion, idle check, grace window | share validation |
| Share validation | `lib/workManager.js` `validateShare`, `parseSubmit` | none of its own | read a submission, try its candidates, judge it, assemble a block | job store, VarDiff, verifier |
| Equihash verifier | `lib/equihashVerifier.js`, `native/equihashverify` | a call's buffers | check sizes, unpack the indices, sum the hashes | share validation |
| Block submission | `index.js` submit handler, `submitBlockCandidate`; `lib/zcashRpc.js` `submitBlock` | `recentBlockSubmissions`, `stats`, `blockHistory` | suppress duplicates, submit, retry with other parameters, count | node, state file, update loop |
| Persisted state | `index.js` `loadPersistedState`, `savePersistedState`, `gracefulShutdown` | `pool-state.json` | load, save, crash, restart | block submission |
| RPC client | `lib/zcashRpc.js` | keep-alive agent, discovered rate method | calls with timeouts | node |
| Logger | `lib/logger.js` | `_buffer`, open file and its day | write, flush, rotate, prune | operator |
| API and rate limiter | `lib/apiServer.js` | `_buckets` | let a request through or refuse it | operator |
| Web GUI server | `lib/webguiServer.js` | `_fileCache` | serve a file | operator |
| Ping sweep | `index.js` `runMinerPingSweep` | `pingSweepInFlight`, `pingCommandUnavailable` | ping the miners' hosts | Stratum connections |

What makes each of them correct, and what makes it hard:

* **Update loop** – at most one `generateJob` at a time; the job never goes
  back; a clean request made during a generation is not lost; the pool ends up
  on the node's tip.  Hard: four independent callers, calls that fail, a tip
  that moves between question and answer.
* **Store and notification** – a miner that is authorized knows the last job,
  the store knows every job a miner may still be working on and no other.
  Hard: miners connect, authorize again, lag and die between two broadcasts;
  the repetition after authorize fires at any later time.
* **Connections** – counters agree with the map they count.  Hard: Node emits
  end, error and close in several orders, after kicks, bans and timeouts.
* **VarDiff** – shares in flight keep counting after an increase, nothing
  easier ever does, and a miner stuck at a high difficulty gets out.  Hard:
  the share is judged before an await and credited after it.
* **Share validation** – whatever mixture of conventions a miner follows, a good
  share is understood, and the block made of it is the one that was solved.
  Hard: nothing in a submission says which convention it follows, and a wrong
  byte order or compact size shows only when a block is found.
* **Operator's side** – log lines stay in order and only old ones are given up,
  although renames, unlinks and appends can fail half way; the limiter's windows
  do what they say; the file cache never serves an old file, although two awaits
  separate the time from the contents; a sweep's in-flight flag loses no miner.
* **Blocks and state** – a block is submitted once at a time, counted once,
  claimed only if the node accepted it; the file survives crashes.  Hard: the
  answer of `submitblock` can be lost, the retry ladder takes minutes, saves
  fail.

## 2. Modules

| Module | Models | Extends |
|---|---|---|
| `JobUpdate` | the update loop and its callers | |
| `JobUpdateProofs` | its theorems | `JobUpdate`, `TLAPS` |
| `JobPipeline` | job store and notification on top of the update loop | `JobUpdate` |
| `JobFeed` | the abstract promise to the miners: a feed of jobs | |
| `JobPipelineProofs` | theorems of the pipeline, among them that it implements `JobUpdate` and `JobFeed` | `JobPipeline`, `JobUpdateProofs` |
| `BlockSubmit` | blocks found, submission, statistics, state file | |
| `BlockSubmitProofs` | its theorems about counts, file, duplicates, claims and history | `BlockSubmit`, `TLAPS` |
| `StratumSessions` | connections | |
| `StratumSessionsProofs` | its theorems | `StratumSessions`, `TLAPS` |
| `VarDiff` | one miner's difficulty and the credit of its shares | |
| `VarDiffProofs` | its theorems | `VarDiff`, `TLAPS` |
| `ShareEncoding` | the conventions: parameters, nonces, times, bits, solutions, compact sizes | |
| `Equihash` | `expandArray`'s bit arithmetic | |
| `ShareEncodingProofs` | what the operators of both do at every length | `ShareEncoding`, `Equihash`, `TLAPS` |
| `ShareCheck` | one share from submission to verdict and block, and the node that reads it | `ShareEncoding`, `Equihash` |
| `ShareCheckProofs` | its theorems | `ShareCheck`, `ShareEncodingProofs` |
| `Logger` | buffered log files and their rotation | |
| `RateLimiter` | the API's limiter | |
| `FileCache` | the dashboard's file cache | |
| `PingSweep` | the miner ping sweep | |
| `OperatorProofs` | theorems of `Logger`, `FileCache`, `RateLimiter` and `PingSweep` | those four, `TLAPS` |
| `MC*` | instances for TLC (symmetry where it is used) | |

Operators named `X_Something` are *mutants*: a plausible bug in the code that
`X` stands for.  Nothing in a specification uses them; replacing `X` by one
makes TLC report the property it is paired with in `PROJECT.json`, which shows
that the property depends on the code.

### JobUpdate

`tip` is the node's best block; `poll[p]` an outstanding `getblockcount`;
`gen[l]` the `generateJob` call of loop `l`, where a loop is the promise
`updateJob` keeps in `jobUpdateInFlight`.  A call to the node is three steps:
the pool asks (`PollTick`, `StartLoop`), the node answers from the tip of that
moment (`CountAnswer`, `TemplateAnswer`), the pool's continuation handles the
answer (`PollReturn`, `GenDone`) or an error (`PollFail`, `GenFail`).  Between
the end of the loop and its `finally` only promise continuations of the same
turn run, and none of them calls `updateJob`, so `EndLoop` is one step with the
round that ends the loop.  `GenFail` breaks out of the loop past the lines that
read the queue flags: the flags stay set.

The node's tip never loses height here; it can be replaced by a competing block
of the same height (`Branches`).  `phase` says how far `start` has come: its
timers are armed after the first `updateJob` has returned, successful or not.

### JobPipeline

The same actions with the store and the notifications: `Publish` is `GenDone`
together with `jobs.set`, the two clean-ups of the store and `broadcastJob`,
because the code has no await in between; `Abandon` is `GenFail` with the job id
that a failing coinbase check may have used up.  Job ids are numbers, so the
first key of the `Map` is the lowest id.  `history` records every broadcast;
its last entry is `lastJob` of the code.  `conn` has the four states of a socket
that matter for notifications; a socket over the backlog cap is destroyed in
the broadcast instead of being written to.  A pending repetition holds the old
client object: `Cleanup` drops it, because for a destroyed socket it does
nothing.

`JobFeed` says the same without nodes, loops, stores and sockets: a job is
published, later ids never go back to a lower block, and a miner that listens
has the latest job from the moment it starts to.  `FeedSpec` is `JobFeed` with
`history` for what is published and, per connection, what its miner was last
told; a destroyed or unauthorized connection is deaf.

### BlockSubmit

`handler[h]` is a suspended submit handler: waiting for the n-th `submitblock`
call or for `proposeBlock`.  `mined` is what the node has accepted, and may be
ahead of what the pool learns: `Failed` covers a timeout, a connection that
broke after the node's decision, an error that is not retried and the last
parameter shape being refused.  A save writes a temporary file and renames it,
so `disk` becomes the new contents or, when writing fails, stays what it was.
`Crash` loses suspended handlers and the duplicate map and loads the file;
`GracefulShutdown` saves first.  Time is in ticks of one RPC timeout.  Left out
of the file: the `lastBlock` fields and rejected shares.

### StratumSessions

A connection is the client object `start` makes for a socket.  `sock` is the
socket as Node sees it; a destroyed one stays in `clients` until its first
cleanup event.  Each line of data is one action guarded by the
pre-authorization limit; `draining` is the data loop going on with the rest of
a chunk although a reply has destroyed the socket.  `quiet` means
`inactiveTimeoutMs` without data; the socket's own timeout may fire then, or
never, if the pool keeps writing.  Worker names are assumed to be strings,
numbers or absent.

### VarDiff

Miners share none of this state, so one is enough.  A target is named by its
difficulty.  `ValidateShare` judges a share against the current and the grace
target; `CreditShare` is the handler after its await.  Lines of one chunk are
all read before the first share of it is credited (`crediting`), and timers
wait for the last one: that is the order of Node's microtasks.  Average share
intervals are not modelled: a retarget is any change the dampening factors
(1.5 up, 0.33 down, at least 5%) let through once `RetargetDue`.  Two auxiliary
clocks say what the code does not keep: `superseded`, the time since each
difficulty was last in force, and `suggested`, the time since the miner's last
suggestion.  Shares whose hash meets the network target although it misses the
share target are left out, and so is `vardiff.enabled = false`, which turns
retarget and idle check off.  Share credit computes with whole numbers and
rounds down; the code's six decimals would only make the difference found in
`vardiff_best` larger.

### ShareEncoding, Equihash, ShareCheck

`ShareEncoding` holds the pure functions of `parseSubmit` and
`validateShare` on sequences of hex digits: which parameter is the nonce and
which the time, the candidates made of each, the solution with or without its
compact size.  The code tries candidates one after the other and stops at the
first that verifies; since a header's hash does not depend on which candidate it
came from, the order is abstracted to sets.  `Equihash` is `expandArray` byte by
byte with its 32-bit accumulator kept as two halves.  `ShareCheck` puts them in
order: `Expired` and `Malformed` return early, `Normalize` makes the candidates,
`Unpack` is one round of the verifier's loop, then `Accept`, `LowDiff` or
`Unsolved`.  An accepted block is assembled and read back the way the node does
it: `NodeRoot` is `ComputeMerkleRoot`, `ReadsSize` is `ReadCompactSize`, and
`NodeReads` the serialization of a block, all from `zcash/src`.  The two Merkle
trees are written differently, as their sources are: the pool's loop pairs an
odd hash with itself, the node's pushes the last hash once more first.

`SubmissionAssumption` says what a miner sends: of the header and indices it
solved, the nonce in one of four forms (whole; without the digits the pool
assigned, at some byte; zeros cut off in front, by digits; zeros cut off behind,
by bytes), the time in either byte order, the solution with or without its size.
A block has no more transactions than the node reads (`MaxSize`); its limit of
2 MB keeps it far below that.  TLC evaluates the assumption for the submissions
of the run, the theorems hold for every set of submissions that meets it.

Hashes are free terms.  The Equihash condition is assumed to hold for what the
miner solved and for nothing else.  `verifyEH` itself checks only that the
sizes fit and the hashes of all indices cancel, not the order and
distinctness of indices that the node checks too; that difference lies inside
the opaque predicate.  Compact sizes written in a longer form than needed are
not among the inputs.  Only such a solution has two fields, so the last factor of
2 in `VerifierRunsBounded` is proved of `SolutionFields`, but no run uses it up.
`Ambiguous` names the submissions that nobody could tell
apart from others and that the pool reads differently from how they were meant:
extranonce1 taken out beyond the eighth insertion point, fewer than eight digits
of nonce, an eight-digit nonce before the time, and a raw solution that happens to
start with its own length.

### Logger

A line is its number and a file the sequence of its lines; a name without a
file is the empty sequence.  `rotateBy` is chosen once, so one run covers both
ways to rotate.  A flush is one step: take the buffer, rotate if the 30 s since
the last check are over (`rotateDue`), append.  Inside it, the renames may stop
after any of them (`Shifted(j)`), every unlink and the append may fail; a crash
in the middle of a flush is such a partial flush followed by `Crash`.  The clock
is assumed not to step back over midnight.  By date, an unlink that fails leaves
an old file while a newer one goes, so "the oldest go first" is false;
`OnlyOldLost` says what is true: a line given up is older than all that is
buffered, by size also older than every line kept, and by date it is only given
up when `MaxFiles` whole files newer than it are kept.

### RateLimiter, FileCache, PingSweep

`IsAllowed` is the whole method; `allowed` and `refused` remember when it
answered what.  A window starts with a request, so two windows can let through
up to, but not quite, twice the limit within one window's length.

A `visit` is a request for one file, cut where `handleRequest` awaits: the file
system answers `Stat`, the code looks at the cache (`Lookup`), the file system
answers `ReadFile`, the code stores the entry (`Remember`).  Everything else,
replacing and removing the file included, can come in between.  The contents are
identified with the version that was written; every write is assumed to give the
file a new modification time.

A sweep pings every host that an authorized miner connects from; `answers` holds
what has come back, `SweepDone` is the code behind `Promise.all`, where a missing
ping command ends the loop part of the way and stops all later sweeps.

## 3. What is checked

| Run | Properties | Bounds | Result |
|---|---|---|---|
| `job_update` | `TypeOK`, `SingleGeneration`, `JobNeverGoesBack`, `QueuedCleanHonoured`, `FollowsTip`, `QueuedUpdateServed` | heights to 2, two branches, one poll, two loops | hold, 13 434 states |
| `job_update_norefresh` | `FollowsTip` | `Refresh = FALSE`, height 1 | violated, see 5 |
| `job_pipeline` | `PipelineTypeOK`, `MinersOnLastJob`, `JobsAtCurrentHeight`, `RetentionExact`, `NotifyNeverOlder`, `FeedSpec` | two clients, store of 2, three jobs, one repetition pending | hold, 609 382 states (up to symmetry) |
| `block_submit` | `TypeOK`, `NoConcurrentDuplicate`, `OutcomesHaveCandidates`, `ClaimsAreMined`, `HistoryMatchesTotal`, `FileNeverGoesBack`, `EveryCandidateResolved` | two blocks, two handlers, two calls per submission, window 3, history of 1, three candidates | hold, 222 726 states |
| `block_submit_shares` | `ShareCountSurvives` | as above | violated, see 5 |
| `stratum_sessions` | `TypeOK`, `IpCountExact`, `MinersExact`, `UnauthorizedLeaves`, `SilentLeaves` | three connections, two addresses, one of them allowed, limits 2, 1 and 2 | hold, 161 266 states |
| `vardiff` | `TypeOK`, `GraceIsForSuperseded`, `RejectsOnlyAfterSuggestion`, `StalledMinerRescued` | difficulties 2 to 5, two shares per chunk, windows of 2 ticks | hold, 675 711 states |
| `vardiff_grace` | `InFlightSharesPass` | as above | violated, see 5 |
| `vardiff_best` | `BestIsObserved` | as above | violated, see 5 |
| `share_check` | `ShareTypeOK`, `BlockIsWhatWasSolved`, `EveryConventionUnderstood`, `IndicesAsPacked`, `VerifierRunsBounded` | see below | hold, 33 336 states |
| `operator` | `TypeOK`, `LogInOrder`, `OnlyOldLost`, `SizeRotationKeeps`, `LimiterExact`, `ServedIsCurrent`, `EveryMinerPinged` | five lines, two old files, buffer of 2, five days; two addresses, four requests; three visits, three versions; three miners on two hosts | hold, 748 643 states |
| `logger_date` | `OutgoingDayComplete` | as above | violated, see 5 |

`operator` and `share_check` turn deadlock checking off: a share's story ends
with its verdict, and the limiter and the cache stop when their clock, requests
or visits are used up.  In all other runs ticks, timers or polls go on forever.

The services of `operator` share no state, so a behaviour of one is the same
whatever the others do: `MCOperator` lets the initial state choose the one that
runs, which checks each of them completely in one run.

Why the bounds are enough: two loops and two branches are the fewest with which
two generations could overtake each other, and the callers of `updateJob` are
interchangeable once they call it (a second overlapping poll adds a caller, not
a step).  A store of 2 fills up, overflows and is emptied by a clean job within
three jobs.  Two handlers and two blocks show a duplicate and a different block
at the same time, three candidates leave one for after a crash, and a history
of 1 is cut at the second block.  `Window > Attempts` must hold, as it does by
default (120 s against five calls of 15 s): with a shorter
`blockSubmitDedupWindowMs` the same block can be submitted twice at once.
Three connections fill the allowed address's limit of 2 and leave one that is
refused until another ends; the second address is refused by the ACL, so that
nothing is counted for it.  `share_check` uses the code's own widths (64 digits of nonce, 8 of
extranonce1 and time, 21 bits per index) and takes 8 indices instead of
512: 21 bits meet every position within a byte in 8 indices, after which the
pattern repeats.  Its submissions cross all nonce forms with both parameter
orders, byte orders and solution forms; index lists with one bit set, at every
bit, and templates of 0 to 7 and 251 to 253 transactions (both sides of the
compact size's change of form at 253, the coinbase included) vary on their own.
Five days are needed for two files to be prunable while one unlink fails; five
lines fill the buffer twice and leave one.  Three visits are a slow reader, a
fast one and the one that is served what they left.

Fairness:

* `JobUpdate!Fairness` – timers fire and continuations run (`WF`); the node is
  assumed not to fail every call forever (`SF` on its answers and on the
  handling of a good answer).  Without that nothing can follow the tip.
  Nothing makes `NodeTip`, `BlockFound` or a failure happen.
* `BlockSubmit!Fairness` – every RPC call has a timeout, so a suspended handler
  goes on with an answer or an error.
* `StratumSessions!Fairness` – the pre-authorization timer and the sweep fire,
  and Node emits close for every socket that ends.  The socket's own timeout is
  not assumed to fire.
* `OperatorSpec` – the ping interval fires, a ping process ends or is killed by its
  timeout, and the sweep that awaits it is resumed.  The log, the limiter and the
  cache promise nothing that needs fairness.
* `VarDiff!FairSpec` – time passes, continuations run, the idle timer fires.

## 4. What is proved

All theorems hold for every value of the constants that meets the module's
assumptions (any number of clients, connections, loops, jobs and limits).

* **JobUpdateProofs.**  The inductive invariant is `IInv`: `TypeOK`,
  `SingleGeneration`, `AnswersAreFresh` (no job and no template in flight is
  higher than the tip allows, and no template in flight is lower than the
  current job) and `CleanIsQueued`.  `AnswersAreFresh` is needed because
  `JobNeverGoesBack` depends on the template in flight having been made after
  the current job; `SingleGeneration` is what makes that so, since nobody else
  can replace the job while the call is out.  `CleanIsQueued` says that a clean
  flag is only set together with the queue flag, without which `EndLoop` could
  drop it.  Theorems: `TypeCorrect`, `OneGeneration`, `JobMonotone`,
  `CleanHonoured`.
* **JobPipelineProofs.**  `PipelineImplementsUpdate` shows
  `PipelineSpec => Spec`: every step is a step of `JobUpdate` or leaves its
  variables alone, so everything proved about `JobUpdate` holds of the
  pipeline.  `PipelineIInv` adds that ids are handed out in order
  (`IdsInOrder`), that the last broadcast is stored (`LastJobStored`) and that
  a socket that has not authorized has been told nothing (`OpenIsSilent`).
  `PipelineImplementsFeed` shows `PipelineSpec => FeedSpec`: every step is a
  publication, a join, a leave or a stutter of `JobFeed`.  `RetentionInv` (ids
  ascend along the history, and the store is exactly what `UsableJobs` says of the
  history) makes `RetentionExact` inductive; the cardinality of a run of ascending
  ids decides when the oldest job goes.  Theorems: `PipelineTypeCorrect`,
  `StoreAtCurrentHeight`, `EveryMinerOnLastJob`, `NotifyMonotone`,
  `PipelineImplementsFeed`, `StoreHoldsUsable`.
* **StratumSessionsProofs.**  `IInv` adds to the two counts that a client is in
  the map exactly until its first cleanup (`MapFollowsSockets`) and that the
  message limits end the socket that reaches them (`LimitsKept`); the counts
  need `MapFollowsSockets`, because a decrement is right only for a client that
  is still counted.  Theorems: `TypeCorrect`, `ExactIpCount`, `ExactMiners`, and `NoClientLeaks` for the
  two strengthenings, which are worth having for themselves.
* **BlockSubmitProofs.**  `IInv` adds to `TypeOK` and `OutcomesHaveCandidates`
  that memory is never behind the file (`MemoryAheadOfDisk`).  A restart copies
  the file's totals into memory, so the file must account for its own outcomes;
  and a save may be written by a handler that resumed after several others, so
  that the file only grows because every save takes memory as it is then
  (`FileWrites`).  Theorems: `TypeCorrect`, `OutcomesAccounted`, `FileMonotone`.
  `NoDuplicate` needs one more invariant, `EntryCoversSubmission`: the entry of
  a block is no older than the calls its submission has made, which is at most
  `Attempts` ticks.  It is proved from `Window > Attempts`, without which the
  entry can expire, or be cleaned up, while its block is still being submitted.
  From the same invariant `SubmissionsAreCovered`: until a submission is over, its
  entry is there, at most `Attempts` ticks old, and suppresses repetitions.
  `ClaimInv` relates memory, file, node and the handlers
  that hold a "yes" of the node they have not acted on (`Won`): what is claimed
  is mined and claimed once, no block is both claimed and won, no two handlers
  won the same block, and blocks plus wins are at most what was mined.  Steps fall
  into four kinds (nothing claimed, a win, a claim, a restart), and each kind is
  one lemma.  A restart may forget claims that were not saved; that only lowers
  the left side.  Theorems: `OnlyMinedClaimed`, `HistoryAgrees`.
* **VarDiffProofs.**  `WindowInStep` says that while the grace window is open its
  difficulty is lower than the current one, and the time since it was
  superseded and the rest of the window add up to at most its length.  Theorems:
  `TypeCorrect`, `GraceOnlyForSuperseded`.  `SpacedOut` says that a difficulty
  superseded within the grace time was superseded by the last retarget, so that the
  window is still its own or it passes anyway, unless the miner has suggested one
  since.  It needs `RetargetTime >= Grace` (by default 90 s and 30 s), which is
  the left side of `RejectsOnlyAfterSuggestion`; theorem:
  `VarDiffRejectsNothingItself`.  `BestWithinLimits` bounds finding 4: a miner's
  best difficulty is at most `MaxDifficulty / MinDifficulty` times that of its
  hardest share.
* **ShareEncodingProofs.**  Not about behaviours but about the operators, for
  every length: a body behind its compact size reads back (`SizedReadsBack`),
  a solution is recovered with or without it (`SolutionRecovered`), and the
  time, the insertion of extranonce1 and the filled-in zeros are among the
  candidates (`TimeFound`, `InsertionFound`, `FillFound`), all of which have the
  header's length (`CandidatesFit`).  The second half is the arithmetic of
  `expandArray`: shifting a byte into the accumulator multiplies its value by 256
  modulo 2^32 (`ShiftInValue`), a byte of the packed form is a slice of two
  neighbouring indices written as one number of 42 bits (`PackedByte`), and a
  round keeps `UnpackedTo`: q indices are written, 8 * read = 21 * q + accBits,
  and the accumulator's low accBits bits are the first bits of index q + 1
  (`ExpandUnpacks`).
* **ShareCheckProofs.**  `ShareInv` says that the candidates are those of the
  submission as long as it is checked, and `UnpackInv` that `UnpackedTo` holds
  for the indices that were solved.  From the first follow `ShareTypes` and
  `RunsBounded` (each candidate set is counted, and the headers are their
  product); from both `UnpackingLosesNothing`.  `ConventionsUnderstood`: of a
  submission that is not `Ambiguous` the parameters are told apart
  (`ReadUnderstood`), the solved header is among the candidates, also when an odd
  number of zeros was cut off and `normalizeHexField` puts one back
  (`NonceUnderstood`), and the verifier sees the solved indices (`SolvedIsFound`).
  `BlocksAreSolved`: the pool's layers and the node's are the same as sequences
  (`LayersAgree`), each has half as many hashes as the one below, rounded up, so
  that the loop ends with one (`AboveIsShorter`, `OneIsLeft`), and both loops end in
  the same root (`RootsAgree`); the ids the pool computes
  leaves from are the node's (`LeavesAreIds`); and every size that is written is
  one the node reads (`NodeReadsSize`, `BlockReadsBack`).

  `UnpackingLosesNothing` and `ConventionsUnderstood` take `BitLen = 21` and
  `BytePad = 1`, the parameters of Equihash 200, 9 that the code passes, with any
  number of indices; `BlocksAreSolved` takes a solution no longer than `MaxSize`
  (it has 1344 bytes).  The layers of the tree are a recursive function; that it
  exists and that two of them agree is proved by `SetInduction`, an induction
  over a set instead of a predicate, which in turn rests on `LeastNat`.
* **OperatorProofs.**  For the log, a rotation of any kind only *moves* files
  without one passing another, or gives some up (`Moved`), which keeps the order;
  an append keeps it because by date no file is newer than the open one
  (`NoneBeyond`), the strengthening in `LogInv`.  Which lines are given up needs
  `LossInv`: a line that is gone is older than all that is buffered, by size no
  file is left behind the last name, and the files count that hold only later
  lines.  Theorems: `LogTypes`, `LogStaysInOrder`,
  `OnlyOldLinesGo`, and `SizeRotationLosesTheLast` for the step that rotates.
  For the limiter, `LimiterInv` ties a bucket to what it let through since its
  window began: `LimiterBoundsEveryStretch`.  For the cache, a visit's knowledge is
  ordered: asked, time of the stat, contents (`VisitInOrder`), so an entry's
  contents are never older than its time (`EntryHonest`).  Theorem: `NeverStale`.
  For the ping sweep, `SweepsAreAwaited`: the flag is set exactly while a sweep is
  under way that has asked the hosts of its clients.  This is the part of
  `EveryMinerPinged` that needs no fairness.

Every safety invariant and action property of section 3 is stated by a theorem.
Only model-checked is liveness: `FollowsTip`, `QueuedUpdateServed`,
`EveryCandidateResolved`, `UnauthorizedLeaves`, `SilentLeaves`,
`StalledMinerRescued` and `EveryMinerPinged` need fairness, which is out of the
prover's reach.

## 5. Findings

1. **The height poll cannot see an advance by one block**
   (`index.js:772`, run `job_update_norefresh`).  `getblockcount` is the height
   of the tip, the current job's height is that of the block after it.  When the
   tip advances by one the two are equal and the poll does nothing.  With
   `jobRefresh` off the pool stays on the old tip until a second block arrives.
   With it on, the refresh timer closes the gap (`job_update`), after up to
   `intervalSeconds`.  For an unchanged tip the two heights differ, so every
   poll makes a clean job, against the comment at `index.js:767-769`.
2. **The share count does not survive a restart** (`index.js:104`, run
   `block_submit_shares`), against `README.md:31`: it is saved, not loaded, and
   overwritten by the next save.
3. **Shares in flight can be rejected after two increases**
   (`stratumServer.js:933`, run `vardiff_grace`), against the comment at 928.
   Retargets are at least `retargetTime` apart, but suggestions are not.  VarDiff
   by itself never causes it (`RejectsOnlyAfterSuggestion`, proved).
4. **`bestDiff` can exceed every share's difficulty** (`index.js:306`, run
   `vardiff_best`), against `README.md:327`: the quality is relative to the
   target the share was held to, the factor is the difficulty of the moment.
5. **The last lines of a day go into the next day's file** (`logger.js:145`, run
   `logger_date`), against the comment at 101: `flush` empties the buffer before
   `rotateIfNeeded` looks at it.

## 6. Not modelled

* `zcash/` and `node_modules` are third-party code the pool is shipped
  with, not part of its logic.  Of the node, the Merkle root, the ids of a template
  and the reading of sizes are modelled, because the pool's own must agree with
  them; otherwise it appears as external actions (its tip, its templates, its
  verdict on a block).  They make up nearly all of the C and C++ in
  the repository; the pool itself is JavaScript, and of C and C++ it has
  `native/equihashverify`.
* BLAKE2b, the sum of the hashes in `verifyEH` and double SHA-256: opaque, since no
  property depends on their values.
* Hash rate estimates and the other statistics: floating-point averages that
  only the operator reads.  `getInfo`, `getNetworkSolps` and its latch feed them.
* `waitForNodeReady`: a sequential loop before any of the state modelled here
  exists.  That a state file that cannot be read is overwritten (`index.js:116`)
  is left out too: `BlockSubmit` assumes a readable file.
* The API's routes, the web GUI's path checks and `webgui/app.js`: presentation of
  read-only snapshots.
* The ACL's address matching and the splitting of data into lines: pure string
  functions without a boundary that another component depends on.
* Configuration parsing: its results are the CONSTANTS.

## 7. Order of the work

The modules were written in the order of what the pool must not get wrong: the
update loop and the notification of miners, block submission and the state file,
connections, difficulty, the reading of shares, and the services around the
pool.  What would come next is a composition of `JobPipeline`,
`StratumSessions` and `BlockSubmit` under one abstract specification of the pool;
today the first implements `JobFeed` on its own, and the three meet only in the
assumptions they make of one another (a connection that ends leaves the feed; a
block found asks for an update).
