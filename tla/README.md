# A TLA+ model of cminer

cminer is a CPU miner for four currencies (ckb, btc, eth/etc, kas).  One process
keeps one connection to a mining pool, receives jobs, lets a number of worker
threads search nonces and submits the shares they find.  These modules model
what is hard to test in it: the hand-over of jobs and shares between threads
that meet only in a mutex, an atomic counter and a bounded channel; the table of
requests that wait for an answer over reconnects, time limits and repeated
answers; and the watchdog that replaces a connection that has gone quiet.

Paths are relative to the repository's root.

## The system

```
   pool ---- socket ----> thread "net" -- writes --> Statev.job, jobsc
     ^                    (miner.rs)  <- mutex ->    Statev.reqs, submitc ...
     |                        ^                          ^           |
     +------------------------+ channel(512)             | try_lock  | clone
                              |   ^                      |           v
                              |   +---- errors ---- main thread    workers
                              +-------- shares --------------------- (n)
```

| component | state | operations | interacts through |
|---|---|---|---|
| network thread (`src/miner.rs` `fun`, `connect`, `handle_socket`, `loop_handle_*`) | where it is in the connection, `start_time` | connect or fail, log in, send a request, skip or obey an error, read an answer or a job, pause 5 s, reconnect | owns the receiver; takes the mutex in `handle_request`, `handle_response` |
| main thread (`src/miner.rs` `fun`, `src/state.rs`) | `now`, `jobnow`, `jobid` | start the workers, print a metric every 30 s and clear unanswered requests, look at the job every `--expire` s, leave on Ctrl-C | `try_lock`; posts errors and hashrate reports into the channel |
| table of requests (`src/reqs.rs`) | id -> method, time | add (overwrites), remove, clear_timeouts | under the mutex |
| shared state (`src/state.rs`) | job slot, `jobsc`, counters, hashrate counters | | mutex; `jobsc` is read without it |
| currency (`src/{ckb,btc,eth,kas}/`) | the slot (`Sleep`, `Nonce1t`, `Compute`) | handle job, target, extranonce, answer; a worker's loop | |
| worker (`run` of each currency) | `job_idx`, its clone of the job, nonce | poll `jobsc`, clone the slot, try a nonce, post a share | atomic load, mutex, `try_send` |
| HTTP proxy, TLS (`src/miner.rs`, `src/config.rs`) | how far connect is | dial, TLS with the proxy, CONNECT and its answer, TLS with the pool | part of connect |
| building a dataset (`src/eth/pow.rs`) | the bytes of the dataset | fill tasks in parallel | called by the network thread under the mutex |
| proof of work (`kaspow/`, `src/util.rs`, external crates) | none | pure functions | called by workers and by the network thread |
| `goproxy.jl` | | development proxy | not part of the miner |

What makes each part correct:

* shares: a share found is sent at most once under an id of its own, and once
  registered is accepted, rejected, awaited or reported as timed out, whatever
  happens to the connection; the counters say so;
* requests: every request leaves the table after a while; registration precedes
  sending;
* watchdog: an error ends the connection it is about, a job that does not change
  ends the connection, a dead network thread ends the process;
* jobs: a worker that has seen the counter's value mines the job in the slot; the
  slot keeps what each of the pool's messages said; every worker moves to the
  newest job;
* datasets (eth): nobody computes with the dataset of another epoch; the old one is
  let go of while the new one is built; threads that fill it without a lock write
  every item, and none twice;
* connections: a login goes out only where the proxy has opened the way; every
  failure on the way to the pool is an outcome the reconnect handles;
* computations: integers of several words, targets, the matrix of kas and bitcoin's
  merkle root are what their mathematical definitions say;
* nonces: workers on the same job try different nonces, and what they hash is
  what the pool rebuilds from the share; nothing is hashed twice when nonces wrap.

The hard behaviours: three kinds of threads interleaving, `try_lock` and
`try_send` that may fail, a reconnect that keeps the table and the channel,
answers that come late or twice, panics that end one thread or the process, and
counters at their bounds.  PROJECT.json lists them as hazards at their lines.

## Modules

| module | models | state and actions |
|---|---|---|
| `ShareLedger` | abstract: what the control plane does with a share | counters of queued, dropped, awaited, given up, judged shares; `Find`, `Drop`, `Submit`, `Judge`, `GiveUp`, `Discard` |
| `Miner` | `src/miner.rs`, `src/reqs.rs`, the parts of `src/state.rs` it uses, `handle_request` and the answers of `handle_response` | one action per step of the network thread (`StartConnect` ... `PeerClose`, `NetPanic`), of the main thread (`Poll`, `ShowMetric`, `SendTimeouts`, `Report`, `CheckJob`, `SendExpired` ...), of the pool (`Answer`, `Notify`), `Found`, `CtrlC`, `Tick` |
| `MinerProofs` | theorems about `Miner` and `Proxy` | |
| `Proxy` | `connect`, `connect_maybe_with_http_proxy`, `handle_http_proxy`, on top of `Miner` | `Begin`, `Dialed`, `ProxySecured`, `Answered`, `PoolSecured`, `Failed`, `Up`; everything after is `Miner`'s |
| `JobBoard` | abstract: handing jobs to workers | number posted, number each worker holds; `Post`, `Adopt` |
| `CkbMiner` | `src/ckb/mod.rs`, `Computer::update` of `src/ckb/pow.rs`, `parse_nonce`, the nonce in `make_submit`, `jobsc` | `Notify`, `Bump`, `SetTarget`, `Subscribe` and their fatal cases on the network thread; `Load`, `Clone`, `CloneFatal`, `Try` of each worker |
| `CkbProofs` | theorems about `CkbMiner` | |
| `EthMiner` | `src/eth/mod.rs`, `Computer` of `src/eth/pow.rs`, `jobsc` | `NotifySame` and `Bump` (store, then bump), `NotifyEpoch` and `BuildDone` (bump, then build and store) on the network thread; `Load` (which drops the clone), `Clone`, `Try` of each worker |
| `EthProofs` | theorems about `EthMiner` and `EthBuild` | |
| `EthBuild` | `make_full` of `src/eth/pow.rs`, on top of `EthMiner` | `StartBuild`, `WriteItem` of each task, `EndBuild` |
| `KasMiner` | `src/kas/mod.rs`, `parse_nonce` of `src/kas/proto.rs`, `jobsc` | `Notify`, `Bump`, `SetTarget`, `SetExtranonce` and the fatal cases; `Load`, `Clone`, `Try` of each worker |
| `KasProofs` | theorems about `KasMiner` | |
| `BtcMiner` | `src/btc/mod.rs`, `Computer` of `src/btc/pow.rs`, `Job` and `make_submit` of `src/btc/proto.rs`, `jobsc` | `Notify`, `Bump`, `SetDifficulty`, `Subscribe` and their panics; `Load`, `CloneJob`, `CloneNone`, `CloneFatal`, `TryNonce`, `RollNonce2`, `RollFatal`, `Idle` of each worker |
| `BtcProofs` | theorems about `BtcMiner` | |
| `NumberLemmas` | lemmas about quotients, rests, wraps, divisors and powers | |
| `Uint` | `kaspow/math/src/uint.rs` and `int.rs`: numbers as functions from limbs to words | operators |
| `Pow` | `kaspow/math/src/lib.rs`, `kaspow/src/lib.rs`, `matrix.rs`, `xoshiro.rs`, conversions of `src/util.rs`, the merkle fold of `src/btc/pow.rs` | operators |
| `UintLemmas` | lemmas about numbers made of digits, loops over limbs, bits and bytes, compact targets, for the proofs about `Arith` | |
| `Arith` | the inputs for `Uint` and `Pow`, and the reference definitions they are compared with | one step, that picks an input |
| `ArithProofs` | theorems about `Arith` | |
| `MCMiner`, `MCProxy`, `MCCkbMiner`, `MCEthMiner`, `MCKasMiner`, `MCBtcMiner`, `MCArith` | instances for TLC | |

`Miner` has what all four currencies share; `LoginId` and `Reports` tell them
apart.  `CkbMiner`, `EthMiner`, `KasMiner` and `BtcMiner` have what each currency adds: the
slot, the counter, the workers; all four implement `JobBoard`.  They and `Miner` meet in the
mutex (each handler is one action, or two where the lock is held over two visible steps), in
the slot's id (`job` in `Miner`) and in the channel (a worker that finds a share is `Found`).
They are checked apart: no property of the table of requests depends on the nonce, and none
of the slot on the table.  `Proxy` and `EthBuild` extend `Miner` and `EthMiner`: they take one
step of these apart, and every step of theirs is one of the extended module or leaves its variables
alone, so that what is proved of it holds with them.  What `BtcMiner`'s workers hash is a header with the job's id for what `Pow`'s merkle
root computes.

Choices that need a word:

* `Instant` is what the code compares it with.  `StartConnect` marks everything in
  the channel as not `fresh`, which is `error_time <= start_time`.  A request has
  an age that saturates at the limit.
* The network thread awaits only in sends and receives, so a handler is atomic
  but for the mutex.  While the write loop is in a send the read loop goes on
  (`npc = "send"` still admits `Answer`, `Notify`, `PeerClose`).
* `fatal!` (of the external logging crate) and `panic!` on the network thread are
  `NetPanic` and the `...Fatal` actions: the thread ends, the receiver is dropped
  with what it holds, parking_lot's mutex is released, the others go on.  Before it
  the slot may already have been emptied by `mem::replace`.  If `fatal!` ends the
  process instead, that is one more way to reach a final state and no property is
  affected.
* Relaxed loads of `jobsc` yield an earlier value at worst, which is the same as a
  load that took place earlier: an interleaving the model has.
* `Exit` of each slot type is never constructed, so a worker never leaves its
  loop.
* A dataset of eth is known by the job it was built for.  `Arc`s to it are the
  records that carry it: the slot's and the workers'.  After `take` a worker's record keeps
  the id of the job, as a history variable the refinement needs.
* While eth builds a dataset `posted` of the board is the previous job's number: the slot is
  empty, but no worker can see that, because the mutex is locked.
* In kas a job before a difficulty divides by the target 0 in `target2difficulty`, and a
  difficulty of 0 divides by itself in `to_params`: both are panics of the network thread.
* The numbers on a nonce are digits of a small base instead of bytes.
* ckb: an extranonce may have up to all digits of the nonce, as `parse_nonce` allows, and each job adds a
  random number to the nonce.  Behind a long extranonce (8 bytes of the code's 16 or more) there is not
  room enough for the sum, which then spills into the extranonce: the code does not look, and neither do
  the actions.  `SlotCarriesSession` says what the slot has then, `ShareRebuilt` that the share is
  lost exactly then.  `LaneAssumption` is only about the tries of one job.
* The table of requests and the ids survive a reconnect, and so does an answer: `Answer` takes any id that is
  not still on its way to the pool, sent over whichever connection, for the first time or again.
* A worker that panics is dead; the mutex was released before.  ckb: any job may have a powhash that is not 64 hex
  digits.  btc: an extranonce that is not hex or of another length than the coinbase leaves room
  for, and a coinbase that is no transaction or has no inputs (`Broken`: only its hex digits are checked
  when it comes), at the clone and again whenever nonce2 moves on (`CloneFatal`, `RollFatal`).
* btc: `Subscribe` and `SetDifficulty` change the job in place.  `session` is a history
  variable: what the pool gave last, and the extranonces in force since its last job.  The room that
  coinbase_part1 declares is that of the extranonce the pool gave last.  A wrong length or a broken coinbase
  may panic the decoder or, depending on the bytes, give another coinbase, so the fatal action and the other are
  both enabled.
* btc: a job without a target panics only if the line about the job is logged at the level
  set; both happen.
* The answer of the proxy is one read: its status, how many words it shows, and whether
  some of it is still to come, which makes TLS with the pool fail.  Without TLS what is left
  is read as lines that are no JSON and are logged.
* `EthBuild`'s threads take tasks in any order, at most `Threads` of them at a time; a write of an item is one
  step, since an item depends on the cache only.
* In `Uint` a loop is a function on the turns done: `Loop` over limbs, with the word each turn
  stores and the carry it leaves, `Repeat` for the others.  `|` and `^` are sums over the
  bits.  A hash of two hashes is the pair of them.
* The floats of `compute_rank` are the fractions they stand for.  Each quotient, product and difference is
  rounded to the nearest float, ties to even (`Round`), with `Precision` bits and the last bit at a place between
  `-Coarsest` and `Finest`, so that small results are subnormal; infinities are left out.  A pivot is
  what is `Above` EPS.  The run has floats of 6 bits and an EPS of 1/16 for 3x3 matrices over 0, 1 and 3.  There
  `TestsRight` holds; it holds with 7 bits too, and with 5 TLC finds a matrix whose rounding leaves a rest above EPS that is
  taken for a pivot.  So the property is about the numeric edge, and whether it holds depends on
  precision, EPS and size together: the run does not show it for 64x64 matrices and f64.

## Runs

| run | question | instance | result |
|---|---|---|---|
| `miner_safety` | are shares accounted for over all interleavings, with connections made step by step and answers over later connections | channel 2, 2 shares, 1 tick of time limit, metric every tick, eth's ids (login and hashrate both 1), reports, https proxy and TLS pool | holds, 2.6 M states |
| `miner_liveness` | does the watchdog work behind a proxy; is an error behind a request obeyed | channel 2, 1 share, http proxy, fairness | holds, 0.18 M states |
| `miner_stale_timeout` | is an error of the previous connection skipped (`src/miner.rs:276`) | | violated |
| `miner_expect` | can the main thread always post its error (`src/miner.rs:64`, `src/state.rs:196`) | | violated |
| `ckb` | jobs, extranonce, lanes, what spills; does every worker that lives catch up | 2 workers, 2 jobs, base 2 nonces of 4 digits, 2 extranonces, one as long as the nonce but for a digit, 1 target, fairness | holds, 0.49 M states |
| `eth` | jobs and datasets; is a dataset whole; is the old one freed while the new one is built, even if that never ends; does every worker catch up when builds end | 2 workers, 2 jobs, etc epochs 2, 3 (one dataset) and 4, 5 items in 3 tasks on 2 threads, fairness | holds, 28 k states |
| `kas_safety` | jobs, difficulty, lanes | 2 workers, 2 jobs, base 2 nonces of 4 digits, 1 extranonce, 2 targets | holds, 0.2 M states |
| `kas_early` | does an extranonce before any other message stay (`src/kas/mod.rs:71`) | 2 extranonces | violated |
| `kas_job` | does a job take over the extranonce (`src/kas/mod.rs:17`) | 2 extranonces | violated |
| `btc` | is what is hashed what the pool rebuilds, and new each time; who panics | 2 workers, 2 jobs, nonce2 of one digit of base 3 searched up to 3, 2 nonces, 2 extranonces (one unusable, of another length), coinbases that fit or are broken, difficulties 0 and 1, fairness | holds, 0.46 M states |
| `arith` | do integers, targets, rank, generator, drawing, product and merkle fold compute what they should | 3 limbs of 3 bits (all 512 numbers; 3375 pairs), 2 limbs of 6 bits in bytes of 2, all 3x3 matrices over 0, 1, 3 with floats of 6 bits and an EPS of 1/16, all 2x2 over nibbles of 2 bits with all bytes (`HN`), all seeds of 3 bits and the 6x6 matrices of bits drawn from them (`DN`), trees of 1 to 6 leaves | holds, 36 k inputs |
| `uint_mul` | does `overflowing_mul` flag every overflow (`kaspow/math/src/uint.rs:452`) | 3 limbs of 3 bits | violated |

Runs that may stop say `CHECK_DEADLOCK FALSE`: in `ckb` and `btc` all threads may be dead; in
`arith` and `uint_mul` a state is one input.

Why these bounds are enough.  A channel of 1 or 2 is full after one or two
messages, so the full channel, the order of a share and an error behind it, and
the failing `expect` all occur.  Two shares are the least with which one can
displace another, or one be judged while the other is queued.  One tick per
period makes every relative order of time limit, metric and expiry occur, since
the main thread need not run in every tick.  Two job ids let the job change,
return and repeat in the refuted runs; for shares and the watchdog it only matters
whether the job is the one looked at before.  The https proxy in front of a TLS pool is the longest way to connect;
the other ways skip stages of it, and `MinerProofs` covers them all.  The run for liveness has the http proxy, with
two stages to fail in, and a channel of two: a share fits in front of an error, which must be reached
all the same.  Two workers have lanes
that can meet, and their loads and clones interleave with two consecutive jobs; jobs arrive
before and after a new extranonce and target.  Epochs 2, 3 and 4 of etc are a pair that shares a dataset
and a third that does not, in any order and repeated over the jobs, so that a job
takes over the dataset, has an equal one built, or has another one built.  Five items on two
threads make two tasks of two and a short third one.  The extranonce of
`kas_safety` is so high that the lanes behind it wrap at the end of the numbers.  In `btc`
nonce2 goes up to 3 where one digit has 3 values, so that lanes pass over its end, and two
nonces wrap at every second try.  In `arith` three limbs are the least in which a carry passes
through one limb into another and a shift spans two; the pairs have words at both ends of the
range; larger words add no other case of a carry.  Bounds in the guards: `MaxFound`
(shares), `MaxJobs` (jobs), `MaxTries` (nonces before a lane starts again), `MaxN2` (nonce2 up to which
a lane is searched); ages and clocks saturate.

What a run's properties are shown to depend on: each is violated, under the same
configuration, when the definition PROJECT.json names for it is replaced by its mutant, the
definition in front of it.  An invariant that joins several statements (`UintExact`, `DivisionExact`,
`TargetsExact`, `HashedRight`, `DatasetWhole`) names its parts, which have a comment each.

### The refuted statements

`StaleTimeoutSkipped`: `loop_handle_request` skips an error older than the current
connection with the words "skip error message belongs to the previous
connection".  `clear_timeouts` creates its error when it discovers the timeout,
and the table survives the reconnect.  So the login (or a share) of a connection
that broke is reported while the next connection is up, with a time stamp later
than `start_time`, and ends that connection.

`ExpectHolds`: the two `expect`s say that the main thread's `try_send` succeeds
while there is a receiver.  During an outage nobody takes messages out; the
expiry check adds one error per period and the workers add shares of the old job,
until the channel is full and the main thread panics, which ends the process.

`EarlyExtranonceKept` (kas): when `mining.set_extranonce` is the pool's first message,
the slot becomes `Nonce1t((0, 0, 0))`; what was parsed is dropped, and the miner
searches the whole range.  `JobKeepsExtranonce` (kas): a job takes `nonce1_bytes` from
the previous slot, but when it is not 0 the nonce of the job stays the 0 of
`parse_job`; the prefix is lost with the first job after `set_extranonce`.

`MulFlagExact` (kas integers): `Mul` asserts in debug builds that the product did not overflow, on
the flag of `overflowing_mul`, whose loop leaves partial products above the top limb out without
setting it.  The miner's own products are small enough (`InverseExact` holds over them).

### Fairness

`FairSpec` of `Miner`: the network thread's waits end (3 s limits on connect and
send, a pause of 5 s), so `StartConnect`, `ConnectStep`, `SendStep` and
`TakeError` are fair, strongly where another action may disable the step and
enable it again; which outcome a wait has is not.  The main thread's sleeps end
(`WF` on its actions together), time passes (`WF` on `Tick`).  `SF` on `ShowMetric` and
`CheckJob` says that `try_lock` does not miss for ever: the holders release the
mutex, most of the time nobody holds it.  For eth this needs that datasets are
not built back to back.  Nothing is assumed of the pool, the workers, Ctrl-C or
panics.  `FairSpec` of `CkbMiner`: the network thread and the workers run; a worker that asks for
the mutex gets it (`SF` on `Clone`; parking_lot's mutex is eventually fair).
`FairSpec` of `EthMiner` and of `EthBuild` says the same and leaves open whether a build ends: `OldDatasetFreed`
does not need it, `WorkersCatchUp` has it as a hypothesis (`[]<>LockIsFree`; a build is a
finite computation).  `FairSpec` of `BtcMiner` is that of `CkbMiner`; `WorkersCatchUp` of both speaks of
workers that live.  `ProxyFairSpec` replaces the fairness of `ConnectStep` by that of its parts: `WF` on `Begin`
and on `Failed` (the time limits of `connect`), `SF` on `Up` (a stream that is ready goes into
`handle_socket`).  That the proxy or the pool's TLS ever answers is not assumed.

## Proofs

`MinerProofs` proves for all constants that satisfy the named assumptions of
`Miner`:

* `TypeCorrect`: `Spec => []TypeOK`;
* `SharesStayApart`: `Spec => []SharesApart`;
* `SharesAccounted`: `Spec => []CountersBalance`.

`CountersBalance` is not inductive alone: that `submitc` grows together with the set of
awaited shares needs that the share taken from the channel has an id which is
not in the table nor among the given-up ones, which is `SharesApart`; that the
sets have a cardinality needs `TypeOK`.  The invariant is
`IInv == TypeOK /\ SharesApart /\ CountersBalance`.  The proof has one lemma per conjunct
(`TypeOKStep`, `SharesApartStep`, `CountersBalanceStep`) with one step per action.
Lemmas on the channel (`ApartAppend`, `ApartTake`, `ApartMonotone`) and on the table
(`TableAdd`, `TableRemove`, `TableKept`) say what the operators do to the set of awaited
shares; the rest is arithmetic of cardinalities.  The assumptions used are
`BoundsAssumption` and `LoginAssumption` (ids 0 and 1 are the only fixed ones, the shares'
ids start at 2).

`AnswersExpected` (`Spec => []AnswerExpected`) adds `SendInv`: no share still in the channel has been
sent, and the request a send is about is registered or was given up, and not sent yet.

`CkbProofs` proves for any number of workers and jobs and any base and length of nonces,
from `SizeAssumption`, `PowerAssumption`, `ExtranonceAssumption` and `LaneAssumption` of
`CkbMiner`: `TypeCorrect`, `WorkersCurrent`, `BoardImplemented`, `SessionCarried`, `SharesRebuilt`,
`LanesApart`.  `WorkerCurrent` is not inductive: a worker remembers the number it loaded
before the clone.  `IInv` adds `Numbered` (the slot's job has the counter's number, or the next
while the mutex is locked over the bump; no worker's number is above the counter) and
`Behind` (what a worker mines was in the slot, which holds a job ever since, that one or a newer).
`BoardImplemented` maps each
step to a `Post`, an `Adopt` or a stutter under `IInv`.  `NonceInv` says that the slot's nonce, and a worker's in its
lane, is the extranonce plus the sum of the offsets drawn and the steps tried, modulo the size of the nonce, for
extranonces of every length.  That an extranonce followed by a suffix is one number and no other
then makes `SharesRebuilt` an equivalence: rebuilt if and only if the sum has room.  `LanesApart` is the arithmetic of
offsets modulo the number of workers, on numbers that wrap.

`EthProofs` proves from `SizeAssumption` of `EthMiner`: `TypeCorrect`, `DatasetsMatch`,
`WorkersCurrent`, `DatasetsReleased`, `BoardImplemented`.  Its invariant has a `Numbered` with three
cases, one per state of the network thread (during a build the slot is empty and the counter is
already the next job's number), and `Knows(w)`: what worker `w` holds follows from the numbers
it has seen, in particular nothing between its `take` and its clone.

`KasProofs` proves from the assumptions of `KasMiner`: `TypeCorrect`, `WorkersCurrent`, `TargetsKnown`,
`LanesApart`, `BoardImplemented`.  `Numbered` and `Behind` are as in `CkbProofs`; `TargetsKnown` adds that a
slot past `Sleep` that computes has a target, which every message keeps.  The lanes of kas wrap at
2^64, so `LanesApart` is about offsets from the job's nonce modulo that (`Wrapped`, `RestsApart` of `NumberLemmas`).

`BtcProofs` proves from `SizeAssumption`, `PowerAssumption`, `DiffAssumption` and `ExtranonceAssumption` of
`BtcMiner`: `TypeCorrect`, `SessionCarried`, `WorkersCurrent`, `SharesRebuilt`, `WorkersLive`, `LanesApart`,
`LanesAdvance`, `BoardImplemented`.  `WorkersCurrent` adds to the board's invariant that the extranonce of a
worker's clone has been in force since the job it belongs to; `WorkersLive` that as long as all
extranonces were usable and alike and no coinbase was broken, the room every job declares is theirs, also in the clone
with which a worker moves nonce2 on; `LanesApart` that a worker's nonce2 is
its first one plus a multiple of the number of workers, so that two that are less than a range apart
have different rests; `LanesAdvance` is an action property, from the invariant that the header
is that of the worker's nonce2.

Of `Proxy` the module `MinerProofs` proves for all routes: `ProxyTypeCorrect`, `TunnelsOpen`, and
from the theorems about `Miner`, `SharesThroughProxy`.  Of `EthBuild` the module `EthProofs` proves from
`ItemsAssumption`: `BuildTypeCorrect` and `DatasetsWhole`.  That every item lies in just one
task (`PlaceOfItem`) is `Euclid` of `NumberLemmas`; the invariant says that an item is written when its task
has come past it, and that the tasks of a dataset which a job carries are done.  The lemmas `MinerImplemented` and
`EthImplemented` carry over what is proved of `Miner` and `EthMiner`; they say nothing of the code, since the actions
of `Proxy` and `EthBuild` are made of those of the modules they extend.

`LedgerImplemented` (`Spec => ImplementsLedger` of `Miner`) counts: the ledger's numbers are the cardinalities of
the shares in the channel, in the table, given up and judged.  Each action of `Miner` is an action
of the ledger or a stutter under `IInv`; the lemmas on the channel and the table that serve
`CountersBalance` say which share moves.

`ArithProofs` proves about the integers and the matrix, for words of any number of bits, bytes of any number of bits that
divide them and any number of limbs (`WordsAssumption`, `SizesAssumption`: a mantissa of a compact target has at least
two bytes and fits a word with its exponent, as 3 and 4 of 8 do):

* `UintsExact` (`UintExact`).  A number is the sum of its digits (`Sums`), below the power
  of the base and with each digit in its place (`UintLemmas`).  A loop with a carry is right if
  each turn leaves word + base * carry equal to what it took in; then the whole loop leaves
  the value plus the size times the carry out of it (`Chain`).  Sums, differences, products by a word, rows of the
  long product and bytes are such loops.  For shifts the two halves of a word that `|` joins
  have no bit in common, so that it is a sum.
* `DivisionsExact` (`DivisionExact`).  The invariant of `div_rem`'s loop is that quotient and rest make up the dividend,
  what is left is below twice the shifted divisor, and the quotient is a multiple of the power of two
  last looked at (`DivRoundFacts`).  For `mod_inverse` it is `Going`: the signs of the two factors never agree, each factor
  times the number is its rest modulo the modulus, the number is a combination of the two rests, and
  the sizes of the factors times the rests add up to the modulus (`Coprime`), which rules out an overflow.
  The product of the two rests is halved by each turn but the first (`Halved`): 2 * BITS turns are enough.
* `TargetsSurvive` (`TargetsExact`).  The quotient of a target is taken with one word more, where the lemmas
  are instantiated for `Limbs + 1`.  A compact target is the greatest multiple of its last byte's
  power that is not above the number; that no
  other mantissa and exponent come between is `FloorGreatest`.
* `RanksCounted` (`TestsRight => RankRight`), for matrices of any size with integer entries (`MatrixAssumption`) and
  floats of any precision and EPS (`FloatAssumption`).  Rounding and EPS reach the rank only through the
  comparisons: `TestsRight` says of each that its outcome is whether the row is independent of those
  selected, in terms of the matrix's minors.  Whether it is so is left to the run; what follows from it, that skipped
  columns, rows kept in place and the choice of the pivot lose and gain nothing, is proved.  What it needs of the
  theory of determinants is proved from the expansion by the last row with which `Arith` defines them.  `BorderedFacts`: the minors of a set
  of rows, each without one of them, times the entries of a column, make the determinant with that column added, and cancel each other
  when the column is one of theirs; by induction on the rows, where the two orders of a double sum meet (`TotalSwap`).  `Combination`: so a column
  that is a sum of others can be replaced by them in a minor.
  The proof runs an elimination on exact fractions beside the code's (`Follows`): with right comparisons both select the
  same rows and count the same columns, though their numbers differ.  Of the exact one (`Taking`)
  the invariant is `Eliminated`: the minor of the rows selected and of as many columns is not 0;
  no larger minor of the columns passed is anything but 0 (`Beyond`); and each column to come, as the
  fractions of the working matrix stand for it, is a combination of the columns taken plus a rest in the rows
  not selected (`Reduced`).  If the rest of the next column is 0 its minors bring nothing new (`NoFreeRow`); otherwise the pivot's row makes the
  minor one larger (`PivotMinor`), no larger one comes up (`BeyondNext`), and taking the pivot's row off the others keeps the
  combinations (`ReducedNext`), whatever the denominators.
  `RegularKept`, on the same condition: the rank is full, which is what `Matrix::generate` waits for, just when the determinant is not 0.
* `HashInputsRight` (`HashedRight`) joins four theorems, all but the first from `HashAssumption` and the last from `DrawAssumption` too.  `BranchFoldsToRoot`: after h siblings the fold
  has the first hash of level h, for any number of leaves; a level has half of the one below,
  rounded up.  `SumsFitNibbles`: a row's sum is at most the size times the greatest product of two nibbles,
  which the assumption keeps below 16 * 2^10 as the code's sizes do (64 * 15 * 15); so the two parts
  of a byte do not meet.  `GeneratorReversible`: `^` is a group in which each word is its own inverse (bit by bit, `XorBits`),
  a rotation is undone by the rest of it, and the shifts of s1 ^ (s1 << 17) xored with each other leave s1.  `MatrixDrawn`: the bits of each word of the
  next state are the sums that define the generator (`StepFacts`), a rotation multiplies by a power of two modulo
  the largest word (`RotationTurns`), and the words a matrix is drawn from are those of the states it has
  been through (`DrawnSame`), so that its entries are their nibbles.

`UintLemmas` is instantiated three times: for the numbers themselves, for those one word longer and
for the ones with sizes of their own that compact targets are tested on.

Induction in these proofs is over sets: the set of the numbers up to which a statement holds has 0
and with n its successor.  The induction theorems of the library take an operator as a
parameter, which the installed provers cannot instantiate, and `RECURSIVE` operators are out of their reach; so loops
are recursive functions.

The type invariants of the currencies, `ProxyTypeOK` and `BuildTypeOK`, and `ImplementsBoard` of `KasMiner`
are proved for all constants and are not repeated in the runs.

Only model-checked:

* the liveness properties (`ErrorEndsConnection`, `ShareSettled`, `StuckJobEndsConnection`, `NoZombie`, `OldDatasetFreed`,
  `WorkersCatchUp` of three modules): fairness and ENABLED are out of the prover's reach.

* `TestsRight`: that rounding and EPS never turn a comparison depends on the sizes.  `RanksCounted` and `RegularKept`
  have it as a hypothesis, so `RankRight` without it is model-checked only.

Every other invariant, action property or refinement of the passing runs is a theorem.

## Not modelled

PROJECT.json gives the status of each component.  Left out, and why:

* the hashrate counters: a worker adds to an atomic and the metric swaps it; every order of
  these two single steps gives every count to one metric, and nothing else reads it;
* the nonces of eth's workers: start and step are those of kas without an extranonce; what
  is special to eth, the dataset, is modelled;
* `get_epoch_number` (a chain of hashes up to the seed) and all hash functions: no state,
  no control, and nothing to compare them with but themselves;
* `Matrix::generate`'s loop: that it ends holds with probability 1, which TLA+ does not express, and does not hold for a
  hash of zeros, whose generator stays at zero.  A turn of it, drawing and rank, is modelled;
* infinities and NaN of f64 in `compute_rank`: whether an entry can grow beyond 2^1024 when pivots are small is not
  looked at;
* formatting, hex, serde and floating-point forms of the integers; JSON forms: their outcome is
  the choice of a handler's branch;
* the TLS stream (forwards I/O), argument parsing, logging, `goproxy.jl` (not part of the miner), tests
  and benches.

What could be added: the nonces of eth; liveness of `KasMiner`; a bound on the rounding errors of `compute_rank` for matrices of nibbles.
