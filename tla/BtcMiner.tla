------------------------------ MODULE BtcMiner ------------------------------
(***************************************************************************)
(* How the BTC miner builds jobs from what the pool sends and searches     *)
(* them (src/src/btc/mod.rs, pow.rs, proto.rs).                            *)
(*                                                                         *)
(* The pool rebuilds a share from its own nonce1, and from the share's     *)
(* nonce2 (cut to nonce2_bytes) and nonce.  A worker owns the nonce2       *)
(* values base + idx, base + idx + step, ..., and searches every nonce     *)
(* under each; the part of the header that depends on nonce2 is cached     *)
(* (Computer) and recomputed when nonce2 moves on.                         *)
(*                                                                         *)
(* Slot, counter and polling are as in CkbMiner; here a panic of the       *)
(* network thread leaves the slot emptied by mem::replace.                 *)
(***************************************************************************)
EXTENDS Integers

CONSTANTS
  NWorkers,     \* config.workers
  Base, Width,  \* a byte has Base values (256), a u128 has Width bytes (16)
  NonceSize,    \* nonces per nonce2 (2^32)
  Unit,         \* unit_target()
  Diffs,        \* what set_difficulty can send
  Extranonces,  \* what subscribe can answer: [n1, n1b, n2b]
  NoNonce1,     \* the empty string
  NotHex,       \* a nonce1 that hex::decode refuses
  MaxJobs,      \* bound: jobs the pool sends
  MaxN2         \* bound: nonce2 is searched up to here

Workers == 0..(NWorkers - 1)

ASSUME SizeAssumption ==
  /\ NWorkers \in Nat /\ MaxJobs \in Nat /\ MaxN2 \in Nat
  /\ Base \in Nat \ {0, 1} /\ Width \in Nat /\ NonceSize \in Nat \ {0}
ASSUME PowerAssumption ==
  Base ^ 0 = 1 /\ \A n \in 0..Width : Base ^ n \in Nat \ {0}
\* A difficulty is a u64, far below the unit target.
ASSUME DiffAssumption == Unit \in Nat /\ Diffs \subseteq 0..Unit
ASSUME ExtranonceAssumption ==
  \A x \in Extranonces : x.n1b \in Nat /\ x.n2b \in Nat /\ x.n1 # NoNonce1

\* 2u128.pow(8 * nonce2_bytes), which wraps to 0 in release mode.
N2Max(n2b) == IF n2b < Width THEN Base ^ n2b ELSE 0

\* nonce2_bytes(): the first bytes, the low digits.
Cut(n2, n2b) == n2 % Base ^ n2b

VARIABLES
  slot,     \* Statev.job
  jobsc,    \* Statev.jobsc
  npc,      \* the network thread, within handle_response
  wpc,      \* per worker: before the load, the clone, a nonce; or panicked
  idx2,     \* per worker: job_idx2, the value loaded
  jobIdx,   \* per worker: job_idx
  mine,     \* per worker: its clone of the job, with its own nonce2
  nonce,    \* per worker
  header,   \* per worker: Computer.bytes, without the nonce
  session   \* history: what the pool gave last, the extranonces in force
            \* since its last job, and whether all it gave was sound

netVars    == <<slot, jobsc, npc, session>>
workerVars == <<wpc, idx2, jobIdx, mine, nonce, header>>
vars == <<netVars, workerVars>>

\* One record for the cases of BtcJob (Exit is never constructed).  "room" is
\* the length that coinbase_part1 declares for nonce1 and nonce2; the parts are
\* any hex digits, and Broken stands for those that are no transaction, or one
\* without inputs.
Slot(kind, id, x, n2, target, room) ==
  [kind |-> kind, id |-> id, x |-> x, n2 |-> n2, target |-> target, room |-> room]
NoExtranonce == [n1 |-> NoNonce1, n1b |-> 0, n2b |-> 0]
Broken == -1
Sleep == Slot("sleep", 0, NoExtranonce, 0, 0, 0)
None  == Sleep

Computes(s) == s.kind = "compute"
Holds(w)    == Computes(mine[w])

\* What Computer::update hashes for a job: header and coinbase of the job, with
\* nonce1 and the bytes of nonce2 in the coinbase.
Header(j) == [id |-> j.id, n1 |-> j.x.n1, n2 |-> Cut(j.n2, j.x.n2b)]
NoHeader  == [id |-> 0, n1 |-> NoNonce1, n2 |-> 0]

Given == Extranonces \cup {NoExtranonce}
SlotType ==
  [kind : {"sleep", "nonce1t", "compute"}, id : 0..(MaxJobs + 1),
   x : Given, n2 : Nat, target : 0..Unit, room : Nat \cup {Broken}]
HeaderType  == [id : 0..(MaxJobs + 1), n1 : {x.n1 : x \in Given}, n2 : Nat]
SessionType == [x : Given, target : 0..Unit, sound : BOOLEAN, since : SUBSET Given]

TypeOK ==
  /\ slot \in SlotType
  /\ jobsc \in 1..(MaxJobs + 1)
  /\ npc \in {"idle", "bump", "dead"}
  /\ wpc \in [Workers -> {"load", "clone", "try", "dead"}]
  /\ idx2 \in [Workers -> 0..(MaxJobs + 1)]
  /\ jobIdx \in [Workers -> 0..(MaxJobs + 1)]
  /\ mine \in [Workers -> SlotType]
  /\ nonce \in [Workers -> 0..(NonceSize - 1)]
  /\ header \in [Workers -> HeaderType]
  /\ session \in SessionType

Init ==
  /\ slot = Sleep /\ jobsc = 1 /\ npc = "idle"
  /\ wpc = [w \in Workers |-> "load"]
  /\ idx2 = [w \in Workers |-> 0] /\ jobIdx = [w \in Workers |-> 0]
  /\ mine = [w \in Workers |-> None]
  /\ nonce = [w \in Workers |-> 0]
  /\ header = [w \in Workers |-> NoHeader]
  /\ session = [x |-> NoExtranonce, target |-> 0, sound |-> TRUE,
                since |-> {NoExtranonce}]

LockIsFree == npc # "bump"

-----------------------------------------------------------------------------
(* The network thread: handle_response *)

\* Mutant of NewJob: what the slot knew of the extranonce is forgotten.
NewJobForgets(n2, room) ==
  Slot("compute", jobsc + 1, [slot.x EXCEPT !.n2b = 0], n2, slot.target, room)

\* The job that notify stores: the next number, and what the slot knew.
NewJob(n2, room) == Slot("compute", jobsc + 1, slot.x, n2, slot.target, room)

\* A coinbase leaves room for the extranonce that the pool gave, if it is one.
Coinbases == {session.x.n1b + session.x.n2b, Broken}

\* gen_range(0, nonce2_max / 2) has nothing to choose from.
NotifyPanics == N2Max(slot.x.n2b) \div 2 = 0

\* mining.notify: the job is stored ...
Notify ==
  /\ npc = "idle" /\ slot.kind # "sleep" /\ ~NotifyPanics
  /\ jobsc <= MaxJobs
  /\ \E n2 \in 0..(N2Max(slot.x.n2b) \div 2 - 1), room \in Coinbases :
       /\ slot' = NewJob(n2, room)
       /\ session' = [session EXCEPT !.since = {session.x},
                                     !.sound = @ /\ room # Broken]
  /\ npc' = "bump"
  /\ UNCHANGED <<jobsc, workerVars>>

\* Mutant of Bump: the counter is not bumped.
BumpForgotten ==
  /\ npc = "bump"
  /\ npc' = "idle"
  /\ UNCHANGED <<slot, jobsc, session, workerVars>>

\* ... and the counter is bumped, still under the mutex.
Bump ==
  /\ npc = "bump"
  /\ jobsc' = jobsc + 1
  /\ npc' = "idle"
  /\ UNCHANGED <<slot, session, workerVars>>

\* mining.notify without what a job needs: the thread is gone, and the slot is
\* left as mem::replace made it.  Without a target it depends on the level of
\* logging: the line about the job divides by it.
NotifyFatal ==
  /\ npc = "idle" /\ (slot.kind = "sleep" \/ NotifyPanics \/ slot.target = 0)
  /\ npc' = "dead"
  /\ slot' = Sleep
  /\ UNCHANGED <<jobsc, session, workerVars>>

\* Mutant of SetDifficulty: before the first job the extranonce is forgotten.
SetDifficultyForgets(d) ==
  /\ npc = "idle" /\ d # 0
  /\ slot' = IF ~Computes(slot)
             THEN Slot("nonce1t", 0, NoExtranonce, 0, Unit \div d, 0)
             ELSE [slot EXCEPT !.target = Unit \div d]
  /\ session' = [session EXCEPT !.target = Unit \div d]
  /\ UNCHANGED <<jobsc, npc, workerVars>>

\* mining.set_difficulty changes the slot in place; jobsc stays.
SetDifficulty(d) ==
  /\ npc = "idle" /\ d # 0
  /\ slot' = IF slot.kind = "sleep"
             THEN Slot("nonce1t", 0, NoExtranonce, 0, Unit \div d, 0)
             ELSE [slot EXCEPT !.target = Unit \div d]
  /\ session' = [session EXCEPT !.target = Unit \div d]
  /\ UNCHANGED <<jobsc, npc, workerVars>>

\* A difficulty of 0: the division panics, before the slot is touched.
DivideFatal(d) ==
  /\ npc = "idle" /\ d = 0
  /\ npc' = "dead"
  /\ UNCHANGED <<slot, jobsc, session, workerVars>>

\* A nonce1 that can be decoded, and a nonce2 of at most 16 bytes; and the
\* length that a coinbase declares.
Usable(x)   == x.n1 # NotHex /\ x.n2b <= Width
Alike(x, y) == x = NoExtranonce \/ x.n1b + x.n2b = y.n1b + y.n2b

\* The answer to mining.subscribe, also after a reconnect: in place too.  The
\* nonce2 of a job in the slot stays.
Subscribe(x) ==
  /\ npc = "idle"
  /\ slot' = IF slot.kind = "sleep" THEN Slot("nonce1t", 0, x, 0, 0, 0)
                                    ELSE [slot EXCEPT !.x = x]
  /\ session' = [session EXCEPT !.x = x, !.since = @ \cup {x},
                                !.sound = @ /\ Usable(x) /\ Alike(session.x, x)]
  /\ UNCHANGED <<jobsc, npc, workerVars>>

-----------------------------------------------------------------------------
(* A worker: Run::run *)

\* The load of jobsc, without the mutex.
Load(w) ==
  /\ wpc[w] = "load"
  /\ idx2' = [idx2 EXCEPT ![w] = jobsc]
  /\ wpc' = [wpc EXCEPT ![w] = IF jobsc # jobIdx[w] THEN "clone" ELSE "try"]
  /\ UNCHANGED <<netVars, jobIdx, mine, nonce, header>>

\* Mutant of Mine: all workers start with the same nonce2.
MineSame(w, s) == s

\* The clone, with the worker's own first nonce2.
Mine(w, s) == [s EXCEPT !.n2 = @ + w]

\* Computer::update panics if the extranonce is not Usable, and may, depending
\* on the bytes, on a broken coinbase and on one whose extranonce has another
\* length than it declares.
Misfit(j) == j.x.n1b + j.x.n2b # j.room

\* Mutant of CloneJob: the header is computed from the slot's nonce2.
CloneJobEarly(w) ==
  /\ wpc[w] = "clone" /\ LockIsFree /\ Computes(slot) /\ Usable(slot.x)
  /\ jobIdx' = [jobIdx EXCEPT ![w] = idx2[w]]
  /\ mine' = [mine EXCEPT ![w] = Mine(w, slot)]
  /\ header' = [header EXCEPT ![w] = Header(slot)]
  /\ nonce' = [nonce EXCEPT ![w] = 0]
  /\ wpc' = [wpc EXCEPT ![w] = "try"]
  /\ UNCHANGED <<netVars, idx2>>

\* The counter moved: the slot is cloned under the mutex, and the worker
\* remembers the number it loaded before.
CloneJob(w) ==
  /\ wpc[w] = "clone" /\ LockIsFree /\ Computes(slot) /\ Usable(slot.x)
  /\ jobIdx' = [jobIdx EXCEPT ![w] = idx2[w]]
  /\ mine' = [mine EXCEPT ![w] = Mine(w, slot)]
  /\ header' = [header EXCEPT ![w] = Header(Mine(w, slot))]
  /\ nonce' = [nonce EXCEPT ![w] = 0]
  /\ wpc' = [wpc EXCEPT ![w] = "try"]
  /\ UNCHANGED <<netVars, idx2>>

\* Mutant of CloneNone: the mutex is only tried, and without it there is no job.
CloneNoneTries(w) ==
  /\ wpc[w] = "clone" /\ ~(LockIsFree /\ Computes(slot))
  /\ jobIdx' = [jobIdx EXCEPT ![w] = idx2[w]]
  /\ mine' = [mine EXCEPT ![w] = None]
  /\ wpc' = [wpc EXCEPT ![w] = "try"]
  /\ UNCHANGED <<netVars, idx2, nonce, header>>

\* There is no job in the slot (yet, or any more).
CloneNone(w) ==
  /\ wpc[w] = "clone" /\ LockIsFree /\ ~Computes(slot)
  /\ jobIdx' = [jobIdx EXCEPT ![w] = idx2[w]]
  /\ mine' = [mine EXCEPT ![w] = None]
  /\ wpc' = [wpc EXCEPT ![w] = "try"]
  /\ UNCHANGED <<netVars, idx2, nonce, header>>

\* The header cannot be computed: the worker's thread is gone.
CloneFatal(w) ==
  /\ wpc[w] = "clone" /\ LockIsFree /\ Computes(slot)
  /\ ~Usable(slot.x) \/ Misfit(slot)
  /\ wpc' = [wpc EXCEPT ![w] = "dead"]
  /\ UNCHANGED <<netVars, idx2, jobIdx, mine, nonce, header>>

\* The bound: the worker has searched its lane up to MaxN2.
Exhausted(w) == nonce[w] = NonceSize - 1 /\ mine[w].n2 + NWorkers > MaxN2

Polls(w) == wpc' = [wpc EXCEPT ![w] = "load"]

\* Mutant of Idle: a worker without a job does not look again.
IdleStays(w) ==
  /\ wpc[w] = "try" /\ Holds(w) /\ Exhausted(w)
  /\ Polls(w)
  /\ UNCHANGED <<netVars, idx2, jobIdx, mine, nonce, header>>

\* A worker without a job sleeps.
Idle(w) ==
  /\ wpc[w] = "try" /\ (~Holds(w) \/ Exhausted(w))
  /\ Polls(w)
  /\ UNCHANGED <<netVars, idx2, jobIdx, mine, nonce, header>>

\* One nonce is tried, and the next one is under the same nonce2.
TryNonce(w) ==
  /\ wpc[w] = "try" /\ Holds(w) /\ nonce[w] + 1 < NonceSize
  /\ nonce' = [nonce EXCEPT ![w] = @ + 1]
  /\ Polls(w)
  /\ UNCHANGED <<netVars, idx2, jobIdx, mine, header>>

Rolled(w) == [mine[w] EXCEPT !.n2 = @ + NWorkers]

\* Mutant of RollNonce2: the header stays that of the old nonce2.
RollNonce2Stale(w) ==
  /\ wpc[w] = "try" /\ Holds(w) /\ nonce[w] + 1 = NonceSize /\ ~Exhausted(w)
  /\ nonce' = [nonce EXCEPT ![w] = 0]
  /\ mine' = [mine EXCEPT ![w] = Rolled(w)]
  /\ Polls(w)
  /\ UNCHANGED <<netVars, idx2, jobIdx, header>>

\* The last nonce is tried: the 32 bits wrap, and nonce2 and the header move on.
RollNonce2(w) ==
  /\ wpc[w] = "try" /\ Holds(w) /\ nonce[w] + 1 = NonceSize /\ ~Exhausted(w)
  /\ nonce' = [nonce EXCEPT ![w] = 0]
  /\ mine' = [mine EXCEPT ![w] = Rolled(w)]
  /\ header' = [header EXCEPT ![w] = Header(Rolled(w))]
  /\ Polls(w)
  /\ UNCHANGED <<netVars, idx2, jobIdx>>

\* The header of the next nonce2 cannot be computed: the thread is gone.
RollFatal(w) ==
  /\ wpc[w] = "try" /\ Holds(w) /\ nonce[w] + 1 = NonceSize /\ ~Exhausted(w)
  /\ Misfit(mine[w])
  /\ wpc' = [wpc EXCEPT ![w] = "dead"]
  /\ UNCHANGED <<netVars, idx2, jobIdx, mine, nonce, header>>

-----------------------------------------------------------------------------
NetThread ==
  \/ Notify \/ Bump \/ NotifyFatal
  \/ \E d \in Diffs : SetDifficulty(d) \/ DivideFatal(d)
  \/ \E x \in Extranonces : Subscribe(x)

Fetch(w)  == CloneJob(w) \/ CloneNone(w) \/ CloneFatal(w)
Search(w) == Idle(w) \/ TryNonce(w) \/ RollNonce2(w) \/ RollFatal(w)
Worker(w) == Load(w) \/ Fetch(w) \/ Search(w)

Next == NetThread \/ \E w \in Workers : Worker(w)

Spec == Init /\ [][Next]_vars

(***************************************************************************)
(* Fairness: the threads run, and a worker that wants the mutex gets it.   *)
(* The pool owes nothing.                                                  *)
(***************************************************************************)
FairSpec ==
  /\ Spec /\ WF_vars(Bump)
  /\ \A w \in Workers : WF_vars(Load(w) \/ Search(w)) /\ SF_vars(Fetch(w))

-----------------------------------------------------------------------------
(* Properties *)

\* While the network thread lives, the slot carries the extranonce and the
\* target the pool gave last, in whatever order its messages came
\* (btc/mod.rs:65-160): every handler that takes the slot out puts it back
\* with what the others gave, and only a panic leaves it empty.
SlotCarriesSession ==
  npc # "dead" =>
    IF slot.kind = "sleep"
    THEN session.x = NoExtranonce /\ session.target = 0
    ELSE slot.x = session.x /\ slot.target = session.target

\* A worker that has seen the current counter mines the job in the slot
\* (btc/mod.rs:97-98 and 181-201), with an extranonce the pool gave since it
\* sent that job or that was in force then: a replaced extranonce is used
\* until the next job and no longer, though subscribe does not bump the
\* counter (btc/mod.rs:150-155).
WorkerCurrent ==
  \A w \in Workers :
    jobIdx[w] = jobsc /\ npc = "idle" /\ wpc[w] # "dead" =>
      IF Computes(slot) THEN mine[w].id = slot.id /\ mine[w].x \in session.since
                        ELSE ~Holds(w)

\* What a worker hashes is what the pool rebuilds from the share: the job it
\* names, nonce1, and nonce2 cut to its bytes (btc/proto.rs:149-153, 177-194);
\* the cached header never lags behind nonce2 (btc/mod.rs:221-225).
ShareRebuilt ==
  \A w \in Workers : Holds(w) => header[w] = Header(mine[w])

\* Two workers that fetched a job with the same extranonce never hash the same
\* header, although nonce2 is cut: not before one of them is a whole range of
\* nonce2 ahead of the other (btc/mod.rs:196 and 223).
LanesDisjoint ==
  \A u, v \in Workers :
    LET range == N2Max(mine[u].x.n2b) IN
    /\ u # v /\ Holds(u) /\ Holds(v)
    /\ mine[u].id = mine[v].id /\ mine[u].x = mine[v].x
    /\ mine[u].n2 - mine[v].n2 \in (1 - range)..(range - 1)
    => header[u] # header[v]

\* While a worker keeps a job and nonce2 fits its bytes, what it hashes only
\* moves on, by the nonce or by nonce2: nothing is hashed twice, the wrap of
\* the nonce included.
LaneAdvances ==
  [][\A w \in Workers :
       nonce'[w] # nonce[w] /\ UNCHANGED <<mine[w].id, jobIdx[w]>>
         /\ wpc[w] = "try" /\ mine[w].n2 + NWorkers < N2Max(mine[w].x.n2b) =>
         \/ header'[w] = header[w] /\ nonce'[w] > nonce[w]
         \/ header'[w].n2 > header[w].n2]_vars

\* A worker's thread only dies if the pool gave an extranonce that is not hex
\* or longer than a u128, changed the extranonce's length, or sent a coinbase
\* that is no transaction with an input (btc/pow.rs:50-54, 163-168).  Of what
\* the client itself assembles - the lengths of nonce1 and nonce2 carried over
\* jobs and reconnects, the cut nonce2 - nothing kills a worker.
WorkersSurvive ==
  session.sound => \A w \in Workers : wpc[w] # "dead"

Board == INSTANCE JobBoard WITH
  Miners    <- Workers,
  MaxPosted <- MaxJobs + 1,
  posted    <- IF Computes(slot) THEN slot.id ELSE 0,
  held      <- [w \in Workers |-> mine[w].id]

\* As long as the network thread lives, jobs are posted in order, and no worker
\* goes back to an older job or takes one that is not in the slot.
ImplementsBoard ==
  /\ Board!BoardInit
  /\ [][npc' = "dead" \/ Board!BoardNext \/ UNCHANGED Board!board]_vars

\* No worker that lives keeps mining an old job for ever, nor sleeps on, once a
\* job (the first has number 2) is in the slot - unless a panic of the network
\* thread emptied it again.
WorkersCatchUp ==
  \A n \in 2..(MaxJobs + 1), w \in Workers :
    slot.id = n ~> \/ mine[w].id >= n
                   \/ npc = "dead" \/ wpc[w] = "dead"

=============================================================================
