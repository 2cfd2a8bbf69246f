------------------------------ MODULE KasMiner ------------------------------
(***************************************************************************)
(* How the KAS miner passes the pool's jobs to its workers                 *)
(* (src/src/kas/mod.rs, parse_nonce of proto.rs, and the shared counter of *)
(* src/src/state.rs).                                                      *)
(*                                                                         *)
(* Slot, counter and polling are those of CkbMiner; what the messages do   *)
(* to the slot is not.  Difficulty and extranonce come as notifications,   *)
(* in any order, and a share carries the whole nonce, of which the pool    *)
(* prescribes the first n1b digits when it has given an extranonce.        *)
(***************************************************************************)
EXTENDS Integers

CONSTANTS
  NWorkers,     \* config.workers
  Base, Digits, \* nonces are below Base^Digits (2^64)
  Extranonces,  \* what set_extranonce can send: [n1 |-> prefix, n1b |-> digits]
  Targets,      \* targets of the difficulties the pool can send
  NoTarget,     \* Uint256 0
  RandMax,      \* rand::random::<u64>() / 2 is in 0..RandMax
  MaxJobs,      \* bound: jobs the pool sends
  MaxTries      \* bound: nonces tried before the model restarts the lane

Workers == 0..(NWorkers - 1)
Space   == Base ^ Digits
Suffix(n1b) == Base ^ (Digits - n1b)

ASSUME SizeAssumption ==
  /\ NWorkers \in Nat /\ MaxJobs \in Nat /\ MaxTries \in Nat
  /\ Base \in Nat \ {0, 1} /\ Digits \in Nat /\ RandMax \in Nat
  /\ Space \in Nat \ {0}
  /\ NoTarget \notin Targets
\* Longer extranonces are fatal (ParamsFatal).
ASSUME ExtranonceAssumption ==
  \A x \in Extranonces :
    /\ x.n1b \in 0..Digits /\ x.n1 \in Nat
    /\ x.n1 * Suffix(x.n1b) \in 0..(Space - 1)
\* Two lanes do not meet behind the end of the numbers: 2^64 nonces are not
\* tried during a job.
ASSUME RoomAssumption == NWorkers * (MaxTries + 2) < Space

VARIABLES
  slot,     \* Statev.job
  jobsc,    \* Statev.jobsc
  npc,      \* the network thread, within handle_response
  wpc,      \* per worker: before the load, before the clone, before a nonce
  idx2,     \* per worker: job_idx2, the value loaded
  jobIdx,   \* per worker: job_idx
  mine,     \* per worker: its clone of the job, or None
  nonce,    \* per worker
  session   \* history: extranonce and target the pool gave last

netVars    == <<slot, jobsc, npc, session>>
workerVars == <<wpc, idx2, jobIdx, mine, nonce>>
vars == <<netVars, workerVars>>

\* One record for the three cases of KasJob (Exit is never constructed).
Slot(kind, id, n, n1b, target) ==
  [kind |-> kind, id |-> id, nonce |-> n, n1b |-> n1b, target |-> target]
Sleep == Slot("sleep", 0, 0, 0, NoTarget)
None  == Sleep

Computes(s) == s.kind = "compute"
Holds(w)    == Computes(mine[w])

SlotType ==
  [kind : {"sleep", "nonce1t", "compute"}, id : 0..(MaxJobs + 1),
   nonce : 0..(Space - 1), n1b : 0..Digits, target : Targets \cup {NoTarget}]

TypeOK ==
  /\ slot \in SlotType
  /\ jobsc \in 1..(MaxJobs + 1)
  /\ npc \in {"idle", "bump", "dead"}
  /\ wpc \in [Workers -> {"load", "clone", "try"}]
  /\ idx2 \in [Workers -> 0..(MaxJobs + 1)]
  /\ jobIdx \in [Workers -> 0..(MaxJobs + 1)]
  /\ mine \in [Workers -> SlotType]
  /\ nonce \in [Workers -> 0..(Space - 1)]
  /\ session \in [n1 : Nat, n1b : 0..Digits, target : Targets \cup {NoTarget}]

Init ==
  /\ slot = Sleep /\ jobsc = 1 /\ npc = "idle"
  /\ wpc = [w \in Workers |-> "load"]
  /\ idx2 = [w \in Workers |-> 0] /\ jobIdx = [w \in Workers |-> 0]
  /\ mine = [w \in Workers |-> None]
  /\ nonce = [w \in Workers |-> 0]
  /\ session = [n1 |-> 0, n1b |-> 0, target |-> NoTarget]

LockIsFree == npc # "bump"

-----------------------------------------------------------------------------
(* The network thread: handle_response *)

\* u64 addition in release mode.
Plus(a, b) == (a + b) % Space

\* parse_nonce: the extranonce fills the first digits.
ParseNonce(x) == x.n1 * Suffix(x.n1b)

\* The first nonce of a new job: parse_job leaves 0, and only without an
\* extranonce a random offset is added to the previous job's nonce.
JobNonce(r) == IF slot.n1b = 0 THEN Plus(slot.nonce, r) ELSE 0

\* The job that notify stores: the next number, and what the slot knew.
NewJob(r) ==
  Slot("compute", jobsc + 1, JobNonce(r), slot.n1b, slot.target)

\* Mutant of Notify: nothing divides by the target.
NotifyAnyTarget(r) ==
  /\ npc = "idle" /\ slot.kind # "sleep"
  /\ jobsc <= MaxJobs
  /\ slot' = NewJob(r)
  /\ npc' = "bump"
  /\ UNCHANGED <<jobsc, session, workerVars>>

\* mining.notify, when the pool has set a difficulty: the job is stored.
Notify(r) ==
  /\ npc = "idle" /\ slot.kind # "sleep" /\ slot.target # NoTarget
  /\ jobsc <= MaxJobs
  /\ slot' = NewJob(r)
  /\ npc' = "bump"
  /\ UNCHANGED <<jobsc, session, workerVars>>

\* Mutant of Bump: the counter is not bumped.
BumpForgotten ==
  /\ npc = "bump"
  /\ npc' = "idle"
  /\ UNCHANGED <<slot, jobsc, session, workerVars>>

\* ... and the counter is bumped, still under the mutex.
Bump ==
  /\ npc = "bump"
  /\ jobsc' = jobsc + 1
  /\ npc' = "idle"
  /\ UNCHANGED <<slot, session, workerVars>>

\* mining.notify in the initial slot is fatal, and so is one before a
\* difficulty: target2difficulty divides by zero.  The slot has been emptied.
NotifyFatal ==
  /\ npc = "idle" /\ (slot.kind = "sleep" \/ slot.target = NoTarget)
  /\ npc' = "dead"
  /\ slot' = Sleep
  /\ UNCHANGED <<jobsc, session, workerVars>>

\* A difficulty of 0 (to_params divides by it), or an extranonce that parse_nonce
\* refuses: fatal, before the slot is touched.
ParamsFatal ==
  /\ npc = "idle"
  /\ npc' = "dead"
  /\ UNCHANGED <<slot, jobsc, session, workerVars>>

\* mining.set_difficulty changes the slot in place; jobsc stays.
SetTarget(t) ==
  /\ npc = "idle"
  /\ slot' = IF slot.kind = "sleep" THEN Slot("nonce1t", 0, 0, 0, t)
                                    ELSE [slot EXCEPT !.target = t]
  /\ session' = [session EXCEPT !.target = t]
  /\ UNCHANGED <<jobsc, npc, workerVars>>

\* mining.set_extranonce in the initial slot stores zeros; later it changes the
\* slot in place.
SetExtranonce(x) ==
  /\ npc = "idle"
  /\ slot' = IF slot.kind = "sleep" THEN Slot("nonce1t", 0, 0, 0, NoTarget)
             ELSE [slot EXCEPT !.nonce = ParseNonce(x), !.n1b = x.n1b]
  /\ session' = [session EXCEPT !.n1 = x.n1, !.n1b = x.n1b]
  /\ UNCHANGED <<jobsc, npc, workerVars>>

-----------------------------------------------------------------------------
(* A worker: Run::run *)

\* The load of jobsc, without the mutex.
Load(w) ==
  /\ wpc[w] = "load"
  /\ idx2' = [idx2 EXCEPT ![w] = jobsc]
  /\ wpc' = [wpc EXCEPT ![w] = IF jobsc # jobIdx[w] THEN "clone" ELSE "try"]
  /\ UNCHANGED <<netVars, jobIdx, mine, nonce>>

\* Mutant of FirstNonce: all workers start together.
FirstNonceSame(w, j) == j.nonce
FirstNonce(w, j) == Plus(j.nonce, w)

\* The counter moved: the slot is cloned under the mutex, and the worker
\* remembers the number it loaded before.
Clone(w) ==
  /\ wpc[w] = "clone" /\ LockIsFree
  /\ jobIdx' = [jobIdx EXCEPT ![w] = idx2[w]]
  /\ mine' = [mine EXCEPT ![w] = IF Computes(slot) THEN slot ELSE None]
  /\ nonce' = [nonce EXCEPT ![w] =
                IF Computes(slot) THEN FirstNonce(w, slot) ELSE @]
  /\ wpc' = [wpc EXCEPT ![w] = "try"]
  /\ UNCHANGED <<netVars, idx2>>

NextNonce(w) ==
  IF nonce[w] = Plus(FirstNonce(w, mine[w]), MaxTries * NWorkers)
  THEN FirstNonce(w, mine[w])
  ELSE Plus(nonce[w], NWorkers)

\* One nonce of the worker's lane is tried, or the worker without a job sleeps.
Try(w) ==
  /\ wpc[w] = "try"
  /\ nonce' = [nonce EXCEPT ![w] = IF Holds(w) THEN NextNonce(w) ELSE @]
  /\ wpc' = [wpc EXCEPT ![w] = "load"]
  /\ UNCHANGED <<netVars, idx2, jobIdx, mine>>

-----------------------------------------------------------------------------
NetThread ==
  \/ \E r \in 0..RandMax : Notify(r)
  \/ Bump \/ NotifyFatal \/ ParamsFatal
  \/ \E t \in Targets : SetTarget(t)
  \/ \E x \in Extranonces : SetExtranonce(x)

Worker(w) == Load(w) \/ Clone(w) \/ Try(w)

Next == NetThread \/ \E w \in Workers : Worker(w)

Spec == Init /\ [][Next]_vars

-----------------------------------------------------------------------------
(* Properties *)

\* A worker that has seen the current counter mines the job in the slot, unless
\* the network thread has died.
WorkerCurrent ==
  \A w \in Workers :
    jobIdx[w] = jobsc /\ npc = "idle" =>
      IF Computes(slot) THEN mine[w].id = slot.id ELSE ~Holds(w)

\* Nobody mines without a target, and the slot has the one the pool set last, in
\* whatever order and however often difficulty, extranonce and jobs arrive
\* (kas/mod.rs:66-117): a target of 0 accepts no hash, and only the division at
\* kas/mod.rs:82 is in the way.
TargetKnown ==
  /\ \A w \in Workers : Holds(w) => mine[w].target # NoTarget
  /\ slot.kind # "sleep" => slot.target = session.target

\* How far a worker is into the nonces of its job.
Offset(w) == (nonce[w] - mine[w].nonce) % Space

\* Two workers on the same clone of a job never try the same nonce, also when
\* the nonces wrap at the end of their range (kas/mod.rs:176 and 195).
LanesDisjoint ==
  \A u, v \in Workers :
    u # v /\ Holds(u) /\ Holds(v)
      /\ mine[u].id = mine[v].id /\ mine[u].nonce = mine[v].nonce
      => (Offset(u) - Offset(v)) % NWorkers # 0

Board == INSTANCE JobBoard WITH
  Miners    <- Workers,
  MaxPosted <- MaxJobs + 1,
  posted    <- IF Computes(slot) THEN slot.id ELSE 0,
  held      <- [w \in Workers |-> mine[w].id]

\* Jobs are posted in order, and no worker goes back to an older job or takes
\* one that is not in the slot; a fatal message takes no job off the board.
ImplementsBoard == Board!BoardSpec

(* What the source states and the runs refute *)

\* kas/mod.rs:71 stops a job for which "nonce1 info is none".  So a slot that
\* is past the initial one has the extranonce the pool has sent.
EarlyExtranonceKept ==
  slot.kind = "nonce1t" =>
    /\ slot.n1b = session.n1b
    /\ slot.nonce \div Suffix(slot.n1b) = session.n1

\* kas/mod.rs:17: the slot carries "(nonce, nonce1_bytes, target)" on to the
\* next job.  So a job with a number of extranonce digits starts with them.
JobKeepsExtranonce ==
  Computes(slot) /\ slot.n1b = session.n1b =>
    slot.nonce \div Suffix(slot.n1b) = session.n1

=============================================================================
