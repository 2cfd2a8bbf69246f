------------------------------ MODULE CkbMiner ------------------------------
(***************************************************************************)
(* How the CKB miner passes the pool's jobs to its workers                 *)
(* (src/src/ckb/mod.rs, pow.rs, proto.rs, and the shared counter of        *)
(* src/src/state.rs).                                                      *)
(*                                                                         *)
(* The network thread keeps one slot (Statev.job) under the mutex and      *)
(* bumps the atomic counter jobsc; a worker polls jobsc without the mutex, *)
(* and clones the slot when the counter has moved.  The mutex is held for  *)
(* one action, except while the network thread has stored a job and not    *)
(* yet bumped the counter (npc = "bump").                                  *)
(*                                                                         *)
(* A nonce is a number of Digits digits in base Base (16 bytes in the      *)
(* code), the first n1b of them given by the pool, its extranonce.         *)
(***************************************************************************)
EXTENDS Integers

CONSTANTS
  NWorkers,     \* config.workers
  Base, Digits, \* nonces are below Base^Digits (2^128)
  Extranonces,  \* what subscribe can answer: [n1 |-> prefix, n1b |-> digits]
  Targets,      \* what set_target can send
  NoTarget,     \* H256::default()
  RandMax,      \* rand::random::<u64>() is in 0..RandMax
  MaxJobs,      \* bound: jobs the pool sends
  MaxTries      \* bound: nonces tried before the model restarts the lane

Workers == 0..(NWorkers - 1)
Space   == Base ^ Digits
Suffix(n1b) == Base ^ (Digits - n1b)

ASSUME SizeAssumption ==
  /\ NWorkers \in Nat /\ MaxJobs \in Nat /\ MaxTries \in Nat
  /\ Base \in Nat \ {0, 1} /\ Digits \in Nat /\ RandMax \in Nat
  /\ NoTarget \notin Targets
\* What is used of powers: n digits make a number, which takes as many values
\* as the other digits leave room for.
ASSUME PowerAssumption ==
  \A n \in 0..Digits :
    Base ^ n \in Nat \ {0} /\ Base ^ n * Base ^ (Digits - n) = Space
\* parse_nonce refuses an extranonce longer than the nonce.
ASSUME ExtranonceAssumption ==
  \A x \in Extranonces : x.n1b \in 0..Digits /\ x.n1 \in 0..(Base ^ x.n1b - 1)
\* The extranonce the slot has at any time: 0 digits before the pool gave one.
Prefixes == Extranonces \cup {[n1 |-> 0, n1b |-> 0]}
\* Two lanes do not meet behind the end of the numbers: 2^128 nonces are not
\* tried during a job.
ASSUME LaneAssumption == NWorkers * (MaxTries + 2) < Space

VARIABLES
  slot,     \* Statev.job
  jobsc,    \* Statev.jobsc
  npc,      \* the network thread, within handle_response
  wpc,      \* per worker: before the load, the clone, a nonce; or panicked
  idx2,     \* per worker: job_idx2, the value loaded
  jobIdx,   \* per worker: job_idx
  mine,     \* per worker: its clone of the job, or None
  nonce,    \* per worker
  session,  \* history: extranonce and target the pool gave last, and the sum
            \* of the random offsets drawn since that extranonce
  from,     \* history, per worker: the session its clone was made in
  tries     \* history, per worker: nonces tried since its clone

netVars    == <<slot, jobsc, npc, session>>
workerVars == <<wpc, idx2, jobIdx, mine, nonce, from, tries>>
vars == <<netVars, workerVars>>

\* One record for the three cases of CkbJob (Exit is never constructed).
\* "nonce1t" holds what the pool sent before the first job.
Slot(kind, id, n, n1b, target) ==
  [kind |-> kind, id |-> id, nonce |-> n, n1b |-> n1b, target |-> target]
Sleep == Slot("sleep", 0, 0, 0, NoTarget)
None  == Sleep

Computes(s) == s.kind = "compute"
Holds(w)    == Computes(mine[w])

SlotType ==
  [kind : {"sleep", "nonce1t", "compute"}, id : 0..(MaxJobs + 1),
   nonce : 0..(Space - 1), n1b : 0..Digits, target : Targets \cup {NoTarget}]

SessionType ==
  [n1 : Nat, n1b : 0..Digits, target : Targets \cup {NoTarget}, drawn : Nat]

TypeOK ==
  /\ slot \in SlotType
  /\ jobsc \in 1..(MaxJobs + 1)
  /\ npc \in {"idle", "bump", "dead"}
  /\ wpc \in [Workers -> {"load", "clone", "try", "dead"}]
  /\ idx2 \in [Workers -> 0..(MaxJobs + 1)]
  /\ jobIdx \in [Workers -> 0..(MaxJobs + 1)]
  /\ mine \in [Workers -> SlotType]
  /\ nonce \in [Workers -> 0..(Space - 1)]
  /\ session \in SessionType
  /\ from \in [Workers -> SessionType]
  /\ tries \in [Workers -> 0..MaxTries]

Init ==
  /\ slot = Sleep /\ jobsc = 1 /\ npc = "idle"
  /\ wpc = [w \in Workers |-> "load"]
  /\ idx2 = [w \in Workers |-> 0] /\ jobIdx = [w \in Workers |-> 0]
  /\ mine = [w \in Workers |-> None]
  /\ nonce = [w \in Workers |-> 0]
  /\ session = [n1 |-> 0, n1b |-> 0, target |-> NoTarget, drawn |-> 0]
  /\ from = [w \in Workers |-> session]
  /\ tries = [w \in Workers |-> 0]

LockIsFree == npc # "bump"

-----------------------------------------------------------------------------
(* The network thread: handle_response *)

\* u128 addition in release mode.
Plus(a, b) == (a + b) % Space

\* parse_nonce: the extranonce fills the first digits.
ParseNonce(x) == x.n1 * Suffix(x.n1b)

\* The job that notify stores: the next number, and what the slot knew.
NewJob(r) ==
  Slot("compute", jobsc + 1, Plus(slot.nonce, r), slot.n1b, slot.target)

\* mining.notify, when the pool has said something before: the job is stored.
Notify(r) ==
  /\ npc = "idle" /\ slot.kind # "sleep"
  /\ jobsc <= MaxJobs
  /\ slot' = NewJob(r)
  /\ session' = [session EXCEPT !.drawn = @ + r]
  /\ npc' = "bump"
  /\ UNCHANGED <<jobsc, workerVars>>

\* Mutant of Bump: the counter is not bumped.
BumpForgotten ==
  /\ npc = "bump"
  /\ npc' = "idle"
  /\ UNCHANGED <<slot, jobsc, session, workerVars>>

\* ... and the counter is bumped, still under the mutex.
Bump ==
  /\ npc = "bump"
  /\ jobsc' = jobsc + 1
  /\ npc' = "idle"
  /\ UNCHANGED <<slot, session, workerVars>>

\* mining.notify in the initial slot is fatal: the thread is gone.
NotifyFatal ==
  /\ npc = "idle" /\ slot.kind = "sleep"
  /\ npc' = "dead"
  /\ UNCHANGED <<slot, jobsc, session, workerVars>>

\* The answer to subscribe has an extranonce parse_nonce refuses (more than
\* 16 bytes, or an odd number of them): fatal, before the slot is touched.
SubscribeFatal ==
  /\ npc = "idle"
  /\ npc' = "dead"
  /\ UNCHANGED <<slot, jobsc, session, workerVars>>

\* Mutant of SetTarget: before the first job the extranonce is forgotten.
SetTargetForgets(t) ==
  /\ npc = "idle"
  /\ slot' = IF ~Computes(slot) THEN Slot("nonce1t", 0, 0, 0, t)
                               ELSE [slot EXCEPT !.target = t]
  /\ session' = [session EXCEPT !.target = t]
  /\ UNCHANGED <<jobsc, npc, workerVars>>

\* mining.set_target changes the slot in place; jobsc stays.
SetTarget(t) ==
  /\ npc = "idle"
  /\ slot' = IF slot.kind = "sleep" THEN Slot("nonce1t", 0, 0, 0, t)
                                    ELSE [slot EXCEPT !.target = t]
  /\ session' = [session EXCEPT !.target = t]
  /\ UNCHANGED <<jobsc, npc, workerVars>>

\* The answer to mining.subscribe, also after a reconnect: in place too.
Subscribe(x) ==
  /\ npc = "idle"
  /\ slot' = IF slot.kind = "sleep"
             THEN Slot("nonce1t", 0, ParseNonce(x), x.n1b, NoTarget)
             ELSE [slot EXCEPT !.nonce = ParseNonce(x), !.n1b = x.n1b]
  /\ session' = [session EXCEPT !.n1 = x.n1, !.n1b = x.n1b, !.drawn = 0]
  /\ UNCHANGED <<jobsc, npc, workerVars>>

-----------------------------------------------------------------------------
(* A worker: Run::run *)

\* The load of jobsc, without the mutex.
Load(w) ==
  /\ wpc[w] = "load"
  /\ idx2' = [idx2 EXCEPT ![w] = jobsc]
  /\ wpc' = [wpc EXCEPT ![w] = IF jobsc # jobIdx[w] THEN "clone" ELSE "try"]
  /\ UNCHANGED <<netVars, jobIdx, mine, nonce, from, tries>>

\* Mutants of FirstNonce: all workers start together; the workers share out
\* all nonces and not those of the extranonce.
FirstNonceSame(w, j) == j.nonce
FirstNonceSplit(w, j) == Plus(j.nonce, w * (Space \div NWorkers))
FirstNonce(w, j) == Plus(j.nonce, w)

\* Mutant of Clone: the mutex is only tried, and without it there is no job.
CloneTries(w) ==
  /\ wpc[w] = "clone"
  /\ jobIdx' = [jobIdx EXCEPT ![w] = idx2[w]]
  /\ mine' = [mine EXCEPT ![w] = IF LockIsFree /\ Computes(slot) THEN slot ELSE None]
  /\ nonce' = [nonce EXCEPT ![w] =
                IF LockIsFree /\ Computes(slot) THEN FirstNonce(w, slot) ELSE @]
  /\ wpc' = [wpc EXCEPT ![w] = "try"]
  /\ from' = [from EXCEPT ![w] = IF Computes(slot) THEN session ELSE @]
  /\ tries' = [tries EXCEPT ![w] = 0]
  /\ UNCHANGED <<netVars, idx2>>

\* The counter moved: the slot is cloned under the mutex, and the worker
\* remembers the number it loaded before.
Clone(w) ==
  /\ wpc[w] = "clone" /\ LockIsFree
  /\ jobIdx' = [jobIdx EXCEPT ![w] = idx2[w]]
  /\ mine' = [mine EXCEPT ![w] = IF Computes(slot) THEN slot ELSE None]
  /\ nonce' = [nonce EXCEPT ![w] =
                IF Computes(slot) THEN FirstNonce(w, slot) ELSE @]
  /\ wpc' = [wpc EXCEPT ![w] = "try"]
  /\ from' = [from EXCEPT ![w] = IF Computes(slot) THEN session ELSE @]
  /\ tries' = [tries EXCEPT ![w] = 0]
  /\ UNCHANGED <<netVars, idx2>>

\* Computer::update cannot decode the job's powhash: the worker's thread is gone.
CloneFatal(w) ==
  /\ wpc[w] = "clone" /\ LockIsFree /\ Computes(slot)
  /\ wpc' = [wpc EXCEPT ![w] = "dead"]
  /\ UNCHANGED <<netVars, idx2, jobIdx, mine, nonce, from, tries>>

NextTries(w) == IF tries[w] = MaxTries THEN 0 ELSE tries[w] + 1

NextNonce(w) ==
  IF tries[w] = MaxTries THEN FirstNonce(w, mine[w]) ELSE Plus(nonce[w], NWorkers)

\* Mutant of Try: a worker without a job does not look again.
TryStays(w) ==
  /\ wpc[w] = "try" /\ Holds(w)
  /\ nonce' = [nonce EXCEPT ![w] = NextNonce(w)]
  /\ tries' = [tries EXCEPT ![w] = NextTries(w)]
  /\ wpc' = [wpc EXCEPT ![w] = "load"]
  /\ UNCHANGED <<netVars, idx2, jobIdx, mine, from>>

\* One nonce of the worker's lane is tried, or the worker without a job sleeps.
Try(w) ==
  /\ wpc[w] = "try"
  /\ nonce' = [nonce EXCEPT ![w] = IF Holds(w) THEN NextNonce(w) ELSE @]
  /\ tries' = [tries EXCEPT ![w] = IF Holds(w) THEN NextTries(w) ELSE @]
  /\ wpc' = [wpc EXCEPT ![w] = "load"]
  /\ UNCHANGED <<netVars, idx2, jobIdx, mine, from>>

-----------------------------------------------------------------------------
NetThread ==
  \/ \E r \in 0..RandMax : Notify(r)
  \/ Bump \/ NotifyFatal \/ SubscribeFatal
  \/ \E t \in Targets : SetTarget(t)
  \/ \E x \in Extranonces : Subscribe(x)

Worker(w) == Load(w) \/ Clone(w) \/ CloneFatal(w) \/ Try(w)

Next == NetThread \/ \E w \in Workers : Worker(w)

Spec == Init /\ [][Next]_vars

(***************************************************************************)
(* Fairness: the threads run, and a worker that wants the mutex gets it,   *)
(* for the network thread gives it back.  The pool owes nothing.           *)
(***************************************************************************)
FairSpec ==
  /\ Spec /\ WF_vars(Bump)
  /\ \A w \in Workers : WF_vars(Load(w) \/ Try(w)) /\ SF_vars(Clone(w))

-----------------------------------------------------------------------------
(* Properties *)

\* A worker that has seen the current counter mines the job in the slot: the
\* counter is bumped after the slot is written, and read before it is cloned
\* (ckb/mod.rs:89-90 and 168-177), so the race between the two makes a worker
\* fetch once too often and never once too little.
WorkerCurrent ==
  \A w \in Workers :
    jobIdx[w] = jobsc /\ npc # "bump" =>
      IF Computes(slot) THEN mine[w].id = slot.id ELSE ~Holds(w)

\* Whatever the order in which target, extranonce and jobs arrive, and however
\* often, the slot has the target the pool gave last, and its nonce is the
\* extranonce the pool gave last plus the offsets drawn since
\* (ckb/mod.rs:65-148).  Offsets that outgrow the room behind the extranonce
\* spill into it: the code does not look.
SlotCarriesSession ==
  slot.kind # "sleep" =>
    /\ slot.n1b = session.n1b /\ slot.target = session.target
    /\ slot.nonce = Plus(ParseNonce(session), session.drawn)

\* make_submit sends the digits behind the extranonce only, and the pool puts
\* its extranonce in front of them.
Submitted(w) == nonce[w] % Suffix(mine[w].n1b)
Rebuilt(w)   == from[w].n1 * Suffix(mine[w].n1b) + Submitted(w)

\* How far a worker is behind the extranonce of its job: the offsets drawn, its
\* own number, its steps.
Drift(w) == from[w].drawn + w + tries[w] * NWorkers

\* The pool rebuilds from a share the nonce that was hashed exactly as long as
\* all that was added to the extranonce fits behind it; else the sum has spilled
\* into the extranonce and the share is for another nonce (ckb/mod.rs:77, 180
\* and 197, ckb/proto.rs:84-87).
ShareRebuilt ==
  \A w \in Workers : Holds(w) =>
    (Rebuilt(w) = nonce[w] <=> Drift(w) % Space < Suffix(mine[w].n1b))

\* How far a worker is into the nonces of its job.
Offset(w) == (nonce[w] - mine[w].nonce) % Space

\* Two workers on the same clone of a job never try the same nonce, now or
\* later, also when the nonces wrap at the end of their range (ckb/mod.rs:180
\* and 197).
LanesDisjoint ==
  \A u, v \in Workers :
    u # v /\ Holds(u) /\ Holds(v)
      /\ mine[u].id = mine[v].id /\ mine[u].nonce = mine[v].nonce
      => (Offset(u) - Offset(v)) % NWorkers # 0

Board == INSTANCE JobBoard WITH
  Miners    <- Workers,
  MaxPosted <- MaxJobs + 1,
  posted    <- IF Computes(slot) THEN slot.id ELSE 0,
  held      <- [w \in Workers |-> mine[w].id]

\* Jobs are posted in order, and no worker goes back to an older job or takes
\* one that is not in the slot.
ImplementsBoard == Board!BoardSpec

\* No worker that lives keeps mining an old job for ever, nor sleeps on, once a
\* job is in the slot (the first has number 2): it polls jobsc between two
\* nonces, and another worker's panic leaves no mutex locked.
WorkersCatchUp ==
  \A n \in 2..(MaxJobs + 1), w \in Workers :
    slot.id = n ~> mine[w].id >= n \/ wpc[w] = "dead"

=============================================================================
