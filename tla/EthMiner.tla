------------------------------ MODULE EthMiner ------------------------------
(***************************************************************************)
(* How the ETH miner passes the pool's jobs and their dataset to its       *)
(* workers (src/src/eth/mod.rs, Computer of pow.rs).                       *)
(*                                                                         *)
(* A job needs the dataset of its epoch, gigabytes that take minutes to    *)
(* build.  The network thread builds it under the mutex; to make the       *)
(* workers let go of the old dataset meanwhile, it bumps the counter jobsc *)
(* before it builds, and a worker drops its clone before it waits for the  *)
(* mutex.  A dataset is shared by reference: it lives as long as the slot  *)
(* or a worker refers to it.                                               *)
(*                                                                         *)
(* The nonces of a worker (a random start, its index, steps of NWorkers)   *)
(* are those of CkbMiner and left out here.                                *)
(***************************************************************************)
EXTENDS Integers

CONSTANTS
  NWorkers,     \* config.workers
  Epochs,       \* epochs of the pool's jobs
  Etc,          \* config.testnet: etchash, whose epochs are twice as long
  MaxJobs       \* bound: jobs the pool sends

Workers == 0..(NWorkers - 1)

ASSUME SizeAssumption ==
  /\ NWorkers \in Nat /\ MaxJobs \in Nat
  /\ Epochs \subseteq Nat /\ Etc \in BOOLEAN

VARIABLES
  slot,     \* Statev.job
  jobsc,    \* Statev.jobsc
  npc,      \* the network thread, within handle_response
  next,     \* the job whose dataset is being built
  wpc,      \* per worker: before the load, before the clone, before a nonce
  idx2,     \* per worker: job_idx2, the value loaded
  jobIdx,   \* per worker: job_idx
  mine      \* per worker: compute; after the take its id stays as a history

netVars    == <<slot, jobsc, npc, next>>
workerVars == <<wpc, idx2, jobIdx, mine>>
vars == <<netVars, workerVars>>

\* A dataset is known by the job it was built for; 0: no reference to one.
Dataset(n, e) == [built |-> n, epoch |-> e]
NoDataset == Dataset(0, 0)

Slot(n, e, d) == [id |-> n, epoch |-> e, data |-> d]
Sleep == Slot(0, 0, NoDataset)

Computes(s) == s.data # NoDataset
Holds(w)    == Computes(mine[w])

Epoch0 == Epochs \cup {0}
SlotType ==
  [id : 0..(MaxJobs + 1), epoch : Epoch0,
   data : [built : 0..(MaxJobs + 1), epoch : Nat]]

TypeOK ==
  /\ slot \in SlotType
  /\ jobsc \in 1..(MaxJobs + 1)
  /\ npc \in {"idle", "bump", "build"}
  /\ next \in [id : 0..(MaxJobs + 1), epoch : Epoch0]
  /\ wpc \in [Workers -> {"load", "clone", "try"}]
  /\ idx2 \in [Workers -> 0..(MaxJobs + 1)]
  /\ jobIdx \in [Workers -> 0..(MaxJobs + 1)]
  /\ mine \in [Workers -> SlotType]

Init ==
  /\ slot = Sleep /\ jobsc = 1 /\ npc = "idle"
  /\ next = [id |-> 0, epoch |-> 0]
  /\ wpc = [w \in Workers |-> "load"]
  /\ idx2 = [w \in Workers |-> 0] /\ jobIdx = [w \in Workers |-> 0]
  /\ mine = [w \in Workers |-> Sleep]

LockIsFree == npc = "idle"

-----------------------------------------------------------------------------
(* The network thread: handle_response *)

\* Computer::new: the epoch of the dataset for a job of epoch e.
DatasetEpoch(e) == IF Etc THEN e \div 2 ELSE e

\* A job of the slot's epoch takes over the slot's dataset.
NotifySame(e) ==
  /\ npc = "idle" /\ jobsc <= MaxJobs
  /\ Computes(slot) /\ slot.epoch = e
  /\ slot' = Slot(jobsc + 1, e, slot.data)
  /\ npc' = "bump"
  /\ UNCHANGED <<jobsc, next, workerVars>>

\* ... and the counter is bumped afterwards, still under the mutex.
Bump ==
  /\ npc = "bump"
  /\ jobsc' = jobsc + 1
  /\ npc' = "idle"
  /\ UNCHANGED <<slot, next, workerVars>>

\* Mutant of NotifyEpoch: the counter stays.
NotifyEpochSilent(e) ==
  /\ npc = "idle" /\ jobsc <= MaxJobs
  /\ ~(Computes(slot) /\ slot.epoch = e)
  /\ next' = [id |-> jobsc + 1, epoch |-> e]
  /\ slot' = Sleep
  /\ npc' = "build"
  /\ UNCHANGED <<jobsc, workerVars>>

\* The first job, or one of another epoch: the slot lets go of the old
\* dataset, the counter is bumped, the mutex stays locked.
NotifyEpoch(e) ==
  /\ npc = "idle" /\ jobsc <= MaxJobs
  /\ ~(Computes(slot) /\ slot.epoch = e)
  /\ next' = [id |-> jobsc + 1, epoch |-> e]
  /\ slot' = Sleep
  /\ jobsc' = jobsc + 1
  /\ npc' = "build"
  /\ UNCHANGED workerVars

\* Computer::new returns: the job is stored with its new dataset.
BuildDone ==
  /\ npc = "build"
  /\ slot' = Slot(next.id, next.epoch, Dataset(next.id, DatasetEpoch(next.epoch)))
  /\ npc' = "idle"
  /\ UNCHANGED <<jobsc, next, workerVars>>

-----------------------------------------------------------------------------
(* A worker: Run::run *)

\* Mutant of Load: the clone is kept until there is a new one.
LoadKeeps(w) ==
  /\ wpc[w] = "load"
  /\ idx2' = [idx2 EXCEPT ![w] = jobsc]
  /\ wpc' = [wpc EXCEPT ![w] = IF jobsc # jobIdx[w] THEN "clone" ELSE "try"]
  /\ UNCHANGED <<netVars, jobIdx, mine>>

\* The load of jobsc, without the mutex; when it has moved, compute.take()
\* lets go of the dataset before the worker waits for the mutex.
Load(w) ==
  /\ wpc[w] = "load"
  /\ idx2' = [idx2 EXCEPT ![w] = jobsc]
  /\ IF jobsc # jobIdx[w]
     THEN /\ wpc' = [wpc EXCEPT ![w] = "clone"]
          /\ mine' = [mine EXCEPT ![w].data = NoDataset]
     ELSE wpc' = [wpc EXCEPT ![w] = "try"] /\ UNCHANGED mine
  /\ UNCHANGED <<netVars, jobIdx>>

\* Mutant of Clone: the mutex is only tried, and without it there is no job.
CloneTries(w) ==
  /\ wpc[w] = "clone"
  /\ jobIdx' = [jobIdx EXCEPT ![w] = idx2[w]]
  /\ mine' = [mine EXCEPT ![w] = IF LockIsFree THEN slot ELSE Sleep]
  /\ wpc' = [wpc EXCEPT ![w] = "try"]
  /\ UNCHANGED <<netVars, idx2>>

\* The slot is cloned under the mutex, and the worker remembers the number it
\* loaded before.
Clone(w) ==
  /\ wpc[w] = "clone" /\ LockIsFree
  /\ jobIdx' = [jobIdx EXCEPT ![w] = idx2[w]]
  /\ mine' = [mine EXCEPT ![w] = slot]
  /\ wpc' = [wpc EXCEPT ![w] = "try"]
  /\ UNCHANGED <<netVars, idx2>>

\* One nonce is tried, or the worker without a job sleeps.
Try(w) ==
  /\ wpc[w] = "try"
  /\ wpc' = [wpc EXCEPT ![w] = "load"]
  /\ UNCHANGED <<netVars, idx2, jobIdx, mine>>

-----------------------------------------------------------------------------
NetThread ==
  \/ \E e \in Epochs : NotifySame(e) \/ NotifyEpoch(e)
  \/ Bump \/ BuildDone

Worker(w) == Load(w) \/ Clone(w) \/ Try(w)

Next == NetThread \/ \E w \in Workers : Worker(w)

Spec == Init /\ [][Next]_vars

(***************************************************************************)
(* Fairness: the threads run, and a worker that wants the mutex gets it    *)
(* when it is free again and again.  That a build ends is not assumed.     *)
(***************************************************************************)
FairSpec ==
  /\ Spec /\ WF_vars(Bump)
  /\ \A w \in Workers : WF_vars(Load(w) \/ Try(w)) /\ SF_vars(Clone(w))

-----------------------------------------------------------------------------
(* Properties *)

\* Nobody computes a job with the dataset of another epoch (eth/mod.rs:76-82),
\* though the dataset is carried from job to job and shared with the workers;
\* for etc two epochs of the pool share one (eth/pow.rs:95-97).
EpochsMatch ==
  \A s \in {slot} \cup {mine[w] : w \in Workers} :
    Computes(s) => s.data.epoch = DatasetEpoch(s.epoch)

\* A worker that has seen the current counter mines the job in the slot.  For a
\* new epoch the counter moves before the job is there (eth/mod.rs:79-80): the
\* mutex must keep the workers out until it is.
WorkerCurrent ==
  \A w \in Workers :
    LockIsFree /\ jobIdx[w] = jobsc =>
      Holds(w) = Computes(slot) /\ (Holds(w) => mine[w].id = slot.id)

\* A worker that waits for the mutex holds no dataset, and one that has seen
\* the current counter holds the slot's: an old dataset is alive only until
\* its holders have looked at the counter (eth/mod.rs:136-139).
DatasetReleased ==
  \A w \in Workers :
    Holds(w) => /\ wpc[w] # "clone"
                /\ jobIdx[w] = jobsc => mine[w].data = slot.data

\* When a dataset is being built all references to the old one go away, however
\* long the build takes: two datasets need not fit into memory for its length.
OldDatasetFreed ==
  (npc = "build") ~> (npc # "build" \/ \A w \in Workers : ~Holds(w))

\* While a dataset is built the board still shows the previous job.
Board == INSTANCE JobBoard WITH
  Miners    <- Workers,
  MaxPosted <- MaxJobs + 1,
  posted    <- IF Computes(slot) THEN slot.id
               ELSE IF jobsc = 2 THEN 0 ELSE jobsc - 1,
  held      <- [w \in Workers |-> mine[w].id]

\* Jobs are posted in order, and no worker goes back to an older job or takes
\* one that is not in the slot, for both orders of bump and store.
ImplementsBoard == Board!BoardSpec

\* If builds end, every worker comes to mine each job or a newer one.
WorkersCatchUp == []<>LockIsFree => Board!EveryoneCatchesUp

=============================================================================
