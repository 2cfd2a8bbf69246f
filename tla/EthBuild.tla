------------------------------ MODULE EthBuild ------------------------------
(***************************************************************************)
(* EthMiner with the building of a dataset in full (src/src/eth/pow.rs,    *)
(* Computer::new and make_full): the items are cut into tasks of equal     *)
(* length, and the threads of a pool fill the tasks in parallel, through   *)
(* an UnsafeCell: nothing but the cut keeps two threads off one item.      *)
(***************************************************************************)
EXTENDS EthMiner, FiniteSets

CONSTANTS
  Items,      \* n_scope: items of a dataset
  Threads     \* current_num_threads()

\* With fewer items than threads n_task is 0 and chunks(0) panics; the least
\* dataset of ethash has millions.
ASSUME ItemsAssumption ==
  Items \in Nat /\ Threads \in Nat \ {0} /\ Items >= Threads

VARIABLES
  writes,     \* per item of the last dataset: how often it was written
  progress    \* per task: items written

buildVars == <<writes, progress>>
allVars   == <<vars, buildVars>>

NTask == Items \div Threads
ItemIds == 0..(Items - 1)

\* Mutant of Tasks: one per thread, without what the division leaves over.
TasksEven == 0..(Threads - 1)

\* tasks.chunks(n_task): when n_task divides badly there are more than Threads.
Tasks == 0..((Items - 1) \div NTask)
Item(c, p) == c * NTask + p
Length(c)  == IF Item(c, NTask) <= Items THEN NTask ELSE Items - Item(c, 0)

BuildTypeOK ==
  /\ writes \in [ItemIds -> Nat]
  /\ progress \in [Tasks -> 0..NTask]

BuildInit ==
  /\ Init
  /\ writes = [i \in ItemIds |-> 0]
  /\ progress = [c \in Tasks |-> 0]

\* A job of another epoch: a new dataset, its bytes all zero.
StartBuild(e) ==
  /\ NotifyEpoch(e)
  /\ writes' = [i \in ItemIds |-> 0]
  /\ progress' = [c \in Tasks |-> 0]

\* A thread of the pool that can take a task.
IdleThread == Cardinality({c \in Tasks : progress[c] \in 1..(Length(c) - 1)}) < Threads

\* The thread at task c writes its next item.
WriteItem(c) ==
  /\ npc = "build"
  /\ progress[c] < Length(c)
  /\ progress[c] > 0 \/ IdleThread
  /\ writes' = [writes EXCEPT ![Item(c, progress[c])] = @ + 1]
  /\ progress' = [progress EXCEPT ![c] = @ + 1]
  /\ UNCHANGED vars

TasksDone == \A c \in Tasks : progress[c] = Length(c)

\* for_each returns when all tasks are done.
EndBuild ==
  /\ TasksDone
  /\ BuildDone
  /\ UNCHANGED buildVars

Elsewhere ==
  /\ \/ \E e \in Epochs : NotifySame(e)
     \/ Bump
     \/ \E w \in Workers : Worker(w)
  /\ UNCHANGED buildVars

BuildNext ==
  \/ \E e \in Epochs : StartBuild(e)
  \/ \E c \in Tasks : WriteItem(c)
  \/ EndBuild
  \/ Elsewhere

BuildSpec == BuildInit /\ [][BuildNext]_allVars

\* Fairness: as in EthMiner; a build need not end.
BuildFairSpec ==
  /\ BuildSpec /\ WF_vars(Bump)
  /\ \A w \in Workers : WF_vars(Load(w) \/ Try(w)) /\ SF_vars(Clone(w))

-----------------------------------------------------------------------------
(* Properties *)

\* The tasks divide the items: no two threads ever write one item, and who has
\* the last dataset built has all of its items (eth/pow.rs:169-187).
ItemsWritten ==
  /\ \A i \in ItemIds : writes[i] <= 1
  /\ \A s \in {slot} \cup {mine[w] : w \in Workers} :
       Computes(s) /\ s.data.built = next.id => \A i \in ItemIds : writes[i] = 1

\* Whoever computes does it with a dataset that has all of its items and is of
\* the job's epoch, though it was filled without a lock and is carried from job
\* to job (eth/mod.rs:76-82, eth/pow.rs:169-187).
DatasetWhole == EpochsMatch /\ ItemsWritten

=============================================================================
