------------------------------ MODULE EthProofs ------------------------------
(***************************************************************************)
(* Proofs about EthMiner for every number of workers and of jobs and every *)
(* set of epochs: a job is computed with its own dataset, the worker's job *)
(* is the slot's, old datasets are let go of, and the hand-over implements *)
(* JobBoard although the counter moves before a new dataset is there.      *)
(* And about EthBuild for every number of items and threads: the tasks     *)
(* divide the items of a dataset, so that who has a dataset has all of it, *)
(* and building it in parallel implements EthMiner.                        *)
(***************************************************************************)
EXTENDS EthBuild, NumberLemmas, TLAPS

(***************************************************************************)
(* The invariant                                                           *)
(***************************************************************************)

\* The number of the job on the board: the previous one during a build.
Posted == IF Computes(slot) THEN slot.id ELSE IF jobsc = 2 THEN 0 ELSE jobsc - 1
Held   == [w \in Workers |-> mine[w].id]

\* How the slot's number and the counter stand to each other.
Numbered ==
  /\ npc = "idle" => IF Computes(slot) THEN slot.id = jobsc
                                       ELSE slot = Sleep /\ jobsc = 1
  /\ npc = "bump" => Computes(slot) /\ slot.id = jobsc + 1 /\ jobsc <= MaxJobs
  /\ npc = "build" => slot = Sleep /\ next.id = jobsc
  /\ jobsc = 1 => npc = "idle" /\ ~Computes(slot)

\* What a worker knows: it is not ahead of the counter, behind it while it
\* waits for the mutex and throughout a build, and up to date otherwise.
Knows(w) ==
  /\ idx2[w] <= jobsc /\ jobIdx[w] <= jobsc
  /\ wpc[w] = "clone" => ~Holds(w) /\ jobIdx[w] < jobsc
  /\ jobIdx[w] = jobsc =>
       /\ npc # "build" /\ mine[w].data = slot.data
       /\ npc = "idle" => mine[w].id = slot.id
  /\ mine[w].id <= Posted

IInv == TypeOK /\ Numbered /\ (\A w \in Workers : Knows(w)) /\ EpochsMatch

LEMMA SleepTyped == Sleep \in SlotType /\ ~Computes(Sleep) /\ Sleep.id = 0
<1>1. 0 \in 0..(MaxJobs + 1) /\ 0 \in Nat
  BY SizeAssumption
<1> QED
  BY <1>1 DEF Sleep, Slot, SlotType, Computes, NoDataset, Dataset, Epoch0

\* Letting go of the dataset keeps the rest of a clone.
LEMMA TakenTyped ==
  ASSUME NEW s \in SlotType
  PROVE  LET t == [s EXCEPT !.data = NoDataset]
         IN  t \in SlotType /\ ~Computes(t) /\ t.id = s.id
<1>1. NoDataset \in [built : 0..(MaxJobs + 1), epoch : Nat]
  BY SizeAssumption DEF NoDataset, Dataset
<1> QED
  BY <1>1 DEF SlotType, Computes

LEMMA DatasetEpochTyped == \A e \in Nat : DatasetEpoch(e) \in Nat
  BY DEF DatasetEpoch

LEMMA InitIInv == Init => IInv
<1> SUFFICES ASSUME Init PROVE IInv
  OBVIOUS
<1>1. TypeOK
  <2>1. 0 \in 0..(MaxJobs + 1) /\ 1 \in 1..(MaxJobs + 1) /\ 0 \in Epoch0
    BY SizeAssumption DEF Epoch0
  <2> QED
    BY <2>1, SleepTyped DEF Init, TypeOK
<1>2. Numbered
  BY SleepTyped DEF Init, Numbered
<1>3. \A w \in Workers : Knows(w)
  BY SleepTyped DEF Init, Knows, Holds, Posted
<1>4. EpochsMatch
  BY SleepTyped DEF Init, EpochsMatch
<1> QED
  BY <1>1, <1>2, <1>3, <1>4 DEF IInv

(***************************************************************************)
(* One lemma per conjunct                                                  *)
(***************************************************************************)

LEMMA TypeOKStep == IInv /\ [Next]_vars => TypeOK'
<1> SUFFICES ASSUME IInv, [Next]_vars
             PROVE  TypeOK'
  OBVIOUS
<1> USE DEF TypeOK
<1>0. TypeOK
  BY DEF IInv
<1>t. /\ jobsc \in Nat /\ MaxJobs \in Nat /\ Epochs \subseteq Nat
      /\ jobsc \in 0..(MaxJobs + 1) /\ Epochs \subseteq Epoch0 /\ Epoch0 \subseteq Nat
  BY <1>0, SizeAssumption DEF Epoch0
<1>1. ASSUME NEW e \in Epochs, NotifySame(e) PROVE TypeOK'
  <2>1. jobsc + 1 \in 0..(MaxJobs + 1)
    BY <1>1, <1>t DEF NotifySame
  <2>2. slot' \in SlotType
    BY <1>0, <1>1, <1>t, <2>1 DEF NotifySame, Slot, SlotType
  <2> QED
    BY <1>0, <1>1, <2>2 DEF NotifySame, workerVars
<1>2. ASSUME NEW e \in Epochs, NotifyEpoch(e) PROVE TypeOK'
  <2>1. jobsc + 1 \in 0..(MaxJobs + 1) /\ jobsc + 1 \in 1..(MaxJobs + 1)
    BY <1>2, <1>t DEF NotifyEpoch
  <2> QED
    BY <1>0, <1>2, <1>t, <2>1, SleepTyped DEF NotifyEpoch, workerVars
<1>3. CASE Bump
  <2>1. jobsc + 1 \in 1..(MaxJobs + 1)
    BY <1>0, <1>3, <1>t DEF IInv, Numbered, Bump
  <2> QED
    BY <1>0, <1>3, <2>1 DEF Bump, workerVars
<1>4. CASE BuildDone
  <2>1. next.id \in 0..(MaxJobs + 1) /\ next.epoch \in Epoch0
    BY <1>0
  <2>2. DatasetEpoch(next.epoch) \in Nat
    BY <2>1, <1>t, DatasetEpochTyped
  <2>3. slot' \in SlotType
    BY <1>4, <2>1, <2>2 DEF BuildDone, Slot, Dataset, SlotType
  <2> QED
    BY <1>0, <1>4, <2>3 DEF BuildDone, workerVars
<1>5. ASSUME NEW w \in Workers, Load(w) PROVE TypeOK'
  <2>1. [mine[w] EXCEPT !.data = NoDataset] \in SlotType
    BY <1>0, TakenTyped
  <2>2. mine' \in [Workers -> SlotType]
    BY <1>0, <1>5, <2>1 DEF Load
  <2> QED
    BY <1>0, <1>5, <1>t, <2>2 DEF Load, netVars
<1>6. ASSUME NEW w \in Workers, Clone(w) PROVE TypeOK'
  BY <1>0, <1>6 DEF Clone, netVars
<1>7. ASSUME NEW w \in Workers, Try(w) PROVE TypeOK'
  BY <1>0, <1>7 DEF Try, netVars
<1>8. CASE UNCHANGED vars
  BY <1>0, <1>8 DEF vars, netVars, workerVars
<1> QED
  BY <1>1, <1>2, <1>3, <1>4, <1>5, <1>6, <1>7, <1>8 DEF Next, NetThread, Worker

LEMMA NumberedStep == IInv /\ [Next]_vars => Numbered'
<1> SUFFICES ASSUME IInv, [Next]_vars
             PROVE  Numbered'
  OBVIOUS
<1> USE DEF Numbered
<1>0. TypeOK /\ Numbered
  BY DEF IInv
<1>t. jobsc \in Nat /\ jobsc >= 1 /\ MaxJobs \in Nat
  BY <1>0, SizeAssumption DEF TypeOK
<1>1. ASSUME NEW e \in Epochs, NotifySame(e) PROVE Numbered'
  <2>1. Computes(slot') /\ slot'.id = jobsc + 1
    BY <1>1 DEF NotifySame, Slot, Computes
  <2> QED
    BY <1>0, <1>1, <1>t, <2>1 DEF NotifySame
<1>2. ASSUME NEW e \in Epochs, NotifyEpoch(e) PROVE Numbered'
  BY <1>0, <1>2, <1>t DEF NotifyEpoch
<1>3. CASE Bump
  BY <1>0, <1>3, <1>t DEF Bump
<1>4. CASE BuildDone
  <2>1. slot'.id = jobsc /\ npc' = "idle" /\ jobsc' = jobsc /\ jobsc # 1
    BY <1>0, <1>4 DEF BuildDone, Slot
  <2>2. Computes(slot')
    BY <1>0, <1>4, <1>t, <2>1 DEF BuildDone, Slot, Computes, NoDataset, Dataset
  <2> QED
    BY <2>1, <2>2
<1>5. CASE \/ UNCHANGED vars
           \/ \E w \in Workers : Load(w) \/ Clone(w) \/ Try(w)
  BY <1>0, <1>5 DEF Load, Clone, Try, vars, netVars
<1> QED
  BY <1>1, <1>2, <1>3, <1>4, <1>5 DEF Next, NetThread, Worker

\* The board's number grows when a job is stored, and stays otherwise.
LEMMA PostedStep ==
  ASSUME IInv, [Next]_vars
  PROVE  /\ Posted \in Nat /\ Posted' \in Nat
         /\ \/ Posted' = Posted
            \/ Posted' > Posted /\ mine' = mine
<1>0. TypeOK /\ TypeOK' /\ Numbered /\ Numbered'
  BY TypeOKStep, NumberedStep DEF IInv
<1>t. /\ jobsc \in Nat /\ jobsc >= 1 /\ slot.id \in Nat
      /\ slot = Sleep => ~Computes(slot)
  BY <1>0, SizeAssumption, SleepTyped DEF TypeOK, SlotType
<1>n. Posted \in Nat /\ Posted' \in Nat
  <2>1. slot'.id \in Nat /\ jobsc' \in Nat /\ jobsc' >= 1
    BY <1>0, SizeAssumption DEF TypeOK, SlotType
  <2>2. Posted \in Nat
    BY <1>t DEF Posted
  <2>3. Posted' \in Nat
    <3>1. CASE Computes(slot')
      BY <2>1, <3>1 DEF Posted
    <3>2. CASE ~Computes(slot')
      <4>1. Posted' = IF jobsc' = 2 THEN 0 ELSE jobsc' - 1
        BY <3>2 DEF Posted
      <4>2. \A n \in Nat : n >= 1 => n - 1 \in Nat
        OBVIOUS
      <4> QED
        BY <2>1, <4>1, <4>2
    <3> QED
      BY <3>1, <3>2
  <2> QED
    BY <2>2, <2>3
<1>1. ASSUME NEW e \in Epochs, NotifySame(e) PROVE Posted' > Posted /\ mine' = mine
  <2>1. Computes(slot) /\ slot.id = jobsc /\ Computes(slot') /\ slot'.id = jobsc + 1
    BY <1>0, <1>1 DEF NotifySame, Slot, Numbered, Computes
  <2> QED
    BY <1>1, <1>t, <2>1 DEF NotifySame, workerVars, Posted
<1>2. ASSUME NEW e \in Epochs, NotifyEpoch(e) PROVE Posted' = Posted
  <2>1. ~Computes(slot') /\ jobsc' = jobsc + 1
    BY <1>2, SleepTyped DEF NotifyEpoch
  <2>2. IF Computes(slot) THEN slot.id = jobsc /\ jobsc # 1 ELSE jobsc = 1
    BY <1>0, <1>2 DEF NotifyEpoch, Numbered
  <2> QED
    BY <1>t, <2>1, <2>2 DEF Posted
<1>3. ASSUME Bump PROVE Posted' = Posted
  BY <1>0, <1>3, <1>t DEF Bump, Numbered, Posted
<1>4. ASSUME BuildDone PROVE Posted' > Posted /\ mine' = mine
  <2>1. Computes(slot') /\ slot'.id = jobsc /\ ~Computes(slot) /\ jobsc # 1
    BY <1>0, <1>4, <1>t DEF BuildDone, Slot, Numbered
  <2> QED
    BY <1>4, <1>t, <2>1 DEF BuildDone, workerVars, Posted
<1>5. CASE \/ UNCHANGED vars
           \/ \E w \in Workers : Load(w) \/ Clone(w) \/ Try(w)
  <2>1. slot' = slot /\ jobsc' = jobsc
    BY <1>5 DEF Load, Clone, Try, vars, netVars
  <2> QED
    BY <1>n, <2>1 DEF Posted
<1> QED
  BY <1>n, <1>1, <1>2, <1>3, <1>4, <1>5 DEF Next, NetThread, Worker

LEMMA EpochsStep == IInv /\ [Next]_vars => EpochsMatch'
<1> SUFFICES ASSUME IInv, [Next]_vars
             PROVE  EpochsMatch'
  OBVIOUS
<1> DEFINE Matches(s) == Computes(s) => s.data.epoch = DatasetEpoch(s.epoch)
<1>0. TypeOK /\ Matches(slot) /\ \A w \in Workers : Matches(mine[w])
  BY DEF IInv, EpochsMatch
<1> SUFFICES Matches(slot') /\ \A w \in Workers : Matches(mine'[w])
  BY DEF EpochsMatch
<1>1. ASSUME NEW e \in Epochs, NotifySame(e)
      PROVE  Matches(slot') /\ mine' = mine
  BY <1>0, <1>1 DEF NotifySame, Slot, Computes, workerVars
<1>2. ASSUME NEW e \in Epochs, NotifyEpoch(e)
      PROVE  Matches(slot') /\ mine' = mine
  BY <1>2, SleepTyped DEF NotifyEpoch, workerVars
<1>3. CASE Bump
  BY <1>0, <1>3 DEF Bump, workerVars
<1>4. CASE BuildDone
  BY <1>0, <1>4 DEF BuildDone, Slot, Dataset, workerVars
<1>5. ASSUME NEW w \in Workers, Load(w)
      PROVE  slot' = slot /\ \A u \in Workers : Matches(mine'[u])
  <2>1. slot' = slot /\ \A u \in Workers :
          mine'[u] = mine[u] \/ mine'[u] = [mine[u] EXCEPT !.data = NoDataset]
    BY <1>0, <1>5 DEF Load, netVars, TypeOK
  <2>2. \A u \in Workers : ~Computes([mine[u] EXCEPT !.data = NoDataset])
    BY <1>0, TakenTyped DEF TypeOK
  <2> QED
    BY <1>0, <2>1, <2>2
<1>6. ASSUME NEW w \in Workers, Clone(w)
      PROVE  slot' = slot /\ \A u \in Workers : Matches(mine'[u])
  <2>1. slot' = slot /\ \A u \in Workers : mine'[u] = mine[u] \/ mine'[u] = slot
    BY <1>0, <1>6 DEF Clone, netVars, TypeOK
  <2> QED
    BY <1>0, <2>1
<1>7. CASE UNCHANGED vars \/ \E w \in Workers : Try(w)
  BY <1>0, <1>7 DEF Try, vars, netVars, workerVars
<1> QED
  BY <1>0, <1>1, <1>2, <1>3, <1>4, <1>5, <1>6, <1>7 DEF Next, NetThread, Worker

LEMMA KnowsStep == IInv /\ [Next]_vars => \A w \in Workers : Knows(w)'
<1> SUFFICES ASSUME IInv, [Next]_vars, NEW w \in Workers
             PROVE  Knows(w)'
  OBVIOUS
<1> USE DEF Knows, Holds
<1>0. TypeOK /\ Numbered /\ Knows(w)
  BY DEF IInv
<1>p. Posted \in Nat /\ Posted' \in Nat /\ Posted' >= Posted
  BY PostedStep
<1>t. /\ jobsc \in Nat /\ jobsc >= 1 /\ idx2[w] \in Nat /\ jobIdx[w] \in Nat
      /\ mine[w].id \in Nat
  BY <1>0, SizeAssumption DEF TypeOK, SlotType
<1>1. ASSUME NEW e \in Epochs, NotifySame(e) PROVE Knows(w)'
  BY <1>0, <1>1, <1>p, <1>t DEF NotifySame, Slot, workerVars
<1>2. ASSUME NEW e \in Epochs, NotifyEpoch(e) PROVE Knows(w)'
  BY <1>0, <1>2, <1>p, <1>t DEF NotifyEpoch, workerVars
<1>3. CASE Bump
  BY <1>0, <1>3, <1>p, <1>t DEF Bump, workerVars
<1>4. CASE BuildDone
  BY <1>0, <1>4, <1>p, <1>t DEF BuildDone, workerVars
<1>5. ASSUME NEW u \in Workers, Load(u) PROVE Knows(w)'
  <2>1. UNCHANGED netVars /\ jobIdx' = jobIdx
    BY <1>5 DEF Load
  <2>2. CASE w = u
    <3>1. idx2'[w] = jobsc
      BY <1>0, <1>5, <2>2 DEF Load, TypeOK
    <3>2. CASE jobsc # jobIdx[w]
      <4>1. mine'[w] = [mine[w] EXCEPT !.data = NoDataset]
        BY <1>0, <1>5, <2>2, <3>2 DEF Load, TypeOK
      <4>2. ~Computes(mine'[w]) /\ mine'[w].id = mine[w].id
        BY <1>0, <4>1, TakenTyped DEF TypeOK
      <4>3. jobIdx[w] < jobsc
        BY <1>0, <1>t, <3>2
      <4> QED
        BY <1>0, <1>p, <1>t, <2>1, <3>1, <4>2, <4>3 DEF netVars
    <3>3. CASE jobsc = jobIdx[w]
      <4>1. mine' = mine /\ wpc'[w] = "try"
        BY <1>0, <1>5, <2>2, <3>3 DEF Load, TypeOK
      <4> QED
        BY <1>0, <1>p, <1>t, <2>1, <3>1, <4>1 DEF netVars
    <3> QED
      BY <3>2, <3>3
  <2>3. CASE w # u
    <3>1. idx2'[w] = idx2[w] /\ wpc'[w] = wpc[w] /\ mine'[w] = mine[w]
      BY <1>0, <1>5, <2>3 DEF Load, TypeOK
    <3> QED
      BY <1>0, <1>p, <1>t, <2>1, <3>1 DEF netVars
  <2> QED
    BY <2>2, <2>3
<1>6. ASSUME NEW u \in Workers, Clone(u) PROVE Knows(w)'
  <2>1. UNCHANGED netVars /\ idx2' = idx2 /\ npc = "idle"
    BY <1>6 DEF Clone, LockIsFree
  <2>2. CASE w = u
    <3>1. mine'[w] = slot /\ jobIdx'[w] = idx2[w] /\ wpc'[w] = "try"
      BY <1>0, <1>6, <2>2 DEF Clone, TypeOK
    <3>2. slot.id <= Posted'
      <4>1. Posted' = Posted
        BY <2>1 DEF Posted, netVars
      <4>2. slot.id \in Nat /\ (slot = Sleep => slot.id = 0)
        BY <1>0, SleepTyped DEF TypeOK, SlotType
      <4> QED
        BY <1>0, <1>p, <2>1, <4>1, <4>2 DEF Numbered, Posted
    <3> QED
      BY <1>0, <1>t, <2>1, <3>1, <3>2 DEF netVars
  <2>3. CASE w # u
    <3>1. mine'[w] = mine[w] /\ jobIdx'[w] = jobIdx[w] /\ wpc'[w] = wpc[w]
      BY <1>0, <1>6, <2>3 DEF Clone, TypeOK
    <3> QED
      BY <1>0, <1>p, <1>t, <2>1, <3>1 DEF netVars
  <2> QED
    BY <2>2, <2>3
<1>7. ASSUME NEW u \in Workers, Try(u) PROVE Knows(w)'
  <2>1. wpc'[w] = wpc[w] \/ wpc'[w] = "load"
    BY <1>0, <1>7 DEF Try, TypeOK
  <2>2. UNCHANGED <<netVars, idx2, jobIdx, mine>>
    BY <1>7 DEF Try
  <2> QED
    BY <1>0, <1>p, <1>t, <2>1, <2>2 DEF netVars
<1>8. CASE UNCHANGED vars
  BY <1>0, <1>8, <1>p, <1>t DEF vars, netVars, workerVars
<1> QED
  BY <1>1, <1>2, <1>3, <1>4, <1>5, <1>6, <1>7, <1>8 DEF Next, NetThread, Worker

LEMMA Invariant == Spec => []IInv
<1>1. IInv /\ [Next]_vars => IInv'
  BY TypeOKStep, NumberedStep, KnowsStep, EpochsStep DEF IInv
<1> QED
  BY InitIInv, <1>1, PTL DEF Spec

(***************************************************************************)
(* Theorems                                                                *)
(***************************************************************************)

\* Every reachable state of slot, counter and workers is well typed; above all
\* the counter moves by one for each job, in either order of bump and store.
THEOREM TypeCorrect == Spec => []TypeOK
<1>1. IInv => TypeOK
  BY DEF IInv
<1> QED
  BY Invariant, <1>1, PTL

\* Nobody computes a job with the dataset of another epoch (eth/mod.rs:76-82),
\* with any number of workers and any sequence of epochs.
THEOREM DatasetsMatch == Spec => []EpochsMatch
<1>1. IInv => EpochsMatch
  BY DEF IInv
<1> QED
  BY Invariant, <1>1, PTL

\* A worker that has seen the current counter mines the job in the slot, though
\* for a new epoch the counter moves first (eth/mod.rs:79-80).
THEOREM WorkersCurrent == Spec => []WorkerCurrent
<1>1. IInv => WorkerCurrent
  BY DEF IInv, Knows, WorkerCurrent, LockIsFree, Holds, Computes
<1> QED
  BY Invariant, <1>1, PTL

\* A worker that waits for the mutex holds no dataset, and one that has seen the
\* counter's value holds the slot's (eth/mod.rs:136-139).
THEOREM DatasetsReleased == Spec => []DatasetReleased
<1>1. IInv => DatasetReleased
  BY DEF IInv, Knows, DatasetReleased
<1> QED
  BY Invariant, <1>1, PTL

\* One step of the program, with the invariant, is a step of the board or none.
LEMMA BoardStep ==
  IInv /\ [Next]_vars =>
    \/ Posted' > Posted /\ Held' = Held
    \/ /\ Posted' = Posted
       /\ \E w \in Workers : Held[w] < Posted /\ Held' = [Held EXCEPT ![w] = Posted]
    \/ Posted' = Posted /\ Held' = Held
<1> SUFFICES ASSUME IInv, [Next]_vars,
                    ~(Posted' > Posted /\ mine' = mine),
                    ~(Posted' = Posted /\ Held' = Held)
             PROVE  /\ Posted' = Posted
                    /\ \E w \in Workers :
                         Held[w] < Posted /\ Held' = [Held EXCEPT ![w] = Posted]
  BY DEF Held
<1>0. TypeOK /\ Numbered /\ \A w \in Workers : Knows(w)
  BY DEF IInv
<1>1. Posted \in Nat /\ Posted' = Posted /\ Held' # Held
  BY PostedStep
<1>2. mine' # mine
  BY <1>1 DEF Held
<1>3. ~\E w \in Workers : Load(w)
  <2> SUFFICES ASSUME NEW w \in Workers, Load(w) PROVE Held' = Held
    BY <1>1
  <2>1. \A u \in Workers :
          mine'[u] = mine[u] \/ mine'[u] = [mine[u] EXCEPT !.data = NoDataset]
    BY <1>0 DEF Load, TypeOK
  <2>2. \A u \in Workers : [mine[u] EXCEPT !.data = NoDataset].id = mine[u].id
    BY <1>0, TakenTyped DEF TypeOK
  <2> QED
    BY <2>1, <2>2 DEF Held
<1>4. PICK w \in Workers : Clone(w)
  BY <1>2, <1>3
  DEF Next, NetThread, Worker, NotifySame, NotifyEpoch, Bump, BuildDone, Try,
      vars, workerVars
<1>5. mine'[w].id = Posted /\ \A u \in Workers \ {w} : mine'[u].id = mine[u].id
  BY <1>0, <1>4, SleepTyped DEF Clone, LockIsFree, Numbered, Posted, TypeOK
<1>6. Held' = [Held EXCEPT ![w] = Posted]
  BY <1>5 DEF Held
<1>7. Held[w] \in Nat /\ Held[w] <= Posted
  BY <1>0 DEF Held, Knows, TypeOK, SlotType
<1>8. Held[w] # Posted
  <2> SUFFICES ASSUME Held[w] = Posted PROVE Held' = Held
    BY <1>1
  <2> QED
    BY <1>6 DEF Held
<1>9. Held[w] < Posted
  BY <1>1, <1>7, <1>8
<1> QED
  BY <1>1, <1>6, <1>9

\* Handing jobs to the workers implements JobBoard, whether the counter moves
\* after the job is stored or, for a new epoch, before.
THEOREM BoardImplemented == Spec => ImplementsBoard
<1>1. Init => Board!BoardInit
  BY SleepTyped DEF Init, Board!BoardInit
<1>2. IInv /\ [Next]_vars => [Board!BoardNext]_(Board!board)
  BY BoardStep
  DEF Posted, Held, Board!BoardNext, Board!Post, Board!Adopt, Board!board
<1> QED
  BY Invariant, <1>1, <1>2, PTL DEF Spec, ImplementsBoard, Board!BoardSpec


(***************************************************************************)
(* Tasks and items                                                         *)
(***************************************************************************)

LEMMA NTaskTyped == NTask \in Nat \ {0} /\ Items \in Nat \ {0}
<1>1. Items \in Nat /\ Threads \in Nat \ {0} /\ Items >= Threads
  BY ItemsAssumption
<1> DEFINE q == Items \div Threads
<1>2. q \in Int /\ Items % Threads \in 0..(Threads - 1)
      /\ Items = q * Threads + (Items % Threads)
  BY <1>1, Euclid
<1> HIDE DEF q
<1>3. ASSUME q <= 0 PROVE q * Threads <= 0
  BY <1>1, <1>2, <1>3, SMT
<1>4. q * Threads \in Int
  BY <1>1, <1>2, SMT
<1>5. q > 0
  BY <1>1, <1>2, <1>3, <1>4
<1> QED
  BY <1>1, <1>2, <1>5 DEF NTask, q

\* An item is in the task and at the place that the division says.
LEMMA ItemPlace ==
  ASSUME NEW c \in Nat, NEW p \in 0..(NTask - 1)
  PROVE  /\ Item(c, p) \in Nat
         /\ Item(c, p) \div NTask = c /\ Item(c, p) % NTask = p
<1> DEFINE n == c * NTask + p
<1>1. NTask \in Nat \ {0} /\ c * NTask \in Nat
  BY NTaskTyped, SMT
<1>2. n \in Nat /\ c * NTask <= n /\ n < c * NTask + NTask
  <2> DEFINE a == c * NTask
  <2>1. a \in Nat
    BY <1>1
  <2> HIDE DEF a
  <2>2. a + p \in Nat /\ a <= a + p /\ a + p < a + NTask
    BY <1>1, <2>1
  <2> QED
    BY <2>2 DEF a
<1>3. n \div NTask = c
  <2> HIDE DEF n
  <2> QED
    BY <1>1, <1>2, DivUnique
<1>4. n % NTask = p
  <2>1. n = (n \div NTask) * NTask + (n % NTask) /\ n % NTask \in 0..(NTask - 1)
    <3> HIDE DEF n
    <3> QED
      BY <1>1, <1>2, Euclid
  <2>2. n = c * NTask + (n % NTask)
    BY <1>3, <2>1
  <2> DEFINE a == c * NTask
             r == n % NTask
  <2>3. a + p = a + r /\ a \in Nat /\ r \in 0..(NTask - 1)
    BY <1>1, <2>1, <2>2
  <2> HIDE DEF a, r
  <2>4. p = r
    BY <1>1, <2>3
  <2> QED
    BY <2>4 DEF r
<1> QED
  BY <1>2, <1>3, <1>4 DEF Item

\* ... and every item is in a task.
LEMMA PlaceOfItem ==
  ASSUME NEW i \in ItemIds
  PROVE  /\ i \div NTask \in Tasks /\ i % NTask \in 0..(NTask - 1)
         /\ i = Item(i \div NTask, i % NTask)
<1> DEFINE k == Items - 1
           q == i \div NTask
           m == k \div NTask
<1>1. NTask \in Nat \ {0} /\ k \in Nat /\ i \in Nat /\ i <= k
  BY NTaskTyped DEF ItemIds
<1>2. /\ q \in Int /\ i % NTask \in 0..(NTask - 1)
      /\ i = q * NTask + (i % NTask)
  BY <1>1, Euclid
<1>3. /\ m \in Int /\ k % NTask \in 0..(NTask - 1)
      /\ k = m * NTask + (k % NTask)
  <2> HIDE DEF k
  <2> QED
    BY <1>1, Euclid
<1> HIDE DEF k, q, m
<1>4. q >= 0
  <2>1. ASSUME q <= -1 PROVE q * NTask <= -NTask
    BY <1>1, <1>2, <2>1, SMT
  <2>2. q * NTask \in Int
    BY <1>1, <1>2, SMT
  <2> QED
    BY <1>1, <1>2, <2>1, <2>2
<1>5. q <= m
  <2>1. ASSUME q >= m + 1 PROVE q * NTask >= m * NTask + NTask
    <3>1. (m + 1) * NTask = m * NTask + NTask
      BY <1>1, <1>3, SMT
    <3>2. q * NTask >= (m + 1) * NTask
      BY <1>1, <1>2, <1>3, <2>1, SMT
    <3> QED
      BY <3>1, <3>2
  <2>2. q * NTask \in Int /\ m * NTask \in Int
    BY <1>1, <1>2, <1>3, SMT
  <2> QED
    BY <1>1, <1>2, <1>3, <2>1, <2>2
<1> QED
  BY <1>2, <1>3, <1>4, <1>5 DEF Tasks, Item, q, m, k

\* What a task's length means.
LEMMA LengthMeans ==
  ASSUME NEW c \in Tasks, NEW p \in Nat
  PROVE  /\ Length(c) \in Int /\ Length(c) <= NTask
         /\ p < Length(c) <=> p < NTask /\ Item(c, p) < Items
<1> DEFINE a == c * NTask
<1>1. NTask \in Nat \ {0} /\ Items \in Nat /\ c \in Nat
  <2>1. (Items - 1) \div NTask \in Int
    BY NTaskTyped, Euclid
  <2> QED
    BY <2>1, NTaskTyped DEF Tasks
<1>2. a \in Nat
  BY <1>1, SMT
<1>3. Length(c) = IF a + NTask <= Items THEN NTask ELSE Items - (a + 0)
  BY DEF Length, Item
<1>4. Item(c, p) = a + p
  BY DEF Item
<1> HIDE DEF a
<1> QED
  BY <1>1, <1>2, <1>3, <1>4

(***************************************************************************)
(* The invariant                                                           *)
(***************************************************************************)

\* Items are written in the order of their task, once.
Written ==
  \A i \in ItemIds :
    writes[i] = IF i % NTask < progress[i \div NTask] THEN 1 ELSE 0

Jobs == {slot} \cup {mine[w] : w \in Workers}

\* No dataset is newer than the last one begun, and that one is only in a job
\* when its tasks are done.
Built ==
  /\ next.id <= jobsc
  /\ \A s \in Jobs : Computes(s) => s.data.built <= next.id
  /\ npc = "build" => \A s \in Jobs : Computes(s) => s.data.built < next.id
  /\ next.id = 0 => \A s \in Jobs : ~Computes(s)
  /\ npc # "build" /\ next.id # 0 => TasksDone

BInv == BuildTypeOK /\ Written /\ Built

LEMMA InitBInv == BuildInit => BInv
<1> SUFFICES ASSUME BuildInit PROVE BInv
  OBVIOUS
<1>1. BuildTypeOK
  BY NTaskTyped DEF BuildInit, BuildTypeOK
<1>2. Written
  <2> SUFFICES ASSUME NEW i \in ItemIds
               PROVE  writes[i] = IF i % NTask < progress[i \div NTask] THEN 1 ELSE 0
    BY DEF Written
  <2>1. i % NTask \in 0..(NTask - 1) /\ i \div NTask \in Tasks
    BY PlaceOfItem
  <2>2. ~(i % NTask < 0)
    BY <2>1, NTaskTyped
  <2> QED
    BY <2>1, <2>2 DEF BuildInit
<1>3. Built
  BY SleepTyped DEF BuildInit, Init, Built, Jobs
<1> QED
  BY <1>1, <1>2, <1>3 DEF BInv

\* A new build: nothing is written.
LEMMA StartBuildStep ==
  ASSUME IInv, BInv, NEW e \in Epochs, StartBuild(e)
  PROVE  BInv'
<1>1. BuildTypeOK' /\ Written'
  <2>1. BuildTypeOK'
    BY NTaskTyped DEF StartBuild, BuildTypeOK
  <2>2. ASSUME NEW i \in ItemIds
        PROVE  writes'[i] = IF i % NTask < progress'[i \div NTask] THEN 1 ELSE 0
    <3>1. i % NTask \in 0..(NTask - 1) /\ i \div NTask \in Tasks
      BY PlaceOfItem
    <3>2. ~(i % NTask < 0)
      BY <3>1, NTaskTyped
    <3> QED
      BY <3>1, <3>2 DEF StartBuild
  <2> QED
    BY <2>1, <2>2 DEF Written
<1>2. Built'
  <2>1. /\ slot' = Sleep /\ UNCHANGED mine /\ npc' = "build"
        /\ next'.id = jobsc + 1 /\ jobsc' = jobsc + 1
    BY DEF StartBuild, NotifyEpoch, workerVars
  <2>2. jobsc \in Nat /\ next.id \in Nat /\ next.id <= jobsc
    BY SizeAssumption DEF IInv, TypeOK, BInv, Built
  <2>3. ASSUME NEW s \in Jobs', Computes(s)
        PROVE  s.data.built < next'.id
    <3>1. s \in Jobs /\ s \in SlotType
      BY <2>1, <2>3, SleepTyped DEF Jobs, IInv, TypeOK
    <3>2. s.data.built <= next.id /\ s.data.built \in Nat
      BY <2>3, <3>1, SizeAssumption DEF BInv, Built, SlotType
    <3> QED
      BY <2>1, <2>2, <3>2
  <2>4. \A s \in Jobs' : s.data.built < next'.id => s.data.built <= next'.id
    <3>1. \A s \in Jobs' : s \in SlotType
      BY <2>1, SleepTyped DEF Jobs, IInv, TypeOK
    <3>2. next'.id \in Int
      BY <2>1, <2>2
    <3> QED
      BY <3>1, <3>2 DEF SlotType
  <2>5. next'.id # 0 /\ next'.id <= jobsc'
    BY <2>1, <2>2
  <2> QED
    BY <2>1, <2>3, <2>4, <2>5 DEF Built
<1> QED
  BY <1>1, <1>2 DEF BInv

\* A thread writes its task's next item, and nobody else has or will.
LEMMA WriteItemStep ==
  ASSUME IInv, BInv, NEW c \in Tasks, WriteItem(c)
  PROVE  BInv'
<1> DEFINE p == progress[c]
           j == Item(c, p)
<1>1. /\ c \in Nat /\ NTask \in Nat \ {0} /\ p \in 0..NTask /\ Items \in Nat
  <2>1. (Items - 1) \div NTask \in Int
    BY NTaskTyped, Euclid
  <2> QED
    BY <2>1, NTaskTyped DEF Tasks, BInv, BuildTypeOK
<1>2. p \in Nat /\ p < Length(c)
  BY <1>1 DEF WriteItem
<1>3. p \in 0..(NTask - 1) /\ j < Items
  BY <1>1, <1>2, LengthMeans
<1>4. j \in ItemIds /\ j \div NTask = c /\ j % NTask = p
  BY <1>1, <1>3, ItemPlace DEF ItemIds
<1>5. /\ writes' = [writes EXCEPT ![j] = writes[j] + 1]
      /\ progress' = [progress EXCEPT ![c] = p + 1]
      /\ UNCHANGED vars
  BY DEF WriteItem
<1>6. BuildTypeOK'
  <2>1. p + 1 \in 0..NTask /\ writes[j] + 1 \in Nat
    BY <1>1, <1>3, <1>4 DEF BInv, BuildTypeOK
  <2> HIDE DEF p, j
  <2> QED
    BY <1>5, <2>1 DEF BInv, BuildTypeOK
<1>7. ASSUME NEW i \in ItemIds
      PROVE  writes'[i] = IF i % NTask < progress'[i \div NTask] THEN 1 ELSE 0
  <2>1. /\ i \div NTask \in Tasks /\ i % NTask \in 0..(NTask - 1)
        /\ i = Item(i \div NTask, i % NTask)
        /\ writes[i] = IF i % NTask < progress[i \div NTask] THEN 1 ELSE 0
    BY <1>7, PlaceOfItem DEF BInv, Written
  <2>2. CASE i = j
    <3>1. writes[j] = 0
      BY <1>1, <1>4, <2>1, <2>2
    <3>2. writes'[j] = 1 /\ progress'[c] = p + 1
      BY <1>4, <1>5, <3>1 DEF BInv, BuildTypeOK
    <3>3. p < p + 1
      BY <1>1
    <3> QED
      BY <1>4, <2>2, <3>2, <3>3
  <2>3. CASE i # j /\ i \div NTask # c
    <3>1. writes'[i] = writes[i] /\ progress'[i \div NTask] = progress[i \div NTask]
      BY <1>4, <1>5, <2>1, <2>3 DEF BInv, BuildTypeOK
    <3> QED
      BY <2>1, <3>1
  <2>4. CASE i # j /\ i \div NTask = c
    <3>1. writes'[i] = writes[i] /\ progress'[c] = p + 1
      BY <1>4, <1>5, <2>4 DEF BInv, BuildTypeOK
    <3>2. i % NTask # p
      BY <2>1, <2>4
    <3>3. i % NTask < p + 1 <=> i % NTask < p
      BY <1>1, <2>1, <3>2
    <3> QED
      BY <2>1, <2>4, <3>1, <3>3
  <2> QED
    BY <2>2, <2>3, <2>4
<1>8. Built'
  <2>1. npc = "build"
    BY DEF WriteItem
  <2> QED
    BY <1>5, <2>1 DEF BInv, Built, Jobs, vars, netVars, workerVars
<1> QED
  BY <1>6, <1>7, <1>8 DEF BInv, Written

\* The other steps write nothing.
LEMMA OtherSteps ==
  ASSUME IInv, BInv, EndBuild \/ Elsewhere
  PROVE  BInv'
<1>0. /\ TypeOK /\ Numbered /\ Built /\ jobsc \in Nat /\ next.id \in Nat
      /\ \A s \in Jobs : s \in SlotType
  BY SizeAssumption DEF IInv, BInv, TypeOK, Jobs
<1>1. UNCHANGED buildVars
  BY DEF EndBuild, Elsewhere
<1>2. BuildTypeOK' /\ Written' /\ TasksDone' = TasksDone
  BY <1>1 DEF buildVars, BInv, BuildTypeOK, Written, TasksDone
<1>3. CASE EndBuild
  <2>1. /\ npc = "build" /\ npc' = "idle" /\ TasksDone /\ UNCHANGED <<jobsc, next, mine>>
        /\ slot'.data.built = next.id
    BY <1>3 DEF EndBuild, BuildDone, Slot, Dataset, workerVars
  <2>2. next.id # 0
    BY <1>0, <2>1, SizeAssumption DEF Numbered, TypeOK
  <2>3. \A s \in Jobs' : s = slot' \/ s \in Jobs
    BY <2>1 DEF Jobs
  <2>4. Built'
    BY <1>0, <1>2, <2>1, <2>2, <2>3 DEF Built
  <2> QED
    BY <1>2, <2>4 DEF BInv
<1>4. ASSUME NEW e \in Epochs, NotifySame(e)
      PROVE  BInv'
  <2>1. /\ slot'.data = slot.data /\ Computes(slot) /\ npc = "idle" /\ npc' = "bump"
        /\ UNCHANGED <<jobsc, next, mine>>
    BY <1>4 DEF NotifySame, Slot, workerVars
  <2>2. /\ slot \in Jobs
        /\ \A s \in Jobs' : \/ s \in Jobs
                            \/ s.data = slot.data /\ (Computes(s) <=> Computes(slot))
    BY <2>1 DEF Jobs, Computes
  <2>3. Built'
    BY <1>0, <1>2, <2>1, <2>2 DEF Built
  <2> QED
    BY <1>2, <2>3 DEF BInv
<1>5. CASE Bump
  <2>1. /\ jobsc' = jobsc + 1 /\ npc = "bump" /\ npc' = "idle" /\ UNCHANGED <<slot, next, mine>>
    BY <1>5 DEF Bump, workerVars
  <2>2. Built'
    BY <1>0, <1>2, <2>1 DEF Built, Jobs
  <2> QED
    BY <1>2, <2>2 DEF BInv
<1>6. ASSUME NEW w \in Workers, Worker(w)
      PROVE  BInv'
  <2>1. UNCHANGED netVars
    BY <1>6 DEF Worker, Load, Clone, Try
  <2>2. \A s \in Jobs' : s \in Jobs \/ ~Computes(s)
    <3>1. CASE Load(w)
      <4>1. \/ mine' = mine
            \/ mine' = [mine EXCEPT ![w].data = NoDataset]
        BY <3>1 DEF Load
      <4>2. mine[w] \in SlotType /\ mine \in [Workers -> SlotType]
        BY <1>0 DEF TypeOK
      <4>3. ~Computes([mine[w] EXCEPT !.data = NoDataset])
        BY <4>2, TakenTyped
      <4> QED
        BY <2>1, <4>1, <4>2, <4>3 DEF Jobs, netVars
    <3>2. CASE Clone(w)
      <4>1. mine' = [mine EXCEPT ![w] = slot] /\ mine \in [Workers -> SlotType]
        BY <1>0, <3>2 DEF Clone, TypeOK
      <4> QED
        BY <2>1, <4>1 DEF Jobs, netVars
    <3>3. CASE Try(w)
      BY <3>3 DEF Try, Jobs, netVars
    <3> QED
      BY <1>6, <3>1, <3>2, <3>3 DEF Worker
  <2>3. Built'
    BY <1>0, <1>2, <2>1, <2>2 DEF Built, netVars
  <2> QED
    BY <1>2, <2>3 DEF BInv
<1> QED
  BY <1>3, <1>4, <1>5, <1>6 DEF Elsewhere

(***************************************************************************)
(* Theorems                                                                *)
(***************************************************************************)

\* A step of a build is one of EthMiner's or does not concern it.
LEMMA BuildStepMaps == [BuildNext]_allVars => [Next]_vars
  BY DEF BuildNext, StartBuild, WriteItem, EndBuild, Elsewhere, Next, NetThread,
     allVars

\* Filled in parallel under the mutex, a dataset is EthMiner's in one step, so
\* that all that is proved of EthMiner holds here (eth/mod.rs:76-95).
LEMMA EthImplemented == BuildSpec => Spec
<1>1. BuildInit => Init
  BY DEF BuildInit
<1> QED
  BY <1>1, BuildStepMaps, PTL DEF BuildSpec, Spec

LEMMA BuildInvariant == BuildSpec => [](IInv /\ BInv)
<1>1. BuildSpec => []IInv
  BY EthImplemented, Invariant, PTL
<1>2. IInv /\ BInv /\ [BuildNext]_allVars => BInv'
  <2> SUFFICES ASSUME IInv, BInv, [BuildNext]_allVars
               PROVE  BInv'
    OBVIOUS
  <2>1. CASE UNCHANGED allVars
    BY <2>1 DEF allVars, buildVars, vars, netVars, workerVars, BInv, BuildTypeOK,
       Written, Built, Jobs, TasksDone
  <2> QED
    BY <2>1, StartBuildStep, WriteItemStep, OtherSteps DEF BuildNext
<1> QED
  BY <1>1, <1>2, InitBInv, PTL DEF BuildSpec

\* No task runs out of its items, whatever is left over by the division.
THEOREM BuildTypeCorrect == BuildSpec => []BuildTypeOK
<1>1. BInv => BuildTypeOK
  BY DEF BInv
<1> QED
  BY BuildInvariant, <1>1, PTL

\* The tasks divide the items for every number of threads: no item is written
\* twice, and a dataset in a job has all of its items (eth/pow.rs:169-187).
LEMMA AllItemsWritten == BuildSpec => []ItemsWritten
<1>1. ASSUME IInv, BInv PROVE ItemsWritten
  <2>1. \A i \in ItemIds : writes[i] \in {0, 1}
    BY <1>1 DEF BInv, Written
  <2>2. ASSUME NEW s \in Jobs, Computes(s), s.data.built = next.id, NEW i \in ItemIds
        PROVE  writes[i] = 1
    <3>1. TasksDone
      <4>1. s.data.built \in Nat
        BY <1>1, SizeAssumption DEF Jobs, IInv, TypeOK, SlotType
      <4> QED
        BY <1>1, <2>2, <4>1 DEF BInv, Built
    <3>2. /\ i \div NTask \in Tasks /\ i % NTask \in 0..(NTask - 1)
          /\ i = Item(i \div NTask, i % NTask) /\ i < Items
      BY PlaceOfItem, NTaskTyped DEF ItemIds
    <3>3. i % NTask < Length(i \div NTask)
      BY <3>2, LengthMeans, NTaskTyped
    <3> QED
      BY <1>1, <3>1, <3>2, <3>3 DEF TasksDone, BInv, Written
  <2> QED
    BY <2>1, <2>2 DEF ItemsWritten, Jobs
<1> QED
  BY BuildInvariant, <1>1, PTL

\* Whoever computes has a dataset with all of its items and of the job's epoch
\* (eth/mod.rs:76-82, eth/pow.rs:169-187).
THEOREM DatasetsWhole == BuildSpec => []DatasetWhole
<1>1. BuildSpec => []EpochsMatch
  BY EthImplemented, DatasetsMatch, PTL
<1>2. EpochsMatch /\ ItemsWritten => DatasetWhole
  BY DEF DatasetWhole
<1> QED
  BY <1>1, <1>2, AllItemsWritten, PTL

=============================================================================
