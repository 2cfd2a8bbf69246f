------------------------------ MODULE KasProofs ------------------------------
(***************************************************************************)
(* Proofs about KasMiner for every number of workers, jobs and digits: the *)
(* worker's job is the slot's, no job is mined without its target, the     *)
(* hand-over of jobs implements JobBoard, and the workers' lanes stay      *)
(* apart when the nonces wrap.                                             *)
(***************************************************************************)
EXTENDS KasMiner, NumberLemmas, TLAPS

(***************************************************************************)
(* The invariant                                                           *)
(***************************************************************************)

\* The slot's job has the counter's number, or the next one while the counter
\* is about to be bumped; no worker is ahead of the counter.
Numbered ==
  /\ npc = "bump" => Computes(slot) /\ slot.id = jobsc + 1 /\ jobsc <= MaxJobs
  /\ npc # "bump" /\ Computes(slot) => slot.id = jobsc
  /\ \A w \in Workers : idx2[w] <= jobsc /\ jobIdx[w] <= jobsc

\* What a worker mines was in the slot, which holds a job ever since: a job that
\* has a target is never taken out of the slot.
Behind ==
  \A w \in Workers :
    \/ mine[w] = None
    \/ Holds(w) /\ Computes(slot) /\ mine[w].id <= slot.id

\* A job in the slot has a target, and the slot has the session's.
SlotTarget ==
  /\ Computes(slot) => slot.target # NoTarget
  /\ slot.kind = "sleep" /\ npc = "idle" => session.target = NoTarget

\* A worker is at one of the nonces of its lane.
InLane(w) ==
  \E k \in 0..MaxTries : nonce[w] = Plus(mine[w].nonce, w + k * NWorkers)

IInv ==
  /\ TypeOK /\ Numbered /\ Behind /\ WorkerCurrent
  /\ SlotTarget /\ TargetKnown
  /\ \A w \in Workers : Holds(w) => InLane(w)

LEMMA SpacePositive == Space \in Nat \ {0}
  BY SizeAssumption

\* u64 addition stays within 64 bits.
LEMMA PlusTyped == \A a, b \in Int : Plus(a, b) \in 0..(Space - 1)
  BY SpacePositive DEF Plus

LEMMA ParseTyped ==
  ASSUME NEW x \in Extranonces
  PROVE  x.n1 \in Nat /\ x.n1b \in 0..Digits /\ ParseNonce(x) \in 0..(Space - 1)
  BY ExtranonceAssumption DEF ParseNonce

LEMMA SleepTyped ==
  /\ Sleep \in SlotType /\ ~Computes(Sleep) /\ Sleep.id = 0
  /\ Sleep.kind = "sleep" /\ Sleep.target = NoTarget
<1>1. 0 \in 0..(MaxJobs + 1) /\ 0 \in 0..Digits /\ 0 \in 0..(Space - 1)
  BY SizeAssumption, SpacePositive
<1> QED
  BY <1>1 DEF Sleep, Slot, SlotType, Computes

LEMMA InitIInv == Init => IInv
<1> SUFFICES ASSUME Init PROVE IInv
  OBVIOUS
<1>1. TypeOK
  <2>1. 0 \in 0..(MaxJobs + 1) /\ 0 \in 0..Digits /\ 0 \in 0..(Space - 1)
        /\ 1 \in 1..(MaxJobs + 1)
    BY SizeAssumption, SpacePositive
  <2> QED
    BY <2>1, SleepTyped DEF Init, TypeOK, None
<1>2. Numbered /\ Behind /\ WorkerCurrent
  BY SleepTyped DEF Init, Numbered, Behind, WorkerCurrent, None
<1>3. \A w \in Workers : ~Holds(w)
  BY SleepTyped DEF Init, Holds, None
<1>4. SlotTarget /\ TargetKnown
  BY <1>3, SleepTyped DEF Init, SlotTarget, TargetKnown
<1> QED
  BY <1>1, <1>2, <1>3, <1>4 DEF IInv

\* The job that notify stores.
LEMMA NewJobTyped ==
  ASSUME TypeOK, jobsc <= MaxJobs, NEW r \in 0..RandMax
  PROVE  /\ NewJob(r) \in SlotType /\ Computes(NewJob(r))
         /\ NewJob(r).kind = "compute"
         /\ NewJob(r).id = jobsc + 1 /\ NewJob(r).target = slot.target
<1>1. JobNonce(r) \in 0..(Space - 1)
  <2>1. slot.nonce \in Int /\ r \in Int
    BY SpacePositive, SizeAssumption DEF TypeOK, SlotType
  <2>2. 0 \in 0..(Space - 1)
    BY SpacePositive
  <2> QED
    BY <2>1, <2>2, PlusTyped DEF JobNonce
<1>2. jobsc + 1 \in 0..(MaxJobs + 1)
  BY SizeAssumption DEF TypeOK
<1> QED
  BY <1>1, <1>2 DEF NewJob, Slot, SlotType, Computes, TypeOK

\* Difficulty and extranonce change the slot in place: what they leave is typed,
\* holds a job if there was one, and the same.
LEMMA SlotInPlace ==
  ASSUME TypeOK
  PROVE  /\ \A t \in Targets : SetTarget(t) =>
              /\ slot' \in SlotType /\ Computes(slot') = Computes(slot)
              /\ Computes(slot) => slot'.id = slot.id
              /\ slot'.kind # "sleep" /\ slot'.target = t
         /\ \A x \in Extranonces : SetExtranonce(x) =>
              /\ slot' \in SlotType /\ Computes(slot') = Computes(slot)
              /\ Computes(slot) => slot'.id = slot.id
              /\ slot'.kind # "sleep"
              /\ slot'.target = IF slot.kind = "sleep" THEN NoTarget ELSE slot.target
<1>1. 0 \in 0..(MaxJobs + 1) /\ 0 \in 0..Digits /\ 0 \in 0..(Space - 1)
  BY SizeAssumption, SpacePositive
<1>2. ASSUME NEW t \in Targets, SetTarget(t)
      PROVE  /\ slot' \in SlotType /\ Computes(slot') = Computes(slot)
             /\ Computes(slot) => slot'.id = slot.id
             /\ slot'.kind # "sleep" /\ slot'.target = t
  BY <1>1, <1>2 DEF SetTarget, Slot, SlotType, Computes, TypeOK
<1>3. ASSUME NEW x \in Extranonces, SetExtranonce(x)
      PROVE  /\ slot' \in SlotType /\ Computes(slot') = Computes(slot)
             /\ Computes(slot) => slot'.id = slot.id
             /\ slot'.kind # "sleep"
             /\ slot'.target = IF slot.kind = "sleep" THEN NoTarget ELSE slot.target
  BY <1>1, <1>3, ParseTyped DEF SetExtranonce, Slot, SlotType, Computes, TypeOK
<1> QED
  BY <1>2, <1>3

\* A worker's nonces stay within 64 bits.
LEMMA NoncesTyped ==
  ASSUME TypeOK, NEW w \in Workers
  PROVE  /\ FirstNonce(w, slot) \in 0..(Space - 1)
         /\ NextNonce(w) \in 0..(Space - 1)
<1>1. w \in Int /\ NWorkers \in Int
  BY SizeAssumption DEF Workers
<1>2. \A s \in SlotType : FirstNonce(w, s) \in 0..(Space - 1)
  <2>1. \A s \in SlotType : s.nonce \in Int
    BY SpacePositive DEF SlotType
  <2> QED
    BY <1>1, <2>1, PlusTyped DEF FirstNonce
<1>3. nonce[w] \in Int /\ mine[w] \in SlotType /\ slot \in SlotType
  BY SpacePositive DEF TypeOK
<1>4. Plus(nonce[w], NWorkers) \in 0..(Space - 1)
  BY <1>1, <1>3, PlusTyped
<1> QED
  BY <1>2, <1>3, <1>4 DEF NextNonce

LEMMA TypeOKStep == IInv /\ [Next]_vars => TypeOK'
<1> SUFFICES ASSUME IInv, [Next]_vars
             PROVE  TypeOK'
  OBVIOUS
<1> USE DEF TypeOK
<1>0. TypeOK
  BY DEF IInv
<1>1. ASSUME NEW r \in 0..RandMax, Notify(r) PROVE TypeOK'
  BY <1>0, <1>1, NewJobTyped DEF Notify, workerVars
<1>2. CASE Bump
  <2>1. jobsc + 1 \in 1..(MaxJobs + 1)
    BY <1>0, <1>2, SizeAssumption DEF IInv, Numbered, Bump
  <2> QED
    BY <1>0, <1>2, <2>1 DEF Bump, workerVars
<1>3. CASE NotifyFatal \/ ParamsFatal
  BY <1>0, <1>3, SleepTyped DEF NotifyFatal, ParamsFatal, workerVars
<1>4. ASSUME NEW t \in Targets, SetTarget(t) PROVE TypeOK'
  <2>1. slot' \in SlotType
    BY <1>0, <1>4, SlotInPlace
  <2> QED
    BY <1>0, <1>4, <2>1 DEF SetTarget, workerVars
<1>5. ASSUME NEW x \in Extranonces, SetExtranonce(x) PROVE TypeOK'
  <2>1. slot' \in SlotType
    BY <1>0, <1>5, SlotInPlace
  <2>2. x.n1 \in Nat /\ x.n1b \in 0..Digits
    BY ParseTyped
  <2> QED
    BY <1>0, <1>5, <2>1, <2>2 DEF SetExtranonce, workerVars
<1>6. ASSUME NEW w \in Workers, Load(w) PROVE TypeOK'
  <2>1. jobsc \in 0..(MaxJobs + 1)
    BY <1>0, SizeAssumption
  <2> QED
    BY <1>0, <1>6, <2>1 DEF Load, netVars
<1>7. ASSUME NEW w \in Workers, Clone(w) PROVE TypeOK'
  BY <1>0, <1>7, NoncesTyped, SleepTyped DEF Clone, netVars, None
<1>8. ASSUME NEW w \in Workers, Try(w) PROVE TypeOK'
  BY <1>0, <1>8, NoncesTyped DEF Try, netVars
<1>9. CASE UNCHANGED vars
  BY <1>0, <1>9 DEF vars, netVars, workerVars
<1> QED
  BY <1>1, <1>2, <1>3, <1>4, <1>5, <1>6, <1>7, <1>8, <1>9
  DEF Next, NetThread, Worker

\* A fatal message takes no job out of the slot: where there is one, there is a
\* target, and notify is not fatal.
LEMMA FatalKeepsJob ==
  ASSUME IInv, NotifyFatal \/ ParamsFatal
  PROVE  /\ Computes(slot) = Computes(slot') /\ (Computes(slot) => slot' = slot)
         /\ npc = "idle" /\ npc' = "dead" /\ UNCHANGED <<jobsc, session, workerVars>>
  BY SleepTyped DEF IInv, SlotTarget, NotifyFatal, ParamsFatal, Computes

\* The counter, the slot and the workers move on together.
LEMMA JobsStep == IInv /\ [Next]_vars => Numbered' /\ Behind' /\ WorkerCurrent'
<1> SUFFICES ASSUME IInv, [Next]_vars
             PROVE  Numbered' /\ Behind' /\ WorkerCurrent'
  OBVIOUS
<1> USE DEF Numbered, Behind, WorkerCurrent, Holds
<1>0. TypeOK /\ Numbered /\ Behind /\ WorkerCurrent
  BY DEF IInv
<1>t. /\ jobsc \in Nat /\ MaxJobs \in Nat
      /\ \A w \in Workers : idx2[w] \in Nat /\ jobIdx[w] \in Nat
      /\ slot.id \in Nat /\ \A w \in Workers : mine[w].id \in Nat
  BY <1>0, SizeAssumption DEF TypeOK, SlotType
<1>1. ASSUME NEW r \in 0..RandMax, Notify(r)
      PROVE  Numbered' /\ Behind' /\ WorkerCurrent'
  <2>1. /\ jobsc <= MaxJobs
        /\ Computes(slot') /\ slot'.id = jobsc + 1 /\ npc' = "bump"
    BY <1>0, <1>1, <1>t, NewJobTyped DEF Notify
  <2>2. Computes(slot) => slot.id = jobsc
    BY <1>0, <1>1 DEF Notify
  <2> QED
    BY <1>0, <1>1, <1>t, <2>1, <2>2 DEF Notify, workerVars
<1>2. CASE Bump
  BY <1>0, <1>2, <1>t DEF Bump, workerVars
<1>3. CASE NotifyFatal \/ ParamsFatal
  BY <1>0, <1>3, FatalKeepsJob DEF workerVars
<1>4. ASSUME NEW t \in Targets, SetTarget(t)
      PROVE  Numbered' /\ Behind' /\ WorkerCurrent'
  <2>1. Computes(slot') = Computes(slot) /\ (Computes(slot) => slot'.id = slot.id)
    BY <1>0, <1>4, SlotInPlace
  <2> QED
    BY <1>0, <1>4, <2>1 DEF SetTarget, workerVars
<1>5. ASSUME NEW x \in Extranonces, SetExtranonce(x)
      PROVE  Numbered' /\ Behind' /\ WorkerCurrent'
  <2>1. Computes(slot') = Computes(slot) /\ (Computes(slot) => slot'.id = slot.id)
    BY <1>0, <1>5, SlotInPlace
  <2> QED
    BY <1>0, <1>5, <2>1 DEF SetExtranonce, workerVars
<1>6. ASSUME NEW w \in Workers, Load(w)
      PROVE  Numbered' /\ Behind' /\ WorkerCurrent'
  BY <1>0, <1>6, <1>t DEF Load, netVars, TypeOK
<1>7. ASSUME NEW w \in Workers, Clone(w)
      PROVE  Numbered' /\ Behind' /\ WorkerCurrent'
  <2>1. /\ mine'[w] = IF Computes(slot) THEN slot ELSE None
        /\ jobIdx'[w] = idx2[w]
        /\ \A u \in Workers \ {w} : mine'[u] = mine[u] /\ jobIdx'[u] = jobIdx[u]
        /\ UNCHANGED <<slot, jobsc, npc, idx2>>
    BY <1>0, <1>7 DEF Clone, netVars, TypeOK
  <2>2. ~Computes(None)
    BY SleepTyped DEF None
  <2> QED
    BY <1>0, <1>t, <2>1, <2>2 DEF Computes
<1>8. ASSUME NEW w \in Workers, Try(w)
      PROVE  Numbered' /\ Behind' /\ WorkerCurrent'
  BY <1>0, <1>8 DEF Try, netVars
<1>9. CASE UNCHANGED vars
  BY <1>0, <1>9 DEF vars, netVars, workerVars
<1> QED
  BY <1>1, <1>2, <1>3, <1>4, <1>5, <1>6, <1>7, <1>8, <1>9
  DEF Next, NetThread, Worker

\* The target of the slot is the session's, and goes with the job to the workers.
LEMMA TargetStep == IInv /\ [Next]_vars => SlotTarget' /\ TargetKnown'
<1> SUFFICES ASSUME IInv, [Next]_vars
             PROVE  SlotTarget' /\ TargetKnown'
  OBVIOUS
<1> USE DEF SlotTarget, TargetKnown, Holds
<1>0. TypeOK /\ SlotTarget /\ TargetKnown
  BY DEF IInv
<1>1. ASSUME NEW r \in 0..RandMax, Notify(r)
      PROVE  SlotTarget' /\ TargetKnown'
  <2>1. slot'.kind = "compute" /\ slot'.target = slot.target
    BY <1>0, <1>1, NewJobTyped DEF Notify
  <2> QED
    BY <1>0, <1>1, <2>1 DEF Notify, workerVars
<1>2. CASE Bump
  BY <1>0, <1>2, SleepTyped DEF Bump, workerVars, IInv, Numbered, Computes
<1>3. CASE NotifyFatal \/ ParamsFatal
  <2>1. slot' = slot \/ slot' = Sleep
    BY <1>3 DEF NotifyFatal, ParamsFatal
  <2>2. npc' = "dead" /\ UNCHANGED <<session, mine>>
    BY <1>3 DEF NotifyFatal, ParamsFatal, workerVars
  <2> QED
    BY <1>0, <2>1, <2>2, SleepTyped
<1>4. ASSUME NEW t \in Targets, SetTarget(t)
      PROVE  SlotTarget' /\ TargetKnown'
  <2>1. slot'.kind # "sleep" /\ slot'.target = t /\ t # NoTarget
    BY <1>0, <1>4, SlotInPlace, SizeAssumption
  <2>2. session'.target = t
    BY <1>0, <1>4 DEF SetTarget, TypeOK
  <2> QED
    BY <1>0, <1>4, <2>1, <2>2 DEF SetTarget, workerVars
<1>5. ASSUME NEW x \in Extranonces, SetExtranonce(x)
      PROVE  SlotTarget' /\ TargetKnown'
  <2>1. /\ slot'.kind # "sleep" /\ Computes(slot') = Computes(slot)
        /\ slot'.target = IF slot.kind = "sleep" THEN NoTarget ELSE slot.target
    BY <1>0, <1>5, SlotInPlace
  <2>2. session'.target = session.target /\ npc = "idle"
    BY <1>0, <1>5 DEF SetExtranonce, TypeOK
  <2> QED
    BY <1>0, <1>5, <2>1, <2>2 DEF SetExtranonce, workerVars, Computes
<1>6. ASSUME NEW w \in Workers, Load(w) \/ Try(w)
      PROVE  SlotTarget' /\ TargetKnown'
  BY <1>0, <1>6 DEF Load, Try, netVars
<1>7. ASSUME NEW w \in Workers, Clone(w)
      PROVE  SlotTarget' /\ TargetKnown'
  <2>1. /\ mine'[w] = IF Computes(slot) THEN slot ELSE None
        /\ \A u \in Workers \ {w} : mine'[u] = mine[u]
        /\ UNCHANGED <<slot, npc, session>>
    BY <1>0, <1>7 DEF Clone, netVars, TypeOK
  <2> QED
    BY <1>0, <2>1, SleepTyped DEF None
<1>8. CASE UNCHANGED vars
  BY <1>0, <1>8 DEF vars, netVars, workerVars
<1> QED
  BY <1>1, <1>2, <1>3, <1>4, <1>5, <1>6, <1>7, <1>8 DEF Next, NetThread, Worker

(***************************************************************************)
(* Lanes                                                                   *)
(***************************************************************************)

\* A lane does not go round: what a worker adds stays below Space.
LEMMA LaneRoom ==
  ASSUME NEW w \in Workers, NEW k \in 0..MaxTries
  PROVE  /\ NWorkers \in Nat \ {0} /\ w \in Nat /\ k * NWorkers \in Nat
         /\ w + k * NWorkers + NWorkers < Space
<1>1. NWorkers \in Nat \ {0} /\ MaxTries \in Nat /\ w \in 0..(NWorkers - 1)
  BY SizeAssumption DEF Workers
<1> DEFINE a == k * NWorkers
           b == MaxTries * NWorkers
           e == NWorkers * (MaxTries + 2)
<1>2. a \in Nat /\ a <= b /\ b \in Nat
  BY <1>1, SMT
<1>3. e = b + NWorkers + NWorkers
  BY <1>1, SMT
<1>4. e < Space
  BY RoomAssumption
<1> HIDE DEF a, b, e
<1>5. w + a + NWorkers < Space
  BY <1>1, <1>2, <1>3, <1>4, SpacePositive
<1> QED
  BY <1>1, <1>2, <1>5 DEF a

\* Adding in two steps is adding once, and what was added can be read off.
LEMMA PlusPlus ==
  ASSUME NEW n \in 0..(Space - 1), NEW a \in Nat, NEW b \in Nat, a + b < Space
  PROVE  /\ Plus(Plus(n, a), b) = Plus(n, a + b)
         /\ (Plus(n, a) - n) % Space = a
  BY SpacePositive, Wrapped DEF Plus

\* A worker that tries a nonce of its lane goes on to one of its lane.
LEMMA LaneKept ==
  ASSUME TypeOK, NEW w \in Workers, InLane(w)
  PROVE  \E k \in 0..MaxTries : NextNonce(w) = Plus(mine[w].nonce, w + k * NWorkers)
<1> DEFINE n == mine[w].nonce
<1>1. PICK k \in 0..MaxTries : nonce[w] = Plus(n, w + k * NWorkers)
  BY DEF InLane
<1>t. n \in 0..(Space - 1) /\ MaxTries \in Nat
  BY SizeAssumption DEF TypeOK, SlotType
<1> HIDE DEF n
<1>2. CASE NextNonce(w) = FirstNonce(w, mine[w])
  <2>1. 0 \in 0..MaxTries /\ 0 * NWorkers = 0 /\ w + 0 * NWorkers = w
    BY <1>t, LaneRoom, SMT
  <2>2. NextNonce(w) = Plus(n, w + 0 * NWorkers)
    BY <1>2, <2>1 DEF FirstNonce, n
  <2> QED
    BY <2>1, <2>2 DEF n
<1>3. CASE NextNonce(w) # FirstNonce(w, mine[w])
  <2>1. /\ nonce[w] # Plus(Plus(n, w), MaxTries * NWorkers)
        /\ NextNonce(w) = Plus(nonce[w], NWorkers)
    BY <1>3 DEF NextNonce, FirstNonce, n
  <2>2. Plus(Plus(n, w), MaxTries * NWorkers) = Plus(n, w + MaxTries * NWorkers)
    <3> DEFINE b == MaxTries * NWorkers
    <3>1. NWorkers \in Nat /\ w \in Nat /\ b \in Nat /\ w + b + NWorkers < Space
      <4>1. MaxTries \in 0..MaxTries
        BY <1>t
      <4> QED
        BY <4>1, LaneRoom
    <3> HIDE DEF b
    <3>2. Plus(Plus(n, w), b) = Plus(n, w + b)
      <4>1. w + b < Space
        BY <3>1, SpacePositive
      <4> QED
        BY <4>1, <3>1, <1>t, PlusPlus
    <3> QED
      BY <3>2 DEF b
  <2>3. k + 1 \in 0..MaxTries
    BY <1>1, <1>t, <2>1, <2>2
  <2>4. Plus(nonce[w], NWorkers) = Plus(n, w + (k + 1) * NWorkers)
    <3> DEFINE a == k * NWorkers
               b == (k + 1) * NWorkers
    <3>1. /\ NWorkers \in Nat /\ w \in Nat /\ a \in Nat
          /\ w + a + NWorkers < Space
      BY LaneRoom
    <3>2. b = a + NWorkers
      BY <3>1, SMT
    <3>3. nonce[w] = Plus(n, w + a)
      BY <1>1
    <3> HIDE DEF a, b
    <3>4. Plus(Plus(n, w + a), NWorkers) = Plus(n, (w + a) + NWorkers)
      <4>1. w + a \in Nat
        BY <3>1
      <4> QED
        BY <4>1, <3>1, <1>t, PlusPlus
    <3>5. (w + a) + NWorkers = w + b
      BY <3>1, <3>2
    <3>6. Plus(nonce[w], NWorkers) = Plus(n, w + b)
      BY <3>3, <3>4, <3>5
    <3> QED
      BY <3>6 DEF b
  <2> QED
    BY <2>1, <2>3, <2>4 DEF n
<1> QED
  BY <1>2, <1>3

LEMMA LanesStep ==
  IInv /\ [Next]_vars => \A w \in Workers : Holds(w)' => InLane(w)'
<1> SUFFICES ASSUME IInv, [Next]_vars, NEW w \in Workers, Holds(w)'
             PROVE  InLane(w)'
  OBVIOUS
<1>0. TypeOK /\ (Holds(w) => InLane(w))
  BY DEF IInv
<1>1. CASE UNCHANGED <<mine, nonce>>
  BY <1>0, <1>1 DEF Holds, InLane
<1>2. ASSUME NEW u \in Workers, u # w, Clone(u) \/ Try(u)
      PROVE  InLane(w)'
  <2>1. mine'[w] = mine[w] /\ nonce'[w] = nonce[w]
    BY <1>0, <1>2 DEF Clone, Try, TypeOK
  <2> QED
    BY <1>0, <2>1 DEF Holds, InLane
<1>3. CASE Clone(w)
  <2>1. /\ mine'[w] = IF Computes(slot) THEN slot ELSE None
        /\ nonce'[w] = IF Computes(slot) THEN FirstNonce(w, slot) ELSE nonce[w]
    BY <1>0, <1>3 DEF Clone, TypeOK
  <2>2. Computes(slot) /\ mine'[w] = slot /\ nonce'[w] = Plus(slot.nonce, w)
    BY <2>1, SleepTyped DEF Holds, None, FirstNonce
  <2>3. 0 \in 0..MaxTries /\ w + 0 * NWorkers = w
    BY LaneRoom, SizeAssumption, SMT
  <2> QED
    BY <2>2, <2>3 DEF InLane
<1>4. CASE Try(w)
  <2>1. /\ mine' = mine
        /\ nonce'[w] = IF Holds(w) THEN NextNonce(w) ELSE nonce[w]
    BY <1>0, <1>4 DEF Try, TypeOK
  <2>2. Holds(w) /\ InLane(w)
    BY <1>0, <2>1 DEF Holds
  <2> QED
    BY <1>0, <2>1, <2>2, LaneKept DEF InLane
<1>5. CASE NetThread
  BY <1>1, <1>5 DEF NetThread, Notify, Bump, NotifyFatal, ParamsFatal,
     SetTarget, SetExtranonce, workerVars
<1>6. ASSUME NEW u \in Workers, Load(u) PROVE InLane(w)'
  BY <1>1, <1>6 DEF Load
<1>7. CASE UNCHANGED vars
  BY <1>1, <1>7 DEF vars, workerVars
<1> QED
  BY <1>2, <1>3, <1>4, <1>5, <1>6, <1>7 DEF Next, Worker

LEMMA Invariant == Spec => []IInv
<1>1. IInv /\ [Next]_vars => IInv'
  BY TypeOKStep, JobsStep, TargetStep, LanesStep DEF IInv
<1> QED
  BY InitIInv, <1>1, PTL DEF Spec

(***************************************************************************)
(* Theorems                                                                *)
(***************************************************************************)

\* Every reachable state is well typed; above all no nonce exceeds its bits.
THEOREM TypeCorrect == Spec => []TypeOK
<1>1. IInv => TypeOK
  BY DEF IInv
<1> QED
  BY Invariant, <1>1, PTL

\* A worker that has seen the current counter mines the job in the slot
\* (kas/mod.rs:89-91 and 164-179), with any number of workers and jobs.
THEOREM WorkersCurrent == Spec => []WorkerCurrent
<1>1. IInv => WorkerCurrent
  BY DEF IInv
<1> QED
  BY Invariant, <1>1, PTL

\* No job is mined without a target, and the slot has the one the pool set last,
\* whatever the order of difficulty, extranonce and jobs (kas/mod.rs:66-117).
THEOREM TargetsKnown == Spec => []TargetKnown
<1>1. IInv => TargetKnown
  BY DEF IInv
<1> QED
  BY Invariant, <1>1, PTL

\* Two workers on the same clone of a job never meet at a nonce, also when the
\* nonces wrap (kas/mod.rs:176 and 195).
THEOREM LanesApart == Spec => []LanesDisjoint
<1>1. ASSUME IInv PROVE LanesDisjoint
  <2>1. SUFFICES ASSUME NEW u \in Workers, NEW v \in Workers,
                        u # v, Holds(u), Holds(v)
                 PROVE  (Offset(u) - Offset(v)) % NWorkers # 0
    BY DEF LanesDisjoint
  <2>2. ASSUME NEW w \in Workers, Holds(w)
        PROVE  \E k \in 0..MaxTries : Offset(w) = w + k * NWorkers
    <3>1. PICK k \in 0..MaxTries : nonce[w] = Plus(mine[w].nonce, w + k * NWorkers)
      BY <1>1, <2>2 DEF IInv, InLane
    <3> DEFINE a == k * NWorkers
    <3>2. w \in Nat /\ a \in Nat /\ NWorkers \in Nat /\ w + a + NWorkers < Space
      BY LaneRoom
    <3>3. mine[w].nonce \in 0..(Space - 1)
      BY <1>1 DEF IInv, TypeOK, SlotType
    <3>4. nonce[w] = Plus(mine[w].nonce, w + a)
      BY <3>1
    <3> HIDE DEF a
    <3>5. w + a \in Nat /\ (w + a) + 0 < Space /\ 0 \in Nat
      BY <3>2, SpacePositive
    <3>6. Offset(w) = w + a
      BY <3>3, <3>4, <3>5, PlusPlus DEF Offset
    <3> QED
      BY <3>6 DEF a
  <2>3. PICK i \in 0..MaxTries : Offset(u) = u + i * NWorkers
    BY <2>1, <2>2
  <2>4. PICK j \in 0..MaxTries : Offset(v) = v + j * NWorkers
    BY <2>1, <2>2
  <2>5. /\ NWorkers \in Nat \ {0} /\ u \in 0..(NWorkers - 1) /\ v \in 0..(NWorkers - 1)
        /\ i \in Nat /\ j \in Nat
    BY SizeAssumption DEF Workers
  <2>6. i * NWorkers \in Nat /\ j * NWorkers \in Nat
        /\ (i - j) * NWorkers = i * NWorkers - j * NWorkers
    BY <2>5, SMT
  <2>7. Offset(u) - Offset(v) = (u - v) + (i - j) * NWorkers
    <3> DEFINE a == i * NWorkers
               b == j * NWorkers
               c == (i - j) * NWorkers
    <3>1. /\ a \in Nat /\ b \in Nat /\ c = a - b
          /\ Offset(u) = u + a /\ Offset(v) = v + b
      BY <2>3, <2>4, <2>6
    <3> HIDE DEF a, b, c
    <3>2. Offset(u) - Offset(v) = (u - v) + c
      BY <2>5, <3>1
    <3> QED
      BY <3>2 DEF c
  <2>8. /\ u - v \in Int /\ u - v # 0 /\ -NWorkers < u - v /\ u - v < NWorkers
        /\ i - j \in Int
    BY <2>1, <2>5
  <2>9. ((u - v) + (i - j) * NWorkers) % NWorkers # 0
    BY <2>5, <2>8, RestNotZero
  <2> QED
    BY <2>7, <2>9
<1> QED
  BY Invariant, <1>1, PTL

(***************************************************************************)
(* Refinement                                                              *)
(***************************************************************************)

Posted == IF Computes(slot) THEN slot.id ELSE 0
Held   == [w \in Workers |-> mine[w].id]

\* One step of the program, with the invariant, is a step of the board or none.
LEMMA BoardStep ==
  IInv /\ [Next]_vars =>
    \/ Posted' > Posted /\ Held' = Held
    \/ /\ Posted' = Posted
       /\ \E w \in Workers : Held[w] < Posted /\ Held' = [Held EXCEPT ![w] = Posted]
    \/ Posted' = Posted /\ Held' = Held
<1> SUFFICES ASSUME IInv, [Next]_vars
             PROVE  \/ Posted' > Posted /\ Held' = Held
                    \/ /\ Posted' = Posted
                       /\ \E w \in Workers :
                            Held[w] < Posted /\ Held' = [Held EXCEPT ![w] = Posted]
                    \/ Posted' = Posted /\ Held' = Held
  OBVIOUS
<1>0. TypeOK /\ Numbered /\ Behind
  BY DEF IInv
<1>t. /\ jobsc \in Nat /\ jobsc >= 1 /\ MaxJobs \in Nat
      /\ slot.id \in Nat /\ \A w \in Workers : mine[w].id \in Nat
  BY <1>0, SizeAssumption DEF TypeOK, SlotType
<1>1. ASSUME NEW r \in 0..RandMax, Notify(r)
      PROVE  Posted' > Posted /\ Held' = Held
  <2>1. Computes(slot') /\ slot'.id = jobsc + 1
    BY <1>0, <1>1, NewJobTyped DEF Notify
  <2>2. Computes(slot) => slot.id = jobsc
    BY <1>0, <1>1 DEF Notify, Numbered
  <2> QED
    BY <1>1, <1>t, <2>1, <2>2 DEF Notify, workerVars, Posted, Held
<1>2. CASE Bump
  BY <1>2 DEF Bump, workerVars, Posted, Held
<1>3. CASE NotifyFatal \/ ParamsFatal
  BY <1>3, FatalKeepsJob DEF workerVars, Posted, Held
<1>4. ASSUME NEW t \in Targets, SetTarget(t)
      PROVE  Posted' = Posted /\ Held' = Held
  <2>1. Computes(slot') = Computes(slot) /\ (Computes(slot) => slot'.id = slot.id)
    BY <1>0, <1>4, SlotInPlace
  <2> QED
    BY <1>4, <2>1 DEF SetTarget, workerVars, Posted, Held
<1>5. ASSUME NEW x \in Extranonces, SetExtranonce(x)
      PROVE  Posted' = Posted /\ Held' = Held
  <2>1. Computes(slot') = Computes(slot) /\ (Computes(slot) => slot'.id = slot.id)
    BY <1>0, <1>5, SlotInPlace
  <2> QED
    BY <1>5, <2>1 DEF SetExtranonce, workerVars, Posted, Held
<1>6. ASSUME NEW w \in Workers, Load(w) \/ Try(w)
      PROVE  Posted' = Posted /\ Held' = Held
  BY <1>6 DEF Load, Try, netVars, Posted, Held
<1>7. ASSUME NEW w \in Workers, Clone(w)
      PROVE  /\ Posted' = Posted
             /\ \/ Held[w] < Posted /\ Held' = [Held EXCEPT ![w] = Posted]
                \/ Held' = Held
  <2>1. /\ slot' = slot
        /\ mine' = [mine EXCEPT ![w] = IF Computes(slot) THEN slot ELSE None]
    BY <1>7 DEF Clone, netVars
  <2>2. Posted' = Posted
    BY <2>1 DEF Posted
  <2>3. Held' = [Held EXCEPT ![w] = Posted]
    <3>1. mine'[w].id = Posted /\ \A u \in Workers \ {w} : mine'[u].id = mine[u].id
      BY <2>1, <1>0, SleepTyped DEF Posted, None, TypeOK
    <3> QED
      BY <3>1 DEF Held
  <2>4. Held[w] = mine[w].id /\ Held[w] \in Nat /\ Posted \in Nat
    BY <1>t DEF Held, Posted
  <2>5. Held[w] <= Posted
    <3>1. CASE mine[w] = None
      BY <3>1, <2>4, SleepTyped DEF None
    <3>2. CASE mine[w] # None
      BY <3>2, <1>0, <1>t, <2>4 DEF Behind, Posted
    <3> QED
      BY <3>1, <3>2
  <2>6. CASE Held[w] = Posted
    <3>1. Held' = Held
      BY <2>3, <2>6 DEF Held
    <3> QED
      BY <3>1, <2>2
  <2>7. CASE Held[w] < Posted
    BY <2>2, <2>3, <2>7
  <2> QED
    BY <2>4, <2>5, <2>6, <2>7
<1>8. CASE UNCHANGED vars
  BY <1>8 DEF vars, netVars, workerVars, Posted, Held
<1> QED
  BY <1>1, <1>2, <1>3, <1>4, <1>5, <1>6, <1>7, <1>8 DEF Next, NetThread, Worker

\* Handing jobs to the workers implements JobBoard: jobs are posted in order, a
\* worker takes the job in the slot only, and a fatal message takes none off.
THEOREM BoardImplemented == Spec => ImplementsBoard
<1>1. Init => Board!BoardInit
  BY SleepTyped DEF Init, Board!BoardInit, None
<1>2. IInv /\ [Next]_vars => [Board!BoardNext]_(Board!board)
  BY BoardStep
  DEF Posted, Held, Board!BoardNext, Board!Post, Board!Adopt, Board!board
<1> QED
  BY Invariant, <1>1, <1>2, PTL DEF Spec, ImplementsBoard, Board!BoardSpec

=============================================================================
