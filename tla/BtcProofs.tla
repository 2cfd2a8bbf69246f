------------------------------ MODULE BtcProofs ------------------------------
(***************************************************************************)
(* Proofs about BtcMiner for every number of workers, jobs, nonces and     *)
(* bytes: the slot carries the session over messages in any order, the     *)
(* worker's job is the slot's, the cached header never lags behind nonce2, *)
(* the lanes stay apart although nonce2 is cut, and a worker's panic has   *)
(* no other cause than the pool's extranonces.                             *)
(***************************************************************************)
EXTENDS BtcMiner, NumberLemmas, TLAPS

(***************************************************************************)
(* The invariant                                                           *)
(***************************************************************************)

\* The slot's job has the counter's number, or the next one while the counter
\* is about to be bumped; no worker is ahead of the counter.
Numbered ==
  /\ npc = "bump" => Computes(slot) /\ slot.id = jobsc + 1 /\ jobsc <= MaxJobs
  /\ npc # "bump" /\ Computes(slot) => slot.id = jobsc
  /\ \A w \in Workers : idx2[w] <= jobsc /\ jobIdx[w] <= jobsc

\* What a worker mines was in the slot, which holds a job ever since, unless a
\* panic emptied it.
Behind ==
  \A w \in Workers :
    \/ mine[w] = None
    \/ /\ Holds(w) /\ mine[w].id <= jobsc + 1
       /\ npc # "dead" => Computes(slot) /\ mine[w].id <= slot.id

\* The extranonce in the slot is one that a header can be computed with.
SlotFits ==
  /\ session.x \in session.since
  /\ session.sound => session.x = NoExtranonce \/ Usable(session.x)
  /\ Computes(slot) => slot.x # NoExtranonce
  /\ session.sound /\ Computes(slot) => Usable(slot.x) /\ ~Misfit(slot)

\* ... and was, for what a worker mines; its header is the one of its nonce2.
Hashes ==
  \A w \in Workers : Holds(w) =>
    /\ Usable(mine[w].x) /\ header[w] = Header(mine[w])
    /\ session.sound => ~Misfit(mine[w])

\* Where a worker's lane starts, up to the number of workers.
Lane(w) == (mine[w].n2 - w) % NWorkers

\* The workers that hold the same job started from the same nonce2, the slot's.
Lanes ==
  /\ \A u, v \in Workers :
       Holds(u) /\ Holds(v) /\ mine[u].id = mine[v].id => Lane(u) = Lane(v)
  /\ \A u \in Workers :
       Holds(u) /\ Computes(slot) /\ mine[u].id = slot.id => Lane(u) = slot.n2 % NWorkers

IInv ==
  /\ TypeOK /\ Numbered /\ Behind
  /\ SlotCarriesSession /\ SlotFits
  /\ WorkerCurrent /\ WorkersSurvive
  /\ Hashes /\ Lanes

LEMMA SleepTyped ==
  /\ Sleep \in SlotType /\ ~Computes(Sleep) /\ Sleep.id = 0
  /\ Sleep.kind = "sleep" /\ NoExtranonce \in Given
<1>1. 0 \in 0..(MaxJobs + 1) /\ 0 \in 0..Unit /\ 0 \in Nat
  BY SizeAssumption, DiffAssumption
<1> QED
  BY <1>1 DEF Sleep, Slot, SlotType, Computes, Given

\* An extranonce of the pool's is not the initial one, and has lengths.
LEMMA ExtranonceTyped ==
  /\ \A x \in Extranonces : x \in Given /\ x # NoExtranonce
  /\ \A x \in Given : x.n1b \in Nat /\ x.n2b \in Nat
  BY ExtranonceAssumption DEF Given, NoExtranonce

\* With a usable extranonce the cut nonce2 is a number.
LEMMA CutTyped ==
  ASSUME NEW x \in Given, Usable(x), NEW n \in Nat
  PROVE  /\ Base ^ x.n2b \in Nat \ {0} /\ Cut(n, x.n2b) \in Nat
         /\ n < Base ^ x.n2b => Cut(n, x.n2b) = n
<1>1. Base ^ x.n2b \in Nat \ {0}
  <2>1. x.n2b \in 0..Width
    BY ExtranonceTyped, SizeAssumption DEF Usable
  <2> QED
    BY <2>1, PowerAssumption
<1> DEFINE r == Base ^ x.n2b
<1>2. r \in Nat \ {0}
  BY <1>1
<1> HIDE DEF r
<1>3. n % r \in 0..(r - 1) /\ (n < r => n % r = n)
  <2>1. n % r \in 0..(r - 1)
    BY <1>2, Euclid
  <2>2. ASSUME n < r PROVE n % r = n
    BY <1>2, <2>2, RestOnce
  <2> QED
    BY <2>1, <2>2
<1>4. n % r \in Nat
  BY <1>2, <1>3
<1> QED
  BY <1>1, <1>3, <1>4 DEF Cut, r

LEMMA HeaderTyped ==
  ASSUME NEW j \in SlotType, Usable(j.x)
  PROVE  Header(j) \in HeaderType
<1>1. /\ j.x \in Given /\ j.n2 \in Nat /\ j.id \in 0..(MaxJobs + 1)
  BY DEF SlotType
<1>2. Cut(j.n2, j.x.n2b) \in Nat
  BY <1>1, CutTyped
<1> QED
  BY <1>1, <1>2 DEF Header, HeaderType

LEMMA TargetTyped ==
  ASSUME NEW d \in Diffs, d # 0
  PROVE  Unit \div d \in 0..Unit
<1>1. d \in Nat \ {0} /\ Unit \in Nat
  BY DiffAssumption
<1> DEFINE q == Unit \div d
<1>2. q \in Int /\ Unit % d \in 0..(d - 1) /\ Unit = q * d + (Unit % d)
  BY <1>1, Euclid
<1> HIDE DEF q
<1>3. q >= 0
  <2>1. ASSUME q <= -1 PROVE q * d <= -d
    BY <1>1, <1>2, <2>1, SMT
  <2>2. q * d \in Int
    BY <1>1, <1>2, SMT
  <2> QED
    BY <1>1, <1>2, <2>1, <2>2
<1>4. q * d >= q
  BY <1>1, <1>2, <1>3, SMT
<1>5. q * d \in Int
  BY <1>1, <1>2, SMT
<1>6. q <= Unit
  BY <1>1, <1>2, <1>4, <1>5
<1> QED
  BY <1>1, <1>2, <1>3, <1>6 DEF q

LEMMA InitIInv == Init => IInv
<1> SUFFICES ASSUME Init PROVE IInv
  OBVIOUS
<1>1. \A w \in Workers : ~Holds(w)
  BY SleepTyped DEF Init, Holds, None
<1>2. TypeOK
  <2>1. 0 \in 0..(MaxJobs + 1) /\ 1 \in 1..(MaxJobs + 1) /\ 0 \in 0..Unit
        /\ 0 \in 0..(NonceSize - 1) /\ 0 \in Nat
    BY SizeAssumption, DiffAssumption
  <2>2. NoHeader \in HeaderType
    <3>1. NoExtranonce.n1 = NoNonce1
      BY DEF NoExtranonce
    <3>2. NoNonce1 \in {x.n1 : x \in Given}
      BY <3>1, SleepTyped
    <3> QED
      BY <2>1, <3>2 DEF NoHeader, HeaderType
  <2>3. session \in SessionType
    BY <2>1, SleepTyped DEF Init, SessionType
  <2> QED
    BY <2>1, <2>2, <2>3, SleepTyped DEF Init, TypeOK, None
<1>3. Numbered /\ Behind /\ WorkerCurrent
  BY SleepTyped, <1>1 DEF Init, Numbered, Behind, WorkerCurrent, None
<1>4. SlotCarriesSession /\ SlotFits /\ WorkersSurvive
  BY SleepTyped DEF Init, SlotCarriesSession, SlotFits, WorkersSurvive
<1>5. Hashes /\ Lanes
  BY <1>1 DEF Hashes, Lanes
<1> QED
  BY <1>2, <1>3, <1>4, <1>5 DEF IInv

\* The job that notify stores.
LEMMA NotifyStores ==
  ASSUME TypeOK, Notify
  PROVE  /\ slot' \in SlotType /\ Computes(slot') /\ slot'.kind = "compute"
         /\ slot'.id = jobsc + 1 /\ slot'.x = slot.x /\ slot'.target = slot.target
         /\ slot'.room # Broken => slot'.room = session.x.n1b + session.x.n2b
         /\ session' \in SessionType
         /\ session'.x = session.x /\ session'.target = session.target
         /\ session'.since = {session.x}
         /\ session'.sound = (session.sound /\ slot'.room # Broken)
<1>1. PICK n2 \in 0..(N2Max(slot.x.n2b) \div 2 - 1), room \in Coinbases :
        /\ slot' = NewJob(n2, room)
        /\ session' = [session EXCEPT !.since = {session.x},
                                      !.sound = @ /\ room # Broken]
  BY DEF Notify
<1>2. n2 \in Nat
  <2>1. slot.x.n2b \in Nat
    BY ExtranonceTyped DEF TypeOK, SlotType
  <2>2. N2Max(slot.x.n2b) \in Nat
    <3>1. slot.x.n2b < Width => slot.x.n2b \in 0..Width
      BY <2>1, SizeAssumption
    <3> QED
      BY <3>1, PowerAssumption DEF N2Max
  <2>3. N2Max(slot.x.n2b) \div 2 \in Int
    BY <2>2, Euclid
  <2> QED
    BY <2>3
<1>3. room \in Nat \cup {Broken}
  <2>1. session.x.n1b + session.x.n2b \in Nat
    BY ExtranonceTyped DEF TypeOK, SessionType
  <2> QED
    BY <2>1 DEF Coinbases
<1>4. jobsc + 1 \in 0..(MaxJobs + 1)
  BY SizeAssumption DEF TypeOK, Notify
<1>5. /\ slot' \in SlotType /\ Computes(slot') /\ slot'.kind = "compute"
      /\ slot'.id = jobsc + 1 /\ slot'.x = slot.x /\ slot'.target = slot.target
      /\ slot'.room = room
  BY <1>1, <1>2, <1>3, <1>4 DEF NewJob, Slot, SlotType, Computes, TypeOK
<1>6. /\ session'.x = session.x /\ session'.target = session.target
      /\ session'.since = {session.x}
      /\ session'.sound = (session.sound /\ room # Broken)
  BY <1>1 DEF SessionType, TypeOK
<1>7. session' \in SessionType
  <2> DEFINE b == session.sound /\ room # Broken
  <2>1. session' = [session EXCEPT !.since = {session.x}, !.sound = b]
    BY <1>1
  <2>2. b \in BOOLEAN
    OBVIOUS
  <2> HIDE DEF b
  <2> QED
    BY <2>1, <2>2, ZenonT(30) DEF SessionType, TypeOK
<1> QED
  BY <1>5, <1>6, <1>7 DEF Coinbases

\* Difficulty and extranonce change the slot in place: what they leave is typed,
\* holds a job if there was one, and the same.
InPlace ==
  /\ slot' \in SlotType /\ slot'.kind # "sleep" /\ Computes(slot') = Computes(slot)
  /\ Computes(slot) => /\ slot'.id = slot.id /\ slot'.n2 = slot.n2
                       /\ slot'.room = slot.room

LEMMA DifficultyInPlace ==
  ASSUME TypeOK, NEW d \in Diffs, SetDifficulty(d)
  PROVE  /\ InPlace /\ slot'.target = Unit \div d
         /\ slot'.x = IF slot.kind = "sleep" THEN NoExtranonce ELSE slot.x
         /\ session' \in SessionType
         /\ session'.target = Unit \div d /\ session'.x = session.x
         /\ session'.sound = session.sound /\ session'.since = session.since
<1>1. Unit \div d \in 0..Unit
  BY TargetTyped DEF SetDifficulty
<1>2. 0 \in 0..(MaxJobs + 1) /\ 0 \in Nat
  BY SizeAssumption
<1>3. /\ InPlace /\ slot'.target = Unit \div d
      /\ slot'.x = IF slot.kind = "sleep" THEN NoExtranonce ELSE slot.x
  BY <1>1, <1>2, SleepTyped DEF SetDifficulty, Slot, SlotType, Computes, TypeOK, InPlace
<1>4. /\ session' \in SessionType
      /\ session'.target = Unit \div d /\ session'.x = session.x
      /\ session'.sound = session.sound /\ session'.since = session.since
  BY <1>1 DEF SetDifficulty, SessionType, TypeOK
<1> QED
  BY <1>3, <1>4

LEMMA SubscribeInPlace ==
  ASSUME TypeOK, NEW x \in Extranonces, Subscribe(x)
  PROVE  /\ InPlace /\ slot'.x = x
         /\ slot'.target = IF slot.kind = "sleep" THEN 0 ELSE slot.target
         /\ session' \in SessionType
         /\ session'.x = x /\ session'.target = session.target
         /\ session'.since = session.since \cup {x}
         /\ session'.sound = (session.sound /\ Usable(x) /\ Alike(session.x, x))
<1>1. 0 \in 0..(MaxJobs + 1) /\ 0 \in Nat /\ 0 \in 0..Unit
  BY SizeAssumption, DiffAssumption
<1>2. x \in Given
  BY ExtranonceTyped
<1>3. /\ InPlace /\ slot'.x = x
      /\ slot'.target = IF slot.kind = "sleep" THEN 0 ELSE slot.target
  BY <1>1, <1>2 DEF Subscribe, Slot, SlotType, Computes, TypeOK, InPlace
<1>4. /\ session'.x = x /\ session'.target = session.target
      /\ session'.since = session.since \cup {x}
      /\ session'.sound = (session.sound /\ Usable(x) /\ Alike(session.x, x))
  BY DEF Subscribe, SessionType, TypeOK
<1>5. session' \in SessionType
  <2> DEFINE b == session.sound /\ Usable(x) /\ Alike(session.x, x)
  <2>1. session' = [session EXCEPT !.x = x, !.since = session.since \cup {x},
                                   !.sound = b]
    BY DEF Subscribe
  <2>2. b \in BOOLEAN
    OBVIOUS
  <2> HIDE DEF b
  <2> QED
    BY <1>2, <2>1, <2>2, ZenonT(30) DEF SessionType, TypeOK
<1> QED
  BY <1>3, <1>4, <1>5

\* What a worker gets or goes on to is typed.
LEMMA MineTyped ==
  ASSUME TypeOK, NEW w \in Workers
  PROVE  /\ Mine(w, slot) \in SlotType /\ Rolled(w) \in SlotType
         /\ Computes(Mine(w, slot)) = Computes(slot)
         /\ Mine(w, slot).x = slot.x /\ Mine(w, slot).id = slot.id
         /\ Mine(w, slot).n2 = slot.n2 + w /\ Mine(w, slot).room = slot.room
         /\ Computes(Rolled(w)) = Holds(w)
         /\ Rolled(w).x = mine[w].x /\ Rolled(w).id = mine[w].id
         /\ Rolled(w).n2 = mine[w].n2 + NWorkers /\ Rolled(w).room = mine[w].room
<1>1. w \in Nat /\ NWorkers \in Nat
  BY SizeAssumption DEF Workers
<1>2. /\ \A s \in SlotType : s.n2 + w \in Nat /\ s.n2 + NWorkers \in Nat
  BY <1>1 DEF SlotType
<1>3. slot \in SlotType /\ mine[w] \in SlotType
  BY DEF TypeOK
<1> QED
  BY <1>2, <1>3 DEF Mine, Rolled, SlotType, Computes, Holds

LEMMA TypeOKStep == IInv /\ [Next]_vars => TypeOK'
<1> SUFFICES ASSUME IInv, [Next]_vars
             PROVE  TypeOK'
  OBVIOUS
<1> USE DEF TypeOK
<1>0. TypeOK /\ Numbered /\ Hashes
  BY DEF IInv
<1>1. CASE Notify
  <2>1. slot' \in SlotType /\ session' \in SessionType
    BY <1>0, <1>1, NotifyStores
  <2> QED
    BY <1>0, <1>1, <2>1 DEF Notify, workerVars
<1>2. CASE Bump
  <2>1. jobsc + 1 \in 1..(MaxJobs + 1)
    BY <1>0, <1>2, SizeAssumption DEF Numbered, Bump
  <2> QED
    BY <1>0, <1>2, <2>1 DEF Bump, workerVars
<1>3. CASE NotifyFatal
  BY <1>0, <1>3, SleepTyped DEF NotifyFatal, workerVars
<1>4. ASSUME NEW d \in Diffs, SetDifficulty(d) PROVE TypeOK'
  <2>1. slot' \in SlotType /\ session' \in SessionType
    BY <1>0, <1>4, DifficultyInPlace DEF InPlace
  <2> QED
    BY <1>0, <1>4, <2>1 DEF SetDifficulty, workerVars
<1>5. ASSUME NEW d \in Diffs, DivideFatal(d) PROVE TypeOK'
  BY <1>0, <1>5 DEF DivideFatal, workerVars
<1>6. ASSUME NEW x \in Extranonces, Subscribe(x) PROVE TypeOK'
  <2>1. slot' \in SlotType /\ session' \in SessionType
    BY <1>0, <1>6, SubscribeInPlace DEF InPlace
  <2> QED
    BY <1>0, <1>6, <2>1 DEF Subscribe, workerVars
<1>7. ASSUME NEW w \in Workers, Load(w) PROVE TypeOK'
  <2>1. jobsc \in 0..(MaxJobs + 1)
    BY <1>0, SizeAssumption
  <2> QED
    BY <1>0, <1>7, <2>1 DEF Load, netVars
<1>8. ASSUME NEW w \in Workers, CloneJob(w) PROVE TypeOK'
  <2>1. Header(Mine(w, slot)) \in HeaderType /\ Mine(w, slot) \in SlotType
    BY <1>0, <1>8, MineTyped, HeaderTyped DEF CloneJob
  <2>2. 0 \in 0..(NonceSize - 1)
    BY SizeAssumption
  <2> QED
    BY <1>0, <1>8, <2>1, <2>2 DEF CloneJob, netVars
<1>9. ASSUME NEW w \in Workers, CloneNone(w) \/ CloneFatal(w) PROVE TypeOK'
  BY <1>0, <1>9, SleepTyped DEF CloneNone, CloneFatal, netVars, None
<1>10. ASSUME NEW w \in Workers, Idle(w) \/ RollFatal(w) PROVE TypeOK'
  BY <1>0, <1>10 DEF Idle, RollFatal, Polls, netVars
<1>11. ASSUME NEW w \in Workers, TryNonce(w) PROVE TypeOK'
  <2>1. nonce[w] + 1 \in 0..(NonceSize - 1)
    BY <1>0, <1>11, SizeAssumption DEF TryNonce
  <2> QED
    BY <1>0, <1>11, <2>1 DEF TryNonce, Polls, netVars
<1>12. ASSUME NEW w \in Workers, RollNonce2(w) PROVE TypeOK'
  <2>1. Rolled(w) \in SlotType /\ Usable(Rolled(w).x)
    BY <1>0, <1>12, MineTyped DEF RollNonce2, Hashes
  <2>2. Header(Rolled(w)) \in HeaderType
    BY <2>1, HeaderTyped
  <2>3. 0 \in 0..(NonceSize - 1)
    BY SizeAssumption
  <2> QED
    BY <1>0, <1>12, <2>1, <2>2, <2>3 DEF RollNonce2, Polls, netVars
<1>13. CASE UNCHANGED vars
  BY <1>0, <1>13 DEF vars, netVars, workerVars
<1> QED
  BY <1>1, <1>2, <1>3, <1>4, <1>5, <1>6, <1>7, <1>8, <1>9, <1>10, <1>11, <1>12, <1>13
  DEF Next, NetThread, Worker, Fetch, Search

(***************************************************************************)
(* Steps of the invariant's parts.  A worker's step keeps what it mines, or *)
(* fetches the slot's job, or finds none there, or rolls its nonce2.       *)
(***************************************************************************)

Kept(w) ==
  mine'[w] = mine[w] /\ header'[w] = header[w] /\ jobIdx'[w] = jobIdx[w]

Keeps(w) ==
  /\ Kept(w)
  /\ wpc'[w] = "dead" =>
       \/ npc # "bump" /\ Computes(slot) /\ (~Usable(slot.x) \/ Misfit(slot))
       \/ Holds(w) /\ Misfit(mine[w])
Fetches(w) ==
  /\ npc # "bump" /\ Computes(slot) /\ Usable(slot.x)
  /\ mine'[w] = Mine(w, slot) /\ header'[w] = Header(Mine(w, slot))
  /\ jobIdx'[w] = idx2[w] /\ wpc'[w] = "try"
FindsNone(w) ==
  /\ npc # "bump" /\ ~Computes(slot)
  /\ mine'[w] = None /\ jobIdx'[w] = idx2[w] /\ wpc'[w] = "try"
Rolls(w) ==
  /\ Holds(w) /\ wpc[w] = "try"
  /\ mine'[w] = Rolled(w) /\ header'[w] = Header(Rolled(w))
  /\ jobIdx'[w] = jobIdx[w] /\ wpc'[w] = "load"

LEMMA WorkerSteps ==
  ASSUME TypeOK, NEW w \in Workers, Worker(w)
  PROVE  /\ UNCHANGED netVars /\ wpc[w] # "dead"
         /\ \A u \in Workers \ {w} :
              Kept(u) /\ wpc'[u] = wpc[u] /\ idx2'[u] = idx2[u] /\ nonce'[u] = nonce[u]
         /\ idx2'[w] \in {idx2[w], jobsc}
         /\ Keeps(w) \/ Fetches(w) \/ FindsNone(w) \/ Rolls(w)
<1> USE DEF TypeOK, Kept
<1>1. CASE Load(w)
  BY <1>1 DEF Load, Keeps
<1>2. CASE CloneJob(w)
  BY <1>2 DEF CloneJob, Fetches, LockIsFree
<1>3. CASE CloneNone(w)
  BY <1>3 DEF CloneNone, FindsNone, LockIsFree
<1>4. CASE CloneFatal(w)
  BY <1>4 DEF CloneFatal, Keeps, LockIsFree
<1>5. CASE Idle(w) \/ TryNonce(w)
  BY <1>5 DEF Idle, TryNonce, Polls, Keeps
<1>6. CASE RollNonce2(w)
  BY <1>6 DEF RollNonce2, Polls, Rolls
<1>7. CASE RollFatal(w)
  BY <1>7 DEF RollFatal, Keeps
<1> QED
  BY <1>1, <1>2, <1>3, <1>4, <1>5, <1>6, <1>7 DEF Worker, Fetch, Search

\* The counter, the slot and the workers move on together.
LEMMA NumberedStep == IInv /\ [Next]_vars => Numbered' /\ Behind'
<1> SUFFICES ASSUME IInv, [Next]_vars
             PROVE  Numbered' /\ Behind'
  OBVIOUS
<1> USE DEF Numbered, Behind, Holds
<1>0. TypeOK /\ Numbered /\ Behind
  BY DEF IInv
<1>t. /\ jobsc \in Nat /\ MaxJobs \in Nat
      /\ \A w \in Workers : idx2[w] \in Nat /\ jobIdx[w] \in Nat
      /\ slot.id \in Nat /\ \A w \in Workers : mine[w].id \in Nat
  BY <1>0, SizeAssumption DEF TypeOK, SlotType
<1>1. CASE Notify
  <2>1. /\ jobsc <= MaxJobs /\ npc = "idle"
        /\ Computes(slot') /\ slot'.id = jobsc + 1 /\ npc' = "bump"
    BY <1>0, <1>1, NotifyStores DEF Notify
  <2> QED
    BY <1>0, <1>1, <1>t, <2>1 DEF Notify, workerVars
<1>2. CASE Bump
  BY <1>0, <1>2, <1>t DEF Bump, workerVars
<1>3. CASE NotifyFatal
  BY <1>0, <1>3, SleepTyped DEF NotifyFatal, workerVars
<1>4. ASSUME NEW d \in Diffs, DivideFatal(d)
      PROVE  Numbered' /\ Behind'
  BY <1>0, <1>4 DEF DivideFatal, workerVars
<1>5. CASE /\ InPlace /\ npc = "idle" /\ UNCHANGED <<jobsc, npc, workerVars>>
  <2>1. Computes(slot') = Computes(slot) /\ (Computes(slot) => slot'.id = slot.id)
    BY <1>5 DEF InPlace
  <2> QED
    BY <1>0, <1>5, <2>1 DEF workerVars
<1>6. ASSUME NEW d \in Diffs, SetDifficulty(d)
      PROVE  Numbered' /\ Behind'
  BY <1>0, <1>5, <1>6, DifficultyInPlace DEF SetDifficulty
<1>7. ASSUME NEW x \in Extranonces, Subscribe(x)
      PROVE  Numbered' /\ Behind'
  BY <1>0, <1>5, <1>7, SubscribeInPlace DEF Subscribe
<1>8. ASSUME NEW w \in Workers, Worker(w)
      PROVE  Numbered' /\ Behind'
  <2>1. /\ UNCHANGED netVars
        /\ \A u \in Workers \ {w} : Kept(u) /\ idx2'[u] = idx2[u]
        /\ idx2'[w] \in {idx2[w], jobsc}
        /\ Keeps(w) \/ Fetches(w) \/ FindsNone(w) \/ Rolls(w)
    BY <1>0, <1>8, WorkerSteps
  <2>2. CASE Keeps(w)
    BY <1>0, <1>t, <2>1, <2>2 DEF Kept, Keeps, netVars
  <2>3. CASE Fetches(w)
    <3>1. Computes(mine'[w]) /\ mine'[w].id = slot.id
      BY <1>0, <2>3, MineTyped DEF Fetches
    <3> QED
      BY <1>0, <1>t, <2>1, <2>3, <3>1 DEF Kept, Fetches, netVars
  <2>4. CASE FindsNone(w)
    BY <1>0, <1>t, <2>1, <2>4 DEF Kept, FindsNone, netVars
  <2>5. CASE Rolls(w)
    <3>1. Computes(mine'[w]) /\ mine'[w].id = mine[w].id /\ Holds(w)
      BY <1>0, <2>5, MineTyped DEF Rolls
    <3>2. ~Computes(None)
      BY SleepTyped DEF None
    <3> QED
      BY <1>0, <1>t, <2>1, <2>5, <3>1, <3>2 DEF Kept, Rolls, netVars
  <2> QED
    BY <2>1, <2>2, <2>3, <2>4, <2>5
<1>9. CASE UNCHANGED vars
  BY <1>0, <1>9 DEF vars, netVars, workerVars
<1> QED
  BY <1>1, <1>2, <1>3, <1>4, <1>6, <1>7, <1>8, <1>9 DEF Next, NetThread

\* With a usable extranonce before the new one the lengths are alike.
LEMMA RoomKept ==
  ASSUME TypeOK, SlotFits, SlotCarriesSession, npc = "idle",
         NEW x \in Extranonces, Subscribe(x), session'.sound, Computes(slot)
  PROVE  Usable(x) /\ x.n1b + x.n2b = slot.room
<1>1. session.sound /\ Usable(x) /\ Alike(session.x, x)
  BY SubscribeInPlace
<1>2. slot.x = session.x /\ slot.x # NoExtranonce /\ ~Misfit(slot)
  BY <1>1 DEF SlotFits, SlotCarriesSession, Computes
<1> QED
  BY <1>1, <1>2 DEF Alike, Misfit

LEMMA SessionStep == IInv /\ [Next]_vars => SlotCarriesSession' /\ SlotFits'
<1> SUFFICES ASSUME IInv, [Next]_vars
             PROVE  SlotCarriesSession' /\ SlotFits'
  OBVIOUS
<1> USE DEF SlotCarriesSession, SlotFits
<1>0. TypeOK /\ Numbered /\ SlotCarriesSession /\ SlotFits
  BY DEF IInv
<1>1. CASE Notify
  <2>1. /\ slot'.kind = "compute" /\ slot'.x = slot.x /\ slot'.target = slot.target
        /\ slot'.room # Broken => slot'.room = session.x.n1b + session.x.n2b
        /\ Computes(slot')
    BY <1>0, <1>1, NotifyStores
  <2>2. /\ slot.x = session.x /\ slot.target = session.target
    BY <1>0, <1>1 DEF Notify
  <2>3. /\ session'.x = session.x /\ session'.target = session.target
        /\ session'.sound = (session.sound /\ slot'.room # Broken)
        /\ session'.since = {session.x}
    BY <1>0, <1>1, NotifyStores
  <2>4. slot.x # NoExtranonce
    <3>1. N2Max(slot.x.n2b) \div 2 # 0
      BY <1>1 DEF Notify, NotifyPanics
    <3>2. SUFFICES ASSUME slot.x = NoExtranonce PROVE FALSE
      OBVIOUS
    <3>3. N2Max(slot.x.n2b) \in {0, 1}
      BY <3>2, PowerAssumption DEF NoExtranonce, N2Max
    <3> QED
      BY <3>1, <3>3
  <2>5. session'.sound => ~Misfit(slot')
    BY <2>1, <2>2, <2>3 DEF Misfit
  <2> QED
    BY <1>0, <1>1, <2>1, <2>2, <2>3, <2>4, <2>5 DEF Notify
<1>2. CASE Bump
  BY <1>0, <1>2 DEF Bump
<1>3. CASE NotifyFatal
  BY <1>0, <1>3, SleepTyped DEF NotifyFatal
<1>4. ASSUME NEW d \in Diffs, DivideFatal(d)
      PROVE  SlotCarriesSession' /\ SlotFits'
  BY <1>0, <1>4 DEF DivideFatal
<1>5. ASSUME NEW d \in Diffs, SetDifficulty(d)
      PROVE  SlotCarriesSession' /\ SlotFits'
  <2>1. /\ slot'.kind # "sleep" /\ slot'.target = session'.target
        /\ slot'.x = IF slot.kind = "sleep" THEN NoExtranonce ELSE slot.x
        /\ Computes(slot') = Computes(slot)
        /\ Computes(slot) => slot'.room = slot.room
        /\ session'.x = session.x /\ session'.sound = session.sound
        /\ session'.since = session.since
    BY <1>0, <1>5, DifficultyInPlace DEF InPlace
  <2>2. npc = "idle" /\ (Computes(slot) => slot.kind # "sleep")
    BY <1>5 DEF SetDifficulty, Computes
  <2>3. Computes(slot) => Misfit(slot') = Misfit(slot)
    BY <2>1, <2>2 DEF Misfit
  <2> QED
    BY <1>0, <2>1, <2>2, <2>3
<1>6. ASSUME NEW x \in Extranonces, Subscribe(x)
      PROVE  SlotCarriesSession' /\ SlotFits'
  <2>1. /\ slot'.kind # "sleep" /\ slot'.x = x /\ session'.x = x
        /\ slot'.target = IF slot.kind = "sleep" THEN 0 ELSE slot.target
        /\ Computes(slot') = Computes(slot)
        /\ Computes(slot) => slot'.room = slot.room
        /\ session'.target = session.target
        /\ session'.since = session.since \cup {x}
        /\ session'.sound = (session.sound /\ Usable(x) /\ Alike(session.x, x))
    BY <1>0, <1>6, SubscribeInPlace DEF InPlace
  <2>2. npc = "idle"
    BY <1>6 DEF Subscribe
  <2>3. SlotCarriesSession'
    BY <1>0, <2>1, <2>2
  <2>4. x # NoExtranonce
    BY ExtranonceTyped
  <2>5. session'.sound /\ Computes(slot) => Usable(slot'.x) /\ ~Misfit(slot')
    BY <1>0, <1>6, <2>1, <2>2, RoomKept DEF Misfit
  <2> QED
    BY <2>1, <2>3, <2>4, <2>5
<1>7. ASSUME NEW w \in Workers, Worker(w)
      PROVE  SlotCarriesSession' /\ SlotFits'
  <2>1. UNCHANGED netVars
    BY <1>0, <1>7, WorkerSteps
  <2> QED
    BY <1>0, <2>1 DEF netVars
<1>8. CASE UNCHANGED vars
  BY <1>0, <1>8 DEF vars, netVars
<1> QED
  BY <1>1, <1>2, <1>3, <1>4, <1>5, <1>6, <1>7, <1>8 DEF Next, NetThread

\* A worker keeps up with the slot, and dies only of what the pool gave.
LEMMA WorkersStep == IInv /\ [Next]_vars => WorkerCurrent' /\ WorkersSurvive'
<1> SUFFICES ASSUME IInv, [Next]_vars
             PROVE  WorkerCurrent' /\ WorkersSurvive'
  OBVIOUS
<1> USE DEF WorkerCurrent, WorkersSurvive, Holds
<1>0. /\ TypeOK /\ Numbered /\ WorkerCurrent /\ WorkersSurvive
      /\ SlotCarriesSession /\ SlotFits /\ Hashes
  BY DEF IInv
<1>t. /\ jobsc \in Nat
      /\ \A w \in Workers : idx2[w] \in Nat /\ jobIdx[w] \in Nat
  BY <1>0, SizeAssumption DEF TypeOK
<1>1. CASE Notify
  <2>1. session'.sound => session.sound
    BY <1>0, <1>1, NotifyStores
  <2> QED
    BY <1>0, <1>1, <2>1 DEF Notify, workerVars
<1>2. CASE Bump
  <2>1. \A w \in Workers : jobIdx'[w] # jobsc'
    BY <1>0, <1>2, <1>t DEF Bump, Numbered, workerVars
  <2> QED
    BY <1>0, <1>2, <2>1 DEF Bump, workerVars
<1>3. CASE NotifyFatal
  BY <1>0, <1>3 DEF NotifyFatal, workerVars
<1>4. ASSUME NEW d \in Diffs, DivideFatal(d)
      PROVE  WorkerCurrent' /\ WorkersSurvive'
  BY <1>0, <1>4 DEF DivideFatal, workerVars
<1>5. CASE /\ InPlace /\ session.since \subseteq session'.since
           /\ session'.sound => session.sound
           /\ UNCHANGED <<jobsc, npc, workerVars>>
  <2>1. Computes(slot') = Computes(slot) /\ (Computes(slot) => slot'.id = slot.id)
    BY <1>5 DEF InPlace
  <2> QED
    BY <1>0, <1>5, <2>1 DEF workerVars
<1>6. ASSUME NEW d \in Diffs, SetDifficulty(d)
      PROVE  WorkerCurrent' /\ WorkersSurvive'
  BY <1>0, <1>5, <1>6, DifficultyInPlace DEF SetDifficulty
<1>7. ASSUME NEW x \in Extranonces, Subscribe(x)
      PROVE  WorkerCurrent' /\ WorkersSurvive'
  BY <1>0, <1>5, <1>7, SubscribeInPlace DEF Subscribe
<1>8. ASSUME NEW w \in Workers, Worker(w)
      PROVE  WorkerCurrent' /\ WorkersSurvive'
  <2>1. /\ UNCHANGED netVars /\ wpc[w] # "dead"
        /\ \A u \in Workers \ {w} : Kept(u) /\ wpc'[u] = wpc[u]
        /\ Keeps(w) \/ Fetches(w) \/ FindsNone(w) \/ Rolls(w)
    BY <1>0, <1>8, WorkerSteps
  <2>2. CASE Keeps(w)
    <3>1. session.sound => wpc'[w] # "dead"
      BY <1>0, <2>2 DEF Keeps, SlotFits, Hashes
    <3> QED
      BY <1>0, <2>1, <2>2, <3>1 DEF Kept, Keeps, netVars
  <2>3. CASE Fetches(w)
    <3>1. /\ mine'[w].id = slot.id /\ mine'[w].x = slot.x
          /\ slot.kind # "sleep" /\ Computes(slot)
      BY <1>0, <2>3, MineTyped DEF Fetches, Computes
    <3>2. npc = "idle" => slot.x \in session.since
      BY <1>0, <3>1 DEF SlotCarriesSession, SlotFits
    <3> QED
      BY <1>0, <2>1, <2>3, <3>1, <3>2 DEF Kept, Fetches, netVars
  <2>4. CASE FindsNone(w)
    BY <1>0, <2>1, <2>4, SleepTyped DEF Kept, FindsNone, None, netVars
  <2>5. CASE Rolls(w)
    <3>1. /\ mine'[w].id = mine[w].id /\ mine'[w].x = mine[w].x
          /\ Computes(mine'[w]) = Computes(mine[w])
      BY <1>0, <2>5, MineTyped DEF Rolls
    <3> QED
      BY <1>0, <2>1, <2>5, <3>1 DEF Kept, Rolls, netVars
  <2> QED
    BY <2>1, <2>2, <2>3, <2>4, <2>5
<1>9. CASE UNCHANGED vars
  BY <1>0, <1>9 DEF vars, netVars, workerVars
<1> QED
  BY <1>1, <1>2, <1>3, <1>4, <1>6, <1>7, <1>8, <1>9 DEF Next, NetThread

\* The header moves on with nonce2.
LEMMA HashesStep == IInv /\ [Next]_vars => Hashes'
<1> SUFFICES ASSUME IInv, [Next]_vars
             PROVE  Hashes'
  OBVIOUS
<1> USE DEF Hashes, Holds
<1>0. TypeOK /\ Hashes /\ SlotFits
  BY DEF IInv
<1>1. CASE UNCHANGED workerVars /\ (session'.sound => session.sound)
  BY <1>0, <1>1 DEF workerVars, Misfit
<1>2. CASE NetThread
  <2>1. UNCHANGED workerVars
    BY <1>2 DEF NetThread, Notify, Bump, NotifyFatal, SetDifficulty,
       DivideFatal, Subscribe
  <2>2. session'.sound => session.sound
    <3>1. CASE Notify
      BY <1>0, <3>1, NotifyStores
    <3>2. ASSUME NEW d \in Diffs, SetDifficulty(d)
          PROVE  session'.sound => session.sound
      BY <1>0, <3>2, DifficultyInPlace
    <3>3. ASSUME NEW x \in Extranonces, Subscribe(x)
          PROVE  session'.sound => session.sound
      BY <1>0, <3>3, SubscribeInPlace
    <3>4. CASE session' = session
      BY <3>4
    <3> QED
      BY <1>2, <3>1, <3>2, <3>3, <3>4 DEF NetThread, Bump, NotifyFatal, DivideFatal
  <2> QED
    BY <1>1, <2>1, <2>2
<1>3. ASSUME NEW w \in Workers, Worker(w)
      PROVE  Hashes'
  <2>1. /\ \A u \in Workers \ {w} : Kept(u)
        /\ session' = session
        /\ Keeps(w) \/ Fetches(w) \/ FindsNone(w) \/ Rolls(w)
    BY <1>0, <1>3, WorkerSteps DEF netVars
  <2>2. CASE Keeps(w)
    BY <1>0, <2>1, <2>2 DEF Kept, Keeps, Misfit
  <2>3. CASE Fetches(w)
    <3>1. Usable(mine'[w].x) /\ header'[w] = Header(mine'[w])
      BY <1>0, <2>3, MineTyped DEF Fetches
    <3>2. session.sound => ~Misfit(mine'[w])
      BY <1>0, <2>3, MineTyped DEF Fetches, SlotFits, Misfit
    <3> QED
      BY <1>0, <2>1, <3>1, <3>2 DEF Kept, Misfit
  <2>4. CASE FindsNone(w)
    BY <1>0, <2>1, <2>4, SleepTyped DEF Kept, FindsNone, None, Misfit
  <2>5. CASE Rolls(w)
    <3>1. Usable(mine'[w].x) /\ header'[w] = Header(mine'[w])
      BY <1>0, <2>5, MineTyped DEF Rolls
    <3>2. session.sound => ~Misfit(mine'[w])
      BY <1>0, <2>5, MineTyped DEF Rolls, Misfit
    <3> QED
      BY <1>0, <2>1, <3>1, <3>2 DEF Kept, Misfit
  <2> QED
    BY <2>1, <2>2, <2>3, <2>4, <2>5
<1>4. CASE UNCHANGED vars
  BY <1>1, <1>4 DEF vars, netVars
<1> QED
  BY <1>2, <1>3, <1>4 DEF Next

\* Fetching a job starts a lane, rolling nonce2 stays in it.
LEMMA LaneOfStep ==
  ASSUME TypeOK, NEW w \in Workers
  PROVE  /\ (Mine(w, slot).n2 - w) % NWorkers = slot.n2 % NWorkers
         /\ (Rolled(w).n2 - w) % NWorkers = Lane(w)
<1>1. w \in Nat /\ NWorkers \in Nat \ {0}
  BY SizeAssumption DEF Workers
<1>2. slot.n2 \in Nat /\ mine[w].n2 \in Nat
  BY DEF TypeOK, SlotType
<1>3. Mine(w, slot).n2 - w = slot.n2
  BY <1>1, <1>2, MineTyped
<1>4. Rolled(w).n2 - w = (mine[w].n2 - w) + NWorkers
  BY <1>1, <1>2, MineTyped
<1>5. mine[w].n2 - w \in Int
  BY <1>1, <1>2
<1> QED
  BY <1>1, <1>3, <1>4, <1>5, RestAdd DEF Lane

LEMMA LanesStep == IInv /\ [Next]_vars => Lanes'
<1> SUFFICES ASSUME IInv, [Next]_vars
             PROVE  Lanes'
  OBVIOUS
<1> USE DEF Lanes, Lane, Holds
<1>0. TypeOK /\ Numbered /\ Behind /\ Lanes
  BY DEF IInv
<1>1. CASE Notify
  <2>1. slot'.id = jobsc + 1
    BY <1>0, <1>1, NotifyStores
  <2>2. \A w \in Workers : Computes(mine[w]) => mine[w].id # slot'.id
    <3> SUFFICES ASSUME NEW w \in Workers, Computes(mine[w])
                 PROVE  mine[w].id # jobsc + 1
      BY <2>1
    <3>1. mine[w] # None /\ npc = "idle"
      BY <1>1, SleepTyped DEF None, Notify
    <3>2. Computes(slot) /\ mine[w].id <= slot.id /\ slot.id = jobsc
      BY <1>0, <3>1 DEF Behind, Numbered
    <3> QED
      BY <1>0, <3>2, SizeAssumption DEF TypeOK, SlotType
  <2> QED
    BY <1>0, <1>1, <2>2 DEF Notify, workerVars
<1>2. CASE Bump
  BY <1>0, <1>2 DEF Bump, workerVars
<1>3. CASE NotifyFatal
  BY <1>0, <1>3, SleepTyped DEF NotifyFatal, workerVars
<1>4. ASSUME NEW d \in Diffs, DivideFatal(d) PROVE Lanes'
  BY <1>0, <1>4 DEF DivideFatal, workerVars
<1>5. CASE InPlace /\ UNCHANGED workerVars
  BY <1>0, <1>5 DEF InPlace, workerVars
<1>6. ASSUME NEW d \in Diffs, SetDifficulty(d) PROVE Lanes'
  BY <1>0, <1>5, <1>6, DifficultyInPlace DEF SetDifficulty
<1>7. ASSUME NEW x \in Extranonces, Subscribe(x) PROVE Lanes'
  BY <1>0, <1>5, <1>7, SubscribeInPlace DEF Subscribe
<1>8. ASSUME NEW w \in Workers, Worker(w) PROVE Lanes'
  <2>1. /\ slot' = slot
        /\ \A u \in Workers \ {w} : mine'[u] = mine[u]
        /\ Keeps(w) \/ Fetches(w) \/ FindsNone(w) \/ Rolls(w)
    BY <1>0, <1>8, WorkerSteps DEF netVars, Kept
  <2>2. CASE Keeps(w)
    BY <1>0, <2>1, <2>2 DEF Kept, Keeps
  <2>3. CASE Fetches(w)
    <3>1. /\ mine'[w].id = slot.id /\ Computes(slot)
          /\ (mine'[w].n2 - w) % NWorkers = slot.n2 % NWorkers
      BY <1>0, <2>3, MineTyped, LaneOfStep DEF Fetches
    <3> QED
      BY <1>0, <2>1, <3>1
  <2>4. CASE FindsNone(w)
    BY <1>0, <2>1, <2>4, SleepTyped DEF FindsNone, None
  <2>5. CASE Rolls(w)
    <3>1. /\ mine'[w].id = mine[w].id /\ Computes(mine'[w]) = Computes(mine[w])
          /\ (mine'[w].n2 - w) % NWorkers = Lane(w)
      BY <1>0, <2>5, MineTyped, LaneOfStep DEF Rolls
    <3> QED
      BY <1>0, <2>1, <3>1
  <2> QED
    BY <2>1, <2>2, <2>3, <2>4, <2>5
<1>9. CASE UNCHANGED vars
  BY <1>0, <1>9 DEF vars, netVars, workerVars
<1> QED
  BY <1>1, <1>2, <1>3, <1>4, <1>6, <1>7, <1>8, <1>9 DEF Next, NetThread

LEMMA Invariant == Spec => []IInv
<1>1. IInv /\ [Next]_vars => IInv'
  BY TypeOKStep, NumberedStep, SessionStep, WorkersStep, HashesStep, LanesStep DEF IInv
<1> QED
  BY InitIInv, <1>1, PTL DEF Spec

(***************************************************************************)
(* Theorems                                                                *)
(***************************************************************************)

\* Every reachable state is well typed; above all no nonce exceeds its bits.
THEOREM TypeCorrect == Spec => []TypeOK
<1>1. IInv => TypeOK
  BY DEF IInv
<1> QED
  BY Invariant, <1>1, PTL

\* Whatever the order of the pool's messages, the slot has the extranonce and
\* the target it gave last (btc/mod.rs:65-160).
THEOREM SessionCarried == Spec => []SlotCarriesSession
<1>1. IInv => SlotCarriesSession
  BY DEF IInv
<1> QED
  BY Invariant, <1>1, PTL

\* A worker that has seen the current counter mines the job in the slot, with an
\* extranonce no older than the job (btc/mod.rs:97-98, 150-155 and 181-201).
THEOREM WorkersCurrent == Spec => []WorkerCurrent
<1>1. IInv => WorkerCurrent
  BY DEF IInv
<1> QED
  BY Invariant, <1>1, PTL

\* What a worker hashes is what the pool rebuilds from the share: the cached
\* header never lags behind nonce2 (btc/mod.rs:221-225).
THEOREM SharesRebuilt == Spec => []ShareRebuilt
<1>1. IInv => ShareRebuilt
  BY DEF IInv, Hashes, ShareRebuilt
<1> QED
  BY Invariant, <1>1, PTL

\* No worker dies while the pool's extranonces are hex and of one length and its
\* coinbases are transactions (btc/pow.rs:50-54, 163-168).
THEOREM WorkersLive == Spec => []WorkersSurvive
<1>1. IInv => WorkersSurvive
  BY DEF IInv
<1> QED
  BY Invariant, <1>1, PTL

\* Two workers on the same job and extranonce never hash the same header until
\* one is a whole range of nonce2 ahead (btc/mod.rs:196 and 223).
THEOREM LanesApart == Spec => []LanesDisjoint
<1>1. ASSUME IInv PROVE LanesDisjoint
  <2> DEFINE range(u) == N2Max(mine[u].x.n2b)
  <2>1. SUFFICES ASSUME NEW u \in Workers, NEW v \in Workers,
                        u # v, Holds(u), Holds(v), mine[u].id = mine[v].id,
                        mine[u].x = mine[v].x,
                        mine[u].n2 - mine[v].n2 \in (1 - range(u))..(range(u) - 1)
                 PROVE  header[u] # header[v]
    BY DEF LanesDisjoint
  <2> DEFINE x == mine[u].x
             a == mine[u].n2
             b == mine[v].n2
             r == Base ^ x.n2b
  <2>2. /\ NWorkers \in Nat \ {0} /\ u \in 0..(NWorkers - 1) /\ v \in 0..(NWorkers - 1)
        /\ a \in Nat /\ b \in Nat /\ x \in Given
    BY <1>1, SizeAssumption DEF Workers, IInv, TypeOK, SlotType
  <2>3. (a - u) % NWorkers = (b - v) % NWorkers
    BY <1>1, <2>1 DEF IInv, Lanes, Lane
  <2>4. a # b
    <3> SUFFICES ASSUME a = b PROVE FALSE
      OBVIOUS
    <3> HIDE DEF a, b
    <3>1. /\ a - u \in Int /\ a - v \in Int /\ a - u # a - v
          /\ -NWorkers < (a - u) - (a - v) /\ (a - u) - (a - v) < NWorkers
      BY <2>1, <2>2
    <3>2. (a - u) % NWorkers # (a - v) % NWorkers
      BY <2>2, <3>1, RestsApart
    <3> QED
      BY <2>3, <3>2
  <2>5. Usable(x)
    BY <1>1, <2>1 DEF IInv, Hashes
  <2>6. r \in Nat \ {0}
    BY <2>2, <2>5, CutTyped
  <2>7. range(u) = r \/ range(u) = 0
    BY DEF N2Max
  <2>8. -r < a - b /\ a - b < r
    <3> DEFINE m == range(u)
    <3>1. a - b \in (1 - m)..(m - 1) /\ (m = r \/ m = 0)
      BY <2>1, <2>7
    <3> HIDE DEF a, b, r, m
    <3> QED
      BY <2>2, <2>6, <3>1
  <2>9. a % r # b % r
    <3> HIDE DEF a, b, r
    <3>1. a \in Int /\ b \in Int
      BY <2>2
    <3> QED
      BY <3>1, <2>4, <2>6, <2>8, RestsApart, Zenon
  <2>10. header[u].n2 = a % r /\ header[v].n2 = b % r
    <3>1. header[u] = Header(mine[u]) /\ header[v] = Header(mine[v])
      BY <1>1, <2>1 DEF IInv, Hashes
    <3>2. header[u].n2 = Cut(a, x.n2b) /\ header[v].n2 = Cut(b, x.n2b)
      BY <2>1, <3>1 DEF Header
    <3> QED
      BY <3>2 DEF Cut
  <2> QED
    BY <2>9, <2>10
<1> QED
  BY Invariant, <1>1, PTL

\* Without a wrap of nonce2 within its bytes, no header and nonce come twice.
LEMMA AdvanceStep ==
  ASSUME IInv, [Next]_vars, NEW w \in Workers,
         nonce'[w] # nonce[w], mine[w].id' = mine[w].id, jobIdx'[w] = jobIdx[w],
         wpc[w] = "try", mine[w].n2 + NWorkers < N2Max(mine[w].x.n2b)
  PROVE  \/ header'[w] = header[w] /\ nonce'[w] > nonce[w]
         \/ header'[w].n2 > header[w].n2
<1>0. TypeOK /\ Hashes
  BY DEF IInv
<1>1. ASSUME NEW u \in Workers, u # w, Worker(u) PROVE FALSE
  BY <1>0, <1>1, WorkerSteps
<1>2. CASE Load(w) \/ Fetch(w) \/ Idle(w) \/ RollFatal(w)
  BY <1>2 DEF Load, Fetch, CloneJob, CloneNone, CloneFatal, Idle, RollFatal
<1>3. CASE TryNonce(w)
  BY <1>0, <1>3, SizeAssumption DEF TryNonce, TypeOK
<1>4. CASE RollNonce2(w)
  <2> DEFINE x == mine[w].x
             n == mine[w].n2
  <2>1. Holds(w) /\ Usable(x) /\ header[w] = Header(mine[w])
    BY <1>0, <1>4 DEF RollNonce2, Hashes
  <2>2. header'[w] = Header(Rolled(w))
    BY <1>0, <1>4 DEF RollNonce2, TypeOK
  <2>3. Rolled(w).n2 = n + NWorkers /\ Rolled(w).x = x
    BY <1>0, MineTyped
  <2>4. /\ header[w].n2 = Cut(n, x.n2b)
        /\ header'[w].n2 = Cut(n + NWorkers, x.n2b)
    BY <2>1, <2>2, <2>3 DEF Header
  <2>5. NWorkers \in Nat \ {0} /\ n \in Nat /\ x \in Given
    <3>1. NWorkers \in Nat \ {0}
      BY SizeAssumption DEF Workers
    <3>2. mine[w] \in SlotType
      BY <1>0 DEF TypeOK
    <3> QED
      BY <3>1, <3>2 DEF SlotType
  <2>6. n + NWorkers < Base ^ x.n2b /\ Base ^ x.n2b \in Nat
    <3>1. Base ^ x.n2b \in Nat
      BY <2>1, <2>5, CutTyped
    <3>2. n + NWorkers < N2Max(x.n2b)
      OBVIOUS
    <3>3. ~(n + NWorkers < 0)
      BY <2>5
    <3> QED
      BY <3>1, <3>2, <3>3 DEF N2Max
  <2>7. Cut(n, x.n2b) = n /\ Cut(n + NWorkers, x.n2b) = n + NWorkers
    <3>1. n \in Nat /\ n + NWorkers \in Nat /\ n < Base ^ x.n2b
      BY <2>5, <2>6
    <3> QED
      BY <2>1, <2>5, <2>6, <3>1, CutTyped
  <2> QED
    BY <2>4, <2>5, <2>7
<1>5. CASE NetThread \/ UNCHANGED vars
  BY <1>5 DEF NetThread, Notify, Bump, NotifyFatal, SetDifficulty, DivideFatal,
     Subscribe, vars, workerVars
<1> QED
  BY <1>1, <1>2, <1>3, <1>4, <1>5 DEF Next, Worker, Search

\* While a worker keeps its job and nonce2 fits its bytes, what it hashes only
\* moves on, also where the nonce wraps (btc/mod.rs:219-226).
THEOREM LanesAdvance == Spec => LaneAdvances
<1>1. ASSUME IInv, [Next]_vars
      PROVE  [\A w \in Workers :
                nonce'[w] # nonce[w] /\ UNCHANGED <<mine[w].id, jobIdx[w]>>
                  /\ wpc[w] = "try" /\ mine[w].n2 + NWorkers < N2Max(mine[w].x.n2b) =>
                  \/ header'[w] = header[w] /\ nonce'[w] > nonce[w]
                  \/ header'[w].n2 > header[w].n2]_vars
  BY <1>1, AdvanceStep
<1> QED
  BY Invariant, <1>1, PTL DEF Spec, LaneAdvances

(***************************************************************************)
(* Refinement                                                              *)
(***************************************************************************)

Posted == IF Computes(slot) THEN slot.id ELSE 0
Held   == [w \in Workers |-> mine[w].id]

\* One step of the program, with the invariant, is a step of the board or none,
\* while the network thread lives.
LEMMA BoardStep ==
  IInv /\ [Next]_vars =>
    \/ npc' = "dead"
    \/ Posted' > Posted /\ Held' = Held
    \/ /\ Posted' = Posted
       /\ \E w \in Workers : Held[w] < Posted /\ Held' = [Held EXCEPT ![w] = Posted]
    \/ Posted' = Posted /\ Held' = Held
<1> SUFFICES ASSUME IInv, [Next]_vars, npc' # "dead"
             PROVE  \/ Posted' > Posted /\ Held' = Held
                    \/ /\ Posted' = Posted
                       /\ \E w \in Workers :
                            Held[w] < Posted /\ Held' = [Held EXCEPT ![w] = Posted]
                    \/ Posted' = Posted /\ Held' = Held
  OBVIOUS
<1>0. TypeOK /\ Numbered /\ Behind
  BY DEF IInv
<1>t. /\ jobsc \in Nat /\ jobsc >= 1 /\ MaxJobs \in Nat
      /\ slot.id \in Nat /\ \A w \in Workers : mine[w].id \in Nat
  BY <1>0, SizeAssumption DEF TypeOK, SlotType
<1>1. CASE Notify
  <2>1. Computes(slot') /\ slot'.id = jobsc + 1
    BY <1>0, <1>1, NotifyStores
  <2>2. Computes(slot) => slot.id = jobsc
    BY <1>0, <1>1 DEF Notify, Numbered
  <2> QED
    BY <1>1, <1>t, <2>1, <2>2 DEF Notify, workerVars, Posted, Held
<1>2. CASE Bump
  BY <1>2 DEF Bump, workerVars, Posted, Held
<1>3. CASE InPlace /\ UNCHANGED workerVars
  BY <1>3 DEF InPlace, workerVars, Posted, Held
<1>4. ASSUME NEW d \in Diffs, SetDifficulty(d) \/ DivideFatal(d)
      PROVE  Posted' = Posted /\ Held' = Held
  <2>1. SetDifficulty(d)
    BY <1>4 DEF DivideFatal
  <2> QED
    BY <1>0, <1>3, <2>1, DifficultyInPlace DEF SetDifficulty, InPlace, workerVars, Posted, Held
<1>5. ASSUME NEW x \in Extranonces, Subscribe(x)
      PROVE  Posted' = Posted /\ Held' = Held
  BY <1>0, <1>5, SubscribeInPlace DEF Subscribe, InPlace, workerVars, Posted, Held
<1>6. ASSUME NEW w \in Workers, Worker(w)
      PROVE  /\ Posted' = Posted
             /\ \/ Held[w] < Posted /\ Held' = [Held EXCEPT ![w] = Posted]
                \/ Held' = Held
  <2>1. /\ UNCHANGED netVars
        /\ \A u \in Workers \ {w} : mine'[u] = mine[u]
        /\ Keeps(w) \/ Fetches(w) \/ FindsNone(w) \/ Rolls(w)
    BY <1>0, <1>6, WorkerSteps DEF Kept
  <2>2. Posted' = Posted /\ npc # "dead"
    BY <2>1 DEF Posted, netVars
  <2>3. CASE mine'[w].id = mine[w].id
    BY <2>1, <2>2, <2>3 DEF Held
  <2>4. CASE Fetches(w) \/ FindsNone(w)
    <3>1. mine'[w].id = Posted
      BY <1>0, <2>4, MineTyped, SleepTyped DEF Fetches, FindsNone, Posted, None
    <3>2. Held' = [Held EXCEPT ![w] = Posted]
      BY <2>1, <3>1 DEF Held
    <3>3. Held[w] = mine[w].id /\ Held[w] \in Nat /\ Posted \in Nat
      BY <1>t DEF Held, Posted
    <3>4. Held[w] <= Posted
      <4>1. CASE mine[w] = None
        BY <4>1, <3>3, SleepTyped DEF None
      <4>2. CASE mine[w] # None
        BY <4>2, <1>0, <1>t, <2>2, <3>3 DEF Behind, Posted
      <4> QED
        BY <4>1, <4>2
    <3>5. CASE Held[w] = Posted
      <4>1. mine'[w].id = mine[w].id
        BY <3>1, <3>3, <3>5
      <4> QED
        BY <4>1, <2>3
    <3>6. CASE Held[w] < Posted
      BY <2>2, <3>2, <3>6
    <3> QED
      BY <3>3, <3>4, <3>5, <3>6
  <2>5. CASE Keeps(w) \/ Rolls(w)
    <3>1. mine'[w].id = mine[w].id
      BY <1>0, <2>5, MineTyped DEF Keeps, Kept, Rolls
    <3> QED
      BY <3>1, <2>3
  <2> QED
    BY <2>1, <2>4, <2>5
<1>7. CASE UNCHANGED vars
  BY <1>7 DEF vars, netVars, workerVars, Posted, Held
<1>8. CASE NotifyFatal
  BY <1>8 DEF NotifyFatal
<1> QED
  BY <1>1, <1>2, <1>4, <1>5, <1>6, <1>7, <1>8 DEF Next, NetThread

\* Until a panic empties the slot, handing jobs to the workers implements
\* JobBoard: jobs are posted in order, a worker takes the one in the slot only,
\* and never goes back.
THEOREM BoardImplemented == Spec => ImplementsBoard
<1>1. Init => Board!BoardInit
  BY SleepTyped DEF Init, Board!BoardInit, None
<1>2. IInv /\ [Next]_vars =>
        [npc' = "dead" \/ Board!BoardNext \/ UNCHANGED Board!board]_vars
  BY BoardStep
  DEF Posted, Held, Board!BoardNext, Board!Post, Board!Adopt, Board!board
<1> QED
  BY Invariant, <1>1, <1>2, PTL DEF Spec, ImplementsBoard

=============================================================================
