------------------------------ MODULE CkbProofs ------------------------------
(***************************************************************************)
(* Proofs about CkbMiner for every number of workers, of jobs and of       *)
(* digits: the worker's job is the slot's, the hand-over of jobs           *)
(* implements JobBoard, the nonces are the extranonce's as far as there is   *)
(* room behind it, and no worker leaves its lane.                          *)
(***************************************************************************)
EXTENDS CkbMiner, NumberLemmas, TLAPS

LEMMA SpacePositive == Space \in Nat \ {0}
  BY PowerAssumption, SizeAssumption DEF Space

\* u128 addition stays within 128 bits.
LEMMA PlusTyped == \A a, b \in Int : Plus(a, b) \in 0..(Space - 1)
  BY SpacePositive DEF Plus

\* What parse_nonce returns is a nonce and a number of digits.
LEMMA ParseTyped ==
  ASSUME NEW x \in Prefixes
  PROVE  /\ x.n1 \in Nat /\ x.n1b \in 0..Digits
         /\ ParseNonce(x) \in 0..(Space - 1)
         /\ Suffix(x.n1b) \in Nat \ {0}
         /\ ParseNonce(x) + Suffix(x.n1b) <= Space
<1> DEFINE p == Base ^ x.n1b
           s == Suffix(x.n1b)
<1>1. x.n1b \in 0..Digits /\ x.n1 \in 0..(p - 1)
  <2>1. CASE x \in Extranonces
    BY <2>1, ExtranonceAssumption
  <2>2. CASE x = [n1 |-> 0, n1b |-> 0]
    <3>1. x.n1b = 0 /\ 0 \in 0..Digits /\ x.n1 = 0
      BY <2>2, SizeAssumption
    <3>2. p \in Nat \ {0}
      BY <3>1, PowerAssumption
    <3> QED
      BY <3>1, <3>2
  <2> QED
    BY <2>1, <2>2 DEF Prefixes
<1>2. p \in Nat \ {0} /\ p * s = Space
  BY <1>1, PowerAssumption DEF Suffix
<1>3. s \in Nat \ {0}
  <2>1. Digits - x.n1b \in 0..Digits
    BY <1>1, SizeAssumption
  <2> QED
    BY <2>1, PowerAssumption DEF Suffix
<1>4. x.n1 * s \in Nat /\ x.n1 * s + s <= Space
  <2> HIDE DEF p, s
  <2>1. x.n1 \in Nat /\ x.n1 < p
    BY <1>1, <1>2
  <2> QED
    BY <2>1, <1>2, <1>3, PrefixBound
<1> QED
  BY <1>1, <1>2, <1>3, <1>4, SpacePositive DEF ParseNonce

(***************************************************************************)
(* The invariant                                                           *)
(***************************************************************************)

\* The slot's job has the counter's number, or the next one while the counter
\* is about to be bumped; no worker is ahead of the counter.
Numbered ==
  /\ npc = "bump" => Computes(slot) /\ slot.id = jobsc + 1 /\ jobsc <= MaxJobs
  /\ npc # "bump" /\ Computes(slot) => slot.id = jobsc
  /\ \A w \in Workers : idx2[w] <= jobsc /\ jobIdx[w] <= jobsc

\* What a worker mines was in the slot, which holds a job ever since.
Behind ==
  \A w \in Workers :
    \/ mine[w] = None
    \/ Holds(w) /\ Computes(slot) /\ mine[w].id <= slot.id

IInv == TypeOK /\ Numbered /\ Behind /\ WorkerCurrent

LEMMA SleepTyped == Sleep \in SlotType /\ ~Computes(Sleep) /\ Sleep.id = 0
<1>1. 0 \in 0..(MaxJobs + 1) /\ 0 \in 0..Digits
  BY SizeAssumption
<1> QED
  BY <1>1, SpacePositive DEF Sleep, Slot, SlotType, Computes

LEMMA InitIInv == Init => IInv
<1> SUFFICES ASSUME Init PROVE IInv
  OBVIOUS
<1>1. TypeOK
  <2>1. 0 \in 0..(MaxJobs + 1) /\ 0 \in 0..Digits /\ 0 \in 0..(Space - 1)
        /\ 1 \in 1..(MaxJobs + 1)
    BY SizeAssumption, SpacePositive
  <2> QED
    BY <2>1, SleepTyped, SizeAssumption DEF Init, TypeOK, SessionType, None
<1>2. Numbered /\ Behind /\ WorkerCurrent
  BY SleepTyped DEF Init, Numbered, Behind, WorkerCurrent, None
<1> QED
  BY <1>1, <1>2 DEF IInv

\* The job that notify stores.
LEMMA NewJobTyped ==
  ASSUME TypeOK, jobsc <= MaxJobs, NEW r \in 0..RandMax
  PROVE  NewJob(r) \in SlotType /\ Computes(NewJob(r)) /\ NewJob(r).id = jobsc + 1
<1>1. Plus(slot.nonce, r) \in 0..(Space - 1)
  <2>1. slot.nonce \in Int /\ r \in Int
    BY SpacePositive, SizeAssumption DEF TypeOK, SlotType
  <2> QED
    BY <2>1, PlusTyped
<1>2. jobsc + 1 \in 0..(MaxJobs + 1)
  BY SizeAssumption DEF TypeOK
<1> QED
  BY <1>1, <1>2 DEF NewJob, Slot, SlotType, Computes, TypeOK

\* Target and extranonce change the slot in place: what they leave is typed,
\* holds a job if there was one, and the same.
LEMMA SlotInPlace ==
  ASSUME TypeOK
  PROVE  /\ \A t \in Targets : SetTarget(t) =>
              /\ slot' \in SlotType /\ Computes(slot') = Computes(slot)
              /\ Computes(slot) => slot'.id = slot.id
         /\ \A x \in Extranonces : Subscribe(x) =>
              /\ slot' \in SlotType /\ Computes(slot') = Computes(slot)
              /\ Computes(slot) => slot'.id = slot.id
<1>1. 0 \in 0..(MaxJobs + 1) /\ 0 \in 0..Digits /\ 0 \in 0..(Space - 1)
  BY SizeAssumption, SpacePositive
<1>2. ASSUME NEW t \in Targets, SetTarget(t)
      PROVE  /\ slot' \in SlotType /\ Computes(slot') = Computes(slot)
             /\ Computes(slot) => slot'.id = slot.id
  BY <1>1, <1>2 DEF SetTarget, Slot, SlotType, Computes, TypeOK
<1>3. ASSUME NEW x \in Extranonces, Subscribe(x)
      PROVE  /\ slot' \in SlotType /\ Computes(slot') = Computes(slot)
             /\ Computes(slot) => slot'.id = slot.id
  BY <1>1, <1>3, ParseTyped DEF Subscribe, Slot, SlotType, Computes, TypeOK, Prefixes
<1> QED
  BY <1>2, <1>3

\* A worker's nonces stay within 128 bits.
LEMMA NoncesTyped ==
  ASSUME TypeOK, NEW w \in Workers
  PROVE  /\ FirstNonce(w, slot) \in 0..(Space - 1)
         /\ NextNonce(w) \in 0..(Space - 1)
<1>1. w \in Int /\ NWorkers \in Int
  BY SizeAssumption DEF Workers
<1>2. \A s \in SlotType : FirstNonce(w, s) \in 0..(Space - 1)
  BY <1>1, PlusTyped DEF FirstNonce, SlotType
<1>3. nonce[w] \in Int /\ mine[w] \in SlotType /\ slot \in SlotType
  BY SpacePositive DEF TypeOK
<1>4. Plus(nonce[w], NWorkers) \in 0..(Space - 1)
  BY <1>1, <1>3, PlusTyped
<1> QED
  BY <1>2, <1>3, <1>4 DEF NextNonce

LEMMA TypeOKStep == IInv /\ [Next]_vars => TypeOK'
<1> SUFFICES ASSUME IInv, [Next]_vars
             PROVE  TypeOK'
  OBVIOUS
<1> USE DEF TypeOK
<1>0. TypeOK
  BY DEF IInv
<1>1. ASSUME NEW r \in 0..RandMax, Notify(r) PROVE TypeOK'
  <2>1. session' \in SessionType
    BY <1>0, <1>1, SizeAssumption DEF Notify, SessionType
  <2> QED
    BY <1>0, <1>1, <2>1, NewJobTyped DEF Notify, workerVars
<1>2. CASE Bump
  <2>1. jobsc + 1 \in 1..(MaxJobs + 1)
    BY <1>0, <1>2, SizeAssumption DEF IInv, Numbered, Bump
  <2> QED
    BY <1>0, <1>2, <2>1 DEF Bump, workerVars
<1>3. CASE NotifyFatal \/ SubscribeFatal
  BY <1>0, <1>3 DEF NotifyFatal, SubscribeFatal, workerVars
<1>4. ASSUME NEW t \in Targets, SetTarget(t) PROVE TypeOK'
  <2>1. slot' \in SlotType
    BY <1>0, <1>4, SlotInPlace
  <2> QED
    BY <1>0, <1>4, <2>1 DEF SetTarget, workerVars, SessionType
<1>5. ASSUME NEW x \in Extranonces, Subscribe(x) PROVE TypeOK'
  <2>1. slot' \in SlotType
    BY <1>0, <1>5, SlotInPlace
  <2>2. x.n1 \in Nat /\ x.n1b \in 0..Digits
    BY ParseTyped DEF Prefixes
  <2> QED
    BY <1>0, <1>5, <2>1, <2>2 DEF Subscribe, workerVars, SessionType
<1>6. ASSUME NEW w \in Workers, Load(w) PROVE TypeOK'
  <2>1. jobsc \in 0..(MaxJobs + 1)
    BY <1>0, SizeAssumption
  <2> QED
    BY <1>0, <1>6, <2>1 DEF Load, netVars
<1>7. ASSUME NEW w \in Workers, Clone(w) PROVE TypeOK'
  BY <1>0, <1>7, NoncesTyped, SleepTyped, SizeAssumption DEF Clone, netVars, None
<1>8. ASSUME NEW w \in Workers, CloneFatal(w) \/ Try(w) PROVE TypeOK'
  <2>1. NextTries(w) \in 0..MaxTries
    BY <1>0, SizeAssumption DEF NextTries
  <2> QED
    BY <1>0, <1>8, <2>1, NoncesTyped DEF CloneFatal, Try, netVars
<1>9. CASE UNCHANGED vars
  BY <1>0, <1>9 DEF vars, netVars, workerVars
<1> QED
  BY <1>1, <1>2, <1>3, <1>4, <1>5, <1>6, <1>7, <1>8, <1>9
  DEF Next, NetThread, Worker

\* The counter, the slot and the workers move on together.
LEMMA JobsStep == IInv /\ [Next]_vars => Numbered' /\ Behind' /\ WorkerCurrent'
<1> SUFFICES ASSUME IInv, [Next]_vars
             PROVE  Numbered' /\ Behind' /\ WorkerCurrent'
  OBVIOUS
<1> USE DEF Numbered, Behind, WorkerCurrent, Holds
<1>0. TypeOK /\ Numbered /\ Behind /\ WorkerCurrent
  BY DEF IInv
<1>t. /\ jobsc \in Nat /\ MaxJobs \in Nat
      /\ \A w \in Workers : idx2[w] \in Nat /\ jobIdx[w] \in Nat
      /\ slot.id \in Nat /\ \A w \in Workers : mine[w].id \in Nat
  BY <1>0, SizeAssumption DEF TypeOK, SlotType
<1>1. ASSUME NEW r \in 0..RandMax, Notify(r)
      PROVE  Numbered' /\ Behind' /\ WorkerCurrent'
  <2>1. /\ jobsc <= MaxJobs
        /\ Computes(slot') /\ slot'.id = jobsc + 1 /\ npc' = "bump"
    BY <1>0, <1>1, <1>t, NewJobTyped DEF Notify
  <2>2. Computes(slot) => slot.id = jobsc
    BY <1>0, <1>1 DEF Notify
  <2> QED
    BY <1>0, <1>1, <1>t, <2>1, <2>2 DEF Notify, workerVars
<1>2. CASE Bump
  BY <1>0, <1>2, <1>t DEF Bump, workerVars
<1>3. CASE NotifyFatal \/ SubscribeFatal
  BY <1>0, <1>3 DEF NotifyFatal, SubscribeFatal, workerVars
<1>4. ASSUME NEW t \in Targets, SetTarget(t)
      PROVE  Numbered' /\ Behind' /\ WorkerCurrent'
  <2>1. Computes(slot') = Computes(slot) /\ (Computes(slot) => slot'.id = slot.id)
    BY <1>0, <1>4, SlotInPlace
  <2> QED
    BY <1>0, <1>4, <2>1 DEF SetTarget, workerVars
<1>5. ASSUME NEW x \in Extranonces, Subscribe(x)
      PROVE  Numbered' /\ Behind' /\ WorkerCurrent'
  <2>1. Computes(slot') = Computes(slot) /\ (Computes(slot) => slot'.id = slot.id)
    BY <1>0, <1>5, SlotInPlace
  <2> QED
    BY <1>0, <1>5, <2>1 DEF Subscribe, workerVars
<1>6. ASSUME NEW w \in Workers, Load(w)
      PROVE  Numbered' /\ Behind' /\ WorkerCurrent'
  BY <1>0, <1>6, <1>t DEF Load, netVars, TypeOK
<1>7. ASSUME NEW w \in Workers, Clone(w)
      PROVE  Numbered' /\ Behind' /\ WorkerCurrent'
  <2>1. /\ mine'[w] = IF Computes(slot) THEN slot ELSE None
        /\ jobIdx'[w] = idx2[w]
        /\ \A u \in Workers \ {w} : mine'[u] = mine[u] /\ jobIdx'[u] = jobIdx[u]
        /\ UNCHANGED <<slot, jobsc, npc, idx2>>
    BY <1>0, <1>7 DEF Clone, netVars, TypeOK
  <2>2. ~Computes(None)
    BY SleepTyped DEF None
  <2> QED
    BY <1>0, <1>t, <2>1, <2>2 DEF Computes
<1>8. ASSUME NEW w \in Workers, CloneFatal(w) \/ Try(w)
      PROVE  Numbered' /\ Behind' /\ WorkerCurrent'
  BY <1>0, <1>8 DEF CloneFatal, Try, netVars
<1>9. CASE UNCHANGED vars
  BY <1>0, <1>9 DEF vars, netVars, workerVars
<1> QED
  BY <1>1, <1>2, <1>3, <1>4, <1>5, <1>6, <1>7, <1>8, <1>9
  DEF Next, NetThread, Worker

LEMMA Invariant == Spec => []IInv
<1>1. IInv /\ [Next]_vars => IInv'
  BY TypeOKStep, JobsStep DEF IInv
<1> QED
  BY InitIInv, <1>1, PTL DEF Spec

\* Every reachable state is well typed; above all no nonce exceeds its bits.
THEOREM TypeCorrect == Spec => []TypeOK
<1>1. IInv => TypeOK
  BY DEF IInv
<1> QED
  BY Invariant, <1>1, PTL

\* A worker that has seen the current counter mines the job in the slot
\* (ckb/mod.rs:89-90 and 168-177), with any number of workers and jobs.
THEOREM WorkersCurrent == Spec => []WorkerCurrent
<1>1. IInv => WorkerCurrent
  BY DEF IInv
<1> QED
  BY Invariant, <1>1, PTL

(***************************************************************************)
(* Refinement                                                              *)
(***************************************************************************)

Posted == IF Computes(slot) THEN slot.id ELSE 0
Held   == [w \in Workers |-> mine[w].id]

\* One step of the program, with the invariant, is a step of the board or none.
LEMMA BoardStep ==
  IInv /\ [Next]_vars =>
    \/ Posted' > Posted /\ Held' = Held
    \/ /\ Posted' = Posted
       /\ \E w \in Workers : Held[w] < Posted /\ Held' = [Held EXCEPT ![w] = Posted]
    \/ Posted' = Posted /\ Held' = Held
<1> SUFFICES ASSUME IInv, [Next]_vars
             PROVE  \/ Posted' > Posted /\ Held' = Held
                    \/ /\ Posted' = Posted
                       /\ \E w \in Workers :
                            Held[w] < Posted /\ Held' = [Held EXCEPT ![w] = Posted]
                    \/ Posted' = Posted /\ Held' = Held
  OBVIOUS
<1>0. TypeOK /\ Numbered /\ Behind
  BY DEF IInv
<1>t. /\ jobsc \in Nat /\ jobsc >= 1 /\ MaxJobs \in Nat
      /\ slot.id \in Nat /\ \A w \in Workers : mine[w].id \in Nat
  BY <1>0, SizeAssumption DEF TypeOK, SlotType
<1>1. ASSUME NEW r \in 0..RandMax, Notify(r)
      PROVE  Posted' > Posted /\ Held' = Held
  <2>1. Computes(slot') /\ slot'.id = jobsc + 1
    BY <1>0, <1>1, NewJobTyped DEF Notify
  <2>2. Computes(slot) => slot.id = jobsc
    BY <1>0, <1>1 DEF Notify, Numbered
  <2> QED
    BY <1>1, <1>t, <2>1, <2>2 DEF Notify, workerVars, Posted, Held
<1>2. CASE Bump \/ NotifyFatal \/ SubscribeFatal
  BY <1>2 DEF Bump, NotifyFatal, SubscribeFatal, workerVars, Posted, Held
<1>3. ASSUME NEW t \in Targets, SetTarget(t)
      PROVE  Posted' = Posted /\ Held' = Held
  <2>1. Computes(slot') = Computes(slot) /\ (Computes(slot) => slot'.id = slot.id)
    BY <1>0, <1>3, SlotInPlace
  <2> QED
    BY <1>3, <2>1 DEF SetTarget, workerVars, Posted, Held
<1>4. ASSUME NEW x \in Extranonces, Subscribe(x)
      PROVE  Posted' = Posted /\ Held' = Held
  <2>1. Computes(slot') = Computes(slot) /\ (Computes(slot) => slot'.id = slot.id)
    BY <1>0, <1>4, SlotInPlace
  <2> QED
    BY <1>4, <2>1 DEF Subscribe, workerVars, Posted, Held
<1>5. ASSUME NEW w \in Workers, Load(w) \/ CloneFatal(w) \/ Try(w)
      PROVE  Posted' = Posted /\ Held' = Held
  BY <1>5 DEF Load, CloneFatal, Try, netVars, Posted, Held
<1>6. ASSUME NEW w \in Workers, Clone(w)
      PROVE  /\ Posted' = Posted
             /\ \/ Held[w] < Posted /\ Held' = [Held EXCEPT ![w] = Posted]
                \/ Held' = Held
  <2>1. /\ slot' = slot
        /\ mine' = [mine EXCEPT ![w] = IF Computes(slot) THEN slot ELSE None]
    BY <1>6 DEF Clone, netVars
  <2>2. Posted' = Posted
    BY <2>1 DEF Posted
  <2>3. Held' = [Held EXCEPT ![w] = Posted]
    <3>1. mine'[w].id = Posted /\ \A u \in Workers \ {w} : mine'[u].id = mine[u].id
      BY <2>1, <1>0, SleepTyped DEF Posted, None, TypeOK
    <3> QED
      BY <3>1 DEF Held
  <2>4. Held[w] = mine[w].id /\ Held[w] \in Nat /\ Posted \in Nat
    BY <1>t DEF Held, Posted
  <2>5. Held[w] <= Posted
    <3>1. CASE mine[w] = None
      BY <3>1, <2>4, SleepTyped DEF None
    <3>2. CASE mine[w] # None
      BY <3>2, <1>0, <1>t, <2>4 DEF Behind, Posted
    <3> QED
      BY <3>1, <3>2
  <2>6. CASE Held[w] = Posted
    <3>1. Held' = Held
      BY <2>3, <2>6 DEF Held
    <3> QED
      BY <3>1, <2>2
  <2>7. CASE Held[w] < Posted
    BY <2>2, <2>3, <2>7
  <2> QED
    BY <2>4, <2>5, <2>6, <2>7
<1>7. CASE UNCHANGED vars
  BY <1>7 DEF vars, netVars, workerVars, Posted, Held
<1> QED
  BY <1>1, <1>2, <1>3, <1>4, <1>5, <1>6, <1>7 DEF Next, NetThread, Worker

\* Handing jobs to the workers implements JobBoard: jobs are posted in order, a
\* worker takes the job in the slot only, and never goes back.
THEOREM BoardImplemented == Spec => ImplementsBoard
<1>1. Init => Board!BoardInit
  BY SleepTyped DEF Init, Board!BoardInit, None
<1>2. IInv /\ [Next]_vars => [Board!BoardNext]_(Board!board)
  BY BoardStep
  DEF Posted, Held, Board!BoardNext, Board!Post, Board!Adopt, Board!board
<1> QED
  BY Invariant, <1>1, <1>2, PTL DEF Spec, ImplementsBoard, Board!BoardSpec

(***************************************************************************)
(* Nonces                                                                  *)
(***************************************************************************)

\* The session's extranonce is one the pool has sent, or none yet.
Given(s) == \E x \in Prefixes : s.n1 = x.n1 /\ s.n1b = x.n1b

\* Before the pool has said anything the session is empty too.
SessionKept ==
  /\ Given(session) /\ SlotCarriesSession
  /\ slot.kind = "sleep" => session.n1 = 0 /\ session.n1b = 0
                              /\ session.target = NoTarget /\ session.drawn = 0

\* A worker is at the nonce of its lane that it has come to, in a job that had
\* the session's nonce when it was cloned.
InLane(w) ==
  /\ Given(from[w]) /\ mine[w].n1b = from[w].n1b
  /\ mine[w].nonce = Plus(ParseNonce(from[w]), from[w].drawn)
  /\ nonce[w] = Plus(mine[w].nonce, w + tries[w] * NWorkers)

NonceInv == SessionKept /\ \A w \in Workers : Holds(w) => InLane(w)

\* What is known of the extranonce of a session.
LEMMA GivenTyped ==
  ASSUME NEW s, Given(s)
  PROVE  /\ s.n1 \in Nat /\ s.n1b \in 0..Digits
         /\ ParseNonce(s) = s.n1 * Suffix(s.n1b)
         /\ ParseNonce(s) \in 0..(Space - 1)
         /\ Suffix(s.n1b) \in Nat \ {0}
         /\ ParseNonce(s) + Suffix(s.n1b) <= Space
<1>1. PICK x \in Prefixes : s.n1 = x.n1 /\ s.n1b = x.n1b
  BY DEF Given
<1>2. ParseNonce(s) = ParseNonce(x)
  BY <1>1 DEF ParseNonce
<1> QED
  BY <1>1, <1>2, ParseTyped DEF ParseNonce

\* Wrapping sums add up.
LEMMA PlusPlus ==
  ASSUME NEW a \in Int, NEW b \in Int, NEW d \in Int
  PROVE  Plus(Plus(a, b), d) = Plus(a, b + d)
<1> DEFINE q == (a + b) \div Space
           t == (a + b) % Space
<1>1. q \in Int /\ t \in 0..(Space - 1) /\ a + b = q * Space + t /\ a + b \in Int
  <2>1. a + b \in Int
    OBVIOUS
  <2> QED
    BY <2>1, SpacePositive, Euclid
<1> HIDE DEF q, t
<1>2. (t + d) + q * Space = a + (b + d)
  <2> DEFINE k == q * Space
  <2>1. k \in Int
    BY <1>1, SpacePositive, SMT
  <2>2. a + b = k + t
    BY <1>1
  <2> HIDE DEF k
  <2>3. (t + d) + k = a + (b + d)
    BY <1>1, <2>1, <2>2
  <2> QED
    BY <2>3 DEF k
<1>3. t + d \in Int
  BY <1>1, SpacePositive
<1>4. ((t + d) + q * Space) % Space = (t + d) % Space
  BY <1>1, <1>3, SpacePositive, RestMultiple
<1> QED
  BY <1>2, <1>4 DEF Plus, t

\* Only what is added modulo the size of the numbers counts.
LEMMA PlusRest ==
  ASSUME NEW a \in Int, NEW d \in Int
  PROVE  Plus(a, d) = Plus(a, d % Space) /\ d % Space \in 0..(Space - 1)
<1> DEFINE q == d \div Space
           t == d % Space
<1>1. q \in Int /\ t \in 0..(Space - 1) /\ d = q * Space + t
  BY SpacePositive, Euclid
<1> HIDE DEF q, t
<1>2. a + d = (a + t) + q * Space /\ a + t \in Int
  <2> DEFINE k == q * Space
  <2>1. k \in Int /\ d = k + t
    BY <1>1, SpacePositive, SMT
  <2> HIDE DEF k
  <2>2. a + d = (a + t) + k /\ a + t \in Int
    BY <1>1, <2>1, SpacePositive
  <2> QED
    BY <2>2 DEF k
<1>3. ((a + t) + q * Space) % Space = (a + t) % Space
  BY <1>1, <1>2, SpacePositive, RestMultiple
<1> QED
  BY <1>1, <1>2, <1>3 DEF Plus, t

\* The digits behind the extranonce, put behind it again, are the sum that was
\* formed exactly if what was added has room there.
LEMMA Spill ==
  ASSUME NEW s, Given(s), NEW o \in 0..(Space - 1),
         NEW n, n = Plus(ParseNonce(s), o)
  PROVE  ParseNonce(s) + (n % Suffix(s.n1b)) = n <=> o < Suffix(s.n1b)
<1> DEFINE x == ParseNonce(s)
           z == Suffix(s.n1b)
<1>1. /\ s.n1 \in Nat /\ x = s.n1 * z /\ x \in Nat /\ z \in Nat \ {0}
      /\ x + z <= Space /\ x < Space
  BY GivenTyped, SpacePositive
<1>2. n = (x + o) % Space /\ n \in 0..(Space - 1)
  BY <1>1, PlusTyped, SpacePositive DEF Plus
<1>3. n % z \in 0..(z - 1)
  <2>1. n \in Nat
    BY <1>2, SpacePositive
  <2> QED
    BY <1>1, <2>1, DivNat
<1> HIDE DEF x, z
<1>4. CASE o < z
  <2>1. n = x + o
    <3>1. x + o \in 0..(Space - 1)
      BY <1>1, <1>4, SpacePositive
    <3> QED
      BY <1>2, <3>1, RestOnce, SpacePositive
  <2>2. n % z = o
    <3>1. o \in 0..(z - 1) /\ n \in Int /\ s.n1 \in Int /\ n = s.n1 * z + o
      BY <1>1, <1>2, <1>4, <2>1, SpacePositive
    <3> QED
      BY <1>1, <3>1, DivMod
  <2> QED
    BY <1>4, <2>1, <2>2 DEF x, z
<1>5. CASE ~(o < z)
  <2>1. n = x + o \/ n = x + o - Space
    <3>1. CASE x + o < Space
      <4>1. x + o \in 0..(Space - 1)
        BY <1>1, <3>1, SpacePositive
      <4> QED
        BY <1>2, <4>1, RestOnce, SpacePositive
    <3>2. CASE ~(x + o < Space)
      <4>1. x + o - Space \in 0..(Space - 1)
        BY <1>1, <3>2, SpacePositive
      <4>2. ((x + o - Space) + Space) % Space = x + o - Space
        BY <4>1, SpacePositive, RestOnce
      <4>3. (x + o - Space) + Space = x + o
        BY <1>1, SpacePositive
      <4> QED
        BY <1>2, <4>2, <4>3
    <3> QED
      BY <3>1, <3>2
  <2>2. x + (n % z) # n
    <3>1. n < x \/ n >= x + z
      BY <1>1, <1>2, <1>5, <2>1, SpacePositive
    <3> DEFINE e == n % z
    <3>2. e \in Int /\ 0 <= e /\ e < z
      BY <1>1, <1>3
    <3> HIDE DEF e
    <3>3. x + e # n
      BY <1>1, <1>2, <3>1, <3>2, SpacePositive
    <3> QED
      BY <3>3 DEF e
  <2> QED
    BY <1>5, <2>2 DEF x, z
<1> QED
  BY <1>4, <1>5

\* Workers' numbers and steps.
LEMMA LaneRoom ==
  ASSUME NEW w \in Workers, NEW k \in 0..MaxTries
  PROVE  /\ NWorkers \in Nat \ {0} /\ w \in Nat /\ k * NWorkers \in Nat
         /\ w + k * NWorkers < Space
<1>1. NWorkers \in Nat \ {0} /\ MaxTries \in Nat /\ w \in 0..(NWorkers - 1)
  BY SizeAssumption DEF Workers
<1> DEFINE a == k * NWorkers
           b == MaxTries * NWorkers
           e == NWorkers * (MaxTries + 2)
<1>2. a \in Nat /\ a <= b /\ b \in Nat
  BY <1>1, SMT
<1>3. e = b + NWorkers + NWorkers
  BY <1>1, SMT
<1>4. e < Space
  BY LaneAssumption
<1> HIDE DEF a, b, e
<1>5. w + a < Space
  BY <1>1, <1>2, <1>3, <1>4, SpacePositive
<1> QED
  BY <1>1, <1>2, <1>5 DEF a

LEMMA InitNonceInv == Init => NonceInv
<1> SUFFICES ASSUME Init PROVE NonceInv
  OBVIOUS
<1>1. /\ session.n1 = 0 /\ session.n1b = 0 /\ session.target = NoTarget
      /\ session.drawn = 0 /\ slot.kind = "sleep"
  BY SleepTyped DEF Init, Sleep, Slot
<1>2. Given(session)
  <2>1. [n1 |-> 0, n1b |-> 0] \in Prefixes
    BY DEF Prefixes
  <2> QED
    BY <1>1, <2>1 DEF Given
<1>3. SessionKept
  BY <1>1, <1>2 DEF SessionKept, SlotCarriesSession
<1>4. \A w \in Workers : ~Holds(w)
  BY SleepTyped DEF Init, Holds, None
<1> QED
  BY <1>3, <1>4 DEF NonceInv

LEMMA SessionStep == IInv /\ NonceInv /\ [Next]_vars => SessionKept'
<1> SUFFICES ASSUME IInv, NonceInv, [Next]_vars
             PROVE  SessionKept'
  OBVIOUS
<1> USE DEF SessionKept, SlotCarriesSession
<1>0. TypeOK /\ SessionKept
  BY DEF IInv, NonceInv
<1>t. /\ slot.nonce \in 0..(Space - 1) /\ session.drawn \in Nat
      /\ session.n1 \in Nat /\ session.n1b \in 0..Digits
      /\ ParseNonce(session) \in 0..(Space - 1)
  BY <1>0, GivenTyped DEF TypeOK, SlotType, SessionType
<1>1. ASSUME NEW r \in 0..RandMax, Notify(r)
      PROVE  SessionKept'
  <2>1. /\ slot.kind # "sleep"
        /\ slot'.kind = "compute" /\ slot'.n1b = slot.n1b
        /\ slot'.target = slot.target /\ slot'.nonce = Plus(slot.nonce, r)
    BY <1>1 DEF Notify, NewJob, Slot
  <2>2. /\ session'.n1 = session.n1 /\ session'.n1b = session.n1b
        /\ session'.target = session.target
        /\ session'.drawn = session.drawn + r
    BY <1>0, <1>1 DEF Notify, TypeOK, SessionType
  <2>3. Plus(slot.nonce, r) = Plus(ParseNonce(session), session.drawn + r)
    <3>1. /\ r \in Int /\ session.drawn \in Int /\ ParseNonce(session) \in Int
      BY <1>t, SizeAssumption, SpacePositive
    <3>2. slot.nonce = Plus(ParseNonce(session), session.drawn)
      BY <1>0, <2>1
    <3>3. Plus(Plus(ParseNonce(session), session.drawn), r)
            = Plus(ParseNonce(session), session.drawn + r)
      BY <3>1, PlusPlus
    <3> QED
      BY <3>2, <3>3
  <2>4. ParseNonce(session)' = ParseNonce(session)
    BY <2>2 DEF ParseNonce
  <2> QED
    BY <1>0, <2>1, <2>2, <2>3, <2>4 DEF Given
<1>2. CASE Bump \/ NotifyFatal \/ SubscribeFatal
  <2>1. slot' = slot /\ session' = session
    BY <1>2 DEF Bump, NotifyFatal, SubscribeFatal
  <2> QED
    BY <1>0, <2>1 DEF Given, ParseNonce
<1>3. ASSUME NEW t \in Targets, SetTarget(t)
      PROVE  SessionKept'
  <2>1. /\ session'.n1 = session.n1 /\ session'.n1b = session.n1b
        /\ session'.target = t /\ session'.drawn = session.drawn
    BY <1>0, <1>3 DEF SetTarget, TypeOK, SessionType
  <2>2. ParseNonce(session)' = ParseNonce(session) /\ Given(session)'
    BY <1>0, <2>1 DEF ParseNonce, Given
  <2>3. CASE slot.kind = "sleep"
    <3>1. /\ slot'.kind = "nonce1t" /\ slot'.n1b = 0 /\ slot'.target = t
          /\ slot'.nonce = 0
      BY <1>3, <2>3 DEF SetTarget, Slot
    <3>2. ParseNonce(session) = 0 /\ session.drawn = 0 /\ session.n1b = 0
      <4>1. /\ session.n1 = 0 /\ Suffix(session.n1b) \in Nat
            /\ ParseNonce(session) = session.n1 * Suffix(session.n1b)
        BY <1>0, <2>3, GivenTyped
      <4> QED
        BY <1>0, <2>3, <4>1
    <3>3. Plus(0, 0) = 0
      BY SpacePositive, RestOnce DEF Plus
    <3> QED
      BY <2>1, <2>2, <3>1, <3>2, <3>3
  <2>4. CASE slot.kind # "sleep"
    <3>1. /\ slot'.kind = slot.kind /\ slot'.target = t
          /\ slot'.nonce = slot.nonce /\ slot'.n1b = slot.n1b
      BY <1>0, <1>3, <2>4 DEF SetTarget, TypeOK, SlotType
    <3> QED
      BY <1>0, <2>1, <2>2, <2>4, <3>1
  <2> QED
    BY <2>3, <2>4
<1>4. ASSUME NEW x \in Extranonces, Subscribe(x)
      PROVE  SessionKept'
  <2>1. /\ session'.n1 = x.n1 /\ session'.n1b = x.n1b
        /\ session'.target = session.target /\ session'.drawn = 0
    BY <1>0, <1>4 DEF Subscribe, TypeOK, SessionType
  <2>2. /\ slot'.kind # "sleep" /\ slot'.n1b = x.n1b
        /\ slot'.nonce = ParseNonce(x) /\ slot'.target = session.target
    BY <1>0, <1>4 DEF Subscribe, TypeOK, SlotType, Slot
  <2>3. ParseNonce(session)' = ParseNonce(x) /\ Given(session)'
    BY <2>1 DEF ParseNonce, Given, Prefixes
  <2>4. Plus(ParseNonce(x), 0) = ParseNonce(x)
    <3>1. ParseNonce(x) \in 0..(Space - 1)
      BY ParseTyped DEF Prefixes
    <3>2. ParseNonce(x) + 0 = ParseNonce(x)
      BY <3>1, SpacePositive
    <3> QED
      BY <3>1, <3>2, SpacePositive, RestOnce DEF Plus
  <2> QED
    BY <2>1, <2>2, <2>3, <2>4
<1>5. ASSUME NEW w \in Workers, Worker(w)
      PROVE  SessionKept'
  <2>1. slot' = slot /\ session' = session
    BY <1>5 DEF Worker, Load, Clone, CloneFatal, Try, netVars
  <2> QED
    BY <1>0, <2>1 DEF Given, ParseNonce
<1>6. CASE UNCHANGED vars
  BY <1>0, <1>6 DEF vars, netVars, Given, ParseNonce
<1> QED
  BY <1>1, <1>2, <1>3, <1>4, <1>5, <1>6 DEF Next, NetThread

\* A worker that tries a nonce goes on to the next of its lane, or starts again.
LEMMA LaneKept ==
  ASSUME TypeOK, NEW w \in Workers, InLane(w)
  PROVE  NextNonce(w) = Plus(mine[w].nonce, w + NextTries(w) * NWorkers)
<1> DEFINE n == mine[w].nonce
           k == tries[w]
<1>t. /\ n \in Int /\ k \in 0..MaxTries /\ k \in Int /\ w \in Int /\ NWorkers \in Int
  BY SizeAssumption, SpacePositive DEF TypeOK, SlotType, Workers
<1>1. nonce[w] = Plus(n, w + k * NWorkers)
  BY DEF InLane
<1>2. CASE k = MaxTries
  <2>1. w + 0 * NWorkers = w
    BY <1>t, SMT
  <2> QED
    BY <1>2, <2>1 DEF NextNonce, NextTries, FirstNonce
<1>3. CASE k # MaxTries
  <2> DEFINE a == k * NWorkers
             b == (k + 1) * NWorkers
  <2>1. a \in Int /\ b = a + NWorkers
    BY <1>t, SMT
  <2>2. NextNonce(w) = Plus(Plus(n, w + a), NWorkers)
    BY <1>1, <1>3 DEF NextNonce
  <2>3. NextTries(w) = k + 1
    BY <1>3 DEF NextTries
  <2> HIDE DEF a, b, n, k
  <2>4. w + a \in Int /\ (w + a) + NWorkers = w + b
    BY <1>t, <2>1
  <2>5. Plus(Plus(n, w + a), NWorkers) = Plus(n, w + b)
    BY <1>t, <2>4, PlusPlus
  <2>6. NextNonce(w) = Plus(n, w + b)
    BY <2>2, <2>5
  <2> QED
    BY <2>3, <2>6 DEF b, n
<1> QED
  BY <1>2, <1>3

LEMMA LanesStep ==
  IInv /\ NonceInv /\ [Next]_vars => \A w \in Workers : Holds(w)' => InLane(w)'
<1> SUFFICES ASSUME IInv, NonceInv, [Next]_vars, NEW w \in Workers, Holds(w)'
             PROVE  InLane(w)'
  OBVIOUS
<1>0. TypeOK /\ SessionKept /\ (Holds(w) => InLane(w))
  BY DEF IInv, NonceInv
<1>1. CASE UNCHANGED <<mine, nonce, from, tries>>
  BY <1>0, <1>1 DEF Holds, InLane, Given, ParseNonce
<1>2. ASSUME NEW u \in Workers, u # w, Clone(u) \/ Try(u)
      PROVE  InLane(w)'
  <2>1. /\ mine'[w] = mine[w] /\ nonce'[w] = nonce[w]
        /\ from'[w] = from[w] /\ tries'[w] = tries[w]
    BY <1>0, <1>2 DEF Clone, Try, TypeOK
  <2> QED
    BY <1>0, <2>1 DEF Holds, InLane, Given, ParseNonce
<1>3. CASE Clone(w)
  <2>1. /\ mine'[w] = IF Computes(slot) THEN slot ELSE None
        /\ nonce'[w] = IF Computes(slot) THEN FirstNonce(w, slot) ELSE nonce[w]
        /\ from'[w] = IF Computes(slot) THEN session ELSE from[w]
        /\ tries'[w] = 0
    BY <1>0, <1>3 DEF Clone, TypeOK
  <2>2. /\ Computes(slot) /\ mine'[w] = slot /\ from'[w] = session
        /\ nonce'[w] = Plus(slot.nonce, w)
    BY <2>1, SleepTyped DEF Holds, None, FirstNonce
  <2>3. /\ Given(session) /\ slot.n1b = session.n1b
        /\ slot.nonce = Plus(ParseNonce(session), session.drawn)
    BY <1>0, <2>2 DEF SessionKept, SlotCarriesSession, Computes
  <2>4. w + 0 * NWorkers = w
    BY SizeAssumption, SMT DEF Workers
  <2> QED
    BY <2>1, <2>2, <2>3, <2>4 DEF InLane, Given, ParseNonce
<1>4. CASE Try(w)
  <2>1. /\ mine' = mine /\ from' = from
        /\ nonce'[w] = IF Holds(w) THEN NextNonce(w) ELSE nonce[w]
        /\ tries'[w] = IF Holds(w) THEN NextTries(w) ELSE tries[w]
    BY <1>0, <1>4 DEF Try, TypeOK
  <2>2. Holds(w) /\ InLane(w)
    BY <1>0, <2>1 DEF Holds
  <2>3. nonce'[w] = Plus(mine[w].nonce, w + tries'[w] * NWorkers)
    BY <1>0, <2>1, <2>2, LaneKept
  <2> QED
    BY <2>1, <2>2, <2>3 DEF InLane, Given, ParseNonce
<1>5. CASE NetThread
  BY <1>1, <1>5 DEF NetThread, Notify, Bump, NotifyFatal, SubscribeFatal,
     SetTarget, Subscribe, workerVars
<1>6. ASSUME NEW u \in Workers, Load(u) \/ CloneFatal(u) PROVE InLane(w)'
  BY <1>1, <1>6 DEF Load, CloneFatal
<1>7. CASE UNCHANGED vars
  BY <1>1, <1>7 DEF vars, workerVars
<1> QED
  BY <1>2, <1>3, <1>4, <1>5, <1>6, <1>7 DEF Next, Worker

LEMMA NonceInvariant == Spec => []NonceInv
<1>1. IInv /\ NonceInv /\ [Next]_vars => NonceInv'
  BY SessionStep, LanesStep DEF NonceInv
<1> QED
  BY Invariant, InitNonceInv, <1>1, PTL DEF Spec

\* Whatever the order of target, extranonce and jobs, the slot has what the pool
\* gave last and the offsets drawn since, however long the extranonce and however
\* many the jobs (ckb/mod.rs:65-148).
THEOREM SessionCarried == Spec => []SlotCarriesSession
<1>1. NonceInv => SlotCarriesSession
  BY DEF NonceInv, SessionKept
<1> QED
  BY NonceInvariant, <1>1, PTL

\* What a worker hashes is what the pool rebuilds from the share as long as all
\* that was added fits behind the extranonce, and is not once it does not, for
\* every length of the extranonce (ckb/mod.rs:77, ckb/proto.rs:84-87).
THEOREM SharesRebuilt == Spec => []ShareRebuilt
<1>1. ASSUME IInv, NonceInv PROVE ShareRebuilt
  <2>1. SUFFICES ASSUME NEW w \in Workers, Holds(w)
                 PROVE  Rebuilt(w) = nonce[w]
                          <=> Drift(w) % Space < Suffix(mine[w].n1b)
    BY DEF ShareRebuilt
  <2>2. InLane(w) /\ TypeOK
    BY <1>1, <2>1 DEF NonceInv, IInv
  <2> DEFINE s == from[w]
             a == tries[w] * NWorkers
             d == Drift(w)
  <2>3. /\ s.drawn \in Int /\ w \in Int /\ a \in Int /\ ParseNonce(s) \in Int
        /\ Given(s)
    <3>1. tries[w] \in 0..MaxTries
      BY <2>2 DEF TypeOK
    <3>2. w \in Nat /\ a \in Nat
      BY <3>1, LaneRoom
    <3>3. ParseNonce(s) \in Int
      BY <2>2, GivenTyped, SpacePositive DEF InLane
    <3> QED
      BY <2>2, <3>2, <3>3 DEF InLane, TypeOK, SessionType
  <2>4. nonce[w] = Plus(Plus(ParseNonce(s), s.drawn), w + a)
    BY <2>2 DEF InLane
  <2>5. d = s.drawn + (w + a) /\ d \in Int
    <3>1. d = s.drawn + w + a
      BY DEF Drift
    <3> HIDE DEF a, s, d
    <3> QED
      BY <2>3, <3>1
  <2>6. mine[w].n1b = s.n1b /\ Rebuilt(w) = ParseNonce(s) + (nonce[w] % Suffix(s.n1b))
    BY <2>2 DEF InLane, Rebuilt, Submitted, ParseNonce
  <2> HIDE DEF s, a, d
  <2>7. nonce[w] = Plus(ParseNonce(s), d)
    <3>1. w + a \in Int
      BY <2>3
    <3> QED
      BY <2>3, <2>4, <2>5, <3>1, PlusPlus
  <2>8. nonce[w] = Plus(ParseNonce(s), d % Space) /\ d % Space \in 0..(Space - 1)
    BY <2>3, <2>5, <2>7, PlusRest
  <2>9. ParseNonce(s) + (nonce[w] % Suffix(s.n1b)) = nonce[w] <=> d % Space < Suffix(s.n1b)
    BY <2>3, <2>8, Spill
  <2> QED
    BY <2>6, <2>9 DEF d
<1> QED
  BY Invariant, NonceInvariant, <1>1, PTL

\* Two workers on the same clone of a job never meet at a nonce, also when the
\* nonces wrap (ckb/mod.rs:180 and 197).
THEOREM LanesApart == Spec => []LanesDisjoint
<1>1. ASSUME IInv, NonceInv PROVE LanesDisjoint
  <2>1. SUFFICES ASSUME NEW u \in Workers, NEW v \in Workers,
                        u # v, Holds(u), Holds(v)
                 PROVE  (Offset(u) - Offset(v)) % NWorkers # 0
    BY DEF LanesDisjoint
  <2>2. ASSUME NEW w \in Workers, Holds(w)
        PROVE  Offset(w) = w + tries[w] * NWorkers /\ tries[w] \in 0..MaxTries
    <3> DEFINE a == tries[w] * NWorkers
    <3>1. tries[w] \in 0..MaxTries /\ nonce[w] = Plus(mine[w].nonce, w + a)
      BY <1>1, <2>2 DEF IInv, TypeOK, NonceInv, InLane
    <3>2. w \in Nat /\ a \in Nat /\ w + a < Space
      BY <3>1, LaneRoom
    <3>3. mine[w].nonce \in 0..(Space - 1)
      BY <1>1 DEF IInv, TypeOK, SlotType
    <3> HIDE DEF a
    <3>4. w + a \in Nat /\ (w + a) + 0 < Space
      BY <3>2, SpacePositive
    <3>5. (((mine[w].nonce + (w + a)) % Space) - mine[w].nonce) % Space = w + a
      <4>1. 0 \in Nat
        OBVIOUS
      <4> QED
        BY <3>3, <3>4, <4>1, SpacePositive, Wrapped
    <3>6. Offset(w) = w + a
      BY <3>1, <3>5 DEF Offset, Plus
    <3> QED
      BY <3>1, <3>6 DEF a
  <2>3. Offset(u) = u + tries[u] * NWorkers /\ Offset(v) = v + tries[v] * NWorkers
    BY <2>1, <2>2
  <2>4. /\ NWorkers \in Nat \ {0} /\ u \in 0..(NWorkers - 1) /\ v \in 0..(NWorkers - 1)
        /\ tries[u] \in Nat /\ tries[v] \in Nat
    BY <2>1, <2>2, SizeAssumption DEF Workers
  <2> DEFINE i == tries[u]
             j == tries[v]
             a == i * NWorkers
             b == j * NWorkers
             e == (i - j) * NWorkers
  <2>5. a \in Nat /\ b \in Nat /\ e = a - b
    BY <2>4, SMT
  <2>6. Offset(u) - Offset(v) = (u - v) + e
    <3>1. Offset(u) = u + a /\ Offset(v) = v + b
      BY <2>3
    <3> HIDE DEF a, b, e
    <3> QED
      BY <2>4, <2>5, <3>1
  <2>7. /\ u - v \in Int /\ u - v # 0 /\ -NWorkers < u - v /\ u - v < NWorkers
        /\ i - j \in Int
    BY <2>1, <2>4
  <2>8. ((u - v) + e) % NWorkers # 0
    <3> HIDE DEF i, j
    <3> QED
      BY <2>4, <2>7, RestNotZero
  <2> QED
    BY <2>6, <2>8
<1> QED
  BY Invariant, NonceInvariant, <1>1, PTL

=============================================================================
