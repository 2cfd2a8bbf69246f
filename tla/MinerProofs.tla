---------------------------- MODULE MinerProofs ----------------------------
(***************************************************************************)
(* Proofs about Miner for every channel capacity, period, set of job ids   *)
(* and number of shares; and about Proxy for every set of routes: the      *)
(* login goes out only through a tunnel that was opened, and what is       *)
(* proved of Miner holds of every way to connect.                          *)
(***************************************************************************)
EXTENDS Proxy, FiniteSetTheorems, FunctionTheorems, SequenceTheorems, TLAPS

\* Marking the messages of the channel as outdated changes no kind and no id.
LEMMA OutdatedTyped ==
  ASSUME NEW s \in Seq(Message)
  PROVE  LET t == [i \in 1..Len(s) |-> Outdated(s[i])]
         IN  /\ t \in Seq(Message) /\ Len(t) = Len(s)
             /\ \A i \in 1..Len(s) :
                  t[i].kind = s[i].kind /\ t[i].id = s[i].id
<1> DEFINE t == [i \in 1..Len(s) |-> Outdated(s[i])]
<1>1. \A i \in 1..Len(s) : s[i] \in Message
  BY ElementOfSeq
<1>2. \A i \in 1..Len(s) :
        /\ Outdated(s[i]) \in Message
        /\ Outdated(s[i]).kind = s[i].kind /\ Outdated(s[i]).id = s[i].id
  BY <1>1 DEF Outdated, Message
<1>3. t \in Seq(Message) /\ Len(t) = Len(s)
  BY <1>2
<1> QED
  BY <1>2, <1>3

(***************************************************************************)
(* Type correctness                                                        *)
(***************************************************************************)

\* Appending a message, when there is room, keeps the channel well typed.
LEMMA AppendTyped ==
  ASSUME TypeOK, NEW m \in Message, CanSend
  PROVE  /\ Append(chan, m) \in Seq(Message)
         /\ Len(Append(chan, m)) <= ChanCap
  BY BoundsAssumption DEF TypeOK, CanSend

\* Taking the head keeps the channel well typed, and the head is a message.
LEMMA TakeTyped ==
  ASSUME TypeOK, chan # <<>>
  PROVE  /\ Head(chan) \in Message
         /\ Tail(chan) \in Seq(Message)
         /\ Len(Tail(chan)) = Len(chan) - 1
  BY HeadTailProperties DEF TypeOK

\* Registering a request, and dropping some, keep the table well typed.
LEMMA TableTyped ==
  ASSUME TypeOK
  PROVE  /\ \A m \in Methods, i \in Ids : AddReq(m, i) =>
              DOMAIN reqs' \in SUBSET Ids /\ reqs' \in [DOMAIN reqs' -> Request]
         /\ \A S : /\ DOMAIN Without(S) \in SUBSET Ids
                   /\ Without(S) \in [DOMAIN Without(S) -> Request]
<1>1. DOMAIN reqs \in SUBSET Ids /\ reqs \in [DOMAIN reqs -> Request]
  BY DEF TypeOK
<1>2. \A m \in Methods : [method |-> m, age |-> 0, here |-> TRUE] \in Request
  BY BoundsAssumption DEF Request
<1>3. \A m \in Methods, i \in Ids : AddReq(m, i) =>
         DOMAIN reqs' \in SUBSET Ids /\ reqs' \in [DOMAIN reqs' -> Request]
  BY <1>1, <1>2 DEF AddReq
<1>4. \A S : /\ DOMAIN Without(S) \in SUBSET Ids
             /\ Without(S) \in [DOMAIN Without(S) -> Request]
  BY <1>1 DEF Without
<1> QED
  BY <1>3, <1>4

\* What is posted is a message.
LEMMA PostedTyped ==
  /\ \A i \in FirstId..LastId : RequestMsg("submit", i) \in Message
  /\ RequestMsg("hashrate", HashrateId) \in Message
  /\ \A d \in BOOLEAN : ErrorMsg(d) \in Message
  BY DEF RequestMsg, ErrorMsg, Message

\* The fixed ids and the ids of found shares are request ids.
LEMMA IdsTyped ==
  /\ LoginId \in Ids /\ HashrateId \in Ids
  /\ FirstId..LastId \subseteq Ids
  /\ FirstId \in Nat /\ LastId \in Int /\ FirstId <= LastId + 1
  BY BoundsAssumption DEF Ids, FirstId, LastId

LEMMA InitTypeOK == Init => TypeOK
<1> SUFFICES ASSUME Init PROVE TypeOK
  OBVIOUS
<1>1. chan \in Seq(Message) /\ Len(chan) <= ChanCap
  BY BoundsAssumption DEF Init
<1>2. DOMAIN reqs \in SUBSET Ids /\ reqs \in [DOMAIN reqs -> Request]
  BY DEF Init
<1>3. nextId \in FirstId..(LastId + 1)
  BY IdsTyped DEF Init
<1>4. sinceMetric \in 0..MetricPeriod /\ sinceJob \in 0..ExpirePeriod
  BY BoundsAssumption DEF Init
<1>5. /\ submitc \in Nat /\ acceptc \in Nat /\ rejectc \in Nat
      /\ job \in JobIds \cup {NoJob}
      /\ jobSample \in JobIds \cup {NoJob, NoSample}
      /\ outgoing \in Ids
  BY IdsTyped DEF Init
<1> QED
  BY <1>1, <1>2, <1>3, <1>4, <1>5 DEF Init, TypeOK

\* util.rs, atomic_id: a worker's share takes the next number, and there is one left.
LEMMA FoundNumbered ==
  ASSUME nextId \in FirstId..(LastId + 1), Found
  PROVE  nextId \in FirstId..LastId /\ nextId' \in FirstId..(LastId + 1)
<1>1. nextId <= LastId /\ nextId' = nextId + 1
  BY DEF Found
<1>2. FirstId \in Int /\ LastId \in Int
  BY BoundsAssumption DEF FirstId, LastId
<1> QED
  BY <1>1, <1>2

LEMMA TypeOKStep == TypeOK /\ [Next]_vars => TypeOK'
<1> SUFFICES ASSUME TypeOK, [Next]_vars
             PROVE  TypeOK'
  OBVIOUS
<1> USE BoundsAssumption DEF TypeOK
<1>1. CASE StartConnect
  <2>1. chan' \in Seq(Message) /\ Len(chan') = Len(chan)
    BY <1>1, OutdatedTyped DEF StartConnect
  <2>2. DOMAIN reqs' \in SUBSET Ids /\ reqs' \in [DOMAIN reqs' -> Request]
    BY <1>1 DEF StartConnect, Request
  <2> QED
    BY <1>1, <2>1, <2>2 DEF StartConnect, mainVars, clockVars, poolVars
<1>2. CASE ConnectFail
  BY <1>2 DEF ConnectFail, vars, sharedVars, netVars, mainVars, clockVars,
     poolVars, historyVars
<1>3. CASE ConnectOk
  <2>1. AddReq("login", LoginId) /\ submitc' = submitc
    BY <1>3 DEF ConnectOk, HandleRequest
  <2>2. DOMAIN reqs' \in SUBSET Ids /\ reqs' \in [DOMAIN reqs' -> Request]
    BY <2>1, TableTyped, IdsTyped DEF Methods
  <2> QED
    BY <1>3, <2>1, <2>2, IdsTyped
    DEF ConnectOk, mainVars, clockVars, poolVars, historyVars
<1>4. CASE SendOk
  <2>1. outgoing >= FirstId => outgoing \in FirstId..LastId
    BY LoginAssumption DEF Ids, FirstId, HashrateId
  <2>2. sent' \in SUBSET (FirstId..LastId)
    BY <1>4, <2>1 DEF SendOk
  <2> QED
    BY <1>4, <2>2, IdsTyped DEF SendOk, sharedVars, mainVars, clockVars, historyVars
<1>5. CASE SendFail
  BY <1>5, IdsTyped DEF SendFail, sharedVars, mainVars, clockVars, poolVars, historyVars
<1>6. CASE TakeRequest
  <2> DEFINE m == Head(chan)
  <2>1. /\ m \in Message /\ Tail(chan) \in Seq(Message)
        /\ Len(Tail(chan)) <= ChanCap
    BY <1>6, TakeTyped DEF TakeRequest
  <2>2. m.kind \in Methods /\ m.id \in Ids
    BY <1>6, <2>1, IdsTyped DEF TakeRequest, Message, Methods
  <2>3. DOMAIN reqs' \in SUBSET Ids /\ reqs' \in [DOMAIN reqs' -> Request]
    BY <1>6, <2>2, TableTyped DEF TakeRequest, HandleRequest
  <2>4. submitc' \in Nat
    BY <1>6 DEF TakeRequest, HandleRequest
  <2> QED
    BY <1>6, <2>1, <2>2, <2>3, <2>4
    DEF TakeRequest, mainVars, clockVars, poolVars, historyVars
<1>7. CASE TakeError
  BY <1>7, SMTT(30) DEF TakeError, vars, sharedVars, netVars, mainVars, clockVars,
     poolVars, historyVars
<1>8. CASE PeerClose
  BY <1>8, IdsTyped DEF PeerClose, sharedVars, mainVars, clockVars, poolVars, historyVars
<1>9. CASE NetPanic
  BY <1>9, IdsTyped DEF NetPanic, mainVars, clockVars, poolVars, historyVars
<1>10. CASE Found
  <2>1. nextId \in FirstId..LastId /\ nextId' \in FirstId..(LastId + 1)
    BY <1>10, FoundNumbered
  <2>2. RequestMsg("submit", nextId) \in Message
    BY <2>1, IdsTyped, PostedTyped
  <2>3. chan' \in Seq(Message) /\ Len(chan') <= ChanCap
    BY <1>10, <2>2, AppendTyped DEF Found
  <2> QED
    BY <1>10, <2>1, <2>3, SMTT(30)
    DEF Found, netVars, mainVars, clockVars, poolVars, historyVars
<1>11. CASE StartWorkers
  BY <1>11 DEF StartWorkers, vars, sharedVars, netVars, mainVars, clockVars,
     poolVars, historyVars
<1>12. CASE Poll
  BY <1>12 DEF Poll, vars, sharedVars, netVars, mainVars, clockVars,
     poolVars, historyVars
<1>13. CASE ShowMetric
  <2>1. lost' \in SUBSET Ids
    BY <1>13 DEF ShowMetric, TimedOut
  <2>2. ownTimeout' \in BOOLEAN
    BY <1>13 DEF ShowMetric
  <2> QED
    BY <1>13, <2>1, <2>2, TableTyped
    DEF ShowMetric, netVars, clockVars, poolVars
<1>14. CASE ShowMetricBusy
  BY <1>14 DEF ShowMetricBusy, vars, sharedVars, netVars, mainVars, clockVars,
     poolVars, historyVars
<1>15. CASE SendTimeouts
  <2>1. chan' \in Seq(Message) /\ Len(chan') <= ChanCap
    BY <1>15, PostedTyped, AppendTyped DEF SendTimeouts
  <2> QED
    BY <1>15, <2>1 DEF SendTimeouts, netVars, clockVars, poolVars
<1>16. CASE Report
  <2>1. chan' \in Seq(Message) /\ Len(chan') <= ChanCap
    BY <1>16, PostedTyped, IdsTyped, AppendTyped DEF Report
  <2> QED
    BY <1>16, <2>1 DEF Report, netVars, poolVars, historyVars
<1>17. CASE SkipJob
  BY <1>17 DEF SkipJob, vars, sharedVars, netVars, mainVars, clockVars,
     poolVars, historyVars
<1>18. CASE CheckJob
  BY <1>18 DEF CheckJob, vars, sharedVars, netVars, mainVars, clockVars,
     poolVars, historyVars
<1>19. CASE CheckJobBusy
  BY <1>19 DEF CheckJobBusy, vars, sharedVars, netVars, mainVars, clockVars,
     poolVars, historyVars
<1>20. CASE SendExpired
  <2>1. chan' \in Seq(Message) /\ Len(chan') <= ChanCap
    BY <1>20, PostedTyped, AppendTyped DEF SendExpired
  <2>2. /\ sinceJob' \in 0..ExpirePeriod
        /\ mpc' \in {"poll", "panicked"}
    BY <1>20 DEF SendExpired
  <2> QED
    BY <1>20, <2>1, <2>2 DEF SendExpired, netVars, poolVars, historyVars
<1>21. CASE CtrlC
  BY <1>21 DEF CtrlC, vars, sharedVars, netVars, mainVars, clockVars,
     poolVars, historyVars
<1>22. CASE Tick
  <2>1. \A i \in DOMAIN reqs :
          [reqs[i] EXCEPT !.age = Later(reqs[i].age, Timeout)] \in Request
    <3> SUFFICES ASSUME NEW i \in DOMAIN reqs
                 PROVE  [reqs[i] EXCEPT !.age = Later(reqs[i].age, Timeout)] \in Request
      OBVIOUS
    <3>1. reqs[i] \in Request
      OBVIOUS
    <3>2. Later(reqs[i].age, Timeout) \in 0..Timeout
      BY <3>1, SMTT(30) DEF Later, Request
    <3> QED
      BY <3>1, <3>2 DEF Request
  <2>2. DOMAIN reqs' \in SUBSET Ids /\ reqs' \in [DOMAIN reqs' -> Request]
    BY <1>22, <2>1 DEF Tick
  <2>3. sinceMetric' \in 0..MetricPeriod /\ sinceJob' \in 0..ExpirePeriod
    BY <1>22, SMTT(30) DEF Tick, Later
  <2> QED
    BY <1>22, <2>2, <2>3 DEF Tick, netVars, mainVars, poolVars, historyVars
<1>23. CASE Ended
  BY <1>23 DEF Ended, vars, sharedVars, netVars, mainVars, clockVars,
     poolVars, historyVars
<1>24. ASSUME NEW id \in Ids, NEW ok \in BOOLEAN, Answer(id, ok)
      PROVE  TypeOK'
  BY <1>24, TableTyped, SMTT(30) DEF Answer, Judged, netVars, mainVars, clockVars, historyVars
<1>25. ASSUME NEW j \in JobIds, Notify(j)
      PROVE  TypeOK'
  BY <1>25 DEF Notify, netVars, mainVars, clockVars, poolVars, historyVars
<1>26. CASE UNCHANGED vars
  BY <1>26 DEF vars, sharedVars, netVars, mainVars, clockVars, poolVars, historyVars
<1> QED
  BY <1>1, <1>2, <1>3, <1>4, <1>5, <1>6, <1>7, <1>8, <1>9, <1>10, <1>11, <1>12, <1>13, <1>14, <1>15, <1>16, <1>17, <1>18, <1>19, <1>20, <1>21, <1>22, <1>23, <1>24, <1>25, <1>26
  DEF Next, NetThread, ConnectStep, SendStep, Pool, MainThread

\* The variables keep their types, whatever the constants are.
THEOREM TypeCorrect == Spec => []TypeOK
<1> QED
  BY InitTypeOK, TypeOKStep, PTL DEF Spec

(***************************************************************************)
(* The counters balance.  By itself CountersBalance is not inductive: that *)
(* registering a share adds one to the awaited ones needs its id to be new *)
(* to the table and to the shares given up, and that the login and the     *)
(* hashrate leave the shares alone.  SharesApart says so.                  *)
(***************************************************************************)
IInv == TypeOK /\ SharesApart /\ CountersBalance

\* The shares of channel c have ids of their own, below n and not in R.
Apart(c, R, n) ==
  \A i \in 1..Len(c) : c[i].kind = "submit" =>
    /\ c[i].id \in FirstId..(n - 1)
    /\ c[i].id \notin R
    /\ \A k \in 1..Len(c) :
         c[k].kind = "submit" /\ c[i].id = c[k].id => i = k

\* What SharesApart says of the table, for given sets of ids.
TableApart(D, A, L, n) ==
  /\ \A i \in D : i \in A <=> i >= FirstId
  /\ A \cup L \subseteq FirstId..(n - 1)
  /\ A \cap L = {}

LEMMA SharesApartParts ==
  /\ SharesApart <=>
       /\ Apart(chan, DOMAIN reqs \cup lost, nextId)
       /\ TableApart(DOMAIN reqs, AwaitedShares, lost, nextId)
  /\ SharesApart' <=>
       /\ Apart(chan', DOMAIN reqs' \cup lost', nextId')
       /\ TableApart(DOMAIN reqs', AwaitedShares', lost', nextId')
  BY DEF SharesApart, Apart, TableApart, QueuedShares

\* Ids that leave the table and new ids to come do not bring shares together.
LEMMA ApartMonotone ==
  ASSUME NEW c, NEW R, NEW S \in SUBSET R, NEW n \in Int, Apart(c, R, n)
  PROVE  Apart(c, S, n) /\ Apart(c, S, n + 1)
  BY DEF Apart, FirstId

\* Taking the head: its id, if it is a share, may now join the table.
LEMMA ApartTake ==
  ASSUME NEW c \in Seq(Message), c # <<>>, NEW R, NEW n \in Int, Apart(c, R, n)
  PROVE  /\ Apart(Tail(c), R, n)
         /\ Head(c).kind = "submit" =>
              /\ Head(c).id \in FirstId..(n - 1) /\ Head(c).id \notin R
              /\ Apart(Tail(c), R \cup {Head(c).id}, n)
<1>1. /\ Len(Tail(c)) = Len(c) - 1 /\ Len(c) \in Nat \ {0}
      /\ \A i \in 1..Len(Tail(c)) : Tail(c)[i] = c[i + 1]
      /\ Head(c) = c[1]
  BY HeadTailProperties
<1>2. Apart(Tail(c), R, n)
  BY <1>1 DEF Apart
<1>3. ASSUME Head(c).kind = "submit"
      PROVE  Head(c).id \in FirstId..(n - 1) /\ Head(c).id \notin R
  BY <1>1, <1>3 DEF Apart
<1>4. ASSUME Head(c).kind = "submit"
      PROVE  Apart(Tail(c), R \cup {Head(c).id}, n)
  BY <1>1, <1>4 DEF Apart
<1> QED
  BY <1>2, <1>3, <1>4

\* Appending what is not a share, or a share with the next id.
LEMMA ApartAppend ==
  ASSUME NEW c \in Seq(Message), NEW m \in Message, NEW R, NEW n \in Int,
         n >= FirstId, Apart(c, R, n)
  PROVE  /\ m.kind # "submit" => Apart(Append(c, m), R, n)
         /\ m.kind = "submit" /\ m.id = n /\ n \notin R =>
              Apart(Append(c, m), R, n + 1)
<1>1. /\ Len(Append(c, m)) = Len(c) + 1 /\ Len(c) \in Nat
      /\ \A i \in 1..Len(c) : Append(c, m)[i] = c[i]
      /\ Append(c, m)[Len(c) + 1] = m
  BY AppendProperties
<1>2. ASSUME m.kind # "submit" PROVE Apart(Append(c, m), R, n)
  BY <1>1, <1>2 DEF Apart
<1>3. ASSUME m.kind = "submit", m.id = n, n \notin R
      PROVE  Apart(Append(c, m), R, n + 1)
  BY <1>1, <1>3 DEF Apart, FirstId
<1> QED
  BY <1>2, <1>3

\* The sets the counters are compared with are finite.
LEMMA SharesFinite ==
  ASSUME TypeOK
  PROVE  /\ IsFiniteSet(AwaitedShares) /\ IsFiniteSet(lost)
         /\ Cardinality(AwaitedShares) \in Nat /\ Cardinality(lost) \in Nat
<1>1. IsFiniteSet(FirstId..LastId)
  BY IdsTyped, FS_Interval
<1>2. IsFiniteSet({LoginId, HashrateId})
  <2>1. IsFiniteSet({LoginId}) /\ IsFiniteSet({LoginId} \cup {HashrateId})
    BY FS_Singleton, FS_AddElement
  <2>2. {LoginId, HashrateId} = {LoginId} \cup {HashrateId}
    OBVIOUS
  <2> QED
    BY <2>1, <2>2
<1>3. IsFiniteSet(Ids)
  BY <1>1, <1>2, FS_Union DEF Ids
<1>4. AwaitedShares \in SUBSET Ids /\ lost \in SUBSET Ids
  BY DEF TypeOK, AwaitedShares
<1> QED
  BY <1>3, <1>4, FS_Subset, FS_CardinalityType

\* What registering and removing do to the ids and to the awaited shares.
LEMMA TableAdd ==
  ASSUME NEW m, NEW i, AddReq(m, i)
  PROVE  /\ DOMAIN reqs' = DOMAIN reqs \cup {i}
         /\ m = "submit" => AwaitedShares' = AwaitedShares \cup {i}
         /\ m # "submit" => AwaitedShares' = AwaitedShares \ {i}
  BY DEF AddReq, AwaitedShares

LEMMA TableRemove ==
  ASSUME NEW S, reqs' = Without(S)
  PROVE  /\ DOMAIN reqs' = DOMAIN reqs \ S
         /\ AwaitedShares' = AwaitedShares \ S
  BY DEF Without, AwaitedShares

\* A step that keeps the ids and the methods keeps the awaited shares.
LEMMA TableKept ==
  ASSUME DOMAIN reqs' = DOMAIN reqs,
         \A i \in DOMAIN reqs : reqs'[i].method = reqs[i].method
  PROVE  AwaitedShares' = AwaitedShares
  BY DEF AwaitedShares

LEMMA SharesApartKept ==
  ASSUME SharesApart, DOMAIN reqs' = DOMAIN reqs, AwaitedShares' = AwaitedShares,
         lost' = lost, nextId' = nextId,
         Apart(chan', DOMAIN reqs \cup lost, nextId)
  PROVE  SharesApart'
<1>1. TableApart(DOMAIN reqs, AwaitedShares, lost, nextId)
  BY SharesApartParts
<1>2. /\ Apart(chan', DOMAIN reqs' \cup lost', nextId')
      /\ TableApart(DOMAIN reqs', AwaitedShares', lost', nextId')
  BY <1>1
<1> QED
  BY <1>2, SharesApartParts

\* No step brings two places of a share together.
LEMMA SharesApartStep ==
  TypeOK /\ SharesApart /\ [Next]_vars => SharesApart'
<1> SUFFICES ASSUME TypeOK, SharesApart, [Next]_vars
             PROVE  SharesApart'
  OBVIOUS
<1> DEFINE R == DOMAIN reqs \cup lost
           A == AwaitedShares
<1>a. Apart(chan, R, nextId) /\ TableApart(DOMAIN reqs, A, lost, nextId)
  BY SharesApartParts
<1>b. /\ chan \in Seq(Message) /\ nextId \in Int /\ nextId >= FirstId
      /\ FirstId = 2 /\ LoginId \in {0, 1} /\ HashrateId = 1
  BY LoginAssumption, IdsTyped DEF TypeOK, FirstId, HashrateId
<1>c. ASSUME UNCHANGED <<chan, reqs, lost, nextId>>
      PROVE  SharesApart'
  <2>1. AwaitedShares' = A /\ DOMAIN reqs' = DOMAIN reqs
    BY <1>c, TableKept
  <2> QED
    BY <2>1, <1>a, <1>c, SharesApartKept
<1>d. ASSUME UNCHANGED <<reqs, lost, nextId>>, Apart(chan', R, nextId)
      PROVE  SharesApart'
  <2>1. AwaitedShares' = A /\ DOMAIN reqs' = DOMAIN reqs
    BY <1>d, TableKept
  <2> QED
    BY <2>1, <1>a, <1>d, SharesApartKept
<1>e. ASSUME NEW d \in BOOLEAN
      PROVE  Apart(Append(chan, ErrorMsg(d)), R, nextId)
  <2>1. ErrorMsg(d) \in Message /\ ErrorMsg(d).kind # "submit"
    BY PostedTyped DEF ErrorMsg
  <2> QED
    BY <2>1, <1>a, <1>b, ApartAppend
<1>1. CASE StartConnect
  <2>a. DOMAIN reqs' = DOMAIN reqs
        /\ \A i \in DOMAIN reqs : reqs'[i].method = reqs[i].method
    BY <1>1 DEF StartConnect, TypeOK, Request
  <2>1. DOMAIN reqs' = DOMAIN reqs /\ AwaitedShares' = A
    BY <2>a, TableKept
  <2>2. /\ Len(chan') = Len(chan)
        /\ \A i \in 1..Len(chan) :
             chan'[i].kind = chan[i].kind /\ chan'[i].id = chan[i].id
    BY <1>1, <1>b, OutdatedTyped DEF StartConnect
  <2>3. Apart(chan', R, nextId)
    BY <2>2, <1>a DEF Apart
  <2> QED
    BY <1>1, <2>1, <2>3, SharesApartKept DEF StartConnect
<1>2. CASE ConnectOk
  <2>1. AddReq("login", LoginId)
    BY <1>2 DEF ConnectOk, HandleRequest
  <2>2. DOMAIN reqs' = DOMAIN reqs \cup {LoginId} /\ AwaitedShares' = A \ {LoginId}
    <3>1. "login" # "submit"
      OBVIOUS
    <3> QED
      BY <2>1, <3>1, TableAdd
  <2>3. UNCHANGED <<chan, lost, nextId>>
    BY <1>2 DEF ConnectOk, historyVars
  <2>4. Apart(chan', DOMAIN reqs' \cup lost', nextId')
    BY <1>a, <1>b, <2>2, <2>3 DEF Apart
  <2>5. TableApart(DOMAIN reqs', AwaitedShares', lost', nextId')
    BY <1>a, <1>b, <2>2, <2>3 DEF TableApart
  <2> QED
    BY <2>4, <2>5, SharesApartParts
<1>3. CASE TakeRequest
  <2> DEFINE m == Head(chan)
  <2>1. /\ chan # <<>> /\ AddReq(m.kind, m.id)
        /\ chan' = Tail(chan) /\ UNCHANGED <<lost, nextId>>
    BY <1>3 DEF TakeRequest, HandleRequest, historyVars
  <2>2. /\ DOMAIN reqs' = DOMAIN reqs \cup {m.id}
        /\ m.kind = "submit" => AwaitedShares' = A \cup {m.id}
        /\ m.kind # "submit" => AwaitedShares' = A \ {m.id}
    BY <2>1, TableAdd
  <2>3. /\ Apart(Tail(chan), R, nextId)
        /\ m.kind = "submit" =>
             /\ m.id \in FirstId..(nextId - 1) /\ m.id \notin R
             /\ Apart(Tail(chan), R \cup {m.id}, nextId)
    BY <2>1, <1>a, <1>b, ApartTake
  <2>4. CASE m.kind = "submit"
    <3>1. Apart(chan', DOMAIN reqs' \cup lost', nextId')
      <4>1. R \cup {m.id} = DOMAIN reqs' \cup lost'
        BY <2>1, <2>2
      <4> QED
        BY <4>1, <2>1, <2>3, <2>4
    <3>2. TableApart(DOMAIN reqs', AwaitedShares', lost', nextId')
      BY <1>a, <1>b, <2>1, <2>2, <2>3, <2>4 DEF TableApart
    <3> QED
      BY <3>1, <3>2, SharesApartParts
  <2>5. CASE m.kind = "hashrate"
    <3>1. m.id = HashrateId
      <4>1. m \in Message
        BY <2>1, TakeTyped
      <4> QED
        BY <4>1, <2>5 DEF Message
    <3>2. Apart(chan', DOMAIN reqs' \cup lost', nextId')
      BY <1>b, <2>1, <2>2, <2>3, <3>1 DEF Apart
    <3>3. TableApart(DOMAIN reqs', AwaitedShares', lost', nextId')
      BY <1>a, <1>b, <2>1, <2>2, <2>5, <3>1 DEF TableApart
    <3> QED
      BY <3>2, <3>3, SharesApartParts
  <2> QED
    BY <1>3, <2>4, <2>5 DEF TakeRequest
<1>4. CASE TakeError
  <2>1. Apart(Tail(chan), R, nextId)
    BY <1>4, <1>a, <1>b, ApartTake DEF TakeError
  <2> QED
    BY <1>4, <2>1, <1>d DEF TakeError, historyVars
<1>5. CASE NetPanic
  <2>1. Apart(chan', R, nextId)
    BY <1>5 DEF NetPanic, Apart
  <2> QED
    BY <1>5, <2>1, <1>d DEF NetPanic, historyVars
<1>6. CASE Found
  <2>1. nextId \in FirstId..LastId /\ nextId' = nextId + 1
    BY <1>6, <1>b DEF Found
  <2>2. nextId \notin R
    BY <1>a, <1>b DEF TableApart
  <2>3. Apart(chan', R, nextId')
    <3> DEFINE m == RequestMsg("submit", nextId)
    <3>1. m \in Message /\ m.kind = "submit" /\ m.id = nextId
      BY <2>1, PostedTyped DEF RequestMsg
    <3>2. CASE CanSend
      BY <1>6, <3>1, <3>2, <2>1, <2>2, <1>a, <1>b, ApartAppend DEF Found
    <3>3. CASE ~CanSend
      BY <1>6, <3>3, <2>1, <1>a, <1>b, ApartMonotone DEF Found
    <3> QED
      BY <3>2, <3>3
  <2>4. AwaitedShares' = A /\ UNCHANGED <<reqs, lost>>
    BY <1>6, TableKept DEF Found, historyVars
  <2>5. TableApart(DOMAIN reqs', AwaitedShares', lost', nextId')
    BY <1>a, <1>b, <2>1, <2>4 DEF TableApart
  <2> QED
    BY <2>3, <2>4, <2>5, SharesApartParts
<1>7. CASE ShowMetric
  <2>1. /\ DOMAIN reqs' = DOMAIN reqs \ TimedOut /\ AwaitedShares' = A \ TimedOut
        /\ lost' = lost \cup (TimedOut \cap A) /\ UNCHANGED <<chan, nextId>>
    BY <1>7, TableRemove DEF ShowMetric
  <2>2. A \subseteq DOMAIN reqs
    BY DEF AwaitedShares
  <2>3. Apart(chan', DOMAIN reqs' \cup lost', nextId')
    <3>1. DOMAIN reqs' \cup lost' \in SUBSET R
      BY <2>1, <2>2
    <3> QED
      BY <3>1, <2>1, <1>a, <1>b, ApartMonotone
  <2>4. TableApart(DOMAIN reqs', AwaitedShares', lost', nextId')
    BY <1>a, <2>1 DEF TableApart
  <2> QED
    BY <2>3, <2>4, SharesApartParts
<1>8. CASE SendTimeouts
  <2>1. ownTimeout \in BOOLEAN
    BY DEF TypeOK
  <2>2. Apart(chan', R, nextId)
    BY <1>8, <2>1, <1>a, <1>e DEF SendTimeouts
  <2> QED
    BY <1>8, <2>2, <1>d DEF SendTimeouts
<1>9. CASE Report
  <2> DEFINE m == RequestMsg("hashrate", HashrateId)
  <2>1. m \in Message /\ m.kind # "submit"
    BY PostedTyped DEF RequestMsg
  <2>2. Apart(Append(chan, m), R, nextId)
    BY <2>1, <1>a, <1>b, ApartAppend
  <2>3. Apart(chan', R, nextId)
    BY <1>9, <2>2, <1>a DEF Report
  <2> QED
    BY <1>9, <2>3, <1>d DEF Report, historyVars
<1>10. CASE SendExpired
  <2>1. Apart(chan', R, nextId)
    BY <1>10, <1>a, <1>e DEF SendExpired
  <2> QED
    BY <1>10, <2>1, <1>d DEF SendExpired, historyVars
<1>11. CASE Tick
  <2>a. DOMAIN reqs' = DOMAIN reqs
        /\ \A i \in DOMAIN reqs : reqs'[i].method = reqs[i].method
    BY <1>11 DEF Tick, TypeOK, Request
  <2>1. DOMAIN reqs' = DOMAIN reqs /\ AwaitedShares' = A
    BY <2>a, TableKept
  <2> QED
    BY <1>11, <1>a, <2>1, SharesApartKept DEF Tick, historyVars
<1>12. ASSUME NEW id \in Ids, NEW ok \in BOOLEAN, Answer(id, ok)
       PROVE  SharesApart'
  <2>1. /\ DOMAIN reqs' = DOMAIN reqs \ {id} /\ AwaitedShares' = A \ {id}
        /\ UNCHANGED <<chan, lost, nextId>>
    BY <1>12, TableRemove DEF Answer, Judged, historyVars
  <2>2. Apart(chan', DOMAIN reqs' \cup lost', nextId')
    <3>1. DOMAIN reqs' \cup lost' \in SUBSET R
      BY <2>1
    <3> QED
      BY <3>1, <2>1, <1>a, <1>b, ApartMonotone
  <2>3. TableApart(DOMAIN reqs', AwaitedShares', lost', nextId')
    BY <1>a, <2>1 DEF TableApart
  <2> QED
    BY <2>2, <2>3, SharesApartParts
<1>13. ASSUME NEW j \in JobIds, Notify(j)
       PROVE  SharesApart'
  BY <1>13, <1>c DEF Notify, historyVars
<1>14. CASE ConnectFail \/ SendOk \/ SendFail \/ PeerClose
  BY <1>14, <1>c DEF ConnectFail, SendOk, SendFail, PeerClose, sharedVars, historyVars
<1>15. CASE \/ StartWorkers \/ Poll \/ ShowMetricBusy \/ SkipJob \/ CheckJob
            \/ CheckJobBusy \/ CtrlC
  BY <1>15, <1>c DEF StartWorkers, Poll, ShowMetricBusy, SkipJob, CheckJob,
     CheckJobBusy, CtrlC, sharedVars, historyVars
<1>16. CASE Ended \/ UNCHANGED vars
  BY <1>16, <1>c DEF Ended, vars, sharedVars, historyVars
<1> QED
  BY <1>1, <1>2, <1>3, <1>4, <1>5, <1>6, <1>7, <1>8, <1>9, <1>10, <1>11, <1>12,
     <1>13, <1>14, <1>15, <1>16
  DEF Next, NetThread, ConnectStep, SendStep, Pool, MainThread

\* Giving shares up moves them from the awaited ones to the lost ones.
LEMMA GiveUpCounts ==
  ASSUME NEW A, NEW L, NEW T, IsFiniteSet(A), IsFiniteSet(L), A \cap L = {}
  PROVE  Cardinality(A \ T) + Cardinality(L \cup (T \cap A))
           = Cardinality(A) + Cardinality(L)
<1> DEFINE G == T \cap A
<1>1. IsFiniteSet(G) /\ IsFiniteSet(A \ T)
  BY FS_Subset
<1>2. Cardinality({}) = 0
  BY FS_EmptySet
<1>3. Cardinality(L \cup G) = Cardinality(L) + Cardinality(G)
  <2>1. L \cap G = {}
    OBVIOUS
  <2>2. Cardinality(L) \in Nat /\ Cardinality(G) \in Nat
    BY <1>1, FS_CardinalityType
  <2>3. Cardinality(L \cup G)
          = Cardinality(L) + Cardinality(G) - Cardinality(L \cap G)
    BY <1>1, FS_Union
  <2>4. Cardinality(L \cap G) = 0
    BY <1>2, <2>1
  <2> QED
    BY <2>2, <2>3, <2>4
<1>4. Cardinality(A) = Cardinality(A \ T) + Cardinality(G)
  <2>1. (A \ T) \cap G = {} /\ A = (A \ T) \cup G
    OBVIOUS
  <2>2. Cardinality(A \ T) \in Nat /\ Cardinality(G) \in Nat
    BY <1>1, FS_CardinalityType
  <2>3. Cardinality((A \ T) \cup G)
          = Cardinality(A \ T) + Cardinality(G) - Cardinality((A \ T) \cap G)
    BY <1>1, FS_Union
  <2>4. Cardinality((A \ T) \cap G) = 0
    BY <1>2, <2>1
  <2>5. Cardinality(A) = Cardinality((A \ T) \cup G)
    BY <2>1
  <2> QED
    BY <2>2, <2>3, <2>4, <2>5
<1>5. /\ Cardinality(L) \in Nat /\ Cardinality(G) \in Nat
      /\ Cardinality(A \ T) \in Nat
  BY <1>1, FS_CardinalityType
<1> QED
  BY <1>3, <1>4, <1>5

LEMMA CountersBalanceStep ==
  IInv /\ [Next]_vars => CountersBalance'
<1> SUFFICES ASSUME TypeOK, SharesApart, CountersBalance, [Next]_vars
             PROVE  CountersBalance'
  BY DEF IInv
<1> DEFINE A == AwaitedShares
<1>a. /\ IsFiniteSet(A) /\ IsFiniteSet(lost)
      /\ Cardinality(A) \in Nat /\ Cardinality(lost) \in Nat
      /\ submitc \in Nat /\ acceptc \in Nat /\ rejectc \in Nat
      /\ submitc = acceptc + rejectc + Cardinality(A) + Cardinality(lost)
  BY SharesFinite DEF TypeOK, CountersBalance
<1>b. /\ Apart(chan, DOMAIN reqs \cup lost, nextId)
      /\ TableApart(DOMAIN reqs, A, lost, nextId)
      /\ chan \in Seq(Message) /\ nextId \in Int
  BY SharesApartParts DEF TypeOK
<1>c. FirstId = 2 /\ LoginId \in {0, 1} /\ HashrateId = 1
  BY LoginAssumption DEF FirstId, HashrateId
<1>d. A \subseteq DOMAIN reqs
  BY DEF AwaitedShares
<1>e. ASSUME AwaitedShares' = A, UNCHANGED <<submitc, acceptc, rejectc, lost>>
      PROVE  CountersBalance'
  BY <1>e, <1>a DEF CountersBalance
<1>f. ASSUME UNCHANGED <<reqs, submitc, acceptc, rejectc, lost>>
      PROVE  CountersBalance'
  BY <1>f, <1>e, TableKept
<1>1. CASE StartConnect
  <2>1. DOMAIN reqs' = DOMAIN reqs
        /\ \A i \in DOMAIN reqs : reqs'[i].method = reqs[i].method
    BY <1>1 DEF StartConnect, TypeOK, Request
  <2> QED
    BY <1>1, <2>1, <1>e, TableKept DEF StartConnect
<1>2. CASE ConnectOk
  <2>1. AddReq("login", LoginId) /\ "login" # "submit" /\ submitc' = submitc
    BY <1>2 DEF ConnectOk, HandleRequest
  <2>2. AwaitedShares' = A \ {LoginId}
    BY <2>1, TableAdd
  <2>3. AwaitedShares' = A
    BY <2>2, <1>b, <1>c DEF TableApart
  <2> QED
    BY <1>2, <2>1, <2>3, <1>e DEF ConnectOk, historyVars
<1>3. CASE TakeRequest
  <2> DEFINE m == Head(chan)
  <2>1. /\ chan # <<>> /\ AddReq(m.kind, m.id)
        /\ submitc' = IF m.kind = "submit" THEN submitc + 1 ELSE submitc
        /\ UNCHANGED <<acceptc, rejectc, lost>>
    BY <1>3 DEF TakeRequest, HandleRequest, historyVars
  <2>2. CASE m.kind = "submit"
    <3>1. AwaitedShares' = A \cup {m.id}
      BY <2>1, <2>2, TableAdd
    <3>2. m.id \notin DOMAIN reqs \cup lost
      BY <2>1, <2>2, <1>b, ApartTake
    <3>3. Cardinality(AwaitedShares') = Cardinality(A) + 1
      BY <3>1, <3>2, <1>a, <1>d, FS_AddElement
    <3> QED
      BY <2>1, <2>2, <3>3, <1>a DEF CountersBalance
  <2>3. CASE m.kind = "hashrate"
    <3>1. m.id = HashrateId
      <4>1. m \in Message
        BY <2>1, TakeTyped
      <4> QED
        BY <4>1, <2>3 DEF Message
    <3>2. AwaitedShares' = A \ {m.id}
      BY <2>1, <2>3, TableAdd
    <3>3. AwaitedShares' = A
      BY <3>1, <3>2, <1>b, <1>c DEF TableApart
    <3> QED
      BY <2>1, <2>3, <3>3, <1>e
  <2> QED
    BY <1>3, <2>2, <2>3 DEF TakeRequest
<1>4. CASE ShowMetric
  <2>1. /\ AwaitedShares' = A \ TimedOut /\ lost' = lost \cup (TimedOut \cap A)
        /\ UNCHANGED <<submitc, acceptc, rejectc>>
    BY <1>4, TableRemove DEF ShowMetric
  <2>2. Cardinality(AwaitedShares') + Cardinality(lost')
          = Cardinality(A) + Cardinality(lost)
    BY <2>1, <1>a, <1>b, GiveUpCounts DEF TableApart
  <2>3. /\ IsFiniteSet(AwaitedShares') /\ IsFiniteSet(lost')
    <3>1. AwaitedShares' \in SUBSET A /\ TimedOut \cap A \in SUBSET A
      BY <2>1
    <3> QED
      BY <3>1, <2>1, <1>a, FS_Subset, FS_Union
  <2>4. Cardinality(AwaitedShares') \in Nat /\ Cardinality(lost') \in Nat
    BY <2>3, FS_CardinalityType
  <2> QED
    BY <2>1, <2>2, <2>4, <1>a DEF CountersBalance
<1>5. CASE Tick
  <2>1. DOMAIN reqs' = DOMAIN reqs
        /\ \A i \in DOMAIN reqs : reqs'[i].method = reqs[i].method
    BY <1>5 DEF Tick, TypeOK, Request
  <2> QED
    BY <1>5, <2>1, <1>e, TableKept DEF Tick, historyVars
<1>6. ASSUME NEW id \in Ids, NEW ok \in BOOLEAN, Answer(id, ok)
      PROVE  CountersBalance'
  <2>1. /\ AwaitedShares' = A \ {id} /\ UNCHANGED <<submitc, lost>>
    BY <1>6, TableRemove DEF Answer, Judged, historyVars
  <2>2. CASE id \in A
    <3>1. Cardinality(AwaitedShares') = Cardinality(A) - 1
      BY <2>1, <2>2, <1>a, FS_RemoveElement
    <3>2. \/ acceptc' = acceptc + 1 /\ rejectc' = rejectc
          \/ acceptc' = acceptc /\ rejectc' = rejectc + 1
      BY <1>6, <2>2 DEF Answer, Judged
    <3>3. submitc' = submitc /\ Cardinality(lost') = Cardinality(lost)
      BY <2>1
    <3> QED
      BY <3>1, <3>2, <3>3, <1>a DEF CountersBalance
  <2>3. CASE id \notin A
    <3>1. AwaitedShares' = A /\ UNCHANGED <<acceptc, rejectc>>
      BY <1>6, <2>1, <2>3 DEF Answer, Judged
    <3> QED
      BY <2>1, <3>1, <1>e
  <2> QED
    BY <2>2, <2>3
<1>7. ASSUME NEW j \in JobIds, Notify(j)
      PROVE  CountersBalance'
  BY <1>7, <1>f DEF Notify, historyVars
<1>8. CASE \/ ConnectFail \/ SendOk \/ SendFail \/ PeerClose \/ TakeError
           \/ NetPanic \/ Found
  BY <1>8, <1>f DEF ConnectFail, SendOk, SendFail, PeerClose, TakeError,
     NetPanic, Found, sharedVars, historyVars
<1>9. CASE \/ StartWorkers \/ Poll \/ ShowMetricBusy \/ SkipJob \/ CheckJob
           \/ CheckJobBusy \/ SendTimeouts \/ Report \/ SendExpired
  BY <1>9, <1>f DEF StartWorkers, Poll, ShowMetricBusy, SkipJob, CheckJob,
     CheckJobBusy, SendTimeouts, Report, SendExpired, sharedVars, historyVars
<1>10. CASE CtrlC \/ Ended \/ UNCHANGED vars
  BY <1>10, <1>f DEF CtrlC, Ended, vars, sharedVars, historyVars
<1> QED
  BY <1>1, <1>2, <1>3, <1>4, <1>5, <1>6, <1>7, <1>8, <1>9, <1>10
  DEF Next, NetThread, ConnectStep, SendStep, Pool, MainThread

LEMMA InitIInv == Init => IInv
<1> SUFFICES ASSUME Init PROVE IInv
  OBVIOUS
<1>1. AwaitedShares = {} /\ lost = {} /\ QueuedShares = {} /\ DOMAIN reqs = {}
  BY DEF Init, AwaitedShares, QueuedShares
<1>2. SharesApart
  BY <1>1 DEF SharesApart
<1>3. CountersBalance
  BY <1>1, FS_EmptySet DEF CountersBalance, Init
<1> QED
  BY <1>2, <1>3, InitTypeOK DEF IInv

LEMMA Invariant == Spec => []IInv
<1>1. IInv /\ [Next]_vars => IInv'
  BY TypeOKStep, SharesApartStep, CountersBalanceStep DEF IInv
<1> QED
  BY InitIInv, <1>1, PTL DEF Spec

\* For every capacity, period and number of shares: a share is queued, awaited
\* or lost, and never two of these, whatever ends the connection it was on
\* (miner.rs loop_handle_request, reqs.rs add and clear_timeouts).
THEOREM SharesStayApart == Spec => []SharesApart
<1>1. IInv => SharesApart
  BY DEF IInv
<1> QED
  BY Invariant, <1>1, PTL

\* So what was submitted is accepted, rejected, awaited or lost: the counters
\* that the main thread reports leave no share out (state.rs, miner.rs
\* loop_handle_response).
THEOREM SharesAccounted == Spec => []CountersBalance
<1>1. IInv => CountersBalance
  BY DEF IInv
<1> QED
  BY Invariant, <1>1, PTL

(***************************************************************************)
(* No answer overtakes its registration.  AnswerExpected needs to know of  *)
(* the share being sent that it is registered and was never sent before,   *)
(* and of the shares in the channel that the pool has none of them.        *)
(***************************************************************************)
Accounted == AwaitedShares \cup lost

\* The shares of channel c are none of the ids in S.
Unsent(c, S) == \A i \in 1..Len(c) : c[i].kind = "submit" => c[i].id \notin S

SendInv ==
  /\ AnswerExpected
  /\ Unsent(chan, sent)
  /\ \A i \in sent : i < nextId
  /\ npc \in {"login", "send"} /\ outgoing >= FirstId =>
       outgoing \in Accounted /\ outgoing \notin sent /\ outgoing < nextId

\* What a step must keep for AnswerExpected to stay: no share is forgotten,
\* none is sent, none joins the channel.
LEMMA SendInvKept ==
  ASSUME SendInv, Accounted \subseteq Accounted', sent' = sent,
         Unsent(chan', sent), nextId' = nextId,
         npc' \in {"login", "send"} /\ outgoing' >= FirstId =>
           npc' = npc /\ outgoing' = outgoing
  PROVE  SendInv'
  BY DEF SendInv, AnswerExpected, Unsent, Accounted

LEMMA InitSendInv == Init => SendInv
  BY LoginAssumption DEF Init, SendInv, AnswerExpected, Unsent, FirstId

LEMMA SendInvStep == IInv /\ SendInv /\ [Next]_vars => SendInv'
<1> SUFFICES ASSUME IInv, SendInv, [Next]_vars
             PROVE  SendInv'
  OBVIOUS
<1> DEFINE A == AwaitedShares
<1>a. /\ TypeOK /\ Unsent(chan, sent) /\ AnswerExpected
      /\ \A i \in sent : i < nextId
      /\ npc \in {"login", "send"} /\ outgoing >= FirstId =>
           outgoing \in Accounted /\ outgoing \notin sent /\ outgoing < nextId
  BY DEF IInv, SendInv
<1>b. /\ Apart(chan, DOMAIN reqs \cup lost, nextId)
      /\ TableApart(DOMAIN reqs, A, lost, nextId)
      /\ A \subseteq DOMAIN reqs
  BY SharesApartParts DEF IInv, AwaitedShares
<1>c. /\ FirstId = 2 /\ LoginId \in {0, 1} /\ HashrateId = 1
      /\ Ids \subseteq Int /\ nextId \in Int /\ chan \in Seq(Message)
  BY <1>a, LoginAssumption, IdsTyped DEF FirstId, HashrateId, TypeOK, Ids
<1>d. ASSUME UNCHANGED <<reqs, lost, sent, nextId>>, Unsent(chan', sent),
             npc' \in {"login", "send"} => npc' = npc /\ outgoing' = outgoing
      PROVE  SendInv'
  <2>1. Accounted' = Accounted
    BY <1>d, TableKept DEF Accounted
  <2> QED
    BY <2>1, <1>d, SendInvKept
<1>e. ASSUME NEW m \in Message, m.kind # "submit"
      PROVE  Unsent(Append(chan, m), sent)
  BY <1>a, <1>c, <1>e, AppendProperties DEF Unsent
<1>f. chan # <<>> => Unsent(Tail(chan), sent)
  <2> SUFFICES ASSUME chan # <<>> PROVE Unsent(Tail(chan), sent)
    OBVIOUS
  <2>1. /\ Len(Tail(chan)) = Len(chan) - 1 /\ Len(chan) \in Nat \ {0}
        /\ \A i \in 1..Len(Tail(chan)) : Tail(chan)[i] = chan[i + 1]
    BY <1>c, HeadTailProperties
  <2> QED
    BY <2>1, <1>a DEF Unsent
<1>1. CASE StartConnect
  <2>1. /\ Len(chan') = Len(chan) /\ npc' = "connecting"
        /\ \A i \in 1..Len(chan) : chan'[i].kind = chan[i].kind /\ chan'[i].id = chan[i].id
    BY <1>1, <1>c, OutdatedTyped DEF StartConnect
  <2>2. /\ UNCHANGED <<lost, sent, nextId>>
        /\ DOMAIN reqs' = DOMAIN reqs
        /\ \A i \in DOMAIN reqs : reqs'[i].method = reqs[i].method
    BY <1>1, <1>a DEF StartConnect, poolVars, TypeOK, Request
  <2>3. Accounted' = Accounted
    BY <2>2, TableKept DEF Accounted
  <2> QED
    BY <2>1, <2>2, <2>3, <1>a, SendInvKept DEF Unsent
<1>2. CASE ConnectOk
  <2>1. AddReq("login", LoginId) /\ "login" # "submit"
    BY <1>2 DEF ConnectOk, HandleRequest
  <2>2. AwaitedShares' = A
    <3>1. AwaitedShares' = A \ {LoginId}
      BY <2>1, TableAdd
    <3>2. LoginId \notin A
      BY <1>b, <1>c DEF TableApart
    <3> QED
      BY <3>1, <3>2
  <2>3. /\ UNCHANGED <<chan, lost, sent, nextId>> /\ outgoing' = LoginId
        /\ Accounted' = Accounted
    BY <1>2, <2>2 DEF ConnectOk, poolVars, historyVars, Accounted
  <2> QED
    BY <2>3, <1>a, <1>c, SendInvKept
<1>3. CASE SendOk
  <2>1. /\ npc' = "recv" /\ sent' \subseteq sent \cup {outgoing}
        /\ outgoing \in sent' \ sent => outgoing >= FirstId
        /\ UNCHANGED <<chan, reqs, lost, nextId>>
    <3>1. sent' = IF outgoing >= FirstId THEN sent \cup {outgoing} ELSE sent
      BY <1>3 DEF SendOk
    <3>2. /\ sent' \subseteq sent \cup {outgoing}
          /\ outgoing \in sent' \ sent => outgoing >= FirstId
      BY <3>1
    <3> QED
      BY <3>2, <1>3 DEF SendOk, sharedVars, historyVars
  <2>2. Accounted' = Accounted
    BY <2>1, TableKept DEF Accounted
  <2>3. npc \in {"login", "send"}
    BY <1>3 DEF SendOk
  <2>4. AnswerExpected'
    <3> SUFFICES ASSUME NEW i \in sent' PROVE i \in Accounted
      BY <2>2 DEF AnswerExpected, Accounted
    <3>1. CASE i \in sent
      BY <3>1, <1>a DEF AnswerExpected, Accounted
    <3>2. CASE i = outgoing /\ i \notin sent
      BY <3>2, <1>a, <2>1, <2>3
    <3> QED
      BY <3>1, <3>2, <2>1
  <2>5. Unsent(chan', sent')
    <3>1. ASSUME NEW i \in 1..Len(chan), chan[i].kind = "submit"
          PROVE  chan[i].id \notin sent \cup {outgoing}
      <4>1. chan[i].id \in FirstId..(nextId - 1) /\ chan[i].id \notin DOMAIN reqs \cup lost
        BY <1>b, <3>1 DEF Apart
      <4>2. chan[i].id \notin sent
        BY <1>a, <3>1 DEF Unsent
      <4>3. chan[i].id # outgoing
        BY <4>1, <1>a, <1>b, <1>c, <2>3 DEF Accounted
      <4> QED
        BY <4>2, <4>3
    <3> QED
      BY <3>1, <2>1 DEF Unsent
  <2>6. ASSUME NEW i \in sent' PROVE i < nextId'
    <3>1. CASE i \in sent
      BY <3>1, <1>a, <2>1
    <3>2. CASE i = outgoing /\ i \notin sent
      BY <3>2, <1>a, <2>1, <2>3
    <3> QED
      BY <3>1, <3>2, <2>1
  <2> QED
    BY <2>1, <2>4, <2>5, <2>6 DEF SendInv
<1>4. CASE TakeRequest
  <2> DEFINE m == Head(chan)
  <2>1. /\ chan # <<>> /\ AddReq(m.kind, m.id) /\ chan' = Tail(chan)
        /\ outgoing' = m.id /\ npc' = "send"
        /\ UNCHANGED <<lost, nextId, sent>>
    BY <1>4 DEF TakeRequest, HandleRequest, poolVars, historyVars
  <2>2. Unsent(chan', sent)
    BY <2>1, <1>f
  <2>3. CASE m.kind = "submit"
    <3>1. AwaitedShares' = A \cup {m.id}
      BY <2>1, <2>3, TableAdd
    <3>2. m.id \in FirstId..(nextId - 1)
      BY <2>1, <2>3, <1>b, <1>c, ApartTake
    <3>3. m.id \notin sent
      <4>1. Head(chan) = chan[1] /\ 1 \in 1..Len(chan)
        BY <2>1, <1>c, HeadTailProperties
      <4> QED
        BY <4>1, <2>3, <1>a DEF Unsent
    <3>4. AnswerExpected'
      BY <1>a, <2>1, <3>1 DEF AnswerExpected
    <3> QED
      BY <1>a, <1>c, <2>1, <2>2, <3>1, <3>2, <3>3, <3>4 DEF SendInv, Accounted
  <2>4. CASE m.kind = "hashrate"
    <3>1. m.id = HashrateId
      <4>1. m \in Message
        BY <2>1, <1>a, TakeTyped
      <4> QED
        BY <4>1, <2>4 DEF Message
    <3>2. AwaitedShares' = A
      <4>1. AwaitedShares' = A \ {m.id}
        BY <2>1, <2>4, TableAdd
      <4>2. m.id \notin A
        BY <3>1, <1>b, <1>c DEF TableApart
      <4> QED
        BY <4>1, <4>2
    <3>3. Accounted' = Accounted
      BY <3>2, <2>1 DEF Accounted
    <3> QED
      BY <2>1, <2>2, <3>1, <3>3, <1>c, SendInvKept
  <2> QED
    BY <1>4, <2>3, <2>4 DEF TakeRequest
<1>5. CASE TakeError
  BY <1>5, <1>d, <1>f DEF TakeError, poolVars, historyVars
<1>6. CASE NetPanic
  <2>1. Unsent(<<>>, sent)
    BY DEF Unsent
  <2> QED
    BY <1>6, <2>1, <1>d DEF NetPanic, poolVars, historyVars
<1>7. CASE Found
  <2>1. /\ nextId' = nextId + 1 /\ nextId \in FirstId..LastId
        /\ chan' = IF CanSend THEN Append(chan, RequestMsg("submit", nextId)) ELSE chan
        /\ UNCHANGED <<reqs, lost, sent, npc, outgoing>>
    BY <1>7, <1>a, IdsTyped DEF Found, poolVars, historyVars, netVars, TypeOK
  <2>2. Accounted' = Accounted
    BY <2>1, TableKept DEF Accounted
  <2>3. nextId \notin sent
    BY <1>a, <1>c, <2>1
  <2>4. Unsent(chan', sent)
    <3> DEFINE m == RequestMsg("submit", nextId)
    <3>1. m \in Message /\ m.id = nextId
      BY <2>1, PostedTyped DEF RequestMsg
    <3>2. Unsent(Append(chan, m), sent)
      BY <3>1, <2>3, <1>a, <1>c, AppendProperties DEF Unsent
    <3> QED
      BY <3>2, <2>1, <1>a
  <2>5. AnswerExpected'
    BY <1>a, <2>1, <2>2 DEF AnswerExpected, Accounted
  <2> QED
    BY <1>a, <1>c, <2>1, <2>2, <2>4, <2>5 DEF SendInv, Unsent, TypeOK
<1>8. CASE ShowMetric
  <2>1. /\ AwaitedShares' = A \ TimedOut /\ lost' = lost \cup (TimedOut \cap A)
        /\ UNCHANGED <<chan, nextId, npc, outgoing, sent>>
    BY <1>8, TableRemove DEF ShowMetric, netVars, poolVars
  <2>2. Accounted' = Accounted
    BY <2>1 DEF Accounted
  <2> QED
    BY <2>1, <2>2, <1>a, SendInvKept
<1>9. CASE Tick \/ Report \/ SendTimeouts \/ SendExpired
  <2>1. Unsent(chan', sent)
    <3>1. /\ RequestMsg("hashrate", HashrateId) \in Message
          /\ RequestMsg("hashrate", HashrateId).kind # "submit"
      BY PostedTyped DEF RequestMsg
    <3>2. \A o \in BOOLEAN :
            ErrorMsg(o) \in Message /\ ErrorMsg(o).kind # "submit"
      BY PostedTyped DEF ErrorMsg
    <3>3. ownTimeout \in BOOLEAN
      BY <1>a DEF TypeOK
    <3>4. CASE Tick
      BY <3>4, <1>a DEF Tick
    <3>5. CASE Report
      BY <3>5, <3>1, <1>a, <1>e DEF Report
    <3>6. CASE SendTimeouts
      BY <3>6, <3>2, <3>3, <1>a, <1>e DEF SendTimeouts
    <3>7. CASE SendExpired
      BY <3>7, <3>2, <3>3, <1>a, <1>e DEF SendExpired
    <3> QED
      BY <1>9, <3>4, <3>5, <3>6, <3>7
  <2>2. /\ UNCHANGED <<lost, sent, nextId, npc, outgoing>>
        /\ DOMAIN reqs' = DOMAIN reqs
        /\ \A i \in DOMAIN reqs : reqs'[i].method = reqs[i].method
    BY <1>9, <1>a DEF Tick, Report, SendTimeouts, SendExpired, netVars, poolVars,
       historyVars, TypeOK, Request
  <2>3. Accounted' = Accounted
    BY <2>2, TableKept DEF Accounted
  <2> QED
    BY <2>1, <2>2, <2>3, SendInvKept
<1>10. ASSUME NEW id \in Ids, NEW ok \in BOOLEAN, Answer(id, ok)
       PROVE  SendInv'
  <2>1. /\ AwaitedShares' = A \ {id} /\ sent' = sent \ {id}
        /\ npc # "login" /\ (npc = "send" => outgoing # id)
        /\ UNCHANGED <<chan, npc, outgoing, lost, nextId>>
    BY <1>10, TableRemove DEF Answer, Judged, Underway, Connected, historyVars, netVars
  <2>2. AnswerExpected'
    BY <1>a, <2>1 DEF AnswerExpected
  <2>3. npc' \in {"login", "send"} /\ outgoing' >= FirstId =>
          outgoing' \in Accounted' /\ outgoing' \notin sent' /\ outgoing' < nextId'
    BY <1>a, <2>1 DEF Accounted
  <2> QED
    BY <1>a, <2>1, <2>2, <2>3 DEF SendInv, Unsent
<1>11. ASSUME NEW j \in JobIds, Notify(j) PROVE SendInv'
  BY <1>11, <1>a, <1>d DEF Notify, netVars, poolVars, historyVars
<1>12. CASE ConnectFail \/ SendFail \/ PeerClose
  BY <1>12, <1>a, <1>d DEF ConnectFail, SendFail, PeerClose, sharedVars, poolVars,
     historyVars
<1>13. CASE \/ StartWorkers \/ Poll \/ ShowMetricBusy \/ SkipJob \/ CheckJob
            \/ CheckJobBusy \/ CtrlC
  BY <1>13, <1>a, <1>d DEF StartWorkers, Poll, ShowMetricBusy, SkipJob, CheckJob,
     CheckJobBusy, CtrlC, sharedVars, netVars, poolVars, historyVars
<1>14. CASE Ended \/ UNCHANGED vars
  BY <1>14, <1>a, <1>d DEF Ended, vars, sharedVars, netVars, poolVars, historyVars
<1> QED
  BY <1>1, <1>2, <1>3, <1>4, <1>5, <1>6, <1>7, <1>8, <1>9, <1>10, <1>11, <1>12,
     <1>13, <1>14
  DEF Next, NetThread, ConnectStep, SendStep, Pool, MainThread

\* Registering comes before sending: a share the pool holds and has not judged
\* is awaited, or was given up (miner.rs:283-284), over all reconnects.
THEOREM AnswersExpected == Spec => []AnswerExpected
<1>1. Init => IInv /\ SendInv
  BY InitIInv, InitSendInv
<1>2. IInv /\ SendInv /\ [Next]_vars => IInv' /\ SendInv'
  BY TypeOKStep, SharesApartStep, CountersBalanceStep, SendInvStep DEF IInv
<1>3. SendInv => AnswerExpected
  BY DEF SendInv
<1> QED
  BY <1>1, <1>2, <1>3, PTL DEF Spec

(***************************************************************************)
(* The ledger of shares.  Every step moves shares as the ledger allows; the *)
(* numbers of the ledger are those of sets of positions and of ids, so the *)
(* proof counts what each step adds to a set and takes from it.            *)
(***************************************************************************)

\* Where the shares of channel c are.
Queue(c) == {i \in 1..Len(c) : c[i].kind = "submit"}

\* Their number is a number.
LEMMA QueueFinite ==
  ASSUME NEW c \in Seq(Message)
  PROVE  IsFiniteSet(Queue(c)) /\ Cardinality(Queue(c)) \in Nat
<1>1. IsFiniteSet(1..Len(c)) /\ Queue(c) \in SUBSET (1..Len(c))
  BY FS_Interval DEF Queue
<1> QED
  BY <1>1, FS_Subset, FS_CardinalityType

\* Appending a share adds one, appending something else none.
LEMMA QueueAppend ==
  ASSUME NEW c \in Seq(Message), NEW m \in Message
  PROVE  Cardinality(Queue(Append(c, m))) =
           IF m.kind = "submit" THEN Cardinality(Queue(c)) + 1 ELSE Cardinality(Queue(c))
<1>1. /\ Len(Append(c, m)) = Len(c) + 1 /\ Len(c) \in Nat
      /\ \A i \in 1..Len(c) : Append(c, m)[i] = c[i]
      /\ Append(c, m)[Len(c) + 1] = m
  BY AppendProperties
<1>2. CASE m.kind = "submit"
  <2>1. Queue(Append(c, m)) = Queue(c) \cup {Len(c) + 1} /\ Len(c) + 1 \notin Queue(c)
    BY <1>1, <1>2 DEF Queue
  <2> QED
    BY <2>1, <1>2, QueueFinite, FS_AddElement
<1>3. CASE m.kind # "submit"
  <2>1. Queue(Append(c, m)) = Queue(c)
    BY <1>1, <1>3 DEF Queue
  <2> QED
    BY <2>1, <1>3
<1> QED
  BY <1>2, <1>3

\* Taking a share from the head takes one, taking something else none.
LEMMA QueueTail ==
  ASSUME NEW c \in Seq(Message), c # <<>>
  PROVE  /\ Head(c).kind = "submit" => Cardinality(Queue(c)) > 0
         /\ Cardinality(Queue(Tail(c))) =
              IF Head(c).kind = "submit" THEN Cardinality(Queue(c)) - 1 ELSE Cardinality(Queue(c))
<1> DEFINE Q == Queue(Tail(c))
           R == Queue(c) \ {1}
           shift == [i \in Q |-> i + 1]
<1>1. /\ Len(Tail(c)) = Len(c) - 1 /\ Len(c) \in Nat \ {0} /\ Tail(c) \in Seq(Message)
      /\ \A i \in 1..Len(Tail(c)) : Tail(c)[i] = c[i + 1]
      /\ Head(c) = c[1]
  BY HeadTailProperties
<1>2. /\ shift \in [Q -> R]
      /\ \A a, b \in Q : shift[a] = shift[b] => a = b
      /\ \A t \in R : \E s \in Q : shift[s] = t
  <2>1. shift \in [Q -> R] /\ \A a, b \in Q : shift[a] = shift[b] => a = b
    BY <1>1 DEF Queue
  <2>2. ASSUME NEW t \in R PROVE \E s \in Q : shift[s] = t
    <3>1. t - 1 \in Q /\ (t - 1) + 1 = t
      BY <1>1 DEF Queue
    <3>2. shift[t - 1] = t
      BY <3>1
    <3> QED
      BY <3>1, <3>2
  <2> QED
    BY <2>1, <2>2
<1>3. ExistsBijection(Q, R)
  <2>1. shift \in Bijection(Q, R)
    <3> HIDE DEF shift, Q, R
    <3> QED
      BY <1>2, Fun_IsBij
  <2> QED
    BY <2>1 DEF ExistsBijection
<1>4. Cardinality(R) = Cardinality(Q)
  BY <1>1, <1>3, QueueFinite, FS_Bijection
<1>5. CASE Head(c).kind = "submit"
  <2>1. 1 \in Queue(c)
    BY <1>1, <1>5 DEF Queue
  <2>2. Cardinality(R) = Cardinality(Queue(c)) - 1 /\ Cardinality(Q) \in Nat
        /\ Cardinality(Queue(c)) \in Nat
    BY <2>1, <1>1, QueueFinite, FS_RemoveElement
  <2> QED
    BY <2>2, <1>4, <1>5
<1>6. CASE Head(c).kind # "submit"
  <2>1. R = Queue(c)
    BY <1>1, <1>6 DEF Queue
  <2> QED
    BY <2>1, <1>4, <1>6
<1> QED
  BY <1>5, <1>6

\* The ledger's numbers.
NQueued  == Cardinality(QueuedShares)
NDropped == nextId - FirstId - submitc - NQueued
NAwaited == Cardinality(AwaitedShares)
NLost    == Cardinality(lost)

LEMMA LedgerNumbers ==
  ASSUME TypeOK
  PROVE  /\ QueuedShares = Queue(chan) /\ QueuedShares' = Queue(chan')
         /\ NQueued \in Nat /\ NAwaited \in Nat /\ NLost \in Nat /\ NDropped \in Int
         /\ IsFiniteSet(AwaitedShares) /\ IsFiniteSet(lost)
         /\ submitc \in Nat /\ acceptc \in Nat /\ rejectc \in Nat /\ nextId \in Int
         /\ FirstId = 2 /\ HashrateId = 1 /\ LoginId \in {0, 1} /\ chan \in Seq(Message)
<1>1. QueuedShares = Queue(chan) /\ QueuedShares' = Queue(chan')
  BY DEF QueuedShares, Queue
<1>2. /\ NQueued \in Nat /\ NAwaited \in Nat /\ NLost \in Nat
      /\ IsFiniteSet(AwaitedShares) /\ IsFiniteSet(lost)
  BY <1>1, QueueFinite, SharesFinite DEF TypeOK, NQueued, NAwaited, NLost
<1>3. /\ submitc \in Nat /\ acceptc \in Nat /\ rejectc \in Nat /\ nextId \in Int
      /\ FirstId = 2 /\ HashrateId = 1 /\ LoginId \in {0, 1} /\ chan \in Seq(Message)
  BY LoginAssumption, IdsTyped DEF TypeOK, FirstId, HashrateId
<1> QED
  BY <1>1, <1>2, <1>3 DEF NDropped

\* A step that queues nothing, registers nothing and counts nothing leaves the
\* ledger alone.
LEMMA LedgerKept ==
  ASSUME AwaitedShares' = AwaitedShares, UNCHANGED <<submitc, acceptc, rejectc, lost, nextId>>,
         NQueued' = NQueued
  PROVE  UNCHANGED Ledger!ledger
  BY DEF Ledger!ledger, NQueued, QueuedShares

LEMMA LedgerStep == IInv /\ [Next]_vars => [Ledger!LedgerNext]_(Ledger!ledger)
<1> SUFFICES ASSUME IInv, [Next]_vars
             PROVE  Ledger!LedgerNext \/ UNCHANGED Ledger!ledger
  OBVIOUS
<1> DEFINE A == AwaitedShares
<1>a. /\ TypeOK
      /\ Apart(chan, DOMAIN reqs \cup lost, nextId)
      /\ TableApart(DOMAIN reqs, A, lost, nextId) /\ A \subseteq DOMAIN reqs
  BY SharesApartParts DEF IInv, AwaitedShares
<1>b. /\ QueuedShares = Queue(chan) /\ QueuedShares' = Queue(chan')
      /\ NQueued \in Nat /\ NAwaited \in Nat /\ NLost \in Nat /\ NDropped \in Int
      /\ IsFiniteSet(A) /\ IsFiniteSet(lost)
      /\ submitc \in Nat /\ acceptc \in Nat /\ rejectc \in Nat /\ nextId \in Int
      /\ FirstId = 2 /\ HashrateId = 1 /\ LoginId \in {0, 1} /\ chan \in Seq(Message)
  BY <1>a, LedgerNumbers
<1>c. ASSUME UNCHANGED <<chan, reqs, submitc, acceptc, rejectc, lost, nextId>>
      PROVE  UNCHANGED Ledger!ledger
  <2>1. AwaitedShares' = A
    BY <1>c, TableKept
  <2>2. NQueued' = NQueued
    BY <1>b, <1>c DEF NQueued
  <2> QED
    BY <1>c, <2>1, <2>2, LedgerKept
<1>d. ASSUME NEW m \in Message, m.kind # "submit"
      PROVE  Cardinality(Queue(Append(chan, m))) = NQueued
  BY <1>b, <1>d, QueueAppend DEF NQueued
<1>1. CASE StartConnect
  <2>a. DOMAIN reqs' = DOMAIN reqs
        /\ \A i \in DOMAIN reqs : reqs'[i].method = reqs[i].method
    BY <1>1, <1>a DEF StartConnect, TypeOK, Request
  <2>1. AwaitedShares' = A
    BY <2>a, TableKept
  <2>2. /\ Len(chan') = Len(chan)
        /\ \A i \in 1..Len(chan) : chan'[i].kind = chan[i].kind
    BY <1>1, <1>b, OutdatedTyped DEF StartConnect
  <2>3. NQueued' = NQueued
    BY <2>2, <1>b DEF Queue, NQueued
  <2>4. UNCHANGED <<submitc, acceptc, rejectc, lost, nextId>>
    BY <1>1 DEF StartConnect
  <2> QED
    BY <2>1, <2>3, <2>4, LedgerKept
<1>2. CASE ConnectOk
  <2>1. AddReq("login", LoginId) /\ "login" # "submit" /\ submitc' = submitc
    BY <1>2 DEF ConnectOk, HandleRequest
  <2>2. AwaitedShares' = A \ {LoginId}
    BY <2>1, TableAdd
  <2>3. AwaitedShares' = A
    BY <2>2, <1>a, <1>b DEF TableApart
  <2>4. UNCHANGED <<chan, acceptc, rejectc, lost, nextId>>
    BY <1>2 DEF ConnectOk, historyVars
  <2>5. NQueued' = NQueued
    BY <2>4, <1>b DEF NQueued
  <2> QED
    BY <2>1, <2>3, <2>4, <2>5, LedgerKept
<1>3. CASE TakeRequest
  <2> DEFINE m == Head(chan)
  <2>1. /\ chan # <<>> /\ AddReq(m.kind, m.id) /\ chan' = Tail(chan)
        /\ submitc' = IF m.kind = "submit" THEN submitc + 1 ELSE submitc
        /\ UNCHANGED <<acceptc, rejectc, lost, nextId>>
    BY <1>3 DEF TakeRequest, HandleRequest, historyVars
  <2>2. /\ m.kind = "submit" => NQueued > 0
        /\ NQueued' = IF m.kind = "submit" THEN NQueued - 1 ELSE NQueued
    BY <2>1, <1>b, QueueTail DEF NQueued
  <2>3. CASE m.kind = "submit"
    <3>1. AwaitedShares' = A \cup {m.id}
      BY <2>1, <2>3, TableAdd
    <3>2. m.id \notin A
      <4>1. m.id \notin DOMAIN reqs \cup lost
        BY <2>1, <2>3, <1>a, <1>b, ApartTake
      <4> QED
        BY <4>1, <1>a
    <3>3. NAwaited' = NAwaited + 1
      BY <3>1, <3>2, <1>b, FS_AddElement DEF NAwaited
    <3>4. NDropped' = NDropped
      BY <2>1, <2>2, <2>3, <1>b DEF NDropped
    <3>5. NLost' = NLost /\ submitc' = submitc + 1 /\ NQueued' = NQueued - 1 /\ NQueued > 0
      BY <2>1, <2>2, <2>3 DEF NLost
    <3>6. Ledger!Submit
      BY <2>1, <3>3, <3>4, <3>5 DEF Ledger!Submit, NQueued, NAwaited, NLost, NDropped
    <3> QED
      BY <3>6 DEF Ledger!LedgerNext
  <2>4. CASE m.kind = "hashrate"
    <3>1. m.id = HashrateId
      <4>1. m \in Message
        BY <2>1, <1>a, TakeTyped
      <4> QED
        BY <4>1, <2>4 DEF Message
    <3>2. AwaitedShares' = A \ {m.id}
      BY <2>1, <2>4, TableAdd
    <3>3. AwaitedShares' = A
      BY <3>1, <3>2, <1>a, <1>b DEF TableApart
    <3> QED
      BY <2>1, <2>2, <2>4, <3>3, LedgerKept
  <2> QED
    BY <1>3, <2>3, <2>4 DEF TakeRequest
<1>4. CASE TakeError
  <2>1. /\ chan # <<>> /\ Head(chan).kind # "submit" /\ chan' = Tail(chan)
        /\ UNCHANGED <<reqs, submitc, acceptc, rejectc, lost, nextId>>
    BY <1>4 DEF TakeError, historyVars
  <2>2. NQueued' = NQueued
    BY <2>1, <1>b, QueueTail DEF NQueued
  <2>3. AwaitedShares' = A
    BY <2>1, TableKept
  <2> QED
    BY <2>1, <2>2, <2>3, LedgerKept
<1>5. CASE NetPanic
  <2>1. chan' = <<>> /\ UNCHANGED <<reqs, submitc, acceptc, rejectc, lost, nextId>>
    BY <1>5 DEF NetPanic, historyVars
  <2>2. NQueued' = 0
    <3>1. Queue(<<>>) = {}
      BY DEF Queue
    <3> QED
      BY <3>1, <2>1, <1>b, FS_EmptySet DEF NQueued
  <2>3. AwaitedShares' = A
    BY <2>1, TableKept
  <2>4. CASE NQueued = 0
    BY <2>1, <2>2, <2>3, <2>4, LedgerKept
  <2>5. CASE NQueued > 0
    <3>1. NDropped' = NDropped + NQueued
      BY <2>1, <2>2, <1>b DEF NDropped
    <3>2. NAwaited' = NAwaited /\ NLost' = NLost
      BY <2>1, <2>3 DEF NAwaited, NLost
    <3>3. Ledger!Discard
      BY <2>1, <2>2, <2>5, <3>1, <3>2 DEF Ledger!Discard, NQueued, NAwaited, NLost, NDropped
    <3> QED
      BY <3>3 DEF Ledger!LedgerNext
  <2> QED
    BY <2>4, <2>5, <1>b
<1>6. CASE Found
  <2>1. /\ nextId' = nextId + 1 /\ nextId \in FirstId..LastId
        /\ chan' = IF CanSend THEN Append(chan, RequestMsg("submit", nextId)) ELSE chan
        /\ UNCHANGED <<reqs, submitc, acceptc, rejectc, lost>>
    BY <1>6, <1>a, IdsTyped DEF Found, historyVars, TypeOK
  <2>2. NAwaited' = NAwaited /\ NLost' = NLost
    BY <2>1, TableKept DEF NAwaited, NLost
  <2>3. CASE CanSend
    <3>1. NQueued' = NQueued + 1
      <4> DEFINE m == RequestMsg("submit", nextId)
      <4>1. m \in Message /\ m.kind = "submit"
        BY <2>1, PostedTyped DEF RequestMsg
      <4>2. Cardinality(Queue(Append(chan, m))) = NQueued + 1
        BY <4>1, <1>b, QueueAppend DEF NQueued
      <4> QED
        BY <4>2, <2>1, <2>3, <1>b DEF NQueued
    <3>2. NDropped' = NDropped
      BY <2>1, <3>1, <1>b DEF NDropped
    <3>3. Ledger!Find
      BY <2>1, <2>2, <3>1, <3>2 DEF Ledger!Find, NQueued, NAwaited, NLost, NDropped
    <3> QED
      BY <3>3 DEF Ledger!LedgerNext
  <2>4. CASE ~CanSend
    <3>1. NQueued' = NQueued
      BY <2>1, <2>4, <1>b DEF NQueued
    <3>2. NDropped' = NDropped + 1
      BY <2>1, <3>1, <1>b DEF NDropped
    <3>3. Ledger!Drop
      BY <2>1, <2>2, <3>1, <3>2 DEF Ledger!Drop, NQueued, NAwaited, NLost, NDropped
    <3> QED
      BY <3>3 DEF Ledger!LedgerNext
  <2> QED
    BY <2>3, <2>4
<1>7. CASE ShowMetric
  <2> DEFINE G == TimedOut \cap A
  <2>1. /\ AwaitedShares' = A \ TimedOut /\ lost' = lost \cup G
        /\ UNCHANGED <<chan, submitc, acceptc, rejectc, nextId>>
    BY <1>7, TableRemove DEF ShowMetric
  <2>2. NQueued' = NQueued
    BY <2>1, <1>b DEF NQueued
  <2>3. CASE G = {}
    <3>1. AwaitedShares' = A /\ lost' = lost
      BY <2>1, <2>3
    <3> QED
      BY <2>1, <2>2, <3>1, LedgerKept
  <2>4. CASE G # {}
    <3> DEFINE k == Cardinality(G)
    <3>1. IsFiniteSet(G) /\ k \in Nat /\ k # 0 /\ IsFiniteSet(A \ TimedOut)
      BY <2>4, <1>b, FS_Subset, FS_CardinalityType, FS_EmptySet
    <3>2. NLost' = NLost + k
      <4>1. lost \cap G = {}
        BY <1>a DEF TableApart
      <4>2. Cardinality(lost \cup G)
              = Cardinality(lost) + Cardinality(G) - Cardinality(lost \cap G)
        BY <3>1, <1>b, FS_Union
      <4>3. Cardinality(lost \cap G) = 0
        BY <4>1, FS_EmptySet
      <4> QED
        BY <2>1, <4>2, <4>3, <3>1, <1>b DEF NLost
    <3>3. NAwaited' = NAwaited - k /\ NAwaited' \in Nat
      <4>1. Cardinality(A \ TimedOut) + Cardinality(lost \cup G) = NAwaited + NLost
        BY <1>a, <1>b, GiveUpCounts DEF NAwaited, NLost, TableApart
      <4>2. NLost' = Cardinality(lost \cup G) /\ NAwaited' = Cardinality(A \ TimedOut)
        BY <2>1 DEF NLost, NAwaited
      <4>3. Cardinality(A \ TimedOut) \in Nat
        BY <3>1, FS_CardinalityType
      <4>4. Cardinality(A \ TimedOut) = NAwaited - k
        BY <4>1, <4>2, <4>3, <3>1, <3>2, <1>b
      <4> QED
        BY <4>2, <4>3, <4>4
    <3>4. NDropped' = NDropped
      BY <2>1, <2>2 DEF NDropped
    <3>5. k \in 1..NAwaited
      BY <3>1, <3>3, <1>b
    <3>6. Ledger!GiveUp
      <4> HIDE DEF k
      <4> QED
        BY <2>1, <2>2, <3>2, <3>3, <3>4, <3>5 DEF Ledger!GiveUp, NQueued, NAwaited, NLost, NDropped
    <3> QED
      BY <3>6 DEF Ledger!LedgerNext
  <2> QED
    BY <2>3, <2>4
<1>8. CASE Tick \/ Report \/ SendTimeouts \/ SendExpired
  <2>1. NQueued' = NQueued
    <3>1. /\ RequestMsg("hashrate", HashrateId) \in Message
          /\ RequestMsg("hashrate", HashrateId).kind # "submit"
      BY PostedTyped DEF RequestMsg
    <3>2. \A o \in BOOLEAN :
            ErrorMsg(o) \in Message /\ ErrorMsg(o).kind # "submit"
      BY PostedTyped DEF ErrorMsg
    <3>3. ownTimeout \in BOOLEAN
      BY <1>a DEF TypeOK
    <3>4. \/ chan' = chan
          \/ \E m \in Message : m.kind # "submit" /\ chan' = Append(chan, m)
      BY <1>8, <3>1, <3>2, <3>3 DEF Tick, Report, SendTimeouts, SendExpired
    <3> QED
      BY <3>4, <1>b, <1>d DEF NQueued
  <2>2. /\ UNCHANGED <<submitc, acceptc, rejectc, lost, nextId>>
        /\ DOMAIN reqs' = DOMAIN reqs
        /\ \A i \in DOMAIN reqs : reqs'[i].method = reqs[i].method
    BY <1>8, <1>a DEF Tick, Report, SendTimeouts, SendExpired, historyVars, TypeOK, Request
  <2>3. AwaitedShares' = A
    BY <2>2, TableKept
  <2> QED
    BY <2>1, <2>2, <2>3, LedgerKept
<1>9. ASSUME NEW id \in Ids, NEW ok \in BOOLEAN, Answer(id, ok)
      PROVE  Ledger!LedgerNext \/ UNCHANGED Ledger!ledger
  <2>1. /\ AwaitedShares' = A \ {id}
        /\ UNCHANGED <<chan, submitc, lost, nextId>>
    BY <1>9, TableRemove DEF Answer, Judged, historyVars
  <2>2. NQueued' = NQueued /\ NLost' = NLost /\ NDropped' = NDropped
    BY <2>1, <1>b DEF NQueued, NLost, NDropped
  <2>3. CASE id \in A
    <3>1. NAwaited' = NAwaited - 1 /\ NAwaited > 0
      <4>1. NAwaited' = NAwaited - 1
        BY <2>1, <2>3, <1>b, FS_RemoveElement DEF NAwaited
      <4>2. NAwaited' \in Nat
        BY <2>1, <1>b, FS_Subset, FS_CardinalityType DEF NAwaited
      <4> QED
        BY <4>1, <4>2, <1>b
    <3>2. /\ acceptc' = IF ok THEN acceptc + 1 ELSE acceptc
          /\ rejectc' = IF ok THEN rejectc ELSE rejectc + 1
      BY <1>9, <2>3 DEF Answer, Judged
    <3>3. Ledger!Judge(ok)
      BY <2>1, <2>2, <3>1, <3>2 DEF Ledger!Judge, NQueued, NAwaited, NLost, NDropped
    <3> QED
      BY <3>3 DEF Ledger!LedgerNext
  <2>4. CASE id \notin A
    <3>1. AwaitedShares' = A /\ UNCHANGED <<acceptc, rejectc>>
      BY <1>9, <2>1, <2>4 DEF Answer, Judged
    <3> QED
      BY <2>1, <2>2, <3>1, LedgerKept
  <2> QED
    BY <2>3, <2>4
<1>10. ASSUME NEW j \in JobIds, Notify(j) PROVE UNCHANGED Ledger!ledger
  BY <1>10, <1>c DEF Notify, historyVars
<1>11. CASE ConnectFail \/ SendOk \/ SendFail \/ PeerClose
  BY <1>11, <1>c DEF ConnectFail, SendOk, SendFail, PeerClose, sharedVars, historyVars
<1>12. CASE \/ StartWorkers \/ Poll \/ ShowMetricBusy \/ SkipJob \/ CheckJob
            \/ CheckJobBusy \/ CtrlC
  BY <1>12, <1>c DEF StartWorkers, Poll, ShowMetricBusy, SkipJob, CheckJob,
     CheckJobBusy, CtrlC, sharedVars, historyVars
<1>13. CASE Ended \/ UNCHANGED vars
  BY <1>13, <1>c DEF Ended, vars, sharedVars, historyVars
<1> QED
  BY <1>1, <1>2, <1>3, <1>4, <1>5, <1>6, <1>7, <1>8, <1>9, <1>10, <1>11, <1>12, <1>13
  DEF Next, NetThread, ConnectStep, SendStep, Pool, MainThread

\* The threads, over all reconnects, panics and timeouts, implement the ledger:
\* a share is queued, dropped, submitted, judged or given up in the order the
\* ledger has, and no step moves it otherwise (miner.rs, state.rs, reqs.rs).
THEOREM LedgerImplemented == Spec => ImplementsLedger
<1>1. Init => Ledger!LedgerInit
  <2> SUFFICES ASSUME Init PROVE Ledger!LedgerInit
    OBVIOUS
  <2>1. QueuedShares = {} /\ AwaitedShares = {} /\ lost = {}
    BY DEF Init, QueuedShares, AwaitedShares
  <2>2. Cardinality(QueuedShares) = 0 /\ Cardinality(AwaitedShares) = 0 /\ Cardinality(lost) = 0
    BY <2>1, FS_EmptySet
  <2> QED
    BY <2>2, IdsTyped DEF Init, Ledger!LedgerInit
<1> QED
  BY Invariant, <1>1, LedgerStep, PTL DEF Spec, ImplementsLedger, Ledger!LedgerSpec

-----------------------------------------------------------------------------
(* The way to the pool: Proxy *)


\* A connection that is beyond the proxy has its consent.
Consent == stage \in {"pool tls", "ready"} /\ route.proxy # "none" => reply = "ok"

PInv == ProxyTypeOK /\ Consent /\ TunnelOpen

\* Away from connect the thread does not begin to connect, and no connection
\* comes up.
LEMMA ElsewhereNpc ==
  Elsewhere => /\ UNCHANGED proxyVars
               /\ \/ npc' = npc
                  \/ /\ npc \in {"login", "recv", "send"}
                     /\ npc' \in {"recv", "send", "sleep", "dead"}
<1> SUFFICES ASSUME Elsewhere
             PROVE  \/ npc' = npc
                    \/ /\ npc \in {"login", "recv", "send"}
                       /\ npc' \in {"recv", "send", "sleep", "dead"}
  BY DEF Elsewhere
<1>1. CASE SendStep \/ TakeRequest \/ TakeError \/ PeerClose
  BY <1>1 DEF SendStep, SendOk, SendFail, TakeRequest, TakeError, PeerClose, Connected
<1>2. CASE Connected /\ NetPanic
  BY <1>2 DEF NetPanic, Connected
<1>3. CASE Pool \/ Found
  BY <1>3 DEF Pool, Answer, Notify, Found, netVars
<1>4. CASE MainThread
  BY <1>4 DEF MainThread, StartWorkers, Poll, ShowMetric, ShowMetricBusy,
     SendTimeouts, Report, SkipJob, CheckJob, CheckJobBusy, SendExpired, netVars
<1>5. CASE CtrlC \/ Tick \/ Ended
  BY <1>5 DEF CtrlC, Tick, Ended, vars, netVars
<1> QED
  BY <1>1, <1>2, <1>3, <1>4, <1>5 DEF Elsewhere

\* What the read shows of an answer that makes the thread panic is no consent.
LEMMA UnreadableRefused == \A r \in Reply : Unreadable(r) => ~Accepted(r)
<1> SUFFICES ASSUME NEW r \in Reply, r.words < 2
             PROVE  ~(r.words >= 2)
  BY DEF Unreadable, Accepted
<1>1. r.words \in 0..3
  BY Zenon DEF Reply
<1> QED
  BY <1>1

LEMMA InitPInv == ProxyInit => PInv
  BY DEF ProxyInit, Init, PInv, ProxyTypeOK, Consent, TunnelOpen

LEMMA PInvStep == PInv /\ [ProxyNext]_allVars => PInv'
<1> SUFFICES ASSUME PInv, [ProxyNext]_allVars
             PROVE  PInv'
  OBVIOUS
<1> USE DEF PInv, ProxyTypeOK, Consent, TunnelOpen
<1>1. CASE Begin
  BY <1>1 DEF Begin, StartConnect
<1>2. CASE Dialed
  <2>1. npc' = npc /\ npc = "connecting" /\ UNCHANGED <<route, reply, junk>>
    BY <1>2 DEF Dialed, vars, netVars
  <2>2. route \in Route
    BY RoutesAssumption
  <2> QED
    BY <1>2, <2>1, <2>2 DEF Dialed, Opened, Route
<1>3. CASE ProxySecured
  BY <1>3 DEF ProxySecured, vars, netVars
<1>4. CASE PoolSecured
  BY <1>4 DEF PoolSecured, vars, netVars
<1>5. CASE Failed
  BY <1>5 DEF Failed, ConnectFail
<1>6. CASE Up
  BY <1>6 DEF Up, ConnectOk
<1>7. ASSUME NEW r \in Reply, Answered(r)
      PROVE  PInv'
  <2>1. npc = "connecting" /\ UNCHANGED route
    BY <1>7 DEF Answered
  <2>2. CASE Accepted(r) /\ stage' = Opened /\ UNCHANGED vars
             /\ junk' = (r.cut /\ route.tls)
    <3>1. npc' = npc /\ reply' = "ok" /\ junk' \in BOOLEAN
      BY <1>7, <2>2 DEF Answered, Accepted, vars, netVars, Reply
    <3> QED
      BY <2>1, <2>2, <3>1 DEF Opened
  <2>3. CASE ~Accepted(r) /\ ConnectFail /\ stage' = "idle" /\ junk' = FALSE
    BY <1>7, <2>1, <2>3 DEF Answered, ConnectFail
  <2>4. CASE Unreadable(r) /\ NetPanic /\ stage' = "idle" /\ junk' = FALSE
    <3>1. ~Accepted(r)
      BY <2>4, UnreadableRefused
    <3> QED
      BY <1>7, <2>1, <2>4, <3>1 DEF Answered, NetPanic
  <2> QED
    BY <1>7, <2>2, <2>3, <2>4 DEF Answered
<1>8. CASE Elsewhere
  BY <1>8, ElsewhereNpc DEF proxyVars
<1>9. CASE UNCHANGED allVars
  BY <1>9 DEF allVars, vars, netVars, proxyVars
<1> QED
  BY <1>1, <1>2, <1>3, <1>4, <1>5, <1>6, <1>7, <1>8, <1>9 DEF ProxyNext, ProxyStep

LEMMA ProxyInvariant == ProxySpec => []PInv
  BY InitPInv, PInvStep, PTL DEF ProxySpec

\* Where connect is and where the network thread is agree, on every route and
\* however an attempt ends.
THEOREM ProxyTypeCorrect == ProxySpec => []ProxyTypeOK
<1>1. PInv => ProxyTypeOK
  BY DEF PInv
<1> QED
  BY ProxyInvariant, <1>1, PTL

\* The login goes out only through a tunnel the proxy has opened, whatever one
\* read shows of its answer (miner.rs:144-158).
THEOREM TunnelsOpen == ProxySpec => []TunnelOpen
<1>1. PInv => TunnelOpen
  BY DEF PInv
<1> QED
  BY ProxyInvariant, <1>1, PTL

\* A step of connect is one of Miner's or does not concern it.
LEMMA ProxyStepMaps == [ProxyNext]_allVars => [Next]_vars
<1> SUFFICES ASSUME [ProxyNext]_allVars
             PROVE  [Next]_vars
  OBVIOUS
<1> USE DEF Next, NetThread, ConnectStep
<1>1. CASE Begin \/ Failed \/ Up
  BY <1>1 DEF Begin, Failed, Up
<1>2. CASE Dialed \/ ProxySecured \/ PoolSecured
  BY <1>2 DEF Dialed, ProxySecured, PoolSecured
<1>3. ASSUME NEW r \in Reply, Answered(r)
      PROVE  [Next]_vars
  BY <1>3 DEF Answered
<1>4. CASE Elsewhere
  BY <1>4 DEF Elsewhere
<1>5. CASE UNCHANGED allVars
  BY <1>5 DEF allVars
<1> QED
  BY <1>1, <1>2, <1>3, <1>4, <1>5 DEF ProxyNext, ProxyStep

\* Proxy adds stages to Miner and takes no step of Miner's away.
LEMMA MinerImplemented == ProxySpec => Spec
<1>1. ProxyInit => Init
  BY DEF ProxyInit
<1> QED
  BY <1>1, ProxyStepMaps, PTL DEF ProxySpec, Spec

\* No failure on the way to the pool loses a share or counts one twice, and no
\* answer to a share comes before the share is expected.
THEOREM SharesThroughProxy ==
  ProxySpec => [](SharesApart /\ CountersBalance /\ AnswerExpected) /\ ImplementsLedger
  BY MinerImplemented, SharesStayApart, SharesAccounted, AnswersExpected, LedgerImplemented, PTL

=============================================================================
