------------------------------- MODULE Miner -------------------------------
(***************************************************************************)
(* The control plane of cminer, common to all four currencies: the thread  *)
(* "net" that keeps one connection to the pool (src/src/miner.rs), the     *)
(* main thread that prints metrics and watches for unanswered requests and *)
(* expired jobs (miner.rs, state.rs), the bounded channel through which    *)
(* the workers and the main thread reach the network thread, and the table *)
(* of requests that wait for an answer (reqs.rs).                          *)
(*                                                                         *)
(* The mutex of State is held for the length of one action, except where   *)
(* the main thread holds it across two steps (mpc = "timeouts").  An       *)
(* Instant is abstracted to what the code compares it with: an error is    *)
(* "fresh" when it was created after the current attempt began.            *)
(***************************************************************************)
EXTENDS Integers, Sequences, FiniteSets

CONSTANTS
  ChanCap,       \* capacity of the channel (512 in the code)
  Timeout,       \* ticks after which a request is unanswered (3 s)
  MetricPeriod,  \* ticks between two metrics (30 s)
  ExpirePeriod,  \* ticks between two looks at the job (--expire)
  JobIds,        \* job ids the pool hands out
  NoJob,         \* the id "0" of a slot that holds no job
  NoSample,      \* the initial "" of the variable jobid
  LoginId,       \* request id of the login: 0 (btc, ckb, kas) or 1 (eth)
  Reports,       \* does the currency send its hashrate (eth and kas)
  MaxFound       \* bound: shares the workers find

HashrateId == 1  \* eth and kas: make_hashrate
\* Mutant of FirstId: ids that start at 1 meet the fixed ones.
FirstIdOne == 1
FirstId == 2     \* util.rs: atomic_id starts at 2
LastId == FirstId + MaxFound - 1
Ids == {LoginId, HashrateId} \cup FirstId..LastId

ASSUME BoundsAssumption ==
  /\ ChanCap \in Nat \ {0}
  /\ Timeout \in Nat \ {0}
  /\ MetricPeriod \in Nat \ {0}
  /\ ExpirePeriod \in Nat
  /\ MaxFound \in Nat
ASSUME LoginAssumption == LoginId \in {0, 1} /\ Reports \in BOOLEAN
ASSUME JobAssumption ==
  NoJob \notin JobIds /\ NoSample \notin JobIds /\ NoJob # NoSample

VARIABLES
  chan,        \* the channel between the threads
  reqs,        \* Statev.reqs: request id -> [method, age, here]
  submitc, acceptc, rejectc,   \* Statev counters
  job,         \* id of the job in the slot Statev.job
  npc,         \* where the thread "net" is
  outgoing,    \* the request being sent, otherwise LoginId
  mpc,         \* where the main thread is
  leaving,     \* the main thread has left its loop
  asked,       \* EXITED, set by Ctrl-C
  jobSample,   \* the main thread's variable jobid
  sinceMetric, \* ticks since `now`, saturating at MetricPeriod
  sinceJob,    \* ticks since `jobnow`, saturating at ExpirePeriod
  nextId,      \* atomic_id
  sent,        \* shares that reached the pool, over whichever connection,
               \* and that it has not judged since
  lost,        \* history: ids of shares given up as unanswered
  ownTimeout   \* history: one of the requests just given up was registered
               \* for the current connection

sharedVars == <<chan, reqs, submitc, acceptc, rejectc, job>>
netVars    == <<npc, outgoing>>
mainVars   == <<mpc, leaving, jobSample>>
clockVars  == <<sinceMetric, sinceJob>>
poolVars   == <<sent>>
historyVars == <<lost, ownTimeout>>
vars == <<sharedVars, netVars, mainVars, clockVars, poolVars,
          asked, nextId, historyVars>>

Methods == {"login", "submit", "hashrate"}
Message ==
  [kind : {"submit"}, id : FirstId..LastId, fresh : {FALSE}, due : {FALSE}]
    \cup [kind : {"hashrate"}, id : {HashrateId}, fresh : {FALSE}, due : {FALSE}]
    \cup [kind : {"error"}, id : {0}, fresh : BOOLEAN, due : BOOLEAN]
Request == [method : Methods, age : 0..Timeout, here : BOOLEAN]

Connected   == npc \in {"recv", "send"}
Alive       == mpc \notin {"panicked", "exited"}
LockIsFree  == mpc # "timeouts"
QueuedShares   == {i \in 1..Len(chan) : chan[i].kind = "submit"}
AwaitedShares  == {i \in DOMAIN reqs : reqs[i].method = "submit"}

TypeOK ==
  /\ chan \in Seq(Message) /\ Len(chan) <= ChanCap
  /\ DOMAIN reqs \in SUBSET Ids
  /\ reqs \in [DOMAIN reqs -> Request]
  /\ submitc \in Nat /\ acceptc \in Nat /\ rejectc \in Nat
  /\ job \in JobIds \cup {NoJob}
  /\ npc \in {"sleep", "connecting", "login", "recv", "send", "dead"}
  /\ outgoing \in Ids
  /\ mpc \in {"start", "poll", "show", "timeouts", "report", "expiry",
              "expired", "panicked", "exited"}
  /\ leaving \in BOOLEAN /\ asked \in BOOLEAN
  /\ jobSample \in JobIds \cup {NoJob, NoSample}
  /\ sinceMetric \in 0..MetricPeriod /\ sinceJob \in 0..ExpirePeriod
  /\ nextId \in FirstId..(LastId + 1)
  /\ sent \in SUBSET (FirstId..LastId)
  /\ lost \in SUBSET Ids /\ ownTimeout \in BOOLEAN

Init ==
  /\ chan = <<>> /\ reqs = [i \in {} |-> 0]
  /\ submitc = 0 /\ acceptc = 0 /\ rejectc = 0
  /\ job = NoJob
  /\ npc = "sleep" /\ outgoing = LoginId
  /\ mpc = "start" /\ leaving = FALSE /\ asked = FALSE
  /\ jobSample = NoSample
  /\ sinceMetric = 0 /\ sinceJob = 0
  /\ nextId = FirstId
  /\ sent = {} /\ lost = {} /\ ownTimeout = FALSE

-----------------------------------------------------------------------------
(* The channel and the request table *)

\* Mutant of CanSend: the channel is unbounded.
CanSendUnbounded == npc # "dead"

\* try_send succeeds while the receiver lives and the channel has room.
CanSend == npc # "dead" /\ Len(chan) < ChanCap

RequestMsg(kind, id) == [kind |-> kind, id |-> id, fresh |-> FALSE, due |-> FALSE]
ErrorMsg(due) == [kind |-> "error", id |-> 0, fresh |-> TRUE, due |-> due]

\* Reqs::add: the map's insert replaces an entry with the same id.
AddReq(method, id) ==
  reqs' = [i \in DOMAIN reqs \cup {id} |->
            IF i = id THEN [method |-> method, age |-> 0, here |-> TRUE]
                      ELSE reqs[i]]

Without(S) == [i \in DOMAIN reqs \ S |-> reqs[i]]

\* Mutant of TimedOut: only the current connection's requests time out.
TimedOutHere == {i \in DOMAIN reqs : reqs[i].age >= Timeout /\ reqs[i].here}
TimedOut == {i \in DOMAIN reqs : reqs[i].age >= Timeout}

\* Mutant of HandleRequest: a share is not registered.
HandleRequestUnregistered(method, id) ==
  /\ LockIsFree
  /\ IF method = "submit" THEN UNCHANGED reqs ELSE AddReq(method, id)
  /\ submitc' = IF method = "submit" THEN submitc + 1 ELSE submitc

\* Handle::handle_request: register the request, count a share.
HandleRequest(method, id) ==
  /\ LockIsFree
  /\ AddReq(method, id)
  /\ submitc' = IF method = "submit" THEN submitc + 1 ELSE submitc

-----------------------------------------------------------------------------
(* The network thread *)

\* Mutant of Fresh: the comparison of error_time and start_time is inverted.
FreshInverted(m) == ~m.fresh
Fresh(m) == m.fresh
Outdated(m) == [m EXCEPT !.fresh = FALSE, !.due = FALSE]

\* Mutant of StartConnect: the table is emptied without accounting for it.
StartConnectClears ==
  /\ Alive
  /\ npc = "sleep"
  /\ npc' = "connecting"
  /\ chan' = [i \in 1..Len(chan) |-> Outdated(chan[i])]
  /\ reqs' = Without(DOMAIN reqs)
  /\ ownTimeout' = FALSE
  /\ UNCHANGED <<submitc, acceptc, rejectc, job, outgoing, mainVars,
                 clockVars, poolVars, asked, nextId, lost>>

\* fun's loop, after the pause: start_time is taken, everything created up
\* to now belongs to the past.  Neither the channel nor reqs is emptied.
StartConnect ==
  /\ Alive
  /\ npc = "sleep"
  /\ npc' = "connecting"
  /\ chan' = [i \in 1..Len(chan) |-> Outdated(chan[i])]
  /\ reqs' = [i \in DOMAIN reqs |-> [reqs[i] EXCEPT !.here = FALSE]]
  /\ ownTimeout' = FALSE
  /\ UNCHANGED <<submitc, acceptc, rejectc, job, outgoing, mainVars,
                 clockVars, poolVars, asked, nextId, lost>>

\* connect ends in an error: the TCP, proxy or TLS step failed or took 3 s.
ConnectFail ==
  /\ Alive
  /\ npc = "connecting"
  /\ npc' = "sleep"
  /\ UNCHANGED <<sharedVars, outgoing, mainVars, clockVars, poolVars,
                 asked, nextId, historyVars>>

\* handle_socket: the login is registered before it is sent.
ConnectOk ==
  /\ Alive
  /\ npc = "connecting"
  /\ HandleRequest("login", LoginId)
  /\ npc' = "login" /\ outgoing' = LoginId
  /\ UNCHANGED <<chan, acceptc, rejectc, job, mainVars, clockVars, poolVars,
                 asked, nextId, historyVars>>

\* The send of the login, or of a request, completes: the pool has it.
SendOk ==
  /\ Alive
  /\ npc \in {"login", "send"}
  /\ npc' = "recv" /\ outgoing' = LoginId
  /\ sent' = IF outgoing >= FirstId THEN sent \cup {outgoing} ELSE sent
  /\ UNCHANGED <<sharedVars, mainVars, clockVars, asked, nextId, historyVars>>

\* The send fails or takes 3 s: handle_socket returns the error, and what
\* was taken from the channel stays registered.
SendFail ==
  /\ Alive
  /\ npc \in {"login", "send"}
  /\ npc' = "sleep" /\ outgoing' = LoginId
  /\ UNCHANGED <<sharedVars, mainVars, clockVars, poolVars,
                 asked, nextId, historyVars>>

\* loop_handle_request takes a request.
TakeRequest ==
  /\ Alive
  /\ npc = "recv" /\ chan # <<>>
  /\ Head(chan).kind \in {"submit", "hashrate"}
  /\ HandleRequest(Head(chan).kind, Head(chan).id)
  /\ chan' = Tail(chan)
  /\ npc' = "send" /\ outgoing' = Head(chan).id
  /\ UNCHANGED <<acceptc, rejectc, job, mainVars, clockVars, poolVars,
                 asked, nextId, historyVars>>

\* loop_handle_request takes an error: one made before start_time is
\* skipped, any other ends the connection.
TakeError ==
  /\ Alive
  /\ npc = "recv" /\ chan # <<>>
  /\ Head(chan).kind = "error"
  /\ chan' = Tail(chan)
  /\ npc' = IF Fresh(Head(chan)) THEN "sleep" ELSE "recv"
  /\ UNCHANGED <<reqs, submitc, acceptc, rejectc, job, outgoing, mainVars,
                 clockVars, poolVars, asked, nextId, historyVars>>

\* loop_handle_response ends: end of stream, or a line the codec refuses.
PeerClose ==
  /\ Alive
  /\ Connected
  /\ npc' = "sleep" /\ outgoing' = LoginId
  /\ UNCHANGED <<sharedVars, mainVars, clockVars, poolVars,
                 asked, nextId, historyVars>>

\* Mutant of Judged: the answered request stays in the table.
JudgedStays(id, ok) ==
  /\ UNCHANGED reqs
  /\ IF id \in AwaitedShares
     THEN /\ acceptc' = IF ok THEN acceptc + 1 ELSE acceptc
          /\ rejectc' = IF ok THEN rejectc ELSE rejectc + 1
     ELSE UNCHANGED <<acceptc, rejectc>>

\* handle_response, a boolean result: the request leaves the table, a share
\* is counted; an id that is not in the table is only logged.
Judged(id, ok) ==
  /\ reqs' = Without({id})
  /\ IF id \in AwaitedShares
     THEN /\ acceptc' = IF ok THEN acceptc + 1 ELSE acceptc
          /\ rejectc' = IF ok THEN rejectc ELSE rejectc + 1
     ELSE UNCHANGED <<acceptc, rejectc>>

\* Still on its way to the pool, or not a request yet.
Underway(id) ==
  \/ id >= nextId
  \/ \E i \in QueuedShares : chan[i].id = id
  \/ npc = "send" /\ outgoing = id

\* The pool answers what it was sent, over this connection or an earlier one,
\* wholly or in a send that failed: for the first time, or once more.
Answer(id, ok) ==
  /\ Alive
  /\ Connected /\ LockIsFree
  /\ ~Underway(id)
  /\ Judged(id, ok)
  /\ sent' = sent \ {id}
  /\ UNCHANGED <<chan, submitc, job, netVars, mainVars, clockVars,
                 asked, nextId, historyVars>>

\* handle_response, a job: the slot holds it.
Notify(j) ==
  /\ Alive
  /\ Connected /\ LockIsFree
  /\ job # j
  /\ job' = j
  /\ UNCHANGED <<chan, reqs, submitc, acceptc, rejectc, netVars, mainVars,
                 clockVars, poolVars, asked, nextId, historyVars>>

\* A panic on the thread: an answer handle_response cannot digest (the slot
\* may have been emptied by mem::replace before), or a proxy's reply without
\* a status.  The receiver is dropped with what the channel holds; the other
\* threads go on.
NetPanic ==
  /\ Alive
  /\ Connected \/ npc = "connecting"
  /\ Connected => LockIsFree
  /\ npc' = "dead" /\ outgoing' = LoginId
  /\ chan' = <<>>
  /\ job' \in IF Connected THEN {job, NoJob} ELSE {job}
  /\ UNCHANGED <<reqs, submitc, acceptc, rejectc, mainVars,
                 clockVars, poolVars, asked, nextId, historyVars>>

-----------------------------------------------------------------------------
(* The workers: a share is found and given an id, and try_send either takes *)
(* it or the error is logged and the share is gone.                         *)

Found ==
  /\ Alive
  /\ mpc # "start" /\ job # NoJob
  /\ nextId <= LastId
  /\ nextId' = nextId + 1
  /\ chan' = IF CanSend THEN Append(chan, RequestMsg("submit", nextId)) ELSE chan
  /\ UNCHANGED <<reqs, submitc, acceptc, rejectc, job, netVars, mainVars,
                 clockVars, poolVars, asked, historyVars>>

-----------------------------------------------------------------------------
(* The main thread *)

\* state.start_workers takes the mutex.
StartWorkers ==
  /\ mpc = "start" /\ mpc' = "poll"
  /\ UNCHANGED <<sharedVars, netVars, leaving, jobSample, clockVars, poolVars,
                 asked, nextId, historyVars>>

\* One turn of fun's loop begins: a metric is due, or not, or Ctrl-C was hit.
Poll ==
  /\ mpc = "poll"
  /\ leaving' = asked
  /\ mpc' = IF asked \/ sinceMetric = MetricPeriod THEN "show" ELSE "expiry"
  /\ UNCHANGED <<sharedVars, netVars, jobSample, clockVars, poolVars,
                 asked, nextId, historyVars>>

\* try_show_metric with the mutex: the unanswered requests leave the table
\* whichever connection they were sent over.
ShowMetric ==
  /\ mpc = "show"
  /\ reqs' = Without(TimedOut)
  /\ lost' = lost \cup (TimedOut \cap AwaitedShares)
  /\ ownTimeout' = (\E i \in TimedOut : reqs[i].here)
  /\ mpc' = IF TimedOut # {} THEN "timeouts" ELSE "report"
  /\ UNCHANGED <<chan, submitc, acceptc, rejectc, job, netVars, leaving,
                 jobSample, clockVars, poolVars, asked, nextId>>

\* try_show_metric without the mutex.
ShowMetricBusy ==
  /\ mpc = "show"
  /\ mpc' = IF leaving THEN "exited" ELSE "expiry"
  /\ UNCHANGED <<sharedVars, netVars, leaving, jobSample, clockVars, poolVars,
                 asked, nextId, historyVars>>

\* clear_timeouts(..) > 0: the error is posted under the mutex, and a full or
\* closed channel makes the expect panic.
SendTimeouts ==
  /\ mpc = "timeouts"
  /\ chan' = IF CanSend THEN Append(chan, ErrorMsg(ownTimeout)) ELSE chan
  /\ mpc' = IF CanSend THEN "report" ELSE "panicked"
  /\ ownTimeout' = FALSE
  /\ UNCHANGED <<reqs, submitc, acceptc, rejectc, job, netVars, leaving,
                 jobSample, clockVars, poolVars, asked, nextId, lost>>

\* The end of try_show_metric, without the mutex: the hashrate is offered to
\* the channel, a refusal is only logged.  In the loop `now` is reset.
Report ==
  /\ mpc = "report"
  /\ chan' = IF Reports /\ CanSend
             THEN Append(chan, RequestMsg("hashrate", HashrateId)) ELSE chan
  /\ mpc' = IF leaving THEN "exited" ELSE "expiry"
  /\ sinceMetric' = 0
  /\ UNCHANGED <<reqs, submitc, acceptc, rejectc, job, netVars, leaving,
                 jobSample, sinceJob, poolVars, asked, nextId, historyVars>>

\* The job is not due to be looked at.
SkipJob ==
  /\ mpc = "expiry" /\ sinceJob < ExpirePeriod
  /\ mpc' = "poll"
  /\ UNCHANGED <<sharedVars, netVars, leaving, jobSample, clockVars, poolVars,
                 asked, nextId, historyVars>>

\* state.jobid() does not get the mutex: the look is put off by a period.
CheckJobBusy ==
  /\ mpc = "expiry" /\ sinceJob = ExpirePeriod
  /\ sinceJob' = 0
  /\ mpc' = "poll"
  /\ UNCHANGED <<sharedVars, netVars, leaving, jobSample, sinceMetric, poolVars,
                 asked, nextId, historyVars>>

\* Mutant of CheckJob: the new id is not remembered.
CheckJobForgets ==
  /\ mpc = "expiry" /\ sinceJob = ExpirePeriod
  /\ LockIsFree
  /\ IF job = jobSample
     THEN mpc' = "expired" /\ UNCHANGED sinceJob
     ELSE mpc' = "poll" /\ sinceJob' = 0
  /\ UNCHANGED <<sharedVars, netVars, leaving, jobSample, sinceMetric, poolVars,
                 asked, nextId, historyVars>>

\* state.jobid() yields an id: a new one is remembered, the one seen a
\* period ago has expired.
CheckJob ==
  /\ mpc = "expiry" /\ sinceJob = ExpirePeriod
  /\ LockIsFree
  /\ IF job = jobSample
     THEN mpc' = "expired" /\ UNCHANGED <<jobSample, sinceJob>>
     ELSE mpc' = "poll" /\ jobSample' = job /\ sinceJob' = 0
  /\ UNCHANGED <<sharedVars, netVars, leaving, sinceMetric, poolVars,
                 asked, nextId, historyVars>>

\* Mutant of SendExpired: a refused error is ignored.
SendExpiredIgnores ==
  /\ mpc = "expired"
  /\ chan' = IF CanSend THEN Append(chan, ErrorMsg(TRUE)) ELSE chan
  /\ mpc' = "poll"
  /\ sinceJob' = 0
  /\ UNCHANGED <<reqs, submitc, acceptc, rejectc, job, netVars, leaving,
                 jobSample, sinceMetric, poolVars, asked, nextId, historyVars>>

\* The error "job expired"; a full or closed channel makes the expect panic.
SendExpired ==
  /\ mpc = "expired"
  /\ chan' = IF CanSend THEN Append(chan, ErrorMsg(TRUE)) ELSE chan
  /\ mpc' = IF CanSend THEN "poll" ELSE "panicked"
  /\ sinceJob' = 0
  /\ UNCHANGED <<reqs, submitc, acceptc, rejectc, job, netVars, leaving,
                 jobSample, sinceMetric, poolVars, asked, nextId, historyVars>>

-----------------------------------------------------------------------------
(* The environment: Ctrl-C, and the passage of time *)

CtrlC ==
  /\ Alive
  /\ ~asked /\ asked' = TRUE
  /\ UNCHANGED <<sharedVars, netVars, mainVars, clockVars, poolVars,
                 nextId, historyVars>>

Later(t, limit) == IF t < limit THEN t + 1 ELSE limit

Tick ==
  /\ Alive
  /\ sinceMetric' = Later(sinceMetric, MetricPeriod)
  /\ sinceJob' = Later(sinceJob, ExpirePeriod)
  /\ reqs' = [i \in DOMAIN reqs |->
               [reqs[i] EXCEPT !.age = Later(reqs[i].age, Timeout)]]
  /\ UNCHANGED <<chan, submitc, acceptc, rejectc, job, netVars, mainVars,
                 poolVars, asked, nextId, historyVars>>

-----------------------------------------------------------------------------
ConnectStep == ConnectOk \/ ConnectFail
SendStep    == SendOk \/ SendFail
NetThread ==
  \/ StartConnect \/ ConnectStep \/ SendStep
  \/ TakeRequest \/ TakeError \/ PeerClose \/ NetPanic
Pool ==
  \/ \E id \in Ids, ok \in BOOLEAN : Answer(id, ok)
  \/ \E j \in JobIds : Notify(j)
MainThread ==
  \/ StartWorkers \/ Poll
  \/ ShowMetric \/ ShowMetricBusy \/ SendTimeouts \/ Report
  \/ SkipJob \/ CheckJob \/ CheckJobBusy \/ SendExpired

\* The end of the main thread, by return or by panic, ends the process.
Ended == ~Alive /\ UNCHANGED vars

Next == NetThread \/ Pool \/ Found \/ MainThread \/ CtrlC \/ Tick \/ Ended

Spec == Init /\ [][Next]_vars

(***************************************************************************)
(* Fairness.  Every wait of the network thread ends (connect and send have *)
(* a timeout of 3 s, the pause takes 5 s), the main thread's sleeps end,   *)
(* time passes.  A thread that keeps asking for the mutex gets it again    *)
(* and again: parking_lot's lock is eventually fair for the network thread *)
(* and the holders of the mutex release it, so the main thread's try_lock  *)
(* does not miss for ever.  Nothing is assumed of the pool, the workers,   *)
(* Ctrl-C, panics, nor of which of two outcomes a wait has.                *)
(***************************************************************************)
Fairness ==
  /\ WF_vars(StartConnect)
  /\ SF_vars(ConnectStep)
  /\ WF_vars(SendStep)
  /\ WF_vars(TakeError)
  /\ SF_vars(TakeRequest)
  /\ WF_vars(MainThread)
  /\ SF_vars(ShowMetric)
  /\ SF_vars(CheckJob)
  /\ WF_vars(Tick)

FairSpec == Spec /\ Fairness

-----------------------------------------------------------------------------
(* What the table of requests and the counters promise *)

\* The counters balance across reconnects, timeouts and late or repeated
\* answers: a share once registered (miner.rs loop_handle_request) is accepted,
\* rejected, still awaited, or was reported as timed out, and only one of them.
CountersBalance ==
  submitc = acceptc + rejectc + Cardinality(AwaitedShares) + Cardinality(lost)

\* A share is in one place only: queued once under an id of its own, or
\* registered, or given up; the ids of the login and of the hashrate never
\* displace a share in the table (reqs.rs add overwrites).
SharesApart ==
  /\ \A i \in QueuedShares :
       /\ chan[i].id \in FirstId..(nextId - 1)
       /\ chan[i].id \notin DOMAIN reqs \cup lost
       /\ \A k \in QueuedShares : chan[i].id = chan[k].id => i = k
  /\ \A i \in DOMAIN reqs : i \in AwaitedShares <=> i >= FirstId
  /\ AwaitedShares \cup lost \subseteq FirstId..(nextId - 1)
  /\ AwaitedShares \cap lost = {}

\* A share the pool holds and has not judged is one the miner waits for or has
\* reported as timed out, whatever became of the connection: registering comes
\* before sending, so no answer can overtake its registration (miner.rs:283-284).
AnswerExpected == sent \subseteq AwaitedShares \cup lost

\* The detailed program implements the ledger of shares.
Ledger == INSTANCE ShareLedger WITH
  queued  <- Cardinality(QueuedShares),
  dropped <- nextId - FirstId - submitc - Cardinality(QueuedShares),
  awaited <- Cardinality(AwaitedShares),
  lost    <- Cardinality(lost)

\* Every step of the threads moves shares as the ledger allows (Find, Drop,
\* Submit, Judge, GiveUp, Discard) or not at all.
ImplementsLedger == Ledger!LedgerSpec

(* What the watchdog of the main thread promises *)

ErrorPosted == \E i \in 1..Len(chan) : chan[i].kind = "error" /\ chan[i].fresh

\* An error raised while a connection is up ends that connection (or the
\* process ends): it is not stuck behind a share in the channel, nor skipped.
ErrorEndsConnection == (ErrorPosted /\ Connected) ~> (~Connected \/ ~Alive)

\* No share waits for ever: it is judged or given up, though the connection
\* may be replaced and the pool may stay silent (reqs.rs clear_timeouts).
ShareSettled ==
  \A i \in FirstId..LastId :
    (i \in AwaitedShares) ~> (i \notin AwaitedShares \/ ~Alive)

\* config.rs --expire: a connection does not stay up for ever with one job.
StuckJobEndsConnection ==
  \A j \in JobIds : []<>(~(Connected /\ job = j) \/ ~Alive)

\* When the network thread is gone the process does not linger: the main
\* thread's next error cannot be posted and ends it.
NoZombie == (npc = "dead") ~> ~Alive

(* What the source states and the runs refute *)

\* miner.rs:276: an error that belongs to the previous connection is skipped.
\* So an error of unanswered requests that will not be skipped is about a
\* request of the current connection.
StaleTimeoutSkipped ==
  \A i \in 1..Len(chan) :
    chan[i].kind = "error" /\ chan[i].fresh => chan[i].due

\* miner.rs:64 and state.rs:196, the two expects: while the receiver lives,
\* the main thread can post its error.
ExpectHolds == mpc = "panicked" => npc = "dead"

=============================================================================
