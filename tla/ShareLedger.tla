---------------------------- MODULE ShareLedger ----------------------------
(***************************************************************************)
(* What the miner promises about the shares its workers find: every share  *)
(* is either still in the channel to the network thread, awaited from the  *)
(* pool, judged by the pool, given up as unanswered, or thrown away before *)
(* it was ever registered; and the counters the miner prints agree with    *)
(* that.  Only numbers of shares are kept.                                 *)
(***************************************************************************)
EXTENDS Naturals

VARIABLES
  queued,       \* in the channel, not yet taken by the network thread
  dropped,      \* found, but never registered as a request
  awaited,      \* registered, the pool has not answered
  lost,         \* registered, never answered, given up after the timeout
  submitc, acceptc, rejectc   \* the printed counters

ledger == <<queued, dropped, awaited, lost, submitc, acceptc, rejectc>>

LedgerInit ==
  /\ queued = 0 /\ dropped = 0 /\ awaited = 0 /\ lost = 0
  /\ submitc = 0 /\ acceptc = 0 /\ rejectc = 0

\* A worker finds a share and the channel takes it.
Find ==
  /\ queued' = queued + 1
  /\ UNCHANGED <<dropped, awaited, lost, submitc, acceptc, rejectc>>

\* A worker finds a share and the channel refuses it.
Drop ==
  /\ dropped' = dropped + 1
  /\ UNCHANGED <<queued, awaited, lost, submitc, acceptc, rejectc>>

\* The network thread takes a share from the channel and registers it.
Submit ==
  /\ queued > 0
  /\ queued' = queued - 1
  /\ awaited' = awaited + 1
  /\ submitc' = submitc + 1
  /\ UNCHANGED <<dropped, lost, acceptc, rejectc>>

\* The pool judges an awaited share.
Judge(ok) ==
  /\ awaited > 0
  /\ awaited' = awaited - 1
  /\ acceptc' = IF ok THEN acceptc + 1 ELSE acceptc
  /\ rejectc' = IF ok THEN rejectc ELSE rejectc + 1
  /\ UNCHANGED <<queued, dropped, lost, submitc>>

\* Some awaited shares are given up together.
GiveUp ==
  \E k \in 1..awaited :
    /\ awaited' = awaited - k
    /\ lost' = lost + k
    /\ UNCHANGED <<queued, dropped, submitc, acceptc, rejectc>>

\* The receiving end of the channel goes away with what it holds.
Discard ==
  /\ queued > 0
  /\ queued' = 0
  /\ dropped' = dropped + queued
  /\ UNCHANGED <<awaited, lost, submitc, acceptc, rejectc>>

LedgerNext ==
  \/ Find \/ Drop \/ Submit \/ GiveUp \/ Discard
  \/ \E ok \in BOOLEAN : Judge(ok)

LedgerSpec == LedgerInit /\ [][LedgerNext]_ledger

LedgerTypeOK ==
  /\ queued \in Nat /\ dropped \in Nat /\ awaited \in Nat /\ lost \in Nat
  /\ submitc \in Nat /\ acceptc \in Nat /\ rejectc \in Nat

\* The counters balance: no submitted share is forgotten or counted twice.
Balanced == submitc = acceptc + rejectc + awaited + lost

=============================================================================
