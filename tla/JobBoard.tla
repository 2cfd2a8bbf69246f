------------------------------ MODULE JobBoard ------------------------------
(***************************************************************************)
(* What handing jobs to the workers promises, whatever the currency: jobs  *)
(* are numbered in the order the pool sent them, a worker only ever takes  *)
(* the job on the board, and every worker takes a newer job after a while. *)
(***************************************************************************)
EXTENDS Naturals

CONSTANTS Miners, MaxPosted   \* MaxPosted: bound on the numbers of jobs

VARIABLES
  posted,   \* number of the job on the board, 0 before the first
  held      \* number of the job each worker mines, 0 for none

board == <<posted, held>>

BoardInit ==
  /\ posted = 0
  /\ held = [w \in Miners |-> 0]

\* The pool's next job replaces the one on the board.
Post ==
  /\ posted' > posted
  /\ UNCHANGED held

\* A worker takes the job on the board; it never goes back to an older one.
Adopt(w) ==
  /\ held[w] < posted
  /\ held' = [held EXCEPT ![w] = posted]
  /\ UNCHANGED posted

BoardNext == Post \/ \E w \in Miners : Adopt(w)

BoardSpec == BoardInit /\ [][BoardNext]_board

\* Every worker comes to mine each job posted, or a newer one.
EveryoneCatchesUp ==
  \A n \in 1..MaxPosted, w \in Miners : (posted = n) ~> (held[w] >= n)

=============================================================================
