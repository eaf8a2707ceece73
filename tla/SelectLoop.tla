----------------------------- MODULE SelectLoop ------------------------------
(***************************************************************************)
(* The loop of a websocket's task (base/ws/client.rs) around the vendored  *)
(* select! (dependencies/macros): which of several ready futures is taken. *)
(*                                                                         *)
(* The branches are numbered as they are written: the ping interval, a     *)
(* frame from the server, a command of the client, then what is still to   *)
(* be done of messages and of sends.  The last two are branches only while *)
(* there is such a task.  The end of the loop is left out, and so are      *)
(* patterns that do not match, which no select! of the program has.        *)
(***************************************************************************)
EXTENDS Naturals, FiniteSetsExt

Ping    == 0
Frame   == 1
Command == 2
Client  == 3  \* client_tasks
Ext     == 4  \* ext_tasks
BRANCHES == 5

Branches     == 0 .. BRANCHES - 1
TaskBranches == {Client, Ext}

VARIABLES
  ready,     \* the branches whose future would return a value
  busy,      \* the sets of tasks that are not empty
  disabled,  \* the branches whose precondition was false
  selecting, \* whether a select! is under way
  picked     \* the branch that was taken last, or BRANCHES

vars == <<ready, busy, disabled, selecting, picked>>

-----------------------------------------------------------------------------
\* Mutant: the second future is always polled first.
RngOne == {1}

\* thread_rng_n, which takes the place of tokio's random number.
ThreadRng == {0}

\* Something comes for branch b.
Arrive(b) ==
  /\ b \notin ready /\ (b \in TaskBranches => b \in busy)
  /\ ready' = ready \cup {b}
  /\ UNCHANGED <<busy, disabled, selecting, picked>>

\* The preconditions are evaluated.
Begin ==
  /\ ~selecting
  /\ disabled' = TaskBranches \ busy
  /\ selecting' = TRUE
  /\ UNCHANGED <<ready, busy, picked>>

\* The first of the branches that are ready, beginning with start.
First(start) ==
  LET able == ready \ disabled
      i == Min({k \in 0 .. BRANCHES - 1 : (start + k) % BRANCHES \in able}) IN
  (start + i) % BRANCHES

\* What a branch's handler leaves: a ping, a command or a frame may be
\* followed by another, and begets a task for the sink or for the client; of
\* tasks, one is done.
Handle(b) ==
  \/ /\ b \notin TaskBranches
     /\ ready' \in {ready, ready \ {b}}
     /\ busy' \in IF b = Frame THEN {busy, busy \cup {Client}, busy \cup {Ext}} ELSE {busy \cup {Ext}}
  \/ /\ b \in TaskBranches
     /\ \/ UNCHANGED <<ready, busy>>
        \/ ready' = ready \ {b} /\ busy' \in {busy, busy \ {b}}

\* The branches are polled; when none is ready the task sleeps until one is.
Poll ==
  /\ selecting /\ ready \ disabled # {}
  /\ \E start \in ThreadRng :
       /\ Handle(First(start))
       /\ picked' = First(start)
  /\ selecting' = FALSE
  /\ UNCHANGED disabled

Init ==
  /\ ready = {} /\ busy = {} /\ disabled = {}
  /\ selecting = FALSE
  /\ picked = BRANCHES

Next == Begin \/ Poll \/ \E b \in Branches : Arrive(b)

\* The task runs whenever it is woken.
Fairness == WF_vars(Begin) /\ WF_vars(Poll)

-----------------------------------------------------------------------------
(* A branch that is ready, with none written before it.  If it stays so it *)
(* is taken; but polling always begins with the first branch, so that      *)
(* branches written before it may starve it by being ready again and       *)
(* again.  A server that never stops sending frames keeps commands, and    *)
(* everything that is to be sent, from being taken.                        *)
Foremost(b) == b \in ready /\ ready \cap (0 .. b - 1) = {}
=============================================================================
