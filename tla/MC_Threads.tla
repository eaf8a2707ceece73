----------------------------- MODULE MC_Threads ------------------------------
(***************************************************************************)
(* What blocks a thread, starves on it or misses it while it starts: the   *)
(* set-up of the exchanges, as in MC_ExchangeInit, the dispatch of symbols *)
(* to the workers, or the loop of a websocket.  A behaviour is one of one. *)
(***************************************************************************)
EXTENDS MC_ExchangeInit

CONSTANTS NumCpus, Symbols, Calls, Requests

ASSUME CpusAssumption == NumCpus \in Nat \ {0}

VARIABLES
  part,  \* the part that moves
  worker, worker_channels, queue, monitored, next_worker, symbol_map, started, arbitrages, cross,
  left, held, request,
  ready, busy, disabled, selecting, picked,
  observed  \* a branch of the loop, chosen once and for all

D == INSTANCE Dispatch
S == INSTANCE SelectLoop

dispatch == <<worker, worker_channels, queue, monitored, next_worker, symbol_map, started, arbitrages,
              cross, left, held, request>>
loop     == <<ready, busy, disabled, selecting, picked>>
threads  == <<part, vars, dispatch, loop, observed>>

StartingUp(step)  == part = "startup" /\ step /\ UNCHANGED <<part, dispatch, loop, observed>>
Dispatching(step) == part = "dispatch" /\ step /\ UNCHANGED <<part, vars, loop, observed>>
Looping(step)     == part = "loop" /\ step /\ UNCHANGED <<part, vars, dispatch, observed>>

ThreadsInit ==
  /\ part \in {"startup", "dispatch", "loop"}
  /\ Init /\ D!Init /\ S!Init
  /\ observed \in S!Branches
  /\ part # "loop" => observed = S!Ping

ThreadsNext == StartingUp(Next) \/ Dispatching(D!Next) \/ Looping(S!Next)

\* The fairness of the start-up and of the loop, each where it moves.  Of the
\* dispatch nothing is assumed here: HandOutsReachWorkers names what it needs.
ThreadsFairness ==
  /\ \A t \in Threads : WF_threads(StartingUp(Run(t)))
  /\ \A k \in Tasks : /\ WF_threads(StartingUp(Poll(ThreadOf[k], k)))
                      /\ \A e \in Exchanges : WF_threads(StartingUp(Respond(k, e)))
  /\ WF_threads(Looping(S!Begin)) /\ WF_threads(Looping(S!Poll))

ThreadsSpec == ThreadsInit /\ [][ThreadsNext]_threads /\ ThreadsFairness

-----------------------------------------------------------------------------
(* The type invariant of the dispatch: a symbol's worker was named by the  *)
(* counter.                                                                *)
DispatchTypeOK == D!TypeOK

(* Dispatch: one worker for a symbol's commands and its monitoring.        *)
Routed == D!Routed

(* Dispatch: a symbol is listed and monitored once.                        *)
MonitoredOnce == D!MonitoredOnce

(* Dispatch: what a call hands out is monitored in the end, if the         *)
(* symbol's worker gets into its loop and goes on there.                   *)
HandOutsReachWorkers == D!HandOutsReachWorkers

(* Loop: a branch starves only behind branches written before it.          *)
StarvedOnlyByEarlier == <>[]S!Foremost(observed) => []<>(picked = observed)
=============================================================================
