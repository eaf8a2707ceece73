------------------------------ MODULE Channel ------------------------------
(***************************************************************************)
(* The channel of base/utils/mpsc.rs: many senders, one receiver, a queue  *)
(* without a bound, all on one thread.  Channels are made by the thread's  *)
(* own tasks, so an operation is a step.                                   *)
(*                                                                         *)
(* The receiver's task asks for the next item by polling.  When there is   *)
(* none it leaves its waker and is parked; the waker is used once.         *)
(***************************************************************************)
EXTENDS Naturals, Sequences

CONSTANTS
  Items,       \* what is sent
  MaxSent,     \* bound on the items sent
  MaxSenders   \* bound on the senders at a time

VARIABLES
  buffer,
  has_receiver,
  blocked_recv,  \* whether a waker is registered
  senders,       \* how many Sender handles exist
  receiver,      \* what the receiver's task does: "runs", "parked" or "dropped"
  accepted,      \* the items for which send() returned Ok
  received,      \* the items that were handed out
  given_up       \* whether the receiving half was closed while its task was parked

vars == <<buffer, has_receiver, blocked_recv, senders, receiver, accepted, received, given_up>>

-----------------------------------------------------------------------------
\* The waker is taken, and the task that left it runs again.
WakeReceiver ==
  /\ blocked_recv' = FALSE
  /\ receiver' = IF blocked_recv /\ receiver = "parked" THEN "runs" ELSE receiver

-----------------------------------------------------------------------------
(* Sender                                                                  *)

\* An item for a receiver that is gone, or closed, comes back as an error.
Send(item) ==
  /\ senders > 0 /\ has_receiver /\ Len(accepted) < MaxSent
  /\ buffer' = Append(buffer, item)
  /\ accepted' = Append(accepted, item)
  /\ WakeReceiver
  /\ UNCHANGED <<has_receiver, senders, received, given_up>>

SenderClose ==
  /\ senders > 0
  /\ has_receiver' = FALSE
  /\ WakeReceiver
  /\ UNCHANGED <<buffer, senders, accepted, received, given_up>>

CloneSender ==
  /\ senders > 0 /\ senders < MaxSenders
  /\ senders' = senders + 1
  /\ UNCHANGED <<buffer, has_receiver, blocked_recv, receiver, accepted, received, given_up>>

\* Mutant: the last sender goes quietly.
DropSenderQuietly ==
  /\ senders > 0
  /\ senders' = senders - 1
  /\ UNCHANGED <<blocked_recv, receiver>>
  /\ UNCHANGED <<buffer, has_receiver, accepted, received, given_up>>

\* The last sender ends the stream.
DropSender ==
  /\ senders > 0
  /\ senders' = senders - 1
  /\ IF has_receiver /\ senders = 1 THEN WakeReceiver ELSE UNCHANGED <<blocked_recv, receiver>>
  /\ UNCHANGED <<buffer, has_receiver, accepted, received, given_up>>

-----------------------------------------------------------------------------
(* Receiver                                                                *)

\* poll_recv, by the receiver's task: an item, the end of the stream, or the
\* waker is left.
Poll ==
  /\ receiver = "runs"
  /\ IF buffer # << >>
     THEN /\ buffer' = Tail(buffer)
          /\ received' = Append(received, Head(buffer))
          /\ UNCHANGED <<blocked_recv, receiver>>
     ELSE /\ blocked_recv' = (blocked_recv \/ has_receiver)
          /\ receiver' = IF has_receiver /\ senders > 0 THEN "parked" ELSE "runs"
          /\ UNCHANGED <<buffer, received>>
  /\ UNCHANGED <<has_receiver, senders, accepted, given_up>>

\* The task goes on for another reason than this channel.
OtherWake ==
  /\ receiver = "parked"
  /\ receiver' = "runs"
  /\ UNCHANGED <<buffer, has_receiver, blocked_recv, senders, accepted, received, given_up>>

\* try_recv, which leaves no waker.
TryRecv ==
  /\ receiver # "dropped" /\ buffer # << >>
  /\ buffer' = Tail(buffer)
  /\ received' = Append(received, Head(buffer))
  /\ UNCHANGED <<has_receiver, blocked_recv, senders, receiver, accepted, given_up>>

\* sender(): a receiver can make one, also when there is none left.
NewSender ==
  /\ receiver # "dropped" /\ senders < MaxSenders
  /\ senders' = senders + 1
  /\ UNCHANGED <<buffer, has_receiver, blocked_recv, receiver, accepted, received, given_up>>

\* close() through a second reference, since the task may be parked: nobody
\* is woken.
ReceiverClose ==
  /\ receiver # "dropped"
  /\ has_receiver' = FALSE
  /\ given_up' = (given_up \/ receiver = "parked")
  /\ UNCHANGED <<buffer, blocked_recv, senders, receiver, accepted, received>>

DropReceiver ==
  /\ receiver # "dropped"
  /\ receiver' = "dropped"
  /\ has_receiver' = FALSE
  /\ buffer' = << >>
  /\ UNCHANGED <<blocked_recv, senders, accepted, received, given_up>>

-----------------------------------------------------------------------------
\* channel()
Init ==
  /\ buffer = << >>
  /\ has_receiver = TRUE
  /\ blocked_recv = FALSE
  /\ senders = 1
  /\ receiver = "runs"
  /\ accepted = << >>
  /\ received = << >>
  /\ given_up = FALSE

Next ==
  \/ \E item \in Items : Send(item)
  \/ SenderClose \/ CloneSender \/ DropSender
  \/ Poll \/ OtherWake \/ TryRecv \/ NewSender \/ ReceiverClose \/ DropReceiver

Spec == Init /\ [][Next]_vars

-----------------------------------------------------------------------------
(* Type invariant.                                                         *)
TypeOK ==
  /\ buffer \in Seq(Items) /\ accepted \in Seq(Items) /\ received \in Seq(Items)
  /\ has_receiver \in BOOLEAN /\ blocked_recv \in BOOLEAN /\ given_up \in BOOLEAN
  /\ senders \in Nat
  /\ receiver \in {"runs", "parked", "dropped"}

(* Every item that was accepted is handed out once and in order, or still  *)
(* in the buffer, until the receiver is dropped.                           *)
InOrder == receiver # "dropped" => received \o buffer = accepted

(* The receiver's task is not parked when there is an item for it, or when *)
(* the stream has ended, unless the receiving half was closed under it:    *)
(* then nothing wakes it.                                                  *)
NoLostWakeup ==
  receiver = "parked" =>
    given_up \/ (buffer = << >> /\ has_receiver /\ senders > 0 /\ blocked_recv)

(* What a channel is for.                                                  *)
Delivered == InOrder /\ NoLostWakeup
=============================================================================
