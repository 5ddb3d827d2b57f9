----------------------------- MODULE EventQueue -----------------------------
(***************************************************************************)
(* What core/event_queue.hpp promises its callers: a first-in first-out    *)
(* queue of events with room for Capacity of them, whose push refuses an   *)
(* event (and returns false) when there is no room.  RingBuffer.tla is the *)
(* lock-free code behind it; this module is the abstract specification     *)
(* that code is measured against, and the queue the trading modules use.   *)
(***************************************************************************)
EXTENDS Naturals, Sequences

CONSTANTS
  Item,      (* the events that can be queued                             *)
  Capacity   (* how many events fit: RingBuffer's Size - 1                *)

VARIABLES
  queue,     (* the accepted events that no pop has returned, oldest first *)
  popped     (* the event the latest successful pop returned               *)

qvars == <<queue, popped>>

HasRoom == Len(queue) < Capacity

(* push() that returns true. *)
Enqueue(e) ==
  /\ HasRoom
  /\ queue' = Append(queue, e)
  /\ UNCHANGED popped

(* pop() that returns an event. *)
Dequeue ==
  /\ queue # <<>>
  /\ queue' = Tail(queue)
  /\ popped' = Head(queue)

-----------------------------------------------------------------------------

Init == queue = <<>> /\ popped = <<>>

(* A refused push and an empty pop leave the queue as it is: they are      *)
(* stuttering steps here.                                                  *)
Next == (\E e \in Item : Enqueue(e)) \/ Dequeue

Spec == Init /\ [][Next]_qvars
=============================================================================
