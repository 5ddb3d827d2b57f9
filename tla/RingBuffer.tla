----------------------------- MODULE RingBuffer -----------------------------
(***************************************************************************)
(* core/ring_buffer.hpp behind core/event_queue.hpp: a circular array with *)
(* a head index that push advances and a tail index that pop advances.     *)
(* Every step below is one access to memory that other threads share.      *)
(*                                                                         *)
(* The two indices are atomics, stored with memory_order_release and       *)
(* loaded with acquire (relaxed for the index the caller owns), so a load  *)
(* may return an older value than the latest store, but never an older one *)
(* than the same thread already saw.  headView[t] and tailView[t] are what *)
(* a load by thread t returns now; LearnHead and LearnTail bring a view up *)
(* to date.  A thread sees its own stores at once.                         *)
(*                                                                         *)
(* main.cpp pops on the processor thread and pushes on the feed thread AND *)
(* on the processor thread (strategies, order manager, matching engine);   *)
(* tests/benchmarks.cpp pushes and pops on one thread.  Producers and      *)
(* Consumer choose among these.                                            *)
(***************************************************************************)
EXTENDS Integers, Sequences

CONSTANTS
  Size,       (* slots in the array; one of them always stays unused       *)
  Item,       (* the events that can be pushed                             *)
  Producers,  (* the threads that call push                                *)
  Consumer,   (* the thread that calls pop, possibly also a producer       *)
  CounterMod  (* total_pushed_ counts modulo this: 2^64 in the code        *)

ASSUME SizeAssumption == Size \in Nat /\ Size >= 2
ASSUME CounterAssumption == CounterMod \in Nat \ {0}

VARIABLES
  buffer,       (* buffer_                                                 *)
  head,         (* head_: the slot the next push fills                     *)
  tail,         (* tail_: the slot the next pop empties                    *)
  headView,     (* per thread, the value a load of head_ returns           *)
  tailView,     (* per thread, the value a load of tail_ returns           *)
  pc,           (* per thread, the next step of its push or pop            *)
  localHead,    (* push's local variable head                              *)
  item,         (* push's argument, later pop's local variable item        *)
  popped,       (* what the latest successful pop returned                 *)
  totalPushed   (* total_pushed_                                           *)

vars == <<buffer, head, tail, headView, tailView, pc, localHead, item,
          popped, totalPushed>>

Threads == Producers \cup {Consumer}
Slot == 0 .. Size - 1

(* Content of a slot of a freshly resized vector, and of a local variable   *)
(* that holds no event yet.                                                *)
Blank == <<>>
Held == Item \cup {Blank}

(* Mistake: no wrap-around. *)
SuccUnwrapped(i) == i + 1

Succ(i) == (i + 1) % Size

-----------------------------------------------------------------------------

Init ==
  /\ buffer = [i \in Slot |-> Blank]
  /\ head = 0 /\ tail = 0
  /\ headView = [t \in Threads |-> 0]
  /\ tailView = [t \in Threads |-> 0]
  /\ pc = [t \in Threads |-> "idle"]
  /\ localHead = [t \in Threads |-> 0]
  /\ item = [t \in Threads |-> Blank]
  /\ popped = Blank
  /\ totalPushed = 0

Goto(t, from, to) == pc[t] = from /\ pc' = [pc EXCEPT ![t] = to]

(* A release store of another thread reaches thread t. *)
LearnHead(t) ==
  /\ headView[t] # head
  /\ headView' = [headView EXCEPT ![t] = head]
  /\ UNCHANGED <<buffer, head, tail, tailView, pc, localHead, item, popped,
                 totalPushed>>

LearnTail(t) ==
  /\ tailView[t] # tail
  /\ tailView' = [tailView EXCEPT ![t] = tail]
  /\ UNCHANGED <<buffer, head, tail, headView, pc, localHead, item, popped,
                 totalPushed>>

-----------------------------------------------------------------------------
(* push, called through EventQueue::push.                                  *)

(* The counter goes up before the outcome of the push is known; then the   *)
(* relaxed load of head_.                                                  *)
PushBegin(p, e) ==
  /\ Goto(p, "idle", "pushCheck")
  /\ totalPushed' = (totalPushed + 1) % CounterMod
  /\ localHead' = [localHead EXCEPT ![p] = headView[p]]
  /\ item' = [item EXCEPT ![p] = e]
  /\ UNCHANGED <<buffer, head, tail, headView, tailView, popped>>

(* Mistake: no check for a full ring. *)
FullNever(p) == FALSE

Full(p) == Succ(localHead[p]) = tailView[p]

PushRefuse(p) ==
  /\ Full(p)
  /\ Goto(p, "pushCheck", "idle")
  /\ UNCHANGED <<buffer, head, tail, headView, tailView, localHead, item,
                 popped, totalPushed>>

PushProceed(p) ==
  /\ ~Full(p)
  /\ Goto(p, "pushCheck", "pushWrite")
  /\ UNCHANGED <<buffer, head, tail, headView, tailView, localHead, item,
                 popped, totalPushed>>

(* Mistake: the element goes to the slot after the head. *)
PushWriteAhead(p) ==
  /\ Goto(p, "pushWrite", "pushPublish")
  /\ buffer' = [buffer EXCEPT ![Succ(localHead[p])] = item[p]]
  /\ UNCHANGED <<head, tail, headView, tailView, localHead, item, popped,
                 totalPushed>>

PushWrite(p) ==
  /\ Goto(p, "pushWrite", "pushPublish")
  /\ buffer' = [buffer EXCEPT ![localHead[p]] = item[p]]
  /\ UNCHANGED <<head, tail, headView, tailView, localHead, item, popped,
                 totalPushed>>

PushPublish(p) ==
  /\ Goto(p, "pushPublish", "idle")
  /\ head' = Succ(localHead[p])
  /\ headView' = [headView EXCEPT ![p] = head']
  /\ UNCHANGED <<buffer, tail, tailView, localHead, item, popped,
                 totalPushed>>

-----------------------------------------------------------------------------
(* pop.  Only the consumer stores tail_, so its relaxed load of tail_       *)
(* returns the latest value.                                               *)

(* Mistake: a ring with one event counts as empty. *)
PopBeginTwo(c) ==
  /\ tail # headView[c] /\ Succ(tail) # headView[c]
  /\ Goto(c, "idle", "popRead")
  /\ UNCHANGED <<buffer, head, tail, headView, tailView, localHead, item,
                 popped, totalPushed>>

PopBegin(c) ==
  /\ tail # headView[c]
  /\ Goto(c, "idle", "popRead")
  /\ UNCHANGED <<buffer, head, tail, headView, tailView, localHead, item,
                 popped, totalPushed>>

PopRead(c) ==
  /\ Goto(c, "popRead", "popPublish")
  /\ item' = [item EXCEPT ![c] = buffer[tail]]
  /\ UNCHANGED <<buffer, head, tail, headView, tailView, localHead, popped,
                 totalPushed>>

PopPublish(c) ==
  /\ Goto(c, "popPublish", "idle")
  /\ tail' = Succ(tail)
  /\ tailView' = [tailView EXCEPT ![c] = tail']
  /\ popped' = item[c]
  /\ UNCHANGED <<buffer, head, headView, localHead, item, totalPushed>>

-----------------------------------------------------------------------------

Push(p) ==
  \/ \E e \in Item : PushBegin(p, e)
  \/ PushRefuse(p)
  \/ PushProceed(p)
  \/ PushWrite(p)
  \/ PushPublish(p)

Pop(c) == PopBegin(c) \/ PopRead(c) \/ PopPublish(c)

Next ==
  \/ \E p \in Producers : Push(p)
  \/ Pop(Consumer)
  \/ \E t \in Threads : LearnHead(t) \/ LearnTail(t)

Spec == Init /\ [][Next]_vars

(* The processor thread busy-polls, a push that has begun runs to its end, *)
(* and a store becomes visible to every thread in finite time.  Nothing     *)
(* makes a thread begin a push.                                            *)
FinishPush(p) ==
  PushRefuse(p) \/ PushProceed(p) \/ PushWrite(p) \/ PushPublish(p)

Fairness ==
  /\ \A p \in Producers : WF_vars(FinishPush(p))
  /\ WF_vars(Pop(Consumer))
  /\ \A t \in Threads : WF_vars(LearnHead(t)) /\ WF_vars(LearnTail(t))

FairSpec == Spec /\ Fairness

-----------------------------------------------------------------------------

TypeOK ==
  /\ buffer \in [Slot -> Held]
  /\ head \in Slot /\ tail \in Slot
  /\ headView \in [Threads -> Slot]
  /\ tailView \in [Threads -> Slot]
  /\ pc \in [Threads -> {"idle", "pushCheck", "pushWrite", "pushPublish",
                         "popRead", "popPublish"}]
  /\ localHead \in [Threads -> Slot]
  /\ item \in [Threads -> Held]
  /\ popped \in Held
  /\ totalPushed \in 0 .. CounterMod - 1

(* The number of slots from index i up to index j, as size() computes it    *)
(* from tail_ and head_.                                                   *)
Dist(i, j) == IF j >= i THEN j - i ELSE Size - (i - j)

(* The events a pop can still return, oldest first. *)
Pending == [i \in 1 .. Dist(tail, head) |-> buffer[(tail + i - 1) % Size]]

Fifo == INSTANCE EventQueue WITH queue <- Pending, Capacity <- Size - 1

-----------------------------------------------------------------------------
(* Properties.                                                             *)

(* No slot is written by two pushes at once, or written while pop copies    *)
(* it: the plain (non-atomic) accesses to buffer_ never race.              *)
NoDataRace ==
  \A p \in Producers : pc[p] = "pushWrite" =>
    /\ \A q \in Producers \ {p} :
         pc[q] = "pushWrite" => localHead[q] # localHead[p]
    /\ p # Consumer /\ pc[Consumer] = "popRead" => tail # localHead[p]

(* A push never overwrites an event that was accepted and not yet popped:   *)
(* the slot about to be written, or written and not published, is outside   *)
(* the pending window.                                                     *)
NoOverwrite ==
  \A p \in Producers : pc[p] \in {"pushWrite", "pushPublish"} =>
    Dist(tail, localHead[p]) >= Dist(tail, head)

(* The ring implements the abstract queue: first in first out, nothing      *)
(* lost, nothing twice, at most Size - 1 pending.                          *)
ImplementsFifo == Fifo!Spec

(* Every accepted event is popped: whenever the queue holds an event, the   *)
(* busy-polling consumer takes one out.                                    *)
Drains == \A i \in Slot : (tail = i /\ head # i) ~> (tail # i)
=============================================================================
