-------------------------- MODULE RingBufferProofs --------------------------
(***************************************************************************)
(* With one producer thread the ring buffer is race free and implements    *)
(* the bounded first-in first-out queue of EventQueue.tla, for every Size  *)
(* and every set of events, with loads that may return stale indices.      *)
(***************************************************************************)
EXTENDS RingBuffer, TLAPS

(* The inductive invariant for a single producer p and the consumer c.     *)
(* Each thread knows the index it owns; the other index it may know late,  *)
(* which for p makes the ring look at least as full, and for c at least as *)
(* empty, as it is.                                                        *)
OwnIndexKnown(p, c) == headView[p] = head /\ tailView[c] = tail

ViewsLag(p, c) ==
  /\ Dist(tail, head) <= Dist(tailView[p], head)
  /\ Dist(tail, headView[c]) <= Dist(tail, head)

PushInFlight(p) ==
  /\ pc[p] \in {"pushCheck", "pushWrite", "pushPublish"} =>
       localHead[p] = head /\ item[p] \in Item
  /\ pc[p] \in {"pushWrite", "pushPublish"} => Succ(head) # tailView[p]
  /\ pc[p] = "pushPublish" => buffer[head] = item[p]

PopInFlight(c) ==
  /\ pc[c] \in {"popRead", "popPublish"} => headView[c] # tail
  /\ pc[c] = "popPublish" => item[c] = buffer[tail]

RolesKept(p, c) ==
  /\ p # c => pc[p] \in {"idle", "pushCheck", "pushWrite", "pushPublish"}
  /\ p # c => pc[c] \in {"idle", "popRead", "popPublish"}

SpscInv(p, c) ==
  /\ TypeOK
  /\ OwnIndexKnown(p, c)
  /\ ViewsLag(p, c)
  /\ PushInFlight(p)
  /\ PopInFlight(c)
  /\ RolesKept(p, c)

-----------------------------------------------------------------------------

(* Succ wraps at the last slot.                                            *)
LEMMA SuccWraps ==
  \A i \in Slot : /\ Succ(i) = IF i = Size - 1 THEN 0 ELSE i + 1
                  /\ Succ(i) \in Slot
BY SizeAssumption DEF Succ, Slot

(* The slot k places behind index i, for k below Size.                     *)
LEMMA ModWraps ==
  \A i \in Slot, k \in 0 .. Size - 1 :
    (i + k) % Size = IF i + k < Size THEN i + k ELSE i + k - Size
BY SizeAssumption DEF Slot

(* Dist behaves as a clockwise distance on the circle of slots.            *)
LEMMA DistFacts ==
  \A i, j \in Slot :
    /\ Dist(i, j) \in 0 .. Size - 1
    /\ Dist(i, j) = 0 <=> i = j
    /\ Dist(i, j) = Size - 1 <=> Succ(j) = i
    /\ Succ(j) # i => Dist(i, Succ(j)) = Dist(i, j) + 1
    /\ i # j => Dist(Succ(i), j) = Dist(i, j) - 1
BY SizeAssumption, SuccWraps DEF Dist, Slot

(* Type correctness, whoever pushes.                                       *)
THEOREM TypeCorrect == Spec => []TypeOK
<1>1. Init => TypeOK
  BY SizeAssumption, CounterAssumption
  DEF Init, TypeOK, Slot, Held, Threads
<1>2. TypeOK /\ [Next]_vars => TypeOK'
  <2> SUFFICES ASSUME TypeOK, [Next]_vars PROVE TypeOK'
    OBVIOUS
  <2> USE SuccWraps DEF TypeOK, Goto, Held
  <2>1. CASE \E p \in Producers : Push(p)
    <3> PICK p \in Producers : Push(p)
      BY <2>1
    <3> p \in Threads
      BY DEF Threads
    <3>1. ASSUME NEW e \in Item, PushBegin(p, e) PROVE TypeOK'
      BY <3>1, CounterAssumption DEF PushBegin
    <3>2. CASE PushRefuse(p)
      BY <3>2 DEF PushRefuse
    <3>3. CASE PushProceed(p)
      BY <3>3 DEF PushProceed
    <3>4. CASE PushWrite(p)
      BY <3>4 DEF PushWrite
    <3>5. CASE PushPublish(p)
      BY <3>5 DEF PushPublish
    <3> QED
      BY <3>1, <3>2, <3>3, <3>4, <3>5 DEF Push
  <2>2. CASE Pop(Consumer)
    <3> Consumer \in Threads
      BY DEF Threads
    <3>1. CASE PopBegin(Consumer)
      BY <3>1 DEF PopBegin
    <3>2. CASE PopRead(Consumer)
      BY <3>2 DEF PopRead
    <3>3. CASE PopPublish(Consumer)
      BY <3>3 DEF PopPublish
    <3> QED
      BY <2>2, <3>1, <3>2, <3>3 DEF Pop
  <2>3. ASSUME NEW t \in Threads, LearnHead(t) PROVE TypeOK'
    BY <2>3 DEF LearnHead
  <2>4. ASSUME NEW t \in Threads, LearnTail(t) PROVE TypeOK'
    BY <2>4 DEF LearnTail
  <2>5. CASE UNCHANGED vars
    BY <2>5 DEF vars
  <2> QED
    BY <2>1, <2>2, <2>3, <2>4, <2>5 DEF Next
<1> QED
  BY <1>1, <1>2, PTL DEF Spec

-----------------------------------------------------------------------------

(* The invariant holds initially.                                          *)
LEMMA SpscInvInit ==
  ASSUME NEW p, Producers = {p}, Init
  PROVE  SpscInv(p, Consumer)
BY SizeAssumption, CounterAssumption
DEF Init, SpscInv, TypeOK, Slot, Held, Threads, OwnIndexKnown, ViewsLag,
    PushInFlight, PopInFlight, RolesKept, Dist

(* Every step of a ring with the single producer p keeps the invariant.     *)
LEMMA SpscInvStep ==
  ASSUME NEW p, Producers = {p}, SpscInv(p, Consumer), TypeOK', [Next]_vars
  PROVE  SpscInv(p, Consumer)'
<1> DEFINE c == Consumer
<1> p \in Threads /\ c \in Threads /\ Threads = {p, c}
  BY DEF Threads
<1> HIDE DEF c
<1> Consumer = c
  BY DEF c
<1> USE DEF TypeOK, Goto
<1>0. TypeOK /\ OwnIndexKnown(p, c) /\ ViewsLag(p, c) /\ PushInFlight(p)
      /\ PopInFlight(c) /\ RolesKept(p, c)
  BY DEF SpscInv
<1>1. ASSUME NEW e \in Item, PushBegin(p, e) PROVE SpscInv(p, Consumer)'
  <2>1. OwnIndexKnown(p, c)' /\ ViewsLag(p, c)'
    BY <1>0, <1>1 DEF PushBegin, OwnIndexKnown, ViewsLag, Dist
  <2>2. PushInFlight(p)'
    BY <1>0, <1>1 DEF PushBegin, OwnIndexKnown, PushInFlight
  <2>3. PopInFlight(c)'
    BY <1>0, <1>1 DEF PushBegin, PopInFlight, RolesKept
  <2>4. RolesKept(p, c)'
    BY <1>0, <1>1 DEF PushBegin, RolesKept
  <2> QED
    BY <2>1, <2>2, <2>3, <2>4 DEF SpscInv
<1>2. CASE PushRefuse(p)
  <2>1. OwnIndexKnown(p, c)' /\ ViewsLag(p, c)'
    BY <1>0, <1>2 DEF PushRefuse, OwnIndexKnown, ViewsLag, Dist
  <2>2. PushInFlight(p)' /\ PopInFlight(c)' /\ RolesKept(p, c)'
    BY <1>0, <1>2 DEF PushRefuse, PushInFlight, PopInFlight, RolesKept
  <2> QED
    BY <2>1, <2>2 DEF SpscInv
<1>3. CASE PushProceed(p)
  <2>1. OwnIndexKnown(p, c)' /\ ViewsLag(p, c)'
    BY <1>0, <1>3 DEF PushProceed, OwnIndexKnown, ViewsLag, Dist
  <2>2. PushInFlight(p)' /\ PopInFlight(c)' /\ RolesKept(p, c)'
    BY <1>0, <1>3
    DEF PushProceed, Full, PushInFlight, PopInFlight, RolesKept
  <2> QED
    BY <2>1, <2>2 DEF SpscInv
<1>4. CASE PushWrite(p)
  <2>1. OwnIndexKnown(p, c)' /\ ViewsLag(p, c)'
    BY <1>0, <1>4 DEF PushWrite, OwnIndexKnown, ViewsLag, Dist
  <2>2. PushInFlight(p)'
    BY <1>0, <1>4 DEF PushWrite, PushInFlight
  <2>3. pc[c] \in {"popRead", "popPublish"} => head # tail
    BY <1>0, DistFacts DEF ViewsLag, PopInFlight
  <2>4. PopInFlight(c)' /\ RolesKept(p, c)'
    BY <1>0, <1>4, <2>3 DEF PushWrite, PushInFlight, PopInFlight, RolesKept
  <2> QED
    BY <2>1, <2>2, <2>4 DEF SpscInv
<1>5. CASE PushPublish(p)
  <2>1. /\ head' = Succ(head) /\ headView' = [headView EXCEPT ![p] = head']
        /\ UNCHANGED <<buffer, tail, tailView, item>>
    BY <1>0, <1>5 DEF PushPublish, PushInFlight
  <2>2. Succ(head) # tailView[p] /\ Succ(head) # tail
    BY <1>0, <1>5, DistFacts DEF PushPublish, PushInFlight, ViewsLag
  <2>3. /\ Dist(tailView[p], head') = Dist(tailView[p], head) + 1
        /\ Dist(tail, head') = Dist(tail, head) + 1
    BY <1>0, <2>1, <2>2, DistFacts
  <2>4. OwnIndexKnown(p, c)' /\ RolesKept(p, c)'
    BY <1>0, <1>5, <2>1 DEF PushPublish, OwnIndexKnown, RolesKept
  <2>5. headView'[c] = headView[c] \/ headView'[c] = head'
    BY <2>1
  <2>6. ViewsLag(p, c)'
    BY <1>0, <2>1, <2>3, <2>5, DistFacts DEF ViewsLag
  <2>7. PushInFlight(p)' /\ PopInFlight(c)'
    BY <1>0, <1>5, <2>1 DEF PushPublish, PushInFlight, PopInFlight, RolesKept
  <2> QED
    BY <2>4, <2>6, <2>7 DEF SpscInv
<1>6. CASE PopBegin(c)
  <2>1. OwnIndexKnown(p, c)' /\ ViewsLag(p, c)'
    BY <1>0, <1>6 DEF PopBegin, OwnIndexKnown, ViewsLag, Dist
  <2>2. PushInFlight(p)' /\ PopInFlight(c)' /\ RolesKept(p, c)'
    BY <1>0, <1>6 DEF PopBegin, PushInFlight, PopInFlight, RolesKept
  <2> QED
    BY <2>1, <2>2 DEF SpscInv
<1>7. CASE PopRead(c)
  <2>1. OwnIndexKnown(p, c)' /\ ViewsLag(p, c)'
    BY <1>0, <1>7 DEF PopRead, OwnIndexKnown, ViewsLag, Dist
  <2>2. PushInFlight(p)' /\ PopInFlight(c)' /\ RolesKept(p, c)'
    BY <1>0, <1>7 DEF PopRead, PushInFlight, PopInFlight, RolesKept
  <2> QED
    BY <2>1, <2>2 DEF SpscInv
<1>8. CASE PopPublish(c)
  <2>1. tail # headView[c] /\ tail # head /\ tailView[c] = tail
    BY <1>0, <1>8, DistFacts
    DEF PopPublish, PopInFlight, ViewsLag, OwnIndexKnown
  <2>2. /\ tail' = Succ(tail) /\ tailView' = [tailView EXCEPT ![c] = tail']
        /\ UNCHANGED <<buffer, head, headView, localHead, item>>
    BY <1>8 DEF PopPublish
  <2>3. OwnIndexKnown(p, c)' /\ RolesKept(p, c)'
    BY <1>0, <1>8, <2>2 DEF PopPublish, OwnIndexKnown, RolesKept
  <2>4. ViewsLag(p, c)'
    BY <1>0, <2>1, <2>2, DistFacts, SuccWraps DEF ViewsLag, Dist
  <2>5. PushInFlight(p)' /\ PopInFlight(c)'
    BY <1>0, <1>8, <2>2 DEF PopPublish, PushInFlight, PopInFlight, RolesKept
  <2> QED
    BY <2>3, <2>4, <2>5 DEF SpscInv
<1>9. ASSUME NEW t \in Threads, LearnHead(t) PROVE SpscInv(p, Consumer)'
  <2>0. OwnIndexKnown(p, c)'
    BY <1>0, <1>9 DEF LearnHead, OwnIndexKnown
  <2>1. ViewsLag(p, c)'
    BY <1>0, <1>9, SuccWraps, DistFacts
    DEF LearnHead, OwnIndexKnown, ViewsLag
  <2>2. head = tail => headView[c] = tail
    BY <1>0, DistFacts DEF ViewsLag
  <2>3. PushInFlight(p)' /\ PopInFlight(c)' /\ RolesKept(p, c)'
    BY <1>0, <1>9, <2>2
    DEF LearnHead, PushInFlight, PopInFlight, RolesKept
  <2> QED
    BY <2>0, <2>1, <2>3 DEF SpscInv
<1>10. ASSUME NEW t \in Threads, LearnTail(t) PROVE SpscInv(p, Consumer)'
  <2>0. OwnIndexKnown(p, c)'
    BY <1>0, <1>10 DEF LearnTail, OwnIndexKnown
  <2>1. ViewsLag(p, c)'
    BY <1>0, <1>10, SuccWraps, DistFacts
    DEF LearnTail, OwnIndexKnown, ViewsLag
  <2>2. Succ(head) # tailView[p] => Succ(head) # tail
    BY <1>0, DistFacts DEF ViewsLag
  <2>3. PushInFlight(p)' /\ PopInFlight(c)' /\ RolesKept(p, c)'
    BY <1>0, <1>10, <2>2
    DEF LearnTail, PushInFlight, PopInFlight, RolesKept
  <2> QED
    BY <2>0, <2>1, <2>3 DEF SpscInv
<1>11. CASE UNCHANGED vars
  BY <1>0, <1>11 DEF vars, SpscInv, OwnIndexKnown, ViewsLag, PushInFlight,
                     PopInFlight, RolesKept, Dist
<1> QED
  BY <1>1, <1>2, <1>3, <1>4, <1>5, <1>6, <1>7, <1>8, <1>9, <1>10, <1>11
  DEF Next, Push, Pop

(* Hence it always holds.                                                  *)
LEMMA SpscInvariant ==
  ASSUME NEW p, Producers = {p}
  PROVE  Spec => []SpscInv(p, Consumer)
<1>1. Init => SpscInv(p, Consumer)
  BY SpscInvInit
<1>2. SpscInv(p, Consumer) /\ TypeOK' /\ [Next]_vars => SpscInv(p, Consumer)'
  BY SpscInvStep
<1> QED
  BY <1>1, <1>2, TypeCorrect, PTL DEF Spec

(* The plain reads and writes of the slots never race when one thread       *)
(* pushes and one thread pops, however late each learns of the other's      *)
(* index: what the acquire and release orderings are there for.            *)
THEOREM RaceFree ==
  ASSUME NEW p, Producers = {p}
  PROVE  Spec => []NoDataRace
<1>1. SpscInv(p, Consumer) => NoDataRace
  <2> SUFFICES ASSUME SpscInv(p, Consumer), pc[p] = "pushWrite",
                      pc[Consumer] = "popRead"
               PROVE  tail # localHead[p]
    BY DEF NoDataRace
  <2>1. localHead[p] = head /\ headView[Consumer] # tail
    BY DEF SpscInv, PushInFlight, PopInFlight
  <2>2. head # tail
    BY <2>1, DistFacts DEF SpscInv, TypeOK, ViewsLag, Threads
  <2> QED
    BY <2>1, <2>2
<1> QED
  BY <1>1, SpscInvariant, PTL

-----------------------------------------------------------------------------
(* The refinement: Pending is the abstract queue.                          *)

(* Pending is a sequence of Dist(tail, head) slots, all different from the  *)
(* slot at head.                                                           *)
LEMMA PendingSlots ==
  ASSUME TypeOK
  PROVE  /\ Pending \in Seq(Held)
         /\ Len(Pending) = Dist(tail, head)
         /\ \A i \in 1 .. Dist(tail, head) :
              /\ (tail + i - 1) % Size \in Slot \ {head}
              /\ Pending[i] = buffer[(tail + i - 1) % Size]
         /\ (tail + Dist(tail, head)) % Size = head
<1>1. head \in Slot /\ tail \in Slot /\ Dist(tail, head) \in 0 .. Size - 1
  BY DistFacts DEF TypeOK
<1>2. ASSUME NEW i \in 1 .. Dist(tail, head)
      PROVE  (tail + i - 1) % Size \in Slot \ {head}
  <2>1. i - 1 \in 0 .. Size - 1 /\ tail + (i - 1) = tail + i - 1
    BY <1>1, SizeAssumption DEF Slot
  <2>2. (tail + i - 1) % Size
          = IF tail + i - 1 < Size THEN tail + i - 1 ELSE tail + i - 1 - Size
    BY <1>1, <2>1, ModWraps
  <2> QED
    BY <1>1, <2>2, SizeAssumption DEF Dist, Slot
<1>3. (tail + Dist(tail, head)) % Size = head
  <2>1. (tail + Dist(tail, head)) % Size
          = IF tail + Dist(tail, head) < Size
            THEN tail + Dist(tail, head)
            ELSE tail + Dist(tail, head) - Size
    BY <1>1, ModWraps
  <2> QED
    BY <1>1, <2>1, SizeAssumption DEF Dist, Slot
<1>4. Pending \in [1 .. Dist(tail, head) -> Held]
  BY <1>2 DEF Pending, TypeOK
<1>5. Pending \in Seq(Held) /\ Len(Pending) = Dist(tail, head)
  BY <1>1, <1>4
<1> QED
  BY <1>2, <1>3, <1>5 DEF Pending

(* PushPublish appends the pushed event to the pending ones.               *)
LEMMA PublishEnqueues ==
  ASSUME NEW p, Producers = {p}, SpscInv(p, Consumer), TypeOK',
         PushPublish(p)
  PROVE  Fifo!Enqueue(item[p]) /\ item[p] \in Item
<1>1. /\ head' = Succ(head) /\ buffer' = buffer /\ tail' = tail
      /\ popped' = popped
      /\ item[p] \in Item /\ item[p] = buffer[head]
  BY DEF PushPublish, Goto, SpscInv, PushInFlight
<1>2. TypeOK /\ head \in Slot /\ tail \in Slot /\ Threads = {p, Consumer}
  BY DEF SpscInv, TypeOK, Threads
<1>3. Succ(head) # tail
  <2>1. Succ(head) # tailView[p]
    BY DEF PushPublish, Goto, SpscInv, PushInFlight
  <2> QED
    BY <1>2, <2>1, DistFacts DEF SpscInv, ViewsLag, TypeOK
<1>4. Dist(tail, head') = Dist(tail, head) + 1
      /\ Dist(tail, head) \in 0 .. Size - 2
  BY <1>1, <1>2, <1>3, DistFacts, SizeAssumption
<1> DEFINE n == Dist(tail, head)
<1>5. Len(Pending) = n /\ Pending \in Seq(Held)
  BY <1>2, PendingSlots
<1>6. \A i \in 1 .. n : Pending'[i] = Pending[i]
  BY <1>1, <1>4 DEF Pending
<1>7. Pending'[n + 1] = item[p]
  <2>1. Pending'[n + 1] = buffer[(tail + (n + 1) - 1) % Size]
    BY <1>1, <1>4 DEF Pending
  <2>2. tail + (n + 1) - 1 = tail + n
    BY <1>2, <1>4 DEF Slot
  <2> QED
    BY <1>1, <1>2, <2>1, <2>2, PendingSlots
<1>8. Len(Pending') = n + 1 /\ Pending' \in Seq(Held)
  <2>1. Pending' = [i \in 1 .. n + 1 |-> Pending'[i]]
    BY <1>1, <1>4 DEF Pending
  <2>2. \A i \in 1 .. n : Pending[i] \in Held
    BY <1>4, <1>5
  <2>3. \A i \in 1 .. n + 1 : Pending'[i] \in Held
    BY <1>1, <1>4, <1>6, <1>7, <2>2 DEF Held
  <2>4. Pending' \in [1 .. n + 1 -> Held]
    BY <2>1, <2>3
  <2> QED
    BY <1>4, <2>4
<1>9. Pending' = Append(Pending, item[p])
  BY <1>4, <1>5, <1>8, <1>6, <1>7, <1>1 DEF Held
<1>10. Len(Pending) < Size - 1
  BY <1>4, <1>5, SizeAssumption
<1> QED
  BY <1>1, <1>9, <1>10 DEF Fifo!Enqueue, Fifo!HasRoom

(* PopPublish takes the oldest pending event and returns it.               *)
LEMMA PublishDequeues ==
  ASSUME NEW p, Producers = {p}, SpscInv(p, Consumer), TypeOK',
         PopPublish(Consumer)
  PROVE  Fifo!Dequeue
<1>1. /\ tail' = Succ(tail) /\ buffer' = buffer /\ head' = head
      /\ popped' = item[Consumer]
      /\ item[Consumer] = buffer[tail]
      /\ headView[Consumer] # tail
  BY DEF PopPublish, Goto, SpscInv, PopInFlight
<1>2. TypeOK /\ head \in Slot /\ tail \in Slot /\ Consumer \in Threads
  BY DEF SpscInv, TypeOK, Threads
<1> DEFINE n == Dist(tail, head)
<1>3. /\ tail # head
      /\ n \in 1 .. Size - 1 /\ Dist(tail', head') = n - 1
  BY <1>1, <1>2, DistFacts, SizeAssumption DEF SpscInv, ViewsLag, TypeOK
<1>4. Len(Pending) = n /\ Pending \in Seq(Held) /\ Pending # <<>>
  BY <1>2, <1>3, PendingSlots
<1>5. Pending[1] = buffer[tail]
  <2>1. Pending[1] = buffer[(tail + 1 - 1) % Size]
    BY <1>3 DEF Pending
  <2>2. tail + 1 - 1 = tail /\ tail % Size = tail
    BY <1>2, SizeAssumption DEF Slot
  <2> QED
    BY <2>1, <2>2
<1>6. ASSUME NEW i \in 1 .. n - 1 PROVE Pending'[i] = Pending[i + 1]
  <2>1. Pending'[i] = buffer[(Succ(tail) + i - 1) % Size]
        /\ Pending[i + 1] = buffer[(tail + (i + 1) - 1) % Size]
    BY <1>1, <1>3, <1>6 DEF Pending
  <2>2. /\ Succ(tail) \in Slot
        /\ Succ(tail) = IF tail = Size - 1 THEN 0 ELSE tail + 1
    BY <1>2, SuccWraps
  <2>3. i - 1 \in 0 .. Size - 1 /\ i \in 0 .. Size - 1
    BY <1>3, <1>6, SizeAssumption
  <2>4. (Succ(tail) + (i - 1)) % Size = (tail + i) % Size
    <3>1. (tail + i) % Size = IF tail + i < Size THEN tail + i
                              ELSE tail + i - Size
      BY <1>2, <2>3, ModWraps
    <3>2. (Succ(tail) + (i - 1)) % Size
            = IF Succ(tail) + (i - 1) < Size THEN Succ(tail) + (i - 1)
              ELSE Succ(tail) + (i - 1) - Size
      BY <2>2, <2>3, ModWraps
    <3> QED
      BY <1>2, <2>2, <2>3, <3>1, <3>2, SizeAssumption DEF Slot
  <2>5. Succ(tail) + i - 1 = Succ(tail) + (i - 1)
        /\ tail + (i + 1) - 1 = tail + i
    BY <1>2, <2>2, <2>3 DEF Slot
  <2> QED
    BY <2>1, <2>4, <2>5
<1>7. Len(Pending') = n - 1 /\ Pending' \in Seq(Held)
  <2>1. Pending' = [i \in 1 .. n - 1 |-> Pending'[i]]
    BY <1>1, <1>3 DEF Pending
  <2>2. \A i \in 1 .. n - 1 : Pending'[i] \in Held
    BY <1>3, <1>4, <1>6
  <2>3. Pending' \in [1 .. n - 1 -> Held]
    BY <2>1, <2>2
  <2> QED
    BY <1>3, <2>3
<1>8. Pending' = Tail(Pending)
  BY <1>3, <1>4, <1>7, <1>6
<1>9. Head(Pending) = popped'
  BY <1>1, <1>4, <1>5
<1> QED
  BY <1>4, <1>8, <1>9 DEF Fifo!Dequeue

(* Writing the slot at head leaves what a pop can return as it was.         *)
LEMMA WriteIsInvisible ==
  ASSUME NEW p, Producers = {p}, SpscInv(p, Consumer), PushWrite(p)
  PROVE  UNCHANGED <<Pending, popped>>
<1>1. /\ buffer' = [buffer EXCEPT ![head] = item[p]]
      /\ UNCHANGED <<head, tail, popped>>
  BY DEF PushWrite, Goto, SpscInv, PushInFlight
<1>2. TypeOK
  BY DEF SpscInv
<1>3. \A i \in 1 .. Dist(tail, head) :
        buffer'[(tail + i - 1) % Size] = buffer[(tail + i - 1) % Size]
  BY <1>1, <1>2, PendingSlots DEF TypeOK
<1> QED
  BY <1>1, <1>3 DEF Pending, Dist

(* With one producer the lock-free code is the bounded first-in first-out   *)
(* queue that EventQueue promises: nothing lost, duplicated or reordered.   *)
THEOREM SpscImplementsFifo ==
  ASSUME NEW p, Producers = {p}
  PROVE  Spec => ImplementsFifo
<1>1. Init => Fifo!Init
  BY SizeAssumption DEF Init, Fifo!Init, Pending, Dist, Blank
<1>2. ASSUME SpscInv(p, Consumer), TypeOK', [Next]_vars
      PROVE  [Fifo!Next]_(Fifo!qvars)
  <2>1. CASE PushPublish(p)
    BY <1>2, <2>1, PublishEnqueues DEF Fifo!Next
  <2>2. CASE PopPublish(Consumer)
    BY <1>2, <2>2, PublishDequeues DEF Fifo!Next
  <2>3. CASE PushWrite(p)
    BY <1>2, <2>3, WriteIsInvisible DEF Fifo!qvars
  <2>4. CASE UNCHANGED <<buffer, head, tail, popped>>
    BY <2>4 DEF Fifo!qvars, Pending, Dist
  <2>5. \/ PushPublish(p) \/ PopPublish(Consumer) \/ PushWrite(p)
        \/ UNCHANGED <<buffer, head, tail, popped>>
    BY <1>2 DEF Next, Push, Pop, PushBegin, PushRefuse, PushProceed,
                PopBegin, PopRead, LearnHead, LearnTail, vars
  <2> QED
    BY <2>1, <2>2, <2>3, <2>4, <2>5
<1>3. Spec => []SpscInv(p, Consumer)
  BY SpscInvariant
<1> QED
  BY <1>1, <1>2, <1>3, TypeCorrect, PTL
  DEF Spec, ImplementsFifo, Fifo!Spec
=============================================================================
