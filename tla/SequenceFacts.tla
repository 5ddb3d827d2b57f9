---------------------------- MODULE SequenceFacts ----------------------------
(***************************************************************************)
(* Facts about sequences and numbers that the proofs of several components *)
(* rest on.                                                                *)
(***************************************************************************)
EXTENDS Integers, SequencesExt, SequenceTheorems, FiniteSetTheorems,
        WellFoundedInduction, TLAPS

(* What erase leaves: the elements before the iterator stay in place, those *)
(* behind it move up by one.                                               *)
LEMMA RemoveAtFacts ==
  ASSUME NEW S, NEW s \in Seq(S), NEW k \in 1 .. Len(s)
  PROVE  /\ RemoveAt(s, k) \in Seq(S)
         /\ Len(RemoveAt(s, k)) = Len(s) - 1
         /\ \A i \in 1 .. Len(s) - 1 :
              RemoveAt(s, k)[i] = IF i < k THEN s[i] ELSE s[i + 1]
<1> DEFINE front == SubSeq(s, 1, k - 1)
           back  == SubSeq(s, k + 1, Len(s))
<1>0. Len(s) \in Nat /\ k \in Nat /\ 1 <= k /\ k <= Len(s)
  OBVIOUS
<1>1. /\ front \in Seq(S) /\ Len(front) = k - 1
      /\ \A i \in 1 .. k - 1 : front[i] = s[i]
  OBVIOUS
<1>2. /\ back \in Seq(S) /\ Len(back) = Len(s) - k
      /\ \A i \in 1 .. Len(s) - k : back[i] = s[i + k]
  OBVIOUS
<1> HIDE DEF front, back
<1> DEFINE left == front \o back
<1>3. /\ left \in Seq(S) /\ Len(left) = Len(front) + Len(back)
      /\ \A i \in 1 .. Len(front) + Len(back) :
           left[i] = IF i <= Len(front) THEN front[i] ELSE back[i - Len(front)]
  BY <1>1, <1>2, ConcatProperties
<1> HIDE DEF left
<1>4. Len(front) + Len(back) = Len(s) - 1
  BY <1>0, <1>1, <1>2
<1>5. ASSUME NEW i \in 1 .. Len(s) - 1
      PROVE  left[i] = IF i < k THEN s[i] ELSE s[i + 1]
  <2>1. left[i] = IF i <= Len(front) THEN front[i] ELSE back[i - Len(front)]
    BY <1>3, <1>4, <1>5
  <2>2. CASE i < k
    <3>1. i \in 1 .. k - 1 /\ i <= Len(front)
      BY <1>0, <1>1, <1>5, <2>2
    <3> QED
      BY <1>1, <2>1, <2>2, <3>1
  <2>3. CASE ~(i < k)
    <3>1. /\ i - Len(front) \in 1 .. Len(s) - k
          /\ i - Len(front) + k = i + 1
          /\ ~(i <= Len(front))
      BY <1>0, <1>1, <1>5, <2>3
    <3>2. left[i] = back[i - Len(front)]
      BY <2>1, <3>1
    <3> QED
      BY <1>2, <2>3, <3>1, <3>2
  <2> QED
    BY <2>2, <2>3
<1>6. RemoveAt(s, k) = left
  BY DEF RemoveAt, left, front, back
<1> QED
  BY <1>3, <1>4, <1>5, <1>6

(* Every set of natural numbers that is not empty has a least element.      *)
LEMMA LeastElement ==
  ASSUME NEW S \in SUBSET Nat, S # {}
  PROVE  \E n \in S : \A k \in S : n <= k
<1>1. PICK n \in S : \A k \in S : ~(<<k, n>> \in OpToRel(<, Nat))
  BY NatLessThanWellFounded, WFMin
<1>2. ASSUME NEW k \in S PROVE n <= k
  <2>1. k \in Nat /\ n \in Nat /\ <<k, n>> \in Nat \X Nat
    OBVIOUS
  <2>2. ~(k < n)
    BY <1>1, <2>1 DEF OpToRel
  <2> QED
    BY <2>1, <2>2
<1> QED
  BY <1>2

(* A sorted row of distinct keys takes one more key, different from all of  *)
(* them, at one place: the rearrangement that puts it there.                *)
LEMMA InsertionSorts ==
  ASSUME NEW n \in Nat, NEW key \in [1 .. n + 1 -> Int],
         \A i, j \in 1 .. n : i < j => key[i] > key[j],
         \A i \in 1 .. n : key[i] # key[n + 1]
  PROVE  \E p \in [1 .. n + 1 -> 1 .. n + 1] :
           /\ \A i, j \in 1 .. n + 1 : p[i] = p[j] => i = j
           /\ \A i, j \in 1 .. n + 1 : i < j => key[p[i]] >= key[p[j]]
<1> DEFINE S == {i \in 1 .. n + 1 : i = n + 1 \/ key[i] < key[n + 1]}
<1>1. PICK k \in S : \A i \in S : k <= i
  <2>1. S \in SUBSET Nat /\ n + 1 \in S
    OBVIOUS
  <2> HIDE DEF S
  <2> QED
    BY <2>1, LeastElement
<1>2. /\ k \in 1 .. n + 1
      /\ \A i \in 1 .. n : i < k => key[i] > key[n + 1]
  <2>1. k \in 1 .. n + 1
    OBVIOUS
  <2>2. ASSUME NEW i \in 1 .. n, i < k PROVE key[i] > key[n + 1]
    <3>1. i \notin S
      BY <1>1, <2>1, <2>2
    <3>2. ~(key[i] < key[n + 1]) /\ key[i] \in Int /\ key[n + 1] \in Int
      BY <3>1
    <3> QED
      BY <3>2
  <2> QED
    BY <2>1, <2>2
<1>3. \A i \in 1 .. n : k <= i => key[n + 1] > key[i]
  <2>1. ASSUME NEW i \in 1 .. n, k <= i PROVE key[n + 1] > key[i]
    <3>1. k # n + 1 /\ k \in 1 .. n
      BY <1>2, <2>1
    <3>2. key[k] < key[n + 1]
      BY <3>1
    <3>3. key[i] <= key[k] /\ key[i] \in Int /\ key[k] \in Int
          /\ key[n + 1] \in Int
      BY <2>1, <3>1
    <3> QED
      BY <3>2, <3>3
  <2> QED
    BY <2>1
<1> DEFINE at(i) == IF i < k THEN i ELSE IF i = k THEN n + 1 ELSE i - 1
           p == [i \in 1 .. n + 1 |-> at(i)]
<1> HIDE DEF S
<1>4. ASSUME NEW i \in 1 .. n + 1 PROVE at(i) \in 1 .. n + 1 /\ p[i] = at(i)
  BY <1>2
<1>5. ASSUME NEW i \in 1 .. n + 1, NEW j \in 1 .. n + 1, at(i) = at(j) PROVE i = j
  BY <1>2, <1>5
<1>6. ASSUME NEW i \in 1 .. n + 1, NEW j \in 1 .. n + 1, i < j
      PROVE  key[at(i)] >= key[at(j)]
  <2>1. /\ i < k => at(i) = i /\ i \in 1 .. n
        /\ i = k => at(i) = n + 1
        /\ i > k => at(i) = i - 1 /\ i - 1 \in 1 .. n /\ k <= i - 1
    BY <1>2
  <2>2. /\ j < k => at(j) = j /\ j \in 1 .. n
        /\ j = k => at(j) = n + 1
        /\ j > k => at(j) = j - 1 /\ j - 1 \in 1 .. n /\ k <= j - 1
    BY <1>2
  <2>3. key[at(i)] \in Int /\ key[at(j)] \in Int
    BY <1>4
  <2>4. CASE j < k
    BY <1>6, <2>1, <2>2, <2>3, <2>4, <1>2
  <2>5. CASE j = k
    BY <1>6, <2>1, <2>2, <2>3, <2>5, <1>2
  <2>6. CASE j > k
    <3>1. CASE i < k
      <4>1. i < j - 1
        BY <1>2, <1>6, <2>6, <3>1
      <4> QED
        BY <2>1, <2>2, <2>3, <2>6, <3>1, <4>1
    <3>2. CASE i = k
      BY <1>3, <2>1, <2>2, <2>3, <2>6, <3>2
    <3>3. CASE i > k
      BY <1>2, <1>6, <2>1, <2>2, <2>3, <2>6, <3>3
    <3> QED
      BY <1>2, <3>1, <3>2, <3>3
  <2> QED
    BY <1>2, <2>4, <2>5, <2>6
<1>7. p \in [1 .. n + 1 -> 1 .. n + 1]
  BY <1>4
<1>8. /\ \A i, j \in 1 .. n + 1 : p[i] = p[j] => i = j
      /\ \A i, j \in 1 .. n + 1 : i < j => key[p[i]] >= key[p[j]]
  <2> HIDE DEF at, p
  <2>1. ASSUME NEW i \in 1 .. n + 1, NEW j \in 1 .. n + 1, p[i] = p[j]
        PROVE  i = j
    <3>1. at(i) = at(j)
      BY <1>4, <2>1
    <3> QED
      BY <1>5, <3>1
  <2>2. ASSUME NEW i \in 1 .. n + 1, NEW j \in 1 .. n + 1, i < j
        PROVE  key[p[i]] >= key[p[j]]
    <3>1. p[i] = at(i) /\ p[j] = at(j)
      BY <1>4
    <3>2. key[at(i)] >= key[at(j)]
      BY <1>6, <2>2
    <3> QED
      BY <3>1, <3>2
  <2> QED
    BY <2>1, <2>2
<1> QED
  BY <1>7, <1>8

-----------------------------------------------------------------------------
(* What a sequence holds, and that it holds at most one element of a set P: *)
(* facts by which queues are taken apart and put together.                  *)

Once(s, P) == \A i, j \in DOMAIN s : s[i] \in P /\ s[j] \in P => i = j
None(s, P) == ToSet(s) \cap P = {}

LEMMA ConcatOnce ==
  ASSUME NEW S, NEW a \in Seq(S), NEW b \in Seq(S)
  PROVE  /\ a \o b \in Seq(S)
         /\ ToSet(a \o b) = ToSet(a) \cup ToSet(b)
         /\ \A P : Once(a \o b, P) <=>
              Once(a, P) /\ Once(b, P) /\ (None(a, P) \/ None(b, P))
<1> DEFINE c == a \o b
<1>1. /\ c \in Seq(S) /\ Len(c) = Len(a) + Len(b)
      /\ \A i \in 1 .. Len(a) + Len(b) :
           c[i] = IF i <= Len(a) THEN a[i] ELSE b[i - Len(a)]
  BY ConcatProperties
<1> HIDE DEF c
<1>2. /\ DOMAIN a = 1 .. Len(a) /\ DOMAIN b = 1 .. Len(b)
      /\ DOMAIN c = 1 .. Len(c) /\ Len(a) \in Nat /\ Len(b) \in Nat
  BY <1>1
<1>3. \A i \in DOMAIN a : i \in DOMAIN c /\ c[i] = a[i]
  BY <1>1, <1>2
<1>4. \A i \in DOMAIN b : i + Len(a) \in DOMAIN c /\ c[i + Len(a)] = b[i]
  <2>1. ASSUME NEW i \in DOMAIN b
        PROVE  i + Len(a) \in DOMAIN c /\ c[i + Len(a)] = b[i]
    <3>1. /\ i + Len(a) \in 1 .. Len(a) + Len(b) /\ ~(i + Len(a) <= Len(a))
          /\ (i + Len(a)) - Len(a) = i
      BY <1>2
    <3>2. c[i + Len(a)] = b[(i + Len(a)) - Len(a)]
      BY <1>1, <3>1
    <3> QED
      BY <1>1, <1>2, <3>1, <3>2
  <2> QED
    BY <2>1
<1>5. ASSUME NEW i \in DOMAIN c
      PROVE  \/ i \in DOMAIN a
             \/ i - Len(a) \in DOMAIN b /\ c[i] = b[i - Len(a)]
  BY <1>1, <1>2
<1>6. ToSet(c) = ToSet(a) \cup ToSet(b)
  <2>1. ASSUME NEW x \in ToSet(c) PROVE x \in ToSet(a) \cup ToSet(b)
    BY <1>3, <1>5 DEF ToSet
  <2>2. ASSUME NEW x \in ToSet(a) \cup ToSet(b) PROVE x \in ToSet(c)
    BY <1>3, <1>4 DEF ToSet
  <2> QED
    BY <2>1, <2>2
<1>7. ASSUME NEW P, Once(c, P)
      PROVE  Once(a, P) /\ Once(b, P) /\ (None(a, P) \/ None(b, P))
  <2>1. Once(a, P)
    BY <1>3, <1>7 DEF Once
  <2>2. ASSUME NEW i \in DOMAIN b, NEW j \in DOMAIN b, b[i] \in P, b[j] \in P
        PROVE  i = j
    <3>1. i + Len(a) = j + Len(a)
      BY <1>4, <1>7, <2>2 DEF Once
    <3> QED
      BY <1>2, <3>1
  <2>3. ASSUME NEW i \in DOMAIN a, NEW j \in DOMAIN b, a[i] \in P, b[j] \in P
        PROVE  FALSE
    <3>1. i = j + Len(a)
      BY <1>3, <1>4, <1>7, <2>3 DEF Once
    <3> QED
      BY <1>2, <3>1
  <2> QED
    BY <2>1, <2>2, <2>3 DEF Once, None, ToSet
<1>8. ASSUME NEW P, Once(a, P), Once(b, P), None(a, P) \/ None(b, P)
      PROVE  Once(c, P)
  <2>1. ASSUME NEW i \in DOMAIN c, NEW j \in DOMAIN c, c[i] \in P, c[j] \in P
        PROVE  i = j
    <3>1. CASE i \in DOMAIN a /\ j \in DOMAIN a
      BY <1>3, <1>8, <2>1, <3>1 DEF Once
    <3>2. CASE /\ i - Len(a) \in DOMAIN b /\ c[i] = b[i - Len(a)]
               /\ j - Len(a) \in DOMAIN b /\ c[j] = b[j - Len(a)]
      <4>1. i - Len(a) = j - Len(a)
        BY <1>8, <2>1, <3>2 DEF Once
      <4> QED
        BY <1>2, <4>1
    <3>3. CASE i \in DOMAIN a /\ j - Len(a) \in DOMAIN b /\ c[j] = b[j - Len(a)]
      BY <1>3, <1>8, <2>1, <3>3 DEF None, ToSet
    <3>4. CASE j \in DOMAIN a /\ i - Len(a) \in DOMAIN b /\ c[i] = b[i - Len(a)]
      BY <1>3, <1>8, <2>1, <3>4 DEF None, ToSet
    <3> QED
      BY <1>5, <3>1, <3>2, <3>3, <3>4
  <2> QED
    BY <2>1 DEF Once
<1> QED
  BY <1>1, <1>6, <1>7, <1>8 DEF c

LEMMA EmptyOnce == ToSet(<<>>) = {} /\ \A P : Once(<<>>, P) /\ None(<<>>, P)
BY DEF ToSet, Once, None

LEMMA SingleOnce ==
  ASSUME NEW e
  PROVE  ToSet(<<e>>) = {e} /\ \A P : Once(<<e>>, P)
<1>1. DOMAIN <<e>> = {1} /\ <<e>>[1] = e
  OBVIOUS
<1> QED
  BY <1>1 DEF ToSet, Once

LEMMA AppendOnce ==
  ASSUME NEW S, NEW a \in Seq(S), NEW e \in S
  PROVE  /\ ToSet(Append(a, e)) = ToSet(a) \cup {e}
         /\ \A P : Once(Append(a, e), P) <=>
              Once(a, P) /\ (None(a, P) \/ e \notin P)
<1>1. Append(a, e) = a \o <<e>> /\ <<e>> \in Seq(S)
  BY AppendIsConcat
<1>2. ToSet(<<e>>) = {e} /\ \A P : Once(<<e>>, P)
  BY SingleOnce
<1>3. \A P : None(<<e>>, P) <=> e \notin P
  BY <1>2 DEF None
<1>4. PICK b \in Seq(S) : b = <<e>>
  BY <1>1
<1>5. /\ ToSet(a \o b) = ToSet(a) \cup ToSet(b)
      /\ \A P : Once(a \o b, P) <=>
           Once(a, P) /\ Once(b, P) /\ (None(a, P) \/ None(b, P))
  BY ConcatOnce
<1> QED
  BY <1>1, <1>2, <1>3, <1>4, <1>5

(* A sequence is its head and the rest.                                    *)
LEMMA HeadTailParts ==
  ASSUME NEW S, NEW s \in Seq(S), s # <<>>
  PROVE  /\ Head(s) \in S /\ Tail(s) \in Seq(S)
         /\ <<Head(s)>> \in Seq(S) /\ s = <<Head(s)>> \o Tail(s)
<1>1. /\ Head(s) \in S /\ Tail(s) \in Seq(S) /\ Len(Tail(s)) = Len(s) - 1
      /\ \A i \in 1 .. Len(Tail(s)) : Tail(s)[i] = s[i + 1]
      /\ <<Head(s)>> \in Seq(S) /\ Len(<<Head(s)>>) = 1
      /\ <<Head(s)>>[1] = s[1] /\ Len(s) \in Nat \ {0}
  BY HeadTailProperties
<1> DEFINE h == <<Head(s)>>
           t == Tail(s)
           c == h \o t
<1>2. /\ c \in Seq(S) /\ Len(c) = Len(h) + Len(t)
      /\ \A i \in 1 .. Len(h) + Len(t) :
           c[i] = IF i <= Len(h) THEN h[i] ELSE t[i - Len(h)]
  <2> HIDE DEF h, t
  <2> QED
    BY <1>1, ConcatProperties DEF h, t
<1> HIDE DEF h, t, c
<1>3. Len(c) = Len(s) /\ \A i \in 1 .. Len(s) : c[i] = s[i]
  <2>1. Len(h) = 1 /\ Len(t) = Len(s) - 1 /\ h[1] = s[1]
        /\ \A i \in 1 .. Len(t) : t[i] = s[i + 1]
    BY <1>1 DEF h, t
  <2>2. ASSUME NEW i \in 1 .. Len(s) PROVE c[i] = s[i]
    <3>1. CASE i = 1
      BY <1>1, <1>2, <2>1, <3>1
    <3>2. CASE i > 1
      <4>1. /\ i \in 1 .. Len(h) + Len(t) /\ ~(i <= Len(h))
            /\ i - Len(h) \in 1 .. Len(t) /\ (i - Len(h)) + 1 = i
        BY <1>1, <2>1, <3>2
      <4> QED
        BY <1>2, <2>1, <4>1
    <3> QED
      BY <1>1, <3>1, <3>2
  <2> QED
    BY <1>1, <1>2, <2>1, <2>2
<1>4. c = s
  BY <1>2, <1>3, SeqEqual
<1> QED
  BY <1>1, <1>4 DEF c, h, t

LEMMA TailOnce ==
  ASSUME NEW S, NEW s \in Seq(S), s # <<>>
  PROVE  /\ Head(s) \in S /\ Tail(s) \in Seq(S)
         /\ ToSet(s) = {Head(s)} \cup ToSet(Tail(s))
         /\ \A P : Once(s, P) <=>
              Once(Tail(s), P) /\ (None(Tail(s), P) \/ Head(s) \notin P)
<1>1. /\ Head(s) \in S /\ Tail(s) \in Seq(S)
      /\ <<Head(s)>> \in Seq(S) /\ s = <<Head(s)>> \o Tail(s)
  BY HeadTailParts
<1>2. ToSet(<<Head(s)>>) = {Head(s)} /\ \A P : Once(<<Head(s)>>, P)
  BY SingleOnce
<1>3. \A P : None(<<Head(s)>>, P) <=> Head(s) \notin P
  BY <1>2 DEF None
<1>4. PICK h \in Seq(S), t \in Seq(S) : h = <<Head(s)>> /\ t = Tail(s)
  BY <1>1
<1>5. /\ ToSet(h \o t) = ToSet(h) \cup ToSet(t)
      /\ \A P : Once(h \o t, P) <=>
           Once(h, P) /\ Once(t, P) /\ (None(h, P) \/ None(t, P))
  BY ConcatOnce
<1> QED
  BY <1>1, <1>2, <1>3, <1>4, <1>5

(* An element taken out of the middle.                                      *)
LEMMA RemoveOnce ==
  ASSUME NEW S, NEW s \in Seq(S), NEW k \in 1 .. Len(s)
  PROVE  /\ ToSet(s) = {s[k]} \cup ToSet(RemoveAt(s, k))
         /\ \A P : Once(s, P) =>
              Once(RemoveAt(s, k), P) /\ (None(RemoveAt(s, k), P) \/ s[k] \notin P)
<1> DEFINE r == RemoveAt(s, k)
           from == [i \in 1 .. Len(s) - 1 |-> IF i < k THEN i ELSE i + 1]
<1>1. /\ r \in Seq(S) /\ Len(r) = Len(s) - 1
      /\ \A i \in 1 .. Len(s) - 1 : r[i] = IF i < k THEN s[i] ELSE s[i + 1]
  BY RemoveAtFacts
<1> HIDE DEF r
<1>2. DOMAIN s = 1 .. Len(s) /\ DOMAIN r = 1 .. Len(s) - 1 /\ Len(s) \in Nat
  BY <1>1
<1>3. \A i \in DOMAIN r : /\ from[i] \in DOMAIN s /\ from[i] # k
                          /\ r[i] = s[from[i]]
  BY <1>1, <1>2
<1>4. \A i, j \in DOMAIN r : from[i] = from[j] => i = j
  BY <1>2
<1>5. \A i \in DOMAIN s : i = k \/ \E j \in DOMAIN r : from[j] = i
  <2>1. ASSUME NEW i \in DOMAIN s, i < k PROVE \E j \in DOMAIN r : from[j] = i
    <3>1. i \in DOMAIN r /\ from[i] = i
      BY <1>2, <2>1
    <3> QED
      BY <3>1
  <2>2. ASSUME NEW i \in DOMAIN s, i > k PROVE \E j \in DOMAIN r : from[j] = i
    <3>1. i - 1 \in DOMAIN r /\ from[i - 1] = i
      BY <1>2, <2>2
    <3> QED
      BY <3>1
  <2> QED
    BY <1>2, <2>1, <2>2
<1> HIDE DEF from
<1>6. ToSet(s) = {s[k]} \cup ToSet(r)
  <2>1. k \in DOMAIN s
    BY <1>2
  <2> QED
    BY <1>3, <1>5, <2>1 DEF ToSet
<1>7. ASSUME NEW P, Once(s, P)
      PROVE  Once(r, P) /\ (None(r, P) \/ s[k] \notin P)
  <2>1. Once(r, P)
    BY <1>3, <1>4, <1>7 DEF Once
  <2>2. ASSUME NEW i \in DOMAIN r, r[i] \in P, s[k] \in P PROVE FALSE
    <3>1. from[i] = k
      BY <1>2, <1>3, <1>7, <2>2 DEF Once
    <3> QED
      BY <1>3, <3>1
  <2> QED
    BY <2>1, <2>2 DEF None, ToSet
<1> QED
  BY <1>6, <1>7 DEF r

(* All elements of A are before all elements of B.                          *)
Precede(s, A, B) == \A i, j \in DOMAIN s : s[i] \in A /\ s[j] \in B => i <= j

LEMMA ConcatPrecede ==
  ASSUME NEW S, NEW a \in Seq(S), NEW b \in Seq(S)
  PROVE  \A A, B : Precede(a \o b, A, B) <=>
           Precede(a, A, B) /\ Precede(b, A, B) /\ (None(a, B) \/ None(b, A))
<1>1. PICK c \in Seq(S) : c = a \o b
  BY ConcatProperties
<1>2. PICK m \in Nat, n \in Nat :
        /\ m = Len(a) /\ n = Len(b) /\ DOMAIN a = 1 .. m /\ DOMAIN b = 1 .. n
        /\ DOMAIN c = 1 .. m + n
        /\ \A i \in 1 .. m + n : c[i] = IF i <= m THEN a[i] ELSE b[i - m]
  BY <1>1, ConcatProperties
<1>3. \A i \in 1 .. m : i \in 1 .. m + n /\ c[i] = a[i]
  BY <1>2
<1>4. \A i \in 1 .. n : i + m \in 1 .. m + n /\ c[i + m] = b[i]
  <2>1. ASSUME NEW i \in 1 .. n
        PROVE  i + m \in 1 .. m + n /\ c[i + m] = b[i]
    <3>1. i + m \in 1 .. m + n /\ ~(i + m <= m) /\ (i + m) - m = i
      OBVIOUS
    <3> QED
      BY <1>2, <3>1
  <2> QED
    BY <2>1
<1>5. \A i \in 1 .. m + n :
        \/ i \in 1 .. m
        \/ i - m \in 1 .. n /\ i > m /\ c[i] = b[i - m]
  BY <1>2
<1>6. ASSUME NEW A, NEW B, Precede(c, A, B)
      PROVE  Precede(a, A, B) /\ Precede(b, A, B) /\ (None(a, B) \/ None(b, A))
  <2>1. Precede(a, A, B)
    BY <1>2, <1>3, <1>6 DEF Precede
  <2>2. ASSUME NEW i \in 1 .. n, NEW j \in 1 .. n, b[i] \in A, b[j] \in B
        PROVE  i <= j
    <3>1. i + m <= j + m
      BY <1>2, <1>4, <1>6, <2>2 DEF Precede
    <3> QED
      BY <3>1
  <2>3. ASSUME NEW i \in 1 .. n, NEW j \in 1 .. m, b[i] \in A, a[j] \in B
        PROVE  FALSE
    <3>1. i + m <= j
      BY <1>2, <1>3, <1>4, <1>6, <2>3 DEF Precede
    <3> QED
      BY <3>1
  <2> QED
    BY <1>2, <2>1, <2>2, <2>3 DEF Precede, None, ToSet
<1>7. ASSUME NEW A, NEW B, Precede(a, A, B), Precede(b, A, B),
             None(a, B) \/ None(b, A)
      PROVE  Precede(c, A, B)
  <2>1. ASSUME NEW i \in 1 .. m + n, NEW j \in 1 .. m + n, c[i] \in A, c[j] \in B
        PROVE  i <= j
    <3>1. CASE i \in 1 .. m /\ j \in 1 .. m
      BY <1>2, <1>3, <1>7, <2>1, <3>1 DEF Precede
    <3>2. CASE i - m \in 1 .. n /\ c[i] = b[i - m] /\ j - m \in 1 .. n /\ c[j] = b[j - m]
      <4>1. i - m <= j - m
        BY <1>2, <1>7, <2>1, <3>2 DEF Precede
      <4> QED
        BY <4>1
    <3>3. CASE i \in 1 .. m /\ j > m
      BY <3>3
    <3>4. CASE j \in 1 .. m /\ i - m \in 1 .. n /\ c[i] = b[i - m]
      <4>1. a[j] \in B /\ b[i - m] \in A
        BY <1>3, <2>1, <3>4
      <4> QED
        BY <1>2, <1>7, <3>4, <4>1 DEF None, ToSet
    <3> QED
      BY <1>5, <3>1, <3>2, <3>3, <3>4
  <2> QED
    BY <1>2, <2>1 DEF Precede
<1> QED
  BY <1>1, <1>6, <1>7

LEMMA FewPrecede ==
  /\ \A A, B : Precede(<<>>, A, B)
  /\ \A e, A, B : Precede(<<e>>, A, B)
<1>1. DOMAIN <<>> = {} /\ \A e : DOMAIN <<e>> = {1}
  OBVIOUS
<1> QED
  BY <1>1 DEF Precede

LEMMA AppendPrecede ==
  ASSUME NEW S, NEW a \in Seq(S), NEW e \in S
  PROVE  \A A, B : Precede(Append(a, e), A, B) <=>
           Precede(a, A, B) /\ (None(a, B) \/ e \notin A)
<1>1. Append(a, e) = a \o <<e>> /\ <<e>> \in Seq(S)
  BY AppendIsConcat
<1>2. \A P : None(<<e>>, P) <=> e \notin P
  BY SingleOnce DEF None
<1>3. PICK b \in Seq(S) : b = <<e>>
  BY <1>1
<1>4. \A A, B : Precede(a \o b, A, B) <=>
        Precede(a, A, B) /\ Precede(b, A, B) /\ (None(a, B) \/ None(b, A))
  BY ConcatPrecede
<1> QED
  BY <1>1, <1>2, <1>3, <1>4, FewPrecede

LEMMA TailPrecede ==
  ASSUME NEW S, NEW s \in Seq(S), s # <<>>
  PROVE  \A A, B : Precede(s, A, B) <=>
           Precede(Tail(s), A, B) /\ (None(Tail(s), A) \/ Head(s) \notin B)
<1>1. /\ Head(s) \in S /\ Tail(s) \in Seq(S)
      /\ <<Head(s)>> \in Seq(S) /\ s = <<Head(s)>> \o Tail(s)
  BY HeadTailParts
<1>2. \A P : None(<<Head(s)>>, P) <=> Head(s) \notin P
  BY SingleOnce DEF None
<1>3. PICK h \in Seq(S), t \in Seq(S) : h = <<Head(s)>> /\ t = Tail(s)
  BY <1>1
<1>4. \A A, B : Precede(h \o t, A, B) <=>
        Precede(h, A, B) /\ Precede(t, A, B) /\ (None(h, B) \/ None(t, A))
  BY ConcatPrecede
<1> QED
  BY <1>1, <1>2, <1>3, <1>4, FewPrecede

-----------------------------------------------------------------------------
(* How many elements of a set P a sequence holds.                           *)

Spots(s, P) == {i \in DOMAIN s : s[i] \in P}
HowMany(s, P) == Cardinality(Spots(s, P))

LEMMA SpotsFinite ==
  ASSUME NEW S, NEW s \in Seq(S), NEW P
  PROVE  IsFiniteSet(Spots(s, P)) /\ HowMany(s, P) \in Nat
<1>1. IsFiniteSet(1 .. Len(s))
  BY FS_Interval
<1>2. Spots(s, P) \in SUBSET (1 .. Len(s))
  BY DEF Spots
<1>3. IsFiniteSet(Spots(s, P))
  BY <1>1, <1>2, FS_Subset
<1> QED
  BY <1>3, FS_CardinalityType DEF HowMany

LEMMA ConcatMany ==
  ASSUME NEW S, NEW a \in Seq(S), NEW b \in Seq(S), NEW P
  PROVE  HowMany(a \o b, P) = HowMany(a, P) + HowMany(b, P)
<1> DEFINE c == a \o b
           left == Spots(a, P)
           right == {i \in Len(a) + 1 .. Len(a) + Len(b) : b[i - Len(a)] \in P}
           moved == [i \in Spots(b, P) |-> i + Len(a)]
<1>1. /\ c \in Seq(S) /\ Len(c) = Len(a) + Len(b)
      /\ \A i \in 1 .. Len(a) + Len(b) :
           c[i] = IF i <= Len(a) THEN a[i] ELSE b[i - Len(a)]
  BY ConcatProperties
<1>2. /\ DOMAIN a = 1 .. Len(a) /\ DOMAIN b = 1 .. Len(b)
      /\ DOMAIN c = 1 .. Len(c) /\ Len(a) \in Nat /\ Len(b) \in Nat
  BY <1>1
<1> HIDE DEF c
<1>3. Spots(c, P) = left \cup right /\ left \cap right = {}
  BY <1>1, <1>2 DEF Spots
<1>4. moved \in Bijection(Spots(b, P), right)
  <2>1. moved \in [Spots(b, P) -> right]
    BY <1>2 DEF Spots
  <2>2. \A x, y \in Spots(b, P) : moved[x] = moved[y] => x = y
    BY <1>2 DEF Spots
  <2>3. ASSUME NEW i \in right PROVE \E x \in Spots(b, P) : moved[x] = i
    <3>1. i - Len(a) \in Spots(b, P)
      BY <1>2 DEF Spots
    <3>2. moved[i - Len(a)] = i
      BY <1>2, <3>1
    <3> QED
      BY <3>1, <3>2
  <2> HIDE DEF moved, right
  <2> QED
    BY <2>1, <2>2, <2>3 DEF Bijection, Injection, Surjection, IsInjective
<1> HIDE DEF moved, right
<1>5. /\ IsFiniteSet(left) /\ IsFiniteSet(Spots(b, P))
      /\ Cardinality(left) \in Nat /\ Cardinality(Spots(b, P)) \in Nat
  BY SpotsFinite DEF HowMany
<1>6. ExistsBijection(Spots(b, P), right)
  BY <1>4 DEF ExistsBijection
<1> HIDE DEF left
<1>7. IsFiniteSet(right) /\ Cardinality(right) = Cardinality(Spots(b, P))
  BY <1>5, <1>6, FS_Bijection
<1>8. Cardinality(left \cup right) = Cardinality(left) + Cardinality(right)
  <2>1. Cardinality(left \cap right) = 0
    BY <1>3, FS_EmptySet
  <2>2. Cardinality(left \cup right)
          = Cardinality(left) + Cardinality(right) - Cardinality(left \cap right)
    BY <1>5, <1>7, FS_Union
  <2> QED
    BY <1>5, <1>7, <2>1, <2>2
<1> QED
  BY <1>3, <1>7, <1>8 DEF HowMany, left, c

LEMMA SingleMany ==
  ASSUME NEW e, NEW P
  PROVE  /\ HowMany(<<>>, P) = 0
         /\ HowMany(<<e>>, P) = IF e \in P THEN 1 ELSE 0
<1>1. Spots(<<>>, P) = {}
  BY DEF Spots
<1>2. Spots(<<e>>, P) = IF e \in P THEN {1} ELSE {}
  BY DEF Spots
<1> QED
  BY <1>1, <1>2, FS_EmptySet, FS_Singleton DEF HowMany

LEMMA AppendMany ==
  ASSUME NEW S, NEW a \in Seq(S), NEW e \in S, NEW P
  PROVE  HowMany(Append(a, e), P) = HowMany(a, P) + IF e \in P THEN 1 ELSE 0
<1>1. Append(a, e) = a \o <<e>> /\ <<e>> \in Seq(S)
  BY AppendIsConcat
<1>2. PICK b \in Seq(S) : b = <<e>>
  BY <1>1
<1>3. HowMany(a \o b, P) = HowMany(a, P) + HowMany(b, P)
  BY ConcatMany
<1> QED
  BY <1>1, <1>2, <1>3, SingleMany

LEMMA TailMany ==
  ASSUME NEW S, NEW s \in Seq(S), s # <<>>, NEW P
  PROVE  HowMany(s, P) = HowMany(Tail(s), P) + IF Head(s) \in P THEN 1 ELSE 0
<1>1. PICK h \in Seq(S), t \in Seq(S) :
        h = <<Head(s)>> /\ t = Tail(s) /\ s = h \o t
  BY HeadTailParts
<1>2. HowMany(h \o t, P) = HowMany(h, P) + HowMany(t, P)
  BY ConcatMany
<1>3. HowMany(h, P) = IF Head(s) \in P THEN 1 ELSE 0
  BY <1>1, SingleMany
<1>4. HowMany(h, P) \in Nat /\ HowMany(t, P) \in Nat
  BY SpotsFinite
<1>5. HowMany(s, P) = HowMany(h, P) + HowMany(Tail(s), P)
  BY <1>1, <1>2
<1>6. HowMany(Tail(s), P) \in Nat
  BY <1>1, <1>4
<1>7. CASE Head(s) \in P
  BY <1>3, <1>5, <1>6, <1>7
<1>8. CASE Head(s) \notin P
  BY <1>3, <1>5, <1>6, <1>8
<1> QED
  BY <1>7, <1>8
=============================================================================
