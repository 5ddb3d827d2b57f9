---------------------------- MODULE LatencyProofs ----------------------------
(***************************************************************************)
(* The two latency instruments: the monitor's percentiles and lists for     *)
(* every number of fills and every clock, the tracker's lock-free figures   *)
(* for every set of threads and spans.                                     *)
(***************************************************************************)
EXTENDS Latency, SequenceFacts

-----------------------------------------------------------------------------
(* Sums.  FoldFunction takes the elements in an order nobody knows, so that *)
(* its result is pinned down by a function from sets of positions to sums   *)
(* that may take any element first.                                        *)

IsSum(s, sum) ==
  /\ sum \in [SUBSET DOMAIN s -> Int]
  /\ sum[{}] = 0
  /\ \A A \in SUBSET DOMAIN s : \A i \in A : sum[A] = s[i] + sum[A \ {i}]

(* One step of FoldFunction's recursion. *)
Fold(s, A, sum) ==
  IF A = {} THEN 0
  ELSE s[CHOOSE i \in A : TRUE] + sum[A \ {CHOOSE i \in A : TRUE}]

LEMMA SumOfIs ==
  ASSUME NEW s
  PROVE  SumOf(s) =
    (CHOOSE f : f = [A \in SUBSET DOMAIN s |-> Fold(s, A, f)])[DOMAIN s]
BY DEF SumOf, FoldFunction, FoldFunctionOnSet, MapThenFoldSet, Fold

LEMMA FoldIsSum ==
  ASSUME NEW s \in Seq(Int), NEW sum, IsSum(s, sum)
  PROVE  SumOf(s) = sum[DOMAIN s]
<1> DEFINE D == DOMAIN s
           IsFold(f) == f = [A \in SUBSET D |-> Fold(s, A, f)]
<1>1. IsFiniteSet(D)
  <2>1. D = 1 .. Len(s) /\ Len(s) \in Nat
    OBVIOUS
  <2> QED
    BY <2>1, FS_Interval
<1>2. IsFold(sum)
  <2>1. ASSUME NEW A \in SUBSET D PROVE sum[A] = Fold(s, A, sum)
    <3>1. CASE A = {}
      BY <3>1 DEF Fold, IsSum
    <3>2. CASE A # {}
      <4>1. (CHOOSE i \in A : TRUE) \in A
        BY <3>2
      <4> QED
        BY <3>2, <4>1 DEF Fold, IsSum
    <3> QED
      BY <3>1, <3>2
  <2>2. sum = [A \in SUBSET D |-> sum[A]]
    BY DEF IsSum
  <2> QED
    BY <2>1, <2>2
<1>3. PICK f : IsFold(f) /\ SumOf(s) = f[D]
  <2>1. IsFold(CHOOSE f : IsFold(f))
    BY <1>2
  <2> QED
    BY <2>1, SumOfIs
<1>4. \A A \in SUBSET D : f[A] = Fold(s, A, f)
  BY <1>3
<1> HIDE DEF IsFold
<1>5. ASSUME NEW B \in SUBSET D, f[B] # sum[B] PROVE FALSE
  <2> DEFINE sizes == {Cardinality(A) : A \in {C \in SUBSET D : f[C] # sum[C]}}
  <2>1. \A A \in SUBSET D : IsFiniteSet(A) /\ Cardinality(A) \in Nat
    BY <1>1, FS_Subset, FS_CardinalityType
  <2>2. sizes \in SUBSET Nat /\ sizes # {}
    BY <1>5, <2>1
  <2>3. PICK n \in sizes : \A k \in sizes : n <= k
    BY <2>2, LeastElement
  <2>4. PICK A \in SUBSET D : f[A] # sum[A] /\ n = Cardinality(A)
    BY <2>3
  <2>5. \A C \in SUBSET D : f[C] # sum[C] => n <= Cardinality(C)
    BY <2>3
  <2>6. A # {}
    BY <1>4, <2>4 DEF Fold, IsSum
  <2>7. PICK i \in A : i = CHOOSE j \in A : TRUE
    BY <2>6
  <2>8. Cardinality(A \ {i}) = n - 1 /\ n \in Nat
    BY <2>1, <2>4, FS_RemoveElement
  <2>9. A \ {i} \in SUBSET D /\ ~(n <= Cardinality(A \ {i}))
    BY <2>8
  <2>10. f[A \ {i}] = sum[A \ {i}]
    BY <2>5, <2>9
  <2>11. f[A] = s[i] + f[A \ {i}]
    BY <1>4, <2>6, <2>7 DEF Fold
  <2>12. sum[A] = s[i] + sum[A \ {i}]
    BY DEF IsSum
  <2> QED
    BY <2>4, <2>10, <2>11, <2>12
<1> QED
  BY <1>3, <1>5

LEMMA EmptySum ==
  /\ IsSum(<<>>, [A \in SUBSET {} |-> 0])
  /\ SumOf(<<>>) = 0
<1> DEFINE sum == [A \in SUBSET {} |-> 0]
<1>1. DOMAIN <<>> = {} /\ <<>> \in Seq(Int)
  OBVIOUS
<1>2. sum \in [SUBSET {} -> Int] /\ sum[{}] = 0
  OBVIOUS
<1> HIDE DEF sum
<1>3. IsSum(<<>>, sum)
  BY <1>1, <1>2 DEF IsSum
<1>4. SumOf(<<>>) = sum[{}]
  BY <1>1, <1>3, FoldIsSum
<1> QED
  BY <1>2, <1>3, <1>4 DEF sum

LEMMA GrownSum ==
  ASSUME NEW s \in Seq(Int), NEW x \in Int, NEW sum, IsSum(s, sum)
  PROVE  LET n == Len(s) + 1
             grown == [A \in SUBSET (1 .. n) |->
                         IF n \in A THEN sum[A \ {n}] + x ELSE sum[A]]
         IN IsSum(Append(s, x), grown) /\ SumOf(Append(s, x)) = SumOf(s) + x
<1>1. PICK n \in Nat : n = Len(s) + 1 /\ DOMAIN s = 1 .. n - 1
  OBVIOUS
<1>2. PICK t \in Seq(Int) :
        /\ t = Append(s, x) /\ DOMAIN t = 1 .. n
        /\ t[n] = x /\ \A i \in 1 .. n - 1 : t[i] = s[i]
  <2>1. Append(s, x) \in Seq(Int) /\ Len(Append(s, x)) = n
    BY <1>1
  <2>2. Append(s, x)[n] = x /\ \A i \in 1 .. n - 1 : Append(s, x)[i] = s[i]
    BY <1>1
  <2>3. DOMAIN Append(s, x) = 1 .. n
    BY <2>1
  <2> QED
    BY <2>1, <2>2, <2>3
<1> DEFINE grown == [A \in SUBSET (1 .. n) |->
                       IF n \in A THEN sum[A \ {n}] + x ELSE sum[A]]
<1>3. /\ sum \in [SUBSET (1 .. n - 1) -> Int] /\ sum[{}] = 0
      /\ \A A \in SUBSET (1 .. n - 1) : \A i \in A : sum[A] = s[i] + sum[A \ {i}]
  BY <1>1 DEF IsSum
<1>4. \A A \in SUBSET (1 .. n) :
        /\ n \in A => A \ {n} \in SUBSET (1 .. n - 1)
        /\ n \notin A => A \in SUBSET (1 .. n - 1)
  OBVIOUS
<1>5. \A A \in SUBSET (1 .. n) :
        /\ n \in A => grown[A] = sum[A \ {n}] + x
        /\ n \notin A => grown[A] = sum[A]
  OBVIOUS
<1>6. grown \in [SUBSET (1 .. n) -> Int]
  <2>1. ASSUME NEW A \in SUBSET (1 .. n)
        PROVE  (IF n \in A THEN sum[A \ {n}] + x ELSE sum[A]) \in Int
    <3>1. CASE n \in A
      <4>1. sum[A \ {n}] \in Int
        BY <1>3, <1>4, <3>1
      <4> QED
        BY <3>1, <4>1
    <3>2. CASE n \notin A
      BY <1>3, <1>4, <3>2
    <3> QED
      BY <3>1, <3>2
  <2> QED
    BY <2>1
<1> HIDE DEF grown
<1>7. grown[{}] = 0
  BY <1>3, <1>5
<1>8. ASSUME NEW A \in SUBSET (1 .. n), NEW i \in A
      PROVE  grown[A] = t[i] + grown[A \ {i}]
  <2>1. CASE i = n
    <3>1. grown[A] = sum[A \ {n}] + x
      BY <1>5, <2>1
    <3>2. grown[A \ {n}] = sum[A \ {n}] /\ sum[A \ {n}] \in Int
      BY <1>3, <1>4, <1>5, <2>1
    <3> QED
      BY <1>2, <2>1, <3>1, <3>2
  <2>2. CASE i # n
    <3>1. i \in 1 .. n - 1 /\ t[i] = s[i] /\ s[i] \in Int
      BY <1>1, <1>2, <2>2
    <3>2. CASE n \in A
      <4>1. PICK B \in SUBSET (1 .. n - 1) : B = A \ {n}
        BY <1>4, <3>2
      <4>2. sum[B] = s[i] + sum[B \ {i}] /\ sum[B \ {i}] \in Int
        BY <1>3, <2>2, <4>1
      <4>3. grown[A] = sum[B] + x
        BY <1>5, <3>2, <4>1
      <4>4. grown[A \ {i}] = sum[B \ {i}] + x
        <5>1. A \ {i} \in SUBSET (1 .. n) /\ n \in A \ {i}
          BY <2>2, <3>2
        <5>2. (A \ {i}) \ {n} = B \ {i}
          BY <4>1
        <5> QED
          BY <1>5, <5>1, <5>2
      <4> QED
        BY <3>1, <4>2, <4>3, <4>4
    <3>3. CASE n \notin A
      <4>1. A \in SUBSET (1 .. n - 1)
        BY <1>4, <3>3
      <4>2. sum[A] = s[i] + sum[A \ {i}]
        BY <1>3, <4>1
      <4>3. grown[A] = sum[A] /\ grown[A \ {i}] = sum[A \ {i}]
        BY <1>5, <3>3
      <4> QED
        BY <3>1, <4>2, <4>3
    <3> QED
      BY <3>2, <3>3
  <2> QED
    BY <2>1, <2>2
<1>9. IsSum(t, grown)
  BY <1>2, <1>6, <1>7, <1>8 DEF IsSum
<1>10. SumOf(t) = SumOf(s) + x
  <2>1. SumOf(t) = grown[1 .. n] /\ SumOf(s) = sum[1 .. n - 1]
    BY <1>1, <1>2, <1>9, FoldIsSum
  <2>2. (1 .. n) \ {n} = 1 .. n - 1 /\ n \in 1 .. n
    BY <1>1
  <2> QED
    BY <1>5, <2>1, <2>2
<1> QED
  BY <1>1, <1>2, <1>9, <1>10 DEF grown

LEMMA AllSummed ==
  ASSUME NEW s \in Seq(Int)
  PROVE  \E sum : IsSum(s, sum)
<1> DEFINE lengths == {n \in Nat : \E t \in Seq(Int) :
                         Len(t) = n /\ ~ \E sum : IsSum(t, sum)}
<1>1. ASSUME lengths # {} PROVE FALSE
  <2>1. lengths \in SUBSET Nat
    OBVIOUS
  <2>2. PICK n \in lengths : \A k \in lengths : n <= k
    BY <1>1, <2>1, LeastElement
  <2>3. PICK t \in Seq(Int) : Len(t) = n /\ ~ \E sum : IsSum(t, sum)
    BY <2>2
  <2>4. t # <<>>
    BY <2>3, EmptySum
  <2>5. PICK f \in Seq(Int), l \in Int : t = Append(f, l) /\ Len(f) = n - 1
    <3>1. PICK f \in Seq(Int) : \E l \in Int : t = Append(f, l)
      BY <2>4, SequenceEmptyOrAppend
    <3>2. Len(f) = n - 1
      BY <2>3, <3>1
    <3> QED
      BY <3>1, <3>2
  <2>6. n - 1 \in Nat /\ n - 1 \notin lengths
    <3>1. n \in Nat /\ Len(f) \in Nat
      BY <2>3
    <3>2. n - 1 \in Nat /\ ~(n <= n - 1)
      BY <2>5, <3>1
    <3> HIDE DEF lengths
    <3> QED
      BY <2>2, <3>2
  <2>7. PICK sum : IsSum(f, sum)
    BY <2>5, <2>6
  <2> QED
    BY <2>3, <2>5, <2>7, GrownSum
<1>2. Len(s) \in Nat
  OBVIOUS
<1> QED
  BY <1>1, <1>2

LEMMA AppendAdds ==
  ASSUME NEW s \in Seq(Int), NEW x \in Int
  PROVE  SumOf(Append(s, x)) = SumOf(s) + x /\ SumOf(s) \in Int
<1>1. PICK sum : IsSum(s, sum)
  BY AllSummed
<1>2. SumOf(Append(s, x)) = SumOf(s) + x
  BY <1>1, GrownSum
<1>3. SumOf(s) \in Int
  BY <1>1, FoldIsSum DEF IsSum
<1> QED
  BY <1>2, <1>3

-----------------------------------------------------------------------------
(* Sorting.  Every sample has a place of its own, so that the sorted list   *)
(* is the same samples in another order.                                   *)

Place(s, i) == Cardinality(Before(s, i)) + 1

LEMMA PlaceIs ==
  ASSUME NEW s \in Seq(Int), NEW i \in DOMAIN s
  PROVE  /\ IsFiniteSet(Before(s, i)) /\ i \notin Before(s, i)
         /\ Place(s, i) \in DOMAIN s
         /\ Cardinality(Before(s, i)) \in Nat
<1>1. Before(s, i) \in SUBSET (DOMAIN s \ {i})
  <2>1. s[i] \in Int /\ i \in Int
    OBVIOUS
  <2>2. i \notin Before(s, i)
    BY <2>1 DEF Before
  <2> QED
    BY <2>2 DEF Before
<1>2. /\ DOMAIN s = 1 .. Len(s) /\ Len(s) \in Nat
      /\ IsFiniteSet(DOMAIN s) /\ Cardinality(DOMAIN s) = Len(s)
  <2>1. PICK n \in Nat : n = Len(s) /\ DOMAIN s = 1 .. n
    OBVIOUS
  <2>2. IsFiniteSet(1 .. n) /\ Cardinality(1 .. n) = n
    BY FS_Interval
  <2> QED
    BY <2>1, <2>2
<1>3. /\ IsFiniteSet(DOMAIN s \ {i})
      /\ Cardinality(DOMAIN s \ {i}) = Len(s) - 1
  BY <1>2, FS_RemoveElement
<1>4. /\ IsFiniteSet(Before(s, i))
      /\ Cardinality(Before(s, i)) <= Len(s) - 1
  BY <1>1, <1>3, FS_Subset
<1>5. Cardinality(Before(s, i)) \in Nat
  BY <1>4, FS_CardinalityType
<1>6. Place(s, i) \in 1 .. Len(s)
  BY <1>2, <1>4, <1>5 DEF Place
<1> QED
  BY <1>1, <1>2, <1>4, <1>5, <1>6

LEMMA PlacesOrder ==
  ASSUME NEW s \in Seq(Int), NEW i \in DOMAIN s, NEW j \in Before(s, i)
  PROVE  Place(s, j) < Place(s, i)
<1>1. j \in DOMAIN s
  BY DEF Before
<1>2. /\ \A k \in DOMAIN s : s[k] \in Int /\ k \in Int
      /\ j \in DOMAIN s
  BY <1>1
<1>3. Before(s, j) \in SUBSET (Before(s, i) \ {j})
  <2>1. ASSUME NEW k \in Before(s, j) PROVE k \in Before(s, i)
    <3>1. k \in DOMAIN s /\ (s[k] < s[j] \/ (s[k] = s[j] /\ k < j))
      BY DEF Before
    <3>2. s[j] < s[i] \/ (s[j] = s[i] /\ j < i)
      BY DEF Before
    <3>3. s[k] < s[i] \/ (s[k] = s[i] /\ k < i)
      BY <1>2, <3>1, <3>2
    <3> QED
      BY <3>1, <3>3 DEF Before
  <2>2. j \notin Before(s, j)
    BY <1>1, PlaceIs
  <2> QED
    BY <2>1, <2>2
<1>4. IsFiniteSet(Before(s, i)) /\ Cardinality(Before(s, i)) \in Nat
  BY PlaceIs
<1>5. /\ IsFiniteSet(Before(s, i) \ {j})
      /\ Cardinality(Before(s, i) \ {j}) = Cardinality(Before(s, i)) - 1
  BY <1>4, FS_RemoveElement
<1>6. Cardinality(Before(s, j)) <= Cardinality(Before(s, i)) - 1
  BY <1>3, <1>5, FS_Subset
<1>7. Cardinality(Before(s, j)) \in Nat
  BY <1>1, PlaceIs
<1> QED
  BY <1>4, <1>6, <1>7 DEF Place

LEMMA OwnPlaces ==
  ASSUME NEW s \in Seq(Int)
  PROVE  /\ \A i, j \in DOMAIN s : Place(s, i) = Place(s, j) => i = j
         /\ \A k \in DOMAIN s : \E i \in DOMAIN s : Place(s, i) = k
<1> DEFINE D == DOMAIN s
           place == [i \in D |-> Place(s, i)]
<1>1. ASSUME NEW i \in D, NEW j \in D, i # j
      PROVE  Place(s, i) # Place(s, j)
  <2>1. i \in Before(s, j) \/ j \in Before(s, i)
    <3>1. s[i] \in Int /\ s[j] \in Int /\ i \in Int /\ j \in Int
      OBVIOUS
    <3> QED
      BY <1>1, <3>1 DEF Before
  <2>2. Place(s, i) \in Int /\ Place(s, j) \in Int
    BY PlaceIs DEF Place
  <2> QED
    BY <2>1, <2>2, PlacesOrder
<1>2. IsFiniteSet(D)
  <2>1. D = 1 .. Len(s) /\ Len(s) \in Nat
    OBVIOUS
  <2> QED
    BY <2>1, FS_Interval
<1>3. place \in Injection(D, D)
  <2>1. place \in [D -> D]
    BY PlaceIs
  <2>2. \A i, j \in D : place[i] = place[j] => i = j
    BY <1>1
  <2> QED
    BY <2>1, <2>2 DEF Injection, IsInjective
<1>4. place \in Surjection(D, D)
  BY <1>2, <1>3, FS_Injection
<1>5. \A k \in D : \E i \in D : place[i] = k
  BY <1>4 DEF Surjection
<1> QED
  BY <1>1, <1>5

(* The position a sample of the sorted list had before.                     *)
LEMMA SortedIs ==
  ASSUME NEW s \in Seq(Int)
  PROVE  \E from \in [DOMAIN s -> DOMAIN s] :
           /\ \A k \in DOMAIN s : /\ Place(s, from[k]) = k
                                  /\ Sorted(s)[k] = s[from[k]]
           /\ \A i \in DOMAIN s : from[Place(s, i)] = i
           /\ Sorted(s) = [k \in DOMAIN s |-> s[from[k]]]
<1> DEFINE D == DOMAIN s
           from == [k \in D |-> CHOOSE i \in D : Place(s, i) = k]
           placed == {[place |-> Cardinality(Before(s, i)) + 1,
                       sample |-> s[i]] : i \in D}
<1>1. \A k \in D : from[k] \in D /\ Place(s, from[k]) = k
  BY OwnPlaces
<1>2. from \in [D -> D]
  BY <1>1
<1> HIDE DEF from
<1>3. ASSUME NEW i \in D PROVE from[Place(s, i)] = i
  <2>1. PICK k \in D : k = Place(s, i)
    BY PlaceIs
  <2>2. from[k] \in D /\ Place(s, from[k]) = Place(s, i)
    BY <1>1, <2>1
  <2>3. from[k] = i
    BY <2>2, OwnPlaces
  <2> QED
    BY <2>1, <2>3
<1>4. \A p : p \in placed <=>
        \E i \in D : p = [place |-> Place(s, i), sample |-> s[i]]
  BY DEF Place
<1> DEFINE chosen(k) == CHOOSE p \in placed : p.place = k
<1>5. Sorted(s) = [k \in D |-> chosen(k).sample]
  BY DEF Sorted
<1> HIDE DEF placed
<1>6. ASSUME NEW k \in D PROVE chosen(k).sample = s[from[k]]
  <2>1. PICK q : q = [place |-> k, sample |-> s[from[k]]]
    OBVIOUS
  <2>2. q \in placed /\ q.place = k
    BY <1>1, <1>4, <2>1
  <2>3. PICK p \in placed : p.place = k /\ p = chosen(k)
    BY <2>2
  <2>4. PICK i \in D : p = [place |-> Place(s, i), sample |-> s[i]]
    BY <1>4
  <2>5. Place(s, i) = k /\ p.sample = s[i]
    BY <2>3, <2>4
  <2>6. i = from[k]
    BY <1>3, <2>5
  <2> HIDE DEF chosen
  <2> QED
    BY <2>3, <2>5, <2>6
<1> HIDE DEF chosen
<1>7. /\ Sorted(s) = [k \in D |-> s[from[k]]]
      /\ \A k \in D : Sorted(s)[k] = s[from[k]]
  BY <1>5, <1>6
<1> QED
  BY <1>1, <1>2, <1>3, <1>7

LEMMA SortedSum ==
  ASSUME NEW s \in Seq(Int)
  PROVE  /\ Sorted(s) \in Seq(Int) /\ Len(Sorted(s)) = Len(s)
         /\ SumOf(Sorted(s)) = SumOf(s)
<1>1. PICK from \in [DOMAIN s -> DOMAIN s] :
        /\ \A k \in DOMAIN s : /\ Place(s, from[k]) = k
                               /\ Sorted(s)[k] = s[from[k]]
        /\ \A i \in DOMAIN s : from[Place(s, i)] = i
        /\ Sorted(s) = [k \in DOMAIN s |-> s[from[k]]]
  BY SortedIs
<1> DEFINE D == DOMAIN s
<1>2. PICK t : t = Sorted(s)
  OBVIOUS
<1>3. DOMAIN t = D /\ \A k \in D : t[k] = s[from[k]]
  BY <1>1, <1>2
<1>4. D = 1 .. Len(s) /\ Len(s) \in Nat /\ \A i \in D : s[i] \in Int
  OBVIOUS
<1>5. t \in Seq(Int) /\ Len(t) = Len(s)
  <2>1. t = [k \in 1 .. Len(s) |-> s[from[k]]]
    BY <1>1, <1>2, <1>4
  <2>2. \A k \in 1 .. Len(s) : s[from[k]] \in Int
    BY <1>4
  <2> QED
    BY <1>4, <2>1, <2>2, SeqDef
<1>6. PICK sum : IsSum(s, sum)
  BY AllSummed
<1> DEFINE image(A) == {from[k] : k \in A}
           moved == [A \in SUBSET D |-> sum[image(A)]]
<1>7. \A A \in SUBSET D : image(A) \in SUBSET D
  OBVIOUS
<1>8. ASSUME NEW A \in SUBSET D, NEW k \in A
      PROVE  from[k] \in image(A) /\ image(A \ {k}) = image(A) \ {from[k]}
  <2>1. ASSUME NEW i \in A, i # k PROVE from[i] # from[k]
    BY <1>1, <2>1
  <2>2. \A v : v \in image(A \ {k}) <=> \E i \in A \ {k} : v = from[i]
    OBVIOUS
  <2>3. \A v : v \in image(A) <=> \E i \in A : v = from[i]
    OBVIOUS
  <2> HIDE DEF image
  <2> QED
    BY <2>1, <2>2, <2>3
<1>9. image({}) = {} /\ image(D) = D
  <2>1. ASSUME NEW i \in D PROVE i \in image(D)
    <3>1. Place(s, i) \in D /\ i = from[Place(s, i)]
      BY <1>1, PlaceIs
    <3> QED
      BY <3>1
  <2> QED
    BY <1>7, <2>1
<1> HIDE DEF image
<1>10. IsSum(t, moved)
  <2>1. moved \in [SUBSET D -> Int]
    BY <1>6, <1>7 DEF IsSum
  <2>2. moved[{}] = 0
    BY <1>6, <1>9 DEF IsSum
  <2>3. ASSUME NEW A \in SUBSET D, NEW k \in A
        PROVE  moved[A] = t[k] + moved[A \ {k}]
    <3>1. A \ {k} \in SUBSET D /\ k \in D
      OBVIOUS
    <3>2. moved[A] = sum[image(A)] /\ moved[A \ {k}] = sum[image(A) \ {from[k]}]
      BY <1>8, <3>1
    <3>3. sum[image(A)] = s[from[k]] + sum[image(A) \ {from[k]}]
      BY <1>6, <1>7, <1>8 DEF IsSum
    <3> QED
      BY <1>3, <3>1, <3>2, <3>3
  <2> HIDE DEF moved
  <2> QED
    BY <1>3, <2>1, <2>2, <2>3 DEF IsSum
<1>11. SumOf(t) = moved[D] /\ SumOf(s) = sum[D]
  <2> HIDE DEF moved
  <2> QED
    BY <1>3, <1>5, <1>6, <1>10, FoldIsSum
<1> QED
  BY <1>2, <1>5, <1>9, <1>11

-----------------------------------------------------------------------------
(* The monitor.                                                            *)

MonitorInv ==
  /\ total \in Seq(Int) /\ signalToOrder \in Seq(Int) /\ orderToFill \in Seq(Int)
  /\ WholeCoversParts
  /\ total = <<>> => shown = NoStats

(* A span that is dropped was empty: the sum grows by the span either way.  *)
LEMMA RecordAdds ==
  ASSUME NEW s \in Seq(Int), NEW from \in Int, NEW to \in Int,
         0 < from, from <= to
  PROVE  /\ Record(s, from, to) \in Seq(Int)
         /\ SumOf(Record(s, from, to)) = SumOf(s) + (to - from)
         /\ SumOf(s) \in Int
         /\ s # <<>> => Record(s, from, to) # <<>>
<1>1. to - from \in Int /\ SumOf(s) \in Int
  BY AppendAdds
<1>2. CASE from = to
  BY <1>1, <1>2 DEF Record
<1>3. CASE from < to
  <2>1. Record(s, from, to) = Append(s, to - from)
    BY <1>3 DEF Record
  <2> DEFINE span == to - from
  <2>2. Append(s, span) \in Seq(Int) /\ Append(s, span) # <<>>
    <3> span \in Int
      BY <1>1
    <3> HIDE DEF span
    <3>1. Append(s, span) \in Seq(Int) /\ Len(Append(s, span)) = Len(s) + 1
      OBVIOUS
    <3>2. Len(s) \in Nat /\ Len(<<>>) = 0
      OBVIOUS
    <3> QED
      BY <3>1, <3>2
  <2>3. SumOf(Append(s, to - from)) = SumOf(s) + (to - from)
    BY <1>1, AppendAdds
  <2> QED
    BY <1>1, <2>1, <2>2, <2>3
<1> QED
  BY <1>2, <1>3

LEMMA FillKeepsMonitor ==
  ASSUME MonitorInv, NEW signal \in 1 .. MaxTime, NEW order \in 1 .. MaxTime,
         NEW fill \in 1 .. MaxTime, NEW end \in 1 .. MaxTime,
         signal <= order, order <= fill, fill <= end,
         HandleFill(signal, order, fill, end)
  PROVE  MonitorInv'
<1>1. /\ signal \in Int /\ order \in Int /\ fill \in Int /\ end \in Int
      /\ 0 < signal /\ 0 < order /\ signal <= end
  BY TimeAssumption
<1>2. /\ signalToOrder' \in Seq(Int) /\ SumOf(signalToOrder) \in Int
      /\ SumOf(signalToOrder') = SumOf(signalToOrder) + (order - signal)
  BY <1>1, RecordAdds DEF MonitorInv, HandleFill
<1>3. /\ orderToFill' \in Seq(Int) /\ SumOf(orderToFill) \in Int
      /\ SumOf(orderToFill') = SumOf(orderToFill) + (fill - order)
  BY <1>1, RecordAdds DEF MonitorInv, HandleFill
<1>4. /\ total' \in Seq(Int) /\ SumOf(total) \in Int
      /\ SumOf(total') = SumOf(total) + (end - signal)
      /\ total # <<>> => total' # <<>>
  BY <1>1, RecordAdds DEF MonitorInv, HandleFill
<1>5. SumOf(total') >= SumOf(signalToOrder') + SumOf(orderToFill')
  <2>1. PICK a \in Int : /\ a = SumOf(signalToOrder)
                         /\ SumOf(signalToOrder') = a + (order - signal)
    BY <1>2
  <2>2. PICK b \in Int : /\ b = SumOf(orderToFill)
                         /\ SumOf(orderToFill') = b + (fill - order)
    BY <1>3
  <2>3. PICK c \in Int : /\ c = SumOf(total)
                         /\ SumOf(total') = c + (end - signal)
    BY <1>4
  <2>4. c >= a + b
    BY <2>1, <2>2, <2>3 DEF MonitorInv, WholeCoversParts
  <2>5. c + (end - signal) >= (a + (order - signal)) + (b + (fill - order))
    BY <1>1, <2>4
  <2> QED
    BY <2>1, <2>2, <2>3, <2>5
<1>6. total' = <<>> => shown' = NoStats
  BY <1>4 DEF HandleFill, MonitorInv
<1> QED
  BY <1>2, <1>3, <1>4, <1>5, <1>6 DEF MonitorInv, WholeCoversParts

LEMMA StatsKeepMonitor ==
  ASSUME MonitorInv, GetTotalLatencyStats
  PROVE  MonitorInv'
<1>1. /\ total' \in Seq(Int) /\ SumOf(total') = SumOf(total)
      /\ total' = Sorted(total)
  BY SortedSum DEF MonitorInv, GetTotalLatencyStats
<1>2. total' = <<>> => shown' = NoStats
  BY DEF GetTotalLatencyStats, Stats
<1> QED
  BY <1>1, <1>2 DEF MonitorInv, WholeCoversParts, GetTotalLatencyStats

LEMMA MonitorHolds == Spec => []MonitorInv
<1>1. Init => MonitorInv
  BY EmptySum DEF Init, MonitorInv, WholeCoversParts
<1>2. MonitorInv /\ [Next]_monitorVars => MonitorInv'
  <2> SUFFICES ASSUME MonitorInv, [Next]_monitorVars PROVE MonitorInv'
    OBVIOUS
  <2>1. CASE UNCHANGED monitorVars
    BY <2>1 DEF monitorVars, MonitorInv, WholeCoversParts
  <2> QED
    BY <2>1, FillKeepsMonitor, StatsKeepMonitor DEF Next
<1> QED
  BY <1>1, <1>2, PTL DEF Spec

(* The three lists fit together for every number of fills: the time         *)
(* recorded as a whole covers the time recorded for its parts, although     *)
(* each list drops the spans it takes for empty, and is sorted in between.  *)
THEOREM WholeIsCovered == Spec => []WholeCoversParts
<1>1. MonitorInv => WholeCoversParts
  BY DEF MonitorInv
<1> QED
  BY <1>1, MonitorHolds, PTL

(* The sample at position count * percent / 100 of the sorted list has no   *)
(* more than that many below it, and itself and those before it not above.  *)
LEMMA PercentileIs ==
  ASSUME NEW s \in Seq(Int), s # <<>>, NEW percent \in 0 .. 99
  PROVE  IsPercentile(Percentile(Sorted(s), percent), s, percent)
<1> DEFINE D == DOMAIN s
<1>1. PICK n \in Nat \ {0} : n = Len(s) /\ D = 1 .. n
  OBVIOUS
<1>2. PICK m \in Nat : m = (n * percent) \div 100
  <2>1. n * percent \in Nat
    OBVIOUS
  <2> QED
    BY <2>1
<1>3. 100 * m <= percent * n /\ percent * n < 100 * (m + 1) /\ m + 1 \in 1 .. n
  <2>1. PICK x \in Nat : x = n * percent /\ x = percent * n /\ x <= 99 * n
    OBVIOUS
  <2>2. m = x \div 100
    BY <1>2, <2>1
  <2> QED
    BY <2>1, <2>2
<1>4. PICK from \in [DOMAIN s -> DOMAIN s] :
        /\ \A k \in DOMAIN s : /\ Place(s, from[k]) = k
                               /\ Sorted(s)[k] = s[from[k]]
        /\ \A i \in DOMAIN s : from[Place(s, i)] = i
        /\ Sorted(s) = [k \in DOMAIN s |-> s[from[k]]]
  BY SortedIs
<1>5. PICK i \in D : i = from[m + 1] /\ Place(s, i) = m + 1
  BY <1>1, <1>3, <1>4
<1>6. PICK p \in Int : p = s[i]
  OBVIOUS
<1>7. Percentile(Sorted(s), percent) = p
  <2>1. Len(Sorted(s)) = n
    BY <1>1, SortedSum
  <2>2. Sorted(s)[m + 1] = p
    BY <1>1, <1>3, <1>4, <1>5, <1>6
  <2> QED
    BY <1>2, <2>1, <2>2 DEF Percentile
<1> DEFINE below == {j \in D : s[j] < p}
           upTo == {j \in D : s[j] <= p}
<1>8. IsFiniteSet(Before(s, i)) /\ i \notin Before(s, i)
      /\ Cardinality(Before(s, i)) = m
  <2>1. Cardinality(Before(s, i)) \in Nat
    BY PlaceIs
  <2> QED
    BY <1>5, <2>1, PlaceIs DEF Place
<1>9. \A j \in D : s[j] \in Int /\ j \in Int
  OBVIOUS
<1>10. Cardinality(below) <= m /\ Cardinality(below) \in Nat
  <2>1. below \in SUBSET Before(s, i)
    BY <1>6 DEF Before
  <2> HIDE DEF below
  <2> QED
    BY <1>8, <2>1, FS_Subset, FS_CardinalityType
<1>11. Cardinality(upTo) >= m + 1 /\ Cardinality(upTo) \in Nat
  <2>1. Before(s, i) \cup {i} \in SUBSET upTo
    BY <1>6, <1>9 DEF Before
  <2>2. Cardinality(Before(s, i) \cup {i}) = m + 1
    BY <1>8, FS_AddElement
  <2>3. IsFiniteSet(upTo)
    <3>1. IsFiniteSet(1 .. n) /\ upTo \in SUBSET (1 .. n)
      BY <1>1, FS_Interval
    <3> QED
      BY <3>1, FS_Subset
  <2> HIDE DEF upTo
  <2> QED
    BY <2>1, <2>2, <2>3, FS_Subset, FS_CardinalityType
<1>12. /\ IsPercentile(p, s, percent) <=>
            /\ 100 * Cardinality(below) <= percent * n
            /\ 100 * Cardinality(upTo) > percent * n
  BY <1>1 DEF IsPercentile
<1> HIDE DEF below, upTo
<1>13. PICK b \in Nat, u \in Nat : b = Cardinality(below) /\ u = Cardinality(upTo)
  BY <1>10, <1>11
<1>14. 100 * b <= percent * n /\ 100 * u > percent * n
  <2>1. PICK x \in Int : x = percent * n
    OBVIOUS
  <2>2. b <= m /\ u >= m + 1 /\ 100 * m <= x /\ x < 100 * (m + 1)
    BY <1>3, <1>10, <1>11, <1>13, <2>1
  <2> QED
    BY <2>1, <2>2
<1> QED
  BY <1>7, <1>12, <1>13, <1>14

(* What the UI shows are the percentiles of the samples recorded so far,     *)
(* however many there are and in whatever order earlier calls left them.    *)
THEOREM PercentilesExact == Spec => PercentilesAreRanks
<1>1. MonitorInv /\ [Next]_monitorVars =>
        (shown' # shown =>
           /\ IsPercentile(shown'.p50, total, 50)
           /\ IsPercentile(shown'.p90, total, 90)
           /\ IsPercentile(shown'.p99, total, 99))
  <2> SUFFICES ASSUME MonitorInv, [Next]_monitorVars, shown' # shown
               PROVE  /\ IsPercentile(shown'.p50, total, 50)
                      /\ IsPercentile(shown'.p90, total, 90)
                      /\ IsPercentile(shown'.p99, total, 99)
    OBVIOUS
  <2>1. GetTotalLatencyStats
    BY DEF Next, HandleFill, monitorVars
  <2>2. total \in Seq(Int) /\ total' = Sorted(total) /\ shown' = Stats(total')
    BY <2>1 DEF GetTotalLatencyStats, MonitorInv
  <2>3. total # <<>> /\ total' # <<>>
    <3>1. Len(total') = Len(total)
      BY <2>2, SortedSum
    <3>2. total' # <<>>
      BY <2>2, <3>1 DEF MonitorInv, Stats
    <3> QED
      BY <2>2, <3>1, <3>2
  <2>4. /\ shown'.p50 = Percentile(Sorted(total), 50)
        /\ shown'.p90 = Percentile(Sorted(total), 90)
        /\ shown'.p99 = Percentile(Sorted(total), 99)
    BY <2>2, <2>3 DEF Stats
  <2> QED
    BY <2>2, <2>3, <2>4, PercentileIs
<1> QED
  BY <1>1, MonitorHolds, PTL DEF Spec, PercentilesAreRanks

-----------------------------------------------------------------------------
(* The tracker.                                                            *)

Counting == {t \in Recorders : recPc[t] = "count"}

(* A larger span than the maximum is in the hands of a thread that has not   *)
(* finished, and what a thread took for the maximum never was above it.     *)
TrackerInv ==
  /\ given \in Seq(Nat) /\ maxNs \in Nat /\ count \in Int
  /\ recPc \in [Recorders -> {"idle", "count", "load", "compare"}]
  /\ ns \in [Recorders -> Nat] /\ currentMax \in [Recorders -> Nat]
  /\ totalNs = SumOf(given)
  /\ count + Cardinality(Counting) = Len(given)
  /\ maxNs = 0 \/ \E i \in DOMAIN given : given[i] = maxNs
  /\ \A t \in Recorders :
       /\ recPc[t] # "idle" => \E i \in DOMAIN given : given[i] = ns[t]
       /\ recPc[t] = "compare" => currentMax[t] <= maxNs
  /\ \A i \in DOMAIN given :
       \/ given[i] <= maxNs
       \/ \E t \in Recorders : recPc[t] # "idle" /\ given[i] <= ns[t]

LEMMA QuietIs ==
  QuietIsExact <=>
    ((\A t \in Recorders : recPc[t] = "idle") =>
       /\ count = Len(given)
       /\ totalNs = SumOf(given)
       /\ \A i \in DOMAIN given : given[i] <= maxNs
       /\ given # <<>> => \E i \in DOMAIN given : given[i] = maxNs)
<1>1. SumOf(given) = Tracker!FoldFunction(+, 0, given)
  BY DEF SumOf, FoldFunction, FoldFunctionOnSet, MapThenFoldSet,
         Tracker!FoldFunction, Tracker!FoldFunctionOnSet, Tracker!MapThenFoldSet
<1>2. maxNs \in Tracker!Range(given) <=> \E i \in DOMAIN given : given[i] = maxNs
  BY DEF Tracker!Range
<1> QED
  BY <1>1, <1>2 DEF QuietIsExact, Tracker!QuietIsExact

LEMMA TrackerInit ==
  ASSUME Tracker!Init
  PROVE  TrackerInv
<1>1. Counting = {}
  BY DEF Tracker!Init, Counting
<1>2. Cardinality(Counting) = 0
  BY <1>1, FS_EmptySet
<1>3. given = <<>> /\ given \in Seq(Nat) /\ Len(given) = 0 /\ DOMAIN given = {}
  BY DEF Tracker!Init
<1>4. count = 0 /\ totalNs = SumOf(given)
  BY <1>3, EmptySum DEF Tracker!Init
<1> QED
  BY <1>2, <1>3, <1>4 DEF Tracker!Init, TrackerInv

(* A thread that moves on between two steps of record. *)
LEMMA GotoIs ==
  ASSUME TrackerInv, NEW t \in Recorders, NEW from,
         NEW to \in {"idle", "count", "load", "compare"}, Tracker!Goto(t, from, to)
  PROVE  /\ recPc[t] = from /\ recPc'[t] = to
         /\ \A u \in Recorders \ {t} : recPc'[u] = recPc[u]
         /\ recPc' \in [Recorders -> {"idle", "count", "load", "compare"}]
         /\ from # "count" /\ to # "count" => Counting' = Counting
         /\ from = "idle" /\ to = "count" =>
              t \notin Counting /\ Counting' = Counting \cup {t}
         /\ from = "count" /\ to = "load" =>
              t \in Counting /\ Counting' = Counting \ {t}
<1>1. /\ recPc[t] = from /\ recPc'[t] = to
      /\ \A u \in Recorders \ {t} : recPc'[u] = recPc[u]
      /\ recPc' \in [Recorders -> {"idle", "count", "load", "compare"}]
  BY DEF Tracker!Goto, TrackerInv
<1> QED
  BY <1>1 DEF Counting

LEMMA AddTotalKeeps ==
  ASSUME IsFiniteSet(Recorders), TrackerInv, NEW t \in Recorders, NEW span \in Nat,
         Tracker!AddTotal(t, span)
  PROVE  TrackerInv'
<1>1. /\ given' = Append(given, span) /\ ns' = [ns EXCEPT ![t] = span]
      /\ totalNs' = totalNs + span /\ UNCHANGED <<maxNs, count, currentMax>>
      /\ Tracker!Goto(t, "idle", "count")
  BY DEF Tracker!AddTotal
<1>2. /\ recPc[t] = "idle" /\ recPc'[t] = "count"
      /\ \A u \in Recorders \ {t} : recPc'[u] = recPc[u]
      /\ recPc' \in [Recorders -> {"idle", "count", "load", "compare"}]
      /\ t \notin Counting /\ Counting' = Counting \cup {t}
  BY <1>1, GotoIs
<1>3. PICK n \in Nat :
        /\ n = Len(given) /\ given' \in Seq(Nat) /\ Len(given') = n + 1
        /\ DOMAIN given = 1 .. n /\ DOMAIN given' = 1 .. n + 1
        /\ given'[n + 1] = span /\ \A i \in 1 .. n : given'[i] = given[i]
  <2>1. given \in Seq(Nat)
    BY DEF TrackerInv
  <2>2. /\ Append(given, span) \in Seq(Nat)
        /\ Len(Append(given, span)) = Len(given) + 1
        /\ Append(given, span)[Len(given) + 1] = span
        /\ \A i \in 1 .. Len(given) : Append(given, span)[i] = given[i]
    BY <2>1
  <2>3. /\ Len(given) \in Nat /\ DOMAIN given = 1 .. Len(given)
        /\ DOMAIN Append(given, span) = 1 .. Len(given) + 1
    BY <2>1, <2>2
  <2> QED
    BY <1>1, <2>2, <2>3
<1>4. totalNs' = SumOf(given')
  <2>1. given \in Seq(Int) /\ span \in Int
    BY SeqMonotonic DEF TrackerInv
  <2>2. SumOf(Append(given, span)) = SumOf(given) + span
    BY <2>1, AppendAdds
  <2> QED
    BY <1>1, <2>2 DEF TrackerInv
<1>5. count' + Cardinality(Counting') = Len(given')
  <2>1. IsFiniteSet(Counting)
    BY FS_Subset DEF Counting
  <2>2. PICK c \in Nat : c = Cardinality(Counting)
    BY <2>1, FS_CardinalityType
  <2>3. Cardinality(Counting') = c + 1
    BY <1>2, <2>1, <2>2, FS_AddElement
  <2> QED
    BY <1>1, <1>3, <2>2, <2>3 DEF TrackerInv
<1>6. maxNs' = 0 \/ \E i \in DOMAIN given' : given'[i] = maxNs'
  <2>1. ASSUME NEW i \in DOMAIN given, given[i] = maxNs
        PROVE  i \in DOMAIN given' /\ given'[i] = maxNs'
    BY <1>1, <1>3, <2>1
  <2>2. maxNs' = maxNs
    BY <1>1
  <2> QED
    BY <2>1, <2>2 DEF TrackerInv
<1>7. ns' \in [Recorders -> Nat] /\ ns'[t] = span
      /\ \A u \in Recorders \ {t} : ns'[u] = ns[u]
  BY <1>1 DEF TrackerInv
<1>8. ASSUME NEW u \in Recorders, recPc'[u] # "idle"
      PROVE  \E i \in DOMAIN given' : given'[i] = ns'[u]
  <2>1. CASE u = t
    <3>1. n + 1 \in DOMAIN given' /\ given'[n + 1] = ns'[u]
      BY <1>3, <1>7, <2>1
    <3> QED
      BY <3>1
  <2>2. CASE u # t
    <3>1. PICK i \in DOMAIN given : given[i] = ns[u]
      BY <1>2, <1>8, <2>2 DEF TrackerInv
    <3>2. i \in DOMAIN given' /\ given'[i] = ns'[u]
      BY <1>3, <1>7, <2>2, <3>1
    <3> QED
      BY <3>2
  <2> QED
    BY <2>1, <2>2
<1>9. ASSUME NEW u \in Recorders, recPc'[u] = "compare"
      PROVE  currentMax'[u] <= maxNs'
  BY <1>1, <1>2, <1>9 DEF TrackerInv
<1>10. ASSUME NEW i \in DOMAIN given'
       PROVE  \/ given'[i] <= maxNs'
              \/ \E u \in Recorders : recPc'[u] # "idle" /\ given'[i] <= ns'[u]
  <2>1. CASE i = n + 1
    <3>1. recPc'[t] # "idle" /\ given'[i] <= ns'[t]
      BY <1>2, <1>3, <1>7, <2>1
    <3> QED
      BY <3>1
  <2>2. CASE i \in DOMAIN given
    <3>1. given'[i] = given[i] /\ maxNs' = maxNs
      BY <1>1, <1>3, <2>2
    <3>2. CASE given[i] <= maxNs
      BY <3>1, <3>2
    <3>3. ASSUME NEW u \in Recorders, recPc[u] # "idle", given[i] <= ns[u]
          PROVE  recPc'[u] # "idle" /\ given'[i] <= ns'[u]
      <4>1. u # t
        BY <1>2, <3>3
      <4> QED
        BY <1>2, <1>7, <3>1, <3>3, <4>1
    <3> QED
      BY <2>2, <3>2, <3>3 DEF TrackerInv
  <2> QED
    BY <1>3, <2>1, <2>2
<1> QED
  BY <1>1, <1>2, <1>3, <1>4, <1>5, <1>6, <1>7, <1>8, <1>9, <1>10 DEF TrackerInv

LEMMA AddCountKeeps ==
  ASSUME IsFiniteSet(Recorders), TrackerInv, NEW t \in Recorders,
         Tracker!AddCount(t)
  PROVE  TrackerInv'
<1>1. /\ Tracker!Goto(t, "count", "load") /\ count' = count + 1
      /\ UNCHANGED <<totalNs, maxNs, ns, currentMax, given>>
  BY DEF Tracker!AddCount
<1>2. /\ recPc[t] = "count" /\ recPc'[t] = "load"
      /\ \A u \in Recorders \ {t} : recPc'[u] = recPc[u]
      /\ recPc' \in [Recorders -> {"idle", "count", "load", "compare"}]
      /\ t \in Counting /\ Counting' = Counting \ {t}
  BY <1>1, GotoIs
<1>3. count' + Cardinality(Counting') = Len(given')
  <2>1. IsFiniteSet(Counting)
    BY FS_Subset DEF Counting
  <2>2. PICK c \in Nat : c = Cardinality(Counting)
    BY <2>1, FS_CardinalityType
  <2>3. Cardinality(Counting') = c - 1
    BY <1>2, <2>1, <2>2, FS_RemoveElement
  <2> QED
    BY <1>1, <2>2, <2>3 DEF TrackerInv
<1>4. \A u \in Recorders : /\ recPc'[u] # "idle" <=> recPc[u] # "idle"
                           /\ recPc'[u] = "compare" => recPc[u] = "compare"
  BY <1>2
<1> QED
  BY <1>1, <1>2, <1>3, <1>4 DEF TrackerInv

LEMMA LoadMaxKeeps ==
  ASSUME Spans \subseteq Nat, TrackerInv, NEW t \in Recorders, Tracker!LoadMax(t)
  PROVE  TrackerInv'
<1>1. PICK old \in Nat : /\ old <= maxNs /\ currentMax' = [currentMax EXCEPT ![t] = old]
                         /\ Tracker!Goto(t, "load", "compare")
                         /\ UNCHANGED <<totalNs, maxNs, count, ns, given>>
  BY DEF Tracker!LoadMax
<1>2. /\ recPc[t] = "load" /\ recPc'[t] = "compare"
      /\ \A u \in Recorders \ {t} : recPc'[u] = recPc[u]
      /\ recPc' \in [Recorders -> {"idle", "count", "load", "compare"}]
      /\ Counting' = Counting
  BY <1>1, GotoIs
<1>3. /\ currentMax' \in [Recorders -> Nat] /\ currentMax'[t] <= maxNs'
      /\ \A u \in Recorders \ {t} : currentMax'[u] = currentMax[u]
  BY <1>1 DEF TrackerInv
<1>4. \A u \in Recorders : recPc'[u] # "idle" <=> recPc[u] # "idle"
  BY <1>2
<1>5. \A u \in Recorders : recPc'[u] = "compare" => currentMax'[u] <= maxNs'
  BY <1>1, <1>2, <1>3 DEF TrackerInv
<1> QED
  BY <1>1, <1>2, <1>3, <1>4, <1>5 DEF TrackerInv

(* A thread that finds its span no larger may leave: what it compared with  *)
(* is no larger than the maximum.                                          *)
LEMMA NotLargerKeeps ==
  ASSUME TrackerInv, NEW t \in Recorders, Tracker!NotLarger(t)
  PROVE  TrackerInv'
<1>1. /\ ns[t] <= currentMax[t] /\ Tracker!Goto(t, "compare", "idle")
      /\ UNCHANGED <<totalNs, maxNs, count, ns, currentMax, given>>
  BY DEF Tracker!NotLarger
<1>2. /\ recPc[t] = "compare" /\ recPc'[t] = "idle"
      /\ \A u \in Recorders \ {t} : recPc'[u] = recPc[u]
      /\ recPc' \in [Recorders -> {"idle", "count", "load", "compare"}]
      /\ Counting' = Counting
  BY <1>1, GotoIs
<1>3. ns[t] <= maxNs
  <2>1. ns[t] \in Nat /\ currentMax[t] \in Nat /\ maxNs \in Nat
    BY DEF TrackerInv
  <2>2. currentMax[t] <= maxNs
    BY <1>2 DEF TrackerInv
  <2> QED
    BY <1>1, <2>1, <2>2
<1>4. ASSUME NEW i \in DOMAIN given'
      PROVE  \/ given'[i] <= maxNs'
             \/ \E u \in Recorders : recPc'[u] # "idle" /\ given'[i] <= ns'[u]
  <2>1. given[i] \in Nat /\ maxNs \in Nat /\ ns[t] \in Nat /\ i \in DOMAIN given
    BY <1>1 DEF TrackerInv
  <2>2. CASE given[i] <= maxNs
    BY <1>1, <2>2
  <2>3. ASSUME NEW u \in Recorders, recPc[u] # "idle", given[i] <= ns[u]
        PROVE  \/ given'[i] <= maxNs'
               \/ recPc'[u] # "idle" /\ given'[i] <= ns'[u]
    <3>1. CASE u = t
      BY <1>1, <1>3, <2>1, <2>3, <3>1
    <3>2. CASE u # t
      BY <1>1, <1>2, <2>3, <3>2
    <3> QED
      BY <3>1, <3>2
  <2> QED
    BY <2>1, <2>2, <2>3 DEF TrackerInv
<1>5. \A u \in Recorders : /\ recPc'[u] # "idle" => recPc[u] # "idle"
                           /\ recPc'[u] = "compare" => recPc[u] = "compare"
  BY <1>2
<1> QED
  BY <1>1, <1>2, <1>4, <1>5 DEF TrackerInv

(* An exchange that succeeds raises the maximum to the thread's own span.   *)
LEMMA ExchangeKeeps ==
  ASSUME TrackerInv, NEW t \in Recorders, Tracker!Exchange(t)
  PROVE  TrackerInv'
<1>1. /\ ns[t] > currentMax[t] /\ maxNs = currentMax[t]
      /\ Tracker!Goto(t, "compare", "idle") /\ maxNs' = ns[t]
      /\ UNCHANGED <<totalNs, count, ns, currentMax, given>>
  BY DEF Tracker!Exchange
<1>2. /\ recPc[t] = "compare" /\ recPc'[t] = "idle"
      /\ \A u \in Recorders \ {t} : recPc'[u] = recPc[u]
      /\ recPc' \in [Recorders -> {"idle", "count", "load", "compare"}]
      /\ Counting' = Counting
  BY <1>1, GotoIs
<1>3. /\ maxNs' \in Nat /\ maxNs \in Nat /\ maxNs <= maxNs'
      /\ \E i \in DOMAIN given' : given'[i] = maxNs'
  BY <1>1, <1>2 DEF TrackerInv
<1>4. ASSUME NEW i \in DOMAIN given'
      PROVE  \/ given'[i] <= maxNs'
             \/ \E u \in Recorders : recPc'[u] # "idle" /\ given'[i] <= ns'[u]
  <2>1. given[i] \in Nat /\ given'[i] = given[i] /\ i \in DOMAIN given
    BY <1>1 DEF TrackerInv
  <2>2. CASE given[i] <= maxNs
    BY <1>3, <2>1, <2>2
  <2>3. ASSUME NEW u \in Recorders, recPc[u] # "idle", given[i] <= ns[u]
        PROVE  \/ given'[i] <= maxNs'
               \/ recPc'[u] # "idle" /\ given'[i] <= ns'[u]
    <3>1. CASE u = t
      BY <1>1, <2>1, <2>3, <3>1
    <3>2. CASE u # t
      BY <1>1, <1>2, <2>1, <2>3, <3>2
    <3> QED
      BY <3>1, <3>2
  <2> QED
    BY <2>1, <2>2, <2>3 DEF TrackerInv
<1>5. \A u \in Recorders : /\ recPc'[u] # "idle" => recPc[u] # "idle"
                           /\ recPc'[u] = "compare" => recPc[u] = "compare"
  BY <1>2
<1>6. ASSUME NEW u \in Recorders, recPc'[u] = "compare"
      PROVE  currentMax'[u] <= maxNs'
  <2>1. currentMax[u] \in Nat /\ currentMax[u] <= maxNs
    BY <1>5, <1>6 DEF TrackerInv
  <2> QED
    BY <1>1, <1>3, <2>1
<1> QED
  BY <1>1, <1>2, <1>3, <1>4, <1>5, <1>6 DEF TrackerInv

LEMMA ExchangeFailKeeps ==
  ASSUME Spans \subseteq Nat, TrackerInv, NEW t \in Recorders,
         Tracker!ExchangeFail(t)
  PROVE  TrackerInv'
<1>1. PICK old \in Nat : /\ old <= maxNs /\ currentMax' = [currentMax EXCEPT ![t] = old]
                         /\ UNCHANGED <<totalNs, maxNs, count, recPc, ns, given>>
  BY DEF Tracker!ExchangeFail
<1>2. /\ currentMax' \in [Recorders -> Nat]
      /\ \A u \in Recorders : currentMax'[u] = IF u = t THEN old ELSE currentMax[u]
  BY <1>1 DEF TrackerInv
<1>3. \A u \in Recorders : recPc'[u] = "compare" => currentMax'[u] <= maxNs'
  BY <1>1, <1>2 DEF TrackerInv
<1>4. Counting' = Counting
  BY <1>1 DEF Counting
<1> QED
  BY <1>1, <1>2, <1>3, <1>4 DEF TrackerInv

(* Whatever the threads and however their accesses interleave, when no call *)
(* of record is under way the count, the total and the maximum are those of *)
(* all spans, although each thread compares with an old maximum.            *)
THEOREM FiguresExact ==
  ASSUME IsFiniteSet(Recorders), Spans \subseteq Nat
  PROVE  Tracker!Spec => []QuietIsExact
<1>1. Tracker!Init => TrackerInv
  BY TrackerInit
<1>2. TrackerInv /\ [Tracker!Next]_(Tracker!trackerVars) => TrackerInv'
  <2> SUFFICES ASSUME TrackerInv, [Tracker!Next]_(Tracker!trackerVars)
               PROVE  TrackerInv'
    OBVIOUS
  <2>1. CASE UNCHANGED Tracker!trackerVars
    BY <2>1 DEF Tracker!trackerVars, TrackerInv, Counting
  <2>2. ASSUME NEW t \in Recorders, NEW span \in Spans, Tracker!AddTotal(t, span)
        PROVE  TrackerInv'
    <3>1. span \in Nat
      OBVIOUS
    <3> QED
      BY <2>2, <3>1, AddTotalKeeps
  <2>3. ASSUME NEW t \in Recorders, Tracker!Finish(t) PROVE TrackerInv'
    BY <2>3, AddCountKeeps, LoadMaxKeeps, NotLargerKeeps, ExchangeKeeps,
       ExchangeFailKeeps DEF Tracker!Finish
  <2> QED
    BY <2>1, <2>2, <2>3 DEF Tracker!Next
<1>3. TrackerInv => QuietIsExact
  <2> SUFFICES ASSUME TrackerInv, \A t \in Recorders : recPc[t] = "idle"
               PROVE  /\ count = Len(given)
                      /\ totalNs = SumOf(given)
                      /\ \A i \in DOMAIN given : given[i] <= maxNs
                      /\ given # <<>> => \E i \in DOMAIN given : given[i] = maxNs
    BY QuietIs
  <2>1. Counting = {}
    BY DEF Counting
  <2>2. Cardinality(Counting) = 0
    BY <2>1, FS_EmptySet
  <2>3. \A i \in DOMAIN given : given[i] <= maxNs
    BY DEF TrackerInv
  <2>4. ASSUME given # <<>> PROVE \E i \in DOMAIN given : given[i] = maxNs
    <3>1. 1 \in DOMAIN given /\ given[1] \in Nat /\ maxNs \in Nat
      BY <2>4 DEF TrackerInv
    <3>2. given[1] <= maxNs
      BY <2>3, <3>1
    <3> QED
      BY <3>1, <3>2 DEF TrackerInv
  <2>5. count = Len(given)
    BY <2>2 DEF TrackerInv
  <2> QED
    BY <2>3, <2>4, <2>5 DEF TrackerInv
<1> QED
  BY <1>1, <1>2, <1>3, PTL DEF Tracker!Spec
=============================================================================
