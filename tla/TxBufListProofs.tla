-------------------------- MODULE TxBufListProofs --------------------------
(***************************************************************************)
(* The walk of get_buf_size, between any two stores of an edit, counts the *)
(* abstract pool just before or just after the edit; no buffer is lost.    *)
(* The inductive invariant is the list segment: a sequence of distinct     *)
(* buffers that the next pointers follow from the head back to the head.   *)
(***************************************************************************)
EXTENDS TxBufList, FiniteSetTheorems, SequenceTheorems, WellFoundedInduction, TLAPS

\* Every set of naturals has a least element: induction, where it is needed,
\* is about the first number that is an exception.
LEMMA LeastNatural ==
  ASSUME NEW S, S \subseteq Nat, S # {}
  PROVE  \E m \in S : \A k \in S : m <= k
<1> DEFINE F == {1..k : k \in S}
<1>1. F \subseteq FiniteSubsetsOf(Nat)
  <2>1. \A k \in Nat : IsFiniteSet(1..k)
    BY FS_Interval
  <2>2. \A k \in Nat : 1..k \subseteq Nat
    OBVIOUS
  <2> QED
    BY <2>1, <2>2 DEF FiniteSubsetsOf
<1>2. IsWellFoundedOn(StrictSubsetOrdering(Nat), FiniteSubsetsOf(Nat))
  BY FS_StrictSubsetOrderingWellFounded
<1>3. F # {}
  OBVIOUS
<1> HIDE DEF F
<1>4. PICK x \in F : \A y \in F : <<y, x>> \notin StrictSubsetOrdering(Nat)
  BY <1>1, <1>2, <1>3, WFMin
<1>5. PICK m \in S : x = 1..m
  BY DEF F
<1>6. ASSUME NEW k \in S, k < m PROVE FALSE
  <2>1. 1..k \in F
    BY DEF F
  <2>2. m \in 1..m /\ m \notin 1..k
    BY <1>6
  <2>3. 1..k \subseteq 1..m /\ 1..k # 1..m
    BY <1>6, <2>2
  <2>4. 1..k \in SUBSET Nat /\ 1..m \in SUBSET Nat
    BY <1>1
  <2>5. <<1..k, 1..m>> \in StrictSubsetOrdering(Nat)
    BY <2>3, <2>4 DEF StrictSubsetOrdering
  <2> QED
    BY <1>4, <1>5, <2>1, <2>5
<1> QED
  BY <1>6

----------------------------------------------------------------------------
(* Sequences of distinct buffers, closed to a circle by the head           *)
At(s, i)   == IF i \in 1..Len(s) THEN s[i] ELSE txbuf
Entries(s) == {s[i] : i \in 1..Len(s)}
Lists      == {s \in Seq(Buffer) : \A i, j \in 1..Len(s) : s[i] = s[j] => i = j}

\* What next and prev are when they hold the list s.
Forward(s)  == \A i \in 0..Len(s) : next[At(s, i)] = At(s, i + 1)
Backward(s) == \A i \in 0..Len(s) : prev[At(s, i + 1)] = At(s, i)

\* A list of distinct buffers is no longer than there are buffers.
LEMMA ListLength ==
  ASSUME NEW s \in Lists
  PROVE  Len(s) \in 0..Cardinality(Buffer)
<1>1. Len(s) \in Nat /\ s \in [1..Len(s) -> Buffer]
  BY DEF Lists
<1>2. s \in Injection(1..Len(s), Buffer)
  BY <1>1 DEF Lists, Injection, IsInjective
<1>3. Cardinality(1..Len(s)) <= Cardinality(Buffer)
  BY <1>2, ListAssumption, FS_Injection
<1>4. Cardinality(1..Len(s)) = Len(s)
  BY <1>1, FS_Interval
<1>5. Cardinality(Buffer) \in Nat
  BY ListAssumption, FS_CardinalityType
<1> QED
  BY <1>1, <1>3, <1>4, <1>5

\* The walk of get_buf_size meets the entries of the list in order and ends
\* at the head.
LEMMA WalkIs ==
  \A s \in Lists : Forward(s) => Free = s /\ GetBufSize = Len(s)
<1> SUFFICES ASSUME NEW s \in Lists, Forward(s)
             PROVE  Free = s /\ GetBufSize = Len(s)
  OBVIOUS
<1> DEFINE n == Len(s)
           D == 0..Cardinality(Buffer)
           Meets(r, k) == LET at == IF k = 0 THEN txbuf ELSE r[k - 1]
                          IN  IF k > 0 /\ at \notin Buffer THEN at ELSE next[at]
           f == [k \in D |-> At(s, k + 1)]
<1>1. n \in D /\ n \in Nat /\ Cardinality(Buffer) \in Nat
  BY ListLength, ListAssumption, FS_CardinalityType
<1>2. \A i \in Nat : At(s, i) \in Buffer <=> i \in 1..n
  BY ListAssumption DEF At, Lists
<1>3. f = [k \in D |-> Meets(f, k)]
  <2> SUFFICES ASSUME NEW k \in D
               PROVE  At(s, k + 1) = Meets(f, k)
    OBVIOUS
  <2>1. CASE k = 0
    BY <1>1, <2>1 DEF Forward, At
  <2>2. CASE k > 0
    <3>1. k - 1 \in D /\ f[k - 1] = At(s, k)
      BY <1>1, <2>2
    <3>2. CASE k \in 1..n
      <4>1. next[At(s, k)] = At(s, k + 1)
        BY <3>2 DEF Forward
      <4> QED
        BY <1>2, <2>2, <3>1, <3>2, <4>1
    <3>3. CASE k \notin 1..n
      <4>1. At(s, k) = txbuf /\ At(s, k + 1) = txbuf
        BY <1>1, <2>2, <3>3 DEF At
      <4> QED
        BY <2>2, <3>1, <4>1, ListAssumption
    <3> QED
      BY <3>2, <3>3
  <2> QED
    BY <1>1, <2>1, <2>2
<1>4. Reach = [k \in D |-> Meets(Reach, k)]
  BY <1>3 DEF Reach
<1>5. \A k \in D : Reach[k] = At(s, k + 1)
  <2> DEFINE Bad == {k \in D : Reach[k] # At(s, k + 1)}
  <2> SUFFICES ASSUME Bad # {} PROVE FALSE
    OBVIOUS
  <2>1. Bad \subseteq Nat
    BY <1>1
  <2>2. PICK k \in Bad : \A j \in Bad : k <= j
    <3> HIDE DEF Bad
    <3> QED
      BY <2>1, LeastNatural
  <2>3. k \in D /\ Reach[k] = Meets(Reach, k) /\ At(s, k + 1) = Meets(f, k)
    BY <1>3, <1>4
  <2>4. CASE k = 0
    BY <2>2, <2>3, <2>4
  <2>5. CASE k > 0
    <3>1. k - 1 \in D /\ k - 1 \notin Bad
      BY <1>1, <2>1, <2>2, <2>5
    <3>2. Reach[k - 1] = f[k - 1]
      BY <3>1, <1>1
    <3> QED
      BY <2>2, <2>3, <2>5, <3>2
  <2> QED
    BY <1>1, <2>3, <2>4, <2>5
<1>6. DOMAIN Reach = D
  BY <1>4
<1>7. Reach[n] = txbuf /\ \A j \in 0..n - 1 : Reach[j] # txbuf
  <2>1. Reach[n] = txbuf
    BY <1>1, <1>5 DEF At
  <2>2. \A j \in 0..n - 1 : j \in D /\ j + 1 \in 1..n
    BY <1>1
  <2> QED
    BY <1>2, <1>5, <2>1, <2>2, ListAssumption
<1>8. Ends
  BY <1>1, <1>6, <1>7 DEF Ends
<1>9. Length = n
  <2>1. \A k \in D : (Reach[k] = txbuf /\ \A j \in 0..k - 1 : Reach[j] # txbuf)
                     => k = n
    <3> SUFFICES ASSUME NEW k \in D, Reach[k] = txbuf,
                        \A j \in 0..k - 1 : Reach[j] # txbuf, k # n
                 PROVE  FALSE
      OBVIOUS
    <3>1. k \in 0..n - 1 \/ n \in 0..k - 1
      BY <1>1
    <3> QED
      BY <3>1, <1>7
  <2> QED
    BY <1>1, <1>6, <1>7, <2>1 DEF Length
<1>10. \A i \in 1..n : i - 1 \in D /\ Reach[i - 1] = s[i]
  <2>1. \A i \in 1..n : i - 1 \in D /\ (i - 1) + 1 = i
    BY <1>1
  <2> QED
    BY <1>5, <2>1 DEF At
<1>11. s = [i \in 1..n |-> s[i]]
  BY DEF Lists
<1> QED
  BY <1>8, <1>9, <1>10, <1>11 DEF Free, GetBufSize

\* The same of the list after a step.
LEMMA WalkIsNext ==
  (\A s \in Lists : Forward(s) => Free = s /\ GetBufSize = Len(s))'
BY WalkIs, PTL

\* Taking the first buffer out of a list.
LEMMA TailOfList ==
  ASSUME NEW s \in Lists, s # <<>>
  PROVE  /\ Tail(s) \in Lists
         /\ Len(s) \in Nat \ {0} /\ Len(Tail(s)) = Len(s) - 1
         /\ \A i \in Nat \ {0} : At(Tail(s), i) = At(s, i + 1)
         /\ s[1] \in Buffer
         /\ Entries(Tail(s)) = Entries(s) \ {s[1]}
         /\ s[1] \in Entries(s)
<1>1. /\ Len(s) \in Nat \ {0} /\ Tail(s) \in Seq(Buffer)
      /\ Len(Tail(s)) = Len(s) - 1
      /\ \A i \in 1..Len(s) - 1 : Tail(s)[i] = s[i + 1]
      /\ \A i \in 1..Len(s) : s[i] \in Buffer
  BY DEF Lists
<1>2. \A i, j \in 1..Len(s) : s[i] = s[j] => i = j
  BY DEF Lists
<1>3. Tail(s) \in Lists
  <2>1. \A i, j \in 1..Len(s) - 1 : Tail(s)[i] = Tail(s)[j] => i = j
    <3> TAKE i, j \in 1..Len(s) - 1
    <3>1. i + 1 \in 1..Len(s) /\ j + 1 \in 1..Len(s)
      BY <1>1
    <3> QED
      BY <1>1, <1>2, <3>1
  <2> QED
    BY <1>1, <2>1 DEF Lists
<1>4. \A i \in Nat \ {0} : At(Tail(s), i) = At(s, i + 1)
  BY <1>1 DEF At
<1>5. Entries(Tail(s)) = Entries(s) \ {s[1]}
  <2>1. \A x : x \in Entries(Tail(s)) <=> \E i \in 1..Len(s) - 1 : x = s[i + 1]
    BY <1>1 DEF Entries
  <2>2. \A i \in 1..Len(s) - 1 : i + 1 \in 1..Len(s) /\ s[i + 1] # s[1]
    BY <1>1, <1>2
  <2>3. \A i \in 1..Len(s) : i = 1 \/ (i - 1 \in 1..Len(s) - 1 /\ (i - 1) + 1 = i)
    BY <1>1
  <2>4. \A x : x \in Entries(s) <=> \E i \in 1..Len(s) : x = s[i]
    BY DEF Entries
  <2>5. ASSUME NEW x \in Entries(Tail(s)) PROVE x \in Entries(s) \ {s[1]}
    <3>1. PICK i \in 1..Len(s) - 1 : x = s[i + 1]
      BY <2>1
    <3> QED
      BY <2>2, <2>4, <3>1
  <2>6. ASSUME NEW x \in Entries(s), x # s[1] PROVE x \in Entries(Tail(s))
    <3>1. PICK i \in 1..Len(s) : x = s[i]
      BY <2>4
    <3>2. i - 1 \in 1..Len(s) - 1 /\ (i - 1) + 1 = i
      BY <2>3, <2>6, <3>1
    <3> QED
      BY <2>1, <3>1, <3>2
  <2> QED
    BY <2>5, <2>6
<1>6. s[1] \in Entries(s) /\ s[1] \in Buffer
  BY <1>1 DEF Entries
<1> QED
  BY <1>1, <1>3, <1>4, <1>5, <1>6

\* Putting a buffer that is not in a list behind its last.
LEMMA AppendToList ==
  ASSUME NEW s \in Lists, NEW b \in Buffer \ Entries(s)
  PROVE  /\ Append(s, b) \in Lists
         /\ Len(s) \in Nat /\ Len(Append(s, b)) = Len(s) + 1
         /\ \A i \in 0..Len(s) : At(Append(s, b), i) = At(s, i)
         /\ At(Append(s, b), Len(s) + 1) = b
         /\ Entries(Append(s, b)) = Entries(s) \cup {b}
<1>1. /\ Len(s) \in Nat /\ Append(s, b) \in Seq(Buffer)
      /\ Len(Append(s, b)) = Len(s) + 1
      /\ \A i \in 1..Len(s) : Append(s, b)[i] = s[i]
      /\ Append(s, b)[Len(s) + 1] = b
  BY DEF Lists
<1>2. \A i \in 1..Len(s) + 1 : i \in 1..Len(s) \/ i = Len(s) + 1
  BY <1>1
<1>3. Append(s, b) \in Lists
  <2>1. \A i \in 1..Len(s) : s[i] # b
    BY DEF Entries
  <2> QED
    BY <1>1, <1>2, <2>1 DEF Lists
<1>4. Entries(Append(s, b)) = Entries(s) \cup {b}
  <2>1. \A x : x \in Entries(Append(s, b))
               <=> \E i \in 1..Len(s) + 1 : x = Append(s, b)[i]
    BY <1>1 DEF Entries
  <2>2. 1..Len(s) \subseteq 1..Len(s) + 1 /\ Len(s) + 1 \in 1..Len(s) + 1
    BY <1>1
  <2>3. \A x : x \in Entries(s) <=> \E i \in 1..Len(s) : x = s[i]
    BY DEF Entries
  <2> QED
    BY <1>1, <1>2, <2>1, <2>2, <2>3
<1> QED
  BY <1>1, <1>3, <1>4 DEF At

\* In a list different places hold different nodes, of which only the head
\* is at both ends.
LEMMA PlacesDiffer ==
  ASSUME NEW s \in Lists
  PROVE  /\ Len(s) \in Nat
         /\ \A i \in Nat : At(s, i) \in Node
         /\ \A i \in 1..Len(s) : At(s, i) \in Entries(s) /\ At(s, i) # txbuf
         /\ \A i, j \in 1..Len(s) : At(s, i) = At(s, j) => i = j
         /\ At(s, 0) = txbuf /\ At(s, Len(s) + 1) = txbuf
         /\ Entries(s) \subseteq Buffer
<1>1. Len(s) \in Nat /\ \A i \in 1..Len(s) : s[i] \in Buffer
  BY DEF Lists
<1>2. \A i \in Nat : At(s, i) \in Node
  BY <1>1 DEF At, Node
<1>3. \A i \in 1..Len(s) : At(s, i) \in Entries(s) /\ At(s, i) # txbuf
  BY <1>1, ListAssumption DEF At, Entries
<1>4. \A i, j \in 1..Len(s) : At(s, i) = At(s, j) => i = j
  BY DEF Lists, At
<1> QED
  BY <1>1, <1>2, <1>3, <1>4 DEF At, Entries

----------------------------------------------------------------------------
(* The inductive invariant                                                 *)
ListTyped == /\ next \in [Node -> Node \cup {Poison}]
             /\ prev \in [Node -> Node \cup {Poison}]
             /\ reading \in 0..Cardinality(Buffer)

\* No edit is in progress.
Idle(s) == stores = <<>> /\ Backward(s) /\ held = Buffer \ Entries(s)

\* list_del of the first entry, until the head points past it.
Unlinking(s) ==
  /\ s # <<>>
  /\ held = (Buffer \ Entries(s)) \cup {s[1]}
  /\ LET c    == At(s, 2)
         rest == <<Next_(txbuf, c), Next_(s[1], Poison), Prev_(s[1], Poison)>>
     IN  \/ Backward(s) /\ stores = <<Prev_(c, txbuf), rest[1], rest[2], rest[3]>>
         \/ Backward(Tail(s)) /\ stores = rest

\* The rest of list_del writes to the entry that has left the list.
Poisoning(s) ==
  /\ Backward(s) /\ held = Buffer \ Entries(s)
  /\ \E b \in held : \/ stores = <<Next_(b, Poison), Prev_(b, Poison)>>
                     \/ stores = <<Prev_(b, Poison)>>

\* list_add_tail, until the last entry points to the new one.
Linking(s) ==
  \E b \in Buffer \ Entries(s) :
    LET last == At(s, Len(s))
        Behind == /\ prev[txbuf] = b
                  /\ \A i \in 0..Len(s) - 1 : prev[At(s, i + 1)] = At(s, i)
    IN  /\ held = Buffer \ (Entries(s) \cup {b})
        /\ \/ /\ Backward(s)
              /\ stores = <<Prev_(txbuf, b), Next_(b, txbuf), Prev_(b, last),
                            Next_(last, b)>>
           \/ /\ Behind
              /\ stores = <<Next_(b, txbuf), Prev_(b, last), Next_(last, b)>>
           \/ /\ Behind /\ next[b] = txbuf
              /\ stores = <<Prev_(b, last), Next_(last, b)>>
           \/ /\ Behind /\ next[b] = txbuf /\ prev[b] = last
              /\ stores = <<Next_(last, b)>>

Stage(s)   == Idle(s) \/ Unlinking(s) \/ Poisoning(s) \/ Linking(s)
Segment(s) == s \in Lists /\ Forward(s) /\ Stage(s)
ListInv    == ListTyped /\ \E s \in Lists : Segment(s)

\* What a step does to the list and to the count: nothing, or one operation
\* of the abstract pool.
PoolStep(s, t) ==
  /\ \/ t = s
     \/ s # <<>> /\ t = Tail(s)
     \/ \E b \in Buffer \ Entries(s) : t = Append(s, b)
     \/ \E a, b \in Buffer \ Entries(s) : a # b /\ t = Append(Append(s, a), b)
  /\ \/ reading' = reading
     \/ t = s /\ reading' = Len(s)

LEMMA InitList == Init => ListTyped /\ \E s \in Lists : Segment(s) /\ Entries(s) = Buffer
<1> SUFFICES ASSUME Init
             PROVE  ListTyped /\ \E s \in Lists : Segment(s) /\ Entries(s) = Buffer
  OBVIOUS
<1> DEFINE n == Cardinality(Buffer)
<1>1. n \in Nat /\ n # 0 /\ Cardinality(1..n) = n /\ IsFiniteSet(1..n)
  <2>1. n \in Nat
    BY ListAssumption, FS_CardinalityType
  <2>2. n # 0
    BY ListAssumption, FS_EmptySet
  <2>3. Cardinality(1..n) = n /\ IsFiniteSet(1..n)
    BY <2>1, FS_Interval
  <2> QED
    BY <2>1, <2>2, <2>3
<1> DEFINE Place(s, i) == IF i \in 1..n THEN s[i] ELSE txbuf
<1>2. PICK s \in [1..n -> Buffer] :
        /\ \A b \in Buffer : \E i \in 1..n : s[i] = b
        /\ next = [x \in Node |-> IF x = txbuf THEN Place(s, 1)
                     ELSE Place(s, (CHOOSE i \in 1..n : s[i] = x) + 1)]
        /\ prev = [x \in Node |-> IF x = txbuf THEN Place(s, n)
                     ELSE Place(s, (CHOOSE i \in 1..n : s[i] = x) - 1)]
  BY DEF Init
<1>3. s \in Injection(1..n, Buffer)
  <2>1. s \in Surjection(1..n, Buffer)
    BY <1>2 DEF Surjection
  <2> QED
    BY <1>1, <2>1, FS_SurjSameCardinalityImpliesInj
<1>4. \A i, j \in 1..n : s[i] = s[j] => i = j
  BY <1>3 DEF Injection, IsInjective
<1>5. s \in Seq(Buffer) /\ Len(s) = n
  BY <1>1, <1>2
<1>6. s \in Lists
  BY <1>4, <1>5 DEF Lists
<1>7. \A i \in Nat : Place(s, i) = At(s, i)
  BY <1>5 DEF At
<1>8. \A i \in 1..n : (CHOOSE j \in 1..n : s[j] = s[i]) = i
  BY <1>4
<1>9. \A i \in 1..n : s[i] \in Node /\ s[i] # txbuf
  BY <1>2, ListAssumption DEF Node
<1>10. \A i \in 1..n : next[s[i]] = At(s, i + 1) /\ prev[s[i]] = At(s, i - 1)
  <2> TAKE i \in 1..n
  <2>1. /\ next[s[i]] = Place(s, (CHOOSE j \in 1..n : s[j] = s[i]) + 1)
        /\ prev[s[i]] = Place(s, (CHOOSE j \in 1..n : s[j] = s[i]) - 1)
    <3>1. s[i] \in Node /\ s[i] # txbuf
      BY <1>9
    <3> HIDE DEF Place
    <3> QED
      BY <1>2, <3>1, Zenon
  <2>2. next[s[i]] = Place(s, i + 1) /\ prev[s[i]] = Place(s, i - 1)
    BY <1>8, <2>1
  <2>3. i + 1 \in Nat /\ i - 1 \in Nat
    BY <1>1
  <2> QED
    BY <1>7, <2>2, <2>3
<1>11. next[txbuf] = At(s, 1) /\ prev[txbuf] = At(s, n)
  BY <1>1, <1>2, <1>7 DEF Node
<1>12. Forward(s)
  <2> SUFFICES ASSUME NEW i \in 0..n PROVE next[At(s, i)] = At(s, i + 1)
    BY <1>5 DEF Forward
  <2>1. CASE i = 0
    BY <1>11, <2>1 DEF At
  <2>2. CASE i \in 1..n
    BY <1>5, <1>10, <2>2 DEF At
  <2> QED
    BY <1>1, <2>1, <2>2
<1>13. Backward(s)
  <2> SUFFICES ASSUME NEW i \in 0..n PROVE prev[At(s, i + 1)] = At(s, i)
    BY <1>5 DEF Backward
  <2>1. CASE i = n
    BY <1>1, <1>5, <1>11, <2>1 DEF At
  <2>2. CASE i # n
    <3>1. i + 1 \in 1..n /\ (i + 1) - 1 = i
      BY <1>1, <2>2
    <3> QED
      BY <1>5, <1>10, <3>1 DEF At
  <2> QED
    BY <2>1, <2>2
<1>14. Entries(s) = Buffer
  BY <1>2, <1>5 DEF Entries
<1>15. Stage(s)
  BY <1>13, <1>14 DEF Stage, Idle, Init
<1>16. ListTyped
  <2>1. \A i \in Int : Place(s, i) \in Node
    BY <1>2 DEF Node
  <2>2. \A x \in Buffer : (CHOOSE i \in 1..n : s[i] = x) \in 1..n
    BY <1>2
  <2>3. next \in [Node -> Node] /\ prev \in [Node -> Node]
    BY <1>1, <1>2, <2>1, <2>2 DEF Node
  <2>4. reading \in 0..Cardinality(Buffer)
    BY <1>1 DEF Init
  <2> QED
    BY <2>3, <2>4 DEF ListTyped
<1> QED
  BY <1>6, <1>12, <1>14, <1>15, <1>16 DEF Segment

\* One store of an edit, to a next or to a prev field.
LEMMA StoreToNext ==
  ASSUME Store, NEW x, NEW y, stores[1] = Next_(x, y)
  PROVE  /\ next' = [next EXCEPT ![x] = y] /\ prev' = prev
         /\ stores' = Tail(stores) /\ held' = held /\ reading' = reading
BY DEF Store, Next_

LEMMA StoreToPrev ==
  ASSUME Store, NEW x, NEW y, stores[1] = Prev_(x, y)
  PROVE  /\ prev' = [prev EXCEPT ![x] = y] /\ next' = next
         /\ stores' = Tail(stores) /\ held' = held /\ reading' = reading
BY DEF Store, Prev_

\* The first of a few stores, and the others.
LEMMA FirstAndRest ==
  /\ \A a : <<a>>[1] = a /\ Tail(<<a>>) = <<>>
  /\ \A a, b : <<a, b>>[1] = a /\ Tail(<<a, b>>) = <<b>>
  /\ \A a, b, c : <<a, b, c>>[1] = a /\ Tail(<<a, b, c>>) = <<b, c>>
  /\ \A a, b, c, d : <<a, b, c, d>>[1] = a /\ Tail(<<a, b, c, d>>) = <<b, c, d>>
OBVIOUS

\* list_del: the entry leaves the pool when the head points past it, at the
\* second of the four stores.
LEMMA StoreUnlinks ==
  ASSUME ListTyped, NEW s \in Lists, Forward(s), Unlinking(s), Store
  PROVE  ListTyped' /\ \E t \in Lists : Segment(t)' /\ PoolStep(s, t)
<1> DEFINE c == At(s, 2)
           b == s[1]
           t == Tail(s)
<1>1. /\ s # <<>> /\ t \in Lists /\ Len(s) \in Nat \ {0} /\ Len(t) = Len(s) - 1
      /\ \A i \in Nat \ {0} : At(t, i) = At(s, i + 1)
      /\ b \in Buffer /\ Entries(t) = Entries(s) \ {b} /\ b \in Entries(s)
  BY TailOfList DEF Unlinking
<1>2. c \in Node /\ txbuf \in Node /\ b # txbuf /\ b # Poison /\ At(s, 0) = txbuf
  BY <1>1, PlacesDiffer, ListAssumption DEF Node
<1>3. At(s, 1) = b /\ c = At(t, 1) /\ At(t, 0) = txbuf
  BY <1>1 DEF At
<1>4. held = (Buffer \ Entries(s)) \cup {b} /\ held = Buffer \ Entries(t)
  BY <1>1 DEF Unlinking
<1>5. CASE /\ Backward(s)
           /\ stores = <<Prev_(c, txbuf), Next_(txbuf, c), Next_(b, Poison),
                         Prev_(b, Poison)>>
  <2>1. /\ prev' = [prev EXCEPT ![c] = txbuf] /\ next' = next
        /\ stores' = <<Next_(txbuf, c), Next_(b, Poison), Prev_(b, Poison)>>
        /\ held' = held /\ reading' = reading
    BY <1>5, StoreToPrev, FirstAndRest
  <2>2. ListTyped'
    BY <1>2, <2>1 DEF ListTyped
  <2>3. Backward(t)'
    <3> SUFFICES ASSUME NEW i \in 0..Len(t) PROVE prev'[At(t, i + 1)] = At(t, i)
      BY DEF Backward
    <3>1. i \in Nat /\ i + 1 \in Nat \ {0} /\ i + 1 \in 0..Len(s)
      BY <1>1
    <3>2. At(t, i + 1) = At(s, i + 2) /\ prev[At(s, i + 2)] = At(s, i + 1)
      <4>1. (i + 1) + 1 = i + 2
        BY <3>1
      <4>2. prev[At(s, (i + 1) + 1)] = At(s, i + 1)
        BY <1>5, <3>1 DEF Backward
      <4>3. At(t, i + 1) = At(s, (i + 1) + 1)
        BY <1>1, <3>1
      <4> QED
        BY <4>1, <4>2, <4>3
    <3>3. CASE i = 0
      BY <1>2, <1>3, <2>1, <3>3 DEF ListTyped
    <3>4. CASE i # 0
      <4>1. At(t, i) = At(s, i + 1)
        BY <1>1, <3>1, <3>4
      <4>2. At(t, i + 1) # At(t, 1)
        <5>1. /\ \A j \in 1..Len(t) : At(t, j) # txbuf
              /\ \A j, k \in 1..Len(t) : At(t, j) = At(t, k) => j = k
              /\ At(t, Len(t) + 1) = txbuf
          BY <1>1, PlacesDiffer
        <5>2. 1 \in 1..Len(t) /\ (i = Len(t) \/ i + 1 \in 1..Len(t)) /\ i + 1 # 1
          <6>1. Len(t) \in Nat
            BY <1>1
          <6> HIDE DEF t
          <6> QED
            BY <3>4, <6>1
        <5> QED
          BY <5>1, <5>2
      <4> QED
        BY <1>3, <2>1, <3>2, <4>1, <4>2
    <3> QED
      BY <3>3, <3>4
  <2>4. Forward(s)'
    BY <2>1 DEF Forward
  <2>5. Unlinking(s)'
    BY <1>1, <1>4, <2>1, <2>3, FirstAndRest DEF Unlinking
  <2> QED
    BY <2>1, <2>2, <2>4, <2>5 DEF Segment, Stage, PoolStep
<1>6. CASE /\ Backward(t)
           /\ stores = <<Next_(txbuf, c), Next_(b, Poison), Prev_(b, Poison)>>
  <2>1. /\ next' = [next EXCEPT ![txbuf] = c] /\ prev' = prev
        /\ stores' = <<Next_(b, Poison), Prev_(b, Poison)>>
        /\ held' = held /\ reading' = reading
    BY <1>6, StoreToNext, FirstAndRest
  <2>2. ListTyped'
    BY <1>2, <2>1 DEF ListTyped
  <2>3. Forward(t)'
    <3> SUFFICES ASSUME NEW i \in 0..Len(t) PROVE next'[At(t, i)] = At(t, i + 1)
      BY DEF Forward
    <3>1. i \in Nat /\ i + 1 \in Nat \ {0} /\ i + 1 \in 0..Len(s)
      BY <1>1
    <3>2. CASE i = 0
      BY <1>2, <1>3, <2>1, <3>2 DEF ListTyped
    <3>3. CASE i # 0
      <4>1. At(t, i) = At(s, i + 1) /\ At(t, i + 1) = At(s, i + 2)
        BY <1>1, <3>1, <3>3
      <4>2. next[At(s, i + 1)] = At(s, i + 2)
        BY <3>1 DEF Forward
      <4>3. At(t, i) # txbuf
        BY <1>1, <3>1, <3>3, PlacesDiffer
      <4> QED
        BY <2>1, <4>1, <4>2, <4>3
    <3> QED
      BY <3>2, <3>3
  <2>4. Poisoning(t)'
    <3>1. Backward(t)'
      BY <1>6, <2>1 DEF Backward
    <3>2. b \in held'
      BY <1>4, <2>1
    <3> QED
      BY <1>4, <2>1, <3>1, <3>2 DEF Poisoning
  <2>5. PoolStep(s, t)
    BY <1>1, <2>1 DEF PoolStep
  <2> QED
    BY <1>1, <2>2, <2>3, <2>4, <2>5 DEF Segment, Stage
<1> QED
  BY <1>5, <1>6, FirstAndRest DEF Unlinking

\* The rest of list_del writes to an entry no pointer of the list leads to.
LEMMA StorePoisons ==
  ASSUME ListTyped, NEW s \in Lists, Forward(s), Poisoning(s), Store
  PROVE  ListTyped' /\ Segment(s)' /\ PoolStep(s, s)
<1>1. PICK b \in held : \/ stores = <<Next_(b, Poison), Prev_(b, Poison)>>
                        \/ stores = <<Prev_(b, Poison)>>
  BY DEF Poisoning
<1>2. b \in Node /\ \A i \in 0..Len(s) + 1 : At(s, i) # b
  <2>1. b \in Buffer \ Entries(s) /\ b # txbuf
    BY ListAssumption DEF Poisoning
  <2> QED
    BY <2>1 DEF At, Entries, Node
<1>3. Len(s) \in Nat /\ Backward(s) /\ held = Buffer \ Entries(s)
  BY PlacesDiffer DEF Poisoning
<1>4. CASE stores = <<Next_(b, Poison), Prev_(b, Poison)>>
  <2>1. /\ next' = [next EXCEPT ![b] = Poison] /\ prev' = prev
        /\ stores' = <<Prev_(b, Poison)>> /\ held' = held /\ reading' = reading
    BY <1>4, StoreToNext, FirstAndRest
  <2>2. ListTyped'
    BY <1>2, <2>1 DEF ListTyped
  <2>3. Forward(s)'
    BY <1>2, <1>3, <2>1 DEF Forward, ListTyped
  <2>4. Poisoning(s)'
    BY <1>3, <2>1 DEF Poisoning, Backward
  <2> QED
    BY <2>1, <2>2, <2>3, <2>4 DEF Segment, Stage, PoolStep
<1>5. CASE stores = <<Prev_(b, Poison)>>
  <2>1. /\ prev' = [prev EXCEPT ![b] = Poison] /\ next' = next
        /\ stores' = <<>> /\ held' = held /\ reading' = reading
    BY <1>5, StoreToPrev, FirstAndRest
  <2>2. ListTyped'
    BY <1>2, <2>1 DEF ListTyped
  <2>3. Backward(s)'
    BY <1>2, <1>3, <2>1 DEF Backward, ListTyped
  <2>4. Idle(s)'
    BY <1>3, <2>1, <2>3 DEF Idle
  <2>5. Forward(s)'
    BY <2>1 DEF Forward
  <2> QED
    BY <2>1, <2>2, <2>4, <2>5 DEF Segment, Stage, PoolStep
<1> QED
  BY <1>1, <1>4, <1>5

\* list_add_tail: the new buffer joins the pool when the last entry points to
\* it, at the last of the four stores.
LEMMA StoreLinks ==
  ASSUME ListTyped, NEW s \in Lists, Forward(s), Linking(s), Store
  PROVE  ListTyped' /\ \E t \in Lists : Segment(t)' /\ PoolStep(s, t)
<1> DEFINE last == At(s, Len(s))
           Behind(b) == /\ prev[txbuf] = b
                        /\ \A i \in 0..Len(s) - 1 : prev[At(s, i + 1)] = At(s, i)
<1>1. PICK b \in Buffer \ Entries(s) :
        /\ held = Buffer \ (Entries(s) \cup {b})
        /\ \/ /\ Backward(s)
              /\ stores = <<Prev_(txbuf, b), Next_(b, txbuf), Prev_(b, last),
                            Next_(last, b)>>
           \/ /\ Behind(b)
              /\ stores = <<Next_(b, txbuf), Prev_(b, last), Next_(last, b)>>
           \/ /\ Behind(b) /\ next[b] = txbuf
              /\ stores = <<Prev_(b, last), Next_(last, b)>>
           \/ /\ Behind(b) /\ next[b] = txbuf /\ prev[b] = last
              /\ stores = <<Next_(last, b)>>
  BY DEF Linking
<1>2. /\ Len(s) \in Nat /\ last \in Node /\ b \in Node /\ txbuf \in Node
      /\ b # txbuf /\ \A i \in 0..Len(s) + 1 : At(s, i) # b
  BY PlacesDiffer, ListAssumption DEF At, Entries, Node
<1>3. CASE /\ Backward(s)
           /\ stores = <<Prev_(txbuf, b), Next_(b, txbuf), Prev_(b, last),
                         Next_(last, b)>>
  <2>1. /\ prev' = [prev EXCEPT ![txbuf] = b] /\ next' = next
        /\ stores' = <<Next_(b, txbuf), Prev_(b, last), Next_(last, b)>>
        /\ held' = held /\ reading' = reading
    BY <1>3, StoreToPrev, FirstAndRest
  <2>2. ListTyped'
    BY <1>2, <2>1 DEF ListTyped
  <2>3. Behind(b)'
    <3>1. prev'[txbuf] = b
      BY <1>2, <2>1 DEF ListTyped
    <3>2. ASSUME NEW i \in 0..Len(s) - 1 PROVE prev'[At(s, i + 1)] = At(s, i)
      <4>1. i \in 0..Len(s) /\ i + 1 \in 1..Len(s)
        BY <1>2
      <4>2. At(s, i + 1) # txbuf
        BY <4>1, PlacesDiffer
      <4>3. prev[At(s, i + 1)] = At(s, i)
        BY <1>3, <4>1 DEF Backward
      <4> QED
        BY <2>1, <4>2, <4>3
    <3> QED
      BY <3>1, <3>2
  <2>4. Forward(s)'
    BY <2>1 DEF Forward
  <2>5. Linking(s)'
    BY <1>1, <2>1, <2>3 DEF Linking
  <2> QED
    BY <2>1, <2>2, <2>4, <2>5 DEF Segment, Stage, PoolStep
<1>4. CASE /\ Behind(b)
           /\ stores = <<Next_(b, txbuf), Prev_(b, last), Next_(last, b)>>
  <2>1. /\ next' = [next EXCEPT ![b] = txbuf] /\ prev' = prev
        /\ stores' = <<Prev_(b, last), Next_(last, b)>>
        /\ held' = held /\ reading' = reading
    BY <1>4, StoreToNext, FirstAndRest
  <2>2. ListTyped'
    BY <1>2, <2>1 DEF ListTyped
  <2>3. next'[b] = txbuf
    BY <1>2, <2>1 DEF ListTyped
  <2>4. Forward(s)'
    BY <1>2, <2>1 DEF Forward
  <2>5. Behind(b)'
    BY <1>4, <2>1
  <2>6. Linking(s)'
    BY <1>1, <2>1, <2>3, <2>5 DEF Linking
  <2> QED
    BY <2>1, <2>2, <2>4, <2>6 DEF Segment, Stage, PoolStep
<1>5. CASE /\ Behind(b) /\ next[b] = txbuf
           /\ stores = <<Prev_(b, last), Next_(last, b)>>
  <2>1. /\ prev' = [prev EXCEPT ![b] = last] /\ next' = next
        /\ stores' = <<Next_(last, b)>> /\ held' = held /\ reading' = reading
    BY <1>5, StoreToPrev, FirstAndRest
  <2>2. ListTyped'
    BY <1>2, <2>1 DEF ListTyped
  <2>3. prev'[b] = last
    BY <1>2, <2>1 DEF ListTyped
  <2>4. Behind(b)'
    <3>1. \A i \in 0..Len(s) - 1 : i + 1 \in 0..Len(s) + 1
      BY <1>2
    <3>2. \A i \in 0..Len(s) - 1 : At(s, i + 1) # b
      BY <1>2, <3>1
    <3> QED
      BY <1>2, <1>5, <2>1, <3>2
  <2>5. Forward(s)'
    BY <2>1 DEF Forward
  <2>6. Linking(s)'
    BY <1>1, <1>5, <2>1, <2>3, <2>4 DEF Linking
  <2> QED
    BY <2>1, <2>2, <2>5, <2>6 DEF Segment, Stage, PoolStep
<1>6. CASE /\ Behind(b) /\ next[b] = txbuf /\ prev[b] = last
           /\ stores = <<Next_(last, b)>>
  <2> DEFINE t == Append(s, b)
  <2>1. /\ next' = [next EXCEPT ![last] = b] /\ prev' = prev
        /\ stores' = <<>> /\ held' = held /\ reading' = reading
    BY <1>6, StoreToNext, FirstAndRest
  <2>2. ListTyped'
    BY <1>2, <2>1 DEF ListTyped
  <2>3. /\ t \in Lists /\ Len(t) = Len(s) + 1
        /\ \A i \in 0..Len(s) : At(t, i) = At(s, i)
        /\ At(t, Len(s) + 1) = b /\ Entries(t) = Entries(s) \cup {b}
    BY AppendToList
  <2>4. At(t, Len(t) + 1) = txbuf
    BY <2>3, PlacesDiffer
  <2> HIDE DEF t
  <2>5. Forward(t)'
    <3> SUFFICES ASSUME NEW i \in 0..Len(t) PROVE next'[At(t, i)] = At(t, i + 1)
      BY DEF Forward
    <3>1. CASE i = Len(s)
      BY <1>2, <2>1, <2>3, <3>1 DEF ListTyped
    <3>2. CASE i = Len(s) + 1
      <4>1. next'[b] = txbuf
        BY <1>2, <1>6, <2>1
      <4> QED
        BY <2>3, <2>4, <3>2, <4>1
    <3>3. CASE i \in 0..Len(s) - 1
      <4>1. i \in 0..Len(s) /\ i + 1 \in 0..Len(s)
        BY <1>2, <3>3
      <4>2. next[At(s, i)] = At(s, i + 1)
        BY <4>1 DEF Forward
      <4>3. At(s, i) # last
        BY <1>2, <3>3, PlacesDiffer
      <4> QED
        BY <2>1, <2>3, <4>1, <4>2, <4>3
    <3> QED
      BY <1>2, <2>3, <3>1, <3>2, <3>3
  <2>6. Backward(t)'
    <3> SUFFICES ASSUME NEW i \in 0..Len(t) PROVE prev[At(t, i + 1)] = At(t, i)
      BY <2>1 DEF Backward
    <3>1. CASE i = Len(s)
      BY <1>2, <1>6, <2>3, <3>1
    <3>2. CASE i = Len(s) + 1
      BY <1>6, <2>3, <2>4, <3>2
    <3>3. CASE i \in 0..Len(s) - 1
      <4>1. i \in 0..Len(s) /\ i + 1 \in 0..Len(s)
        BY <1>2, <3>3
      <4> QED
        BY <1>6, <2>3, <3>3, <4>1
    <3> QED
      BY <1>2, <2>3, <3>1, <3>2, <3>3
  <2>7. Idle(t)'
    BY <1>1, <2>1, <2>3, <2>6 DEF Idle
  <2>8. PoolStep(s, t)
    BY <2>1 DEF PoolStep, t
  <2> QED
    BY <2>2, <2>3, <2>5, <2>7, <2>8 DEF Segment, Stage
<1> QED
  BY <1>1, <1>3, <1>4, <1>5, <1>6

\* An edit begins only when none is in progress.
LEMMA EditWhenIdle ==
  ASSUME NEW s \in Lists, Stage(s), stores = <<>>
  PROVE  Idle(s)
<1>1. /\ \A a : <<a>> # <<>>
      /\ \A a, b : <<a, b>> # <<>>
      /\ \A a, b, c : <<a, b, c>> # <<>>
      /\ \A a, b, c, d : <<a, b, c, d>> # <<>>
  OBVIOUS
<1>2. ~Unlinking(s)
  BY <1>1 DEF Unlinking
<1>3. ~Poisoning(s)
  BY <1>1 DEF Poisoning
<1>4. ~Linking(s)
  BY <1>1 DEF Linking
<1> QED
  BY <1>2, <1>3, <1>4 DEF Stage

\* The beginning of list_del, and of list_add_tail.
LEMMA BeginGet ==
  ASSUME ListTyped, NEW s \in Lists, Segment(s), GetBuffer
  PROVE  ListTyped' /\ Segment(s)' /\ PoolStep(s, s)
<1>1. Forward(s) /\ Backward(s) /\ held = Buffer \ Entries(s) /\ Len(s) \in Nat
  BY EditWhenIdle, PlacesDiffer DEF Segment, GetBuffer, Idle
<1>2. next[txbuf] = At(s, 1)
  <2>1. next[At(s, 0)] = At(s, 0 + 1)
    BY <1>1 DEF Forward
  <2> QED
    BY <2>1, PlacesDiffer
<1>3. s # <<>> /\ At(s, 1) = s[1]
  <2>1. 1 \in 1..Len(s)
    BY <1>2 DEF GetBuffer, At
  <2> QED
    BY <2>1 DEF At
<1>4. next[s[1]] = At(s, 2) /\ prev[s[1]] = txbuf
  <2>1. 1 \in 0..Len(s) /\ 0 \in 0..Len(s)
    BY <1>3, TailOfList
  <2>2. next[At(s, 1)] = At(s, 1 + 1) /\ prev[At(s, 0 + 1)] = At(s, 0)
    BY <1>1, <2>1 DEF Forward, Backward
  <2> QED
    BY <1>3, <2>2, PlacesDiffer
<1>5. /\ stores' = <<Prev_(At(s, 2), txbuf), Next_(txbuf, At(s, 2)),
                     Next_(s[1], Poison), Prev_(s[1], Poison)>>
      /\ held' = held \cup {s[1]} /\ UNCHANGED <<next, prev, reading>>
  BY <1>2, <1>3, <1>4 DEF GetBuffer, ListDel
<1>6. Unlinking(s)'
  BY <1>1, <1>3, <1>5, FirstAndRest DEF Unlinking, Backward
<1> QED
  BY <1>1, <1>5, <1>6 DEF ListTyped, Segment, Stage, Forward, PoolStep

LEMMA BeginReturn ==
  ASSUME ListTyped, NEW s \in Lists, Segment(s), ReturnBuffer
  PROVE  ListTyped' /\ Segment(s)' /\ PoolStep(s, s)
<1>1. Forward(s) /\ Backward(s) /\ held = Buffer \ Entries(s) /\ Len(s) \in Nat
  BY EditWhenIdle, PlacesDiffer DEF Segment, ReturnBuffer, Idle
<1>2. PICK b \in held : stores' = ListAddTail(b) /\ held' = held \ {b}
  BY DEF ReturnBuffer
<1>3. prev[txbuf] = At(s, Len(s))
  <2>1. prev[At(s, Len(s) + 1)] = At(s, Len(s))
    BY <1>1 DEF Backward
  <2> QED
    BY <2>1, PlacesDiffer
<1>4. /\ stores' = <<Prev_(txbuf, b), Next_(b, txbuf), Prev_(b, At(s, Len(s))),
                     Next_(At(s, Len(s)), b)>>
      /\ held' = Buffer \ (Entries(s) \cup {b}) /\ b \in Buffer \ Entries(s)
      /\ UNCHANGED <<next, prev, reading>>
  BY <1>1, <1>2, <1>3 DEF ReturnBuffer, ListAddTail
<1>5. Linking(s)'
  BY <1>1, <1>4 DEF Linking, Backward
<1> QED
  BY <1>1, <1>4, <1>5 DEF ListTyped, Segment, Stage, Forward, PoolStep

\* The splice of two buffers links both ends of the pair at once.
LEMMA SpliceLinks ==
  ASSUME ListTyped, NEW s \in Lists, Segment(s), SpliceTail
  PROVE  ListTyped' /\ \E t \in Lists : Segment(t)' /\ PoolStep(s, t)
<1>1. /\ stores = <<>> /\ Forward(s) /\ Backward(s) /\ held = Buffer \ Entries(s)
      /\ Len(s) \in Nat
  BY EditWhenIdle, PlacesDiffer DEF Segment, SpliceTail, Idle
<1> DEFINE last == At(s, Len(s))
<1>2. prev[txbuf] = last
  <2>1. prev[At(s, Len(s) + 1)] = At(s, Len(s))
    BY <1>1 DEF Backward
  <2> QED
    BY <2>1, PlacesDiffer
<1>3. PICK a \in held, b \in held :
        /\ a # b
        /\ next' = [next EXCEPT ![last] = a, ![a] = b, ![b] = txbuf]
        /\ prev' = [prev EXCEPT ![txbuf] = b, ![b] = a, ![a] = last]
        /\ held' = held \ {a, b} /\ stores' = stores /\ reading' = reading
  BY <1>2 DEF SpliceTail
<1>4. /\ a \in Buffer \ Entries(s) /\ b \in Buffer \ (Entries(s) \cup {a})
      /\ last \in Node /\ a \in Node /\ b \in Node /\ txbuf \in Node
      /\ a # txbuf /\ b # txbuf /\ a # b
      /\ \A i \in 0..Len(s) + 1 : At(s, i) # a /\ At(s, i) # b
  BY <1>1, <1>3, PlacesDiffer, ListAssumption DEF At, Entries, Node
<1> DEFINE r == Append(s, a)
           t == Append(r, b)
<1>5. /\ r \in Lists /\ Len(r) = Len(s) + 1 /\ At(r, Len(s) + 1) = a
      /\ \A i \in 0..Len(s) : At(r, i) = At(s, i)
      /\ Entries(r) = Entries(s) \cup {a}
  BY <1>4, AppendToList
<1> HIDE DEF r
<1>6. /\ t \in Lists /\ Len(t) = Len(r) + 1 /\ At(t, Len(r) + 1) = b
      /\ \A i \in 0..Len(r) : At(t, i) = At(r, i)
      /\ Entries(t) = Entries(r) \cup {b}
  BY <1>4, <1>5, AppendToList
<1>7. At(t, Len(t) + 1) = txbuf
  BY <1>6, PlacesDiffer
<1> HIDE DEF t
<1>8. /\ Len(t) = Len(s) + 2 /\ At(t, Len(s) + 1) = a /\ At(t, Len(s) + 2) = b
      /\ At(t, Len(s) + 3) = txbuf /\ \A i \in 0..Len(s) : At(t, i) = At(s, i)
      /\ Entries(t) = Entries(s) \cup {a, b}
  BY <1>1, <1>5, <1>6, <1>7
<1>9. /\ next'[last] = a /\ next'[a] = b /\ next'[b] = txbuf
      /\ prev'[txbuf] = b /\ prev'[b] = a /\ prev'[a] = last
  <2>1. last # a /\ last # b
    BY <1>1, <1>4
  <2> QED
    BY <1>3, <1>4, <2>1 DEF ListTyped
<1>10. ListTyped'
  BY <1>3, <1>4 DEF ListTyped
<1>11. Forward(t)'
  <2> SUFFICES ASSUME NEW i \in 0..Len(s) + 2 PROVE next'[At(t, i)] = At(t, i + 1)
    BY <1>8 DEF Forward
  <2>1. CASE i = Len(s)
    BY <1>1, <1>8, <1>9, <2>1
  <2>2. CASE i = Len(s) + 1
    BY <1>1, <1>8, <1>9, <2>2
  <2>3. CASE i = Len(s) + 2
    BY <1>1, <1>8, <1>9, <2>3
  <2>4. CASE i \in 0..Len(s) - 1
    <3>1. i \in 0..Len(s) /\ i + 1 \in 0..Len(s) /\ i \in 0..Len(s) + 1
      BY <1>1, <2>4
    <3>2. next[At(s, i)] = At(s, i + 1)
      BY <1>1, <3>1 DEF Forward
    <3>3. At(s, i) # last /\ At(s, i) \in Node
      BY <1>1, <2>4, PlacesDiffer
    <3>4. At(t, i) = At(s, i) /\ At(t, i + 1) = At(s, i + 1)
      BY <1>8, <3>1
    <3>5. At(s, i) # a /\ At(s, i) # b
      BY <1>4, <3>1
    <3> HIDE DEF last
    <3>6. next'[At(s, i)] = next[At(s, i)]
      BY <1>3, <3>3, <3>5 DEF ListTyped
    <3> QED
      BY <3>2, <3>4, <3>6
  <2> QED
    BY <1>1, <2>1, <2>2, <2>3, <2>4
<1>12. Backward(t)'
  <2> SUFFICES ASSUME NEW i \in 0..Len(s) + 2 PROVE prev'[At(t, i + 1)] = At(t, i)
    BY <1>8 DEF Backward
  <2>1. CASE i = Len(s)
    BY <1>1, <1>8, <1>9, <2>1
  <2>2. CASE i = Len(s) + 1
    BY <1>1, <1>8, <1>9, <2>2
  <2>3. CASE i = Len(s) + 2
    BY <1>1, <1>8, <1>9, <2>3
  <2>4. CASE i \in 0..Len(s) - 1
    <3>1. i \in 0..Len(s) /\ i + 1 \in 1..Len(s) /\ i + 1 \in 0..Len(s) + 1
      BY <1>1, <2>4
    <3>2. prev[At(s, i + 1)] = At(s, i)
      BY <1>1, <3>1 DEF Backward
    <3>3. At(s, i + 1) # txbuf /\ At(s, i + 1) \in Node
      BY <3>1, PlacesDiffer
    <3>4. At(t, i) = At(s, i) /\ At(t, i + 1) = At(s, i + 1)
      BY <1>1, <1>8, <3>1
    <3>5. At(s, i + 1) # a /\ At(s, i + 1) # b
      BY <1>4, <3>1
    <3> HIDE DEF last
    <3>6. prev'[At(s, i + 1)] = prev[At(s, i + 1)]
      BY <1>3, <3>3, <3>5 DEF ListTyped
    <3> QED
      BY <3>2, <3>4, <3>6
  <2> QED
    BY <1>1, <2>1, <2>2, <2>3, <2>4
<1>13. Idle(t)'
  BY <1>1, <1>3, <1>8, <1>12 DEF Idle
<1>14. PoolStep(s, t)
  BY <1>3, <1>4 DEF PoolStep, r, t
<1> QED
  BY <1>6, <1>10, <1>11, <1>13, <1>14 DEF Segment, Stage

\* A walk returns the length of the pool, whatever edit it interrupts.
LEMMA WalkCounts ==
  ASSUME ListTyped, NEW s \in Lists, Segment(s), Count
  PROVE  ListTyped' /\ Segment(s)' /\ PoolStep(s, s)
<1>1. reading' = Len(s) /\ UNCHANGED <<next, prev, stores, held>>
  BY WalkIs DEF Segment, Count
<1>2. Segment(s)'
  BY <1>1 DEF Segment, Stage, Forward, Backward, Idle, Unlinking, Poisoning, Linking
<1>3. ListTyped'
  BY <1>1, ListLength DEF ListTyped
<1> QED
  BY <1>1, <1>2, <1>3 DEF PoolStep

\* Every step leads from a list to a list, by an operation of the pool.
LEMMA ListNext ==
  ASSUME ListTyped, NEW s \in Lists, Segment(s), [Next]_vars
  PROVE  ListTyped' /\ \E t \in Lists : Segment(t)' /\ PoolStep(s, t)
<1>1. CASE GetBuffer
  BY <1>1, BeginGet
<1>2. CASE ReturnBuffer
  BY <1>2, BeginReturn
<1>3. CASE Store
  <2>1. stores # <<>>
    BY <1>3 DEF Store
  <2>2. Forward(s) /\ (Unlinking(s) \/ Poisoning(s) \/ Linking(s))
    BY <2>1 DEF Segment, Stage, Idle
  <2> QED
    BY <1>3, <2>2, StoreUnlinks, StorePoisons, StoreLinks
<1>4. CASE SpliceTail
  BY <1>4, SpliceLinks
<1>5. CASE Count
  BY <1>5, WalkCounts
<1>6. CASE UNCHANGED vars
  <2>1. UNCHANGED <<next, prev, stores, held, reading>>
    BY <1>6 DEF vars
  <2>2. Segment(s)'
    BY <2>1 DEF Segment, Stage, Forward, Backward, Idle, Unlinking, Poisoning, Linking
  <2> QED
    BY <2>1, <2>2 DEF ListTyped, PoolStep
<1> QED
  BY <1>1, <1>2, <1>3, <1>4, <1>5, <1>6 DEF Next

LEMMA ListInvariant == Spec => []ListInv
<1>1. Init => ListInv
  BY InitList DEF ListInv
<1>2. ListInv /\ [Next]_vars => ListInv'
  BY ListNext DEF ListInv
<1> QED
  BY <1>1, <1>2, PTL DEF Spec

----------------------------------------------------------------------------
(* The results                                                             *)

\* The pointers lead to buffers, the head or the poison, an edit has at most
\* four stores left, and the count, also one between two stores, is a number
\* of buffers: the walk of get_buf_size always comes back to the head and
\* never meets the poison (unlock.c:15-24).
THEOREM ListTypeCorrect == Spec => []TypeOK
<1>1. ListInv => TypeOK
  <2> SUFFICES ASSUME ListTyped, NEW s \in Lists, Segment(s) PROVE TypeOK
    BY DEF ListInv
  <2>1. Entries(s) \subseteq Buffer /\ (s # <<>> => s[1] \in Buffer)
    BY PlacesDiffer, TailOfList
  <2>2. Len(stores) \in 0..4 /\ held \subseteq Buffer
    <3>1. CASE Idle(s)
      BY <3>1 DEF Idle
    <3>2. CASE Unlinking(s)
      BY <2>1, <3>2 DEF Unlinking
    <3>3. CASE Poisoning(s)
      BY <3>3 DEF Poisoning
    <3>4. CASE Linking(s)
      BY <3>4 DEF Linking
    <3> QED
      BY <3>1, <3>2, <3>3, <3>4 DEF Segment, Stage
  <2> QED
    BY <2>2 DEF ListTyped, TypeOK
<1> QED
  BY <1>1, ListInvariant, PTL

\* Between edits every buffer is in the list or carries a frame, and the list
\* reads the same in both directions (main.c:816-825).
THEOREM NoBufferLostHolds == Spec => []NoBufferLost
<1>1. ListInv => NoBufferLost
  <2> SUFFICES ASSUME NEW s \in Lists, Segment(s), stores = <<>>
               PROVE  /\ {Free[i] : i \in 1..Len(Free)} = Buffer \ held
                      /\ \A x \in Node \ held : prev[next[x]] = x
    BY DEF ListInv, NoBufferLost
  <2>1. Forward(s) /\ Backward(s) /\ held = Buffer \ Entries(s)
    BY EditWhenIdle DEF Segment, Idle
  <2>2. Free = s /\ Entries(s) \subseteq Buffer /\ Len(s) \in Nat
    BY <2>1, WalkIs, PlacesDiffer
  <2>3. {Free[i] : i \in 1..Len(Free)} = Buffer \ held
    BY <2>1, <2>2 DEF Entries
  <2>4. ASSUME NEW x \in Node \ held PROVE prev[next[x]] = x
    <3>1. PICK i \in 0..Len(s) : x = At(s, i)
      <4>1. CASE x = txbuf
        BY <2>2, <4>1, PlacesDiffer
      <4>2. CASE x \in Entries(s)
        BY <2>2, <4>2 DEF Entries, At
      <4> QED
        BY <2>1, <2>4, <4>1, <4>2 DEF Node
    <3> QED
      BY <2>1, <3>1 DEF Forward, Backward
  <2> QED
    BY <2>3, <2>4
<1> QED
  BY <1>1, ListInvariant, PTL

\* The linked list with its edits cut at every store implements the pool: a
\* count that interrupts an edit is the length of the pool just before or
\* just after it, for any number of buffers (unlock.c:15-24).
THEOREM ListImplementsPool == Spec => CountsThePool
<1>1. Init => Pool!Init
  <2> SUFFICES ASSUME Init PROVE Pool!Init
    OBVIOUS
  <2>1. PICK s \in Lists : Segment(s) /\ Entries(s) = Buffer
    BY InitList
  <2>2. Free = s
    BY <2>1, WalkIs DEF Segment
  <2>3. reading = 0
    BY DEF Init
  <2> QED
    BY <2>1, <2>2, <2>3 DEF Pool!Init, Pool!Members, Entries, Lists
<1>2. ListInv /\ [Next]_vars => [Pool!Next]_Pool!vars
  <2> SUFFICES ASSUME ListTyped, NEW s \in Lists, Segment(s), [Next]_vars
               PROVE  [Pool!Next]_Pool!vars
    BY DEF ListInv
  <2>1. PICK t \in Lists : Segment(t)' /\ PoolStep(s, t)
    BY ListNext
  <2>2. Free = s
    BY WalkIs DEF Segment
  <2>3. Free' = t
    BY <2>1, WalkIsNext DEF Segment
  <2>4. Pool!Members = Entries(s)
    BY <2>2 DEF Pool!Members, Entries
  <2>5. CASE t = s /\ reading' = reading
    BY <2>2, <2>3, <2>5 DEF Pool!vars
  <2>6. CASE s # <<>> /\ t = Tail(s) /\ reading' = reading
    BY <2>2, <2>3, <2>6 DEF Pool!Next, Pool!Take
  <2>7. CASE (\E b \in Buffer \ Entries(s) : t = Append(s, b)) /\ reading' = reading
    BY <2>2, <2>3, <2>4, <2>7 DEF Pool!Next, Pool!Return
  <2>8. CASE /\ \E a, b \in Buffer \ Entries(s) :
                  a # b /\ t = Append(Append(s, a), b)
             /\ reading' = reading
    <3>1. PICK a, b \in Buffer \ Entries(s) : a # b /\ t = Append(Append(s, a), b)
      BY <2>8
    <3>2. Append(Append(s, a), b) = s \o <<a, b>>
      BY DEF Lists
    <3> QED
      BY <2>2, <2>3, <2>4, <2>8, <3>1, <3>2 DEF Pool!Next, Pool!ReturnFrame
  <2>9. CASE t = s /\ reading' = Len(s)
    BY <2>2, <2>3, <2>9 DEF Pool!Next, Pool!Count
  <2> QED
    BY <2>1, <2>5, <2>6, <2>7, <2>8, <2>9 DEF PoolStep
<1> QED
  BY <1>1, <1>2, ListInvariant, PTL DEF Spec, CountsThePool, Pool!Spec
=============================================================================
