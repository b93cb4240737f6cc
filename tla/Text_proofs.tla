---------------------------- MODULE Text_proofs ----------------------------
(***************************************************************************)
(* Proofs about the lines that log_at prints and the list of extensions,   *)
(* for any texts, any names and any sizes of the buffers.                  *)
(***************************************************************************)
EXTENDS ExtensionList, FiniteSetTheorems, SequenceTheorems, TLAPS

---------------------------------------------------------------------------
(* Counting marks.                                                         *)

LEMMA Least ==
  ASSUME NEW S \in SUBSET Nat, S # {}
  PROVE  \E m \in S : \A k \in S : m <= k
<1> DEFINE R == OpToRel(<, Nat)
<1>1. IsWellFoundedOn(R, Nat)
  BY NatLessThanWellFounded
<1>2. \A k, m \in Nat : <<k, m>> \in R <=> k < m
  BY Zenon DEF OpToRel
<1> HIDE DEF R
<1>3. PICK m \in S : \A k \in S : ~(<<k, m>> \in R)
  BY <1>1, WFMin, Zenon
<1>4. \A k \in S : k \in Nat /\ m \in Nat
  OBVIOUS
<1>5. \A k \in S : ~(k < m)
  BY <1>2, <1>3, <1>4, Zenon
<1> QED BY <1>4, <1>5

(* How the number of marks before a place grows.                           *)
LEMMA BeforeStep ==
  ASSUME NEW t, NEW marks, NEW n \in Nat \ {0}
  PROVE  /\ Before(t, marks, n) \in Nat
         /\ Before(t, marks, 1) = 0
         /\ Before(t, marks, n + 1) = Before(t, marks, n) + (IF t[n] \in marks THEN 1 ELSE 0)
<1> DEFINE M(j) == {m \in 1 .. j - 1 : t[m] \in marks}
<1>1. IsFiniteSet(M(n))
  <2>1. IsFiniteSet(1 .. n - 1)
    BY FS_Interval, n - 1 \in Int
  <2>2. M(n) \in SUBSET (1 .. n - 1)
    OBVIOUS
  <2> QED BY <2>1, <2>2, FS_Subset, Zenon
<1>2. M(1) = {}
  OBVIOUS
<1>3. n \notin M(n)
  OBVIOUS
<1>4. /\ Before(t, marks, n) = Cardinality(M(n)) /\ Before(t, marks, n + 1) = Cardinality(M(n + 1))
      /\ Before(t, marks, 1) = Cardinality(M(1))
  BY Zenon DEF Before
<1>5. M(n + 1) = IF t[n] \in marks THEN M(n) \cup {n} ELSE M(n)
  OBVIOUS
<1> HIDE DEF M
<1>6. ASSUME t[n] \in marks
      PROVE  Cardinality(M(n + 1)) = Cardinality(M(n)) + 1
  <2>1. M(n + 1) = M(n) \cup {n}
    BY <1>5, <1>6
  <2>2. Cardinality(M(n) \cup {n}) = Cardinality(M(n)) + 1
    BY <1>1, <1>3, FS_AddElement
  <2> QED BY <2>1, <2>2
<1>7. t[n] \notin marks => Cardinality(M(n + 1)) = Cardinality(M(n))
  BY <1>5, Zenon
<1>8. Cardinality(M(n)) \in Nat /\ Cardinality(M(1)) = 0
  BY <1>1, <1>2, FS_CardinalityType, FS_EmptySet, Zenon
<1> QED BY <1>4, <1>6, <1>7, <1>8

LEMMA BeforeSteps ==
  ASSUME NEW t, NEW marks
  PROVE  /\ Before(t, marks, 1) = 0
         /\ \A j \in Nat \ {0} :
              /\ Before(t, marks, j) \in Nat
              /\ Before(t, marks, j + 1) = Before(t, marks, j) + (IF t[j] \in marks THEN 1 ELSE 0)
<1>1. 1 \in Nat \ {0}
  OBVIOUS
<1>2. Before(t, marks, 1) = 0
  BY <1>1, BeforeStep
<1>3. ASSUME NEW j \in Nat \ {0}
      PROVE  /\ Before(t, marks, j) \in Nat
             /\ Before(t, marks, j + 1) = Before(t, marks, j) + (IF t[j] \in marks THEN 1 ELSE 0)
  BY BeforeStep
<1> QED BY <1>2, <1>3

LEMMA BeforeMark ==
  ASSUME NEW t, NEW marks, NEW n \in Nat \ {0}, NEW k, k = n + 1, t[n] \in marks,
         NEW b, Before(t, marks, n) = b
  PROVE  Before(t, marks, k) = b + 1
<1>1. Before(t, marks, n + 1) = Before(t, marks, n) + 1
  BY BeforeStep
<1> QED BY <1>1

LEMMA BeforeOrder ==
  ASSUME NEW t, NEW marks, NEW n \in Nat \ {0}, NEW m \in Nat \ {0}, n <= m
  PROVE  /\ Before(t, marks, n) <= Before(t, marks, m)
         /\ n < m /\ t[n] \in marks => Before(t, marks, n) < Before(t, marks, m)
         /\ (\A j \in n .. m - 1 : t[j] \notin marks) => Before(t, marks, n) = Before(t, marks, m)
<1> DEFINE M(j) == {k \in 1 .. j - 1 : t[k] \in marks}
<1>1. \A a, b \in Nat \ {0} : a <= b => M(a) \in SUBSET M(b)
  OBVIOUS
<1>2. \A a \in Nat \ {0} : IsFiniteSet(M(a))
  <2> TAKE a \in Nat \ {0}
  <2>1. IsFiniteSet(1 .. a - 1)
    BY FS_Interval, a - 1 \in Int
  <2>2. M(a) \in SUBSET (1 .. a - 1)
    OBVIOUS
  <2> QED BY <2>1, <2>2, FS_Subset, Zenon
<1>3. \A a, b \in Nat \ {0} : a <= b => Cardinality(M(a)) <= Cardinality(M(b))
  <2> HIDE DEF M
  <2> QED BY <1>1, <1>2, FS_Subset, Zenon
<1>4. Before(t, marks, n) <= Before(t, marks, m)
  BY <1>3, Zenon DEF Before
<1>5. ASSUME n < m, t[n] \in marks
      PROVE  Before(t, marks, n) < Before(t, marks, m)
  <2>1. n + 1 \in Nat \ {0} /\ n + 1 <= m
    BY <1>5
  <2>2. Before(t, marks, n + 1) <= Before(t, marks, m)
    BY <1>3, <2>1, Zenon DEF Before
  <2>3. Before(t, marks, n + 1) = Before(t, marks, n) + 1 /\ Before(t, marks, n) \in Nat
    BY <1>5, BeforeStep
  <2>4. Before(t, marks, m) \in Nat
    BY BeforeStep
  <2> QED BY <2>2, <2>3, <2>4
<1>6. ASSUME \A j \in n .. m - 1 : t[j] \notin marks
      PROVE  Before(t, marks, n) = Before(t, marks, m)
  <2>1. M(n) = M(m)
    BY <1>6
  <2> QED BY <2>1, Zenon DEF Before
<1> QED BY <1>4, <1>5, <1>6

(* Every number of marks up to the last is reached at a mark.              *)
LEMMA BeforeReaches ==
  ASSUME NEW t, NEW marks, NEW n \in Nat \ {0}, NEW j \in Nat, j < Before(t, marks, n)
  PROVE  \E m \in 1 .. n - 1 : t[m] \in marks /\ Before(t, marks, m) = j
<1> DEFINE S == {k \in Nat \ {0} : j < Before(t, marks, k)}
<1>1. PICK k \in S : \A l \in S : k <= l
  <2>1. S \in SUBSET Nat /\ n \in S
    OBVIOUS
  <2> HIDE DEF S
  <2> QED BY <2>1, Least
<1>2. k <= n /\ k \in Nat \ {0}
  BY <1>1
<1>3. k # 1
  BY <1>1, BeforeStep
<1>4. k - 1 \in Nat \ {0} /\ k - 1 \in 1 .. n - 1
  BY <1>2, <1>3
<1>5. k - 1 \notin S
  BY <1>1, <1>4
<1>6. ~(j < Before(t, marks, k - 1)) /\ j < Before(t, marks, k)
  BY <1>1, <1>4, <1>5
<1>7. /\ Before(t, marks, k - 1) \in Nat /\ (k - 1) + 1 = k
      /\ Before(t, marks, (k - 1) + 1)
           = Before(t, marks, k - 1) + (IF t[k - 1] \in marks THEN 1 ELSE 0)
  BY <1>4, BeforeStep
<1>8. Before(t, marks, k)
           = Before(t, marks, k - 1) + (IF t[k - 1] \in marks THEN 1 ELSE 0)
  BY <1>7
<1> HIDE DEF S
<1>9. t[k - 1] \in marks /\ Before(t, marks, k - 1) = j
  BY <1>6, <1>7, <1>8
<1> QED BY <1>4, <1>9

(* Two texts with marks at the same places, as far as n.                   *)
LEMMA BeforeSame ==
  ASSUME NEW t, NEW u, NEW marks, NEW others, NEW n \in Nat \ {0},
         \A m \in 1 .. n - 1 : t[m] \in marks <=> u[m] \in others
  PROVE  Before(t, marks, n) = Before(u, others, n)
<1>1. {m \in 1 .. n - 1 : t[m] \in marks} = {m \in 1 .. n - 1 : u[m] \in others}
  OBVIOUS
<1> QED BY <1>1 DEF Before

---------------------------------------------------------------------------
(* The fields of a text.                                                   *)

LEMMA EndIs ==
  ASSUME NEW C, NEW t \in Seq(C), NEW marks,
         NEW k \in Nat \ {0}, NEW n \in 1 .. Len(t) + 1, IsEnd(t, marks, k, n)
  PROVE  End(t, marks, k) = n
<1>1. Len(t) \in Nat
  OBVIOUS
<1>2. ASSUME NEW a \in 1 .. Len(t) + 1, NEW b \in 1 .. Len(t) + 1, a < b,
             IsEnd(t, marks, k, a), IsEnd(t, marks, k, b)
      PROVE  FALSE
  <2>1. a \in Nat \ {0} /\ b \in Nat \ {0} /\ a <= b /\ a <= Len(t)
    BY <1>1, <1>2
  <2>2. t[a] \in marks /\ Before(t, marks, a) = k - 1 /\ Before(t, marks, b) = k - 1
    BY <1>2, <2>1 DEF IsEnd
  <2>3. Before(t, marks, a) < Before(t, marks, b)
    BY <1>2, <2>1, <2>2, BeforeOrder
  <2> QED BY <2>2, <2>3
<1>3. \A a, b \in 1 .. Len(t) + 1 : IsEnd(t, marks, k, a) /\ IsEnd(t, marks, k, b) => a = b
  <2> TAKE a, b \in 1 .. Len(t) + 1
  <2>1. a < b \/ b < a \/ a = b
    BY <1>1
  <2> QED BY <1>2, <2>1
<1> QED BY <1>3, Zenon DEF End

LEMMA EndExists ==
  ASSUME NEW C, NEW t \in Seq(C), NEW marks, NEW k \in 1 .. FieldNum(t, marks)
  PROVE  /\ End(t, marks, k) \in 1 .. Len(t) + 1
         /\ IsEnd(t, marks, k, End(t, marks, k))
<1>1. Len(t) \in Nat /\ Len(t) + 1 \in Nat \ {0} /\ Len(t) + 1 \in 1 .. Len(t) + 1
  OBVIOUS
<1>2. Before(t, marks, Len(t) + 1) \in Nat
  BY <1>1, BeforeStep
<1>3. k \in Nat \ {0} /\ k - 1 \in Nat /\ k - 1 <= Before(t, marks, Len(t) + 1)
  BY <1>2 DEF FieldNum
<1>4. \E n \in 1 .. Len(t) + 1 : IsEnd(t, marks, k, n)
  <2>1. CASE k - 1 = Before(t, marks, Len(t) + 1)
    <3>1. IsEnd(t, marks, k, Len(t) + 1)
      BY <1>1, <2>1 DEF IsEnd
    <3> QED BY <1>1, <3>1
  <2>2. CASE k - 1 < Before(t, marks, Len(t) + 1)
    <3>1. PICK m \in 1 .. (Len(t) + 1) - 1 : t[m] \in marks /\ Before(t, marks, m) = k - 1
      BY <1>1, <1>3, <2>2, BeforeReaches
    <3>2. m \in 1 .. Len(t) + 1
      BY <1>1
    <3> QED BY <3>1, <3>2 DEF IsEnd
  <2> QED BY <1>2, <1>3, <2>1, <2>2
<1>5. PICK n \in 1 .. Len(t) + 1 : IsEnd(t, marks, k, n)
  BY <1>4
<1>6. End(t, marks, k) = n
  BY <1>3, <1>5, EndIs, Zenon
<1> QED BY <1>5, <1>6

LEMMA FieldNumType ==
  ASSUME NEW C, NEW t \in Seq(C), NEW marks
  PROVE  FieldNum(t, marks) \in Nat \ {0} /\ Len(t) \in Nat
<1>1. Len(t) + 1 \in Nat \ {0}
  OBVIOUS
<1>2. Before(t, marks, Len(t) + 1) \in Nat
  BY <1>1, BeforeStep
<1> QED BY <1>2 DEF FieldNum

(* Where the field that a place is in starts, and where it ends if it does *)
(* so there.                                                               *)
LEMMA Place ==
  ASSUME NEW C, NEW t \in Seq(C), NEW marks, NEW n \in 1 .. Len(t) + 1,
         NEW k, k = Before(t, marks, n) + 1
  PROVE  /\ k \in 1 .. FieldNum(t, marks)
         /\ Start(t, marks, k) \in 0 .. n - 1
         /\ \A m \in Start(t, marks, k) + 1 .. n - 1 : t[m] \notin marks
         /\ k = 1 => Start(t, marks, k) = 0
         /\ k # 1 => /\ Start(t, marks, k) # 0
                     /\ t[Start(t, marks, k)] \in marks
         /\ n <= Len(t) /\ t[n] \in marks => End(t, marks, k) = n /\ k < FieldNum(t, marks)
         /\ n = Len(t) + 1 => End(t, marks, k) = n /\ k = FieldNum(t, marks)
<1>1. Len(t) \in Nat /\ n \in Nat \ {0} /\ Len(t) + 1 \in Nat \ {0} /\ n <= Len(t) + 1
  OBVIOUS
<1>2. /\ Before(t, marks, n) \in Nat /\ Before(t, marks, Len(t) + 1) \in Nat
      /\ Before(t, marks, 1) = 0
  BY <1>1, BeforeStep
<1>3. Before(t, marks, n) <= Before(t, marks, Len(t) + 1)
  BY <1>1, BeforeOrder
<1>4. k \in 1 .. FieldNum(t, marks) /\ k \in Nat \ {0} /\ FieldNum(t, marks) \in Nat
  BY <1>2, <1>3 DEF FieldNum
<1>5. ASSUME k = 1
      PROVE  /\ Start(t, marks, k) = 0
             /\ \A m \in Start(t, marks, k) + 1 .. n - 1 : t[m] \notin marks
  <2>1. Start(t, marks, k) = 0
    BY <1>5 DEF Start
  <2>2. ASSUME NEW m \in 1 .. n - 1, t[m] \in marks
        PROVE  FALSE
    <3>1. m \in Nat \ {0} /\ m < n /\ m <= n
      BY <1>1
    <3>2. Before(t, marks, m) < Before(t, marks, n) /\ Before(t, marks, m) \in Nat
      BY <1>1, <2>2, <3>1, BeforeOrder, BeforeStep
    <3> QED BY <1>2, <1>5, <3>2
  <2> QED BY <2>1, <2>2
<1>6. ASSUME k # 1
      PROVE  /\ Start(t, marks, k) \in 1 .. n - 1
             /\ t[Start(t, marks, k)] \in marks
             /\ \A m \in Start(t, marks, k) + 1 .. n - 1 : t[m] \notin marks
  <2>1. PICK s \in 1 .. n - 1 : t[s] \in marks /\ Before(t, marks, s) = k - 2
    <3>1. k - 2 \in Nat /\ k - 2 < Before(t, marks, n)
      BY <1>2, <1>4, <1>6
    <3> QED BY <1>1, <3>1, BeforeReaches
  <2>2. s \in 1 .. Len(t) + 1 /\ k - 1 \in Nat \ {0} /\ s \in Nat \ {0} /\ s < n
    BY <1>1, <1>4, <1>6
  <2>3. IsEnd(t, marks, k - 1, s)
    BY <2>1, <1>4 DEF IsEnd
  <2>4. Start(t, marks, k) = s
    BY <1>6, <2>2, <2>3, EndIs DEF Start
  <2>5. ASSUME NEW m \in s + 1 .. n - 1, t[m] \in marks
        PROVE  FALSE
    <3>1. m \in Nat \ {0} /\ m < n /\ m <= n /\ s < m /\ s <= m
      BY <1>1, <2>2
    <3>2. Before(t, marks, m) < Before(t, marks, n)
      BY <1>1, <2>5, <3>1, BeforeOrder
    <3>3. Before(t, marks, s) < Before(t, marks, m)
      BY <2>1, <2>2, <3>1, BeforeOrder
    <3> DEFINE x == Before(t, marks, m)
    <3>4. x \in Nat
      BY <3>1, BeforeStep
    <3>5. Before(t, marks, s) = k - 2 /\ Before(t, marks, n) = k - 1
      BY <1>2, <1>4, <2>1
    <3>6. k - 2 < x /\ x < k - 1
      BY <3>2, <3>3, <3>5
    <3> HIDE DEF x
    <3> QED BY <1>4, <3>4, <3>6
  <2> QED BY <2>1, <2>4, <2>5
<1>7. ASSUME n <= Len(t), t[n] \in marks
      PROVE  End(t, marks, k) = n /\ k < FieldNum(t, marks)
  <2>1. IsEnd(t, marks, k, n)
    BY <1>2, <1>7 DEF IsEnd
  <2>2. Before(t, marks, n) < Before(t, marks, Len(t) + 1)
    BY <1>1, <1>7, BeforeOrder
  <2> QED BY <1>2, <1>4, <2>1, <2>2, EndIs DEF FieldNum
<1>8. ASSUME n = Len(t) + 1
      PROVE  End(t, marks, k) = n /\ k = FieldNum(t, marks)
  <2>1. IsEnd(t, marks, k, n)
    BY <1>1, <1>2, <1>8 DEF IsEnd
  <2> QED BY <1>4, <1>8, <2>1, EndIs DEF FieldNum
<1>9. Start(t, marks, k) \in 0 .. n - 1 /\ (k # 1 => Start(t, marks, k) # 0)
  BY <1>1, <1>5, <1>6
<1> QED BY <1>4, <1>5, <1>6, <1>7, <1>8, <1>9

(* Every field: between its two ends there is no mark.                     *)
LEMMA FieldFacts ==
  ASSUME NEW C, NEW t \in Seq(C), NEW marks, NEW k \in 1 .. FieldNum(t, marks)
  PROVE  /\ Start(t, marks, k) \in 0 .. Len(t) /\ End(t, marks, k) \in 1 .. Len(t) + 1
         /\ Start(t, marks, k) < End(t, marks, k)
         /\ Before(t, marks, End(t, marks, k)) = k - 1
         /\ \A m \in Start(t, marks, k) + 1 .. End(t, marks, k) - 1 : t[m] \notin marks
         /\ k < FieldNum(t, marks) => End(t, marks, k) <= Len(t) /\ t[End(t, marks, k)] \in marks
         /\ k = FieldNum(t, marks) => End(t, marks, k) = Len(t) + 1
         /\ Field(t, marks, k) \in Seq(C)
         /\ Len(Field(t, marks, k)) = End(t, marks, k) - Start(t, marks, k) - 1
<1> DEFINE e == End(t, marks, k)
           s == Start(t, marks, k)
<1>1. e \in 1 .. Len(t) + 1 /\ IsEnd(t, marks, k, e)
  BY EndExists
<1>2. Len(t) \in Nat /\ FieldNum(t, marks) \in Nat /\ k \in Nat
  BY FieldNumType
<1>3. Before(t, marks, e) = k - 1 /\ (e <= Len(t) => t[e] \in marks)
  BY <1>1 DEF IsEnd
<1> HIDE DEF e
<1>4. k = Before(t, marks, e) + 1
  BY <1>2, <1>3
<1>5. /\ Start(t, marks, k) \in 0 .. e - 1
      /\ \A m \in Start(t, marks, k) + 1 .. e - 1 : t[m] \notin marks
      /\ e <= Len(t) /\ t[e] \in marks => k < FieldNum(t, marks)
      /\ e = Len(t) + 1 => k = FieldNum(t, marks)
  BY <1>1, <1>4, Place
<1>6. e <= Len(t) \/ e = Len(t) + 1
  BY <1>1, <1>2
<1>7. e \in Int /\ s \in Int /\ s >= 0 /\ s < e /\ e <= Len(t) + 1
  BY <1>1, <1>2, <1>5
<1>8. s + 1 \in 1 .. Len(t) + 1 /\ e - 1 \in 0 .. Len(t)
  BY <1>1, <1>2, <1>7
<1>9. SubSeq(t, s + 1, e - 1) \in Seq(C) /\ Len(SubSeq(t, s + 1, e - 1)) = e - s - 1
  <2> DEFINE a == s + 1
             b == e - 1
             p == SubSeq(t, a, b)
  <2> HIDE DEF s
  <2>1. a \in Int /\ b \in Int /\ b - a + 1 = e - s - 1 /\ (a <= b \/ b - a + 1 = 0)
    BY <1>7
  <2>2. \A j \in a .. b : t[j] \in C
    BY <1>2, <1>7
  <2> HIDE DEF a, b
  <2>3. p \in Seq(C) /\ Len(p) = (IF a <= b THEN b - a + 1 ELSE 0)
    BY <2>1, <2>2, SubSeqProperties
  <2> HIDE DEF p
  <2>4. p \in Seq(C) /\ Len(p) = e - s - 1
    BY <2>1, <2>3
  <2>5. SubSeq(t, a, b) \in Seq(C) /\ Len(SubSeq(t, a, b)) = e - s - 1
    BY <2>4 DEF p
  <2> QED BY <2>5 DEF a, b
<1>10. Field(t, marks, k) \in Seq(C) /\ Len(Field(t, marks, k)) = e - s - 1
  BY <1>9 DEF Field, e
<1>11. /\ e \in 1 .. Len(t) + 1 /\ Before(t, marks, e) = k - 1
       /\ k < FieldNum(t, marks) => e <= Len(t) /\ t[e] \in marks
       /\ k = FieldNum(t, marks) => e = Len(t) + 1
  BY <1>1, <1>2, <1>3, <1>5, <1>6
<1> QED BY <1>5, <1>7, <1>10, <1>11 DEF e

(* Two pieces with the same elements, one d places behind the other.       *)
LEMMA SubSeqShift ==
  ASSUME NEW s, NEW t, NEW a \in Int, NEW b \in Int, NEW d \in Int,
         \A m \in a .. b : s[m] = t[m + d]
  PROVE  SubSeq(s, a, b) = SubSeq(t, a + d, b + d)
<1> DEFINE S == {s[m] : m \in a .. b}
<1>1. (\A m \in a .. b : s[m] \in S) /\ (\A m \in a + d .. b + d : t[m] \in S)
  <2>1. \A m \in a + d .. b + d : m - d \in a .. b /\ t[m] = s[m - d]
    OBVIOUS
  <2> QED BY <2>1
<1> HIDE DEF S
<1>2. /\ SubSeq(s, a, b) \in Seq(S)
      /\ Len(SubSeq(s, a, b)) = (IF a <= b THEN b - a + 1 ELSE 0)
      /\ \A j \in 1 .. b - a + 1 : SubSeq(s, a, b)[j] = s[a + j - 1]
  BY <1>1, SubSeqProperties
<1>3. /\ SubSeq(t, a + d, b + d) \in Seq(S)
      /\ Len(SubSeq(t, a + d, b + d)) = (IF a <= b THEN b - a + 1 ELSE 0)
      /\ \A j \in 1 .. b - a + 1 : SubSeq(t, a + d, b + d)[j] = t[a + d + j - 1]
  <2>1. a + d \in Int /\ b + d \in Int
    OBVIOUS
  <2> QED BY <1>1, <2>1, SubSeqProperties
<1>4. \A j \in 1 .. Len(SubSeq(s, a, b)) : SubSeq(s, a, b)[j] = SubSeq(t, a + d, b + d)[j]
  <2>1. \A j \in 1 .. b - a + 1 : a + j - 1 \in a .. b /\ (a + j - 1) + d = a + d + j - 1
    OBVIOUS
  <2>2. \A j \in 1 .. Len(SubSeq(s, a, b)) : j \in 1 .. b - a + 1
    BY <1>2
  <2> QED BY <1>2, <1>3, <2>1, <2>2
<1> QED BY <1>2, <1>3, <1>4, SeqEqual

LEMMA SubSeqSame ==
  ASSUME NEW s, NEW t, NEW a \in Int, NEW b \in Int, \A m \in a .. b : s[m] = t[m]
  PROVE  SubSeq(s, a, b) = SubSeq(t, a, b)
<1>1. 0 \in Int /\ a + 0 = a /\ b + 0 = b /\ \A m \in a .. b : s[m] = t[m + 0]
  OBVIOUS
<1>2. SubSeq(s, a, b) = SubSeq(t, a + 0, b + 0)
  BY <1>1, SubSeqShift
<1> QED BY <1>1, <1>2

LEMMA FieldsSeq ==
  ASSUME NEW C, NEW t \in Seq(C), NEW marks
  PROVE  /\ Fields(t, marks) \in Seq(Seq(C))
         /\ Len(Fields(t, marks)) = FieldNum(t, marks)
         /\ DOMAIN Fields(t, marks) = 1 .. FieldNum(t, marks)
         /\ \A k \in 1 .. FieldNum(t, marks) : Fields(t, marks)[k] = Field(t, marks, k)
<1> DEFINE n == FieldNum(t, marks)
           F(k) == Field(t, marks, k)
<1>1. n \in Nat
  BY FieldNumType
<1>2. \A k \in 1 .. n : F(k) \in Seq(C)
  BY FieldFacts
<1>3. Fields(t, marks) = [k \in 1 .. n |-> F(k)]
  BY DEF Fields
<1> HIDE DEF n, F
<1>4. [k \in 1 .. n |-> F(k)] \in Seq(Seq(C)) /\ Len([k \in 1 .. n |-> F(k)]) = n
  BY <1>1, <1>2
<1> QED BY <1>3, <1>4 DEF n, F

(* Marks may be replaced by others.                                        *)
LEMMA FieldsSame ==
  ASSUME NEW C, NEW t \in Seq(C), NEW u \in Seq(C), NEW marks, Len(t) = Len(u),
         \A m \in 1 .. Len(t) :
           /\ t[m] \in marks <=> u[m] \in marks
           /\ t[m] \notin marks => t[m] = u[m]
  PROVE  /\ \A n \in 1 .. Len(t) + 1 : Before(t, marks, n) = Before(u, marks, n)
         /\ FieldNum(t, marks) = FieldNum(u, marks)
         /\ \A k \in 1 .. FieldNum(t, marks) : Start(t, marks, k) = Start(u, marks, k)
         /\ Fields(t, marks) = Fields(u, marks)
<1>1. Len(t) \in Nat /\ FieldNum(t, marks) \in Nat \ {0}
  BY FieldNumType
<1>2. \A n \in 1 .. Len(t) + 1 : Before(t, marks, n) = Before(u, marks, n)
  <2> TAKE n \in 1 .. Len(t) + 1
  <2>1. n \in Nat \ {0} /\ \A m \in 1 .. n - 1 : m \in 1 .. Len(t)
    BY <1>1
  <2>2. \A m \in 1 .. n - 1 : t[m] \in marks <=> u[m] \in marks
    BY <2>1
  <2> QED BY <2>1, <2>2, BeforeSame
<1>3. FieldNum(t, marks) = FieldNum(u, marks)
  BY <1>1, <1>2 DEF FieldNum
<1>4. \A k \in 1 .. FieldNum(t, marks) : End(t, marks, k) = End(u, marks, k)
  <2> TAKE k \in 1 .. FieldNum(t, marks)
  <2> DEFINE e == End(t, marks, k)
  <2>1. e \in 1 .. Len(t) + 1 /\ IsEnd(t, marks, k, e)
    BY EndExists
  <2> HIDE DEF e
  <2>2. IsEnd(u, marks, k, e)
    <3>1. Before(t, marks, e) = k - 1 /\ (e <= Len(t) => t[e] \in marks)
      BY <2>1, Zenon DEF IsEnd
    <3>2. e <= Len(t) => e \in 1 .. Len(t)
      BY <1>1, <2>1
    <3>3. e <= Len(u) => u[e] \in marks
      BY <3>1, <3>2, Zenon
    <3>4. Before(u, marks, e) = k - 1
      BY <1>2, <2>1, <3>1, Zenon
    <3> QED BY <3>3, <3>4, Zenon DEF IsEnd
  <2>3. End(u, marks, k) = e
    BY <1>1, <2>1, <2>2, EndIs
  <2> QED BY <2>3 DEF e
<1>5. \A k \in 1 .. FieldNum(t, marks) : Start(t, marks, k) = Start(u, marks, k)
  <2> TAKE k \in 1 .. FieldNum(t, marks)
  <2>1. k # 1 => k - 1 \in 1 .. FieldNum(t, marks)
    BY <1>1
  <2> QED BY <1>4, <2>1 DEF Start
<1>6. \A k \in 1 .. FieldNum(t, marks) : Field(t, marks, k) = Field(u, marks, k)
  <2> TAKE k \in 1 .. FieldNum(t, marks)
  <2> DEFINE a == Start(t, marks, k) + 1
             b == End(t, marks, k) - 1
  <2>1. /\ Start(t, marks, k) \in 0 .. Len(t) /\ End(t, marks, k) \in 1 .. Len(t) + 1
        /\ \A m \in a .. b : t[m] \notin marks
    BY FieldFacts
  <2>2. a \in Int /\ b \in Int /\ \A m \in a .. b : m \in 1 .. Len(t)
    BY <1>1, <2>1
  <2> HIDE DEF a, b
  <2>3. SubSeq(t, a, b) = SubSeq(u, a, b)
    <3>1. \A m \in a .. b : t[m] = u[m]
      BY <2>1, <2>2, Zenon
    <3> QED BY <2>2, <3>1, SubSeqSame, Zenon
  <2> QED BY <1>4, <1>5, <2>3 DEF Field, a, b
<1>7. Fields(t, marks) = Fields(u, marks)
  BY <1>3, <1>6 DEF Fields
<1> QED BY <1>2, <1>3, <1>5, <1>7

(* All fields but the last are those of any longer text.                   *)
LEMMA FieldsLonger ==
  ASSUME NEW C, NEW t \in Seq(C), NEW u \in Seq(C), NEW marks, Len(t) <= Len(u),
         \A m \in 1 .. Len(t) : t[m] = u[m]
  PROVE  /\ Before(u, marks, Len(t) + 1) = FieldNum(t, marks) - 1
         /\ Start(u, marks, FieldNum(t, marks)) = Start(t, marks, FieldNum(t, marks))
         /\ \A k \in 1 .. FieldNum(t, marks) - 1 : Field(u, marks, k) = Field(t, marks, k)
<1>1. Len(t) \in Nat /\ FieldNum(t, marks) \in Nat \ {0} /\ Len(u) \in Nat
  BY FieldNumType
<1>2. \A n \in 1 .. Len(t) + 1 : Before(t, marks, n) = Before(u, marks, n)
  <2> TAKE n \in 1 .. Len(t) + 1
  <2>1. n \in Nat \ {0} /\ \A m \in 1 .. n - 1 : m \in 1 .. Len(t)
    BY <1>1
  <2> QED BY <2>1, BeforeSame
<1>3. Before(u, marks, Len(t) + 1) = FieldNum(t, marks) - 1
  <2>1. Len(t) + 1 \in Nat \ {0} /\ Len(t) + 1 \in 1 .. Len(t) + 1
    BY <1>1
  <2>2. Before(t, marks, Len(t) + 1) \in Nat
    BY <2>1, BeforeStep
  <2> QED BY <1>2, <2>1, <2>2 DEF FieldNum
<1>4. \A k \in 1 .. FieldNum(t, marks) - 1 : End(t, marks, k) = End(u, marks, k)
  <2> TAKE k \in 1 .. FieldNum(t, marks) - 1
  <2> DEFINE e == End(t, marks, k)
  <2>1. k \in 1 .. FieldNum(t, marks) /\ k < FieldNum(t, marks) /\ k \in Nat \ {0}
    BY <1>1
  <2>2. e \in 1 .. Len(t) + 1 /\ IsEnd(t, marks, k, e) /\ e <= Len(t)
    BY <2>1, EndExists, FieldFacts
  <2> HIDE DEF e
  <2>3. e \in 1 .. Len(t) /\ e \in 1 .. Len(u) + 1
    BY <1>1, <2>2
  <2>4. IsEnd(u, marks, k, e)
    BY <1>1, <1>2, <2>2, <2>3 DEF IsEnd
  <2>5. End(u, marks, k) = e
    BY <2>1, <2>3, <2>4, EndIs
  <2> QED BY <2>5 DEF e
<1>5. \A k \in 1 .. FieldNum(t, marks) : Start(t, marks, k) = Start(u, marks, k)
  <2> TAKE k \in 1 .. FieldNum(t, marks)
  <2>1. k # 1 => k - 1 \in 1 .. FieldNum(t, marks) - 1
    BY <1>1
  <2> QED BY <1>4, <2>1 DEF Start
<1>6. \A k \in 1 .. FieldNum(t, marks) - 1 : Field(u, marks, k) = Field(t, marks, k)
  <2> TAKE k \in 1 .. FieldNum(t, marks) - 1
  <2> DEFINE a == Start(t, marks, k) + 1
             b == End(t, marks, k) - 1
  <2>1. k \in 1 .. FieldNum(t, marks)
    BY <1>1
  <2>2. Start(t, marks, k) \in 0 .. Len(t) /\ End(t, marks, k) \in 1 .. Len(t) + 1
    BY <2>1, FieldFacts
  <2>3. a \in Int /\ b \in Int /\ \A m \in a .. b : m \in 1 .. Len(t)
    BY <1>1, <2>2
  <2> HIDE DEF a, b
  <2>4. SubSeq(t, a, b) = SubSeq(u, a, b)
    BY <2>3, SubSeqSame
  <2> QED BY <1>4, <1>5, <2>1, <2>4 DEF Field, a, b
<1>7. FieldNum(t, marks) \in 1 .. FieldNum(t, marks)
  BY <1>1
<1> QED BY <1>3, <1>5, <1>6, <1>7

(* A mark at the end begins an empty field.                                *)
LEMMA FieldsMark ==
  ASSUME NEW C, NEW t \in Seq(C), NEW marks, NEW c \in C, c \in marks
  PROVE  Fields(Append(t, c), marks) = Append(Fields(t, marks), <<>>)
<1> DEFINE u == Append(t, c)
           N == FieldNum(t, marks)
           L == Len(t)
<1>1. /\ u \in Seq(C) /\ Len(u) = L + 1 /\ u[L + 1] = c /\ L \in Nat
      /\ \A m \in 1 .. L : t[m] = u[m]
      /\ N \in Nat \ {0}
  BY FieldNumType
<1> HIDE DEF u
<1>2. /\ Before(u, marks, L + 1) = N - 1
      /\ Start(u, marks, N) = Start(t, marks, N)
      /\ \A k \in 1 .. N - 1 : Field(u, marks, k) = Field(t, marks, k)
  <2>1. Len(t) <= Len(u)
    BY <1>1
  <2> QED BY <1>1, <2>1, FieldsLonger
<1>3. End(u, marks, N) = L + 1
  <2>1. L + 1 \in 1 .. Len(u) + 1 /\ L + 1 <= Len(u) /\ N = Before(u, marks, L + 1) + 1
    BY <1>1, <1>2
  <2> QED BY <1>1, <2>1, Place
<1>4. End(t, marks, N) = L + 1 /\ N \in 1 .. FieldNum(t, marks)
  <2>1. N \in 1 .. FieldNum(t, marks) /\ N = FieldNum(t, marks)
    BY <1>1
  <2> QED BY <2>1, FieldFacts
<1>5. Field(u, marks, N) = Field(t, marks, N)
  <2>1. Start(t, marks, N) \in 0 .. L
    BY <1>4, FieldFacts
  <2> DEFINE a == Start(t, marks, N) + 1
             b == (L + 1) - 1
  <2>2. a \in Int /\ b \in Int /\ \A m \in a .. b : m \in 1 .. L
    BY <1>1, <2>1
  <2> HIDE DEF a, b, L
  <2>3. SubSeq(t, a, b) = SubSeq(u, a, b)
    BY <1>1, <2>2, SubSeqSame
  <2> QED BY <1>2, <1>3, <1>4, <2>3 DEF Field, a, b
<1>6. Before(u, marks, L + 2) = N
  <2> DEFINE l == L + 1
             k == L + 2
  <2>1. l \in Nat \ {0} /\ k = l + 1
    BY <1>1
  <2>2. u[l] \in marks /\ Before(u, marks, l) = N - 1
    BY <1>1, <1>2
  <2> HIDE DEF l, k
  <2>3. Before(u, marks, k) = (N - 1) + 1
    BY <2>1, <2>2, BeforeMark
  <2> QED BY <1>1, <2>3 DEF k
<1>7. End(u, marks, N + 1) = L + 2 /\ FieldNum(u, marks) = N + 1
  <2>1. L + 2 \in 1 .. Len(u) + 1 /\ L + 2 = Len(u) + 1 /\ N + 1 = Before(u, marks, L + 2) + 1
    BY <1>1, <1>6
  <2> QED BY <1>1, <2>1, Place
<1>8. Field(u, marks, N + 1) = <<>>
  <2>1. Start(u, marks, N + 1) = L + 1
    <3>1. N + 1 # 1 /\ (N + 1) - 1 = N
      BY <1>1
    <3> QED BY <1>3, <3>1 DEF Start
  <2>2. (L + 1) + 1 \in Int /\ (L + 2) - 1 \in Int /\ (L + 2) - 1 < (L + 1) + 1
    BY <1>1
  <2>3. SubSeq(u, (L + 1) + 1, (L + 2) - 1) = <<>>
    BY <2>2, SubSeqEmpty
  <2> QED BY <1>7, <2>1, <2>3 DEF Field
<1>9. /\ Fields(u, marks) \in Seq(Seq(C)) /\ Len(Fields(u, marks)) = N + 1
      /\ \A k \in 1 .. N + 1 : Fields(u, marks)[k] = Field(u, marks, k)
  BY <1>1, <1>7, FieldsSeq
<1>10. /\ Fields(t, marks) \in Seq(Seq(C)) /\ Len(Fields(t, marks)) = N
       /\ \A k \in 1 .. N : Fields(t, marks)[k] = Field(t, marks, k)
  BY FieldsSeq
<1> DEFINE fs == Fields(t, marks)
           gs == Append(fs, <<>>)
<1> HIDE DEF N, fs
<1>11. /\ gs \in Seq(Seq(C)) /\ Len(gs) = N + 1 /\ gs[N + 1] = <<>>
       /\ \A k \in 1 .. N : gs[k] = fs[k]
  <2>1. <<>> \in Seq(C)
    OBVIOUS
  <2> QED BY <1>1, <1>10, <2>1 DEF fs
<1>12. \A k \in 1 .. N + 1 : k = N + 1 \/ k = N \/ k \in 1 .. N - 1
  BY <1>1
<1>13. N \in 1 .. N /\ \A k \in 1 .. N - 1 : k \in 1 .. N
  BY <1>1
<1> HIDE DEF gs
<1>14. \A k \in 1 .. N + 1 : Fields(u, marks)[k] = gs[k]
  <2> TAKE k \in 1 .. N + 1
  <2>1. CASE k = N + 1
    BY <1>8, <1>9, <1>11, <2>1
  <2>2. CASE k = N
    BY <1>5, <1>9, <1>10, <1>11, <1>13, <2>2 DEF fs
  <2>3. CASE k \in 1 .. N - 1
    BY <1>2, <1>9, <1>10, <1>11, <1>13, <2>3 DEF fs
  <2> QED BY <1>12, <2>1, <2>2, <2>3
<1>15. Fields(u, marks) = gs
  BY <1>9, <1>11, <1>14, SeqEqual
<1> QED BY <1>15 DEF gs, fs, u

LEMMA LastField ==
  ASSUME NEW C, NEW u \in Seq(C), NEW marks, NEW N \in Nat \ {0},
         Before(u, marks, Len(u) + 1) = N - 1
  PROVE  End(u, marks, N) = Len(u) + 1 /\ FieldNum(u, marks) = N
<1>1. Len(u) \in Nat /\ Len(u) + 1 \in 1 .. Len(u) + 1 /\ N = Before(u, marks, Len(u) + 1) + 1
  OBVIOUS
<1> QED BY <1>1, Place

(* What is without marks goes to the field at the end.                     *)
Grown(t, u, marks, N, w) ==
  /\ FieldNum(u, marks) = N
  /\ \A k \in 1 .. N - 1 : Field(u, marks, k) = Field(t, marks, k)
  /\ Field(u, marks, N) = w
LEMMA FieldsGrow ==
  ASSUME NEW C, NEW t \in Seq(C), NEW marks, NEW w \in Seq(C), NEW u \in Seq(C),
         NEW N \in Nat \ {0}
  PROVE  /\ N = FieldNum(t, marks) /\ Len(Field(t, marks, N)) = 0
         /\ \A m \in 1 .. Len(w) : w[m] \notin marks
         /\ Len(u) = Len(t) + Len(w)
         /\ \A m \in 1 .. Len(t) : t[m] = u[m]
         /\ \A m \in 1 .. Len(w) : u[m + Len(t)] = w[m]
         => Grown(t, u, marks, N, w)
<1>0. SUFFICES ASSUME N = FieldNum(t, marks), Len(Field(t, marks, N)) = 0,
                      \A m \in 1 .. Len(w) : w[m] \notin marks,
                      Len(u) = Len(t) + Len(w),
                      \A m \in 1 .. Len(t) : t[m] = u[m],
                      \A m \in 1 .. Len(w) : u[m + Len(t)] = w[m]
               PROVE  /\ FieldNum(u, marks) = N
                      /\ \A k \in 1 .. N - 1 : Field(u, marks, k) = Field(t, marks, k)
                      /\ Field(u, marks, N) = w
  BY Zenon DEF Grown
<1> DEFINE L == Len(t)
<1>1. /\ Len(u) = L + Len(w) /\ Len(w) \in Nat /\ L \in Nat /\ Len(u) \in Nat
      /\ \A m \in 1 .. Len(w) : u[m + L] = w[m]
  BY <1>0
<1>2. L + 1 \in Nat \ {0} /\ Len(u) + 1 \in Nat \ {0} /\ L + 1 <= Len(u) + 1 /\ L <= Len(u)
  BY <1>1
<1>3. /\ Before(u, marks, L + 1) = N - 1
      /\ Start(u, marks, N) = Start(t, marks, N)
      /\ \A k \in 1 .. N - 1 : Field(u, marks, k) = Field(t, marks, k)
  BY <1>0, <1>2, FieldsLonger
<1>4. \A j \in L + 1 .. (Len(u) + 1) - 1 : u[j] \notin marks
  <2> TAKE j \in L + 1 .. (Len(u) + 1) - 1
  <2>1. j - L \in 1 .. Len(w) /\ (j - L) + L = j
    BY <1>1
  <2>2. u[(j - L) + L] = w[j - L] /\ w[j - L] \notin marks
    BY <1>0, <2>1, Zenon
  <2> QED BY <2>1, <2>2
<1>5. End(u, marks, N) = Len(u) + 1 /\ FieldNum(u, marks) = N
  <2> HIDE DEF L
  <2>1. Before(u, marks, L + 1) = Before(u, marks, Len(u) + 1)
    BY <1>2, <1>4, BeforeOrder, Zenon
  <2>2. Before(u, marks, Len(u) + 1) = N - 1
    BY <1>3, <2>1
  <2> QED BY <2>2, LastField, Zenon
<1>6. Start(t, marks, N) = L
  <2>1. N \in 1 .. FieldNum(t, marks) /\ N = FieldNum(t, marks)
    BY <1>0
  <2>2. /\ Start(t, marks, N) \in 0 .. L /\ End(t, marks, N) = L + 1
        /\ Len(Field(t, marks, N)) = End(t, marks, N) - Start(t, marks, N) - 1
    BY <2>1, FieldFacts
  <2>3. Len(Field(t, marks, N)) = 0
    BY <1>0
  <2>4. 0 = (L + 1) - Start(t, marks, N) - 1
    BY <2>2, <2>3
  <2> DEFINE x == Start(t, marks, N)
  <2>5. x \in Int /\ L \in Int /\ 0 = (L + 1) - x - 1
    BY <1>1, <2>2, <2>4
  <2> HIDE DEF x, L
  <2>6. x = L
    BY <2>5
  <2> QED BY <2>6 DEF x
<1>7. Field(u, marks, N) = w
  <2>1. Field(u, marks, N) = SubSeq(u, L + 1, (Len(u) + 1) - 1)
    BY <1>3, <1>5, <1>6 DEF Field
  <2>2. SubSeq(w, 1, Len(w)) = SubSeq(u, 1 + L, Len(w) + L)
    <3>1. 1 \in Int /\ Len(w) \in Int /\ L \in Int /\ \A m \in 1 .. Len(w) : w[m] = u[m + L]
      BY <1>1
    <3> HIDE DEF L
    <3> QED BY <3>1, SubSeqShift
  <2>3. 1 + L = L + 1 /\ Len(w) + L = (Len(u) + 1) - 1
    BY <1>1
  <2>4. SubSeq(w, 1, Len(w)) = w
    OBVIOUS
  <2> QED BY <2>1, <2>2, <2>3, <2>4
<1> QED BY <1>3, <1>5, <1>7

(* Sequences of the elements they have, and with one more in front.        *)
LEMMA SeqOfElements ==
  ASSUME NEW S, NEW T, NEW s \in Seq(S), \A k \in 1 .. Len(s) : s[k] \in T
  PROVE  s \in Seq(T)
<1>1. Len(s) \in Nat /\ s = [k \in 1 .. Len(s) |-> s[k]]
  OBVIOUS
<1> QED BY <1>1

LEMMA InFront ==
  ASSUME NEW T, NEW x \in T, NEW s \in Seq(T)
  PROVE  /\ <<x>> \o s \in Seq(T) /\ Len(<<x>> \o s) = Len(s) + 1
         /\ (<<x>> \o s)[1] = x /\ \A k \in 1 .. Len(s) : (<<x>> \o s)[k + 1] = s[k]
<1> DEFINE o == <<x>>
<1>1. o \in Seq(T) /\ Len(o) = 1 /\ o[1] = x
  OBVIOUS
<1> HIDE DEF o
<1>2. /\ o \o s \in Seq(T) /\ Len(o \o s) = Len(s) + 1
      /\ (o \o s)[1] = x /\ \A k \in 1 .. Len(s) : (o \o s)[k + 1] = s[k]
  <2> DEFINE c == o \o s
  <2>1. /\ c \in Seq(T) /\ Len(c) = Len(o) + Len(s)
        /\ \A m \in 1 .. Len(o) + Len(s) : c[m] = IF m <= Len(o) THEN o[m] ELSE s[m - Len(o)]
    BY <1>1, ConcatProperties, Zenon
  <2>2. Len(s) \in Nat
    OBVIOUS
  <2> HIDE DEF c
  <2>3. c[1] = o[1]
    BY <1>1, <2>1, <2>2
  <2>4. ASSUME NEW k \in 1 .. Len(s)
        PROVE  c[k + 1] = s[k]
    <3>1. k + 1 \in 1 .. Len(o) + Len(s) /\ ~(k + 1 <= Len(o)) /\ (k + 1) - Len(o) = k
      BY <1>1, <2>2
    <3> QED BY <2>1, <3>1
  <2>5. c \in Seq(T) /\ Len(c) = Len(s) + 1 /\ c[1] = x /\ \A k \in 1 .. Len(s) : c[k + 1] = s[k]
    BY <1>1, <2>1, <2>2, <2>3, <2>4
  <2> QED BY <2>5 DEF c
<1> QED BY <1>2 DEF o

(* The fields of t are fs and then w.                                      *)
EndsIn(t, marks, fs, w) == Fields(t, marks) = Append(fs, w)

LEMMA FieldsFill ==
  ASSUME NEW C, NEW t \in Seq(C), NEW marks, NEW w \in Seq(C),
         \A m \in 1 .. Len(w) : w[m] \notin marks,
         NEW fs \in Seq(Seq(C)), EndsIn(t, marks, fs, <<>>)
  PROVE  EndsIn(t \o w, marks, fs, w)
<1> DEFINE u == t \o w
           N == FieldNum(t, marks)
<1>0. ASSUME Len(Field(t, marks, N)) = 0
      PROVE  /\ FieldNum(u, marks) = N
             /\ \A k \in 1 .. N - 1 : Field(u, marks, k) = Field(t, marks, k)
             /\ Field(u, marks, N) = w
  <2>1. u \in Seq(C) /\ N \in Nat \ {0}
    BY FieldNumType
  <2>2. /\ N = FieldNum(t, marks) /\ Len(Field(t, marks, N)) = 0
        /\ \A m \in 1 .. Len(w) : w[m] \notin marks
        /\ Len(u) = Len(t) + Len(w)
        /\ \A m \in 1 .. Len(t) : t[m] = u[m]
        /\ \A m \in 1 .. Len(w) : u[m + Len(t)] = w[m]
    BY <1>0
  <2> HIDE DEF u, N
  <2>3. Grown(t, u, marks, N, w)
    BY <2>1, <2>2, FieldsGrow
  <2> QED BY <2>3 DEF Grown
<1> USE DEF EndsIn
<1>1. u \in Seq(C) /\ N \in Nat \ {0}
  <2>1. N \in Nat \ {0}
    BY FieldNumType
  <2> QED BY <2>1
<1>2. /\ Fields(t, marks) \in Seq(Seq(C)) /\ Len(Fields(t, marks)) = N
      /\ \A k \in 1 .. N : Fields(t, marks)[k] = Field(t, marks, k)
  BY FieldsSeq
<1>3. /\ Len(fs) = N - 1 /\ Field(t, marks, N) = <<>>
      /\ \A k \in 1 .. N - 1 : Field(t, marks, k) = fs[k]
  <2>1. /\ Len(Append(fs, <<>>)) = Len(fs) + 1 /\ Append(fs, <<>>)[Len(fs) + 1] = <<>>
        /\ \A k \in 1 .. Len(fs) : Append(fs, <<>>)[k] = fs[k]
        /\ Len(fs) \in Nat
    OBVIOUS
  <2>2. N = Len(fs) + 1 /\ N \in 1 .. N /\ \A k \in 1 .. N - 1 : k \in 1 .. N /\ k \in 1 .. Len(fs)
    BY <1>1, <1>2, <2>1
  <2> HIDE DEF N
  <2> QED BY <1>2, <2>1, <2>2
<1>4. Len(Field(t, marks, N)) = 0
  BY <1>3
<1> HIDE DEF u, N
<1>5. /\ FieldNum(u, marks) = N
      /\ \A k \in 1 .. N - 1 : Field(u, marks, k) = Field(t, marks, k)
      /\ Field(u, marks, N) = w
  BY <1>0, <1>4, Zenon
<1>6. /\ Fields(u, marks) \in Seq(Seq(C)) /\ Len(Fields(u, marks)) = FieldNum(u, marks)
      /\ \A k \in 1 .. FieldNum(u, marks) : Fields(u, marks)[k] = Field(u, marks, k)
  BY <1>1, FieldsSeq, Zenon
<1> DEFINE gs == Append(fs, w)
<1>7. /\ gs \in Seq(Seq(C)) /\ Len(gs) = N /\ gs[N] = w /\ \A k \in 1 .. N - 1 : gs[k] = fs[k]
  BY <1>1, <1>3
<1>8. \A k \in 1 .. N : k = N \/ k \in 1 .. N - 1
  BY <1>1
<1> HIDE DEF gs
<1>9. \A k \in 1 .. N : Fields(u, marks)[k] = gs[k]
  BY <1>3, <1>5, <1>6, <1>7, <1>8, Zenon
<1>10. Fields(u, marks) = gs
  <2>1. Len(Fields(u, marks)) = Len(gs) /\ \A k \in 1 .. Len(Fields(u, marks)) : Fields(u, marks)[k] = gs[k]
    BY <1>5, <1>6, <1>7, <1>9, Zenon
  <2> QED BY <1>6, <1>7, <2>1, SeqEqual, Zenon
<1> QED BY <1>10 DEF gs, u

(* The first of a sequence, as a sequence of its own.                      *)
LEMMA FirstOf ==
  ASSUME NEW C, NEW s \in Seq(C), NEW a
  PROVE  Len(s) > 0 /\ s[1] = a => SubSeq(s, 1, 1) = <<a>>
<1> SUFFICES ASSUME Len(s) > 0, s[1] = a
             PROVE  SubSeq(s, 1, 1) = <<a>>
  OBVIOUS
<1>1. a \in C /\ Len(s) \in Nat
  OBVIOUS
<1>2. SubSeq(s, 1, 1) \in Seq(C) /\ Len(SubSeq(s, 1, 1)) = 1 /\ SubSeq(s, 1, 1)[1] = s[1]
  BY <1>1
<1>3. <<a>> \in Seq(C) /\ Len(<<a>>) = 1 /\ <<a>>[1] = a
  BY <1>1
<1>4. \A k \in 1 .. 1 : k = 1
  OBVIOUS
<1> QED BY <1>2, <1>3, <1>4, SeqEqual, Zenon

(* A field in front, and the mark that ends the text left out.             *)
Prepended(C, t, u, marks, others, fs) ==
  /\ t \in Seq(C) /\ u \in Seq(C) /\ fs \in Seq(Seq(C))
  /\ Fields(t, marks) = Append(fs, <<>>)
  /\ Len(t) > 0 /\ t[Len(t)] \in marks
  /\ Len(u) = Len(t) + 1 /\ u[1] \notin others /\ u[2] \in others
  /\ \A m \in 1 .. Len(t) - 1 :
       t[m] = u[m + 2] /\ (t[m] \in marks <=> u[m + 2] \in others)

(* A name for what is proved of the fields.                                *)
Fronted(gs, first, fs) == gs = <<first>> \o fs

LEMMA FieldsPrepend ==
  ASSUME NEW C, NEW t, NEW u, NEW marks, NEW others, NEW fs,
         Prepended(C, t, u, marks, others, fs)
  PROVE  Fronted(Fields(u, others), SubSeq(u, 1, 1), fs)
<1>0. /\ t \in Seq(C) /\ u \in Seq(C) /\ fs \in Seq(Seq(C))
      /\ Fields(t, marks) = Append(fs, <<>>)
      /\ Len(t) > 0 /\ t[Len(t)] \in marks
      /\ Len(u) = Len(t) + 1 /\ u[1] \notin others /\ u[2] \in others
      /\ \A m \in 1 .. Len(t) - 1 :
           t[m] = u[m + 2] /\ (t[m] \in marks <=> u[m + 2] \in others)
  BY Zenon DEF Prepended
<1> USE <1>0
<1> DEFINE L == Len(t)
           K == FieldNum(t, marks)
<1>1. /\ L \in Nat \ {0} /\ K \in Nat \ {0} /\ Len(u) = L + 1 /\ t[L] \in marks
      /\ \A m \in 1 .. L - 1 : t[m] = u[m + 2] /\ (t[m] \in marks <=> u[m + 2] \in others)
  BY <1>0, FieldNumType
<1>2. /\ Fields(t, marks) \in Seq(Seq(C)) /\ Len(Fields(t, marks)) = K
      /\ \A k \in 1 .. K : Fields(t, marks)[k] = Field(t, marks, k)
  <2>1. t \in Seq(C)
    BY <1>0, Zenon
  <2> HIDE <1>0
  <2> QED BY <2>1, FieldsSeq
<1>3. K = Len(fs) + 1 /\ \A k \in 1 .. K - 1 : Field(t, marks, k) = fs[k]
  <2>1. /\ Len(Append(fs, <<>>)) = Len(fs) + 1 /\ Len(fs) \in Nat
        /\ \A k \in 1 .. Len(fs) : Append(fs, <<>>)[k] = fs[k]
    OBVIOUS
  <2>2. K = Len(fs) + 1
    BY <1>0, <1>2, <2>1
  <2>3. \A k \in 1 .. K - 1 : k \in 1 .. K /\ k \in 1 .. Len(fs)
    BY <1>1, <2>1, <2>2
  <2> HIDE DEF K
  <2> QED BY <1>0, <1>2, <2>1, <2>2, <2>3
<1> HIDE DEF L, K
<1>3a. /\ Before(u, others, 1) = 0
       /\ \A j \in Nat \ {0} :
            /\ Before(u, others, j) \in Nat
            /\ Before(u, others, j + 1) = Before(u, others, j) + (IF u[j] \in others THEN 1 ELSE 0)
  BY BeforeSteps, Zenon
<1>3b. /\ Before(t, marks, 1) = 0
       /\ \A j \in Nat \ {0} :
            /\ Before(t, marks, j) \in Nat
            /\ Before(t, marks, j + 1) = Before(t, marks, j) + (IF t[j] \in marks THEN 1 ELSE 0)
  BY BeforeSteps, Zenon
<1>4. Before(u, others, 2) = 0 /\ Before(u, others, 3) = 1
  <2>1. /\ Before(u, others, 1) = 0
        /\ Before(u, others, 1 + 1) = Before(u, others, 1) + (IF u[1] \in others THEN 1 ELSE 0)
        /\ Before(u, others, 2 + 1) = Before(u, others, 2) + (IF u[2] \in others THEN 1 ELSE 0)
    <3>1. 1 \in Nat \ {0} /\ 2 \in Nat \ {0}
      OBVIOUS
    <3> QED BY <1>3a, <3>1, Zenon
  <2>2. 1 + 1 = 2 /\ 2 + 1 = 3 /\ 0 + 0 = 0 /\ 0 + 1 = 1
    OBVIOUS
  <2> QED BY <1>0, <2>1, <2>2, Zenon
<1>5. \A n \in 1 .. L : Before(u, others, n + 2) = Before(t, marks, n) + 1
  <2> DEFINE S == {n \in 1 .. L : Before(u, others, n + 2) # Before(t, marks, n) + 1}
  <2>1. SUFFICES ASSUME S # {}
                 PROVE  FALSE
    OBVIOUS
  <2>2. PICK n \in S : \A l \in S : n <= l
    <3>1. S \in SUBSET Nat
      BY <1>1
    <3> HIDE DEF S
    <3> QED BY <2>1, <3>1, Least
  <2>3. n \in 1 .. L /\ Before(u, others, n + 2) # Before(t, marks, n) + 1
    BY <2>2
  <2>4. n # 1
    <3>1. n = 1 => Before(u, others, n + 2) = Before(u, others, 3)
      OBVIOUS
    <3> QED BY <1>4, <1>3b, <2>3, <3>1
  <2>5. n - 1 \in 1 .. L - 1 /\ n - 1 \in 1 .. L /\ ~(n <= n - 1) /\ n \in Nat
    BY <1>1, <2>3, <2>4
  <2>6. Before(u, others, (n - 1) + 2) = Before(t, marks, n - 1) + 1
    <3>1. n - 1 \notin S
      BY <2>2, <2>5
    <3> QED BY <2>5, <3>1
  <2>7. /\ Before(t, marks, n - 1) \in Nat
        /\ Before(t, marks, n) = Before(t, marks, n - 1) + (IF t[n - 1] \in marks THEN 1 ELSE 0)
    <3>1. n - 1 \in Nat \ {0} /\ (n - 1) + 1 = n
      BY <2>5
    <3>2. /\ Before(t, marks, n - 1) \in Nat
          /\ Before(t, marks, (n - 1) + 1)
               = Before(t, marks, n - 1) + (IF t[n - 1] \in marks THEN 1 ELSE 0)
      BY <1>3b, <3>1, Zenon
    <3> QED BY <3>1, <3>2, Zenon
  <2>8. Before(u, others, n + 2)
          = Before(u, others, n + 1) + (IF u[n + 1] \in others THEN 1 ELSE 0)
    <3>1. n + 1 \in Nat \ {0} /\ (n + 1) + 1 = n + 2
      BY <2>5
    <3>2. Before(u, others, (n + 1) + 1)
            = Before(u, others, n + 1) + (IF u[n + 1] \in others THEN 1 ELSE 0)
      BY <1>3a, <3>1, Zenon
    <3> QED BY <3>1, <3>2, Zenon
  <2>9. (t[n - 1] \in marks <=> u[n + 1] \in others) /\ (n - 1) + 2 = n + 1
    <3>1. (n - 1) + 2 = n + 1
      BY <2>5
    <3>2. t[n - 1] \in marks <=> u[(n - 1) + 2] \in others
      BY <1>1, <2>5, Zenon
    <3> QED BY <3>1, <3>2, Zenon
  <2>10. Before(u, others, n + 1) = Before(t, marks, n - 1) + 1
    BY <2>6, <2>9
  <2> HIDE DEF S
  <2>11. CASE t[n - 1] \in marks
    BY <2>3, <2>7, <2>8, <2>9, <2>10, <2>11
  <2>12. CASE t[n - 1] \notin marks
    BY <2>3, <2>7, <2>8, <2>9, <2>10, <2>12
  <2> QED BY <2>11, <2>12
<1>6. FieldNum(u, others) = K
  <2>1. /\ Before(t, marks, L) \in Nat
        /\ Before(t, marks, L + 1) = Before(t, marks, L) + (IF t[L] \in marks THEN 1 ELSE 0)
    BY <1>1, BeforeStep
  <2>2. K = Before(t, marks, L + 1) + 1
    BY DEF FieldNum, K, L
  <2>3. Len(u) + 1 = L + 2 /\ L \in 1 .. L
    BY <1>1
  <2>4. FieldNum(u, others) = Before(u, others, L + 2) + 1
    BY <2>3, Zenon DEF FieldNum
  <2>5. Before(u, others, L + 2) = Before(t, marks, L) + 1
    BY <1>5, <2>3
  <2> QED BY <1>1, <2>1, <2>2, <2>4, <2>5
<1>7. End(u, others, 1) = 2
  <2>1. IsEnd(u, others, 1, 2)
    <3>1. u[2] \in others
      BY <1>0
    <3> QED BY <1>4, <3>1 DEF IsEnd
  <2>2. 2 \in 1 .. Len(u) + 1 /\ 1 \in Nat \ {0}
    BY <1>1
  <2> QED BY <2>1, <2>2, EndIs, Zenon
<1>8. \A k \in 1 .. K - 1 :
        /\ Start(t, marks, k) \in 0 .. L /\ End(t, marks, k) \in 1 .. L
        /\ End(u, others, k + 1) = End(t, marks, k) + 2
  <2> TAKE k \in 1 .. K - 1
  <2> DEFINE e == End(t, marks, k)
  <2>1. k \in 1 .. FieldNum(t, marks) /\ k < FieldNum(t, marks) /\ k + 1 \in Nat \ {0}
    BY <1>1 DEF K
  <2>2. /\ Start(t, marks, k) \in 0 .. L /\ e \in 1 .. L + 1
        /\ Before(t, marks, e) = k - 1
        /\ e <= L /\ t[e] \in marks
    BY <2>1, FieldFacts DEF L
  <2> HIDE DEF e
  <2>3. e \in 1 .. L
    BY <1>1, <2>2
  <2>4. Before(u, others, e + 2) = (k + 1) - 1
    BY <1>5, <2>2, <2>3
  <2>5. e + 2 <= Len(u) => u[e + 2] \in others
    <3>1. e + 2 <= Len(u) => e \in 1 .. L - 1
      BY <1>1, <2>3
    <3> QED BY <1>1, <2>2, <3>1
  <2>6. IsEnd(u, others, k + 1, e + 2)
    BY <2>4, <2>5, Zenon DEF IsEnd
  <2>7. e + 2 \in 1 .. Len(u) + 1
    BY <1>1, <2>3
  <2>8. End(u, others, k + 1) = e + 2
    BY <2>1, <2>6, <2>7, EndIs, Zenon
  <2> QED BY <2>2, <2>3, <2>8 DEF e
<1>9. \A k \in 1 .. K - 1 : Start(u, others, k + 1) = Start(t, marks, k) + 2
  <2> TAKE k \in 1 .. K - 1
  <2>1. (k + 1) - 1 = k /\ k + 1 # 1
    BY <1>1
  <2>2. Start(u, others, k + 1) = End(u, others, k)
    BY <2>1 DEF Start
  <2>3. CASE k = 1
    BY <1>7, <2>2, <2>3 DEF Start
  <2>4. CASE k # 1
    <3>1. k - 1 \in 1 .. K - 1 /\ (k - 1) + 1 = k
      BY <1>1, <2>4
    <3>2. End(u, others, k) = End(t, marks, k - 1) + 2
      BY <1>8, <3>1
    <3> QED BY <2>2, <2>4, <3>2 DEF Start
  <2> QED BY <2>3, <2>4
<1>10. \A k \in 1 .. K - 1 : Field(u, others, k + 1) = fs[k]
  <2> TAKE k \in 1 .. K - 1
  <2> DEFINE p == Start(t, marks, k)
             q == End(t, marks, k)
             a == p + 1
             b == q - 1
  <2>0. /\ p \in 0 .. L /\ q \in 1 .. L
        /\ End(u, others, k + 1) = q + 2 /\ Start(u, others, k + 1) = p + 2
    BY <1>8, <1>9
  <2> HIDE DEF p, q
  <2>1. a \in Int /\ b \in Int /\ \A m \in a .. b : m \in 1 .. L - 1
    BY <1>1, <2>0
  <2>2. /\ a + 2 = Start(u, others, k + 1) + 1
        /\ b + 2 = End(u, others, k + 1) - 1
    BY <2>0
  <2> HIDE DEF a, b
  <2>3. SubSeq(t, a, b) = SubSeq(u, a + 2, b + 2)
    <3>1. \A m \in a .. b : t[m] = u[m + 2]
      BY <1>1, <2>1
    <3>2. 2 \in Int
      OBVIOUS
    <3> QED BY <2>1, <3>1, <3>2, SubSeqShift
  <2>4. Field(u, others, k + 1) = SubSeq(u, a + 2, b + 2)
    BY <2>2, Zenon DEF Field
  <2>5. Field(t, marks, k) = SubSeq(t, a, b)
    BY DEF Field, a, b, p, q
  <2> QED BY <1>3, <2>3, <2>4, <2>5
<1>11. Field(u, others, 1) = SubSeq(u, 1, 1)
  <2>1. Start(u, others, 1) + 1 = 1 /\ End(u, others, 1) - 1 = 1
    BY <1>7 DEF Start
  <2> QED BY <2>1, Zenon DEF Field
<1>12. /\ Fields(u, others) \in Seq(Seq(C)) /\ Len(Fields(u, others)) = K
       /\ \A k \in 1 .. K : Fields(u, others)[k] = Field(u, others, k)
  BY <1>6, FieldsSeq
<1> DEFINE first == SubSeq(u, 1, 1)
           gs == <<first>> \o fs
<1>13. gs \in Seq(Seq(C)) /\ Len(gs) = K /\ gs[1] = first /\ \A k \in 1 .. K - 1 : gs[k + 1] = fs[k]
  <2>1. first \in Seq(C)
    <3>1. 1 \in 1 .. K
      BY <1>1
    <3> QED BY <1>11, <1>12, <3>1
  <2> HIDE DEF first
  <2>2. fs \in Seq(Seq(C)) /\ Len(fs) = K - 1 /\ K \in Nat
    BY <1>1, <1>3
  <2>3. /\ gs \in Seq(Seq(C)) /\ Len(gs) = Len(fs) + 1 /\ gs[1] = first
        /\ \A k \in 1 .. Len(fs) : gs[k + 1] = fs[k]
    BY <2>1, <2>2, InFront
  <2> HIDE DEF gs
  <2> QED BY <2>2, <2>3
<1> HIDE DEF gs, first
<1>14. \A k \in 1 .. K : Fields(u, others)[k] = gs[k]
  <2> TAKE k \in 1 .. K
  <2>1. CASE k = 1
    BY <1>11, <1>12, <1>13, <2>1 DEF first
  <2>2. CASE k # 1
    <3>1. k - 1 \in 1 .. K - 1 /\ (k - 1) + 1 = k
      BY <1>1, <2>2
    <3>2. Field(u, others, (k - 1) + 1) = fs[k - 1] /\ gs[(k - 1) + 1] = fs[k - 1]
      BY <1>10, <1>13, <3>1
    <3> QED BY <1>12, <3>1, <3>2
  <2> QED BY <2>1, <2>2
<1>15. Fields(u, others) = gs
  BY <1>12, <1>13, <1>14, SeqEqual
<1> QED BY <1>15 DEF gs, first, Fronted

(* log_at.                                                                 *)

LEMMA LogCharFacts ==
  LogChars \cap {" ", "nul"} = {} /\ "\n" \in LogChars /\ "#" \in LogChars
BY LettersAssumption DEF LogChars

LogType ==
  /\ text \in Seq(LogChars) /\ printed \in Seq(Seq(LogChars))
  /\ idx \in Nat /\ lineLen \in Nat /\ lastLine \in Nat
  /\ logging \in {"none", "loop", "done", "undefined"}

LEMMA LogTyped == TypeOK => LogType
BY Zenon DEF TypeOK, LogType

LEMMA KeptFacts ==
  ASSUME text \in Seq(LogChars)
  PROVE  /\ Kept \in Seq(LogChars)
         /\ Len(Kept) = IF Len(text) < BufferSize THEN Len(text) ELSE BufferSize - 1
         /\ \A m \in 1 .. Len(Kept) : Kept[m] = text[m]
<1>1. Len(text) \in Nat /\ BufferSize \in Nat \ {0}
  BY SizesAssumption
<1>2. CASE Len(text) < BufferSize
  BY <1>1, <1>2 DEF Kept
<1>3. CASE ~(Len(text) < BufferSize)
  <2>1. Kept = SubSeq(text, 1, BufferSize - 1)
    BY <1>3 DEF Kept
  <2>2. 1 \in Int /\ BufferSize - 1 \in Int /\ \A j \in 1 .. BufferSize - 1 : text[j] \in LogChars
    BY <1>1, <1>3
  <2>3. /\ SubSeq(text, 1, BufferSize - 1) \in Seq(LogChars)
        /\ Len(SubSeq(text, 1, BufferSize - 1))
             = IF 1 <= BufferSize - 1 THEN BufferSize - 1 ELSE 0
        /\ \A j \in 1 .. BufferSize - 1 : SubSeq(text, 1, BufferSize - 1)[j] = text[j]
    BY <1>1, <2>2, SubSeqProperties
  <2>4. Len(Kept) = BufferSize - 1
    BY <1>1, <2>1, <2>3
  <2> QED BY <1>1, <1>3, <2>1, <2>3, <2>4
<1> QED BY <1>2, <1>3

LEMMA MessageFacts ==
  ASSUME text \in Seq(LogChars), NEW n \in Nat, n <= Len(text)
  PROVE  /\ Message(n) = "nul" => n >= Len(Kept)
         /\ n < Len(Kept) => n < Len(text) /\ n < BufferSize /\ Message(n) = text[n + 1]
         /\ n >= Len(Kept) => Message(n) = "nul"
         /\ n >= Len(Kept) /\ n < BufferSize => n = Len(text) \/ n + 1 = BufferSize
         /\ n >= Len(Kept) /\ Len(text) < BufferSize => n = Len(text)
<1>1. Len(text) \in Nat /\ BufferSize \in Nat \ {0}
  BY SizesAssumption
<1>2. /\ Kept \in Seq(LogChars)
      /\ Len(Kept) = IF Len(text) < BufferSize THEN Len(text) ELSE BufferSize - 1
      /\ \A m \in 1 .. Len(Kept) : Kept[m] = text[m]
  BY KeptFacts
<1>3. ASSUME n < Len(Kept)
      PROVE  Message(n) = text[n + 1] /\ Message(n) # "nul" /\ n < Len(text) /\ n < BufferSize
  <2>1. n + 1 \in 1 .. Len(Kept) /\ n < Len(text) /\ n < BufferSize
    BY <1>1, <1>2, <1>3
  <2>2. Kept[n + 1] \in LogChars /\ Kept[n + 1] = text[n + 1]
    BY <1>2, <2>1
  <2> QED BY <1>3, <2>1, <2>2, LogCharFacts DEF Message
<1>4. n >= Len(Kept) => Message(n) = "nul"
  BY <1>1, <1>2 DEF Message
<1> QED BY <1>1, <1>2, <1>3, <1>4

(* What the invariant of the loop says of the line that idx is in.         *)
LEMMA InLoop ==
  ASSUME LogType, Printing, Turn, idx < BufferSize
  PROVE  LET k == Len(printed) + 1
         IN  /\ k = Before(text, {"\n"}, idx + 1) + 1
             /\ idx + 1 \in 1 .. Len(text) + 1
             /\ k \in 1 .. FieldNum(text, {"\n"})
             /\ lastLine = Start(text, {"\n"}, k) /\ lastLine \in 0 .. idx
             /\ k = 1 <=> lastLine = 0
             /\ lineLen = idx - lastLine + (IF lastLine = 0 THEN 0 ELSE 1)
<1> DEFINE S == {"\n"}
           k == Len(printed) + 1
           n == idx + 1
<1>1. /\ text \in Seq(LogChars) /\ printed \in Seq(Seq(LogChars)) /\ idx \in Nat
      /\ Len(text) \in Nat /\ Len(printed) \in Nat
  <2>1. text \in Seq(LogChars) /\ printed \in Seq(Seq(LogChars)) /\ idx \in Nat
    BY Zenon DEF LogType
  <2> QED BY <2>1
<1>2. logging = "loop" /\ idx <= Len(text)
  BY DEF Turn
<1>3. /\ Len(printed) = Before(text, {"\n"}, idx + 1)
      /\ lastLine = Start(text, {"\n"}, Len(printed) + 1)
      /\ lineLen = idx - lastLine + (IF lastLine = 0 THEN 0 ELSE 1)
  BY <1>2, Zenon DEF Printing
<1>4. k = Before(text, S, n) + 1 /\ n \in 1 .. Len(text) + 1
  BY <1>1, <1>2, <1>3
<1> HIDE DEF k, n, S
<1>5. /\ k \in 1 .. FieldNum(text, S)
      /\ Start(text, S, k) \in 0 .. n - 1
      /\ k = 1 => Start(text, S, k) = 0
      /\ k # 1 => Start(text, S, k) # 0
  BY <1>1, <1>4, Place
<1>6. Start(text, S, k) \in 0 .. idx
  BY <1>1, <1>5 DEF n
<1> QED BY <1>3, <1>4, <1>5, <1>6 DEF k, n, S

LEMMA StepInLine ==
  ASSUME TypeOK, Printing, InLine
  PROVE  LogType' /\ Printing'
<1> DEFINE S == {"\n"}
           n == idx + 1
<1>1. LogType /\ Len(text) \in Nat /\ Len(printed) \in Nat /\ BufferSize \in Nat \ {0}
  <2>1. LogType
    BY LogTyped
  <2> QED BY <2>1, SizesAssumption DEF LogType
<1>2. /\ Turn /\ idx < BufferSize /\ Message(idx) \notin {"\n", "nul"}
      /\ idx' = idx + 1 /\ lineLen' = lineLen + 1
      /\ text' = text /\ lastLine' = lastLine /\ printed' = printed /\ logging' = logging
  BY DEF InLine
<1>3. logging = "loop" /\ idx <= Len(text) /\ idx \in Nat
  BY <1>1, <1>2 DEF Turn, LogType
<1>4. idx < Len(text) /\ text[n] \notin S
  <2>1. ~(idx >= Len(Kept))
    BY <1>1, <1>2, <1>3, MessageFacts DEF LogType
  <2>2. idx < Len(Kept)
    BY <1>1, <1>3, <2>1, KeptFacts DEF LogType
  <2> QED BY <1>1, <1>2, <1>3, <2>2, MessageFacts DEF LogType
<1>5. Before(text, S, n + 1) = Before(text, S, n)
  <2>1. n \in Nat \ {0}
    BY <1>3
  <2>2. text[n] \notin S
    BY <1>4
  <2> HIDE DEF n, S
  <2>3. Before(text, S, n) \in Nat
        /\ Before(text, S, n + 1) = Before(text, S, n) + (IF text[n] \in S THEN 1 ELSE 0)
    BY <2>1, BeforeStep
  <2> QED BY <2>2, <2>3
<1>6. /\ idx <= BufferSize
      /\ Len(printed) = Before(text, S, n)
      /\ \A k \in DOMAIN printed : printed[k] = Field(text, S, k)
      /\ lastLine = Start(text, S, Len(printed) + 1)
      /\ lineLen = idx - lastLine + (IF lastLine = 0 THEN 0 ELSE 1)
  BY <1>2, <1>3, Zenon DEF Printing
<1>7. LogType'
  BY <1>1, <1>2 DEF LogType
<1>8. lineLen' = idx' - lastLine' + (IF lastLine' = 0 THEN 0 ELSE 1) /\ idx' <= BufferSize /\ idx' <= Len(text')
  <2>1. idx \in Nat /\ Len(text) \in Nat /\ BufferSize \in Nat /\ lastLine \in Nat
    BY <1>1, <1>3 DEF LogType
  <2>2. idx' <= BufferSize /\ idx' <= Len(text')
    BY <1>2, <1>4, <2>1
  <2>3. lineLen = idx - lastLine + (IF lastLine = 0 THEN 0 ELSE 1)
    BY <1>6
  <2>4. idx' = idx + 1 /\ lineLen' = lineLen + 1 /\ lastLine' = lastLine
    BY <1>2
  <2>5. lineLen' = idx' - lastLine' + (IF lastLine' = 0 THEN 0 ELSE 1)
    BY <2>1, <2>3, <2>4
  <2> QED BY <2>2, <2>5
<1>9. Len(printed') = Before(text', S, idx' + 1)
  BY <1>2, <1>5, <1>6, Zenon
<1>10. Printing'
  BY <1>2, <1>3, <1>6, <1>8, <1>9, Zenon DEF Printing
<1> QED BY <1>7, <1>10

(* The two lengths of a line: of the one before a newline, and of the last.*)
LEMMA CopyLenIs ==
  ASSUME LogType, Printing, AtLineEnd
  PROVE  /\ CopyLen \in Nat /\ lastLine \in 0 .. idx
         /\ Message(idx) = "\n" => CopyLen = idx - lastLine
         /\ Message(idx) # "\n" => CopyLen = idx - lastLine + (IF lastLine = 0 THEN 0 ELSE 1)
<1>1. LogType /\ Turn /\ idx < BufferSize
  BY DEF AtLineEnd
<1>2. lastLine \in 0 .. idx /\ lineLen = idx - lastLine + (IF lastLine = 0 THEN 0 ELSE 1)
  BY <1>1, InLoop, Zenon
<1>3. idx \in Nat /\ lastLine \in Nat /\ lastLine <= idx
  BY <1>1, <1>2 DEF LogType
<1> QED BY <1>2, <1>3 DEF CopyLen

LEMMA StepPrintLine ==
  ASSUME TypeOK, Printing, PrintLine
  PROVE  LogType' /\ Printing'
<1> DEFINE S == {"\n"}
           n == idx + 1
           k == Len(printed) + 1
<1>1. LogType /\ Len(text) \in Nat /\ Len(printed) \in Nat /\ BufferSize \in Nat \ {0}
  <2>1. LogType
    BY LogTyped
  <2> QED BY <2>1, SizesAssumption DEF LogType
<1>2. /\ AtLineEnd /\ Turn /\ idx < BufferSize /\ Message(idx) \in {"\n", "nul"}
      /\ printed' = Append(printed, Copied)
      /\ lastLine' = (IF Message(idx) = "\n" THEN idx + 1 ELSE idx)
      /\ idx' = idx + 1 /\ lineLen' = 1 /\ text' = text /\ logging' = logging
  BY DEF PrintLine, AtLineEnd
<1>3. logging = "loop" /\ idx <= Len(text) /\ idx \in Nat
  BY <1>1, <1>2 DEF Turn, LogType
<1>4. /\ k = Before(text, S, n) + 1 /\ n \in 1 .. Len(text) + 1
      /\ k \in 1 .. FieldNum(text, S) /\ FieldNum(text, S) \in Nat
      /\ lastLine = Start(text, S, k) /\ lastLine \in 0 .. idx
  BY <1>1, <1>2, InLoop, FieldNumType DEF LogType
<1>5. /\ Kept \in Seq(LogChars) /\ Len(Kept) \in Nat
      /\ \A m \in 1 .. Len(Kept) : Kept[m] = text[m]
      /\ Len(Kept) = IF Len(text) < BufferSize THEN Len(text) ELSE BufferSize - 1
  <2>1. /\ Kept \in Seq(LogChars)
        /\ \A m \in 1 .. Len(Kept) : Kept[m] = text[m]
        /\ Len(Kept) = IF Len(text) < BufferSize THEN Len(text) ELSE BufferSize - 1
    BY <1>1, KeptFacts DEF LogType
  <2> QED BY <2>1
<1>6. CopyLen \in Nat /\ (Message(idx) = "\n" => CopyLen = idx - lastLine)
      /\ (Message(idx) # "\n" => CopyLen >= idx - lastLine)
  <2>1. /\ CopyLen \in Nat /\ lastLine \in 0 .. idx
        /\ Message(idx) = "\n" => CopyLen = idx - lastLine
        /\ Message(idx) # "\n" => CopyLen = idx - lastLine + (IF lastLine = 0 THEN 0 ELSE 1)
    BY <1>1, <1>2, CopyLenIs
  <2> QED BY <2>1, <1>3
(* What is copied is the line, unless it is cut off by the buffer's end.   *)
<1>7. Copied \in Seq(LogChars)
  <2>1. \A a, b \in Nat : a >= 1 /\ b <= Len(Kept) => SubSeq(Kept, a, b) \in Seq(LogChars)
    <3> TAKE a, b \in Nat
    <3>1. ASSUME a >= 1, b <= Len(Kept)
          PROVE  SubSeq(Kept, a, b) \in Seq(LogChars)
      <4>1. a \in Int /\ b \in Int /\ \A j \in a .. b : Kept[j] \in LogChars
        BY <1>5, <3>1
      <4> QED BY <4>1, SubSeqProperties
    <3> QED BY <3>1
  <2>2. lastLine \in Nat
    BY <1>4, <1>3
  <2> DEFINE end == lastLine + CopyLen
             last == IF end < Len(Kept) THEN end ELSE Len(Kept)
  <2>3. last \in Nat /\ last <= Len(Kept) /\ lastLine + 1 \in Nat /\ lastLine + 1 >= 1
    BY <1>5, <1>6, <2>2
  <2>4. Copied = SubSeq(Kept, lastLine + 1, last)
    BY DEF Copied
  <2> HIDE DEF last
  <2> QED BY <2>1, <2>3, <2>4
<1>8. ASSUME idx < Len(Kept) \/ Len(text) < BufferSize
      PROVE  Copied = SubSeq(text, lastLine + 1, idx)
  <2>1. lastLine + CopyLen >= idx /\ idx <= Len(Kept) /\ (Message(idx) = "\n" => lastLine + CopyLen = idx)
    BY <1>3, <1>4, <1>5, <1>6, <1>8
  <2>2. Message(idx) # "\n" => idx = Len(Kept)
    <3>1. Message(idx) # "\n" => Message(idx) = "nul"
      BY <1>2
    <3>2. Message(idx) = "nul" => idx >= Len(Kept)
      BY <1>1, <1>3, MessageFacts DEF LogType
    <3> QED BY <1>3, <1>5, <2>1, <3>1, <3>2
  <2>3. (IF lastLine + CopyLen < Len(Kept) THEN lastLine + CopyLen ELSE Len(Kept)) = idx
    BY <1>3, <1>4, <1>5, <1>6, <2>1, <2>2
  <2>4. Copied = SubSeq(Kept, lastLine + 1, idx)
    BY <2>3, Zenon DEF Copied
  <2>5. \A m \in lastLine + 1 .. idx : Kept[m] = text[m]
    BY <1>3, <1>4, <1>5, <2>1
  <2>6. SubSeq(Kept, lastLine + 1, idx) = SubSeq(text, lastLine + 1, idx)
    <3>1. lastLine + 1 \in Int /\ idx \in Int
      BY <1>3, <1>4
    <3> QED BY <2>5, <3>1, SubSeqSame
  <2> QED BY <2>4, <2>6
<1>9. LogType'
  BY <1>1, <1>2, <1>3, <1>7 DEF LogType
<1>10. /\ printed' \in Seq(Seq(LogChars)) /\ Len(printed') = k
       /\ \A j \in 1 .. k - 1 : printed'[j] = printed[j]
       /\ printed'[k] = Copied
       /\ DOMAIN printed' = 1 .. k
  BY <1>1, <1>2, <1>7 DEF LogType
<1>11. \A j \in 1 .. k - 1 : printed[j] = Field(text, S, j)
  <2>1. \A j \in DOMAIN printed : printed[j] = Field(text, S, j)
    BY <1>2, <1>3, Zenon DEF Printing
  <2>2. DOMAIN printed = 1 .. k - 1
    BY <1>1 DEF LogType
  <2> QED BY <2>1, <2>2
<1>12. CASE Message(idx) = "\n"
  <2>1. idx < Len(Kept) /\ idx < Len(text) /\ text[n] \in S
    <3>1. ~(idx >= Len(Kept))
      BY <1>1, <1>3, <1>12, MessageFacts DEF LogType
    <3>2. idx < Len(Kept)
      BY <1>3, <1>5, <3>1
    <3> QED BY <1>1, <1>3, <1>12, <3>2, MessageFacts DEF LogType
  <2>2. End(text, S, k) = n
    <3>1. text \in Seq(LogChars) /\ n <= Len(text)
      BY <1>1, <1>3, <2>1 DEF LogType
    <3> HIDE DEF k, n, S
    <3> QED BY <1>4, <2>1, <3>1, Place
  <2>3. Copied = Field(text, S, k)
    <3>1. Copied = SubSeq(text, lastLine + 1, n - 1)
      BY <1>3, <1>8, <2>1
    <3> QED BY <1>4, <2>2, <3>1, Zenon DEF Field
  <2>4. Start(text, S, k + 1) = n
    <3>1. k + 1 # 1 /\ (k + 1) - 1 = k
      BY <1>1
    <3> QED BY <2>2, <3>1 DEF Start
  <2>5. Before(text, S, n + 1) = k
    <3>1. n \in Nat \ {0}
      BY <1>3
    <3> HIDE DEF k, n, S
    <3> QED BY <1>4, <2>1, <3>1, BeforeStep
  <2>6. \A j \in DOMAIN printed' : printed'[j] = Field(text', S, j)
    <3>1. \A j \in 1 .. k : j = k \/ j \in 1 .. k - 1
      BY <1>1
    <3>2. text' = text
      BY <1>2
    <3> HIDE DEF k, S
    <3> QED BY <1>10, <1>11, <2>3, <3>1, <3>2, Zenon
  <2>7. idx' <= BufferSize /\ idx' <= Len(text') /\ lastLine' = n /\ lineLen' = idx' - lastLine' + 1 /\ n # 0
    BY <1>1, <1>2, <1>3, <1>12, <2>1
  <2>8. /\ Len(printed') = Before(text', S, idx' + 1)
        /\ lastLine' = Start(text', S, Len(printed') + 1)
        /\ lineLen' = idx' - lastLine' + (IF lastLine' = 0 THEN 0 ELSE 1)
    BY <1>2, <1>10, <2>4, <2>5, <2>7, Zenon
  <2>9. logging' = "loop"
    BY <1>2, <1>3
  <2> QED BY <1>9, <2>6, <2>7, <2>8, <2>9, Zenon DEF Printing
<1>13. CASE Message(idx) # "\n"
  <2>1. idx >= Len(Kept)
    <3>1. Message(idx) = "nul"
      BY <1>2, <1>13
    <3> QED BY <1>1, <1>3, <3>1, MessageFacts DEF LogType
  <2>2. CASE Len(text) < BufferSize
    <3>1. idx = Len(text)
      BY <1>3, <1>5, <2>1, <2>2
    <3>2. End(text, S, k) = n /\ k = FieldNum(text, S)
      <4>1. text \in Seq(LogChars) /\ n = Len(text) + 1
        BY <1>1, <3>1 DEF LogType
      <4> HIDE DEF k, n, S
      <4> QED BY <1>4, <4>1, Place
    <3>3. Copied = Field(text, S, k)
      <4>1. Copied = SubSeq(text, lastLine + 1, n - 1)
        BY <1>3, <1>8, <2>2
      <4> QED BY <1>4, <3>2, <4>1, Zenon DEF Field
    <3>4. /\ Fields(text, S) \in Seq(Seq(LogChars)) /\ Len(Fields(text, S)) = k
          /\ \A j \in 1 .. k : Fields(text, S)[j] = Field(text, S, j)
      BY <1>1, <3>2, FieldsSeq DEF LogType
    <3>5. \A j \in 1 .. k : printed'[j] = Fields(text, S)[j]
      <4>1. \A j \in 1 .. k : j = k \/ j \in 1 .. k - 1
        BY <1>1
      <4> HIDE DEF k, S
      <4> QED BY <1>10, <1>11, <3>3, <3>4, <4>1, Zenon
    <3>6. printed' = Fields(text, S)
      <4> HIDE DEF k, S
      <4> QED BY <1>10, <3>4, <3>5, SeqEqual
    <3>7. idx' <= BufferSize /\ ~(idx' <= Len(text'))
      BY <1>1, <1>2, <1>3, <3>1
    <3>8. printed' = Lines(text') /\ Len(text') < BufferSize
      BY <1>2, <2>2, <3>6 DEF Lines
    <3> QED BY <1>9, <3>7, <3>8, Zenon DEF Printing
  <2>3. CASE ~(Len(text) < BufferSize)
    <3>1. idx' = BufferSize /\ idx' <= BufferSize /\ idx' <= Len(text') /\ ~(idx' < BufferSize)
      BY <1>1, <1>2, <1>3, <1>5, <2>1, <2>3
    <3>2. logging' = "loop"
      BY <1>2, <1>3
    <3> QED BY <1>9, <3>1, <3>2, Zenon DEF Printing
  <2> QED BY <2>2, <2>3
<1> QED BY <1>9, <1>12, <1>13

(* A prefix of the lines is printed, and all of them at the end.           *)
LEMMA PrintingLogs ==
  LogType /\ Printing /\ logging # "undefined" => LogPrints
<1> SUFFICES ASSUME LogType, Printing, logging # "undefined"
             PROVE  LogPrints
  OBVIOUS
<1> DEFINE S == {"\n"}
           lines == Fields(text, S)
<1>1. /\ text \in Seq(LogChars) /\ Len(text) \in Nat /\ idx \in Nat
      /\ printed \in Seq(Seq(LogChars)) /\ Len(printed) \in Nat
      /\ DOMAIN printed = 1 .. Len(printed)
  BY DEF LogType
<1>2. /\ lines \in Seq(Seq(LogChars)) /\ Len(lines) = FieldNum(text, S)
      /\ \A k \in 1 .. Len(lines) : lines[k] = Field(text, S, k)
  BY <1>1, FieldsSeq
<1>3. ASSUME logging = "done"
      PROVE  printed = Lines(text)
  <2>1. "done" # "loop"
    OBVIOUS
  <2> QED BY <1>3, <2>1, Zenon DEF Printing
<1>4. ASSUME logging = "loop", Fits(text)
      PROVE  IsPrefix(printed, Lines(text))
  <2>1. Len(text) < BufferSize
    BY <1>4, Zenon DEF Fits
  <2>2. CASE idx <= Len(text)
    <3>1. Turn /\ idx < BufferSize
      BY <1>1, <1>4, <2>1, <2>2, SizesAssumption DEF Turn
    <3>2. Len(printed) + 1 \in 1 .. FieldNum(text, S)
      BY <3>1, InLoop
    <3>3. \A k \in DOMAIN printed : printed[k] = Field(text, S, k)
      BY <1>4, <2>2, <3>1, Zenon DEF Printing
    <3>4. Len(printed) <= Len(lines) /\ \A m \in 1 .. Len(printed) : printed[m] = lines[m]
      <4>1. FieldNum(text, S) \in Nat
        BY <1>1, FieldNumType
      <4> HIDE DEF lines, S
      <4>2. Len(printed) <= Len(lines)
        BY <1>1, <1>2, <3>2, <4>1
      <4>3. \A m \in 1 .. Len(printed) : m \in 1 .. Len(lines)
        BY <1>1, <1>2, <4>1, <4>2
      <4> QED BY <1>1, <1>2, <3>3, <4>2, <4>3, Zenon
    <3>5. SubSeq(printed, 1, Len(printed)) = SubSeq(lines, 1, Len(printed))
      <4>1. 1 \in Int /\ Len(printed) \in Int
        BY <1>1
      <4> HIDE DEF lines
      <4> QED BY <3>4, <4>1, SubSeqSame
    <3> QED BY <3>4, <3>5 DEF IsPrefix, Lines
  <2>3. CASE ~(idx <= Len(text))
    <3>1. printed = Lines(text)
      BY <1>4, <2>3, Zenon DEF Printing
    <3> QED BY <1>1, <3>1 DEF IsPrefix
  <2> QED BY <2>2, <2>3
<1> QED BY <1>3, <1>4 DEF LogPrints

(* Only a text that does not fit makes log_at leave its buffers.           *)
LEMMA OnlyTooLong ==
  ASSUME TypeOK, Printing, ReadPastBuffer \/ WritePastLine
  PROVE  ~Fits(text)
<1> DEFINE S == {"\n"}
           k == Len(printed) + 1
           lines == Fields(text, S)
<1>1. LogType /\ Len(text) \in Nat /\ Len(printed) \in Nat /\ BufferSize \in Nat /\ LineSize \in Nat
  <2>1. LogType
    BY LogTyped
  <2> QED BY <2>1, SizesAssumption DEF LogType
<1>2. Turn /\ logging = "loop" /\ idx <= Len(text) /\ idx \in Nat
  BY <1>1 DEF ReadPastBuffer, WritePastLine, AtLineEnd, Turn, LogType
<1>3. ASSUME ReadPastBuffer
      PROVE  ~(Len(text) < BufferSize)
  BY <1>1, <1>2, <1>3 DEF ReadPastBuffer
<1>4. ASSUME WritePastLine, Len(text) < BufferSize,
             \A j \in DOMAIN lines :
               Len(lines[j]) < (IF j > 1 /\ j = Len(lines) THEN LineSize - 1 ELSE LineSize)
      PROVE  FALSE
  <2>1. AtLineEnd /\ CopyLen >= LineSize /\ idx < BufferSize /\ Message(idx) \in {"\n", "nul"}
    BY <1>4 DEF WritePastLine, AtLineEnd
  <2>2. /\ CopyLen \in Nat /\ lastLine \in 0 .. idx
        /\ Message(idx) = "\n" => CopyLen = idx - lastLine
        /\ Message(idx) # "\n" => CopyLen = idx - lastLine + (IF lastLine = 0 THEN 0 ELSE 1)
    BY <1>1, <2>1, CopyLenIs
  <2>3. /\ k = Before(text, S, idx + 1) + 1 /\ idx + 1 \in 1 .. Len(text) + 1
        /\ k \in 1 .. FieldNum(text, S) /\ (k = 1 <=> lastLine = 0)
        /\ lastLine = Start(text, S, k)
    BY <1>1, <1>2, <2>1, InLoop
  <2>4. /\ text \in Seq(LogChars) /\ FieldNum(text, S) \in Nat
        /\ DOMAIN lines = 1 .. FieldNum(text, S) /\ Len(lines) = FieldNum(text, S)
        /\ \A j \in 1 .. FieldNum(text, S) : lines[j] = Field(text, S, j)
    BY <1>1, FieldsSeq, FieldNumType DEF LogType
  <2>5. Len(lines[k]) = End(text, S, k) - lastLine - 1
    <3>1. Len(Field(text, S, k)) = End(text, S, k) - Start(text, S, k) - 1
      BY <2>3, <2>4, FieldFacts
    <3> HIDE DEF lines, k, S
    <3> QED BY <2>3, <2>4, <3>1
  <2>6. Len(lines[k]) < (IF k > 1 /\ k = Len(lines) THEN LineSize - 1 ELSE LineSize)
    BY <1>4, <2>3, <2>4
  <2>7. CASE Message(idx) = "\n"
    <3>1. idx < Len(text) /\ text[idx + 1] \in S
      <4>1. ~(idx >= Len(Kept)) /\ Len(Kept) \in Nat
        BY <1>1, <1>2, <2>7, MessageFacts, KeptFacts DEF LogType
      <4>2. idx < Len(Kept)
        BY <1>2, <4>1
      <4> QED BY <1>1, <1>2, <2>7, <4>2, MessageFacts DEF LogType
    <3>2. End(text, S, k) = idx + 1 /\ k < FieldNum(text, S)
      <4>1. idx + 1 <= Len(text)
        BY <1>1, <1>2, <3>1
      <4> HIDE DEF k, S
      <4> QED BY <2>3, <2>4, <3>1, <4>1, Place
    <3>3. CopyLen = idx - lastLine /\ Len(lines[k]) < LineSize /\ Len(lines[k]) = (idx + 1) - lastLine - 1
      <4> HIDE DEF lines, k, S
      <4> QED BY <2>2, <2>4, <2>5, <2>6, <2>7, <3>2
    <3> HIDE DEF lines, k, S
    <3> QED BY <1>1, <1>2, <2>1, <2>2, <3>3
  <2>8. CASE Message(idx) # "\n"
    <3>1. idx = Len(text)
      <4>1. Message(idx) = "nul" /\ Len(Kept) = Len(text)
        BY <1>1, <1>4, <2>1, <2>8, KeptFacts DEF LogType
      <4>2. idx >= Len(Kept)
        BY <1>1, <1>2, <4>1, MessageFacts DEF LogType
      <4> QED BY <1>1, <1>2, <4>1, <4>2
    <3>2. End(text, S, k) = idx + 1 /\ k = FieldNum(text, S)
      <4>1. idx + 1 = Len(text) + 1
        BY <3>1
      <4> HIDE DEF k, S
      <4> QED BY <2>3, <2>4, <4>1, Place
    <3>3. k > 1 <=> lastLine # 0
      BY <2>3, <1>1
    <3>4. Len(lines[k]) = (idx + 1) - lastLine - 1
      BY <2>5, <3>2
    <3>5. Len(lines[k]) < (IF lastLine # 0 THEN LineSize - 1 ELSE LineSize)
      <4> HIDE DEF lines, k, S
      <4> QED BY <2>4, <2>6, <3>2, <3>3
    <3> HIDE DEF lines, k, S
    <3> QED BY <1>1, <1>2, <2>1, <2>2, <2>8, <3>4, <3>5
  <2> QED BY <2>7, <2>8
<1> QED BY <1>3, <1>4, Zenon DEF Fits, Lines

LEMMA StepLog ==
  ASSUME TypeOK, Printing, LogPrints, LogStep
  PROVE  LogType' /\ Printing' /\ LogPrints'
<1>1. LogType
  BY LogTyped
<1>2. LogType /\ Printing /\ logging # "undefined" => LogPrints
  BY PrintingLogs
<1>3. (LogType /\ Printing /\ logging # "undefined")' => LogPrints'
  BY PrintingLogs, PTL
<1>4. CASE InLine
  BY <1>3, <1>4, StepInLine DEF InLine, Turn
<1>5. CASE PrintLine
  BY <1>3, <1>5, StepPrintLine DEF PrintLine, AtLineEnd, Turn
<1>6. CASE ReadPastBuffer \/ WritePastLine
  <2>1. Undefined /\ ~Fits(text)
    BY <1>6, OnlyTooLong DEF ReadPastBuffer, WritePastLine
  <2>2. logging' = "undefined" /\ text' = text /\ idx' = idx /\ lineLen' = lineLen
        /\ lastLine' = lastLine /\ printed' = printed
    BY <2>1 DEF Undefined
  <2>3. LogType' /\ Printing'
    BY <1>1, <2>2 DEF LogType, Printing
  <2>4. ~Fits(text')
    BY <2>1, <2>2, Zenon
  <2> QED BY <2>2, <2>3, <2>4 DEF LogPrints
<1>7. CASE LogReturn
  <2>1. /\ logging = "loop" /\ idx > Len(text) /\ logging' = "done" /\ text' = text /\ idx' = idx
        /\ lineLen' = lineLen /\ lastLine' = lastLine /\ printed' = printed
    BY <1>7 DEF LogReturn
  <2>2. ~(idx <= Len(text))
    BY <1>1, <2>1 DEF LogType
  <2>3. LogType' /\ logging' # "undefined"
    BY <1>1, <2>1 DEF LogType
  <2>4. idx <= BufferSize /\ printed = Lines(text) /\ Len(text) < BufferSize
    BY <2>1, <2>2, Zenon DEF Printing
  <2>5. idx' <= BufferSize /\ printed' = Lines(text') /\ Len(text') < BufferSize /\ ~(idx' <= Len(text'))
    BY <2>1, <2>2, <2>4, Zenon
  <2>6. Printing'
    BY <2>5, Zenon DEF Printing
  <2> QED BY <1>3, <2>3, <2>6
<1>8. CASE LogLeave
  <2>1. LogType' /\ logging' = "none"
    BY <1>8 DEF LogLeave, LogType
  <2>2. Printing'
    BY <2>1 DEF Printing
  <2> QED BY <1>3, <2>1, <2>2
<1> QED BY <1>4, <1>5, <1>6, <1>7, <1>8 DEF LogStep

LEMMA StepLogAt ==
  ASSUME NEW t \in Seq(LogChars), LogAt(t)
  PROVE  LogType' /\ Printing' /\ LogPrints'
<1> DEFINE S == {"\n"}
<1>1. /\ text' = t /\ idx' = 0 /\ lineLen' = 0 /\ lastLine' = 0 /\ printed' = <<>> /\ logging' = "loop"
      /\ Len(t) \in Nat /\ BufferSize \in Nat \ {0}
  BY SizesAssumption DEF LogAt
<1>2. LogType'
  BY <1>1 DEF LogType
<1>3. Before(t, S, 1) = 0 /\ Start(t, S, 1) = 0
  BY BeforeStep DEF Start
<1>4. Len(printed') = 0 /\ DOMAIN printed' = {}
  BY <1>1
<1>5. /\ idx' <= BufferSize /\ idx' <= Len(text') /\ idx' + 1 = 1 /\ Len(printed') + 1 = 1
      /\ lineLen' = idx' - lastLine' + (IF lastLine' = 0 THEN 0 ELSE 1)
  BY <1>1, <1>4
<1>6. /\ Len(printed') = Before(text', S, idx' + 1)
      /\ lastLine' = Start(text', S, Len(printed') + 1)
      /\ \A k \in DOMAIN printed' : printed'[k] = Field(text', S, k)
  BY <1>1, <1>3, <1>4, <1>5
<1>7. Printing'
  BY <1>1, <1>5, <1>6, Zenon DEF Printing
<1>8. (LogType /\ Printing /\ logging # "undefined")' => LogPrints'
  BY PrintingLogs, PTL
<1> QED BY <1>1, <1>2, <1>7, <1>8
---------------------------------------------------------------------------
(* How many characters the first n names have.                             *)
LEMMA CharactersGrow ==
  ASSUME NEW D, NEW ns \in Seq(Seq(D))
  PROVE  /\ Characters(ns, 0) = 0
         /\ \A n \in 0 .. Len(ns) :
              /\ Characters(ns, n) \in Nat
              /\ Characters(ns, n) <= Characters(ns, Len(ns))
         /\ \A n \in 0 .. Len(ns) - 1 :
              Characters(ns, n + 1) = Characters(ns, n) + Len(ns[n + 1])
<1> DEFINE Column(k) == {<<k, c>> : c \in 1 .. Len(ns[k])}
           Columns(n) == UNION {Column(k) : k \in 1 .. n}
<1>1. Len(ns) \in Nat /\ \A k \in 1 .. Len(ns) : Len(ns[k]) \in Nat
  <2>1. \A k \in 1 .. Len(ns) : ns[k] \in Seq(D)
    OBVIOUS
  <2> QED BY <2>1
<1>2. \A k \in 1 .. Len(ns) : IsFiniteSet(Column(k)) /\ Cardinality(Column(k)) = Len(ns[k])
  <2> TAKE k \in 1 .. Len(ns)
  <2> DEFINE n == Len(ns[k])
  <2>1. n \in Nat
    BY <1>1
  <2> HIDE DEF n
  <2> DEFINE T == {<<k, c>> : c \in 1 .. n}
             f == [c \in 1 .. n |-> <<k, c>>]
  <2>2. f \in [1 .. n -> T]
    OBVIOUS
  <2>3. f \in Injection(1 .. n, T)
    BY <2>2 DEF Injection, IsInjective
  <2>4. f \in Surjection(1 .. n, T)
    BY <2>2 DEF Surjection
  <2>5. ExistsBijection(1 .. n, T)
    <3> HIDE DEF f, T
    <3> QED BY <2>3, <2>4 DEF ExistsBijection, Bijection
  <2>6. IsFiniteSet(T) /\ Cardinality(T) = n
    <3> HIDE DEF T
    <3> QED BY <2>1, <2>5, FS_CountingElements, FS_NatBijection
  <2> QED BY <2>6 DEF n
<1>3. Columns(0) = {}
  OBVIOUS
<1>4. \A n \in 0 .. Len(ns) - 1 : /\ Columns(n + 1) = Columns(n) \cup Column(n + 1)
                                  /\ Columns(n) \cap Column(n + 1) = {}
  <2> TAKE n \in 0 .. Len(ns) - 1
  <2>1. \A k : k \in 1 .. n + 1 <=> k \in 1 .. n \/ k = n + 1
    BY <1>1
  <2>2. Columns(n + 1) = Columns(n) \cup Column(n + 1)
    <3> HIDE DEF Column
    <3> QED BY <2>1
  <2>3. \A k \in 1 .. n : k # n + 1
    BY <1>1
  <2>4. \A k \in 1 .. n : Column(k) \cap Column(n + 1) = {}
    BY <2>3
  <2>5. Columns(n) \cap Column(n + 1) = {}
    <3> HIDE DEF Column
    <3> QED BY <2>4
  <2> QED BY <2>2, <2>5
<1>5. \A n : Characters(ns, n) = Cardinality(Columns(n))
  BY DEF Characters
<1> HIDE DEF Column, Columns
<1>6. \A n \in 0 .. Len(ns) : IsFiniteSet(Columns(n))
  <2> DEFINE S == {n \in 0 .. Len(ns) : ~IsFiniteSet(Columns(n))}
  <2>1. SUFFICES ASSUME S # {}
                 PROVE  FALSE
    OBVIOUS
  <2>2. PICK n \in S : \A l \in S : n <= l
    <3>1. S \in SUBSET Nat
      BY <1>1
    <3> HIDE DEF S
    <3> QED BY <2>1, <3>1, Least
  <2>3. n \in 0 .. Len(ns) /\ ~IsFiniteSet(Columns(n))
    BY <2>2
  <2>4. n # 0
    BY <1>3, <2>3, FS_EmptySet
  <2>5. n - 1 \in 0 .. Len(ns) - 1 /\ n - 1 \in 0 .. Len(ns) /\ ~(n <= n - 1)
        /\ (n - 1) + 1 = n /\ n \in 1 .. Len(ns)
    BY <1>1, <2>3, <2>4
  <2>6. IsFiniteSet(Columns(n - 1))
    <3>1. n - 1 \notin S
      BY <2>2, <2>5
    <3> QED BY <2>5, <3>1
  <2>7. IsFiniteSet(Columns(n - 1) \cup Column(n))
    BY <1>2, <2>5, <2>6, FS_Union, Zenon
  <2>8. Columns(n) = Columns(n - 1) \cup Column(n)
    <3>1. Columns((n - 1) + 1) = Columns(n - 1) \cup Column((n - 1) + 1)
      BY <1>4, <2>5, Zenon
    <3> QED BY <2>5, <3>1, Zenon
  <2> QED BY <2>3, <2>7, <2>8, Zenon
<1>7. Characters(ns, 0) = 0
  BY <1>3, <1>5, FS_EmptySet, Zenon
<1>8. \A n \in 0 .. Len(ns) : Characters(ns, n) \in Nat
  BY <1>5, <1>6, FS_CardinalityType, Zenon
<1>9. \A n \in 0 .. Len(ns) - 1 : Characters(ns, n + 1) = Characters(ns, n) + Len(ns[n + 1])
  <2> TAKE n \in 0 .. Len(ns) - 1
  <2>1. n + 1 \in 1 .. Len(ns) /\ n \in 0 .. Len(ns)
    BY <1>1
  <2>2. Cardinality(Columns(n) \cup Column(n + 1))
          = Cardinality(Columns(n)) + Cardinality(Column(n + 1))
              - Cardinality(Columns(n) \cap Column(n + 1))
    BY <1>2, <1>6, <2>1, FS_Union, Zenon
  <2>3. Cardinality(Columns(n) \cap Column(n + 1)) = 0
    BY <1>4, FS_EmptySet, Zenon
  <2>4. Cardinality(Columns(n)) \in Nat /\ Cardinality(Column(n + 1)) \in Nat
    BY <1>2, <1>6, <2>1, FS_CardinalityType, Zenon
  <2>5. Cardinality(Columns(n + 1)) = Cardinality(Columns(n)) + Cardinality(Column(n + 1))
    <3>1. Columns(n + 1) = Columns(n) \cup Column(n + 1)
      BY <1>4, Zenon
    <3> DEFINE x == Cardinality(Columns(n))
               y == Cardinality(Column(n + 1))
    <3>2. x + y - 0 = x + y
      <4> HIDE DEF x, y
      <4>1. x \in Nat /\ y \in Nat
        BY <2>4 DEF x, y
      <4> QED BY <4>1
    <3> QED BY <2>2, <2>3, <3>1, <3>2, Zenon
  <2> QED BY <1>2, <1>5, <2>1, <2>5, Zenon
<1>10. \A n \in 0 .. Len(ns) : Characters(ns, n) <= Characters(ns, Len(ns))
  <2> TAKE n \in 0 .. Len(ns)
  <2>1. \A k \in 1 .. n : k \in 1 .. Len(ns)
    BY <1>1
  <2>2. Columns(n) \subseteq Columns(Len(ns))
    BY <2>1 DEF Columns
  <2>3. Len(ns) \in 0 .. Len(ns)
    BY <1>1
  <2>4. Cardinality(Columns(n)) <= Cardinality(Columns(Len(ns)))
    BY <1>6, <2>2, <2>3, FS_Subset, Zenon
  <2>5. Characters(ns, n) = Cardinality(Columns(n)) /\ Characters(ns, Len(ns)) = Cardinality(Columns(Len(ns)))
    BY <1>5, Zenon
  <2> QED BY <2>4, <2>5
<1> QED BY <1>7, <1>8, <1>9, <1>10

---------------------------------------------------------------------------
(* The list.                                                               *)

ListChars == Letters \cup {" ", "\n", "nul"}

ListType ==
  /\ pc \in {"idle", "measure", "join", "count", "log", "cut", "create", "undefined"}
  /\ names \in Seq(Seq(Letters))
  /\ list \in Seq(ListChars)
  /\ i \in Nat /\ num \in Nat /\ lastElement \in Nat /\ listLen \in Nat
  /\ array \in Seq(Nat)

LInv == ListType /\ Measuring /\ Joining /\ Counting /\ Counted /\ Cutting /\ Creating

LogOk == LogType /\ Printing /\ LogPrints

LEMMA CopyLenNat ==
  LogType /\ Printing => (AtLineEnd => CopyLen \in Nat)
BY CopyLenIs

LEMMA TextInvParts == TextInv <=> LInv /\ LogOk
<1>1. TypeOK <=> ListType /\ LogType /\ (AtLineEnd => CopyLen \in Nat)
  BY Zenon DEF TypeOK, ListType, LogType, ListChars
<1> QED BY <1>1, CopyLenNat, Zenon DEF TextInv, LInv, LogOk

LEMMA LogOkSame ==
  ASSUME LogOk, UNCHANGED logVars
  PROVE  LogOk'
<1>1. /\ text' = text /\ idx' = idx /\ lineLen' = lineLen /\ lastLine' = lastLine
      /\ printed' = printed /\ logging' = logging
  BY DEF logVars
<1>2. LogType' /\ Printing'
  BY <1>1 DEF LogOk, LogType, Printing
<1>3. LogPrints'
  BY <1>1 DEF LogOk, LogPrints
<1> QED BY <1>2, <1>3 DEF LogOk

LEMMA NamesFacts ==
  ASSUME NEW ns \in NameLists
  PROVE  /\ ns \in Seq(Seq(Letters)) /\ ns \in Seq(Seq(ListChars)) /\ Len(ns) \in Nat \ {0}
         /\ \A k \in 1 .. Len(ns) :
              /\ ns[k] \in Seq(Letters)
              /\ \A m \in 1 .. Len(ns[k]) : ns[k][m] \notin Separators
<1>1. ns \in Seq(Seq(Letters) \ {<<>>}) /\ ns # <<>>
  BY NameListsAssumption
<1>2. Len(ns) \in Nat \ {0}
  BY <1>1
<1>3. \A k \in 1 .. Len(ns) : ns[k] \in Seq(Letters)
  BY <1>1
<1>4. \A s \in Seq(Letters) : s \in Seq(ListChars) /\ \A m \in 1 .. Len(s) : s[m] \notin Separators
  <2> TAKE s \in Seq(Letters)
  <2>1. Letters \subseteq ListChars /\ \A c \in Letters : c \notin Separators
    BY LettersAssumption DEF ListChars, Separators
  <2>2. s \in Seq(ListChars)
    BY <2>1
  <2>3. \A m \in 1 .. Len(s) : s[m] \in Letters
    OBVIOUS
  <2> QED BY <2>1, <2>2, <2>3
<1>5. ns \in Seq(Seq(Letters)) /\ ns \in Seq(Seq(ListChars))
  <2>1. \A k \in 1 .. Len(ns) : ns[k] \in Seq(ListChars)
    BY <1>3, <1>4
  <2>2. ns \in Seq(Seq(Letters))
    BY <1>1, <1>3, SeqOfElements
  <2>3. ns \in Seq(Seq(ListChars))
    BY <2>1, <2>2, SeqOfElements
  <2> QED BY <2>2, <2>3
<1> QED BY <1>2, <1>3, <1>4, <1>5

(* No character between the ends is none.                                  *)
LEMMA FieldsEmpty ==
  ASSUME NEW marks
  PROVE  Fields(<<>>, marks) = Append(<<>>, <<>>)
<1> DEFINE C == {}
           t == <<>>
<1>1. t \in Seq(C) /\ Len(t) = 0
  OBVIOUS
<1>2. Before(t, marks, 1) = 0
  BY BeforeSteps
<1>3. FieldNum(t, marks) = 1
  BY <1>1, <1>2 DEF FieldNum
<1>4. /\ Fields(t, marks) \in Seq(Seq(C))
      /\ Len(Fields(t, marks)) = 1
      /\ \A k \in 1 .. 1 : Fields(t, marks)[k] = Field(t, marks, 1)
  <2>1. /\ Fields(t, marks) \in Seq(Seq(C))
        /\ Len(Fields(t, marks)) = FieldNum(t, marks)
        /\ \A k \in 1 .. FieldNum(t, marks) : Fields(t, marks)[k] = Field(t, marks, k)
    BY <1>1, FieldsSeq
  <2> HIDE DEF t
  <2>2. 1 \in 1 .. FieldNum(t, marks)
    BY <1>3
  <2> QED BY <1>3, <2>1, <2>2
<1>5. Field(t, marks, 1) = <<>>
  <2>1. /\ End(t, marks, 1) \in 1 .. Len(t) + 1
    <3>1. 1 \in 1 .. FieldNum(t, marks)
      BY <1>3
    <3> QED BY <1>1, <3>1, FieldFacts
  <2>2. Start(t, marks, 1) + 1 = 1 /\ End(t, marks, 1) - 1 = 0
    BY <1>1, <2>1 DEF Start
  <2>3. SubSeq(t, 1, 0) = <<>>
    BY SubSeqEmpty
  <2> QED BY <2>2, <2>3 DEF Field
<1> DEFINE gs == Append(<<>>, <<>>)
<1>6. gs \in Seq(Seq(C)) /\ Len(gs) = 1 /\ \A k \in 1 .. 1 : gs[k] = <<>>
  OBVIOUS
<1> HIDE DEF gs, t
<1> QED BY <1>4, <1>5, <1>6, SeqEqual DEF gs, t

(* The list has a field more than there are names, and it is empty.        *)
LEMMA JoinedFacts ==
  ASSUME ListType, Joined
  PROVE  /\ Len(list) \in Nat \ {0} /\ list[Len(list)] \in Separators
         /\ Len(names) \in Nat \ {0}
         /\ names \in Seq(Seq(ListChars))
         /\ FieldNum(list, Separators) = Len(names) + 1
         /\ Before(list, Separators, Len(list) + 1) = Len(names)
         /\ \A k \in 1 .. Len(names) : Field(list, Separators, k) = names[k]
<1> DEFINE N == FieldNum(list, Separators)
           K == Len(names)
           L == Len(list)
<1>1. list \in Seq(ListChars) /\ L \in Nat /\ N \in Nat \ {0}
  BY FieldNumType DEF ListType
<1>2. names \in Seq(Seq(ListChars)) /\ K \in Nat \ {0}
  BY NamesFacts DEF Joined
<1>3. /\ Len(Fields(list, Separators)) = N
      /\ \A k \in 1 .. N : Fields(list, Separators)[k] = Field(list, Separators, k)
  BY <1>1, FieldsSeq
<1>4. /\ Len(Append(names, <<>>)) = K + 1 /\ Append(names, <<>>)[K + 1] = <<>>
      /\ \A k \in 1 .. K : Append(names, <<>>)[k] = names[k]
  BY <1>2
<1>5. N = K + 1
  BY <1>3, <1>4 DEF Joined
<1>6. Before(list, Separators, L + 1) = K
  <2>1. Before(list, Separators, L + 1) \in Nat
    <3>1. L + 1 \in Nat \ {0}
      BY <1>1
    <3> QED BY <3>1, BeforeSteps, Zenon
  <2> QED BY <1>2, <1>5, <2>1 DEF FieldNum
<1>7. (\A k \in 1 .. K : Field(list, Separators, k) = names[k]) /\ Field(list, Separators, N) = <<>>
  <2>1. Fields(list, Separators) = Append(names, <<>>)
    BY DEF Joined
  <2>2. N \in 1 .. N /\ \A k \in 1 .. K : k \in 1 .. N
    BY <1>2, <1>5
  <2> HIDE DEF N, K
  <2> QED BY <1>3, <1>4, <1>5, <2>1, <2>2, Zenon
<1>8. L # 0 /\ list[L] \in Separators
  <2>1. K \in 1 .. N /\ N \in 1 .. N /\ K < N /\ N # 1 /\ N - 1 = K
    BY <1>2, <1>5
  <2>2. Start(list, Separators, N) = L
    <3>1. /\ Start(list, Separators, N) \in 0 .. L /\ End(list, Separators, N) = L + 1
          /\ Len(Field(list, Separators, N))
               = End(list, Separators, N) - Start(list, Separators, N) - 1
      BY <1>1, <2>1, FieldFacts
    <3>2. Len(Field(list, Separators, N)) = 0
      BY <1>7
    <3> QED BY <1>1, <3>1, <3>2
  <2>3. End(list, Separators, K) = L
    BY <2>1, <2>2 DEF Start
  <2>4. End(list, Separators, K) \in 1 .. L + 1 /\ list[End(list, Separators, K)] \in Separators
    BY <1>1, <2>1, FieldFacts
  <2> QED BY <1>1, <2>3, <2>4
<1> QED BY <1>1, <1>2, <1>5, <1>6, <1>7, <1>8

(* In each phase only one of the parts says something.                     *)
LEMMA OnePhase ==
  /\ ListType
  /\ \/ pc \in {"idle", "undefined"}
     \/ pc = "measure" /\ Measuring
     \/ pc = "join" /\ Joining
     \/ pc = "count" /\ Counting
     \/ pc = "log" /\ Counted
     \/ pc = "cut" /\ Cutting
     \/ pc = "create" /\ Creating
  => LInv
<1> SUFFICES ASSUME ListType
             PROVE  /\ pc \in {"idle", "undefined"} => LInv
                    /\ pc = "measure" /\ Measuring => LInv
                    /\ pc = "join" /\ Joining => LInv
                    /\ pc = "count" /\ Counting => LInv
                    /\ pc = "log" /\ Counted => LInv
                    /\ pc = "cut" /\ Cutting => LInv
                    /\ pc = "create" /\ Creating => LInv
  BY Zenon
<1>1. /\ pc # "measure" => Measuring
      /\ pc # "join" => Joining
      /\ pc # "count" => Counting
      /\ pc # "log" => Counted
      /\ pc # "cut" => Cutting
      /\ pc # "create" => Creating
  BY Zenon DEF Measuring, Joining, Counting, Counted, Cutting, Creating
<1> QED BY <1>1 DEF LInv

LEMMA OnePhaseNext ==
  /\ ListType'
  /\ \/ pc' \in {"idle", "undefined"}
     \/ pc' = "measure" /\ Measuring'
     \/ pc' = "join" /\ Joining'
     \/ pc' = "count" /\ Counting'
     \/ pc' = "log" /\ Counted'
     \/ pc' = "cut" /\ Cutting'
     \/ pc' = "create" /\ Creating'
  => LInv'
<1>1. (/\ ListType
       /\ \/ pc \in {"idle", "undefined"}
          \/ pc = "measure" /\ Measuring
          \/ pc = "join" /\ Joining
          \/ pc = "count" /\ Counting
          \/ pc = "log" /\ Counted
          \/ pc = "cut" /\ Cutting
          \/ pc = "create" /\ Creating)' => LInv'
  BY OnePhase, PTL
<1> QED BY <1>1

LEMMA StepGetNames ==
  ASSUME LInv, NEW ns \in NameLists, GetNames(ns)
  PROVE  LInv'
<1>1. ListType
  BY DEF LInv
<1>2. /\ pc' = "measure" /\ names' = ns /\ listLen' = Len(ns) /\ i' = 0
      /\ list' = list /\ num' = num /\ array' = array /\ lastElement' = lastElement
  BY DEF GetNames
<1>3. ns \in Seq(Seq(Letters)) /\ Len(ns) \in Nat \ {0}
  BY NamesFacts
<1>4. ListType'
  BY <1>1, <1>2, <1>3 DEF ListType
<1>5. Characters(ns, 0) = 0
  BY <1>3, CharactersGrow
<1>6. names' \in NameLists /\ i' <= Len(names') /\ listLen' = Len(names') + Characters(names', i')
  BY <1>2, <1>3, <1>5
<1>7. Measuring'
  BY <1>6, Zenon DEF Measuring
<1> QED BY <1>2, <1>4, <1>7, OnePhaseNext, Zenon

LEMMA StepMeasure ==
  ASSUME LInv, Measure
  PROVE  LInv'
<1>1. ListType /\ Measuring
  BY DEF LInv
<1>2. /\ pc = "measure" /\ i < Len(names) /\ listLen' = listLen + Len(names[i + 1])
      /\ i' = i + 1 /\ pc' = pc /\ names' = names /\ list' = list /\ num' = num
      /\ array' = array /\ lastElement' = lastElement
  BY DEF Measure, Running
<1>3. /\ names \in NameLists /\ listLen = Len(names) + Characters(names, i)
  BY <1>1, <1>2 DEF Measuring
<1>4. /\ names \in Seq(Seq(Letters)) /\ Len(names) \in Nat /\ i \in Nat
      /\ i + 1 \in 1 .. Len(names) /\ names[i + 1] \in Seq(Letters)
  BY <1>1, <1>2 DEF ListType
<1>5. /\ Characters(names, i) \in Nat
      /\ Characters(names, i + 1) = Characters(names, i) + Len(names[i + 1])
  <2>1. i \in 0 .. Len(names) - 1 /\ i \in 0 .. Len(names)
    BY <1>2, <1>4
  <2> QED BY <1>4, <2>1, CharactersGrow, Zenon
<1>6. Len(names[i + 1]) \in Nat
  BY <1>4
<1>7. ListType'
  BY <1>1, <1>2, <1>4, <1>6 DEF ListType
<1>8. i + 1 <= Len(names)
      /\ listLen + Len(names[i + 1]) = Len(names) + Characters(names, i + 1)
  BY <1>3, <1>4, <1>5, <1>6
<1>9. Measuring'
  BY <1>2, <1>3, <1>8, Zenon DEF Measuring
<1> QED BY <1>2, <1>7, <1>9, OnePhaseNext, Zenon

LEMMA StepAllocate ==
  ASSUME LInv, Allocate
  PROVE  LInv'
<1>1. ListType /\ Measuring
  BY DEF LInv
<1>2. /\ pc = "measure" /\ i = Len(names) /\ pc' = "join" /\ list' = <<>> /\ i' = 0
      /\ names' = names /\ listLen' = listLen /\ num' = num
      /\ array' = array /\ lastElement' = lastElement
  BY DEF Allocate, Running
<1>3. names \in NameLists /\ listLen = Len(names) + Characters(names, Len(names))
  BY <1>1, <1>2, Zenon DEF Measuring
<1>4. names \in Seq(Seq(Letters)) /\ Len(names) \in Nat \ {0}
  BY <1>3, NamesFacts
<1>5. ListType'
  BY <1>1, <1>2 DEF ListType
<1>6. Characters(names, 0) = 0
  BY <1>4, CharactersGrow
<1>7. Fields(list', Separators) =
        IF i' < Len(names') THEN Append(SubSeq(names', 1, i'), <<>>) ELSE SubSeq(names', 1, i')
  <2>1. Fields(list', Separators) = Append(<<>>, <<>>)
    BY <1>2, FieldsEmpty
  <2>2. SubSeq(names', 1, i') = <<>> /\ i' < Len(names')
    <3>1. SubSeq(names, 1, 0) = <<>>
      BY SubSeqEmpty
    <3> QED BY <1>2, <1>4, <3>1
  <2> QED BY <2>1, <2>2, Zenon
<1>8. /\ names' \in NameLists /\ list' \in Seq(Letters \cup {" "})
      /\ i' <= Len(names')
      /\ listLen' = Len(names') + Characters(names', Len(names'))
      /\ Len(list') = Characters(names', i') + (IF i' < Len(names') THEN i' ELSE i' - 1)
  <2>1. Len(<<>>) = 0 + 0 /\ <<>> \in Seq(Letters \cup {" "}) /\ 0 <= Len(names) /\ 0 < Len(names)
    BY <1>4
  <2> QED BY <1>2, <1>3, <1>6, <2>1, Zenon
<1>9. Joining'
  BY <1>7, <1>8, Zenon DEF Joining
<1> QED BY <1>2, <1>5, <1>9, OnePhaseNext, Zenon

LEMMA AppendIs ==
  ASSUME NEW C, NEW s \in Seq(C)
  PROVE  /\ s \o <<>> = s
         /\ \A c : s \o <<c>> = Append(s, c)
OBVIOUS

LEMMA SeqFacts ==
  ASSUME NEW S, NEW C, S \subseteq C, NEW s \in Seq(S)
  PROVE  s \in Seq(C)
OBVIOUS

LEMMA ConcatFacts ==
  ASSUME NEW C, NEW s \in Seq(C), NEW t \in Seq(C)
  PROVE  /\ s \o t \in Seq(C) /\ Len(s \o t) = Len(s) + Len(t)
OBVIOUS

LEMMA ConcatPlaces ==
  ASSUME NEW C, NEW s \in Seq(C), NEW t \in Seq(C)
  PROVE  /\ \A m \in 1 .. Len(s) : (s \o t)[m] = s[m]
         /\ \A m \in 1 .. Len(t) : (s \o t)[m + Len(s)] = t[m]
OBVIOUS

LEMMA AppendFacts ==
  ASSUME NEW C, NEW s \in Seq(C), NEW c \in C
  PROVE  /\ Append(s, c) \in Seq(C) /\ Len(Append(s, c)) = Len(s) + 1
         /\ Append(s, c)[Len(s) + 1] = c /\ \A k \in 1 .. Len(s) : Append(s, c)[k] = s[k]
OBVIOUS

LEMMA StepJoin ==
  ASSUME LInv, Join
  PROVE  LInv'
<1> DEFINE w == names[i + 1]
           K == Len(names)
           C == Letters \cup {" "}
           joined == SubSeq(names, 1, i)
           joinedNow == SubSeq(names, 1, i + 1)
<1> HIDE DEF w, C, joined, joinedNow
<1>0. Letters \subseteq C /\ " " \in C /\ " " \in Separators /\ C \subseteq ListChars
  BY DEF C, Separators, ListChars
<1>1. ListType /\ Joining
  BY DEF LInv
<1>2. /\ pc = "join" /\ i < K
      /\ i' = i + 1 /\ pc' = pc /\ names' = names /\ listLen' = listLen /\ num' = num
      /\ array' = array /\ lastElement' = lastElement
  BY Zenon DEF Join, Running
<1>3. /\ names \in NameLists /\ list \in Seq(C)
      /\ listLen = K + Characters(names, K)
      /\ Len(list) = Characters(names, i) + i
      /\ Fields(list, Separators) = Append(joined, <<>>)
  BY <1>1, <1>2, Zenon DEF Joining, joined, C
<1>4. /\ names \in Seq(Seq(Letters)) /\ K \in Nat \ {0} /\ i \in Nat /\ i + 1 \in 1 .. K
      /\ w \in Seq(Letters) /\ w \in Seq(C) /\ \A m \in 1 .. Len(w) : w[m] \notin Separators
  <2>1. /\ names \in Seq(Seq(Letters)) /\ K \in Nat \ {0} /\ i \in Nat /\ i + 1 \in 1 .. K
    BY <1>1, <1>2, <1>3, NamesFacts DEF ListType
  <2>2. w \in Seq(Letters) /\ \A m \in 1 .. Len(w) : w[m] \notin Separators
    BY <1>3, <2>1, NamesFacts, Zenon DEF w
  <2>3. w \in Seq(C)
    BY <1>0, <2>2, SeqFacts, Zenon
  <2> QED BY <2>1, <2>2, <2>3
<1>5. /\ joined \in Seq(Seq(C))
      /\ joinedNow = Append(joined, w) /\ joinedNow \in Seq(Seq(C))
  <2>1. \A k \in 1 .. i + 1 : names[k] \in Seq(C)
    <3> TAKE k \in 1 .. i + 1
    <3>1. k \in 1 .. K
      BY <1>4
    <3>2. names[k] \in Seq(Letters)
      BY <1>4, <3>1
    <3> QED BY <1>0, <3>2, SeqFacts, Zenon
  <2>2. \A k \in 1 .. i : names[k] \in Seq(C)
    <3>1. \A k \in 1 .. i : k \in 1 .. i + 1
      BY <1>4
    <3> QED BY <2>1, <3>1
  <2>3. 1 \in Int /\ i \in Int /\ i + 1 \in Int /\ i - 1 + 1 = i /\ (i + 1) - 1 + 1 = i + 1
    BY <1>4
  <2>4. /\ joined \in Seq(Seq(C)) /\ Len(joined) = (IF 1 <= i THEN i - 1 + 1 ELSE 0)
        /\ \A k \in 1 .. i - 1 + 1 : joined[k] = names[1 + k - 1]
    BY <2>2, <2>3, SubSeqProperties DEF joined
  <2>5. /\ joinedNow \in Seq(Seq(C)) /\ Len(joinedNow) = (IF 1 <= i + 1 THEN (i + 1) - 1 + 1 ELSE 0)
        /\ \A k \in 1 .. (i + 1) - 1 + 1 : joinedNow[k] = names[1 + k - 1]
    BY <2>1, <2>3, SubSeqProperties DEF joinedNow
  <2>6. Len(joined) = i /\ Len(joinedNow) = i + 1
    BY <1>4, <2>4, <2>5
  <2>7. (\A k \in 1 .. i : joined[k] = names[k]) /\ (\A k \in 1 .. i + 1 : joinedNow[k] = names[k])
    BY <1>4, <2>4, <2>5
  <2>9. joinedNow = Append(joined, w)
    <3> DEFINE a == Append(joined, w)
    <3>1. /\ a \in Seq(Seq(C)) /\ Len(a) = i + 1 /\ a[i + 1] = w
          /\ \A k \in 1 .. i : a[k] = joined[k]
      BY <1>4, <2>4, <2>6
    <3> HIDE DEF a
    <3>2. \A k \in 1 .. i + 1 : k = i + 1 \/ k \in 1 .. i
      BY <1>4
    <3>3. joinedNow[i + 1] = w
      BY <1>4, <2>7 DEF w
    <3>4. \A k \in 1 .. Len(joinedNow) : joinedNow[k] = a[k]
      BY <2>6, <2>7, <3>1, <3>2, <3>3
    <3> QED BY <2>5, <2>6, <3>1, <3>4, SeqEqual DEF a
  <2> QED BY <2>4, <2>5, <2>9
<1>6. list \o w \in Seq(C) /\ Fields(list \o w, Separators) = joinedNow
  <2>1. Fields(list, Separators) = Append(joined, <<>>)
    BY <1>3
  <2>2. Fields(list \o w, Separators) = Append(joined, w)
    <3>1. list \in Seq(C) /\ w \in Seq(C) /\ joined \in Seq(Seq(C))
      BY <1>3, <1>4, <1>5, Zenon
    <3>2. \A m \in 1 .. Len(w) : w[m] \notin Separators
      BY <1>4, Zenon
    <3>3. EndsIn(list, Separators, joined, <<>>)
      BY <2>1 DEF EndsIn
    <3>4. EndsIn(list \o w, Separators, joined, w)
      BY <3>1, <3>2, <3>3, FieldsFill
    <3> QED BY <3>4 DEF EndsIn
  <2>3. list \in Seq(C) /\ w \in Seq(C)
    BY <1>3, <1>4
  <2>4. list \o w \in Seq(C)
    BY <2>3, ConcatFacts
  <2> QED BY <1>5, <2>2, <2>4
<1>7. /\ Characters(names, i) \in Nat /\ Len(w) \in Nat
      /\ Characters(names, i + 1) = Characters(names, i) + Len(w)
  <2>1. i \in 0 .. K - 1 /\ i \in 0 .. K
    BY <1>2, <1>4
  <2>2. Len(w) \in Nat
    BY <1>4
  <2> QED BY <1>4, <2>1, <2>2, CharactersGrow, Zenon DEF w
<1>8. Len(list \o w) = Characters(names, i + 1) + i
  <2>1. Len(list \o w) = Len(list) + Len(w)
    BY <1>3, <1>4, ConcatFacts, Zenon
  <2> QED BY <1>3, <1>4, <1>7, <2>1
<1>9. /\ list' \in Seq(C)
      /\ Len(list') = Characters(names, i + 1) + (IF i + 1 < K THEN i + 1 ELSE (i + 1) - 1)
      /\ Fields(list', Separators) = IF i + 1 < K THEN Append(joinedNow, <<>>) ELSE joinedNow
  <2>1. CASE i + 1 < K
    <3>1. list' = Append(list \o w, " ")
      <4>1. i < K - 1
        BY <1>4, <2>1
      <4> QED BY <1>6, <4>1, AppendIs, Zenon DEF Join, w
    <3>3. Fields(list', Separators) = Append(joinedNow, <<>>)
      BY <1>0, <1>6, <3>1, FieldsMark, Zenon
    <3>5. list' \in Seq(C) /\ Len(list') = Len(list \o w) + 1
      BY <1>0, <1>6, <3>1, AppendFacts, Zenon
    <3>6. Len(list') = Characters(names, i + 1) + (i + 1)
      BY <1>4, <1>7, <1>8, <3>5
    <3> HIDE DEF K
    <3> QED BY <2>1, <3>3, <3>5, <3>6
  <2>2. CASE ~(i + 1 < K)
    <3>1. list' = list \o w
      <4>1. ~(i < K - 1)
        BY <1>4, <2>2
      <4> QED BY <1>6, <4>1, AppendIs, Zenon DEF Join, w
    <3>3. (i + 1) - 1 = i
      BY <1>4
    <3> HIDE DEF K
    <3> QED BY <1>6, <1>8, <2>2, <3>1, <3>3
  <2> QED BY <2>1, <2>2
<1>10. ListType'
  <2>2. list' \in Seq(ListChars)
    BY <1>0, <1>9, SeqFacts, Zenon
  <2> QED BY <1>1, <1>2, <1>4, <2>2 DEF ListType
<1>11. i + 1 <= K
  BY <1>2, <1>4
<1>12. Joining'
  <2>1. /\ names' \in NameLists /\ list' \in Seq(Letters \cup {" "})
        /\ i' <= Len(names')
        /\ listLen' = Len(names') + Characters(names', Len(names'))
    BY <1>2, <1>3, <1>9, <1>11, Zenon DEF C
  <2>2. /\ Len(list') = Characters(names', i') + (IF i' < Len(names') THEN i' ELSE i' - 1)
        /\ Fields(list', Separators) =
             IF i' < Len(names') THEN Append(SubSeq(names', 1, i'), <<>>) ELSE SubSeq(names', 1, i')
    BY <1>2, <1>9, Zenon DEF joinedNow
  <2> QED BY <2>1, <2>2, Zenon DEF Joining
<1> QED BY <1>2, <1>10, <1>12, OnePhaseNext, Zenon

LEMMA StepEndList ==
  ASSUME LInv, EndList
  PROVE  LInv'
<1> DEFINE K == Len(names)
           C == Letters \cup {" "}
<1> HIDE DEF C
<1>0. C \subseteq ListChars
  BY DEF C, ListChars
<1>1. ListType /\ Joining
  BY DEF LInv
<1>2. /\ pc = "join" /\ i = K /\ pc' = "count" /\ list' = Append(list, "nul") /\ i' = 0 /\ num' = 0
      /\ names' = names /\ listLen' = listLen /\ array' = array /\ lastElement' = lastElement
  BY Zenon DEF EndList, Running
<1>3. /\ names \in NameLists /\ list \in Seq(C)
      /\ listLen = K + Characters(names, K)
      /\ ~(i < K) => Len(list) = Characters(names, i) + (i - 1)
      /\ ~(i < K) => Fields(list, Separators) = SubSeq(names, 1, i)
  BY <1>1, <1>2, Zenon DEF Joining, C
<1>4. names \in Seq(Seq(Letters)) /\ K \in Nat \ {0} /\ ~(i < K) /\ K \in 0 .. K
  BY <1>2, <1>3, NamesFacts
<1>5. Characters(names, K) \in Nat
  BY <1>4, CharactersGrow, Zenon
<1>6. Fields(list, Separators) = names
  <2>1. SubSeq(names, 1, K) = names
    BY <1>4
  <2> QED BY <1>2, <1>3, <1>4, <2>1, Zenon
<1>7. Len(list) = Characters(names, K) + (K - 1)
  BY <1>2, <1>3, <1>4, Zenon
<1>8. list \in Seq(ListChars)
  BY <1>1, Zenon DEF ListType
<1>9. "nul" \in ListChars /\ "nul" \in Separators
  BY DEF ListChars, Separators
<1>10. /\ list' \in Seq(ListChars) /\ Len(list') = Len(list) + 1
       /\ list'[Len(list) + 1] = "nul" /\ \A n \in 1 .. Len(list) : list'[n] = list[n]
  <2> DEFINE l == Append(list, "nul")
  <2>1. /\ l \in Seq(ListChars) /\ Len(l) = Len(list) + 1
        /\ l[Len(list) + 1] = "nul" /\ \A n \in 1 .. Len(list) : l[n] = list[n]
    BY <1>8, <1>9, AppendFacts
  <2>2. list' = l
    BY <1>2
  <2> HIDE DEF l
  <2> QED BY <2>1, <2>2
<1>11. ListType'
  BY <1>1, <1>2, <1>10 DEF ListType
<1>12. Joined'
  <2>1. Fields(list', Separators) = Append(names, <<>>)
    BY <1>2, <1>6, <1>8, <1>9, FieldsMark, Zenon
  <2> QED BY <1>2, <1>3, <2>1, Zenon DEF Joined
<1>13. Len(list) \in Nat /\ DOMAIN list' = 1 .. Len(list) + 1
  BY <1>8, <1>10
<1>14. \A n \in 1 .. Len(list) : list[n] # "nul" /\ list[n] # "\n"
  <2>1. \A n \in 1 .. Len(list) : list[n] \in C
    BY <1>3
  <2>2. "nul" \notin C /\ "\n" \notin C
    BY LettersAssumption DEF C
  <2> QED BY <2>1, <2>2, Zenon
<1>15. \A n \in 1 .. Len(list) + 1 : list'[n] # "\n" /\ (list'[n] = "nul" <=> n = Len(list) + 1)
  <2> TAKE n \in 1 .. Len(list) + 1
  <2>1. CASE n = Len(list) + 1
    BY <1>10, <2>1
  <2>2. CASE n # Len(list) + 1
    <3>1. n \in 1 .. Len(list)
      BY <1>13, <2>2
    <3> QED BY <1>10, <1>14, <2>2, <3>1, Zenon
  <2> QED BY <2>1, <2>2
<1>16. EndsInNul'
  BY <1>10, <1>13, <1>15, Zenon DEF EndsInNul
<1>17. i' <= Len(list') /\ Len(list') <= listLen'
  BY <1>2, <1>3, <1>4, <1>5, <1>7, <1>10, <1>13
<1>18. \A n \in DOMAIN list' : list'[n] # (IF n <= i' THEN " " ELSE "\n")
  <2> TAKE n \in DOMAIN list'
  <2>1. ~(n <= i')
    BY <1>2, <1>13
  <2> QED BY <1>13, <1>15, <2>1, Zenon
<1>19. num' = Before(list', Separators, i' + 1)
  <2>1. i' + 1 = 1 /\ num' = 0
    BY <1>2
  <2>2. Before(list', Separators, 1) = 0
    BY BeforeSteps, Zenon
  <2> QED BY <2>1, <2>2, Zenon
<1>20. Counting'
  BY <1>12, <1>16, <1>17, <1>18, <1>19, Zenon DEF Counting
<1> QED BY <1>2, <1>11, <1>20, OnePhaseNext, Zenon

(* How many separators are before the places of the list.                  *)
LEMMA BeforeList ==
  /\ Before(list, Separators, 1) = 0
  /\ \A j \in Nat \ {0} :
       /\ Before(list, Separators, j) \in Nat
       /\ Before(list, Separators, j + 1)
            = Before(list, Separators, j) + (IF list[j] \in Separators THEN 1 ELSE 0)
<1>1. ASSUME NEW t, t = list, NEW marks, marks = Separators
      PROVE  /\ Before(t, marks, 1) = 0
             /\ \A j \in Nat \ {0} :
                  /\ Before(t, marks, j) \in Nat
                  /\ Before(t, marks, j + 1) = Before(t, marks, j) + (IF t[j] \in marks THEN 1 ELSE 0)
  BY BeforeSteps
<1> QED BY <1>1

LEMMA ListFieldsSame ==
  \A t, u \in Seq(ListChars) :
    /\ Len(t) = Len(u)
    /\ \A m \in 1 .. Len(t) :
         /\ t[m] \in Separators <=> u[m] \in Separators
         /\ t[m] \notin Separators => t[m] = u[m]
    => /\ \A m \in 1 .. Len(t) + 1 : Before(t, Separators, m) = Before(u, Separators, m)
       /\ FieldNum(t, Separators) = FieldNum(u, Separators)
       /\ \A k \in 1 .. FieldNum(t, Separators) : Start(t, Separators, k) = Start(u, Separators, k)
       /\ Fields(t, Separators) = Fields(u, Separators)
BY FieldsSame

(* A character of the list is replaced, a separator by a separator.        *)
LEMMA Replaced ==
  ASSUME ListType, Joined, NEW n \in 1 .. Len(list), NEW c \in ListChars,
         list[n] \in Separators <=> c \in Separators,
         list[n] \notin Separators => c = list[n],
         list' = [list EXCEPT ![n] = c], names' = names
  PROVE  /\ list' \in Seq(ListChars) /\ Len(list') = Len(list)
         /\ list'[n] = c /\ \A m \in 1 .. Len(list) : m # n => list'[m] = list[m]
         /\ Joined'
         /\ \A m \in 1 .. Len(list) + 1 : Before(list', Separators, m) = Before(list, Separators, m)
         /\ FieldNum(list', Separators) = FieldNum(list, Separators)
         /\ \A k \in 1 .. FieldNum(list, Separators) :
              Start(list', Separators, k) = Start(list, Separators, k)
<1>1. list \in Seq(ListChars)
  BY DEF ListType
<1>2. /\ list' \in Seq(ListChars) /\ Len(list') = Len(list)
      /\ list'[n] = c /\ \A m \in 1 .. Len(list) : m # n => list'[m] = list[m]
  BY <1>1
<1>3. \A m \in 1 .. Len(list) :
        /\ list[m] \in Separators <=> list'[m] \in Separators
        /\ list[m] \notin Separators => list[m] = list'[m]
  <2> TAKE m \in 1 .. Len(list)
  <2>1. m = n \/ m # n
    OBVIOUS
  <2> QED BY <1>2, <2>1, Zenon
<1>4. /\ \A m \in 1 .. Len(list) + 1 : Before(list, Separators, m) = Before(list', Separators, m)
      /\ FieldNum(list, Separators) = FieldNum(list', Separators)
      /\ \A k \in 1 .. FieldNum(list, Separators) :
           Start(list, Separators, k) = Start(list', Separators, k)
      /\ Fields(list, Separators) = Fields(list', Separators)
  <2>1. Len(list) = Len(list')
    BY <1>2
  <2> QED BY <1>1, <1>2, <1>3, <2>1, ListFieldsSame, Zenon
<1>5. Joined'
  BY <1>4, Zenon DEF Joined
<1> QED BY <1>2, <1>4, <1>5, Zenon

LEMMA StepCount ==
  ASSUME LInv, Count
  PROVE  LInv'
<1> DEFINE n == i + 1
           c == IF list[n] = " " THEN "\n" ELSE list[n]
<1> HIDE DEF n, c
<1>1. ListType /\ Counting
  BY DEF LInv
<1>2. /\ pc = "count" /\ pc' = pc /\ i < Len(list)
      /\ num' = IF list[n] \in {" ", "nul"} THEN num + 1 ELSE num
      /\ i' = n
      /\ names' = names /\ listLen' = listLen /\ array' = array /\ lastElement' = lastElement
  BY Zenon DEF Count, Running, n
<1>3. /\ Joined /\ EndsInNul /\ Len(list) <= listLen
      /\ \A m \in DOMAIN list : list[m] # (IF m <= i THEN " " ELSE "\n")
      /\ num = Before(list, Separators, n)
  BY <1>1, <1>2, Zenon DEF Counting, n
<1>4. /\ Len(list) \in Nat /\ i \in Nat /\ n \in 1 .. Len(list) /\ n \in Nat \ {0} /\ n <= Len(list)
      /\ DOMAIN list = 1 .. Len(list) /\ ~(n <= i) /\ n + 1 \in 1 .. Len(list) + 1
      /\ n \in 1 .. Len(list) + 1
  <2>1. list \in Seq(ListChars) /\ i \in Nat
    BY <1>1, Zenon DEF ListType
  <2>2. i < Len(list)
    BY <1>2, Zenon
  <2> QED BY <2>1, <2>2 DEF n
<1>5. list[n] \in ListChars /\ "\n" \in ListChars
  <2>1. list \in Seq(ListChars)
    BY <1>1, Zenon DEF ListType
  <2>2. list[n] \in ListChars
    BY <1>4, <2>1
  <2> QED BY <2>2 DEF ListChars
<1>6. /\ c \in ListChars
      /\ list[n] \in Separators <=> c \in Separators
      /\ list[n] \notin Separators => c = list[n]
      /\ c # " " /\ (c = "nul" <=> list[n] = "nul")
  BY <1>5 DEF Separators, c
<1>7. list' = [list EXCEPT ![n] = c]
  <2>1. list' = [list EXCEPT ![n] = IF @ = " " THEN "\n" ELSE @]
    BY DEF Count, n
  <2> QED BY <2>1 DEF c
<1>8. /\ list' \in Seq(ListChars) /\ Len(list') = Len(list)
      /\ list'[n] = c /\ \A m \in 1 .. Len(list) : m # n => list'[m] = list[m]
      /\ Joined'
      /\ \A m \in 1 .. Len(list) + 1 : Before(list', Separators, m) = Before(list, Separators, m)
  BY <1>1, <1>2, <1>3, <1>4, <1>6, <1>7, Replaced
<1>9. DOMAIN list' = 1 .. Len(list)
  BY <1>8
<1>10. list[n] # "\n"
  BY <1>3, <1>4, Zenon
<1>11. num' = Before(list', Separators, i' + 1) /\ num' \in Nat
  <2>1. /\ Before(list, Separators, n) \in Nat
        /\ Before(list, Separators, n + 1)
             = Before(list, Separators, n) + (IF list[n] \in Separators THEN 1 ELSE 0)
    BY <1>4, BeforeList, Zenon
  <2>2. list[n] \in Separators <=> list[n] \in {" ", "nul"}
    BY <1>10 DEF Separators
  <2>3. num' = Before(list, Separators, n + 1)
    <3>1. CASE list[n] \in Separators
      BY <1>2, <1>3, <2>1, <2>2, <3>1, Zenon
    <3>2. CASE list[n] \notin Separators
      <4>1. Before(list, Separators, n) + 0 = Before(list, Separators, n)
        BY <2>1
      <4> QED BY <1>2, <1>3, <2>1, <2>2, <3>2, <4>1, Zenon
    <3> QED BY <3>1, <3>2
  <2>4. Before(list, Separators, n + 1) \in Nat
    <3>1. n + 1 \in Nat \ {0}
      BY <1>4
    <3> QED BY <3>1, BeforeList, Zenon
  <2> QED BY <1>2, <1>4, <1>8, <2>3, <2>4, Zenon
<1>12. ListType'
  BY <1>1, <1>2, <1>4, <1>8, <1>11 DEF ListType
<1>13. EndsInNul'
  <2>1. \A m \in DOMAIN list : list[m] = "nul" <=> m = Len(list)
    BY <1>3, Zenon DEF EndsInNul
  <2>2. \A m \in 1 .. Len(list) : list'[m] = "nul" <=> m = Len(list)
    <3> TAKE m \in 1 .. Len(list)
    <3>1. m = n \/ m # n
      OBVIOUS
    <3> QED BY <1>4, <1>6, <1>8, <2>1, <3>1, Zenon
  <2> QED BY <1>8, <1>9, <2>2, Zenon DEF EndsInNul
<1>14. i' <= Len(list') /\ Len(list') <= listLen'
  BY <1>2, <1>3, <1>4, <1>8, Zenon
<1>15. \A m \in DOMAIN list' : list'[m] # (IF m <= i' THEN " " ELSE "\n")
  <2> TAKE m \in DOMAIN list'
  <2>1. m \in 1 .. Len(list) /\ i' = n
    BY <1>2, <1>9
  <2>2. CASE m = n
    <3>1. m <= i'
      BY <1>4, <2>1, <2>2
    <3> QED BY <1>6, <1>8, <2>2, <3>1, Zenon
  <2>3. CASE m # n
    <3>1. m <= i' <=> m <= i
      BY <1>4, <2>1, <2>3 DEF n
    <3>2. list'[m] = list[m]
      BY <1>8, <2>1, <2>3
    <3>3. list[m] # (IF m <= i THEN " " ELSE "\n")
      BY <1>3, <1>4, <2>1, Zenon
    <3> QED BY <3>1, <3>2, <3>3, Zenon
  <2> QED BY <2>2, <2>3
<1>16. Counting'
  BY <1>8, <1>11, <1>13, <1>14, <1>15, Zenon DEF Counting
<1> QED BY <1>2, <1>12, <1>16, OnePhaseNext, Zenon

(* The heading of the log message and the list without its NUL.            *)
Logged == <<"#", "\n">> \o SubSeq(list, 1, Len(list) - 1)

LEMMA LoggedFacts ==
  ASSUME ListType, Joined, EndsInNul
  PROVE  (\A m \in 1 .. Len(list) : list[m] # " ")
         => /\ Logged \in Seq(LogChars) /\ Len(Logged) = Len(list) + 1
            /\ Logged[1] = "#" /\ Logged[2] = "\n"
            /\ \A m \in 1 .. Len(list) - 1 : Logged[m + 2] = list[m]
<1>0. SUFFICES ASSUME \A m \in 1 .. Len(list) : list[m] # " "
               PROVE  /\ Logged \in Seq(LogChars) /\ Len(Logged) = Len(list) + 1
                      /\ Logged[1] = "#" /\ Logged[2] = "\n"
                      /\ \A m \in 1 .. Len(list) - 1 : Logged[m + 2] = list[m]
  BY Zenon
<1> DEFINE L == Len(list)
           s == SubSeq(list, 1, L - 1)
           head == <<"#", "\n">>
<1>1. list \in Seq(ListChars) /\ L \in Nat \ {0}
  BY JoinedFacts DEF ListType
<1>2. \A m \in 1 .. L - 1 : list[m] \in LogChars
  <2> TAKE m \in 1 .. L - 1
  <2>1. m \in 1 .. L /\ m \in DOMAIN list /\ m # L
    BY <1>1
  <2>2. list[m] \in ListChars /\ list[m] # "nul"
    BY <1>1, <2>1 DEF EndsInNul
  <2>3. list[m] # " "
    BY <1>0, <2>1, Zenon
  <2> HIDE DEF L
  <2> QED BY <2>2, <2>3, Zenon DEF ListChars, LogChars
<1>3. /\ s \in Seq(LogChars) /\ Len(s) = L - 1
      /\ \A m \in 1 .. L - 1 : s[m] = list[m]
  <2>1. 1 \in Int /\ L - 1 \in Int
    BY <1>1
  <2>2. /\ s \in Seq(LogChars) /\ Len(s) = (IF 1 <= L - 1 THEN (L - 1) - 1 + 1 ELSE 0)
        /\ \A m \in 1 .. (L - 1) - 1 + 1 : s[m] = list[1 + m - 1]
    BY <1>2, <2>1, SubSeqProperties
  <2> HIDE DEF s, L
  <2>3. Len(s) = L - 1
    BY <1>1, <2>2
  <2>4. \A m \in 1 .. L - 1 : m \in 1 .. (L - 1) - 1 + 1 /\ 1 + m - 1 = m
    BY <1>1
  <2> QED BY <2>2, <2>3, <2>4
<1>4. /\ head \in Seq(LogChars) /\ Len(head) = 2 /\ head[1] = "#" /\ head[2] = "\n"
  <2>1. "#" \in LogChars /\ "\n" \in LogChars
    BY LogCharFacts
  <2> QED BY <2>1
<1> HIDE DEF s, head, L
<1>5. Logged = head \o s
  BY DEF Logged, head, s, L
<1>6. /\ Logged \in Seq(LogChars) /\ Len(Logged) = 2 + (L - 1)
      /\ Logged[1] = head[1] /\ Logged[2] = head[2]
      /\ \A m \in 1 .. L - 1 : Logged[m + 2] = s[m]
  <2>1. head \o s \in Seq(LogChars) /\ Len(head \o s) = Len(head) + Len(s)
    BY <1>3, <1>4, ConcatFacts, Zenon
  <2>2. /\ (head \o s)[1] = head[1] /\ (head \o s)[2] = head[2]
        /\ \A m \in 1 .. L - 1 : (head \o s)[m + 2] = s[m]
    <3>1. /\ \A m \in 1 .. Len(head) : (head \o s)[m] = head[m]
          /\ \A m \in 1 .. Len(s) : (head \o s)[m + Len(head)] = s[m]
      <4>1. head \in Seq(LogChars) /\ s \in Seq(LogChars)
        BY <1>3, <1>4, Zenon
      <4> QED BY <4>1, ConcatPlaces
    <3>2. 1 \in 1 .. 2 /\ 2 \in 1 .. 2
      OBVIOUS
    <3> QED BY <1>3, <1>4, <3>1, <3>2, Zenon
  <2> QED BY <1>3, <1>4, <1>5, <2>1, <2>2, Zenon
<1>7. 2 + (L - 1) = L + 1
  BY <1>1
<1> QED BY <1>3, <1>4, <1>6, <1>7 DEF L

LEMMA StepLogList ==
  ASSUME LInv, LogList
  PROVE  LInv' /\ LogOk'
<1> DEFINE L == Len(list)
<1>1. ListType /\ Counting
  BY DEF LInv
<1>2. /\ pc = "count" /\ pc' = "log" /\ i = L /\ LogAt(Logged)
      /\ names' = names /\ listLen' = listLen /\ list' = list /\ i' = i /\ num' = num
      /\ array' = array /\ lastElement' = lastElement
  BY Zenon DEF LogList, Running, Logged
<1>3. /\ Joined /\ EndsInNul
      /\ \A m \in DOMAIN list : list[m] # (IF m <= i THEN " " ELSE "\n")
      /\ num = Before(list, Separators, i + 1)
  BY <1>1, <1>2, Zenon DEF Counting
<1>4. \A m \in 1 .. L : list[m] # " "
  <2>1. list \in Seq(ListChars)
    BY <1>1, Zenon DEF ListType
  <2>2. DOMAIN list = 1 .. L /\ \A m \in 1 .. L : m <= L
    BY <2>1
  <2> QED BY <1>2, <1>3, <2>2, Zenon
<1>5. num = Len(names)
  BY <1>1, <1>2, <1>3, JoinedFacts, Zenon
<1>6. ListType'
  BY <1>1, <1>2 DEF ListType
<1>7. Logged \in Seq(LogChars)
  BY <1>1, <1>3, <1>4, LoggedFacts, Zenon
<1>8. LogOk'
  BY <1>2, <1>7, StepLogAt, Zenon DEF LogOk
<1>9. text' = Logged
  BY <1>2, Zenon DEF LogAt
<1>10. Joined' /\ EndsInNul' /\ num' = Len(names')
  BY <1>2, <1>3, <1>5, Zenon DEF Joined, EndsInNul
<1>11. " " \notin ToSet(list')
  <2>1. list \in Seq(ListChars)
    BY <1>1, Zenon DEF ListType
  <2>2. DOMAIN list = 1 .. L
    BY <2>1
  <2> QED BY <1>2, <1>4, <2>2, Zenon DEF ToSet
<1>12. text' = <<"#", "\n">> \o SubSeq(list', 1, Len(list') - 1)
  BY <1>2, <1>9, Zenon DEF Logged
<1>13. Counted'
  BY <1>10, <1>11, <1>12, Zenon DEF Counted
<1> QED BY <1>2, <1>6, <1>8, <1>13, OnePhaseNext, Zenon

LEMMA StepTestNum ==
  ASSUME LInv, TestNum
  PROVE  LInv'
<1>1. ListType /\ Counted
  BY DEF LInv
<1>2. /\ pc = "log" /\ array' = <<>> /\ lastElement' = 0 /\ i' = 0
      /\ names' = names /\ listLen' = listLen /\ list' = list
      /\ \/ num > MaxExtensions /\ pc' = "create" /\ num' = 0
         \/ num <= MaxExtensions /\ pc' = "cut" /\ num' = num
  BY Zenon DEF TestNum, Running
<1>3. Joined /\ EndsInNul /\ " " \notin ToSet(list) /\ num = Len(names)
  BY <1>1, <1>2, Zenon DEF Counted
<1>4. Joined'
  BY <1>2, <1>3, Zenon DEF Joined
<1>5. ListType'
  <2>1. array' \in Seq(Nat) /\ lastElement' \in Nat /\ i' \in Nat
    BY <1>2
  <2>2. num' \in Nat /\ pc' \in {"create", "cut"}
    BY <1>1, <1>2 DEF ListType
  <2>3. names' \in Seq(Seq(Letters)) /\ list' \in Seq(ListChars) /\ listLen' \in Nat
    BY <1>1, <1>2, Zenon DEF ListType
  <2> QED BY <2>1, <2>2, <2>3 DEF ListType
<1>6. list \in Seq(ListChars) /\ num \in Nat /\ MaxExtensions \in Nat
  BY <1>1, MaxExtensionsAssumption DEF ListType
<1>7. DOMAIN list = 1 .. Len(list) /\ Len(list) \in Nat
  BY <1>6
<1>8. CASE num > MaxExtensions /\ pc' = "create" /\ num' = 0
  <2>1. Creating'
    BY <1>2, <1>3, <1>4, <1>8, Zenon DEF Creating
  <2> QED BY <1>5, <1>8, <2>1, OnePhaseNext, Zenon
<1>9. CASE num <= MaxExtensions /\ pc' = "cut" /\ num' = num
  <2>1. /\ i' <= Len(list') /\ Len(array') = 0 /\ DOMAIN array' = {}
        /\ i' + 1 = 1 /\ Len(array') + 1 = 1
    BY <1>2, <1>7
  <2>2. \A m \in DOMAIN list' : list'[m] # " " /\ (m <= i' => list'[m] # "\n")
    <3>1. \A m \in 1 .. Len(list) : ~(m <= 0)
      BY <1>7
    <3>2. \A m \in DOMAIN list : list[m] # " "
      BY <1>3, Zenon DEF ToSet
    <3> QED BY <1>2, <1>7, <3>1, <3>2, Zenon
  <2>3. Elements'
    BY <2>1, Zenon DEF Elements
  <2>4. Before(list', Separators, 1) = 0
    BY <1>2, BeforeList, Zenon
  <2>5. Start(list', Separators, 1) = 0
    BY DEF Start
  <2>6. /\ Len(array') = Before(list', Separators, i' + 1)
        /\ lastElement' = Start(list', Separators, Len(array') + 1)
    BY <1>2, <2>1, <2>4, <2>5, Zenon
  <2>7. num' = Len(names') /\ num' <= MaxExtensions
    BY <1>2, <1>3, <1>9, Zenon
  <2>8. Cutting'
    BY <1>4, <2>1, <2>2, <2>3, <2>6, <2>7, Zenon DEF Cutting
  <2> QED BY <1>5, <1>9, <2>8, OnePhaseNext, Zenon
<1> QED BY <1>2, <1>8, <1>9

LEMMA CuttingFacts ==
  ASSUME LInv, pc = "cut"
  PROVE  /\ ListType /\ Joined /\ Elements
         /\ list \in Seq(ListChars) /\ Len(list) \in Nat /\ DOMAIN list = 1 .. Len(list)
         /\ array \in Seq(Nat) /\ Len(array) \in Nat /\ DOMAIN array = 1 .. Len(array)
         /\ i \in Nat /\ i <= Len(list)
         /\ \A m \in 1 .. Len(list) : list[m] # " " /\ (m <= i => list[m] # "\n")
         /\ num = Len(names) /\ num <= MaxExtensions
         /\ \A k \in 1 .. Len(array) : array[k] = Start(list, Separators, k)
         /\ Len(array) = Before(list, Separators, i + 1)
         /\ lastElement = Start(list, Separators, Len(array) + 1)
<1>1. ListType /\ Cutting
  BY DEF LInv
<1>2. list \in Seq(ListChars) /\ array \in Seq(Nat) /\ i \in Nat
  BY <1>1, Zenon DEF ListType
<1>3. /\ Len(list) \in Nat /\ DOMAIN list = 1 .. Len(list)
      /\ Len(array) \in Nat /\ DOMAIN array = 1 .. Len(array)
  BY <1>2
<1>4. /\ Joined /\ i <= Len(list)
      /\ \A m \in DOMAIN list : list[m] # " " /\ (m <= i => list[m] # "\n")
      /\ num = Len(names) /\ num <= MaxExtensions
      /\ Elements
      /\ Len(array) = Before(list, Separators, i + 1)
      /\ lastElement = Start(list, Separators, Len(array) + 1)
  BY <1>1, Zenon DEF Cutting
<1>5. \A k \in DOMAIN array : array[k] = Start(list, Separators, k)
  BY <1>4, Zenon DEF Elements
<1> QED BY <1>1, <1>2, <1>3, <1>4, <1>5, Zenon

LEMMA StepInElement ==
  ASSUME LInv, InElement
  PROVE  LInv'
<1> DEFINE n == i + 1
<1> HIDE DEF n
<1>1. /\ pc = "cut" /\ pc' = pc /\ i < Len(list) /\ list[n] \notin {"\n", "nul"} /\ i' = n
      /\ names' = names /\ listLen' = listLen /\ list' = list /\ num' = num
      /\ array' = array /\ lastElement' = lastElement
  BY Zenon DEF InElement, Running, n
<1>2. /\ ListType /\ Joined /\ Elements
      /\ list \in Seq(ListChars) /\ Len(list) \in Nat /\ DOMAIN list = 1 .. Len(list)
      /\ i \in Nat /\ i <= Len(list)
      /\ \A m \in 1 .. Len(list) : list[m] # " " /\ (m <= i => list[m] # "\n")
      /\ num = Len(names) /\ num <= MaxExtensions
      /\ Len(array) = Before(list, Separators, n)
      /\ lastElement = Start(list, Separators, Len(array) + 1)
  BY <1>1, CuttingFacts, Zenon DEF n
<1>3. n \in 1 .. Len(list) /\ n \in Nat \ {0} /\ n <= Len(list)
  <2>1. i \in Nat /\ Len(list) \in Nat
    BY <1>2, Zenon
  <2>2. i < Len(list)
    BY <1>1, Zenon
  <2> QED BY <2>1, <2>2 DEF n
<1>4. list[n] \notin Separators
  BY <1>1, <1>2, <1>3 DEF Separators
<1>5. Before(list, Separators, n + 1) = Len(array)
  <2>1. /\ Before(list, Separators, n) \in Nat
        /\ Before(list, Separators, n + 1)
             = Before(list, Separators, n) + (IF list[n] \in Separators THEN 1 ELSE 0)
    BY <1>3, BeforeList, Zenon
  <2>2. Len(array) = Before(list, Separators, n)
    BY <1>2, Zenon
  <2> QED BY <1>4, <2>1, <2>2
<1>6. ListType'
  <2>1. i' \in Nat
    BY <1>1, <1>3
  <2> QED BY <1>1, <1>2, <2>1, Zenon DEF ListType
<1>7. \A m \in 1 .. Len(list) : m <= n => list[m] # "\n"
  <2> TAKE m \in 1 .. Len(list)
  <2>1. m <= n => m <= i \/ m = n
    <3>1. i \in Nat
      BY <1>2, Zenon
    <3> QED BY <3>1 DEF n
  <2> QED BY <1>1, <1>2, <2>1, Zenon
<1>8. Joined' /\ Elements'
  BY <1>1, <1>2, Zenon DEF Joined, Elements
<1>9. /\ i' <= Len(list')
      /\ \A m \in DOMAIN list' : list'[m] # " " /\ (m <= i' => list'[m] # "\n")
      /\ num' = Len(names') /\ num' <= MaxExtensions
      /\ Len(array') = Before(list', Separators, i' + 1)
      /\ lastElement' = Start(list', Separators, Len(array') + 1)
  BY <1>1, <1>2, <1>3, <1>5, <1>7, Zenon
<1>10. Cutting'
  BY <1>8, <1>9, Zenon DEF Cutting
<1> QED BY <1>1, <1>6, <1>10, OnePhaseNext, Zenon

LEMMA StepCut ==
  ASSUME LInv, Cut
  PROVE  LInv'
<1> DEFINE n == i + 1
           k == Len(array) + 1
<1> HIDE DEF n, k
<1>1. /\ pc = "cut" /\ pc' = pc /\ i < Len(list) /\ list[n] \in {"\n", "nul"} /\ i' = n
      /\ list' = [list EXCEPT ![n] = "nul"]
      /\ array' = Append(array, lastElement) /\ lastElement' = n
      /\ names' = names /\ listLen' = listLen /\ num' = num
  BY Zenon DEF Cut, Running, n
<1>2. /\ ListType /\ Joined
      /\ list \in Seq(ListChars) /\ Len(list) \in Nat /\ i \in Nat /\ i <= Len(list)
      /\ array \in Seq(Nat) /\ Len(array) \in Nat
      /\ num = Len(names) /\ num <= MaxExtensions
      /\ Len(array) = Before(list, Separators, n)
  BY <1>1, CuttingFacts, Zenon DEF n
<1>3. /\ \A m \in 1 .. Len(list) : list[m] # " " /\ (m <= i => list[m] # "\n")
      /\ \A j \in 1 .. Len(array) : array[j] = Start(list, Separators, j)
      /\ lastElement = Start(list, Separators, k)
  BY <1>1, CuttingFacts, Zenon DEF k
<1>4. /\ n \in 1 .. Len(list) /\ n \in Nat \ {0} /\ n <= Len(list) /\ n + 1 \in 1 .. Len(list) + 1
      /\ n \in 1 .. Len(list) + 1
      /\ k \in Nat \ {0} /\ k + 1 # 1 /\ (k + 1) - 1 = k
  <2>1. i < Len(list)
    BY <1>1, Zenon
  <2> QED BY <1>2, <2>1 DEF n, k
<1>5. list[n] \in Separators /\ "nul" \in Separators /\ "nul" \in ListChars
  BY <1>1 DEF Separators, ListChars
<1>6. /\ list' \in Seq(ListChars) /\ Len(list') = Len(list)
      /\ list'[n] = "nul" /\ \A m \in 1 .. Len(list) : m # n => list'[m] = list[m]
      /\ Joined'
      /\ \A m \in 1 .. Len(list) + 1 : Before(list', Separators, m) = Before(list, Separators, m)
      /\ FieldNum(list', Separators) = FieldNum(list, Separators)
      /\ \A j \in 1 .. FieldNum(list, Separators) :
           Start(list', Separators, j) = Start(list, Separators, j)
  <2>1. /\ list[n] \in Separators <=> "nul" \in Separators
        /\ list[n] \notin Separators => "nul" = list[n]
    BY <1>5
  <2> QED BY <1>1, <1>2, <1>4, <1>5, <2>1, Replaced
(* The element that ends here.                                             *)
<1>7. /\ k \in 1 .. FieldNum(list, Separators) /\ k < FieldNum(list, Separators)
      /\ End(list', Separators, k) = n
  <2>1. k = Before(list, Separators, n) + 1
    BY <1>2 DEF k
  <2>2. k \in 1 .. FieldNum(list, Separators) /\ k < FieldNum(list, Separators)
    BY <1>2, <1>4, <1>5, <2>1, Place
  <2>3. k = Before(list', Separators, n) + 1 /\ n <= Len(list') /\ n \in 1 .. Len(list') + 1
        /\ list'[n] \in Separators
    BY <1>4, <1>5, <1>6, <2>1, Zenon
  <2>4. End(list', Separators, k) = n
    <3>1. list' \in Seq(ListChars)
      BY <1>6, Zenon
    <3> QED BY <2>3, <3>1, Place
  <2> QED BY <2>2, <2>4
<1>8. /\ array' \in Seq(Nat) /\ Len(array') = k /\ DOMAIN array' = 1 .. k
      /\ array'[k] = lastElement /\ \A j \in 1 .. Len(array) : array'[j] = array[j]
  <2>1. lastElement \in Nat
    BY <1>2, Zenon DEF ListType
  <2>2. array' = Append(array, lastElement)
    BY <1>1, Zenon
  <2> QED BY <1>2, <2>1, <2>2 DEF k
<1>9. Elements'
  <2>1. \A j \in 1 .. k : array'[j] = Start(list', Separators, j)
    <3> TAKE j \in 1 .. k
    <3>1. j \in 1 .. FieldNum(list, Separators) /\ (j = k \/ j \in 1 .. Len(array))
      <4>1. FieldNum(list, Separators) \in Nat
        BY <1>2, FieldNumType
      <4> QED BY <1>2, <1>7, <4>1 DEF k
    <3> QED BY <1>3, <1>6, <1>8, <3>1, Zenon
  <2> QED BY <1>8, <2>1, Zenon DEF Elements
<1>10. Before(list', Separators, n + 1) = k
  <2>1. /\ Before(list, Separators, n) \in Nat
        /\ Before(list, Separators, n + 1)
             = Before(list, Separators, n) + (IF list[n] \in Separators THEN 1 ELSE 0)
    BY <1>4, BeforeList, Zenon
  <2>2. Before(list, Separators, n + 1) = k
    BY <1>2, <1>5, <2>1 DEF k
  <2> QED BY <1>4, <1>6, <2>2, Zenon
<1>11. Start(list', Separators, k + 1) = n
  BY <1>4, <1>7 DEF Start
<1>12. ListType'
  <2>1. i' \in Nat /\ lastElement' \in Nat
    BY <1>1, <1>4, Zenon
  <2> QED BY <1>1, <1>2, <1>6, <1>8, <2>1, Zenon DEF ListType
<1>13. \A m \in DOMAIN list' : list'[m] # " " /\ (m <= i' => list'[m] # "\n")
  <2>1. DOMAIN list' = 1 .. Len(list)
    BY <1>6
  <2>2. "nul" # " " /\ "nul" # "\n"
    OBVIOUS
  <2>3. \A m \in 1 .. Len(list) : m <= n => m <= i \/ m = n
    BY <1>2 DEF n
  <2>4. \A m \in 1 .. Len(list) : m = n \/ m # n
    OBVIOUS
  <2> QED BY <1>1, <1>3, <1>6, <2>1, <2>2, <2>3, <2>4, Zenon
<1>14. i' <= Len(list') /\ num' = Len(names') /\ num' <= MaxExtensions
  BY <1>1, <1>2, <1>4, <1>6, Zenon
<1>15. /\ Len(array') = Before(list', Separators, i' + 1)
       /\ lastElement' = Start(list', Separators, Len(array') + 1)
  BY <1>1, <1>8, <1>10, <1>11, Zenon
<1>16. Cutting'
  BY <1>6, <1>9, <1>13, <1>14, <1>15, Zenon DEF Cutting
<1> QED BY <1>1, <1>12, <1>16, OnePhaseNext, Zenon

LEMMA StepSplitReturn ==
  ASSUME LInv, SplitReturn
  PROVE  LInv'
<1>1. /\ pc = "cut" /\ i = Len(list) /\ pc' = "create"
      /\ names' = names /\ listLen' = listLen /\ list' = list /\ i' = i /\ num' = num
      /\ array' = array /\ lastElement' = lastElement
  BY Zenon DEF SplitReturn, Running
<1>2. /\ ListType /\ Joined /\ Elements
      /\ list \in Seq(ListChars) /\ Len(list) \in Nat /\ DOMAIN list = 1 .. Len(list)
      /\ num = Len(names) /\ num <= MaxExtensions
      /\ Len(array) = Before(list, Separators, i + 1)
  BY <1>1, CuttingFacts, Zenon
<1>3. \A m \in 1 .. Len(list) : list[m] # " " /\ (m <= i => list[m] # "\n")
  BY <1>1, CuttingFacts, Zenon
<1>4. Len(array) = num
  BY <1>1, <1>2, JoinedFacts, Zenon
<1>5. ListType'
  BY <1>1, <1>2 DEF ListType
<1>6. ToSet(list') \cap {" ", "\n"} = {}
  <2>1. \A m \in 1 .. Len(list) : m <= i
    BY <1>1, <1>2
  <2>2. \A m \in DOMAIN list : list[m] # " " /\ list[m] # "\n"
    BY <1>2, <1>3, <2>1, Zenon
  <2> QED BY <1>1, <2>2, Zenon DEF ToSet
<1>7. ~(Len(names) > MaxExtensions)
  <2>1. num \in Nat /\ MaxExtensions \in Nat
    BY <1>2, MaxExtensionsAssumption DEF ListType
  <2> QED BY <1>2, <2>1
<1>8. Joined' /\ Elements' /\ num' = Len(names') /\ Len(array') = num'
      /\ ~(Len(names') > MaxExtensions)
  BY <1>1, <1>2, <1>4, <1>7, Zenon DEF Joined, Elements
<1>9. Creating'
  BY <1>6, <1>8, Zenon DEF Creating
<1> QED BY <1>1, <1>5, <1>9, OnePhaseNext, Zenon

LEMMA StepCreateInstance ==
  ASSUME LInv, CreateInstance
  PROVE  LInv'
<1>1. ListType' /\ pc' = "idle"
  BY DEF CreateInstance, ListType
<1>2. pc' \in {"idle", "undefined"}
  BY <1>1
<1> QED BY <1>1, <1>2, OnePhaseNext, Zenon

LEMMA StepGetNoNames ==
  ASSUME LInv, GetNoNames
  PROVE  LInv'
<1>1. ListType' /\ pc' \in {"idle", "undefined"}
  BY DEF GetNoNames, LInv, ListType
<1> QED BY <1>1, OnePhaseNext, Zenon

(* log_at returns before the list is touched again.                        *)
LEMMA StepLogging ==
  ASSUME LInv, LogStep, UNCHANGED <<pc, names, listLen, list, i, num, array, lastElement>>
  PROVE  LInv'
<1>1. /\ ListType /\ Measuring /\ Joining /\ Counting /\ Counted /\ Cutting /\ Creating
      /\ pc' = pc /\ names' = names /\ listLen' = listLen /\ list' = list /\ i' = i /\ num' = num
      /\ array' = array /\ lastElement' = lastElement
  BY DEF LInv
<1>2. logging' = "none" \/ (logging # "none" /\ text' = text)
  <2>1. CASE LogLeave
    BY <2>1, Zenon DEF LogLeave
  <2>2. CASE ~LogLeave
    BY <2>2 DEF LogStep, ReadPastBuffer, InLine, PrintLine, WritePastLine, LogReturn,
                AtLineEnd, Turn, Undefined
  <2> QED BY <2>1, <2>2
<1>3. ListType'
  BY <1>1, Zenon DEF ListType
<1>4. Measuring' /\ Joining'
  BY <1>1, Zenon DEF Measuring, Joining
<1>5. Counting' /\ Cutting' /\ Creating'
  BY <1>1, Zenon DEF Counting, Cutting, Creating, Joined, EndsInNul, Elements
<1>6. Counted'
  BY <1>1, <1>2, Zenon DEF Counted, Joined, EndsInNul
<1> QED BY <1>3, <1>4, <1>5, <1>6, Zenon DEF LInv

---------------------------------------------------------------------------
(* The theorems.                                                           *)

LEMMA InitText == Init => TextInv
<1> SUFFICES ASSUME Init
             PROVE  LInv /\ LogOk
  BY TextInvParts
<1>1. ListType /\ pc = "idle"
  BY DEF Init, ListType
<1>2. LInv
  <2>1. pc \in {"idle", "undefined"}
    BY <1>1
  <2> QED BY <1>1, <2>1, OnePhase, Zenon
<1>3. LogType /\ logging = "none"
  BY DEF Init, LogInit, LogType
<1>4. Printing
  BY <1>3 DEF Printing
<1>5. LogPrints
  BY <1>3, <1>4, PrintingLogs
<1> QED BY <1>2, <1>3, <1>4, <1>5, Zenon DEF LogOk

LEMMA StepText == TextInv /\ [Next]_vars => TextInv'
<1> SUFFICES ASSUME LInv, LogOk, TypeOK, [Next]_vars
             PROVE  LInv' /\ LogOk'
  <2>1. TextInv' <=> LInv' /\ LogOk'
    BY TextInvParts, PTL
  <2>2. TextInv => TypeOK
    BY Zenon DEF TextInv
  <2> QED BY <2>1, <2>2, TextInvParts, Zenon
<1>1. ASSUME NEW t \in Texts, Log(t)
      PROVE  LInv' /\ LogOk'
  <2>1. t \in Seq(LogChars)
    <3>1. Letters \cup {"\n"} \subseteq LogChars
      BY DEF LogChars
    <3>2. t \in Seq(Letters \cup {"\n"})
      BY TextsAssumption, Zenon
    <3> QED BY <3>1, <3>2, SeqFacts, Zenon
  <2>2. LogOk'
    BY <1>1, <2>1, StepLogAt, Zenon DEF Log, LogOk
  <2>3. /\ pc = "idle" /\ pc' = pc /\ names' = names /\ listLen' = listLen /\ list' = list
        /\ i' = i /\ num' = num /\ array' = array /\ lastElement' = lastElement
    BY <1>1 DEF Log, Running
  <2>4. ListType'
    BY <2>3, Zenon DEF LInv, ListType
  <2>5. pc' \in {"idle", "undefined"}
    BY <2>3
  <2> QED BY <2>2, <2>4, <2>5, OnePhaseNext, Zenon
<1>2. ASSUME LogStep, UNCHANGED <<pc, names, listLen, list, i, num, array, lastElement>>
      PROVE  LInv' /\ LogOk'
  BY <1>2, StepLogging, StepLog, Zenon DEF LogOk
<1>3. ASSUME NEW ns \in NameLists, GetNames(ns)
      PROVE  LInv' /\ LogOk'
  BY <1>3, StepGetNames, LogOkSame, Zenon DEF GetNames
<1>4. CASE Measure
  BY <1>4, StepMeasure, LogOkSame, Zenon DEF Measure
<1>5. CASE Allocate
  BY <1>5, StepAllocate, LogOkSame, Zenon DEF Allocate
<1>6. CASE Join
  BY <1>6, StepJoin, LogOkSame, Zenon DEF Join
<1>7. CASE EndList
  BY <1>7, StepEndList, LogOkSame, Zenon DEF EndList
<1>8. CASE Count
  BY <1>8, StepCount, LogOkSame, Zenon DEF Count
<1>9. CASE LogList
  BY <1>9, StepLogList
<1>10. CASE TestNum
  BY <1>10, StepTestNum, LogOkSame, Zenon DEF TestNum
<1>11. CASE InElement
  BY <1>11, StepInElement, LogOkSame, Zenon DEF InElement
<1>12. CASE Cut
  BY <1>12, StepCut, LogOkSame, Zenon DEF Cut
<1>13. CASE SplitReturn
  BY <1>13, StepSplitReturn, LogOkSame, Zenon DEF SplitReturn
<1>14. CASE CreateInstance
  BY <1>14, StepCreateInstance, LogOkSame, Zenon DEF CreateInstance
<1>15. CASE UNCHANGED vars
  <2>1. /\ pc' = pc /\ names' = names /\ listLen' = listLen /\ list' = list /\ i' = i
        /\ num' = num /\ array' = array /\ lastElement' = lastElement /\ UNCHANGED logVars
    BY <1>15, Zenon DEF vars
  <2>2. text' = text /\ logging' = logging
    BY <2>1 DEF logVars
  <2>3. ListType'
    BY <2>1, Zenon DEF LInv, ListType
  <2>4. Measuring' /\ Joining' /\ Counting' /\ Cutting' /\ Creating'
    BY <2>1, Zenon DEF LInv, Measuring, Joining, Counting, Cutting, Creating, Joined,
                       EndsInNul, Elements
  <2>5. Counted'
    BY <2>1, <2>2, Zenon DEF LInv, Counted, Joined, EndsInNul
  <2> QED BY <2>1, <2>3, <2>4, <2>5, LogOkSame, Zenon DEF LInv
<1>16. CASE Lost
  BY <1>15, <1>16, Zenon DEF Lost
<1>17. CASE GetNoNames
  BY <1>17, StepGetNoNames, LogOkSame, Zenon DEF GetNoNames
<1> QED BY <1>1, <1>2, <1>3, <1>4, <1>5, <1>6, <1>7, <1>8, <1>9, <1>10, <1>11, <1>12, <1>13,
           <1>14, <1>15, <1>16, <1>17, Zenon DEF Next

(* For any sizes of log_at's buffers, any texts and any names, the loops   *)
(* of log_at, get_instance_extensions and split_list keep their counters   *)
(* and offsets where the lines and the names are.                          *)
THEOREM TextInvariant == Spec => []TextInv
<1>1. Init => TextInv
  BY InitText
<1>2. TextInv /\ [Next]_vars => TextInv'
  BY StepText
<1> QED BY <1>1, <1>2, PTL DEF Spec

(* log_at prints exactly the lines of every text that fits its two         *)
(* buffers, and does not leave the buffers while it does.                  *)
THEOREM LinesAreLogged == Spec => []LogPrints
<1>1. TextInv => LogPrints
  BY Zenon DEF TextInv
<1> QED BY <1>1, TextInvariant, PTL

LEMMA ListInBounds == TextInv => StaysInBounds
<1> SUFFICES ASSUME LInv
             PROVE  StaysInBounds
  BY TextInvParts
<1>1. ASSUME pc = "join"
      PROVE  Len(list) + 1 <= listLen
  <2> DEFINE K == Len(names)
  <2>1. /\ names \in NameLists /\ i <= K
        /\ listLen = K + Characters(names, K)
        /\ Len(list) = Characters(names, i) + (IF i < K THEN i ELSE i - 1)
    BY <1>1, Zenon DEF LInv, Joining
  <2>2. i \in Nat
    BY Zenon DEF LInv, ListType
  <2>3. names \in Seq(Seq(Letters)) /\ K \in Nat
    BY <2>1, NamesFacts
  <2>4. i \in 0 .. K /\ K \in 0 .. K
    BY <2>1, <2>2, <2>3
  <2>5. /\ Characters(names, i) \in Nat /\ Characters(names, K) \in Nat
        /\ Characters(names, i) <= Characters(names, K)
    BY <2>3, <2>4, CharactersGrow, Zenon
  <2> QED BY <2>1, <2>2, <2>3, <2>5
<1>2. ASSUME pc = "count"
      PROVE  Len(list) <= listLen
  BY <1>2, Zenon DEF LInv, Counting
<1>3. ASSUME pc = "cut"
      PROVE  Len(array) <= num /\ num <= MaxExtensions
  <2>1. /\ ListType /\ Joined /\ Len(list) \in Nat /\ i \in Nat /\ i <= Len(list)
        /\ num = Len(names) /\ num <= MaxExtensions
        /\ Len(array) = Before(list, Separators, i + 1)
    BY <1>3, CuttingFacts, Zenon
  <2>2. i + 1 \in Nat \ {0} /\ Len(list) + 1 \in Nat \ {0} /\ i + 1 <= Len(list) + 1
    BY <2>1
  <2>3. Before(list, Separators, i + 1) <= Before(list, Separators, Len(list) + 1)
    BY <2>2, BeforeOrder, Zenon
  <2>4. Before(list, Separators, Len(list) + 1) = Len(names)
    BY <2>1, JoinedFacts, Zenon
  <2> QED BY <2>1, <2>3, <2>4, Zenon
<1> QED BY <1>1, <1>2, <1>3, Zenon DEF StaysInBounds

(* What get_instance_extensions allocates holds the joined list for any    *)
(* number of names of any length, and split_list never writes behind its   *)
(* array.                                                                  *)
THEOREM NothingOverflows == Spec => []StaysInBounds
BY TextInvariant, ListInBounds, PTL

LEMMA NamesArrive == TextInv => ExtensionsArrive
<1> SUFFICES ASSUME LInv, pc = "create"
             PROVE  IF Len(names) > MaxExtensions THEN num = 0
                    ELSE num = Len(names) /\ \A k \in 1 .. num : StringAt(array[k]) = names[k]
  BY TextInvParts, Zenon DEF ExtensionsArrive
<1>1. /\ ListType /\ Joined
      /\ IF Len(names) > MaxExtensions THEN num = 0
         ELSE /\ ToSet(list) \cap {" ", "\n"} = {}
              /\ num = Len(names)
              /\ Elements
              /\ Len(array) = num
  BY Zenon DEF LInv, Creating
<1>2. CASE Len(names) > MaxExtensions
  BY <1>1, <1>2, Zenon
<1>3. CASE ~(Len(names) > MaxExtensions)
  <2>1. ToSet(list) \cap {" ", "\n"} = {} /\ num = Len(names) /\ Elements /\ Len(array) = num
    BY <1>1, <1>3, Zenon
  <2>2. list \in Seq(ListChars) /\ array \in Seq(Nat)
    BY <1>1, Zenon DEF ListType
  <2>3. /\ Len(list) \in Nat /\ DOMAIN list = 1 .. Len(list) /\ DOMAIN array = 1 .. Len(array)
    BY <2>2
  <2>4. \A m \in 1 .. Len(list) : list[m] \in Separators => list[m] = "nul"
    <3>1. \A m \in 1 .. Len(list) : list[m] # " " /\ list[m] # "\n"
      BY <2>1, <2>3, Zenon DEF ToSet
    <3> QED BY <3>1, Zenon DEF Separators
  <2>5. ASSUME NEW k \in 1 .. num
        PROVE  StringAt(array[k]) = names[k]
    <3> DEFINE s == Start(list, Separators, k)
               e == End(list, Separators, k)
    <3>1. array[k] = s
      BY <2>1, <2>3, Zenon DEF Elements
    <3>2. /\ FieldNum(list, Separators) = Len(names) + 1 /\ Len(names) \in Nat
          /\ Field(list, Separators, k) = names[k]
      BY <1>1, <2>1, JoinedFacts
    <3>3. k \in 1 .. FieldNum(list, Separators) /\ k < FieldNum(list, Separators)
      <4>1. num = Len(names)
        BY <2>1, Zenon
      <4>2. Len(names) \in Nat /\ FieldNum(list, Separators) = Len(names) + 1
        BY <3>2, Zenon
      <4> QED BY <4>1, <4>2
    <3>4. /\ s \in 0 .. Len(list) /\ e \in 1 .. Len(list) + 1 /\ s < e
          /\ \A m \in s + 1 .. e - 1 : list[m] \notin Separators
          /\ e <= Len(list) /\ list[e] \in Separators
      BY <2>2, <3>3, FieldFacts
    <3>5. names[k] = SubSeq(list, s + 1, e - 1)
      BY <3>2 DEF Field
    <3> HIDE DEF s, e
    <3>6. /\ s \in Nat /\ e \in 1 .. Len(list) /\ s <= e - 1 /\ (e - 1) + 1 = e
          /\ e - 1 \in s .. Len(list)
      BY <2>3, <3>4
    <3> DEFINE P(n) == list[n + 1] = "nul" /\ \A m \in s .. n - 1 : list[m + 1] # "nul"
    <3>7. list[e] = "nul" /\ \A m \in s + 1 .. e - 1 : list[m] # "nul"
      <4>1. "nul" \in Separators
        BY DEF Separators
      <4> QED BY <2>4, <3>4, <3>6, <4>1, Zenon
    <3>8. P(e - 1)
      <4>1. \A m \in s .. (e - 1) - 1 : m + 1 \in s + 1 .. e - 1
        BY <3>6
      <4> QED BY <3>6, <3>7, <4>1, Zenon
    <3>9. \A n \in s .. Len(list) : P(n) => n = e - 1
      <4> SUFFICES ASSUME NEW n \in s .. Len(list), P(n)
                   PROVE  n = e - 1
        BY Zenon
      <4>1. ~(n < e - 1)
        <5>1. n < e - 1 => n + 1 \in s + 1 .. e - 1
          BY <2>3, <3>6
        <5> QED BY <3>7, <5>1, Zenon
      <4>2. ~(e - 1 < n)
        <5>1. e - 1 < n => e - 1 \in s .. n - 1
          BY <2>3, <3>6
        <5> QED BY <3>6, <3>7, <5>1, Zenon
      <4> HIDE DEF P
      <4> QED BY <2>3, <3>6, <4>1, <4>2
    <3>10. (CHOOSE n \in s .. Len(list) : P(n)) = e - 1
      <4> HIDE DEF P
      <4> QED BY <3>6, <3>8, <3>9, Zenon
    <3>11. StringAt(s) = SubSeq(list, s + 1, e - 1)
      BY <3>10, Zenon DEF StringAt
    <3> QED BY <3>1, <3>5, <3>11, Zenon
  <2> QED BY <1>3, <2>1, <2>5, Zenon
<1> QED BY <1>2, <1>3

(* vkCreateInstance is given exactly the names that SDL asked for, for any *)
(* names and any number of them that fits the array, and else none.        *)
THEOREM ExtensionsAreAskedFor == Spec => []ExtensionsArrive
BY TextInvariant, NamesArrive, PTL

LEMMA NamesLogged == TextInv => ListLogged
<1> SUFFICES ASSUME LInv, LogOk, pc = "log", logging = "done"
             PROVE  printed = <<<<"#">>>> \o names
  BY TextInvParts, Zenon DEF ListLogged
<1> DEFINE C == ListChars \cup LogChars
           others == {"\n"}
<1> HIDE DEF C, others
<1>1. ListType /\ Joined /\ EndsInNul /\ " " \notin ToSet(list) /\ text = Logged
  <2>1. logging # "none"
    OBVIOUS
  <2> QED BY <2>1, Zenon DEF LInv, Counted, Logged
<1>2. list \in Seq(ListChars) /\ DOMAIN list = 1 .. Len(list)
  <2>1. list \in Seq(ListChars)
    BY <1>1, Zenon DEF ListType
  <2> QED BY <2>1
<1>3. \A m \in 1 .. Len(list) : list[m] # " "
  BY <1>1, <1>2, Zenon DEF ToSet
<1>4. /\ Logged \in Seq(LogChars) /\ Len(Logged) = Len(list) + 1
      /\ Logged[1] = "#" /\ Logged[2] = "\n"
      /\ \A m \in 1 .. Len(list) - 1 : Logged[m + 2] = list[m]
  BY <1>1, <1>3, LoggedFacts, Zenon
<1>5. /\ Len(list) \in Nat \ {0} /\ list[Len(list)] \in Separators
      /\ names \in Seq(Seq(ListChars)) /\ Fields(list, Separators) = Append(names, <<>>)
  BY <1>1, JoinedFacts, Zenon DEF Joined
<1>6. list \in Seq(C) /\ Logged \in Seq(C) /\ names \in Seq(Seq(C))
  <2>1. ListChars \subseteq C /\ LogChars \subseteq C
    BY DEF C
  <2>2. list \in Seq(C) /\ Logged \in Seq(C)
    BY <1>2, <1>4, <2>1, SeqFacts, Zenon
  <2>3. Seq(ListChars) \subseteq Seq(C)
    BY <2>1, SeqFacts, Zenon
  <2> QED BY <1>5, <2>2, <2>3, SeqFacts, Zenon
<1>7. \A m \in 1 .. Len(list) - 1 :
        list[m] = Logged[m + 2] /\ (list[m] \in Separators <=> Logged[m + 2] \in others)
  <2> TAKE m \in 1 .. Len(list) - 1
  <2>1. m \in 1 .. Len(list) /\ m # Len(list)
    BY <1>5
  <2>2. list[m] # "nul" /\ list[m] # " "
    BY <1>1, <1>2, <1>3, <2>1, Zenon DEF EndsInNul
  <2>3. list[m] \in Separators <=> list[m] = "\n"
    BY <2>2, Zenon DEF Separators
  <2> QED BY <1>4, <2>3, Zenon DEF others
<1>8. Logged[1] \notin others /\ Logged[2] \in others
  <2>1. "#" # "\n"
    OBVIOUS
  <2> QED BY <1>4, <2>1, Zenon DEF others
<1>9. Len(list) > 0
  BY <1>5
<1>10. Fronted(Fields(Logged, others), SubSeq(Logged, 1, 1), names)
  <2> HIDE DEF C, others
  <2>1. Prepended(C, list, Logged, Separators, others, names)
    BY <1>4, <1>6, <1>5, <1>7, <1>8, <1>9, Zenon DEF Prepended
  <2> QED BY <2>1, FieldsPrepend, Zenon
<1>11. SubSeq(Logged, 1, 1) = <<"#">>
  <2>1. Len(list) \in Nat /\ Len(Logged) = Len(list) + 1
    BY <1>4, <1>5, Zenon
  <2>2. Len(Logged) > 0
    BY <2>1
  <2> QED BY <1>4, <1>6, <2>2, FirstOf, Zenon
<1>12. printed = Fields(Logged, others)
  BY <1>1, Zenon DEF LogOk, LogPrints, Lines, others
<1>13. Fronted(printed, <<"#">>, names)
  BY <1>10, <1>11, <1>12, Zenon
<1> QED BY <1>13, Zenon DEF Fronted

(* The log shows each extension on a line of its own, for any names: what  *)
(* split_list logs has no space and no NUL left in it.                     *)
THEOREM ExtensionsAreLogged == Spec => []ListLogged
BY TextInvariant, NamesLogged, PTL

---------------------------------------------------------------------------
(* The loops come to their ends: the phases of the list, the turns of the  *)
(* loop that runs, and the turns of log_at in between.                     *)

(* How many of the loops are still to come.                                *)
Phase ==
  CASE pc = "measure" -> 6
    [] pc = "join"    -> 5
    [] pc = "count"   -> 4
    [] pc = "log"     -> 3
    [] pc = "cut"     -> 2
    [] pc = "create"  -> 1
    [] pc \in {"idle", "undefined"} -> 0

TurnsLeft ==
  IF pc \in {"measure", "join"} THEN Len(names) - i
  ELSE IF pc \in {"count", "cut"} THEN Len(list) - i ELSE 0

LogLeft ==
  CASE Turn -> Len(text) + 3 - idx
    [] logging = "loop" /\ ~Turn -> 2
    [] logging = "done" -> 1
    [] OTHER -> 0

Nearer ==
  \/ Phase' < Phase
  \/ Phase' = Phase /\ 0 <= TurnsLeft' /\ TurnsLeft' < TurnsLeft
  \/ Phase' = Phase /\ TurnsLeft' = TurnsLeft /\ 0 <= LogLeft' /\ LogLeft' < LogLeft

(* Until create_instance has returned, or log_at when it was called alone, *)
(* each step leaves less to do.                                            *)
LoopsEnd == [][~Running("idle") => Nearer]_vars

LEMMA LogNears ==
  ASSUME TypeOK, LogStep, UNCHANGED <<pc, names, listLen, list, i, num, array, lastElement>>
  PROVE  Nearer
<1>1. /\ idx \in Nat /\ text \in Seq(LogChars)
      /\ UNCHANGED <<pc, names, list, i>>
  BY DEF TypeOK
<1>2. Len(text) \in Nat
  BY <1>1, LenProperties
<1>3. Phase' = Phase /\ TurnsLeft' = TurnsLeft
  BY <1>1 DEF Phase, TurnsLeft
<1>4. 0 <= LogLeft' /\ LogLeft' < LogLeft
  <2>0. Turn => LogLeft = Len(text) + 3 - idx /\ idx <= Len(text)
    BY DEF LogLeft, Turn
  <2>1. CASE ReadPastBuffer \/ WritePastLine
    <3>1. Turn /\ logging' = "undefined"
      BY <2>1 DEF ReadPastBuffer, WritePastLine, AtLineEnd, Undefined
    <3>2. LogLeft' = 0
      BY <3>1 DEF LogLeft, Turn
    <3> QED BY <1>1, <1>2, <2>0, <3>1, <3>2
  <2>2. CASE InLine \/ PrintLine
    <3>1. Turn /\ logging' = "loop" /\ idx' = idx + 1 /\ text' = text
      BY <2>2 DEF InLine, PrintLine, AtLineEnd, Turn
    <3>2. CASE idx + 1 <= Len(text)
      <4>1. LogLeft' = Len(text) + 3 - (idx + 1)
        BY <3>1, <3>2 DEF LogLeft, Turn
      <4> QED BY <1>1, <1>2, <2>0, <3>1, <3>2, <4>1
    <3>3. CASE ~(idx + 1 <= Len(text))
      <4>1. LogLeft' = 2
        BY <3>1, <3>3 DEF LogLeft, Turn
      <4> QED BY <1>1, <1>2, <2>0, <3>1, <4>1
    <3> QED BY <3>2, <3>3
  <2>3. CASE LogReturn
    <3>1. ~(idx <= Len(text)) /\ logging = "loop" /\ logging' = "done"
      BY <1>1, <1>2, <2>3 DEF LogReturn
    <3>2. LogLeft = 2 /\ LogLeft' = 1
      BY <3>1 DEF LogLeft, Turn
    <3> QED BY <3>2
  <2>4. CASE LogLeave
    <3>1. LogLeft = 1 /\ LogLeft' = 0
      BY <2>4 DEF LogLeave, LogLeft, Turn
    <3> QED BY <3>1
  <2> QED BY <2>1, <2>2, <2>3, <2>4 DEF LogStep
<1> QED BY <1>3, <1>4 DEF Nearer

(* A turn of a loop over the names or the list.                            *)
LEMMA TurnNears ==
  ASSUME TypeOK, Measure \/ Join \/ Count \/ InElement \/ Cut
  PROVE  Nearer
<1>1. /\ i \in Nat /\ names \in Seq(Seq(Letters))
      /\ list \in Seq(Letters \cup {" ", "\n", "nul"})
  BY DEF TypeOK
<1>2. Len(names) \in Nat /\ Len(list) \in Nat
  BY <1>1, LenProperties
<1>0. i \in Nat
  BY <1>1
<1>3. pc' = pc /\ i' = i + 1 /\ names' = names
  BY DEF Measure, Join, Count, InElement, Cut, Running
<1>4. Phase' = Phase
  BY <1>3 DEF Phase
<1>5. CASE Measure \/ Join
  <2>1. pc \in {"measure", "join"} /\ i < Len(names)
    BY <1>5 DEF Measure, Join, Running
  <2>2. TurnsLeft = Len(names) - i /\ TurnsLeft' = Len(names) - (i + 1)
    BY <1>3, <2>1 DEF TurnsLeft
  <2>3. 0 <= TurnsLeft' /\ TurnsLeft' < TurnsLeft
    BY <1>0, <1>2, <2>1, <2>2
  <2> QED BY <1>4, <2>3 DEF Nearer
<1>6. CASE Count \/ InElement \/ Cut
  <2>1. pc \in {"count", "cut"} /\ i < Len(list)
    BY <1>6 DEF Count, InElement, Cut, Running
  <2>2. Len(list') = Len(list)
    <3>1. \/ list' = list
          \/ \E c : list' = [list EXCEPT ![i + 1] = c]
      BY <1>6 DEF Count, InElement, Cut
    <3>2. ASSUME NEW c PROVE Len([list EXCEPT ![i + 1] = c]) = Len(list)
      <4> DEFINE r == [list EXCEPT ![i + 1] = c]
      <4>1. DOMAIN r = 1 .. Len(list)
        BY <1>1, LenProperties
      <4> HIDE DEF r
      <4> QED BY <1>2, <4>1
    <3> QED BY <3>1, <3>2
  <2>3. TurnsLeft = Len(list) - i /\ TurnsLeft' = Len(list) - (i + 1)
    BY <1>3, <2>1, <2>2 DEF TurnsLeft
  <2>4. 0 <= TurnsLeft' /\ TurnsLeft' < TurnsLeft
    BY <1>0, <1>2, <2>1, <2>3
  <2> QED BY <1>4, <2>4 DEF Nearer
<1> QED BY <1>5, <1>6

(* The end of a loop, or of the list.                                      *)
LEMMA PhaseNears ==
  ASSUME Allocate \/ EndList \/ LogList \/ TestNum \/ SplitReturn \/ CreateInstance
  PROVE  Nearer
<1>1. \/ pc = "measure" /\ pc' = "join"
      \/ pc = "join" /\ pc' = "count"
      \/ pc = "count" /\ pc' = "log"
      \/ pc = "log" /\ pc' \in {"cut", "create"}
      \/ pc = "cut" /\ pc' = "create"
      \/ pc = "create" /\ pc' = "idle"
  BY DEF Allocate, EndList, LogList, TestNum, SplitReturn, CreateInstance, Running
<1>2. Phase' < Phase
  BY <1>1 DEF Phase
<1> QED BY <1>2 DEF Nearer

(* log_at returns, and so do get_instance_extensions and split_list, for   *)
(* any text and any names: each turn of a loop leaves less to do.          *)
THEOREM LoopsComeToEnd == Spec => LoopsEnd
<1> DEFINE A == ~Running("idle") => Nearer
<1>1. TypeOK /\ [Next]_vars => [A]_vars
  <2> SUFFICES ASSUME TypeOK, Next, ~(UNCHANGED vars), ~Running("idle")
               PROVE  Nearer
    OBVIOUS
  <2>1. /\ ~(\E t \in Texts : Log(t)) /\ ~(\E ns \in NameLists : GetNames(ns))
        /\ ~GetNoNames /\ ~Lost
    BY DEF Log, GetNames, GetNoNames, Lost
  <2> QED BY <2>1, LogNears, TurnNears, PhaseNears DEF Next
<1>2. Spec => []TypeOK
  <2>1. TextInv => TypeOK
    BY DEF TextInv
  <2> QED BY <2>1, TextInvariant, PTL
<1>3. Spec => [][A]_vars
  BY <1>1, <1>2, PTL DEF Spec
<1> QED BY <1>3 DEF LoopsEnd
=============================================================================
