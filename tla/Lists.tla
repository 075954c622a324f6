--------------------------------- MODULE Lists ---------------------------------
(***************************************************************************)
(* Facts about sequences that the proofs about graphs share: which         *)
(* elements appending, joining and removing leave, and in which order.     *)
(***************************************************************************)
EXTENDS SequencesExt, Iteration, TLAPS

NoRepeats(q) == \A i, j \in DOMAIN q : q[i] = q[j] => i = j

LEMMA SeqDomain ==
  ASSUME NEW X, NEW q \in Seq(X)
  PROVE  DOMAIN q = 1..Len(q) /\ Len(q) \in Nat /\ \A i \in 1..Len(q) : q[i] \in X
OBVIOUS

LEMMA RangeMember ==
  ASSUME NEW X, NEW q \in Seq(X), NEW x
  PROVE  x \in Range(q) <=> \E i \in 1..Len(q) : q[i] = x
BY SeqDomain DEF Range

LEMMA RangeTyped ==
  ASSUME NEW X, NEW q \in Seq(X)
  PROVE  Range(q) \subseteq X
BY SeqDomain DEF Range

LEMMA EmptyRange ==
  ASSUME NEW X, NEW q \in Seq(X)
  PROVE  (q = <<>>) <=> (Range(q) = {})
<1>1. q = <<>> => Range(q) = {}  BY DEF Range
<1>2. ASSUME Range(q) = {} PROVE q = <<>>
  <2>1. ~ \E i \in 1..Len(q) : TRUE  BY <1>2, SeqDomain DEF Range
  <2>2. Len(q) = 0  BY <2>1, SeqDomain
  <2> QED BY <2>2
<1> QED BY <1>1, <1>2

LEMMA RangeOfAppend ==
  ASSUME NEW X, NEW q \in Seq(X), NEW y \in X
  PROVE  /\ Append(q, y) \in Seq(X)
         /\ \A x : x \in Range(Append(q, y)) <=> x \in Range(q) \/ x = y
         /\ NoRepeats(q) /\ y \notin Range(q) => NoRepeats(Append(q, y))
<1>1. /\ Append(q, y) \in Seq(X) /\ Len(Append(q, y)) = Len(q) + 1
      /\ \A i \in 1..Len(q) : Append(q, y)[i] = q[i]
      /\ Append(q, y)[Len(q) + 1] = y
  OBVIOUS
<1> DEFINE a == Append(q, y)
<1> HIDE DEF a
<1>2. /\ a \in Seq(X) /\ Len(a) = Len(q) + 1
      /\ \A i \in 1..Len(q) : a[i] = q[i]
      /\ a[Len(q) + 1] = y
  BY <1>1 DEF a
<1>3. Len(q) \in Nat  OBVIOUS
<1>4. \A i : i \in 1..Len(a) <=> i \in 1..Len(q) \/ i = Len(q) + 1  BY <1>2, <1>3
<1>5. ASSUME NEW x PROVE x \in Range(a) <=> x \in Range(q) \/ x = y
  <2>1. x \in Range(a) <=> \E i \in 1..Len(a) : a[i] = x  BY <1>2, RangeMember
  <2>2. x \in Range(q) <=> \E i \in 1..Len(q) : q[i] = x  BY RangeMember
  <2>3. \A i \in 1..Len(q) : i \in 1..Len(a)  BY <1>4
  <2>4. Len(q) + 1 \in 1..Len(a)  BY <1>4
  <2>5. x \in Range(a) => x \in Range(q) \/ x = y  BY <1>2, <1>4, <2>1, <2>2
  <2>6. x \in Range(q) => x \in Range(a)  BY <1>2, <2>1, <2>2, <2>3
  <2>7. x = y => x \in Range(a)  BY <1>2, <2>1, <2>4
  <2> QED BY <2>5, <2>6, <2>7
<1>6. NoRepeats(q) /\ y \notin Range(q) => NoRepeats(a)
  <2> SUFFICES ASSUME NoRepeats(q), y \notin Range(q),
                      NEW i \in DOMAIN a, NEW j \in DOMAIN a, a[i] = a[j]
               PROVE  i = j
    BY DEF NoRepeats
  <2>1. DOMAIN a = 1..Len(a) /\ DOMAIN q = 1..Len(q)  BY <1>2
  <2>2. \A k \in 1..Len(q) : q[k] # y  BY <2>1 DEF Range
  <2> QED BY <1>2, <1>4, <2>1, <2>2 DEF NoRepeats
<1> QED BY <1>2, <1>5, <1>6 DEF a
LEMMA ConcatLength ==
  ASSUME NEW X, NEW a \in Seq(X), NEW b \in Seq(X)
  PROVE  Len(a \o b) = Len(a) + Len(b)
OBVIOUS

(* Taking out the only occurrence of an element. *)
LEMMA RemoveAtElements ==
  ASSUME NEW X, NEW q \in Seq(X), NEW i \in 1..Len(q)
  PROVE  /\ RemoveAt(q, i) \in Seq(X)
         /\ Len(RemoveAt(q, i)) = Len(q) - 1
         /\ \A j \in 1..(Len(q) - 1) : RemoveAt(q, i)[j] = IF j < i THEN q[j] ELSE q[j + 1]
<1> DEFINE a == SubSeq(q, 1, i - 1)
           b == SubSeq(q, i + 1, Len(q))
<1>1. Len(q) \in Nat /\ i \in Nat /\ 1 <= i /\ i <= Len(q)  OBVIOUS
<1>2. a \in Seq(X) /\ Len(a) = i - 1 /\ \A j \in 1..(i - 1) : a[j] = q[j]  BY <1>1
<1>3. b \in Seq(X) /\ Len(b) = Len(q) - i /\ \A j \in 1..(Len(q) - i) : b[j] = q[i + j]  BY <1>1
<1>4. RemoveAt(q, i) = a \o b  BY DEF RemoveAt
<1> HIDE DEF a, b
<1>5. /\ a \o b \in Seq(X) /\ Len(a \o b) = Len(q) - 1
      /\ \A j \in 1..(Len(q) - 1) : (a \o b)[j] = IF j <= i - 1 THEN a[j] ELSE b[j - (i - 1)]
  <2>1. a \o b \in Seq(X)  BY <1>2, <1>3
  <2>1a. Len(a \o b) = Len(a) + Len(b)  BY <1>2, <1>3, ConcatLength
  <2>2. Len(a) + Len(b) = Len(q) - 1  BY <1>1, <1>2, <1>3
  <2>3. \A j \in 1..(Len(a) + Len(b)) : (a \o b)[j] = IF j <= Len(a) THEN a[j] ELSE b[j - Len(a)]
    BY <1>2, <1>3
  <2> QED BY <1>2, <2>1, <2>1a, <2>2, <2>3
<1>6. ASSUME NEW j \in 1..(Len(q) - 1) PROVE (a \o b)[j] = IF j < i THEN q[j] ELSE q[j + 1]
  <2>1. CASE j < i
    <3>1. j \in 1..(i - 1) /\ j <= i - 1  BY <1>1, <2>1
    <3> QED BY <1>2, <1>5, <2>1, <3>1
  <2>2. CASE ~(j < i)
    <3>1. ~(j <= i - 1) /\ j - (i - 1) \in 1..(Len(q) - i) /\ i + (j - (i - 1)) = j + 1
      BY <1>1, <2>2
    <3> QED BY <1>3, <1>5, <2>2, <3>1
  <2> QED BY <2>1, <2>2
<1> QED BY <1>4, <1>5, <1>6

LEMMA RemoveFirstElements ==
  ASSUME NEW X, NEW q \in Seq(X), NoRepeats(q), NEW e
  PROVE  /\ RemoveFirst(q, e) \in Seq(X)
         /\ \A x : x \in Range(RemoveFirst(q, e)) <=> x \in Range(q) /\ x # e
         /\ NoRepeats(RemoveFirst(q, e))
<1>1. Len(q) \in Nat /\ DOMAIN q = 1..Len(q)  OBVIOUS
<1>2. CASE ~ \E i \in 1..Len(q) : q[i] = e
  <2>1. RemoveFirst(q, e) = q  BY <1>2 DEF RemoveFirst
  <2>2. e \notin Range(q)  BY <1>1, <1>2 DEF Range
  <2> QED BY <2>1, <2>2
<1>3. CASE \E i \in 1..Len(q) : q[i] = e
  <2> DEFINE I == {i \in 1..Len(q) : q[i] = e}
             i == Min(I)
             r == RemoveFirst(q, e)
  <2>1. I \in SUBSET Nat /\ I # {}  BY <1>1, <1>3
  <2>2. RemoveFirst(q, e) = RemoveAt(q, i)  BY <1>3 DEF RemoveFirst, SelectInSeq
  <2>3. i \in I
    <3> HIDE DEF I
    <3>1. \E x \in I : \A y \in I : x <= y  BY <2>1, LeastElement
    <3> QED BY <3>1 DEF Min
  <2>4. i \in 1..Len(q) /\ q[i] = e  BY <2>3
  <2> HIDE DEF i, I
  <2>5. /\ r \in Seq(X) /\ Len(r) = Len(q) - 1
        /\ \A j \in 1..(Len(q) - 1) : r[j] = IF j < i THEN q[j] ELSE q[j + 1]
    BY <2>2, <2>4, RemoveAtElements
  <2> HIDE DEF r
  <2>6. DOMAIN r = 1..(Len(q) - 1)  BY <2>5
  <2>7. \A j \in 1..Len(q) : q[j] = e => j = i  BY <1>1, <2>4 DEF NoRepeats
  <2>8. ASSUME NEW x, x \in Range(r) PROVE x \in Range(q) /\ x # e
    <3>1. PICK j \in 1..(Len(q) - 1) : r[j] = x  BY <2>6, <2>8 DEF Range
    <3>2. PICK m \in 1..Len(q) : m # i /\ q[m] = x
      <4>1. CASE j < i
        <5>1. j \in 1..Len(q) /\ j # i /\ q[j] = x  BY <1>1, <2>4, <2>5, <3>1, <4>1
        <5> QED BY <5>1
      <4>2. CASE ~(j < i)
        <5>1. j + 1 \in 1..Len(q) /\ j + 1 # i /\ q[j + 1] = x  BY <1>1, <2>4, <2>5, <3>1, <4>2
        <5> QED BY <5>1
      <4> QED BY <4>1, <4>2
    <3> QED BY <1>1, <2>7, <3>2 DEF Range
  <2>9. ASSUME NEW x, x \in Range(q), x # e PROVE x \in Range(r)
    <3>1. PICK m \in 1..Len(q) : q[m] = x  BY <1>1, <2>9 DEF Range
    <3>2. m # i  BY <2>4, <2>9, <3>1
    <3>3. CASE m < i
      <4>1. m \in 1..(Len(q) - 1) /\ r[m] = x  BY <1>1, <2>4, <2>5, <3>1, <3>3
      <4> QED BY <2>6, <4>1 DEF Range
    <3>4. CASE ~(m < i)
      <4>1. m - 1 \in 1..(Len(q) - 1) /\ ~(m - 1 < i) /\ (m - 1) + 1 = m
        BY <1>1, <2>4, <3>2, <3>4
      <4>2. r[m - 1] = x  BY <2>5, <3>1, <4>1
      <4> QED BY <2>6, <4>1, <4>2 DEF Range
    <3> QED BY <3>3, <3>4
  <2>10. NoRepeats(r)
    <3> SUFFICES ASSUME NEW j \in 1..(Len(q) - 1), NEW m \in 1..(Len(q) - 1), r[j] = r[m]
                 PROVE  j = m
      BY <2>6 DEF NoRepeats
    <3> DEFINE at1(z) == IF z < i THEN z ELSE z + 1
    <3>1. r[j] = q[at1(j)] /\ r[m] = q[at1(m)]  BY <2>5
    <3>2. at1(j) \in 1..Len(q) /\ at1(m) \in 1..Len(q)  BY <1>1, <2>4
    <3>3. at1(j) = at1(m)
      <4> HIDE DEF at1
      <4> QED BY <1>1, <3>1, <3>2 DEF NoRepeats
    <3> QED BY <2>4, <3>3
  <2> QED BY <2>5, <2>8, <2>9, <2>10 DEF r
<1> QED BY <1>2, <1>3

LEMMA RangeOfConcat ==
  ASSUME NEW X, NEW a \in Seq(X), NEW b \in Seq(X)
  PROVE  /\ a \o b \in Seq(X)
         /\ \A x : x \in Range(a \o b) <=> x \in Range(a) \/ x \in Range(b)
         /\ NoRepeats(a) /\ NoRepeats(b) /\ Range(a) \cap Range(b) = {} => NoRepeats(a \o b)
<1> DEFINE d == a \o b
<1>1. /\ d \in Seq(X) /\ Len(d) = Len(a) + Len(b)
      /\ \A j \in 1..(Len(a) + Len(b)) : d[j] = IF j <= Len(a) THEN a[j] ELSE b[j - Len(a)]
  BY ConcatLength
<1> HIDE DEF d
<1>2. Len(a) \in Nat /\ Len(b) \in Nat /\ DOMAIN a = 1..Len(a) /\ DOMAIN b = 1..Len(b)  OBVIOUS
<1>3. DOMAIN d = 1..(Len(a) + Len(b))  BY <1>1
<1>4. \A i \in 1..Len(a) : i \in DOMAIN d /\ d[i] = a[i]  BY <1>1, <1>2, <1>3
<1>5. ASSUME NEW i \in 1..Len(b) PROVE Len(a) + i \in DOMAIN d /\ d[Len(a) + i] = b[i]
  <2>1. Len(a) + i \in 1..(Len(a) + Len(b)) /\ ~(Len(a) + i <= Len(a)) /\ (Len(a) + i) - Len(a) = i
    BY <1>2
  <2> QED BY <1>1, <1>3, <2>1
<1>6. ASSUME NEW j \in DOMAIN d
      PROVE  \/ j \in 1..Len(a) /\ d[j] = a[j]
             \/ j - Len(a) \in 1..Len(b) /\ d[j] = b[j - Len(a)] /\ ~(j <= Len(a))
  BY <1>1, <1>2, <1>3
<1>7. ASSUME NEW x PROVE x \in Range(d) <=> x \in Range(a) \/ x \in Range(b)
  <2>1. x \in Range(d) => x \in Range(a) \/ x \in Range(b)  BY <1>2, <1>6 DEF Range
  <2>2. x \in Range(a) => x \in Range(d)  BY <1>2, <1>4 DEF Range
  <2>3. x \in Range(b) => x \in Range(d)  BY <1>2, <1>5 DEF Range
  <2> QED BY <2>1, <2>2, <2>3
<1>8. ASSUME NoRepeats(a), NoRepeats(b), Range(a) \cap Range(b) = {} PROVE NoRepeats(d)
  <2> SUFFICES ASSUME NEW i \in DOMAIN d, NEW j \in DOMAIN d, d[i] = d[j] PROVE i = j
    BY DEF NoRepeats
  <2>1. \A m \in 1..Len(a), n \in 1..Len(b) : a[m] # b[n]  BY <1>2, <1>8 DEF Range
  <2>2. CASE i \in 1..Len(a) /\ d[i] = a[i] /\ j \in 1..Len(a) /\ d[j] = a[j]
    BY <1>2, <1>8, <2>2 DEF NoRepeats
  <2>3. CASE /\ i - Len(a) \in 1..Len(b) /\ d[i] = b[i - Len(a)]
             /\ j - Len(a) \in 1..Len(b) /\ d[j] = b[j - Len(a)]
    <3>1. i - Len(a) = j - Len(a)  BY <1>2, <1>8, <2>3 DEF NoRepeats
    <3>2. i \in Nat /\ j \in Nat  BY <1>2, <1>3
    <3> QED BY <1>2, <3>1, <3>2
  <2> QED BY <1>6, <2>1, <2>2, <2>3
<1> QED BY <1>1, <1>7, <1>8 DEF d

LEMMA RangeOfOne ==
  ASSUME NEW x
  PROVE  Range(<<x>>) = {x} /\ NoRepeats(<<x>>)
<1>1. DOMAIN <<x>> = {1} /\ <<x>>[1] = x  OBVIOUS
<1> QED BY <1>1 DEF Range, NoRepeats

LEMMA RangeOfNone == Range(<<>>) = {} /\ NoRepeats(<<>>)
BY DEF Range, NoRepeats

LEMMA RangeOfTwo ==
  ASSUME NEW x, NEW y
  PROVE  Range(<<x, y>>) = {x, y}
<1>1. DOMAIN <<x, y>> = {1, 2} /\ <<x, y>>[1] = x /\ <<x, y>>[2] = y  OBVIOUS
<1> QED BY <1>1 DEF Range

(* The last element of a list and the others. *)
LEMMA FrontLast ==
  ASSUME NEW X, NEW q \in Seq(X), q # <<>>
  PROVE  /\ Len(q) \in Nat \ {0} /\ Last(q) = q[Len(q)] /\ Last(q) \in X
         /\ Front(q) \in Seq(X) /\ Len(Front(q)) = Len(q) - 1
         /\ \A i \in 1..(Len(q) - 1) : Front(q)[i] = q[i]
<1>1. Len(q) \in Nat \ {0}  OBVIOUS
<1>2. Last(q) = q[Len(q)] /\ q[Len(q)] \in X  BY <1>1 DEF Last
<1> DEFINE n == Len(q) - 1
           f == SubSeq(q, 1, n)
<1>3. n \in Nat /\ n <= Len(q)  BY <1>1
<1>4. Front(q) = f  BY DEF Front
<1> HIDE DEF n
<1>5. f \in Seq(X)  BY <1>1, <1>3
<1>6. Len(f) = n  BY <1>1, <1>3
<1>7. \A i \in 1..n : f[i] = q[i]  BY <1>1, <1>3
<1> QED BY <1>1, <1>2, <1>4, <1>5, <1>6, <1>7 DEF n

(* The first element of a list and the others. *)
LEMMA HeadTail ==
  ASSUME NEW X, NEW q \in Seq(X), q # <<>>
  PROVE  /\ Head(q) \in X /\ Tail(q) \in Seq(X) /\ Head(q) = q[1]
         /\ \A x : x \in Range(q) <=> x = Head(q) \/ x \in Range(Tail(q))
         /\ NoRepeats(q) => NoRepeats(Tail(q)) /\ Head(q) \notin Range(Tail(q))
<1> DEFINE t == Tail(q)
<1>1. Len(q) \in Nat \ {0} /\ DOMAIN q = 1..Len(q)  OBVIOUS
<1>2. /\ Head(q) \in X /\ Head(q) = q[1] /\ t \in Seq(X) /\ Len(t) = Len(q) - 1
      /\ \A i \in 1..(Len(q) - 1) : t[i] = q[i + 1]
  OBVIOUS
<1>3. DOMAIN t = 1..(Len(q) - 1)  BY <1>2
<1> HIDE DEF t
<1>4. \A i \in DOMAIN q : i = 1 \/ (i - 1 \in DOMAIN t /\ t[i - 1] = q[i])
  <2> SUFFICES ASSUME NEW i \in DOMAIN q, i # 1 PROVE i - 1 \in DOMAIN t /\ t[i - 1] = q[i]
    OBVIOUS
  <2>1. i - 1 \in 1..(Len(q) - 1) /\ (i - 1) + 1 = i  BY <1>1
  <2> QED BY <1>2, <1>3, <2>1
<1>5. \A i \in DOMAIN t : i + 1 \in DOMAIN q /\ q[i + 1] = t[i] /\ i + 1 # 1  BY <1>1, <1>2, <1>3
<1>6. 1 \in DOMAIN q  BY <1>1
<1>7. ASSUME NEW x PROVE x \in Range(q) <=> x = Head(q) \/ x \in Range(t)
  <2>1. x \in Range(q) => x = Head(q) \/ x \in Range(t)  BY <1>2, <1>4 DEF Range
  <2>2. x = Head(q) => x \in Range(q)  BY <1>2, <1>6 DEF Range
  <2>3. x \in Range(t) => x \in Range(q)  BY <1>5 DEF Range
  <2> QED BY <2>1, <2>2, <2>3
<1>8. ASSUME NoRepeats(q) PROVE NoRepeats(t) /\ Head(q) \notin Range(t)
  <2>1. Head(q) \notin Range(t)  BY <1>2, <1>5, <1>6, <1>8 DEF Range, NoRepeats
  <2>2. NoRepeats(t)
    <3> SUFFICES ASSUME NEW i \in DOMAIN t, NEW j \in DOMAIN t, t[i] = t[j] PROVE i = j
      BY DEF NoRepeats
    <3>1. i + 1 = j + 1  BY <1>5, <1>8 DEF NoRepeats
    <3>2. i \in Nat /\ j \in Nat  BY <1>1, <1>3
    <3> QED BY <3>1, <3>2
  <2> QED BY <2>1, <2>2
<1> QED BY <1>2, <1>7, <1>8 DEF t

(* An element put in front. *)
LEMMA RangeOfCons ==
  ASSUME NEW X, NEW q \in Seq(X), NEW y \in X
  PROVE  /\ <<y>> \o q \in Seq(X)
         /\ \A x : x \in Range(<<y>> \o q) <=> x \in Range(q) \/ x = y
         /\ NoRepeats(q) /\ y \notin Range(q) => NoRepeats(<<y>> \o q)
<1>1. <<y>> \in Seq(X) /\ Range(<<y>>) = {y} /\ NoRepeats(<<y>>)  BY RangeOfOne
<1> DEFINE a == <<y>>
<1> HIDE DEF a
<1>2. a \in Seq(X) /\ Range(a) = {y} /\ NoRepeats(a)  BY <1>1 DEF a
<1>3. /\ a \o q \in Seq(X)
      /\ \A x : x \in Range(a \o q) <=> x \in Range(a) \/ x \in Range(q)
      /\ NoRepeats(a) /\ NoRepeats(q) /\ Range(a) \cap Range(q) = {} => NoRepeats(a \o q)
  BY <1>2, RangeOfConcat
<1> QED BY <1>2, <1>3 DEF a

-----------------------------------------------------------------------------
(* The order of the elements of a list. *)

Before(o, x, y) == \E i, j \in DOMAIN o : i < j /\ o[i] = x /\ o[j] = y

LEMMA BeforeAppended ==
  ASSUME NEW X, NEW o \in Seq(X), NEW z \in X
  PROVE  /\ \A x, y : Before(o, x, y) => Before(Append(o, z), x, y)
         /\ \A x \in Range(o) : Before(Append(o, z), x, z)
         /\ Last(Append(o, z)) = z
<1> DEFINE a == Append(o, z)
<1>1. Len(o) \in Nat /\ DOMAIN o = 1..Len(o)  OBVIOUS
<1>2. /\ a \in Seq(X) /\ DOMAIN a = 1..(Len(o) + 1) /\ Len(a) = Len(o) + 1
      /\ \A i \in 1..Len(o) : a[i] = o[i]
      /\ a[Len(o) + 1] = z
  OBVIOUS
<1> HIDE DEF a
<1>3. \A i \in DOMAIN o : i \in DOMAIN a /\ i < Len(o) + 1  BY <1>1, <1>2
<1>4. Len(o) + 1 \in DOMAIN a  BY <1>1, <1>2
<1>5. \A x, y : Before(o, x, y) => Before(a, x, y)  BY <1>1, <1>2, <1>3 DEF Before
<1>6. ASSUME NEW x \in Range(o) PROVE Before(a, x, z)
  <2>1. PICK i \in DOMAIN o : o[i] = x  BY DEF Range
  <2> QED BY <1>1, <1>2, <1>3, <1>4, <2>1 DEF Before
<1>7. Last(a) = z  BY <1>2 DEF Last
<1> QED BY <1>5, <1>6, <1>7 DEF a

LEMMA BeforeLast ==
  ASSUME NEW X, NEW o \in Seq(X), NEW x \in Range(o), x # Last(o)
  PROVE  Before(o, x, Last(o))
<1>1. Len(o) \in Nat /\ DOMAIN o = 1..Len(o)  OBVIOUS
<1>2. PICK i \in DOMAIN o : o[i] = x  BY DEF Range
<1>3. i # Len(o)  BY <1>2 DEF Last
<1>4. Len(o) \in DOMAIN o /\ i < Len(o)  BY <1>1, <1>2, <1>3
<1> QED BY <1>2, <1>4 DEF Before, Last

(* Where RemoveFirst finds an element. *)
LEMMA RemoveFirstAt ==
  ASSUME NEW X, NEW q \in Seq(X), NEW e \in Range(q)
  PROVE  \E i \in 1..Len(q) : q[i] = e /\ RemoveFirst(q, e) = RemoveAt(q, i)
<1>1. Len(q) \in Nat /\ \E i \in 1..Len(q) : q[i] = e  BY RangeMember
<1> DEFINE I == {i \in 1..Len(q) : q[i] = e}
           i == Min(I)
<1>2. I \in SUBSET Nat /\ I # {}  BY <1>1
<1>3. RemoveFirst(q, e) = RemoveAt(q, i)  BY <1>1 DEF RemoveFirst, SelectInSeq
<1>4. i \in I
  <2> HIDE DEF I
  <2>1. \E x \in I : \A y \in I : x <= y  BY <1>2, LeastElement
  <2> QED BY <2>1 DEF Min
<1> QED BY <1>3, <1>4

(* Moving an element to the end keeps the order of the others. *)
LEMMA BeforeMoved ==
  ASSUME NEW X, NEW o \in Seq(X), NoRepeats(o), NEW e \in Range(o)
  PROVE  LET m == Append(RemoveFirst(o, e), e) IN
         /\ m \in Seq(X) /\ NoRepeats(m) /\ Range(m) = Range(o)
         /\ \A x, y : Before(o, x, y) /\ x # e => Before(m, x, y)
         /\ \A x \in Range(o) : x # e => Before(m, x, e)
         /\ Last(m) = e
<1> DEFINE r == RemoveFirst(o, e)
           m == Append(r, e)
<1>1. /\ r \in Seq(X) /\ NoRepeats(r)
      /\ \A x : x \in Range(r) <=> x \in Range(o) /\ x # e
  BY RemoveFirstElements
<1>2. e \in X  BY RangeTyped
<1>3. PICK i \in 1..Len(o) : o[i] = e /\ r = RemoveAt(o, i)  BY RemoveFirstAt
<1>4. /\ Len(RemoveAt(o, i)) = Len(o) - 1
      /\ \A j \in 1..(Len(o) - 1) : RemoveAt(o, i)[j] = IF j < i THEN o[j] ELSE o[j + 1]
  BY RemoveAtElements
<1> HIDE DEF r
<1>5. Len(r) = Len(o) - 1 /\ \A j \in 1..(Len(o) - 1) : r[j] = IF j < i THEN o[j] ELSE o[j + 1]
  BY <1>3, <1>4
<1>6. Len(o) \in Nat /\ DOMAIN o = 1..Len(o) /\ DOMAIN r = 1..(Len(o) - 1)  BY <1>1, <1>5
<1>7. /\ m \in Seq(X)
      /\ \A x : x \in Range(m) <=> x \in Range(r) \/ x = e
      /\ NoRepeats(r) /\ e \notin Range(r) => NoRepeats(m)
  BY <1>1, <1>2, RangeOfAppend
<1>8. /\ \A x, y : Before(r, x, y) => Before(m, x, y)
      /\ \A x \in Range(r) : Before(m, x, e)
      /\ Last(m) = e
  BY <1>1, <1>2, BeforeAppended
<1> HIDE DEF m
<1>9. \A x \in Range(o) : x # e => Before(m, x, e)  BY <1>1, <1>8
<1>10. ASSUME NEW x, NEW y, Before(o, x, y), x # e PROVE Before(m, x, y)
  <2>1. PICK a \in DOMAIN o, b \in DOMAIN o : a < b /\ o[a] = x /\ o[b] = y  BY <1>10 DEF Before
  <2>2. CASE y = e
    <3>1. x \in Range(o)  BY <2>1 DEF Range
    <3> QED BY <1>9, <1>10, <2>2, <3>1
  <2>3. CASE y # e
    <3> DEFINE at1(z) == IF z < i THEN z ELSE z - 1
    <3>1. a # i /\ b # i  BY <1>3, <1>10, <2>1, <2>3
    <3>2. /\ at1(a) \in 1..(Len(o) - 1) /\ at1(b) \in 1..(Len(o) - 1)
          /\ at1(a) < at1(b)
      BY <1>6, <2>1, <3>1
    <3>3. ASSUME NEW z \in DOMAIN o, z # i, at1(z) \in 1..(Len(o) - 1) PROVE r[at1(z)] = o[z]
      <4>1. CASE z < i  BY <1>5, <3>3, <4>1
      <4>2. CASE ~(z < i)
        <5>1. ~(z - 1 < i) /\ (z - 1) + 1 = z  BY <1>6, <3>3, <4>2
        <5> QED BY <1>5, <3>3, <4>2, <5>1
      <4> QED BY <4>1, <4>2
    <3>4. r[at1(a)] = x /\ r[at1(b)] = y  BY <2>1, <3>1, <3>2, <3>3
    <3> HIDE DEF at1
    <3>5. Before(r, x, y)  BY <1>6, <3>2, <3>4 DEF Before
    <3> QED BY <1>8, <3>5
  <2> QED BY <2>2, <2>3
<1>11. Range(m) = Range(o)  BY <1>1, <1>7
<1> QED BY <1>1, <1>7, <1>8, <1>9, <1>10, <1>11 DEF m, r

(* The place of an element in a list, as SelectInSeq finds it. *)
LEMMA IndexOfElement ==
  ASSUME NEW X, NEW o \in Seq(X), NoRepeats(o), NEW i \in DOMAIN o, NEW x, o[i] = x
  PROVE  {j \in 1..Len(o) : o[j] = x} # {} /\ Min({j \in 1..Len(o) : o[j] = x}) = i
<1> DEFINE I == {j \in 1..Len(o) : o[j] = x}
<1>1. DOMAIN o = 1..Len(o) /\ Len(o) \in Nat  OBVIOUS
<1>2. I = {i}  BY <1>1 DEF NoRepeats
<1>3. Min({i}) = i
  <2>1. i \in {i} /\ \A y \in {i} : i <= y  BY <1>1
  <2> QED BY <2>1 DEF Min
<1> QED BY <1>2, <1>3
================================================================================
