------------------------ MODULE DeadConditionals_proofs ------------------------
(***************************************************************************)
(* Proofs about DCEConditionals, for any number of blocks and any graph    *)
(* that meets IsGraph.                                                     *)
(***************************************************************************)
EXTENDS DeadConditionals, Lists, TLAPS

-----------------------------------------------------------------------------
(* What is kept of a sequence. *)

(* k lists the results of Kept for the prefixes of q. *)
KeptSteps(k, q, S) ==
  /\ Kept(q, S) = k[Len(q)]
  /\ k[0] = <<>>
  /\ \A i \in 1..Len(q) : k[i] = IF q[i] \in S THEN Append(k[i - 1], q[i]) ELSE k[i - 1]

(* The recursion of Kept. *)
LEMMA KeptDef ==
  ASSUME NEW X, NEW q \in Seq(X), NEW S
  PROVE  \E k : KeptSteps(k, q, S)
<1> DEFINE IsK(h) == h = [i \in 0..Len(q) |->
                            IF i = 0 THEN <<>>
                            ELSE IF q[i] \in S THEN Append(h[i - 1], q[i]) ELSE h[i - 1]]
           step == [n \in Nat |-> [r \in Seq(X) |->
                      IF n + 1 <= Len(q) /\ q[n + 1] \in S THEN Append(r, q[n + 1]) ELSE r]]
<1>1. Len(q) \in Nat  OBVIOUS
<1>2. step \in [Nat -> [Seq(X) -> Seq(X)]]
  <2>1. ASSUME NEW n \in Nat, NEW r \in Seq(X), n + 1 <= Len(q)
        PROVE  Append(r, q[n + 1]) \in Seq(X)
    <3>1. n + 1 \in 1..Len(q)  BY <1>1, <2>1
    <3>2. q[n + 1] \in X  BY <3>1
    <3> QED BY <3>2
  <2> QED BY <2>1
<1>3. <<>> \in Seq(X)  OBVIOUS
<1>4. PICK f : Iterates(f, Seq(X), <<>>, step)
  <2> HIDE DEF step
  <2> QED BY <1>2, <1>3, IterationFunction
<1>5. /\ f \in [Nat -> Seq(X)] /\ f[0] = <<>>
      /\ \A n \in Nat : f[n + 1] = IF n + 1 <= Len(q) /\ q[n + 1] \in S
                                   THEN Append(f[n], q[n + 1]) ELSE f[n]
  BY <1>4 DEF Iterates
<1> DEFINE g == [i \in 0..Len(q) |-> f[i]]
<1>6. ASSUME NEW i \in 0..Len(q), i # 0
      PROVE  f[i] = IF q[i] \in S THEN Append(g[i - 1], q[i]) ELSE g[i - 1]
  <2>1. i - 1 \in Nat /\ (i - 1) + 1 = i /\ i - 1 \in 0..Len(q) /\ i <= Len(q)  BY <1>1, <1>6
  <2> QED BY <1>5, <2>1
<1>7. IsK(g)  BY <1>5, <1>6
<1>8. Kept(q, S) = (CHOOSE h : IsK(h))[Len(q)]  BY DEF Kept
<1> HIDE DEF IsK
<1> DEFINE k == CHOOSE h : IsK(h)
<1>9. IsK(k)  BY <1>7
<1> HIDE DEF k
<1>10. k = [i \in 0..Len(q) |->
              IF i = 0 THEN <<>>
              ELSE IF q[i] \in S THEN Append(k[i - 1], q[i]) ELSE k[i - 1]]
  BY <1>9 DEF IsK
<1>11. k[0] = <<>>  BY <1>1, <1>10
<1>12. \A i \in 1..Len(q) : k[i] = IF q[i] \in S THEN Append(k[i - 1], q[i]) ELSE k[i - 1]
  <2> SUFFICES ASSUME NEW i \in 1..Len(q)
               PROVE  k[i] = IF q[i] \in S THEN Append(k[i - 1], q[i]) ELSE k[i - 1]
    OBVIOUS
  <2>1. i \in 0..Len(q) /\ i # 0  BY <1>1
  <2> QED BY <1>10, <2>1
<1>13. Kept(q, S) = k[Len(q)]  BY <1>8 DEF k
<1>14. KeptSteps(k, q, S)  BY <1>11, <1>12, <1>13 DEF KeptSteps
<1> QED BY <1>14

(* Kept removes the elements outside S and nothing else. *)
LEMMA KeptElements ==
  ASSUME NEW X, NEW q \in Seq(X), NEW S
  PROVE  /\ Kept(q, S) \in Seq(X)
         /\ \A x : x \in Range(Kept(q, S)) <=> x \in Range(q) /\ x \in S
         /\ NoRepeats(q) => NoRepeats(Kept(q, S))
<1>0. PICK k : KeptSteps(k, q, S)  BY KeptDef
<1>1. /\ Kept(q, S) = k[Len(q)]
      /\ k[0] = <<>>
      /\ \A i \in 1..Len(q) : k[i] = IF q[i] \in S THEN Append(k[i - 1], q[i]) ELSE k[i - 1]
  BY <1>0 DEF KeptSteps
<1>2. Len(q) \in Nat  OBVIOUS
<1> DEFINE P(i) == /\ k[i] \in Seq(X)
                   /\ \A x : x \in Range(k[i]) <=> x \in S /\ \E j \in 1..i : q[j] = x
                   /\ NoRepeats(q) => NoRepeats(k[i])
           T == {i \in Nat : i <= Len(q) => P(i)}
<1>3. 0 \in T
  <2>1. <<>> \in Seq(X) /\ Range(<<>>) = {} /\ NoRepeats(<<>>)  BY DEF Range, NoRepeats
  <2>2. \A x : ~ \E j \in 1..0 : q[j] = x  OBVIOUS
  <2> QED BY <1>1, <2>1, <2>2
<1>4. ASSUME NEW i \in Nat, i \in T PROVE i + 1 \in T
  <2> SUFFICES ASSUME i + 1 <= Len(q) PROVE P(i + 1)
    OBVIOUS
  <2>1. P(i)  BY <1>2, <1>4
  <2>2. i + 1 \in 1..Len(q) /\ (i + 1) - 1 = i  BY <1>2
  <2>3. k[i + 1] = IF q[i + 1] \in S THEN Append(k[i], q[i + 1]) ELSE k[i]  BY <1>1, <2>2
  <2>4. q[i + 1] \in X  BY <2>2
  <2>5. \A j : j \in 1..(i + 1) <=> j \in 1..i \/ j = i + 1  BY <1>2
  <2>6. CASE q[i + 1] \notin S  BY <2>1, <2>3, <2>5, <2>6
  <2>7. CASE q[i + 1] \in S
    <3>1. k[i + 1] = Append(k[i], q[i + 1])  BY <2>3, <2>7
    <3>2. k[i + 1] \in Seq(X)  BY <2>1, <2>4, <3>1
    <3>3. \A x : x \in Range(k[i + 1]) <=> x \in Range(k[i]) \/ x = q[i + 1]
      BY <2>1, <2>4, <3>1, RangeOfAppend
    <3>4. ASSUME NoRepeats(q) PROVE NoRepeats(k[i + 1])
      <4>1. \A j \in 1..i : q[j] # q[i + 1]
        <5>1. \A j \in 1..i : j \in DOMAIN q /\ j # i + 1 /\ i + 1 \in DOMAIN q  BY <1>2, <2>2
        <5> QED BY <3>4, <5>1 DEF NoRepeats
      <4>2. q[i + 1] \notin Range(k[i])  BY <2>1, <4>1
      <4> QED BY <2>1, <2>4, <3>1, <3>4, <4>2, RangeOfAppend
    <3> QED BY <2>1, <2>5, <2>7, <3>2, <3>3, <3>4
  <2> QED BY <2>6, <2>7
<1>5. Len(q) \in T
  <2> HIDE DEF T
  <2> QED BY <1>2, <1>3, <1>4, SetInduction
<1>6. P(Len(q))  BY <1>2, <1>5
<1>7. \A x : x \in Range(q) <=> \E j \in 1..Len(q) : q[j] = x  BY RangeMember
<1> QED BY <1>1, <1>6, <1>7

-----------------------------------------------------------------------------
(* Reachability. *)

(* A set with the entry that no edge leaves holds all that can be reached. *)
LEMMA ReachableWithin ==
  ASSUME NEW s \in [Block -> Seq(Block)], NEW S \in SUBSET Block, 1 \in S,
         \A p \in S : Range(s[p]) \subseteq S
  PROVE  Reachable(s) \subseteq S
<1> DEFINE X == SUBSET Block
           next(g) == g \cup UNION {Range(s[p]) : p \in g}
           step == [n \in Nat |-> [g \in X |-> next(g)]]
           IsGrow(h) == h = [n \in 0..N |-> IF n = 0 THEN {1} ELSE next(h[n - 1])]
<1>1. N \in Nat /\ {1} \in X  BY NAssumption DEF Block
<1>2. step \in [Nat -> [X -> X]]
  <2>1. \A g \in X : next(g) \in X  BY RangeTyped
  <2> HIDE DEF next, X
  <2> QED BY <2>1
<1> HIDE DEF X, next, step
<1>3. PICK f : Iterates(f, X, {1}, step)  BY <1>1, <1>2, IterationFunction
<1>4. f \in [Nat -> X] /\ f[0] = {1} /\ \A n \in Nat : f[n + 1] = next(f[n])
  BY <1>3 DEF Iterates, step
<1> DEFINE h == [n \in 0..N |-> f[n]]
<1>5. ASSUME NEW n \in 0..N, n # 0 PROVE f[n] = next(h[n - 1])
  <2>1. n - 1 \in Nat /\ (n - 1) + 1 = n /\ n - 1 \in 0..N  BY <1>1, <1>5
  <2> QED BY <1>4, <2>1
<1>6. IsGrow(h)  BY <1>4, <1>5
<1>7. Reachable(s) = (CHOOSE g : IsGrow(g))[N]
  BY DEF Reachable, ReachableFrom, next
<1> HIDE DEF IsGrow
<1> DEFINE k == CHOOSE g : IsGrow(g)
<1>8. IsGrow(k)  BY <1>6
<1> HIDE DEF k
<1>9. k = [n \in 0..N |-> IF n = 0 THEN {1} ELSE next(k[n - 1])]  BY <1>8 DEF IsGrow
<1> DEFINE T == {n \in Nat : n <= N => k[n] \subseteq S}
<1>10. 0 \in T  BY <1>1, <1>9
<1>11. ASSUME NEW n \in Nat, n \in T PROVE n + 1 \in T
  <2> SUFFICES ASSUME n + 1 <= N PROVE k[n + 1] \subseteq S
    OBVIOUS
  <2>1. n + 1 \in 0..N /\ n + 1 # 0 /\ (n + 1) - 1 = n  BY <1>1
  <2>2. k[n + 1] = next(k[n])  BY <1>9, <2>1
  <2>3. k[n] \subseteq S  BY <1>1, <1>11
  <2> QED BY <2>2, <2>3 DEF next
<1>12. N \in T
  <2> HIDE DEF T
  <2> QED BY <1>1, <1>10, <1>11, SetInduction
<1> QED BY <1>1, <1>7, <1>12 DEF k

-----------------------------------------------------------------------------
(* The inductive invariant. *)

Walking == walk # NoWalk

(* What folding tests leaves of the shape of the graph. *)
ShapeInv ==
  /\ \A b \in Block : Len(succ[b]) <= 2 /\ (Len(succ[b]) = 2 => succ[b][1] # succ[b][2])
  /\ \A b \in Block : cond[b] \in {"true", "false"} => Len(succ[b]) = 2
  /\ \A b \in Block : \A h \in Range(succ[b]) : h # 1 /\ (h <= b => h \in header)
  /\ \A b \in Block : NoRepeats(pred[b])

WalkInv ==
  Walking =>
    /\ walk.block = at /\ graph = Block
    /\ walk.block < walk.start
    /\ walk.start \in dead
    /\ walk.start \notin Range(succ[walk.block])
    /\ walk.first => /\ walk.cur = walk.start /\ walk.last = walk.block
                     /\ walk.block \in dead
                     /\ succ[walk.block] # <<>>
                     /\ walk.block \in Range(pred[walk.start])
    /\ ~walk.first => walk.start < walk.cur /\ walk.last \in dead

(* The blocks marked for good.  At its first block the walk has marked the *)
(* block of the test, which it takes back, and the start of the branch,    *)
(* which it has not looked at.                                             *)
Gone == IF Walking /\ walk.first THEN dead \ {walk.block, walk.start} ELSE dead

(* The edge that the end of the walk takes out of the predecessors. *)
Stale == IF Walking THEN {<<walk.block, walk.start>>} ELSE {}

(* The marks are closed under predecessors, blocks without a mark are in   *)
(* the predecessor lists of their successors, and the lists hold no edge   *)
(* that is gone, all but for the edges in x.                               *)
Coherent(marks, preds, x) ==
  /\ marks \subseteq Block
  /\ 1 \notin marks
  /\ \A b \in marks : \A p \in Range(preds[b]) : p \in marks \/ <<p, b>> \in x
  /\ \A p \in Block \ marks : \A b \in Range(succ[p]) : p \in Range(preds[b])
  /\ \A b \in Block : \A p \in Range(preds[b]) : b \in Range(succ[p]) \/ <<p, b>> \in x

SweptInv ==
  \/ graph = Block
  \/ /\ at = N + 1 /\ ~Walking /\ graph = Block \ dead
     /\ \A b \in Block : Range(pred[b]) \cap dead = {}

DCEInv ==
  /\ TypeOK
  /\ ShapeInv
  /\ WalkInv
  /\ Coherent(Gone, pred, Stale)
  /\ SweptInv

LEMMA BlockFacts ==
  /\ N \in Nat /\ N > 0 /\ Block \subseteq Nat /\ 1 \in Block /\ N \in Block
  /\ \A b \in Block : 1 <= b /\ b <= N
BY NAssumption DEF Block

LEMMA PredsInElements ==
  ASSUME NEW s \in [Block -> Seq(Block)], NEW b \in Block
  PROVE  /\ PredsIn(s, b) \in Seq(Block)
         /\ \A p : p \in Range(PredsIn(s, b)) <=> p \in Block /\ b \in Range(s[p])
         /\ NoRepeats(PredsIn(s, b))
<1> DEFINE q == [i \in Block |-> i]
           S == {p \in Block : b \in Range(s[p])}
<1>1. N \in Nat  BY NAssumption
<1>2. q \in Seq(Block) /\ Range(q) = Block /\ NoRepeats(q)
  BY <1>1 DEF Block, Range, NoRepeats
<1>3. PredsIn(s, b) = Kept(q, S)  BY DEF PredsIn
<1> HIDE DEF q
<1>4. /\ Kept(q, S) \in Seq(Block)
      /\ \A p : p \in Range(Kept(q, S)) <=> p \in Range(q) /\ p \in S
      /\ NoRepeats(Kept(q, S))
  <2> HIDE DEF S
  <2> QED BY <1>2, KeptElements
<1> QED BY <1>2, <1>3, <1>4

LEMMA InitInv == Init => DCEInv
<1> SUFFICES ASSUME Init PROVE DCEInv
  OBVIOUS
<1>1. IsGraph(succ)  BY GraphAssumption DEF Init
<1>2. succ \in [Block -> Seq(Block)]  BY <1>1 DEF IsGraph
<1>3. \A b \in Block : /\ pred[b] = PredsIn(succ, b)
                       /\ pred[b] \in Seq(Block)
                       /\ \A p : p \in Range(pred[b]) <=> p \in Block /\ b \in Range(succ[p])
                       /\ NoRepeats(pred[b])
  BY <1>2, PredsInElements DEF Init
<1>4. TypeOK
  <2>1. pred \in [Block -> Seq(Block)]
    <3>1. pred = [b \in Block |-> PredsIn(succ, b)]  BY DEF Init
    <3> QED BY <1>3, <3>1
  <2>2. phi \in [Block -> Phi]
    <3>1. phi = [b \in Block |->
                   [ops |-> IF Len(pred[b]) > 1 THEN pred[b] ELSE <<>>, value |-> NoBlock]]
      BY DEF Init
    <3>2. \A b \in Block : (IF Len(pred[b]) > 1 THEN pred[b] ELSE <<>>) \in Seq(Block)
      BY <2>1
    <3> QED BY <3>1, <3>2 DEF Phi
  <2>3. header \subseteq Block  BY DEF Init, Headers
  <2>4. at \in 1..(N + 1)  BY NAssumption DEF Init
  <2> QED BY <1>2, <2>1, <2>2, <2>3, <2>4 DEF TypeOK, Init
<1>5. ShapeInv
  <2>1. \A b \in Block : Len(succ[b]) <= 2 /\ (Len(succ[b]) = 2 => succ[b][1] # succ[b][2])
    BY <1>1 DEF IsGraph
  <2>2. \A b \in Block : cond[b] \in {"true", "false"} => Len(succ[b]) = 2
    <3> SUFFICES ASSUME NEW b \in Block, cond[b] \in {"true", "false"} PROVE Len(succ[b]) = 2
      OBVIOUS
    <3>1. ~(Len(succ[b]) < 2)  BY DEF Init
    <3>2. Len(succ[b]) \in Nat  BY <1>2
    <3>3. Len(succ[b]) <= 2  BY <2>1
    <3> DEFINE n == Len(succ[b])
    <3> HIDE DEF n
    <3>4. n \in Nat /\ n <= 2 /\ ~(n < 2)  BY <3>1, <3>2, <3>3 DEF n
    <3>5. n = 2  BY <3>4
    <3> QED BY <3>5 DEF n
  <2>3. \A b \in Block : \A h \in Range(succ[b]) : h \in Block  BY <1>2, RangeTyped
  <2>4. \A b \in Block : \A h \in Range(succ[b]) : h <= b => h \in header
    BY <2>3 DEF Init, Headers
  <2>5. \A b \in Block : \A h \in Range(succ[b]) : h # 1
    BY <1>1, BlockFacts DEF IsGraph, Headers
  <2> QED BY <1>3, <2>1, <2>2, <2>4, <2>5 DEF ShapeInv
<1>6. WalkInv /\ SweptInv  BY DEF Init, WalkInv, SweptInv, Walking
<1>7. Gone = {} /\ Stale = {}  BY DEF Init, Gone, Stale, Walking
<1>8. Coherent(Gone, pred, Stale)
  <2>1. \A b \in Block : \A h \in Range(succ[b]) : h \in Block  BY <1>2, RangeTyped
  <2> QED BY <1>3, <1>7, <2>1 DEF Coherent
<1> QED BY <1>4, <1>5, <1>6, <1>8 DEF DCEInv

-----------------------------------------------------------------------------
(* The steps. *)

LEMMA Branching ==
  ASSUME TypeOK, NEW b \in Block
  PROVE  /\ BranchOver(b) <=> \E p \in Range(pred[b]) : p \notin dead
         /\ AtLeastOneDel(b) => \E p \in Range(pred[b]) : p \in dead
         /\ (\E p \in Range(pred[b]) : p \in dead /\ p # b) => AtLeastOneDel(b)
<1>1. DOMAIN pred[b] = 1..Len(pred[b])  BY DEF TypeOK
<1>2. BranchOver(b) <=> \E p \in Range(pred[b]) : p \notin dead
  BY DEF BranchOver, Live, Range
<1>3. AtLeastOneDel(b) => \E p \in Range(pred[b]) : p \in dead
  BY DEF AtLeastOneDel, Range
<1>4. (\E p \in Range(pred[b]) : p \in dead /\ p # b) => AtLeastOneDel(b)
  BY DEF AtLeastOneDel, Range
<1> QED BY <1>2, <1>3, <1>4

(* A removed predecessor is the only difference. *)
LEMMA WithoutOne ==
  ASSUME NEW preds \in [Block -> Seq(Block)], \A b \in Block : NoRepeats(preds[b]),
         NEW d \in Block, NEW x
  PROVE  LET p == [preds EXCEPT ![d] = RemoveFirst(@, x)]
         IN  /\ p \in [Block -> Seq(Block)]
             /\ \A b \in Block : NoRepeats(p[b])
             /\ \A b \in Block \ {d} : p[b] = preds[b]
             /\ \A y : y \in Range(p[d]) <=> y \in Range(preds[d]) /\ y # x
             /\ \A b \in Block : Range(p[b]) \subseteq Range(preds[b])
<1> DEFINE r == RemoveFirst(preds[d], x)
           p == [preds EXCEPT ![d] = RemoveFirst(@, x)]
<1>1. /\ r \in Seq(Block)
      /\ \A y : y \in Range(r) <=> y \in Range(preds[d]) /\ y # x
      /\ NoRepeats(r)
  <2>1. preds[d] \in Seq(Block) /\ NoRepeats(preds[d])  OBVIOUS
  <2> QED BY <2>1, RemoveFirstElements
<1>2. p = [preds EXCEPT ![d] = r]  OBVIOUS
<1> HIDE DEF r, p
<1>3. p \in [Block -> Seq(Block)] /\ p[d] = r /\ \A b \in Block \ {d} : p[b] = preds[b]
  BY <1>1, <1>2
<1>4. \A b \in Block : NoRepeats(p[b])  BY <1>1, <1>3
<1>5. \A b \in Block : Range(p[b]) \subseteq Range(preds[b])  BY <1>1, <1>3
<1> QED BY <1>1, <1>3, <1>4, <1>5 DEF p

(* The end of a walk: coherent marks and lists stay coherent without the   *)
(* edge of the test, and no edge is stale any more.                        *)
LEMMA WalkEnds ==
  ASSUME DCEInv, Walking, NEW marks, NEW preds \in [Block -> Seq(Block)],
         \A b \in Block : NoRepeats(preds[b]),
         Coherent(marks, preds, Stale),
         EndWalk(marks, preds),
         phi' \in [Block -> Phi],
         UNCHANGED <<succ, cond, plain, header, graph>>
  PROVE  DCEInv'
<1> DEFINE d == walk.start
           B == walk.block
           p == [preds EXCEPT ![d] = RemoveFirst(@, B)]
<1>1. /\ pred' = p
      /\ dead' = IF B \in Range(preds[d]) /\ p[d] = <<>> THEN marks \cup {d} ELSE marks
      /\ walk' = NoWalk
      /\ at' = at + 1
  BY DEF EndWalk
<1>2. TypeOK /\ ShapeInv /\ WalkInv  BY DEF DCEInv
<1>3. walk \in Walk /\ d \in Block /\ B \in Block  BY <1>2 DEF TypeOK, Walking, Walk
<1>4. B < d /\ B = at /\ graph = Block /\ d \notin Range(succ[B])  BY <1>2 DEF WalkInv
<1>5. d # 1 /\ at \in Block
  <2> HIDE DEF d, B
  <2> QED BY <1>3, <1>4, NAssumption DEF Block
<1>6. /\ p \in [Block -> Seq(Block)]
      /\ \A b \in Block : NoRepeats(p[b])
      /\ \A b \in Block \ {d} : p[b] = preds[b]
      /\ \A y : y \in Range(p[d]) <=> y \in Range(preds[d]) /\ y # B
      /\ \A b \in Block : Range(p[b]) \subseteq Range(preds[b])
  BY <1>3, WithoutOne
<1>7. Stale = {<<B, d>>}  BY DEF Stale
<1> HIDE DEF p, d, B
<1>8. \A b \in Block : \A x \in Range(p[b]) : <<x, b>> \notin Stale
  <2> SUFFICES ASSUME NEW b \in Block, NEW x \in Range(p[b]), <<x, b>> = <<B, d>> PROVE FALSE
    BY <1>7
  <2>1. x = B /\ b = d  OBVIOUS
  <2> QED BY <1>6, <2>1
<1>9. ~Walking' /\ Gone' = dead' /\ Stale' = {}  BY <1>1 DEF Walking, Gone, Stale
<1>10. marks \subseteq dead' /\ dead' \subseteq marks \cup {d} /\ marks \subseteq Block
  BY <1>1 DEF Coherent
<1>11. d \in dead' /\ d \notin marks => Range(p[d]) = {}
  <2> SUFFICES ASSUME d \in dead', d \notin marks PROVE Range(p[d]) = {}
    OBVIOUS
  <2>1. p[d] = <<>>  BY <1>1
  <2>2. p[d] \in Seq(Block)  BY <1>3, <1>6
  <2> QED BY <2>1, <2>2, EmptyRange
<1>12. Coherent(Gone, pred, Stale)'
  <2>1. dead' \subseteq Block /\ 1 \notin dead'  BY <1>3, <1>5, <1>10 DEF Coherent
  <2>2. ASSUME NEW b \in dead', NEW x \in Range(p[b]) PROVE x \in dead'
    <3>1. b \in marks  BY <1>10, <1>11, <2>2
    <3>2. b \in Block  BY <1>10, <3>1
    <3>3. x \in Range(preds[b]) /\ <<x, b>> \notin Stale  BY <1>6, <1>8, <3>2
    <3> QED BY <1>10, <3>1, <3>3 DEF Coherent
  <2>3. ASSUME NEW x \in Block \ dead', NEW b \in Range(succ[x]) PROVE x \in Range(p[b])
    <3>1. x \in Range(preds[b])  BY <1>10 DEF Coherent
    <3>2. b \in Block
      <4>1. succ[x] \in Seq(Block)  BY <1>2 DEF TypeOK
      <4> QED BY <4>1, RangeTyped
    <3>3. CASE b # d  BY <1>6, <3>1, <3>2, <3>3
    <3>4. CASE b = d
      <4>1. x # B  BY <1>4, <3>4 DEF d, B
      <4> QED BY <1>6, <3>1, <3>4, <4>1
    <3> QED BY <3>3, <3>4
  <2>4. ASSUME NEW b \in Block, NEW x \in Range(p[b]) PROVE b \in Range(succ[x])
    <3>1. x \in Range(preds[b]) /\ <<x, b>> \notin Stale  BY <1>6, <1>8
    <3> QED BY <3>1 DEF Coherent
  <2> QED BY <1>1, <1>9, <2>1, <2>2, <2>3, <2>4 DEF Coherent
<1>13. TypeOK'
  <2>1. at' \in 1..(N + 1)  BY <1>1, <1>5, NAssumption DEF Block
  <2>2. dead' \subseteq Block  BY <1>3, <1>10
  <2> QED BY <1>1, <1>2, <1>6, <2>1, <2>2 DEF TypeOK
<1>14. ShapeInv'  BY <1>1, <1>2, <1>6 DEF ShapeInv
<1>15. WalkInv'  BY <1>9 DEF WalkInv
<1>16. SweptInv'  BY <1>4 DEF SweptInv
<1> QED BY <1>12, <1>13, <1>14, <1>15, <1>16 DEF DCEInv

LEMMA SkipStep ==
  ASSUME DCEInv, Skip
  PROVE  DCEInv'
<1>1. /\ walk = NoWalk /\ at <= N /\ at' = at + 1
      /\ UNCHANGED <<succ, cond, pred, phi, dead, walk, plain, header, graph>>
  BY DEF Skip
<1>2. TypeOK /\ ShapeInv  BY DEF DCEInv
<1>3. at' \in 1..(N + 1)  BY <1>1, <1>2, NAssumption DEF TypeOK
<1>4. TypeOK'  BY <1>1, <1>2, <1>3 DEF TypeOK
<1>5. ShapeInv'  BY <1>1, <1>2 DEF ShapeInv
<1>6. WalkInv' /\ Gone' = Gone /\ Stale' = Stale  BY <1>1 DEF WalkInv, Walking, Gone, Stale
<1>7. Coherent(Gone, pred, Stale)'  BY <1>1, <1>6 DEF DCEInv, Coherent
<1>8. SweptInv'
  <2>1. at # N + 1  BY <1>1, <1>2, NAssumption DEF TypeOK
  <2> QED BY <1>1, <2>1 DEF DCEInv, SweptInv
<1> QED BY <1>4, <1>5, <1>6, <1>7, <1>8 DEF DCEInv

LEMMA StartWalkStep ==
  ASSUME DCEInv, StartWalk
  PROVE  DCEInv'
<1> DEFINE d == DeleteBranchStart(at)
           k == KeepBranchStart(at)
           w == [block |-> at, start |-> d, cur |-> d, first |-> TRUE, last |-> at]
<1>1. /\ walk = NoWalk /\ at <= N /\ Folded(at) /\ ~TooRare(at)
      /\ walk' = w
      /\ dead' = dead \cup {d, at}
      /\ succ' = [succ EXCEPT ![at] = <<k>>]
      /\ cond' = [cond EXCEPT ![at] = "none"]
      /\ plain' = (plain /\ PlainIf(at))
      /\ UNCHANGED <<pred, phi, at, header, graph>>
  BY DEF StartWalk
<1>2. TypeOK /\ ShapeInv /\ SweptInv  BY DEF DCEInv
<1>3. at \in Block  BY <1>1, <1>2, NAssumption DEF TypeOK, Block
<1>4. at \notin dead /\ cond[at] \in {"true", "false"}  BY <1>1 DEF Folded
<1>5. succ[at] \in Seq(Block) /\ Len(succ[at]) = 2 /\ succ[at][1] # succ[at][2]
  BY <1>2, <1>3, <1>4 DEF TypeOK, ShapeInv
<1>6. succ[at][1] \in Block /\ succ[at][2] \in Block  BY <1>5
<1>7. d \in Block /\ k \in Block /\ d # k /\ d \in Range(succ[at]) /\ k \in Range(succ[at])
  <2>1. /\ d = (IF cond[at] = "true" THEN succ[at][2] ELSE succ[at][1])
        /\ k = (IF cond[at] = "true" THEN succ[at][1] ELSE succ[at][2])
    BY DEF DeleteBranchStart, KeepBranchStart
  <2>2. succ[at][1] \in Range(succ[at]) /\ succ[at][2] \in Range(succ[at])
    <3>1. DOMAIN succ[at] = 1..2  BY <1>5
    <3> QED BY <3>1 DEF Range
  <2> HIDE DEF d, k
  <2> QED BY <1>5, <1>6, <2>1, <2>2
<1>8. d \notin header
  <2>1. succ[d] \in Seq(Block) /\ Len(succ[d]) <= 2  BY <1>2, <1>7 DEF TypeOK, ShapeInv
  <2> QED BY <1>1, <2>1 DEF TooRare
<1> HIDE DEF d, k
<1>9. at < d /\ d # 1
  <2>1. ~(d <= at) /\ d # 1  BY <1>2, <1>3, <1>7, <1>8 DEF ShapeInv
  <2> QED BY <1>3, <1>7, <2>1, NAssumption DEF Block
<1>10. Gone = dead /\ Stale = {}  BY <1>1 DEF Gone, Stale, Walking
<1>11. /\ at \in Range(pred[d])
       /\ 1 \notin dead
       /\ \A b \in dead : \A p \in Range(pred[b]) : p \in dead
       /\ \A p \in Block \ dead : \A b \in Range(succ[p]) : p \in Range(pred[b])
       /\ \A b \in Block : \A p \in Range(pred[b]) : b \in Range(succ[p])
  BY <1>3, <1>4, <1>7, <1>10 DEF DCEInv, Coherent
<1>12. d \notin dead  BY <1>4, <1>11
<1>13. w \in Walk /\ w # NoWalk
  <2>1. w \in Walk  BY <1>3, <1>7 DEF Walk
  <2> QED BY <2>1, WalkAssumption
<1>14. walk'.block = at /\ walk'.start = d /\ walk'.cur = d /\ walk'.first = TRUE /\ walk'.last = at
  BY <1>1
<1>15. Walking'  BY <1>1, <1>13 DEF Walking
<1> HIDE DEF w
<1>16. /\ succ' \in [Block -> Seq(Block)] /\ succ'[at] = <<k>>
       /\ \A b \in Block \ {at} : succ'[b] = succ[b]
  <2>1. <<k>> \in Seq(Block)  BY <1>7
  <2> QED BY <1>1, <1>2, <1>3, <2>1 DEF TypeOK
<1>17. Range(<<k>>) = {k} /\ Len(<<k>>) = 1 /\ <<k>> # <<>>  BY DEF Range
<1>18. \A b \in Block : Range(succ'[b]) \subseteq Range(succ[b])
  <2>1. Range(succ'[at]) = {k}  BY <1>16, <1>17
  <2>2. \A b \in Block \ {at} : Range(succ'[b]) = Range(succ[b])  BY <1>16
  <2> QED BY <1>7, <2>1, <2>2
<1>19. TypeOK'
  <2>1. cond' \in [Block -> Cond]  BY <1>1, <1>2, <1>3 DEF TypeOK, Cond
  <2>2. dead' \subseteq Block  BY <1>1, <1>2, <1>3, <1>7 DEF TypeOK
  <2> QED BY <1>1, <1>2, <1>13, <1>16, <2>1, <2>2 DEF TypeOK
<1>20. ShapeInv'
  <2>1. \A b \in Block : Len(succ'[b]) <= 2 /\ (Len(succ'[b]) = 2 => succ'[b][1] # succ'[b][2])
    <3> SUFFICES ASSUME NEW b \in Block
                 PROVE  Len(succ'[b]) <= 2 /\ (Len(succ'[b]) = 2 => succ'[b][1] # succ'[b][2])
      OBVIOUS
    <3>1. CASE b = at
      <4>1. Len(succ'[b]) = 1  BY <1>16, <1>17, <3>1
      <4> QED BY <4>1
    <3>2. CASE b # at
      <4>1. succ'[b] = succ[b]  BY <1>16, <3>2
      <4> QED BY <1>2, <4>1 DEF ShapeInv
    <3> QED BY <3>1, <3>2
  <2>2. \A b \in Block : cond'[b] \in {"true", "false"} => Len(succ'[b]) = 2
    <3>1. cond'[at] = "none" /\ \A b \in Block \ {at} : cond'[b] = cond[b]
      BY <1>1, <1>2, <1>3 DEF TypeOK
    <3> QED BY <1>2, <1>16, <3>1 DEF ShapeInv
  <2>3. \A b \in Block : \A h \in Range(succ'[b]) : h # 1 /\ (h <= b => h \in header')
    BY <1>1, <1>2, <1>18 DEF ShapeInv
  <2>4. \A b \in Block : NoRepeats(pred'[b])  BY <1>1, <1>2 DEF ShapeInv
  <2> QED BY <2>1, <2>2, <2>3, <2>4 DEF ShapeInv
<1>21. graph = Block
  <2>1. at # N + 1  BY <1>3, NAssumption DEF Block
  <2> QED BY <1>2, <2>1 DEF SweptInv
<1>22. WalkInv'
  <2>1. d \notin Range(succ'[at])  BY <1>7, <1>16, <1>17
  <2> QED BY <1>1, <1>9, <1>11, <1>14, <1>16, <1>17, <1>21, <2>1 DEF WalkInv
<1>23. SweptInv'  BY <1>1, <1>21 DEF SweptInv
<1>24. Gone' = dead /\ Stale' = {<<at, d>>}
  BY <1>1, <1>4, <1>12, <1>14, <1>15 DEF Gone, Stale
<1>25. Coherent(Gone, pred, Stale)'
  <2>1. dead \subseteq Block  BY <1>2 DEF TypeOK
  <2>2. ASSUME NEW p \in Block \ dead, NEW b \in Range(succ'[p]) PROVE p \in Range(pred[b])
    <3>1. b \in Range(succ[p])  BY <1>18
    <3> QED BY <1>11, <3>1
  <2>3. ASSUME NEW b \in Block, NEW p \in Range(pred[b])
        PROVE  b \in Range(succ'[p]) \/ <<p, b>> = <<at, d>>
    <3>1. b \in Range(succ[p])  BY <1>11
    <3>2. p \in Block
      <4>1. pred[b] \in Seq(Block)  BY <1>2 DEF TypeOK
      <4> QED BY <4>1, RangeTyped
    <3>3. CASE p # at  BY <1>16, <3>1, <3>2, <3>3
    <3>4. CASE p = at
      <4>1. b = succ[at][1] \/ b = succ[at][2]
        <5>1. PICK i \in 1..Len(succ[at]) : succ[at][i] = b  BY <1>5, <3>1, <3>4, RangeMember
        <5>2. i = 1 \/ i = 2  BY <1>5
        <5> QED BY <5>1, <5>2
      <4>2. b = d \/ b = k  BY <4>1 DEF d, k, DeleteBranchStart, KeepBranchStart
      <4> QED BY <1>16, <1>17, <3>4, <4>2
    <3> QED BY <3>3, <3>4
  <2> QED BY <1>1, <1>11, <1>24, <2>1, <2>2, <2>3 DEF Coherent
<1> QED BY <1>19, <1>20, <1>22, <1>23, <1>25 DEF DCEInv

(* What holds at any step of a walk.  A block that was marked before the   *)
(* walk came to it has no live predecessor, so it stays marked.            *)
LEMMA WalkFacts ==
  ASSUME DCEInv, Walking
  PROVE  /\ walk \in Walk
         /\ walk.block \in Block /\ walk.start \in Block /\ walk.cur \in Block /\ walk.last \in Block
         /\ walk.start # 1 /\ walk.block # walk.start
         /\ walk.first => Gone = dead \ {walk.block, walk.start} /\ AtLeastOneDel(walk.cur)
         /\ ~walk.first => Gone = dead /\ Looked(walk.cur) = dead /\ walk.cur # 1
<1> DEFINE B == walk.block
           d == walk.start
           c == walk.cur
<1>1. TypeOK /\ WalkInv /\ Coherent(Gone, pred, Stale)  BY DEF DCEInv
<1>2. walk \in Walk  BY <1>1 DEF TypeOK, Walking
<1>3. B \in Block /\ d \in Block /\ c \in Block /\ walk.last \in Block  BY <1>2 DEF Walk
<1>4. B < d /\ (~walk.first => d < c)  BY <1>1 DEF WalkInv
<1>5. d # 1 /\ B # d /\ (~walk.first => c # 1 /\ c # d)
  <2> HIDE DEF B, d, c
  <2> QED BY <1>3, <1>4, NAssumption DEF Block
<1>6. ASSUME walk.first PROVE Gone = dead \ {B, d} /\ AtLeastOneDel(c)
  <2>1. c = d /\ B \in dead /\ B \in Range(pred[d])  BY <1>1, <1>6 DEF WalkInv
  <2>2. AtLeastOneDel(d)  BY <1>1, <1>3, <1>5, <2>1, Branching
  <2> QED BY <1>6, <2>1, <2>2 DEF Gone
<1>7. ASSUME ~walk.first PROVE Gone = dead /\ Looked(c) = dead
  <2>1. Gone = dead  BY <1>7 DEF Gone
  <2>2. CASE c \notin dead  BY <2>1, <2>2 DEF Looked
  <2>3. CASE c \in dead
    <3>1. \A p \in Range(pred[c]) : p \in dead \/ <<p, c>> \in Stale
      BY <1>1, <2>1, <2>3 DEF Coherent
    <3>2. \A p : <<p, c>> \notin Stale  BY <1>5, <1>7 DEF Stale
    <3>3. ~BranchOver(c)  BY <1>1, <1>3, <3>1, <3>2, Branching
    <3> QED BY <2>1, <3>3 DEF Looked
  <2> QED BY <2>2, <2>3
<1> QED BY <1>2, <1>3, <1>5, <1>6, <1>7

LEMMA ReachLiveBlockAfterReturnStep ==
  ASSUME DCEInv, ReachLiveBlockAfterReturn
  PROVE  DCEInv'
<1>1. /\ Walking /\ succ[walk.last] = <<>>
      /\ EndWalk(Looked(walk.cur), pred)
      /\ UNCHANGED <<succ, cond, phi, plain, header, graph>>
  BY DEF ReachLiveBlockAfterReturn, Walking
<1>2. ~walk.first  BY <1>1 DEF DCEInv, WalkInv
<1>3. Gone = dead /\ Looked(walk.cur) = dead  BY <1>1, <1>2, WalkFacts
<1>4. EndWalk(dead, pred) /\ Coherent(dead, pred, Stale)  BY <1>1, <1>3 DEF DCEInv
<1>5. /\ pred \in [Block -> Seq(Block)] /\ phi' \in [Block -> Phi]
      /\ \A b \in Block : NoRepeats(pred[b])
  BY <1>1 DEF DCEInv, TypeOK, ShapeInv
<1> QED BY <1>1, <1>4, <1>5, WalkEnds

(* A phi keeps to its type, whatever operand it loses. *)
LEMMA FixedPhiTyped ==
  ASSUME phi \in [Block -> Phi], NEW b \in Block, NEW i \in Nat \ {0}, NEW f \in FixedPhi(b, i)
  PROVE  f \in Phi
<1>1. phi[b] \in Phi  OBVIOUS
<1>2. phi[b].ops \in Seq(Block) /\ phi[b].value \in Block \cup {NoBlock}  BY <1>1 DEF Phi
<1>3. CASE phi[b].value # NoBlock \/ phi[b].ops = <<>>
  BY <1>1, <1>3 DEF FixedPhi
<1>4. CASE phi[b].value = NoBlock /\ phi[b].ops # <<>> /\ Len(phi[b].ops) = 2
  <2>1. f = [ops |-> <<>>, value |-> phi[b].ops[IF i = 1 THEN 2 ELSE 1]]  BY <1>4 DEF FixedPhi
  <2>2. phi[b].ops[1] \in Block /\ phi[b].ops[2] \in Block  BY <1>2, <1>4
  <2>3. <<>> \in Seq(Block)  OBVIOUS
  <2> QED BY <2>1, <2>2, <2>3 DEF Phi
<1>5. CASE phi[b].value = NoBlock /\ phi[b].ops # <<>> /\ Len(phi[b].ops) # 2
  <2>1. PICK ops \in RemoveOperand(phi[b].ops, i) : f = [phi[b] EXCEPT !.ops = ops]
    BY <1>5 DEF FixedPhi
  <2>2. ops \in Seq(Block)
    <3> DEFINE q == phi[b].ops
    <3>1. Len(q) \in Nat /\ Len(q) # 0  BY <1>2, <1>5
    <3> HIDE DEF q
    <3>2. CASE i <= Len(q)
      <4>1. i \in 1..Len(q) /\ ops = RemoveAt(q, i)  BY <2>1, <3>1, <3>2 DEF q, RemoveOperand
      <4> QED BY <1>2, <4>1, RemoveAtElements DEF q
    <3>3. CASE ~(i <= Len(q))
      <4>1. ops \in [1..(Len(q) - 1) -> Block]  BY <2>1, <3>3 DEF q, RemoveOperand
      <4>2. Len(q) - 1 \in Nat  BY <3>1
      <4> QED BY <4>1, <4>2
    <3> QED BY <3>2, <3>3
  <2> QED BY <1>1, <2>1, <2>2 DEF Phi
<1> QED BY <1>2, <1>3, <1>4, <1>5

LEMMA PredIndexTyped ==
  ASSUME TypeOK, NEW b \in Block, NEW x
  PROVE  PredIndex(b, x) \in Nat \ {0}
<1>1. CASE x \notin Range(pred[b])  BY <1>1 DEF PredIndex
<1>2. CASE x \in Range(pred[b])
  <2> DEFINE I == {i \in 1..Len(pred[b]) : pred[b][i] = x}
  <2>1. pred[b] \in Seq(Block)  BY DEF TypeOK
  <2>2. I # {} /\ I \in SUBSET Nat /\ 0 \notin I  BY <1>2, <2>1, RangeMember
  <2>3. PredIndex(b, x) = Min(I)  BY <1>2, <2>2 DEF PredIndex, SelectInSeq
  <2> HIDE DEF I
  <2>4. \E m \in I : \A y \in I : m <= y  BY <2>2, LeastElement
  <2>5. Min(I) \in I  BY <2>4 DEF Min
  <2> QED BY <2>2, <2>3, <2>5
<1> QED BY <1>1, <1>2

LEMMA ReachLiveBlockStep ==
  ASSUME DCEInv, ReachLiveBlock
  PROVE  DCEInv'
<1> DEFINE d == IF walk.first THEN walk.cur ELSE succ[walk.last][1]
           p == IF walk.first THEN pred ELSE WithoutPred(d, walk.last)
           marks == IF walk.first THEN Looked(walk.cur) \ {walk.block}
                    ELSE IF walk.last \in Range(pred[d]) /\ p[d] = <<>>
                         THEN Looked(walk.cur) \cup {d}
                         ELSE Looked(walk.cur)
<1>1. /\ Walking /\ BranchOver(walk.cur) /\ succ[walk.last] # <<>>
      /\ \E f \in FixedPhi(d, PredIndex(d, walk.last)) : phi' = [phi EXCEPT ![d] = f]
      /\ EndWalk(marks, p)
      /\ UNCHANGED <<succ, cond, plain, header, graph>>
  BY DEF ReachLiveBlock, Walking
<1>2. TypeOK /\ ShapeInv /\ WalkInv /\ Coherent(Gone, pred, Stale)  BY DEF DCEInv
<1>3. /\ walk.block \in Block /\ walk.start \in Block /\ walk.cur \in Block /\ walk.last \in Block
      /\ walk.start # 1
      /\ walk.first => Gone = dead \ {walk.block, walk.start}
      /\ ~walk.first => Gone = dead /\ Looked(walk.cur) = dead
  BY <1>1, WalkFacts
<1>4. pred \in [Block -> Seq(Block)] /\ \A b \in Block : NoRepeats(pred[b])
  BY <1>2 DEF TypeOK, ShapeInv
<1>5. ~walk.first => succ[walk.last][1] \in Range(succ[walk.last]) /\ succ[walk.last][1] \in Block
  <2>1. succ[walk.last] \in Seq(Block)  BY <1>2, <1>3 DEF TypeOK
  <2>2. 1 \in DOMAIN succ[walk.last] /\ succ[walk.last][1] \in Block  BY <1>1, <2>1
  <2> QED BY <2>2 DEF Range
<1>6. d \in Block  BY <1>3, <1>5
<1>7. phi' \in [Block -> Phi]
  <2>1. PICK f \in FixedPhi(d, PredIndex(d, walk.last)) : phi' = [phi EXCEPT ![d] = f]  BY <1>1
  <2> HIDE DEF d
  <2>2. phi \in [Block -> Phi]  BY <1>2 DEF TypeOK
  <2>3. f \in Phi  BY <1>2, <1>6, <2>1, <2>2, FixedPhiTyped, PredIndexTyped
  <2> QED BY <1>6, <2>1, <2>2, <2>3
<1>8. CASE walk.first
  <2>1. p = pred  BY <1>8
  <2>2. walk.cur = walk.start  BY <1>1, <1>2, <1>8 DEF WalkInv
  <2>3. Looked(walk.cur) = dead \ {walk.cur}  BY <1>1 DEF Looked
  <2>4. marks = Gone  BY <1>3, <1>8, <2>2, <2>3
  <2>5. EndWalk(Gone, pred)  BY <1>1, <2>1, <2>4
  <2> QED BY <1>1, <1>2, <1>4, <1>7, <2>5, WalkEnds
<1>9. CASE ~walk.first
  <2>1. d = succ[walk.last][1] /\ d \in Range(succ[walk.last])  BY <1>5, <1>9
  <2>2. walk.last \in dead  BY <1>1, <1>2, <1>9 DEF WalkInv
  <2>3. d # 1  BY <1>2, <1>3, <2>1 DEF ShapeInv
  <2>4. p = [pred EXCEPT ![d] = RemoveFirst(@, walk.last)]  BY <1>9 DEF WithoutPred
  <2>5. marks = IF walk.last \in Range(pred[d]) /\ p[d] = <<>> THEN dead \cup {d} ELSE dead
    BY <1>3, <1>9
  <2> HIDE DEF d, p, marks
  <2>6. /\ p \in [Block -> Seq(Block)]
        /\ \A b \in Block : NoRepeats(p[b])
        /\ \A b \in Block \ {d} : p[b] = pred[b]
        /\ \A y : y \in Range(p[d]) <=> y \in Range(pred[d]) /\ y # walk.last
        /\ \A b \in Block : Range(p[b]) \subseteq Range(pred[b])
    <3> DEFINE e == [pred EXCEPT ![d] = RemoveFirst(@, walk.last)]
    <3>1. /\ e \in [Block -> Seq(Block)]
          /\ \A b \in Block : NoRepeats(e[b])
          /\ \A b \in Block \ {d} : e[b] = pred[b]
          /\ \A y : y \in Range(e[d]) <=> y \in Range(pred[d]) /\ y # walk.last
          /\ \A b \in Block : Range(e[b]) \subseteq Range(pred[b])
      BY <1>4, <1>6, WithoutOne
    <3>2. p = e  BY <2>4
    <3> HIDE DEF e
    <3> QED BY <3>1, <3>2
  <2>7. Coherent(dead, pred, Stale)  BY <1>2, <1>3, <1>9
  <2>8. dead \subseteq marks /\ marks \subseteq dead \cup {d}  BY <2>5
  <2>9. Coherent(marks, p, Stale)
    <3>1. marks \subseteq Block /\ 1 \notin marks  BY <1>6, <2>3, <2>7, <2>8 DEF Coherent
    <3>2. ASSUME NEW b \in marks, NEW x \in Range(p[b]) PROVE x \in marks \/ <<x, b>> \in Stale
      <4>1. CASE b \in dead
        <5>1. x \in Range(pred[b])  BY <2>6, <3>1
        <5> QED BY <2>7, <2>8, <4>1, <5>1 DEF Coherent
      <4>2. CASE b \notin dead
        <5>1. b = d /\ p[d] = <<>>  BY <2>5, <4>2
        <5>2. Range(p[d]) = {}  BY <1>6, <2>6, <5>1, EmptyRange
        <5> QED BY <5>1, <5>2
      <4> QED BY <4>1, <4>2
    <3>3. ASSUME NEW x \in Block \ marks, NEW b \in Range(succ[x]) PROVE x \in Range(p[b])
      <4>1. x \notin dead /\ x # walk.last  BY <2>2, <2>8
      <4>2. x \in Range(pred[b])  BY <2>7, <4>1 DEF Coherent
      <4>3. b \in Block
        <5>1. succ[x] \in Seq(Block)  BY <1>2 DEF TypeOK
        <5> QED BY <5>1, RangeTyped
      <4> QED BY <2>6, <4>1, <4>2, <4>3
    <3>4. ASSUME NEW b \in Block, NEW x \in Range(p[b])
          PROVE  b \in Range(succ[x]) \/ <<x, b>> \in Stale
      BY <2>6, <2>7 DEF Coherent
    <3> QED BY <3>1, <3>2, <3>3, <3>4 DEF Coherent
  <2> QED BY <1>1, <1>7, <2>6, <2>9, WalkEnds
<1> QED BY <1>8, <1>9

LEMMA WalkOnStep ==
  ASSUME DCEInv, WalkOn
  PROVE  DCEInv'
<1> DEFINE c == walk.cur
           cleared == IF walk.first THEN Looked(c) \ {walk.block} ELSE Looked(c)
           marks == IF AtLeastOneDel(c) THEN cleared \cup {c} ELSE cleared
           w == [walk EXCEPT !.cur = @ + 1, !.first = FALSE,
                             !.last = IF AtLeastOneDel(walk.cur) THEN walk.cur ELSE @]
<1>1. /\ Walking /\ ~(BranchOver(c) /\ AtLeastOneDel(c))
      /\ IF c = N THEN EndWalk(marks, pred)
         ELSE walk' = w /\ dead' = marks /\ UNCHANGED <<pred, at>>
      /\ UNCHANGED <<succ, cond, phi, plain, header, graph>>
  BY DEF WalkOn, Walking
<1>2. TypeOK /\ ShapeInv /\ WalkInv /\ Coherent(Gone, pred, Stale)  BY DEF DCEInv
<1>3. /\ walk \in Walk
      /\ walk.block \in Block /\ walk.start \in Block /\ c \in Block /\ walk.last \in Block
      /\ walk.start # 1 /\ walk.block # walk.start
      /\ walk.first => Gone = dead \ {walk.block, walk.start} /\ AtLeastOneDel(c)
      /\ ~walk.first => Gone = dead /\ Looked(c) = dead /\ c # 1
  BY <1>1, WalkFacts
<1>4. BranchOver(c) <=> \E p \in Range(pred[c]) : p \notin dead  BY <1>2, <1>3, Branching
<1>5. Stale = {<<walk.block, walk.start>>}  BY <1>1 DEF Stale
<1>6. walk.start \in dead  BY <1>1, <1>2 DEF WalkInv
<1>7. /\ Coherent(marks, pred, Stale)
      /\ walk.start \in marks
      /\ (IF AtLeastOneDel(c) THEN c ELSE walk.last) \in marks
  <2>1. CASE walk.first
    <3>1. c = walk.start /\ ~BranchOver(c) /\ AtLeastOneDel(c)  BY <1>1, <1>2, <1>3, <2>1 DEF WalkInv
    <3>2. Looked(c) = dead  BY <3>1 DEF Looked
    <3>3. marks = dead \ {walk.block} /\ marks = Gone \cup {walk.start}
      BY <1>3, <1>6, <2>1, <3>1, <3>2
    <3> HIDE DEF marks, c
    <3>4. marks \subseteq Block /\ 1 \notin marks  BY <1>2, <1>3, <3>3 DEF Coherent
    <3>5. ASSUME NEW b \in marks, NEW p \in Range(pred[b]) PROVE p \in marks \/ <<p, b>> \in Stale
      <4>1. CASE b = walk.start
        <5>1. p \in dead  BY <1>4, <3>1, <4>1
        <5>2. CASE p = walk.block  BY <1>5, <4>1, <5>2
        <5>3. CASE p # walk.block  BY <3>3, <5>1, <5>3
        <5> QED BY <5>2, <5>3
      <4>2. CASE b # walk.start
        <5>1. b \in Gone  BY <3>3, <4>2
        <5> QED BY <1>2, <3>3, <5>1 DEF Coherent
      <4> QED BY <4>1, <4>2
    <3>6. ASSUME NEW x \in Block \ marks, NEW b \in Range(succ[x]) PROVE x \in Range(pred[b])
      BY <1>2, <3>3 DEF Coherent
    <3>7. Coherent(marks, pred, Stale)  BY <1>2, <3>4, <3>5, <3>6 DEF Coherent
    <3> QED BY <3>1, <3>3, <3>7
  <2>2. CASE ~walk.first
    <3>1. cleared = dead /\ Gone = dead  BY <1>3, <2>2
    <3>2. walk.last \in dead  BY <1>1, <1>2, <2>2 DEF WalkInv
    <3>3. CASE ~AtLeastOneDel(c)
      <4>1. marks = dead  BY <3>1, <3>3
      <4> QED BY <1>2, <1>6, <3>1, <3>2, <3>3, <4>1
    <3>4. CASE AtLeastOneDel(c)
      <4>1. marks = dead \cup {c}  BY <3>1, <3>4
      <4>2. \A p \in Range(pred[c]) : p \in dead  BY <1>1, <1>4, <3>4
      <4>3. c # 1  BY <1>3, <2>2
      <4> HIDE DEF marks, c
      <4>4. Coherent(dead, pred, Stale)  BY <1>2, <3>1
      <4>5. marks \subseteq Block /\ 1 \notin marks  BY <1>3, <4>1, <4>3, <4>4 DEF Coherent
      <4>6. ASSUME NEW b \in marks, NEW p \in Range(pred[b])
            PROVE  p \in marks \/ <<p, b>> \in Stale
        BY <4>1, <4>2, <4>4 DEF Coherent
      <4>7. Coherent(marks, pred, Stale)  BY <4>1, <4>4, <4>5, <4>6 DEF Coherent
      <4> QED BY <1>6, <3>4, <4>1, <4>7
    <3> QED BY <3>3, <3>4
  <2> QED BY <2>1, <2>2
<1>8. pred \in [Block -> Seq(Block)] /\ \A b \in Block : NoRepeats(pred[b])
  BY <1>2 DEF TypeOK, ShapeInv
<1> HIDE DEF marks
<1>9. CASE c = N
  <2>1. EndWalk(marks, pred)  BY <1>1, <1>9
  <2>2. phi' \in [Block -> Phi]  BY <1>1, <1>2 DEF TypeOK
  <2> QED BY <1>1, <1>7, <1>8, <2>1, <2>2, WalkEnds
<1>10. CASE c # N
  <2> DEFINE l == IF AtLeastOneDel(c) THEN c ELSE walk.last
  <2>1. walk' = w /\ dead' = marks /\ UNCHANGED <<pred, at>>  BY <1>1, <1>10
  <2>2. c + 1 \in Block /\ l \in Block
    <3> HIDE DEF c
    <3> QED BY <1>3, <1>10, NAssumption DEF Block
  <2>3. l \in marks  BY <1>7
  <2>4. w = [walk EXCEPT !.cur = c + 1, !.first = FALSE, !.last = l]  OBVIOUS
  <2> HIDE DEF l, w
  <2>5. /\ w \in Walk /\ w.block = walk.block /\ w.start = walk.start
        /\ w.cur = c + 1 /\ w.first = FALSE /\ w.last = l
    <3> HIDE DEF c
    <3> QED BY <1>3, <2>2, <2>4 DEF Walk
  <2>6. Walking'  BY <2>1, <2>5, WalkAssumption DEF Walking
  <2>7. Gone' = marks /\ Stale' = Stale
    <3>1. Gone' = dead'  BY <2>1, <2>5 DEF Gone
    <3>2. Stale' = {<<walk.block, walk.start>>}  BY <2>1, <2>5, <2>6 DEF Stale
    <3> QED BY <1>5, <2>1, <3>1, <3>2
  <2>8. Coherent(Gone, pred, Stale)'  BY <1>1, <1>7, <2>1, <2>7 DEF Coherent
  <2>9. TypeOK'
    <3>1. marks \subseteq Block  BY <1>7 DEF Coherent
    <3> QED BY <1>1, <1>2, <2>1, <2>5, <3>1 DEF TypeOK
  <2>10. ShapeInv'  BY <1>1, <1>2, <2>1 DEF ShapeInv
  <2>11. WalkInv'
    <3>1. walk.start < c + 1
      <4>1. walk.start = c \/ walk.start < c  BY <1>1, <1>2 DEF WalkInv
      <4> DEFINE a == walk.start
      <4> HIDE DEF a, c
      <4>2. a \in Block /\ c \in Block /\ (a = c \/ a < c)  BY <1>3, <4>1 DEF a
      <4>3. a < c + 1  BY <4>2, NAssumption DEF Block
      <4> QED BY <4>3 DEF a
    <3>2. /\ walk.block = at /\ graph = Block /\ walk.block < walk.start
          /\ walk.start \notin Range(succ[walk.block])
      BY <1>1, <1>2 DEF WalkInv
    <3> HIDE DEF c
    <3> QED BY <1>1, <1>7, <2>1, <2>3, <2>5, <3>1, <3>2 DEF WalkInv
  <2>12. SweptInv'  BY <1>1, <1>2 DEF SweptInv, WalkInv
  <2> QED BY <2>8, <2>9, <2>10, <2>11, <2>12 DEF DCEInv
<1> QED BY <1>9, <1>10

LEMMA SweepStep ==
  ASSUME DCEInv, Sweep
  PROVE  DCEInv'
<1> DEFINE S(b) == {p \in Block : ~(p \in dead /\ b \in Range(succ[p]))}
<1>1. /\ at = N + 1 /\ walk = NoWalk /\ dead \cap graph # {}
      /\ graph' = graph \ dead
      /\ pred' = [b \in Block |-> Kept(pred[b], S(b))]
      /\ UNCHANGED <<succ, cond, phi, dead, at, walk, plain, header>>
  BY DEF Sweep
<1>2. TypeOK /\ ShapeInv /\ SweptInv /\ Coherent(Gone, pred, Stale)  BY DEF DCEInv
<1>3. ~Walking /\ Gone = dead /\ Stale = {}  BY <1>1 DEF Walking, Gone, Stale
<1>4. ~Walking' /\ Gone' = dead /\ Stale' = {}  BY <1>1 DEF Walking, Gone, Stale
<1>5. ASSUME NEW b \in Block
      PROVE  /\ pred'[b] \in Seq(Block)
             /\ NoRepeats(pred'[b])
             /\ \A p : p \in Range(pred'[b]) <=> p \in Range(pred[b]) /\ p \notin dead
  <2>1. pred[b] \in Seq(Block) /\ NoRepeats(pred[b])  BY <1>2 DEF TypeOK, ShapeInv
  <2>2. pred'[b] = Kept(pred[b], S(b))  BY <1>1
  <2>3. \A p \in Range(pred[b]) : p \in Block /\ b \in Range(succ[p])
    BY <1>2, <1>3, <2>1, RangeTyped DEF Coherent
  <2>4. \A p \in Range(pred[b]) : p \in S(b) <=> p \notin dead  BY <2>3
  <2> HIDE DEF S
  <2>5. /\ Kept(pred[b], S(b)) \in Seq(Block)
        /\ \A p : p \in Range(Kept(pred[b], S(b))) <=> p \in Range(pred[b]) /\ p \in S(b)
        /\ NoRepeats(Kept(pred[b], S(b)))
    BY <2>1, KeptElements
  <2> QED BY <2>2, <2>4, <2>5
<1>6. graph = Block  BY <1>1, <1>2 DEF SweptInv
<1> HIDE DEF S
<1>7. pred' \in [Block -> Seq(Block)]  BY <1>1, <1>5
<1>8. TypeOK'  BY <1>1, <1>2, <1>7 DEF TypeOK
<1>9. ShapeInv'  BY <1>1, <1>2, <1>5 DEF ShapeInv
<1>10. WalkInv'  BY <1>4 DEF WalkInv
<1>11. SweptInv'
  <2>1. \A b \in Block : Range(pred'[b]) \cap dead = {}  BY <1>5
  <2> QED BY <1>1, <1>4, <1>6, <2>1 DEF SweptInv
<1>12. Coherent(Gone, pred, Stale)'
  <2>1. \A p \in Block : \A b \in Range(succ[p]) : b \in Block
    <3>1. \A p \in Block : succ[p] \in Seq(Block)  BY <1>2 DEF TypeOK
    <3> QED BY <3>1, RangeTyped
  <2>2. Coherent(dead, pred, {})  BY <1>2, <1>3
  <2>3. \A b \in dead : \A p \in Range(pred'[b]) : p \in dead
    BY <1>5, <2>2 DEF Coherent
  <2>4. \A p \in Block \ dead : \A b \in Range(succ[p]) : p \in Range(pred'[b])
    BY <1>5, <2>1, <2>2 DEF Coherent
  <2>5. \A b \in Block : \A p \in Range(pred'[b]) : b \in Range(succ[p])
    BY <1>5, <2>2 DEF Coherent
  <2>6. dead \subseteq Block /\ 1 \notin dead  BY <2>2 DEF Coherent
  <2> QED BY <1>1, <1>4, <2>3, <2>4, <2>5, <2>6 DEF Coherent
<1> QED BY <1>8, <1>9, <1>10, <1>11, <1>12 DEF DCEInv

-----------------------------------------------------------------------------
(* The theorems. *)

LEMMA Stutter ==
  ASSUME DCEInv, UNCHANGED vars
  PROVE  DCEInv'
<1> USE DEF vars
<1>1. TypeOK' /\ ShapeInv'  BY DEF DCEInv, TypeOK, ShapeInv
<1>2. (Walking' <=> Walking) /\ Gone' = Gone /\ Stale' = Stale  BY DEF Walking, Gone, Stale
<1>3. WalkInv' /\ SweptInv'  BY <1>2 DEF DCEInv, WalkInv, SweptInv
<1>4. Coherent(Gone, pred, Stale)'  BY <1>2 DEF DCEInv, Coherent
<1> QED BY <1>1, <1>3, <1>4 DEF DCEInv

LEMMA Invariance == Spec => []DCEInv
<1>1. DCEInv /\ [Next]_vars => DCEInv'
  <2> SUFFICES ASSUME DCEInv, [Next]_vars PROVE DCEInv'
    OBVIOUS
  <2>1. CASE Skip  BY <2>1, SkipStep
  <2>2. CASE StartWalk  BY <2>2, StartWalkStep
  <2>3. CASE ReachLiveBlock  BY <2>3, ReachLiveBlockStep
  <2>4. CASE ReachLiveBlockAfterReturn  BY <2>4, ReachLiveBlockAfterReturnStep
  <2>5. CASE WalkOn  BY <2>5, WalkOnStep
  <2>6. CASE Sweep  BY <2>6, SweepStep
  <2>7. CASE UNCHANGED vars  BY <2>7, Stutter
  <2> QED BY <2>1, <2>2, <2>3, <2>4, <2>5, <2>6, <2>7 DEF Next
<1> QED BY InitInv, <1>1, PTL DEF Spec

(* DCEConditionals keeps to its types: marks, lists and phis hold blocks,  *)
(* and the two loops stay within the list of blocks.                       *)
THEOREM TypeCorrect == Spec => []TypeOK
<1>1. DCEInv => TypeOK  BY DEF DCEInv
<1> QED BY Invariance, <1>1, PTL

(* DCEConditionals removes no block that can still be reached, however     *)
(* many tests are folded and however their dead branches overlap.          *)
THEOREM ReachableKept == Spec => []KeepsReachable
<1>1. DCEInv => KeepsReachable
  <2> SUFFICES ASSUME DCEInv, Done PROVE Reachable(succ) \subseteq graph
    BY DEF KeepsReachable
  <2>1. ~Walking /\ dead \cap graph = {}  BY DEF Done, Walking
  <2>2. Gone = dead /\ Stale = {}  BY <2>1 DEF Gone, Stale
  <2>3. dead \subseteq Block /\ succ \in [Block -> Seq(Block)]  BY DEF DCEInv, TypeOK
  <2>4. graph = Block \ dead  BY <2>1, <2>3 DEF DCEInv, SweptInv
  <2>5. 1 \in Block \ dead  BY <2>2, BlockFacts DEF DCEInv, Coherent
  <2>6. ASSUME NEW p \in Block \ dead, NEW b \in Range(succ[p]) PROVE b \in Block \ dead
    <3>1. p \in Range(pred[b])  BY <2>2 DEF DCEInv, Coherent
    <3>2. b \notin dead  BY <2>2, <3>1 DEF DCEInv, Coherent
    <3>3. succ[p] \in Seq(Block)  BY <2>3
    <3> QED BY <3>2, <3>3, RangeTyped
  <2> QED BY <2>3, <2>4, <2>5, <2>6, ReachableWithin
<1> QED BY Invariance, <1>1, PTL

(* When DCEConditionals returns, the predecessor lists of the blocks that  *)
(* stay name exactly the blocks that stay and jump to them.                *)
THEOREM EdgesAgree == Spec => []EdgesMatch
<1>1. DCEInv => EdgesMatch
  <2> SUFFICES ASSUME DCEInv, Done, NEW b \in graph, NEW p
               PROVE  p \in Range(pred[b]) <=> p \in graph /\ b \in Range(succ[p])
    BY DEF EdgesMatch
  <2>1. ~Walking /\ dead \cap graph = {}  BY DEF Done, Walking
  <2>2. Gone = dead /\ Stale = {}  BY <2>1 DEF Gone, Stale
  <2>3. dead \subseteq Block /\ graph \subseteq Block /\ pred \in [Block -> Seq(Block)]
    BY DEF DCEInv, TypeOK
  <2>4. graph = Block \ dead /\ \A c \in Block : Range(pred[c]) \cap dead = {}
    BY <2>1, <2>3 DEF DCEInv, SweptInv
  <2>5. p \in graph /\ b \in Range(succ[p]) => p \in Range(pred[b])
    BY <2>2, <2>4 DEF DCEInv, Coherent
  <2>6. ASSUME p \in Range(pred[b]) PROVE p \in graph /\ b \in Range(succ[p])
    <3>1. b \in Block /\ pred[b] \in Seq(Block)  BY <2>3
    <3>2. p \in Block  BY <2>6, <3>1, RangeTyped
    <3>3. b \in Range(succ[p])  BY <2>2, <2>6, <3>1 DEF DCEInv, Coherent
    <3> QED BY <2>4, <2>6, <3>1, <3>2, <3>3
  <2> QED BY <2>5, <2>6
<1> QED BY Invariance, <1>1, PTL

=============================================================================
