---------------------- MODULE ConstantPropagation_proofs ----------------------
(***************************************************************************)
(* Proofs about the constant propagation pass, for graphs of any size and  *)
(* shape and constants of any range.                                       *)
(***************************************************************************)
EXTENDS ConstantPropagation, Iteration, TLAPS

-----------------------------------------------------------------------------
(* Operands and definitions. *)

(* An operand is a definition, a constant or opaque, and only one of them. *)
LEMMA ArgCases ==
  ASSUME NEW a \in Arg
  PROVE  \/ \E d \in Def : a = Ref(d)
         \/ \E v \in Value : a = Const(v)
         \/ a = Opaque
BY DEF Arg

LEMMA RefIsNoConst ==
  ASSUME NEW d, NEW v
  PROVE  /\ Ref(d) # Const(v)
         /\ Ref(d)[1] = "def" /\ Ref(d)[2] = d
         /\ Const(v)[1] = "const" /\ Const(v)[2] = v
BY DEF Ref, Const

LEMMA RefInjective ==
  ASSUME NEW d, NEW e, Ref(d) = Ref(e)
  PROVE  d = e
BY DEF Ref

LEMMA ConstInjective ==
  ASSUME NEW v, NEW w, Const(v) = Const(w)
  PROVE  v = w
BY DEF Const

LEMMA DefinitionFields ==
  ASSUME NEW g \in [Def -> MDefinition], NEW d \in Def
  PROVE  /\ g[d].kind \in {"phi", "add", "call"}
         /\ g[d].ops \in Arg \X Arg
         /\ g[d].ops[1] \in Arg
         /\ g[d].ops[2] \in Arg
         /\ g[d].ops = <<g[d].ops[1], g[d].ops[2]>>
         /\ \A i \in {1, 2} : g[d].ops[i] \in Arg
         /\ \A a : HasOperand(g, d, a) <=> \E i \in {1, 2} : g[d].ops[i] = a
<1> USE DEF MDefinition
<1>1. g[d] \in MDefinition  OBVIOUS
<1>2. g[d].kind \in {"phi", "add", "call"} /\ g[d].ops \in Arg \X Arg  BY <1>1
<1>3. g[d].ops[1] \in Arg /\ g[d].ops[2] \in Arg /\ g[d].ops = <<g[d].ops[1], g[d].ops[2]>>
  BY <1>2
<1> QED BY <1>2, <1>3 DEF HasOperand

(* ReplaceAllUses redirects the operands of live definitions and nothing else. *)
LEMMA ReplacedOperands ==
  ASSUME NEW g \in [Def -> MDefinition], NEW a, NEW b \in Arg
  PROVE  LET h == ReplaceAllUses(g, a, b)
         IN  /\ h \in [Def -> MDefinition]
             /\ \A d \in Def : h[d].kind = g[d].kind
             /\ \A d \in Def, i \in {1, 2} :
                  h[d].ops[i] = IF Live(d) /\ g[d].ops[i] = a THEN b ELSE g[d].ops[i]
<1> DEFINE h == ReplaceAllUses(g, a, b)
           op(d, i) == IF Live(d) /\ g[d].ops[i] = a THEN b ELSE g[d].ops[i]
<1>1. ASSUME NEW d \in Def
      PROVE  /\ h[d] \in MDefinition
             /\ h[d].kind = g[d].kind
             /\ h[d].ops = <<op(d, 1), op(d, 2)>>
  <2>1. h[d] = [g[d] EXCEPT !.ops = <<op(d, 1), op(d, 2)>>]
    BY DEF ReplaceAllUses
  <2>2. op(d, 1) \in Arg /\ op(d, 2) \in Arg  BY DefinitionFields
  <2>3. g[d] \in MDefinition  OBVIOUS
  <2> HIDE DEF h, op
  <2> QED BY <2>1, <2>2, <2>3 DEF MDefinition
<1>2. h = [d \in Def |-> h[d]]  BY DEF ReplaceAllUses
<1>3. h \in [Def -> MDefinition]
  <2> HIDE DEF h
  <2> QED BY <1>1, <1>2
<1>4. \A d \in Def : h[d].ops[1] = op(d, 1) /\ h[d].ops[2] = op(d, 2)
  <2> HIDE DEF h, op
  <2> QED BY <1>1
<1>5. \A d \in Def, i \in {1, 2} : h[d].ops[i] = op(d, i)
  <2> HIDE DEF h, op
  <2> QED BY <1>4
<1> HIDE DEF h
<1> QED BY <1>1, <1>3, <1>5 DEF h

(* The definition folds: foldsToConstant over an explicit graph. *)
FoldsTo(g, d, v) ==
  \/ g[d].kind = "phi" /\ g[d].ops = <<Const(v), Const(v)>>
  \/ g[d].kind = "add" /\ \E x, y \in Value : g[d].ops = <<Const(x), Const(y)>> /\ v = x + y

LEMMA FoldsToConstantCases ==
  ASSUME graph \in [Def -> MDefinition], NEW d \in Def
  PROVE  /\ foldsToConstant(d) # None =>
              foldsToConstant(d) \in Value /\ FoldsTo(graph, d, foldsToConstant(d))
         /\ foldsToConstant(d) = None => \A v \in Value : ~FoldsTo(graph, d, v)
<1> DEFINE both == {v \in Value : graph[d].ops = <<Const(v), Const(v)>>}
           sums == {s \in Value : \E v, w \in Value :
                      graph[d].ops = <<Const(v), Const(w)>> /\ s = v + w}
           r == CASE graph[d].kind = "phi" -> both
                  [] graph[d].kind = "add" -> sums
                  [] OTHER                 -> {}
<1>1. foldsToConstant(d) = IF r = {} THEN None ELSE CHOOSE v \in r : TRUE
  BY DEF foldsToConstant
<1>2. \A v : v \in r <=> v \in Value /\ FoldsTo(graph, d, v)
  <2>1. CASE graph[d].kind = "phi"  BY <2>1 DEF FoldsTo
  <2>2. CASE graph[d].kind = "add"  BY <2>2 DEF FoldsTo
  <2>3. CASE graph[d].kind = "call"  BY <2>3 DEF FoldsTo
  <2> QED BY <2>1, <2>2, <2>3, DefinitionFields
<1> HIDE DEF r
<1>3. None \notin Value  BY ItemAssumption
<1>4. r # {} => foldsToConstant(d) \in r  BY <1>1
<1> QED BY <1>1, <1>2, <1>3, <1>4

(* What FoldsTo says of single operands. *)
LEMMA FoldsToOperands ==
  ASSUME NEW g \in [Def -> MDefinition], NEW d \in Def, NEW v \in Value, FoldsTo(g, d, v)
  PROVE  /\ g[d].kind # "call"
         /\ \A i \in {1, 2} : \E x \in Value : g[d].ops[i] = Const(x)
BY DEF FoldsTo

LEMMA MinIsLeast ==
  ASSUME NEW S \in SUBSET Nat, S # {}
  PROVE  Min(S) \in S /\ \A y \in S : Min(S) <= y
<1>1. \E x \in S : \A y \in S : x <= y  BY LeastElement
<1> QED BY <1>1 DEF Min

-----------------------------------------------------------------------------
(* The reference values. *)

Values == [Def -> SUBSET (Value \cup {Opaque})]

LEMMA OneMoreTyped ==
  ASSUME NEW g \in [Def -> MDefinition], NEW r \in Values
  PROVE  OneMore(g, r) \in Values
<1>1. ASSUME NEW a \in Arg PROVE OperandValues(r, a) \subseteq Value \cup {Opaque}
  <2>1. CASE \E d \in Def : a = Ref(d)
    BY <2>1, RefIsNoConst DEF OperandValues, Values
  <2>2. CASE \E v \in Value : a = Const(v)
    BY <2>2, RefIsNoConst DEF OperandValues
  <2>3. CASE a = Opaque
    BY <2>3 DEF OperandValues
  <2> QED BY <2>1, <2>2, <2>3, ArgCases
<1>2. ASSUME NEW d \in Def, NEW A \in SUBSET (Value \cup {Opaque}),
             NEW B \in SUBSET (Value \cup {Opaque})
      PROVE  Results(g, d, A, B) \subseteq Value \cup {Opaque}
  BY DEF Results
<1>3. \A d \in Def : OneMore(g, r)[d] \subseteq Value \cup {Opaque}
  <2> SUFFICES ASSUME NEW d \in Def
               PROVE  OneMore(g, r)[d] \subseteq Value \cup {Opaque}
    OBVIOUS
  <2>1. OneMore(g, r)[d] = Results(g, d, OperandValues(r, g[d].ops[1]), OperandValues(r, g[d].ops[2]))
    BY DEF OneMore
  <2>2. g[d].ops[1] \in Arg /\ g[d].ops[2] \in Arg  BY DefinitionFields
  <2> QED BY <1>1, <1>2, <2>1, <2>2
<1> QED BY <1>3 DEF OneMore, Values

(* The recursion of Rounds is well defined: the first round knows no value *)
(* and each later one is one more application of OneMore.                  *)
LEMMA RoundsDef ==
  ASSUME NEW g \in [Def -> MDefinition]
  PROVE  /\ Rounds(g)[0] = [d \in Def |-> {}]
         /\ \A n \in Nat : Rounds(g)[n + 1] = OneMore(g, Rounds(g)[n])
         /\ Rounds(g) \in [Nat -> Values]
<1> DEFINE start == [d \in Def |-> {}]
           step == [n \in Nat |-> [r \in Values |-> OneMore(g, r)]]
<1>1. start \in Values  BY DEF Values
<1>2. step \in [Nat -> [Values -> Values]]  BY OneMoreTyped
<1> HIDE DEF start, step
<1>2a. PICK f : Iterates(f, Values, start, step)  BY <1>1, <1>2, IterationFunction
<1>3. f \in [Nat -> Values] /\ f[0] = start /\ \A n \in Nat : f[n + 1] = step[n][f[n]]
  BY <1>2a DEF Iterates
<1>4. \A n \in Nat : f[n + 1] = OneMore(g, f[n])  BY <1>3 DEF step
<1>5. \A n \in Nat : n # 0 => n - 1 \in Nat /\ f[n] = OneMore(g, f[n - 1])
  <2> SUFFICES ASSUME NEW n \in Nat, n # 0
               PROVE  n - 1 \in Nat /\ f[n] = OneMore(g, f[n - 1])
    OBVIOUS
  <2>1. n - 1 \in Nat /\ (n - 1) + 1 = n  OBVIOUS
  <2> QED BY <1>4, <2>1
<1>6. f = [n \in Nat |-> IF n = 0 THEN start ELSE OneMore(g, f[n - 1])]
  BY <1>3, <1>5
<1> DEFINE IsRounds(h) == h = [n \in Nat |-> IF n = 0 THEN [d \in Def |-> {}] ELSE OneMore(g, h[n - 1])]
<1>7. Rounds(g) = CHOOSE h : IsRounds(h)  BY DEF Rounds
<1>8. IsRounds(f)  BY <1>6 DEF start
<1> HIDE DEF IsRounds
<1>9. IsRounds(Rounds(g))  BY <1>7, <1>8
<1> DEFINE R == Rounds(g)
<1>10. R = [n \in Nat |-> IF n = 0 THEN [d \in Def |-> {}] ELSE OneMore(g, R[n - 1])]
  BY <1>9 DEF IsRounds
<1> HIDE DEF R
<1>11. R[0] = start  BY <1>10 DEF start
<1>12. ASSUME NEW n \in Nat PROVE R[n + 1] = OneMore(g, R[n])
  <2>1. n + 1 \in Nat /\ n + 1 # 0 /\ (n + 1) - 1 = n  OBVIOUS
  <2> QED BY <1>10, <2>1
<1> DEFINE T == {n \in Nat : R[n] \in Values}
<1>13. \A n \in Nat : n \in T
  <2>1. 0 \in T  BY <1>1, <1>11
  <2>2. \A n \in Nat : n \in T => n + 1 \in T  BY <1>12, OneMoreTyped
  <2> HIDE DEF T
  <2> QED BY <2>1, <2>2, SetInduction
<1>14. R \in [Nat -> Values]  BY <1>10, <1>13
<1> QED BY <1>11, <1>12, <1>14 DEF R, start

-----------------------------------------------------------------------------
(* Items. *)

(* OperandItem over an explicit graph. *)
Item(g, m, a) ==
  IF a \in {Const(v) : v \in Value} THEN a[2]
  ELSE IF a # Opaque /\ g[a[2]].kind = "phi"
  THEN IF m[a[2]] = None THEN Bottom ELSE m[a[2]]
  ELSE Top

Items == [Def -> PhiItem \cup {None}]

LEMMA ItemCases ==
  ASSUME NEW g, NEW m
  PROVE  /\ \A v \in Value : Item(g, m, Const(v)) = v
         /\ \A d \in Def : Item(g, m, Ref(d)) =
              IF g[d].kind = "phi" THEN IF m[d] = None THEN Bottom ELSE m[d] ELSE Top
         /\ Item(g, m, Opaque) = Top
<1>1. \A v \in Value : Item(g, m, Const(v)) = v
  BY RefIsNoConst DEF Item
<1>2. ASSUME NEW d \in Def
      PROVE Item(g, m, Ref(d)) =
              IF g[d].kind = "phi" THEN IF m[d] = None THEN Bottom ELSE m[d] ELSE Top
  <2>1. Ref(d) \notin {Const(v) : v \in Value} /\ Ref(d)[2] = d  BY RefIsNoConst
  <2>2. Ref(d) # Opaque  BY OpaqueAssumption
  <2> QED BY <2>1, <2>2 DEF Item
<1>3. Item(g, m, Opaque) = Top
  <2>1. Opaque \notin {Const(v) : v \in Value}  BY OpaqueAssumption
  <2> QED BY <2>1 DEF Item
<1> QED BY <1>1, <1>2, <1>3

LEMMA ItemTyped ==
  ASSUME NEW g, NEW m \in Items, NEW a \in Arg
  PROVE  Item(g, m, a) \in PhiItem
<1>1. CASE \E d \in Def : a = Ref(d)
  BY <1>1, ItemCases DEF Items, PhiItem
<1>2. CASE \E v \in Value : a = Const(v)
  BY <1>2, ItemCases DEF PhiItem
<1>3. CASE a = Opaque
  BY <1>3, ItemCases DEF PhiItem
<1> QED BY <1>1, <1>2, <1>3, ArgCases

LEMMA PropagateTyped ==
  ASSUME NEW x \in PhiItem, NEW y \in PhiItem
  PROVE  propagate(x, y) \in PhiItem
BY DEF propagate, PhiItem

(* An item only rises: if two operands leave it where it was, so did each. *)
LEMMA PropagateStable ==
  ASSUME NEW x \in PhiItem, NEW y \in PhiItem, NEW z \in PhiItem,
         propagate(propagate(x, y), z) = x
  PROVE  /\ propagate(x, y) = x
         /\ x = Top \/ (y \in {Bottom, x} /\ z \in {Bottom, x})
BY ItemAssumption DEF propagate, PhiItem

LEMMA PropagateBottom ==
  ASSUME NEW x \in PhiItem, NEW y \in PhiItem, propagate(x, y) = Bottom
  PROVE  x = Bottom /\ y = Bottom
BY ItemAssumption DEF propagate, PhiItem

LEMMA PropagateWithin ==
  ASSUME NEW v \in Value, NEW x \in {Bottom, v}, NEW y \in {Bottom, v}
  PROVE  propagate(x, y) \in {Bottom, v}
BY ItemAssumption DEF propagate, PhiItem

(* What one visit of solvePhiCycles does to the map. *)
LEMMA AnalyzedMap ==
  ASSUME graph \in [Def -> MDefinition], NEW m \in Items, NEW d \in Def, m[d] # None
  PROVE  LET h == analyzePhi(m, d)
             first == propagate(m[d], Item(graph, m, graph[d].ops[1]))
             n == [WithOperands(m, d) EXCEPT ![d] = first]
         IN  /\ h \in Items
             /\ n \in Items
             /\ first \in PhiItem
             /\ n[d] = first
             /\ h[d] = propagate(first, Item(graph, n, graph[d].ops[2]))
             /\ \A e \in Def \ {d} :
                  /\ h[e] = IF m[e] = None /\ isPhi(e) /\ HasOperand(graph, d, Ref(e))
                            THEN Bottom ELSE m[e]
                  /\ n[e] = h[e]
<1> DEFINE h == analyzePhi(m, d)
           first == propagate(m[d], Item(graph, m, graph[d].ops[1]))
           w == WithOperands(m, d)
           n == [w EXCEPT ![d] = first]
           second == propagate(first, Item(graph, n, graph[d].ops[2]))
<1>1. \A k, a : OperandItem(k, a) = Item(graph, k, a)
  BY DEF OperandItem, Item, isPhi
<1>2. h = [n EXCEPT ![d] = second]
  BY <1>1 DEF analyzePhi
<1>3. w = [e \in Def |-> IF m[e] = None /\ isPhi(e) /\ HasOperand(graph, d, Ref(e))
                         THEN Bottom ELSE m[e]]
  BY DEF WithOperands
<1>4. first \in PhiItem
  <2>1. m[d] \in PhiItem  BY DEF Items
  <2> QED BY <2>1, ItemTyped, PropagateTyped, DefinitionFields
<1> HIDE DEF first, w
<1>5. w \in Items
  <2>1. Bottom \in PhiItem  BY DEF PhiItem
  <2> QED BY <1>3, <2>1 DEF Items
<1>6. n \in Items  BY <1>4, <1>5 DEF Items
<1>7. n[d] = first /\ \A e \in Def \ {d} : n[e] = w[e]  BY <1>5 DEF Items
<1> HIDE DEF n
<1>8. second \in PhiItem  BY <1>4, <1>6, ItemTyped, PropagateTyped, DefinitionFields
<1> HIDE DEF second
<1>9. h \in Items /\ h[d] = second /\ \A e \in Def \ {d} : h[e] = n[e]
  <2> HIDE DEF h
  <2> QED BY <1>2, <1>6, <1>8 DEF Items
<1>10. \A e \in Def \ {d} : w[e] = IF m[e] = None /\ isPhi(e) /\ HasOperand(graph, d, Ref(e))
                                   THEN Bottom ELSE m[e]
  BY <1>3
<1> HIDE DEF h
<1> QED BY <1>4, <1>6, <1>7, <1>9, <1>10 DEF h, first, w, n, second

(* A visit that leaves the item of its phi alone leaves every item alone,  *)
(* and finds the operands in agreement with the phi.                       *)
LEMMA QuietVisit ==
  ASSUME graph \in [Def -> MDefinition], NEW m \in Items, NEW d \in Def, m[d] # None,
         analyzePhi(m, d)[d] = m[d]
  PROVE  /\ \A a \in Arg : Item(graph, analyzePhi(m, d), a) = Item(graph, m, a)
         /\ \/ m[d] = Top
            \/ \A i \in {1, 2} : Item(graph, m, graph[d].ops[i]) \in {Bottom, m[d]}
<1> DEFINE h == analyzePhi(m, d)
           first == propagate(m[d], Item(graph, m, graph[d].ops[1]))
           n == [WithOperands(m, d) EXCEPT ![d] = first]
<1>1. /\ n \in Items
      /\ n[d] = first
      /\ h[d] = propagate(first, Item(graph, n, graph[d].ops[2]))
      /\ \A e \in Def \ {d} :
           /\ h[e] = IF m[e] = None /\ isPhi(e) /\ HasOperand(graph, d, Ref(e))
                     THEN Bottom ELSE m[e]
           /\ n[e] = h[e]
  BY AnalyzedMap
<1>2. m[d] \in PhiItem  BY DEF Items
<1>3. graph[d].ops[1] \in Arg /\ graph[d].ops[2] \in Arg  BY DefinitionFields
<1> HIDE DEF n, h
<1>4. /\ Item(graph, m, graph[d].ops[1]) \in PhiItem
      /\ Item(graph, n, graph[d].ops[2]) \in PhiItem
  BY <1>1, <1>3, ItemTyped
<1>5. h[d] = m[d]  BY DEF h
<1>6. /\ first = m[d]
      /\ \/ m[d] = Top
         \/ /\ Item(graph, m, graph[d].ops[1]) \in {Bottom, m[d]}
            /\ Item(graph, n, graph[d].ops[2]) \in {Bottom, m[d]}
  <2>1. propagate(propagate(m[d], Item(graph, m, graph[d].ops[1])),
                  Item(graph, n, graph[d].ops[2])) = m[d]
    BY <1>1, <1>5
  <2> QED BY <1>2, <1>4, <2>1, PropagateStable
<1> HIDE DEF first
<1>7. ASSUME NEW k, \A e \in Def : k[e] = m[e] \/ (m[e] = None /\ k[e] = Bottom), NEW a \in Arg
      PROVE  Item(graph, k, a) = Item(graph, m, a)
  <2>1. CASE \E e \in Def : a = Ref(e)
    <3>1. PICK e \in Def : a = Ref(e)  BY <2>1
    <3>2. k[e] = m[e] \/ (m[e] = None /\ k[e] = Bottom)  BY <1>7
    <3>3. Bottom # None  BY ItemAssumption
    <3>4. /\ Item(graph, k, Ref(e)) =
               IF graph[e].kind = "phi" THEN IF k[e] = None THEN Bottom ELSE k[e] ELSE Top
          /\ Item(graph, m, Ref(e)) =
               IF graph[e].kind = "phi" THEN IF m[e] = None THEN Bottom ELSE m[e] ELSE Top
      BY ItemCases
    <3> QED BY <3>1, <3>2, <3>3, <3>4
  <2>2. CASE \E v \in Value : a = Const(v)  BY <2>2, ItemCases
  <2>3. CASE a = Opaque  BY <2>3, ItemCases
  <2> QED BY <2>1, <2>2, <2>3, ArgCases
<1>8. \A e \in Def : h[e] = m[e] \/ (m[e] = None /\ h[e] = Bottom)  BY <1>1, <1>5
<1>9. \A e \in Def : n[e] = m[e] \/ (m[e] = None /\ n[e] = Bottom)  BY <1>1, <1>5, <1>6
<1>10. \A a \in Arg : Item(graph, h, a) = Item(graph, m, a)  BY <1>7, <1>8
<1>11. Item(graph, n, graph[d].ops[2]) = Item(graph, m, graph[d].ops[2])  BY <1>3, <1>7, <1>9
<1> QED BY <1>6, <1>10, <1>11 DEF h

(* An item with a constant among its operands does not stay Bottom. *)
LEMMA ConstantRaises ==
  ASSUME graph \in [Def -> MDefinition], NEW m \in Items, NEW d \in Def, m[d] # None,
         NEW v \in Value, HasOperand(graph, d, Const(v))
  PROVE  analyzePhi(m, d)[d] # Bottom
<1> DEFINE h == analyzePhi(m, d)
           first == propagate(m[d], Item(graph, m, graph[d].ops[1]))
           n == [WithOperands(m, d) EXCEPT ![d] = first]
<1>1. /\ n \in Items
      /\ first \in PhiItem
      /\ h[d] = propagate(first, Item(graph, n, graph[d].ops[2]))
  BY AnalyzedMap
<1>2. m[d] \in PhiItem  BY DEF Items
<1>3. graph[d].ops[1] \in Arg /\ graph[d].ops[2] \in Arg  BY DefinitionFields
<1> HIDE DEF n, h
<1>4. /\ Item(graph, m, graph[d].ops[1]) \in PhiItem
      /\ Item(graph, n, graph[d].ops[2]) \in PhiItem
  BY <1>1, <1>3, ItemTyped
<1>5. graph[d].ops[1] = Const(v) \/ graph[d].ops[2] = Const(v)  BY DEF HasOperand
<1>6. v # Bottom  BY ItemAssumption
<1>7. /\ Item(graph, m, Const(v)) = v
      /\ Item(graph, n, Const(v)) = v
  BY ItemCases
<1>8. ASSUME h[d] = Bottom PROVE FALSE
  <2>1. first = Bottom /\ Item(graph, n, graph[d].ops[2]) = Bottom
    <3> HIDE DEF first
    <3> QED BY <1>1, <1>4, <1>8, PropagateBottom
  <2>2. Item(graph, m, graph[d].ops[1]) = Bottom
    BY <1>2, <1>4, <2>1, PropagateBottom
  <2> QED BY <1>5, <1>6, <1>7, <2>1, <2>2
<1> QED BY <1>8 DEF h

(* A phi fed by one constant only has an item at or below that constant. *)
LEMMA CycleVisit ==
  ASSUME graph \in [Def -> MDefinition], NEW m \in Items, NEW d \in Def,
         NEW v \in Value, m[d] \in {Bottom, v},
         \A i \in {1, 2} : \/ graph[d].ops[i] = Const(v)
                          \/ \E e \in Def : /\ graph[d].ops[i] = Ref(e)
                                            /\ graph[e].kind = "phi"
                                            /\ m[e] \in {None, Bottom, v}
  PROVE  analyzePhi(m, d)[d] \in {Bottom, v}
<1> DEFINE h == analyzePhi(m, d)
           first == propagate(m[d], Item(graph, m, graph[d].ops[1]))
           n == [WithOperands(m, d) EXCEPT ![d] = first]
<1>0. m[d] # None  BY ItemAssumption
<1>1. /\ n[d] = first
      /\ h[d] = propagate(first, Item(graph, n, graph[d].ops[2]))
      /\ \A e \in Def \ {d} :
           /\ h[e] = IF m[e] = None /\ isPhi(e) /\ HasOperand(graph, d, Ref(e))
                     THEN Bottom ELSE m[e]
           /\ n[e] = h[e]
  BY <1>0, AnalyzedMap
<1>2. ASSUME NEW k, NEW i \in {1, 2}, \A e \in Def : m[e] \in {None, Bottom, v} => k[e] \in {None, Bottom, v}
      PROVE  Item(graph, k, graph[d].ops[i]) \in {Bottom, v}
  <2>1. CASE graph[d].ops[i] = Const(v)
    <3>1. Item(graph, k, Const(v)) = v  BY ItemCases
    <3> QED BY <2>1, <3>1
  <2>2. ASSUME NEW e \in Def, graph[d].ops[i] = Ref(e), graph[e].kind = "phi", m[e] \in {None, Bottom, v}
        PROVE  Item(graph, k, graph[d].ops[i]) \in {Bottom, v}
    <3>1. k[e] \in {None, Bottom, v}  BY <1>2, <2>2
    <3>2. Item(graph, k, Ref(e)) = IF k[e] = None THEN Bottom ELSE k[e]  BY <2>2, ItemCases
    <3> QED BY <2>2, <3>1, <3>2
  <2> QED BY <2>1, <2>2
<1>3. Item(graph, m, graph[d].ops[1]) \in {Bottom, v}  BY <1>2
<1>4. first \in {Bottom, v}  BY <1>3, PropagateWithin
<1> HIDE DEF first, n, h
<1>5. \A e \in Def : m[e] \in {None, Bottom, v} => n[e] \in {None, Bottom, v}
  BY <1>1, <1>4
<1>6. Item(graph, n, graph[d].ops[2]) \in {Bottom, v}  BY <1>2, <1>5
<1>7. h[d] \in {Bottom, v}  BY <1>1, <1>4, <1>6, PropagateWithin
<1> QED BY <1>7 DEF h

-----------------------------------------------------------------------------
(* The inductive invariant. *)

KindsKept == \A d \in Def : graph[d].kind = source[d].kind

(* An operand of the graph can take every value the operand of the source  *)
(* graph in its place can take.                                            *)
OperandsCover ==
  ~guessed => \A d \in Def, i \in {1, 2}, n \in Nat :
    OperandValues(Rounds(source)[n], source[d].ops[i])
      \subseteq OperandValues(Rounds(source)[n], graph[d].ops[i])

FoldedSound ==
  ~guessed => \A d \in Def, n \in Nat :
    folded[d] # None => Rounds(source)[n][d] \subseteq {folded[d]}

MapHoldsPhis == \A d \in Def : phiMap[d] # None => graph[d].kind = "phi"

PhaseInv ==
  /\ phase # "sweep" => cursor = 0
  /\ phase = "fold" => ~updated /\ \A d \in Def : phiMap[d] \in {None, Bottom}
  /\ phase \in {"sweep", "done"} => workList = {}
  /\ phase = "done" => \A d \in Def : phiMap[d] = None

(* Whatever can be folded is on the worklist. *)
FoldableListed ==
  phase # "aborted" =>
    \A d \in Def, v \in Value : folded[d] = None /\ FoldsTo(graph, d, v) => d \in workList

(* The phis this sweep has passed agree with their operands, and their     *)
(* phi operands are in the map, unless an item has changed since.          *)
Stable(d) ==
  \/ phiMap[d] = Top
  \/ \A i \in {1, 2} : Item(graph, phiMap, graph[d].ops[i]) \in {Bottom, phiMap[d]}

VisitedStable ==
  phase = "sweep" => \A d \in visited :
    /\ phiMap[d] # None
    /\ \A e \in Def : HasOperand(graph, d, Ref(e)) /\ graph[e].kind = "phi" => phiMap[e] # None
    /\ ~updated /\ d <= cursor => Stable(d)

(* Phis that feed each other one constant. *)
Closed(S, v) ==
  \A d \in S :
    /\ folded[d] = None
    /\ graph[d].kind = "phi"
    /\ \A i \in {1, 2} : graph[d].ops[i] = Const(v) \/ \E e \in S : graph[d].ops[i] = Ref(e)

CycleItems ==
  phase # "aborted" =>
    \A S \in SUBSET Def, v \in Value : Closed(S, v) => \A d \in S : phiMap[d] \in {None, Bottom, v}

(* The pass has still to look at d, or has found it not to be Bottom. *)
Awake(d) ==
  \/ d \in workList
  \/ phiMap[d] # None /\ (phiMap[d] # Bottom \/ d > cursor)

(* Where a constant enters such a set of phis, the pass knows of it. *)
CyclesListed ==
  phase # "aborted" =>
    \A S \in SUBSET Def, v \in Value :
      Closed(S, v) /\ (\E d \in S : HasOperand(graph, d, Const(v)))
        => \E e \in S : HasOperand(graph, e, Const(v)) /\ Awake(e)

CPInv ==
  /\ TypeOK
  /\ KindsKept
  /\ OperandsCover
  /\ FoldedSound
  /\ MapHoldsPhis
  /\ PhaseInv
  /\ FoldableListed
  /\ VisitedStable
  /\ CycleItems
  /\ CyclesListed

LEMMA InitInv == Init => CPInv
<1> SUFFICES ASSUME Init PROVE CPInv
  OBVIOUS
<1> USE DEF Init
<1>1. source \in [Def -> MDefinition] /\ graph \in [Def -> MDefinition]
  BY GraphAssumption
<1>2. TypeOK
  <2>1. \A v \in Value : Uses(graph, Const(v)) \subseteq {d \in Def : Live(d)}  BY DEF Uses
  <2>2. workList \subseteq {d \in Def : Live(d)}  BY <2>1
  <2> QED BY <1>1, <2>2 DEF TypeOK
<1>3. KindsKept /\ MapHoldsPhis /\ PhaseInv
  BY DEF KindsKept, MapHoldsPhis, PhaseInv
<1>4. OperandsCover /\ FoldedSound  BY DEF OperandsCover, FoldedSound
<1>5. \A d \in Def, v \in Value :
        HasOperand(graph, d, Const(v)) /\ graph[d].kind # "call" => d \in workList
  BY DEF Uses, Live, isBlacklisted
<1>6. FoldableListed
  <2> SUFFICES ASSUME NEW d \in Def, NEW v \in Value, FoldsTo(graph, d, v)
               PROVE  d \in workList
    BY DEF FoldableListed
  <2>1. graph[d].kind # "call"  BY <1>1, FoldsToOperands
  <2>2. PICK x \in Value : graph[d].ops[1] = Const(x)  BY <1>1, FoldsToOperands
  <2>3. HasOperand(graph, d, Const(x))  BY <2>2 DEF HasOperand
  <2> QED BY <1>5, <2>1, <2>3
<1>7. VisitedStable  BY DEF VisitedStable
<1>8. CycleItems  BY DEF CycleItems
<1>9. CyclesListed
  <2> SUFFICES ASSUME NEW S \in SUBSET Def, NEW v \in Value, Closed(S, v),
                      NEW d \in S, HasOperand(graph, d, Const(v))
               PROVE  \E e \in S : HasOperand(graph, e, Const(v)) /\ Awake(e)
    BY DEF CyclesListed
  <2>1. graph[d].kind = "phi"  BY DEF Closed
  <2>2. d \in workList  BY <1>5, <2>1
  <2> QED BY <2>2 DEF Awake
<1> QED BY <1>2, <1>3, <1>4, <1>6, <1>7, <1>8, <1>9 DEF CPInv

(* A definition that folds takes no value but its constant in any round. *)
LEMMA FoldSound ==
  ASSUME CPInv, ~guessed, NEW d \in Def, NEW v \in Value, FoldsTo(graph, d, v), NEW n \in Nat
  PROVE  Rounds(source)[n][d] \subseteq {v}
<1> DEFINE R == Rounds(source)
<1>1. source \in [Def -> MDefinition] /\ graph \in [Def -> MDefinition]  BY DEF CPInv, TypeOK
<1>2. CASE n = 0
  <2>1. R[0] = [e \in Def |-> {}]  BY <1>1, RoundsDef
  <2> QED BY <1>2, <2>1
<1>3. CASE n # 0
  <2>1. n - 1 \in Nat /\ (n - 1) + 1 = n  BY <1>3
  <2> DEFINE r == R[n - 1]
             A == OperandValues(r, source[d].ops[1])
             B == OperandValues(r, source[d].ops[2])
  <2>2. R[n] = OneMore(source, r)  BY <1>1, <2>1, RoundsDef
  <2>3. R[n][d] = Results(source, d, A, B)  BY <2>2 DEF OneMore
  <2>4. A \subseteq OperandValues(r, graph[d].ops[1]) /\ B \subseteq OperandValues(r, graph[d].ops[2])
    BY <2>1 DEF CPInv, OperandsCover
  <2>5. source[d].kind = graph[d].kind  BY DEF CPInv, KindsKept
  <2> HIDE DEF A, B, r
  <2>6. \A x \in Value : OperandValues(r, Const(x)) = {x}
    BY RefIsNoConst, OpaqueAssumption DEF OperandValues
  <2>7. CASE graph[d].kind = "phi" /\ graph[d].ops = <<Const(v), Const(v)>>
    <3>1. A \subseteq {v} /\ B \subseteq {v}  BY <2>4, <2>6, <2>7
    <3> QED BY <2>3, <2>5, <2>7, <3>1 DEF Results
  <2>8. CASE graph[d].kind = "add" /\ \E x, y \in Value : graph[d].ops = <<Const(x), Const(y)>> /\ v = x + y
    <3>1. PICK x \in Value, y \in Value : graph[d].ops = <<Const(x), Const(y)>> /\ v = x + y
      BY <2>8
    <3>2. A \subseteq {x} /\ B \subseteq {y}  BY <2>4, <2>6, <3>1
    <3>3. Opaque \notin A \cup B  BY <3>2, OpaqueAssumption
    <3>4. R[n][d] = {s \in Value : \E a \in A \ {Opaque}, b \in B \ {Opaque} : s = a + b}
      BY <2>3, <2>5, <2>8, <3>3 DEF Results
    <3>5. \A s : s \in R[n][d] => s = x + y  BY <3>2, <3>4
    <3> QED BY <3>1, <3>5
  <2> QED BY <2>7, <2>8 DEF FoldsTo
<1> QED BY <1>2, <1>3

LEMMA FoldStep ==
  ASSUME CPInv, NEW d \in Def, Fold(d)
  PROVE  CPInv'
<1> DEFINE v == foldsToConstant(d)
<1>1. /\ phase = "fold" /\ workList # {} /\ d = Min(workList)
      /\ v # None
      /\ workList' = (workList \ {d}) \cup Uses(graph, Ref(d))
      /\ graph' = ReplaceAllUses(graph, Ref(d), Const(v))
      /\ folded' = [folded EXCEPT ![d] = v]
      /\ UNCHANGED <<source, phiMap, cursor, updated, phase, visited, guessed>>
  BY DEF Fold, Analyzed
<1>2. TypeOK  BY DEF CPInv
<1>3. source \in [Def -> MDefinition] /\ graph \in [Def -> MDefinition]  BY <1>2 DEF TypeOK
<1>4. v \in Value /\ FoldsTo(graph, d, v)  BY <1>1, <1>3, FoldsToConstantCases
<1> HIDE DEF v
<1>5. d \in workList /\ folded[d] = None
  <2>1. workList \in SUBSET Nat  BY <1>2, SizeAssumption DEF TypeOK, Def
  <2> QED BY <1>1, <1>2, <2>1, MinIsLeast DEF TypeOK, Live
<1>6. Const(v) \in Arg /\ Ref(d) \in Arg  BY <1>4 DEF Arg
<1>7. /\ graph' \in [Def -> MDefinition]
      /\ \A e \in Def : graph'[e].kind = graph[e].kind
      /\ \A e \in Def, i \in {1, 2} :
           graph'[e].ops[i] = IF folded[e] = None /\ graph[e].ops[i] = Ref(d)
                              THEN Const(v) ELSE graph[e].ops[i]
  BY <1>1, <1>3, <1>6, ReplacedOperands DEF Live
<1>8. /\ folded' \in [Def -> Value \cup {None}]
      /\ folded'[d] = v
      /\ \A e \in Def \ {d} : folded'[e] = folded[e]
  BY <1>1, <1>2, <1>4 DEF TypeOK
<1>9. None \notin Value  BY ItemAssumption
<1>10. ~HasOperand(graph, d, Ref(d))
  BY <1>3, <1>4, FoldsToOperands, RefIsNoConst DEF HasOperand
<1>11. TypeOK'
  <2>1. \A e \in workList' : e \in Def /\ e # d /\ folded[e] = None
    BY <1>1, <1>2, <1>10 DEF TypeOK, Uses, Live
  <2>2. workList' \subseteq {e \in Def : Live(e)'}  BY <1>8, <2>1 DEF Live
  <2> QED BY <1>1, <1>2, <1>7, <1>8, <2>2 DEF TypeOK, Live
<1>12. KindsKept'  BY <1>1, <1>7 DEF CPInv, KindsKept
<1>13. \A n \in Nat : ~guessed => Rounds(source)[n][d] \subseteq {v}
  BY <1>4, FoldSound
<1>14. OperandsCover'
  <2> SUFFICES ASSUME ~guessed, NEW e \in Def, NEW i \in {1, 2}, NEW n \in Nat
               PROVE  OperandValues(Rounds(source)[n], source[e].ops[i])
                        \subseteq OperandValues(Rounds(source)[n], graph'[e].ops[i])
    BY <1>1 DEF OperandsCover
  <2>1. OperandValues(Rounds(source)[n], source[e].ops[i])
          \subseteq OperandValues(Rounds(source)[n], graph[e].ops[i])
    BY DEF CPInv, OperandsCover
  <2>2. OperandValues(Rounds(source)[n], Ref(d)) = Rounds(source)[n][d]
    BY RefIsNoConst, OpaqueAssumption DEF OperandValues
  <2>3. OperandValues(Rounds(source)[n], Const(v)) = {v}
    BY <1>4, RefIsNoConst, OpaqueAssumption DEF OperandValues
  <2> QED BY <1>7, <1>13, <2>1, <2>2, <2>3
<1>15. FoldedSound'
  <2> SUFFICES ASSUME ~guessed, NEW e \in Def, NEW n \in Nat, folded'[e] # None
               PROVE  Rounds(source)[n][e] \subseteq {folded'[e]}
    BY <1>1 DEF FoldedSound
  <2>1. CASE e = d  BY <1>8, <1>13, <2>1
  <2>2. CASE e # d  BY <1>8, <2>2 DEF CPInv, FoldedSound
  <2> QED BY <2>1, <2>2
<1>16. MapHoldsPhis'  BY <1>1, <1>7 DEF CPInv, MapHoldsPhis
<1>17. PhaseInv'  BY <1>1 DEF CPInv, PhaseInv
<1>18. ASSUME NEW e \in Def, e # d, folded[e] = None, graph[e].kind # "call", NEW i \in {1, 2},
              graph[e].ops[i] = Ref(d)
       PROVE  e \in workList'
  BY <1>1, <1>18 DEF Uses, Live, HasOperand, isBlacklisted
<1>19. FoldableListed'
  <2> SUFFICES ASSUME NEW e \in Def, NEW x \in Value, folded'[e] = None, FoldsTo(graph', e, x)
               PROVE  e \in workList'
    BY DEF FoldableListed
  <2>1. e # d /\ folded[e] = None  BY <1>4, <1>8, <1>9
  <2>2. CASE \E i \in {1, 2} : graph[e].ops[i] = Ref(d)
    <3>1. graph[e].kind # "call"  BY <1>7, FoldsToOperands
    <3> QED BY <1>18, <2>1, <2>2, <3>1
  <2>3. CASE \A i \in {1, 2} : graph[e].ops[i] # Ref(d)
    <3>1. graph'[e].ops = graph[e].ops  BY <1>3, <1>7, <2>3, DefinitionFields
    <3>2. FoldsTo(graph, e, x)  BY <1>7, <3>1 DEF FoldsTo
    <3>3. e \in workList  BY <1>1, <2>1, <3>2 DEF CPInv, FoldableListed
    <3> QED BY <1>1, <2>1, <3>3
  <2> QED BY <2>2, <2>3
<1>20. VisitedStable'  BY <1>1 DEF VisitedStable
<1>21. CycleItems'
  BY <1>1 DEF CPInv, PhaseInv, CycleItems
<1>22. CyclesListed'
  <2> SUFFICES ASSUME NEW S \in SUBSET Def, NEW x \in Value, Closed(S, x)',
                      NEW c \in S, HasOperand(graph', c, Const(x))
               PROVE  \E e \in S : HasOperand(graph', e, Const(x)) /\ Awake(e)'
    BY DEF CyclesListed
  <2>1. d \notin S  BY <1>4, <1>8, <1>9 DEF Closed
  <2>2. \A e \in S : /\ e \in Def /\ folded[e] = None /\ graph[e].kind = "phi"
                     /\ \A i \in {1, 2} : \/ graph'[e].ops[i] = Const(x)
                                          \/ \E f \in S : graph'[e].ops[i] = Ref(f)
    BY <1>7, <1>8, <2>1 DEF Closed
  <2>3. CASE \E e \in S, i \in {1, 2} : graph[e].ops[i] = Ref(d)
    <3>1. PICK e \in S, i \in {1, 2} : graph[e].ops[i] = Ref(d)  BY <2>3
    <3>2. graph'[e].ops[i] = Const(v)  BY <1>7, <2>2, <3>1
    <3>3. graph'[e].ops[i] = Const(x)  BY <2>2, <3>2, RefIsNoConst
    <3>4. HasOperand(graph', e, Const(x))  BY <3>3 DEF HasOperand
    <3>5. e \in workList'  BY <1>18, <2>1, <2>2, <3>1
    <3> QED BY <3>4, <3>5 DEF Awake
  <2>4. CASE \A e \in S, i \in {1, 2} : graph[e].ops[i] # Ref(d)
    <3>1. \A e \in S, i \in {1, 2} : graph'[e].ops[i] = graph[e].ops[i]  BY <1>7, <2>4
    <3>2. Closed(S, x)  BY <2>2, <3>1 DEF Closed
    <3>3. \A e \in S : HasOperand(graph', e, Const(x)) <=> HasOperand(graph, e, Const(x))
      BY <3>1 DEF HasOperand
    <3>4. PICK e \in S : HasOperand(graph, e, Const(x)) /\ Awake(e)
      BY <1>1, <3>2, <3>3 DEF CPInv, CyclesListed
    <3>5. Awake(e)'  BY <1>1, <2>1, <3>4 DEF Awake
    <3> QED BY <3>3, <3>4, <3>5
  <2> QED BY <2>3, <2>4
<1> QED BY <1>11, <1>12, <1>14, <1>15, <1>16, <1>17, <1>19, <1>20, <1>21, <1>22 DEF CPInv

LEMMA KeepStep ==
  ASSUME CPInv, NEW d \in Def, Keep(d)
  PROVE  CPInv'
<1>1. /\ phase = "fold" /\ workList # {} /\ d = Min(workList)
      /\ foldsToConstant(d) = None
      /\ workList' = workList \ {d}
      /\ phiMap' = [phiMap EXCEPT ![d] = IF isPhi(d) /\ @ = None THEN Bottom ELSE @]
      /\ UNCHANGED <<source, graph, folded, cursor, updated, phase, visited, guessed>>
  BY DEF Keep, Analyzed
<1>2. TypeOK  BY DEF CPInv
<1>3. source \in [Def -> MDefinition] /\ graph \in [Def -> MDefinition]  BY <1>2 DEF TypeOK
<1>4. /\ phiMap' \in [Def -> PhiItem \cup {None}]
      /\ phiMap'[d] = IF graph[d].kind = "phi" /\ phiMap[d] = None THEN Bottom ELSE phiMap[d]
      /\ \A e \in Def \ {d} : phiMap'[e] = phiMap[e]
  <2>1. phiMap \in [Def -> PhiItem \cup {None}] /\ Bottom \in PhiItem  BY <1>2 DEF TypeOK, PhiItem
  <2> QED BY <1>1, <2>1 DEF isPhi
<1>5. TypeOK'  BY <1>1, <1>2, <1>4 DEF TypeOK, Live
<1>6. KindsKept' /\ OperandsCover' /\ FoldedSound'
  BY <1>1 DEF CPInv, KindsKept, OperandsCover, FoldedSound
<1>7. MapHoldsPhis'  BY <1>1, <1>4 DEF CPInv, MapHoldsPhis
<1>8. PhaseInv'  BY <1>1, <1>4 DEF CPInv, PhaseInv
<1>9. FoldableListed'
  <2>1. \A v \in Value : ~FoldsTo(graph, d, v)  BY <1>1, <1>3, FoldsToConstantCases
  <2> QED BY <1>1, <2>1 DEF CPInv, FoldableListed, FoldsTo
<1>10. VisitedStable'  BY <1>1 DEF VisitedStable
<1>11. CycleItems'
  <2>1. \A e \in Def : phiMap'[e] \in {None, Bottom}  BY <1>1, <1>4 DEF CPInv, PhaseInv
  <2> QED BY <2>1 DEF CycleItems
<1>12. CyclesListed'
  <2> SUFFICES ASSUME NEW S \in SUBSET Def, NEW x \in Value, Closed(S, x)',
                      NEW c \in S, HasOperand(graph', c, Const(x))
               PROVE  \E e \in S : HasOperand(graph', e, Const(x)) /\ Awake(e)'
    BY DEF CyclesListed
  <2>1. Closed(S, x) /\ HasOperand(graph, c, Const(x))  BY <1>1 DEF Closed
  <2>2. PICK e \in S : HasOperand(graph, e, Const(x)) /\ Awake(e)
    BY <1>1, <2>1 DEF CPInv, CyclesListed
  <2>3. CASE e # d  BY <1>1, <1>4, <2>2, <2>3 DEF Awake
  <2>4. CASE e = d
    <3>1. phiMap'[e] # None  BY <1>4, <2>1, <2>4, ItemAssumption DEF Closed
    <3>2. e > cursor'
      BY <1>1, <2>4, SizeAssumption DEF CPInv, PhaseInv, Def
    <3> QED BY <1>1, <2>2, <3>1, <3>2 DEF Awake
  <2> QED BY <2>3, <2>4
<1> QED BY <1>5, <1>6, <1>7, <1>8, <1>9, <1>10, <1>11, <1>12 DEF CPInv

LEMMA StartSweepStep ==
  ASSUME CPInv, StartSweep
  PROVE  CPInv'
<1>1. /\ phase = "fold" /\ workList = {} /\ phase' = "sweep" /\ visited' = {}
      /\ UNCHANGED <<source, graph, folded, workList, phiMap, cursor, updated, guessed>>
  BY DEF StartSweep
<1>2. TypeOK'  BY <1>1 DEF CPInv, TypeOK, Live
<1>3. KindsKept' /\ OperandsCover' /\ FoldedSound' /\ MapHoldsPhis'
  BY <1>1 DEF CPInv, KindsKept, OperandsCover, FoldedSound, MapHoldsPhis
<1>4. PhaseInv' /\ VisitedStable'  BY <1>1 DEF CPInv, PhaseInv, VisitedStable
<1>5. FoldableListed'  BY <1>1 DEF CPInv, FoldableListed, FoldsTo
<1>6. CycleItems'  BY <1>1 DEF CPInv, CycleItems, Closed
<1>7. CyclesListed'
  <2> SUFFICES ASSUME NEW S \in SUBSET Def, NEW x \in Value, Closed(S, x)',
                      NEW c \in S, HasOperand(graph', c, Const(x))
               PROVE  \E e \in S : HasOperand(graph', e, Const(x)) /\ Awake(e)'
    BY DEF CyclesListed
  <2>1. Closed(S, x) /\ HasOperand(graph, c, Const(x))  BY <1>1 DEF Closed
  <2>2. PICK e \in S : HasOperand(graph, e, Const(x)) /\ Awake(e)
    BY <1>1, <2>1 DEF CPInv, CyclesListed
  <2> QED BY <1>1, <2>2 DEF Awake
<1> QED BY <1>2, <1>3, <1>4, <1>5, <1>6, <1>7 DEF CPInv

LEMMA AnalyzePhiStep ==
  ASSUME CPInv, NEW d \in Def, AnalyzePhi(d)
  PROVE  CPInv'
<1>1. /\ phase = "sweep"
      /\ Ahead # {} /\ d = Min(Ahead)
      /\ phiMap' = analyzePhi(phiMap, d)
      /\ updated' = (updated \/ phiMap'[d] # phiMap[d])
      /\ cursor' = d
      /\ visited' = visited \cup {d}
      /\ UNCHANGED <<source, graph, folded, workList, phase, guessed>>
  BY DEF AnalyzePhi
<1>2. TypeOK  BY DEF CPInv
<1>3. graph \in [Def -> MDefinition] /\ phiMap \in Items  BY <1>2 DEF TypeOK, Items
<1>4. phiMap[d] # None /\ d > cursor /\ \A e \in Def : phiMap[e] # None /\ e > cursor => d <= e
  <2>1. Ahead \in SUBSET Nat  BY SizeAssumption DEF Ahead, InMap, Def
  <2>2. d \in Ahead /\ \A e \in Ahead : d <= e  BY <1>1, <2>1, MinIsLeast
  <2> QED BY <2>2 DEF Ahead, InMap
<1>5. graph[d].kind = "phi"  BY <1>4 DEF CPInv, MapHoldsPhis
<1>6. /\ phiMap' \in Items
      /\ \A e \in Def \ {d} :
           phiMap'[e] = IF phiMap[e] = None /\ graph[e].kind = "phi" /\ HasOperand(graph, d, Ref(e))
                        THEN Bottom ELSE phiMap[e]
  <2>1. /\ analyzePhi(phiMap, d) \in Items
        /\ \A e \in Def \ {d} :
             analyzePhi(phiMap, d)[e] =
               IF phiMap[e] = None /\ isPhi(e) /\ HasOperand(graph, d, Ref(e))
               THEN Bottom ELSE phiMap[e]
    BY <1>3, <1>4, AnalyzedMap
  <2> QED BY <1>1, <2>1 DEF isPhi
<1>7. phiMap'[d] # None
  <2> DEFINE first == propagate(phiMap[d], Item(graph, phiMap, graph[d].ops[1]))
             n == [WithOperands(phiMap, d) EXCEPT ![d] = first]
  <2>1. /\ n \in Items /\ first \in PhiItem
        /\ phiMap'[d] = propagate(first, Item(graph, n, graph[d].ops[2]))
    BY <1>1, <1>3, <1>4, AnalyzedMap
  <2> HIDE DEF n, first
  <2>2. Item(graph, n, graph[d].ops[2]) \in PhiItem  BY <1>3, <2>1, ItemTyped, DefinitionFields
  <2>3. phiMap'[d] \in PhiItem  BY <2>1, <2>2, PropagateTyped
  <2> QED BY <2>3, ItemAssumption DEF PhiItem
<1>8. TypeOK'  BY <1>1, <1>2, <1>6 DEF TypeOK, Live, Items
<1>9. KindsKept' /\ OperandsCover' /\ FoldedSound'
  BY <1>1 DEF CPInv, KindsKept, OperandsCover, FoldedSound
<1>10. MapHoldsPhis'  BY <1>1, <1>5, <1>6 DEF CPInv, MapHoldsPhis
<1>11. PhaseInv'  BY <1>1 DEF CPInv, PhaseInv
<1>12. FoldableListed'  BY <1>1 DEF CPInv, FoldableListed, FoldsTo
<1>13. ASSUME NEW e \in Def, phiMap[e] # None PROVE phiMap'[e] # None
  BY <1>6, <1>7, <1>13
<1>14. VisitedStable'
  <2> SUFFICES ASSUME NEW c \in visited'
               PROVE  /\ phiMap'[c] # None
                      /\ \A e \in Def : HasOperand(graph, c, Ref(e)) /\ graph[e].kind = "phi"
                                        => phiMap'[e] # None
                      /\ ~updated' /\ c <= cursor' => Stable(c)'
    BY <1>1 DEF VisitedStable
  <2>1. c \in Def  BY <1>1, <1>2 DEF TypeOK
  <2>2. c # d => c \in visited  BY <1>1
  <2>3. phiMap'[c] # None
    <3>1. CASE c = d  BY <1>7, <3>1
    <3>2. CASE c # d  BY <1>1, <1>13, <2>1, <2>2, <3>2 DEF CPInv, VisitedStable
    <3> QED BY <3>1, <3>2
  <2>4. ASSUME NEW e \in Def, HasOperand(graph, c, Ref(e)), graph[e].kind = "phi"
        PROVE  phiMap'[e] # None
    <3>1. CASE c = d
      <4>1. CASE e = d  BY <1>7, <4>1
      <4>2. CASE e # d  BY <1>6, <2>4, <3>1, <4>2, ItemAssumption
      <4> QED BY <4>1, <4>2
    <3>2. CASE c # d  BY <1>1, <1>13, <2>2, <2>4, <3>2 DEF CPInv, VisitedStable
    <3> QED BY <3>1, <3>2
  <2>5. ASSUME ~updated', c <= cursor' PROVE Stable(c)'
    <3>1. ~updated /\ analyzePhi(phiMap, d)[d] = phiMap[d]  BY <1>1, <1>2, <2>5 DEF TypeOK
    <3>2. /\ \A a \in Arg : Item(graph, phiMap', a) = Item(graph, phiMap, a)
          /\ \/ phiMap[d] = Top
             \/ \A i \in {1, 2} : Item(graph, phiMap, graph[d].ops[i]) \in {Bottom, phiMap[d]}
      BY <1>1, <1>3, <1>4, <3>1, QuietVisit
    <3>3. \A i \in {1, 2} : Item(graph, phiMap', graph[c].ops[i]) = Item(graph, phiMap, graph[c].ops[i])
      BY <1>3, <2>1, <3>2, DefinitionFields
    <3>4. CASE c = d  BY <1>1, <3>1, <3>2, <3>3, <3>4 DEF Stable
    <3>5. CASE c # d
      <4>1. phiMap[c] # None  BY <1>1, <2>2, <3>5 DEF CPInv, VisitedStable
      <4>2. c <= cursor
        BY <1>1, <1>2, <1>4, <2>1, <2>5, <3>5, <4>1, SizeAssumption DEF TypeOK, Def
      <4>3. Stable(c)  BY <1>1, <2>2, <3>1, <3>5, <4>2 DEF CPInv, VisitedStable
      <4>4. phiMap'[c] = phiMap[c]  BY <1>6, <2>1, <3>5, <4>1
      <4> QED BY <1>1, <3>3, <4>3, <4>4 DEF Stable
    <3> QED BY <3>4, <3>5
  <2> QED BY <2>3, <2>4, <2>5
<1>15. CycleItems'
  <2> SUFFICES ASSUME NEW S \in SUBSET Def, NEW x \in Value, Closed(S, x)', NEW c \in S
               PROVE  phiMap'[c] \in {None, Bottom, x}
    BY DEF CycleItems
  <2>1. Closed(S, x)  BY <1>1 DEF Closed
  <2>2. \A e \in S : e \in Def /\ graph[e].kind = "phi" /\ phiMap[e] \in {None, Bottom, x}
    BY <1>1, <2>1 DEF CPInv, CycleItems, Closed
  <2>3. CASE c # d  BY <1>6, <2>2, <2>3
  <2>4. CASE c = d
    <3>1. phiMap[d] \in {Bottom, x}  BY <1>4, <2>2, <2>4
    <3>2. \A i \in {1, 2} : \/ graph[d].ops[i] = Const(x)
                            \/ \E e \in Def : /\ graph[d].ops[i] = Ref(e)
                                              /\ graph[e].kind = "phi"
                                              /\ phiMap[e] \in {None, Bottom, x}
      BY <2>1, <2>2, <2>4 DEF Closed
    <3>3. phiMap'[d] \in {Bottom, x}  BY <1>1, <1>3, <3>1, <3>2, CycleVisit
    <3> QED BY <2>4, <3>3
  <2> QED BY <2>3, <2>4
<1>16. CyclesListed'
  <2> SUFFICES ASSUME NEW S \in SUBSET Def, NEW x \in Value, Closed(S, x)',
                      NEW c \in S, HasOperand(graph', c, Const(x))
               PROVE  \E e \in S : HasOperand(graph', e, Const(x)) /\ Awake(e)'
    BY DEF CyclesListed
  <2>1. Closed(S, x) /\ HasOperand(graph, c, Const(x))  BY <1>1 DEF Closed
  <2>2. PICK e \in S : HasOperand(graph, e, Const(x)) /\ Awake(e)
    BY <1>1, <2>1 DEF CPInv, CyclesListed
  <2>3. e \in Def /\ phiMap[e] # None /\ (phiMap[e] # Bottom \/ e > cursor)
    BY <1>1, <2>2 DEF Awake, CPInv, PhaseInv
  <2>4. CASE e = d
    <3>1. phiMap'[d] # Bottom  BY <1>1, <1>3, <1>4, <2>2, <2>4, ConstantRaises
    <3> QED BY <1>1, <1>7, <2>2, <2>4, <3>1 DEF Awake
  <2>5. CASE e # d
    <3>1. phiMap'[e] = phiMap[e]  BY <1>6, <2>3, <2>5
    <3>2. e > cursor => e > cursor'
      BY <1>1, <1>4, <2>3, <2>5, SizeAssumption DEF Def
    <3> QED BY <1>1, <2>2, <2>3, <3>1, <3>2 DEF Awake
  <2> QED BY <2>4, <2>5
<1> QED BY <1>8, <1>9, <1>10, <1>11, <1>12, <1>14, <1>15, <1>16 DEF CPInv

LEMMA SweepAgainStep ==
  ASSUME CPInv, SweepAgain
  PROVE  CPInv'
<1>1. /\ phase = "sweep" /\ cursor' = 0 /\ updated' = FALSE
      /\ UNCHANGED <<source, graph, folded, workList, phiMap, phase, visited, guessed>>
  BY DEF SweepAgain
<1>2. TypeOK'  BY <1>1 DEF CPInv, TypeOK, Live
<1>3. KindsKept' /\ OperandsCover' /\ FoldedSound' /\ MapHoldsPhis'
  BY <1>1 DEF CPInv, KindsKept, OperandsCover, FoldedSound, MapHoldsPhis
<1>4. PhaseInv'  BY <1>1 DEF CPInv, PhaseInv
<1>5. \A d \in Def : d > cursor'  BY <1>1, SizeAssumption DEF Def
<1>6. VisitedStable'
  <2>1. \A d \in visited : ~(d <= cursor')
    BY <1>1, SizeAssumption DEF Def, CPInv, TypeOK
  <2> QED BY <1>1, <2>1 DEF CPInv, VisitedStable
<1>7. FoldableListed'  BY <1>1 DEF CPInv, FoldableListed, FoldsTo
<1>8. CycleItems'  BY <1>1 DEF CPInv, CycleItems, Closed
<1>9. CyclesListed'
  <2> SUFFICES ASSUME NEW S \in SUBSET Def, NEW x \in Value, Closed(S, x)',
                      NEW c \in S, HasOperand(graph', c, Const(x))
               PROVE  \E e \in S : HasOperand(graph', e, Const(x)) /\ Awake(e)'
    BY DEF CyclesListed
  <2>1. Closed(S, x) /\ HasOperand(graph, c, Const(x))  BY <1>1 DEF Closed
  <2>2. PICK e \in S : HasOperand(graph, e, Const(x)) /\ Awake(e)
    BY <1>1, <2>1 DEF CPInv, CyclesListed
  <2> QED BY <1>1, <1>5, <2>2 DEF Awake
<1> QED BY <1>2, <1>3, <1>4, <1>6, <1>7, <1>8, <1>9 DEF CPInv

(* When a whole sweep has changed nothing and has seen every phi of the    *)
(* map, the items are a solution: no phi takes a value its item excludes.  *)
LEMMA SolutionSound ==
  ASSUME CPInv, phase = "sweep", Ahead = {}, ~updated, ~guessed, InMap \subseteq visited,
         NEW d \in Def, phiMap[d] \in Value \cup {Bottom}, NEW i \in {1, 2}, NEW n \in Nat
  PROVE  OperandValues(Rounds(source)[n], graph[d].ops[i]) \subseteq {phiMap[d]} \cap Value
<1> DEFINE R == Rounds(source)
           T == {k \in Nat : \A e \in Def : phiMap[e] \in Value \cup {Bottom} =>
                                R[k][e] \subseteq {phiMap[e]} \cap Value}
<1>1. /\ source \in [Def -> MDefinition] /\ graph \in [Def -> MDefinition]
      /\ phiMap \in Items /\ cursor \in Nat
  BY SizeAssumption DEF CPInv, TypeOK, Items, Def
<1>2. ASSUME NEW k \in T, NEW c \in Def, phiMap[c] \in Value \cup {Bottom}, NEW j \in {1, 2}
      PROVE  OperandValues(R[k], graph[c].ops[j]) \subseteq {phiMap[c]} \cap Value
  <2> DEFINE a == graph[c].ops[j]
  <2>1. phiMap[c] # None /\ phiMap[c] # Top  BY <1>2, ItemAssumption
  <2>2. c \in visited  BY <2>1 DEF InMap
  <2>3. c <= cursor  BY <1>1, <2>1, SizeAssumption DEF Ahead, InMap, Def
  <2>4. Item(graph, phiMap, a) \in {Bottom, phiMap[c]}
    BY <2>1, <2>2, <2>3 DEF CPInv, VisitedStable, Stable
  <2>5. \A e \in Def : a = Ref(e) /\ graph[e].kind = "phi" => phiMap[e] # None
    BY <2>2 DEF CPInv, VisitedStable, HasOperand
  <2>6. a \in Arg  BY <1>1, DefinitionFields
  <2>7. Top \notin {Bottom, phiMap[c]}  BY <2>1, ItemAssumption
  <2> HIDE DEF a
  <2>8. CASE \E e \in Def : a = Ref(e)
    <3>1. PICK e \in Def : a = Ref(e)  BY <2>8
    <3>2. Item(graph, phiMap, a) = IF graph[e].kind = "phi"
                                   THEN IF phiMap[e] = None THEN Bottom ELSE phiMap[e] ELSE Top
      BY <3>1, ItemCases
    <3>3. phiMap[e] \in {Bottom, phiMap[c]}  BY <2>4, <2>5, <2>7, <3>1, <3>2
    <3>4. R[k][e] \subseteq {phiMap[e]} \cap Value  BY <1>2, <3>3
    <3>5. OperandValues(R[k], a) = R[k][e]
      BY <3>1, RefIsNoConst, OpaqueAssumption DEF OperandValues
    <3>6. Bottom \notin Value  BY ItemAssumption
    <3> QED BY <3>3, <3>4, <3>5, <3>6 DEF a
  <2>9. CASE \E x \in Value : a = Const(x)
    <3>1. PICK x \in Value : a = Const(x)  BY <2>9
    <3>2. Item(graph, phiMap, a) = x  BY <3>1, ItemCases
    <3>3. x = phiMap[c]  BY <2>4, <3>2, ItemAssumption
    <3>4. OperandValues(R[k], a) = {x}
      BY <3>1, RefIsNoConst, OpaqueAssumption DEF OperandValues
    <3> QED BY <3>3, <3>4 DEF a
  <2>10. CASE a = Opaque
    <3>1. Item(graph, phiMap, a) = Top  BY <2>10, ItemCases
    <3> QED BY <2>4, <2>7, <3>1
  <2> QED BY <2>6, <2>8, <2>9, <2>10, ArgCases
<1>3. 0 \in T
  <2>1. R[0] = [e \in Def |-> {}]  BY <1>1, RoundsDef
  <2> HIDE DEF R
  <2> QED BY <2>1
<1>4. ASSUME NEW k \in Nat, k \in T PROVE k + 1 \in T
  <2> SUFFICES ASSUME NEW e \in Def, phiMap[e] \in Value \cup {Bottom}
               PROVE  R[k + 1][e] \subseteq {phiMap[e]} \cap Value
    OBVIOUS
  <2> DEFINE A == OperandValues(R[k], source[e].ops[1])
             B == OperandValues(R[k], source[e].ops[2])
  <2>1. R[k + 1] = OneMore(source, R[k])  BY <1>1, RoundsDef
  <2>2. R[k + 1][e] = Results(source, e, A, B)  BY <2>1 DEF OneMore
  <2>3. source[e].kind = "phi"
    BY ItemAssumption DEF CPInv, KindsKept, MapHoldsPhis
  <2>4. /\ A \subseteq OperandValues(R[k], graph[e].ops[1])
        /\ B \subseteq OperandValues(R[k], graph[e].ops[2])
    BY DEF CPInv, OperandsCover
  <2>5. /\ OperandValues(R[k], graph[e].ops[1]) \subseteq {phiMap[e]} \cap Value
        /\ OperandValues(R[k], graph[e].ops[2]) \subseteq {phiMap[e]} \cap Value
    <3> HIDE DEF T
    <3> QED BY <1>2, <1>4
  <2> HIDE DEF A, B
  <2>6. R[k + 1][e] = A \cup B  BY <2>2, <2>3 DEF Results
  <2> QED BY <2>4, <2>5, <2>6
<1> HIDE DEF T
<1>5. n \in T  BY <1>3, <1>4, SetInduction
<1> QED BY <1>2, <1>5

LEMMA ApplySolutionStep ==
  ASSUME CPInv, ApplySolution
  PROVE  CPInv'
<1>1. /\ phase = "sweep" /\ Ahead = {} /\ ~updated /\ cursor' = 0
      /\ guessed' = (guessed \/ ~(InMap \subseteq visited))
      /\ UNCHANGED <<source, folded, updated, visited>>
  BY DEF ApplySolution
<1>2. TypeOK  BY DEF CPInv
<1>3. /\ source \in [Def -> MDefinition] /\ graph \in [Def -> MDefinition]
      /\ phiMap \in Items /\ cursor \in Nat
  BY <1>2, SizeAssumption DEF TypeOK, Items, Def
<1>4. ~guessed' => ~guessed /\ InMap \subseteq visited  BY <1>1, <1>2 DEF TypeOK
<1>5. CASE ~ \A d \in Solved : Live(d)
  <2>1. phase' = "aborted" /\ UNCHANGED <<graph, workList, phiMap>>  BY <1>5 DEF ApplySolution
  <2>2. TypeOK'  BY <1>1, <1>2, <2>1 DEF TypeOK, Live
  <2>3. KindsKept' /\ MapHoldsPhis'  BY <1>1, <2>1 DEF CPInv, KindsKept, MapHoldsPhis
  <2>4. OperandsCover' /\ FoldedSound'
    BY <1>1, <1>4, <2>1 DEF CPInv, OperandsCover, FoldedSound
  <2>5. PhaseInv' /\ VisitedStable' /\ FoldableListed' /\ CycleItems' /\ CyclesListed'
    BY <1>1, <2>1 DEF PhaseInv, VisitedStable, FoldableListed, CycleItems, CyclesListed
  <2> QED BY <2>2, <2>3, <2>4, <2>5 DEF CPInv
<1>6. CASE \A d \in Solved : Live(d)
  <2>1. /\ graph' = [d \in Def |->
                      IF d \in Solved
                      THEN [graph[d] EXCEPT !.ops = <<Const(phiMap[d]), Const(phiMap[d])>>]
                      ELSE graph[d]]
        /\ workList' = Solved
        /\ phiMap' = [d \in Def |-> None]
        /\ phase' = IF Solved = {} THEN "done" ELSE "fold"
    BY <1>6 DEF ApplySolution
  <2>2. \A d : d \in Solved <=> d \in Def /\ phiMap[d] \in Value
    BY ItemAssumption DEF Solved, InMap
  <2>3. ASSUME NEW d \in Def
        PROVE  /\ graph'[d] \in MDefinition
               /\ graph'[d].kind = graph[d].kind
               /\ d \notin Solved => graph'[d] = graph[d]
               /\ d \in Solved => \A i \in {1, 2} : graph'[d].ops[i] = Const(phiMap[d])
    <3>1. CASE d \in Solved
      <4>1. Const(phiMap[d]) \in Arg  BY <2>2, <3>1 DEF Arg
      <4>2. graph'[d] = [graph[d] EXCEPT !.ops = <<Const(phiMap[d]), Const(phiMap[d])>>]
        BY <2>1, <3>1
      <4>3. graph[d] \in MDefinition  BY <1>3
      <4>4. /\ graph'[d] \in MDefinition
            /\ graph'[d].kind = graph[d].kind
            /\ graph'[d].ops = <<Const(phiMap[d]), Const(phiMap[d])>>
        BY <4>1, <4>2, <4>3 DEF MDefinition
      <4> QED BY <3>1, <4>4
    <3>2. CASE d \notin Solved  BY <1>3, <2>1, <3>2
    <3> QED BY <3>1, <3>2
  <2>4. graph' \in [Def -> MDefinition]  BY <2>1, <2>3
  <2>5. TypeOK'
    <3>1. workList' \subseteq {d \in Def : Live(d)'}  BY <1>1, <1>6, <2>1, <2>2 DEF Live
    <3> QED BY <1>1, <1>2, <2>1, <2>4, <3>1 DEF TypeOK
  <2>6. KindsKept'  BY <1>1, <2>3 DEF CPInv, KindsKept
  <2>7. OperandsCover'
    <3> SUFFICES ASSUME ~guessed, InMap \subseteq visited,
                        NEW e \in Def, NEW i \in {1, 2}, NEW n \in Nat
                 PROVE  OperandValues(Rounds(source)[n], source[e].ops[i])
                          \subseteq OperandValues(Rounds(source)[n], graph'[e].ops[i])
      BY <1>1, <1>4 DEF OperandsCover
    <3>1. OperandValues(Rounds(source)[n], source[e].ops[i])
            \subseteq OperandValues(Rounds(source)[n], graph[e].ops[i])
      BY DEF CPInv, OperandsCover
    <3>2. CASE e \notin Solved  BY <2>3, <3>1, <3>2
    <3>3. CASE e \in Solved
      <4>1. OperandValues(Rounds(source)[n], graph[e].ops[i]) \subseteq {phiMap[e]}
        BY <1>1, <2>2, <3>3, SolutionSound
      <4>2. OperandValues(Rounds(source)[n], Const(phiMap[e])) = {phiMap[e]}
        BY <2>2, <3>3, RefIsNoConst, OpaqueAssumption DEF OperandValues
      <4> QED BY <2>3, <3>1, <3>3, <4>1, <4>2
    <3> QED BY <3>2, <3>3
  <2>8. FoldedSound'  BY <1>1, <1>4 DEF CPInv, FoldedSound
  <2>9. MapHoldsPhis' /\ VisitedStable' /\ CycleItems'
    BY <2>1 DEF MapHoldsPhis, VisitedStable, CycleItems
  <2>10. PhaseInv'  BY <1>1, <2>1 DEF PhaseInv
  <2>11. FoldableListed'
    <3> SUFFICES ASSUME NEW e \in Def, NEW x \in Value, folded[e] = None, FoldsTo(graph', e, x)
                 PROVE  e \in Solved
      BY <1>1, <2>1 DEF FoldableListed
    <3>1. ASSUME e \notin Solved PROVE FALSE
      <4>1. FoldsTo(graph, e, x)  BY <2>3, <3>1 DEF FoldsTo
      <4> QED BY <1>1, <4>1 DEF CPInv, FoldableListed, PhaseInv
    <3> QED BY <3>1
  <2>12. CyclesListed'
    <3> SUFFICES ASSUME NEW S \in SUBSET Def, NEW x \in Value, Closed(S, x)',
                        NEW c \in S, HasOperand(graph', c, Const(x))
                 PROVE  \E e \in S : HasOperand(graph', e, Const(x)) /\ Awake(e)'
      BY DEF CyclesListed
    <3>1. CASE \E e \in S : e \in Solved
      <4>1. PICK e \in S : e \in Solved  BY <3>1
      <4>2. graph'[e].ops[1] = Const(phiMap[e])  BY <2>3, <4>1
      <4>3. graph'[e].ops[1] = Const(x)  BY <4>2, RefIsNoConst DEF Closed
      <4>4. HasOperand(graph', e, Const(x))  BY <4>3 DEF HasOperand
      <4> QED BY <2>1, <4>1, <4>4 DEF Awake
    <3>2. CASE \A e \in S : e \notin Solved
      <4>1. \A e \in S : e \in Def /\ graph'[e] = graph[e]  BY <2>3, <3>2
      <4>2. Closed(S, x)  BY <1>1, <4>1 DEF Closed
      <4>3. HasOperand(graph, c, Const(x))  BY <4>1 DEF HasOperand
      <4>4. PICK e \in S : HasOperand(graph, e, Const(x)) /\ Awake(e)
        BY <1>1, <4>2, <4>3 DEF CPInv, CyclesListed
      <4>5. phiMap[e] # None /\ (phiMap[e] # Bottom \/ e > cursor)
        BY <1>1, <4>4 DEF Awake, CPInv, PhaseInv
      <4>6. ~(e > cursor)  BY <1>1, <4>5 DEF Ahead, InMap
      <4>7. phiMap[e] = x
        BY <1>1, <4>2, <4>5, <4>6 DEF CPInv, CycleItems
      <4> QED BY <2>2, <3>2, <4>7
    <3> QED BY <3>1, <3>2
  <2> QED BY <2>5, <2>6, <2>7, <2>8, <2>9, <2>10, <2>11, <2>12 DEF CPInv
<1> QED BY <1>5, <1>6

-----------------------------------------------------------------------------
(* The theorems. *)

LEMMA Stutter ==
  ASSUME CPInv, UNCHANGED vars
  PROVE  CPInv'
<1> USE DEF vars
<1>1. TypeOK' /\ PhaseInv'  BY DEF CPInv, TypeOK, Live, PhaseInv
<1>2. KindsKept' /\ OperandsCover' /\ FoldedSound' /\ MapHoldsPhis'
  BY DEF CPInv, KindsKept, OperandsCover, FoldedSound, MapHoldsPhis
<1>3. FoldableListed'  BY DEF CPInv, FoldableListed, FoldsTo
<1>4. VisitedStable'  BY DEF CPInv, VisitedStable, Stable
<1>5. CycleItems'  BY DEF CPInv, CycleItems, Closed
<1>6. CyclesListed'  BY DEF CPInv, CyclesListed, Closed, Awake
<1> QED BY <1>1, <1>2, <1>3, <1>4, <1>5, <1>6 DEF CPInv

LEMMA Invariance == Spec => []CPInv
<1>1. CPInv /\ [Next]_vars => CPInv'
  <2> SUFFICES ASSUME CPInv, [Next]_vars PROVE CPInv'
    OBVIOUS
  <2>1. ASSUME NEW d \in Def, Fold(d) PROVE CPInv'  BY <2>1, FoldStep
  <2>2. ASSUME NEW d \in Def, Keep(d) PROVE CPInv'  BY <2>2, KeepStep
  <2>3. ASSUME NEW d \in Def, AnalyzePhi(d) PROVE CPInv'  BY <2>3, AnalyzePhiStep
  <2>4. CASE StartSweep  BY <2>4, StartSweepStep
  <2>5. CASE SweepAgain  BY <2>5, SweepAgainStep
  <2>6. CASE ApplySolution  BY <2>6, ApplySolutionStep
  <2>7. CASE UNCHANGED vars  BY <2>7, Stutter
  <2> QED BY <2>1, <2>2, <2>3, <2>4, <2>5, <2>6, <2>7 DEF Next
<1> QED BY InitInv, <1>1, PTL DEF Spec

(* The pass keeps to its types, and analyze never takes a definition from  *)
(* its worklist that it has discarded before.                              *)
THEOREM TypeCorrect == Spec => []TypeOK
<1>1. CPInv => TypeOK  BY DEF CPInv
<1> QED BY Invariance, <1>1, PTL

(* A constant that foldsToConstant computes, from operands analyze and     *)
(* solvePhiCycles have replaced, is the only value the definition of the   *)
(* source graph can have, unless a solution was applied with phis in the   *)
(* map that analyzePhi had never seen.                                     *)
THEOREM SoundFolding == Spec => []SoundUnlessGuessed
<1>1. CPInv => SoundUnlessGuessed
  <2> SUFFICES ASSUME CPInv, ~guessed, NEW d \in Def, ~Live(d)
               PROVE  Reach(source)[d] \subseteq {folded[d]}
    BY DEF SoundUnlessGuessed, Sound
  <2>1. N * (MaxInt + 2) \in Nat  BY SizeAssumption
  <2> QED BY <2>1 DEF CPInv, FoldedSound, Live, Reach
<1> QED BY Invariance, <1>1, PTL

(* The same without the bound of Reach: no number of rounds over the       *)
(* source graph gives a definition that analyze has replaced by a constant *)
(* another value.                                                          *)
THEOREM SoundInEveryRound == Spec => []FoldedSound
<1>1. CPInv => FoldedSound  BY DEF CPInv
<1> QED BY Invariance, <1>1, PTL

(* When analyze returns, no definition folds and no set of phis feeds      *)
(* itself one constant: the worklist and the map forget nothing.           *)
THEOREM Complete == Spec => []NothingLeftToFold
<1>1. CPInv => NothingLeftToFold
  <2> SUFFICES ASSUME CPInv, phase = "done"
               PROVE  /\ \A d \in Def : Live(d) => foldsToConstant(d) = None
                      /\ \A S \in SUBSET {d \in Def : Live(d) /\ isPhi(d)}, v \in Value :
                           ~ /\ \E d \in S : HasOperand(graph, d, Const(v))
                             /\ \A d \in S : \A i \in {1, 2} :
                                  graph[d].ops[i] \in {Const(v)} \cup {Ref(e) : e \in S}
    BY DEF NothingLeftToFold
  <2>1. workList = {} /\ \A d \in Def : phiMap[d] = None  BY DEF CPInv, PhaseInv
  <2>2. ASSUME NEW d \in Def, Live(d) PROVE foldsToConstant(d) = None
    <3>1. graph \in [Def -> MDefinition]  BY DEF CPInv, TypeOK
    <3>2. \A v \in Value : ~FoldsTo(graph, d, v)
      BY <2>1, <2>2 DEF CPInv, FoldableListed, Live
    <3> QED BY <3>1, <3>2, FoldsToConstantCases
  <2>3. ASSUME NEW S \in SUBSET {d \in Def : Live(d) /\ isPhi(d)}, NEW v \in Value,
               \E d \in S : HasOperand(graph, d, Const(v)),
               \A d \in S : \A i \in {1, 2} :
                 graph[d].ops[i] \in {Const(v)} \cup {Ref(e) : e \in S}
        PROVE  FALSE
    <3>1. S \in SUBSET Def  OBVIOUS
    <3>2. Closed(S, v)  BY <2>3 DEF Closed, Live, isPhi
    <3>3. PICK e \in S : Awake(e)  BY <2>3, <3>1, <3>2 DEF CPInv, CyclesListed
    <3> QED BY <2>1, <3>3 DEF Awake
  <2> QED BY <2>2, <2>3
<1> QED BY Invariance, <1>1, PTL

=============================================================================
