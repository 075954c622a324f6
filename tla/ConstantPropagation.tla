------------------------- MODULE ConstantPropagation -------------------------
(***************************************************************************)
(* The constant propagation pass (--ion-cp) over one MIR graph, in a build *)
(* with assertions.  The graph is reduced to its definitions and their     *)
(* operands; a constant is an operand and not a definition of its own, so  *)
(* two MConstants of the same value are the same operand.                  *)
(*                                                                         *)
(* The pass keeps its worklist in a std::set and its phi items in a        *)
(* std::map, both ordered by address.  A definition is therefore named by  *)
(* the rank of its address: the graphs over 1..N are the graphs of N       *)
(* definitions laid out in memory in every order.                          *)
(***************************************************************************)
EXTENDS Naturals, FiniteSetsExt

CONSTANTS
  N,                    \* number of definitions
  MaxInt,               \* the largest Int32
  Graphs,               \* the graphs the pass is run on
  Opaque,               \* an operand nothing is known about (MParameter, loads)
  Bottom, Top,          \* the states of a PhiItem that have no constant
  None                  \* no value; no item

Def   == 1..N
Value == 0..MaxInt      \* the values of constants

Ref(d)   == <<"def", d>>
Const(v) == <<"const", v>>
Arg      == {Ref(d) : d \in Def} \cup {Const(v) : v \in Value} \cup {Opaque}

(* A definition: a phi, an MAdd specialized to Int32 (which bails out when *)
(* it overflows) or an MCall, which the pass never looks at.               *)
MDefinition == [kind : {"phi", "add", "call"}, ops : Arg \X Arg]

(* What a PhiItem holds: Bottom, Top or the value of its constant. *)
PhiItem == Value \cup {Bottom, Top}

ASSUME SizeAssumption == N \in Nat /\ MaxInt \in Nat

ASSUME GraphAssumption == Graphs \subseteq [Def -> MDefinition]

ASSUME ItemAssumption ==
  /\ Bottom # Top /\ None \notin {Bottom, Top}
  /\ {Bottom, Top, None} \cap Value = {}

ASSUME OpaqueAssumption ==
  /\ Opaque \notin Value
  /\ \A d \in Def : Opaque # Ref(d)
  /\ \A v \in Value : Opaque # Const(v)

VARIABLES
  source,               \* the graph when the pass starts
  graph,                \* the graph now
  folded,               \* the constants that have replaced definitions
  workList,             \* CP::workList
  phiMap,               \* CP::phiMap; None for a phi that is not in it
  cursor,               \* the last phi visited by this sweep of phiMap
  updated,              \* this sweep has changed an item
  phase,                \* "fold", "sweep", "done" or "aborted"
  visited,              \* history: the phis solvePhiCycles has analyzed
  guessed               \* history: solvePhiCycles used an item it had not analyzed

vars == <<source, graph, folded, workList, phiMap, cursor, updated, phase,
          visited, guessed>>

-----------------------------------------------------------------------------
(* The graph. *)

isPhi(d) == graph[d].kind = "phi"

(* PassArg, Call and CreateThis are never analyzed. *)
isBlacklisted(g, d) == g[d].kind = "call"

HasOperand(g, d, a) == a \in {g[d].ops[1], g[d].ops[2]}

(* SSA form: only phis close cycles. *)
WellFormed(g) ==
  \A S \in SUBSET {d \in Def : g[d].kind # "phi"} :
    S # {} => \E d \in S : \A e \in S : ~HasOperand(g, d, Ref(e))

(* EliminatePhis has removed the phis that merge a definition with itself. *)
IsPhiRedundant(g, d) ==
  /\ g[d].kind = "phi"
  /\ \/ HasOperand(g, d, Ref(d))
     \/ \E e \in Def : g[d].ops = <<Ref(e), Ref(e)>>

(* A definition that was discarded has left the use lists. *)
Live(d) == folded[d] = None

(* addUsesToWorkList. *)
Uses(g, a) == {d \in Def : Live(d) /\ HasOperand(g, d, a) /\ ~isBlacklisted(g, d)}

ReplaceAllUses(g, a, b) ==
  [d \in Def |->
    [g[d] EXCEPT !.ops = <<IF Live(d) /\ @[1] = a THEN b ELSE @[1],
                           IF Live(d) /\ @[2] = a THEN b ELSE @[2]>>]]

(* foldsToConstant of MPhi and MAdd; None when the definition stays. *)
foldsToConstant(d) ==
  LET both == {v \in Value : graph[d].ops = <<Const(v), Const(v)>>}
      sums == {s \in Value : \E v, w \in Value :
                 graph[d].ops = <<Const(v), Const(w)>> /\ s = v + w}
      r    == CASE graph[d].kind = "phi" -> both
                [] graph[d].kind = "add" -> sums
                [] OTHER                 -> {}
  IN  IF r = {} THEN None ELSE CHOOSE v \in r : TRUE

Init ==
  /\ source \in {g \in Graphs : WellFormed(g) /\ \A d \in Def : ~IsPhiRedundant(g, d)}
  /\ graph = source
  /\ folded = [d \in Def |-> None]
  /\ workList = UNION {Uses(graph, Const(v)) : v \in Value}   \* initWorkList
  /\ phiMap = [d \in Def |-> None]
  /\ cursor = 0
  /\ updated = FALSE
  /\ phase = "fold"
  /\ visited = {}
  /\ guessed = FALSE

-----------------------------------------------------------------------------
(* The inner loop of analyze. *)

Analyzed(d) == phase = "fold" /\ workList # {} /\ d = Min(workList)

(* Faulty variant: the definition is not erased from the worklist. *)
FoldWithoutErase(d) ==
  LET v == foldsToConstant(d)
  IN  /\ Analyzed(d)
      /\ v # None
      /\ workList' = workList \cup Uses(graph, Ref(d))
      /\ graph' = ReplaceAllUses(graph, Ref(d), Const(v))
      /\ folded' = [folded EXCEPT ![d] = v]
      /\ UNCHANGED <<source, phiMap, cursor, updated, phase, visited, guessed>>

(* The definition is replaced by a constant and discarded. *)
Fold(d) ==
  LET v == foldsToConstant(d)
  IN  /\ Analyzed(d)
      /\ v # None
      /\ workList' = (workList \ {d}) \cup Uses(graph, Ref(d))
      /\ graph' = ReplaceAllUses(graph, Ref(d), Const(v))
      /\ folded' = [folded EXCEPT ![d] = v]
      /\ UNCHANGED <<source, phiMap, cursor, updated, phase, visited, guessed>>

(* Faulty variant: a phi that stays is forgotten. *)
KeepOutOfMap(d) ==
  /\ Analyzed(d)
  /\ foldsToConstant(d) = None
  /\ workList' = workList \ {d}
  /\ UNCHANGED <<source, graph, folded, phiMap, cursor, updated, phase, visited, guessed>>

(* It stays; a phi may be part of a cycle. *)
Keep(d) ==
  /\ Analyzed(d)
  /\ foldsToConstant(d) = None
  /\ workList' = workList \ {d}
  /\ phiMap' = [phiMap EXCEPT ![d] = IF isPhi(d) /\ @ = None THEN Bottom ELSE @]
  /\ UNCHANGED <<source, graph, folded, cursor, updated, phase, visited, guessed>>

-----------------------------------------------------------------------------
(* solvePhiCycles. *)

StartSweep ==
  /\ phase = "fold"
  /\ workList = {}
  /\ phase' = "sweep"
  /\ visited' = {}
  /\ UNCHANGED <<source, graph, folded, workList, phiMap, cursor, updated, guessed>>

(* Faulty variant: a constant absorbs an operand nothing is known about. *)
IgnoresTop(to, from) ==
  CASE to = Bottom            -> from
    [] to = from              -> to
    [] from \in {Bottom, Top} -> to
    [] OTHER                  -> Top

propagate(to, from) ==
  CASE to = Bottom            -> from
    [] to = from              -> to
    [] from = Bottom          -> to
    [] OTHER                  -> Top

(* The item of an operand in map m; a phi that is not in it counts as Bottom. *)
OperandItem(m, a) ==
  IF a \in {Const(v) : v \in Value} THEN a[2]
  ELSE IF a # Opaque /\ isPhi(a[2])
  THEN IF m[a[2]] = None THEN Bottom ELSE m[a[2]]
  ELSE Top

(* analyzePhi puts the phis among the operands into the map. *)
WithOperands(m, d) ==
  [e \in Def |-> IF m[e] = None /\ isPhi(e) /\ HasOperand(graph, d, Ref(e))
                 THEN Bottom ELSE m[e]]

analyzePhi(m, d) ==
  LET first == propagate(m[d], OperandItem(m, graph[d].ops[1]))
      n     == [WithOperands(m, d) EXCEPT ![d] = first]
  IN  [n EXCEPT ![d] = propagate(first, OperandItem(n, graph[d].ops[2]))]

InMap == {d \in Def : phiMap[d] # None}
Ahead == {d \in InMap : d > cursor}

AnalyzePhi(d) ==
  /\ phase = "sweep"
  /\ Ahead # {} /\ d = Min(Ahead)
  /\ phiMap' = analyzePhi(phiMap, d)
  /\ updated' = (updated \/ phiMap'[d] # phiMap[d])
  /\ cursor' = d
  /\ visited' = visited \cup {d}
  /\ UNCHANGED <<source, graph, folded, workList, phase, guessed>>

(* Faulty variant: updated is not reset. *)
SweepsForever ==
  /\ phase = "sweep"
  /\ Ahead = {}
  /\ updated
  /\ cursor' = 0
  /\ UNCHANGED <<source, graph, folded, workList, phiMap, updated, phase, visited, guessed>>

SweepAgain ==
  /\ phase = "sweep"
  /\ Ahead = {}
  /\ updated
  /\ cursor' = 0
  /\ updated' = FALSE
  /\ UNCHANGED <<source, graph, folded, workList, phiMap, phase, visited, guessed>>

Solved == {d \in InMap : phiMap[d] \in Value}

(* Every operand of a solved phi becomes the constant of its item.         *)
(* replaceOperand searches the use lists and aborts when the phi has left  *)
(* them.                                                                   *)
ApplySolution ==
  /\ phase = "sweep"
  /\ Ahead = {}
  /\ ~updated
  /\ cursor' = 0
  /\ guessed' = (guessed \/ ~(InMap \subseteq visited))
  /\ IF \A d \in Solved : Live(d)
     THEN /\ graph' = [d \in Def |->
                        IF d \in Solved
                        THEN [graph[d] EXCEPT !.ops = <<Const(phiMap[d]), Const(phiMap[d])>>]
                        ELSE graph[d]]
          /\ workList' = Solved
          /\ phiMap' = [d \in Def |-> None]
          /\ phase' = IF Solved = {} THEN "done" ELSE "fold"
     ELSE /\ phase' = "aborted"
          /\ UNCHANGED <<graph, workList, phiMap>>
  /\ UNCHANGED <<source, folded, updated, visited>>

Next ==
  \/ \E d \in Def : Fold(d) \/ Keep(d) \/ AnalyzePhi(d)
  \/ StartSweep
  \/ SweepAgain
  \/ ApplySolution

Spec == Init /\ [][Next]_vars

(* The pass is one sequential call: it keeps taking steps. *)
FairSpec == Spec /\ WF_vars(Next)

-----------------------------------------------------------------------------
(* Reference: the values a definition of the source graph can take, Opaque *)
(* standing for any value that is no constant of the graph.                *)

Results(g, d, A, B) ==
  IF g[d].kind = "phi" THEN A \cup B
  ELSE IF g[d].kind = "call" THEN Value \cup {Opaque}
  ELSE {s \in Value : \E v \in A \ {Opaque}, w \in B \ {Opaque} : s = v + w}
       \cup (IF Opaque \in A \cup B THEN Value \cup {Opaque} ELSE {})

OperandValues(r, a) ==
  IF a = Opaque THEN Value \cup {Opaque}
  ELSE IF a[1] = "const" THEN {a[2]} ELSE r[a[2]]

OneMore(g, r) ==
  [d \in Def |-> Results(g, d, OperandValues(r, g[d].ops[1]), OperandValues(r, g[d].ops[2]))]

(* The values found after n rounds. *)
Rounds(g) ==
  LET R[n \in Nat] == IF n = 0 THEN [d \in Def |-> {}] ELSE OneMore(g, R[n - 1])
  IN  R

Reach(g) == Rounds(g)[N * (MaxInt + 2)]

-----------------------------------------------------------------------------
(* Properties. *)

(* The pass keeps to its types, and its worklist never holds a definition  *)
(* that analyze has discarded.                                             *)
TypeOK ==
  /\ source \in [Def -> MDefinition]
  /\ graph \in [Def -> MDefinition]
  /\ folded \in [Def -> Value \cup {None}]
  /\ workList \subseteq {d \in Def : Live(d)}
  /\ phiMap \in [Def -> PhiItem \cup {None}]
  /\ cursor \in Def \cup {0}
  /\ updated \in BOOLEAN
  /\ phase \in {"fold", "sweep", "done", "aborted"}
  /\ visited \subseteq Def
  /\ guessed \in BOOLEAN

(* MIR.cpp:556, "If all operands have the same value of the first one, the *)
(* phi can be folded to a constant": analyze replaces a definition by a    *)
(* constant only if it can have no other value.                            *)
Sound ==
  \A d \in Def : ~Live(d) => Reach(source)[d] \subseteq {folded[d]}

(* foldsToConstant and propagate never fold a definition wrongly, as long  *)
(* as solvePhiCycles had analyzed every phi in its map when it applied the *)
(* solution.                                                               *)
SoundUnlessGuessed == ~guessed => Sound

(* CP.cpp:76, "Definitions are propagated until there are no more phi      *)
(* cycles to be solved": when the pass ends, nothing is left to fold, no   *)
(* single definition and no set of phis that feed each other one constant. *)
NothingLeftToFold ==
  phase = "done" =>
    /\ \A d \in Def : Live(d) => foldsToConstant(d) = None
    /\ \A S \in SUBSET {d \in Def : Live(d) /\ isPhi(d)}, v \in Value :
         ~ /\ \E d \in S : HasOperand(graph, d, Const(v))
           /\ \A d \in S : \A i \in {1, 2} :
                graph[d].ops[i] \in {Const(v)} \cup {Ref(e) : e \in S}

(* analyze returns: folding and sweeping do not go on for ever. *)
Terminates == <>(phase \in {"done", "aborted"})

=============================================================================
