--------------------------- MODULE DeadConditionals ---------------------------
(***************************************************************************)
(* DCEConditionals: a test on a boolean constant becomes a jump to the     *)
(* branch that is taken, and the blocks that only the other branch reaches *)
(* are removed.  The pass walks the list of blocks forwards from the start *)
(* of the dead branch, and marks blocks by looking at their predecessors.  *)
(*                                                                         *)
(* Blocks are numbered by their place in the list of the graph.  Their     *)
(* order is the one IonBuilder leaves (BuiltInOrder in LoopBuilder.tla):   *)
(* an edge to the same or a smaller number goes back to a loop header.     *)
(* The blocks of a branch need not stand together: what comes after a      *)
(* break or an if with a return in it has other blocks in between.         *)
(* Instructions are left out; all the phis of a block are treated alike,   *)
(* and one stands for them.                                                *)
(***************************************************************************)
EXTENDS Naturals, Sequences, FiniteSets, SequencesExt

CONSTANTS
  N,        \* number of blocks
  Graphs,   \* the successors of the blocks, in every graph considered
  NoWalk    \* no dead branch is being walked

ASSUME NAssumption == N \in Nat \ {0}

Block == 1..N

NoBlock == 0

VARIABLES
  succ,     \* successors of a block: ifTrue and ifFalse of a test, in order
  cond,     \* condition of the test that ends a block
  pred,     \* predecessor lists
  phi,      \* the phi of a block with several predecessors
  dead,     \* deleteBlock: the blocks marked for deletion
  at,       \* the block the pass looks at next
  walk,     \* state of the walk over a dead branch, if one is under way
  plain,    \* history: every test folded so far was a plain if statement
  header,   \* the blocks of kind LOOP_HEADER
  graph     \* the blocks in the graph

vars == <<succ, cond, pred, phi, dead, at, walk, plain, header, graph>>

Cond == {"none", "true", "false", "other"}

(***************************************************************************)
(* An operand of the phi is named by the predecessor it belonged to in the *)
(* beginning.  value: the operand that replaced the phi, if one did.       *)
(***************************************************************************)
Phi == [ops : Seq(Block), value : Block \cup {NoBlock}]

(***************************************************************************)
(* block: the one that ended in the test.  start: the first block of the   *)
(* dead branch.  cur: delBlock.  first, last: first and lastBranchBlock.   *)
(***************************************************************************)
Walk == [block : Block, start : Block, cur : Block, first : BOOLEAN, last : Block]

ASSUME WalkAssumption == NoWalk \notin Walk

TypeOK ==
  /\ succ \in [Block -> Seq(Block)]
  /\ cond \in [Block -> Cond]
  /\ pred \in [Block -> Seq(Block)]
  /\ phi \in [Block -> Phi]
  /\ dead \subseteq Block
  /\ at \in 1..(N + 1)
  /\ walk \in Walk \cup {NoWalk}
  /\ plain \in BOOLEAN
  /\ header \subseteq Block
  /\ graph \subseteq Block

(***************************************************************************)
(* The graphs IonBuilder makes.                                            *)
(***************************************************************************)

(* The blocks reachable from a set of blocks, along the successors in s. *)
ReachableFrom(s, from) ==
  LET grow[n \in 0..N] ==
        IF n = 0 THEN from
        ELSE LET g == grow[n - 1] IN g \cup UNION {Range(s[p]) : p \in g}
  IN  grow[N]

Reachable(s) == ReachableFrom(s, {1})

(* Without block h, the entry does not lead to block b. *)
Dominates(s, h, b) ==
  h = 1 \/ b = h \/ b \notin Reachable([s EXCEPT ![h] = <<>>])

(* The elements of sequence q that are in S, in their order. *)
Kept(q, S) ==
  LET k[i \in 0..Len(q)] ==
        IF i = 0 THEN <<>>
        ELSE IF q[i] \in S THEN Append(k[i - 1], q[i]) ELSE k[i - 1]
  IN  k[Len(q)]

PredsIn(s, b) == Kept([i \in Block |-> i], {p \in Block : b \in Range(s[p])})

Headers(s) == {h \in Block : \E b \in Block : h <= b /\ h \in Range(s[b])}

(***************************************************************************)
(* Forward edges go anywhere (break and continue with labels); an edge     *)
(* back goes to a header that dominates it and has one other predecessor,  *)
(* earlier in the list (MIRGraph.cpp:672, "loop headers have exactly two   *)
(* incoming edges").  This is not all of AssertReversePostOrder, which  *)
(* Ion.cpp:703 keeps off this graph: it knows a backedge by the last       *)
(* successor only.                                                         *)
(***************************************************************************)
IsGraph(s) ==
  /\ s \in [Block -> Seq(Block)]
  /\ \A b \in Block : Len(s[b]) <= 2 /\ (Len(s[b]) = 2 => s[b][1] # s[b][2])
  /\ Reachable(s) = Block
  /\ 1 \notin Headers(s)
  /\ \A h \in Headers(s) :
       LET ps == PredsIn(s, h)
       IN  Len(ps) = 2 /\ ps[1] < h /\ Dominates(s, h, ps[2])

ASSUME GraphAssumption == \A s \in Graphs : IsGraph(s)

Init ==
  /\ succ \in Graphs
  /\ cond \in [Block -> Cond]
  /\ \A b \in Block : (cond[b] = "none") <=> (Len(succ[b]) < 2)
  /\ \E b \in Block : cond[b] \in {"true", "false"}
  /\ pred = [b \in Block |-> PredsIn(succ, b)]
  /\ phi = [b \in Block |->
              [ops |-> IF Len(pred[b]) > 1 THEN pred[b] ELSE <<>>, value |-> NoBlock]]
  /\ dead = {}
  /\ at = 1
  /\ walk = NoWalk
  /\ plain = TRUE
  /\ header = Headers(succ)
  /\ graph = Block

(***************************************************************************)
(* The outer loop: one block.                                              *)
(***************************************************************************)
isLoopBackedge(b) ==
  succ[b] # <<>> /\ Last(succ[b]) \in header /\ Last(pred[Last(succ[b])]) = b

Folded(b) == b \notin dead /\ cond[b] \in {"true", "false"}

(* getSuccessor(condition): the branch that is not taken. *)
DeleteBranchStart(b) == IF cond[b] = "true" THEN succ[b][2] ELSE succ[b][1]
KeepBranchStart(b) == IF cond[b] = "true" THEN succ[b][1] ELSE succ[b][2]

TooRare(b) ==
  LET d == DeleteBranchStart(b)
  IN  Len(succ[d]) <= 2 /\ (d \in header \/ isLoopBackedge(d))

(* Faulty variant: the loop runs once more, past the last block. *)
SkipsPastTheEnd ==
  /\ walk = NoWalk
  /\ at <= N + 1
  /\ at <= N => (Folded(at) => TooRare(at))
  /\ at' = at + 1
  /\ UNCHANGED <<succ, cond, pred, phi, dead, walk, plain, header, graph>>

(* The block does not end in a folded test, or the test is left alone. *)
Skip ==
  /\ walk = NoWalk
  /\ at <= N
  /\ Folded(at) => TooRare(at)
  /\ at' = at + 1
  /\ UNCHANGED <<succ, cond, pred, phi, dead, walk, plain, header, graph>>

(***************************************************************************)
(* The test in b is an if statement: control enters the blocks between b   *)
(* and the join j from b only, and leaves them to j only, without a jump   *)
(* or a return.  The dead branch is free of loops and leads to j along one *)
(* edge, or is empty.                                                      *)
(***************************************************************************)
PlainIf(b) ==
  LET live == Reachable(succ)
      branch == live \ Reachable([succ EXCEPT ![b] = <<KeepBranchStart(b)>>])
  IN  \E j \in (b + 1)..N :
        LET inside == (b + 1)..(j - 1)
        IN  /\ inside \subseteq {p \in live : succ[p] # <<>>}
            /\ \A p \in inside \cup {b} : Range(succ[p]) \subseteq inside \cup {j}
            /\ \A p \in Block \ (inside \cup {b}) : Range(succ[p]) \cap inside = {}
            /\ branch \subseteq inside \ header
            /\ \A p \in branch : Range(succ[p]) \subseteq branch \cup {j}
            /\ Cardinality({p \in branch : j \in Range(succ[p])}) <= 1

(* The test becomes a jump.  While the walk is at its first block, the     *)
(* block of the test counts as deleted.                                    *)
StartWalk ==
  /\ walk = NoWalk
  /\ at <= N
  /\ Folded(at)
  /\ ~TooRare(at)
  /\ LET d == DeleteBranchStart(at)
     IN  /\ walk' = [block |-> at, start |-> d, cur |-> d, first |-> TRUE,
                     last |-> at]
         /\ dead' = dead \cup {d, at}
  /\ succ' = [succ EXCEPT ![at] = <<KeepBranchStart(at)>>]
  /\ cond' = [cond EXCEPT ![at] = "none"]
  /\ plain' = (plain /\ PlainIf(at))
  /\ UNCHANGED <<pred, phi, at, header, graph>>

(***************************************************************************)
(* The inner loop: one block of the list, from the start of the branch.    *)
(***************************************************************************)
Live(b) == {i \in DOMAIN pred[b] : pred[b][i] \notin dead}

(* branchOver *)
BranchOver(b) == Live(b) # {}

(* atLeastOneDel: b itself counts as live once a live predecessor was met. *)
AtLeastOneDel(b) ==
  \E i \in DOMAIN pred[b] :
    /\ pred[b][i] \in dead
    /\ pred[b][i] = b => \A j \in Live(b) : j > i

(* Faulty variant: a block marked earlier stays marked. *)
KeepsMarks(b) == dead

(* Marks after the loop over the predecessors of b. *)
Looked(b) == IF BranchOver(b) THEN dead \ {b} ELSE dead

WithoutPred(b, p) == [pred EXCEPT ![b] = RemoveFirst(@, p)]

(* Index of p among the predecessors of b, and of the first if p is none. *)
PredIndex(b, p) ==
  IF p \in Range(pred[b]) THEN SelectInSeq(pred[b], LAMBDA q : q = p) ELSE 1

(* removeOperand(index).  A phi that lost an operand for a predecessor     *)
(* that stayed can have fewer operands than the block has predecessors;    *)
(* what erasing past the last operand leaves is undefined.                 *)
RemoveOperand(ops, i) ==
  IF i <= Len(ops) THEN {RemoveAt(ops, i)} ELSE [1..(Len(ops) - 1) -> Block]

(* Faulty variant: getOperand(index) in place of getOperand(!index). *)
KeepsDeadOperand(b, i) ==
  IF phi[b].value # NoBlock \/ phi[b].ops = <<>> THEN {phi[b]}
  ELSE IF Len(phi[b].ops) = 2
       THEN {[ops |-> <<>>, value |-> phi[b].ops[IF i = 1 THEN 1 ELSE 2]]}
       ELSE {[phi[b] EXCEPT !.ops = ops] : ops \in RemoveOperand(phi[b].ops, i)}

(* The phi of b loses the operand at index i. *)
FixedPhi(b, i) ==
  IF phi[b].value # NoBlock \/ phi[b].ops = <<>> THEN {phi[b]}
  ELSE IF Len(phi[b].ops) = 2
       THEN {[ops |-> <<>>, value |-> phi[b].ops[IF i = 1 THEN 2 ELSE 1]]}
       ELSE {[phi[b] EXCEPT !.ops = ops] : ops \in RemoveOperand(phi[b].ops, i)}

(* The end of the walk: the edge from the test into the branch goes. *)
EndWalk(marks, preds) ==
  LET d == walk.start
      p == [preds EXCEPT ![d] = RemoveFirst(@, walk.block)]
  IN  /\ pred' = p
      /\ dead' = IF walk.block \in Range(preds[d]) /\ p[d] = <<>>
                 THEN marks \cup {d} ELSE marks
      /\ walk' = NoWalk
      /\ at' = at + 1

(* A block that lives on is reached from the dead branch: its phis lose    *)
(* the operand for lastBranchBlock and the walk is over.                   *)
ReachLiveBlock ==
  /\ walk # NoWalk
  /\ BranchOver(walk.cur)
  /\ AtLeastOneDel(walk.cur)
  /\ succ[walk.last] # <<>>
  /\ LET d == IF walk.first THEN walk.cur ELSE succ[walk.last][1]
         p == IF walk.first THEN pred ELSE WithoutPred(d, walk.last)
         marks == IF walk.first THEN Looked(walk.cur) \ {walk.block}
                  ELSE IF walk.last \in Range(pred[d]) /\ p[d] = <<>>
                       THEN Looked(walk.cur) \cup {d}
                       ELSE Looked(walk.cur)
     IN  /\ \E f \in FixedPhi(d, PredIndex(d, walk.last)) : phi' = [phi EXCEPT ![d] = f]
         /\ EndWalk(marks, p)
  /\ UNCHANGED <<succ, cond, plain, header, graph>>

(* The same when the last block of the branch has no successor. *)
ReachLiveBlockAfterReturn ==
  /\ walk # NoWalk
  /\ BranchOver(walk.cur)
  /\ AtLeastOneDel(walk.cur)
  /\ succ[walk.last] = <<>>
  /\ EndWalk(Looked(walk.cur), pred)
  /\ UNCHANGED <<succ, cond, phi, plain, header, graph>>

(* Faulty variant: the block with only dead predecessors is not marked. *)
LeavesBlocksUnmarked ==
  /\ walk # NoWalk
  /\ ~(BranchOver(walk.cur) /\ AtLeastOneDel(walk.cur))
  /\ LET marks == IF walk.first THEN Looked(walk.cur) \ {walk.block}
                  ELSE Looked(walk.cur)
     IN  IF walk.cur = N
         THEN EndWalk(marks, pred)
         ELSE /\ walk' = [walk EXCEPT
                            !.cur = @ + 1, !.first = FALSE,
                            !.last = IF AtLeastOneDel(walk.cur) THEN walk.cur ELSE @]
              /\ dead' = marks
              /\ UNCHANGED <<pred, at>>
  /\ UNCHANGED <<succ, cond, phi, plain, header, graph>>

(* The block is dead if a predecessor is, and the walk goes on. *)
WalkOn ==
  /\ walk # NoWalk
  /\ ~(BranchOver(walk.cur) /\ AtLeastOneDel(walk.cur))
  /\ LET cleared == IF walk.first THEN Looked(walk.cur) \ {walk.block}
                    ELSE Looked(walk.cur)
         marks == IF AtLeastOneDel(walk.cur) THEN cleared \cup {walk.cur} ELSE cleared
     IN  IF walk.cur = N
         THEN EndWalk(marks, pred)
         ELSE /\ walk' = [walk EXCEPT
                            !.cur = @ + 1, !.first = FALSE,
                            !.last = IF AtLeastOneDel(walk.cur) THEN walk.cur ELSE @]
              /\ dead' = marks
              /\ UNCHANGED <<pred, at>>
  /\ UNCHANGED <<succ, cond, phi, plain, header, graph>>

(***************************************************************************)
(* The last loop: marked blocks leave the graph and the predecessor lists. *)
(***************************************************************************)

(* Faulty variant: only the first successor hears of the removal. *)
SweepsFirstEdgeOnly ==
  /\ at = N + 1
  /\ walk = NoWalk
  /\ dead \cap graph # {}
  /\ graph' = graph \ dead
  /\ pred' = [b \in Block |->
       Kept(pred[b], {p \in Block : ~(p \in dead /\ succ[p] # <<>> /\ succ[p][1] = b)})]
  /\ UNCHANGED <<succ, cond, phi, dead, at, walk, plain, header>>

Sweep ==
  /\ at = N + 1
  /\ walk = NoWalk
  /\ dead \cap graph # {}
  /\ graph' = graph \ dead
  /\ pred' = [b \in Block |->
       Kept(pred[b], {p \in Block : ~(p \in dead /\ b \in Range(succ[p]))})]
  /\ UNCHANGED <<succ, cond, phi, dead, at, walk, plain, header>>

Next ==
  Skip \/ StartWalk \/ ReachLiveBlock \/ ReachLiveBlockAfterReturn \/ WalkOn \/ Sweep

Spec == Init /\ [][Next]_vars

(***************************************************************************)
(* Properties.                                                             *)
(***************************************************************************)
Done == at = N + 1 /\ walk = NoWalk /\ dead \cap graph = {}

(* A block that the code can still reach is not removed, however the dead  *)
(* branches of the folded tests overlap: marks that one walk sets or takes *)
(* back are found by the walks after it.                                   *)
KeepsReachable == Done => Reachable(succ) \subseteq graph

(* Predecessor lists and successors describe the same edges again, after   *)
(* the walks, the end of each branch and the sweep each removed their part *)
(* of the edges into blocks that stay.                                     *)
EdgesMatch ==
  Done => \A b \in graph : Range(pred[b]) = {p \in graph : b \in Range(succ[p])}

(* The phi of a block has an operand for each predecessor, in their order, *)
(* or gave way to the operand of the only predecessor that is left.        *)
PhiMatches(b) ==
  IF phi[b].value # NoBlock THEN pred[b] = <<phi[b].value>>
  ELSE phi[b].ops # <<>> => phi[b].ops = pred[b]

(* Where every folded test is an if statement without jumps, the phis of   *)
(* the code that stays lose the operands of the predecessors that are      *)
(* gone, and no others, however the if statements are nested and whichever *)
(* of them were removed before with their own phis.                        *)
PhisMatchAfterPlainIf ==
  Done /\ plain => \A b \in graph \cap Reachable(succ) : PhiMatches(b)

(* Where every folded test is an if statement without jumps, whole         *)
(* branches go: the walk does not stop before the end of the branch, nor   *)
(* at blocks that an earlier walk has left in between.                     *)
DeadBranchesAreGone == Done /\ plain => graph \subseteq Reachable(succ)

(* "Prime the phi for each predecessor, so input(x) comes from             *)
(* predecessor(x)", for whatever branch is removed.                        *)
PhisMatchPredecessors ==
  Done => \A b \in graph \cap Reachable(succ) : PhiMatches(b)
===============================================================================
