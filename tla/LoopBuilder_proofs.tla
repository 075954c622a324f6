------------------------- MODULE LoopBuilder_proofs -------------------------
(***************************************************************************)
(* Proofs about IonBuilder's control flow, for all bytecode that is laid   *)
(* out as IsBytecode says, with and without loop inversion.                *)
(***************************************************************************)
EXTENDS LoopBuilder, Lists, TLAPS

-----------------------------------------------------------------------------
(* The inductive invariant.  Its parts take the graph and the stack as       *)
(* parameters, so that the lemmas can speak of those a handler makes.        *)

Control == [op : {"none", "goto", "test", "return"}, pc : Nat, to : Seq(Nat)]

Block == [pc : Nat, ins : Seq(Nat), end : Control, pred : Seq(Nat), header : BOOLEAN]

(* The successors a control instruction has. *)
EndOK(e, D, c) ==
  /\ Range(e.to) \subseteq D
  /\ e.op = "none" => e.to = <<>>
  /\ e.op = "goto" => Len(e.to) = 1
  /\ e.op = "test" => Len(e.to) = 2 /\ e.to[1] # e.to[2]
  /\ e.op = "return" => e.to = <<>> /\ c[e.pc].op \in {"RETURN", "STOP"}
  /\ e.op \in {"none", "goto"} => e.pc = NULL

InsOK(q, c) == \A i \in DOMAIN q : q[i] \in DOMAIN c /\ c[q[i]].op \in {"OP", "LOOPHEAD"}

BlocksOK(bs, c) ==
  /\ bs \in Seq(Block)
  /\ \A b \in DOMAIN bs : EndOK(bs[b].end, DOMAIN bs, c) /\ InsOK(bs[b].ins, c)

(* Predecessors and successors agree, but for the blocks in X. *)
EdgesOK(bs, X) ==
  \A b \in DOMAIN bs :
    /\ b \notin X => /\ NoRepeats(bs[b].pred)
                     /\ Range(bs[b].pred) \subseteq DOMAIN bs
                     /\ \A p \in DOMAIN bs : p \in Range(bs[b].pred) <=> b \in Range(bs[p].end.to)
    /\ b \in X => \A p \in DOMAIN bs : b \notin Range(bs[p].end.to)

(* The list has every block once, and after its predecessors, the second of  *)
(* the two that a loop header has excepted.                                  *)
OrderOK(bs, o, X) ==
  /\ o \in Seq(Nat)
  /\ NoRepeats(o)
  /\ Range(o) = DOMAIN bs
  /\ \A b \in DOMAIN bs \ X : \A i \in DOMAIN bs[b].pred :
       Before(o, bs[b].pred[i], b) \/ (bs[b].header /\ i = 2 /\ Len(bs[b].pred) = 2)

GraphOK(bs, o, X, c) == BlocksOK(bs, c) /\ EdgesOK(bs, X) /\ OrderOK(bs, o, X)

(* A block that has no control instruction yet. *)
IsOpen(bs, b) == b \in DOMAIN bs /\ bs[b].end = NoEnd

Level ==
  [state : State, stopAt : Nat, ifFalse : Nat, ifTrue : Nat, falseEnd : Nat,
   entry : Nat, bodyStart : Nat, bodyEnd : Nat, exitpc : Nat, successor : Nat,
   breaks : Seq(Nat), continues : Seq(Nat), updatepc : Nat, updateEnd : Nat]

LoopLevel == LoopState \cup {"WHILE_OR_FOR_INVERTED"}

(* The structures in which an expression is read. *)
ExprState ==
  {"AND_OR", "FAKE_IF", "DO_WHILE_LOOP_COND", "WHILE_LOOP_COND", "FOR_LOOP_COND",
   "FOR_LOOP_UPDATE"}

(* The open blocks a structure remembers. *)
Held(s) ==
  IF s.state \in {"IF_TRUE", "AND_OR", "IF_ELSE_TRUE"} THEN {s.ifFalse}
  ELSE IF s.state = "IF_ELSE_FALSE" THEN {s.ifTrue} \ {NULL}
  ELSE IF s.state = "FAKE_IF" THEN {s.entry}
  ELSE IF s.state = "FAKE_IF_END" THEN {}
  ELSE ({s.successor} \ {NULL}) \cup Range(s.breaks) \cup Range(s.continues)

(* The block a structure adds predecessors to. *)
Owned(s) ==
  IF s.state \in {"IF_TRUE", "AND_OR"} THEN {s.ifFalse}
  ELSE IF s.state \in LoopLevel THEN {s.entry}
  ELSE {}

(* The headers of inverted loops whose first condition is being read. *)
Unentered(st) == {st[k].entry : k \in {l \in DOMAIN st : st[l].state = "FAKE_IF"}}

IfOK(s, bs, c) ==
  /\ bs[s.ifFalse].pc \in DOMAIN c
  /\ s.state # "IF_ELSE_TRUE" => bs[s.ifFalse].pc = s.stopAt

(* The block before the header of an inverted loop jumps to the header. *)
FakeIfEndOK(s, bs, X) ==
  /\ s.stopAt # 0
  /\ s.entry \in DOMAIN bs
  /\ \/ s.entry \in X
     \/ /\ bs[s.entry].pred # <<>>
        /\ Head(bs[s.entry].pred) \in DOMAIN bs
        /\ bs[Head(bs[s.entry].pred)].end = MGoto(s.entry)

LoopOK(s, bs, c) ==
  /\ s.entry \in DOMAIN bs
  /\ Len(bs[s.entry].pred) = 1
  /\ s.exitpc \in DOMAIN c
  /\ s.bodyStart \in DOMAIN c
  /\ NoRepeats(s.breaks) /\ NoRepeats(s.continues)
  /\ Range(s.breaks) \cap Range(s.continues) = {}
  /\ s.successor \notin Range(s.breaks) \cup Range(s.continues)
  /\ s.successor # NULL => bs[s.successor].pc \in DOMAIN c
  /\ s.state \in {"DO_WHILE_LOOP_BODY", "WHILE_OR_FOR_INVERTED"} => s.successor = NULL
  /\ s.state = "DO_WHILE_LOOP_COND" => s.stopAt = s.updateEnd
  /\ s.state \in {"DO_WHILE_LOOP_BODY", "WHILE_OR_FOR_INVERTED", "DO_WHILE_LOOP_COND"} =>
       s.exitpc = s.updateEnd + 1
  /\ \/ s.state \in {"DO_WHILE_LOOP_BODY", "WHILE_OR_FOR_INVERTED"}
     \/ s.state \in {"FOR_LOOP_COND", "FOR_LOOP_BODY"} /\ s.updatepc # NULL
     => s.updatepc \in DOMAIN c /\ IsExpression(c, s.updatepc, s.updateEnd)

LevelOK(s, bs, X, c) ==
  /\ \A b \in Held(s) : IsOpen(bs, b)
  /\ s.state \in {"IF_TRUE", "AND_OR", "IF_ELSE_TRUE"} => IfOK(s, bs, c)
  /\ s.state \in {"IF_ELSE_TRUE", "IF_ELSE_FALSE"} => s.falseEnd \in DOMAIN c
  /\ s.state = "FAKE_IF" => s.bodyStart \in DOMAIN c
  /\ s.state = "FAKE_IF_END" => FakeIfEndOK(s, bs, X)
  /\ s.state \in LoopLevel => LoopOK(s, bs, c)

(* Structure a is around structure b. *)
Around(a, b) ==
  /\ Held(a) \cap Held(b) = {}
  /\ Owned(a) \cap Owned(b) = {}
  /\ a.state = "FAKE_IF_END" /\ b.state = "FAKE_IF_END" => a.entry # b.entry
  /\ a.state \in ExprState => b.state = "AND_OR" /\ b.stopAt <= a.stopAt

(* Structure b is right inside structure a. *)
RightAround(a, b) ==
  a.state = "FAKE_IF_END" =>
    /\ b.state \in {"WHILE_OR_FOR_INVERTED", "DO_WHILE_LOOP_COND"}
    /\ b.entry = a.entry
    /\ b.exitpc = a.stopAt

Levels(st, bs, X, c) == \A k \in DOMAIN st : LevelOK(st[k], bs, X, c)

Shape(st) ==
  /\ st \in Seq(Level)
  /\ \A k, l \in DOMAIN st : k < l => Around(st[k], st[l])
  /\ \A k \in DOMAIN st : k + 1 \in DOMAIN st => RightAround(st[k], st[k + 1])

Unheld(st, b) == \A k \in DOMAIN st : b \notin Held(st[k])

Unowned(st, b) == \A k \in DOMAIN st : b \notin Owned(st[k])

CurrentOK(cur, p, st, bs, c) ==
  cur # NULL => IsOpen(bs, cur) /\ p \in DOMAIN c /\ Unheld(st, cur)

ExprOK(cur, p, st, c) ==
  \A k \in DOMAIN st : st[k].state \in ExprState =>
    cur # NULL /\ IsExpression(c, p, st[k].stopAt)

(* The block behind an inverted loop is new when processFakeIfEnd sees it. *)
TopOK(cur, p, st, o, br) ==
  st # <<>> /\ Last(st).state = "FAKE_IF_END" =>
    IF cur = NULL THEN br
    ELSE /\ p = Last(st).stopAt
         /\ Last(o) = cur
         /\ cur # Last(st).entry
         /\ Unowned(st, cur)

Loops(st) == {k \in DOMAIN st : st[k].state \in LoopLevel}

(* g gives the entry of each loop on the stack. *)
Matches(g, st, ls, br) ==
  /\ g \in [Loops(st) -> DOMAIN ls]
  /\ \A k \in Loops(st) : ls[g[k]].cfgEntry = k
  /\ \A k, l \in Loops(st) : k < l => g[k] < g[l]
  /\ ~br => \A i \in DOMAIN ls : \E k \in Loops(st) : g[k] = i

LoopsOK(st, ls, br) ==
  /\ ls \in Seq([cfgEntry : Nat, continuepc : Nat])
  /\ \E g : Matches(g, st, ls, br)

(* The graph and the stack, without the place the builder is at. *)
Frame(st, bs, o, c) ==
  GraphOK(bs, o, Unentered(st), c) /\ Shape(st) /\ Levels(st, bs, Unentered(st), c)

Good(st, bs, o, cur, p, ls, br, c) ==
  /\ IsBytecode(c) /\ p \in Nat /\ cur \in Nat /\ br \in BOOLEAN
  /\ Frame(st, bs, o, c)
  /\ CurrentOK(cur, p, st, bs, c)
  /\ ExprOK(cur, p, st, c)
  /\ TopOK(cur, p, st, o, br)
  /\ LoopsOK(st, ls, br)

BuildOK == Good(cfgStack, blocks, order, current, pc, loops, broken, code)

(* A place in the compiled code. *)
PlaceOK(d, bs) == d \in [block : DOMAIN bs, index : Nat \ {0}, checked : BOOLEAN]

RunOK ==
  /\ status \in {"building", "built", "aborted", "crashed"}
  /\ status = "built" => cfgStack = <<>> /\ current = NULL
  /\ at \in DOMAIN code
  /\ 1 \in DOMAIN blocks
  /\ PlaceOK(pos, blocks)
  /\ interrupt \in BOOLEAN
  /\ CrashesOnlyIfBroken

-----------------------------------------------------------------------------
(* Steps of the graph.  n is the graph after the step. *)

(* Only the blocks in C get a control instruction, only those in T get       *)
(* predecessors.                                                             *)
Grows(bs, n, C, T) ==
  /\ DOMAIN bs \subseteq DOMAIN n
  /\ \A b \in DOMAIN bs :
       /\ n[b].pc = bs[b].pc
       /\ b \notin C => n[b].end = bs[b].end
       /\ b \notin T => n[b].pred = bs[b].pred
       /\ bs[b].pred # <<>> => n[b].pred # <<>> /\ Head(n[b].pred) = Head(bs[b].pred)

LEMMA GrowsTwice ==
  ASSUME NEW bs, NEW n, NEW m, NEW C, NEW T, NEW D, NEW U,
         Grows(bs, n, C, T), Grows(n, m, D, U)
  PROVE  Grows(bs, m, C \cup D, T \cup U)
BY DEF Grows

(* A list of blocks and its indices. *)
LEMMA BlockSeq ==
  ASSUME NEW bs \in Seq(Block)
  PROVE  /\ Len(bs) \in Nat /\ DOMAIN bs = 1..Len(bs)
         /\ \A b \in DOMAIN bs :
              /\ bs[b] \in Block /\ bs[b].pc \in Nat /\ bs[b].ins \in Seq(Nat)
              /\ bs[b].end \in Control /\ bs[b].pred \in Seq(Nat) /\ bs[b].header \in BOOLEAN
              /\ bs[b].end.to \in Seq(Nat) /\ bs[b].end.op \in {"none", "goto", "test", "return"}
<1>1. Len(bs) \in Nat /\ DOMAIN bs = 1..Len(bs)  OBVIOUS
<1>2. \A b \in DOMAIN bs : bs[b] \in Block  OBVIOUS
<1> QED BY <1>1, <1>2 DEF Block, Control

LEMMA Ends ==
  /\ NoEnd \in Control
  /\ \A t \in Nat : MGoto(t) \in Control
  /\ \A p, t, f \in Nat : MTest(p, t, f) \in Control
  /\ \A p \in Nat : MReturn(p) \in Control
BY DEF NoEnd, MGoto, MTest, MReturn, Control, NULL

LEMMA EndTargets ==
  /\ Range(NoEnd.to) = {}
  /\ \A t : Range(MGoto(t).to) = {t}
  /\ \A p : Range(MReturn(p).to) = {}
BY RangeOfNone, RangeOfOne, RangeOfTwo DEF NoEnd, MGoto, MTest, MReturn

(* Block p gets the control instruction e, and block t the predecessor p. *)
EdgeAdded(n, bs, p, t, e) ==
  /\ n \in Seq(Block)
  /\ DOMAIN n = DOMAIN bs
  /\ \A x \in DOMAIN bs :
       /\ n[x].pc = bs[x].pc
       /\ n[x].ins = bs[x].ins
       /\ n[x].end = IF x = p THEN e ELSE bs[x].end
       /\ n[x].pred = IF x = t THEN Append(bs[x].pred, p) ELSE bs[x].pred
       /\ bs[x].header => n[x].header

(* A control instruction gets one more successor, which is told. *)
LEMMA GEdge ==
  ASSUME NEW bs, NEW n, NEW o, NEW X, NEW c, GraphOK(bs, o, X, c),
         NEW p \in DOMAIN bs, NEW t \in DOMAIN bs, t \notin X,
         NEW e \in Control, EndOK(e, DOMAIN bs, c),
         \A x : x \in Range(e.to) <=> x \in Range(bs[p].end.to) \/ x = t,
         t \notin Range(bs[p].end.to),
         EdgeAdded(n, bs, p, t, e),
         \/ Before(o, p, t) /\ \A i \in DOMAIN bs[t].pred : Before(o, bs[t].pred[i], t)
         \/ n[t].header /\ Len(bs[t].pred) = 1
  PROVE  GraphOK(n, o, X, c) /\ Grows(bs, n, {p}, {t})
<1>1. bs \in Seq(Block) /\ BlocksOK(bs, c) /\ EdgesOK(bs, X) /\ OrderOK(bs, o, X)
  BY DEF GraphOK, BlocksOK
<1>2. /\ Len(bs) \in Nat /\ DOMAIN bs = 1..Len(bs)
      /\ \A b \in DOMAIN bs : bs[b].pred \in Seq(Nat) /\ bs[b].end.to \in Seq(Nat)
  BY <1>1, BlockSeq
<1>3. /\ n \in Seq(Block) /\ DOMAIN n = DOMAIN bs
      /\ \A x \in DOMAIN bs :
           /\ n[x].pc = bs[x].pc /\ n[x].ins = bs[x].ins
           /\ n[x].end = IF x = p THEN e ELSE bs[x].end
           /\ n[x].pred = IF x = t THEN Append(bs[x].pred, p) ELSE bs[x].pred
           /\ bs[x].header => n[x].header
  BY DEF EdgeAdded
<1> DEFINE q == bs[t].pred
<1>4. q \in Seq(Nat) /\ p \in Nat  BY <1>2
<1>5. NoRepeats(q) /\ \A x \in DOMAIN bs : x \in Range(q) <=> t \in Range(bs[x].end.to)
  BY <1>1 DEF EdgesOK
<1>6. /\ \A x : x \in Range(Append(q, p)) <=> x \in Range(q) \/ x = p
      /\ NoRepeats(q) /\ p \notin Range(q) => NoRepeats(Append(q, p))
  BY <1>4, RangeOfAppend
<1>7. p \notin Range(q)  BY <1>5
<1>8. BlocksOK(n, c)
  BY <1>1, <1>3 DEF BlocksOK
<1>9. EdgesOK(n, X)
  <2> SUFFICES ASSUME NEW b \in DOMAIN bs
               PROVE  /\ b \notin X =>
                           /\ NoRepeats(n[b].pred)
                           /\ Range(n[b].pred) \subseteq DOMAIN n
                           /\ \A x \in DOMAIN n :
                                x \in Range(n[b].pred) <=> b \in Range(n[x].end.to)
                      /\ b \in X => \A x \in DOMAIN n : b \notin Range(n[x].end.to)
    BY <1>3 DEF EdgesOK
  <2>1. /\ b \notin X => /\ NoRepeats(bs[b].pred)
                         /\ Range(bs[b].pred) \subseteq DOMAIN bs
                         /\ \A x \in DOMAIN bs :
                              x \in Range(bs[b].pred) <=> b \in Range(bs[x].end.to)
        /\ b \in X => \A x \in DOMAIN bs : b \notin Range(bs[x].end.to)
    BY <1>1 DEF EdgesOK
  <2>2. \A x \in DOMAIN bs : b \in Range(n[x].end.to)
                               <=> b \in Range(bs[x].end.to) \/ (x = p /\ b = t)
    BY <1>3
  <2>3. CASE b # t  BY <1>3, <2>1, <2>2, <2>3
  <2>4. CASE b = t
    <3>1. n[b].pred = Append(q, p)  BY <1>3, <2>4
    <3> QED BY <1>3, <1>5, <1>6, <1>7, <2>1, <2>2, <2>4, <3>1
  <2> QED BY <2>3, <2>4
<1>10. OrderOK(n, o, X)
  <2>1. o \in Seq(Nat) /\ NoRepeats(o) /\ Range(o) = DOMAIN n  BY <1>1, <1>3 DEF OrderOK
  <2>2. ASSUME NEW b \in DOMAIN bs \ X, NEW i \in DOMAIN n[b].pred
        PROVE  Before(o, n[b].pred[i], b) \/ (n[b].header /\ i = 2 /\ Len(n[b].pred) = 2)
    <3>1. \A j \in DOMAIN bs[b].pred :
             Before(o, bs[b].pred[j], b) \/ (bs[b].header /\ j = 2 /\ Len(bs[b].pred) = 2)
      BY <1>1 DEF OrderOK
    <3>2. CASE b # t  BY <1>3, <2>2, <3>1, <3>2
    <3>3. CASE b = t
      <4>1. n[b].pred = Append(q, p)  BY <1>3, <3>3
      <4>2. /\ DOMAIN Append(q, p) = 1..(Len(q) + 1) /\ DOMAIN q = 1..Len(q) /\ Len(q) \in Nat
            /\ \A j \in 1..Len(q) : Append(q, p)[j] = q[j]
            /\ Append(q, p)[Len(q) + 1] = p
        BY <1>4
      <4>3. CASE i \in DOMAIN q
        <5>1. \A j \in DOMAIN q : Before(o, q[j], t)
          <6>1. CASE n[t].header /\ Len(q) = 1
            <7>1. \A j \in DOMAIN q : Before(o, q[j], t) \/ Len(q) = 2  BY <3>1, <3>3
            <7> QED BY <6>1, <7>1
          <6> QED BY <6>1
        <5> QED BY <3>3, <4>1, <4>2, <4>3, <5>1
      <4>4. CASE i = Len(q) + 1
        <5>1. n[b].pred[i] = p /\ Len(n[b].pred) = Len(q) + 1  BY <1>4, <4>1, <4>2, <4>4
        <5>2. Len(q) = 1 => i = 2 /\ Len(n[b].pred) = 2  BY <4>4, <5>1
        <5> QED BY <3>3, <5>1, <5>2
      <4> QED BY <2>2, <4>1, <4>2, <4>3, <4>4
    <3> QED BY <3>2, <3>3
  <2> QED BY <1>3, <2>1, <2>2 DEF OrderOK
<1>11. Grows(bs, n, {p}, {t})
  <2>1. Head(Append(q, p)) = IF q = <<>> THEN p ELSE Head(q)  BY <1>4
  <2>2. Append(q, p) # <<>>  BY <1>4
  <2> SUFFICES ASSUME NEW b \in DOMAIN bs
               PROVE  /\ n[b].pc = bs[b].pc
                      /\ b \notin {p} => n[b].end = bs[b].end
                      /\ b \notin {t} => n[b].pred = bs[b].pred
                      /\ bs[b].pred # <<>> => n[b].pred # <<>> /\ Head(n[b].pred) = Head(bs[b].pred)
    BY <1>3 DEF Grows
  <2>3. CASE b = t
    <3>1. n[b].pred = Append(q, p)  BY <1>3, <2>3
    <3> HIDE DEF q
    <3> QED BY <1>3, <2>1, <2>2, <2>3, <3>1 DEF q
  <2>4. CASE b # t  BY <1>3, <2>4
  <2> QED BY <2>3, <2>4
<1> QED BY <1>8, <1>9, <1>10, <1>11 DEF GraphOK


(* A block in which one field is changed. *)
LEMMA EndChanged ==
  ASSUME NEW k \in Block, NEW e \in Control
  PROVE  LET r == [k EXCEPT !.end = e] IN
         /\ r \in Block /\ r.end = e
         /\ r.pc = k.pc /\ r.ins = k.ins /\ r.pred = k.pred /\ r.header = k.header
BY DEF Block

LEMMA PredChanged ==
  ASSUME NEW k \in Block, NEW q \in Seq(Nat)
  PROVE  LET r == [k EXCEPT !.pred = q] IN
         /\ r \in Block /\ r.pred = q
         /\ r.pc = k.pc /\ r.ins = k.ins /\ r.end = k.end /\ r.header = k.header
BY DEF Block

LEMMA InsChanged ==
  ASSUME NEW k \in Block, NEW q \in Seq(Nat)
  PROVE  LET r == [k EXCEPT !.ins = q] IN
         /\ r \in Block /\ r.ins = q
         /\ r.pc = k.pc /\ r.pred = k.pred /\ r.end = k.end /\ r.header = k.header
BY DEF Block

LEMMA HeaderChanged ==
  ASSUME NEW k \in Block
  PROVE  LET r == [k EXCEPT !.header = TRUE] IN
         /\ r \in Block /\ r.header
         /\ r.pc = k.pc /\ r.pred = k.pred /\ r.end = k.end /\ r.ins = k.ins
BY DEF Block

LEMMA BlockReplaced ==
  ASSUME NEW bs \in Seq(Block), NEW b \in DOMAIN bs, NEW r \in Block
  PROVE  LET n == [bs EXCEPT ![b] = r] IN
         /\ n \in Seq(Block) /\ DOMAIN n = DOMAIN bs /\ Len(n) = Len(bs)
         /\ \A x \in DOMAIN bs : n[x] = IF x = b THEN r ELSE bs[x]
OBVIOUS

(* n is bs, but for one block. *)
IsUpdate(n, bs, b) ==
  /\ n \in Seq(Block) /\ DOMAIN n = DOMAIN bs /\ Len(n) = Len(bs)
  /\ \A x \in DOMAIN bs : x # b => n[x] = bs[x]

LEMMA EndUpdate ==
  ASSUME NEW bs \in Seq(Block), NEW b \in DOMAIN bs, NEW e \in Control
  PROVE  /\ IsUpdate(End(bs, b, e), bs, b)
         /\ End(bs, b, e)[b].end = e
         /\ End(bs, b, e)[b].pc = bs[b].pc /\ End(bs, b, e)[b].ins = bs[b].ins
         /\ End(bs, b, e)[b].pred = bs[b].pred /\ End(bs, b, e)[b].header = bs[b].header
<1> DEFINE r == [bs[b] EXCEPT !.end = e]
           n == [bs EXCEPT ![b] = r]
<1>1. bs[b] \in Block  BY BlockSeq
<1>2. /\ r \in Block /\ r.end = e
      /\ r.pc = bs[b].pc /\ r.ins = bs[b].ins /\ r.pred = bs[b].pred /\ r.header = bs[b].header
  BY <1>1, EndChanged
<1>3. End(bs, b, e) = n  BY DEF End
<1> HIDE DEF r
<1>4. /\ n \in Seq(Block) /\ DOMAIN n = DOMAIN bs /\ Len(n) = Len(bs)
      /\ \A x \in DOMAIN bs : n[x] = IF x = b THEN r ELSE bs[x]
  BY <1>2, BlockReplaced
<1> HIDE DEF n
<1> QED BY <1>2, <1>3, <1>4 DEF IsUpdate

LEMMA PredUpdate ==
  ASSUME NEW bs \in Seq(Block), NEW b \in DOMAIN bs, NEW p \in Nat
  PROVE  /\ IsUpdate(addPredecessor(bs, b, p), bs, b)
         /\ addPredecessor(bs, b, p)[b].pred = Append(bs[b].pred, p)
         /\ addPredecessor(bs, b, p)[b].pc = bs[b].pc
         /\ addPredecessor(bs, b, p)[b].ins = bs[b].ins
         /\ addPredecessor(bs, b, p)[b].end = bs[b].end
         /\ addPredecessor(bs, b, p)[b].header = bs[b].header
<1> DEFINE q == Append(bs[b].pred, p)
           r == [bs[b] EXCEPT !.pred = q]
           n == [bs EXCEPT ![b] = r]
<1>1. bs[b] \in Block /\ bs[b].pred \in Seq(Nat)  BY BlockSeq
<1>2. q \in Seq(Nat)  BY <1>1
<1>3. addPredecessor(bs, b, p) = n  BY DEF addPredecessor
<1> HIDE DEF q
<1>4. /\ r \in Block /\ r.pred = q
      /\ r.pc = bs[b].pc /\ r.ins = bs[b].ins /\ r.end = bs[b].end /\ r.header = bs[b].header
  BY <1>1, <1>2, PredChanged
<1> HIDE DEF r
<1>5. /\ n \in Seq(Block) /\ DOMAIN n = DOMAIN bs /\ Len(n) = Len(bs)
      /\ \A x \in DOMAIN bs : n[x] = IF x = b THEN r ELSE bs[x]
  BY <1>4, BlockReplaced
<1> HIDE DEF n
<1> QED BY <1>3, <1>4, <1>5 DEF IsUpdate, q

LEMMA HeaderUpdate ==
  ASSUME NEW bs \in Seq(Block), NEW b \in DOMAIN bs
  PROVE  LET n == [bs EXCEPT ![b].header = TRUE] IN
         /\ IsUpdate(n, bs, b)
         /\ n[b].header
         /\ n[b].pc = bs[b].pc /\ n[b].ins = bs[b].ins
         /\ n[b].end = bs[b].end /\ n[b].pred = bs[b].pred
<1> DEFINE r == [bs[b] EXCEPT !.header = TRUE]
           n == [bs EXCEPT ![b] = r]
<1>1. bs[b] \in Block  BY BlockSeq
<1>2. [bs EXCEPT ![b].header = TRUE] = n  OBVIOUS
<1>3. /\ r \in Block /\ r.header
      /\ r.pc = bs[b].pc /\ r.ins = bs[b].ins /\ r.end = bs[b].end /\ r.pred = bs[b].pred
  BY <1>1, HeaderChanged
<1> HIDE DEF r
<1>4. /\ n \in Seq(Block) /\ DOMAIN n = DOMAIN bs /\ Len(n) = Len(bs)
      /\ \A x \in DOMAIN bs : n[x] = IF x = b THEN r ELSE bs[x]
  BY <1>3, BlockReplaced
<1> HIDE DEF n
<1> QED BY <1>2, <1>3, <1>4 DEF IsUpdate

(* A block is added. *)
LEMMA AppendedBlock ==
  ASSUME NEW bs \in Seq(Block), NEW r \in Block
  PROVE  /\ Append(bs, r) \in Seq(Block)
         /\ DOMAIN Append(bs, r) = DOMAIN bs \cup {Len(bs) + 1}
         /\ Len(Append(bs, r)) = Len(bs) + 1
         /\ Len(bs) + 1 \notin DOMAIN bs
         /\ \A b \in DOMAIN bs : Append(bs, r)[b] = bs[b]
         /\ Append(bs, r)[Len(bs) + 1] = r
<1>1. Len(bs) \in Nat /\ DOMAIN bs = 1..Len(bs)  OBVIOUS
<1>2. 1..(Len(bs) + 1) = 1..Len(bs) \cup {Len(bs) + 1}  BY <1>1
<1> QED BY <1>1, <1>2

LEMMA NewBlock ==
  ASSUME NEW p \in Nat, NEW ps \in Seq(Nat)
  PROVE  /\ MBasicBlock(p, ps) \in Block
         /\ MBasicBlock(p, ps).pc = p /\ MBasicBlock(p, ps).ins = <<>>
         /\ MBasicBlock(p, ps).end = NoEnd /\ MBasicBlock(p, ps).pred = ps
BY Ends DEF MBasicBlock, Block

(* The list with a new block at its end. *)
LEMMA OrderAppended ==
  ASSUME NEW o \in Seq(Nat), NoRepeats(o), NEW D, Range(o) = D, NEW x \in Nat, x \notin D
  PROVE  /\ Append(o, x) \in Seq(Nat) /\ NoRepeats(Append(o, x)) /\ Range(Append(o, x)) = D \cup {x}
         /\ \A y, z : Before(o, y, z) => Before(Append(o, x), y, z)
         /\ \A y \in D : Before(Append(o, x), y, x)
<1>1. /\ Append(o, x) \in Seq(Nat)
      /\ \A y : y \in Range(Append(o, x)) <=> y \in Range(o) \/ y = x
      /\ NoRepeats(o) /\ x \notin Range(o) => NoRepeats(Append(o, x))
  BY RangeOfAppend
<1>2. /\ \A y, z : Before(o, y, z) => Before(Append(o, x), y, z)
      /\ \A y \in Range(o) : Before(Append(o, x), y, x)
  BY BeforeAppended
<1> QED BY <1>1, <1>2

(* A block without predecessors, or with one that does not know of it. *)
LEMMA GNew ==
  ASSUME NEW bs, NEW o, NEW X, NEW c, GraphOK(bs, o, X, c),
         NEW p \in Nat, NEW ps \in Seq(Nat), NEW Y,
         (Y = X /\ ps = <<>>) \/ Y = X \cup {Len(bs) + 1}
  PROVE  /\ GraphOK(Append(bs, MBasicBlock(p, ps)), Append(o, Len(bs) + 1), Y, c)
         /\ Grows(bs, Append(bs, MBasicBlock(p, ps)), {}, {})
<1> DEFINE r == MBasicBlock(p, ps)
           n == Append(bs, r)
           m == Len(bs) + 1
<1>1. bs \in Seq(Block) /\ BlocksOK(bs, c) /\ EdgesOK(bs, X) /\ OrderOK(bs, o, X)
  BY DEF GraphOK, BlocksOK
<1>2. r \in Block /\ r.pc = p /\ r.ins = <<>> /\ r.end = NoEnd /\ r.pred = ps  BY NewBlock
<1> HIDE DEF r
<1>3. /\ n \in Seq(Block) /\ DOMAIN n = DOMAIN bs \cup {m} /\ m \notin DOMAIN bs
      /\ \A b \in DOMAIN bs : n[b] = bs[b]
      /\ n[m] = r
  BY <1>1, <1>2, AppendedBlock
<1>4. m \in Nat  BY <1>1, BlockSeq
<1> HIDE DEF n, m
<1>5. Range(n[m].end.to) = {}  BY <1>2, <1>3, EndTargets
<1>6. BlocksOK(n, c)
  <2>1. EndOK(n[m].end, DOMAIN n, c)  BY <1>2, <1>3, <1>5 DEF EndOK, NoEnd, NULL
  <2>2. InsOK(n[m].ins, c)  BY <1>2, <1>3 DEF InsOK
  <2>3. \A b \in DOMAIN bs : EndOK(n[b].end, DOMAIN n, c) /\ InsOK(n[b].ins, c)
    BY <1>1, <1>3 DEF BlocksOK, EndOK
  <2> QED BY <1>3, <2>1, <2>2, <2>3 DEF BlocksOK
<1>7. \A x \in DOMAIN n : m \notin Range(n[x].end.to)
  <2>1. \A x \in DOMAIN bs : Range(bs[x].end.to) \subseteq DOMAIN bs
    BY <1>1 DEF BlocksOK, EndOK
  <2> QED BY <1>3, <1>5, <2>1
<1>8. EdgesOK(n, Y)
  <2> SUFFICES ASSUME NEW b \in DOMAIN n
               PROVE  /\ b \notin Y =>
                           /\ NoRepeats(n[b].pred)
                           /\ Range(n[b].pred) \subseteq DOMAIN n
                           /\ \A x \in DOMAIN n :
                                x \in Range(n[b].pred) <=> b \in Range(n[x].end.to)
                      /\ b \in Y => \A x \in DOMAIN n : b \notin Range(n[x].end.to)
    BY DEF EdgesOK
  <2>1. CASE b = m
    <3>1. b \notin Y => n[b].pred = <<>>  BY <1>2, <1>3, <2>1 DEF m
    <3> QED BY <1>7, <2>1, <3>1, RangeOfNone
  <2>2. CASE b \in DOMAIN bs
    <3>1. /\ b \notin X => /\ NoRepeats(bs[b].pred)
                           /\ Range(bs[b].pred) \subseteq DOMAIN bs
                           /\ \A x \in DOMAIN bs :
                                x \in Range(bs[b].pred) <=> b \in Range(bs[x].end.to)
          /\ b \in X => \A x \in DOMAIN bs : b \notin Range(bs[x].end.to)
      BY <1>1, <2>2 DEF EdgesOK
    <3>2. b \in Y <=> b \in X  BY <1>3, <2>2 DEF m
    <3>3. n[b] = bs[b]  BY <1>3, <2>2
    <3> QED BY <1>3, <1>5, <2>2, <3>1, <3>2, <3>3
  <2> QED BY <1>3, <2>1, <2>2
<1>9. OrderOK(n, Append(o, m), Y)
  <2>1. o \in Seq(Nat) /\ NoRepeats(o) /\ Range(o) = DOMAIN bs  BY <1>1 DEF OrderOK
  <2>2. /\ Append(o, m) \in Seq(Nat) /\ NoRepeats(Append(o, m))
        /\ Range(Append(o, m)) = DOMAIN bs \cup {m}
        /\ \A y, z : Before(o, y, z) => Before(Append(o, m), y, z)
    BY <1>3, <1>4, <2>1, OrderAppended
  <2>3. ASSUME NEW b \in DOMAIN n \ Y, NEW i \in DOMAIN n[b].pred
        PROVE  Before(Append(o, m), n[b].pred[i], b) \/ (n[b].header /\ i = 2 /\ Len(n[b].pred) = 2)
    <3>1. CASE b = m
      <4>1. n[b].pred = <<>>  BY <1>2, <1>3, <3>1 DEF m
      <4> QED BY <2>3, <4>1
    <3>2. CASE b \in DOMAIN bs
      <4>1. b \notin X  BY <1>3, <2>3, <3>2
      <4>2. n[b] = bs[b]  BY <1>3, <3>2
      <4>3. Before(o, n[b].pred[i], b) \/ (n[b].header /\ i = 2 /\ Len(n[b].pred) = 2)
        BY <1>1, <2>3, <3>2, <4>1, <4>2 DEF OrderOK
      <4> QED BY <2>2, <4>3
    <3> QED BY <1>3, <3>1, <3>2
  <2> QED BY <1>3, <2>2, <2>3 DEF OrderOK
<1>10. Grows(bs, n, {}, {})  BY <1>3 DEF Grows
<1> QED BY <1>6, <1>8, <1>9, <1>10 DEF GraphOK, n, r, m

(* n has a block more than bs, and those in ps jump to it. *)
IsJoin(n, bs, ps, p) ==
  LET m == Len(bs) + 1 IN
  /\ n \in Seq(Block) /\ DOMAIN n = DOMAIN bs \cup {m} /\ Len(n) = m /\ m \notin DOMAIN bs
  /\ n[m].pc = p /\ n[m].ins = <<>> /\ n[m].end = NoEnd /\ n[m].pred = ps
  /\ n[m].header = FALSE
  /\ \A b \in DOMAIN bs :
       /\ n[b].pc = bs[b].pc /\ n[b].ins = bs[b].ins /\ n[b].pred = bs[b].pred
       /\ n[b].header = bs[b].header
       /\ n[b].end = IF b \in Range(ps) THEN MGoto(m) ELSE bs[b].end

(* A new block that open blocks jump to. *)
LEMMA GJoin ==
  ASSUME NEW bs, NEW o, NEW X, NEW c, GraphOK(bs, o, X, c), X \subseteq DOMAIN bs,
         NEW p \in Nat, NEW ps \in Seq(Nat), NoRepeats(ps),
         \A x \in Range(ps) : IsOpen(bs, x)
  PROVE  /\ GraphOK(Join(bs, ps, p), Append(o, Len(bs) + 1), X, c)
         /\ Grows(bs, Join(bs, ps, p), Range(ps), {})
         /\ IsJoin(Join(bs, ps, p), bs, ps, p)
<1> DEFINE m == Len(bs) + 1
           f == [b \in DOMAIN bs |->
                   IF b \in Range(ps) THEN [bs[b] EXCEPT !.end = MGoto(m)] ELSE bs[b]]
           r == MBasicBlock(p, ps)
           n == Append(f, r)
<1>1. bs \in Seq(Block) /\ BlocksOK(bs, c) /\ EdgesOK(bs, X) /\ OrderOK(bs, o, X)
  BY DEF GraphOK, BlocksOK
<1>2. r \in Block /\ r.pc = p /\ r.ins = <<>> /\ r.end = NoEnd /\ r.pred = ps  BY NewBlock
<1>3. /\ Len(bs) \in Nat /\ DOMAIN bs = 1..Len(bs) /\ m \in Nat /\ m \notin DOMAIN bs
      /\ \A b \in DOMAIN bs : bs[b] \in Block
  BY <1>1, BlockSeq
<1>4. Join(bs, ps, p) = n  BY DEF Join
<1>5. \A b \in DOMAIN bs : f[b] \in Block
  <2>1. MGoto(m) \in Control  BY <1>3, Ends
  <2> DEFINE e == MGoto(m)
  <2>2. e \in Control  BY <2>1
  <2>3. \A b \in DOMAIN bs : f[b] = IF b \in Range(ps) THEN [bs[b] EXCEPT !.end = e] ELSE bs[b]
    OBVIOUS
  <2> HIDE DEF e, f, m
  <2>4. \A x \in Block : [x EXCEPT !.end = e] \in Block  BY <2>2 DEF Block
  <2> QED BY ONLY <1>3, <2>3, <2>4
<1>6. f \in Seq(Block) /\ Len(f) = Len(bs) /\ DOMAIN f = DOMAIN bs
  <2>1. f \in [1..Len(bs) -> Block]  BY <1>3, <1>5
  <2> HIDE DEF f
  <2> QED BY <1>3, <2>1
<1>7. \A b \in DOMAIN bs :
        /\ f[b].pc = bs[b].pc /\ f[b].ins = bs[b].ins /\ f[b].pred = bs[b].pred
        /\ f[b].header = bs[b].header
        /\ f[b].end = IF b \in Range(ps) THEN MGoto(m) ELSE bs[b].end
  BY <1>3 DEF Block
<1> HIDE DEF f, r
<1>8. /\ n \in Seq(Block) /\ DOMAIN n = DOMAIN bs \cup {m} /\ Len(n) = m
      /\ \A b \in DOMAIN bs : n[b] = f[b]
      /\ n[m] = r
  BY <1>2, <1>6, AppendedBlock
<1> HIDE DEF n, m
<1>9. \A b \in DOMAIN bs :
        /\ n[b].pc = bs[b].pc /\ n[b].ins = bs[b].ins /\ n[b].pred = bs[b].pred
        /\ n[b].header = bs[b].header
        /\ n[b].end = IF b \in Range(ps) THEN MGoto(m) ELSE bs[b].end
  BY <1>7, <1>8
<1>10. Range(n[m].end.to) = {} /\ Range(MGoto(m).to) = {m}  BY <1>2, <1>8, EndTargets
<1>11. \A x \in Range(ps) : x \in DOMAIN bs /\ Range(bs[x].end.to) = {}
  BY EndTargets DEF IsOpen
<1>12. \A x \in DOMAIN bs : Range(bs[x].end.to) \subseteq DOMAIN bs
  BY <1>1 DEF BlocksOK, EndOK
<1>13. \A x \in DOMAIN n : \A b :
         b \in Range(n[x].end.to) <=> \/ x \in DOMAIN bs /\ b \in Range(bs[x].end.to)
                                      \/ x \in Range(ps) /\ b = m
  <2> SUFFICES ASSUME NEW x \in DOMAIN n, NEW b
               PROVE  b \in Range(n[x].end.to) <=>
                        \/ x \in DOMAIN bs /\ b \in Range(bs[x].end.to)
                        \/ x \in Range(ps) /\ b = m
    OBVIOUS
  <2>1. CASE x = m  BY <1>3, <1>10, <1>11, <2>1 DEF m
  <2>2. CASE x \in DOMAIN bs /\ x \in Range(ps)  BY <1>9, <1>10, <1>11, <2>2
  <2>3. CASE x \in DOMAIN bs /\ x \notin Range(ps)  BY <1>9, <2>3
  <2> QED BY <1>8, <2>1, <2>2, <2>3
<1>14. BlocksOK(n, c)
  <2>1. EndOK(n[m].end, DOMAIN n, c)  BY <1>2, <1>8, <1>10 DEF EndOK, NoEnd, NULL
  <2>2. InsOK(n[m].ins, c)  BY <1>2, <1>8 DEF InsOK
  <2>3. EndOK(MGoto(m), DOMAIN n, c)  BY <1>8, <1>10 DEF EndOK, MGoto, NULL
  <2>4. ASSUME NEW b \in DOMAIN bs PROVE EndOK(n[b].end, DOMAIN n, c) /\ InsOK(n[b].ins, c)
    <3>1. EndOK(bs[b].end, DOMAIN bs, c) /\ InsOK(bs[b].ins, c)  BY <1>1 DEF BlocksOK
    <3>2. EndOK(bs[b].end, DOMAIN n, c)  BY <1>8, <3>1 DEF EndOK
    <3> QED BY <1>9, <2>3, <3>1, <3>2
  <2> QED BY <1>8, <2>1, <2>2, <2>4 DEF BlocksOK
<1>15. EdgesOK(n, X)
  <2> SUFFICES ASSUME NEW b \in DOMAIN n
               PROVE  /\ b \notin X =>
                           /\ NoRepeats(n[b].pred)
                           /\ Range(n[b].pred) \subseteq DOMAIN n
                           /\ \A x \in DOMAIN n :
                                x \in Range(n[b].pred) <=> b \in Range(n[x].end.to)
                      /\ b \in X => \A x \in DOMAIN n : b \notin Range(n[x].end.to)
    BY DEF EdgesOK
  <2>1. CASE b = m
    <3>1. n[b].pred = ps  BY <1>2, <1>8, <2>1
    <3>2. b \notin X  BY <1>3, <2>1 DEF m
    <3>3. \A x \in DOMAIN bs : b \notin Range(bs[x].end.to)  BY <1>3, <1>12, <2>1 DEF m
    <3> QED BY <1>8, <1>11, <1>13, <2>1, <3>1, <3>2, <3>3
  <2>2. CASE b \in DOMAIN bs
    <3>1. /\ b \notin X => /\ NoRepeats(bs[b].pred)
                           /\ Range(bs[b].pred) \subseteq DOMAIN bs
                           /\ \A x \in DOMAIN bs :
                                x \in Range(bs[b].pred) <=> b \in Range(bs[x].end.to)
          /\ b \in X => \A x \in DOMAIN bs : b \notin Range(bs[x].end.to)
      BY <1>1, <2>2 DEF EdgesOK
    <3>2. b # m  BY <1>3, <2>2 DEF m
    <3>3. n[b].pred = bs[b].pred  BY <1>9, <2>2
    <3>4. \A x \in DOMAIN n : b \in Range(n[x].end.to) <=> x \in DOMAIN bs /\ b \in Range(bs[x].end.to)
      BY <1>13, <3>2
    <3> QED BY <1>8, <3>1, <3>3, <3>4
  <2> QED BY <1>8, <2>1, <2>2
<1>16. OrderOK(n, Append(o, m), X)
  <2>1. o \in Seq(Nat) /\ NoRepeats(o) /\ Range(o) = DOMAIN bs  BY <1>1 DEF OrderOK
  <2>2. m \in Nat /\ m \notin DOMAIN bs  BY <1>3 DEF m
  <2>3. /\ Append(o, m) \in Seq(Nat) /\ NoRepeats(Append(o, m))
        /\ Range(Append(o, m)) = DOMAIN bs \cup {m}
        /\ \A y, z : Before(o, y, z) => Before(Append(o, m), y, z)
        /\ \A y \in DOMAIN bs : Before(Append(o, m), y, m)
    BY <2>1, <2>2, OrderAppended
  <2>4. ASSUME NEW b \in DOMAIN n \ X, NEW i \in DOMAIN n[b].pred
        PROVE  Before(Append(o, m), n[b].pred[i], b) \/ (n[b].header /\ i = 2 /\ Len(n[b].pred) = 2)
    <3>1. CASE b = m
      <4>1. n[b].pred = ps  BY <1>2, <1>8, <3>1
      <4>2. ps[i] \in Range(ps)  BY <2>4, <4>1 DEF Range
      <4> QED BY <1>11, <2>3, <3>1, <4>1, <4>2
    <3>2. CASE b \in DOMAIN bs
      <4>1. n[b].pred = bs[b].pred /\ n[b].header = bs[b].header  BY <1>9, <3>2
      <4>2. Before(o, n[b].pred[i], b) \/ (n[b].header /\ i = 2 /\ Len(n[b].pred) = 2)
        BY <1>1, <2>4, <3>2, <4>1 DEF OrderOK
      <4> QED BY <2>3, <4>2
    <3> QED BY <1>8, <3>1, <3>2
  <2> QED BY <1>8, <2>3, <2>4 DEF OrderOK
<1>17. Grows(bs, n, Range(ps), {})  BY <1>8, <1>9 DEF Grows
<1>18. IsJoin(n, bs, ps, p)
  <2>1. n[m].header = FALSE  BY <1>8 DEF r, MBasicBlock
  <2> QED BY <1>2, <1>3, <1>8, <1>9, <2>1 DEF IsJoin, m
<1> QED BY <1>4, <1>8, <1>14, <1>15, <1>16, <1>17, <1>18 DEF GraphOK, m

(* An open block is moved behind all others. *)
LEMMA GMove ==
  ASSUME NEW bs, NEW o, NEW X, NEW c, GraphOK(bs, o, X, c), NEW t, IsOpen(bs, t)
  PROVE  /\ GraphOK(bs, moveBlockToEnd(o, t), X, c)
         /\ \A x \in DOMAIN bs : x # t => Before(moveBlockToEnd(o, t), x, t)
         /\ Last(moveBlockToEnd(o, t)) = t
<1>1. bs \in Seq(Block) /\ BlocksOK(bs, c) /\ EdgesOK(bs, X) /\ OrderOK(bs, o, X)
  BY DEF GraphOK, BlocksOK
<1>2. t \in DOMAIN bs /\ Range(bs[t].end.to) = {}  BY EndTargets DEF IsOpen
<1>3. o \in Seq(Nat) /\ NoRepeats(o) /\ Range(o) = DOMAIN bs  BY <1>1 DEF OrderOK
<1> DEFINE m == Append(RemoveFirst(o, t), t)
<1>4. /\ m \in Seq(Nat) /\ NoRepeats(m) /\ Range(m) = Range(o)
      /\ \A x, y : Before(o, x, y) /\ x # t => Before(m, x, y)
      /\ \A x \in Range(o) : x # t => Before(m, x, t)
      /\ Last(m) = t
  BY <1>2, <1>3, BeforeMoved
<1>5. moveBlockToEnd(o, t) = m  BY DEF moveBlockToEnd
<1> HIDE DEF m
<1>6. ASSUME NEW b \in DOMAIN bs \ X, NEW i \in DOMAIN bs[b].pred
      PROVE  Before(m, bs[b].pred[i], b) \/ (bs[b].header /\ i = 2 /\ Len(bs[b].pred) = 2)
  <2>1. bs[b].pred[i] \in Range(bs[b].pred)  BY DEF Range
  <2>2. bs[b].pred[i] \in DOMAIN bs /\ b \in Range(bs[bs[b].pred[i]].end.to)
    BY <1>1, <2>1 DEF EdgesOK
  <2>3. bs[b].pred[i] # t  BY <1>2, <2>2
  <2>4. Before(o, bs[b].pred[i], b) \/ (bs[b].header /\ i = 2 /\ Len(bs[b].pred) = 2)  BY <1>1 DEF OrderOK
  <2> QED BY <1>4, <2>3, <2>4
<1>7. OrderOK(bs, m, X)  BY <1>3, <1>4, <1>6 DEF OrderOK
<1> QED BY <1>1, <1>3, <1>4, <1>5, <1>7 DEF GraphOK

(* Changes that leave the edges alone. *)
LEMMA GSame ==
  ASSUME NEW bs, NEW n, NEW o, NEW X, NEW c, GraphOK(bs, o, X, c), NEW C,
         n \in Seq(Block), DOMAIN n = DOMAIN bs,
         \A b \in DOMAIN bs :
           /\ n[b].pc = bs[b].pc /\ n[b].pred = bs[b].pred /\ n[b].header = bs[b].header
           /\ InsOK(n[b].ins, c)
           /\ b \notin C => n[b].end = bs[b].end
           /\ EndOK(n[b].end, DOMAIN bs, c)
           /\ Range(n[b].end.to) = Range(bs[b].end.to)
  PROVE  GraphOK(n, o, X, c) /\ Grows(bs, n, C, {})
<1>1. bs \in Seq(Block) /\ BlocksOK(bs, c) /\ EdgesOK(bs, X) /\ OrderOK(bs, o, X)
  BY DEF GraphOK, BlocksOK
<1>2. BlocksOK(n, c)  BY DEF BlocksOK
<1>3. EdgesOK(n, X)
  <2> SUFFICES ASSUME NEW b \in DOMAIN bs
               PROVE  /\ b \notin X =>
                           /\ NoRepeats(n[b].pred)
                           /\ Range(n[b].pred) \subseteq DOMAIN n
                           /\ \A x \in DOMAIN n :
                                x \in Range(n[b].pred) <=> b \in Range(n[x].end.to)
                      /\ b \in X => \A x \in DOMAIN n : b \notin Range(n[x].end.to)
    BY DEF EdgesOK
  <2>1. /\ b \notin X => /\ NoRepeats(bs[b].pred)
                         /\ Range(bs[b].pred) \subseteq DOMAIN bs
                         /\ \A x \in DOMAIN bs :
                              x \in Range(bs[b].pred) <=> b \in Range(bs[x].end.to)
        /\ b \in X => \A x \in DOMAIN bs : b \notin Range(bs[x].end.to)
    BY <1>1 DEF EdgesOK
  <2> QED BY <2>1
<1>4. OrderOK(n, o, X)
  <2>1. o \in Seq(Nat) /\ NoRepeats(o) /\ Range(o) = DOMAIN n  BY <1>1 DEF OrderOK
  <2>2. \A b \in DOMAIN bs \ X : \A i \in DOMAIN bs[b].pred :
           Before(o, bs[b].pred[i], b) \/ (bs[b].header /\ i = 2 /\ Len(bs[b].pred) = 2)
    BY <1>1 DEF OrderOK
  <2>3. \A b \in DOMAIN n \ X : \A i \in DOMAIN n[b].pred :
           Before(o, n[b].pred[i], b) \/ (n[b].header /\ i = 2 /\ Len(n[b].pred) = 2)
    BY <2>2
  <2> QED BY <2>1, <2>3 DEF OrderOK
<1>5. Grows(bs, n, C, {})  BY DEF Grows
<1> QED BY <1>2, <1>3, <1>4, <1>5 DEF GraphOK

LEMMA GReturn ==
  ASSUME NEW bs, NEW o, NEW X, NEW c, GraphOK(bs, o, X, c), NEW b, IsOpen(bs, b),
         NEW p \in Nat, c[p].op \in {"RETURN", "STOP"}
  PROVE  GraphOK(End(bs, b, MReturn(p)), o, X, c) /\ Grows(bs, End(bs, b, MReturn(p)), {b}, {})
<1> DEFINE n == End(bs, b, MReturn(p))
<1>1. bs \in Seq(Block) /\ b \in DOMAIN bs /\ BlocksOK(bs, c)  BY DEF GraphOK, BlocksOK, IsOpen
<1>2. MReturn(p) \in Control /\ Range(MReturn(p).to) = {}  BY Ends, EndTargets
<1>3. n \in Seq(Block) /\ DOMAIN n = DOMAIN bs
      /\ \A x \in DOMAIN bs :
           /\ n[x].pc = bs[x].pc /\ n[x].pred = bs[x].pred /\ n[x].header = bs[x].header
           /\ n[x].ins = bs[x].ins
           /\ n[x].end = IF x = b THEN MReturn(p) ELSE bs[x].end
  BY <1>1, <1>2, EndUpdate DEF IsUpdate
<1>4. EndOK(MReturn(p), DOMAIN bs, c)  BY <1>2 DEF EndOK, MReturn
<1>5. Range(bs[b].end.to) = {}  BY EndTargets DEF IsOpen
<1> HIDE DEF n
<1>6. \A x \in DOMAIN bs :
        /\ InsOK(n[x].ins, c)
        /\ x \notin {b} => n[x].end = bs[x].end
        /\ EndOK(n[x].end, DOMAIN bs, c)
        /\ Range(n[x].end.to) = Range(bs[x].end.to)
  BY <1>1, <1>2, <1>3, <1>4, <1>5 DEF BlocksOK
<1>7. GraphOK(n, o, X, c) /\ Grows(bs, n, {b}, {})  BY <1>3, <1>6, GSame
<1> QED BY <1>7 DEF n

LEMMA GIns ==
  ASSUME NEW bs, NEW o, NEW X, NEW c, GraphOK(bs, o, X, c), NEW b \in DOMAIN bs,
         NEW p \in DOMAIN c, p \in Nat, c[p].op \in {"OP", "LOOPHEAD"}
  PROVE  /\ GraphOK([bs EXCEPT ![b].ins = Append(@, p)], o, X, c)
         /\ Grows(bs, [bs EXCEPT ![b].ins = Append(@, p)], {}, {})
         /\ Len([bs EXCEPT ![b].ins = Append(@, p)]) = Len(bs)
<1> DEFINE n == [bs EXCEPT ![b].ins = Append(@, p)]
           q == bs[b].ins
<1>1. bs \in Seq(Block) /\ BlocksOK(bs, c)  BY DEF GraphOK, BlocksOK
<1>2. q \in Seq(Nat) /\ InsOK(q, c)  BY <1>1, BlockSeq DEF BlocksOK
<1> HIDE DEF q
<1>3. Append(q, p) \in Seq(Nat)  BY <1>2
<1>4. InsOK(Append(q, p), c)
  <2>1. /\ DOMAIN q = 1..Len(q) /\ DOMAIN Append(q, p) = 1..(Len(q) + 1) /\ Len(q) \in Nat
        /\ \A i \in 1..Len(q) : Append(q, p)[i] = q[i]
        /\ Append(q, p)[Len(q) + 1] = p
    BY <1>2
  <2>2. \A i \in 1..(Len(q) + 1) : i \in 1..Len(q) \/ i = Len(q) + 1  BY <2>1
  <2> QED BY <1>2, <2>1, <2>2 DEF InsOK
<1>5. /\ n \in Seq(Block) /\ DOMAIN n = DOMAIN bs /\ Len(n) = Len(bs)
      /\ \A x \in DOMAIN bs :
           /\ n[x].pc = bs[x].pc /\ n[x].pred = bs[x].pred /\ n[x].header = bs[x].header
           /\ n[x].end = bs[x].end
           /\ n[x].ins = IF x = b THEN Append(q, p) ELSE bs[x].ins
  <2> DEFINE a == Append(q, p)
             r == [bs[b] EXCEPT !.ins = a]
  <2>1. bs[b] \in Block  BY <1>1, BlockSeq
  <2>2. n = [bs EXCEPT ![b] = r]  BY DEF q
  <2>3. a \in Seq(Nat)  BY <1>3
  <2> HIDE DEF a
  <2>4. /\ r \in Block /\ r.ins = a
        /\ r.pc = bs[b].pc /\ r.pred = bs[b].pred /\ r.end = bs[b].end /\ r.header = bs[b].header
    BY <2>1, <2>3, InsChanged
  <2> HIDE DEF r, n
  <2>5. LET m == [bs EXCEPT ![b] = r] IN
        /\ m \in Seq(Block) /\ DOMAIN m = DOMAIN bs /\ Len(m) = Len(bs)
        /\ \A x \in DOMAIN bs : m[x] = IF x = b THEN r ELSE bs[x]
    BY <1>1, <2>4, BlockReplaced
  <2> QED BY <2>2, <2>4, <2>5 DEF a
<1> HIDE DEF n
<1>6. \A x \in DOMAIN bs :
        /\ InsOK(n[x].ins, c)
        /\ x \notin {} => n[x].end = bs[x].end
        /\ EndOK(n[x].end, DOMAIN bs, c)
        /\ Range(n[x].end.to) = Range(bs[x].end.to)
  BY <1>1, <1>4, <1>5 DEF BlocksOK
<1>7. GraphOK(n, o, X, c) /\ Grows(bs, n, {}, {})  BY <1>5, <1>6, GSame
<1> QED BY <1>5, <1>7 DEF n

(* The header of an inverted loop loses the predecessor that did not know of it. *)
LEMMA GClear ==
  ASSUME NEW bs, NEW o, NEW X, NEW c, GraphOK(bs, o, X, c), NEW e \in X, e \in DOMAIN bs
  PROVE  /\ GraphOK([bs EXCEPT ![e].pred = <<>>], o, X \ {e}, c)
<1> DEFINE n == [bs EXCEPT ![e].pred = <<>>]
<1>1. bs \in Seq(Block) /\ BlocksOK(bs, c) /\ EdgesOK(bs, X) /\ OrderOK(bs, o, X)
  BY DEF GraphOK, BlocksOK
<1>2. /\ n \in Seq(Block) /\ DOMAIN n = DOMAIN bs
      /\ \A x \in DOMAIN bs :
           /\ n[x].ins = bs[x].ins /\ n[x].header = bs[x].header /\ n[x].end = bs[x].end
           /\ n[x].pred = IF x = e THEN <<>> ELSE bs[x].pred
  <2> DEFINE r == [bs[e] EXCEPT !.pred = <<>>]
  <2>1. bs[e] \in Block /\ <<>> \in Seq(Nat)  BY <1>1, BlockSeq
  <2>2. n = [bs EXCEPT ![e] = r]  OBVIOUS
  <2>3. /\ r \in Block /\ r.pred = <<>>
        /\ r.pc = bs[e].pc /\ r.ins = bs[e].ins /\ r.end = bs[e].end /\ r.header = bs[e].header
    BY <2>1, PredChanged
  <2> HIDE DEF r, n
  <2>4. LET m == [bs EXCEPT ![e] = r] IN
        /\ m \in Seq(Block) /\ DOMAIN m = DOMAIN bs /\ Len(m) = Len(bs)
        /\ \A x \in DOMAIN bs : m[x] = IF x = e THEN r ELSE bs[x]
    BY <1>1, <2>3, BlockReplaced
  <2> QED BY <2>2, <2>3, <2>4
<1> HIDE DEF n
<1>3. BlocksOK(n, c)  BY <1>1, <1>2 DEF BlocksOK
<1>4. EdgesOK(n, X \ {e})
  <2> SUFFICES ASSUME NEW b \in DOMAIN bs
               PROVE  /\ b \notin X \ {e} =>
                           /\ NoRepeats(n[b].pred)
                           /\ Range(n[b].pred) \subseteq DOMAIN n
                           /\ \A x \in DOMAIN n :
                                x \in Range(n[b].pred) <=> b \in Range(n[x].end.to)
                      /\ b \in X \ {e} => \A x \in DOMAIN n : b \notin Range(n[x].end.to)
    BY <1>2 DEF EdgesOK
  <2>1. /\ b \notin X => /\ NoRepeats(bs[b].pred)
                         /\ Range(bs[b].pred) \subseteq DOMAIN bs
                         /\ \A x \in DOMAIN bs :
                              x \in Range(bs[b].pred) <=> b \in Range(bs[x].end.to)
        /\ b \in X => \A x \in DOMAIN bs : b \notin Range(bs[x].end.to)
    BY <1>1 DEF EdgesOK
  <2>2. CASE b = e
    <3>1. n[b].pred = <<>>  BY <1>2, <2>2
    <3> QED BY <1>2, <2>1, <2>2, <3>1, RangeOfNone
  <2>3. CASE b # e  BY <1>2, <2>1, <2>3
  <2> QED BY <2>2, <2>3
<1>5. OrderOK(n, o, X \ {e})
  <2>1. o \in Seq(Nat) /\ NoRepeats(o) /\ Range(o) = DOMAIN n  BY <1>1, <1>2 DEF OrderOK
  <2>2. ASSUME NEW b \in DOMAIN n \ (X \ {e}), NEW i \in DOMAIN n[b].pred
        PROVE  Before(o, n[b].pred[i], b) \/ (n[b].header /\ i = 2 /\ Len(n[b].pred) = 2)
    <3>1. CASE b = e
      <4>1. n[b].pred = <<>>  BY <1>2, <3>1
      <4> QED BY <2>2, <4>1
    <3>2. CASE b # e  BY <1>1, <1>2, <2>2, <3>2 DEF OrderOK
    <3> QED BY <3>1, <3>2
  <2> QED BY <2>1, <2>2 DEF OrderOK
<1> QED BY <1>3, <1>4, <1>5 DEF GraphOK, n

-----------------------------------------------------------------------------
(* What the handlers do to the graph. *)

LEMMA EndThenPred ==
  ASSUME NEW bs \in Seq(Block), NEW p \in DOMAIN bs, NEW t \in DOMAIN bs, NEW e \in Control
  PROVE  /\ EdgeAdded(addPredecessor(End(bs, p, e), t, p), bs, p, t, e)
         /\ Len(addPredecessor(End(bs, p, e), t, p)) = Len(bs)
<1> DEFINE f == End(bs, p, e)
           g == addPredecessor(f, t, p)
<1>1. /\ IsUpdate(f, bs, p) /\ f[p].end = e
      /\ f[p].pc = bs[p].pc /\ f[p].ins = bs[p].ins
      /\ f[p].pred = bs[p].pred /\ f[p].header = bs[p].header
  BY EndUpdate
<1>2. f \in Seq(Block) /\ t \in DOMAIN f /\ p \in Nat  BY <1>1, BlockSeq DEF IsUpdate
<1> HIDE DEF f
<1>3. /\ IsUpdate(g, f, t) /\ g[t].pred = Append(f[t].pred, p)
      /\ g[t].pc = f[t].pc /\ g[t].ins = f[t].ins
      /\ g[t].end = f[t].end /\ g[t].header = f[t].header
  BY <1>2, PredUpdate
<1> HIDE DEF g
<1>4. EdgeAdded(g, bs, p, t, e)  BY <1>1, <1>3 DEF EdgeAdded, IsUpdate
<1> QED BY <1>1, <1>3, <1>4 DEF IsUpdate, f, g

(* The block becomes a loop header as well. *)
LEMMA ThenHeader ==
  ASSUME NEW bs, NEW n, NEW p, NEW t \in DOMAIN bs, NEW e, EdgeAdded(n, bs, p, t, e)
  PROVE  /\ EdgeAdded([n EXCEPT ![t].header = TRUE], bs, p, t, e)
         /\ [n EXCEPT ![t].header = TRUE][t].header
         /\ Len([n EXCEPT ![t].header = TRUE]) = Len(n)
<1> DEFINE h == [n EXCEPT ![t].header = TRUE]
<1>1. n \in Seq(Block) /\ t \in DOMAIN n  BY DEF EdgeAdded
<1>2. /\ IsUpdate(h, n, t) /\ h[t].header
      /\ h[t].pc = n[t].pc /\ h[t].ins = n[t].ins
      /\ h[t].end = n[t].end /\ h[t].pred = n[t].pred
  BY <1>1, HeaderUpdate
<1> HIDE DEF h
<1>3. EdgeAdded(h, bs, p, t, e)  BY <1>2 DEF EdgeAdded, IsUpdate
<1> QED BY <1>2, <1>3 DEF IsUpdate, h

(* An open block is no predecessor of its own. *)
LEMMA PredsOfOpen ==
  ASSUME NEW bs, NEW o, NEW X, NEW c, GraphOK(bs, o, X, c),
         NEW t, IsOpen(bs, t), t \notin X
  PROVE  \A i \in DOMAIN bs[t].pred : bs[t].pred[i] \in DOMAIN bs /\ bs[t].pred[i] # t
<1> SUFFICES ASSUME NEW i \in DOMAIN bs[t].pred
             PROVE  bs[t].pred[i] \in DOMAIN bs /\ bs[t].pred[i] # t
  OBVIOUS
<1>1. t \in DOMAIN bs /\ EdgesOK(bs, X)  BY DEF GraphOK, IsOpen
<1>2. bs[t].pred[i] \in Range(bs[t].pred)  BY DEF Range
<1>3. /\ bs[t].pred[i] \in DOMAIN bs
      /\ t \in Range(bs[bs[t].pred[i]].end.to)
  BY <1>1, <1>2 DEF EdgesOK
<1>4. Range(bs[t].end.to) = {}  BY EndTargets DEF IsOpen
<1> QED BY <1>3, <1>4

(* An open block jumps to another, which moves behind it. *)
LEMMA GJump ==
  ASSUME NEW bs, NEW o, NEW X, NEW c, GraphOK(bs, o, X, c),
         NEW b, IsOpen(bs, b), NEW t, IsOpen(bs, t), b # t, t \notin X
  PROVE  /\ GraphOK(JumpTo(bs, b, t), moveBlockToEnd(o, t), X, c)
         /\ Grows(bs, JumpTo(bs, b, t), {b}, {t})
         /\ Len(JumpTo(bs, b, t)) = Len(bs)
<1> DEFINE n == JumpTo(bs, b, t)
           m == moveBlockToEnd(o, t)
           e == MGoto(t)
<1>1. /\ GraphOK(bs, m, X, c) /\ Before(m, b, t)
      /\ \A x \in DOMAIN bs : x # t => Before(m, x, t)
  BY GMove DEF IsOpen
<1>1a. \A i \in DOMAIN bs[t].pred : Before(m, bs[t].pred[i], t)  BY <1>1, PredsOfOpen
<1>2. bs \in Seq(Block) /\ b \in DOMAIN bs /\ t \in DOMAIN bs
  BY DEF GraphOK, BlocksOK, IsOpen
<1>3. t \in Nat /\ e \in Control  BY <1>2, BlockSeq, Ends
<1>4. EdgeAdded(n, bs, b, t, e) /\ Len(n) = Len(bs)
  <2>1. n = addPredecessor(End(bs, b, e), t, b)  BY DEF JumpTo
  <2> HIDE DEF n, e
  <2>2. /\ EdgeAdded(addPredecessor(End(bs, b, e), t, b), bs, b, t, e)
        /\ Len(addPredecessor(End(bs, b, e), t, b)) = Len(bs)
    BY <1>2, <1>3, EndThenPred
  <2> QED BY <2>1, <2>2
<1>5. Range(e.to) = {t} /\ Range(bs[b].end.to) = {}  BY EndTargets DEF IsOpen
<1>6. EndOK(e, DOMAIN bs, c)  BY <1>2, <1>5 DEF EndOK, MGoto, NULL
<1> HIDE DEF n, m, e
<1>7. GraphOK(n, m, X, c) /\ Grows(bs, n, {b}, {t})
  BY <1>1, <1>1a, <1>2, <1>3, <1>4, <1>5, <1>6, GEdge
<1> QED BY <1>4, <1>7 DEF n, m

(* A block jumps back to the header of a loop. *)
LEMMA GBackGoto ==
  ASSUME NEW bs, NEW o, NEW X, NEW c, GraphOK(bs, o, X, c),
         NEW b, IsOpen(bs, b), NEW t \in DOMAIN bs, t \notin X, Len(bs[t].pred) = 1
  PROVE  LET n == [addPredecessor(End(bs, b, MGoto(t)), t, b) EXCEPT ![t].header = TRUE] IN
         GraphOK(n, o, X, c) /\ Grows(bs, n, {b}, {t}) /\ Len(n) = Len(bs)
<1> DEFINE e == MGoto(t)
           h == addPredecessor(End(bs, b, e), t, b)
           n == [h EXCEPT ![t].header = TRUE]
<1>1. bs \in Seq(Block) /\ b \in DOMAIN bs  BY DEF GraphOK, BlocksOK, IsOpen
<1>2. t \in Nat /\ e \in Control  BY <1>1, BlockSeq, Ends
<1>3. Range(e.to) = {t} /\ Range(bs[b].end.to) = {}  BY EndTargets DEF IsOpen
<1>4. EndOK(e, DOMAIN bs, c)  BY <1>3 DEF EndOK, MGoto, NULL
<1> HIDE DEF e
<1>4a. EdgeAdded(h, bs, b, t, e) /\ Len(h) = Len(bs)  BY <1>1, <1>2, EndThenPred
<1> HIDE DEF h
<1>5. EdgeAdded(n, bs, b, t, e) /\ n[t].header /\ Len(n) = Len(bs)  BY <1>1, <1>4a, ThenHeader
<1> HIDE DEF n
<1>6. GraphOK(n, o, X, c) /\ Grows(bs, n, {b}, {t})
  BY <1>1, <1>2, <1>3, <1>4, <1>5, GEdge
<1> QED BY <1>5, <1>6 DEF n, h, e

(* Only block b gets a control instruction, and only t a predecessor. *)
GrowsBy(bs, n, b, t) == Grows(bs, n, {b}, {t})

(* A test that goes back to the header of a loop or on to a new block. *)
BackTest(bs, b, t, p) ==
  [addPredecessor(Append(End(bs, b, MTest(p, t, Len(bs) + 1)), MBasicBlock(p + 1, <<b>>)), t, b)
     EXCEPT ![t].header = TRUE]

LEMMA GBackTest ==
  ASSUME NEW bs, NEW o, NEW X, NEW c, GraphOK(bs, o, X, c), X \subseteq DOMAIN bs,
         NEW b, IsOpen(bs, b), NEW t \in DOMAIN bs, t \notin X, Len(bs[t].pred) = 1,
         NEW p \in Nat
  PROVE  LET m == Len(bs) + 1
             n == BackTest(bs, b, t, p)
         IN  /\ GraphOK(n, Append(o, m), X, c)
             /\ GrowsBy(bs, n, b, t)
             /\ Len(n) = m
             /\ n[m].end = NoEnd /\ n[m].pc = p + 1
<1> DEFINE m == Len(bs) + 1
           e == MTest(p, t, m)
           f == End(bs, b, e)
           r == MBasicBlock(p + 1, <<b>>)
           g == Append(f, r)
           h == addPredecessor(g, t, b)
           n == [h EXCEPT ![t].header = TRUE]
           j == Join(bs, <<b>>, p + 1)
<1>1. bs \in Seq(Block) /\ b \in DOMAIN bs  BY DEF GraphOK, BlocksOK, IsOpen
<1>2. t \in Nat /\ m \in Nat /\ b \in Nat /\ p + 1 \in Nat /\ e \in Control
  BY <1>1, BlockSeq, Ends
<1>2a. e \in Control /\ Range(e.to) = {t, m} /\ Range(MGoto(m).to) = {m}
  <2> HIDE DEF m
  <2>1. Range(e.to) = {t, m}  BY RangeOfTwo DEF MTest
  <2>2. Range(MGoto(m).to) = {m}  BY EndTargets
  <2> QED BY <1>2, <2>1, <2>2
<1>3. <<b>> \in Seq(Nat) /\ Range(<<b>>) = {b} /\ NoRepeats(<<b>>)  BY <1>2, RangeOfOne
<1>4. /\ GraphOK(j, Append(o, m), X, c) /\ Grows(bs, j, {b}, {})
      /\ IsJoin(j, bs, <<b>>, p + 1)
  BY <1>2, <1>3, GJoin
<1>5. /\ r \in Block /\ r.end = NoEnd /\ r.pc = p + 1 /\ r.ins = <<>> /\ r.pred = <<b>>
      /\ r.header = FALSE
  BY <1>2, <1>3, NewBlock DEF MBasicBlock
<1>6. /\ IsUpdate(f, bs, b) /\ f[b].end = e
      /\ f[b].pc = bs[b].pc /\ f[b].ins = bs[b].ins
      /\ f[b].pred = bs[b].pred /\ f[b].header = bs[b].header
  BY <1>1, <1>2, EndUpdate
<1>7. f \in Seq(Block) /\ Len(f) = Len(bs) /\ DOMAIN f = DOMAIN bs  BY <1>6 DEF IsUpdate
<1> HIDE DEF f, r, j, m, e
<1>8. /\ g \in Seq(Block) /\ DOMAIN g = DOMAIN bs \cup {m} /\ Len(g) = m /\ m \notin DOMAIN bs
      /\ \A x \in DOMAIN bs : g[x] = f[x]
      /\ g[m] = r
  <2>1. /\ Append(f, r) \in Seq(Block)
        /\ DOMAIN Append(f, r) = DOMAIN f \cup {Len(f) + 1}
        /\ Len(Append(f, r)) = Len(f) + 1
        /\ Len(f) + 1 \notin DOMAIN f
        /\ \A x \in DOMAIN f : Append(f, r)[x] = f[x]
        /\ Append(f, r)[Len(f) + 1] = r
    BY <1>5, <1>7, AppendedBlock
  <2>2. Len(f) + 1 = m  BY <1>7 DEF m
  <2> QED BY <1>7, <2>1, <2>2
<1> HIDE DEF g
<1>9. /\ IsUpdate(h, g, t) /\ h[t].pred = Append(g[t].pred, b)
      /\ h[t].pc = g[t].pc /\ h[t].ins = g[t].ins
      /\ h[t].end = g[t].end /\ h[t].header = g[t].header
  <2>1. g \in Seq(Block) /\ t \in DOMAIN g /\ b \in Nat  BY <1>2, <1>8
  <2> QED BY <2>1, PredUpdate
<1>10. h \in Seq(Block) /\ t \in DOMAIN h /\ Len(h) = m  BY <1>8, <1>9 DEF IsUpdate
<1> HIDE DEF h
<1>11. /\ IsUpdate(n, h, t) /\ n[t].header
       /\ n[t].pc = h[t].pc /\ n[t].ins = h[t].ins
       /\ n[t].end = h[t].end /\ n[t].pred = h[t].pred
  BY <1>10, HeaderUpdate
<1> HIDE DEF n
<1>12. /\ j \in Seq(Block) /\ DOMAIN j = DOMAIN bs \cup {m}
       /\ j[m].pc = p + 1 /\ j[m].ins = <<>> /\ j[m].end = NoEnd /\ j[m].pred = <<b>>
       /\ j[m].header = FALSE
       /\ \A x \in DOMAIN bs :
            /\ j[x].pc = bs[x].pc /\ j[x].ins = bs[x].ins /\ j[x].pred = bs[x].pred
            /\ j[x].header = bs[x].header
            /\ j[x].end = IF x = b THEN MGoto(m) ELSE bs[x].end
  BY <1>3, <1>4 DEF IsJoin, m
<1>13. EdgeAdded(n, j, b, t, e)
  <2>1. n \in Seq(Block) /\ DOMAIN n = DOMAIN j  BY <1>8, <1>9, <1>11, <1>12 DEF IsUpdate
  <2>2. ASSUME NEW x \in DOMAIN bs
        PROVE  /\ n[x].pc = bs[x].pc /\ n[x].ins = bs[x].ins
               /\ n[x].end = IF x = b THEN e ELSE bs[x].end
               /\ n[x].pred = IF x = t THEN Append(bs[x].pred, b) ELSE bs[x].pred
               /\ bs[x].header => n[x].header
    <3>1. /\ f[x].pc = bs[x].pc /\ f[x].ins = bs[x].ins /\ f[x].pred = bs[x].pred
          /\ f[x].header = bs[x].header /\ f[x].end = IF x = b THEN e ELSE bs[x].end
      BY <1>6 DEF IsUpdate
    <3>2. g[x] = f[x] /\ x \in DOMAIN g  BY <1>8
    <3>3. /\ h[x].pc = g[x].pc /\ h[x].ins = g[x].ins /\ h[x].end = g[x].end
          /\ h[x].header = g[x].header
          /\ h[x].pred = IF x = t THEN Append(g[x].pred, b) ELSE g[x].pred
      BY <1>9, <3>2 DEF IsUpdate
    <3>4. /\ n[x].pc = h[x].pc /\ n[x].ins = h[x].ins /\ n[x].end = h[x].end
          /\ n[x].pred = h[x].pred
          /\ h[x].header => n[x].header
      BY <1>9, <1>11, <3>2 DEF IsUpdate
    <3>5. n[x].pc = bs[x].pc /\ n[x].ins = bs[x].ins  BY <3>1, <3>2, <3>3, <3>4
    <3>6. n[x].end = IF x = b THEN e ELSE bs[x].end  BY <3>1, <3>2, <3>3, <3>4
    <3>7. n[x].pred = IF x = t THEN Append(bs[x].pred, b) ELSE bs[x].pred
      BY <3>1, <3>2, <3>3, <3>4
    <3>8. bs[x].header => n[x].header
      <4>1. h[x].header = bs[x].header  BY <3>1, <3>2, <3>3
      <4>2. CASE bs[x].header
        <5>1. h[x].header  BY <4>1, <4>2
        <5> QED BY <3>4, <5>1
      <4> QED BY <4>2
    <3> QED BY <3>5, <3>6, <3>7, <3>8
  <2>3. /\ n[m].pc = p + 1 /\ n[m].ins = <<>> /\ n[m].end = NoEnd /\ n[m].pred = <<b>>
        /\ n[m] = r
    BY <1>5, <1>8, <1>9, <1>11 DEF IsUpdate
  <2>4. ASSUME NEW x \in DOMAIN j
        PROVE  /\ n[x].pc = j[x].pc
               /\ n[x].ins = j[x].ins
               /\ n[x].end = IF x = b THEN e ELSE j[x].end
               /\ n[x].pred = IF x = t THEN Append(j[x].pred, b) ELSE j[x].pred
               /\ j[x].header => n[x].header
    <3>1. CASE x = m
      <4>1. x # b /\ x # t  BY <1>1, <1>8, <3>1
      <4> QED BY <1>12, <2>3, <3>1, <4>1
    <3>2. CASE x \in DOMAIN bs
      <4>1. j[x].header => n[x].header
        <5>1. j[x].header = bs[x].header  BY <1>12, <3>2
        <5>2. CASE j[x].header
          <6>1. bs[x].header  BY <5>1, <5>2
          <6> QED BY <2>2, <3>2, <6>1
        <5> QED BY <5>2
      <4> QED BY <1>12, <2>2, <3>2, <4>1
    <3> QED BY <1>12, <3>1, <3>2
  <2> QED BY <2>1, <2>4 DEF EdgeAdded
<1>14. t \in DOMAIN j /\ b \in DOMAIN j /\ Len(j[t].pred) = 1  BY <1>1, <1>12
<1>15. EndOK(e, DOMAIN j, c)
  <2>1. t # m  BY <1>8
  <2> QED BY <1>2a, <1>12, <2>1 DEF EndOK, MTest, NULL, e
<1>16. \A x : x \in Range(e.to) <=> x \in Range(j[b].end.to) \/ x = t
  <2>1. j[b].end = MGoto(m)  BY <1>1, <1>12
  <2> QED BY <1>2a, <2>1
<1>17. t \notin Range(j[b].end.to)
  BY <1>1, <1>2a, <1>8, <1>12
<1>18. GraphOK(n, Append(o, m), X, c) /\ Grows(j, n, {b}, {t})
  BY <1>2a, <1>4, <1>11, <1>13, <1>14, <1>15, <1>16, <1>17, GEdge
<1>19. Grows(bs, n, {b}, {t})
  <2>1. Grows(bs, n, {b} \cup {b}, {} \cup {t})  BY <1>4, <1>18, GrowsTwice
  <2> QED BY <2>1
<1>20. Len(n) = m  BY <1>10, <1>11 DEF IsUpdate
<1>21. n[m].end = NoEnd /\ n[m].pc = p + 1
  BY <1>5, <1>8, <1>9, <1>11 DEF IsUpdate
<1>22. n = BackTest(bs, b, t, p)  BY DEF BackTest, n, h, g, f, r, e, m
<1> QED BY <1>18, <1>19, <1>20, <1>21, <1>22 DEF m, GrowsBy

(* A test of an open block with two new blocks. *)
Branch(bs, b, q, x, y) ==
  End(bs, b, MTest(q, Len(bs) + 1, Len(bs) + 2)) \o
  <<MBasicBlock(x, <<b>>), MBasicBlock(y, <<b>>)>>

LEMMA TwoAppended ==
  ASSUME NEW X, NEW s \in Seq(X), NEW x \in X, NEW y \in X
  PROVE  s \o <<x, y>> = Append(Append(s, x), y)
OBVIOUS

LEMMA GBranch ==
  ASSUME NEW bs, NEW o, NEW X, NEW c, GraphOK(bs, o, X, c), X \subseteq DOMAIN bs,
         NEW b, IsOpen(bs, b), NEW q \in Nat, NEW x \in Nat, NEW y \in Nat
  PROVE  LET n == Branch(bs, b, q, x, y)
             m == Len(bs) + 1
         IN  /\ GraphOK(n, o \o <<m, m + 1>>, X, c)
             /\ Grows(bs, n, {b}, {})
             /\ Len(n) = m + 1
             /\ n[m].end = NoEnd /\ n[m].pc = x
             /\ n[m + 1].end = NoEnd /\ n[m + 1].pc = y
<1> DEFINE n == Branch(bs, b, q, x, y)
           m == Len(bs) + 1
           k == m + 1
           e == MTest(q, m, k)
           f == End(bs, b, e)
           r == MBasicBlock(x, <<b>>)
           s == MBasicBlock(y, <<b>>)
           g == Append(f, r)
           h == Append(g, s)
           j == Join(bs, <<b>>, x)
           u == MBasicBlock(y, <<>>)
           i == Append(j, u)
           o1 == Append(o, m)
           o2 == Append(o1, k)
<1>1. bs \in Seq(Block) /\ b \in DOMAIN bs /\ o \in Seq(Nat)
  BY DEF GraphOK, BlocksOK, OrderOK, IsOpen
<1>2. m \in Nat /\ k \in Nat /\ k = m + 1 /\ b \in Nat /\ Len(bs) \in Nat /\ DOMAIN bs = 1..Len(bs)
  BY <1>1, BlockSeq
<1>3. e \in Control
  <2> HIDE DEF m, k
  <2> QED BY <1>2, Ends
<1>4. <<b>> \in Seq(Nat) /\ Range(<<b>>) = {b} /\ NoRepeats(<<b>>) /\ <<>> \in Seq(Nat)
  BY <1>2, RangeOfOne
<1>5. GraphOK(j, o1, X, c) /\ Grows(bs, j, {b}, {}) /\ IsJoin(j, bs, <<b>>, x)
  BY <1>2, <1>4, GJoin
<1>6. j \in Seq(Block) /\ Len(j) = m  BY <1>5 DEF IsJoin
<1>7. GraphOK(i, o2, X, c) /\ Grows(j, i, {}, {})
  <2>1. Len(j) + 1 = k  BY <1>6
  <2> HIDE DEF j, o1, k, m
  <2>2. /\ GraphOK(Append(j, MBasicBlock(y, <<>>)), Append(o1, Len(j) + 1), X, c)
        /\ Grows(j, Append(j, MBasicBlock(y, <<>>)), {}, {})
    BY <1>4, <1>5, GNew
  <2> QED BY <2>1, <2>2
<1>8. /\ r \in Block /\ r.pc = x /\ r.ins = <<>> /\ r.end = NoEnd /\ r.pred = <<b>> /\ r.header = FALSE
      /\ s \in Block /\ s.pc = y /\ s.ins = <<>> /\ s.end = NoEnd /\ s.pred = <<b>> /\ s.header = FALSE
      /\ u \in Block /\ u.pc = y /\ u.ins = <<>> /\ u.end = NoEnd /\ u.pred = <<>> /\ u.header = FALSE
  BY <1>4, NewBlock DEF MBasicBlock
<1>9. /\ IsUpdate(f, bs, b) /\ f[b].end = e
      /\ f[b].pc = bs[b].pc /\ f[b].ins = bs[b].ins
      /\ f[b].pred = bs[b].pred /\ f[b].header = bs[b].header
  BY <1>1, <1>3, EndUpdate
<1>10. f \in Seq(Block) /\ Len(f) = Len(bs) /\ DOMAIN f = DOMAIN bs  BY <1>9 DEF IsUpdate
<1>11. n = h
  <2>1. Len(bs) + 2 = k  BY <1>2
  <2>2. n = f \o <<r, s>>  BY <2>1 DEF Branch
  <2> HIDE DEF f, r, s, n
  <2> QED BY <1>8, <1>10, <2>2, TwoAppended
<1>12. o \o <<m, m + 1>> = o2
  <2> HIDE DEF m
  <2> QED BY <1>1, <1>2, TwoAppended
<1> HIDE DEF f, r, s, u, j, n, o1, o2
<1>13. /\ g \in Seq(Block) /\ DOMAIN g = DOMAIN bs \cup {m} /\ Len(g) = m
       /\ \A z \in DOMAIN bs : g[z] = f[z]
       /\ g[m] = r
  <2>1. /\ Append(f, r) \in Seq(Block)
        /\ DOMAIN Append(f, r) = DOMAIN f \cup {Len(f) + 1}
        /\ Len(Append(f, r)) = Len(f) + 1
        /\ \A z \in DOMAIN f : Append(f, r)[z] = f[z]
        /\ Append(f, r)[Len(f) + 1] = r
    BY <1>8, <1>10, AppendedBlock
  <2> QED BY <1>10, <2>1
<1> HIDE DEF g
<1>14. /\ h \in Seq(Block) /\ DOMAIN h = DOMAIN g \cup {k} /\ Len(h) = k
       /\ \A z \in DOMAIN g : h[z] = g[z]
       /\ h[k] = s
  <2>1. /\ Append(g, s) \in Seq(Block)
        /\ DOMAIN Append(g, s) = DOMAIN g \cup {Len(g) + 1}
        /\ Len(Append(g, s)) = Len(g) + 1
        /\ \A z \in DOMAIN g : Append(g, s)[z] = g[z]
        /\ Append(g, s)[Len(g) + 1] = s
    BY <1>8, <1>13, AppendedBlock
  <2> QED BY <1>13, <2>1
<1>15. /\ i \in Seq(Block) /\ DOMAIN i = DOMAIN j \cup {k}
       /\ \A z \in DOMAIN j : i[z] = j[z]
       /\ i[k] = u
  <2>1. /\ Append(j, u) \in Seq(Block)
        /\ DOMAIN Append(j, u) = DOMAIN j \cup {Len(j) + 1}
        /\ \A z \in DOMAIN j : Append(j, u)[z] = j[z]
        /\ Append(j, u)[Len(j) + 1] = u
    BY <1>6, <1>8, AppendedBlock
  <2> QED BY <1>6, <2>1
<1> HIDE DEF h, i
<1>16. m \notin DOMAIN bs /\ k \notin DOMAIN bs /\ k # m  BY <1>2
<1>17. /\ DOMAIN j = DOMAIN bs \cup {m}
       /\ j[m].pc = x /\ j[m].ins = <<>> /\ j[m].end = NoEnd /\ j[m].pred = <<b>>
       /\ j[m].header = FALSE
       /\ \A z \in DOMAIN bs :
            /\ j[z].pc = bs[z].pc /\ j[z].ins = bs[z].ins /\ j[z].pred = bs[z].pred
            /\ j[z].header = bs[z].header
            /\ j[z].end = IF z = b THEN MGoto(m) ELSE bs[z].end
  BY <1>4, <1>5 DEF IsJoin
<1> HIDE DEF m, k
<1>18. EdgeAdded(h, i, b, k, e)
  <2>1. h \in Seq(Block) /\ DOMAIN h = DOMAIN i  BY <1>13, <1>14, <1>15, <1>17
  <2>2. ASSUME NEW z \in DOMAIN i
        PROVE  /\ h[z].pc = i[z].pc
               /\ h[z].ins = i[z].ins
               /\ h[z].end = IF z = b THEN e ELSE i[z].end
               /\ h[z].pred = IF z = k THEN Append(i[z].pred, b) ELSE i[z].pred
               /\ i[z].header => h[z].header
    <3>1. CASE z = k
      <4>1. z # b  BY <1>1, <1>16, <3>1
      <4>2. Append(<<>>, b) = <<b>>  OBVIOUS
      <4> QED BY <1>8, <1>14, <1>15, <3>1, <4>1, <4>2
    <3>2. CASE z = m
      <4>1. z # b /\ z # k  BY <1>1, <1>16, <3>2
      <4>2. h[z] = r /\ i[z] = j[z]  BY <1>13, <1>14, <1>15, <1>17, <3>2
      <4> QED BY <1>8, <1>17, <3>2, <4>1, <4>2
    <3>3. CASE z \in DOMAIN bs
      <4>1. z # k  BY <1>16, <3>3
      <4>2. h[z] = f[z] /\ i[z] = j[z]  BY <1>13, <1>14, <1>15, <1>17, <3>3
      <4>3. /\ f[z].pc = bs[z].pc /\ f[z].ins = bs[z].ins /\ f[z].pred = bs[z].pred
            /\ f[z].header = bs[z].header /\ f[z].end = IF z = b THEN e ELSE bs[z].end
        BY <1>9, <3>3 DEF IsUpdate
      <4>4. h[z].header = i[z].header  BY <1>17, <3>3, <4>2, <4>3
      <4> QED BY <1>17, <3>3, <4>1, <4>2, <4>3, <4>4
    <3> QED BY <1>15, <1>17, <3>1, <3>2, <3>3
  <2> QED BY <2>1, <2>2 DEF EdgeAdded
<1>19. b \in DOMAIN i /\ k \in DOMAIN i /\ i[b].end = MGoto(m) /\ k \notin X
  BY <1>1, <1>15, <1>16, <1>17
<1>20. Range(e.to) = {m, k} /\ Range(MGoto(m).to) = {m}
  <2>1. Range(e.to) = {m, k}  BY RangeOfTwo DEF MTest
  <2> QED BY <2>1, EndTargets
<1>21. EndOK(e, DOMAIN i, c)  BY <1>15, <1>16, <1>17, <1>20 DEF EndOK, MTest, NULL
<1>22. /\ \A z : z \in Range(e.to) <=> z \in Range(i[b].end.to) \/ z = k
       /\ k \notin Range(i[b].end.to)
  BY <1>16, <1>19, <1>20
<1>23. Before(o2, b, k)
  <2>1. o1 \in Seq(Nat) /\ Range(o1) = DOMAIN j  BY <1>5 DEF GraphOK, OrderOK
  <2>2. b \in Range(o1)  BY <1>1, <1>17, <2>1
  <2> QED BY <1>2, <2>1, <2>2, BeforeAppended DEF o2
<1>23a. \A z \in DOMAIN i[k].pred : Before(o2, i[k].pred[z], k)  BY <1>8, <1>15
<1> HIDE DEF e
<1>24. GraphOK(h, o2, X, c) /\ Grows(i, h, {b}, {k})
  BY <1>3, <1>7, <1>18, <1>19, <1>21, <1>22, <1>23, <1>23a, GEdge
<1>25. Grows(bs, h, {b}, {})
  <2>1. Grows(bs, i, {b} \cup {}, {} \cup {})  BY <1>5, <1>7, GrowsTwice
  <2>2. Grows(bs, h, ({b} \cup {}) \cup {b}, ({} \cup {}) \cup {k})  BY <1>24, <2>1, GrowsTwice
  <2> QED BY <1>16, <2>2 DEF Grows
<1>26. h[m].end = NoEnd /\ h[m].pc = x /\ h[k].end = NoEnd /\ h[k].pc = y
  BY <1>8, <1>13, <1>14
<1> QED BY <1>11, <1>12, <1>14, <1>24, <1>25, <1>26 DEF k, m, n

(* The condition before an inverted loop goes on in the header. *)
EnterLoop(bs, b, t) == [End(bs, b, MGoto(t)) EXCEPT ![t].pred = <<b>>]

LEMMA GFakeIf ==
  ASSUME NEW bs, NEW o, NEW X, NEW c, GraphOK(bs, o, X, c),
         NEW b, IsOpen(bs, b), NEW t \in X, IsOpen(bs, t), b # t
  PROVE  LET n == EnterLoop(bs, b, t) IN
         /\ GraphOK(n, moveBlockToEnd(o, t), X \ {t}, c)
         /\ DOMAIN n = DOMAIN bs
         /\ \A x \in DOMAIN bs :
              /\ n[x].pc = bs[x].pc
              /\ n[x].end = IF x = b THEN MGoto(t) ELSE bs[x].end
              /\ n[x].pred = IF x = t THEN <<b>> ELSE bs[x].pred
<1> DEFINE e == MGoto(t)
           f == End(bs, b, e)
           r == [f[t] EXCEPT !.pred = <<b>>]
           n == [f EXCEPT ![t] = r]
           i == [bs EXCEPT ![t].pred = <<>>]
           m == moveBlockToEnd(o, t)
           Y == X \ {t}
<1>1. bs \in Seq(Block) /\ b \in DOMAIN bs /\ t \in DOMAIN bs  BY DEF GraphOK, BlocksOK, IsOpen
<1>2. t \in Nat /\ b \in Nat /\ e \in Control /\ <<b>> \in Seq(Nat) /\ <<>> \in Seq(Nat)
  BY <1>1, BlockSeq, Ends
<1>3. GraphOK(bs, m, X, c) /\ Before(m, b, t)  BY <1>1, GMove
<1>4. GraphOK(i, m, Y, c)  BY <1>1, <1>3, GClear
<1>5. /\ IsUpdate(f, bs, b) /\ f[b].end = e
      /\ f[b].pc = bs[b].pc /\ f[b].ins = bs[b].ins
      /\ f[b].pred = bs[b].pred /\ f[b].header = bs[b].header
  BY <1>1, <1>2, EndUpdate
<1>6. f \in Seq(Block) /\ t \in DOMAIN f /\ f[t] = bs[t] /\ DOMAIN f = DOMAIN bs
  BY <1>1, <1>5 DEF IsUpdate
<1> HIDE DEF f, m, Y
<1>7. /\ r \in Block /\ r.pred = <<b>>
      /\ r.pc = bs[t].pc /\ r.ins = bs[t].ins /\ r.end = bs[t].end /\ r.header = bs[t].header
  <2>1. f[t] \in Block  BY <1>6, BlockSeq
  <2>2. /\ r \in Block /\ r.pred = <<b>>
        /\ r.pc = f[t].pc /\ r.ins = f[t].ins /\ r.end = f[t].end /\ r.header = f[t].header
    BY <1>2, <2>1, PredChanged
  <2> HIDE DEF r
  <2> QED BY <1>6, <2>2
<1>8. [f EXCEPT ![t].pred = <<b>>] = n  OBVIOUS
<1> HIDE DEF r
<1>9. n \in Seq(Block) /\ DOMAIN n = DOMAIN bs /\ \A x \in DOMAIN bs : n[x] = IF x = t THEN r ELSE f[x]
  BY <1>6, <1>7, BlockReplaced
<1> DEFINE z == [bs[t] EXCEPT !.pred = <<>>]
<1>10. /\ z \in Block /\ z.pred = <<>>
       /\ z.pc = bs[t].pc /\ z.ins = bs[t].ins /\ z.end = bs[t].end /\ z.header = bs[t].header
  <2>1. bs[t] \in Block  BY <1>1, BlockSeq
  <2> QED BY <1>2, <2>1, PredChanged
<1>11. i = [bs EXCEPT ![t] = z]  OBVIOUS
<1> HIDE DEF z, i, n
<1>12. i \in Seq(Block) /\ DOMAIN i = DOMAIN bs /\ \A x \in DOMAIN bs : i[x] = IF x = t THEN z ELSE bs[x]
  BY <1>1, <1>10, <1>11, BlockReplaced
<1>13. ASSUME NEW x \in DOMAIN bs
       PROVE  /\ f[x].pc = bs[x].pc /\ f[x].ins = bs[x].ins /\ f[x].pred = bs[x].pred
              /\ f[x].header = bs[x].header
              /\ f[x].end = IF x = b THEN e ELSE bs[x].end
  BY <1>5 DEF IsUpdate
<1>14. ASSUME NEW x \in DOMAIN bs
       PROVE  /\ n[x].pc = i[x].pc
              /\ n[x].ins = i[x].ins
              /\ n[x].end = IF x = b THEN e ELSE i[x].end
              /\ n[x].pred = IF x = t THEN Append(i[x].pred, b) ELSE i[x].pred
              /\ n[x].header = i[x].header
              /\ n[x].pc = bs[x].pc
              /\ n[x].end = IF x = b THEN MGoto(t) ELSE bs[x].end
              /\ n[x].pred = IF x = t THEN <<b>> ELSE bs[x].pred
  <2>1. CASE x = t
    <3>1. Append(<<>>, b) = <<b>>  OBVIOUS
    <3> QED BY <1>7, <1>9, <1>10, <1>12, <2>1, <3>1
  <2>2. CASE x # t  BY <1>9, <1>12, <1>13, <2>2
  <2> QED BY <2>1, <2>2
<1>15. EdgeAdded(n, i, b, t, e)  BY <1>9, <1>12, <1>14 DEF EdgeAdded
<1>16. /\ Range(e.to) = {t} /\ Range(i[b].end.to) = {}
  BY <1>1, <1>12, EndTargets DEF IsOpen
<1>17. EndOK(e, DOMAIN i, c)  BY <1>1, <1>12, <1>16 DEF EndOK, MGoto, NULL
<1>18. t \notin Y  BY DEF Y
<1>18a. \A x \in DOMAIN i[t].pred : Before(m, i[t].pred[x], t)  BY <1>1, <1>10, <1>12
<1> HIDE DEF e
<1>19. GraphOK(n, m, Y, c)
  BY <1>1, <1>2, <1>3, <1>4, <1>12, <1>15, <1>16, <1>17, <1>18, <1>18a, GEdge
<1> QED BY <1>8, <1>9, <1>14, <1>19 DEF m, Y, f, e, EnterLoop

(* The test of the condition before an inverted loop, in block f. *)
TestLoop(bs, b, f, t, p) == addPredecessor(End(bs, f, MTest(p, t, b)), b, f)

LEMMA GFakeIfEnd ==
  ASSUME NEW bs, NEW o, NEW X, NEW c, GraphOK(bs, o, X, c),
         NEW b, IsOpen(bs, b), b \notin X, Last(o) = b,
         NEW f \in DOMAIN bs, NEW t \in DOMAIN bs, bs[f].end = MGoto(t), b # t, NEW p \in Nat
  PROVE  LET n == TestLoop(bs, b, f, t, p) IN
         GraphOK(n, o, X, c) /\ GrowsBy(bs, n, f, b) /\ Len(n) = Len(bs)
<1> DEFINE e == MTest(p, t, b)
           n == addPredecessor(End(bs, f, e), b, f)
<1>1. bs \in Seq(Block) /\ b \in DOMAIN bs /\ OrderOK(bs, o, X)
  BY DEF GraphOK, BlocksOK, IsOpen
<1>2. t \in Nat /\ b \in Nat /\ e \in Control  BY <1>1, BlockSeq, Ends
<1>3. Range(e.to) = {t, b}  BY RangeOfTwo DEF MTest
<1>4. Range(bs[f].end.to) = {t}  BY EndTargets
<1>5. EndOK(e, DOMAIN bs, c)  BY <1>1, <1>3 DEF EndOK, MTest, NULL
<1>6. f # b
  <2>1. Range(bs[b].end.to) = {}  BY EndTargets DEF IsOpen
  <2> QED BY <1>4, <2>1
<1>7. Before(o, f, b) /\ \A i \in DOMAIN bs[b].pred : Before(o, bs[b].pred[i], b)
  <2>1. o \in Seq(Nat) /\ Range(o) = DOMAIN bs  BY <1>1 DEF OrderOK
  <2>2. \A x \in DOMAIN bs : x # b => Before(o, x, b)  BY <2>1, BeforeLast
  <2> QED BY <1>6, <2>2, PredsOfOpen
<1> HIDE DEF e
<1>8. EdgeAdded(n, bs, f, b, e) /\ Len(n) = Len(bs)  BY <1>1, <1>2, EndThenPred
<1> HIDE DEF n
<1>9. GraphOK(n, o, X, c) /\ Grows(bs, n, {f}, {b})
  BY <1>1, <1>2, <1>3, <1>4, <1>5, <1>7, <1>8, GEdge
<1> QED BY <1>8, <1>9 DEF n, e, TestLoop, GrowsBy

-----------------------------------------------------------------------------
(* Steps of the stack. *)

(* The innermost structure and those around it. *)
LEMMA Popped ==
  ASSUME NEW st, Shape(st), st # <<>>
  PROVE  LET f == Front(st)
             t == Last(st)
         IN  /\ f \in Seq(Level) /\ t \in Level
             /\ Len(f) \in Nat /\ DOMAIN f = 1..Len(f)
             /\ Len(st) = Len(f) + 1 /\ DOMAIN st = 1..(Len(f) + 1)
             /\ st[Len(f) + 1] = t
             /\ \A k \in DOMAIN f : f[k] = st[k] /\ f[k] \in Level
             /\ Shape(f)
             /\ \A k \in DOMAIN f : Around(f[k], t)
             /\ f # <<>> => RightAround(Last(f), t)
<1> DEFINE f == Front(st)
           t == Last(st)
<1>1. st \in Seq(Level)  BY DEF Shape
<1>2. /\ Len(st) \in Nat \ {0} /\ t = st[Len(st)] /\ t \in Level
      /\ f \in Seq(Level) /\ Len(f) = Len(st) - 1
      /\ \A k \in 1..(Len(st) - 1) : f[k] = st[k]
  BY <1>1, FrontLast
<1>3. DOMAIN st = 1..Len(st)  BY <1>1
<1> HIDE DEF f, t
<1>4. DOMAIN f = 1..Len(f) /\ Len(f) \in Nat /\ \A k \in DOMAIN f : f[k] \in Level
  BY <1>2
<1>5. Len(st) = Len(f) + 1 /\ \A k \in DOMAIN f : f[k] = st[k] /\ k \in DOMAIN st
  BY <1>2, <1>3, <1>4
<1>6. Shape(f)
  <2>1. \A k, l \in DOMAIN f : k < l => Around(f[k], f[l])  BY <1>5 DEF Shape
  <2>2. ASSUME NEW k \in DOMAIN f, k + 1 \in DOMAIN f PROVE RightAround(f[k], f[k + 1])
    BY <1>5, <2>2 DEF Shape
  <2> QED BY <1>2, <2>1, <2>2 DEF Shape
<1>7. ASSUME NEW k \in DOMAIN f PROVE Around(f[k], t)
  <2>1. k < Len(st) /\ Len(st) \in DOMAIN st  BY <1>2, <1>3, <1>4, <1>5
  <2> QED BY <1>2, <1>5, <2>1 DEF Shape
<1>8. ASSUME f # <<>> PROVE RightAround(Last(f), t)
  <2>1. Last(f) = f[Len(f)] /\ Len(f) \in Nat \ {0}  BY <1>2, <1>8, FrontLast
  <2>2. Len(f) \in DOMAIN f /\ Len(f) + 1 = Len(st) /\ Len(st) \in DOMAIN st
    BY <1>2, <1>3, <1>4, <1>5, <2>1
  <2>3. RightAround(st[Len(f)], st[Len(f) + 1])  BY <1>5, <2>2 DEF Shape
  <2> QED BY <1>2, <1>5, <2>1, <2>2, <2>3
<1> QED BY <1>2, <1>3, <1>4, <1>5, <1>6, <1>7, <1>8 DEF f, t

(* Another innermost structure. *)
LEMMA Pushed ==
  ASSUME NEW f, Shape(f), NEW t \in Level, \A k \in DOMAIN f : Around(f[k], t),
         f # <<>> => RightAround(Last(f), t)
  PROVE  LET st == Append(f, t) IN
         /\ Shape(st) /\ st # <<>> /\ Last(st) = t
         /\ Len(f) \in Nat /\ DOMAIN f = 1..Len(f) /\ DOMAIN st = 1..(Len(f) + 1)
         /\ st[Len(f) + 1] = t
         /\ \A k \in DOMAIN f : st[k] = f[k]
<1> DEFINE st == Append(f, t)
<1>1. f \in Seq(Level)  BY DEF Shape
<1>2. /\ Len(f) \in Nat /\ DOMAIN f = 1..Len(f) /\ DOMAIN st = 1..(Len(f) + 1)
      /\ st[Len(f) + 1] = t /\ st \in Seq(Level) /\ st # <<>>
      /\ \A k \in DOMAIN f : st[k] = f[k]
  <2> HIDE DEF Level
  <2>1. st \in Seq(Level) /\ Len(st) = Len(f) + 1 /\ Len(f) \in Nat  BY <1>1
  <2>2. DOMAIN f = 1..Len(f) /\ DOMAIN st = 1..(Len(f) + 1)  BY <1>1, <2>1
  <2>3. st[Len(f) + 1] = t /\ \A k \in 1..Len(f) : st[k] = f[k]  BY <1>1
  <2> HIDE DEF st
  <2>4. st # <<>>  BY <2>1
  <2> QED BY <2>1, <2>2, <2>3, <2>4
<1>3. Last(st) = t  BY <1>1, BeforeAppended
<1> HIDE DEF st
<1>4. ASSUME NEW k \in DOMAIN st, NEW l \in DOMAIN st, k < l PROVE Around(st[k], st[l])
  <2>1. k \in DOMAIN f  BY <1>2, <1>4
  <2>2. CASE l \in DOMAIN f  BY <1>2, <1>4, <2>1, <2>2 DEF Shape
  <2>3. CASE l \notin DOMAIN f
    <3>1. l = Len(f) + 1  BY <1>2, <2>3
    <3> QED BY <1>2, <2>1, <3>1
  <2> QED BY <2>2, <2>3
<1>5. ASSUME NEW k \in DOMAIN st, k + 1 \in DOMAIN st PROVE RightAround(st[k], st[k + 1])
  <2>1. k \in DOMAIN f  BY <1>2, <1>5
  <2>2. CASE k + 1 \in DOMAIN f  BY <1>2, <2>1, <2>2 DEF Shape
  <2>3. CASE k + 1 \notin DOMAIN f
    <3>1. k = Len(f) /\ f # <<>>  BY <1>2, <2>1, <2>3
    <3>2. Last(f) = f[Len(f)]  BY <1>1, <3>1, FrontLast
    <3> QED BY <1>2, <2>1, <3>1, <3>2
  <2> QED BY <2>2, <2>3
<1>6. Shape(st)  BY <1>2, <1>4, <1>5 DEF Shape
<1> QED BY <1>2, <1>3, <1>6 DEF st

(* Which headers wait for their condition. *)
LEMMA UnenteredPopped ==
  ASSUME NEW st, Shape(st), st # <<>>
  PROVE  LET f == Front(st)
             t == Last(st)
         IN  /\ t.state # "FAKE_IF" => Unentered(f) = Unentered(st)
             /\ t.state = "FAKE_IF" => Unentered(st) = Unentered(f) \cup {t.entry}
             /\ t.state # "AND_OR" =>
                  /\ \A k \in DOMAIN f : f[k].state \notin ExprState
                  /\ Unentered(f) = {}
<1> DEFINE f == Front(st)
           t == Last(st)
<1>1. /\ Len(f) \in Nat /\ DOMAIN f = 1..Len(f) /\ DOMAIN st = 1..(Len(f) + 1)
      /\ st[Len(f) + 1] = t /\ \A k \in DOMAIN f : f[k] = st[k]
      /\ \A k \in DOMAIN f : Around(f[k], t)
  BY Popped
<1> HIDE DEF f, t
<1>2. DOMAIN st = DOMAIN f \cup {Len(f) + 1}  BY <1>1
<1>3. t.state # "FAKE_IF" => Unentered(f) = Unentered(st)  BY <1>1, <1>2 DEF Unentered
<1>4. t.state = "FAKE_IF" => Unentered(st) = Unentered(f) \cup {t.entry}
  BY <1>1, <1>2 DEF Unentered
<1>5. t.state # "AND_OR" => \A k \in DOMAIN f : f[k].state \notin ExprState
  BY <1>1 DEF Around
<1>6. (\A k \in DOMAIN f : f[k].state \notin ExprState) => Unentered(f) = {}
  BY DEF Unentered, ExprState
<1> QED BY <1>3, <1>4, <1>5, <1>6 DEF f, t

LEMMA UnenteredPushed ==
  ASSUME NEW f, f \in Seq(Level), NEW t \in Level
  PROVE  /\ t.state # "FAKE_IF" => Unentered(Append(f, t)) = Unentered(f)
         /\ t.state = "FAKE_IF" => Unentered(Append(f, t)) = Unentered(f) \cup {t.entry}
<1> DEFINE st == Append(f, t)
<1>1. /\ Len(f) \in Nat /\ DOMAIN f = 1..Len(f) /\ DOMAIN st = 1..(Len(f) + 1)
      /\ st[Len(f) + 1] = t /\ \A k \in DOMAIN f : st[k] = f[k]
  OBVIOUS
<1> HIDE DEF st
<1>2. DOMAIN st = DOMAIN f \cup {Len(f) + 1}  BY <1>1
<1>3. t.state # "FAKE_IF" => Unentered(st) = Unentered(f)  BY <1>1, <1>2 DEF Unentered
<1>4. t.state = "FAKE_IF" => Unentered(st) = Unentered(f) \cup {t.entry}
  BY <1>1, <1>2 DEF Unentered
<1> QED BY <1>3, <1>4 DEF st

(* The blocks structures speak of exist. *)
LEMMA LevelBlocks ==
  ASSUME NEW st, NEW bs, NEW X, NEW c, Levels(st, bs, X, c)
  PROVE  /\ \A k \in DOMAIN st : \A b \in Held(st[k]) : IsOpen(bs, b)
         /\ \A k \in DOMAIN st : Owned(st[k]) \subseteq DOMAIN bs
         /\ \A b \in Unentered(st) : IsOpen(bs, b) /\ ~Unheld(st, b)
         /\ Unentered(st) \subseteq DOMAIN bs
<1>1. \A k \in DOMAIN st : \A b \in Held(st[k]) : IsOpen(bs, b)  BY DEF Levels, LevelOK
<1>2. ASSUME NEW k \in DOMAIN st, NEW b \in Owned(st[k]) PROVE b \in DOMAIN bs
  <2>1. LevelOK(st[k], bs, X, c)  BY DEF Levels
  <2>2. CASE st[k].state \in {"IF_TRUE", "AND_OR"}
    <3>1. b \in Held(st[k])  BY <2>2 DEF Held, Owned
    <3> QED BY <1>1, <3>1 DEF IsOpen
  <2>3. CASE st[k].state \in LoopLevel
    BY <2>1, <2>3 DEF LevelOK, LoopOK, Owned, LoopLevel, LoopState
  <2> QED BY <2>2, <2>3 DEF Owned
<1>3. ASSUME NEW b \in Unentered(st) PROVE IsOpen(bs, b) /\ ~Unheld(st, b)
  <2>1. PICK k \in DOMAIN st : st[k].state = "FAKE_IF" /\ st[k].entry = b  BY DEF Unentered
  <2>2. b \in Held(st[k])  BY <2>1 DEF Held
  <2> QED BY <1>1, <2>2 DEF Unheld
<1> QED BY <1>1, <1>2, <1>3 DEF IsOpen

(* A structure whose blocks a step leaves alone. *)
LEMMA LevelKept ==
  ASSUME NEW s \in Level, NEW bs, NEW n, NEW X, NEW Y, NEW c, LevelOK(s, bs, X, c),
         DOMAIN bs \subseteq DOMAIN n, \A b \in DOMAIN bs : n[b].pc = bs[b].pc,
         \A b \in Held(s) : n[b].end = bs[b].end,
         s.state \in LoopLevel => Len(n[s.entry].pred) = Len(bs[s.entry].pred),
         s.state = "FAKE_IF_END" => FakeIfEndOK(s, n, Y)
  PROVE  LevelOK(s, n, Y, c)
<1>1. \A b \in Held(s) : b \in DOMAIN bs /\ IsOpen(n, b) /\ n[b].pc = bs[b].pc
  BY DEF LevelOK, IsOpen
<1>2. ASSUME s.state \in {"IF_TRUE", "AND_OR", "IF_ELSE_TRUE"} PROVE IfOK(s, n, c)
  <2>1. s.ifFalse \in Held(s)  BY <1>2 DEF Held
  <2>2. IfOK(s, bs, c)  BY <1>2 DEF LevelOK
  <2> QED BY <1>1, <2>1, <2>2 DEF IfOK
<1>3. ASSUME s.state \in LoopLevel PROVE LoopOK(s, n, c)
  <2>1. LoopOK(s, bs, c)  BY <1>3 DEF LevelOK
  <2>2. s.successor # NULL => s.successor \in Held(s)
    BY <1>3 DEF Held, LoopLevel, LoopState
  <2>3. s.successor # NULL => n[s.successor].pc \in DOMAIN c
    BY <1>1, <2>1, <2>2 DEF LoopOK
  <2>4. s.entry \in DOMAIN n /\ Len(n[s.entry].pred) = 1
    BY <1>3, <2>1 DEF LoopOK
  <2> QED BY <2>1, <2>3, <2>4 DEF LoopOK
<1> QED BY <1>1, <1>2, <1>3 DEF LevelOK

(* Steps that only close open blocks, none of which a structure remembers. *)
LEMMA FrameKept ==
  ASSUME NEW f, NEW bs, NEW n, NEW o, NEW o2, NEW c, NEW C, NEW T,
         Frame(f, bs, o, c), GraphOK(n, o2, Unentered(f), c), Grows(bs, n, C, T),
         \A b \in C : IsOpen(bs, b) /\ Unheld(f, b), \A b \in T : Unowned(f, b)
  PROVE  Frame(f, n, o2, c)
<1> DEFINE X == Unentered(f)
<1> HIDE DEF X
<1>1. Shape(f) /\ f \in Seq(Level) /\ Levels(f, bs, X, c)  BY DEF Frame, Shape, X
<1>2. ASSUME NEW k \in DOMAIN f PROVE LevelOK(f[k], n, X, c)
  <2> DEFINE s == f[k]
  <2>1. s \in Level /\ LevelOK(s, bs, X, c)  BY <1>1 DEF Levels
  <2>2. DOMAIN bs \subseteq DOMAIN n /\ \A b \in DOMAIN bs : n[b].pc = bs[b].pc  BY DEF Grows
  <2>3. \A b \in Held(s) : n[b].end = bs[b].end
    BY <2>1 DEF Unheld, Grows, LevelOK, IsOpen
  <2>4. ASSUME s.state \in LoopLevel PROVE Len(n[s.entry].pred) = Len(bs[s.entry].pred)
    <3>1. s.entry \in Owned(s)  BY <2>4 DEF Owned, LoopLevel, LoopState
    <3>2. s.entry \notin T  BY <3>1 DEF Unowned
    <3>3. s.entry \in DOMAIN bs  BY <2>1, <2>4 DEF LevelOK, LoopOK
    <3> QED BY <3>2, <3>3 DEF Grows
  <2>5. ASSUME s.state = "FAKE_IF_END" PROVE FakeIfEndOK(s, n, X)
    <3>1. FakeIfEndOK(s, bs, X)  BY <2>1, <2>5 DEF LevelOK
    <3>2. s.entry \in DOMAIN n  BY <2>2, <3>1 DEF FakeIfEndOK
    <3>3. CASE s.entry \in X  BY <3>1, <3>2, <3>3 DEF FakeIfEndOK
    <3>4. CASE s.entry \notin X
      <4> DEFINE h == Head(bs[s.entry].pred)
      <4>1. /\ bs[s.entry].pred # <<>> /\ h \in DOMAIN bs /\ bs[h].end = MGoto(s.entry)
            /\ s.entry \in DOMAIN bs
        BY <3>1, <3>4 DEF FakeIfEndOK
      <4>2. h \notin C  BY <4>1 DEF IsOpen, NoEnd, MGoto
      <4>3. n[h].end = MGoto(s.entry)  BY <4>1, <4>2 DEF Grows
      <4>4. n[s.entry].pred # <<>> /\ Head(n[s.entry].pred) = h  BY <4>1 DEF Grows
      <4> QED BY <2>2, <3>1, <3>2, <4>1, <4>3, <4>4 DEF FakeIfEndOK
    <3> QED BY <3>3, <3>4
  <2> HIDE DEF s
  <2>6. LevelOK(s, n, X, c)  BY <2>1, <2>2, <2>3, <2>4, <2>5, LevelKept
  <2> QED BY <2>6 DEF s
<1> QED BY <1>1, <1>2 DEF Frame, Levels, X

LEMMA FramePopped ==
  ASSUME NEW st, NEW bs, NEW o, NEW c, Frame(st, bs, o, c), st # <<>>,
         Last(st).state # "FAKE_IF"
  PROVE  /\ Frame(Front(st), bs, o, c)
         /\ LevelOK(Last(st), bs, Unentered(Front(st)), c)
<1>1. Shape(st) /\ Levels(st, bs, Unentered(st), c) /\ GraphOK(bs, o, Unentered(st), c)
  BY DEF Frame
<1>2. Unentered(Front(st)) = Unentered(st)  BY <1>1, UnenteredPopped
<1> DEFINE f == Front(st)
           t == Last(st)
<1>3. /\ Shape(f) /\ Len(f) \in Nat /\ DOMAIN f = 1..Len(f) /\ DOMAIN st = 1..(Len(f) + 1)
      /\ st[Len(f) + 1] = t /\ \A k \in DOMAIN f : f[k] = st[k]
  BY <1>1, Popped
<1> HIDE DEF f, t
<1>4. Levels(f, bs, Unentered(st), c)  BY <1>1, <1>3 DEF Levels
<1>5. LevelOK(t, bs, Unentered(st), c)  BY <1>1, <1>3 DEF Levels
<1> QED BY <1>1, <1>2, <1>3, <1>4, <1>5 DEF Frame, f, t

LEMMA FramePushed ==
  ASSUME NEW f, NEW bs, NEW o, NEW c, Frame(f, bs, o, c), NEW t \in Level,
         t.state # "FAKE_IF", LevelOK(t, bs, Unentered(f), c),
         \A k \in DOMAIN f : Around(f[k], t), f # <<>> => RightAround(Last(f), t)
  PROVE  Frame(Append(f, t), bs, o, c)
<1>1. Shape(f) /\ f \in Seq(Level) /\ Levels(f, bs, Unentered(f), c)
      /\ GraphOK(bs, o, Unentered(f), c)
  BY DEF Frame, Shape
<1> DEFINE st == Append(f, t)
<1>2. /\ Shape(st) /\ Len(f) \in Nat /\ DOMAIN f = 1..Len(f) /\ DOMAIN st = 1..(Len(f) + 1)
      /\ st[Len(f) + 1] = t /\ \A k \in DOMAIN f : st[k] = f[k]
  BY <1>1, Pushed
<1>3. Unentered(st) = Unentered(f)  BY <1>1, UnenteredPushed
<1> HIDE DEF st
<1>4. Levels(st, bs, Unentered(f), c)  BY <1>1, <1>2 DEF Levels
<1> QED BY <1>1, <1>2, <1>3, <1>4 DEF Frame, st

(* Whose blocks they are. *)
LEMMA UnheldPopped ==
  ASSUME NEW st, Shape(st), st # <<>>
  PROVE  /\ \A b : Unheld(st, b) => Unheld(Front(st), b) /\ b \notin Held(Last(st))
         /\ \A b : Unowned(st, b) => Unowned(Front(st), b)
         /\ \A b \in Held(Last(st)) : Unheld(Front(st), b)
         /\ \A b \in Owned(Last(st)) : Unowned(Front(st), b)
<1> DEFINE f == Front(st)
           t == Last(st)
<1>1. /\ Len(f) \in Nat /\ DOMAIN f = 1..Len(f) /\ DOMAIN st = 1..(Len(f) + 1)
      /\ st[Len(f) + 1] = t /\ \A k \in DOMAIN f : f[k] = st[k]
      /\ \A k \in DOMAIN f : Around(f[k], t)
  BY Popped
<1> HIDE DEF f, t
<1>2. DOMAIN st = DOMAIN f \cup {Len(f) + 1}  BY <1>1
<1>3. \A b : Unheld(st, b) => Unheld(f, b) /\ b \notin Held(t)  BY <1>1, <1>2 DEF Unheld
<1>4. \A b : Unowned(st, b) => Unowned(f, b)  BY <1>1, <1>2 DEF Unowned
<1>5. \A b \in Held(t) : Unheld(f, b)  BY <1>1 DEF Unheld, Around
<1>6. \A b \in Owned(t) : Unowned(f, b)  BY <1>1 DEF Unowned, Around
<1> QED BY <1>3, <1>4, <1>5, <1>6 DEF f, t

LEMMA UnheldPushed ==
  ASSUME NEW f, f \in Seq(Level), NEW t \in Level, NEW b, Unheld(f, b), b \notin Held(t)
  PROVE  Unheld(Append(f, t), b)
<1> DEFINE st == Append(f, t)
<1>1. /\ Len(f) \in Nat /\ DOMAIN f = 1..Len(f) /\ DOMAIN st = 1..(Len(f) + 1)
      /\ st[Len(f) + 1] = t /\ \A k \in DOMAIN f : st[k] = f[k]
  OBVIOUS
<1> HIDE DEF st
<1>2. DOMAIN st = DOMAIN f \cup {Len(f) + 1}  BY <1>1
<1>3. Unheld(st, b)  BY <1>1, <1>2 DEF Unheld
<1> QED BY <1>3 DEF st

LEMMA FreshUnheld ==
  ASSUME NEW f, NEW bs, NEW o, NEW c, Frame(f, bs, o, c), NEW b, b \notin DOMAIN bs
  PROVE  Unheld(f, b) /\ Unowned(f, b)
BY LevelBlocks DEF Frame, Unheld, Unowned, IsOpen

(* A structure around which no expression is read. *)
LEMMA AroundPlain ==
  ASSUME NEW f, NEW t, \A k \in DOMAIN f : f[k].state \notin ExprState,
         \A b \in Held(t) : Unheld(f, b), \A b \in Owned(t) : Unowned(f, b),
         t.state # "FAKE_IF_END"
  PROVE  \A k \in DOMAIN f : Around(f[k], t)
BY DEF Unheld, Unowned, Around

-----------------------------------------------------------------------------
(* Steps of the list of loops. *)

LEMMA LoopsSame ==
  ASSUME NEW st, NEW s2, NEW ls, NEW br, LoopsOK(st, ls, br), Loops(s2) = Loops(st)
  PROVE  LoopsOK(s2, ls, br)
BY DEF LoopsOK, Matches

LEMMA LoopsSplit ==
  ASSUME NEW f, NEW t \in Level, f \in Seq(Level)
  PROVE  /\ t.state \in LoopLevel => Loops(Append(f, t)) = Loops(f) \cup {Len(f) + 1}
         /\ t.state \notin LoopLevel => Loops(Append(f, t)) = Loops(f)
<1> DEFINE st == Append(f, t)
<1>1. /\ Len(f) \in Nat /\ DOMAIN f = 1..Len(f) /\ DOMAIN st = 1..(Len(f) + 1)
      /\ st[Len(f) + 1] = t /\ \A k \in DOMAIN f : st[k] = f[k]
  OBVIOUS
<1> HIDE DEF st
<1>2. DOMAIN st = DOMAIN f \cup {Len(f) + 1}  BY <1>1
<1>3. t.state \in LoopLevel => Loops(st) = Loops(f) \cup {Len(f) + 1}  BY <1>1, <1>2 DEF Loops
<1>4. t.state \notin LoopLevel => Loops(st) = Loops(f)  BY <1>1, <1>2 DEF Loops
<1> QED BY <1>3, <1>4 DEF st

LEMMA LoopsOfPopped ==
  ASSUME NEW st, Shape(st), st # <<>>
  PROVE  /\ Last(st).state \in LoopLevel =>
              Loops(st) = Loops(Front(st)) \cup {Len(Front(st)) + 1}
         /\ Last(st).state \notin LoopLevel => Loops(st) = Loops(Front(st))
         /\ \A k \in Loops(Front(st)) : k \in Nat /\ k < Len(Front(st)) + 1
<1> DEFINE f == Front(st)
           t == Last(st)
<1>1. /\ Len(f) \in Nat /\ DOMAIN f = 1..Len(f) /\ DOMAIN st = 1..(Len(f) + 1)
      /\ st[Len(f) + 1] = t /\ \A k \in DOMAIN f : f[k] = st[k]
  BY Popped
<1> HIDE DEF f, t
<1>2. DOMAIN st = DOMAIN f \cup {Len(f) + 1}  BY <1>1
<1>3. t.state \in LoopLevel => Loops(st) = Loops(f) \cup {Len(f) + 1}  BY <1>1, <1>2 DEF Loops
<1>4. t.state \notin LoopLevel => Loops(st) = Loops(f)  BY <1>1, <1>2 DEF Loops
<1>5. \A k \in Loops(f) : k \in Nat /\ k < Len(f) + 1  BY <1>1 DEF Loops
<1> QED BY <1>3, <1>4, <1>5 DEF f, t

(* The innermost loop ends; the entry it leaves behind if it is inverted. *)
LEMMA LoopsPopped ==
  ASSUME NEW st, NEW ls, NEW br, Shape(st), st # <<>>, LoopsOK(st, ls, br),
         Last(st).state \in LoopLevel
  PROVE  /\ ls # <<>>
         /\ LoopsOK(Front(st), Front(ls), br)
         /\ LoopsOK(Front(st), ls, TRUE)
<1> DEFINE f == Front(st)
           m == Len(f) + 1
<1>1. Loops(st) = Loops(f) \cup {m} /\ \A k \in Loops(f) : k \in Nat /\ k < m
  BY LoopsOfPopped
<1>2. m \in Nat  BY Popped
<1>3. ls \in Seq([cfgEntry : Nat, continuepc : Nat])  BY DEF LoopsOK
<1>4. PICK g : Matches(g, st, ls, br)  BY DEF LoopsOK
<1> HIDE DEF f, m
<1>5. /\ g \in [Loops(st) -> DOMAIN ls]
      /\ \A k \in Loops(st) : ls[g[k]].cfgEntry = k
      /\ \A k, l \in Loops(st) : k < l => g[k] < g[l]
      /\ ~br => \A i \in DOMAIN ls : \E k \in Loops(st) : g[k] = i
  BY <1>4 DEF Matches
<1>6. DOMAIN ls = 1..Len(ls) /\ Len(ls) \in Nat  BY <1>3
<1>7. m \in Loops(st) /\ g[m] \in 1..Len(ls)  BY <1>1, <1>5, <1>6
<1>8. ls # <<>>
  <2> SUFFICES ASSUME ls = <<>> PROVE FALSE  OBVIOUS
  <2>1. Len(ls) = 0  OBVIOUS
  <2> QED BY <1>7, <2>1
<1> DEFINE h == [k \in Loops(f) |-> g[k]]
           u == Front(ls)
<1>9. /\ u \in Seq([cfgEntry : Nat, continuepc : Nat]) /\ Len(u) = Len(ls) - 1
      /\ \A i \in 1..(Len(ls) - 1) : u[i] = ls[i]
  BY <1>3, <1>8, FrontLast
<1>10. DOMAIN u = 1..(Len(ls) - 1)  BY <1>9
<1>11. ASSUME NEW k \in Loops(f)
       PROVE  h[k] \in 1..(Len(ls) - 1) /\ h[k] = g[k] /\ k \in Loops(st)
  BY <1>1, <1>5, <1>6, <1>7
<1>12. DOMAIN h = Loops(f)  OBVIOUS
<1>13. h \in [Loops(f) -> DOMAIN u]  BY <1>10, <1>11
<1>14. h \in [Loops(f) -> DOMAIN ls]  BY <1>6, <1>11
<1> HIDE DEF h, u
<1>15. \A k, l \in Loops(f) : k < l => h[k] < h[l]  BY <1>5, <1>11
<1>16. \A k \in Loops(f) : ls[h[k]].cfgEntry = k  BY <1>5, <1>11
<1>17. \A k \in Loops(f) : u[h[k]].cfgEntry = k  BY <1>9, <1>11, <1>16
<1>18. ASSUME ~br, NEW i \in DOMAIN u PROVE \E k \in Loops(f) : h[k] = i
  <2> DEFINE z == Len(ls)
  <2>0. z \in DOMAIN ls
    <3>1. 1 <= z
      <4>1. g[m] \in 1..Len(ls)  BY <1>7
      <4> QED BY <1>6, <4>1
    <3> QED BY <1>6, <3>1
  <2>0a. \A j \in DOMAIN ls : \E k \in Loops(st) : g[k] = j  BY <1>5, <1>18
  <2> HIDE DEF z
  <2>0b. PICK k \in Loops(st) : g[k] = z  BY <2>0, <2>0a
  <2>1. g[k] = Len(ls)  BY <2>0b DEF z
  <2>2. k = m  BY <1>1, <1>5, <1>7, <1>6, <2>1
  <2>3. i \in 1..Len(ls) /\ i # Len(ls)  BY <1>6, <1>10
  <2>4. PICK l \in Loops(st) : g[l] = i  BY <1>5, <1>6, <1>18, <2>3
  <2>5. l \in Loops(f)  BY <1>1, <2>1, <2>2, <2>3, <2>4
  <2> QED BY <1>11, <2>4, <2>5
<1>19. Matches(h, f, u, br)  BY <1>13, <1>15, <1>17, <1>18 DEF Matches
<1>20. Matches(h, f, ls, TRUE)  BY <1>14, <1>15, <1>16 DEF Matches
<1>21. LoopsOK(f, u, br) /\ LoopsOK(f, ls, TRUE)
  BY <1>3, <1>9, <1>19, <1>20 DEF LoopsOK
<1> QED BY <1>8, <1>21 DEF f, u

(* A loop begins. *)
LEMMA LoopsPushed ==
  ASSUME NEW f, NEW ls, NEW br, f \in Seq(Level), LoopsOK(f, ls, br),
         NEW st, Loops(st) = Loops(f) \cup {Len(f) + 1}, NEW m, m = Len(f) + 1, NEW p \in Nat
  PROVE  LoopsOK(st, Append(ls, [cfgEntry |-> m, continuepc |-> p]), br)
<1> DEFINE E == [cfgEntry : Nat, continuepc : Nat]
           e == [cfgEntry |-> m, continuepc |-> p]
           u == Append(ls, e)
<1>1. ls \in Seq(E)  BY DEF LoopsOK
<1>2. Len(f) \in Nat /\ m \in Nat /\ \A k \in Loops(f) : k \in Nat /\ k < m  BY DEF Loops
<1>3. e \in E /\ e.cfgEntry = m  BY <1>2
<1>4. PICK g : Matches(g, f, ls, br)  BY DEF LoopsOK
<1>5. /\ g \in [Loops(f) -> DOMAIN ls]
      /\ \A k \in Loops(f) : ls[g[k]].cfgEntry = k
      /\ \A k, l \in Loops(f) : k < l => g[k] < g[l]
      /\ ~br => \A i \in DOMAIN ls : \E k \in Loops(f) : g[k] = i
  BY <1>4 DEF Matches
<1> HIDE DEF e, E
<1>6. /\ u \in Seq(E) /\ Len(ls) \in Nat /\ DOMAIN ls = 1..Len(ls) /\ DOMAIN u = 1..(Len(ls) + 1)
      /\ \A i \in 1..Len(ls) : u[i] = ls[i]
      /\ u[Len(ls) + 1] = e
  BY <1>1, <1>3
<1> DEFINE h == [k \in Loops(st) |-> IF k = m THEN Len(ls) + 1 ELSE g[k]]
<1>7. DOMAIN h = Loops(st) /\ m \in Loops(st) /\ h[m] = Len(ls) + 1  OBVIOUS
<1>8. \A k \in Loops(f) : h[k] = g[k] /\ h[k] \in 1..Len(ls) /\ k \in Loops(st)
  BY <1>2, <1>5, <1>6
<1>9. h \in [Loops(st) -> DOMAIN u]  BY <1>5, <1>6
<1> HIDE DEF h, u
<1>10. \A k \in Loops(st) : u[h[k]].cfgEntry = k
  BY <1>3, <1>5, <1>6, <1>7, <1>8
<1>11. \A k, l \in Loops(st) : k < l => h[k] < h[l]
  <2> SUFFICES ASSUME NEW k \in Loops(st), NEW l \in Loops(st), k < l PROVE h[k] < h[l]
    OBVIOUS
  <2>1. CASE l = m
    <3>1. k \in Loops(f)  BY <1>2, <2>1
    <3>2. h[k] \in 1..Len(ls) /\ h[l] = Len(ls) + 1  BY <1>7, <1>8, <2>1, <3>1
    <3>3. Len(ls) \in Nat  BY <1>6
    <3> QED BY <3>2, <3>3
  <2>2. CASE l # m
    <3>1. l \in Loops(f) /\ k \in Loops(f)  BY <1>2, <2>2
    <3> QED BY <1>5, <1>8, <3>1
  <2> QED BY <2>1, <2>2
<1>12. ASSUME ~br, NEW i \in DOMAIN u PROVE \E k \in Loops(st) : h[k] = i
  <2>1. CASE i = Len(ls) + 1  BY <1>7, <2>1
  <2>2. CASE i # Len(ls) + 1
    <3>1. i \in DOMAIN ls  BY <1>6, <2>2
    <3> QED BY <1>5, <1>8, <1>12, <3>1
  <2> QED BY <2>1, <2>2
<1>13. Matches(h, st, u, br)  BY <1>9, <1>10, <1>11, <1>12 DEF Matches
<1> QED BY <1>6, <1>13 DEF LoopsOK, u, e, E

-----------------------------------------------------------------------------
(* What a handler finds. *)

LEMMA Found ==
  ASSUME BuildOK
  PROVE  /\ IsBytecode(code) /\ pc \in Nat /\ current \in Nat /\ broken \in BOOLEAN
         /\ Frame(cfgStack, blocks, order, code) /\ Shape(cfgStack) /\ cfgStack \in Seq(Level)
         /\ GraphOK(blocks, order, Unentered(cfgStack), code)
         /\ Levels(cfgStack, blocks, Unentered(cfgStack), code)
         /\ Unentered(cfgStack) \subseteq DOMAIN blocks
         /\ blocks \in Seq(Block) /\ Len(blocks) \in Nat /\ DOMAIN blocks = 1..Len(blocks)
         /\ order \in Seq(Nat)
         /\ CurrentOK(current, pc, cfgStack, blocks, code)
         /\ ExprOK(current, pc, cfgStack, code)
         /\ TopOK(current, pc, cfgStack, order, broken)
         /\ LoopsOK(cfgStack, loops, broken)
<1>1. Frame(cfgStack, blocks, order, code)  BY DEF BuildOK, Good
<1>2. blocks \in Seq(Block) /\ order \in Seq(Nat)
  BY <1>1 DEF Frame, GraphOK, BlocksOK, OrderOK
<1>3. Len(blocks) \in Nat /\ DOMAIN blocks = 1..Len(blocks)  BY <1>2
<1>4. Unentered(cfgStack) \subseteq DOMAIN blocks  BY <1>1, LevelBlocks DEF Frame
<1> QED BY <1>1, <1>2, <1>3, <1>4 DEF BuildOK, Good, Frame, Shape

(* At an opcode. *)
LEMMA OpFound ==
  ASSUME BuildOK, NEW op, NEW notes, AtOp(op, notes)
  PROVE  /\ code' = code
         /\ current # NULL /\ IsOpen(blocks, current) /\ Unheld(cfgStack, current)
         /\ current \notin Unentered(cfgStack)
         /\ pc \in DOMAIN code /\ code[pc] \in Instruction
         /\ code[pc].op \in op /\ code[pc].note \in notes
         /\ cfgStack # <<>> => Last(cfgStack).state # "FAKE_IF_END"
         /\ \A k \in DOMAIN cfgStack : cfgStack[k].state \in ExprState =>
              IsExpression(code, pc, cfgStack[k].stopAt) /\ pc < cfgStack[k].stopAt
<1>1. /\ code' = code /\ current # NULL /\ code[pc].op \in op /\ code[pc].note \in notes
      /\ cfgStack # <<>> => Last(cfgStack).stopAt # pc
  BY DEF AtOp, Unbuilt, Op, Top
<1>2. IsOpen(blocks, current) /\ Unheld(cfgStack, current) /\ pc \in DOMAIN code
  BY <1>1, Found DEF CurrentOK
<1>3. code \in Seq(Instruction)  BY Found DEF IsBytecode
<1>4. code[pc] \in Instruction  BY <1>2, <1>3
<1>5. cfgStack # <<>> => Last(cfgStack).state # "FAKE_IF_END"  BY <1>1, Found DEF TopOK
<1>6. ASSUME NEW k \in DOMAIN cfgStack, cfgStack[k].state \in ExprState
      PROVE  IsExpression(code, pc, cfgStack[k].stopAt) /\ pc < cfgStack[k].stopAt
  <2> DEFINE f == Front(cfgStack)
             t == Last(cfgStack)
  <2>1. cfgStack # <<>>  BY <1>6
  <2>2. /\ t \in Level /\ Len(f) \in Nat /\ DOMAIN f = 1..Len(f)
        /\ DOMAIN cfgStack = 1..(Len(f) + 1) /\ cfgStack[Len(f) + 1] = t
        /\ \A l \in DOMAIN f : f[l] = cfgStack[l] /\ f[l] \in Level
        /\ \A l \in DOMAIN f : Around(f[l], t)
    BY <2>1, Found, Popped
  <2> HIDE DEF f, t
  <2>3. \A l \in DOMAIN cfgStack : cfgStack[l].state \in ExprState =>
          IsExpression(code, pc, cfgStack[l].stopAt)
    BY Found DEF ExprOK
  <2>4. pc \in Nat /\ t.stopAt \in Nat /\ t.stopAt # pc  BY <1>1, <2>1, <2>2, Found DEF Level, t
  <2>5. CASE k = Len(f) + 1
    BY <1>6, <2>2, <2>3, <2>4, <2>5 DEF IsExpression
  <2>6. CASE k # Len(f) + 1
    <3>1. k \in DOMAIN f  BY <2>2, <2>6
    <3>2. t.state = "AND_OR" /\ t.stopAt <= cfgStack[k].stopAt
      BY <1>6, <2>2, <3>1 DEF Around
    <3>3. IsExpression(code, pc, t.stopAt)  BY <2>2, <2>3, <3>2 DEF ExprState
    <3>4. cfgStack[k].stopAt \in Nat  BY <2>2, <3>1 DEF Level
    <3>5. pc < cfgStack[k].stopAt  BY <2>4, <3>2, <3>3, <3>4 DEF IsExpression
    <3> QED BY <1>6, <2>3, <3>5
  <2> QED BY <2>5, <2>6
<1>7. current \notin Unentered(cfgStack)  BY <1>2, Found, LevelBlocks DEF Frame
<1> QED BY <1>1, <1>2, <1>4, <1>5, <1>6, <1>7

(* Most opcodes do not occur in an expression. *)
LEMMA OutsideExpression ==
  ASSUME BuildOK, NEW op, NEW notes, AtOp(op, notes),
         op \cap {"OP", "LOOPENTRY", "AND"} = {} \/ "none" \notin notes
  PROVE  /\ \A k \in DOMAIN cfgStack : cfgStack[k].state \notin ExprState
         /\ Unentered(cfgStack) = {}
<1>1. ASSUME NEW k \in DOMAIN cfgStack, cfgStack[k].state \in ExprState PROVE FALSE
  <2>1. IsExpression(code, pc, cfgStack[k].stopAt) /\ pc < cfgStack[k].stopAt
    BY <1>1, OpFound
  <2>2. cfgStack[k] \in Level  BY Found
  <2>3. pc \in Nat /\ cfgStack[k].stopAt \in Nat  BY <2>2, Found DEF Level
  <2>4. pc \in pc..(cfgStack[k].stopAt - 1)  BY <2>1, <2>3
  <2>5. code[pc].op \in {"OP", "LOOPENTRY", "AND"} /\ code[pc].note = "none"
    BY <2>1, <2>4 DEF IsExpression
  <2>6. code[pc].op \in op /\ code[pc].note \in notes  BY OpFound
  <2> QED BY <2>5, <2>6
<1>2. Unentered(cfgStack) = {}  BY <1>1 DEF Unentered, ExprState
<1> QED BY <1>1, <1>2

(* At the end of the innermost structure. *)
LEMMA StopFound ==
  ASSUME BuildOK, NEW states, AtStop(states)
  PROVE  LET f == Front(cfgStack)
             t == Last(cfgStack)
         IN  /\ code' = code /\ cfgStack # <<>> /\ t.state \in states
             /\ t.state \in ExprState => current # NULL
             /\ current # NULL =>
                  /\ pc = t.stopAt /\ pc \in DOMAIN code
                  /\ IsOpen(blocks, current)
                  /\ Unheld(f, current) /\ current \notin Held(t)
                  /\ current \notin Unentered(cfgStack)
             /\ \A b \in Held(t) : IsOpen(blocks, b) /\ Unheld(f, b)
<1> DEFINE f == Front(cfgStack)
           t == Last(cfgStack)
<1>1. /\ code' = code /\ cfgStack # <<>> /\ t.state \in states
      /\ current # NULL => t.stopAt = pc
  BY DEF AtStop, Unbuilt, Top
<1>2. /\ t \in Level /\ Len(f) \in Nat /\ DOMAIN cfgStack = 1..(Len(f) + 1)
      /\ cfgStack[Len(f) + 1] = t
  BY <1>1, Found, Popped
<1>3. /\ \A b : Unheld(cfgStack, b) => Unheld(f, b) /\ b \notin Held(t)
      /\ \A b \in Held(t) : Unheld(f, b)
  BY <1>1, Found, UnheldPopped
<1> HIDE DEF f, t
<1>4. t.state \in ExprState => current # NULL  BY <1>2, Found DEF ExprOK
<1>5. current # NULL => IsOpen(blocks, current) /\ Unheld(cfgStack, current) /\ pc \in DOMAIN code
  BY Found DEF CurrentOK
<1>6. current # NULL => current \notin Unentered(cfgStack)
  BY <1>5, Found, LevelBlocks DEF Frame
<1>7. \A b \in Held(t) : IsOpen(blocks, b)  BY <1>2, Found, LevelBlocks
<1> QED BY <1>1, <1>3, <1>4, <1>5, <1>6, <1>7 DEF f, t

(* Where a structure ends that is not an inverted loop, no inverted loop     *)
(* waits for its test.                                                       *)
LEMMA NotLast ==
  ASSUME NEW st, Shape(st), st # <<>>,
         Last(st).state \notin {"WHILE_OR_FOR_INVERTED", "DO_WHILE_LOOP_COND"}
  PROVE  Front(st) # <<>> => Last(Front(st)).state # "FAKE_IF_END"
BY Popped DEF RightAround

-----------------------------------------------------------------------------
(* The opcodes. *)

LEMMA OpenKept ==
  ASSUME NEW bs, NEW n, NEW C, NEW T, Grows(bs, n, C, T), NEW b, IsOpen(bs, b), b \notin C
  PROVE  IsOpen(n, b) /\ n[b].pc = bs[b].pc
BY DEF Grows, IsOpen

(* What an instruction of the bytecode leads to. *)
LEMMA Bytecode ==
  ASSUME NEW c, IsBytecode(c)
  PROVE  /\ c \in Seq(Instruction) /\ 1 \in DOMAIN c
         /\ \A p \in DOMAIN c :
              /\ p \in Nat
              /\ c[p] \in Instruction
              /\ c[p].op \notin {"GOTO", "RETURN", "STOP"} => p + 1 \in DOMAIN c
              /\ c[p].op \in {"GOTO", "IFEQ", "IFNE", "AND"} => c[p].to \in DOMAIN c
              /\ c[p].op = "AND" => p < c[p].to /\ IsExpression(c, p + 1, c[p].to)
              /\ c[p].note = "ifelse" =>
                   c[p].trueEnd \in DOMAIN c /\ c[c[p].trueEnd].op = "GOTO"
              /\ c[p].note = "while" => IsLoop(c, p + 1, p + 2, c[p].to, c[p].ifne)
              /\ c[p].note = "dowhile" => IsLoop(c, p + 1, p + 2, c[p].cond, c[p].ifne)
<1>1. c \in Seq(Instruction) /\ c # <<>>  BY DEF IsBytecode
<1>2. DOMAIN c = 1..Len(c) /\ Len(c) \in Nat /\ Len(c) # 0  BY <1>1
<1>3. 1 \in DOMAIN c  BY <1>2
<1>4. \A p \in DOMAIN c : p \in Nat /\ c[p] \in Instruction  BY <1>1, <1>2
<1> QED BY <1>1, <1>3, <1>4 DEF IsBytecode

LEMMA Fields ==
  ASSUME NEW i \in Instruction
  PROVE  i.to \in Nat /\ i.cond \in Nat /\ i.update \in Nat /\ i.ifne \in Nat /\ i.trueEnd \in Nat
BY DEF Instruction

LEMMA ExpressionGoesOn ==
  ASSUME NEW c, NEW p \in Nat, NEW q \in Nat, IsExpression(c, p, q), p < q
  PROVE  IsExpression(c, p + 1, q)
<1>1. p + 1 <= q  OBVIOUS
<1>2. \A x \in (p + 1)..(q - 1) : x \in p..(q - 1)  OBVIOUS
<1> QED BY <1>1, <1>2 DEF IsExpression

LEMMA StepInspectOpcode ==
  ASSUME BuildOK, inspectOpcode
  PROVE  BuildOK'
<1> USE DEF NULL
<1>1. AtOp({"OP", "LOOPENTRY"}, {"none"})  BY DEF inspectOpcode
<1>2. /\ code' = code /\ current # NULL /\ IsOpen(blocks, current) /\ Unheld(cfgStack, current)
      /\ pc \in DOMAIN code /\ code[pc].op \in {"OP", "LOOPENTRY"}
      /\ cfgStack # <<>> => Last(cfgStack).state # "FAKE_IF_END"
      /\ \A k \in DOMAIN cfgStack : cfgStack[k].state \in ExprState =>
           IsExpression(code, pc, cfgStack[k].stopAt) /\ pc < cfgStack[k].stopAt
  BY <1>1, OpFound
<1>3. /\ pc' = pc + 1 /\ current' = current /\ order' = order /\ cfgStack' = cfgStack
      /\ loops' = loops /\ broken' = broken
      /\ blocks' = IF code[pc].op = "OP" THEN [blocks EXCEPT ![current].ins = Append(@, pc)]
                   ELSE blocks
  BY DEF inspectOpcode, Op
<1>4. /\ GraphOK(blocks', order, Unentered(cfgStack), code)
      /\ Grows(blocks, blocks', {}, {})
  <2>1. CASE code[pc].op = "OP"
    <3>1. current \in DOMAIN blocks /\ pc \in Nat  BY <1>2, Found DEF IsOpen
    <3>2. blocks' = [blocks EXCEPT ![current].ins = Append(@, pc)]  BY <1>3, <2>1
    <3> QED BY <1>2, <2>1, <3>1, <3>2, Found, GIns
  <2>2. CASE code[pc].op # "OP"
    <3>1. blocks' = blocks  BY <1>3, <2>2
    <3> QED BY <3>1, Found DEF Grows
  <2> QED BY <2>1, <2>2
<1>5. Frame(cfgStack', blocks', order', code')
  <2>1. Frame(cfgStack, blocks, order, code)  BY Found
  <2>2. Frame(cfgStack, blocks', order, code)  BY ONLY <1>4, <2>1, FrameKept
  <2> QED BY <1>2, <1>3, <2>2
<1>6. CurrentOK(current', pc', cfgStack', blocks', code')
  <2>1. pc + 1 \in DOMAIN code  BY <1>2, Found, Bytecode
  <2>2. IsOpen(blocks', current)  BY <1>2, <1>4, OpenKept
  <2> QED BY <1>2, <1>3, <2>1, <2>2 DEF CurrentOK
<1>7. ExprOK(current', pc', cfgStack', code')
  <2> SUFFICES ASSUME NEW k \in DOMAIN cfgStack, cfgStack[k].state \in ExprState
               PROVE  current # NULL /\ IsExpression(code, pc + 1, cfgStack[k].stopAt)
    BY <1>2, <1>3 DEF ExprOK
  <2>1. cfgStack[k] \in Level  BY Found
  <2>2. pc \in Nat /\ cfgStack[k].stopAt \in Nat  BY <2>1, Found DEF Level
  <2> QED BY <1>2, <2>2, ExpressionGoesOn
<1>8. TopOK(current', pc', cfgStack', order', broken')  BY <1>2, <1>3 DEF TopOK
<1>9. LoopsOK(cfgStack', loops', broken')  BY <1>3, Found
<1>10. IsBytecode(code') /\ pc' \in Nat /\ current' \in Nat /\ broken' \in BOOLEAN
  BY <1>2, <1>3, Found
<1> QED BY <1>5, <1>6, <1>7, <1>8, <1>9, <1>10 DEF BuildOK, Good

LEMMA StepReturn ==
  ASSUME BuildOK, processReturn
  PROVE  BuildOK'
<1>1. AtOp({"RETURN", "STOP"}, {"none"})  BY DEF processReturn
<1>2. /\ code' = code /\ current # NULL /\ IsOpen(blocks, current) /\ Unheld(cfgStack, current)
      /\ pc \in DOMAIN code /\ code[pc].op \in {"RETURN", "STOP"}
      /\ cfgStack # <<>> => Last(cfgStack).state # "FAKE_IF_END"
  BY <1>1, OpFound
<1>3. /\ pc' = pc /\ current' = NULL /\ order' = order /\ cfgStack' = cfgStack
      /\ loops' = loops /\ broken' = broken
      /\ blocks' = End(blocks, current, MReturn(pc))
  BY DEF processReturn
<1>4. /\ GraphOK(blocks', order, Unentered(cfgStack), code)
      /\ Grows(blocks, blocks', {current}, {})
  BY <1>2, <1>3, Found, GReturn
<1>5. Frame(cfgStack', blocks', order', code')
  <2>1. \A b \in {current} : IsOpen(blocks, b) /\ Unheld(cfgStack, b)  BY <1>2
  <2> QED BY <1>2, <1>3, <1>4, <2>1, Found, FrameKept
<1>6. CurrentOK(current', pc', cfgStack', blocks', code')  BY <1>3 DEF CurrentOK
<1>7. ExprOK(current', pc', cfgStack', code')
  BY <1>1, <1>3, OutsideExpression DEF ExprOK
<1>8. TopOK(current', pc', cfgStack', order', broken')  BY <1>2, <1>3 DEF TopOK
<1> QED BY <1>2, <1>3, <1>5, <1>6, <1>7, <1>8, Found DEF BuildOK, Good, NULL

(* A structure with a branch that is built later. *)
LEMMA BranchPushed ==
  ASSUME NEW st, NEW bs, NEW o, NEW c, Frame(st, bs, o, c),
         NEW b, IsOpen(bs, b), Unheld(st, b), NEW q \in Nat, NEW x \in Nat, NEW y \in DOMAIN c,
         y \in Nat, NEW t \in Level, t.state \in {"IF_TRUE", "AND_OR", "IF_ELSE_TRUE"},
         t.ifFalse = Len(bs) + 2,
         t.state # "IF_ELSE_TRUE" => t.stopAt = y,
         t.state = "IF_ELSE_TRUE" => t.falseEnd \in DOMAIN c,
         \A k \in DOMAIN st : st[k].state \in ExprState =>
           t.state = "AND_OR" /\ t.stopAt <= st[k].stopAt,
         st # <<>> => Last(st).state # "FAKE_IF_END"
  PROVE  LET n == Branch(bs, b, q, x, y)
             m == Len(bs) + 1
         IN  /\ Frame(Append(st, t), n, o \o <<m, m + 1>>, c)
             /\ IsOpen(n, m) /\ Unheld(Append(st, t), m)
<1> DEFINE n == Branch(bs, b, q, x, y)
           m == Len(bs) + 1
           X == Unentered(st)
<1>1. /\ GraphOK(bs, o, X, c) /\ Levels(st, bs, X, c) /\ st \in Seq(Level)
      /\ bs \in Seq(Block)
  BY DEF Frame, Shape, GraphOK, BlocksOK
<1>2. /\ Len(bs) \in Nat /\ DOMAIN bs = 1..Len(bs) /\ X \subseteq DOMAIN bs
  BY <1>1, LevelBlocks
<1>3. /\ GraphOK(n, o \o <<m, m + 1>>, X, c)
      /\ Grows(bs, n, {b}, {})
      /\ Len(n) = m + 1
      /\ n[m].end = NoEnd
      /\ n[m + 1].end = NoEnd /\ n[m + 1].pc = y
  <2> HIDE DEF X
  <2>1. GraphOK(bs, o, X, c) /\ X \subseteq DOMAIN bs /\ IsOpen(bs, b)  BY <1>1, <1>2
  <2>2. q \in Nat /\ x \in Nat /\ y \in Nat  OBVIOUS
  <2> QED BY ONLY <2>1, <2>2, GBranch
<1>4. DOMAIN n = 1..(m + 1)
  <2>1. n \in Seq(Block)  BY <1>3 DEF GraphOK, BlocksOK
  <2> QED BY <1>3, <2>1
<1>5. m \notin DOMAIN bs /\ m + 1 \notin DOMAIN bs /\ m + 1 = Len(bs) + 2 /\ m # m + 1
      /\ m \in 1..(m + 1) /\ m + 1 \in 1..(m + 1)
  BY <1>2
<1> HIDE DEF n, m, X
<1>6. IsOpen(n, m) /\ IsOpen(n, m + 1)  BY <1>3, <1>4, <1>5 DEF IsOpen
<1>7. Unheld(st, m) /\ Unheld(st, m + 1) /\ Unowned(st, m + 1)  BY <1>5, FreshUnheld
<1>8. Frame(st, n, o \o <<m, m + 1>>, c)
  <2>1. \A z \in {b} : IsOpen(bs, z) /\ Unheld(st, z)  OBVIOUS
  <2> QED BY <1>3, <2>1, FrameKept DEF X
<1>9. Held(t) = {m + 1} /\ Owned(t) \subseteq {m + 1}
  BY <1>5 DEF Held, Owned, LoopLevel, LoopState
<1>10. LevelOK(t, n, X, c)
  <2>1. IfOK(t, n, c)  BY <1>3, <1>5 DEF IfOK
  <2> QED BY <1>6, <1>9, <2>1 DEF LevelOK, LoopLevel, LoopState
<1>11. \A k \in DOMAIN st : Around(st[k], t)
  BY <1>7, <1>9 DEF Around, Unheld, Unowned
<1>12. st # <<>> => RightAround(Last(st), t)  BY DEF RightAround
<1>13. Frame(Append(st, t), n, o \o <<m, m + 1>>, c)
  BY <1>8, <1>10, <1>11, <1>12, FramePushed DEF X
<1>14. Unheld(Append(st, t), m)  BY <1>1, <1>5, <1>7, <1>9, UnheldPushed
<1> QED BY <1>6, <1>13, <1>14 DEF n, m

LEMMA Appended ==
  ASSUME NEW X, NEW q \in Seq(X), NEW y \in X
  PROVE  \A k \in DOMAIN Append(q, y) :
           Append(q, y)[k] = y \/ (k \in DOMAIN q /\ Append(q, y)[k] = q[k])
<1>1. /\ Len(q) \in Nat /\ DOMAIN q = 1..Len(q) /\ DOMAIN Append(q, y) = 1..(Len(q) + 1)
      /\ \A k \in 1..Len(q) : Append(q, y)[k] = q[k]
      /\ Append(q, y)[Len(q) + 1] = y
  OBVIOUS
<1> QED BY <1>1

(* The levels that a condition begins. *)
LEMMA NewLevel == CFGState \in Level
BY DEF CFGState, Level, State, NULL

LEMMA StepIfeq ==
  ASSUME BuildOK, jsop_ifeq
  PROVE  BuildOK'
<1> DEFINE m == Len(blocks) + 1
           n == Branch(blocks, current, pc, pc + 1, code[pc].to)
           t == IF code[pc].note = "if"
                THEN [CFGState EXCEPT !.state = "IF_TRUE", !.stopAt = code[pc].to,
                                      !.ifFalse = New + 1]
                ELSE [CFGState EXCEPT !.state = "IF_ELSE_TRUE", !.stopAt = code[pc].trueEnd,
                                      !.falseEnd = code[code[pc].trueEnd].to,
                                      !.ifFalse = New + 1]
<1>1. AtOp({"IFEQ"}, {"if", "ifelse"})  BY DEF jsop_ifeq
<1>2. /\ code' = code /\ current # NULL /\ IsOpen(blocks, current) /\ Unheld(cfgStack, current)
      /\ pc \in DOMAIN code /\ code[pc] \in Instruction
      /\ code[pc].op = "IFEQ" /\ code[pc].note \in {"if", "ifelse"}
      /\ cfgStack # <<>> => Last(cfgStack).state # "FAKE_IF_END"
  BY <1>1, OpFound
<1>3. /\ pc \in Nat /\ Len(blocks) \in Nat /\ pc + 1 \in DOMAIN code
      /\ code[pc].to \in DOMAIN code /\ code[pc].to \in Nat
      /\ code[pc].note = "ifelse" =>
           code[pc].trueEnd \in DOMAIN code /\ code[code[pc].trueEnd].to \in DOMAIN code
  BY <1>2, Found, Bytecode
<1>4. New + 1 = m + 1 /\ New = m /\ m + 1 = Len(blocks) + 2 /\ m \in Nat /\ m # NULL
  BY <1>3 DEF New, NULL
<1>5. \A k \in DOMAIN cfgStack : cfgStack[k].state \notin ExprState
  BY <1>1, OutsideExpression
<1>6. /\ pc' = pc + 1 /\ current' = m /\ order' = order \o <<m, m + 1>>
      /\ cfgStack' = Append(cfgStack, t) /\ loops' = loops /\ broken' = broken
      /\ blocks' = n
  BY <1>4 DEF jsop_ifeq, Op, Branch
<1>7. /\ t \in Level /\ t.state \in {"IF_TRUE", "IF_ELSE_TRUE"} /\ t.ifFalse = m + 1
      /\ t.state # "IF_ELSE_TRUE" => t.stopAt = code[pc].to
      /\ t.state = "IF_ELSE_TRUE" => t.falseEnd \in DOMAIN code
  <2>1. New + 1 \in Nat  BY <1>4
  <2>2. CASE code[pc].note = "if"
    <3> DEFINE x == code[pc].to
               w == New + 1
    <3>1. t = [CFGState EXCEPT !.state = "IF_TRUE", !.stopAt = x, !.ifFalse = w]
      BY <2>2
    <3>2. x \in Nat /\ w \in Nat /\ x = code[pc].to /\ w = m + 1  BY <1>3, <1>4
    <3> HIDE DEF t, x, w, m
    <3>3. t \in Level /\ t.state = "IF_TRUE" /\ t.stopAt = x /\ t.ifFalse = w
      BY <3>1, <3>2, NewLevel DEF Level, State
    <3> QED BY <3>2, <3>3
  <2>3. CASE code[pc].note = "ifelse"
    <3> DEFINE x == code[pc].trueEnd
               z == code[code[pc].trueEnd].to
               w == New + 1
    <3>1. t = [CFGState EXCEPT !.state = "IF_ELSE_TRUE", !.stopAt = x,
                               !.falseEnd = z, !.ifFalse = w]
      BY <2>3
    <3>2. x \in Nat /\ z \in Nat /\ z \in DOMAIN code  BY <1>3, <2>3, Found, Bytecode
    <3>3. w \in Nat /\ w = m + 1  BY <1>4
    <3> HIDE DEF t, x, z, w, m
    <3>4. t \in Level /\ t.state = "IF_ELSE_TRUE" /\ t.ifFalse = w /\ t.falseEnd = z
      BY <3>1, <3>2, <3>3, NewLevel DEF Level, State
    <3> QED BY <3>2, <3>3, <3>4
  <2> QED BY <1>2, <2>2, <2>3
<1> HIDE DEF t, n
<1>8. /\ Frame(Append(cfgStack, t), n, order \o <<m, m + 1>>, code)
      /\ IsOpen(n, m) /\ Unheld(Append(cfgStack, t), m)
  <2>1. t.state \in {"IF_TRUE", "AND_OR", "IF_ELSE_TRUE"} /\ t.ifFalse = Len(blocks) + 2
    BY <1>4, <1>7
  <2>2. pc \in Nat /\ pc + 1 \in Nat  BY <1>3
  <2> QED BY <1>2, <1>3, <1>5, <1>7, <2>1, <2>2, Found, BranchPushed DEF n
<1> HIDE DEF m
<1>9. Last(cfgStack') = t /\ cfgStack \in Seq(Level)  BY <1>6, <1>7, Found, BeforeAppended
<1>10. CurrentOK(current', pc', cfgStack', blocks', code')
  BY <1>2, <1>3, <1>6, <1>8 DEF CurrentOK
<1>11. ExprOK(current', pc', cfgStack', code')
  <2>1. \A k \in DOMAIN Append(cfgStack, t) : Append(cfgStack, t)[k].state \notin ExprState
    <3>1. \A k \in DOMAIN Append(cfgStack, t) :
             Append(cfgStack, t)[k] = t \/ (k \in DOMAIN cfgStack /\ Append(cfgStack, t)[k] = cfgStack[k])
      BY <1>7, <1>9, Appended
    <3>2. t.state \notin ExprState  BY <1>7 DEF ExprState
    <3> QED BY <1>5, <3>1, <3>2
  <2> QED BY <1>6, <2>1 DEF ExprOK
<1>12. TopOK(current', pc', cfgStack', order', broken')  BY <1>7, <1>9 DEF TopOK
<1>13. LoopsOK(cfgStack', loops', broken')
  <2>1. t.state \notin LoopLevel  BY <1>7 DEF LoopLevel, LoopState
  <2>2. Loops(cfgStack') = Loops(cfgStack)  BY <1>6, <1>7, <1>9, <2>1, LoopsSplit
  <2> QED BY <1>6, <2>2, Found, LoopsSame
<1> QED BY <1>2, <1>3, <1>4, <1>6, <1>8, <1>10, <1>11, <1>12, <1>13, Found DEF BuildOK, Good

LEMMA StepAndor ==
  ASSUME BuildOK, jsop_andor
  PROVE  BuildOK'
<1> DEFINE m == Len(blocks) + 1
           n == Branch(blocks, current, pc, pc + 1, code[pc].to)
           t == [CFGState EXCEPT !.state = "AND_OR", !.stopAt = code[pc].to,
                                 !.ifFalse = New + 1]
<1>1. AtOp({"AND"}, {"none"})  BY DEF jsop_andor
<1>2. /\ code' = code /\ current # NULL /\ IsOpen(blocks, current) /\ Unheld(cfgStack, current)
      /\ pc \in DOMAIN code /\ code[pc] \in Instruction /\ code[pc].op = "AND"
      /\ cfgStack # <<>> => Last(cfgStack).state # "FAKE_IF_END"
      /\ \A k \in DOMAIN cfgStack : cfgStack[k].state \in ExprState =>
           IsExpression(code, pc, cfgStack[k].stopAt) /\ pc < cfgStack[k].stopAt
  BY <1>1, OpFound
<1>3. /\ pc \in Nat /\ Len(blocks) \in Nat /\ pc + 1 \in DOMAIN code
      /\ code[pc].to \in DOMAIN code /\ code[pc].to \in Nat
      /\ IsExpression(code, pc + 1, code[pc].to)
  BY <1>2, Found, Bytecode
<1>4. New + 1 = m + 1 /\ New = m /\ m + 1 = Len(blocks) + 2 /\ m \in Nat /\ m # NULL
  BY <1>3 DEF New, NULL
<1>5. /\ pc' = pc + 1 /\ current' = m /\ order' = order \o <<m, m + 1>>
      /\ cfgStack' = Append(cfgStack, t) /\ loops' = loops /\ broken' = broken
      /\ blocks' = n
  BY <1>4 DEF jsop_andor, Op, Branch
<1>6. t \in Level /\ t.state = "AND_OR" /\ t.ifFalse = m + 1 /\ t.stopAt = code[pc].to
  <2> DEFINE x == code[pc].to
             w == New + 1
  <2>1. t = [CFGState EXCEPT !.state = "AND_OR", !.stopAt = x, !.ifFalse = w]
    OBVIOUS
  <2>2. x \in Nat /\ w \in Nat /\ x = code[pc].to /\ w = m + 1  BY <1>3, <1>4
  <2> HIDE DEF t, x, w, m
  <2>3. t \in Level /\ t.state = "AND_OR" /\ t.stopAt = x /\ t.ifFalse = w
    BY <2>1, <2>2, NewLevel DEF Level, State
  <2> QED BY <2>2, <2>3
<1>7. \A k \in DOMAIN cfgStack : cfgStack[k].state \in ExprState =>
        code[pc].to <= cfgStack[k].stopAt /\ IsExpression(code, pc + 1, cfgStack[k].stopAt)
  <2> SUFFICES ASSUME NEW k \in DOMAIN cfgStack, cfgStack[k].state \in ExprState
               PROVE  /\ code[pc].to <= cfgStack[k].stopAt
                      /\ IsExpression(code, pc + 1, cfgStack[k].stopAt)
    OBVIOUS
  <2>1. cfgStack[k] \in Level  BY Found
  <2>2. cfgStack[k].stopAt \in Nat  BY <2>1 DEF Level
  <2>3. IsExpression(code, pc, cfgStack[k].stopAt) /\ pc < cfgStack[k].stopAt  BY <1>2
  <2>4. pc \in pc..(cfgStack[k].stopAt - 1)  BY <1>3, <2>2, <2>3
  <2>5. code[pc].to <= cfgStack[k].stopAt  BY <1>2, <2>3, <2>4 DEF IsExpression
  <2> QED BY <1>3, <2>2, <2>3, <2>5, ExpressionGoesOn
<1> HIDE DEF t, n
<1>8. /\ Frame(Append(cfgStack, t), n, order \o <<m, m + 1>>, code)
      /\ IsOpen(n, m) /\ Unheld(Append(cfgStack, t), m)
  <2>1. t.state \in {"IF_TRUE", "AND_OR", "IF_ELSE_TRUE"} /\ t.ifFalse = Len(blocks) + 2
    BY <1>4, <1>6
  <2>2. pc \in Nat /\ pc + 1 \in Nat  BY <1>3
  <2> QED BY <1>2, <1>3, <1>6, <1>7, <2>1, <2>2, Found, BranchPushed DEF n
<1> HIDE DEF m
<1>9. Last(cfgStack') = t /\ cfgStack \in Seq(Level)  BY <1>5, <1>6, Found, BeforeAppended
<1>10. CurrentOK(current', pc', cfgStack', blocks', code')
  BY <1>2, <1>3, <1>5, <1>8 DEF CurrentOK
<1>11. ExprOK(current', pc', cfgStack', code')
  <2>1. \A k \in DOMAIN Append(cfgStack, t) :
           Append(cfgStack, t)[k] = t \/ (k \in DOMAIN cfgStack /\ Append(cfgStack, t)[k] = cfgStack[k])
    BY <1>6, <1>9, Appended
  <2>2. \A k \in DOMAIN cfgStack' : cfgStack'[k].state \in ExprState =>
          IsExpression(code, pc + 1, cfgStack'[k].stopAt)
    BY <1>3, <1>5, <1>6, <1>7, <2>1
  <2> QED BY <1>2, <1>4, <1>5, <2>2 DEF ExprOK
<1>12. TopOK(current', pc', cfgStack', order', broken')  BY <1>6, <1>9 DEF TopOK
<1>13. LoopsOK(cfgStack', loops', broken')
  <2>1. t.state \notin LoopLevel  BY <1>6 DEF LoopLevel, LoopState
  <2>2. Loops(cfgStack') = Loops(cfgStack)  BY <1>5, <1>6, <1>9, <2>1, LoopsSplit
  <2> QED BY <1>5, <2>2, Found, LoopsSame
<1> QED BY <1>2, <1>3, <1>4, <1>5, <1>8, <1>10, <1>11, <1>12, <1>13, Found DEF BuildOK, Good

-----------------------------------------------------------------------------
(* The ends of if statements and of &&. *)

LEMMA StepIfEnd ==
  ASSUME BuildOK, processIfEnd
  PROVE  BuildOK'
<1> DEFINE f == Front(cfgStack)
           t == Last(cfgStack)
           q == t.ifFalse
           X == Unentered(f)
<1>1. AtStop({"IF_TRUE", "AND_OR"})  BY DEF processIfEnd
<1>2. /\ code' = code /\ cfgStack # <<>> /\ t.state \in {"IF_TRUE", "AND_OR"}
      /\ t.state \in ExprState => current # NULL
      /\ current # NULL =>
           /\ pc = t.stopAt /\ pc \in DOMAIN code
           /\ IsOpen(blocks, current)
           /\ Unheld(f, current) /\ current \notin Held(t)
           /\ current \notin Unentered(cfgStack)
      /\ \A b \in Held(t) : IsOpen(blocks, b) /\ Unheld(f, b)
  BY <1>1, StopFound
<1>3. Held(t) = {q} /\ Owned(t) = {q}  BY <1>2 DEF Held, Owned
<1>4. /\ current' = q /\ pc' = blocks[q].pc /\ cfgStack' = f
      /\ loops' = loops /\ broken' = broken
      /\ blocks' = IF current = NULL THEN blocks ELSE JumpTo(blocks, current, q)
      /\ order' = moveBlockToEnd(order, q)
  BY <1>2 DEF processIfEnd, Joined, popCfgStack, isLoop, LoopState, Top
<1>5. /\ Frame(f, blocks, order, code) /\ LevelOK(t, blocks, X, code)
      /\ t \in Level
      /\ \A k \in DOMAIN f : Around(f[k], t) /\ f[k] = cfgStack[k] /\ k \in DOMAIN cfgStack
      /\ f \in Seq(Level)
  <2>1. t.state # "FAKE_IF"  BY <1>2
  <2> QED BY <1>2, <2>1, Found, FramePopped, Popped
<1>6. GraphOK(blocks, order, X, code) /\ Levels(f, blocks, X, code)  BY <1>5 DEF Frame
<1>7. Unowned(f, q)  BY <1>2, <1>3, Found, UnheldPopped
<1>8. f # <<>> => Last(f).state # "FAKE_IF_END"  BY <1>2, Found, NotLast
<1> HIDE DEF f, t, q, X
<1>9. IsOpen(blocks, q) /\ Unheld(f, q) /\ (current # NULL => current # q)  BY <1>2, <1>3
<1>10. q \notin X  BY <1>6, <1>9, LevelBlocks DEF X
<1>11. Frame(f, blocks', order', code) /\ IsOpen(blocks', q) /\ blocks'[q].pc = blocks[q].pc
  <2>1. CASE current = NULL
    <3>1. blocks' = blocks  BY <1>4, <2>1
    <3>2. GraphOK(blocks, order', X, code)  BY <1>4, <1>6, <1>9, GMove
    <3> QED BY <1>5, <1>9, <3>1, <3>2 DEF Frame, X
  <2>2. CASE current # NULL
    <3> DEFINE n == JumpTo(blocks, current, q)
    <3>1. blocks' = n  BY <1>4, <2>2
    <3>2. GraphOK(n, order', X, code) /\ Grows(blocks, n, {current}, {q})
      BY <1>2, <1>4, <1>6, <1>9, <1>10, <2>2, GJump
    <3> HIDE DEF n
    <3>3. \A b \in {current} : IsOpen(blocks, b) /\ Unheld(f, b)  BY <1>2, <2>2
    <3>4. \A b \in {q} : Unowned(f, b)  BY <1>7
    <3>5. Frame(f, n, order', code)  BY <1>5, <3>2, <3>3, <3>4, FrameKept DEF X
    <3>6. IsOpen(n, q) /\ n[q].pc = blocks[q].pc
      <4>1. q \notin {current}  BY <1>9, <2>2
      <4> QED BY <1>9, <3>2, <4>1, OpenKept
    <3> QED BY <3>1, <3>5, <3>6
  <2> QED BY <2>1, <2>2
<1>12. IfOK(t, blocks, code)  BY <1>2, <1>5 DEF LevelOK
<1>13. blocks[q].pc \in DOMAIN code /\ blocks[q].pc = t.stopAt
  BY <1>2, <1>12 DEF IfOK, q
<1>14. CurrentOK(current', pc', cfgStack', blocks', code')
  BY <1>2, <1>4, <1>9, <1>11, <1>13 DEF CurrentOK
<1>15. q \in DOMAIN blocks /\ q \in Nat /\ q # NULL  BY <1>9, Found DEF IsOpen, NULL
<1>16. ExprOK(current', pc', cfgStack', code')
  <2> SUFFICES ASSUME NEW k \in DOMAIN f, f[k].state \in ExprState
               PROVE  IsExpression(code, blocks[q].pc, f[k].stopAt)
    BY <1>2, <1>4, <1>15 DEF ExprOK
  <2>1. t.state = "AND_OR"  BY <1>5 DEF Around
  <2>2. pc = blocks[q].pc  BY <1>2, <1>13, <2>1 DEF ExprState
  <2> QED BY <1>5, <2>2, Found DEF ExprOK
<1>17. TopOK(current', pc', cfgStack', order', broken')  BY <1>4, <1>8 DEF TopOK
<1>18. LoopsOK(cfgStack', loops', broken')
  <2>1. t.state \notin LoopLevel  BY <1>2 DEF LoopLevel, LoopState
  <2>2. Loops(cfgStack) = Loops(f)  BY <1>2, <2>1, Found, LoopsOfPopped DEF f, t
  <2> QED BY <1>4, <2>2, Found, LoopsSame
<1>19. pc' \in Nat  BY <1>4, <1>13, Found, Bytecode
<1> QED BY <1>2, <1>4, <1>11, <1>14, <1>15, <1>16, <1>17, <1>18, <1>19, Found DEF BuildOK, Good

LEMMA StepIfElseTrueEnd ==
  ASSUME BuildOK, processIfElseTrueEnd
  PROVE  BuildOK'
<1> DEFINE f == Front(cfgStack)
           t == Last(cfgStack)
           q == t.ifFalse
           X == Unentered(f)
           s == [t EXCEPT !.state = "IF_ELSE_FALSE", !.ifTrue = current, !.stopAt = t.falseEnd]
<1>1. AtStop({"IF_ELSE_TRUE"})  BY DEF processIfElseTrueEnd
<1>2. /\ code' = code /\ cfgStack # <<>> /\ t.state = "IF_ELSE_TRUE"
      /\ current # NULL =>
           /\ pc = t.stopAt /\ pc \in DOMAIN code
           /\ IsOpen(blocks, current)
           /\ Unheld(f, current) /\ current \notin Held(t)
      /\ \A b \in Held(t) : IsOpen(blocks, b) /\ Unheld(f, b)
  BY <1>1, StopFound
<1>3. Held(t) = {q}  BY <1>2 DEF Held
<1>4. /\ current' = q /\ pc' = blocks[q].pc /\ cfgStack' = Append(f, s)
      /\ loops' = loops /\ broken' = broken
      /\ blocks' = blocks /\ order' = moveBlockToEnd(order, q)
  BY <1>2 DEF processIfElseTrueEnd, Jumped, Top
<1>5. /\ Frame(f, blocks, order, code) /\ LevelOK(t, blocks, X, code)
      /\ t \in Level /\ f \in Seq(Level)
  <2>1. t.state # "FAKE_IF"  BY <1>2
  <2> QED BY <1>2, <2>1, Found, FramePopped, Popped
<1>6. GraphOK(blocks, order, X, code) /\ Levels(f, blocks, X, code)  BY <1>5 DEF Frame
<1>7. f # <<>> => Last(f).state # "FAKE_IF_END"  BY <1>2, Found, NotLast
<1>8. \A k \in DOMAIN f : f[k].state \notin ExprState  BY <1>2, Found, UnenteredPopped
<1>9. /\ s \in Level /\ s.state = "IF_ELSE_FALSE" /\ s.ifTrue = current
      /\ s.falseEnd = t.falseEnd
  <2>1. current \in Nat /\ t.falseEnd \in Nat  BY <1>5, Found DEF Level
  <2> HIDE DEF t
  <2> QED BY <1>5, <2>1 DEF Level, State
<1> HIDE DEF f, t, q, X, s
<1>10. IsOpen(blocks, q) /\ Unheld(f, q) /\ (current # NULL => current # q)  BY <1>2, <1>3
<1>11. Frame(f, blocks, order', code)
  <2>1. GraphOK(blocks, order', X, code)  BY <1>4, <1>6, <1>10, GMove
  <2> QED BY <1>5, <2>1 DEF Frame, X
<1>12. Held(s) = {current} \ {NULL} /\ Owned(s) = {}
  BY <1>9 DEF Held, Owned, LoopLevel, LoopState
<1>13. LevelOK(s, blocks, X, code)
  <2>1. \A b \in Held(s) : IsOpen(blocks, b)  BY <1>2, <1>12
  <2>2. s.falseEnd \in DOMAIN code  BY <1>2, <1>5, <1>9 DEF LevelOK
  <2> QED BY <1>9, <2>1, <2>2 DEF LevelOK, LoopLevel, LoopState
<1>14. Frame(Append(f, s), blocks, order', code)
  <2>1. \A k \in DOMAIN f : Around(f[k], s)
    <3>1. \A b \in Held(s) : Unheld(f, b)  BY <1>2, <1>12
    <3> QED BY <1>8, <1>9, <1>12, <3>1, AroundPlain
  <2>2. f # <<>> => RightAround(Last(f), s)  BY <1>7 DEF RightAround
  <2>3. s.state # "FAKE_IF"  BY <1>9
  <2> QED BY <1>9, <1>11, <1>13, <2>1, <2>2, <2>3, FramePushed DEF X
<1>15. CurrentOK(current', pc', cfgStack', blocks', code')
  <2>1. IfOK(t, blocks, code)  BY <1>2, <1>5 DEF LevelOK
  <2>2. Unheld(Append(f, s), q)  BY <1>5, <1>9, <1>10, <1>12, UnheldPushed
  <2> QED BY <1>2, <1>4, <1>10, <2>1, <2>2 DEF CurrentOK, IfOK, q
<1>16. q \in DOMAIN blocks /\ q \in Nat /\ q # NULL  BY <1>10, Found DEF IsOpen, NULL
<1>17. ExprOK(current', pc', cfgStack', code')
  <2>1. s.state \notin ExprState  BY <1>9 DEF ExprState
  <2>2. \A k \in DOMAIN Append(f, s) : Append(f, s)[k].state \notin ExprState
    BY <1>5, <1>8, <1>9, <2>1, Appended
  <2> QED BY <1>4, <2>2 DEF ExprOK
<1>18. TopOK(current', pc', cfgStack', order', broken')
  BY <1>4, <1>5, <1>9, BeforeAppended DEF TopOK
<1>19. LoopsOK(cfgStack', loops', broken')
  <2>1. t.state \notin LoopLevel /\ s.state \notin LoopLevel
    BY <1>2, <1>9 DEF LoopLevel, LoopState
  <2>2. Loops(cfgStack) = Loops(f)  BY <1>2, <2>1, Found, LoopsOfPopped DEF f, t
  <2>3. Loops(Append(f, s)) = Loops(f)  BY <1>5, <1>9, <2>1, LoopsSplit
  <2> QED BY <1>4, <2>2, <2>3, Found, LoopsSame
<1>20. pc' \in Nat
  <2>1. blocks[q] \in Block  BY <1>16, Found
  <2> QED BY <1>4, <2>1 DEF Block
<1> QED BY <1>2, <1>4, <1>14, <1>15, <1>16, <1>17, <1>18, <1>19, <1>20, Found DEF BuildOK, Good

(* Blocks that meet in a new one. *)
LEMMA JoinKept ==
  ASSUME NEW f, NEW bs, NEW o, NEW c, Frame(f, bs, o, c), NEW p \in Nat,
         NEW ps \in Seq(Nat), NoRepeats(ps), \A x \in Range(ps) : IsOpen(bs, x) /\ Unheld(f, x)
  PROVE  LET n == Join(bs, ps, p)
             m == Len(bs) + 1
         IN  /\ Frame(f, n, Append(o, m), c)
             /\ Grows(bs, n, Range(ps), {})
             /\ m \in Nat /\ m # NULL /\ m \notin DOMAIN bs /\ Len(n) = m
             /\ IsOpen(n, m) /\ n[m].pc = p /\ Len(n[m].pred) = Len(ps)
             /\ Unheld(f, m) /\ Unowned(f, m)
             /\ Last(Append(o, m)) = m
<1> DEFINE n == Join(bs, ps, p)
           m == Len(bs) + 1
           X == Unentered(f)
<1>1. /\ GraphOK(bs, o, X, c) /\ Levels(f, bs, X, c) /\ bs \in Seq(Block) /\ o \in Seq(Nat)
  BY DEF Frame, GraphOK, BlocksOK, OrderOK
<1>2. /\ Len(bs) \in Nat /\ DOMAIN bs = 1..Len(bs) /\ X \subseteq DOMAIN bs
  BY <1>1, LevelBlocks
<1>3. m \in Nat /\ m # NULL /\ m \notin DOMAIN bs  BY <1>2 DEF NULL
<1>4. /\ GraphOK(n, Append(o, m), X, c) /\ Grows(bs, n, Range(ps), {}) /\ IsJoin(n, bs, ps, p)
  <2> HIDE DEF X
  <2>1. \A x \in Range(ps) : IsOpen(bs, x)  OBVIOUS
  <2>2. X \subseteq DOMAIN bs /\ GraphOK(bs, o, X, c)  BY <1>1, <1>2
  <2>3. p \in Nat /\ ps \in Seq(Nat) /\ NoRepeats(ps)  OBVIOUS
  <2> QED BY ONLY <2>1, <2>2, <2>3, GJoin
<1> HIDE DEF n, X
<1>5. /\ IsOpen(n, m) /\ n[m].pc = p /\ Len(n) = m /\ n[m].pred = ps
  BY <1>4 DEF IsJoin, IsOpen
<1>6. Frame(f, n, Append(o, m), c)  BY <1>4, FrameKept DEF X
<1>7. Unheld(f, m) /\ Unowned(f, m)  BY <1>3, FreshUnheld
<1>8. Last(Append(o, m)) = m  BY <1>1, <1>3, BeforeAppended
<1> QED BY <1>3, <1>4, <1>5, <1>6, <1>7, <1>8 DEF n

LEMMA PresentBlocks ==
  ASSUME NEW b \in Nat
  PROVE  Present(b) \in Seq(Nat) /\ NoRepeats(Present(b)) /\ Range(Present(b)) = {b} \ {NULL}
BY RangeOfOne, RangeOfNone DEF Present

LEMMA StepIfElseFalseEnd ==
  ASSUME BuildOK, processIfElseFalseEnd
  PROVE  BuildOK'
<1> DEFINE f == Front(cfgStack)
           t == Last(cfgStack)
           m == Len(blocks) + 1
           open == Present(t.ifTrue) \o Present(current)
<1>1. AtStop({"IF_ELSE_FALSE"})  BY DEF processIfElseFalseEnd
<1>2. /\ code' = code /\ cfgStack # <<>> /\ t.state = "IF_ELSE_FALSE"
      /\ current # NULL =>
           /\ IsOpen(blocks, current)
           /\ Unheld(f, current) /\ current \notin Held(t)
      /\ \A b \in Held(t) : IsOpen(blocks, b) /\ Unheld(f, b)
  BY <1>1, StopFound
<1>3. Held(t) = {t.ifTrue} \ {NULL}  BY <1>2 DEF Held
<1>4. /\ Frame(f, blocks, order, code) /\ LevelOK(t, blocks, Unentered(f), code)
      /\ t \in Level /\ f \in Seq(Level)
  <2>1. t.state # "FAKE_IF"  BY <1>2
  <2> QED BY <1>2, <2>1, Found, FramePopped, Popped
<1>5. f # <<>> => Last(f).state # "FAKE_IF_END"  BY <1>2, Found, NotLast
<1>6. \A k \in DOMAIN f : f[k].state \notin ExprState  BY <1>2, Found, UnenteredPopped
<1>7. cfgStack' = f /\ loops' = loops /\ broken' = broken
  BY <1>2 DEF processIfElseFalseEnd, Joined, Ended, popCfgStack, isLoop, LoopState, Top
<1>8. LoopsOK(cfgStack', loops', broken')
  <2>1. t.state \notin LoopLevel  BY <1>2 DEF LoopLevel, LoopState
  <2>2. Loops(cfgStack) = Loops(f)  BY <1>2, <2>1, Found, LoopsOfPopped
  <2> QED BY <1>7, <2>2, Found, LoopsSame
<1>9. ExprOK(current', pc', cfgStack', code')  BY <1>6, <1>7 DEF ExprOK
<1>10. TopOK(current', pc', cfgStack', order', broken')  BY <1>5, <1>7 DEF TopOK
<1>11. /\ Frame(cfgStack', blocks', order', code')
       /\ CurrentOK(current', pc', cfgStack', blocks', code')
       /\ current' \in Nat /\ pc' \in Nat
  <2>1. CASE open = <<>>
    <3>1. current' = NULL /\ pc' = pc /\ blocks' = blocks /\ order' = order
      BY <2>1 DEF processIfElseFalseEnd, Ended, Top
    <3> QED BY <1>2, <1>4, <1>7, <3>1, Found DEF CurrentOK, NULL
  <2>2. CASE open # <<>>
    <3>1. /\ current' = m /\ pc' = t.falseEnd
          /\ blocks' = Join(blocks, open, t.falseEnd) /\ order' = Append(order, m)
      BY <2>2 DEF processIfElseFalseEnd, Joined, Top, New
    <3> HIDE DEF t, f, open
    <3>2. t.ifTrue \in Nat /\ t.falseEnd \in Nat /\ t.falseEnd \in DOMAIN code
      BY <1>2, <1>4 DEF Level, LevelOK
    <3>3. /\ Present(t.ifTrue) \in Seq(Nat) /\ NoRepeats(Present(t.ifTrue))
          /\ Range(Present(t.ifTrue)) = {t.ifTrue} \ {NULL}
      BY <3>2, PresentBlocks
    <3>4. /\ Present(current) \in Seq(Nat) /\ NoRepeats(Present(current))
          /\ Range(Present(current)) = {current} \ {NULL}
      BY Found, PresentBlocks
    <3>5. Range(Present(t.ifTrue)) \cap Range(Present(current)) = {}
      BY <1>2, <1>3, <3>3, <3>4
    <3>6. /\ open \in Seq(Nat) /\ NoRepeats(open)
          /\ \A x : x \in Range(open) <=> x \in {t.ifTrue} \ {NULL} \/ x \in {current} \ {NULL}
      BY <3>3, <3>4, <3>5, RangeOfConcat DEF open
    <3>7. \A x \in Range(open) : IsOpen(blocks, x) /\ Unheld(f, x)
      BY <1>2, <1>3, <3>6
    <3> DEFINE n == Join(blocks, open, t.falseEnd)
    <3>8. /\ Frame(f, n, Append(order, m), code) /\ m \in Nat
          /\ IsOpen(n, m) /\ Unheld(f, m)
      BY <1>4, <3>2, <3>6, <3>7, JoinKept
    <3> HIDE DEF n, m
    <3>9. blocks' = n  BY <3>1 DEF n
    <3> QED BY <1>2, <1>7, <3>1, <3>2, <3>8, <3>9 DEF CurrentOK, t, f
  <2> QED BY <2>1, <2>2
<1> QED BY <1>2, <1>7, <1>8, <1>9, <1>10, <1>11, Found DEF BuildOK, Good

-----------------------------------------------------------------------------
(* The ends of loops. *)

LEMMA LeaveGood ==
  ASSUME cfgStack # <<>>, Shape(cfgStack), IsBytecode(code), code' = code, pc \in Nat,
         broken \in BOOLEAN,
         NEW bs, NEW o, NEW s \in Nat, Leave(bs, o, s),
         Frame(Front(cfgStack), bs, o, code),
         Last(cfgStack).state \in LoopLevel, LoopsOK(cfgStack, loops, broken),
         broken' = (broken \/ Last(cfgStack).state = "WHILE_OR_FOR_INVERTED"),
         NoRepeats(Last(cfgStack).breaks),
         \A b \in Range(Last(cfgStack).breaks) : IsOpen(bs, b) /\ Unheld(Front(cfgStack), b),
         Last(cfgStack).exitpc \in DOMAIN code,
         s # NULL => /\ IsOpen(bs, s) /\ Unheld(Front(cfgStack), s) /\ bs[s].pc \in DOMAIN code
                     /\ s \notin Range(Last(cfgStack).breaks),
         Front(cfgStack) # <<>> /\ Last(Front(cfgStack)).state = "FAKE_IF_END" =>
           /\ Last(cfgStack).exitpc = Last(Front(cfgStack)).stopAt
           /\ s = NULL => broken'
           /\ s # NULL => /\ bs[s].pc = Last(Front(cfgStack)).stopAt
                          /\ s # Last(Front(cfgStack)).entry
                          /\ Unowned(Front(cfgStack), s)
  PROVE  BuildOK'
<1> DEFINE f == Front(cfgStack)
           t == Last(cfgStack)
           X == Unentered(f)
           m == Len(bs) + 1
           listed == IF s = NULL THEN o ELSE moveBlockToEnd(o, s)
           exits == IF s = NULL THEN t.breaks ELSE Append(t.breaks, s)
           inverted == f # <<>> /\ Last(f).state = "FAKE_IF_END"
<1>1. /\ t \in Level /\ f \in Seq(Level) /\ t.state \in LoopLevel
  BY Popped
<1>2. /\ \A k \in DOMAIN f : f[k].state \notin ExprState
  BY <1>1, UnenteredPopped DEF LoopLevel, LoopState
<1>3. cfgStack' = f /\ loops' = IF t.state \in LoopState THEN Front(loops) ELSE loops
  BY DEF Leave, Ended, Joined, popCfgStack, isLoop, Top
<1>4. LoopsOK(cfgStack', loops', broken')
  <2>1. LoopsOK(f, Front(loops), broken) /\ LoopsOK(f, loops, TRUE)  BY LoopsPopped
  <2>2. CASE t.state = "WHILE_OR_FOR_INVERTED"
    <3>1. loops' = loops /\ broken' = TRUE  BY <1>3, <2>2 DEF LoopState
    <3> QED BY <1>3, <2>1, <3>1
  <2>3. CASE t.state # "WHILE_OR_FOR_INVERTED"
    <3>1. t.state \in LoopState  BY <1>1, <2>3 DEF LoopLevel
    <3>2. loops' = Front(loops) /\ broken' = broken  BY <1>3, <2>3, <3>1
    <3> QED BY <1>3, <2>1, <3>2
  <2> QED BY <2>2, <2>3
<1>5. ExprOK(current', pc', cfgStack', code')  BY <1>2, <1>3 DEF ExprOK
<1>6. t.breaks \in Seq(Nat) /\ t.exitpc \in Nat  BY <1>1 DEF Level
<1>7. GraphOK(bs, o, X, code) /\ Levels(f, bs, X, code) /\ Shape(f)  BY DEF Frame
<1>8. GraphOK(bs, listed, X, code) /\ (s # NULL => Last(listed) = s)
  <2> HIDE DEF X, t, f
  <2>1. CASE s = NULL  BY <1>7, <2>1
  <2>2. CASE s # NULL
    <3>1. IsOpen(bs, s)  BY <2>2
    <3>2. GraphOK(bs, moveBlockToEnd(o, s), X, code) /\ Last(moveBlockToEnd(o, s)) = s
      BY ONLY <1>7, <3>1, GMove
    <3> QED BY <2>2, <3>2
  <2> QED BY <2>1, <2>2
<1>9. Frame(f, bs, listed, code)  BY <1>7, <1>8 DEF Frame
<1>10. CASE t.breaks = <<>>
  <2>1. blocks' = bs /\ order' = listed  BY <1>10 DEF Leave, Top
  <2>2. CASE s = NULL
    <3>1. current' = NULL /\ pc' = pc  BY <1>10, <2>2 DEF Leave, Ended, Top
    <3>2. CurrentOK(current', pc', cfgStack', blocks', code')  BY <3>1 DEF CurrentOK
    <3>3. TopOK(current', pc', cfgStack', order', broken')  BY <1>3, <2>2, <3>1 DEF TopOK
    <3> HIDE DEF listed, f
    <3> QED BY <1>3, <1>4, <1>5, <1>9, <2>1, <3>1, <3>2, <3>3 DEF BuildOK, Good, NULL
  <2>3. CASE s # NULL
    <3>1. current' = s /\ pc' = bs[s].pc  BY <1>10, <2>3 DEF Leave, Joined, Top
    <3> HIDE DEF listed
    <3>2. CurrentOK(current', pc', cfgStack', blocks', code')
      BY <1>3, <2>1, <2>3, <3>1 DEF CurrentOK
    <3>3. TopOK(current', pc', cfgStack', order', broken')
      BY <1>3, <1>8, <2>1, <2>3, <3>1 DEF TopOK
    <3>4. pc' \in Nat  BY <2>3, <3>1, Bytecode
    <3> HIDE DEF f
    <3> QED BY <1>3, <1>4, <1>5, <1>9, <2>1, <3>1, <3>2, <3>3, <3>4 DEF BuildOK, Good
  <2> QED BY <2>2, <2>3
<1>11. CASE t.breaks # <<>>
  <2> DEFINE n == Join(bs, exits, t.exitpc)
  <2>1. /\ blocks' = n /\ order' = Append(listed, m)
        /\ current' = m /\ pc' = t.exitpc
    BY <1>11 DEF Leave, Joined, Top
  <2>2. exits \in Seq(Nat) /\ NoRepeats(exits) /\ \A x \in Range(exits) : IsOpen(bs, x) /\ Unheld(f, x)
    <3>1. CASE s = NULL  BY <1>6, <3>1
    <3>2. CASE s # NULL
      <4>1. exits = Append(t.breaks, s)  BY <3>2
      <4>2. /\ Append(t.breaks, s) \in Seq(Nat) /\ NoRepeats(Append(t.breaks, s))
            /\ \A x : x \in Range(Append(t.breaks, s)) <=> x \in Range(t.breaks) \/ x = s
        BY <1>6, <3>2, RangeOfAppend
      <4> QED BY <3>2, <4>1, <4>2
    <3> QED BY <3>1, <3>2
  <2> HIDE DEF exits, listed, f
  <2>3. /\ Frame(f, n, Append(listed, m), code)
        /\ m \in Nat /\ m # NULL /\ m \notin DOMAIN bs
        /\ IsOpen(n, m) /\ Unheld(f, m) /\ Unowned(f, m)
        /\ Last(Append(listed, m)) = m
    <3> HIDE DEF t
    <3>1. t.exitpc \in Nat  BY <1>6
    <3> QED BY ONLY <1>9, <2>2, <3>1, JoinKept
  <2> HIDE DEF n, m
  <2>4. CurrentOK(current', pc', cfgStack', blocks', code')
    BY <1>3, <2>1, <2>3 DEF CurrentOK
  <2>5. TopOK(current', pc', cfgStack', order', broken')
    <3>1. inverted => Last(f).entry \in DOMAIN bs
      <4>1. f # <<>> => Len(f) \in DOMAIN f /\ Last(f) = f[Len(f)]
        <5>1. DOMAIN f = 1..Len(f)  BY <1>1, SeqDomain
        <5>2. f # <<>> => Len(f) \in Nat \ {0} /\ Last(f) = f[Len(f)]  BY <1>1, FrontLast
        <5> QED BY <5>1, <5>2
      <4>2. inverted => LevelOK(Last(f), bs, X, code)  BY <1>7, <4>1 DEF Levels
      <4> QED BY <4>2 DEF LevelOK, FakeIfEndOK
    <3>2. inverted => t.exitpc = Last(f).stopAt  BY DEF f
    <3> QED BY <1>3, <2>1, <2>3, <3>1, <3>2 DEF TopOK
  <2>6. pc' \in Nat  BY <1>6, <2>1
  <2> QED BY <1>3, <1>4, <1>5, <2>1, <2>3, <2>4, <2>5, <2>6 DEF BuildOK, Good
<1> QED BY <1>10, <1>11

(* At the end of a part of a loop. *)
LEMMA LoopFound ==
  ASSUME BuildOK, NEW states, AtStop(states), states \subseteq LoopLevel
  PROVE  LET f == Front(cfgStack)
             t == Last(cfgStack)
         IN  /\ cfgStack # <<>> /\ t.state \in states
             /\ Frame(f, blocks, order, code) /\ f \in Seq(Level) /\ t \in Level
             /\ Unentered(f) = {} /\ \A k \in DOMAIN f : f[k].state \notin ExprState
             /\ LoopOK(t, blocks, code)
             /\ Held(t) = ({t.successor} \ {NULL}) \cup Range(t.breaks) \cup Range(t.continues)
             /\ Unowned(f, t.entry)
             /\ loops # <<>> /\ Last(loops).continuepc \in Nat
             /\ t.breaks \in Seq(Nat) /\ t.continues \in Seq(Nat) /\ t.successor \in Nat
             /\ t.entry \in Nat /\ t.exitpc \in Nat /\ t.updatepc \in Nat /\ t.bodyStart \in Nat
             /\ t.entry # NULL
             /\ f # <<>> /\ Last(f).state = "FAKE_IF_END" =>
                  /\ t.state \in {"WHILE_OR_FOR_INVERTED", "DO_WHILE_LOOP_COND"}
                  /\ t.exitpc = Last(f).stopAt
                  /\ Last(f).entry \in DOMAIN blocks
<1> DEFINE f == Front(cfgStack)
           t == Last(cfgStack)
<1>1. cfgStack # <<>> /\ t.state \in states /\ t.state \in LoopLevel  BY StopFound
<1>2. t.state \notin {"FAKE_IF", "AND_OR"}  BY <1>1 DEF LoopLevel, LoopState
<1>3. /\ Frame(f, blocks, order, code) /\ LevelOK(t, blocks, Unentered(f), code)
  BY <1>1, <1>2, Found, FramePopped
<1>4. Unentered(f) = {} /\ \A k \in DOMAIN f : f[k].state \notin ExprState
  BY <1>1, <1>2, Found, UnenteredPopped
<1>5. t \in Level /\ f \in Seq(Level) /\ (f # <<>> => RightAround(Last(f), t))
  BY <1>1, Found, Popped
<1>6. Unowned(f, t.entry)
  <2>1. t.entry \in Owned(t)  BY <1>1 DEF Owned, LoopLevel, LoopState
  <2> QED BY <1>1, <2>1, Found, UnheldPopped
<1>7. loops # <<>> /\ Last(loops).continuepc \in Nat
  <2>1. loops # <<>>  BY <1>1, Found, LoopsPopped
  <2>2. loops \in Seq([cfgEntry : Nat, continuepc : Nat])  BY Found DEF LoopsOK
  <2>3. Last(loops) \in [cfgEntry : Nat, continuepc : Nat]  BY <2>1, <2>2, FrontLast
  <2> QED BY <2>1, <2>3
<1> HIDE DEF t
<1>8. LoopOK(t, blocks, code)  BY <1>1, <1>3 DEF LevelOK
<1>9. Held(t) = ({t.successor} \ {NULL}) \cup Range(t.breaks) \cup Range(t.continues)
  BY <1>1 DEF Held, LoopLevel, LoopState
<1>10. /\ t.breaks \in Seq(Nat) /\ t.continues \in Seq(Nat) /\ t.successor \in Nat
       /\ t.entry \in Nat /\ t.exitpc \in Nat /\ t.updatepc \in Nat /\ t.bodyStart \in Nat
  BY <1>5 DEF Level
<1>11. t.entry # NULL
  <2>1. t.entry \in DOMAIN blocks  BY <1>8 DEF LoopOK
  <2> QED BY <2>1, Found DEF NULL
<1> HIDE DEF f
<1>12. f # <<>> /\ Last(f).state = "FAKE_IF_END" => Last(f).entry \in DOMAIN blocks
  <2>1. DOMAIN f = 1..Len(f)  BY <1>5, SeqDomain
  <2>2. f # <<>> => Len(f) \in Nat \ {0} /\ Last(f) = f[Len(f)]  BY <1>5, FrontLast
  <2>3. f # <<>> => LevelOK(Last(f), blocks, Unentered(f), code)
    BY <1>3, <2>1, <2>2 DEF Frame, Levels
  <2> QED BY <2>3 DEF LevelOK, FakeIfEndOK
<1> QED BY <1>1, <1>3, <1>4, <1>5, <1>6, <1>7, <1>8, <1>9, <1>10, <1>11, <1>12 DEF RightAround, f, t

(* The blocks of a loop that are left when its continues have been joined. *)
LoopBlocksOK(t, bs, c) ==
  /\ t.entry \in DOMAIN bs /\ Len(bs[t.entry].pred) = 1
  /\ \A b \in Range(t.breaks) : IsOpen(bs, b)
  /\ t.successor # NULL => IsOpen(bs, t.successor) /\ bs[t.successor].pc \in DOMAIN c

(* A block that control has reached in a loop. *)
Reached(b, bs, st) ==
  /\ b \in Nat
  /\ b # NULL => /\ IsOpen(bs, b) /\ Unheld(Front(st), b)
                 /\ b \notin Range(Last(st).breaks) /\ b # Last(st).successor

LEMMA LoopBlocksKept ==
  ASSUME NEW t, NEW bs, NEW c, LoopBlocksOK(t, bs, c), NEW n, NEW C, NEW T, Grows(bs, n, C, T),
         \A b \in C : b \notin Range(t.breaks) /\ b # t.successor, t.entry \notin T
  PROVE  LoopBlocksOK(t, n, c)
<1>1. \A b \in Range(t.breaks) : IsOpen(n, b)  BY OpenKept DEF LoopBlocksOK
<1>2. t.successor # NULL => IsOpen(n, t.successor) /\ n[t.successor].pc \in DOMAIN c
  BY OpenKept DEF LoopBlocksOK
<1>3. t.entry \in DOMAIN n /\ n[t.entry].pred = bs[t.entry].pred
  BY DEF LoopBlocksOK, Grows
<1> QED BY <1>1, <1>2, <1>3 DEF LoopBlocksOK

LEMMA ContinuedGood ==
  ASSUME BuildOK, NEW states, AtStop(states), states \subseteq LoopLevel
  PROVE  /\ Frame(Front(cfgStack), Continued.blocks, Continued.order, code)
         /\ Reached(Continued.current, Continued.blocks, cfgStack)
         /\ LoopBlocksOK(Last(cfgStack), Continued.blocks, code)
<1> DEFINE f == Front(cfgStack)
           t == Last(cfgStack)
<1>1. /\ Frame(f, blocks, order, code)
      /\ LoopOK(t, blocks, code)
      /\ Held(t) = ({t.successor} \ {NULL}) \cup Range(t.breaks) \cup Range(t.continues)
      /\ loops # <<>> /\ Last(loops).continuepc \in Nat
      /\ t.breaks \in Seq(Nat) /\ t.continues \in Seq(Nat) /\ t.successor \in Nat
  BY LoopFound
<1>2. /\ current # NULL => /\ IsOpen(blocks, current)
                           /\ Unheld(f, current) /\ current \notin Held(t)
      /\ \A b \in Held(t) : IsOpen(blocks, b) /\ Unheld(f, b)
  BY StopFound
<1>3. current \in Nat  BY Found
<1>4. LoopBlocksOK(t, blocks, code)
  BY <1>1, <1>2 DEF LoopOK, LoopBlocksOK
<1>5. CASE t.continues = <<>>
  <2>1. Continued = [blocks |-> blocks, order |-> order, current |-> current]
    BY <1>5 DEF Continued, Top
  <2>2. Reached(current, blocks, cfgStack)
    <3>1. current # NULL => current \notin Range(t.breaks) /\ current # t.successor
      BY <1>1, <1>2
    <3> QED BY <1>2, <1>3, <3>1 DEF Reached
  <2> HIDE DEF f, t
  <2> QED BY <1>1, <1>4, <2>1, <2>2 DEF f, t
<1>6. CASE t.continues # <<>>
  <2> DEFINE h == Head(t.continues)
             p == Present(current)
             l == Tail(t.continues)
             a == <<h>> \o p
             ps == <<h>> \o p \o l
             x == Last(loops).continuepc
             m == Len(blocks) + 1
             n == Join(blocks, ps, x)
  <2>1. Continued = [blocks |-> n, order |-> Append(order, m), current |-> m]
    BY <1>6 DEF Continued, Top, New
  <2> HIDE DEF t, f
  <2>2. /\ h \in Nat /\ l \in Seq(Nat)
        /\ \A z : z \in Range(t.continues) <=> z = h \/ z \in Range(l)
        /\ NoRepeats(l) /\ h \notin Range(l)
    <3>1. NoRepeats(t.continues)  BY <1>1 DEF LoopOK
    <3> QED BY <1>1, <1>6, <3>1, HeadTail
  <2>3. p \in Seq(Nat) /\ NoRepeats(p) /\ Range(p) = {current} \ {NULL}
    BY <1>3, PresentBlocks
  <2> HIDE DEF h, l, p
  <2>4. h \in Held(t) /\ Range(l) \subseteq Held(t)  BY <1>1, <2>2
  <2>5. <<h>> \in Seq(Nat) /\ NoRepeats(<<h>>) /\ Range(<<h>>) = {h}  BY <2>2, RangeOfOne
  <2>6. Range(<<h>>) \cap Range(p) = {}  BY <1>2, <2>3, <2>4, <2>5
  <2>7. a \in Seq(Nat) /\ NoRepeats(a) /\ \A z : z \in Range(a) <=> z = h \/ z \in Range(p)
    BY <2>3, <2>5, <2>6, RangeOfConcat
  <2>8. ps = a \o l  OBVIOUS
  <2> HIDE DEF a
  <2>9. Range(a) \cap Range(l) = {}  BY <1>2, <2>2, <2>3, <2>4, <2>7
  <2>10. /\ ps \in Seq(Nat) /\ NoRepeats(ps)
         /\ \A z : z \in Range(ps) <=> z \in Range(a) \/ z \in Range(l)
    BY <2>2, <2>7, <2>8, <2>9, RangeOfConcat
  <2> HIDE DEF ps
  <2>11. \A z : z \in Range(ps) <=> z \in Range(t.continues) \/ z \in {current} \ {NULL}
    BY <2>2, <2>3, <2>7, <2>10
  <2>12. \A z \in Range(ps) : IsOpen(blocks, z) /\ Unheld(f, z)
    BY <1>1, <1>2, <2>11
  <2>13. x \in Nat  BY <1>1
  <2> HIDE DEF x
  <2>14. /\ Frame(f, n, Append(order, m), code)
         /\ Grows(blocks, n, Range(ps), {})
         /\ m \in Nat /\ m # NULL /\ m \notin DOMAIN blocks
         /\ IsOpen(n, m) /\ Unheld(f, m)
    BY ONLY <1>1, <2>10, <2>12, <2>13, JoinKept
  <2> HIDE DEF n, m
  <2>15. Reached(m, n, cfgStack)
    <3>1. m \notin Range(t.breaks)  BY <1>4, <2>14 DEF LoopBlocksOK, IsOpen
    <3>2. m # t.successor  BY <1>4, <2>14 DEF LoopBlocksOK, IsOpen
    <3> QED BY <2>14, <3>1, <3>2 DEF Reached, f, t
  <2>16. LoopBlocksOK(t, n, code)
    <3>1. \A b \in Range(ps) : b \notin Range(t.breaks) /\ b # t.successor
      <4>1. \A b \in Range(t.continues) : b \notin Range(t.breaks) /\ b # t.successor
        BY <1>1 DEF LoopOK
      <4>2. current # NULL => current \notin Range(t.breaks) /\ current # t.successor
        BY <1>1, <1>2
      <4> QED BY <2>11, <4>1, <4>2
    <3> QED BY <1>4, <2>14, <3>1, LoopBlocksKept
  <2> QED BY <2>1, <2>14, <2>15, <2>16 DEF f, t
<1> QED BY <1>5, <1>6

(* Nothing to join and nothing to go on with. *)
LEMMA ContinuedNull ==
  ASSUME BuildOK, Continued.current = NULL
  PROVE  Continued.blocks = blocks /\ Continued.order = order /\ current = NULL
<1>1. New # NULL  BY Found DEF New, NULL
<1> QED BY <1>1 DEF Continued

LEMMA BrokenGood ==
  ASSUME BuildOK, NEW states, AtStop(states), states \subseteq LoopLevel \ {"DO_WHILE_LOOP_COND"},
         processBrokenLoop
  PROVE  BuildOK'
<1> DEFINE f == Front(cfgStack)
           t == Last(cfgStack)
           s == t.successor
<1>1. /\ cfgStack # <<>> /\ t.state \in states
      /\ Frame(f, blocks, order, code)
      /\ LoopOK(t, blocks, code)
      /\ Held(t) = ({t.successor} \ {NULL}) \cup Range(t.breaks) \cup Range(t.continues)
      /\ s \in Nat
      /\ f # <<>> /\ Last(f).state = "FAKE_IF_END" =>
           /\ t.state \in {"WHILE_OR_FOR_INVERTED", "DO_WHILE_LOOP_COND"}
           /\ t.exitpc = Last(f).stopAt
  BY LoopFound
<1>2. /\ code' = code /\ \A b \in Held(t) : IsOpen(blocks, b) /\ Unheld(f, b)
  BY StopFound
<1>3. Leave(blocks, order, s) /\ broken' = (broken \/ t.state = "WHILE_OR_FOR_INVERTED")
  BY DEF processBrokenLoop, Top
<1>4. \A b \in Range(t.breaks) : IsOpen(blocks, b) /\ Unheld(f, b)  BY <1>1, <1>2
<1>5. s # NULL => /\ IsOpen(blocks, s) /\ Unheld(f, s) /\ blocks[s].pc \in DOMAIN code
                  /\ s \notin Range(t.breaks)
  <2>1. s # NULL => s \in Held(t)  BY <1>1
  <2> QED BY <1>1, <1>2, <2>1 DEF LoopOK
<1>6. NoRepeats(t.breaks) /\ t.exitpc \in DOMAIN code  BY <1>1 DEF LoopOK
<1>7. f # <<>> /\ Last(f).state = "FAKE_IF_END" =>
        t.state = "WHILE_OR_FOR_INVERTED" /\ s = NULL /\ t.exitpc = Last(f).stopAt
  BY <1>1 DEF LoopOK
<1>8. /\ Shape(cfgStack) /\ IsBytecode(code) /\ pc \in Nat /\ broken \in BOOLEAN
      /\ LoopsOK(cfgStack, loops, broken) /\ t.state \in LoopLevel
  BY <1>1, Found
<1> QED BY <1>1, <1>2, <1>3, <1>4, <1>5, <1>6, <1>7, <1>8, LeaveGood

LEMMA CloseGood ==
  ASSUME BuildOK, NEW states, AtStop(states),
         states \subseteq LoopLevel \ {"DO_WHILE_LOOP_COND", "WHILE_OR_FOR_INVERTED"},
         NEW bs, NEW o, NEW b, CloseLoop(bs, o, b),
         Frame(Front(cfgStack), bs, o, code), Reached(b, bs, cfgStack),
         LoopBlocksOK(Last(cfgStack), bs, code)
  PROVE  BuildOK'
<1> DEFINE f == Front(cfgStack)
           t == Last(cfgStack)
           s == t.successor
           e == t.entry
           n == [addPredecessor(End(bs, b, MGoto(e)), e, b) EXCEPT ![e].header = TRUE]
<1>1. CASE b = NULL
  <2>1. processBrokenLoop  BY <1>1 DEF CloseLoop
  <2> QED BY <2>1, BrokenGood
<1>2. CASE b # NULL
  <2>1. /\ cfgStack # <<>> /\ t.state \in states
        /\ Unentered(f) = {}
        /\ LoopOK(t, blocks, code)
        /\ Held(t) = ({t.successor} \ {NULL}) \cup Range(t.breaks) \cup Range(t.continues)
        /\ s \in Nat /\ Unowned(f, e)
        /\ f # <<>> /\ Last(f).state = "FAKE_IF_END" =>
             t.state \in {"WHILE_OR_FOR_INVERTED", "DO_WHILE_LOOP_COND"}
    BY LoopFound
  <2>2. /\ code' = code /\ \A z \in Held(t) : Unheld(f, z)
    BY StopFound
  <2>3. Leave(n, o, s) /\ broken' = broken
    BY <1>2 DEF CloseLoop, finishLoop, Top
  <2>4. /\ IsOpen(bs, b) /\ Unheld(f, b) /\ b \notin Range(t.breaks) /\ b # s
    BY <1>2 DEF Reached
  <2>5. /\ e \in DOMAIN bs /\ Len(bs[e].pred) = 1
        /\ \A z \in Range(t.breaks) : IsOpen(bs, z)
        /\ s # NULL => IsOpen(bs, s) /\ bs[s].pc \in DOMAIN code
    BY DEF LoopBlocksOK
  <2>6. GraphOK(bs, o, Unentered(f), code)  BY DEF Frame
  <2>7. GraphOK(n, o, Unentered(f), code) /\ Grows(bs, n, {b}, {e})
    <3> HIDE DEF e, f
    <3>1. e \notin Unentered(f)  BY <2>1
    <3> QED BY ONLY <2>4, <2>5, <2>6, <3>1, GBackGoto
  <2> HIDE DEF n
  <2>8. Frame(f, n, o, code)
    <3>1. \A z \in {b} : IsOpen(bs, z) /\ Unheld(f, z)  BY <2>4
    <3>2. \A z \in {e} : Unowned(f, z)  BY <2>1
    <3> HIDE DEF e, f
    <3>3. Frame(f, bs, o, code)  BY DEF f
    <3> QED BY <2>7, <3>1, <3>2, <3>3, FrameKept
  <2>9. \A z \in Range(t.breaks) : IsOpen(n, z) /\ Unheld(f, z)
    <3>1. \A z \in Range(t.breaks) : z \notin {b}  BY <2>4
    <3> QED BY <2>1, <2>2, <2>5, <2>7, <3>1, OpenKept
  <2>10. s # NULL => /\ IsOpen(n, s) /\ Unheld(f, s) /\ n[s].pc \in DOMAIN code
                     /\ s \notin Range(t.breaks)
    <3>1. s # NULL => s \in Held(t)  BY <2>1
    <3>2. s # NULL => IsOpen(n, s) /\ n[s].pc = bs[s].pc
      <4>1. s \notin {b}  BY <2>4
      <4> QED BY <2>5, <2>7, <4>1, OpenKept
    <3> QED BY <2>1, <2>2, <2>5, <3>1, <3>2 DEF LoopOK
  <2>11. NoRepeats(t.breaks) /\ t.exitpc \in DOMAIN code  BY <2>1 DEF LoopOK
  <2>12. ~(f # <<>> /\ Last(f).state = "FAKE_IF_END")  BY <2>1
  <2>13. /\ Shape(cfgStack) /\ IsBytecode(code) /\ pc \in Nat /\ broken \in BOOLEAN
         /\ LoopsOK(cfgStack, loops, broken) /\ t.state \in LoopLevel
         /\ t.state # "WHILE_OR_FOR_INVERTED"
    BY <2>1, Found
  <2>14. broken' = (broken \/ t.state = "WHILE_OR_FOR_INVERTED")  BY <2>3, <2>13
  <2> QED BY <2>1, <2>2, <2>3, <2>8, <2>9, <2>10, <2>11, <2>12, <2>13, <2>14, LeaveGood
<1> QED BY <1>1, <1>2

(* A loop goes on with another of its parts. *)
LEMMA Replaced ==
  ASSUME BuildOK, NEW states, AtStop(states), states \subseteq LoopLevel,
         NEW bs, NEW o, NEW s \in Level, NEW b \in Nat, NEW p \in DOMAIN code,
         Frame(Front(cfgStack), bs, o, code), s.state \in LoopLevel, LoopOK(s, bs, code),
         s.entry = Last(cfgStack).entry, s.exitpc = Last(cfgStack).exitpc,
         \A h \in Held(s) : IsOpen(bs, h) /\ Unheld(Front(cfgStack), h),
         b # NULL, IsOpen(bs, b), Unheld(Front(cfgStack), b), b \notin Held(s),
         s.state \in ExprState => IsExpression(code, p, s.stopAt),
         Last(cfgStack).state = "WHILE_OR_FOR_INVERTED" => s.state = "DO_WHILE_LOOP_COND",
         Last(cfgStack).state # "DO_WHILE_LOOP_COND",
         blocks' = bs, order' = o, Jumped(s, b, p), broken' = broken
  PROVE  BuildOK'
<1> DEFINE f == Front(cfgStack)
           t == Last(cfgStack)
<1>1. /\ cfgStack # <<>> /\ t.state \in states /\ t.state \in LoopLevel
      /\ f \in Seq(Level) /\ t \in Level
      /\ Unentered(f) = {} /\ \A k \in DOMAIN f : f[k].state \notin ExprState
      /\ Unowned(f, t.entry)
  BY LoopFound
<1>2. f # <<>> => RightAround(Last(f), t)  BY <1>1, Found, Popped
<1>3. code' = code  BY StopFound
<1>4. /\ current' = b /\ pc' = p /\ cfgStack' = Append(f, s) /\ loops' = loops
  BY DEF Jumped
<1>5. Owned(s) = {s.entry}  BY DEF Owned, LoopLevel, LoopState
<1>6. s.state \notin {"FAKE_IF", "FAKE_IF_END", "AND_OR", "IF_TRUE", "IF_ELSE_TRUE", "IF_ELSE_FALSE"}
  BY DEF LoopLevel, LoopState
<1>7. Frame(Append(f, s), bs, o, code)
  <2>1. LevelOK(s, bs, Unentered(f), code)  BY <1>6 DEF LevelOK
  <2>2. \A k \in DOMAIN f : Around(f[k], s)
    <3>1. \A h \in Owned(s) : Unowned(f, h)  BY <1>1, <1>5
    <3>2. \A h \in Held(s) : Unheld(f, h)  OBVIOUS
    <3> HIDE DEF f, t
    <3> QED BY <1>1, <1>6, <3>1, <3>2, AroundPlain
  <2>3. f # <<>> => RightAround(Last(f), s)  BY <1>2 DEF RightAround
  <2> HIDE DEF f
  <2> QED BY <1>6, <2>1, <2>2, <2>3, FramePushed DEF f
<1>8. CurrentOK(current', pc', cfgStack', blocks', code')
  <2>1. Unheld(Append(f, s), b)  BY <1>1, UnheldPushed
  <2> QED BY <1>3, <1>4, <2>1 DEF CurrentOK
<1>9. ExprOK(current', pc', cfgStack', code')
  <2> HIDE DEF f
  <2>1. \A k \in DOMAIN Append(f, s) :
          Append(f, s)[k] = s \/ (k \in DOMAIN f /\ Append(f, s)[k] = f[k])
    BY <1>1, Appended
  <2>2. \A k \in DOMAIN Append(f, s) : Append(f, s)[k].state \in ExprState => Append(f, s)[k] = s
    BY <1>1, <2>1
  <2> QED BY <1>3, <1>4, <2>2 DEF ExprOK
<1>10. TopOK(current', pc', cfgStack', order', broken')
  <2>1. Last(cfgStack') = s  BY <1>1, <1>4, BeforeAppended
  <2> QED BY <1>6, <2>1 DEF TopOK
<1>11. LoopsOK(cfgStack', loops', broken')
  <2>1. Loops(cfgStack) = Loops(f) \cup {Len(f) + 1}  BY <1>1, Found, LoopsOfPopped
  <2>2. Loops(Append(f, s)) = Loops(f) \cup {Len(f) + 1}  BY <1>1, LoopsSplit
  <2> QED BY <1>4, <2>1, <2>2, Found, LoopsSame
<1>12. pc' \in Nat  BY <1>4, Found, Bytecode
<1> QED BY <1>3, <1>4, <1>7, <1>8, <1>9, <1>10, <1>11, <1>12, Found DEF BuildOK, Good

LEMMA StepWhileBodyEnd ==
  ASSUME BuildOK, processWhileBodyEnd
  PROVE  BuildOK'
<1>1. AtStop({"WHILE_LOOP_BODY"})  BY DEF processWhileBodyEnd
<1>2. CloseLoop(Continued.blocks, Continued.order, Continued.current)
  BY DEF processWhileBodyEnd
<1>3. {"WHILE_LOOP_BODY"} \subseteq LoopLevel \ {"DO_WHILE_LOOP_COND", "WHILE_OR_FOR_INVERTED"}
  BY DEF LoopLevel, LoopState
<1>4. {"WHILE_LOOP_BODY"} \subseteq LoopLevel  BY <1>3
<1>5. /\ Frame(Front(cfgStack), Continued.blocks, Continued.order, code)
      /\ Reached(Continued.current, Continued.blocks, cfgStack)
      /\ LoopBlocksOK(Last(cfgStack), Continued.blocks, code)
  BY <1>1, <1>4, ContinuedGood
<1> QED BY <1>1, <1>2, <1>3, <1>5, CloseGood

LEMMA StepForUpdateEnd ==
  ASSUME BuildOK, processForUpdateEnd
  PROVE  BuildOK'
<1>1. AtStop({"FOR_LOOP_UPDATE"})  BY DEF processForUpdateEnd
<1>2. CloseLoop(blocks, order, current)  BY DEF processForUpdateEnd
<1>3. {"FOR_LOOP_UPDATE"} \subseteq LoopLevel \ {"DO_WHILE_LOOP_COND", "WHILE_OR_FOR_INVERTED"}
  BY DEF LoopLevel, LoopState
<1>4. {"FOR_LOOP_UPDATE"} \subseteq LoopLevel  BY <1>3
<1> DEFINE f == Front(cfgStack)
           t == Last(cfgStack)
<1>5. /\ Frame(f, blocks, order, code) /\ LoopOK(t, blocks, code)
      /\ Held(t) = ({t.successor} \ {NULL}) \cup Range(t.breaks) \cup Range(t.continues)
  BY <1>1, <1>4, LoopFound
<1>6. /\ current # NULL => /\ IsOpen(blocks, current)
                           /\ Unheld(f, current) /\ current \notin Held(t)
      /\ \A b \in Held(t) : IsOpen(blocks, b) /\ Unheld(f, b)
  BY <1>1, StopFound
<1>7. LoopBlocksOK(t, blocks, code)  BY <1>5, <1>6 DEF LoopOK, LoopBlocksOK
<1>8. Reached(current, blocks, cfgStack)
  <2>1. current # NULL => current \notin Range(t.breaks) /\ current # t.successor
    BY <1>5, <1>6
  <2> QED BY <1>6, <2>1, Found DEF Reached
<1> QED BY <1>1, <1>2, <1>3, <1>5, <1>7, <1>8, CloseGood

LEMMA StepForBodyEnd ==
  ASSUME BuildOK, processForBodyEnd
  PROVE  BuildOK'
<1> DEFINE f == Front(cfgStack)
           t == Last(cfgStack)
           bs == Continued.blocks
           o == Continued.order
           b == Continued.current
           s == [t EXCEPT !.state = "FOR_LOOP_UPDATE", !.stopAt = t.updateEnd, !.continues = <<>>]
<1>1. AtStop({"FOR_LOOP_BODY"})  BY DEF processForBodyEnd
<1>2. {"FOR_LOOP_BODY"} \subseteq LoopLevel \ {"DO_WHILE_LOOP_COND", "WHILE_OR_FOR_INVERTED"}
  BY DEF LoopLevel, LoopState
<1>3. {"FOR_LOOP_BODY"} \subseteq LoopLevel  BY <1>2
<1>4. /\ Frame(f, bs, o, code) /\ Reached(b, bs, cfgStack) /\ LoopBlocksOK(t, bs, code)
  BY <1>1, <1>3, ContinuedGood
<1>5. CASE t.updatepc = NULL \/ b = NULL
  <2>1. CloseLoop(bs, o, b)  BY <1>5 DEF processForBodyEnd, Top
  <2> QED BY <1>1, <1>2, <1>4, <2>1, CloseGood
<1>6. CASE ~(t.updatepc = NULL \/ b = NULL)
  <2>1. /\ blocks' = bs /\ order' = o /\ Jumped(s, b, t.updatepc) /\ broken' = broken
    BY <1>6 DEF processForBodyEnd, Top
  <2>2. /\ t.state = "FOR_LOOP_BODY" /\ t \in Level
        /\ LoopOK(t, blocks, code)
        /\ Held(t) = ({t.successor} \ {NULL}) \cup Range(t.breaks) \cup Range(t.continues)
    BY <1>1, <1>3, LoopFound
  <2>3. \A h \in Held(t) : Unheld(f, h)  BY <1>1, StopFound
  <2> HIDE DEF bs, o, b, f
  <2>4. /\ s \in Level /\ s.state = "FOR_LOOP_UPDATE" /\ s.stopAt = t.updateEnd
        /\ s.entry = t.entry /\ s.exitpc = t.exitpc /\ s.updateEnd = t.updateEnd
        /\ s.bodyStart = t.bodyStart /\ s.breaks = t.breaks /\ s.continues = <<>>
        /\ s.successor = t.successor
    <3> HIDE DEF t
    <3> DEFINE v == "FOR_LOOP_UPDATE"
               x == t.updateEnd
               y == <<>>
    <3>1. v \in State /\ x \in Nat /\ y \in Seq(Nat)  BY <2>2 DEF State, LoopState, Level
    <3>2. s = [t EXCEPT !.state = v, !.stopAt = x, !.continues = y]  OBVIOUS
    <3> HIDE DEF s, v, x, y
    <3>3. /\ s \in Level /\ s.state = v /\ s.stopAt = x
          /\ s.entry = t.entry /\ s.exitpc = t.exitpc /\ s.updateEnd = t.updateEnd
          /\ s.bodyStart = t.bodyStart /\ s.breaks = t.breaks /\ s.continues = y
          /\ s.successor = t.successor
      BY <2>2, <3>1, <3>2 DEF Level
    <3> QED BY <3>3 DEF v, x, y
  <2> HIDE DEF s
  <2>5. s.state \in LoopLevel  BY <2>4 DEF LoopLevel, LoopState
  <2>6. Held(s) = ({t.successor} \ {NULL}) \cup Range(t.breaks)
    BY <2>4, RangeOfNone DEF Held
  <2>7. t.updatepc \in DOMAIN code /\ IsExpression(code, t.updatepc, t.updateEnd)
    BY <1>6, <2>2 DEF LoopOK
  <2>8. LoopOK(s, bs, code)
    <3>1. /\ Range(<<>>) = {} /\ NoRepeats(<<>>)  BY RangeOfNone
    <3>2. /\ t.exitpc \in DOMAIN code /\ t.bodyStart \in DOMAIN code /\ NoRepeats(t.breaks)
          /\ t.successor \notin Range(t.breaks)
      BY <2>2 DEF LoopOK
    <3>3. /\ t.entry \in DOMAIN bs /\ Len(bs[t.entry].pred) = 1
          /\ t.successor # NULL => bs[t.successor].pc \in DOMAIN code
      BY <1>4 DEF LoopBlocksOK
    <3> QED BY <2>4, <3>1, <3>2, <3>3 DEF LoopOK
  <2>9. \A h \in Held(s) : IsOpen(bs, h) /\ Unheld(f, h)
    BY <1>4, <2>2, <2>3, <2>6 DEF LoopBlocksOK
  <2>10. b \in Nat /\ b # NULL /\ IsOpen(bs, b) /\ Unheld(f, b) /\ b \notin Held(s)
    BY <1>4, <1>6, <2>6 DEF Reached, f
  <2>11. t.state \notin {"WHILE_OR_FOR_INVERTED", "DO_WHILE_LOOP_COND"}  BY <2>2
  <2> QED BY <1>1, <1>3, <1>4, <2>1, <2>4, <2>5, <2>7, <2>8, <2>9, <2>10, <2>11, Replaced DEF f
<1> QED BY <1>5, <1>6

LEMMA StepDoWhileBodyEnd ==
  ASSUME BuildOK, processDoWhileBodyEnd
  PROVE  BuildOK'
<1> DEFINE f == Front(cfgStack)
           t == Last(cfgStack)
           bs == Continued.blocks
           o == Continued.order
           b == Continued.current
           h == Len(bs) + 1
           n == Join(bs, <<b>>, t.updatepc)
           states == {"DO_WHILE_LOOP_BODY", "WHILE_OR_FOR_INVERTED"}
           s == [t EXCEPT !.state = "DO_WHILE_LOOP_COND", !.stopAt = t.updateEnd,
                          !.continues = <<>>]
<1>1. AtStop(states)  BY DEF processDoWhileBodyEnd
<1>2. states \subseteq LoopLevel \ {"DO_WHILE_LOOP_COND"}  BY DEF LoopLevel, LoopState
<1>3. states \subseteq LoopLevel  BY <1>2
<1>4. /\ Frame(f, bs, o, code) /\ Reached(b, bs, cfgStack) /\ LoopBlocksOK(t, bs, code)
  BY <1>1, <1>3, ContinuedGood
<1>5. CASE b = NULL
  <2>1. processBrokenLoop  BY <1>5 DEF processDoWhileBodyEnd
  <2> QED BY <1>1, <1>2, <2>1, BrokenGood
<1>6. CASE b # NULL
  <2>1. /\ blocks' = n /\ order' = Append(o, h) /\ Jumped(s, h, t.updatepc) /\ broken' = broken
    BY <1>6 DEF processDoWhileBodyEnd, Top
  <2>2. /\ t.state \in states /\ t \in Level
        /\ LoopOK(t, blocks, code)
        /\ Held(t) = ({t.successor} \ {NULL}) \cup Range(t.breaks) \cup Range(t.continues)
        /\ t.updatepc \in Nat
    BY <1>1, <1>3, LoopFound
  <2>3. \A x \in Held(t) : Unheld(f, x)  BY <1>1, StopFound
  <2>4. b \in Nat /\ IsOpen(bs, b) /\ Unheld(f, b) /\ b \notin Range(t.breaks) /\ b # t.successor
    BY <1>4, <1>6 DEF Reached
  <2> HIDE DEF bs, o, b, f
  <2>5. /\ s \in Level /\ s.state = "DO_WHILE_LOOP_COND" /\ s.stopAt = t.updateEnd
        /\ s.entry = t.entry /\ s.exitpc = t.exitpc /\ s.updateEnd = t.updateEnd
        /\ s.bodyStart = t.bodyStart /\ s.breaks = t.breaks /\ s.continues = <<>>
        /\ s.successor = t.successor
    <3> HIDE DEF t
    <3> DEFINE v == "DO_WHILE_LOOP_COND"
               x == t.updateEnd
               y == <<>>
    <3>1. v \in State /\ x \in Nat /\ y \in Seq(Nat)  BY <2>2 DEF State, LoopState, Level
    <3>2. s = [t EXCEPT !.state = v, !.stopAt = x, !.continues = y]  OBVIOUS
    <3> HIDE DEF s, v, x, y
    <3>3. /\ s \in Level /\ s.state = v /\ s.stopAt = x
          /\ s.entry = t.entry /\ s.exitpc = t.exitpc /\ s.updateEnd = t.updateEnd
          /\ s.bodyStart = t.bodyStart /\ s.breaks = t.breaks /\ s.continues = y
          /\ s.successor = t.successor
      BY <2>2, <3>1, <3>2 DEF Level
    <3> QED BY <3>3 DEF v, x, y
  <2> HIDE DEF s
  <2>6. /\ Frame(f, n, Append(o, h), code) /\ Grows(bs, n, {b}, {})
        /\ h \in Nat /\ h # NULL /\ h \notin DOMAIN bs
        /\ IsOpen(n, h) /\ Unheld(f, h)
    <3> DEFINE ps == <<b>>
               x == t.updatepc
    <3>1. ps \in Seq(Nat) /\ NoRepeats(ps) /\ Range(ps) = {b}  BY <2>4, RangeOfOne
    <3>2. n = Join(bs, ps, x) /\ x \in Nat  BY <2>2
    <3> HIDE DEF ps, x, n
    <3>3. \A y \in Range(ps) : IsOpen(bs, y) /\ Unheld(f, y)  BY <2>4, <3>1
    <3>4. /\ Frame(f, Join(bs, ps, x), Append(o, h), code) /\ Grows(bs, Join(bs, ps, x), Range(ps), {})
          /\ h \in Nat /\ h # NULL /\ h \notin DOMAIN bs
          /\ IsOpen(Join(bs, ps, x), h) /\ Unheld(f, h)
      BY ONLY <1>4, <3>1, <3>2, <3>3, JoinKept
    <3> QED BY <3>1, <3>2, <3>4
  <2> HIDE DEF n, h
  <2>7. s.state \in LoopLevel  BY <2>5 DEF LoopLevel, LoopState
  <2>8. Held(s) = ({t.successor} \ {NULL}) \cup Range(t.breaks)
    BY <2>5, RangeOfNone DEF Held
  <2>9. t.updatepc \in DOMAIN code /\ IsExpression(code, t.updatepc, t.updateEnd)
    BY <2>2 DEF LoopOK
  <2>10. LoopBlocksOK(t, n, code)
    <3>1. \A x \in {b} : x \notin Range(t.breaks) /\ x # t.successor  BY <2>4
    <3> HIDE DEF t
    <3>2. LoopBlocksOK(t, bs, code)  BY <1>4
    <3> QED BY <2>6, <3>1, <3>2, LoopBlocksKept
  <2>11. LoopOK(s, n, code)
    <3>1. /\ Range(<<>>) = {} /\ NoRepeats(<<>>)  BY RangeOfNone
    <3>2. /\ t.exitpc \in DOMAIN code /\ t.bodyStart \in DOMAIN code /\ NoRepeats(t.breaks)
          /\ t.successor \notin Range(t.breaks) /\ t.exitpc = t.updateEnd + 1
      BY <2>2 DEF LoopOK
    <3>3. /\ t.entry \in DOMAIN n /\ Len(n[t.entry].pred) = 1
          /\ t.successor # NULL => n[t.successor].pc \in DOMAIN code
      BY <2>10 DEF LoopBlocksOK
    <3> QED BY <2>5, <3>1, <3>2, <3>3 DEF LoopOK
  <2>12. \A x \in Held(s) : IsOpen(n, x) /\ Unheld(f, x)
    BY <2>2, <2>3, <2>8, <2>10 DEF LoopBlocksOK
  <2>13. h \notin Held(s)
    BY <1>4, <2>6, <2>8 DEF LoopBlocksOK, IsOpen
  <2>14. t.state # "DO_WHILE_LOOP_COND"  BY <2>2
  <2> QED BY <1>1, <1>3, <2>1, <2>5, <2>6, <2>7, <2>9, <2>11, <2>12, <2>13, <2>14, Replaced DEF f
<1> QED BY <1>5, <1>6

LEMMA StepWhileCondEnd ==
  ASSUME BuildOK, processWhileCondEnd
  PROVE  BuildOK'
<1> DEFINE f == Front(cfgStack)
           t == Last(cfgStack)
           m == Len(blocks) + 1
           n == Branch(blocks, current, pc, t.bodyStart, t.exitpc)
           o == order \o <<m, m + 1>>
           states == {"WHILE_LOOP_COND", "FOR_LOOP_COND"}
           v == IF t.state = "FOR_LOOP_COND" THEN "FOR_LOOP_BODY" ELSE "WHILE_LOOP_BODY"
           w == New + 1
           s == [t EXCEPT !.state = v, !.stopAt = t.bodyEnd, !.successor = w]
<1>1. AtStop(states)  BY DEF processWhileCondEnd
<1>2. states \subseteq LoopLevel  BY DEF LoopLevel, LoopState
<1>3. /\ cfgStack # <<>> /\ t.state \in states
      /\ Frame(f, blocks, order, code) /\ t \in Level
      /\ Unentered(f) = {}
      /\ LoopOK(t, blocks, code)
      /\ Held(t) = ({t.successor} \ {NULL}) \cup Range(t.breaks) \cup Range(t.continues)
      /\ t.exitpc \in Nat /\ t.bodyStart \in Nat
  BY <1>1, <1>2, LoopFound
<1>4. current # NULL
  BY <1>1, <1>3, StopFound DEF ExprState
<1>5. /\ IsOpen(blocks, current) /\ Unheld(f, current) /\ current \notin Held(t)
      /\ \A x \in Held(t) : IsOpen(blocks, x) /\ Unheld(f, x)
  BY <1>1, <1>4, StopFound
<1>6. /\ Len(blocks) \in Nat /\ DOMAIN blocks = 1..Len(blocks) /\ pc \in Nat
      /\ w = m + 1 /\ New = m /\ m \in Nat /\ m # NULL
      /\ m \notin DOMAIN blocks /\ m + 1 \notin DOMAIN blocks /\ m + 1 # NULL
      /\ m # m + 1 /\ m \in 1..(m + 1) /\ m + 1 \in 1..(m + 1) /\ m + 1 = Len(blocks) + 2
      /\ m + 1 \in Nat
  BY Found DEF New, NULL
<1>7. /\ blocks' = n /\ order' = o /\ Jumped(s, m, t.bodyStart) /\ broken' = broken
  BY <1>6 DEF processWhileCondEnd, Top, Branch
<1> HIDE DEF w, v
<1>8. /\ s \in Level /\ s.state = v /\ s.successor = w
      /\ s.entry = t.entry /\ s.exitpc = t.exitpc /\ s.updateEnd = t.updateEnd
      /\ s.bodyStart = t.bodyStart /\ s.breaks = t.breaks /\ s.continues = t.continues
      /\ s.updatepc = t.updatepc
  <2> HIDE DEF t
  <2> DEFINE x == t.bodyEnd
  <2>1. v \in State /\ x \in Nat /\ w \in Nat  BY <1>3, <1>6 DEF State, LoopState, Level, v
  <2>2. s = [t EXCEPT !.state = v, !.stopAt = x, !.successor = w]  OBVIOUS
  <2> HIDE DEF s, x
  <2> QED BY <1>3, <2>1, <2>2 DEF Level
<1> HIDE DEF s
<1>9. /\ GraphOK(n, o, Unentered(f), code) /\ Grows(blocks, n, {current}, {}) /\ Len(n) = m + 1
      /\ n[m].end = NoEnd /\ n[m + 1].end = NoEnd /\ n[m + 1].pc = t.exitpc
  <2> DEFINE x == t.bodyStart
             y == t.exitpc
             X == Unentered(f)
  <2>1. GraphOK(blocks, order, X, code)  BY <1>3 DEF Frame
  <2>2. x \in Nat /\ y \in Nat /\ n = Branch(blocks, current, pc, x, y)  BY <1>3
  <2>3. X \subseteq DOMAIN blocks  BY <1>3
  <2> DEFINE k == Branch(blocks, current, pc, x, y)
  <2> HIDE DEF x, y, t, X
  <2>4. /\ GraphOK(k, o, X, code) /\ Grows(blocks, k, {current}, {}) /\ Len(k) = m + 1
        /\ k[m].end = NoEnd /\ k[m + 1].end = NoEnd /\ k[m + 1].pc = y
    <3>1. IsOpen(blocks, current) /\ pc \in Nat /\ x \in Nat /\ y \in Nat  BY <1>5, <1>6, <2>2
    <3> HIDE DEF n, f
    <3> QED BY ONLY <2>1, <2>3, <3>1, GBranch DEF o
  <2> HIDE DEF n, k
  <2>5. k = n  BY <2>2 DEF k
  <2> QED BY <2>4, <2>5 DEF y, X
<1> HIDE DEF n, o
<1>10. IsOpen(n, m) /\ IsOpen(n, m + 1)
  <2>1. n \in Seq(Block)  BY <1>9 DEF GraphOK, BlocksOK
  <2>2. DOMAIN n = 1..(m + 1)  BY <1>9, <2>1
  <2> QED BY <1>6, <1>9, <2>2 DEF IsOpen
<1> HIDE DEF m, f, t
<1>11. Frame(f, n, o, code)
  <2>1. \A z \in {current} : IsOpen(blocks, z) /\ Unheld(f, z)  BY <1>5
  <2>2. Frame(f, blocks, order, code)  BY <1>3
  <2>3. GraphOK(n, o, Unentered(f), code) /\ Grows(blocks, n, {current}, {})  BY <1>9
  <2> QED BY ONLY <2>1, <2>2, <2>3, FrameKept
<1>12. Unheld(f, m) /\ Unheld(f, m + 1)  BY <1>3, <1>6, FreshUnheld
<1>13. s.state \in {"WHILE_LOOP_BODY", "FOR_LOOP_BODY"}
       /\ (s.state = "FOR_LOOP_BODY" => t.state = "FOR_LOOP_COND")
  BY <1>8 DEF v
<1>14. s.state \in LoopLevel /\ s.state \notin ExprState
  BY <1>13 DEF LoopLevel, LoopState, ExprState
<1>15. Held(s) = {m + 1} \cup Range(t.breaks) \cup Range(t.continues)
  BY <1>6, <1>8, <1>13 DEF Held
<1>16. Range(t.breaks) \subseteq DOMAIN blocks /\ Range(t.continues) \subseteq DOMAIN blocks
  BY <1>3, <1>5 DEF IsOpen
<1>17. \A h \in Held(s) : IsOpen(n, h) /\ Unheld(f, h)
  <2> SUFFICES ASSUME NEW h \in Held(s) PROVE IsOpen(n, h) /\ Unheld(f, h)  OBVIOUS
  <2>1. CASE h = m + 1  BY <1>10, <1>12, <2>1
  <2>2. CASE h # m + 1
    <3>1. h \in Held(t)  BY <1>3, <1>15, <2>2
    <3>2. IsOpen(blocks, h) /\ Unheld(f, h) /\ h \notin {current}  BY <1>5, <3>1
    <3> QED BY <1>9, <3>2, OpenKept
  <2> QED BY <2>1, <2>2
<1>18. LoopOK(s, n, code)
  <2>1. t.entry \in DOMAIN n /\ Len(n[t.entry].pred) = 1
    BY <1>3, <1>9 DEF LoopOK, Grows
  <2>2. /\ t.exitpc \in DOMAIN code /\ t.bodyStart \in DOMAIN code
        /\ NoRepeats(t.breaks) /\ NoRepeats(t.continues)
        /\ Range(t.breaks) \cap Range(t.continues) = {}
    BY <1>3 DEF LoopOK
  <2>3. s.successor = m + 1 /\ m + 1 \notin Range(t.breaks) \cup Range(t.continues)
    BY <1>6, <1>8, <1>16
  <2>4. s.state = "FOR_LOOP_BODY" /\ s.updatepc # NULL =>
          s.updatepc \in DOMAIN code /\ IsExpression(code, s.updatepc, s.updateEnd)
    BY <1>3, <1>8, <1>13 DEF LoopOK
  <2> QED BY <1>8, <1>9, <1>13, <2>1, <2>2, <2>3, <2>4 DEF LoopOK
<1>19. m \notin Held(s)  BY <1>6, <1>15, <1>16
<1>20. t.state \notin {"WHILE_OR_FOR_INVERTED", "DO_WHILE_LOOP_COND"} /\ t.bodyStart \in DOMAIN code
  BY <1>3 DEF LoopOK
<1> QED BY <1>1, <1>2, <1>6, <1>7, <1>8, <1>10, <1>11, <1>12, <1>14, <1>17, <1>18, <1>19, <1>20,
           Replaced DEF f, t

LEMMA BackTestKept ==
  ASSUME NEW f, NEW bs, NEW o, NEW c, Frame(f, bs, o, c),
         NEW b, IsOpen(bs, b), Unheld(f, b),
         NEW t \in DOMAIN bs, t \notin Unentered(f), Unowned(f, t), Len(bs[t].pred) = 1,
         NEW p \in Nat
  PROVE  LET n == BackTest(bs, b, t, p)
             m == Len(bs) + 1
         IN  /\ Frame(f, n, Append(o, m), c)
             /\ GrowsBy(bs, n, b, t)
             /\ IsOpen(n, m) /\ n[m].pc = p + 1
<1> DEFINE X == Unentered(f)
           n == BackTest(bs, b, t, p)
           m == Len(bs) + 1
<1>1. GraphOK(bs, o, X, c)  BY DEF Frame
<1>2. X \subseteq DOMAIN bs  BY LevelBlocks DEF Frame
<1>3. t \notin X  OBVIOUS
<1> HIDE DEF X
<1>4. /\ GraphOK(n, Append(o, m), X, c) /\ GrowsBy(bs, n, b, t) /\ Len(n) = m
      /\ n[m].end = NoEnd /\ n[m].pc = p + 1
  BY <1>1, <1>2, <1>3, GBackTest
<1>5. IsOpen(n, m)
  <2>1. n \in Seq(Block)  BY <1>4 DEF GraphOK, BlocksOK
  <2>2. bs \in Seq(Block)  BY <1>1 DEF GraphOK, BlocksOK
  <2>3. Len(bs) \in Nat  BY <2>2
  <2> HIDE DEF n
  <2>4. DOMAIN n = 1..Len(n)  BY <2>1
  <2>5. m \in DOMAIN n  BY <2>3, <2>4, <1>4
  <2> QED BY <1>4, <2>5 DEF IsOpen
<1> HIDE DEF n, m
<1> DEFINE o2 == Append(o, m)
<1>6. Frame(f, n, o2, c)
  <2>1. \A z \in {b} : IsOpen(bs, z) /\ Unheld(f, z)  OBVIOUS
  <2>2. \A z \in {t} : Unowned(f, z)  OBVIOUS
  <2>3. GraphOK(n, o2, Unentered(f), c) /\ Grows(bs, n, {b}, {t})  BY <1>4 DEF X, GrowsBy
  <2> HIDE DEF o2
  <2> QED BY <2>1, <2>2, <2>3, FrameKept
<1> QED BY <1>4, <1>5, <1>6 DEF n, m

LEMMA StepDoWhileCondEnd ==
  ASSUME BuildOK, processDoWhileCondEnd
  PROVE  BuildOK'
<1> DEFINE f == Front(cfgStack)
           t == Last(cfgStack)
           e == t.entry
           m == Len(blocks) + 1
           n == BackTest(blocks, current, e, pc)
           states == {"DO_WHILE_LOOP_COND"}
<1>1. AtStop(states)  BY DEF processDoWhileCondEnd
<1>2. states \subseteq LoopLevel  BY DEF LoopLevel, LoopState
<1>3. /\ cfgStack # <<>> /\ t.state = "DO_WHILE_LOOP_COND"
      /\ Frame(f, blocks, order, code) /\ t \in Level
      /\ Unentered(f) = {} /\ Unowned(f, e)
      /\ LoopOK(t, blocks, code)
      /\ Held(t) = ({t.successor} \ {NULL}) \cup Range(t.breaks) \cup Range(t.continues)
      /\ f # <<>> /\ Last(f).state = "FAKE_IF_END" =>
           t.exitpc = Last(f).stopAt /\ Last(f).entry \in DOMAIN blocks
  BY <1>1, <1>2, LoopFound
<1>4. current # NULL
  BY <1>1, <1>3, StopFound DEF ExprState
<1>5. /\ IsOpen(blocks, current) /\ Unheld(f, current) /\ current \notin Held(t)
      /\ \A x \in Held(t) : IsOpen(blocks, x) /\ Unheld(f, x)
      /\ pc = t.stopAt /\ code' = code
  BY <1>1, <1>4, StopFound
<1>6. /\ Len(blocks) \in Nat /\ DOMAIN blocks = 1..Len(blocks) /\ pc \in Nat
      /\ New = m /\ m \in Nat /\ m # NULL /\ m \notin DOMAIN blocks /\ m \in 1..m
  BY Found DEF New, NULL
<1>7. Leave(n, Append(order, m), m) /\ broken' = broken
  BY <1>6 DEF processDoWhileCondEnd, finishLoop, Top, BackTest
<1>8. pc + 1 = t.exitpc /\ t.exitpc \in DOMAIN code /\ e \in DOMAIN blocks /\ Len(blocks[e].pred) = 1
      /\ NoRepeats(t.breaks)
  BY <1>3, <1>5 DEF LoopOK
<1>9. /\ Frame(f, n, Append(order, m), code) /\ GrowsBy(blocks, n, current, e)
      /\ IsOpen(n, m) /\ n[m].pc = pc + 1
  <2>1. Frame(f, blocks, order, code) /\ IsOpen(blocks, current) /\ Unheld(f, current)
    BY <1>3, <1>5
  <2>2. e \in DOMAIN blocks /\ Unowned(f, e) /\ e \notin Unentered(f) /\ Len(blocks[e].pred) = 1
    BY <1>3, <1>8
  <2>3. pc \in Nat  BY <1>6
  <2> HIDE DEF f, t, e
  <2> QED BY <2>1, <2>2, <2>3, BackTestKept
<1> HIDE DEF n
<1>10. IsOpen(n, m)  BY <1>9
<1> DEFINE o == Append(order, m)
<1> HIDE DEF m, o
<1>11. Frame(f, n, o, code)  BY <1>9 DEF o
<1>12. Unheld(f, m) /\ Unowned(f, m)  BY <1>3, <1>6, FreshUnheld
<1>13. \A z \in Range(t.breaks) : IsOpen(n, z) /\ Unheld(f, z) /\ z # m
  <2> SUFFICES ASSUME NEW z \in Range(t.breaks) PROVE IsOpen(n, z) /\ Unheld(f, z) /\ z # m
    OBVIOUS
  <2>1. IsOpen(blocks, z) /\ Unheld(f, z) /\ z \notin {current}  BY <1>3, <1>5
  <2> QED BY <1>6, <1>9, <2>1, OpenKept DEF IsOpen, GrowsBy
<1>14. f # <<>> /\ Last(f).state = "FAKE_IF_END" =>
         /\ t.exitpc = Last(f).stopAt
         /\ n[m].pc = Last(f).stopAt /\ m # Last(f).entry /\ Unowned(f, m)
  BY <1>3, <1>6, <1>8, <1>9, <1>12
<1>15. broken' = (broken \/ t.state = "WHILE_OR_FOR_INVERTED")  BY <1>3, <1>7, Found
<1>16. /\ Shape(cfgStack) /\ IsBytecode(code) /\ pc \in Nat /\ broken \in BOOLEAN
       /\ LoopsOK(cfgStack, loops, broken) /\ t.state \in LoopLevel
  BY <1>2, <1>3, Found
<1>17. /\ IsOpen(n, m) /\ Unheld(f, m) /\ n[m].pc \in DOMAIN code /\ m \notin Range(t.breaks)
  BY <1>8, <1>9, <1>10, <1>12, <1>13
<1> QED BY <1>3, <1>5, <1>6, <1>7, <1>8, <1>11, <1>13, <1>14, <1>15, <1>16, <1>17, LeaveGood DEF o

-----------------------------------------------------------------------------
(* The condition before an inverted loop. *)

(* The other structures when the header of an inverted loop gets its          *)
(* predecessor.                                                              *)
LEMMA FakeIfKept ==
  ASSUME NEW st, NEW bs, NEW o, NEW c, Frame(st, bs, o, c), st # <<>>,
         Last(st).state = "FAKE_IF", NEW b, IsOpen(bs, b), Unheld(st, b),
         NEW t, t = Last(st).entry
  PROVE  /\ Frame(Front(st), EnterLoop(bs, b, t), moveBlockToEnd(o, t), c)
         /\ IsOpen(EnterLoop(bs, b, t), t) /\ Unheld(Front(st), t)
         /\ Unentered(Front(st)) = {}
<1> DEFINE f == Front(st)
           X == Unentered(st)
           n == EnterLoop(bs, b, t)
           o2 == moveBlockToEnd(o, t)
<1>1. GraphOK(bs, o, X, c) /\ Shape(st) /\ Levels(st, bs, X, c)  BY DEF Frame
<1>2. /\ f \in Seq(Level) /\ Shape(f) /\ st[Len(f) + 1] = Last(st)
      /\ DOMAIN f = 1..Len(f) /\ Len(f) \in Nat /\ DOMAIN st = 1..(Len(f) + 1)
      /\ \A k \in DOMAIN f : f[k] = st[k] /\ f[k] \in Level
  BY <1>1, Popped
<1>3. Unentered(f) = {} /\ X = {t}  BY <1>1, UnenteredPopped
<1>4. Held(Last(st)) = {t}  BY DEF Held
<1>5. IsOpen(bs, t) /\ b # t
  BY <1>1, <1>2, <1>4, LevelBlocks DEF Unheld
<1>6. Unheld(f, t) /\ Unheld(f, b)  BY <1>1, <1>4, UnheldPopped
<1> HIDE DEF X
<1>7. t \in X /\ X \ {t} = {}  BY <1>3
<1> HIDE DEF f, n, o2
<1>8. /\ GraphOK(n, o2, X \ {t}, c)
      /\ DOMAIN n = DOMAIN bs
      /\ \A x \in DOMAIN bs :
           /\ n[x].pc = bs[x].pc
           /\ n[x].end = IF x = b THEN MGoto(t) ELSE bs[x].end
           /\ n[x].pred = IF x = t THEN <<b>> ELSE bs[x].pred
  BY <1>1, <1>5, <1>7, GFakeIf DEF n, o2
<1>9. GraphOK(n, o2, {}, c)  BY <1>7, <1>8
<1>10. ASSUME NEW k \in DOMAIN f PROVE LevelOK(f[k], n, {}, c)
  <2> DEFINE s == f[k]
  <2>1. k \in DOMAIN st /\ s = st[k] /\ s \in Level  BY <1>2
  <2>2. LevelOK(s, bs, X, c)  BY <1>1, <2>1 DEF Levels
  <2>3. \A h \in Held(s) : n[h].end = bs[h].end
    <3>1. b \notin Held(s)  BY <1>6 DEF Unheld
    <3> QED BY <1>8, <2>2, <3>1 DEF LevelOK, IsOpen
  <2>4. ASSUME s.state \in LoopLevel PROVE Len(n[s.entry].pred) = Len(bs[s.entry].pred)
    <3>1. s.entry \in DOMAIN bs /\ Len(bs[s.entry].pred) = 1  BY <2>2, <2>4 DEF LevelOK, LoopOK
    <3>2. Len(<<b>>) = 1  OBVIOUS
    <3>3. CASE s.entry = t
      <4>1. n[s.entry].pred = <<b>>  BY <1>8, <3>1, <3>3
      <4> QED BY <3>1, <3>2, <4>1
    <3>4. CASE s.entry # t
      <4>1. n[s.entry].pred = bs[s.entry].pred  BY <1>8, <3>1, <3>4
      <4> QED BY <4>1
    <3> QED BY <3>3, <3>4
  <2>5. ASSUME s.state = "FAKE_IF_END" PROVE FakeIfEndOK(s, n, {})
    <3>1. FakeIfEndOK(s, bs, X)  BY <2>2, <2>5 DEF LevelOK
    <3>2. b \in DOMAIN bs /\ bs[b].end = NoEnd  BY DEF IsOpen
    <3>3. CASE s.entry = t
      <4>1. n[t].pred = <<b>> /\ n[b].end = MGoto(t)  BY <1>5, <1>8, <3>2 DEF IsOpen
      <4>2. Head(<<b>>) = b /\ <<b>> # <<>>  OBVIOUS
      <4> QED BY <1>8, <3>1, <3>2, <3>3, <4>1, <4>2 DEF FakeIfEndOK
    <3>4. CASE s.entry # t
      <4> DEFINE h == Head(bs[s.entry].pred)
      <4>1. s.entry \notin X  BY <1>3, <3>4
      <4>2. /\ bs[s.entry].pred # <<>> /\ h \in DOMAIN bs /\ bs[h].end = MGoto(s.entry)
            /\ s.entry \in DOMAIN bs
        BY <3>1, <4>1 DEF FakeIfEndOK
      <4>3. h # b  BY <3>2, <4>2 DEF NoEnd, MGoto
      <4>4. n[h].end = MGoto(s.entry)  BY <1>8, <4>2, <4>3
      <4>5. n[s.entry].pred = bs[s.entry].pred  BY <1>8, <3>4, <4>2
      <4> QED BY <1>8, <3>1, <4>2, <4>4, <4>5 DEF FakeIfEndOK
    <3> QED BY <3>3, <3>4
  <2>6. DOMAIN bs \subseteq DOMAIN n /\ \A x \in DOMAIN bs : n[x].pc = bs[x].pc  BY <1>8
  <2> HIDE DEF s
  <2>7. LevelOK(s, n, {}, c)  BY <2>1, <2>2, <2>3, <2>4, <2>5, <2>6, LevelKept
  <2> QED BY <2>7 DEF s
<1>11. Frame(f, n, o2, c)  BY <1>2, <1>3, <1>9, <1>10 DEF Frame, Levels, f
<1>12. IsOpen(n, t)  BY <1>5, <1>8 DEF IsOpen
<1> QED BY <1>3, <1>6, <1>11, <1>12 DEF f, n, o2

LEMMA StepFakeIf ==
  ASSUME BuildOK, processFakeIf
  PROVE  BuildOK'
<1> DEFINE f == Front(cfgStack)
           e == Last(cfgStack).entry
           p == Last(cfgStack).bodyStart
           n == EnterLoop(blocks, current, e)
           o == moveBlockToEnd(order, e)
           states == {"FAKE_IF"}
<1>1. AtStop(states)  BY DEF processFakeIf
<1>2. cfgStack # <<>> /\ Last(cfgStack).state = "FAKE_IF" /\ code' = code /\ current # NULL
  BY <1>1, StopFound DEF ExprState
<1>3. IsOpen(blocks, current) /\ Unheld(f, current) /\ current \notin Held(Last(cfgStack))
  BY <1>1, <1>2, StopFound
<1>4. /\ Shape(cfgStack) /\ Frame(cfgStack, blocks, order, code) /\ IsBytecode(code)
      /\ broken \in BOOLEAN /\ LoopsOK(cfgStack, loops, broken)
      /\ Levels(cfgStack, blocks, Unentered(cfgStack), code)
  BY Found
<1>5. /\ f \in Seq(Level) /\ cfgStack[Len(f) + 1] = Last(cfgStack) /\ DOMAIN f = 1..Len(f)
      /\ Len(f) \in Nat /\ DOMAIN cfgStack = 1..(Len(f) + 1) /\ Last(cfgStack) \in Level
      /\ \A k \in DOMAIN f : f[k] = cfgStack[k]
  BY <1>2, <1>4, Popped
<1>6. /\ blocks' = n /\ order' = o /\ current' = e /\ pc' = p
      /\ cfgStack' = f /\ loops' = loops /\ broken' = broken
  BY <1>2 DEF processFakeIf, EnterLoop, Joined, popCfgStack, isLoop, LoopState, Top
<1>7. e \in Nat /\ p \in Nat  BY <1>5 DEF Level
<1>8. p \in DOMAIN code
  BY <1>2, <1>4, <1>5 DEF Levels, LevelOK
<1>9. Unheld(cfgStack, current)
  <2>1. \A k \in DOMAIN cfgStack : k \in DOMAIN f \/ k = Len(f) + 1  BY <1>5
  <2> QED BY <1>3, <1>5, <2>1 DEF Unheld
<1>10. f # <<>> => Last(f).state # "FAKE_IF_END"  BY <1>2, <1>4, NotLast
<1>11. \A k \in DOMAIN f : f[k].state \notin ExprState  BY <1>2, <1>4, UnenteredPopped
<1>12. LoopsOK(f, loops, broken)
  <2>1. Loops(cfgStack) = Loops(f)  BY <1>2, <1>4, LoopsOfPopped DEF LoopLevel, LoopState
  <2> HIDE DEF f
  <2> QED BY <1>4, <2>1, LoopsSame
<1>13. Frame(f, n, o, code) /\ IsOpen(n, e) /\ Unheld(f, e)
  <2>1. e = Last(cfgStack).entry  OBVIOUS
  <2> HIDE DEF e
  <2> QED BY <1>2, <1>3, <1>4, <1>9, <2>1, FakeIfKept
<1> HIDE DEF f, n, o, e, p
<1>14. CurrentOK(e, p, f, n, code)  BY <1>8, <1>13 DEF CurrentOK
<1>15. ExprOK(e, p, f, code)  BY <1>11 DEF ExprOK
<1>16. TopOK(e, p, f, o, broken)  BY <1>10 DEF TopOK
<1>17. Good(f, n, o, e, p, loops, broken, code)
  BY <1>4, <1>7, <1>12, <1>13, <1>14, <1>15, <1>16 DEF Good
<1> QED BY <1>2, <1>6, <1>17 DEF BuildOK

(* The other structures when the test of an inverted loop is made. *)
LEMMA FakeIfEndKept ==
  ASSUME NEW st, NEW bs, NEW o, NEW c, Frame(st, bs, o, c), st # <<>>,
         Last(st).state = "FAKE_IF_END", NEW b, IsOpen(bs, b), Unheld(st, b), Unowned(st, b),
         NEW t, t = Last(st).entry, b # t, Last(o) = b,
         NEW h, h = Head(bs[t].pred), NEW p \in Nat
  PROVE  /\ Frame(Front(st), TestLoop(bs, b, h, t, p), o, c)
         /\ IsOpen(TestLoop(bs, b, h, t, p), b)
<1> DEFINE f == Front(st)
           X == Unentered(st)
           n == TestLoop(bs, b, h, t, p)
<1>1. GraphOK(bs, o, X, c) /\ Shape(st) /\ Levels(st, bs, X, c)  BY DEF Frame
<1>2. /\ f \in Seq(Level) /\ Shape(f) /\ st[Len(f) + 1] = Last(st)
      /\ DOMAIN f = 1..Len(f) /\ Len(f) \in Nat /\ DOMAIN st = 1..(Len(f) + 1)
      /\ \A k \in DOMAIN f : f[k] = st[k] /\ f[k] \in Level
      /\ \A k \in DOMAIN f : Around(f[k], Last(st))
  BY <1>1, Popped
<1>3. Unentered(f) = {} /\ X = {}  BY <1>1, UnenteredPopped
<1>4. FakeIfEndOK(Last(st), bs, X)  BY <1>1, <1>2 DEF Levels, LevelOK
<1>5. /\ t \in DOMAIN bs /\ h \in DOMAIN bs /\ bs[h].end = MGoto(t)
  BY <1>3, <1>4 DEF FakeIfEndOK
<1>6. b # h /\ \A x : IsOpen(bs, x) => x # h
  BY <1>5 DEF IsOpen, NoEnd, MGoto
<1>7. b \notin X  BY <1>3
<1> HIDE DEF X, f, n
<1>8. GraphOK(n, o, X, c) /\ GrowsBy(bs, n, h, b)
  BY <1>1, <1>5, <1>7, GFakeIfEnd DEF n
<1>9. Grows(bs, n, {h}, {b})  BY <1>8 DEF GrowsBy
<1>10. ASSUME NEW k \in DOMAIN f PROVE LevelOK(f[k], n, {}, c)
  <2> DEFINE s == f[k]
  <2>1. k \in DOMAIN st /\ s = st[k] /\ s \in Level /\ Around(s, Last(st))  BY <1>2
  <2>2. LevelOK(s, bs, X, c)  BY <1>1, <2>1 DEF Levels
  <2>3. \A x \in Held(s) : n[x].end = bs[x].end
    BY <1>6, <1>9, <2>2 DEF LevelOK, IsOpen, Grows
  <2>4. ASSUME s.state \in LoopLevel PROVE Len(n[s.entry].pred) = Len(bs[s.entry].pred)
    <3>1. s.entry \in DOMAIN bs  BY <2>2, <2>4 DEF LevelOK, LoopOK
    <3>2. s.entry \in Owned(s)  BY <2>4 DEF Owned, LoopLevel, LoopState
    <3>3. s.entry # b  BY <2>1, <3>2 DEF Unowned
    <3> QED BY <1>9, <3>1, <3>3 DEF Grows
  <2>5. ASSUME s.state = "FAKE_IF_END" PROVE FakeIfEndOK(s, n, {})
    <3> DEFINE g == Head(bs[s.entry].pred)
    <3>1. /\ s.stopAt # 0 /\ s.entry \in DOMAIN bs /\ bs[s.entry].pred # <<>>
          /\ g \in DOMAIN bs /\ bs[g].end = MGoto(s.entry)
      BY <1>3, <2>2, <2>5 DEF LevelOK, FakeIfEndOK
    <3>2. s.entry # t  BY <2>1, <2>5 DEF Around
    <3>3. g # h
      <4>1. Range(MGoto(t).to) = {t} /\ Range(MGoto(s.entry).to) = {s.entry}
        <5> DEFINE x == s.entry
        <5> HIDE DEF x
        <5>1. Range(MGoto(t).to) = {t} /\ Range(MGoto(x).to) = {x}  BY EndTargets
        <5> QED BY <5>1 DEF x
      <4> QED BY <1>5, <3>1, <3>2, <4>1
    <3>4. n[g].end = MGoto(s.entry)  BY <1>9, <3>1, <3>3 DEF Grows
    <3>5. n[s.entry].pred # <<>> /\ Head(n[s.entry].pred) = g  BY <1>9, <3>1 DEF Grows
    <3>6. s.entry \in DOMAIN n /\ g \in DOMAIN n  BY <1>9, <3>1 DEF Grows
    <3> QED BY <3>1, <3>4, <3>5, <3>6 DEF FakeIfEndOK
  <2>6. DOMAIN bs \subseteq DOMAIN n /\ \A x \in DOMAIN bs : n[x].pc = bs[x].pc
    BY <1>9 DEF Grows
  <2> HIDE DEF s
  <2>7. LevelOK(s, n, {}, c)  BY <2>1, <2>2, <2>3, <2>4, <2>5, <2>6, LevelKept
  <2> QED BY <2>7 DEF s
<1>11. GraphOK(n, o, {}, c)  BY <1>3, <1>8
<1>12. Frame(f, n, o, c)  BY <1>2, <1>3, <1>10, <1>11 DEF Frame, Levels, f
<1>13. IsOpen(n, b)
  <2>1. b \notin {h}  BY <1>6
  <2> QED BY <1>9, <2>1, OpenKept
<1> QED BY <1>12, <1>13 DEF f, n

LEMMA StepFakeIfEnd ==
  ASSUME BuildOK, processFakeIfEnd
  PROVE  BuildOK'
<1> DEFINE f == Front(cfgStack)
           t == Last(cfgStack).entry
           h == Head(blocks[t].pred)
           p == Last(cfgStack).stopAt - 1
           n == TestLoop(blocks, current, h, t, p)
           states == {"FAKE_IF_END"}
<1>1. AtStop(states)  BY DEF processFakeIfEnd
<1>2. cfgStack # <<>> /\ Last(cfgStack).state = "FAKE_IF_END" /\ code' = code
  BY <1>1, StopFound
<1>3. CASE current = NULL
  <2>1. UNCHANGED <<pc, current, blocks, order, cfgStack, loops, broken>>
    BY <1>3 DEF processFakeIfEnd
  <2> QED BY <1>2, <2>1 DEF BuildOK
<1>4. CASE current # NULL
  <2>1. /\ Shape(cfgStack) /\ Frame(cfgStack, blocks, order, code) /\ IsBytecode(code)
        /\ broken \in BOOLEAN /\ LoopsOK(cfgStack, loops, broken) /\ pc \in Nat /\ current \in Nat
        /\ CurrentOK(current, pc, cfgStack, blocks, code)
        /\ TopOK(current, pc, cfgStack, order, broken)
        /\ Levels(cfgStack, blocks, Unentered(cfgStack), code)
    BY Found
  <2>2. IsOpen(blocks, current) /\ Unheld(cfgStack, current) /\ pc \in DOMAIN code
    BY <1>4, <2>1 DEF CurrentOK
  <2>3. Last(order) = current /\ current # t /\ Unowned(cfgStack, current)
    BY <1>2, <1>4, <2>1 DEF TopOK
  <2>4. /\ f \in Seq(Level) /\ cfgStack[Len(f) + 1] = Last(cfgStack)
        /\ Len(f) \in Nat /\ DOMAIN cfgStack = 1..(Len(f) + 1) /\ Last(cfgStack) \in Level
    BY <1>2, <2>1, Popped
  <2>5. p \in Nat
    <3>1. Last(cfgStack).stopAt # 0 /\ Last(cfgStack).stopAt \in Nat
      <4> DEFINE s == Last(cfgStack)
      <4>1. s \in Level /\ s.state = "FAKE_IF_END"  BY <1>2, <2>4
      <4>2. LevelOK(s, blocks, Unentered(cfgStack), code)  BY <2>1, <2>4 DEF Levels
      <4> HIDE DEF s
      <4>3. s.stopAt # 0  BY <4>1, <4>2 DEF LevelOK, FakeIfEndOK
      <4>4. s.stopAt \in Nat  BY <4>1 DEF Level
      <4> QED BY <4>3, <4>4 DEF s
    <3> QED BY <3>1
  <2>6. /\ blocks' = n /\ order' = order /\ current' = current /\ pc' = pc
        /\ cfgStack' = f /\ loops' = loops /\ broken' = broken
    BY <1>2, <1>4 DEF processFakeIfEnd, TestLoop, Joined, popCfgStack, isLoop, LoopState, Top
  <2>7. f # <<>> => Last(f).state # "FAKE_IF_END"  BY <1>2, <2>1, NotLast
  <2>8. \A k \in DOMAIN f : f[k].state \notin ExprState  BY <1>2, <2>1, UnenteredPopped
  <2>9. LoopsOK(f, loops, broken)
    <3>1. Loops(cfgStack) = Loops(f)  BY <1>2, <2>1, LoopsOfPopped DEF LoopLevel, LoopState
    <3> HIDE DEF f
    <3> QED BY <2>1, <3>1, LoopsSame
  <2>10. Unheld(f, current)  BY <1>2, <2>1, <2>2, UnheldPopped
  <2>11. Frame(f, n, order, code) /\ IsOpen(n, current)
    <3>1. t = Last(cfgStack).entry /\ h = Head(blocks[t].pred)  OBVIOUS
    <3> HIDE DEF t, h, p
    <3> QED BY <1>2, <2>1, <2>2, <2>3, <2>5, <3>1, FakeIfEndKept
  <2> HIDE DEF f, n, t, h, p
  <2>12. CurrentOK(current, pc, f, n, code)  BY <2>2, <2>10, <2>11 DEF CurrentOK
  <2>13. ExprOK(current, pc, f, code)  BY <2>8 DEF ExprOK
  <2>14. TopOK(current, pc, f, order, broken)  BY <2>7 DEF TopOK
  <2>15. Good(f, n, order, current, pc, loops, broken, code)
    BY <2>1, <2>9, <2>11, <2>12, <2>13, <2>14 DEF Good
  <2> QED BY <1>2, <2>6, <2>15 DEF BuildOK
<1> QED BY <1>3, <1>4

-----------------------------------------------------------------------------
(* Jumps out of a loop. *)

(* A loop that has one more block to join. *)
Deferred(s, t, b) ==
  /\ s \in Level
  /\ s.state = t.state /\ s.entry = t.entry /\ s.exitpc = t.exitpc /\ s.stopAt = t.stopAt
  /\ s.bodyStart = t.bodyStart /\ s.successor = t.successor
  /\ s.updatepc = t.updatepc /\ s.updateEnd = t.updateEnd
  /\ \/ s.breaks = <<b>> \o t.breaks /\ s.continues = t.continues
     \/ s.breaks = t.breaks /\ s.continues = <<b>> \o t.continues

LEMMA DeferBreak ==
  ASSUME NEW t \in Level, NEW b \in Nat
  PROVE  Deferred([t EXCEPT !.breaks = <<b>> \o @], t, b)
<1> DEFINE q == <<b>> \o t.breaks
           s == [t EXCEPT !.breaks = q]
<1>1. q \in Seq(Nat)
  <2>1. t.breaks \in Seq(Nat)  BY DEF Level
  <2> QED BY <2>1, RangeOfCons
<1>2. s = [t EXCEPT !.breaks = <<b>> \o @]  OBVIOUS
<1>3. s.breaks = q  BY DEF Level
<1> HIDE DEF q
<1>4. s \in Level /\ s.state = t.state /\ s.entry = t.entry /\ s.exitpc = t.exitpc
      /\ s.stopAt = t.stopAt /\ s.bodyStart = t.bodyStart /\ s.successor = t.successor
      /\ s.updatepc = t.updatepc /\ s.updateEnd = t.updateEnd /\ s.continues = t.continues
  BY <1>1 DEF Level
<1> HIDE DEF s
<1> QED BY <1>2, <1>3, <1>4 DEF Deferred, q

LEMMA DeferContinue ==
  ASSUME NEW t \in Level, NEW b \in Nat
  PROVE  Deferred([t EXCEPT !.continues = <<b>> \o @], t, b)
<1> DEFINE q == <<b>> \o t.continues
           s == [t EXCEPT !.continues = q]
<1>1. q \in Seq(Nat)
  <2>1. t.continues \in Seq(Nat)  BY DEF Level
  <2> QED BY <2>1, RangeOfCons
<1>2. s = [t EXCEPT !.continues = <<b>> \o @]  OBVIOUS
<1>3. s.continues = q  BY DEF Level
<1> HIDE DEF q
<1>4. s \in Level /\ s.state = t.state /\ s.entry = t.entry /\ s.exitpc = t.exitpc
      /\ s.stopAt = t.stopAt /\ s.bodyStart = t.bodyStart /\ s.successor = t.successor
      /\ s.updatepc = t.updatepc /\ s.updateEnd = t.updateEnd /\ s.breaks = t.breaks
  BY <1>1 DEF Level
<1> HIDE DEF s
<1> QED BY <1>2, <1>3, <1>4 DEF Deferred, q

LEMMA DeferredLoop ==
  ASSUME NEW t \in Level, NEW s, NEW b \in Nat, NEW bs, NEW X, NEW c, Deferred(s, t, b),
         t.state \in LoopLevel, LevelOK(t, bs, X, c), IsOpen(bs, b), b \notin Held(t), b # NULL
  PROVE  /\ Held(s) = Held(t) \cup {b} /\ Owned(s) = Owned(t)
         /\ LevelOK(s, bs, X, c)
<1>1. s.state = t.state /\ s.entry = t.entry /\ s.successor = t.successor  BY DEF Deferred
<1>2. /\ Held(t) = ({t.successor} \ {NULL}) \cup Range(t.breaks) \cup Range(t.continues)
      /\ Held(s) = ({t.successor} \ {NULL}) \cup Range(s.breaks) \cup Range(s.continues)
      /\ Owned(s) = {t.entry} /\ Owned(t) = {t.entry}
      /\ t.state \notin {"IF_TRUE", "AND_OR", "IF_ELSE_TRUE", "IF_ELSE_FALSE", "FAKE_IF", "FAKE_IF_END"}
  BY <1>1 DEF Held, Owned, LoopLevel, LoopState
<1>3. LoopOK(t, bs, c)  BY DEF LevelOK
<1>4. t.breaks \in Seq(Nat) /\ t.continues \in Seq(Nat)  BY DEF Level
<1>5. NoRepeats(t.breaks) /\ NoRepeats(t.continues) /\ Range(t.breaks) \cap Range(t.continues) = {}
      /\ t.successor \notin Range(t.breaks) \cup Range(t.continues)
  BY <1>3 DEF LoopOK
<1>6. b \notin Range(t.breaks) \cup Range(t.continues) /\ b # t.successor  BY <1>2
<1>7. /\ Range(s.breaks) \cup Range(s.continues) = Range(t.breaks) \cup Range(t.continues) \cup {b}
      /\ NoRepeats(s.breaks) /\ NoRepeats(s.continues) /\ Range(s.breaks) \cap Range(s.continues) = {}
  <2>1. CASE s.breaks = <<b>> \o t.breaks /\ s.continues = t.continues
    <3> DEFINE q == t.breaks
    <3> HIDE DEF q
    <3>1. q \in Seq(Nat) /\ NoRepeats(q) /\ b \notin Range(q)  BY <1>4, <1>5, <1>6 DEF q
    <3>2. (\A x : x \in Range(<<b>> \o q) <=> x \in Range(q) \/ x = b) /\ NoRepeats(<<b>> \o q)
      BY <3>1, RangeOfCons
    <3>3. s.breaks = <<b>> \o q  BY <2>1 DEF q
    <3>4. \A x : x \in Range(s.breaks) <=> x \in Range(t.breaks) \/ x = b
      BY <3>2, <3>3 DEF q
    <3> QED BY <1>5, <1>6, <2>1, <3>2, <3>3, <3>4
  <2>2. CASE s.breaks = t.breaks /\ s.continues = <<b>> \o t.continues
    <3> DEFINE q == t.continues
    <3> HIDE DEF q
    <3>1. q \in Seq(Nat) /\ NoRepeats(q) /\ b \notin Range(q)  BY <1>4, <1>5, <1>6 DEF q
    <3>2. (\A x : x \in Range(<<b>> \o q) <=> x \in Range(q) \/ x = b) /\ NoRepeats(<<b>> \o q)
      BY <3>1, RangeOfCons
    <3>3. s.continues = <<b>> \o q  BY <2>2 DEF q
    <3>4. \A x : x \in Range(s.continues) <=> x \in Range(t.continues) \/ x = b
      BY <3>2, <3>3 DEF q
    <3> QED BY <1>5, <1>6, <2>2, <3>2, <3>3, <3>4
  <2> QED BY <2>1, <2>2 DEF Deferred
<1>8. Held(s) = Held(t) \cup {b}  BY <1>2, <1>7
<1>9. s.successor \notin Range(s.breaks) \cup Range(s.continues)  BY <1>1, <1>5, <1>6, <1>7
<1>10. s.exitpc = t.exitpc /\ s.stopAt = t.stopAt /\ s.bodyStart = t.bodyStart
       /\ s.updatepc = t.updatepc /\ s.updateEnd = t.updateEnd
  BY DEF Deferred
<1>11. LoopOK(s, bs, c)
  BY <1>1, <1>3, <1>7, <1>9, <1>10 DEF LoopOK
<1>12. \A h \in Held(s) : IsOpen(bs, h)  BY <1>8 DEF LevelOK
<1> QED BY <1>1, <1>2, <1>8, <1>11, <1>12 DEF LevelOK

(* Level s in the place of level e. *)
Substituted(s2, st, e, s) == s2 = [st EXCEPT ![e] = s]

LEMMA DeferredKept ==
  ASSUME NEW st, NEW bs, NEW o, NEW c, Frame(st, bs, o, c), NEW e \in DOMAIN st,
         st[e].state \in LoopLevel, NEW b \in Nat, b # NULL, IsOpen(bs, b), Unheld(st, b),
         NEW s, Deferred(s, st[e], b), NEW s2, Substituted(s2, st, e, s)
  PROVE  /\ Frame(s2, bs, o, c) /\ Loops(s2) = Loops(st)
         /\ DOMAIN s2 = DOMAIN st /\ \A k \in DOMAIN st : s2[k].state = st[k].state
         /\ s2 # <<>> => st # <<>> /\ Last(s2).state = Last(st).state
<1> DEFINE X == Unentered(st)
           t == st[e]
<1>1. GraphOK(bs, o, X, c) /\ Shape(st) /\ Levels(st, bs, X, c)  BY DEF Frame
<1>2. st \in Seq(Level) /\ t \in Level /\ LevelOK(t, bs, X, c) /\ b \notin Held(t)
  BY <1>1 DEF Shape, Levels, Unheld
<1> HIDE DEF X, t
<1>3. Deferred(s, t, b) /\ t.state \in LoopLevel  BY DEF t
<1>4. Held(s) = Held(t) \cup {b} /\ Owned(s) = Owned(t) /\ LevelOK(s, bs, X, c)
  BY <1>2, <1>3, DeferredLoop
<1>5. s \in Level /\ s.state = t.state /\ s.entry = t.entry /\ s.exitpc = t.exitpc
      /\ s.stopAt = t.stopAt
  BY <1>3 DEF Deferred
<1>6. /\ s2 \in Seq(Level) /\ DOMAIN s2 = DOMAIN st /\ Len(s2) = Len(st)
      /\ \A k \in DOMAIN st : s2[k] = IF k = e THEN s ELSE st[k]
  <2>1. s2 = [st EXCEPT ![e] = s]  BY DEF Substituted
  <2> HIDE DEF Level
  <2> QED BY <1>2, <1>5, <2>1
<1>7. \A k \in DOMAIN st : /\ s2[k].state = st[k].state /\ s2[k].entry = st[k].entry
                           /\ s2[k].exitpc = st[k].exitpc /\ s2[k].stopAt = st[k].stopAt
                           /\ Held(st[k]) \subseteq Held(s2[k])
                           /\ Held(s2[k]) \subseteq Held(st[k]) \cup {b}
                           /\ k # e => s2[k] = st[k]
                           /\ Owned(s2[k]) = Owned(st[k])
  BY <1>4, <1>5, <1>6 DEF t
<1>8. Unentered(s2) = X
  BY <1>6, <1>7 DEF Unentered, X
<1>9. \A k \in DOMAIN s2 : LevelOK(s2[k], bs, X, c)
  BY <1>1, <1>4, <1>6 DEF Levels
<1>10. ASSUME NEW k \in DOMAIN s2, NEW l \in DOMAIN s2, k < l PROVE Around(s2[k], s2[l])
  <2>1. Around(st[k], st[l]) /\ k \in DOMAIN st /\ l \in DOMAIN st  BY <1>1, <1>6, <1>10 DEF Shape
  <2>2. k # l  BY <1>2, <1>6, <1>10
  <2>3. Held(s2[k]) \cap Held(s2[l]) = {}
    <3>1. Held(st[k]) \cap Held(st[l]) = {}  BY <2>1 DEF Around
    <3>2. b \notin Held(st[k]) /\ b \notin Held(st[l])  BY <2>1 DEF Unheld
    <3>3. CASE k = e  BY <1>7, <2>1, <2>2, <3>1, <3>2, <3>3
    <3>4. CASE k # e  BY <1>7, <2>1, <3>1, <3>2, <3>4
    <3> QED BY <3>3, <3>4
  <2>4. Owned(s2[k]) \cap Owned(s2[l]) = {}  BY <1>7, <2>1 DEF Around
  <2> QED BY <1>7, <2>1, <2>3, <2>4 DEF Around
<1>11. ASSUME NEW k \in DOMAIN s2, k + 1 \in DOMAIN s2 PROVE RightAround(s2[k], s2[k + 1])
  <2>1. RightAround(st[k], st[k + 1])  BY <1>1, <1>6, <1>11 DEF Shape
  <2> QED BY <1>6, <1>7, <1>11, <2>1 DEF RightAround
<1>12. Frame(s2, bs, o, c)
  BY <1>1, <1>6, <1>8, <1>9, <1>10, <1>11 DEF Frame, Shape, Levels
<1>13. Loops(s2) = Loops(st)  BY <1>6, <1>7 DEF Loops
<1>14. s2 # <<>> => st # <<>> /\ Last(s2).state = Last(st).state
  <2> SUFFICES ASSUME s2 # <<>> PROVE st # <<>> /\ Last(s2).state = Last(st).state  OBVIOUS
  <2>1. st # <<>>  OBVIOUS
  <2>2. Len(st) \in DOMAIN st  BY <1>2, <2>1
  <2> QED BY <1>6, <1>7, <2>1, <2>2 DEF Last
<1> QED BY <1>6, <1>7, <1>12, <1>13, <1>14

LEMMA StepJump ==
  ASSUME BuildOK, processJump
  PROVE  BuildOK'
<1> DEFINE targets == IF Op.note = "break" THEN BreakTargets ELSE ContinueTargets
           e == loops[Innermost(targets)].cfgEntry
           ops == {"GOTO"}
           notes == {"break", "continue"}
<1>1. AtOp(ops, notes)  BY DEF processJump
<1>2. e \in DOMAIN cfgStack /\ cfgStack[e].state \in LoopLevel
  BY DEF processJump, Stale, LoopLevel
<1>3. /\ current' = NULL /\ pc' = pc + 1 /\ blocks' = blocks /\ order' = order
      /\ loops' = loops /\ broken' = broken
      /\ cfgStack' = IF Op.note = "break"
                     THEN [cfgStack EXCEPT ![e].breaks = <<current>> \o @]
                     ELSE [cfgStack EXCEPT ![e].continues = <<current>> \o @]
  BY DEF processJump, Defer
<1>4. /\ code' = code /\ current # NULL /\ IsOpen(blocks, current) /\ Unheld(cfgStack, current)
      /\ cfgStack # <<>> => Last(cfgStack).state # "FAKE_IF_END"
  BY <1>1, OpFound
<1>5. \A k \in DOMAIN cfgStack : cfgStack[k].state \notin ExprState
  <2>1. ops \cap {"OP", "LOOPENTRY", "AND"} = {}  OBVIOUS
  <2> HIDE DEF ops, notes
  <2> QED BY <1>1, <2>1, OutsideExpression
<1>6. /\ Frame(cfgStack, blocks, order, code) /\ IsBytecode(code) /\ pc \in Nat
      /\ broken \in BOOLEAN /\ LoopsOK(cfgStack, loops, broken) /\ cfgStack \in Seq(Level)
      /\ current \in Nat
  BY Found
<1> HIDE DEF e
<1> DEFINE t == cfgStack[e]
           s == IF Op.note = "break" THEN [t EXCEPT !.breaks = <<current>> \o @]
                ELSE [t EXCEPT !.continues = <<current>> \o @]
<1>7. cfgStack' = [cfgStack EXCEPT ![e] = s]
  <2>1. CASE Op.note = "break"
    <3>1. cfgStack' = [cfgStack EXCEPT ![e].breaks = <<current>> \o @]  BY <1>3, <2>1
    <3>2. s = [t EXCEPT !.breaks = <<current>> \o @]  BY <2>1
    <3> HIDE DEF s
    <3> QED BY <3>1, <3>2
  <2>2. CASE Op.note # "break"
    <3>1. cfgStack' = [cfgStack EXCEPT ![e].continues = <<current>> \o @]  BY <1>3, <2>2
    <3>2. s = [t EXCEPT !.continues = <<current>> \o @]  BY <2>2
    <3> HIDE DEF s
    <3> QED BY <3>1, <3>2
  <2> QED BY <2>1, <2>2
<1>8. Deferred(s, t, current)
  <2>1. t \in Level  BY <1>2, <1>6
  <2> HIDE DEF t
  <2>2. /\ Deferred([t EXCEPT !.breaks = <<current>> \o @], t, current)
        /\ Deferred([t EXCEPT !.continues = <<current>> \o @], t, current)
    BY <1>6, <2>1, DeferBreak, DeferContinue
  <2> QED BY <2>2
<1> HIDE DEF s
<1> DEFINE s2 == [cfgStack EXCEPT ![e] = s]
<1>9. /\ Frame(s2, blocks, order, code) /\ Loops(s2) = Loops(cfgStack)
      /\ DOMAIN s2 = DOMAIN cfgStack
      /\ \A k \in DOMAIN cfgStack : s2[k].state = cfgStack[k].state
      /\ s2 # <<>> => cfgStack # <<>> /\ Last(s2).state = Last(cfgStack).state
  <2>1. Deferred(s, cfgStack[e], current)  BY <1>8
  <2>2. Substituted(s2, cfgStack, e, s)  BY DEF Substituted
  <2>3. Frame(cfgStack, blocks, order, code) /\ e \in DOMAIN cfgStack /\ cfgStack[e].state \in LoopLevel
    BY <1>2, <1>6
  <2>4. current \in Nat /\ current # NULL /\ IsOpen(blocks, current) /\ Unheld(cfgStack, current)
    BY <1>4, <1>6
  <2> HIDE DEF s2, t
  <2> QED BY ONLY <2>1, <2>2, <2>3, <2>4, DeferredKept
<1> HIDE DEF s2
<1>10. LoopsOK(s2, loops, broken)  BY <1>6, <1>9, LoopsSame
<1>11. CurrentOK(NULL, pc + 1, s2, blocks, code)  BY DEF CurrentOK
<1>12. ExprOK(NULL, pc + 1, s2, code)  BY <1>5, <1>9 DEF ExprOK
<1>13. TopOK(NULL, pc + 1, s2, order, broken)  BY <1>4, <1>9 DEF TopOK
<1>14. pc + 1 \in Nat /\ NULL \in Nat  BY <1>6 DEF NULL
<1>15. Good(s2, blocks, order, NULL, pc + 1, loops, broken, code)
  BY <1>6, <1>9, <1>10, <1>11, <1>12, <1>13, <1>14 DEF Good
<1> QED BY <1>3, <1>4, <1>7, <1>15 DEF BuildOK, s2

(* The builder stops, or looks for a target in vain. *)
LEMMA StepNone ==
  ASSUME BuildOK, abort \/ ReadStaleLoop
  PROVE  BuildOK'
BY DEF BuildOK, abort, ReadStaleLoop, AtOp, Unbuilt

(* Every entry of loops_ leads to a loop while no inverted loop was broken. *)
LEMMA NotStale ==
  ASSUME BuildOK, ~broken, NEW i \in DOMAIN loops
  PROVE  ~Stale(i)
<1>1. PICK g : Matches(g, cfgStack, loops, broken)  BY Found DEF LoopsOK
<1>2. PICK k \in Loops(cfgStack) : g[k] = i  BY <1>1 DEF Matches
<1>3. loops[i].cfgEntry = k  BY <1>1, <1>2 DEF Matches
<1> QED BY <1>2, <1>3 DEF Stale, Loops, LoopLevel

(* The search finds the innermost of the entries. *)
LEMMA InnermostFound ==
  ASSUME BuildOK, NEW S \in SUBSET (DOMAIN loops), S # {}
  PROVE  Innermost(S) \in S
<1>1. loops \in Seq([cfgEntry : Nat, continuepc : Nat])  BY Found DEF LoopsOK
<1>2. Len(loops) \in Nat /\ DOMAIN loops = 1..Len(loops)  BY <1>1
<1> DEFINE n == Len(loops)
           T == {i \in 0..n : n - i \in S}
<1> HIDE DEF n
<1>3. n \in Nat /\ S \subseteq 1..n  BY <1>2 DEF n
<1>4. PICK x \in S : TRUE  OBVIOUS
<1>5. x \in 1..n /\ n - x \in 0..n /\ n - (n - x) = x  BY <1>3, <1>4
<1>6. n - x \in T  BY <1>4, <1>5
<1>7. T \in SUBSET Nat /\ T # {}  BY <1>3, <1>6
<1>8. PICK y \in T : \A z \in T : y <= z  BY <1>7, LeastElement
<1>9. n - y \in S /\ y \in Nat  BY <1>7, <1>8
<1>10. \A j \in S : j <= n - y
  <2> SUFFICES ASSUME NEW j \in S PROVE j <= n - y  OBVIOUS
  <2>1. j \in 1..n /\ n - j \in 0..n /\ n - (n - j) = j  BY <1>3
  <2>2. n - j \in T  BY <2>1
  <2>3. y <= n - j  BY <1>8, <2>2
  <2> QED BY <1>3, <1>9, <2>1, <2>3
<1> QED BY <1>9, <1>10 DEF Innermost

(* Jumps find their loop unless an inverted loop was broken. *)
LEMMA SearchSucceeds ==
  ASSUME BuildOK, ReadStaleLoop
  PROVE  broken
<1> SUFFICES ASSUME ~broken PROVE FALSE
  BY Found
<1> DEFINE targets == IF Op.note = "break" THEN BreakTargets ELSE ContinueTargets
<1>1. targets # {} /\ Stale(Innermost(targets))  BY DEF ReadStaleLoop
<1>2. targets \in SUBSET (DOMAIN loops)  BY DEF BreakTargets, ContinueTargets
<1> HIDE DEF targets
<1>3. Innermost(targets) \in DOMAIN loops  BY <1>1, <1>2, InnermostFound
<1> QED BY <1>1, <1>3, NotStale

-----------------------------------------------------------------------------
(* Loops begin. *)

(* The header of a loop, with the interrupt check of the loop head at q. *)
Header(bs, b, p, q) == jsop_loophead(Join(bs, <<b>>, p), Len(bs) + 1, q)

LEMMA HeaderKept ==
  ASSUME NEW f, NEW bs, NEW o, NEW c, Frame(f, bs, o, c), NEW b \in Nat, IsOpen(bs, b),
         Unheld(f, b), NEW p \in Nat, NEW q \in DOMAIN c, q \in Nat, c[q].op = "LOOPHEAD"
  PROVE  LET n == Header(bs, b, p, q)
             m == Len(bs) + 1
         IN  /\ Frame(f, n, Append(o, m), c)
             /\ m \in Nat /\ m # NULL /\ m \notin DOMAIN bs /\ Len(n) = m
             /\ IsOpen(n, m) /\ Len(n[m].pred) = 1 /\ n[m].pc = p
             /\ Unheld(f, m) /\ Unowned(f, m)
             /\ Last(Append(o, m)) = m
<1> DEFINE ps == <<b>>
           j == Join(bs, ps, p)
           m == Len(bs) + 1
           n == [j EXCEPT ![m].ins = Append(@, q)]
           o2 == Append(o, m)
<1>1. ps \in Seq(Nat) /\ NoRepeats(ps) /\ Range(ps) = {b} /\ Len(ps) = 1  BY RangeOfOne
<1> HIDE DEF ps
<1>2. /\ Frame(f, j, o2, c)
      /\ m \in Nat /\ m # NULL /\ m \notin DOMAIN bs /\ Len(j) = m
      /\ IsOpen(j, m) /\ j[m].pc = p /\ Len(j[m].pred) = Len(ps)
      /\ Unheld(f, m) /\ Unowned(f, m)
      /\ Last(o2) = m
  <2>1. \A x \in Range(ps) : IsOpen(bs, x) /\ Unheld(f, x)  BY <1>1
  <2>2. Frame(f, bs, o, c) /\ p \in Nat /\ ps \in Seq(Nat) /\ NoRepeats(ps)  BY <1>1
  <2> QED BY ONLY <2>1, <2>2, JoinKept
<1>3. GraphOK(j, o2, Unentered(f), c) /\ m \in DOMAIN j  BY <1>2 DEF Frame, IsOpen
<1> HIDE DEF j, m, o2
<1>4. /\ GraphOK(n, o2, Unentered(f), c) /\ Grows(j, n, {}, {}) /\ Len(n) = Len(j)
  <2> DEFINE X == Unentered(f)
  <2> HIDE DEF X
  <2>1. GraphOK(j, o2, X, c)  BY <1>3 DEF X
  <2>2. c[q].op \in {"OP", "LOOPHEAD"}  OBVIOUS
  <2>3. /\ GraphOK(n, o2, X, c) /\ Grows(j, n, {}, {}) /\ Len(n) = Len(j)
    BY <1>3, <2>1, <2>2, GIns
  <2> QED BY <2>3 DEF X
<1> HIDE DEF n
<1>5. Frame(f, n, o2, c)
  <2>1. \A z \in {} : IsOpen(j, z) /\ Unheld(f, z)  OBVIOUS
  <2>2. \A z \in {} : Unowned(f, z)  OBVIOUS
  <2> QED BY ONLY <1>2, <1>4, <2>1, <2>2, FrameKept
<1>6. IsOpen(n, m) /\ n[m].pc = p  BY <1>2, <1>4, OpenKept
<1>7. Len(n[m].pred) = 1  BY <1>1, <1>2, <1>3, <1>4 DEF Grows
<1>8. n = Header(bs, b, p, q)  BY DEF n, Header, jsop_loophead, m, j, ps
<1> QED BY <1>2, <1>4, <1>5, <1>6, <1>7, <1>8 DEF m, o2

(* A loop whose first part is about to be built. *)
Begins(s, c) ==
  /\ s \in Level
  /\ s.state \in LoopLevel \ {"DO_WHILE_LOOP_COND"}
  /\ s.exitpc \in DOMAIN c /\ s.bodyStart \in DOMAIN c
  /\ s.successor = NULL /\ s.breaks = <<>> /\ s.continues = <<>>
  /\ s.state \in {"DO_WHILE_LOOP_BODY", "WHILE_OR_FOR_INVERTED"} =>
       s.exitpc = s.updateEnd + 1
  /\ \/ s.state \in {"DO_WHILE_LOOP_BODY", "WHILE_OR_FOR_INVERTED"}
     \/ s.state \in {"FOR_LOOP_COND", "FOR_LOOP_BODY"} /\ s.updatepc # NULL
     => s.updatepc \in DOMAIN c /\ IsExpression(c, s.updatepc, s.updateEnd)

LEMMA BeginsOK ==
  ASSUME NEW s, NEW c, Begins(s, c), NEW bs, NEW X, s.entry \in DOMAIN bs,
         Len(bs[s.entry].pred) = 1
  PROVE  LevelOK(s, bs, X, c) /\ Held(s) = {} /\ Owned(s) = {s.entry}
<1>1. Range(s.breaks) = {} /\ Range(s.continues) = {} /\ NoRepeats(s.breaks) /\ NoRepeats(s.continues)
  BY RangeOfNone DEF Begins
<1>2. /\ s.state \in LoopLevel
      /\ s.state \notin {"IF_TRUE", "AND_OR", "IF_ELSE_TRUE", "IF_ELSE_FALSE", "FAKE_IF", "FAKE_IF_END"}
  BY DEF Begins, LoopLevel, LoopState
<1>3. LoopOK(s, bs, c)  BY <1>1 DEF Begins, LoopOK
<1>4. Held(s) = {} /\ Owned(s) = {s.entry}  BY <1>1, <1>2 DEF Held, Owned, Begins
<1> QED BY <1>2, <1>3, <1>4 DEF LevelOK

LEMMA LoopBegins ==
  ASSUME BuildOK, NEW op, NEW notes, AtOp(op, notes),
         op \cap {"OP", "LOOPENTRY", "AND"} = {} \/ "none" \notin notes,
         NEW p \in Nat, NEW q \in DOMAIN code, q \in Nat, code[q].op = "LOOPHEAD",
         NEW s, Begins(s, code), s.entry = New, s.state # "WHILE_OR_FOR_INVERTED",
         NEW cp \in Nat, NEW r \in DOMAIN code, r \in Nat,
         s.state \in ExprState => IsExpression(code, r, s.stopAt),
         blocks' = Header(blocks, current, p, q), order' = Append(order, New),
         pushLoop(cfgStack, s, cp), current' = New, pc' = r, broken' = broken
  PROVE  BuildOK'
<1> DEFINE n == Header(blocks, current, p, q)
           m == New
           o == Append(order, m)
           st == Append(cfgStack, s)
<1>1. /\ code' = code /\ current # NULL /\ IsOpen(blocks, current) /\ Unheld(cfgStack, current)
      /\ cfgStack # <<>> => Last(cfgStack).state # "FAKE_IF_END"
  BY OpFound
<1>2. \A k \in DOMAIN cfgStack : cfgStack[k].state \notin ExprState  BY OutsideExpression
<1>3. /\ Frame(cfgStack, blocks, order, code) /\ IsBytecode(code) /\ current \in Nat
      /\ broken \in BOOLEAN /\ LoopsOK(cfgStack, loops, broken) /\ cfgStack \in Seq(Level)
  BY Found
<1>4. /\ Frame(cfgStack, n, o, code)
      /\ m \in Nat /\ m # NULL
      /\ IsOpen(n, m) /\ Len(n[m].pred) = 1
      /\ Unheld(cfgStack, m) /\ Unowned(cfgStack, m)
  <2> DEFINE w == Len(blocks) + 1
  <2>1. Frame(cfgStack, blocks, order, code) /\ IsOpen(blocks, current) /\ Unheld(cfgStack, current)
    BY <1>1, <1>3
  <2>2. current \in Nat /\ p \in Nat /\ q \in DOMAIN code /\ q \in Nat /\ code[q].op = "LOOPHEAD"
    BY <1>3
  <2>3. /\ Frame(cfgStack, n, Append(order, w), code)
        /\ w \in Nat /\ w # NULL
        /\ IsOpen(n, w) /\ Len(n[w].pred) = 1
        /\ Unheld(cfgStack, w) /\ Unowned(cfgStack, w)
    BY ONLY <2>1, <2>2, HeaderKept
  <2>4. w = m  BY DEF New
  <2> HIDE DEF m, w, n
  <2> QED BY <2>3, <2>4
<1> HIDE DEF n, m, o
<1>5. s \in Level /\ s.state \in LoopLevel /\ s.state \notin {"FAKE_IF", "FAKE_IF_END"}
  BY DEF Begins, LoopLevel, LoopState
<1>6. LevelOK(s, n, Unentered(cfgStack), code) /\ Held(s) = {} /\ Owned(s) = {m}
  <2>1. s.entry = m /\ m \in DOMAIN n  BY <1>4 DEF m, IsOpen
  <2> QED BY <1>4, <2>1, BeginsOK
<1>7. \A k \in DOMAIN cfgStack : Around(cfgStack[k], s)
  BY <1>2, <1>4, <1>5, <1>6, AroundPlain
<1>8. cfgStack # <<>> => RightAround(Last(cfgStack), s)  BY <1>1 DEF RightAround
<1>9. Frame(st, n, o, code)
  BY <1>4, <1>5, <1>6, <1>7, <1>8, FramePushed
<1>10. Unheld(st, m)  BY <1>3, <1>4, <1>5, <1>6, UnheldPushed
<1>11. Last(st) = s  BY <1>3, <1>5, BeforeAppended
<1>12. \A k \in DOMAIN st : st[k] = s \/ (k \in DOMAIN cfgStack /\ st[k] = cfgStack[k])
  BY <1>3, <1>5, Appended
<1>13. cfgStack' = st /\ loops' = Append(loops, [cfgEntry |-> Len(cfgStack) + 1, continuepc |-> cp])
  BY DEF pushLoop
<1>14. LoopsOK(st, loops', broken)
  <2>1. Loops(st) = Loops(cfgStack) \cup {Len(cfgStack) + 1}  BY <1>3, <1>5, LoopsSplit
  <2> DEFINE w == Len(cfgStack) + 1
  <2>2. w = Len(cfgStack) + 1  OBVIOUS
  <2> HIDE DEF st, w
  <2>3. LoopsOK(st, Append(loops, [cfgEntry |-> w, continuepc |-> cp]), broken)
    BY <1>3, <2>1, <2>2, LoopsPushed
  <2> QED BY <1>13, <2>3 DEF w
<1> HIDE DEF st
<1>15. CurrentOK(m, r, st, n, code)  BY <1>4, <1>10 DEF CurrentOK
<1>16. ExprOK(m, r, st, code)  BY <1>2, <1>4, <1>12 DEF ExprOK
<1>17. TopOK(m, r, st, o, broken)  BY <1>5, <1>11 DEF TopOK
<1>18. Good(st, n, o, m, r, loops', broken, code)
  BY <1>3, <1>4, <1>9, <1>14, <1>15, <1>16, <1>17 DEF Good
<1>19. current' = m /\ blocks' = n /\ order' = o  BY DEF m, n, o
<1> QED BY <1>1, <1>13, <1>18, <1>19 DEF BuildOK

LEMMA StepDoWhile ==
  ASSUME BuildOK, doWhileLoop
  PROVE  BuildOK'
<1> DEFINE i == code[pc]
           ops == {"NOP"}
           notes == {"dowhile"}
           e == New
           b == pc + 2
           u == i.cond
           w == i.ifne
           x == w + 1
           v == "DO_WHILE_LOOP_BODY"
           q == pc + 1
           s == [CFGState EXCEPT !.state = v, !.stopAt = u, !.entry = e, !.bodyStart = b,
                   !.bodyEnd = u, !.exitpc = x, !.updatepc = u, !.updateEnd = w]
<1>1. AtOp(ops, notes)  BY DEF doWhileLoop
<1>2. code' = code /\ pc \in DOMAIN code /\ i \in Instruction /\ i.op = "NOP" /\ i.note = "dowhile"
  BY <1>1, OpFound
<1>3. IsLoop(code, q, b, u, w) /\ q \in DOMAIN code /\ pc \in Nat
  BY <1>2, Found, Bytecode
<1>4. u \in Nat /\ w \in Nat /\ x \in Nat /\ b \in Nat /\ q \in Nat /\ v \in State
  BY <1>2, <1>3, Fields DEF State, LoopState
<1>5. e \in Nat  BY Found DEF New
<1>6. /\ b \in DOMAIN code /\ u \in DOMAIN code /\ x \in DOMAIN code
      /\ code[q].op = "LOOPHEAD" /\ IsExpression(code, u, w)
  BY <1>3 DEF IsLoop
<1>7. /\ blocks' = Header(blocks, current, pc, q) /\ order' = Append(order, New)
      /\ pushLoop(cfgStack, s, u) /\ current' = New /\ pc' = b /\ broken' = broken
  BY DEF doWhileLoop, Header, New, Op
<1>8. v = "DO_WHILE_LOOP_BODY" /\ x = w + 1 /\ e = New  OBVIOUS
<1>9. ops \cap {"OP", "LOOPENTRY", "AND"} = {}  OBVIOUS
<1> HIDE DEF ops, notes, e, b, u, w, x, v, q
<1>10. /\ s \in Level /\ s.state = v /\ s.stopAt = u /\ s.entry = e
       /\ s.bodyStart = b /\ s.exitpc = x /\ s.updatepc = u /\ s.updateEnd = w
  BY <1>4, <1>5, NewLevel DEF Level
<1>11. s.successor = NULL /\ s.breaks = <<>> /\ s.continues = <<>>  BY DEF CFGState
<1> HIDE DEF s
<1>12. Begins(s, code)
  BY <1>6, <1>8, <1>10, <1>11 DEF Begins, LoopLevel, LoopState
<1>13. s.state \notin ExprState /\ s.state # "WHILE_OR_FOR_INVERTED" /\ s.entry = New
  BY <1>8, <1>10 DEF ExprState
<1> QED BY <1>1, <1>3, <1>4, <1>6, <1>7, <1>9, <1>12, <1>13, LoopBegins

LEMMA StepWhile ==
  ASSUME BuildOK, whileLoop
  PROVE  BuildOK'
<1> DEFINE i == code[pc]
           ops == {"GOTO"}
           notes == {"while"}
           e == New
           b == pc + 2
           u == i.to
           w == i.ifne
           x == w + 1
           v == "WHILE_LOOP_COND"
           q == pc + 1
           s == [CFGState EXCEPT !.state = v, !.stopAt = w, !.entry = e, !.bodyStart = b,
                   !.bodyEnd = u, !.exitpc = x]
<1>1. AtOp(ops, notes)  BY DEF whileLoop
<1>2. code' = code /\ pc \in DOMAIN code /\ i \in Instruction /\ i.op = "GOTO" /\ i.note = "while"
  BY <1>1, OpFound
<1>3. IsLoop(code, q, b, u, w) /\ pc \in Nat /\ code \in Seq(Instruction)
  BY <1>2, Found, Bytecode
<1>4. u \in Nat /\ w \in Nat /\ x \in Nat /\ b \in Nat /\ q \in Nat /\ v \in State
  BY <1>2, <1>3, Fields DEF State, LoopState
<1>5. e \in Nat  BY Found DEF New
<1>6. /\ b \in DOMAIN code /\ u \in DOMAIN code /\ x \in DOMAIN code
      /\ code[q].op = "LOOPHEAD" /\ IsExpression(code, u, w)
  BY <1>3 DEF IsLoop
<1>7. q \in DOMAIN code
  <2>1. DOMAIN code = 1..Len(code) /\ Len(code) \in Nat  BY <1>3, SeqDomain
  <2> QED BY <1>2, <1>3, <1>6, <2>1
<1>8. /\ blocks' = Header(blocks, current, pc, q) /\ order' = Append(order, New)
      /\ pushLoop(cfgStack, s, pc) /\ current' = New /\ pc' = u /\ broken' = broken
  BY DEF whileLoop, Header, New, Op
<1>9. v = "WHILE_LOOP_COND" /\ x = w + 1 /\ e = New  OBVIOUS
<1>10. ops \cap {"OP", "LOOPENTRY", "AND"} = {}  OBVIOUS
<1> HIDE DEF ops, notes, e, b, u, w, x, v, q
<1>11. /\ s \in Level /\ s.state = v /\ s.stopAt = w /\ s.entry = e
       /\ s.bodyStart = b /\ s.exitpc = x
  BY <1>4, <1>5, NewLevel DEF Level
<1>12. s.successor = NULL /\ s.breaks = <<>> /\ s.continues = <<>>  BY DEF CFGState
<1> HIDE DEF s
<1>13. Begins(s, code)
  BY <1>6, <1>9, <1>11, <1>12 DEF Begins, LoopLevel, LoopState
<1>14. /\ s.state # "WHILE_OR_FOR_INVERTED" /\ s.entry = New
       /\ IsExpression(code, u, s.stopAt)
  BY <1>6, <1>9, <1>11
<1> QED BY <1>1, <1>3, <1>4, <1>6, <1>7, <1>8, <1>10, <1>13, <1>14, LoopBegins

LEMMA StepFor ==
  ASSUME BuildOK, forLoop
  PROVE  BuildOK'
<1> DEFINE i == code[pc]
           ops == {"NOP"}
           notes == {"for"}
           cond == i.cond # i.ifne
           e == New
           start == pc + 1
           q == IF cond THEN start + 1 ELSE start
           b == q + 1
           d == i.update
           x == i.ifne + 1
           v == IF cond THEN "FOR_LOOP_COND" ELSE "FOR_LOOP_BODY"
           z == IF cond THEN i.ifne ELSE i.update
           u == IF i.update # i.cond THEN i.update ELSE NULL
           w == IF i.update # i.cond THEN i.cond ELSE NULL
           r == IF cond THEN i.cond ELSE b
           s == [CFGState EXCEPT !.state = v, !.stopAt = z, !.entry = e, !.bodyStart = b,
                   !.bodyEnd = d, !.exitpc = x, !.updatepc = u, !.updateEnd = w]
<1>1. AtOp(ops, notes)  BY DEF forLoop
<1>2. code' = code /\ pc \in DOMAIN code /\ i \in Instruction /\ i.op = "NOP" /\ i.note = "for"
  BY <1>1, OpFound
<1>3. pc \in Nat /\ code \in Seq(Instruction) /\ IsBytecode(code)
  BY <1>2, Found, Bytecode
<1>4. i.cond \in Nat /\ i.update \in Nat /\ i.ifne \in Nat  BY <1>2, Fields
<1>5. /\ IsLoop(code, q, b, i.cond, i.ifne)
      /\ d \in DOMAIN code /\ IsExpression(code, d, i.cond)
  <2>1. LET head == IF cond THEN pc + 2 ELSE pc + 1
        IN  /\ IsLoop(code, head, head + 1, i.cond, i.ifne)
            /\ i.update \in DOMAIN code
            /\ IsExpression(code, i.update, i.cond)
    BY <1>2, <1>3 DEF IsBytecode
  <2>2. q = IF cond THEN pc + 2 ELSE pc + 1  BY <1>3
  <2> QED BY <2>1, <2>2
<1>6. /\ start \in Nat /\ q \in Nat /\ b \in Nat /\ d \in Nat /\ x \in Nat /\ v \in State /\ z \in Nat
      /\ u \in Nat /\ w \in Nat /\ r \in Nat
  BY <1>3, <1>4 DEF State, LoopState, NULL
<1>7. e \in Nat  BY Found DEF New
<1>8. /\ b \in DOMAIN code /\ i.cond \in DOMAIN code /\ x \in DOMAIN code
      /\ code[q].op = "LOOPHEAD" /\ IsExpression(code, i.cond, i.ifne)
  BY <1>5 DEF IsLoop
<1>9. q \in DOMAIN code
  <2>1. DOMAIN code = 1..Len(code) /\ Len(code) \in Nat  BY <1>3, SeqDomain
  <2>2. q # 0 /\ q + 1 \in DOMAIN code /\ q \in Nat  BY <1>3, <1>6, <1>8
  <2> HIDE DEF q
  <2> QED BY <2>1, <2>2
<1>10. /\ blocks' = Header(blocks, current, start, q) /\ order' = Append(order, New)
       /\ pushLoop(cfgStack, s, d) /\ current' = New /\ pc' = r /\ broken' = broken
  BY DEF forLoop, Header, New, Op
<1>11. /\ e = New /\ v \in {"FOR_LOOP_COND", "FOR_LOOP_BODY"}
       /\ v = "FOR_LOOP_COND" => r = i.cond /\ z = i.ifne
       /\ u # NULL => u = d /\ w = i.cond
       /\ r \in DOMAIN code
  BY <1>8
<1>12. ops \cap {"OP", "LOOPENTRY", "AND"} = {}  OBVIOUS
<1> HIDE DEF ops, notes, e, b, d, u, w, x, v, q, z, r, start
<1>13. /\ s \in Level /\ s.state = v /\ s.stopAt = z /\ s.entry = e
       /\ s.bodyStart = b /\ s.exitpc = x /\ s.updatepc = u /\ s.updateEnd = w
  BY <1>6, <1>7, NewLevel DEF Level
<1>14. s.successor = NULL /\ s.breaks = <<>> /\ s.continues = <<>>  BY DEF CFGState
<1> HIDE DEF s
<1>15. s.updatepc # NULL => s.updatepc \in DOMAIN code /\ IsExpression(code, s.updatepc, s.updateEnd)
  BY <1>5, <1>11, <1>13
<1>16. Begins(s, code)
  BY <1>8, <1>11, <1>13, <1>14, <1>15 DEF Begins, LoopLevel, LoopState
<1>17. /\ s.state # "WHILE_OR_FOR_INVERTED" /\ s.entry = New
       /\ s.state \in ExprState => IsExpression(code, r, s.stopAt)
  BY <1>8, <1>11, <1>13 DEF ExprState
<1> QED BY <1>1, <1>6, <1>8, <1>9, <1>10, <1>11, <1>12, <1>16, <1>17, LoopBegins

(* The blocks of an inverted loop: that of its first condition and, not      *)
(* entered yet, its header.                                                  *)
Inverted(bs, b, p, q) == Append(Header(bs, b, p, q), MBasicBlock(p, <<Len(bs) + 1>>))

(* No inverted loop with header b waits for its test. *)
Untested(st, b) == \A k \in DOMAIN st : st[k].state = "FAKE_IF_END" => st[k].entry # b

(* The graph n and the structures around the loop, without the header h.     *)
Entering(f, n, o, h, c) == GraphOK(n, o, {h}, c) /\ Levels(f, n, {h}, c)

LEMMA InvertedGraph ==
  ASSUME NEW f, NEW bs, NEW o, NEW c, Frame(f, bs, o, c), Unentered(f) = {}, NEW b \in Nat,
         IsOpen(bs, b), Unheld(f, b), NEW p \in Nat,
         NEW q \in DOMAIN c, q \in Nat, c[q].op = "LOOPHEAD"
  PROVE  LET n == Inverted(bs, b, p, q)
             m == Len(bs) + 1
             h == Len(bs) + 2
         IN  /\ Entering(f, n, Append(Append(o, m), h), h, c)
             /\ m \in Nat /\ m # NULL /\ h \in Nat /\ h # m
             /\ IsOpen(n, m) /\ IsOpen(n, h) /\ Len(n[h].pred) = 1
             /\ Unheld(f, m) /\ Unheld(f, h) /\ Unowned(f, h)
             /\ Untested(f, h)
<1> DEFINE j == Header(bs, b, p, q)
           m == Len(bs) + 1
           h == Len(bs) + 2
           r == MBasicBlock(p, <<m>>)
           n == Append(j, r)
           o1 == Append(o, m)
           o2 == Append(o1, h)
<1>1. /\ Frame(f, j, o1, c)
      /\ m \in Nat /\ m # NULL /\ Len(j) = m
      /\ IsOpen(j, m) /\ Unheld(f, m)
  BY HeaderKept
<1>2. Len(bs) \in Nat
  <2>1. bs \in Seq(Block)  BY DEF Frame, GraphOK, BlocksOK
  <2> QED BY <2>1
<1>3. h \in Nat /\ h # m /\ h = m + 1  BY <1>2
<1>4. /\ GraphOK(j, o1, Unentered(f), c) /\ Shape(f) /\ Levels(f, j, Unentered(f), c)
  BY <1>1 DEF Frame
<1> HIDE DEF j, m, o1, h
<1>5. GraphOK(j, o1, {}, c) /\ Levels(f, j, {}, c)  BY <1>4
<1>6. j \in Seq(Block) /\ <<m>> \in Seq(Nat) /\ Len(<<m>>) = 1
  BY <1>1, <1>5 DEF GraphOK, BlocksOK
<1>7. /\ r \in Block /\ r.end = NoEnd /\ r.pred = <<m>>
  BY <1>6, NewBlock
<1>8. GraphOK(n, o2, {h}, c) /\ Grows(j, n, {}, {})
  <2> DEFINE ps == <<m>>
             Y == {h}
             X == {}
  <2>1. ps \in Seq(Nat) /\ Y = X \cup {Len(j) + 1} /\ GraphOK(j, o1, X, c)  BY <1>1, <1>3, <1>5, <1>6
  <2>2. Len(j) + 1 = h  BY <1>1, <1>3
  <2> HIDE DEF ps, Y, X
  <2>3. /\ GraphOK(Append(j, MBasicBlock(p, ps)), Append(o1, Len(j) + 1), Y, c)
        /\ Grows(j, Append(j, MBasicBlock(p, ps)), {}, {})
    BY <2>1, GNew
  <2> QED BY <2>2, <2>3 DEF ps, Y
<1>9. /\ DOMAIN n = DOMAIN j \cup {h} /\ h \notin DOMAIN j
      /\ \A x \in DOMAIN j : n[x] = j[x]
      /\ n[h] = r
  <2> HIDE DEF r
  <2>1. /\ DOMAIN Append(j, r) = DOMAIN j \cup {Len(j) + 1}
        /\ Len(j) + 1 \notin DOMAIN j
        /\ \A x \in DOMAIN j : Append(j, r)[x] = j[x]
        /\ Append(j, r)[Len(j) + 1] = r
    BY <1>6, <1>7, AppendedBlock
  <2>2. Len(j) + 1 = h  BY <1>1, <1>3
  <2> QED BY <2>1, <2>2
<1> HIDE DEF n, r, o2
<1>10. IsOpen(n, m) /\ IsOpen(n, h) /\ Len(n[h].pred) = 1
  BY <1>1, <1>6, <1>7, <1>9 DEF IsOpen
<1>11. Unheld(f, h) /\ Unowned(f, h)  BY <1>1, <1>9, FreshUnheld
<1>12. ASSUME NEW k \in DOMAIN f
       PROVE  /\ LevelOK(f[k], n, {h}, c)
              /\ f[k].state = "FAKE_IF_END" => f[k].entry # h
  <2> DEFINE s == f[k]
  <2>1. s \in Level /\ LevelOK(s, j, {}, c)  BY <1>4, <1>5 DEF Shape, Levels
  <2>2. DOMAIN j \subseteq DOMAIN n /\ \A x \in DOMAIN j : n[x].pc = j[x].pc  BY <1>9
  <2>3. \A x \in Held(s) : n[x].end = j[x].end  BY <1>9, <2>1 DEF LevelOK, IsOpen
  <2>4. ASSUME s.state \in LoopLevel PROVE Len(n[s.entry].pred) = Len(j[s.entry].pred)
    <3>1. s.entry \in DOMAIN j  BY <2>1, <2>4 DEF LevelOK, LoopOK
    <3> QED BY <1>9, <3>1
  <2>5. ASSUME s.state = "FAKE_IF_END" PROVE FakeIfEndOK(s, n, {h}) /\ s.entry # h
    <3> DEFINE g == Head(j[s.entry].pred)
    <3>1. /\ s.stopAt # 0 /\ s.entry \in DOMAIN j /\ j[s.entry].pred # <<>>
          /\ g \in DOMAIN j /\ j[g].end = MGoto(s.entry)
      BY <2>1, <2>5 DEF LevelOK, FakeIfEndOK
    <3>2. n[s.entry] = j[s.entry] /\ n[g] = j[g] /\ s.entry \in DOMAIN n /\ g \in DOMAIN n
      BY <1>9, <3>1
    <3> QED BY <1>9, <3>1, <3>2 DEF FakeIfEndOK
  <2> HIDE DEF s
  <2>6. LevelOK(s, n, {h}, c)
    <3> DEFINE X == {}
               Y == {h}
    <3>1. LevelOK(s, j, X, c)  BY <2>1
    <3>2. s.state = "FAKE_IF_END" => FakeIfEndOK(s, n, Y)  BY <2>5
    <3> HIDE DEF X, Y
    <3>3. LevelOK(s, n, Y, c)  BY <2>1, <2>2, <2>3, <2>4, <3>1, <3>2, LevelKept
    <3> QED BY <3>3 DEF Y
  <2> QED BY <2>5, <2>6 DEF s
<1>13. Levels(f, n, {h}, c) /\ Untested(f, h)  BY <1>12 DEF Levels, Untested
<1>14. n = Inverted(bs, b, p, q)  BY DEF n, Inverted, j, r, m
<1>15. Entering(f, n, o2, h, c)  BY <1>8, <1>13 DEF Entering
<1> QED BY <1>1, <1>3, <1>10, <1>11, <1>12, <1>13, <1>14, <1>15 DEF m, h, o1, o2

(* The structures of an inverted loop with header h. *)
InvertedLevels(a, b, c, h) ==
  /\ a \in Level /\ b \in Level /\ c \in Level
  /\ a.state = "FAKE_IF_END" /\ a.entry = h
  /\ b.state = "WHILE_OR_FOR_INVERTED" /\ b.entry = h /\ b.exitpc = a.stopAt
  /\ Held(b) = {}
  /\ c.state = "FAKE_IF" /\ c.entry = h

LEMMA InvertedShape ==
  ASSUME NEW f, Shape(f), \A k \in DOMAIN f : f[k].state \notin ExprState,
         f # <<>> => Last(f).state # "FAKE_IF_END",
         NEW h, Unheld(f, h), Unowned(f, h),
         Untested(f, h), NEW a, NEW b, NEW c, InvertedLevels(a, b, c, h)
  PROVE  LET st == Append(Append(Append(f, a), b), c) IN
         /\ Shape(st) /\ Unentered(st) = Unentered(f) \cup {h}
         /\ \A k \in DOMAIN st : st[k] \in {a, b, c} \/ (k \in DOMAIN f /\ st[k] = f[k])
         /\ Last(st) = c /\ st # <<>>
         /\ Loops(Append(f, a)) = Loops(f)
         /\ Loops(st) = Loops(Append(f, a)) \cup {Len(Append(f, a)) + 1}
         /\ Append(f, a) \in Seq(Level)
<1> DEFINE f1 == Append(f, a)
           f2 == Append(f1, b)
           f3 == Append(f2, c)
<1>1. /\ a \in Level /\ b \in Level /\ c \in Level
      /\ a.state = "FAKE_IF_END" /\ a.entry = h
      /\ b.state = "WHILE_OR_FOR_INVERTED" /\ b.entry = h /\ b.exitpc = a.stopAt
      /\ Held(b) = {}
      /\ c.state = "FAKE_IF" /\ c.entry = h
  BY DEF InvertedLevels
<1>2. /\ Held(a) = {} /\ Held(c) = {h} /\ Owned(a) = {} /\ Owned(b) = {h} /\ Owned(c) = {}
  BY <1>1 DEF Held, Owned, LoopLevel, LoopState
<1>3. f \in Seq(Level)  BY DEF Shape
<1>4. \A k \in DOMAIN f : Around(f[k], a) /\ Around(f[k], b) /\ Around(f[k], c)
  BY <1>1, <1>2 DEF Around, Unheld, Unowned, Untested
<1>5. Around(a, b) /\ Around(a, c) /\ Around(b, c)
  BY <1>1, <1>2 DEF Around, ExprState
<1>6. f # <<>> => RightAround(Last(f), a)  BY DEF RightAround
<1>7. RightAround(a, b) /\ RightAround(b, c)  BY <1>1 DEF RightAround
<1>8. /\ Shape(f1) /\ f1 # <<>> /\ Last(f1) = a
      /\ \A k \in DOMAIN f1 : f1[k] = a \/ (k \in DOMAIN f /\ f1[k] = f[k])
  BY <1>1, <1>3, <1>4, <1>6, Pushed, Appended
<1>9. Unentered(f1) = Unentered(f) /\ Loops(f1) = Loops(f)
  BY <1>1, <1>3, UnenteredPushed, LoopsSplit DEF LoopLevel, LoopState
<1> HIDE DEF f1
<1>10. f1 \in Seq(Level)  BY <1>8 DEF Shape
<1>11. \A k \in DOMAIN f1 : Around(f1[k], b) /\ Around(f1[k], c)  BY <1>4, <1>5, <1>8
<1>12. /\ Shape(f2) /\ f2 # <<>> /\ Last(f2) = b
       /\ \A k \in DOMAIN f2 : f2[k] = b \/ (k \in DOMAIN f1 /\ f2[k] = f1[k])
  BY <1>1, <1>7, <1>8, <1>10, <1>11, Pushed, Appended
<1>13. Unentered(f2) = Unentered(f1) /\ Loops(f2) = Loops(f1) \cup {Len(f1) + 1}
  BY <1>1, <1>10, UnenteredPushed, LoopsSplit DEF LoopLevel, LoopState
<1> HIDE DEF f2
<1>14. f2 \in Seq(Level)  BY <1>12 DEF Shape
<1>15. \A k \in DOMAIN f2 : Around(f2[k], c)  BY <1>5, <1>11, <1>12
<1>16. /\ Shape(f3) /\ f3 # <<>> /\ Last(f3) = c
       /\ \A k \in DOMAIN f3 : f3[k] = c \/ (k \in DOMAIN f2 /\ f3[k] = f2[k])
  BY <1>1, <1>7, <1>12, <1>14, <1>15, Pushed, Appended
<1>17. Unentered(f3) = Unentered(f2) \cup {h} /\ Loops(f3) = Loops(f2)
  BY <1>1, <1>14, UnenteredPushed, LoopsSplit DEF LoopLevel, LoopState
<1> HIDE DEF f3
<1>18. \A k \in DOMAIN f3 : f3[k] \in {a, b, c} \/ (k \in DOMAIN f /\ f3[k] = f[k])
  BY <1>8, <1>12, <1>16
<1> QED BY <1>9, <1>10, <1>13, <1>16, <1>17, <1>18 DEF f3, f2, f1

LEMMA ThreeAppended ==
  ASSUME NEW X, NEW s \in Seq(X), NEW x \in X, NEW y \in X, NEW z \in X
  PROVE  s \o <<x, y, z>> = Append(Append(Append(s, x), y), z)
OBVIOUS

LEMMA StepInverted ==
  ASSUME BuildOK, invertedLoop
  PROVE  BuildOK'
<1> DEFINE i == code[pc]
           ops == {"GOTO"}
           notes == {"while"}
           m == Len(blocks) + 1
           h == Len(blocks) + 2
           q == pc + 1
           p == pc + 2
           u == i.to
           w == i.ifne
           x == w + 1
           v == "WHILE_OR_FOR_INVERTED"
           a == [CFGState EXCEPT !.state = "FAKE_IF_END", !.stopAt = x, !.entry = h]
           b == [CFGState EXCEPT !.state = v, !.stopAt = u, !.entry = h, !.bodyStart = p,
                   !.bodyEnd = u, !.exitpc = x, !.updatepc = u, !.updateEnd = w]
           c == [CFGState EXCEPT !.state = "FAKE_IF", !.stopAt = w, !.entry = h,
                   !.bodyStart = p]
           n == Inverted(blocks, current, pc, q)
           o == Append(Append(order, m), h)
           st == Append(Append(Append(cfgStack, a), b), c)
<1>1. AtOp(ops, notes)  BY DEF invertedLoop
<1>2. code' = code /\ pc \in DOMAIN code /\ i \in Instruction /\ i.op = "GOTO" /\ i.note = "while"
      /\ current # NULL /\ IsOpen(blocks, current) /\ Unheld(cfgStack, current)
  BY <1>1, OpFound
<1>3. cfgStack # <<>> => Last(cfgStack).state # "FAKE_IF_END"  BY <1>1, OpFound
<1>4. (\A k \in DOMAIN cfgStack : cfgStack[k].state \notin ExprState) /\ Unentered(cfgStack) = {}
  <2>1. ops \cap {"OP", "LOOPENTRY", "AND"} = {}  OBVIOUS
  <2> HIDE DEF ops, notes
  <2> QED BY <1>1, <2>1, OutsideExpression
<1>5. /\ Frame(cfgStack, blocks, order, code) /\ IsBytecode(code) /\ current \in Nat
      /\ broken \in BOOLEAN /\ LoopsOK(cfgStack, loops, broken) /\ cfgStack \in Seq(Level)
      /\ Shape(cfgStack) /\ Len(blocks) \in Nat /\ order \in Seq(Nat)
  BY Found
<1>6. IsLoop(code, q, p, u, w) /\ pc \in Nat /\ code \in Seq(Instruction)
  BY <1>2, <1>5, Bytecode
<1>7. /\ u \in Nat /\ w \in Nat /\ x \in Nat /\ p \in Nat /\ q \in Nat /\ m \in Nat /\ h \in Nat
      /\ v \in State /\ "FAKE_IF" \in State /\ "FAKE_IF_END" \in State
      /\ x = w + 1 /\ x # 0
  <2>1. u \in Nat /\ w \in Nat  BY <1>2, Fields
  <2>2. p \in Nat /\ q \in Nat /\ m \in Nat /\ h \in Nat  BY <1>5, <1>6
  <2>3. v \in State /\ "FAKE_IF" \in State /\ "FAKE_IF_END" \in State  BY DEF State
  <2> HIDE DEF u, w, p, q, m, h, v
  <2>4. x \in Nat /\ x = w + 1 /\ x # 0  BY <2>1
  <2> QED BY ONLY <2>1, <2>2, <2>3, <2>4
<1>8. /\ p \in DOMAIN code /\ u \in DOMAIN code /\ x \in DOMAIN code
      /\ code[q].op = "LOOPHEAD" /\ IsExpression(code, u, w)
  BY <1>6 DEF IsLoop
<1>9. q \in DOMAIN code
  <2>1. DOMAIN code = 1..Len(code) /\ Len(code) \in Nat  BY <1>6, SeqDomain
  <2> QED BY <1>2, <1>6, <1>8, <2>1
<1>10. New = m /\ New + 1 = h /\ Len(cfgStack) + 2 = (Len(cfgStack) + 1) + 1
  BY <1>5 DEF New
<1>11. /\ blocks' = n /\ order' = order \o <<m, h>>
       /\ cfgStack' = cfgStack \o <<a, b, c>>
       /\ loops' = Append(loops, [cfgEntry |-> Len(cfgStack) + 2, continuepc |-> pc])
       /\ current' = m /\ pc' = u /\ broken' = broken
  BY <1>10 DEF invertedLoop, Inverted, Header, Op
<1>12. /\ GraphOK(n, o, {h}, code) /\ Levels(cfgStack, n, {h}, code)
       /\ m # NULL /\ h # m
       /\ IsOpen(n, m) /\ IsOpen(n, h) /\ Len(n[h].pred) = 1
       /\ Unheld(cfgStack, m) /\ Unheld(cfgStack, h) /\ Unowned(cfgStack, h)
       /\ Untested(cfgStack, h)
  <2>1. Frame(cfgStack, blocks, order, code) /\ IsOpen(blocks, current) /\ Unheld(cfgStack, current)
        /\ Unentered(cfgStack) = {}
    BY <1>2, <1>4, <1>5
  <2>2. current \in Nat /\ pc \in Nat /\ q \in DOMAIN code /\ q \in Nat /\ code[q].op = "LOOPHEAD"
    BY <1>5, <1>6, <1>7, <1>8, <1>9
  <2> HIDE DEF q
  <2>3. /\ Entering(cfgStack, n, o, h, code)
        /\ m # NULL /\ h # m
        /\ IsOpen(n, m) /\ IsOpen(n, h) /\ Len(n[h].pred) = 1
        /\ Unheld(cfgStack, m) /\ Unheld(cfgStack, h) /\ Unowned(cfgStack, h)
        /\ Untested(cfgStack, h)
    BY ONLY <2>1, <2>2, InvertedGraph
  <2> HIDE DEF m, h, n, o
  <2> QED BY <2>3 DEF Entering
<1>13. v = "WHILE_OR_FOR_INVERTED"  OBVIOUS
<1> HIDE DEF m, h, q, p, u, w, x, v, n
<1>14. a \in Level /\ a.state = "FAKE_IF_END" /\ a.stopAt = x /\ a.entry = h
  BY <1>7, NewLevel DEF Level
<1>15. /\ b \in Level /\ b.state = v /\ b.stopAt = u /\ b.entry = h
       /\ b.bodyStart = p /\ b.exitpc = x /\ b.updatepc = u /\ b.updateEnd = w
  BY <1>7, NewLevel DEF Level
<1>16. b.successor = NULL /\ b.breaks = <<>> /\ b.continues = <<>>  BY DEF CFGState
<1>17. c \in Level /\ c.state = "FAKE_IF" /\ c.stopAt = w /\ c.entry = h /\ c.bodyStart = p
  BY <1>7, NewLevel DEF Level
<1>18. /\ order \o <<m, h>> = o
  BY <1>5, <1>7, TwoAppended
<1>19. cfgStack \o <<a, b, c>> = st
  <2> HIDE DEF a, b, c, st
  <2>1. cfgStack \o <<a, b, c>> = Append(Append(Append(cfgStack, a), b), c)
    BY <1>5, <1>14, <1>15, <1>17, ThreeAppended
  <2> QED BY <2>1 DEF st
<1> HIDE DEF a, b, c, o
<1>20. Begins(b, code)
  BY <1>7, <1>8, <1>13, <1>15, <1>16 DEF Begins, LoopLevel
<1>21. LevelOK(b, n, {h}, code) /\ Held(b) = {}
  <2>1. b.entry \in DOMAIN n /\ Len(n[b.entry].pred) = 1  BY <1>12, <1>15 DEF IsOpen
  <2> QED BY <1>20, <2>1, BeginsOK
<1>22. LevelOK(a, n, {h}, code)
  BY <1>7, <1>12, <1>14 DEF LevelOK, Held, FakeIfEndOK, IsOpen, LoopLevel, LoopState
<1>23. LevelOK(c, n, {h}, code) /\ Held(c) = {h} /\ Held(a) = {}
  BY <1>8, <1>12, <1>14, <1>17 DEF LevelOK, Held, LoopLevel, LoopState
<1>24. InvertedLevels(a, b, c, h)
  BY <1>13, <1>14, <1>15, <1>17, <1>21 DEF InvertedLevels
<1>25. /\ Shape(st) /\ Unentered(st) = Unentered(cfgStack) \cup {h}
       /\ \A k \in DOMAIN st : st[k] \in {a, b, c} \/ (k \in DOMAIN cfgStack /\ st[k] = cfgStack[k])
       /\ Last(st) = c /\ st # <<>>
       /\ Loops(Append(cfgStack, a)) = Loops(cfgStack)
       /\ Loops(st) = Loops(Append(cfgStack, a)) \cup {Len(Append(cfgStack, a)) + 1}
       /\ Append(cfgStack, a) \in Seq(Level)
  <2>1. Untested(cfgStack, h)  BY <1>12
  <2>2. Unheld(cfgStack, h) /\ Unowned(cfgStack, h) /\ Shape(cfgStack)  BY <1>5, <1>12
  <2>3. \A k \in DOMAIN cfgStack : cfgStack[k].state \notin ExprState  BY <1>4
  <2> QED BY ONLY <1>3, <1>24, <2>1, <2>2, <2>3, InvertedShape DEF st
<1> HIDE DEF st
<1>26. Frame(st, n, o, code)
  <2>1. Unentered(st) = {h}  BY <1>4, <1>25
  <2>2. Levels(st, n, {h}, code)  BY <1>12, <1>21, <1>22, <1>23, <1>25 DEF Levels
  <2> QED BY <1>12, <1>25, <2>1, <2>2 DEF Frame
<1>27. Unheld(st, m)
  BY <1>12, <1>21, <1>23, <1>25 DEF Unheld
<1>28. CurrentOK(m, u, st, n, code)  BY <1>8, <1>12, <1>27 DEF CurrentOK
<1>29. ExprOK(m, u, st, code)
  <2>1. a.state \notin ExprState /\ b.state \notin ExprState  BY <1>13, <1>14, <1>15 DEF ExprState
  <2>2. IsExpression(code, u, c.stopAt)  BY <1>8, <1>17
  <2> QED BY <1>4, <1>12, <1>25, <2>1, <2>2 DEF ExprOK
<1>30. TopOK(m, u, st, o, broken)  BY <1>17, <1>25 DEF TopOK
<1>31. LoopsOK(st, loops', broken)
  <2> DEFINE f == Append(cfgStack, a)
             z == Len(f) + 1
  <2>1. LoopsOK(f, loops, broken)
    <3>1. Loops(f) = Loops(cfgStack)  BY <1>25
    <3> HIDE DEF f
    <3> QED BY <1>5, <3>1, LoopsSame
  <2>2. f \in Seq(Level) /\ Loops(st) = Loops(f) \cup {Len(f) + 1} /\ z = Len(f) + 1  BY <1>25
  <2>3. Len(f) = Len(cfgStack) + 1  BY <1>5, <1>14
  <2>4. z = Len(cfgStack) + 2  BY <1>10, <2>3
  <2> HIDE DEF f, z
  <2>5. LoopsOK(st, Append(loops, [cfgEntry |-> z, continuepc |-> pc]), broken)
    BY <1>6, <2>1, <2>2, LoopsPushed
  <2> QED BY <1>11, <2>4, <2>5
<1>32. Good(st, n, o, m, u, loops', broken, code)
  BY <1>5, <1>7, <1>26, <1>28, <1>29, <1>30, <1>31 DEF Good
<1> QED BY <1>2, <1>11, <1>18, <1>19, <1>32 DEF BuildOK

-----------------------------------------------------------------------------
(* What runs beside the builder, and after it. *)

(* h lists the values of the recursion up to K. *)
IsWalk(h, K, x, step) == h = [n \in 0..K |-> IF n = 0 THEN x ELSE step[h[n - 1]]]

(* A walk that starts in S does not leave it, if no step does. *)
LEMMA WalkStays ==
  ASSUME NEW X, NEW S \in SUBSET X, NEW x \in S, NEW step \in [X -> X],
         \A s \in S : step[s] \in S, NEW K \in Nat
  PROVE  (CHOOSE h : IsWalk(h, K, x, step))[K] \in S
<1> DEFINE steps == [n \in Nat |-> step]
           Walks(g) == IsWalk(g, K, x, step)
<1>1. x \in X /\ steps \in [Nat -> [X -> X]]  OBVIOUS
<1> HIDE DEF steps
<1>2. PICK f : Iterates(f, X, x, steps)  BY <1>1, IterationFunction
<1>3. f \in [Nat -> X] /\ f[0] = x /\ \A n \in Nat : f[n + 1] = step[f[n]]
  BY <1>2 DEF Iterates, steps
<1> DEFINE r == [n \in 0..K |-> f[n]]
<1>4. ASSUME NEW n \in 0..K, n # 0 PROVE f[n] = step[r[n - 1]]
  <2>1. n - 1 \in Nat /\ (n - 1) + 1 = n /\ n - 1 \in 0..K  BY <1>4
  <2> QED BY <1>3, <2>1
<1>5. Walks(r)  BY <1>3, <1>4 DEF IsWalk
<1> DEFINE h == CHOOSE g : Walks(g)
<1>6. Walks(h)
  <2> HIDE DEF Walks, r
  <2> QED BY <1>5
<1>7. h = CHOOSE g : IsWalk(g, K, x, step)  OBVIOUS
<1> HIDE DEF h
<1>8. h = [n \in 0..K |-> IF n = 0 THEN x ELSE step[h[n - 1]]]  BY <1>6 DEF IsWalk
<1> DEFINE T == {n \in Nat : n <= K => h[n] \in S}
<1>9. 0 \in T  BY <1>8
<1>10. ASSUME NEW n \in Nat, n \in T PROVE n + 1 \in T
  <2> SUFFICES ASSUME n + 1 <= K PROVE h[n + 1] \in S
    OBVIOUS
  <2>1. n + 1 \in 0..K /\ n + 1 # 0 /\ (n + 1) - 1 = n  OBVIOUS
  <2>2. h[n + 1] = step[h[n]]  BY <1>8, <2>1
  <2>3. h[n] \in S  BY <1>10
  <2> QED BY <2>2, <2>3
<1>11. K \in T
  <2> HIDE DEF T
  <2> QED BY <1>9, <1>10, SetInduction
<1> QED BY <1>7, <1>11

(* The interpreter stays in the bytecode. *)
LEMMA NextInstructionOK ==
  ASSUME IsBytecode(code), NEW p \in DOMAIN code
  PROVE  NextInstruction(p) \in DOMAIN code
<1> DEFINE X == DOMAIN code
           K == Len(code)
           step == [q \in X |->
                      IF ~Silent(q) THEN q ELSE IF code[q].op = "GOTO" THEN code[q].to ELSE q + 1]
<1>1. K \in Nat  BY DEF IsBytecode
<1>2. step \in [X -> X]  BY Bytecode DEF Silent
<1>3. NextInstruction(p) = (CHOOSE h : IsWalk(h, K, p, step))[K]
  BY DEF NextInstruction, IsWalk
<1> HIDE DEF X, K, step
<1>4. p \in X /\ X \in SUBSET X /\ \A s \in X : step[s] \in X  BY <1>2 DEF X
<1>5. (CHOOSE h : IsWalk(h, K, p, step))[K] \in X  BY <1>1, <1>2, <1>4, WalkStays
<1> QED BY <1>3, <1>5 DEF X

(* The compiled code stays in the graph. *)
LEMMA NextPlaceOK ==
  ASSUME IsBytecode(code), NEW bs, BlocksOK(bs, code), NEW d, PlaceOK(d, bs)
  PROVE  PlaceOK(NextPlace(bs, d), bs)
<1> DEFINE X == [block : DOMAIN bs, index : Nat, checked : BOOLEAN]
           S == [block : DOMAIN bs, index : Nat \ {0}, checked : BOOLEAN]
           K == Len(bs) + Len(code)
           step == [c \in X |->
                     IF c.index <= Len(bs[c.block].ins)
                     THEN IF Silent(bs[c.block].ins[c.index])
                          THEN Place(c.block, c.index + 1, TRUE) ELSE c
                     ELSE IF bs[c.block].end.op = "goto"
                          THEN Place(bs[c.block].end.to[1], 1, c.checked) ELSE c]
<1>1. K \in Nat  BY DEF IsBytecode, BlocksOK
<1>2. ASSUME NEW c \in X
      PROVE  step[c] \in X /\ (step[c] = c \/ step[c].index # 0)
  <2>1. c.block \in DOMAIN bs /\ c.index \in Nat /\ c.checked \in BOOLEAN  OBVIOUS
  <2>2. ASSUME bs[c.block].end.op = "goto" PROVE bs[c.block].end.to[1] \in DOMAIN bs
    <3> DEFINE q == bs[c.block].end.to
    <3>1. bs \in Seq(Block) /\ Range(q) \subseteq DOMAIN bs /\ Len(q) = 1
      BY <2>1, <2>2 DEF BlocksOK, EndOK
    <3>2. q \in Seq(Nat)  BY <2>1, <3>1, BlockSeq
    <3> HIDE DEF q
    <3>3. q[1] \in Range(q)  BY <3>1, <3>2, RangeMember
    <3> QED BY <3>1, <3>3 DEF q
  <2>3. \A b \in DOMAIN bs, i \in Nat, k \in BOOLEAN :
           Place(b, i, k) \in X /\ Place(b, i, k).index = i
    BY DEF Place
  <2>4. CASE c.index <= Len(bs[c.block].ins)
    <3>1. CASE Silent(bs[c.block].ins[c.index])
      <4>1. step[c] = Place(c.block, c.index + 1, TRUE)  BY <2>4, <3>1
      <4> DEFINE w == c.index + 1
      <4>2. w \in Nat /\ w # 0  BY <2>1
      <4>2a. step[c] = Place(c.block, w, TRUE)  BY <4>1
      <4> HIDE DEF step, X, w
      <4>3. Place(c.block, w, TRUE) \in X /\ Place(c.block, w, TRUE).index = w
        BY <2>1, <2>3, <4>2
      <4> QED BY <4>2, <4>2a, <4>3
    <3>2. CASE ~Silent(bs[c.block].ins[c.index])
      BY <2>4, <3>2
    <3> QED BY <3>1, <3>2
  <2>5. CASE ~(c.index <= Len(bs[c.block].ins))
    <3>1. CASE bs[c.block].end.op = "goto"
      <4>1. step[c] = Place(bs[c.block].end.to[1], 1, c.checked)  BY <2>5, <3>1
      <4> HIDE DEF step, X
      <4> QED BY <2>1, <2>2, <2>3, <3>1, <4>1
    <3>2. CASE bs[c.block].end.op # "goto"
      BY <2>5, <3>2
    <3> QED BY <3>1, <3>2
  <2> QED BY <2>4, <2>5
<1>3. step \in [X -> X]
  <2>1. DOMAIN step = X /\ \A c \in X : step[c] \in X  BY <1>2
  <2>2. step = [c \in X |-> step[c]]  OBVIOUS
  <2> HIDE DEF step, X
  <2> QED BY <2>1, <2>2
<1>4. d \in S  BY DEF PlaceOK
<1>5. S \in SUBSET X  OBVIOUS
<1>6. \A c \in S : step[c] \in S
  <2>1. \A c \in X : c \in S <=> c.index # 0  OBVIOUS
  <2> HIDE DEF step, X, S
  <2> QED BY <1>2, <1>5, <2>1
<1>7. NextPlace(bs, d) = (CHOOSE h : IsWalk(h, K, d, step))[K]
  BY DEF NextPlace, IsWalk
<1> HIDE DEF X, S, K, step
<1>8. (CHOOSE h : IsWalk(h, K, d, step))[K] \in S  BY <1>1, <1>3, <1>4, <1>5, <1>6, WalkStays
<1> QED BY <1>7, <1>8 DEF S, PlaceOK

(* The list n of blocks has all that bs has. *)
Listed(n) == \E k \in Nat : n = [i \in 1..k |-> n[i]]

Stays(bs, n) == Listed(n) /\ DOMAIN bs \subseteq DOMAIN n

LEMMA StaysSelf ==
  ASSUME NEW X, NEW bs \in Seq(X)
  PROVE  Stays(bs, bs)
BY DEF Stays, Listed

LEMMA StaysAppend ==
  ASSUME NEW bs, NEW n, Stays(bs, n), NEW x
  PROVE  Stays(bs, Append(n, x))
<1>1. PICK k \in Nat : n = [i \in 1..k |-> n[i]]  BY DEF Stays, Listed
<1> DEFINE V == {n[i] : i \in 1..k} \cup {x}
<1>2. n \in Seq(V) /\ x \in V
  <2>1. \A i \in 1..k : n[i] \in V  OBVIOUS
  <2> HIDE DEF V
  <2>2. [i \in 1..k |-> n[i]] \in Seq(V)  BY <1>1, <2>1
  <2>3. x \in V  BY DEF V
  <2> QED BY <1>1, <2>2, <2>3
<1> HIDE DEF V
<1>3. /\ Append(n, x) \in Seq(V) /\ DOMAIN n = 1..Len(n) /\ Len(n) \in Nat
      /\ DOMAIN Append(n, x) = 1..(Len(n) + 1)
  BY <1>2
<1>4. Listed(Append(n, x))
  <2> DEFINE m == Append(n, x)
             l == Len(n) + 1
  <2>1. m \in Seq(V) /\ DOMAIN m = 1..l /\ l \in Nat  BY <1>3
  <2> HIDE DEF m, l
  <2>2. m = [i \in DOMAIN m |-> m[i]]  BY <2>1
  <2> QED BY <2>1, <2>2 DEF Listed, m
<1> QED BY <1>3, <1>4 DEF Stays

(* Changes of single blocks. *)
LEMMA StaysSame ==
  ASSUME NEW bs, NEW n, Stays(bs, n), NEW m, DOMAIN m = DOMAIN n, m = [i \in DOMAIN m |-> m[i]]
  PROVE  Stays(bs, m)
<1>1. PICK k \in Nat : n = [i \in 1..k |-> n[i]]  BY DEF Stays, Listed
<1>2. DOMAIN n = 1..k  BY <1>1
<1> QED BY <1>2 DEF Stays, Listed

LEMMA StaysChanged ==
  ASSUME NEW bs, NEW n, Stays(bs, n), NEW b, NEW x
  PROVE  /\ Stays(bs, End(n, b, x))
         /\ Stays(bs, addPredecessor(n, b, x))
         /\ Stays(bs, jsop_loophead(n, b, x))
         /\ Stays(bs, [n EXCEPT ![b].header = TRUE])
         /\ Stays(bs, [n EXCEPT ![b].pred = x])
<1>1. Stays(bs, End(n, b, x))  BY StaysSame DEF End
<1>2. Stays(bs, addPredecessor(n, b, x))  BY StaysSame DEF addPredecessor
<1>3. Stays(bs, jsop_loophead(n, b, x))  BY StaysSame DEF jsop_loophead
<1>4. Stays(bs, [n EXCEPT ![b].header = TRUE])  BY StaysSame
<1>5. Stays(bs, [n EXCEPT ![b].pred = x])  BY StaysSame
<1> QED BY <1>1, <1>2, <1>3, <1>4, <1>5

LEMMA StaysJoin ==
  ASSUME NEW bs, NEW n, Stays(bs, n), NEW preds, NEW p
  PROVE  Stays(bs, Join(n, preds, p))
<1> DEFINE m == [b \in DOMAIN n |->
                   IF b \in Range(preds)
                   THEN [n[b] EXCEPT !.end = MGoto(Len(n) + 1)] ELSE n[b]]
<1>1. Stays(bs, m)
  <2>1. DOMAIN m = DOMAIN n /\ m = [i \in DOMAIN m |-> m[i]]  OBVIOUS
  <2> HIDE DEF m
  <2> QED BY <2>1, StaysSame
<1>2. Join(n, preds, p) = Append(m, MBasicBlock(p, preds))  BY DEF Join
<1> HIDE DEF m
<1> QED BY <1>1, <1>2, StaysAppend

LEMMA StaysTwo ==
  ASSUME NEW bs, NEW n, Stays(bs, n), NEW x, NEW y
  PROVE  Stays(bs, n \o <<x, y>>)
<1>1. PICK k \in Nat : n = [i \in 1..k |-> n[i]]  BY DEF Stays, Listed
<1> DEFINE V == {n[i] : i \in 1..k} \cup {x, y}
<1>2. n \in Seq(V) /\ x \in V /\ y \in V
  <2>1. \A i \in 1..k : n[i] \in V  OBVIOUS
  <2>2. x \in V /\ y \in V  OBVIOUS
  <2> HIDE DEF V
  <2>3. [i \in 1..k |-> n[i]] \in Seq(V)  BY <1>1, <2>1
  <2> QED BY <1>1, <2>2, <2>3
<1> HIDE DEF V
<1>3. n \o <<x, y>> = Append(Append(n, x), y)  BY <1>2
<1> QED BY <1>3, StaysAppend

(* What a handler does to what runs beside it. *)
Effect ==
  /\ code' = code /\ at' = at /\ pos' = pos /\ interrupt' = interrupt
  /\ Stays(blocks, blocks')
  /\ status' \in {"building", "aborted"} \/ (status' = "crashed" /\ broken')

LEMMA EffectOK ==
  ASSUME RunOK, Effect
  PROVE  RunOK'
<1>1. code' = code /\ at' = at /\ pos' = pos /\ interrupt' = interrupt
  BY DEF Effect
<1>2. DOMAIN blocks \subseteq DOMAIN blocks'  BY DEF Effect, Stays
<1>3. PlaceOK(pos, blocks')  BY <1>2 DEF RunOK, PlaceOK
<1> QED BY <1>1, <1>2, <1>3 DEF Effect, RunOK, CrashesOnlyIfBroken

LEMMA StaysHere ==
  ASSUME BuildOK
  PROVE  Stays(blocks, blocks)
BY Found, StaysSelf

(* A handler at the end of a structure, and one of an opcode. *)
LEMMA EffectFound ==
  /\ \A states : AtStop(states) => status = "building" /\ Unbuilt
  /\ \A ops, notes : AtOp(ops, notes) => status = "building" /\ Unbuilt
BY DEF AtStop, AtOp

LEMMA EffectOf ==
  ASSUME status = "building", Unbuilt, Stays(blocks, blocks'), status' = status
  PROVE  Effect
BY DEF Effect, Unbuilt

LEMMA EffectIf ==
  ASSUME BuildOK, processIfEnd \/ processIfElseTrueEnd \/ processIfElseFalseEnd
  PROVE  Effect
<1>1. Stays(blocks, blocks)  BY StaysHere
<1>2. CASE processIfEnd
  <2> DEFINE n == JumpTo(blocks, current, Top.ifFalse)
  <2>1. Stays(blocks, n)  BY <1>1, StaysChanged DEF JumpTo
  <2>2. blocks' = blocks \/ blocks' = n  BY <1>2 DEF processIfEnd
  <2> HIDE DEF n
  <2>3. Stays(blocks, blocks')  BY <1>1, <2>1, <2>2
  <2>4. status = "building" /\ Unbuilt /\ status' = status  BY <1>2, EffectFound DEF processIfEnd
  <2> QED BY <2>3, <2>4, EffectOf
<1>3. CASE processIfElseTrueEnd
  <2>1. status = "building" /\ Unbuilt /\ status' = status /\ blocks' = blocks
    BY <1>3, EffectFound DEF processIfElseTrueEnd
  <2> QED BY <1>1, <2>1, EffectOf
<1>4. CASE processIfElseFalseEnd
  <2> DEFINE n == Join(blocks, Present(Top.ifTrue) \o Present(current), Top.falseEnd)
  <2>1. Stays(blocks, n)  BY <1>1, StaysJoin
  <2>2. blocks' = blocks \/ blocks' = n  BY <1>4 DEF processIfElseFalseEnd
  <2> HIDE DEF n
  <2>3. Stays(blocks, blocks')  BY <1>1, <2>1, <2>2
  <2>4. status = "building" /\ Unbuilt /\ status' = status
    BY <1>4, EffectFound DEF processIfElseFalseEnd
  <2> QED BY <2>3, <2>4, EffectOf
<1> QED BY <1>2, <1>3, <1>4

(* The end of a loop. *)
LEMMA LeaveStays ==
  ASSUME NEW bs, NEW o, NEW s, Leave(bs, o, s), Stays(blocks, bs)
  PROVE  Stays(blocks, blocks') /\ status' = status
<1> DEFINE n == Join(bs, IF s = NULL THEN Top.breaks ELSE Append(Top.breaks, s), Top.exitpc)
<1>1. Stays(blocks, n)  BY StaysJoin
<1>2. blocks' = bs \/ blocks' = n  BY DEF Leave
<1>3. status' = status  BY DEF Leave
<1> HIDE DEF n
<1> QED BY <1>1, <1>2, <1>3

LEMMA FinishStays ==
  ASSUME NEW bs, NEW o, NEW b, NEW s, finishLoop(bs, o, b, s), Stays(blocks, bs)
  PROVE  Stays(blocks, blocks') /\ status' = status
<1> DEFINE n == addPredecessor(bs, Top.entry, b)
           m == [n EXCEPT ![Top.entry].header = TRUE]
<1>1. Stays(blocks, n)  BY StaysChanged
<1>2. Leave(m, o, s)  BY DEF finishLoop
<1> HIDE DEF n
<1>3. Stays(blocks, m)  BY <1>1, StaysChanged
<1> HIDE DEF m
<1> QED BY <1>2, <1>3, LeaveStays

LEMMA CloseStays ==
  ASSUME BuildOK, NEW bs, NEW o, NEW b, CloseLoop(bs, o, b), Stays(blocks, bs)
  PROVE  Stays(blocks, blocks') /\ status' = status
<1>1. CASE b = NULL
  <2>1. Leave(blocks, order, Top.successor)  BY <1>1 DEF CloseLoop, processBrokenLoop
  <2> QED BY <2>1, LeaveStays, StaysHere
<1>2. CASE b # NULL
  <2> DEFINE n == End(bs, b, MGoto(Top.entry))
  <2>1. finishLoop(n, o, b, Top.successor)  BY <1>2 DEF CloseLoop
  <2>2. Stays(blocks, n)  BY StaysChanged
  <2> HIDE DEF n
  <2> QED BY <2>1, <2>2, FinishStays
<1> QED BY <1>1, <1>2

LEMMA ContinuedStays ==
  ASSUME BuildOK
  PROVE  Stays(blocks, Continued.blocks)
<1> DEFINE n == Join(blocks, <<Head(Top.continues)>> \o Present(current) \o Tail(Top.continues),
                     Last(loops).continuepc)
<1>1. Continued.blocks = blocks \/ Continued.blocks = n  BY DEF Continued
<1>2. Stays(blocks, blocks) /\ Stays(blocks, n)  BY StaysHere, StaysJoin
<1> HIDE DEF n
<1> QED BY <1>1, <1>2

LEMMA EffectLoop ==
  ASSUME BuildOK,
         \/ processDoWhileBodyEnd \/ processDoWhileCondEnd
         \/ processWhileCondEnd \/ processWhileBodyEnd
         \/ processForBodyEnd \/ processForUpdateEnd
  PROVE  Effect
<1>1. status = "building" /\ Unbuilt
  BY EffectFound DEF processDoWhileBodyEnd, processDoWhileCondEnd, processWhileCondEnd,
       processWhileBodyEnd, processForBodyEnd, processForUpdateEnd
<1>2. Stays(blocks, blocks) /\ Stays(blocks, Continued.blocks)  BY StaysHere, ContinuedStays
<1> SUFFICES Stays(blocks, blocks') /\ status' = status
  BY <1>1, EffectOf
<1>3. CASE processDoWhileBodyEnd
  <2> DEFINE n == Join(Continued.blocks, <<Continued.current>>, Top.updatepc)
  <2>1. Leave(blocks, order, Top.successor) \/ (blocks' = n /\ status' = status)
    BY <1>3 DEF processDoWhileBodyEnd, processBrokenLoop
  <2>2. Stays(blocks, n)  BY <1>2, StaysJoin
  <2> HIDE DEF n
  <2> QED BY <1>2, <2>1, <2>2, LeaveStays
<1>4. CASE processDoWhileCondEnd
  <2> DEFINE m == End(blocks, current, MTest(pc, Top.entry, New))
             n == Append(m, MBasicBlock(pc + 1, <<current>>))
  <2>1. finishLoop(n, Append(order, New), current, New)  BY <1>4 DEF processDoWhileCondEnd
  <2>2. Stays(blocks, m)  BY <1>2, StaysChanged
  <2> HIDE DEF m
  <2>3. Stays(blocks, n)  BY <2>2, StaysAppend
  <2> HIDE DEF n
  <2> QED BY <2>1, <2>3, FinishStays
<1>5. CASE processWhileCondEnd
  <2> DEFINE m == End(blocks, current, MTest(pc, New, New + 1))
             x == MBasicBlock(Top.bodyStart, <<current>>)
             y == MBasicBlock(Top.exitpc, <<current>>)
  <2>1. blocks' = m \o <<x, y>> /\ status' = status  BY <1>5 DEF processWhileCondEnd
  <2>2. Stays(blocks, m)  BY <1>2, StaysChanged
  <2> HIDE DEF m, x, y
  <2> QED BY <2>1, <2>2, StaysTwo
<1>6. CASE processWhileBodyEnd
  <2>1. CloseLoop(Continued.blocks, Continued.order, Continued.current)
    BY <1>6 DEF processWhileBodyEnd
  <2> QED BY <1>2, <2>1, CloseStays
<1>7. CASE processForBodyEnd
  <2>1. \/ CloseLoop(Continued.blocks, Continued.order, Continued.current)
        \/ blocks' = Continued.blocks /\ status' = status
    BY <1>7 DEF processForBodyEnd
  <2> QED BY <1>2, <2>1, CloseStays
<1>8. CASE processForUpdateEnd
  <2>1. CloseLoop(blocks, order, current)  BY <1>8 DEF processForUpdateEnd
  <2> QED BY <1>2, <2>1, CloseStays
<1> QED BY <1>3, <1>4, <1>5, <1>6, <1>7, <1>8

LEMMA EffectFakeIf ==
  ASSUME BuildOK, processFakeIf \/ processFakeIfEnd
  PROVE  Effect
<1>1. status = "building" /\ Unbuilt /\ Stays(blocks, blocks)
  BY EffectFound, StaysHere DEF processFakeIf, processFakeIfEnd
<1>2. CASE processFakeIf
  <2> DEFINE m == End(blocks, current, MGoto(Top.entry))
             n == [m EXCEPT ![Top.entry].pred = <<current>>]
  <2>1. blocks' = n /\ status' = status  BY <1>2 DEF processFakeIf
  <2>2. Stays(blocks, m)  BY <1>1, StaysChanged
  <2> HIDE DEF m
  <2>3. Stays(blocks, n)  BY <2>2, StaysChanged
  <2> QED BY <1>1, <2>1, <2>3, EffectOf
<1>3. CASE processFakeIfEnd
  <2>1. CASE current = NULL
    <3>1. cfgStack # <<>> /\ Last(cfgStack).state = "FAKE_IF_END"
      BY <1>3 DEF processFakeIfEnd, AtStop, Top
    <3>2. broken
      <4>1. TopOK(current, pc, cfgStack, order, broken)  BY Found
      <4> QED BY <2>1, <3>1, <4>1 DEF TopOK
    <3>3. status' = "crashed" /\ blocks' = blocks /\ broken' = broken
      BY <1>3, <2>1 DEF processFakeIfEnd
    <3> QED BY <1>1, <3>2, <3>3 DEF Effect, Unbuilt
  <2>2. CASE current # NULL
    <3> DEFINE b == Head(blocks[Top.entry].pred)
               m == End(blocks, b, MTest(Top.stopAt - 1, Top.entry, current))
               n == addPredecessor(m, current, b)
    <3>1. blocks' = n /\ status' = status  BY <1>3, <2>2 DEF processFakeIfEnd
    <3>2. Stays(blocks, m)  BY <1>1, StaysChanged
    <3> HIDE DEF m, b
    <3>3. Stays(blocks, n)  BY <3>2, StaysChanged
    <3> QED BY <1>1, <3>1, <3>3, EffectOf
  <2> QED BY <2>1, <2>2
<1> QED BY <1>2, <1>3

LEMMA EffectOpcode ==
  ASSUME BuildOK,
         inspectOpcode \/ jsop_ifeq \/ jsop_andor \/ processReturn \/ processJump \/ abort
         \/ ReadStaleLoop
  PROVE  Effect
<1>1. status = "building" /\ Unbuilt /\ Stays(blocks, blocks)
  BY EffectFound, StaysHere DEF inspectOpcode, jsop_ifeq, jsop_andor, processReturn,
       processJump, abort, ReadStaleLoop
<1>2. CASE inspectOpcode
  <2> DEFINE n == jsop_loophead(blocks, current, pc)
  <2>1. (blocks' = blocks \/ blocks' = n) /\ status' = status
    BY <1>2 DEF inspectOpcode, jsop_loophead
  <2>2. Stays(blocks, n)  BY <1>1, StaysChanged
  <2> HIDE DEF n
  <2> QED BY <1>1, <2>1, <2>2, EffectOf
<1>3. CASE jsop_ifeq \/ jsop_andor
  <2> DEFINE m == End(blocks, current, MTest(pc, New, New + 1))
             x == MBasicBlock(pc + 1, <<current>>)
             y == MBasicBlock(Op.to, <<current>>)
  <2>1. blocks' = m \o <<x, y>> /\ status' = status  BY <1>3 DEF jsop_ifeq, jsop_andor
  <2>2. Stays(blocks, m)  BY <1>1, StaysChanged
  <2> HIDE DEF m, x, y
  <2>3. Stays(blocks, m \o <<x, y>>)  BY <2>2, StaysTwo
  <2> QED BY <1>1, <2>1, <2>3, EffectOf
<1>4. CASE processReturn
  <2>1. blocks' = End(blocks, current, MReturn(pc)) /\ status' = status
    BY <1>4 DEF processReturn
  <2> QED BY <1>1, <2>1, StaysChanged, EffectOf
<1>5. CASE processJump
  <2>1. blocks' = blocks /\ status' = status  BY <1>5 DEF processJump, Defer
  <2> QED BY <1>1, <2>1, EffectOf
<1>6. CASE abort
  <2>1. blocks' = blocks /\ status' = "aborted"  BY <1>6 DEF abort
  <2> QED BY <1>1, <2>1 DEF Effect, Unbuilt
<1>7. CASE ReadStaleLoop
  <2>1. blocks' = blocks /\ status' = "crashed" /\ broken' = broken  BY <1>7 DEF ReadStaleLoop
  <2>2. broken  BY <1>7, SearchSucceeds
  <2> QED BY <1>1, <2>1, <2>2 DEF Effect, Unbuilt
<1> QED BY <1>2, <1>3, <1>4, <1>5, <1>6, <1>7

LEMMA EffectNewLoop ==
  ASSUME BuildOK, doWhileLoop \/ whileLoop \/ invertedLoop \/ forLoop
  PROVE  Effect
<1>1. status = "building" /\ Unbuilt /\ Stays(blocks, blocks)
  BY EffectFound, StaysHere DEF doWhileLoop, whileLoop, invertedLoop, forLoop
<1>2. ASSUME NEW p, NEW q PROVE Stays(blocks, jsop_loophead(Join(blocks, <<current>>, p), New, q))
  <2> DEFINE n == Join(blocks, <<current>>, p)
  <2>1. Stays(blocks, n)  BY <1>1, StaysJoin
  <2> HIDE DEF n
  <2>2. Stays(blocks, jsop_loophead(n, New, q))  BY <2>1, StaysChanged
  <2> QED BY <2>2 DEF n
<1>3. CASE doWhileLoop \/ whileLoop
  <2>1. /\ blocks' = jsop_loophead(Join(blocks, <<current>>, pc), New, pc + 1)
        /\ status' = status
    BY <1>3 DEF doWhileLoop, whileLoop
  <2> QED BY <1>1, <1>2, <2>1, EffectOf
<1>4. CASE invertedLoop
  <2> DEFINE m == jsop_loophead(Join(blocks, <<current>>, pc), New, pc + 1)
             x == MBasicBlock(pc, <<New>>)
  <2>1. blocks' = Append(m, x) /\ status' = status  BY <1>4 DEF invertedLoop
  <2>2. Stays(blocks, m)  BY <1>2
  <2> HIDE DEF m, x
  <2> QED BY <1>1, <2>1, <2>2, StaysAppend, EffectOf
<1>5. CASE forLoop
  <2> DEFINE h == IF Op.cond # Op.ifne THEN (pc + 1) + 1 ELSE pc + 1
  <2>1. blocks' = jsop_loophead(Join(blocks, <<current>>, pc + 1), New, h) /\ status' = status
    BY <1>5 DEF forLoop
  <2> QED BY <1>1, <1>2, <2>1, EffectOf
<1> QED BY <1>3, <1>4, <1>5

(* The graph is complete. *)
LEMMA StepFinish ==
  ASSUME BuildOK, RunOK, Finish
  PROVE  BuildOK' /\ RunOK'
<1>1. /\ code' = code /\ pc' = pc /\ current' = current /\ blocks' = blocks /\ order' = order
      /\ cfgStack' = cfgStack /\ loops' = loops /\ broken' = broken /\ interrupt' = interrupt
      /\ status' = "built" /\ current = NULL /\ cfgStack = <<>>
      /\ at' = NextInstruction(1) /\ pos' = NextPlace(blocks, Place(1, 1, FALSE))
  BY DEF Finish
<1>2. BuildOK'  BY <1>1 DEF BuildOK
<1>3. IsBytecode(code) /\ BlocksOK(blocks, code)  BY Found DEF GraphOK
<1>4. at' \in DOMAIN code
  <2>1. 1 \in DOMAIN code  BY <1>3, Bytecode
  <2> QED BY <1>1, <1>3, <2>1, NextInstructionOK
<1>5. PlaceOK(pos', blocks)
  <2>1. PlaceOK(Place(1, 1, FALSE), blocks)  BY DEF RunOK, PlaceOK, Place
  <2> QED BY <1>1, <1>3, <2>1, NextPlaceOK
<1>6. RunOK'  BY <1>1, <1>4, <1>5 DEF RunOK, CrashesOnlyIfBroken
<1> QED BY <1>2, <1>6

(* A step of the interpreter and the compiled code. *)
LEMMA StepRun ==
  ASSUME BuildOK, RunOK, Run
  PROVE  BuildOK' /\ RunOK'
<1>1. /\ code' = code /\ pc' = pc /\ current' = current /\ blocks' = blocks /\ order' = order
      /\ cfgStack' = cfgStack /\ loops' = loops /\ status' = status /\ broken' = broken
      /\ code[at].op \notin {"RETURN", "STOP"} /\ ~Silent(at) /\ MadeFrom(blocks, pos) = at
      /\ interrupt' = (interrupt /\ ~pos'.checked)
  BY DEF Run, Running, building
<1>2. BuildOK'  BY <1>1 DEF BuildOK
<1>3. IsBytecode(code) /\ BlocksOK(blocks, code) /\ blocks \in Seq(Block)  BY Found DEF GraphOK
<1>4. at \in DOMAIN code /\ PlaceOK(pos, blocks) /\ interrupt \in BOOLEAN  BY DEF RunOK
<1>5. PICK true \in BOOLEAN :
         LET jumps == \/ code[at].op \in {"IFEQ", "AND"} /\ ~true
                      \/ code[at].op = "IFNE" /\ true
             next  == IF code[at].op = "OP" THEN Place(pos.block, pos.index + 1, FALSE)
                      ELSE Place(blocks[pos.block].end.to[IF true THEN 1 ELSE 2], 1, FALSE)
         IN  /\ at' = NextInstruction(IF jumps THEN code[at].to ELSE at + 1)
             /\ pos' = NextPlace(blocks, next)
  BY DEF Run
<1> DEFINE jumps == \/ code[at].op \in {"IFEQ", "AND"} /\ ~true
                    \/ code[at].op = "IFNE" /\ true
           p == IF jumps THEN code[at].to ELSE at + 1
           next == IF code[at].op = "OP" THEN Place(pos.block, pos.index + 1, FALSE)
                   ELSE Place(blocks[pos.block].end.to[IF true THEN 1 ELSE 2], 1, FALSE)
<1>6. at' = NextInstruction(p) /\ pos' = NextPlace(blocks, next)  BY <1>5
<1>7. p \in DOMAIN code  BY <1>1, <1>3, <1>4, Bytecode DEF Silent
<1>8. PlaceOK(next, blocks)
  <2> DEFINE b == pos.block
             k == pos.index
             e == blocks[b].end
  <2>1. b \in DOMAIN blocks /\ k \in Nat /\ k # 0  BY <1>4 DEF PlaceOK
  <2>2. CASE code[at].op = "OP"
    <3> DEFINE w == k + 1
    <3>1. w \in Nat \ {0}  BY <2>1
    <3>2. next = Place(b, w, FALSE)  BY <2>2
    <3> HIDE DEF next, b, w
    <3> QED BY <2>1, <3>1, <3>2 DEF PlaceOK, Place
  <2>3. CASE code[at].op # "OP"
    <3> DEFINE q == blocks[b].ins
    <3>1. /\ q \in Seq(Nat) /\ e \in Control /\ EndOK(e, DOMAIN blocks, code) /\ InsOK(q, code)
          /\ e.to \in Seq(Nat) /\ e.op \in {"none", "goto", "test", "return"}
      BY <1>3, <2>1, BlockSeq DEF BlocksOK
    <3>2. at = IF k <= Len(q) THEN q[k] ELSE e.pc  BY <1>1 DEF MadeFrom
    <3>3. next = Place(e.to[IF true THEN 1 ELSE 2], 1, FALSE)  BY <2>3
    <3> HIDE DEF next, b, k, e, q
    <3>4. ~(k <= Len(q))
      <4> SUFFICES ASSUME k <= Len(q) PROVE FALSE
        OBVIOUS
      <4>1. k \in DOMAIN q  BY <2>1, <3>1
      <4>2. code[at].op = "LOOPHEAD"  BY <2>3, <3>1, <3>2, <4>1 DEF InsOK
      <4> QED BY <1>1, <4>2 DEF Silent
    <3>5. at = e.pc  BY <3>2, <3>4
    <3>6. at # 0
      <4>1. code \in Seq(Instruction)  BY <1>3, Bytecode
      <4> QED BY <1>4, <4>1
    <3>7. e.op = "test"  BY <1>1, <3>1, <3>5, <3>6 DEF EndOK, NULL
    <3>8. Len(e.to) = 2 /\ Range(e.to) \subseteq DOMAIN blocks  BY <3>1, <3>7 DEF EndOK
    <3> DEFINE i == IF true THEN 1 ELSE 2
               z == e.to[i]
    <3>8a. i = 1 \/ i = 2  BY Zenon
    <3> HIDE DEF i
    <3>9. i \in 1..2  BY <3>8a
    <3>10. z \in DOMAIN blocks  BY <3>1, <3>8, <3>9, RangeMember
    <3>11. next = Place(z, 1, FALSE)  BY <3>3 DEF i
    <3> HIDE DEF z
    <3> QED BY <3>10, <3>11 DEF PlaceOK, Place
  <2> QED BY <2>2, <2>3
<1> HIDE DEF p, next
<1>9. at' \in DOMAIN code  BY <1>3, <1>6, <1>7, NextInstructionOK
<1>10. PlaceOK(pos', blocks)  BY <1>3, <1>6, <1>8, NextPlaceOK
<1>11. interrupt' \in BOOLEAN  BY <1>1
<1>12. RunOK'  BY <1>1, <1>9, <1>10, <1>11 DEF RunOK, CrashesOnlyIfBroken
<1> QED BY <1>2, <1>12

-----------------------------------------------------------------------------
(* The theorems. *)

LEMMA InitOK ==
  ASSUME Init
  PROVE  BuildOK /\ RunOK
<1> DEFINE b == MBasicBlock(1, <<>>)
<1>1. /\ pc = 1 /\ current = 1 /\ blocks = <<b>> /\ order = <<1>> /\ cfgStack = <<>>
      /\ loops = <<>> /\ status = "building" /\ broken = FALSE /\ at = 1
      /\ pos = Place(1, 1, FALSE) /\ interrupt = FALSE
      /\ IsBytecode(code)
  BY ProgramsAssumption DEF Init
<1>2. 1 \in DOMAIN code  BY <1>1, Bytecode
<1>3. b \in Block /\ b.end = NoEnd /\ b.pred = <<>> /\ b.ins = <<>>
  <2>1. <<>> \in Seq(Nat)  OBVIOUS
  <2> QED BY <2>1, Ends DEF MBasicBlock, Block
<1> HIDE DEF b
<1>4. blocks \in Seq(Block) /\ DOMAIN blocks = {1} /\ blocks[1] = b
  BY <1>1, <1>3
<1>5. BlocksOK(blocks, code)
  <2>1. EndOK(NoEnd, DOMAIN blocks, code)  BY EndTargets DEF EndOK, NoEnd, NULL
  <2>2. InsOK(<<>>, code)  BY DEF InsOK
  <2> QED BY <1>3, <1>4, <2>1, <2>2 DEF BlocksOK
<1>6. EdgesOK(blocks, {})
  <2>1. NoRepeats(<<>>) /\ Range(<<>>) = {}  BY RangeOfNone
  <2>2. Range(NoEnd.to) = {}  BY EndTargets
  <2> QED BY <1>3, <1>4, <2>1, <2>2 DEF EdgesOK
<1>7. OrderOK(blocks, order, {})
  <2>1. order \in Seq(Nat) /\ NoRepeats(order) /\ Range(order) = {1}  BY <1>1, RangeOfOne
  <2>2. DOMAIN b.pred = {}  BY <1>3
  <2> QED BY <1>4, <2>1, <2>2 DEF OrderOK
<1>8. DOMAIN cfgStack = {} /\ cfgStack \in Seq(Level) /\ Unentered(cfgStack) = {}
  BY <1>1 DEF Unentered
<1>9. Frame(cfgStack, blocks, order, code)
  <2>1. Shape(cfgStack)  BY <1>8 DEF Shape
  <2>2. Levels(cfgStack, blocks, {}, code)  BY <1>8 DEF Levels
  <2> QED BY <1>5, <1>6, <1>7, <1>8, <2>1, <2>2 DEF Frame, GraphOK
<1>10. CurrentOK(current, pc, cfgStack, blocks, code)
  BY <1>1, <1>2, <1>3, <1>4, <1>8 DEF CurrentOK, IsOpen, Unheld
<1>11. ExprOK(current, pc, cfgStack, code)  BY <1>8 DEF ExprOK
<1>12. TopOK(current, pc, cfgStack, order, broken)  BY <1>1 DEF TopOK
<1>13. LoopsOK(cfgStack, loops, broken)
  <2>1. loops \in Seq([cfgEntry : Nat, continuepc : Nat]) /\ DOMAIN loops = {}  BY <1>1
  <2>2. Loops(cfgStack) = {}  BY <1>8 DEF Loops
  <2>3. Matches([k \in {} |-> k], cfgStack, loops, broken)
    BY <2>1, <2>2 DEF Matches
  <2> QED BY <2>1, <2>3 DEF LoopsOK
<1>14. BuildOK
  BY <1>1, <1>9, <1>10, <1>11, <1>12, <1>13 DEF BuildOK, Good
<1>15. PlaceOK(pos, blocks)  BY <1>1, <1>4 DEF PlaceOK, Place
<1>16. RunOK  BY <1>1, <1>2, <1>4, <1>15 DEF RunOK, CrashesOnlyIfBroken
<1> QED BY <1>14, <1>16

LEMMA NextOK ==
  ASSUME BuildOK, RunOK, [Next]_vars
  PROVE  BuildOK' /\ RunOK'
<1>1. CASE processIfEnd  BY <1>1, StepIfEnd, EffectIf, EffectOK
<1>2. CASE processIfElseTrueEnd  BY <1>2, StepIfElseTrueEnd, EffectIf, EffectOK
<1>3. CASE processIfElseFalseEnd  BY <1>3, StepIfElseFalseEnd, EffectIf, EffectOK
<1>4. CASE processDoWhileBodyEnd  BY <1>4, StepDoWhileBodyEnd, EffectLoop, EffectOK
<1>5. CASE processDoWhileCondEnd  BY <1>5, StepDoWhileCondEnd, EffectLoop, EffectOK
<1>6. CASE processWhileCondEnd  BY <1>6, StepWhileCondEnd, EffectLoop, EffectOK
<1>7. CASE processWhileBodyEnd  BY <1>7, StepWhileBodyEnd, EffectLoop, EffectOK
<1>8. CASE processForBodyEnd  BY <1>8, StepForBodyEnd, EffectLoop, EffectOK
<1>9. CASE processForUpdateEnd  BY <1>9, StepForUpdateEnd, EffectLoop, EffectOK
<1>10. CASE processFakeIf  BY <1>10, StepFakeIf, EffectFakeIf, EffectOK
<1>11. CASE processFakeIfEnd  BY <1>11, StepFakeIfEnd, EffectFakeIf, EffectOK
<1>12. CASE inspectOpcode  BY <1>12, StepInspectOpcode, EffectOpcode, EffectOK
<1>13. CASE jsop_ifeq  BY <1>13, StepIfeq, EffectOpcode, EffectOK
<1>14. CASE jsop_andor  BY <1>14, StepAndor, EffectOpcode, EffectOK
<1>15. CASE processReturn  BY <1>15, StepReturn, EffectOpcode, EffectOK
<1>16. CASE processJump  BY <1>16, StepJump, EffectOpcode, EffectOK
<1>17. CASE abort  BY <1>17, StepNone, EffectOpcode, EffectOK
<1>18. CASE ReadStaleLoop  BY <1>18, StepNone, EffectOpcode, EffectOK
<1>19. CASE doWhileLoop  BY <1>19, StepDoWhile, EffectNewLoop, EffectOK
<1>20. CASE whileLoop  BY <1>20, StepWhile, EffectNewLoop, EffectOK
<1>21. CASE invertedLoop  BY <1>21, StepInverted, EffectNewLoop, EffectOK
<1>22. CASE forLoop  BY <1>22, StepFor, EffectNewLoop, EffectOK
<1>23. CASE Finish  BY <1>23, StepFinish
<1>24. CASE Run  BY <1>24, StepRun
<1>25. CASE JS_TriggerOperationCallback
  <2>1. /\ UNCHANGED <<code, linv, building, at, pos>> /\ interrupt' = TRUE
    BY <1>25 DEF JS_TriggerOperationCallback
  <2> QED BY <2>1 DEF building, BuildOK, RunOK, CrashesOnlyIfBroken
<1>26. CASE UNCHANGED vars
  BY <1>26 DEF vars, building, BuildOK, RunOK, CrashesOnlyIfBroken
<1>27. Build => BuildOK' /\ RunOK'
  BY <1>1, <1>2, <1>3, <1>4, <1>5, <1>6, <1>7, <1>8, <1>9, <1>10, <1>11, <1>12, <1>13, <1>14,
     <1>15, <1>16, <1>17, <1>18, <1>19, <1>20, <1>21, <1>22, <1>23 DEF Build
<1> QED BY <1>24, <1>25, <1>26, <1>27 DEF Next

(* Whatever the bytecode and whether loops are inverted or not, the blocks   *)
(* and the control structures the builder has open fit together after every  *)
(* handler, and what runs afterwards stays in the bytecode and the graph.    *)
THEOREM Invariance == Spec => [](BuildOK /\ RunOK)
<1>1. Init => BuildOK /\ RunOK  BY InitOK
<1>2. BuildOK /\ RunOK /\ [Next]_vars => (BuildOK /\ RunOK)'  BY NextOK
<1> QED BY <1>1, <1>2, PTL DEF Spec

(* The builder's state is of its type; the list of the graph has exactly the *)
(* blocks that were made.                                                    *)
THEOREM TypeCorrect == Spec => []TypeOK
<1>1. BuildOK /\ RunOK => TypeOK
  <2> SUFFICES ASSUME BuildOK, RunOK PROVE TypeOK
    OBVIOUS
  <2>1. /\ pc \in Nat /\ current \in Nat /\ broken \in BOOLEAN /\ cfgStack \in Seq(Level)
        /\ Len(blocks) \in Nat /\ DOMAIN blocks = 1..Len(blocks)
        /\ OrderOK(blocks, order, Unentered(cfgStack))
        /\ CurrentOK(current, pc, cfgStack, blocks, code)
    BY Found DEF GraphOK
  <2>2. current \in 0..Len(blocks)  BY <2>1 DEF CurrentOK, IsOpen, NULL
  <2>3. Range(order) = DOMAIN blocks  BY <2>1 DEF OrderOK
  <2>4. \A i \in DOMAIN cfgStack : cfgStack[i].state \in State
    <3>1. \A i \in DOMAIN cfgStack : cfgStack[i] \in Level  BY <2>1
    <3> QED BY <3>1 DEF Level
  <2>5. pos.block \in DOMAIN blocks  BY DEF RunOK, PlaceOK
  <2> QED BY <2>1, <2>2, <2>3, <2>4, <2>5 DEF TypeOK, RunOK
<1> QED BY <1>1, Invariance, PTL

(* processFakeIfEnd always has a current block and the search of processJump *)
(* through loops_ always finds loops, but for the inverted loop that had no  *)
(* backedge.                                                                 *)
THEOREM CrashesOnlyAfterBrokenLoop == Spec => []CrashesOnlyIfBroken
<1>1. RunOK => CrashesOnlyIfBroken  BY DEF RunOK
<1> QED BY <1>1, Invariance, PTL

LEMMA IndexInOrder ==
  ASSUME order \in Seq(Nat), NoRepeats(order), NEW x, NEW y, Before(order, x, y)
  PROVE  Index(x) < Index(y)
<1>1. PICK i \in DOMAIN order, j \in DOMAIN order : i < j /\ order[i] = x /\ order[j] = y
  BY DEF Before
<1>2. \A z : Index(z) = LET I == {k \in 1..Len(order) : order[k] = z}
                         IN  IF I # {} THEN Min(I) ELSE 0
  BY DEF Index, SelectInSeq
<1>2a. ASSUME NEW k \in DOMAIN order, NEW z, order[k] = z PROVE Index(z) = k
  <2> DEFINE I == {l \in 1..Len(order) : order[l] = z}
  <2>1. I # {} /\ Min(I) = k  BY <1>2a, IndexOfElement
  <2>2. Index(z) = IF I # {} THEN Min(I) ELSE 0  BY <1>2
  <2> HIDE DEF I
  <2> QED BY <2>1, <2>2
<1>3. Index(x) = i /\ Index(y) = j  BY <1>1, <1>2a
<1> QED BY <1>1, <1>3

(* In the list that IonBuilder leaves for every script the blocks come after *)
(* their predecessors, but for the second one of a loop header, and          *)
(* predecessors and successors agree.                                        *)
THEOREM ListedInOrder == Spec => []BuiltInOrder
<1>1. BuildOK /\ RunOK => BuiltInOrder
  <2> SUFFICES ASSUME BuildOK, RunOK, Built, NEW b \in DOMAIN blocks
               PROVE  LET ps == blocks[b].pred
                      IN  /\ IsInjective(ps)
                          /\ Range(ps) = {p \in DOMAIN blocks : b \in Range(blocks[p].end.to)}
                          /\ \A i \in DOMAIN ps :
                               Index(ps[i]) < Index(b) \/ (blocks[b].header /\ i = 2)
    BY DEF BuiltInOrder
  <2>1. Unentered(cfgStack) = {}
    <3>1. cfgStack = <<>>  BY DEF RunOK, Built
    <3> QED BY <3>1 DEF Unentered
  <2>2. EdgesOK(blocks, {}) /\ OrderOK(blocks, order, {})  BY <2>1, Found DEF GraphOK
  <2> DEFINE ps == blocks[b].pred
  <2>3. /\ NoRepeats(ps) /\ Range(ps) \subseteq DOMAIN blocks
        /\ \A p \in DOMAIN blocks : p \in Range(ps) <=> b \in Range(blocks[p].end.to)
    BY <2>2 DEF EdgesOK
  <2>4. IsInjective(ps)  BY <2>3 DEF IsInjective, NoRepeats
  <2>5. Range(ps) = {p \in DOMAIN blocks : b \in Range(blocks[p].end.to)}  BY <2>3
  <2>6. ASSUME NEW i \in DOMAIN ps PROVE Index(ps[i]) < Index(b) \/ (blocks[b].header /\ i = 2)
    <3>1. Before(order, ps[i], b) \/ (blocks[b].header /\ i = 2)  BY <2>2 DEF OrderOK
    <3>2. order \in Seq(Nat) /\ NoRepeats(order)  BY <2>2 DEF OrderOK
    <3> QED BY <3>1, <3>2, IndexInOrder
  <2> QED BY <2>4, <2>5, <2>6
<1> QED BY <1>1, Invariance, PTL
LEMMA IndexIsNatural ==
  ASSUME order \in Seq(Nat), NoRepeats(order), NEW x \in Range(order)
  PROVE  Index(x) \in Nat
<1>1. PICK k \in DOMAIN order : order[k] = x  BY DEF Range
<1> DEFINE I == {l \in 1..Len(order) : order[l] = x}
<1>2. I # {} /\ Min(I) = k  BY <1>1, IndexOfElement
<1>3. Index(x) = IF I # {} THEN Min(I) ELSE 0  BY DEF Index, SelectInSeq
<1> HIDE DEF I
<1>4. Index(x) = k  BY <1>2, <1>3
<1> QED BY <1>4

(* What of the invariant is needed about the complete graph. *)
Complete ==
  \A b \in DOMAIN blocks :
    /\ b \in Nat \ {0}
    /\ Index(b) \in Nat
    /\ blocks[b].pred \in Seq(DOMAIN blocks)
    /\ NoRepeats(blocks[b].pred)
    /\ blocks[b].end.to \in Seq(DOMAIN blocks)
    /\ \/ Len(blocks[b].end.to) \in {0, 1}
       \/ Len(blocks[b].end.to) = 2 /\ blocks[b].end.to[1] # blocks[b].end.to[2]
    /\ \A p \in DOMAIN blocks :
         p \in Range(blocks[b].pred) <=> b \in Range(blocks[p].end.to)
    /\ \A i \in DOMAIN blocks[b].pred :
         \/ Index(blocks[b].pred[i]) < Index(b)
         \/ blocks[b].header /\ i = 2 /\ Len(blocks[b].pred) = 2

LEMMA CompleteGraph ==
  ASSUME BuildOK, RunOK, Built
  PROVE  Complete
<1>1. Unentered(cfgStack) = {}
  <2>1. cfgStack = <<>>  BY DEF RunOK, Built
  <2> QED BY <2>1 DEF Unentered
<1>2. EdgesOK(blocks, {}) /\ OrderOK(blocks, order, {}) /\ BlocksOK(blocks, code)
  BY <1>1, Found DEF GraphOK
<1>3. order \in Seq(Nat) /\ NoRepeats(order) /\ Range(order) = DOMAIN blocks
  BY <1>2 DEF OrderOK
<1>4. blocks \in Seq(Block)  BY <1>2 DEF BlocksOK
<1> SUFFICES ASSUME NEW b \in DOMAIN blocks
             PROVE  /\ b \in Nat \ {0}
                    /\ Index(b) \in Nat
                    /\ blocks[b].pred \in Seq(DOMAIN blocks)
                    /\ NoRepeats(blocks[b].pred)
                    /\ blocks[b].end.to \in Seq(DOMAIN blocks)
                    /\ \/ Len(blocks[b].end.to) \in {0, 1}
                       \/ /\ Len(blocks[b].end.to) = 2
                          /\ blocks[b].end.to[1] # blocks[b].end.to[2]
                    /\ \A p \in DOMAIN blocks :
                         p \in Range(blocks[b].pred) <=> b \in Range(blocks[p].end.to)
                    /\ \A i \in DOMAIN blocks[b].pred :
                         \/ Index(blocks[b].pred[i]) < Index(b)
                         \/ blocks[b].header /\ i = 2 /\ Len(blocks[b].pred) = 2
  BY DEF Complete
<1>5. b \in Nat \ {0}  BY <1>4
<1>6. Index(b) \in Nat  BY <1>3, IndexIsNatural
<1>7. /\ NoRepeats(blocks[b].pred)
      /\ Range(blocks[b].pred) \subseteq DOMAIN blocks
      /\ \A p \in DOMAIN blocks :
           p \in Range(blocks[b].pred) <=> b \in Range(blocks[p].end.to)
  BY <1>2 DEF EdgesOK
<1>8. blocks[b] \in Block  BY <1>4
<1>9. blocks[b].pred \in Seq(Nat) /\ blocks[b].end \in Control  BY <1>8 DEF Block
<1>10. blocks[b].pred \in Seq(DOMAIN blocks)  BY <1>7, <1>9 DEF Range
<1>11. EndOK(blocks[b].end, DOMAIN blocks, code)  BY <1>2 DEF BlocksOK
<1>12. blocks[b].end.to \in Seq(Nat) /\ blocks[b].end.op \in {"none", "goto", "test", "return"}
  BY <1>9 DEF Control
<1>13. blocks[b].end.to \in Seq(DOMAIN blocks)  BY <1>11, <1>12 DEF EndOK, Range
<1>14. \/ Len(blocks[b].end.to) \in {0, 1}
       \/ Len(blocks[b].end.to) = 2 /\ blocks[b].end.to[1] # blocks[b].end.to[2]
  BY <1>11, <1>12 DEF EndOK
<1>15. ASSUME NEW i \in DOMAIN blocks[b].pred
       PROVE  \/ Index(blocks[b].pred[i]) < Index(b)
              \/ blocks[b].header /\ i = 2 /\ Len(blocks[b].pred) = 2
  <2>1. \/ Before(order, blocks[b].pred[i], b)
        \/ blocks[b].header /\ i = 2 /\ Len(blocks[b].pred) = 2
    BY <1>2 DEF OrderOK
  <2> QED BY <2>1, <1>3, IndexInOrder
<1> QED BY <1>5, <1>6, <1>7, <1>10, <1>13, <1>14, <1>15

LEMMA FunctionIsSequence ==
  ASSUME NEW k \in Nat, NEW X, NEW f \in [1..k -> X]
  PROVE  f \in Seq(X) /\ Len(f) = k
OBVIOUS

(* The edges of the graph whose critical edges are split. *)
LEMMA SplitEdges ==
  ASSUME Complete, NEW b \in DOMAIN blocks
  PROVE  /\ DOMAIN Successors(<<b, 0>>) = DOMAIN blocks[b].end.to
         /\ Len(Successors(<<b, 0>>)) = Len(blocks[b].end.to)
         /\ \A i \in DOMAIN blocks[b].end.to :
              Successors(<<b, 0>>)[i] = IF IsCritical(b, blocks[b].end.to[i])
                                        THEN <<b, blocks[b].end.to[i]>>
                                        ELSE <<blocks[b].end.to[i], 0>>
         /\ DOMAIN Predecessors(<<b, 0>>) = DOMAIN blocks[b].pred
         /\ Len(Predecessors(<<b, 0>>)) = Len(blocks[b].pred)
         /\ \A i \in DOMAIN blocks[b].pred :
              Predecessors(<<b, 0>>)[i] = IF IsCritical(blocks[b].pred[i], b)
                                          THEN <<blocks[b].pred[i], b>>
                                          ELSE <<blocks[b].pred[i], 0>>
<1>1. blocks[b].end.to \in Seq(DOMAIN blocks) /\ blocks[b].pred \in Seq(DOMAIN blocks)
  BY DEF Complete
<1>2. Successors(<<b, 0>>) =
        [i \in DOMAIN blocks[b].end.to |->
           IF IsCritical(b, blocks[b].end.to[i]) THEN <<b, blocks[b].end.to[i]>>
           ELSE <<blocks[b].end.to[i], 0>>]
  BY DEF Successors
<1>3. Predecessors(<<b, 0>>) =
        [i \in DOMAIN blocks[b].pred |->
           IF IsCritical(blocks[b].pred[i], b) THEN <<blocks[b].pred[i], b>>
           ELSE <<blocks[b].pred[i], 0>>]
  BY DEF Predecessors
<1>4. /\ DOMAIN blocks[b].end.to = 1..Len(blocks[b].end.to) /\ Len(blocks[b].end.to) \in Nat
      /\ DOMAIN blocks[b].pred = 1..Len(blocks[b].pred) /\ Len(blocks[b].pred) \in Nat
  BY <1>1
<1> DEFINE X == (DOMAIN blocks) \X ({0} \cup DOMAIN blocks)
<1>5. Successors(<<b, 0>>) \in [1..Len(blocks[b].end.to) -> X]
  <2>1. b \in DOMAIN blocks /\ \A i \in DOMAIN blocks[b].end.to : blocks[b].end.to[i] \in DOMAIN blocks
    BY <1>1
  <2> QED BY <2>1, <1>2, <1>4
<1>6. Predecessors(<<b, 0>>) \in [1..Len(blocks[b].pred) -> X]
  <2>1. b \in DOMAIN blocks /\ \A i \in DOMAIN blocks[b].pred : blocks[b].pred[i] \in DOMAIN blocks
    BY <1>1
  <2> QED BY <2>1, <1>3, <1>4
<1> HIDE DEF X
<1>7. /\ Len(Successors(<<b, 0>>)) = Len(blocks[b].end.to)
      /\ Len(Predecessors(<<b, 0>>)) = Len(blocks[b].pred)
  BY <1>4, <1>5, <1>6, FunctionIsSequence
<1> QED BY <1>2, <1>3, <1>7

(* Every block that was inserted is on an edge of the graph before. *)
LEMMA OnEdge ==
  ASSUME Complete, NEW n \in SplitGraph
  PROVE  \/ \E b \in DOMAIN blocks : n = <<b, 0>>
         \/ \E p, b \in DOMAIN blocks :
              /\ n = <<p, b>> /\ IsCritical(p, b)
              /\ b # 0
              /\ Successors(n) = <<<<b, 0>>>>
              /\ Predecessors(n) = <<<<p, 0>>>>
<1>1. CASE \E b \in DOMAIN blocks : n = <<b, 0>>
  BY <1>1
<1>2. CASE n \in {m \in (DOMAIN blocks) \X (DOMAIN blocks) : IsCritical(m[1], m[2])}
  <2>1. PICK p \in DOMAIN blocks, b \in DOMAIN blocks : n = <<p, b>> /\ IsCritical(p, b)
    BY <1>2
  <2>2. b # 0  BY DEF Complete
  <2> QED BY <2>1, <2>2 DEF Successors, Predecessors
<1> QED BY <1>1, <1>2 DEF SplitGraph

(* Splitting keeps predecessors and successors together. *)
LEMMA SplitAgrees ==
  ASSUME Complete, NEW n \in SplitGraph, NEW m
  PROVE  /\ m \in Range(Successors(n)) => n \in Range(Predecessors(m))
         /\ m \in Range(Predecessors(n)) => n \in Range(Successors(m))
<1> DEFINE D == DOMAIN blocks
<1>1. \A b \in D : \A p \in D : p \in Range(blocks[b].pred) <=> b \in Range(blocks[p].end.to)
  BY DEF Complete
<1>2. \A b \in D : b # 0
  BY DEF Complete
<1>3. ASSUME NEW b \in D, NEW p \in D, p \in Range(blocks[b].pred)
      PROVE  /\ IsCritical(p, b) => /\ <<p, b>> \in Range(Predecessors(<<b, 0>>))
                                    /\ <<p, b>> \in Range(Successors(<<p, 0>>))
             /\ ~IsCritical(p, b) => /\ <<p, 0>> \in Range(Predecessors(<<b, 0>>))
                                     /\ <<b, 0>> \in Range(Successors(<<p, 0>>))
  <2>1. PICK i \in DOMAIN blocks[b].pred : blocks[b].pred[i] = p
    BY <1>3 DEF Range
  <2>2. PICK j \in DOMAIN blocks[p].end.to : blocks[p].end.to[j] = b
    BY <1>1, <1>3 DEF Range
  <2>3. /\ i \in DOMAIN Predecessors(<<b, 0>>)
        /\ Predecessors(<<b, 0>>)[i] = IF IsCritical(p, b) THEN <<p, b>> ELSE <<p, 0>>
    BY <2>1, SplitEdges
  <2>4. /\ j \in DOMAIN Successors(<<p, 0>>)
        /\ Successors(<<p, 0>>)[j] = IF IsCritical(p, b) THEN <<p, b>> ELSE <<b, 0>>
    BY <2>2, SplitEdges
  <2> QED BY <2>3, <2>4 DEF Range
<1>4. CASE \E b \in D : n = <<b, 0>>
  <2>1. PICK b \in D : n = <<b, 0>>  BY <1>4
  <2>2. ASSUME m \in Range(Successors(n)) PROVE n \in Range(Predecessors(m))
    <3>1. PICK i \in DOMAIN blocks[b].end.to :
            m = IF IsCritical(b, blocks[b].end.to[i]) THEN <<b, blocks[b].end.to[i]>>
                ELSE <<blocks[b].end.to[i], 0>>
      BY <2>1, <2>2, SplitEdges DEF Range
    <3> DEFINE t == blocks[b].end.to[i]
    <3>2. t \in D  BY DEF Complete
    <3>3. t \in Range(blocks[b].end.to)  BY DEF Range
    <3>4. b \in Range(blocks[t].pred)  BY <1>1, <3>2, <3>3
    <3> HIDE DEF t
    <3>5. CASE IsCritical(b, t)
      <4>1. m = <<b, t>> /\ t # 0  BY <3>1, <3>2, <3>5, <1>2 DEF t
      <4>2. Predecessors(m) = <<<<b, 0>>>>  BY <4>1 DEF Predecessors
      <4> QED BY <4>2, <2>1 DEF Range
    <3>6. CASE ~IsCritical(b, t)
      BY <3>1, <3>2, <3>4, <3>6, <1>3, <2>1 DEF t
    <3> QED BY <3>5, <3>6
  <2>3. ASSUME m \in Range(Predecessors(n)) PROVE n \in Range(Successors(m))
    <3>1. PICK i \in DOMAIN blocks[b].pred :
            m = IF IsCritical(blocks[b].pred[i], b) THEN <<blocks[b].pred[i], b>>
                ELSE <<blocks[b].pred[i], 0>>
      BY <2>1, <2>3, SplitEdges DEF Range
    <3> DEFINE p == blocks[b].pred[i]
    <3>2. p \in D  BY DEF Complete
    <3>3. p \in Range(blocks[b].pred)  BY DEF Range
    <3> HIDE DEF p
    <3>4. CASE IsCritical(p, b)
      <4>1. m = <<p, b>> /\ b # 0  BY <3>1, <3>4, <1>2 DEF p
      <4>2. Successors(m) = <<<<b, 0>>>>  BY <4>1 DEF Successors
      <4> QED BY <4>2, <2>1 DEF Range
    <3>5. CASE ~IsCritical(p, b)
      BY <3>1, <3>2, <3>3, <3>5, <1>3, <2>1 DEF p
    <3> QED BY <3>4, <3>5
  <2> QED BY <2>2, <2>3
<1>5. CASE \E p, b \in D : /\ n = <<p, b>> /\ IsCritical(p, b)
                           /\ Successors(n) = <<<<b, 0>>>>
                           /\ Predecessors(n) = <<<<p, 0>>>>
  <2>1. PICK p \in D, b \in D : /\ n = <<p, b>> /\ IsCritical(p, b)
                                /\ Successors(n) = <<<<b, 0>>>>
                                /\ Predecessors(n) = <<<<p, 0>>>>
    BY <1>5
  <2>2. p \in Range(blocks[b].pred)  BY <2>1, <1>1 DEF IsCritical
  <2>3. m \in Range(Successors(n)) => m = <<b, 0>>  BY <2>1 DEF Range
  <2>4. m \in Range(Predecessors(n)) => m = <<p, 0>>  BY <2>1 DEF Range
  <2> QED BY <2>1, <2>2, <2>3, <2>4, <1>3
<1> QED BY <1>4, <1>5, OnEdge

(* A header's second predecessor has the header as its only successor, and   *)
(* so as its last one: it jumps there, or it splits the edge of a test.      *)
LEMMA SplitBackedge ==
  ASSUME Complete, NEW b \in DOMAIN blocks,
         blocks[b].header, Len(blocks[b].pred) = 2
  PROVE  isLoopBackedge(Predecessors(<<b, 0>>)[2])
<1> DEFINE p == blocks[b].pred[2]
           m == Predecessors(<<b, 0>>)[2]
<1>1. /\ p \in DOMAIN blocks
      /\ b # 0
      /\ b \in Range(blocks[p].end.to)
      /\ blocks[p].end.to \in Seq(DOMAIN blocks)
      /\ Len(blocks[p].end.to) \in {0, 1, 2}
  <2>1. p \in DOMAIN blocks  BY DEF Complete
  <2>2. p \in Range(blocks[b].pred)
    <3>1. 2 \in DOMAIN blocks[b].pred  BY DEF Complete
    <3> QED BY <3>1 DEF Range
  <2> QED BY <2>1, <2>2 DEF Complete
<1>2. /\ Last(Predecessors(<<b, 0>>)) = m
      /\ m = IF IsCritical(p, b) THEN <<p, b>> ELSE <<p, 0>>
  <2>1. 2 \in DOMAIN blocks[b].pred  BY DEF Complete
  <2> QED BY <2>1, SplitEdges DEF Last
<1> HIDE DEF m
<1>3. Successors(m) # <<>> /\ Last(Successors(m)) = <<b, 0>>
  <2>1. CASE IsCritical(p, b)
    <3>1. Successors(m) = <<<<b, 0>>>>  BY <2>1, <1>1, <1>2 DEF Successors
    <3> QED BY <3>1 DEF Last
  <2>2. CASE ~IsCritical(p, b)
    <3>1. Len(blocks[p].end.to) = 1 /\ blocks[p].end.to[1] = b
      <4>1. Len(blocks[p].end.to) # 2
        <5>1. Len(blocks[b].pred) >= 2  OBVIOUS
        <5> QED BY <5>1, <2>2, <1>1 DEF IsCritical
      <4>2. Len(blocks[p].end.to) # 0  BY <1>1 DEF Range
      <4> QED BY <4>1, <4>2, <1>1 DEF Range
    <3>2. m = <<p, 0>>  BY <2>2, <1>2
    <3>3. 1 \in DOMAIN blocks[p].end.to  BY <3>1, <1>1
    <3>4. /\ Len(Successors(m)) = 1
          /\ DOMAIN Successors(m) = DOMAIN blocks[p].end.to
          /\ Successors(m)[1] = <<b, 0>>
      <4> HIDE DEF p
      <4> QED BY <3>1, <3>2, <3>3, <1>1, <2>2, SplitEdges
    <3> QED BY <3>3, <3>4 DEF Last
  <2> QED BY <2>1, <2>2
<1> QED BY <1>2, <1>3 DEF isLoopBackedge, m

(* The blocks on the edges of p are between p and the next block. *)
LEMMA PlaceInList ==
  ASSUME Complete, NEW p \in DOMAIN blocks
  PROVE  /\ ListPlace(<<p, 0>>) = 3 * Index(p)
         /\ \A b \in DOMAIN blocks :
              ListPlace(<<p, b>>) = 3 * Index(p) + 1 \/ ListPlace(<<p, b>>) = 3 * Index(p) + 2
         /\ Index(p) \in Nat
<1>1. Index(p) \in Nat  BY DEF Complete
<1>2. \A b \in DOMAIN blocks : b # 0  BY DEF Complete
<1> QED BY <1>1, <1>2 DEF ListPlace

(* Once critical edges are split, the graph of every script passes           *)
(* AssertGraphCoherency: predecessors and successors agree, and a block      *)
(* comes after its predecessors, but for those whose last successor is the   *)
(* header of the loop they close.                                            *)
THEOREM GraphCoherent == Spec => []AssertGraphCoherency
<1>1. BuildOK /\ RunOK => AssertGraphCoherency
  <2> SUFFICES ASSUME BuildOK, RunOK, Built, NEW n \in SplitGraph
               PROVE  /\ \A m \in Range(Successors(n)) : n \in Range(Predecessors(m))
                      /\ \A m \in Range(Predecessors(n)) :
                           /\ n \in Range(Successors(m))
                           /\ isLoopBackedge(m) \/ ListPlace(m) < ListPlace(n)
    BY DEF AssertGraphCoherency
  <2>1. Complete  BY CompleteGraph
  <2>2. ASSUME NEW m \in Range(Predecessors(n))
        PROVE  isLoopBackedge(m) \/ ListPlace(m) < ListPlace(n)
    <3>1. CASE \E b \in DOMAIN blocks : n = <<b, 0>>
      <4>1. PICK b \in DOMAIN blocks : n = <<b, 0>>  BY <3>1
      <4>2. PICK i \in DOMAIN blocks[b].pred :
              /\ m = Predecessors(n)[i]
              /\ m = IF IsCritical(blocks[b].pred[i], b) THEN <<blocks[b].pred[i], b>>
                     ELSE <<blocks[b].pred[i], 0>>
        BY <2>1, <2>2, <4>1, SplitEdges DEF Range
      <4> DEFINE p == blocks[b].pred[i]
      <4>3. p \in DOMAIN blocks  BY <2>1 DEF Complete
      <4>4. CASE Index(p) < Index(b)
        <5> HIDE DEF p
        <5>1. ListPlace(m) \in Nat /\ ListPlace(m) <= 3 * Index(p) + 2 /\ Index(p) \in Nat
          BY <2>1, <4>2, <4>3, PlaceInList DEF p
        <5>2. ListPlace(n) = 3 * Index(b) /\ Index(b) \in Nat  BY <2>1, <4>1, PlaceInList
        <5> QED BY <5>1, <5>2, <4>4
      <4>5. CASE blocks[b].header /\ i = 2 /\ Len(blocks[b].pred) = 2
        BY <2>1, <4>1, <4>2, <4>5, SplitBackedge
      <4> QED BY <2>1, <4>4, <4>5 DEF Complete
    <3>2. CASE \E p, b \in DOMAIN blocks : /\ n = <<p, b>>
                                           /\ Predecessors(n) = <<<<p, 0>>>>
      <4>1. PICK p \in DOMAIN blocks, b \in DOMAIN blocks :
              n = <<p, b>> /\ Predecessors(n) = <<<<p, 0>>>>
        BY <3>2
      <4>2. m = <<p, 0>>  BY <4>1, <2>2 DEF Range
      <4> QED BY <2>1, <4>1, <4>2, PlaceInList
    <3> QED BY <2>1, <3>1, <3>2, OnEdge
  <2> QED BY <2>1, <2>2, SplitAgrees
<1> QED BY <1>1, Invariance, PTL
=============================================================================
