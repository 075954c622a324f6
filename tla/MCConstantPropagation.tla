------------------------ MODULE MCConstantPropagation ------------------------
(***************************************************************************)
(* Graphs for TLC.  Phis and additions are commutative, so one order of    *)
(* their operands is enough; one operand of a call is enough to use it.    *)
(***************************************************************************)
EXTENDS ConstantPropagation

Rank(a) == IF a = Opaque THEN 0 ELSE IF a[1] = "const" THEN a[2] + 1 ELSE MaxInt + 1 + a[2]

Pairs == {p \in Arg \X Arg : Rank(p[1]) <= Rank(p[2])}

Phis  == [kind : {"phi"}, ops : Pairs]
Adds  == [kind : {"add"}, ops : Pairs]
Calls == [kind : {"call"}, ops : {Opaque} \X Arg]

(* All graphs of phis and the smallest constant. *)
PhiGraphs ==
  [Def -> {f \in Phis : \A v \in Value : Const(v) \in {f.ops[1], f.ops[2]} => v = 0}]

(* All graphs of three definitions; a fourth one has no part in them. *)
Idle == [kind |-> "call", ops |-> <<Opaque, Opaque>>]
Three == {f \in Phis \cup Adds \cup Calls : Ref(4) \notin {f.ops[1], f.ops[2]}}
ThreeGraphs == {<<a, b, c, Idle>> : a \in Three, b \in Three, c \in Three}

MCGraphs == PhiGraphs \cup ThreeGraphs
=============================================================================
