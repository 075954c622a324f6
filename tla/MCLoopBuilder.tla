---------------------------- MODULE MCLoopBuilder ----------------------------
(* Bytecode of small programs, as BytecodeEmitter lays it out. *)
EXTENDS LoopBuilder

I(op, note, to) ==
  [op |-> op, note |-> note, to |-> to, cond |-> 0, update |-> 0, ifne |-> 0, trueEnd |-> 0]

(***************************************************************************)
(* Statements: <<kind, condition size, statements ...>>.                   *)
(***************************************************************************)
Simple(k) == [kind |-> k, and |-> FALSE, body |-> <<>>, other |-> <<>>]
Compound(k, a, b, o) == [kind |-> k, and |-> a, body |-> b, other |-> o]

CondSize(s) == IF s.and THEN 3 ELSE 1

RECURSIVE Size(_), Sizes(_)
Sizes(ss) == IF ss = <<>> THEN 0 ELSE Size(Head(ss)) + Sizes(Tail(ss))
Size(s) ==
  CASE s.kind = "if" -> CondSize(s) + 1 + Sizes(s.body)
    [] s.kind = "ifelse" -> CondSize(s) + 2 + Sizes(s.body) + Sizes(s.other)
    [] s.kind = "while" -> 4 + CondSize(s) + Sizes(s.body)
    [] s.kind = "dowhile" -> 4 + CondSize(s) + Sizes(s.body)
    [] s.kind = "for" -> 5 + CondSize(s) + Sizes(s.body) + Sizes(s.other)
    [] s.kind = "forever" -> 4 + Sizes(s.body) + Sizes(s.other)
    [] s.kind = "label" -> Sizes(s.body)
    [] OTHER -> 1

Cond(s, p) ==
  IF s.and THEN <<I("OP", "none", 0), I("AND", "none", p + 3), I("OP", "none", 0)>>
  ELSE <<I("OP", "none", 0)>>

(* t: where break, continue, their labelled forms and a break out of a     *)
(* labelled block go.                                                      *)
Inside(t, brk, cont) ==
  [brk |-> brk, cont |-> cont, brk2 |-> t.brk, cont2 |-> t.cont, label |-> t.label]

RECURSIVE Emit(_, _, _), EmitAll(_, _, _)
EmitAll(ss, p, t) ==
  IF ss = <<>> THEN <<>>
  ELSE Emit(Head(ss), p, t) \o EmitAll(Tail(ss), p + Size(Head(ss)), t)
Emit(s, p, t) ==
  LET n == Sizes(s.body)
      m == Sizes(s.other)
      c == CondSize(s)
      exit == p + Size(s)
  IN CASE s.kind = "op" -> <<I("OP", "none", 0)>>
       [] s.kind = "return" -> <<I("RETURN", "none", 0)>>
       [] s.kind = "break" -> <<I("GOTO", "break", t.brk)>>
       [] s.kind = "continue" -> <<I("GOTO", "continue", t.cont)>>
       [] s.kind = "break2" -> <<I("GOTO", "break", t.brk2)>>
       [] s.kind = "continue2" -> <<I("GOTO", "continue", t.cont2)>>
       [] s.kind = "breaklabel" -> <<I("GOTO", "break", t.label)>>
       [] s.kind = "label" -> EmitAll(s.body, p, [t EXCEPT !.label = exit])
       [] s.kind = "if" ->
            Cond(s, p) \o <<I("IFEQ", "if", exit)>> \o EmitAll(s.body, p + c + 1, t)
       [] s.kind = "ifelse" ->
            Cond(s, p) \o
            <<[I("IFEQ", "ifelse", p + c + n + 2) EXCEPT !.trueEnd = p + c + n + 1]>> \o
            EmitAll(s.body, p + c + 1, t) \o <<I("GOTO", "none", exit)>> \o
            EmitAll(s.other, p + c + n + 2, t)
       [] s.kind = "while" ->
            <<[I("GOTO", "while", p + n + 2) EXCEPT !.ifne = exit - 1],
              I("LOOPHEAD", "none", 0)>> \o
            EmitAll(s.body, p + 2, Inside(t, exit, p)) \o <<I("LOOPENTRY", "none", 0)>> \o
            Cond(s, p + n + 3) \o <<I("IFNE", "none", p + 1)>>
       [] s.kind = "dowhile" ->
            <<[I("NOP", "dowhile", 0) EXCEPT !.cond = p + n + 3, !.ifne = exit - 1],
              I("LOOPHEAD", "none", 0), I("LOOPENTRY", "none", 0)>> \o
            EmitAll(s.body, p + 3, Inside(t, exit, p + n + 3)) \o
            Cond(s, p + n + 3) \o <<I("IFNE", "none", p + 1)>>
       [] s.kind = "for" ->
            <<[I("NOP", "for", 0) EXCEPT !.cond = p + n + m + 3, !.update = p + n + 3,
                                         !.ifne = exit - 1],
              I("GOTO", "none", p + n + m + 3), I("LOOPHEAD", "none", 0)>> \o
            EmitAll(s.body, p + 3, Inside(t, exit, p + n + 3)) \o
            EmitAll(s.other, p + n + 3, t) \o <<I("LOOPENTRY", "none", 0)>> \o
            Cond(s, p + n + m + 4) \o <<I("IFNE", "none", p + 2)>>
       [] s.kind = "forever" ->
            <<[I("NOP", "for", 0) EXCEPT !.cond = exit - 1, !.update = p + n + 3,
                                         !.ifne = exit - 1],
              I("LOOPHEAD", "none", 0), I("LOOPENTRY", "none", 0)>> \o
            EmitAll(s.body, p + 3, Inside(t, exit, p + n + 3)) \o
            EmitAll(s.other, p + n + 3, t) \o <<I("GOTO", "none", p + 1)>>

Script(s) ==
  Emit(s, 1, [brk |-> 0, cont |-> 0, brk2 |-> 0, cont2 |-> 0, label |-> 0])
    \o <<I("OP", "none", 0), I("STOP", "none", 0)>>

(***************************************************************************)
(* The programs: a loop, with a statement and a nested statement in it.    *)
(***************************************************************************)
Jump == {Simple(k) : k \in {"op", "break", "continue", "return"}}
Jump2 == Jump \cup {Simple(k) : k \in {"break2", "continue2"}}

If(s) == Compound("if", FALSE, <<s>>, <<>>)
update == <<Simple("op")>>

Loop(bodies) ==
  {Compound("while", a, b, <<>>) : a \in BOOLEAN, b \in bodies}
  \cup {Compound(k, FALSE, b, <<>>) : k \in {"dowhile", "for"}, b \in bodies}
  \cup {Compound(k, FALSE, b, update) : k \in {"for", "forever"}, b \in bodies}

Inner ==
  {If(s) : s \in Jump}
  \cup {Compound("ifelse", FALSE, <<s>>, <<r>>) : s \in Jump, r \in Jump}
  \cup Loop({<<>>} \cup {<<s>> : s \in Jump2} \cup {<<If(s)>> : s \in Jump2})

After == {Simple("op"), If(Simple("break")), If(Simple("continue"))}

Bodies ==
  {<<>>} \cup {<<s>> : s \in Jump \cup Inner} \cup {<<s, r>> : s \in Inner, r \in After}

Labelled ==
  {Compound("label", FALSE, <<Compound("while", FALSE, <<Simple("breaklabel")>>, <<>>),
                              Simple("op")>>, <<>>)}

MCPrograms == {Script(s) : s \in Loop(Bodies) \cup Labelled}
==============================================================================
