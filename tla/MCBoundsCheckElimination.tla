----------------------- MODULE MCBoundsCheckElimination -----------------------
(* Loops, checks and lengths for TLC. *)
EXTENDS BoundsCheckElimination

(* Where the test leads when it is true and when it is false. *)
Leads(t, f) == [b \in BOOLEAN |-> IF b THEN t ELSE f]

(* Loops that the test keeps going and ends. *)
Counted ==
  [form : {"for", "dowhile", "inverted"}, jsop : {"LT", "LE"},
   start : ({0, -1, 2} \X {0, 1}) \cup {None}, inc : {-1, 0, 1, 2},
   adds : BOOLEAN, upper : {-1, 2, MaxInt, None},
   leads : {Leads({"on"}, {"exit"})}]

(* Loops with a test that decides together with another condition (&&, ||),*)
(* the wrong way round, or not at all.                                     *)
Matching ==
  [form : {"for", "dowhile", "inverted"}, jsop : {"LT"},
   start : {<<0, 0>>, <<2, 1>>, None}, inc : {1, 2},
   adds : BOOLEAN, upper : {2, None},
   leads : {Leads({"on", "exit"}, {"exit"}), Leads({"on"}, {"on", "exit"}),
            Leads({"exit"}, {"on"}), Leads({"on"}, {"on"}),
            Leads({"on", "exit"}, {"on", "exit"})}]

MCLoops == Counted \cup Matching

KnownArray(kind, ns) ==
  [kind : {kind}, n : ns, pos : {"header", "body"}, array : {"constant"},
   writes : {"no", "constant", "alias", "outside"}, loads : {TRUE}]

OtherArray(kind, ns) ==
  [kind : {kind}, n : ns, pos : {"body"}, array : {"unknown", "typed"},
   writes : {"no"}, loads : {TRUE}]

MCChecks ==
  KnownArray("exact", {0}) \cup KnownArray("range", {-1, 1}) \cup KnownArray("lower", {0, 1})
    \cup OtherArray("exact", {0}) \cup OtherArray("range", {1})
    \cup {[kind |-> "exact", n |-> 0, pos |-> "body", array |-> "constant",
           writes |-> "no", loads |-> FALSE]}

MCLengths == {2, MaxInt}

=============================================================================
