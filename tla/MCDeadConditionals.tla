------------------------- MODULE MCDeadConditionals -------------------------
(* All graphs of N blocks with at most MaxLoops loops. *)
EXTENDS DeadConditionals

CONSTANT MaxLoops

Forward(b) ==
  LET later == (b + 1)..N
  IN  {<<>>} \cup {<<x>> : x \in later} \cup
      {p \in later \X later : p[1] # p[2]}

(* Every choice of forward edges for the blocks from b on. *)
ForwardGraphs[b \in 1..(N + 1)] ==
  IF b > N THEN {<<>>}
  ELSE {<<c>> \o g : c \in Forward(b), g \in ForwardGraphs[b + 1]}

(* The ways to add the edge from b back to h. *)
AddEdge(g, b, h) ==
  CASE Len(g[b]) = 0 -> {[g EXCEPT ![b] = <<h>>]}
    [] Len(g[b]) = 1 -> {[g EXCEPT ![b] = <<h, @[1]>>], [g EXCEPT ![b] = <<@[1], h>>]}
    [] OTHER -> {}

WithLoop ==
  UNION {UNION {AddEdge(g, b, h) : b \in h..N} : g \in ForwardGraphs[1], h \in 2..N}

MCGraphs ==
  {g \in ForwardGraphs[1] \cup (IF MaxLoops = 0 THEN {} ELSE WithLoop) : IsGraph(g)}
=============================================================================
