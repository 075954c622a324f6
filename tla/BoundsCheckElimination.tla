------------------------ MODULE BoundsCheckElimination ------------------------
(***************************************************************************)
(* Bounds check elimination (--ion-bce): InductionVariable recognizes a    *)
(* counted loop and gives its variable a range, BCE removes the bounds     *)
(* checks that the range makes redundant, and the compiled loop runs       *)
(* without them.  One loop, its variable i and one bounds check on i.      *)
(***************************************************************************)
EXTENDS Integers

CONSTANTS
  MaxInt,               \* the largest Int32
  Loops,                \* the loops the pass is run on
  Checks,               \* the bounds checks the pass is run on
  Lengths,              \* initialized lengths of the array
  None                  \* an operand that is not a constant

Int32 == -(MaxInt + 1)..MaxInt
Words == 2 * (MaxInt + 1)
AsInt32(x)  == ((x + MaxInt + 1) % Words) - (MaxInt + 1)
AsUint32(x) == x % Words

(***************************************************************************)
(* A loop with a phi in its header and a test of that phi.  form: the test *)
(* ends a loop header ("for"), or the block before a backedge ("dowhile"); *)
(* "inverted" is a while or for loop that --ion-linv turned into a         *)
(* do-while under an if.  leads: where the loop of the phi can be when the *)
(* test is true and when it is false, on with its iteration or out.  A     *)
(* test that matches does not have to decide that: for (;;) { if (i < 3)   *)
(* ...; } goes on in both cases, i < 3 || b may go on when the test is     *)
(* false, if (i < 3) break has it the other way round, and a test in the   *)
(* header of an inner or a later loop lets the body of this one run        *)
(* whatever it yields.  start: the two constants that reach the header     *)
(* from outside, equal if there is only one.  inc: the constant of the     *)
(* MAdd in the test or on the backedge.  adds: whether the variable is its *)
(* other operand and the sum reaches the backedge.  upper: the right-hand  *)
(* side of the test.                                                       *)
(***************************************************************************)
Ways == SUBSET {"on", "exit"} \ {{}}

Loop ==
  [form : {"for", "dowhile", "inverted"}, jsop : {"LT", "LE"},
   start : (Int32 \X Int32) \cup {None}, inc : Int32, adds : BOOLEAN,
   upper : Int32 \cup {None}, leads : [BOOLEAN -> Ways]]

(***************************************************************************)
(* kind: an MBoundsCheck with minimum = maximum = 0 ("exact"), one that    *)
(* LICM has hoisted with minimum = maximum = n ("range"), or an            *)
(* MBoundsCheckLower with minimum n ("lower").  pos: the loop header or a  *)
(* later block of the loop.  array: a dense array known at compile time,   *)
(* one that is not, or a typed array.  writes: who resizes the array, the  *)
(* loop through the constant, the loop through an alias of it, code of     *)
(* another script between two calls, or nobody.  loads: only MLoadElement  *)
(* uses the check.                                                         *)
(***************************************************************************)
Check ==
  [kind : {"exact", "range", "lower"}, n : Int32, pos : {"header", "body"},
   array : {"constant", "unknown", "typed"},
   writes : {"no", "constant", "alias", "outside"}, loads : BOOLEAN]

ASSUME WidthAssumption == MaxInt \in Nat

ASSUME InputAssumption ==
  /\ Loops \subseteq Loop
  /\ Checks \subseteq Check
  /\ Lengths \subseteq 0..MaxInt
  /\ None \notin (Int32 \X Int32) \cup Int32

VARIABLES
  loop, check,          \* the code that is compiled
  isDoWhile,            \* InductionVariable::isDoWhile_
  removed,              \* BCE has discarded the check
  length,               \* initialized length of the array
  at,                   \* where the loop is
  i                     \* the induction variable

vars == <<loop, check, isDoWhile, removed, length, at, i>>

-----------------------------------------------------------------------------
(* InductionVariable. *)

(* The constructor leaves isDoWhile_ uninitialized and                     *)
(* extractUBCSPattern does not set it.                                     *)
IsDoWhile(l) == IF l.form = "for" THEN BOOLEAN ELSE {TRUE}

(* Faulty variant: a negative increment is accepted. *)
TakesAnyIncrement(l) == l.form = "for"

(* The test ends the header; start and bound may be unknown.  Where the    *)
(* test leads is not looked at.                                            *)
extractUBCSPattern(l) == l.form = "for" /\ l.inc >= 0

(* The test is before the backedge; start and bound must be constants.     *)
(* Where it leads is not looked at here either.                            *)
extractUBCSPatternDoWhile(l) ==
  /\ l.form \in {"dowhile", "inverted"}
  /\ l.inc >= 0
  /\ l.start # None /\ l.upper # None

extractPattern(l) == extractUBCSPattern(l) \/ extractUBCSPatternDoWhile(l)

(* The first pattern takes the smaller constant, the second the first one. *)
LowerConstant(l) ==
  IF l.form = "for" /\ l.start[2] < l.start[1] THEN l.start[2] ELSE l.start[1]

hasLowerBound(l) == l.start # None /\ LowerConstant(l) >= 0

hasUpperBound(l) == l.upper # None /\ l.upper >= 0

lowerBound(l) == LowerConstant(l)

upperBound(l) == IF l.jsop = "LE" THEN l.upper - 1 ELSE l.upper

rangeIsValid(pos) == pos = "body" \/ isDoWhile

-----------------------------------------------------------------------------
(* BCE. *)

hasUnchangeableLength(c) == c.writes # "constant"

(* Faulty variant: the last index may be the length. *)
AllowsIndexLength(l, c, len) ==
  /\ c.array = "constant"
  /\ hasUpperBound(l)
  /\ hasUnchangeableLength(c)
  /\ AsUint32(upperBound(l)) <= len + 1

eliminateBoundsCheck(l, c, len) ==
  /\ c.array = "constant"
  /\ hasUpperBound(l)
  /\ hasUnchangeableLength(c)
  /\ AsUint32(upperBound(l)) <= len

eliminateBoundsCheckRange(l, c, len) ==
  /\ hasLowerBound(l) /\ hasUpperBound(l)
  /\ c.array = "constant"
  /\ hasUnchangeableLength(c)
  /\ AsInt32(lowerBound(l) + c.n) >= 0
  /\ AsUint32(upperBound(l) + c.n) <= len

(* eliminateBoundsCheckRange casts the length without a test. *)
BadCast(l, c) ==
  c.kind = "range" /\ c.array = "typed" /\ hasLowerBound(l) /\ hasUpperBound(l)

eliminateBoundsCheckLower(l, c) ==
  hasLowerBound(l) /\ lowerBound(l) >= c.n

tryElimination(l, c, len) ==
  /\ extractPattern(l)
  /\ rangeIsValid(c.pos)
  /\ CASE c.kind = "exact" -> eliminateBoundsCheck(l, c, len)
       [] c.kind = "range" -> eliminateBoundsCheckRange(l, c, len)
       [] c.kind = "lower" -> eliminateBoundsCheckLower(l, c)

Init ==
  /\ loop \in Loops
  /\ check \in Checks
  /\ isDoWhile \in IsDoWhile(loop)
  /\ length \in Lengths
  /\ removed = FALSE
  /\ at = "compile"
  /\ i = 0

(* BCE::analyze, with the assertion in toInitializedLength. *)
Analyze ==
  /\ at = "compile"
  /\ IF extractPattern(loop) /\ rangeIsValid(check.pos) /\ BadCast(loop, check)
     THEN at' = "aborted" /\ UNCHANGED removed
     ELSE /\ at' = "compiled"
          /\ removed' = (tryElimination(loop, check, length) /\ check.loads)
  /\ UNCHANGED <<loop, check, isDoWhile, length, i>>

-----------------------------------------------------------------------------
(* The compiled loop. *)

(* The outcomes of the test for value v. *)
Test(v) ==
  IF loop.upper = None THEN BOOLEAN
  ELSE {IF loop.jsop = "LT" THEN v < loop.upper ELSE v <= loop.upper}

(* Where the test leads for value v. *)
Ahead(v) == UNION {loop.leads[t] : t \in Test(v)}

Starts == IF loop.start = None THEN Int32 ELSE {loop.start[1], loop.start[2]}

(* Another script does, after the code was compiled and before it is called. *)
ResizeOutside ==
  /\ at = "compiled"
  /\ check.writes = "outside"
  /\ length' \in 0..MaxInt
  /\ UNCHANGED <<loop, check, isDoWhile, removed, at, i>>

EnterLoop ==
  /\ at = "compiled"
  /\ i' \in Starts
  /\ at' \in IF loop.form # "inverted" THEN {"header"}
             ELSE {IF w = "on" THEN "header" ELSE "exit" : w \in Ahead(i')}
  /\ UNCHANGED <<loop, check, isDoWhile, removed, length>>

(* The index passes the check. *)
Passes ==
  CASE check.kind = "exact" -> 0 <= i /\ i < length
    [] check.kind = "range" -> 0 <= i + check.n /\ i + check.n < length
    [] check.kind = "lower" -> check.n <= i

(* The block of the check is left, or it bails out. *)
Leave(next) ==
  at' = IF at = check.pos /\ ~removed /\ ~Passes THEN "bailed" ELSE next

RunHeader ==
  /\ at = "header"
  /\ IF loop.form = "for" THEN \E w \in Ahead(i) : Leave(IF w = "on" THEN "body" ELSE "exit")
     ELSE Leave("body")
  /\ UNCHANGED <<loop, check, isDoWhile, removed, length, i>>

RunBody ==
  /\ at = "body"
  /\ Leave("backedge")
  /\ UNCHANGED <<loop, check, isDoWhile, removed, length, i>>

(* The loop changes the initialized length of the array. *)
Store ==
  /\ at = "body"
  /\ check.writes \in {"constant", "alias"}
  /\ length' \in 0..MaxInt
  /\ UNCHANGED <<loop, check, isDoWhile, removed, at, i>>

(* The sum on the backedge does not depend on the variable. *)
Unrelated == loop.form = "for" /\ ~loop.adds

(* Faulty variant: an MAdd that overflows does not bail out. *)
AddsWithoutOverflowTest ==
  /\ at = "backedge"
  /\ i' \in IF loop.adds THEN {i + loop.inc} ELSE Int32
  /\ at' \in IF loop.form = "for" THEN {"header"}
             ELSE {IF w = "on" THEN "header" ELSE "exit" : w \in Ahead(i + loop.inc)}
  /\ UNCHANGED <<loop, check, isDoWhile, removed, length>>

(* The next value of the variable; an MAdd that overflows bails out. *)
TakeBackedge ==
  /\ at = "backedge"
  /\ \/ /\ Unrelated \/ i + loop.inc \notin Int32
        /\ at' = "bailed"
        /\ UNCHANGED i
     \/ /\ Unrelated \/ i + loop.inc \in Int32
        /\ i' \in IF loop.adds THEN {i + loop.inc} ELSE Int32
        /\ at' \in IF loop.form = "for" THEN {"header"}
                   ELSE {IF w = "on" THEN "header" ELSE "exit" : w \in Ahead(i + loop.inc)}
  /\ UNCHANGED <<loop, check, isDoWhile, removed, length>>

Next ==
  \/ Analyze
  \/ ResizeOutside
  \/ EnterLoop
  \/ RunHeader
  \/ RunBody
  \/ Store
  \/ TakeBackedge

Spec == Init /\ [][Next]_vars

-----------------------------------------------------------------------------
(* Properties. *)

(* The analysis and the loop it compiles keep to their types: no index     *)
(* leaves Int32.                                                           *)
TypeOK ==
  /\ loop \in Loop
  /\ check \in Check
  /\ isDoWhile \in BOOLEAN
  /\ removed \in BOOLEAN
  /\ length \in 0..MaxInt
  /\ at \in {"compile", "aborted", "compiled", "header", "body", "backedge",
             "exit", "bailed"}
  /\ i \in Int32

(* InductionVariable.h:17, "variable >= lowerBound" and "variable <        *)
(* upperBound": in every block where rangeIsValid says so.                 *)
InRange ==
  at \in {"header", "body"} /\ extractPattern(loop) /\ rangeIsValid(at) =>
    /\ hasLowerBound(loop) => lowerBound(loop) <= i
    /\ hasUpperBound(loop) => i < upperBound(loop)

(* Where a check has been removed, the index passes it. *)
InBounds == removed /\ at = check.pos => Passes

(* The loops the analysis is right about: the loop ends when the test is   *)
(* false, the test is <, the variable is the sum, and the first iteration  *)
(* is tested too.                                                          *)
Trusted ==
  /\ loop.leads[FALSE] = {"exit"}
  /\ loop.jsop = "LT"
  /\ loop.adds
  /\ loop.form = "for" => ~isDoWhile
  /\ loop.form # "dowhile"
  /\ loop.form = "inverted" => loop.start # None /\ loop.start[1] = loop.start[2]

(* For those, the range is right however often the loop runs.  It is not   *)
(* for other loops the patterns match: the analysis has no test for any of *)
(* the conditions of Trusted.                                              *)
TrustedInRange == Trusted => InRange

(* And the loop loads no element outside the array, if the variable has a  *)
(* lower bound and the array is resized through the constant or not at     *)
(* all.                                                                    *)
TrustedInBounds ==
  Trusted /\ hasLowerBound(loop) /\ check.writes \in {"no", "constant"} => InBounds

=============================================================================
