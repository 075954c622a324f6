-------------------- MODULE BoundsCheckElimination_proofs --------------------
(***************************************************************************)
(* For every width of integers, every loop and every bounds check: the     *)
(* range InductionVariable computes is right for the loops it can be       *)
(* trusted with, and the checks BCE removes from them are redundant.       *)
(***************************************************************************)
EXTENDS BoundsCheckElimination, TLAPS

-----------------------------------------------------------------------------
(* The inductive invariant. *)

Running == at \in {"header", "body", "backedge"}

(* The variable stays above its first value; it is below the bound once    *)
(* the test has been passed, which an inverted loop does before it enters. *)
RangeInv ==
  Trusted /\ extractPattern(loop) /\ Running =>
    /\ hasLowerBound(loop) => loop.start # None /\ lowerBound(loop) <= i
    /\ hasUpperBound(loop) /\ (at # "header" \/ loop.form = "inverted") => i < loop.upper

(* A check stays removed for a reason that still holds. *)
RemovedInv ==
  removed /\ check.writes \in {"no", "constant"} => tryElimination(loop, check, length)

IInv == TypeOK /\ RangeInv /\ RemovedInv

-----------------------------------------------------------------------------
(* Machine integers. *)

LEMMA SmallModulus ==
  ASSUME NEW w \in Nat \ {0}, NEW x \in 0..(w - 1)
  PROVE  x % w = x
BY SMT

LEMMA WordsPositive == Words \in Nat \ {0} /\ Words = 2 * (MaxInt + 1)
BY WidthAssumption, SMT DEF Words

(* An unsigned comparison with a length bounds the signed value too. *)
LEMMA UnsignedBound ==
  ASSUME NEW x \in Int, x <= 2 * MaxInt, NEW len \in Nat, AsUint32(x) <= len
  PROVE  x <= len
<1>1. CASE x < 0
  BY <1>1, SMT
<1>2. CASE x >= 0
  <2>1. x \in 0..(Words - 1)
    BY <1>2, WordsPositive, WidthAssumption, SMT
  <2>2. x % Words = x
    BY <2>1, WordsPositive, SmallModulus
  <2> QED
    BY <2>2 DEF AsUint32
<1> QED
  BY <1>1, <1>2, SMT

(* A sum that is not negative after wrapping was not negative before. *)
LEMMA SignedBound ==
  ASSUME NEW x \in Int, x >= -(MaxInt + 1), AsInt32(x) >= 0
  PROVE  x >= 0
<1> SUFFICES ASSUME x < 0 PROVE FALSE
  BY SMT
<1>1. x + MaxInt + 1 \in 0..(Words - 1)
  BY WordsPositive, WidthAssumption, SMT
<1>2. (x + MaxInt + 1) % Words = x + MaxInt + 1
  BY <1>1, WordsPositive, SmallModulus
<1>3. AsInt32(x) = x
  BY <1>2, WidthAssumption, SMT DEF AsInt32
<1> QED
  BY <1>3, SMT

-----------------------------------------------------------------------------
(* The loop. *)

LEMMA LoopType ==
  ASSUME TypeOK
  PROVE  /\ loop.form \in {"for", "dowhile", "inverted"}
         /\ loop.start # None =>
              /\ loop.start \in Int32 \X Int32
              /\ loop.start[1] \in Int /\ loop.start[2] \in Int
         /\ loop.inc \in Int
         /\ loop.upper # None => loop.upper \in Int /\ loop.upper <= MaxInt
         /\ check.n \in Int /\ check.n >= -(MaxInt + 1) /\ check.n <= MaxInt
         /\ check.kind \in {"exact", "range", "lower"}
         /\ check.pos \in {"header", "body"}
         /\ i \in Int /\ length \in Nat
<1>1. loop.form \in {"for", "dowhile", "inverted"} /\ loop.inc \in Int32
      /\ loop.start \in (Int32 \X Int32) \cup {None} /\ loop.upper \in Int32 \cup {None}
  BY DEF TypeOK, Loop
<1>2. check.n \in Int32 /\ check.kind \in {"exact", "range", "lower"}
      /\ check.pos \in {"header", "body"}
  BY DEF TypeOK, Check
<1>3. \A x \in Int32 : x \in Int /\ x >= -(MaxInt + 1) /\ x <= MaxInt
  BY WidthAssumption, SMT DEF Int32
<1>4. i \in Int32 /\ length \in 0..MaxInt
  BY DEF TypeOK
<1>5. loop.start # None =>
        loop.start \in Int32 \X Int32 /\ loop.start[1] \in Int32 /\ loop.start[2] \in Int32
  BY <1>1
<1> QED
  BY <1>1, <1>2, <1>3, <1>4, <1>5, WidthAssumption, SMT

(* Every value the variable starts with is at least the lower bound. *)
LEMMA StartsAboveLower ==
  ASSUME TypeOK, Trusted, hasLowerBound(loop), NEW v \in Starts
  PROVE  loop.start # None /\ lowerBound(loop) <= v
<1>1. loop.start # None /\ v \in {loop.start[1], loop.start[2]}
  BY DEF hasLowerBound, Starts
<1>2. loop.start[1] \in Int /\ loop.start[2] \in Int
  BY <1>1, LoopType
<1>3. loop.form # "for" => loop.start[1] = loop.start[2]
  BY LoopType DEF Trusted
<1> QED
  BY <1>1, <1>2, <1>3, SMT DEF lowerBound, LowerConstant

(* A trusted loop goes on only if its test was true, which bounds the      *)
(* variable.                                                               *)
LEMMA TestBounds ==
  ASSUME Trusted, hasUpperBound(loop), NEW v, "on" \in Ahead(v)
  PROVE  v < loop.upper
<1>1. Test(v) = {v < loop.upper}
  BY DEF Trusted, hasUpperBound, Test
<1>2. "on" \in loop.leads[v < loop.upper]
  BY <1>1 DEF Ahead
<1>3. CASE ~(v < loop.upper)
  <2>1. (v < loop.upper) = FALSE
    BY <1>3
  <2>2. "on" \in loop.leads[FALSE]
    BY <1>2, <2>1, Zenon
  <2>3. loop.leads[FALSE] = {"exit"}
    BY DEF Trusted
  <2> QED
    BY <2>2, <2>3
<1> QED
  BY <1>3

LEMMA InitInv == Init => IInv
<1> SUFFICES ASSUME Init PROVE IInv
  OBVIOUS
<1>1. TypeOK
  <2>1. loop \in Loop /\ check \in Check /\ length \in 0..MaxInt
    BY InputAssumption DEF Init
  <2>2. isDoWhile \in BOOLEAN
    BY DEF Init, IsDoWhile
  <2>3. 0 \in Int32
    BY WidthAssumption, SMT DEF Int32
  <2> QED
    BY <2>1, <2>2, <2>3 DEF Init, TypeOK
<1>2. RangeInv
  BY DEF Init, RangeInv, Running
<1>3. RemovedInv
  BY DEF Init, RemovedInv
<1> QED
  BY <1>1, <1>2, <1>3 DEF IInv

LEMMA NextInv == IInv /\ [Next]_vars => IInv'
<1> SUFFICES ASSUME IInv, [Next]_vars PROVE IInv'
  OBVIOUS
<1> USE DEF IInv
<1>1. CASE Analyze
  <2>1. TypeOK'
    <3>1. removed' \in BOOLEAN
      BY <1>1 DEF Analyze, TypeOK
    <3>2. at' \in {"aborted", "compiled"}
      BY <1>1 DEF Analyze
    <3> QED
      BY <1>1, <3>1, <3>2 DEF Analyze, TypeOK
  <2>2. RangeInv'
    BY <1>1 DEF Analyze, RangeInv, Running
  <2>3. RemovedInv'
    <3>1. /\ removed' => removed \/ tryElimination(loop, check, length)
          /\ UNCHANGED <<loop, check, isDoWhile, length>>
      BY <1>1 DEF Analyze
    <3>2. tryElimination(loop, check, length)' <=> tryElimination(loop, check, length)
      BY <3>1 DEF tryElimination, rangeIsValid, eliminateBoundsCheck,
                  eliminateBoundsCheckRange, eliminateBoundsCheckLower
    <3> QED
      BY <3>1, <3>2 DEF RemovedInv
  <2> QED
    BY <2>1, <2>2, <2>3
<1>2. CASE ResizeOutside
  BY <1>2 DEF ResizeOutside, TypeOK, RangeInv, RemovedInv, Running
<1>3. CASE EnterLoop
  <2>1. UNCHANGED <<loop, check, isDoWhile, removed, length>> /\ i' \in Starts
    BY <1>3 DEF EnterLoop
  <2>2. Starts \subseteq Int32
    BY DEF TypeOK, Loop, Starts
  <2>3. at' \in {"header", "exit"}
    BY <1>3 DEF EnterLoop
  <2>4. TypeOK'
    BY <2>1, <2>2, <2>3 DEF TypeOK
  <2>5. RangeInv'
    <3> SUFFICES ASSUME Trusted, extractPattern(loop), at' = "header"
                 PROVE  /\ hasLowerBound(loop) => loop.start # None /\ lowerBound(loop) <= i'
                        /\ hasUpperBound(loop) /\ loop.form = "inverted" => i' < loop.upper
      BY <2>1, <2>3 DEF RangeInv, Running, Trusted
    <3>1. hasLowerBound(loop) => loop.start # None /\ lowerBound(loop) <= i'
      BY <2>1, StartsAboveLower
    <3>2. ASSUME loop.form = "inverted" PROVE "on" \in Ahead(i')
      BY <1>3, <3>2 DEF EnterLoop, Ahead, Test
    <3> QED
      BY <3>1, <3>2, TestBounds
  <2>6. RemovedInv'
    BY <2>1 DEF RemovedInv, tryElimination, rangeIsValid, eliminateBoundsCheck,
                eliminateBoundsCheckRange, eliminateBoundsCheckLower
  <2> QED
    BY <2>4, <2>5, <2>6
<1>4. CASE RunHeader
  <2>1. UNCHANGED <<loop, check, isDoWhile, removed, length, i>> /\ at = "header"
    BY <1>4 DEF RunHeader
  <2>2. at' \in {"body", "exit", "bailed"}
    BY <1>4 DEF RunHeader, Leave
  <2>3. TypeOK'
    BY <2>1, <2>2 DEF TypeOK
  <2>4. RangeInv'
    <3>1. at' = "body" /\ loop.form = "for" => "on" \in Ahead(i)
      BY <1>4 DEF RunHeader, Leave
    <3>2. at' = "body" /\ loop.form = "for" /\ Trusted /\ hasUpperBound(loop) => i < loop.upper
      BY <3>1, TestBounds
    <3>3. Trusted => loop.form \in {"for", "inverted"}
      BY LoopType DEF Trusted
    <3> QED
      BY <2>1, <2>2, <3>2, <3>3 DEF RangeInv, Running, Trusted
  <2>5. RemovedInv'
    BY <2>1 DEF RemovedInv, tryElimination, rangeIsValid, eliminateBoundsCheck,
                eliminateBoundsCheckRange, eliminateBoundsCheckLower
  <2> QED
    BY <2>3, <2>4, <2>5
<1>5. CASE RunBody
  <2>1. UNCHANGED <<loop, check, isDoWhile, removed, length, i>> /\ at = "body"
    BY <1>5 DEF RunBody
  <2>2. at' \in {"backedge", "bailed"}
    BY <1>5 DEF RunBody, Leave
  <2>3. TypeOK'
    BY <2>1, <2>2 DEF TypeOK
  <2>4. RangeInv'
    BY <2>1, <2>2 DEF RangeInv, Running, Trusted
  <2>5. RemovedInv'
    BY <2>1 DEF RemovedInv, tryElimination, rangeIsValid, eliminateBoundsCheck,
                eliminateBoundsCheckRange, eliminateBoundsCheckLower
  <2> QED
    BY <2>3, <2>4, <2>5
<1>6. CASE Store
  <2>1. /\ UNCHANGED <<loop, check, isDoWhile, removed, at, i>>
        /\ length' \in 0..MaxInt
        /\ check.writes \in {"constant", "alias"}
    BY <1>6 DEF Store
  <2>2. TypeOK'
    BY <2>1 DEF TypeOK
  <2>3. RangeInv'
    BY <2>1 DEF RangeInv, Running, Trusted
  <2>4. RemovedInv'
    (* A check against the length is not removed when the constant stores. *)
    <3> SUFFICES ASSUME removed, check.writes = "constant"
                 PROVE  tryElimination(loop, check, length)'
      BY <2>1 DEF RemovedInv
    <3>1. tryElimination(loop, check, length)
      BY DEF RemovedInv
    <3>2. check.kind = "lower"
      BY <3>1, LoopType DEF tryElimination, eliminateBoundsCheck,
         eliminateBoundsCheckRange, hasUnchangeableLength
    <3> QED
      BY <2>1, <3>1, <3>2 DEF tryElimination, rangeIsValid, eliminateBoundsCheckLower
  <2> QED
    BY <2>2, <2>3, <2>4
<1>7. CASE TakeBackedge
  <2>1. UNCHANGED <<loop, check, isDoWhile, removed, length>> /\ at = "backedge"
    BY <1>7 DEF TakeBackedge
  <2>2. at' \in {"header", "exit", "bailed"}
    BY <1>7 DEF TakeBackedge
  <2>3. i' \in Int32
    BY <1>7 DEF TakeBackedge, TypeOK, Unrelated
  <2>4. TypeOK'
    BY <2>1, <2>2, <2>3 DEF TypeOK
  <2>5. RangeInv'
    <3> SUFFICES ASSUME Trusted, extractPattern(loop), at' = "header"
                 PROVE  /\ hasLowerBound(loop) => loop.start # None /\ lowerBound(loop) <= i'
                        /\ hasUpperBound(loop) /\ loop.form = "inverted" => i' < loop.upper
      BY <2>1, <2>2 DEF RangeInv, Running, Trusted
    <3>1. i' = i + loop.inc
      BY <1>7 DEF TakeBackedge, Trusted
    <3>2. loop.inc >= 0 /\ loop.inc \in Int /\ i \in Int
      BY LoopType DEF extractPattern, extractUBCSPattern, extractUBCSPatternDoWhile
    <3>3. hasLowerBound(loop) => loop.start # None /\ lowerBound(loop) <= i
      BY <2>1 DEF RangeInv, Running
    <3>4. hasLowerBound(loop) => lowerBound(loop) \in Int
      BY <3>3, LoopType DEF lowerBound, LowerConstant
    <3>5. ASSUME loop.form = "inverted" PROVE "on" \in Ahead(i')
      BY <1>7, <3>1, <3>5 DEF TakeBackedge, Ahead, Test
    <3>6. hasLowerBound(loop) => lowerBound(loop) <= i'
      BY <3>1, <3>2, <3>3, <3>4, SMT
    <3> QED
      BY <3>3, <3>5, <3>6, TestBounds
  <2>6. RemovedInv'
    BY <2>1 DEF RemovedInv, tryElimination, rangeIsValid, eliminateBoundsCheck,
                eliminateBoundsCheckRange, eliminateBoundsCheckLower
  <2> QED
    BY <2>4, <2>5, <2>6
<1>8. CASE UNCHANGED vars
  BY <1>8 DEF vars, TypeOK, RangeInv, Running, Trusted, RemovedInv, tryElimination,
     rangeIsValid, eliminateBoundsCheck, eliminateBoundsCheckRange, eliminateBoundsCheckLower
<1> QED
  BY <1>1, <1>2, <1>3, <1>4, <1>5, <1>6, <1>7, <1>8 DEF Next

LEMMA InvariantHolds == Spec => []IInv
BY InitInv, NextInv, PTL DEF Spec

-----------------------------------------------------------------------------
(* The analysis keeps to its types and no index leaves Int32. *)
THEOREM TypeCorrect == Spec => []TypeOK
<1>1. IInv => TypeOK
  BY DEF IInv
<1> QED
  BY <1>1, InvariantHolds, PTL

LEMMA RangeFollows == IInv => TrustedInRange
<1> SUFFICES ASSUME IInv, Trusted, at \in {"header", "body"}, extractPattern(loop),
                    rangeIsValid(at)
             PROVE  /\ hasLowerBound(loop) => lowerBound(loop) <= i
                    /\ hasUpperBound(loop) => i < upperBound(loop)
  BY DEF TrustedInRange, InRange
<1>1. at = "header" => loop.form = "inverted"
  BY LoopType DEF rangeIsValid, Trusted, IInv
<1>2. upperBound(loop) = loop.upper
  BY DEF upperBound, Trusted
<1> QED
  BY <1>1, <1>2 DEF IInv, RangeInv, Running

(* InductionVariable.h:17: in every block where rangeIsValid says so, the  *)
(* variable of a trusted loop is within lowerBound and upperBound, for     *)
(* every increment, bound and number of iterations.                        *)
THEOREM RangeIsRight == Spec => []TrustedInRange
BY InvariantHolds, RangeFollows, PTL

LEMMA BoundsFollow == IInv => TrustedInBounds
<1> SUFFICES ASSUME IInv, Trusted, hasLowerBound(loop), check.writes \in {"no", "constant"},
                    removed, at = check.pos
             PROVE  Passes
  BY DEF TrustedInBounds, InBounds
<1>1. tryElimination(loop, check, length)
  BY DEF IInv, RemovedInv
<1>2. TypeOK /\ TrustedInRange
  BY RangeFollows DEF IInv
<1>3. /\ lowerBound(loop) <= i
      /\ hasUpperBound(loop) => i < upperBound(loop)
  BY <1>1, <1>2, LoopType DEF TrustedInRange, InRange, tryElimination
<1>4. /\ lowerBound(loop) \in Int /\ lowerBound(loop) >= 0
  BY <1>2, LoopType DEF hasLowerBound, lowerBound, LowerConstant
<1>5. hasUpperBound(loop) => upperBound(loop) \in Int /\ upperBound(loop) <= MaxInt
  BY <1>2, LoopType DEF upperBound, hasUpperBound, Trusted
<1>6. /\ i \in Int /\ length \in Nat
      /\ check.n \in Int /\ check.n >= -(MaxInt + 1) /\ check.n <= MaxInt
  BY <1>2, LoopType
<1>7. CASE check.kind = "exact"
  <2>1. hasUpperBound(loop) /\ AsUint32(upperBound(loop)) <= length
    BY <1>1, <1>7 DEF tryElimination, eliminateBoundsCheck
  <2>2. upperBound(loop) \in Int /\ upperBound(loop) <= 2 * MaxInt
    BY <1>5, <2>1, WidthAssumption, SMT
  <2>3. upperBound(loop) <= length
    BY <1>6, <2>1, <2>2, UnsignedBound
  <2>4. 0 <= i /\ i < length
    BY <1>3, <1>4, <1>6, <2>1, <2>2, <2>3, SMT
  <2> QED
    BY <1>7, <2>4 DEF Passes
<1>8. CASE check.kind = "range"
  <2>1. /\ hasUpperBound(loop)
        /\ AsInt32(lowerBound(loop) + check.n) >= 0
        /\ AsUint32(upperBound(loop) + check.n) <= length
    BY <1>1, <1>8 DEF tryElimination, eliminateBoundsCheckRange
  <2>2. /\ lowerBound(loop) + check.n \in Int
        /\ lowerBound(loop) + check.n >= -(MaxInt + 1)
    BY <1>4, <1>6, WidthAssumption, SMT
  <2>3. lowerBound(loop) + check.n >= 0
    BY <2>1, <2>2, SignedBound
  <2>4. upperBound(loop) + check.n \in Int /\ upperBound(loop) + check.n <= 2 * MaxInt
    BY <1>5, <1>6, <2>1, WidthAssumption, SMT
  <2>5. upperBound(loop) + check.n <= length
    BY <1>6, <2>1, <2>4, UnsignedBound
  <2>6. 0 <= i + check.n /\ i + check.n < length
    BY <1>3, <1>4, <1>5, <1>6, <2>1, <2>3, <2>5, SMT
  <2> QED
    BY <1>8, <2>6 DEF Passes
<1>9. CASE check.kind = "lower"
  <2>1. lowerBound(loop) >= check.n
    BY <1>1, <1>9 DEF tryElimination, eliminateBoundsCheckLower
  <2>2. check.n <= i
    BY <1>3, <1>4, <1>6, <2>1, SMT
  <2> QED
    BY <1>9, <2>2 DEF Passes
<1> QED
  BY <1>2, <1>7, <1>8, <1>9, LoopType

(* BCE.cpp:143 and 181: a check that is removed from a trusted loop whose  *)
(* variable has a lower bound would have passed in every iteration, wrap   *)
(* around and unsigned comparisons included.                               *)
THEOREM RemovedChecksAreRedundant == Spec => []TrustedInBounds
BY InvariantHolds, BoundsFollow, PTL

=============================================================================
