-------------------- MODULE ParameterSpecialization_proofs --------------------
(***************************************************************************)
(* Proofs about ParameterSpecialization, for any number of arguments,      *)
(* values, loops and activations.  The invariants of the script and of the *)
(* stack are stated as predicates of a script value and of a stack value,  *)
(* because Compile builds several of each before it stores one.            *)
(***************************************************************************)
EXTENDS ParameterSpecialization, SequenceTheorems, TLAPS

(* Specialized code is only ever installed under the flag. *)
FlagCoversCode(s) ==
  hasIonScript(s) /\ Specialized(s.ion) => s.isParameterSpecialized

(* A script that may not be specialized again is not marked specialized. *)
DisabledClearsFlag(s) ==
  s.disabledForPS => ~s.isParameterSpecialized

(* LastCallMatchesCode, for any script value. *)
ArgsMatch(s) ==
  hasIonScript(s) /\ Specialized(s.ion) /\ ~s.ion.drifted
    => s.ion.args = s.argsOfLastCall

ScriptInv(s) ==
  s \in JSScript /\ FlagCoversCode(s) /\ DisabledClearsFlag(s) /\ ArgsMatch(s)

FrameInv(f) ==
  f \in Frame /\ (f.unchecked = "no" => f.slots.formals = f.real.formals)

StackInv(k) ==
  k \in Seq(Frame) /\ \A i \in 1..Len(k) : FrameInv(k[i])

(* The code may be entered for arguments args without a further look. *)
Vouched(ion, args) ==
  Specialized(ion) /\ ~ion.drifted => ion.args = args

-----------------------------------------------------------------------------
(* The operators on scripts. *)

LEMMA Zero == 0 \in 0..UsesBeforeCompile
  BY BoundAssumption

LEMMA InvalidateInv ==
  ASSUME NEW s \in JSScript, ScriptInv(s), NEW u \in BOOLEAN
  PROVE  ScriptInv(Invalidate(s, u)) /\ Invalidate(s, u).ion = NULL
<1> DEFINE t == Invalidate(s, u)
<1>1. t \in JSScript
  <2>1. CASE u   BY <2>1, Zero DEF JSScript, Invalidate
  <2>2. CASE ~u  BY <2>2 DEF JSScript, Invalidate
  <2> QED BY <2>1, <2>2
<1>2. /\ t.ion = NULL
      /\ t.disabledForPS = s.disabledForPS
      /\ t.isParameterSpecialized = s.isParameterSpecialized
  BY DEF JSScript, Invalidate
<1> HIDE DEF t
<1>3. ScriptInv(t)
  BY <1>1, <1>2 DEF ScriptInv, FlagCoversCode, DisabledClearsFlag, ArgsMatch, hasIonScript
<1> QED BY <1>2, <1>3 DEF t

LEMMA ForbidInv ==
  ASSUME NEW s \in JSScript, ScriptInv(s)
  PROVE  ScriptInv(ForbidCompilation(s)) /\ ForbidCompilation(s).ion # NULL
<1> DEFINE t == ForbidCompilation(s)
<1>1. /\ t \in JSScript
      /\ t.ion = ION_DISABLED_SCRIPT
      /\ t.disabledForPS = s.disabledForPS
      /\ t.isParameterSpecialized = s.isParameterSpecialized
  BY DEF JSScript, ForbidCompilation
<1> HIDE DEF t
<1>2. ScriptInv(t)
  BY <1>1 DEF ScriptInv, FlagCoversCode, DisabledClearsFlag, ArgsMatch, hasIonScript
<1> QED BY <1>1, <1>2, IonAssumption DEF t

(* The code keeps its constants when a change of arguments is noticed. *)
LEMMA SaveArgsInv ==
  ASSUME NEW s \in JSScript, ScriptInv(s), NEW f \in Frame
  PROVE  /\ ScriptInv(SaveArgs(s, f))
         /\ hasIonScript(SaveArgs(s, f)) <=> hasIonScript(s)
         /\ SaveArgs(s, f).ion = NULL <=> s.ion = NULL
         /\ SaveArgs(s, f).isParameterSpecialized = s.isParameterSpecialized
         /\ \/ SaveArgs(s, f).disabledForPS
            \/ SaveArgs(s, f).argsOfLastCall = f.slots.formals
<1> DEFINE t == SaveArgs(s, f)
           missed == /\ hasArgumentsChangedSinceLastCall(s, f)
                     /\ s.isParameterSpecialized
                     /\ hasIonScript(s)
           d == [s.ion EXCEPT !.drifted = TRUE]
<1>0. f.slots.formals \in ArgVec
  BY DEF Frame, Slots
<1>1. hasIonScript(s) =>
        /\ s.ion \in IonScript
        /\ d \in IonScript
        /\ d.drifted
        /\ Specialized(d) <=> Specialized(s.ion)
  BY DEF JSScript, IonScript, hasIonScript, Specialized
<1>2. /\ t.ion = IF missed THEN d ELSE s.ion
      /\ t.argsOfLastCall = IF s.disabledForPS THEN s.argsOfLastCall ELSE f.slots.formals
      /\ t.disabledForPS = s.disabledForPS
      /\ t.isParameterSpecialized = s.isParameterSpecialized
  BY DEF SaveArgs, JSScript
<1>3. t \in JSScript
  <2> DEFINE x == IF missed THEN d ELSE s.ion
             y == IF s.disabledForPS THEN s.argsOfLastCall ELSE f.slots.formals
  <2>1. x \in IonScript \cup {NULL, ION_DISABLED_SCRIPT}
    BY <1>1 DEF JSScript
  <2>2. y \in ArgVec \cup {<<>>}
    BY <1>0 DEF JSScript
  <2>3. t = [s EXCEPT !.argsOfLastCall = y, !.ion = x]
    BY DEF SaveArgs
  <2> HIDE DEF x, y, t
  <2> QED BY <2>1, <2>2, <2>3 DEF JSScript
<1>4. /\ hasIonScript(t) <=> hasIonScript(s)
      /\ t.ion = NULL <=> s.ion = NULL
  BY <1>1, <1>2, IonAssumption DEF hasIonScript
<1>5. hasIonScript(t) => (Specialized(t.ion) <=> Specialized(s.ion))
  BY <1>1, <1>2, <1>4
<1>6. ArgsMatch(t)
  <2> SUFFICES ASSUME hasIonScript(t), Specialized(t.ion), ~t.ion.drifted
               PROVE  t.ion.args = t.argsOfLastCall
    BY DEF ArgsMatch
  <2>1. hasIonScript(s) /\ Specialized(s.ion) /\ s.isParameterSpecialized
    BY <1>4, <1>5 DEF ScriptInv, FlagCoversCode
  <2>2. ~s.disabledForPS
    BY <2>1 DEF ScriptInv, DisabledClearsFlag
  <2>3. ~missed
    BY <1>1, <1>2, <2>1
  <2>4. s.argsOfLastCall = f.slots.formals
    BY <2>1, <2>3 DEF hasArgumentsChangedSinceLastCall
  <2> QED
    BY <1>2, <2>1, <2>2, <2>3, <2>4 DEF ScriptInv, ArgsMatch
<1> HIDE DEF t
<1>7. ScriptInv(t)
  BY <1>2, <1>3, <1>4, <1>5, <1>6 DEF ScriptInv, FlagCoversCode, DisabledClearsFlag
<1> QED BY <1>2, <1>4, <1>7 DEF t

LEMMA DeoptimizeInv ==
  ASSUME NEW s \in JSScript, ScriptInv(s)
  PROVE  /\ ScriptInv(Deoptimize(s))
         /\ Deoptimize(s).ion = NULL
         /\ Deoptimize(s).disabledForPS
<1> DEFINE i == Invalidate(s, FALSE)
           t == Deoptimize(s)
<1>1. i \in JSScript /\ i.ion = NULL
  BY InvalidateInv DEF ScriptInv
<1>2. t = [i EXCEPT !.disabledForPS = TRUE, !.isParameterSpecialized = FALSE]
  BY DEF Deoptimize
<1> HIDE DEF i, t
<1>3. /\ t \in JSScript
      /\ t.ion = NULL
      /\ t.disabledForPS
      /\ ~t.isParameterSpecialized
  BY <1>1, <1>2 DEF JSScript
<1>4. ScriptInv(t)
  BY <1>3 DEF ScriptInv, FlagCoversCode, DisabledClearsFlag, ArgsMatch, hasIonScript
<1> QED BY <1>3, <1>4 DEF t

(* What Compile knows when it has decided about the old code. *)
LEMMA ArgumentCheckInv ==
  ASSUME NEW s \in JSScript, ScriptInv(s), NEW f \in Frame
  PROVE  LET t == AfterArgumentCheck(s, f)
         IN  /\ ScriptInv(t)
             /\ t.disabledForPS \/ t.argsOfLastCall = f.slots.formals
             /\ s.ion # ION_DISABLED_SCRIPT => t.ion # ION_DISABLED_SCRIPT
             /\ MustDeoptimize(s, f) => t.ion = NULL
             /\ ~MustDeoptimize(s, f) => (t.ion = NULL <=> s.ion = NULL)
<1> DEFINE a == SaveArgs(s, f)
<1>1. /\ ScriptInv(a)
      /\ a \in JSScript
      /\ a.ion = NULL <=> s.ion = NULL
      /\ s.ion # ION_DISABLED_SCRIPT => a.ion # ION_DISABLED_SCRIPT
      /\ a.disabledForPS \/ a.argsOfLastCall = f.slots.formals
  BY SaveArgsInv, IonAssumption DEF ScriptInv, hasIonScript
<1> HIDE DEF a
<1>2. CASE MustDeoptimize(s, f)
  BY <1>1, <1>2, DeoptimizeInv, IonAssumption DEF AfterArgumentCheck, a
<1>3. CASE ~MustDeoptimize(s, f)
  BY <1>1, <1>3 DEF AfterArgumentCheck, a
<1> QED BY <1>2, <1>3

LEMMA InitParametersInv ==
  ASSUME NEW s \in JSScript, ScriptInv(s), s.ion = NULL,
         NEW f \in Frame, NEW pc \in LoopPc \cup {NoPc}
  PROVE  LET t == InitParameters(s, f, pc)
         IN  /\ ScriptInv(t)
             /\ t.ion = NULL
             /\ t.argsOfLastCall = s.argsOfLastCall
             /\ t.isParameterSpecialized => ~s.disabledForPS
             /\ s.isParameterSpecialized => t.isParameterSpecialized
             /\ canSpecialize(s, f, pc) => t.isParameterSpecialized
<1> DEFINE t == InitParameters(s, f, pc)
<1>1. CASE s.isParameterSpecialized
  BY <1>1 DEF InitParameters, ScriptInv, DisabledClearsFlag
<1>2. CASE ~s.isParameterSpecialized
  <2> DEFINE dis == s.disabledForPS \/ pc = NoPc
             spec == canSpecialize(s, f, pc)
  <2>1. t = [s EXCEPT !.disabledForPS = dis, !.isParameterSpecialized = spec]
    BY <1>2 DEF InitParameters
  <2>2. /\ dis \in BOOLEAN
        /\ spec \in BOOLEAN
        /\ spec => ~dis
        /\ spec => ~s.disabledForPS
    BY DEF canSpecialize, JSScript
  <2> HIDE DEF t, dis, spec
  <2>3. /\ t \in JSScript
        /\ t.ion = NULL
        /\ t.argsOfLastCall = s.argsOfLastCall
        /\ t.disabledForPS = dis
        /\ t.isParameterSpecialized = spec
    BY <2>1, <2>2 DEF JSScript
  <2>4. ScriptInv(t)
    BY <2>2, <2>3 DEF ScriptInv, FlagCoversCode, DisabledClearsFlag, ArgsMatch, hasIonScript
  <2> QED BY <1>2, <2>2, <2>3, <2>4 DEF t, spec
<1> QED BY <1>1, <1>2

LEMMA NewIonScriptType ==
  ASSUME NEW s \in JSScript, NEW f \in Frame, NEW pc \in LoopPc \cup {NoPc}
  PROVE  LET n == NewIonScript(s, f, pc)
         IN  /\ n \in IonScript
             /\ Specialized(n) => /\ n.args = f.slots.formals
                                  /\ InitParameters(s, f, pc).isParameterSpecialized
<1> DEFINE entry == ~s.isParameterSpecialized /\ canSpecialize(s, f, pc)
           osr   == /\ pc # NoPc
                    /\ InitParameters(s, f, pc).isParameterSpecialized
           args  == IF entry \/ osr THEN f.slots.formals
                    ELSE [i \in 1..NArgs |-> Undefined]
           locs  == IF osr THEN f.slots.locals ELSE InitLocal
           n == NewIonScript(s, f, pc)
<1>1. n = [specEntry |-> entry, specOsr |-> osr, osrPc |-> pc, args |-> args,
           locals |-> locs, bailoutExpected |-> FALSE, drifted |-> FALSE]
  BY DEF NewIonScript
<1>2. f.slots.formals \in ArgVec /\ f.slots.locals \in Local
  BY DEF Frame, Slots
<1>3. [i \in 1..NArgs |-> Undefined] \in ArgVec
  BY ValueAssumption DEF ArgVec
<1>4. args \in ArgVec /\ locs \in Local
  BY <1>2, <1>3, ValueAssumption
<1>5. entry => InitParameters(s, f, pc).isParameterSpecialized
  <2> SUFFICES ASSUME entry
               PROVE  InitParameters(s, f, pc).isParameterSpecialized
    OBVIOUS
  <2>1. InitParameters(s, f, pc) =
          [s EXCEPT !.disabledForPS = s.disabledForPS \/ pc = NoPc,
                    !.isParameterSpecialized = canSpecialize(s, f, pc)]
    BY DEF InitParameters
  <2> QED BY <2>1 DEF JSScript
<1>6. (entry \/ osr) => args = f.slots.formals
  OBVIOUS
<1>7. /\ entry \in BOOLEAN
      /\ osr \in BOOLEAN
  BY DEF canSpecialize, InitParameters, JSScript
<1>8. (entry \/ osr) => InitParameters(s, f, pc).isParameterSpecialized
  BY <1>5
<1> HIDE DEF entry, osr, args, locs, n
<1>9. n \in IonScript
  BY <1>1, <1>4, <1>7 DEF IonScript
<1>10. Specialized(n) <=> entry \/ osr
  BY <1>1 DEF Specialized
<1>11. n.args = args
  BY <1>1
<1> QED BY <1>6, <1>8, <1>9, <1>10, <1>11 DEF n

LEMMA LinkInv ==
  ASSUME NEW s \in JSScript, ScriptInv(s), s.ion = NULL,
         NEW f \in Frame, NEW pc \in LoopPc \cup {NoPc},
         s.disabledForPS \/ s.argsOfLastCall = f.slots.formals
  PROVE  LET t == [InitParameters(s, f, pc) EXCEPT !.ion = NewIonScript(s, f, pc)]
         IN  /\ ScriptInv(t)
             /\ hasIonScript(t)
             /\ Vouched(t.ion, f.slots.formals)
<1> DEFINE b == InitParameters(s, f, pc)
           n == NewIonScript(s, f, pc)
           t == [b EXCEPT !.ion = n]
<1>1. /\ ScriptInv(b)
      /\ b \in JSScript
      /\ b.argsOfLastCall = s.argsOfLastCall
      /\ b.isParameterSpecialized => ~s.disabledForPS
  BY InitParametersInv DEF ScriptInv
<1>2. /\ n \in IonScript
      /\ Specialized(n) => n.args = f.slots.formals /\ b.isParameterSpecialized
  BY NewIonScriptType
<1> HIDE DEF b, n
<1>3. /\ t \in JSScript
      /\ t.ion = n
      /\ t.argsOfLastCall = b.argsOfLastCall
      /\ t.disabledForPS = b.disabledForPS
      /\ t.isParameterSpecialized = b.isParameterSpecialized
  BY <1>1, <1>2 DEF JSScript
<1> HIDE DEF t
<1>4. hasIonScript(t)
  BY <1>2, <1>3, IonAssumption DEF hasIonScript
<1>5. FlagCoversCode(t) /\ DisabledClearsFlag(t)
  BY <1>1, <1>2, <1>3 DEF ScriptInv, FlagCoversCode, DisabledClearsFlag
<1>6. ArgsMatch(t)
  BY <1>1, <1>2, <1>3 DEF ArgsMatch
<1>7. Vouched(t.ion, f.slots.formals)
  BY <1>2, <1>3 DEF Vouched
<1> QED BY <1>3, <1>4, <1>5, <1>6, <1>7 DEF t, b, n, ScriptInv

(* What the rest of CanEnter relies on when Compile returns. *)
OutcomeOK(r, f) ==
  /\ ScriptInv(r.script)
  /\ r.status = "Compiled" => /\ hasIonScript(r.script)
                              /\ Vouched(r.script.ion, f.slots.formals)

LEMMA IonCompileOutcomesInv ==
  ASSUME NEW s \in JSScript, ScriptInv(s), s.ion = NULL,
         NEW f \in Frame, NEW pc \in LoopPc \cup {NoPc},
         s.disabledForPS \/ s.argsOfLastCall = f.slots.formals,
         NEW r \in IonCompileOutcomes(s, f, pc)
  PROVE  OutcomeOK(r, f)
<1> DEFINE b == InitParameters(s, f, pc)
           t == [b EXCEPT !.ion = NewIonScript(s, f, pc)]
<1>1. ScriptInv(b) /\ b \in JSScript
  BY InitParametersInv DEF ScriptInv
<1>2. /\ ScriptInv(t)
      /\ hasIonScript(t)
      /\ Vouched(t.ion, f.slots.formals)
  BY LinkInv
<1>3. ScriptInv(Invalidate(b, TRUE))
  BY <1>1, InvalidateInv
<1>4. \/ r = [status |-> "CantCompile", script |-> s]
      \/ r = [status |-> "CantCompile", script |-> b]
      \/ r = [status |-> "Compiled",    script |-> t]
      \/ r = [status |-> "Skipped",     script |-> Invalidate(b, TRUE)]
  BY DEF IonCompileOutcomes
<1> HIDE DEF b, t
<1>5. CASE r = [status |-> "CantCompile", script |-> s]
  BY <1>5 DEF OutcomeOK
<1>6. CASE r = [status |-> "CantCompile", script |-> b]
  BY <1>1, <1>6 DEF OutcomeOK
<1>7. CASE r = [status |-> "Compiled", script |-> t]
  BY <1>2, <1>7 DEF OutcomeOK
<1>8. CASE r = [status |-> "Skipped", script |-> Invalidate(b, TRUE)]
  BY <1>3, <1>8 DEF OutcomeOK
<1> QED BY <1>4, <1>5, <1>6, <1>7, <1>8

LEMMA CompileOutcomesInv ==
  ASSUME NEW s \in JSScript, ScriptInv(s), s.ion # ION_DISABLED_SCRIPT,
         NEW f \in Frame, NEW pc \in LoopPc \cup {NoPc},
         s.disabledForPS \/ s.argsOfLastCall = f.slots.formals,
         NEW r \in CompileOutcomes(s, f, pc)
  PROVE  OutcomeOK(r, f)
<1>1. CASE hasIonScript(s)
  <2>1. r = [status |-> "Compiled", script |-> s]
    BY <1>1 DEF CompileOutcomes
  <2>2. Vouched(s.ion, f.slots.formals)
    BY <1>1 DEF ScriptInv, FlagCoversCode, DisabledClearsFlag, ArgsMatch, Vouched
  <2> QED BY <1>1, <2>1, <2>2 DEF OutcomeOK
<1>2. CASE ~hasIonScript(s)
  <2>0. s.ion = NULL
    BY <1>2 DEF hasIonScript
  <2>1. ASSUME NEW n \in 0..UsesBeforeCompile
        PROVE  LET t == [s EXCEPT !.useCount = n]
               IN  /\ t \in JSScript
                   /\ ScriptInv(t)
                   /\ t.ion = NULL
                   /\ t.disabledForPS \/ t.argsOfLastCall = f.slots.formals
    <3> DEFINE t == [s EXCEPT !.useCount = n]
    <3>1. /\ t \in JSScript
          /\ t.ion = NULL
          /\ t.argsOfLastCall = s.argsOfLastCall
          /\ t.disabledForPS = s.disabledForPS
          /\ t.isParameterSpecialized = s.isParameterSpecialized
      BY <2>0 DEF JSScript
    <3> HIDE DEF t
    <3>2. ScriptInv(t)
      BY <3>1 DEF ScriptInv, FlagCoversCode, DisabledClearsFlag, ArgsMatch, hasIonScript
    <3> QED BY <3>1, <3>2 DEF t
  <2>2. CASE s.useCount + 1 < UsesBeforeCompile
    <3>1. s.useCount + 1 \in 0..UsesBeforeCompile
      BY <2>2, BoundAssumption DEF JSScript
    <3>2. r = [status |-> "Skipped", script |-> [s EXCEPT !.useCount = s.useCount + 1]]
      BY <1>2, <2>2 DEF CompileOutcomes
    <3> QED BY <3>1, <3>2, <2>1 DEF OutcomeOK
  <2>3. CASE ~(s.useCount + 1 < UsesBeforeCompile)
    <3>1. UsesBeforeCompile \in 0..UsesBeforeCompile
      BY BoundAssumption
    <3>2. r \in IonCompileOutcomes([s EXCEPT !.useCount = UsesBeforeCompile], f, pc)
      BY <1>2, <2>3 DEF CompileOutcomes
    <3> DEFINE t == [s EXCEPT !.useCount = UsesBeforeCompile]
    <3>3. /\ t \in JSScript
          /\ ScriptInv(t)
          /\ t.ion = NULL
          /\ t.disabledForPS \/ t.argsOfLastCall = f.slots.formals
          /\ r \in IonCompileOutcomes(t, f, pc)
      BY <3>1, <3>2, <2>1
    <3> HIDE DEF t
    <3> QED BY <3>3, IonCompileOutcomesInv
  <2> QED BY <2>2, <2>3
<1> QED BY <1>1, <1>2

LEMMA BailedInv ==
  ASSUME NEW s \in JSScript, ScriptInv(s), NEW b \in BOOLEAN
  PROVE  /\ ScriptInv([s EXCEPT !.bailed = b])
         /\ [s EXCEPT !.bailed = b].ion = s.ion
<1> DEFINE t == [s EXCEPT !.bailed = b]
<1>1. /\ t \in JSScript
      /\ t.ion = s.ion
      /\ t.argsOfLastCall = s.argsOfLastCall
      /\ t.disabledForPS = s.disabledForPS
      /\ t.isParameterSpecialized = s.isParameterSpecialized
  BY DEF JSScript
<1> HIDE DEF t
<1>2. ScriptInv(t)
  BY <1>1 DEF ScriptInv, FlagCoversCode, DisabledClearsFlag, ArgsMatch, hasIonScript
<1> QED BY <1>1, <1>2 DEF t

-----------------------------------------------------------------------------
(* The operators on frames and stacks. *)

LEMMA NewFrameInv ==
  ASSUME NEW args \in ArgVec
  PROVE  FrameInv(NewFrame(args)) /\ ~NewFrame(args).invalidated
  BY ValueAssumption DEF FrameInv, NewFrame, Frame, Slots

LEMMA EnterInv ==
  ASSUME NEW f \in Frame, FrameInv(f), NEW ion \in IonScript,
         NEW pc \in LoopPc \cup {NoPc}, Vouched(ion, f.slots.formals)
  PROVE  FrameInv(Enter(f, ion, pc))
<1>1. CASE pc = NoPc
  <2> DEFINE g == EnterAtEntry(f, ion, "entry")
             args == IF ion.specEntry THEN ion.args ELSE f.slots.formals
             un == IF f.unchecked # "no" \/ ~ion.specEntry THEN f.unchecked
                   ELSE IF ion.drifted THEN "drifted" ELSE "no"
  <2>1. /\ g.slots.formals = args
        /\ g.real = f.real
        /\ g.unchecked = un
        /\ g \in Frame
    BY DEF EnterAtEntry, Frame, Slots, IonScript
  <2>2. g.unchecked = "no" => g.slots.formals = g.real.formals
    BY <2>1 DEF FrameInv, Vouched, Specialized
  <2> QED BY <1>1, <2>1, <2>2 DEF Enter, FrameInv
<1>2. CASE pc # NoPc
  <2> DEFINE g == EnterAtOsr(f, ion)
  <2>1. /\ g.slots = IF ion.specOsr THEN [formals |-> ion.args, locals |-> ion.locals]
                     ELSE f.slots
        /\ g.real = f.real
        /\ g.unchecked = IF f.unchecked = "no" /\ ion.specOsr /\ ion.drifted
                         THEN "drifted" ELSE f.unchecked
        /\ g \in Frame
    BY DEF EnterAtOsr, Frame, Slots, IonScript
  <2> HIDE DEF g
  <2>2. g.unchecked = "no" => g.slots.formals = g.real.formals
    BY <2>1 DEF FrameInv, Vouched, Specialized
  <2> QED BY <1>2, <2>1, <2>2 DEF Enter, FrameInv, g
<1> QED BY <1>1, <1>2

LEMMA DirectCallInv ==
  ASSUME NEW args \in ArgVec, NEW ion \in IonScript
  PROVE  FrameInv(EnterAtEntry(NewFrame(args), ion, "direct"))
<1> DEFINE f == NewFrame(args)
           g == EnterAtEntry(f, ion, "direct")
<1>1. f \in Frame /\ f.unchecked = "no" /\ f.slots.formals = f.real.formals
  BY NewFrameInv DEF FrameInv, NewFrame
<1>2. g = [f EXCEPT !.mode = "direct",
                    !.slots.formals = IF ion.specEntry THEN ion.args ELSE @,
                    !.unchecked = IF @ # "no" \/ ~ion.specEntry THEN @ ELSE "direct"]
  BY DEF EnterAtEntry
<1> HIDE DEF f, g
<1>3. /\ g.slots.formals = IF ion.specEntry THEN ion.args ELSE f.slots.formals
      /\ g.real = f.real
      /\ g.unchecked = IF ion.specEntry THEN "direct" ELSE "no"
      /\ g \in Frame
  BY <1>1, <1>2 DEF Frame, Slots, IonScript
<1> QED BY <1>1, <1>3 DEF FrameInv, f, g

LEMMA BailedFrameInv ==
  ASSUME NEW f \in Frame, FrameInv(f)
  PROVE  FrameInv(BailedFrame(f)) /\ BailedFrame(f).mode = "interp"
  BY DEF FrameInv, BailedFrame, Frame

LEMMA SetTopInv ==
  ASSUME NEW k, StackInv(k), k # <<>>, NEW f, FrameInv(f)
  PROVE  StackInv(SetTop(k, f)) /\ Len(SetTop(k, f)) = Len(k)
<1>1. k \in Seq(Frame) /\ f \in Frame /\ Len(k) \in Nat /\ Len(k) # 0
  BY DEF StackInv, FrameInv
<1>2. SetTop(k, f) \in Seq(Frame) /\ Len(SetTop(k, f)) = Len(k)
  BY <1>1 DEF SetTop
<1>3. ASSUME NEW i \in 1..Len(SetTop(k, f))
      PROVE  FrameInv(SetTop(k, f)[i])
  <2>1. SetTop(k, f)[i] = IF i = Len(k) THEN f ELSE k[i]
    BY <1>1, <1>2 DEF SetTop
  <2> QED BY <1>2, <2>1 DEF StackInv
<1> QED BY <1>2, <1>3 DEF StackInv

LEMMA AppendInv ==
  ASSUME NEW k, StackInv(k), NEW f, FrameInv(f)
  PROVE  /\ StackInv(Append(k, f))
         /\ Len(Append(k, f)) = Len(k) + 1
         /\ Last(Append(k, f)) = f
<1>1. k \in Seq(Frame) /\ f \in Frame
  BY DEF StackInv, FrameInv
<1>2. Append(k, f) \in Seq(Frame) /\ Len(Append(k, f)) = Len(k) + 1
  BY <1>1
<1>3. ASSUME NEW i \in 1..Len(Append(k, f))
      PROVE  Append(k, f)[i] = IF i = Len(k) + 1 THEN f ELSE k[i]
  BY <1>1, <1>2
<1>4. ASSUME NEW i \in 1..Len(Append(k, f))
      PROVE  FrameInv(Append(k, f)[i])
  BY <1>1, <1>2, <1>3 DEF StackInv
<1> QED BY <1>1, <1>2, <1>4 DEF StackInv, Last

(* What Front returns, for a sequence over any set. *)
LEMMA FrontProperties ==
  ASSUME NEW S, NEW k \in Seq(S), k # <<>>
  PROVE  /\ Front(k) \in Seq(S)
         /\ Len(Front(k)) = Len(k) - 1
         /\ \A i \in 1..(Len(k) - 1) : i \in 1..Len(k) /\ Front(k)[i] = k[i]
<1> DEFINE n == Len(k) - 1
<1>1. Len(k) \in Nat /\ Len(k) # 0
  OBVIOUS
<1>2. n \in Nat /\ n + 1 = Len(k)
  BY <1>1
<1>3. SubSeq(k, 1, Len(k) - 1) \in Seq(S)
  OBVIOUS
<1>4. ASSUME NEW i \in 1..(Len(k) - 1)
      PROVE  i \in 1..Len(k) /\ SubSeq(k, 1, Len(k) - 1)[i] = k[i]
  OBVIOUS
<1> HIDE DEF n
<1>5. Len(SubSeq(k, 1, n)) = n
  BY <1>2
<1> QED BY <1>3, <1>4, <1>5 DEF Front, n

LEMMA FrontInv ==
  ASSUME NEW k, StackInv(k), k # <<>>
  PROVE  /\ StackInv(Front(k))
         /\ Len(Front(k)) = Len(k) - 1
         /\ \A i \in 1..Len(Front(k)) : i \in 1..Len(k) /\ Front(k)[i] = k[i]
<1>1. /\ Front(k) \in Seq(Frame)
      /\ Len(Front(k)) = Len(k) - 1
      /\ \A i \in 1..(Len(k) - 1) : i \in 1..Len(k) /\ Front(k)[i] = k[i]
  BY FrontProperties DEF StackInv
<1>2. \A i \in 1..Len(Front(k)) : i \in 1..Len(k) /\ Front(k)[i] = k[i]
  BY <1>1
<1> QED BY <1>1, <1>2 DEF StackInv

LEMMA LastInv ==
  ASSUME NEW k, StackInv(k), k # <<>>
  PROVE  FrameInv(Last(k)) /\ Last(k) \in Frame /\ Len(k) \in Nat \ {0}
<1>1. k \in Seq(Frame) /\ Len(k) \in Nat /\ Len(k) # 0
  BY DEF StackInv
<1> QED BY <1>1 DEF StackInv, Last, FrameInv

(* Every frame in Ion code is patched. *)
AllInvalidated(k) ==
  \A i \in 1..Len(k) : k[i].mode # "interp" => k[i].invalidated

LEMMA InvalidateActivationInv ==
  ASSUME NEW k, StackInv(k)
  PROVE  /\ StackInv(InvalidateActivation(k))
         /\ AllInvalidated(InvalidateActivation(k))
         /\ Len(InvalidateActivation(k)) = Len(k)
<1> DEFINE n == InvalidateActivation(k)
<1>1. k \in Seq(Frame) /\ Len(k) \in Nat
  BY DEF StackInv
<1>3. ASSUME NEW i \in 1..Len(k)
      PROVE  /\ n[i] \in Frame
             /\ n[i].mode = k[i].mode
             /\ n[i].mode # "interp" => n[i].invalidated
             /\ n[i].slots = k[i].slots
             /\ n[i].real = k[i].real
             /\ n[i].unchecked = k[i].unchecked
  <2>1. k[i] \in Frame
    BY <1>1
  <2>2. PICK v \in BOOLEAN : /\ n[i] = [k[i] EXCEPT !.invalidated = v]
                             /\ k[i].mode # "interp" => v
    <3>1. n[i] = [k[i] EXCEPT !.invalidated = k[i].invalidated \/ k[i].mode # "interp"]
      BY DEF InvalidateActivation
    <3>2. (k[i].invalidated \/ k[i].mode # "interp") \in BOOLEAN
      OBVIOUS
    <3> QED BY <3>1, <3>2
  <2> HIDE DEF n
  <2> QED BY <2>1, <2>2 DEF Frame
<1>4. n = [i \in 1..Len(k) |-> n[i]]
  BY DEF InvalidateActivation
<1> HIDE DEF n
<1>5. n \in Seq(Frame) /\ Len(n) = Len(k)
  <2>1. n \in [1..Len(k) -> Frame]
    BY <1>3, <1>4
  <2> QED BY <1>1, <2>1
<1>6. \A i \in 1..Len(n) : FrameInv(n[i])
  BY <1>3, <1>5 DEF FrameInv, StackInv
<1>7. AllInvalidated(n)
  BY <1>3, <1>5 DEF AllInvalidated
<1> QED BY <1>5, <1>6, <1>7 DEF StackInv, n

-----------------------------------------------------------------------------
(* The inductive invariant. *)

StateInv(s, k) ==
  /\ ScriptInv(s)
  /\ StackInv(k)
  /\ Len(k) <= MaxDepth
  /\ s.ion = NULL => AllInvalidated(k)

IInv == StateInv(script, stack)

LEMMA TryEnterInv ==
  ASSUME NEW k, StateInv(script, k), k # <<>>,
         NEW pc \in LoopPc \cup {NoPc}, TryEnter(k, pc)
  PROVE  IInv'
<1> DEFINE f  == Last(k)
           s1 == AfterArgumentCheck(script, f)
           k1 == StackAfterArgumentCheck(script, k)
<1>1. script \in JSScript /\ f \in Frame /\ FrameInv(f) /\ Len(k) \in Nat \ {0}
  BY LastInv DEF StateInv, ScriptInv
<1>2. /\ ScriptInv(s1)
      /\ s1 \in JSScript
      /\ s1.disabledForPS \/ s1.argsOfLastCall = f.slots.formals
      /\ script.ion # ION_DISABLED_SCRIPT => s1.ion # ION_DISABLED_SCRIPT
  BY <1>1, ArgumentCheckInv DEF StateInv, ScriptInv
<1>3. StackInv(k1) /\ k1 # <<>> /\ Len(k1) = Len(k)
  <2>1. StackInv(k1) /\ Len(k1) = Len(k)
    BY InvalidateActivationInv DEF StateInv, StackAfterArgumentCheck
  <2> QED BY <1>1, <2>1
<1>4. script.ion # ION_DISABLED_SCRIPT /\ s1.ion = NULL => AllInvalidated(k1)
  <2> SUFFICES ASSUME script.ion # ION_DISABLED_SCRIPT, s1.ion = NULL
               PROVE  AllInvalidated(k1)
    OBVIOUS
  <2>1. CASE MustDeoptimize(script, f) /\ hasIonScript(script)
    BY <2>1, InvalidateActivationInv DEF StateInv, StackAfterArgumentCheck
  <2>2. CASE ~MustDeoptimize(script, f) \/ ~hasIonScript(script)
    <3>1. k1 = k
      BY <2>2 DEF StackAfterArgumentCheck
    <3>2. script.ion = NULL
      BY <1>1, <2>2, ArgumentCheckInv DEF StateInv, hasIonScript
    <3> QED BY <3>1, <3>2 DEF StateInv
  <2> QED BY <2>1, <2>2
<1>5. CASE SkippedEarly(script) /\ script' = script /\ stack' = k
  BY <1>5 DEF IInv, StateInv
<1>6. CASE script' = ForbidCompilation(script) /\ stack' = k
  BY <1>1, <1>6, ForbidInv DEF IInv, StateInv
<1>7. CASE script' = ForbidCompilation(SaveArgs(script, f)) /\ stack' = k
  <2>1. ScriptInv(SaveArgs(script, f)) /\ SaveArgs(script, f) \in JSScript
    BY <1>1, SaveArgsInv DEF StateInv, ScriptInv
  <2> QED BY <1>7, <2>1, ForbidInv DEF IInv, StateInv
<1>8. ASSUME ~SkippedEarly(script), NEW r \in CompileOutcomes(s1, f, pc),
             \/ /\ r.status = "CantCompile"
                /\ script' = ForbidCompilation(r.script)
                /\ stack' = k1
             \/ /\ r.status = "Skipped"
                /\ script' = r.script
                /\ stack' = k1
             \/ /\ r.status = "Compiled"
                /\ script' = r.script
                /\ stack' = k1
             \/ /\ r.status = "Compiled"
                /\ script' = r.script
                /\ stack' = SetTop(k1, Enter(f, r.script.ion, pc))
             \/ /\ r.status = "Compiled"
                /\ script' = Invalidate(r.script, TRUE)
                /\ stack' = InvalidateActivation(k1)
             \/ /\ r.status = "Compiled"
                /\ \E b \in {r.script.bailed, FALSE} :
                     script' = [r.script EXCEPT !.bailed = b]
                /\ stack' = Front(k1)
      PROVE  IInv'
  <2>0. script.ion # ION_DISABLED_SCRIPT /\ s1.ion # ION_DISABLED_SCRIPT
    BY <1>2, <1>8 DEF SkippedEarly
  <2>1. OutcomeOK(r, f)
    BY <1>1, <1>2, <1>8, <2>0, CompileOutcomesInv
  <2>2. ScriptInv(r.script) /\ r.script \in JSScript
    BY <2>1 DEF OutcomeOK, ScriptInv
  <2>3. r.status # "Compiled" => AllInvalidated(k1)
    <3>1. r.status # "Compiled" => ~hasIonScript(s1)
      BY <1>8 DEF CompileOutcomes
    <3> QED BY <1>4, <2>0, <3>1 DEF hasIonScript
  <2>4. r.status = "Compiled" => /\ r.script.ion # NULL
                                /\ r.script.ion \in IonScript
                                /\ Vouched(r.script.ion, f.slots.formals)
    BY <2>1, <2>2 DEF OutcomeOK, hasIonScript, JSScript
  <2> HIDE DEF f, s1, k1
  <2>5. CASE r.status = "CantCompile" /\ script' = ForbidCompilation(r.script) /\ stack' = k1
    BY <1>3, <2>2, <2>5, ForbidInv DEF IInv, StateInv
  <2>6. CASE r.status = "Skipped" /\ script' = r.script /\ stack' = k1
    BY <1>3, <2>2, <2>3, <2>6 DEF IInv, StateInv
  <2>7. CASE r.status = "Compiled" /\ script' = r.script /\ stack' = k1
    BY <1>3, <2>2, <2>4, <2>7 DEF IInv, StateInv
  <2>8. CASE /\ r.status = "Compiled"
             /\ script' = r.script
             /\ stack' = SetTop(k1, Enter(f, r.script.ion, pc))
    <3>1. FrameInv(Enter(f, r.script.ion, pc))
      BY <1>1, <2>4, <2>8, EnterInv
    <3>2. StackInv(stack') /\ Len(stack') = Len(k1)
      BY <1>3, <2>8, <3>1, SetTopInv
    <3> QED BY <1>3, <2>2, <2>4, <2>8, <3>2 DEF IInv, StateInv
  <2>9. CASE script' = Invalidate(r.script, TRUE) /\ stack' = InvalidateActivation(k1)
    BY <1>3, <2>2, <2>9, InvalidateInv, InvalidateActivationInv DEF IInv, StateInv
  <2>10. CASE /\ r.status = "Compiled"
              /\ \E b \in {r.script.bailed, FALSE} :
                   script' = [r.script EXCEPT !.bailed = b]
              /\ stack' = Front(k1)
    <3>0. PICK b \in {r.script.bailed, FALSE} : script' = [r.script EXCEPT !.bailed = b]
      BY <2>10
    <3>1. ScriptInv(script') /\ script'.ion = r.script.ion
      <4>1. b \in BOOLEAN
        BY <2>2 DEF JSScript
      <4> QED BY <2>2, <3>0, <4>1, BailedInv
    <3>2. StackInv(Front(k1)) /\ Len(Front(k1)) <= MaxDepth
      BY <1>1, <1>3, FrontInv, BoundAssumption DEF StateInv
    <3> QED BY <2>4, <2>10, <3>1, <3>2 DEF IInv, StateInv
  <2> QED BY <1>8, <2>5, <2>6, <2>7, <2>8, <2>9, <2>10
<1> QED
  BY <1>5, <1>6, <1>7, <1>8 DEF TryEnter

-----------------------------------------------------------------------------
(* The actions. *)

(* What the end of EnterIon does to the script. *)
LEMMA EnterIonEndsInv ==
  ASSUME NEW s \in JSScript, ScriptInv(s), NEW f, NEW b \in BOOLEAN
  PROVE  ScriptInv(EnterIonEnds(s, f, b)) /\ EnterIonEnds(s, f, b).ion = s.ion
  BY BailedInv DEF EnterIonEnds

(* Leaving the top frame never breaks the invariant of the stack. *)
LEMMA PopInv ==
  ASSUME NEW s, NEW t, NEW k, StateInv(s, k), k # <<>>, ScriptInv(t),
         t.ion = NULL => s.ion = NULL
  PROVE  StateInv(t, Front(k))
<1>1. /\ StackInv(Front(k))
      /\ Len(Front(k)) = Len(k) - 1
      /\ \A i \in 1..Len(Front(k)) : i \in 1..Len(k) /\ Front(k)[i] = k[i]
      /\ Len(k) \in Nat
  BY FrontInv, LastInv DEF StateInv
<1>2. Len(Front(k)) <= MaxDepth
  BY <1>1, BoundAssumption DEF StateInv
<1>3. t.ion = NULL => AllInvalidated(Front(k))
  BY <1>1 DEF StateInv, AllInvalidated
<1> QED BY <1>1, <1>2, <1>3 DEF StateInv

(* Replacing the top frame by one that is not in unpatched Ion code. *)
LEMMA ReplaceTopInv ==
  ASSUME NEW s, NEW t, NEW k, StateInv(s, k), k # <<>>, ScriptInv(t),
         NEW f, FrameInv(f), t.ion = NULL => s.ion = NULL,
         f.mode = "interp" \/ f.invalidated \/ t.ion # NULL
  PROVE  StateInv(t, SetTop(k, f))
<1>1. StackInv(SetTop(k, f)) /\ Len(SetTop(k, f)) = Len(k) /\ Len(k) \in Nat \ {0}
  BY SetTopInv, LastInv DEF StateInv
<1>2. \A i \in 1..Len(k) : SetTop(k, f)[i] = IF i = Len(k) THEN f ELSE k[i]
  BY DEF SetTop, StateInv, StackInv
<1>3. t.ion = NULL => AllInvalidated(SetTop(k, f))
  BY <1>1, <1>2 DEF StateInv, AllInvalidated
<1> QED BY <1>1, <1>3 DEF StateInv

LEMMA PushInv ==
  ASSUME NEW s, NEW k, StateInv(s, k), Len(k) < MaxDepth,
         NEW f, FrameInv(f), f.mode = "interp" \/ s.ion # NULL
  PROVE  StateInv(s, Append(k, f)) /\ Append(k, f) # <<>> /\ Last(Append(k, f)) = f
<1>1. /\ StackInv(Append(k, f))
      /\ Len(Append(k, f)) = Len(k) + 1
      /\ Last(Append(k, f)) = f
      /\ k \in Seq(Frame)
      /\ Len(k) \in Nat
  BY AppendInv DEF StateInv, StackInv
<1>2. \A i \in 1..(Len(k) + 1) : Append(k, f)[i] = IF i = Len(k) + 1 THEN f ELSE k[i]
  BY <1>1
<1>3. s.ion = NULL => AllInvalidated(Append(k, f))
  BY <1>1, <1>2 DEF StateInv, AllInvalidated
<1>4. Len(Append(k, f)) <= MaxDepth
  BY <1>1, BoundAssumption
<1>5. Append(k, f) # <<>>
  BY <1>1
<1> QED BY <1>1, <1>3, <1>4, <1>5 DEF StateInv

LEMMA CallsInv ==
  ASSUME IInv, NEW args \in ArgVec, Call(args) \/ InterpCall(args) \/ IonCall(args)
  PROVE  IInv'
<1> DEFINE n == NewFrame(args)
<1>1. FrameInv(n) /\ n.mode = "interp"
  BY NewFrameInv DEF NewFrame
<1> HIDE DEF n
<1>2. CASE Call(args)
  <2>1. StateInv(script, Append(stack, n)) /\ Append(stack, n) # <<>>
    BY <1>1, <1>2, PushInv DEF Call, IInv
  <2> QED BY <1>2, <2>1, TryEnterInv DEF Call, n
<1>3. CASE InterpCall(args)
  BY <1>1, <1>3, PushInv DEF InterpCall, IInv, n
<1>4. CASE IonCall(args)
  <2>1. script.ion \in IonScript /\ script.ion # NULL
    BY <1>4 DEF IonCall, hasIonScript, IInv, StateInv, ScriptInv, JSScript
  <2>2. FrameInv(EnterAtEntry(n, script.ion, "direct"))
    BY <2>1, DirectCallInv DEF n
  <2> QED BY <1>4, <2>1, <2>2, PushInv DEF IonCall, IInv, n
<1> QED BY <1>2, <1>3, <1>4

LEMMA LoopEntryInv ==
  ASSUME IInv, NEW pc \in LoopPc, LoopEntry(pc)
  PROVE  IInv'
  BY TryEnterInv DEF LoopEntry, Running, IInv

LEMMA BodyInv ==
  ASSUME IInv, (\E i \in 1..NArgs, v \in Value : SetArg(i, v)) \/ (\E v \in Local : SetLocal(v))
  PROVE  IInv'
<1> DEFINE f == Last(stack)
<1>1. /\ f \in Frame
      /\ FrameInv(f)
      /\ stack # <<>>
      /\ ~f.invalidated
      /\ Len(stack) \in Nat \ {0}
  BY LastInv DEF IInv, StateInv, SetArg, SetLocal, Running
<1>2. f.mode = "interp" \/ script.ion # NULL
  BY <1>1 DEF IInv, StateInv, AllInvalidated, Last
<1>3. ASSUME NEW g, FrameInv(g), g.mode = f.mode, stack' = SetTop(stack, g), UNCHANGED script
      PROVE  IInv'
  BY <1>1, <1>2, <1>3, ReplaceTopInv DEF IInv, StateInv
<1>4. ASSUME NEW i \in 1..NArgs, NEW v \in Value, SetArg(i, v)
      PROVE  IInv'
  <2> DEFINE g == [f EXCEPT !.slots.formals[i] = v, !.real.formals[i] = v]
  <2>1. /\ g \in Frame
        /\ g.mode = f.mode
        /\ g.unchecked = f.unchecked
        /\ g.slots.formals = [f.slots.formals EXCEPT ![i] = v]
        /\ g.real.formals = [f.real.formals EXCEPT ![i] = v]
    BY <1>1 DEF Frame, Slots, ArgVec
  <2> HIDE DEF g
  <2>2. FrameInv(g)
    BY <1>1, <2>1 DEF FrameInv
  <2> QED BY <1>3, <1>4, <2>1, <2>2 DEF SetArg, g
<1>5. ASSUME NEW v \in Local, SetLocal(v)
      PROVE  IInv'
  <2> DEFINE g == [f EXCEPT !.slots.locals = v, !.real.locals = v]
  <2>1. /\ g \in Frame
        /\ g.mode = f.mode
        /\ g.unchecked = f.unchecked
        /\ g.slots.formals = f.slots.formals
        /\ g.real.formals = f.real.formals
    BY <1>1 DEF Frame, Slots
  <2> HIDE DEF g
  <2>2. FrameInv(g)
    BY <1>1, <2>1 DEF FrameInv
  <2> QED BY <1>3, <1>5, <2>1, <2>2 DEF SetLocal, g
<1> QED BY <1>4, <1>5

LEMMA LeaveInv ==
  ASSUME IInv, Return \/ Throw
  PROVE  IInv'
<1> DEFINE t == EnterIonEnds(script, Last(stack), FALSE)
<1>1. stack # <<>> /\ script' = t /\ stack' = Front(stack)
  BY DEF Return, Throw, Running
<1>2. ScriptInv(t) /\ t.ion = script.ion
  BY EnterIonEndsInv DEF IInv, StateInv, ScriptInv
<1> HIDE DEF t
<1> QED BY <1>1, <1>2, PopInv DEF IInv

(* setBailoutExpected and failedBoundsCheck touch nothing the invariant reads. *)
LEMMA SetBailoutExpectedInv ==
  ASSUME NEW s \in JSScript, ScriptInv(s)
  PROVE  /\ ScriptInv(SetBailoutExpected(s))
         /\ SetBailoutExpected(s).ion = NULL <=> s.ion = NULL
<1>1. CASE ~hasIonScript(s)
  BY <1>1 DEF SetBailoutExpected
<1>2. CASE hasIonScript(s)
  <2> DEFINE d == [s.ion EXCEPT !.bailoutExpected = TRUE]
             t == [s EXCEPT !.ion = d]
  <2>1. s.ion \in IonScript
    BY <1>2 DEF hasIonScript, JSScript
  <2>2. /\ d \in IonScript
        /\ d.args = s.ion.args
        /\ d.drifted = s.ion.drifted
        /\ Specialized(d) <=> Specialized(s.ion)
    BY <2>1 DEF IonScript, Specialized
  <2>3. d # NULL /\ s.ion # NULL
    BY <2>1, <2>2, IonAssumption
  <2>4. SetBailoutExpected(s) = t
    BY <1>2 DEF SetBailoutExpected
  <2> HIDE DEF d
  <2>5. /\ t \in JSScript
        /\ t.ion = d
        /\ t.argsOfLastCall = s.argsOfLastCall
        /\ t.disabledForPS = s.disabledForPS
        /\ t.isParameterSpecialized = s.isParameterSpecialized
    BY <2>2 DEF JSScript
  <2> HIDE DEF t
  <2>6. ScriptInv(t)
    BY <1>2, <2>2, <2>5 DEF ScriptInv, FlagCoversCode, DisabledClearsFlag, ArgsMatch
  <2> QED BY <2>3, <2>4, <2>5, <2>6
<1> QED BY <1>1, <1>2

LEMMA FailedBoundsCheckInv ==
  ASSUME NEW s \in JSScript, ScriptInv(s), NEW b \in BOOLEAN
  PROVE  /\ ScriptInv([s EXCEPT !.failedBoundsCheck = b])
         /\ [s EXCEPT !.failedBoundsCheck = b].ion = s.ion
<1> DEFINE t == [s EXCEPT !.failedBoundsCheck = b]
<1>1. /\ t \in JSScript
      /\ t.ion = s.ion
      /\ t.argsOfLastCall = s.argsOfLastCall
      /\ t.disabledForPS = s.disabledForPS
      /\ t.isParameterSpecialized = s.isParameterSpecialized
  BY DEF JSScript
<1> HIDE DEF t
<1>2. ScriptInv(t)
  BY <1>1 DEF ScriptInv, FlagCoversCode, DisabledClearsFlag, ArgsMatch, hasIonScript
<1> QED BY <1>1, <1>2 DEF t

(* Throwing the code away is safe once every frame in it is patched. *)
LEMMA DropInv ==
  ASSUME NEW s, NEW k, ScriptInv(s), StackInv(k), Len(k) <= MaxDepth, NEW u \in BOOLEAN
  PROVE  StateInv(Invalidate(s, u), InvalidateActivation(k))
<1>1. ScriptInv(Invalidate(s, u))
  BY InvalidateInv DEF ScriptInv
<1> QED BY <1>1, InvalidateActivationInv DEF StateInv

LEMMA BailoutAndInv ==
  ASSUME IInv, NEW s, ScriptInv(s), s.ion = script.ion,
         NEW drop \in BOOLEAN, NEW u \in BOOLEAN, BailoutAnd(s, drop, u)
  PROVE  IInv'
<1> DEFINE f == Last(stack)
           k == SetTop(stack, BailedFrame(f))
           b == SetBailoutExpected(s)
           t == IF drop THEN Invalidate(b, u) ELSE b
           j == IF drop THEN InvalidateActivation(k) ELSE k
<1>1. /\ stack # <<>>
      /\ script' = EnterIonEnds(t, f, TRUE)
      /\ stack' = j
  BY DEF BailoutAnd, InIon, Running
<1>2. FrameInv(BailedFrame(f)) /\ BailedFrame(f).mode = "interp"
  BY <1>1, LastInv, BailedFrameInv DEF IInv, StateInv
<1>3. ScriptInv(b) /\ (b.ion = NULL <=> script.ion = NULL)
  BY SetBailoutExpectedInv DEF ScriptInv
<1> HIDE DEF f, b
<1>4. StateInv(b, k)
  BY <1>1, <1>2, <1>3, ReplaceTopInv DEF IInv
<1> HIDE DEF k
<1>5. StateInv(t, j)
  <2>1. CASE drop
    BY <1>4, <2>1, DropInv DEF StateInv
  <2>2. CASE ~drop
    BY <1>4, <2>2
  <2> QED BY <2>1, <2>2
<1> HIDE DEF t, j
<1>6. ScriptInv(script') /\ script'.ion = t.ion
  BY <1>1, <1>5, EnterIonEndsInv DEF StateInv, ScriptInv
<1> QED BY <1>1, <1>5, <1>6 DEF IInv, StateInv

LEMMA BailoutsInv ==
  ASSUME IInv,
         NormalBailout \/ InvalidatingBailout \/ RecompileForInlining \/ BoundsCheckFailure
  PROVE  IInv'
<1>1. ScriptInv(script) /\ script \in JSScript
  BY DEF IInv, StateInv, ScriptInv
<1>2. CASE NormalBailout \/ InvalidatingBailout \/ RecompileForInlining
  BY <1>1, <1>2, BailoutAndInv DEF NormalBailout, InvalidatingBailout, RecompileForInlining
<1>3. CASE BoundsCheckFailure
  <2> DEFINE s == [script EXCEPT !.failedBoundsCheck = TRUE]
  <2>1. ScriptInv(s) /\ s.ion = script.ion
    BY <1>1, FailedBoundsCheckInv
  <2>2. BailoutAnd(s, ~script.failedBoundsCheck, TRUE)
    BY <1>3 DEF BoundsCheckFailure
  <2>3. (~script.failedBoundsCheck) \in BOOLEAN
    OBVIOUS
  <2> HIDE DEF s
  <2> QED BY <2>1, <2>2, <2>3, BailoutAndInv
<1> QED BY <1>2, <1>3

LEMMA BailoutFailureInv ==
  ASSUME IInv, BailoutFailure
  PROVE  IInv'
<1> DEFINE b == SetBailoutExpected(script)
<1>1. ScriptInv(script) /\ script \in JSScript /\ stack # <<>>
  BY DEF IInv, StateInv, ScriptInv, BailoutFailure, InIon, Running
<1>2. ScriptInv(b) /\ b \in JSScript /\ (b.ion = NULL <=> script.ion = NULL)
  BY <1>1, SetBailoutExpectedInv DEF ScriptInv
<1>3. PICK c \in {script.failedBoundsCheck, TRUE} :
        script' = EnterIonEnds([b EXCEPT !.failedBoundsCheck = c], Last(stack), FALSE)
  BY DEF BailoutFailure
<1>4. c \in BOOLEAN
  BY <1>1 DEF JSScript
<1> HIDE DEF b
<1> DEFINE d == [b EXCEPT !.failedBoundsCheck = c]
<1>5. ScriptInv(d) /\ d \in JSScript /\ d.ion = b.ion
  BY <1>2, <1>4, FailedBoundsCheckInv DEF ScriptInv
<1>6. ScriptInv(script') /\ script'.ion = d.ion
  <2>1. script' = EnterIonEnds(d, Last(stack), FALSE)
    BY <1>3
  <2> HIDE DEF d
  <2> QED BY <1>5, <2>1, EnterIonEndsInv
<1>7. stack' = Front(stack)
  BY DEF BailoutFailure
<1> QED BY <1>1, <1>2, <1>5, <1>6, <1>7, PopInv DEF IInv

LEMMA InvalidationBailoutInv ==
  ASSUME IInv, InvalidationBailout
  PROVE  IInv'
<1>1. FrameInv(BailedFrame(Last(stack))) /\ BailedFrame(Last(stack)).mode = "interp"
  BY LastInv, BailedFrameInv DEF IInv, StateInv, InvalidationBailout
<1>2. ScriptInv(script') /\ script'.ion = script.ion
  BY EnterIonEndsInv DEF InvalidationBailout, IInv, StateInv, ScriptInv
<1> QED BY <1>1, <1>2, ReplaceTopInv DEF InvalidationBailout, IInv

LEMMA DiscardInv ==
  ASSUME IInv, ProcessPendingRecompiles \/ DiscardJitCode
  PROVE  IInv'
<1>1. /\ ScriptInv(script)
      /\ script \in JSScript
      /\ StackInv(stack)
      /\ Len(stack) <= MaxDepth
  BY DEF IInv, StateInv, ScriptInv
<1>2. CASE script' = Invalidate(script, TRUE) /\ stack' = InvalidateActivation(stack)
  BY <1>1, <1>2, DropInv DEF IInv
<1>3. CASE script' = [script EXCEPT !.useCount = 0] /\ stack' = stack
  <2>1. /\ script' \in JSScript
        /\ script'.ion = script.ion
        /\ script'.argsOfLastCall = script.argsOfLastCall
        /\ script'.disabledForPS = script.disabledForPS
        /\ script'.isParameterSpecialized = script.isParameterSpecialized
    BY <1>1, <1>3, Zero DEF JSScript
  <2>2. ScriptInv(script')
    BY <1>1, <2>1 DEF ScriptInv, FlagCoversCode, DisabledClearsFlag, ArgsMatch, hasIonScript
  <2> QED BY <1>3, <2>1, <2>2 DEF IInv, StateInv
<1> QED BY <1>2, <1>3 DEF ProcessPendingRecompiles, DiscardJitCode

-----------------------------------------------------------------------------
(* The theorems. *)

LEMMA InitInv == Init => IInv
<1> SUFFICES ASSUME Init PROVE IInv
  OBVIOUS
<1>1. /\ script.ion = NULL
      /\ ~script.disabledForPS
      /\ script \in JSScript
  BY Zero DEF Init, JSScript
<1>2. ScriptInv(script)
  BY <1>1 DEF ScriptInv, FlagCoversCode, DisabledClearsFlag, ArgsMatch, hasIonScript
<1>3. stack \in Seq(Frame) /\ Len(stack) = 0
  BY DEF Init
<1> QED
  BY <1>2, <1>3, BoundAssumption DEF IInv, StateInv, StackInv, AllInvalidated

LEMMA NextInv == IInv /\ [Next]_vars => IInv'
<1> SUFFICES ASSUME IInv, [Next]_vars PROVE IInv'
  OBVIOUS
<1>1. CASE UNCHANGED vars
  BY <1>1 DEF vars, IInv
<1>2. CASE \E args \in ArgVec : Call(args) \/ InterpCall(args) \/ IonCall(args)
  BY <1>2, CallsInv
<1>3. CASE \E pc \in LoopPc : LoopEntry(pc)
  BY <1>3, LoopEntryInv
<1>4. CASE (\E i \in 1..NArgs, v \in Value : SetArg(i, v)) \/ (\E v \in Local : SetLocal(v))
  BY <1>4, BodyInv
<1>5. CASE Return \/ Throw
  BY <1>5, LeaveInv
<1>6. CASE NormalBailout \/ InvalidatingBailout \/ RecompileForInlining \/ BoundsCheckFailure
  BY <1>6, BailoutsInv
<1>7. CASE BailoutFailure
  BY <1>7, BailoutFailureInv
<1>8. CASE InvalidationBailout
  BY <1>8, InvalidationBailoutInv
<1>9. CASE ProcessPendingRecompiles \/ DiscardJitCode
  BY <1>9, DiscardInv
<1> QED
  BY <1>1, <1>2, <1>3, <1>4, <1>5, <1>6, <1>7, <1>8, <1>9 DEF Next

LEMMA InvariantHolds == Spec => []IInv
  BY InitInv, NextInv, PTL DEF Spec

(* Whatever the number of arguments, loops, values and activations, the    *)
(* flags, use count, saved arguments and frames keep their types through   *)
(* every call, OSR entry, bailout, invalidation and collection.            *)
THEOREM TypeCorrect == Spec => []TypeOK
<1>1. IInv => TypeOK
  BY DEF IInv, StateInv, ScriptInv, StackInv, TypeOK
<1> QED BY <1>1, InvariantHolds, PTL

(* Every frame that entered the code behind an argument comparison that    *)
(* Compile acted upon computes with its own arguments.                     *)
THEOREM ArgumentComparisonSuffices == Spec => []CheckedFramesSeeTheirArguments
<1>1. IInv => CheckedFramesSeeTheirArguments
  BY DEF IInv, StateInv, StackInv, FrameInv, CheckedFramesSeeTheirArguments
<1> QED BY <1>1, InvariantHolds, PTL

(* disabledForPS is final: no later compilation installs specialized code. *)
THEOREM DisabledIsFinal == Spec => []NeverSpecializedOnceDisabled
<1>1. IInv => NeverSpecializedOnceDisabled
  BY DEF IInv, StateInv, ScriptInv, FlagCoversCode, DisabledClearsFlag,
         NeverSpecializedOnceDisabled
<1> QED BY <1>1, InvariantHolds, PTL

(* The saved arguments are the constants of the code, unless Compile kept  *)
(* the code of a script that had bailed out.                               *)
THEOREM SavedArgumentsMatch == Spec => []LastCallMatchesCode
<1>1. IInv => LastCallMatchesCode
  BY DEF IInv, StateInv, ScriptInv, ArgsMatch, LastCallMatchesCode
<1> QED BY <1>1, InvariantHolds, PTL

(* Invalidation reaches every frame that runs the discarded code. *)
THEOREM InvalidationIsComplete == Spec => []NoFrameRunsDiscardedCode
<1>1. IInv => NoFrameRunsDiscardedCode
  BY DEF IInv, StateInv, AllInvalidated, NoFrameRunsDiscardedCode
<1> QED BY <1>1, InvariantHolds, PTL

=============================================================================
