----------------------- MODULE ParameterSpecialization -----------------------
(***************************************************************************)
(* The life of one function script under --ion-ps: when IonMonkey compiles *)
(* it, specializes the code to the values of the arguments, enters the     *)
(* code, bails out of it, discards it and decides never to specialize it   *)
(* again.  The script is run by a stack of activations (recursion, and     *)
(* re-entry through other functions); only the top one executes.           *)
(*                                                                         *)
(* Each frame carries two copies of its arguments and locals: slots is     *)
(* what the tier that executes the frame computes with, real is what an    *)
(* interpreter that never left the bytecode would have.  The two differ    *)
(* exactly when compiled-in constants are wrong for the frame.             *)
(***************************************************************************)
EXTENDS Naturals, Sequences, SequencesExt

CONSTANTS
  Value,                \* JS values an argument may have
  Undefined,            \* the value canSpecialize refuses to specialize to
  NArgs,                \* fun->nargs, the number of formal arguments
  Local,                \* abstract contents of all the locals of a frame
  InitLocal,            \* their contents when the function is entered
  LoopPc,               \* the JSOP_LOOPENTRY pcs of the script
  NoPc,                 \* osrPc == NULL
  UsesBeforeCompile,    \* js_IonOptions.usesBeforeCompile(NoJaeger)
  MaxDepth,             \* bound on the number of activations of the script
  NULL,                 \* script->ion == NULL
  ION_DISABLED_SCRIPT   \* script->ion == ION_DISABLED_SCRIPT

ArgVec == [1..NArgs -> Value]

(***************************************************************************)
(* The part of an IonScript that the entry points depend on.  specEntry    *)
(* (specOsr): the entry (OSR) block holds the constants in args instead of *)
(* MParameter (MOsrValue) instructions; a specialized OSR block holds the  *)
(* constants in locals too.  drifted is a history variable: Compile saw    *)
(* other arguments than those in args and did not discard the code.        *)
(***************************************************************************)
IonScript ==
  [specEntry : BOOLEAN, specOsr : BOOLEAN, osrPc : LoopPc \cup {NoPc},
   args : ArgVec, locals : Local, bailoutExpected : BOOLEAN,
   drifted : BOOLEAN]

(* The fields of JSScript that steer compilation. *)
JSScript ==
  [ion : IonScript \cup {NULL, ION_DISABLED_SCRIPT},
   disabledForPS : BOOLEAN, isParameterSpecialized : BOOLEAN,
   bailed : BOOLEAN, failedBoundsCheck : BOOLEAN,
   argsOfLastCall : ArgVec \cup {<<>>}, useCount : 0..UsesBeforeCompile]

Slots == [formals : ArgVec, locals : Local]

(***************************************************************************)
(* mode: interpreted, in Ion code as the entry frame of an activation      *)
(* (EnterIon), or in Ion code called straight from Ion code.  invalidated: *)
(* the OSI point of the frame is patched, so it bails out when it gets     *)
(* control.  unchecked is a history variable: how the frame came to enter  *)
(* constants that no argument comparison vouched for, if it did.           *)
(***************************************************************************)
Frame ==
  [mode : {"interp", "entry", "direct"}, invalidated : BOOLEAN,
   slots : Slots, real : Slots, unchecked : {"no", "direct", "drifted"}]

ASSUME ValueAssumption ==
  Undefined \in Value /\ InitLocal \in Local /\ NoPc \notin LoopPc

ASSUME BoundAssumption ==
  NArgs \in Nat /\ UsesBeforeCompile \in Nat /\ MaxDepth \in Nat

(* The two special values of script->ion are no IonScripts. *)
ASSUME IonAssumption ==
  /\ NULL # ION_DISABLED_SCRIPT
  /\ NULL \notin IonScript
  /\ ION_DISABLED_SCRIPT \notin IonScript

VARIABLES
  script,               \* the JSScript
  stack                 \* its activations, the running one last

vars == <<script, stack>>

Init ==
  /\ script = [ion |-> NULL, disabledForPS |-> FALSE,
               isParameterSpecialized |-> FALSE, bailed |-> FALSE,
               failedBoundsCheck |-> FALSE, argsOfLastCall |-> <<>>,
               useCount |-> 0]
  /\ stack = <<>>

-----------------------------------------------------------------------------
(* Helpers on scripts and frames. *)

hasIonScript(s) == s.ion \notin {NULL, ION_DISABLED_SCRIPT}

Specialized(ion) == ion.specEntry \/ ion.specOsr

NewFrame(args) ==
  LET sl == [formals |-> args, locals |-> InitLocal]
  IN  [mode |-> "interp", invalidated |-> FALSE, slots |-> sl, real |-> sl,
       unchecked |-> "no"]

SetTop(k, f) == [k EXCEPT ![Len(k)] = f]

(* Faulty variant: patches the entry frames of the activations only. *)
InvalidateEntryFramesOnly(k) ==
  [i \in 1..Len(k) |-> [k[i] EXCEPT !.invalidated = @ \/ k[i].mode = "entry"]]

(* Patching every frame that runs the code that is being invalidated. *)
InvalidateActivation(k) ==
  [i \in 1..Len(k) |-> [k[i] EXCEPT !.invalidated = @ \/ k[i].mode # "interp"]]

Invalidate(s, resetUses) ==
  [s EXCEPT !.ion = NULL, !.useCount = IF resetUses THEN 0 ELSE @]

ForbidCompilation(s) == [s EXCEPT !.ion = ION_DISABLED_SCRIPT]

-----------------------------------------------------------------------------
(* Compile: the argument comparison, the deoptimization, the compilation.  *)

(* Faulty variant: compares the number of arguments and not the values. *)
ComparesCountOnly(s, f) ==
  \/ s.disabledForPS
  \/ s.isParameterSpecialized /\ Len(s.argsOfLastCall) # NArgs

hasArgumentsChangedSinceLastCall(s, f) ==
  \/ s.disabledForPS
  \/ s.isParameterSpecialized /\ s.argsOfLastCall # f.slots.formals

(* Faulty variant: saves the arguments of the first call only. *)
SavesFirstArgsOnly(s, f) ==
  [s EXCEPT !.argsOfLastCall = IF @ = <<>> THEN f.slots.formals ELSE @]

(* The side effect of hasArgumentsChangedSinceLastCall, together with the  *)
(* history of the changes that bailed makes Compile ignore.                *)
SaveArgs(s, f) ==
  LET missed == /\ hasArgumentsChangedSinceLastCall(s, f)
                /\ s.isParameterSpecialized
                /\ hasIonScript(s)
  IN  [s EXCEPT !.argsOfLastCall = IF s.disabledForPS THEN @ ELSE f.slots.formals,
                !.ion = IF missed THEN [@ EXCEPT !.drifted = TRUE] ELSE @]

MustDeoptimize(s, f) ==
  /\ hasArgumentsChangedSinceLastCall(s, f)
  /\ s.isParameterSpecialized
  /\ ~s.bailed

Deoptimize(s) ==
  [Invalidate(s, FALSE) EXCEPT !.disabledForPS = TRUE,
                               !.isParameterSpecialized = FALSE]

(* The script when Compile has decided whether the old code may stay. *)
AfterArgumentCheck(s, f) ==
  IF MustDeoptimize(s, f) THEN Deoptimize(SaveArgs(s, f)) ELSE SaveArgs(s, f)

StackAfterArgumentCheck(s, k) ==
  IF MustDeoptimize(s, Last(k)) /\ hasIonScript(s)
  THEN InvalidateActivation(k) ELSE k

(* Faulty variant: does not look at disabledForPS. *)
IgnoresDisabledForPS(s, f, osrPc) ==
  /\ osrPc # NoPc
  /\ \A i \in 1..NArgs : f.slots.formals[i] # Undefined

canSpecialize(s, f, osrPc) ==
  /\ ~s.disabledForPS
  /\ osrPc # NoPc
  /\ \A i \in 1..NArgs : f.slots.formals[i] # Undefined

(* initParameters: canSpecialize disables the script when there is no OSR. *)
InitParameters(s, f, osrPc) ==
  IF s.isParameterSpecialized THEN s
  ELSE [s EXCEPT !.disabledForPS = @ \/ osrPc = NoPc,
                 !.isParameterSpecialized = canSpecialize(s, f, osrPc)]

(* The code IonCompile links for frame f: initParameters for the entry     *)
(* block, newOsrPreheader for the OSR block.                               *)
NewIonScript(s, f, osrPc) ==
  LET entry == ~s.isParameterSpecialized /\ canSpecialize(s, f, osrPc)
      osr   == /\ osrPc # NoPc
               /\ InitParameters(s, f, osrPc).isParameterSpecialized
  IN  [specEntry |-> entry, specOsr |-> osr, osrPc |-> osrPc,
       args   |-> IF entry \/ osr THEN f.slots.formals
                  ELSE [i \in 1..NArgs |-> Undefined],
       locals |-> IF osr THEN f.slots.locals ELSE InitLocal,
       bailoutExpected |-> FALSE, drifted |-> FALSE]

(***************************************************************************)
(* The outcomes of IonCompile: it fails before or after initParameters has *)
(* set the flags, or it links code, which the type changes made during the *)
(* compilation may invalidate at once.                                     *)
(***************************************************************************)
IonCompileOutcomes(s, f, osrPc) ==
  LET built  == InitParameters(s, f, osrPc)
      linked == [built EXCEPT !.ion = NewIonScript(s, f, osrPc)]
  IN  { [status |-> "CantCompile", script |-> s],
        [status |-> "CantCompile", script |-> built],
        [status |-> "Compiled",    script |-> linked],
        [status |-> "Skipped",     script |-> Invalidate(built, TRUE)] }

(* Faulty variant: counts the use before it tests script->ion. *)
CountsUsesOfCompiledCode(s, f, osrPc) ==
  LET u == [s EXCEPT !.useCount = @ + 1]
  IN  IF hasIonScript(s) THEN {[status |-> "Compiled", script |-> u]}
      ELSE IF u.useCount < UsesBeforeCompile
      THEN {[status |-> "Skipped", script |-> u]}
      ELSE IonCompileOutcomes([s EXCEPT !.useCount = UsesBeforeCompile], f, osrPc)

(* The rest of Compile, from the test of script->ion on. *)
CompileOutcomes(s, f, osrPc) ==
  IF hasIonScript(s) THEN {[status |-> "Compiled", script |-> s]}
  ELSE IF s.useCount + 1 < UsesBeforeCompile
  THEN {[status |-> "Skipped", script |-> [s EXCEPT !.useCount = @ + 1]]}
  ELSE IonCompileOutcomes([s EXCEPT !.useCount = UsesBeforeCompile], f, osrPc)

-----------------------------------------------------------------------------
(* Entering Ion code. *)

(* What a frame computes with after Cannon or a direct call. *)
EnterAtEntry(f, ion, how) ==
  [f EXCEPT !.mode = how,
            !.slots.formals = IF ion.specEntry THEN ion.args ELSE @,
            !.unchecked = IF @ # "no" \/ ~ion.specEntry THEN @
                          ELSE IF how = "direct" THEN "direct"
                          ELSE IF ion.drifted THEN "drifted" ELSE "no"]

(* What a frame computes with after SideCannon. *)
EnterAtOsr(f, ion) ==
  [f EXCEPT !.mode = "entry",
            !.slots = IF ion.specOsr
                      THEN [formals |-> ion.args, locals |-> ion.locals] ELSE @,
            !.unchecked = IF @ = "no" /\ ion.specOsr /\ ion.drifted
                          THEN "drifted" ELSE @]

Enter(f, ion, osrPc) ==
  IF osrPc = NoPc THEN EnterAtEntry(f, ion, "entry") ELSE EnterAtOsr(f, ion)

(* CanEnter and CanEnterAtBranch skip a disabled script and code that      *)
(* bailed out before.                                                      *)
SkippedEarly(s) ==
  \/ s.ion = ION_DISABLED_SCRIPT
  \/ hasIonScript(s) /\ s.ion.bailoutExpected

(***************************************************************************)
(* CanEnter (osrPc = NoPc) or CanEnterAtBranch for the last frame of k,    *)
(* followed by Cannon or SideCannon when the answer is Method_Compiled and *)
(* by the interpreter when it is not.                                      *)
(***************************************************************************)
TryEnter(k, osrPc) ==
  LET f  == Last(k)
      s1 == AfterArgumentCheck(script, f)
      k1 == StackAfterArgumentCheck(script, k)
  IN
  \/ /\ SkippedEarly(script)
     /\ script' = script
     /\ stack' = k
  \/ \* CheckFrame fails, or the script fails CheckScript before any compilation
     /\ ~SkippedEarly(script)
     /\ script' = ForbidCompilation(script)
     /\ stack' = k
  \/ \* Invalidate runs out of memory
     /\ ~SkippedEarly(script)
     /\ MustDeoptimize(script, f) /\ hasIonScript(script)
     /\ script' = ForbidCompilation(SaveArgs(script, f))
     /\ stack' = k
  \/ /\ ~SkippedEarly(script)
     /\ \E r \in CompileOutcomes(s1, f, osrPc) :
          \/ /\ r.status = "CantCompile"
             /\ script' = ForbidCompilation(r.script)
             /\ stack' = k1
          \/ /\ r.status = "Skipped"
             /\ script' = r.script
             /\ stack' = k1
          \/ \* the code was compiled for another loop
             /\ r.status = "Compiled"
             /\ osrPc # NoPc /\ r.script.ion.osrPc # osrPc
             /\ script' = r.script
             /\ stack' = k1
          \/ \* Cannon or SideCannon
             /\ r.status = "Compiled"
             /\ osrPc \in {NoPc, r.script.ion.osrPc}
             /\ script' = r.script
             /\ stack' = SetTop(k1, Enter(f, r.script.ion, osrPc))
          \/ \* enterJIT collects garbage, which discards the code
             /\ r.status = "Compiled"
             /\ osrPc \in {NoPc, r.script.ion.osrPc}
             /\ script' = Invalidate(r.script, TRUE)
             /\ stack' = InvalidateActivation(k1)
          \/ \* enterJIT fails, or EnterIon finds the C++ stack exhausted
             /\ r.status = "Compiled"
             /\ osrPc \in {NoPc, r.script.ion.osrPc}
             /\ \E b \in {r.script.bailed, FALSE} :
                  script' = [r.script EXCEPT !.bailed = b]
             /\ stack' = Front(k1)

-----------------------------------------------------------------------------
(* Calls and loop entries. *)

(* RunScript, JSOP_CALL and JSOP_NEW; Ion code that calls a script without *)
(* Ion code comes here too, through InvokeFunction.                        *)
Call(args) ==
  /\ Len(stack) < MaxDepth
  /\ TryEnter(Append(stack, NewFrame(args)), NoPc)

(* JSOP_NEW with newType set: the frame starts in the interpreter whatever *)
(* the state of the script.                                                *)
InterpCall(args) ==
  /\ Len(stack) < MaxDepth
  /\ stack' = Append(stack, NewFrame(args))
  /\ UNCHANGED script

(* visitCallGeneric: Ion code that finds script->ion compiled jumps to it. *)
IonCall(args) ==
  /\ Len(stack) < MaxDepth
  /\ hasIonScript(script)
  /\ stack' = Append(stack, EnterAtEntry(NewFrame(args), script.ion, "direct"))
  /\ UNCHANGED script

(* Only a frame that is not waiting for its invalidation bailout runs. *)
Running == stack # <<>> /\ ~Last(stack).invalidated

LoopEntry(pc) ==
  /\ Running
  /\ Last(stack).mode = "interp"
  /\ TryEnter(stack, pc)

(* The body assigns to a formal or to a local. *)
SetArg(i, v) ==
  /\ Running
  /\ stack' = SetTop(stack, [Last(stack) EXCEPT !.slots.formals[i] = v,
                                                !.real.formals[i] = v])
  /\ UNCHANGED script

SetLocal(v) ==
  /\ Running
  /\ stack' = SetTop(stack, [Last(stack) EXCEPT !.slots.locals = v,
                                                !.real.locals = v])
  /\ UNCHANGED script

(* Cannon and SideCannon record how EnterIon ended. *)
EnterIonEnds(s, f, bailout) ==
  IF f.mode = "entry" THEN [s EXCEPT !.bailed = bailout] ELSE s

Return ==
  /\ Running
  /\ script' = EnterIonEnds(script, Last(stack), FALSE)
  /\ stack' = Front(stack)

(* An exception leaves the frame, invalidated or not (HandleException). *)
Throw ==
  /\ stack # <<>>
  /\ script' = EnterIonEnds(script, Last(stack), FALSE)
  /\ stack' = Front(stack)

-----------------------------------------------------------------------------
(* Bailouts: the frame continues in the interpreter with the values the    *)
(* snapshot gives it, which are those the Ion code computed with.          *)

BailedFrame(f) == [f EXCEPT !.mode = "interp", !.invalidated = FALSE]

SetBailoutExpected(s) ==
  IF hasIonScript(s) THEN [s EXCEPT !.ion.bailoutExpected = TRUE] ELSE s

InIon == Running /\ Last(stack).mode # "interp"

(* The tail of the bailout invalidates the code (drop) or not. *)
BailoutAnd(s, drop, resetUses) ==
  LET k == SetTop(stack, BailedFrame(Last(stack)))
      b == SetBailoutExpected(s)
  IN  /\ InIon
      /\ drop => hasIonScript(script)
      /\ script' = EnterIonEnds(IF drop THEN Invalidate(b, resetUses) ELSE b,
                                Last(stack), TRUE)
      /\ stack' = IF drop THEN InvalidateActivation(k) ELSE k

(* Bailout_Normal; also a type barrier, monitor or argument check whose    *)
(* type the script already had.                                            *)
NormalBailout == BailoutAnd(script, FALSE, FALSE)

(* ReflowTypeInfo adds a type the code depends on, or ForceInvalidation. *)
InvalidatingBailout == BailoutAnd(script, TRUE, TRUE)

RecompileForInlining == BailoutAnd(script, TRUE, FALSE)

BoundsCheckFailure ==
  /\ BailoutAnd([script EXCEPT !.failedBoundsCheck = TRUE],
                ~script.failedBoundsCheck, TRUE)

(* ConvertFrames, Invalidate or EnsureHasCallObject runs out of memory. *)
BailoutFailure ==
  /\ InIon
  /\ \E fbc \in {script.failedBoundsCheck, TRUE} :
       script' = EnterIonEnds(
                   [SetBailoutExpected(script) EXCEPT !.failedBoundsCheck = fbc],
                   Last(stack), FALSE)
  /\ stack' = Front(stack)

InvalidationBailout ==
  /\ stack # <<>>
  /\ Last(stack).invalidated
  /\ script' = EnterIonEnds(script, Last(stack), TRUE)
  /\ stack' = SetTop(stack, BailedFrame(Last(stack)))

-----------------------------------------------------------------------------
(* Code that is discarded from outside. *)

(* processPendingRecompiles: a type the code depends on has changed. *)
ProcessPendingRecompiles ==
  /\ hasIonScript(script)
  /\ script' = Invalidate(script, TRUE)
  /\ stack' = InvalidateActivation(stack)

(* JSCompartment::discardJitCode: a collection throws the code away. *)
DiscardJitCode ==
  /\ script' = IF hasIonScript(script) THEN Invalidate(script, TRUE)
               ELSE [script EXCEPT !.useCount = 0]
  /\ stack' = IF hasIonScript(script) THEN InvalidateActivation(stack) ELSE stack

Next ==
  \/ \E args \in ArgVec : Call(args) \/ InterpCall(args) \/ IonCall(args)
  \/ \E pc \in LoopPc : LoopEntry(pc)
  \/ \E i \in 1..NArgs, v \in Value : SetArg(i, v)
  \/ \E v \in Local : SetLocal(v)
  \/ Return
  \/ Throw
  \/ NormalBailout
  \/ InvalidatingBailout
  \/ RecompileForInlining
  \/ BoundsCheckFailure
  \/ BailoutFailure
  \/ InvalidationBailout
  \/ ProcessPendingRecompiles
  \/ DiscardJitCode

Spec == Init /\ [][Next]_vars

-----------------------------------------------------------------------------
(* Properties. *)

(* Every field of the script and of its frames has its declared type, and  *)
(* the stack stays within its bound.                                       *)
TypeOK ==
  /\ script \in JSScript
  /\ stack \in Seq(Frame)
  /\ Len(stack) <= MaxDepth

(* A frame that entered Ion code behind Compile's argument comparison      *)
(* computes with its own arguments, whatever constants the code holds:     *)
(* hasArgumentsChangedSinceLastCall and the deoptimization in Compile are  *)
(* enough for every way into the code but the two that unchecked records,  *)
(* calls from Ion code and a deoptimization that script->bailed prevented. *)
CheckedFramesSeeTheirArguments ==
  \A i \in 1..Len(stack) :
    stack[i].unchecked = "no" => stack[i].slots.formals = stack[i].real.formals

(* disabledForPS: "we should not try to specialize the script to its       *)
(* parameters again".  Once it is set, by a deoptimization or by a first   *)
(* compilation without an OSR block, no later sequence of bailouts,        *)
(* invalidations and compilations leaves specialized code in script->ion.  *)
NeverSpecializedOnceDisabled ==
  script.disabledForPS /\ hasIonScript(script) => ~Specialized(script.ion)

(* The arguments Compile compares with are the ones the code is            *)
(* specialized to, unless it kept the code although they had changed.      *)
LastCallMatchesCode ==
  hasIonScript(script) /\ Specialized(script.ion) /\ ~script.ion.drifted
    => script.ion.args = script.argsOfLastCall

(* No frame keeps running code that has been discarded: a frame in Ion     *)
(* code whose script has no code any more is on its way out.               *)
NoFrameRunsDiscardedCode ==
  script.ion = NULL =>
    \A i \in 1..Len(stack) : stack[i].mode # "interp" => stack[i].invalidated

(* Ion.cpp:1172, "If the script has been specialized to its parameters and *)
(* is being called once more, we need to discard the compiled code": a     *)
(* frame called from Ion code computes with its own arguments too.         *)
DirectCallsSeeTheirArguments ==
  \A i \in 1..Len(stack) :
    stack[i].mode = "direct" => stack[i].slots.formals = stack[i].real.formals

(* Ion.cpp:1172 again, for the frames that did go through Compile: they    *)
(* compute with their own arguments after a bailout of the script too.     *)
ComparedCallsSeeTheirArguments ==
  \A i \in 1..Len(stack) :
    stack[i].unchecked # "direct" => stack[i].slots.formals = stack[i].real.formals

=============================================================================
