--------------------------- MODULE IonScriptLifetime ---------------------------
(***************************************************************************)
(* Who keeps an IonScript alive.  A script points to its current           *)
(* IonScript; a frame in Ion code holds no pointer at all: its IonScript   *)
(* is found through the script, or, once the code is invalidated, through  *)
(* an offset written over the call the frame returns to.  The reference    *)
(* count of an IonScript counts the frames patched in this way, and the    *)
(* patched frame that leaves last frees it.                                *)
(*                                                                         *)
(* The engine is single threaded: each action is one operation from start  *)
(* to end.  Only Ion frames are on the stack of the model; interpreter     *)
(* frames between them and the contents of the frames are left out.        *)
(***************************************************************************)
EXTENDS Naturals, Sequences, FiniteSets

CONSTANTS
  Script,               \* the JSScripts
  IonScript,            \* addresses of IonScripts, reused after Destroy
  CompartmentOf,        \* script->compartment()
  MaxFrames,            \* bound on the number of Ion frames on the stack
  NULL,                 \* script->ion == NULL
  ION_DISABLED_SCRIPT   \* script->ion == ION_DISABLED_SCRIPT

ASSUME SpecialIonAssumption ==
  /\ NULL \notin IonScript
  /\ ION_DISABLED_SCRIPT \notin IonScript
  /\ NULL # ION_DISABLED_SCRIPT

ASSUME BoundAssumption == MaxFrames \in Nat

VARIABLES
  ion,        \* script->ion
  refcount,   \* refcount_ of every IonScript
  allocated,  \* the IonScripts that exist
  stack,      \* the Ion frames, the innermost one last
  forbidden,  \* history: IonScripts that ForbidCompilation made unreachable
  undefined   \* an IonScript was read through a pointer that is not one

vars == <<ion, refcount, allocated, stack, forbidden, undefined>>

(***************************************************************************)
(* code: the IonScript whose code the frame returns to.  invalidated: its  *)
(* OSI point is patched and the IonScript is written at the return         *)
(* address.  entry: it is the first frame of an IonActivation.             *)
(***************************************************************************)
Frame ==
  [script : Script, code : IonScript, invalidated : BOOLEAN, entry : BOOLEAN]

TypeOK ==
  /\ ion \in [Script -> IonScript \cup {NULL, ION_DISABLED_SCRIPT}]
  /\ refcount \in [IonScript -> Nat]
  /\ allocated \subseteq IonScript
  /\ stack \in Seq(Frame)
  /\ Len(stack) <= MaxFrames
  /\ forbidden \subseteq IonScript
  /\ undefined \in BOOLEAN

Init ==
  /\ ion = [s \in Script |-> NULL]
  /\ refcount = [k \in IonScript |-> 0]
  /\ allocated = {}
  /\ stack = <<>>
  /\ forbidden = {}
  /\ undefined = FALSE

hasIonScript(s) == ion[s] \notin {NULL, ION_DISABLED_SCRIPT}

(* The frame does not return into the current code of its script. *)
checkInvalidation(f) == ~hasIonScript(f.script) \/ ion[f.script] # f.code

(* The IonScript of the frame can be found.  Otherwise checkInvalidation   *)
(* takes the operand of the call for an offset and returns what is there.  *)
Found(f) == checkInvalidation(f) => f.invalidated

Top == stack[Len(stack)]

(***************************************************************************)
(* Invalidation.                                                           *)
(***************************************************************************)

(* Faulty variant: frames of code invalidated earlier are patched again. *)
PatchesAgain(rc, compartments, invalidateAll) ==
  {i \in DOMAIN stack :
     /\ CompartmentOf[stack[i].script] \in compartments
     /\ hasIonScript(stack[i].script)
     /\ invalidateAll \/ rc[ion[stack[i].script]] # 0}

(* Faulty variant: the innermost frame of the walk is not patched. *)
SkipsTopFrame(rc, compartments, invalidateAll) ==
  {i \in 1..(Len(stack) - 1) :
     /\ CompartmentOf[stack[i].script] \in compartments
     /\ ~checkInvalidation(stack[i])
     /\ invalidateAll \/ rc[ion[stack[i].script]] # 0}

(***************************************************************************)
(* The frames that a walk over the activations of some compartments        *)
(* patches, given the reference counts at its start.  A patch only adds to *)
(* the count of an IonScript that is being patched anyway.                 *)
(***************************************************************************)
InvalidateActivation(rc, compartments, invalidateAll) ==
  {i \in DOMAIN stack :
     /\ CompartmentOf[stack[i].script] \in compartments
     /\ ~checkInvalidation(stack[i])
     /\ invalidateAll \/ rc[ion[stack[i].script]] # 0}

(* One incref of the current IonScript per frame that is patched. *)
Increfs(rc, frames) ==
  [k \in IonScript |->
     rc[k] + Cardinality({i \in frames : ion[stack[i].script] = k})]

Patched(frames) ==
  [i \in DOMAIN stack |->
     [stack[i] EXCEPT !.invalidated = @ \/ i \in frames]]

Compartments == {CompartmentOf[s] : s \in Script}

(***************************************************************************)
(* Invalidate(fop, invalid): the IonScripts of the scripts in S are        *)
(* flagged by an incref, the walk patches the frames of flagged IonScripts *)
(* and the flag is taken back, which frees the IonScripts without frames.  *)
(* after is what script->ion is set to in the end.                         *)
(***************************************************************************)
Invalidate(S, after) ==
  LET listed  == {ion[s] : s \in S}
      flagged == [k \in IonScript |->
                    IF k \in listed THEN refcount[k] + 1 ELSE refcount[k]]
      frames  == InvalidateActivation(flagged, Compartments, FALSE)
      walked  == Increfs(flagged, frames)
      dropped == [k \in IonScript |->
                    IF k \in listed THEN walked[k] - 1 ELSE walked[k]]
  IN  /\ \A s \in S : hasIonScript(s)
      /\ refcount' = dropped
      /\ allocated' = allocated \ {k \in listed : dropped[k] = 0}
      /\ stack' = Patched(frames)
      /\ ion' = [s \in Script |-> IF s \in S THEN after ELSE ion[s]]

(* Faulty variant: the IonScript is destroyed whether or not it is in use. *)
FinishDestroysAll(rc, c) ==
  {ion[s] : s \in {t \in Script : CompartmentOf[t] = c /\ hasIonScript(t)}}

(* FinishInvalidation for all the scripts of a compartment: what it frees. *)
FinishInvalidation(rc, c) ==
  {ion[s] : s \in {t \in Script :
     CompartmentOf[t] = c /\ hasIonScript(t) /\ rc[ion[t]] = 0}}

(***************************************************************************)
(* All code of a compartment is discarded: InvalidateAll, then             *)
(* FinishInvalidation script by script (a collection that does not         *)
(* preserve code, nukeTypes, ReleaseAllJITCode).                           *)
(***************************************************************************)
DiscardJitCode(c) ==
  LET frames == InvalidateActivation(refcount, {c}, TRUE)
      walked == Increfs(refcount, frames)
  IN  /\ refcount' = walked
      /\ stack' = Patched(frames)
      /\ allocated' = allocated \ FinishInvalidation(walked, c)
      /\ ion' = [s \in Script |->
                   IF CompartmentOf[s] = c /\ hasIonScript(s) THEN NULL
                   ELSE ion[s]]
      /\ UNCHANGED <<forbidden, undefined>>

(* Type inference, Compile, a cache or InvokeFunction give up code. *)
Recompile(S) ==
  /\ S # {}
  /\ Invalidate(S, NULL)
  /\ UNCHANGED <<forbidden, undefined>>

(* InvokeFunction called too many functions that cannot be compiled: the   *)
(* script of the innermost Ion frame is invalidated and disabled.          *)
SlowCallLimit ==
  /\ stack # <<>>
  /\ ~Top.invalidated
  /\ Invalidate({Top.script}, ION_DISABLED_SCRIPT)
  /\ UNCHANGED <<forbidden, undefined>>

(* CanEnter and CanEnterAtBranch when the frame or the compilation failed, *)
(* whatever script->ion is at that moment.                                 *)
ForbidCompilation(s) ==
  /\ ion[s] # ION_DISABLED_SCRIPT
  /\ forbidden' = IF hasIonScript(s) THEN forbidden \cup {ion[s]} ELSE forbidden
  /\ ion' = [ion EXCEPT ![s] = ION_DISABLED_SCRIPT]
  /\ UNCHANGED <<refcount, allocated, stack, undefined>>

(***************************************************************************)
(* The life of code and frames.                                            *)
(***************************************************************************)

(* A compilation links its IonScript, with no reference to it. *)
Compile(s, k) ==
  /\ ion[s] = NULL
  /\ k \notin allocated
  /\ ion' = [ion EXCEPT ![s] = k]
  /\ refcount' = [refcount EXCEPT ![k] = 0]
  /\ allocated' = allocated \cup {k}
  /\ UNCHANGED <<stack, forbidden, undefined>>

(* A frame of the current code is pushed, by EnterIon with an activation   *)
(* of its own, or by Ion code that is still running.                       *)
Enter(s, entry) ==
  /\ hasIonScript(s)
  /\ Len(stack) < MaxFrames
  /\ entry \/ /\ stack # <<>>
              /\ ~Top.invalidated
              /\ CompartmentOf[Top.script] = CompartmentOf[s]
  /\ stack' = Append(stack, [script |-> s, code |-> ion[s],
                             invalidated |-> FALSE, entry |-> entry])
  /\ UNCHANGED <<ion, refcount, allocated, forbidden, undefined>>

(* The innermost n frames are gone. *)
Pop(n) == stack' = SubSeq(stack, 1, Len(stack) - n)

(* A frame that was never invalidated returns. *)
Return ==
  /\ stack # <<>>
  /\ ~Top.invalidated
  /\ Pop(1)
  /\ UNCHANGED <<ion, refcount, allocated, forbidden, undefined>>

(* decref once for every frame of a set, with Destroy at zero. *)
Decrefs(frames) ==
  LET left == [k \in IonScript |->
                 refcount[k] - Cardinality({i \in frames : stack[i].code = k})]
  IN  /\ refcount' = left
      /\ allocated' = allocated \
           {k \in {stack[i].code : i \in frames} : left[k] = 0}

(* Faulty variant: the frame goes and its reference stays. *)
BailsWithoutDecref ==
  /\ stack # <<>>
  /\ Top.invalidated
  /\ Pop(1)
  /\ UNCHANGED <<ion, refcount, allocated, forbidden, undefined>>

(* Control returns to a patched frame: it becomes an interpreter frame. *)
InvalidationBailout ==
  /\ stack # <<>>
  /\ Top.invalidated
  /\ Decrefs({Len(stack)})
  /\ Pop(1)
  /\ UNCHANGED <<ion, forbidden, undefined>>

(***************************************************************************)
(* A guard fails in the innermost frame.  Its snapshot is looked up in     *)
(* script->ion.  BoundsCheckFailure, ForceInvalidation and                 *)
(* RecompileForInlining then go on with Recompile({script}).               *)
(***************************************************************************)
Bailout ==
  /\ stack # <<>>
  /\ ~Top.invalidated
  /\ Found(Top)
  /\ Pop(1)
  /\ UNCHANGED <<ion, refcount, allocated, forbidden, undefined>>

(***************************************************************************)
(* HandleException unwinds the innermost activation and drops the          *)
(* reference of each of its frames that is invalidated.                    *)
(***************************************************************************)
Activation ==
  {i \in DOMAIN stack : \A j \in DOMAIN stack : j > i => ~stack[j].entry}

(* Faulty variant: every frame that is unwound gives back a reference. *)
DecrefsEveryFrame ==
  /\ stack # <<>>
  /\ \A i \in Activation : Found(stack[i])
  /\ Decrefs(Activation)
  /\ Pop(Cardinality(Activation))
  /\ UNCHANGED <<ion, forbidden, undefined>>

HandleException ==
  /\ stack # <<>>
  /\ \A i \in Activation : Found(stack[i])
  /\ Decrefs({i \in Activation : checkInvalidation(stack[i])})
  /\ Pop(Cardinality(Activation))
  /\ UNCHANGED <<ion, forbidden, undefined>>

(* The IonScript of a frame is needed and cannot be found: a bailout, an   *)
(* exception, an inline cache or marking goes on with whatever it read.    *)
LosesTrack ==
  /\ \E i \in DOMAIN stack : ~Found(stack[i])
  /\ undefined' = TRUE
  /\ UNCHANGED <<ion, refcount, allocated, stack, forbidden>>

(* A script without frames is collected; its address may be used again. *)
FinalizeScript(s) ==
  /\ \A i \in DOMAIN stack : stack[i].script # s
  /\ allocated' = IF hasIonScript(s) THEN allocated \ {ion[s]} ELSE allocated
  /\ ion' = [ion EXCEPT ![s] = NULL]
  /\ UNCHANGED <<refcount, stack, forbidden, undefined>>

Step ==
  \/ \E s \in Script, k \in IonScript : Compile(s, k)
  \/ \E s \in Script, entry \in BOOLEAN : Enter(s, entry)
  \/ \E s \in Script : ForbidCompilation(s) \/ FinalizeScript(s)
  \/ \E S \in SUBSET Script : Recompile(S)
  \/ \E c \in Compartments : DiscardJitCode(c)
  \/ SlowCallLimit \/ Return \/ Bailout \/ InvalidationBailout
  \/ HandleException \/ LosesTrack

(* Nothing is known of a run that went on with a wrong pointer. *)
Undefined == undefined /\ UNCHANGED vars

Next == (~undefined /\ Step) \/ Undefined

Spec == Init /\ [][Next]_vars

(***************************************************************************)
(* Properties.                                                             *)
(***************************************************************************)

(* The reference count of an IonScript that exists is the number of        *)
(* patched frames that return into its code: what the increfs of           *)
(* InvalidateActivation and the decrefs of InvalidationBailout and         *)
(* HandleException add up to, over all the orders in which code is         *)
(* discarded, compiled again, discarded again and left.                    *)
RefcountsCountFrames ==
  \A k \in allocated :
    refcount[k] = Cardinality({i \in DOMAIN stack :
                                 stack[i].invalidated /\ stack[i].code = k})

(* Every frame returns into code that exists, and the IonScript that       *)
(* IonFrameIterator::ionScript finds for it is its own, unless             *)
(* ForbidCompilation threw the pointer away.                               *)
FramesFindTheirCode ==
  \A i \in DOMAIN stack :
    /\ stack[i].code \in allocated
    /\ stack[i].code \notin forbidden => Found(stack[i])

Lifetime ==
  INSTANCE CodeLifetime WITH
    Code <- IonScript,
    NoCode <- NULL,
    current <- [s \in Script |-> IF hasIonScript(s) THEN ion[s] ELSE NULL],
    running <- [i \in DOMAIN stack |-> stack[i].code],
    abandoned <- forbidden

(* Counting references implements the lifetime that CodeLifetime           *)
(* describes: an IonScript is destroyed in the step in which its script    *)
(* and its last frame have let go of it, neither earlier nor later; only   *)
(* what ForbidCompilation abandons stays behind.                           *)
FreedExactlyWhenUnused == Lifetime!Spec

(* Every frame can find its IonScript: the assertion in checkInvalidation, *)
(* "ionScript->containsReturnAddress(returnAddr)".                         *)
FoundByItsReturnAddress == \A i \in DOMAIN stack : Found(stack[i])
===============================================================================
