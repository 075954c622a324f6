# Value specialization in IonMonkey: a TLA+ development

The repository is SpiderMonkey (about August 2012) with the authors' value
specialization in its optimizing compiler IonMonkey: a function that is compiled
while it runs is compiled *for the values of its arguments*, and a family of
passes (constant propagation, loop inversion, bounds check elimination, dead
conditional removal) lives off the constants this yields. All of it is in
`src/js/src/ion`, behind the options `--ion-ps`, `--ion-cp`, `--ion-bce`,
`--ion-linv` and others of the shell; `cp` and `bce` are off by default
(`Ion.h:194`). Everything below is about that code. Paths are relative to
`src/js/src` unless they begin with `src/`.

## 1. Inventory

| Part | State | Operations | Talks to |
| --- | --- | --- | --- |
| Parameter specialization (`ion/ParameterSpecialization.cpp`, `ion/IonBuilder.cpp:555,4181`, `jsscript.cpp:820`) | `JSScript::disabledForPS`, `isParameterSpecialized`, `bailed`, `argsOfLastCall`; the constants in the entry and OSR blocks | decide, build constants, compare arguments, deoptimize | called by Compile and IonBuilder |
| Entry and compilation policy (`ion/Ion.cpp`) | `script->ion` (none, disabled, code), use count | CanEnter, CanEnterAtBranch, Compile, Cannon, SideCannon, EnterIon | interpreter above, Ion code below |
| Invalidation and lifetime of code (`ion/Ion.cpp:1449-1678`, `ion/IonCode.h:365`, `ion/IonFrames.cpp:58`) | patched return addresses, reference counts of IonScripts | Invalidate, InvalidateAll, InvalidateActivation, FinishInvalidation, incref, decref, Destroy, ForbidCompilation | walks every Ion activation; called by type inference, GC, bailouts, Compile |
| Bailouts (`ion/Bailouts.cpp`, `ion/IonFrames.cpp`) | `bailoutExpected`, `failedBoundsCheck`, the frames | normal and invalidating bailouts, exceptions | leaves the frame to the interpreter |
| Constant propagation (`ion/CP.cpp`) | worklist, map of phis, the graph | fold, keep, solve phi cycles | `foldsToConstant` in `ion/MIR.cpp` |
| Induction variables (`ion/InductionVariable.cpp`) | the variable, its range, `isDoWhile_` | two loop patterns, `rangeIsValid` | used by BCE |
| Bounds check elimination (`ion/BCE.cpp`) | set of unneeded checks | three eliminations, removal | reads the length of an array *at compile time* |
| Control flow and loop inversion (`ion/IonBuilder.cpp:227,666,1131-2232`) | blocks, `cfgStack_`, `loops_`, `current`, `pc` | one handler per opcode and per end of a structure; with `--ion-linv` a while loop becomes a do-while loop under an if | reads bytecode; decides the loop form BCE sees, where bailouts resume and where interrupts are noticed |
| Dead conditionals (`ion/IonAnalysis.cpp:132-296`) | marks, predecessor lists, phis | fold tests, walk dead branches, sweep | lives off the constants CP produces |
| Other graph clean-up (`ion/IonAnalysis.cpp`) | blocks, phis | EliminatePhis, EliminateDeadCode, CoalesceBlocks (never called) | upstream passes between the ones above |
| Base compiler (GVN, LICM, range and alias analysis, lowering, register allocation, code generation) | MIR and LIR | upstream passes | LICM creates the ranged checks BCE works on |
| Overflow test elimination, Ion profiler, spewers | files | logging | none |
| JaegerMonkey, front end, GC, yarr, ctypes, assembler, jsd, xpconnect, ipc, mfbt | upstream | upstream | none specific to specialization |
| `src/profiler`, `v8`, `metrics`, examples (JavaScript) | none | programs the shell runs to be measured, scripts that collect numbers | none |

**What is hard here.** The compiler is single threaded; the difficulty is the
order of events in one script's life, and state that outlives what it describes.

* Code compiled for one set of values is reached from five places (function
  calls from C++ or the interpreter, loop entries, direct calls from Ion code,
  re-entries after bailouts, recursion), and only some of them compare the
  arguments.
* Flags on the script (`isParameterSpecialized`, `bailed`, `disabledForPS`) are
  set during a compilation that may still fail, and survive invalidations.
* Code is discarded while frames are inside it. A frame holds no pointer to its
  IonScript: it is found through the script or through a patch in the code, and
  freed by whoever leaves last, a frame or the collector.
* The builder makes blocks and edges before it has read the code they belong to
  and corrects them later; with inversion it reads a condition twice.
* Dead branches are found by walking a list of blocks and marking, and the marks
  of one walk are the input of the next, which may take them back.
* The cycle solver of constant propagation extends a container while it iterates
  over it in the order of addresses, so its result depends on memory layout.
* Induction variables are recognized by the shape of a test and a phi. Whether the
  test decides when the loop ends is never looked at.
* Bounds are compared in mixed signed and unsigned 32-bit arithmetic, one off
  from each other for `<` and `<=`; facts known at compile time (array length)
  are used in every later run.

`PROJECT.json` lists the hazards with their lines and the properties about them.

**Correctness, per part.** Specialization: a frame computes with its own
arguments and locals whatever code it runs in; disabling is final. Invalidation:
nobody stays in discarded code, every frame finds its IonScript, and an IonScript
is freed exactly when nobody uses it any more. Builder: the graph does what the
bytecode does, resumes where it stopped, and the builder ends. Dead conditionals:
what can be reached stays, edges and phis stay consistent. Constant propagation: a definition is replaced by
a constant only if it always has that value; the pass finds what it looks for
and ends. Bounds checks: a removed check would never have failed.

## 2. Modules

```
ParameterSpecialization  <- MCParameterSpecialization
                         <- ParameterSpecialization_proofs
IonScriptLifetime        <- MCIonScriptLifetime
  refines CodeLifetime   <- IonScriptLifetime_proofs
ConstantPropagation      <- MCConstantPropagation
                         <- ConstantPropagation_proofs  (with Iteration)
DeadConditionals         <- MCDeadConditionals
                         <- DeadConditionals_proofs     (with Lists)
LoopBuilder              <- MCLoopBuilder
                         <- LoopBuilder_proofs          (with Lists)
BoundsCheckElimination   <- MCBoundsCheckElimination
                         <- BoundsCheckElimination_proofs
Iteration                <- Lists                       (lemmas)
```

### ParameterSpecialization

One function script and the stack of its activations.

* `script` holds the fields of `JSScript` that steer compilation. `script.ion`
  is NULL, disabled, or an abstract IonScript: whether its entry and OSR blocks
  hold constants, and which.
* `stack` is the sequence of activations; the last one runs. A frame has a mode
  (interpreted, entered through EnterIon, called directly by Ion code) and two
  copies of its variables. `slots` is what the tier that runs it computes with;
  `real` is what a pure interpreter would have. They are the reference for all
  the properties about wrong constants.
* `TryEnter` is CanEnter or CanEnterAtBranch with everything they call: the
  early returns, CheckFrame and CheckScript (whose refusals are a free choice),
  the argument comparison *with its side effect on argsOfLastCall*, the
  deoptimization with its invalidation, the use count, IonCompile with its
  failures before and after `initParameters` set the flags, the entry itself,
  and the garbage collection or failure inside `enterJIT`.
* `Call`, `InterpCall`, `IonCall`, `LoopEntry` are the ways to start or enter;
  `SetArg` and `SetLocal` stand for the body; `Return` and `Throw` end a frame
  (an exception unwinds one frame per step); the bailout actions follow
  `Bailouts.cpp`; `ProcessPendingRecompiles` and `DiscardJitCode` are the
  invalidations from outside.
* `drifted` (of code) and `unchecked` (of frames) are history variables. They
  record the two ways the comparison can be bypassed, so that the property that
  holds can be stated exactly.

Abstractions: function scripts only (a global script is disabled at once); the
use count saturates at its threshold; the policy for builds without JaegerMonkey;
all locals of a frame are one abstract value; other functions appear only as
the reason why activations nest.

### IonScriptLifetime and CodeLifetime

`CodeLifetime` is the promise: code exists from the moment a script gets it until
the moment it is neither the code of a script nor run by a frame, and goes in that
very step. It knows nothing about counts, patches or compartments. Code that a
script abandons (see below) is never given back.

`IonScriptLifetime` is how the engine keeps it. `ion` is `script->ion`, `refcount`
and `allocated` are the IonScripts, `stack` the Ion frames of all activations. A
frame knows the code it returns into, whether its return address is patched, and
whether it starts an activation. Each action is one operation from start to end:
`Recompile` is `Invalidate(fop, invalid)` with its three loops (flag by incref,
walk, drop), `DiscardJitCode` is InvalidateAll followed by FinishInvalidation for
every script of a compartment, `SlowCallLimit` is the invalidation in
InvokeFunction that disables the script, `InvalidationBailout` and
`HandleException` drop references, `FinalizeScript` is the collection of a script.
The walk over frames is a set of frames (`InvalidateActivation`), since patching a
frame only adds to the count of an IonScript that is being patched anyway.
`Found` is what `IonFrameIterator::ionScript` needs: the frame is current or
patched. Where it fails, the code goes on with whatever it reads; the model stops
there (`LosesTrack`, `Undefined`). `forbidden` is a history variable, the
IonScripts ForbidCompilation threw away: the exact exception of the properties that
hold. Addresses are reused after Destroy. Interpreter frames, the contents of
frames and marking are left out.

### DeadConditionals

The blocks of a graph, numbered in the order of its list, with successors,
conditions, predecessor lists and one phi per join (all phis of a block are treated
alike). An operand is named by the predecessor it belonged to at first, so that
what a phi lost can be read off. The outer loop is `Skip` or `StartWalk`; one block
of the inner loop is `WalkOn`, `ReachLiveBlock` or `ReachLiveBlockAfterReturn`;
`EndWalk` is what follows the inner loop; `Sweep` is the removal at the end.
`AtLeastOneDel` keeps the detail that a block which precedes itself is marked live
while its predecessors are still being looked at. The assumption on
the constant `Graphs` is `IsGraph`: every block can be reached, edges lead forwards
in the list, and an edge back leads to a header that dominates it and has one other
predecessor, earlier in the list. That the builder leaves the list in this order is
`BuiltInOrder` in `LoopBuilder`. It is not all of what `AssertGraphCoherency` wants
(see there), and it does not say that the blocks of a branch stand together: after
`if (a) x; else return; y`, or a break out of a `for (;;)`, they do not, the walk in
list order meets blocks outside of the branch, and the runs include such graphs.
The history variable `plain` says that every test folded so far was a plain if
statement (`PlainIf`): between the block of the test and a join, control enters from
the test only and leaves to the join only, without return or jump, and the dead
branch has no loop and at most one edge to the join. Only for those are phis right
and branches removed completely: the walk repairs one block per branch (run
`dce_phis`), and a loop inside a dead branch stays in the graph because its header has a live predecessor, its own backedge,
when the walk meets it. A phi that was not repaired can have fewer operands than
its block has predecessors; when a later walk looks an operand up by the index of
its predecessor, `removeOperand` then erases past the end, and `RemoveOperand`
leaves an arbitrary list. No graph of five
blocks gets there, so the runs do not; the theorems cover it.

### LoopBuilder

The builder of the control flow graph, opcode by opcode. `pc`, `current`,
`cfgStack`, `loops` are its fields; `blocks` are the blocks and `order` the list of
the graph. A `process...End` action is one call of processCfgEntry; the actions
named after opcodes and loops are snoopControlFlow and inspectOpcode; popping
happens where processCfgStack pops. A block lists the indices of the instructions
it was made from, its control instruction, its predecessors and the pc of its entry
resume point. Deferred breaks and continues keep their order, newest first.

When the builder is done, `Run` executes the bytecode and the graph side by side,
from one instruction that does something to the next, with the same arbitrary
outcome for each condition. `JS_TriggerOperationCallback` may set an interrupt at
any time; an interrupt check on the way clears it. `status` becomes "crashed" where
the code follows a NULL `current` (`processFakeIfEnd`) or a `loops_` entry whose
structure is gone (`ReadStaleLoop`); the history variable `broken` says that an
inverted loop without backedge was met, the one cause of both: `isLoop` does not
list the state of inverted loops.

`BuiltInOrder` is about the list as the builder leaves it, which is what
`DCEConditionals` walks. `AssertGraphCoherency` is the assertion of the same name,
and is made about another graph: "don't call AssertGraphCoherency before
SplitCriticalEdges, the graph is not in RPO at this point" (`Ion.cpp:703`). It
excuses a predecessor only if its *last* successor is the header of the loop it
closes, and a do-while or inverted loop ends in a test that has the header as its
first successor (`IonBuilder.cpp:1482`), so that it fails on the builder's graph. Once
`SplitCriticalEdges` has put a block with a jump on that edge, it holds. `SplitGraph`,
`Successors`, `Predecessors` and `ListPlace` are the graph after that pass, for the
case that neither `--ion-cp` nor `--ion-dcec` changes it before.

`Run` moves while both sides are at the same instruction; that they always are is
the invariant `InLockStep`. A script caught in jumps that do nothing and have no
condition (`for (;;) {}`) is at no instruction and does not run.

The builder trusts the emitter: it follows source notes without looking. What it
may trust is `IsBytecode`, the assumption on the constant `Programs`: jumps and
notes lead to instructions, the code does not run off its end, the note of a loop
names its head and a condition in front of its jump back, the true branch of an
if-else ends in a jump, and conditions and update clauses only compute a value.
It does not say that structures are nested, nor where their breaks lead.
`MCLoopBuilder` lays out bytecode as `BytecodeEmitter.cpp` does, nested, and TLC
checks that all of it is `IsBytecode`.

Left out: switches, for-in loops (never inverted), OSR preheaders, inlining, `||`
(the mirror image of `&&`), and the values in slots, so the phis of inverted loops
(marked FIXME at `IonBuilder.cpp:1236`) are not covered.

### ConstantPropagation

One MIR graph. A definition is a phi, an Int32 addition (for all the foldable
arithmetic: the addition that overflows is not folded because its type would be
Double) or a call (blacklisted); operands are definitions, constants or opaque.
The containers of the pass are ordered by address, so a definition *is* the rank
of its address and the set of all graphs over `1..N` covers all memory layouts.
`Init` fills the worklist; `Fold` and `Keep` are one turn of the inner loop of
`analyze`; `AnalyzePhi` is one turn of the sweep in `solvePhiCycles`,
`SweepAgain` its repetition and `ApplySolution` its second half. `Reach` is the
reference: the least set of values each definition of the source graph can take,
as the last of the rounds (`Rounds`) that propagate values along the operands. There
are `N * (MaxInt + 2)` of them, and each but the last adds a value somewhere.
`guessed` is a history variable: a solution was applied while the map held a phi
that had never been analyzed. The build is one with assertions.

### BoundsCheckElimination

One loop, its variable and one check. `extractPattern`, the bounds and
`rangeIsValid` are `InductionVariable`; `tryElimination` and the three
eliminations are BCE; `Analyze` compiles. The remaining actions run the compiled
loop: `EnterLoop`, `RunHeader`, `RunBody`, `TakeBackedge`, with `Store` and
`ResizeOutside` changing the array. The test sits where each loop form has it:
in the header (`for`), before the backedge (`dowhile`), or in both an outer if and
before the backedge (`inverted`). The patterns ask for a test on a phi and for
nothing else: `leads` says where the test leads, on with the iteration or out of the
loop, when it is true and when it is false, and `extractUBCSPattern` does not look at
it. So the model includes `for (;;) { if (i < 3) ...; a[i]; i++ }`, whose header ends
in a test that matches and goes on in both cases, `i < 3 || b` (may go on when it is
false), `if (i < 3) break` (the other way round), and a test in an inner header on
the phi of an outer loop. A check that was not removed and fails bails
out; so does an addition that overflows. Integers have the width `MaxInt` gives
them, sums wrap, and the comparison with the length is unsigned. The
uninitialized `isDoWhile_` is a free choice. `pos` reduces the blocks of the loop
to the header and the rest. `evaluateConstantLength` never succeeds after the
`isInitializedLength` test before it, so it has no counterpart.

`Trusted` names the loops for which the analysis is right: the loop ends when the
test is false, the test is `<`, the sum reaches the backedge, the flag reads as it should, and the first iteration
is tested as well. The passing properties are about those. The conditions are not
idle, and the analysis tests none of them. Without the first, TLC finds a loop that
goes on when the test is false, and the variable passes the bound
(`InductionVariable.cpp:46`); with `<=` the range ends at `n - 1` where the loop reaches `n`
(`InductionVariable.cpp:228`); without a lower bound the variable may be negative
and the check is removed all the same (`BCE.cpp:144`); an array that another script
shortens between two calls is checked for its old length (`BCE.cpp:141`); with the flag read as
true the range of a `for` loop is used in its header, where the test has not
been made; the first iteration of a do-while loop is not tested at all.
`Analyze` aborts where a ranged check on a typed array reaches the unchecked cast
of its length in `eliminateBoundsCheckRange` (`BCE.cpp:163`).

## 3. Runs

| Run | Result | Question |
| --- | --- | --- |
| `ps_lifecycle` | holds | Is the argument comparison enough for the frames that pass it, is disabling final, are saved arguments those of the code, do frames leave discarded code? |
| `ps_direct_calls` | violated | Do calls from Ion code see their arguments? No comparison is made. |
| `ps_drift` | violated | Do all calls through Compile? Not after a bailout: the change is noticed, stored and ignored. |
| `il_lifetime` | holds | Do reference counts count patched frames, does every frame find its IonScript, and is an IonScript freed exactly when it is unused (refinement of `CodeLifetime`)? |
| `il_orphan` | violated | Without the exception for ForbidCompilation? It overwrites `script->ion` under frames that are not patched. |
| `cp_graphs` | holds | Is folding sound (unless guessed), complete and finite? |
| `cp_sound` | violated | Is it sound without the exception? A phi inserted behind the iterator is taken for any constant. |
| `bce_loops` | holds | Of the loops the patterns match, whether their test controls them or not: are ranges and removed checks right for the trusted ones? |
| `dce_graphs` | holds | Is everything reachable kept, do edges match, are phis and removal right for plain if statements? |
| `dce_phis` | violated | Are phis right for every branch? Not if a second edge leads out of it. |
| `lb_programs` | holds | Does the graph do what the bytecode does, is it listed in order, is it coherent once critical edges are split, do blocks resume in place (but for inverted headers), does the builder end and never crash (but for inverted loops without backedge), are callbacks called in loops that are not inverted? |
| `lb_resume` | violated | Do all blocks resume in place? The header of an inverted loop resumes at the jump to the condition and repeats it. |

The violated properties restate a comment or an assertion of the source, quoted
in `PROJECT.json` under `findings`.

**Bounds.** `ps_lifecycle`: one argument with values undefined, A, B (A and B are
symmetric: values are only compared for equality), two local states, one loop
besides "no loop", a threshold of two uses, two activations. Two values are
needed to differ, two activations for a frame to be invalidated by another, two
uses for a call without compilation; the theorems remove the bounds.
`il_lifetime`: three scripts, two in one compartment, three IonScripts
(interchangeable), four frames: enough for two generations of code of one script
with two frames each, and for an activation of another compartment in between.
`cp_graphs`: all graphs of three definitions with values 0 and 1, so that additions
fold, overflow and feed phis, and all graphs of four phis and one constant, the
smallest size with the counterexample of `cp_sound`. The operand order of phis and additions does not matter, so one
order is generated. `bce_loops`: `MaxInt` = 3, with starts, increments, offsets
and bounds at and around 0 and `MaxInt`, so that every sum that can wrap does;
lengths 2 and 3. Loops that their test keeps going and ends come with all of these,
loops whose test does something else (five ways) with starts, increments and a bound
for which the variable passes the bound. Again the theorems remove the bounds. `dce_graphs`: all graphs of
five blocks that meet `IsGraph` and have at most one loop, which covers an if-else
inside an if, two folded tests with overlapping branches, a loop with a break and
branches whose blocks do not stand together;
every test is true, false or unknown. `lb_programs`: a loop of each kind around one
statement (a jump, an if, an if-else, another loop, with jumps and labelled jumps
inside), optionally followed by a second statement, and a labelled block; about
2400 programs, with and without inversion.

**Deadlock.** The stack of `ps_lifecycle` can always move, and deadlock is
checked. So can that of `il_lifetime`: something can always be compiled, entered or
left, and a run that lost track stutters. The passes (`cp`, `dce`), the loops of
`bce` and the scripts of `lb` end, so those runs switch the check off.

**Fairness.** `cp_graphs` assumes weak fairness of the whole next-state relation:
the pass is one sequential call that does not wait for anything. `lb_programs`
assumes it of the builder, for the same reason, and of the running script, since the
thread that runs a script goes on running it; nobody has to trigger a callback. The
outcome of conditions is not fair: a loop may go on for ever, which is where
`CallbacksAreCalled` matters. The other runs assume none.

## 4. Proofs

`ParameterSpecialization_proofs` proves, for every set of values and locals,
number of arguments, set of loops, threshold and stack depth, `Spec => []P` for
P in `TypeOK`, `CheckedFramesSeeTheirArguments`, `NeverSpecializedOnceDisabled`,
`LastCallMatchesCode` and `NoFrameRunsDiscardedCode`. They follow from one
inductive invariant, `IInv`. Its parts are needed because the four safety
properties are not inductive alone: that specialized code implies the flag is set
(`FlagCoversCode`; otherwise Compile might not deoptimize), that a disabled
script has the flag clear (`DisabledClearsFlag`; otherwise a recompilation would
specialize its OSR block), that the arguments in undrifted specialized code are
the saved ones, the corresponding facts for frames, and that a script without
code has only patched frames. The proof goes through what each helper preserves
(comparison, deoptimization, compilation outcomes, entries, bailouts), then one
step per action. Assumptions: the named ASSUMEs of the module (the special
values of `script->ion` are not IonScripts, bounds are naturals, undefined is a
value).

`BoundsCheckElimination_proofs` proves `TypeOK`, `TrustedInRange` and
`TrustedInBounds` for every integer width and every set of loops, checks and
lengths; `Loops` may hold any loop the patterns match, and what the theorems say is
limited by `Trusted` (above), not by the assumptions. The invariant adds to the types that the variable of a trusted loop
stays at or above its first value and, once past a test, below the bound
(`RangeInv`), and that the reason for which a check was removed still holds
(`RemovedInv`; a store through the constant would refute it, and the checks it
could refute are not removed). Two lemmas deal with machine integers: an unsigned
comparison bounds the signed value, and a sum that is not negative after
wrapping was not negative before.

`IonScriptLifetime_proofs` proves, for every set of scripts, IonScripts and
compartments and every stack depth, `Spec => []P` for P in `TypeOK`,
`RefcountsCountFrames` and `FramesFindTheirCode`, and the refinement
`Spec => FreedExactlyWhenUnused`. The count alone is not inductive: that a
decrement may free an IonScript depends on nobody else holding it. `IInv`
therefore says who holds code: a script's code exists and was not abandoned
(`ScriptsHoldCode`), code belongs to one script and to frames of that script
(`CodeHasOneScript`), a patched frame's code is no longer the code of any script
(`PatchedIsOld`, so current code has count zero and the flag that `Invalidate` adds
and takes back marks exactly the listed code), an unpatched frame runs the current
code of its script unless that was abandoned (`UnpatchedIsCurrent`), and what is
allocated is held by somebody (`NothingUnused`). All ways in which frames end are
instances of the lemma `Left`, all ways in which scripts lose their code of
`Discarded`: `InvalidateDiscards` and `DiscardJitCodeDiscards` show that the two
walks of the code, which look different, do the same. For the refinement
`FreedIsUnheld` shows once that a step that keeps `IInv` frees what nobody holds;
the rest names the abstract step each operation is. Assumptions: `NULL` and
`ION_DISABLED_SCRIPT` are not IonScripts, and the bound is a natural.

`ConstantPropagation_proofs` proves, for every number of definitions, range of
integers and source graph, `Spec => []P` for P in `TypeOK`, `SoundUnlessGuessed` and
`NothingLeftToFold`, and for `FoldedSound`, which is soundness with respect to all
rounds of `Rounds` and not only the last one of `Reach`. The invariant `CPInv` has
two halves.

* Soundness. The pass looks at the graph it has rewritten, the property is about
  the source graph. `OperandsCover` connects them: each operand of the graph can
  take every value that the operand of the source graph in its place can take, after
  any number of rounds; `FoldedSound` is the property itself, `KindsKept` that
  phis stay phis. The step that needs more is `ApplySolution`, which replaces a
  whole set of phis at once, none of them right on account of the others before it
  is applied. `SolutionSound` shows by induction on the rounds that the items of the
  solver bound the values of the phis: round 0 is empty, and in round n + 1 a phi
  takes a value of an operand, which is its own item if the phi is stable. That it is
  stable when the sweep ends is `VisitedStable` (a phi that this sweep has passed
  agrees with its operands unless an item has changed since, in which case there is
  another sweep), and what `~guessed` adds is that every phi of the map was visited.
* Completeness. `FoldableListed` keeps what folds on the worklist. For cycles,
  `Closed(S, v)` says that the phis in S feed each other and are otherwise fed v;
  `CycleItems` that their items never leave Bottom and v, so the solver cannot give
  up on them; and `CyclesListed` that where v enters such a set the pass knows of
  the phi: it is on the worklist, or in the map and ahead of the cursor or above
  Bottom already. `PhaseInv` says what the phases leave empty.

`DeadConditionals_proofs` proves `Spec => []P` for P in `TypeOK`, `KeepsReachable`
and `EdgesMatch`, for any number of blocks and any set of graphs that meet
`IsGraph`. Neither property is inductive, since in the
middle of a walk marks and lists are wrong on purpose: the block of the test is
marked and lives, and the edge into the branch is gone from the successors and
still among the predecessors. `Gone` are the marks without the borrowed ones and
`Stale` is that edge; `Coherent(Gone, pred, Stale)` says that marks are closed under
predecessors, that blocks without a mark are known to their successors and that the
lists hold no other edge that is gone. It is the same statement with
`Coherent(dead, pred, {})` when no walk is under way; `WalkEnds` gets there from any
of the three ways a walk ends, and `SweptInv` carries it over the sweep. Closed
marks are also the reason why the walks do not undo each other: the code is written
so that a walk takes back the mark of any block with a live predecessor, but a block
that an earlier walk has marked has none, so the only mark that is ever taken back
is that of the start of the branch (and the borrowed one). `ShapeInv` says what
folding leaves of the shape of the graph: an edge back goes to a header, so that the
start of a branch, which is not a header (`TooRare`), lies behind its test, and
no edge goes to the entry block. From closed marks
without the entry block and exact lists, the reachable blocks are unmarked by
induction on the length of paths (`ReachableWithin`).

`LoopBuilder_proofs` proves `Spec => []P` for P in `TypeOK`, `CrashesOnlyIfBroken`,
`BuiltInOrder` and `AssertGraphCoherency`, for every script that `IsBytecode` admits, with and without
inversion. The graph is coherent when it is complete; while it is being built,
edges are missing on purpose, blocks wait on `cfgStack` to be finished, and the
builder jumps in the bytecode. The invariant `BuildOK` says how the graph, the stack,
`loops_` and `pc` fit together all along:

* `GraphOK`: successors and predecessors agree and the list has each block once,
  after its predecessors, except for `Unentered` headers. Those are the headers of
  inverted loops whose first condition is being read: they already name a
  predecessor, and nothing leads to them until `processFakeIf` replaces it.
* `Levels`: a block that a structure remembers (`Held`) exists and has no control
  instruction yet; the header of an open loop has one predecessor, so that its
  backedge is the second, which is the position `BuiltInOrder` excuses.
* `Shape`: no two structures remember the same block or add predecessors to the same
  block (`Around`), and an inverted loop is directly inside the structure that closes
  the if around it (`RightAround`), which finds that loop's header through it.
* `CurrentOK`: nobody remembers the current block. A block therefore ends once.
* `ExprOK`: while a condition or an update clause is read, `current` is not NULL and
  nothing but `&&` is opened. This is what lets the handlers of conditions use
  `current` without looking, and the only place where the emitter is needed for more
  than the range of a jump.
* `TopOK`: when `processFakeIfEnd` runs, the current block is the last one made,
  or there is none and `broken` holds. The handler gives that block a second
  predecessor, the test in front of the loop, which must stand ahead of it in the
  list.
* `LoopsOK`: a monotone map takes the loops on `cfgStack` to the entries of `loops_`
  that name them, and it reaches every entry unless `broken` holds. An inverted loop
  without backedge is popped from the one and not from the other; before that a
  search of `loops_` never meets a stale entry and always finds the target of a break.

`BuiltInOrder` follows from `GraphOK` when nothing waits on the stack. For
`AssertGraphCoherency`, `SplitEdges` says what the edges are once critical ones are
split, and `SplitBackedge` that the second predecessor of a header then has no other
successor: it jumps there, or it is the block on the edge of a test, because a
header with a backedge has two predecessors and a test has two different successors
(part of `GraphOK`).

`RunOK` adds that the code stays in the graph. The lemmas `GEdge`, `GJoin`, `GBranch`,
`GBackTest`, `GFakeIf`... describe what each way of adding an edge does to the graph,
`FramePopped` and `FramePushed` what the stack does, one `Step` lemma per handler puts
them together, one `Effect` lemma per group of handlers covers `RunOK`, and
`WalkStays` is the induction for the two recursive walks.

`Lists` has the facts about sequences that the two developments about graphs share.
`Iteration` is what all three with recursive functions need of the naturals. The
functions are unfolded with
`IterationFunction` (a function given by its first value and its step exists and
satisfies its equation), and inductions go through `SetInduction`, which takes the
set of numbers for which the claim holds in place of a predicate; it rests on the
library's theorem that `<` is well-founded. Assumptions of the three developments,
besides natural bounds: `Opaque` is not a value, `NoWalk` is not the state of a walk,
every element of `Graphs` is a graph, `Options` are Booleans and every element of
`Programs` is bytecode.

Only model-checked:

* `Terminates`, `BuilderEnds` and `CallbacksAreCalled`: liveness is outside what
  the proof system does here;
* `PhisMatchAfterPlainIf` and `DeadBranchesAreGone`: they follow from the dominator
  structure of plain if statements (every path into the branch passes its start, and
  what is listed between it and the join belongs to the statement), whose theory would have to be developed
  first, cardinalities included;
* `InLockStep` and `OtherBlocksResumeInPlace`: they relate each block to the code it
  was made from, which needs that structures are nested and that breaks leave the
  structure they name. `IsBytecode` does not say so; `MCLoopBuilder` generates such
  programs, but with a recursive operator.

The violated properties are shown by counterexample.

## 5. Not modelled

Snapshot decoding and frame layout (data conversion); values in the slots of the
builder, switches, for-in loops and OSR preheaders (see LoopBuilder);
`CoalesceBlocks`, whose only call is commented out (`Ion.cpp:757`), and
`EliminatePhis`, `EliminateDeadCode` and `BuildDominatorTree`, upstream passes; the marking of IonCode; `LInversion.cpp`, which
writes statistics and is not called; overflow test elimination, whose branches are
empty; upstream passes, back end, JaegerMonkey, front end, GC and bindings; logging
and measurement. The JavaScript in the repository (`v8`, `metrics`, sunspider and
dromaeo programs, by far the most of it) is what the shell is measured with: it is
input of the compiler and has no part in it, so no module describes it. `PROJECT.json`
gives the reason for each part.

## 6. Plan

1. Done: the life of a specialized script, with proofs.
2. Done: constant propagation; bounds check elimination with the run of the
   loop, with proofs.
3. Done: IonScript reference counts, as a refinement of the lifetime of code,
   with proofs.
4. Done: `DCEConditionals` on small control flow graphs.
5. Done: the CFG stack of IonBuilder with loop inversion.
6. Open: values in the slots of inverted loops (the phis processFakeIf patches);
   specialization followed by constant propagation and bounds check elimination on
   the arguments of one call; the hoisting in LICM as producer of ranged checks.
7. Done: proofs for constant propagation (soundness, completeness) and for dead
   conditionals (reachable blocks, edges).
8. Done: proofs for `LoopBuilder` (types, crashes, order and coherence of the graph).
9. Open proofs: a definition of nested bytecode that is not recursive, and with it
   `InLockStep` and `OtherBlocksResumeInPlace`; `PhisMatchAfterPlainIf`.
