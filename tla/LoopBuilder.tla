------------------------------ MODULE LoopBuilder ------------------------------
(***************************************************************************)
(* How IonBuilder turns bytecode into a control flow graph, with and       *)
(* without loop inversion (--ion-linv).  The builder reads the bytecode    *)
(* once and keeps a stack of the control structures it is inside of; each  *)
(* action is the handler of one opcode or of the end of one structure.     *)
(* Afterwards the graph runs side by side with the interpreter.            *)
(*                                                                         *)
(* The bytecode is that of loops, if statements, jumps with and without    *)
(* labels and conditions with &&.  Switches, for-in loops, OSR entries and *)
(* the failure of an allocation are left out, and so are values: a block   *)
(* lists the instructions it was made from.  The build has assertions.     *)
(***************************************************************************)
EXTENDS Naturals, Sequences, SequencesExt

CONSTANTS
  Programs,   \* bytecode of the scripts considered
  Options     \* values of js_IonOptions.linv considered

ASSUME OptionsAssumption == Options \subseteq BOOLEAN

NULL == 0

(***************************************************************************)
(* Bytecode.  An instruction has a source note and, where it starts a      *)
(* structure, the indices the note gives: the jump target to, and the      *)
(* places of the condition, the update clause, the jump back (ifne) and    *)
(* the end of the true branch.                                             *)
(***************************************************************************)
Instruction ==
  [op : {"OP", "LOOPHEAD", "LOOPENTRY", "NOP", "GOTO", "IFEQ", "IFNE", "AND",
         "RETURN", "STOP"},
   note : {"none", "if", "ifelse", "while", "dowhile", "for", "break", "continue"},
   to : Nat, cond : Nat, update : Nat, ifne : Nat, trueEnd : Nat]

(* The instructions from p up to q compute a value; && is the only jump. *)
IsExpression(c, p, q) ==
  /\ p <= q
  /\ \A x \in p..(q - 1) :
       /\ c[x].op \in {"OP", "LOOPENTRY", "AND"}
       /\ c[x].note = "none"
       /\ c[x].op = "AND" => c[x].to <= q

(* A loop, with the places of its head, body, condition and end. *)
IsLoop(c, head, body, cond, ifne) ==
  /\ body \in DOMAIN c /\ cond \in DOMAIN c /\ ifne + 1 \in DOMAIN c
  /\ c[head].op = "LOOPHEAD"
  /\ IsExpression(c, cond, ifne)

IsBytecode(c) ==
  /\ c \in Seq(Instruction)
  /\ c # <<>>
  /\ \A p \in DOMAIN c :
       /\ c[p].op \notin {"GOTO", "RETURN", "STOP"} => p + 1 \in DOMAIN c
       /\ c[p].op \in {"GOTO", "IFEQ", "IFNE", "AND"} => c[p].to \in DOMAIN c
       /\ c[p].op = "AND" => p < c[p].to /\ IsExpression(c, p + 1, c[p].to)
       /\ c[p].note = "ifelse" =>
            c[p].trueEnd \in DOMAIN c /\ c[c[p].trueEnd].op = "GOTO"
       /\ c[p].note = "while" => IsLoop(c, p + 1, p + 2, c[p].to, c[p].ifne)
       /\ c[p].note = "dowhile" => IsLoop(c, p + 1, p + 2, c[p].cond, c[p].ifne)
       /\ c[p].note = "for" =>
            LET head == IF c[p].cond # c[p].ifne THEN p + 2 ELSE p + 1
            IN  /\ IsLoop(c, head, head + 1, c[p].cond, c[p].ifne)
                /\ c[p].update \in DOMAIN c
                /\ IsExpression(c, c[p].update, c[p].cond)

ASSUME ProgramsAssumption == \A c \in Programs : IsBytecode(c)

VARIABLES
  code,       \* the bytecode: a sequence of instructions
  linv,       \* js_IonOptions.linv
  pc,         \* index of the next instruction the builder looks at
  current,    \* the block instructions are added to
  blocks,     \* all blocks made so far
  order,      \* the list of the graph
  cfgStack,   \* control structures being built, the innermost one last
  loops,      \* loops_: where the loops are on cfgStack
  status,     \* of the builder
  broken,     \* history: an inverted loop had no backedge
  at,         \* index of the instruction the interpreter is about to run
  pos,        \* place the compiled code is at
  interrupt   \* an operation callback is pending

building == <<pc, current, blocks, order, cfgStack, loops, status, broken>>
vars == <<code, linv, building, at, pos, interrupt>>

(***************************************************************************)
(* Blocks.  ins lists the indices of the instructions in the block; that   *)
(* of a LOOPHEAD stands for an interrupt check.  end is the control        *)
(* instruction, made from the instruction at end.pc.                       *)
(***************************************************************************)
NoEnd == [op |-> "none", pc |-> NULL, to |-> <<>>]
MGoto(t) == [op |-> "goto", pc |-> NULL, to |-> <<t>>]
MTest(p, t, f) == [op |-> "test", pc |-> p, to |-> <<t, f>>]
MReturn(p) == [op |-> "return", pc |-> p, to |-> <<>>]

MBasicBlock(p, preds) ==
  [pc |-> p, ins |-> <<>>, end |-> NoEnd, pred |-> preds, header |-> FALSE]

End(bs, b, e) == [bs EXCEPT ![b].end = e]
addPredecessor(bs, b, p) == [bs EXCEPT ![b].pred = Append(@, p)]

(* Block b ends in a jump to a block that exists. *)
JumpTo(bs, b, t) == addPredecessor(End(bs, b, MGoto(t)), t, b)

(* A new block at p that the blocks in preds end in a jump to. *)
Join(bs, preds, p) ==
  Append([b \in DOMAIN bs |->
            IF b \in Range(preds)
            THEN [bs[b] EXCEPT !.end = MGoto(Len(bs) + 1)] ELSE bs[b]],
         MBasicBlock(p, preds))

(* Faulty variant: the block is taken out and not put back. *)
DropsBlock(o, b) == RemoveFirst(o, b)

(* Faulty variant: the block stays where it was listed when it was made. *)
LeavesInPlace(o, b) == o

moveBlockToEnd(o, b) == Append(RemoveFirst(o, b), b)

(* The blocks there are, of one that may be NULL. *)
Present(b) == IF b = NULL THEN <<>> ELSE <<b>>

New == Len(blocks) + 1

(***************************************************************************)
(* The control structures.                                                 *)
(***************************************************************************)
LoopState ==
  {"DO_WHILE_LOOP_BODY", "DO_WHILE_LOOP_COND", "WHILE_LOOP_COND",
   "WHILE_LOOP_BODY", "FOR_LOOP_COND", "FOR_LOOP_BODY", "FOR_LOOP_UPDATE"}

(* Faulty variant: a loop in its update clause does not count. *)
ForgetsUpdateClause(s) == s.state \in LoopState \ {"FOR_LOOP_UPDATE"}

(* CFGState::isLoop *)
isLoop(s) == s.state \in LoopState

State ==
  LoopState \cup {"FAKE_IF", "FAKE_IF_END", "WHILE_OR_FOR_INVERTED", "IF_TRUE",
                  "IF_ELSE_TRUE", "IF_ELSE_FALSE", "AND_OR"}

CFGState ==
  [state |-> "IF_TRUE", stopAt |-> NULL, ifFalse |-> NULL, ifTrue |-> NULL,
   falseEnd |-> NULL, entry |-> NULL, bodyStart |-> NULL, bodyEnd |-> NULL,
   exitpc |-> NULL, successor |-> NULL, breaks |-> <<>>, continues |-> <<>>,
   updatepc |-> NULL, updateEnd |-> NULL]

Top == Last(cfgStack)

popCfgStack ==
  /\ cfgStack' = Front(cfgStack)
  /\ loops' = IF isLoop(Top) THEN Front(loops) ELSE loops

(* The three results of a handler. *)
Joined(b, p) == current' = b /\ pc' = p /\ popCfgStack
Ended == current' = NULL /\ pc' = pc /\ popCfgStack
Jumped(s, b, p) ==
  /\ current' = b
  /\ pc' = p
  /\ cfgStack' = Append(Front(cfgStack), s)
  /\ loops' = loops

Unbuilt == UNCHANGED <<code, linv, at, pos, interrupt>>

(* The innermost structure ends at pc, or control cannot go on in it. *)
AtStop(states) ==
  /\ status = "building"
  /\ cfgStack # <<>>
  /\ current = NULL \/ Top.stopAt = pc
  /\ Top.state \in states
  /\ Unbuilt

(* processIfEnd and processAndOrEnd *)
processIfEnd ==
  /\ AtStop({"IF_TRUE", "AND_OR"})
  /\ blocks' = IF current = NULL THEN blocks
               ELSE JumpTo(blocks, current, Top.ifFalse)
  /\ order' = moveBlockToEnd(order, Top.ifFalse)
  /\ Joined(Top.ifFalse, blocks[Top.ifFalse].pc)
  /\ UNCHANGED <<status, broken>>

processIfElseTrueEnd ==
  /\ AtStop({"IF_ELSE_TRUE"})
  /\ order' = moveBlockToEnd(order, Top.ifFalse)
  /\ Jumped([Top EXCEPT !.state = "IF_ELSE_FALSE", !.ifTrue = current,
                        !.stopAt = Top.falseEnd],
            Top.ifFalse, blocks[Top.ifFalse].pc)
  /\ UNCHANGED <<blocks, status, broken>>

processIfElseFalseEnd ==
  /\ AtStop({"IF_ELSE_FALSE"})
  /\ LET open == Present(Top.ifTrue) \o Present(current)
     IN  IF open = <<>>
         THEN Ended /\ UNCHANGED <<blocks, order>>
         ELSE /\ blocks' = Join(blocks, open, Top.falseEnd)
              /\ order' = Append(order, New)
              /\ Joined(New, Top.falseEnd)
  /\ UNCHANGED <<status, broken>>

(***************************************************************************)
(* The end of a loop: the successor s of its test, if there is one, and    *)
(* the breaks meet behind it.                                              *)
(***************************************************************************)
Leave(bs, o, s) ==
  LET listed == IF s = NULL THEN o ELSE moveBlockToEnd(o, s)
      exits  == IF s = NULL THEN Top.breaks ELSE Append(Top.breaks, s)
  IN  /\ IF Top.breaks = <<>>
         THEN /\ blocks' = bs
              /\ order' = listed
              /\ IF s = NULL THEN Ended ELSE Joined(s, bs[s].pc)
         ELSE /\ blocks' = Join(bs, exits, Top.exitpc)
              /\ order' = Append(listed, Len(bs) + 1)
              /\ Joined(Len(bs) + 1, Top.exitpc)
      /\ UNCHANGED status

(* The loop has no backedge. *)
processBrokenLoop ==
  /\ Leave(blocks, order, Top.successor)
  /\ broken' = (broken \/ Top.state = "WHILE_OR_FOR_INVERTED")

(* Block b is the backedge. *)
finishLoop(bs, o, b, s) ==
  /\ Leave([addPredecessor(bs, Top.entry, b) EXCEPT ![Top.entry].header = TRUE], o, s)
  /\ UNCHANGED broken

(* Faulty variant: the end of the body is not joined. *)
JoinsContinuesOnly ==
  IF Top.continues = <<>>
  THEN [blocks |-> blocks, order |-> order, current |-> current]
  ELSE [blocks |-> Join(blocks, Top.continues, Last(loops).continuepc),
        order |-> Append(order, New),
        current |-> New]

(* Faulty variant: the outermost loop is asked where it continues. *)
AsksOutermostLoop ==
  IF Top.continues = <<>>
  THEN [blocks |-> blocks, order |-> order, current |-> current]
  ELSE [blocks |-> Join(blocks,
                        <<Head(Top.continues)>> \o Present(current) \o Tail(Top.continues),
                        Head(loops).continuepc),
        order |-> Append(order, New),
        current |-> New]

(* processDeferredContinues: the continues meet the end of the body. *)
Continued ==
  IF Top.continues = <<>>
  THEN [blocks |-> blocks, order |-> order, current |-> current]
  ELSE [blocks |-> Join(blocks,
                        <<Head(Top.continues)>> \o Present(current) \o Tail(Top.continues),
                        Last(loops).continuepc),
        order |-> Append(order, New),
        current |-> New]

(* Also for inverted loops. *)
processDoWhileBodyEnd ==
  /\ AtStop({"DO_WHILE_LOOP_BODY", "WHILE_OR_FOR_INVERTED"})
  /\ LET c == Continued
         h == Len(c.blocks) + 1
     IN  IF c.current = NULL
         THEN processBrokenLoop
         ELSE /\ blocks' = Join(c.blocks, <<c.current>>, Top.updatepc)
              /\ order' = Append(c.order, h)
              /\ Jumped([Top EXCEPT !.state = "DO_WHILE_LOOP_COND",
                                    !.stopAt = Top.updateEnd, !.continues = <<>>],
                        h, Top.updatepc)
              /\ UNCHANGED <<status, broken>>

processDoWhileCondEnd ==
  /\ AtStop({"DO_WHILE_LOOP_COND"})
  /\ finishLoop(Append(End(blocks, current, MTest(pc, Top.entry, New)),
                       MBasicBlock(pc + 1, <<current>>)),
                Append(order, New), current, New)

(* processWhileCondEnd and processForCondEnd *)
processWhileCondEnd ==
  /\ AtStop({"WHILE_LOOP_COND", "FOR_LOOP_COND"})
  /\ blocks' = End(blocks, current, MTest(pc, New, New + 1)) \o
               <<MBasicBlock(Top.bodyStart, <<current>>),
                 MBasicBlock(Top.exitpc, <<current>>)>>
  /\ order' = order \o <<New, New + 1>>
  /\ Jumped([Top EXCEPT !.state = IF @ = "FOR_LOOP_COND" THEN "FOR_LOOP_BODY"
                                  ELSE "WHILE_LOOP_BODY",
                        !.stopAt = Top.bodyEnd, !.successor = New + 1],
            New, Top.bodyStart)
  /\ UNCHANGED <<status, broken>>

(* The body is complete and block b, if any, goes back to the header. *)
CloseLoop(bs, o, b) ==
  IF b = NULL THEN processBrokenLoop
  ELSE finishLoop(End(bs, b, MGoto(Top.entry)), o, b, Top.successor)

processWhileBodyEnd ==
  /\ AtStop({"WHILE_LOOP_BODY"})
  /\ CloseLoop(Continued.blocks, Continued.order, Continued.current)

processForBodyEnd ==
  /\ AtStop({"FOR_LOOP_BODY"})
  /\ LET c == Continued
     IN  IF Top.updatepc = NULL \/ c.current = NULL
         THEN CloseLoop(c.blocks, c.order, c.current)
         ELSE /\ blocks' = c.blocks
              /\ order' = c.order
              /\ Jumped([Top EXCEPT !.state = "FOR_LOOP_UPDATE",
                                    !.stopAt = Top.updateEnd, !.continues = <<>>],
                        c.current, Top.updatepc)
              /\ UNCHANGED <<status, broken>>

processForUpdateEnd ==
  /\ AtStop({"FOR_LOOP_UPDATE"})
  /\ CloseLoop(blocks, order, current)

(* Faulty variant: the header keeps the first block of the condition. *)
KeepsIfBlock ==
  /\ AtStop({"FAKE_IF"})
  /\ blocks' = End(blocks, current, MGoto(Top.entry))
  /\ order' = moveBlockToEnd(order, Top.entry)
  /\ Joined(Top.entry, Top.bodyStart)
  /\ UNCHANGED <<status, broken>>

(* The condition before an inverted loop is complete; its test follows in  *)
(* processFakeIfEnd, when the block behind the loop exists.                *)
processFakeIf ==
  /\ AtStop({"FAKE_IF"})
  /\ blocks' = [End(blocks, current, MGoto(Top.entry))
                  EXCEPT ![Top.entry].pred = <<current>>]
  /\ order' = moveBlockToEnd(order, Top.entry)
  /\ Joined(Top.entry, Top.bodyStart)
  /\ UNCHANGED <<status, broken>>

processFakeIfEnd ==
  /\ AtStop({"FAKE_IF_END"})
  /\ IF current = NULL
     THEN /\ status' = "crashed"
          /\ UNCHANGED <<pc, current, blocks, order, cfgStack, loops, broken>>
     ELSE LET ifBlock == Head(blocks[Top.entry].pred)
          IN  /\ blocks' = addPredecessor(
                   End(blocks, ifBlock, MTest(Top.stopAt - 1, Top.entry, current)),
                   current, ifBlock)
              /\ Joined(current, pc)
              /\ UNCHANGED <<order, status, broken>>

(***************************************************************************)
(* The opcodes.                                                            *)
(***************************************************************************)
Op == code[pc]

AtOp(op, notes) ==
  /\ status = "building"
  /\ current # NULL
  /\ cfgStack # <<>> => Top.stopAt # pc
  /\ Op.op \in op
  /\ Op.note \in notes
  /\ Unbuilt

(* Faulty variant: an opcode without code is not stepped over. *)
StaysAtLoopEntry ==
  /\ AtOp({"OP", "LOOPENTRY"}, {"none"})
  /\ blocks' = IF Op.op = "OP" THEN [blocks EXCEPT ![current].ins = Append(@, pc)]
               ELSE blocks
  /\ pc' = IF Op.op = "OP" THEN pc + 1 ELSE pc
  /\ UNCHANGED <<current, order, cfgStack, loops, status, broken>>

inspectOpcode ==
  /\ AtOp({"OP", "LOOPENTRY"}, {"none"})
  /\ blocks' = IF Op.op = "OP" THEN [blocks EXCEPT ![current].ins = Append(@, pc)]
               ELSE blocks
  /\ pc' = pc + 1
  /\ UNCHANGED <<current, order, cfgStack, loops, status, broken>>

jsop_ifeq ==
  /\ AtOp({"IFEQ"}, {"if", "ifelse"})
  /\ blocks' = End(blocks, current, MTest(pc, New, New + 1)) \o
               <<MBasicBlock(pc + 1, <<current>>), MBasicBlock(Op.to, <<current>>)>>
  /\ order' = order \o <<New, New + 1>>
  /\ cfgStack' = Append(cfgStack,
       IF Op.note = "if"
       THEN [CFGState EXCEPT !.state = "IF_TRUE", !.stopAt = Op.to, !.ifFalse = New + 1]
       ELSE [CFGState EXCEPT !.state = "IF_ELSE_TRUE", !.stopAt = Op.trueEnd,
                             !.falseEnd = code[Op.trueEnd].to, !.ifFalse = New + 1])
  /\ current' = New
  /\ pc' = pc + 1
  /\ UNCHANGED <<loops, status, broken>>

(* Only JSOP_AND. *)
jsop_andor ==
  /\ AtOp({"AND"}, {"none"})
  /\ blocks' = End(blocks, current, MTest(pc, New, New + 1)) \o
               <<MBasicBlock(pc + 1, <<current>>), MBasicBlock(Op.to, <<current>>)>>
  /\ order' = order \o <<New, New + 1>>
  /\ cfgStack' = Append(cfgStack,
       [CFGState EXCEPT !.state = "AND_OR", !.stopAt = Op.to, !.ifFalse = New + 1])
  /\ current' = New
  /\ pc' = pc + 1
  /\ UNCHANGED <<loops, status, broken>>

processReturn ==
  /\ AtOp({"RETURN", "STOP"}, {"none"})
  /\ blocks' = End(blocks, current, MReturn(pc))
  /\ current' = NULL
  /\ UNCHANGED <<pc, order, cfgStack, loops, status, broken>>

(***************************************************************************)
(* Jumps out of a loop search loops_ from the innermost loop outwards.     *)
(* Stale: an entry that does not lead to a loop on cfgStack.               *)
(***************************************************************************)
Stale(i) ==
  ~ \E e \in DOMAIN cfgStack :
      /\ e = loops[i].cfgEntry
      /\ cfgStack[e].state \in LoopState \cup {"WHILE_OR_FOR_INVERTED"}

EffectiveContinue(p) == IF code[p].op = "GOTO" THEN code[p].to ELSE p

(* The indices of loops_ at which the search for the target stops. *)
BreakTargets ==
  {i \in DOMAIN loops : Stale(i) \/ cfgStack[loops[i].cfgEntry].exitpc = Op.to}

ContinueTargets ==
  {i \in DOMAIN loops : Op.to \in {loops[i].continuepc,
                                   EffectiveContinue(loops[i].continuepc)}}

Innermost(S) == CHOOSE i \in S : \A j \in S : j <= i

(* processBreak and processContinue *)
Defer(targets) ==
  /\ current' = NULL
  /\ pc' = pc + 1
  /\ LET e == loops[Innermost(targets)].cfgEntry
     IN  cfgStack' = IF Op.note = "break"
                     THEN [cfgStack EXCEPT ![e].breaks = <<current>> \o @]
                     ELSE [cfgStack EXCEPT ![e].continues = <<current>> \o @]
  /\ UNCHANGED <<blocks, order, loops, status, broken>>

processJump ==
  /\ AtOp({"GOTO"}, {"break", "continue"})
  /\ LET targets == IF Op.note = "break" THEN BreakTargets ELSE ContinueTargets
     IN  /\ targets # {}
         /\ ~Stale(Innermost(targets))
         /\ Defer(targets)

(* The target of a labelled break is not the exit of a loop. *)
abort ==
  /\ AtOp({"GOTO"}, {"break"})
  /\ BreakTargets = {}
  /\ status' = "aborted"
  /\ UNCHANGED <<pc, current, blocks, order, cfgStack, loops, broken>>

(* The search reads past the end of cfgStack, or a structure of another kind. *)
ReadStaleLoop ==
  /\ AtOp({"GOTO"}, {"break", "continue"})
  /\ LET targets == IF Op.note = "break" THEN BreakTargets ELSE ContinueTargets
     IN  targets # {} /\ Stale(Innermost(targets))
  /\ status' = "crashed"
  /\ UNCHANGED <<pc, current, blocks, order, cfgStack, loops, broken>>

(***************************************************************************)
(* Loops.                                                                  *)
(***************************************************************************)
pushLoop(stack, s, continuepc) ==
  /\ cfgStack' = Append(stack, s)
  /\ loops' = Append(loops, [cfgEntry |-> Len(stack) + 1, continuepc |-> continuepc])

(* Faulty variant: no interrupt check is added. *)
ForgetsInterruptCheck(bs, b, p) == bs

(* jsop_loophead: the interrupt check goes into block b. *)
jsop_loophead(bs, b, p) == [bs EXCEPT ![b].ins = Append(@, p)]

doWhileLoop ==
  /\ AtOp({"NOP"}, {"dowhile"})
  /\ blocks' = jsop_loophead(Join(blocks, <<current>>, pc), New, pc + 1)
  /\ order' = Append(order, New)
  /\ pushLoop(cfgStack,
       [CFGState EXCEPT !.state = "DO_WHILE_LOOP_BODY", !.stopAt = Op.cond,
          !.entry = New, !.bodyStart = pc + 2, !.bodyEnd = Op.cond,
          !.exitpc = Op.ifne + 1, !.updatepc = Op.cond, !.updateEnd = Op.ifne],
       Op.cond)
  /\ current' = New
  /\ pc' = pc + 2
  /\ UNCHANGED <<status, broken>>

whileLoop ==
  /\ AtOp({"GOTO"}, {"while"})
  /\ ~linv
  /\ blocks' = jsop_loophead(Join(blocks, <<current>>, pc), New, pc + 1)
  /\ order' = Append(order, New)
  /\ pushLoop(cfgStack,
       [CFGState EXCEPT !.state = "WHILE_LOOP_COND", !.stopAt = Op.ifne,
          !.entry = New, !.bodyStart = pc + 2, !.bodyEnd = Op.to,
          !.exitpc = Op.ifne + 1],
       pc)
  /\ current' = New
  /\ pc' = Op.to
  /\ UNCHANGED <<status, broken>>

(* The header exists before the condition in the if around the loop. *)
invertedLoop ==
  /\ AtOp({"GOTO"}, {"while"})
  /\ linv
  /\ LET ifBlock == New
         header  == New + 1
     IN  /\ blocks' = Append(jsop_loophead(Join(blocks, <<current>>, pc), ifBlock, pc + 1),
                             MBasicBlock(pc, <<ifBlock>>))
         /\ order' = order \o <<ifBlock, header>>
         /\ LET fakeIfEnd == [CFGState EXCEPT !.state = "FAKE_IF_END",
                                !.stopAt = Op.ifne + 1, !.entry = header]
                loop      == [CFGState EXCEPT !.state = "WHILE_OR_FOR_INVERTED",
                                !.stopAt = Op.to, !.entry = header,
                                !.bodyStart = pc + 2, !.bodyEnd = Op.to,
                                !.exitpc = Op.ifne + 1, !.updatepc = Op.to,
                                !.updateEnd = Op.ifne]
                fakeIf    == [CFGState EXCEPT !.state = "FAKE_IF",
                                !.stopAt = Op.ifne, !.entry = header,
                                !.bodyStart = pc + 2]
            IN  /\ cfgStack' = cfgStack \o <<fakeIfEnd, loop, fakeIf>>
                /\ loops' = Append(loops, [cfgEntry |-> Len(cfgStack) + 2,
                                           continuepc |-> pc])
         /\ current' = ifBlock
  /\ pc' = Op.to
  /\ UNCHANGED <<status, broken>>

forLoop ==
  /\ AtOp({"NOP"}, {"for"})
  /\ LET start == pc + 1
         conditional == Op.cond # Op.ifne
         loopHead == IF conditional THEN start + 1 ELSE start
     IN  /\ blocks' = jsop_loophead(Join(blocks, <<current>>, start), New, loopHead)
         /\ pushLoop(cfgStack,
              [CFGState EXCEPT
                 !.state = IF conditional THEN "FOR_LOOP_COND" ELSE "FOR_LOOP_BODY",
                 !.stopAt = IF conditional THEN Op.ifne ELSE Op.update,
                 !.entry = New, !.bodyStart = loopHead + 1, !.bodyEnd = Op.update,
                 !.exitpc = Op.ifne + 1,
                 !.updatepc = IF Op.update # Op.cond THEN Op.update ELSE NULL,
                 !.updateEnd = IF Op.update # Op.cond THEN Op.cond ELSE NULL],
              Op.update)
         /\ pc' = IF conditional THEN Op.cond ELSE loopHead + 1
  /\ order' = Append(order, New)
  /\ current' = New
  /\ UNCHANGED <<status, broken>>

(***************************************************************************)
(* The interpreter and the compiled code side by side, from one            *)
(* instruction that does something to the next.                            *)
(***************************************************************************)
Silent(p) == code[p].op \in {"GOTO", "NOP", "LOOPHEAD", "LOOPENTRY"}

(* The first instruction from p on that does something; one that does not, *)
(* if there is none.                                                       *)
NextInstruction(p) ==
  LET step == [q \in DOMAIN code |->
                 IF ~Silent(q) THEN q ELSE IF code[q].op = "GOTO" THEN code[q].to ELSE q + 1]
      walk[n \in 0..Len(code)] == IF n = 0 THEN p ELSE step[walk[n - 1]]
  IN  walk[Len(code)]

Place(b, i, checked) == [block |-> b, index |-> i, checked |-> checked]

(* The instruction a place of the compiled code was made from. *)
MadeFrom(bs, c) ==
  IF c.index <= Len(bs[c.block].ins) THEN bs[c.block].ins[c.index]
  ELSE bs[c.block].end.pc

(* The same in the compiled code, where an interrupt check and a jump do    *)
(* nothing the interpreter can be seen to do.  checked: there is an         *)
(* interrupt check on the way.                                              *)
NextPlace(bs, c) ==
  LET step == [d \in [block : DOMAIN bs, index : Nat, checked : BOOLEAN] |->
                 IF d.index <= Len(bs[d.block].ins)
                 THEN IF Silent(bs[d.block].ins[d.index])
                      THEN Place(d.block, d.index + 1, TRUE) ELSE d
                 ELSE IF bs[d.block].end.op = "goto"
                      THEN Place(bs[d.block].end.to[1], 1, d.checked) ELSE d]
      walk[n \in 0..(Len(bs) + Len(code))] == IF n = 0 THEN c ELSE step[walk[n - 1]]
  IN  walk[Len(bs) + Len(code)]

(* All control has ended: the graph is complete and starts to run. *)
Finish ==
  /\ status = "building"
  /\ current = NULL
  /\ cfgStack = <<>>
  /\ status' = "built"
  /\ at' = NextInstruction(1)
  /\ pos' = NextPlace(blocks, Place(1, 1, FALSE))
  /\ UNCHANGED <<code, linv, pc, current, blocks, order, cfgStack, loops, broken, interrupt>>

(* The script is not at its end, nor in a loop of jumps for ever. *)
Running == status = "built" /\ code[at].op \notin {"RETURN", "STOP"} /\ ~Silent(at)

(* One instruction, while both are at the same one; the outcome of a       *)
(* condition is arbitrary, but the same for both.  An interrupt check      *)
(* calls the operation callback.                                           *)
Run ==
  /\ Running
  /\ MadeFrom(blocks, pos) = at
  /\ \E true \in BOOLEAN :
       LET jumps == \/ code[at].op \in {"IFEQ", "AND"} /\ ~true
                    \/ code[at].op = "IFNE" /\ true
           next  == IF code[at].op = "OP" THEN Place(pos.block, pos.index + 1, FALSE)
                    ELSE Place(blocks[pos.block].end.to[IF true THEN 1 ELSE 2], 1, FALSE)
       IN  /\ at' = NextInstruction(IF jumps THEN code[at].to ELSE at + 1)
           /\ pos' = NextPlace(blocks, next)
  /\ interrupt' = (interrupt /\ ~pos'.checked)
  /\ UNCHANGED <<code, linv, building>>

JS_TriggerOperationCallback ==
  /\ Running
  /\ ~interrupt
  /\ interrupt' = TRUE
  /\ UNCHANGED <<code, linv, building, at, pos>>

Init ==
  /\ code \in Programs
  /\ linv \in Options
  /\ pc = 1
  /\ current = 1
  /\ blocks = <<MBasicBlock(1, <<>>)>>
  /\ order = <<1>>
  /\ cfgStack = <<>>
  /\ loops = <<>>
  /\ status = "building"
  /\ broken = FALSE
  /\ at = 1
  /\ pos = Place(1, 1, FALSE)
  /\ interrupt = FALSE

Build ==
  \/ processIfEnd \/ processIfElseTrueEnd \/ processIfElseFalseEnd
  \/ processDoWhileBodyEnd \/ processDoWhileCondEnd
  \/ processWhileCondEnd \/ processWhileBodyEnd
  \/ processForBodyEnd \/ processForUpdateEnd
  \/ processFakeIf \/ processFakeIfEnd
  \/ inspectOpcode \/ jsop_ifeq \/ jsop_andor \/ processReturn
  \/ processJump \/ abort \/ ReadStaleLoop
  \/ doWhileLoop \/ whileLoop \/ invertedLoop \/ forLoop
  \/ Finish

Next == Build \/ Run \/ JS_TriggerOperationCallback

(* The builder is one call that waits for nothing, and so is a script that *)
(* runs; nobody has to trigger a callback.                                 *)
Spec == Init /\ [][Next]_vars /\ WF_vars(Build) /\ WF_vars(Run)

(***************************************************************************)
(* Properties.                                                             *)
(***************************************************************************)
Built == status = "built"

TypeOK ==
  /\ pc \in Nat
  /\ current \in 0..Len(blocks)
  /\ Range(order) = DOMAIN blocks
  /\ \A i \in DOMAIN cfgStack : cfgStack[i].state \in State
  /\ status \in {"building", "built", "aborted", "crashed"}
  /\ broken \in BOOLEAN
  /\ at \in DOMAIN code
  /\ pos.block \in DOMAIN blocks
  /\ interrupt \in BOOLEAN

(* The compiled code does what the bytecode does, instruction by           *)
(* instruction and whatever the conditions yield: the edges that the       *)
(* handlers add, some of them long before or after the code they belong    *)
(* to, make the loops that were written, inverted or not.                  *)
InLockStep == Built => MadeFrom(blocks, pos) = at

(* The list DCEConditionals walks: predecessors and successors agree, and  *)
(* a block comes after its predecessors, but for the backedge of a loop,   *)
(* which is the second predecessor of its header.  Blocks are listed when  *)
(* they are made, often long before their predecessors, and moved later.   *)
Index(b) == SelectInSeq(order, LAMBDA x : x = b)

BuiltInOrder ==
  Built => \A b \in DOMAIN blocks :
    LET ps == blocks[b].pred
    IN  /\ IsInjective(ps)
        /\ Range(ps) = {p \in DOMAIN blocks : b \in Range(blocks[p].end.to)}
        /\ \A i \in DOMAIN ps :
             Index(ps[i]) < Index(b) \/ (blocks[b].header /\ i = 2)

(***************************************************************************)
(* The graph after SplitCriticalEdges, where neither --ion-cp nor          *)
(* --ion-dcec changes it before.  A block b of the builder is <<b, 0>>;    *)
(* the block that splits the edge from p to b is <<p, b>>.                 *)
(***************************************************************************)
IsCritical(p, b) ==
  /\ b \in Range(blocks[p].end.to)
  /\ Len(blocks[p].end.to) = 2
  /\ Len(blocks[b].pred) >= 2

SplitGraph ==
  {<<b, 0>> : b \in DOMAIN blocks} \cup
  {n \in (DOMAIN blocks) \X (DOMAIN blocks) : IsCritical(n[1], n[2])}

Successors(n) ==
  IF n[2] # 0 THEN <<<<n[2], 0>>>>
  ELSE [i \in DOMAIN blocks[n[1]].end.to |->
          LET t == blocks[n[1]].end.to[i]
          IN  IF IsCritical(n[1], t) THEN <<n[1], t>> ELSE <<t, 0>>]

Predecessors(n) ==
  IF n[2] # 0 THEN <<<<n[1], 0>>>>
  ELSE [i \in DOMAIN blocks[n[1]].pred |->
          LET p == blocks[n[1]].pred[i]
          IN  IF IsCritical(p, n[1]) THEN <<p, n[1]>> ELSE <<p, 0>>]

(* Its place in the list: the blocks on the edges of b are each inserted   *)
(* right behind b, the first one first.                                    *)
ListPlace(n) ==
  3 * Index(n[1]) + (IF n[2] = 0 THEN 0
                     ELSE IF n[2] = blocks[n[1]].end.to[1] THEN 2 ELSE 1)

isLoopBackedge(n) ==
  /\ Successors(n) # <<>>
  /\ LET h == Last(Successors(n))
     IN  h[2] = 0 /\ blocks[h[1]].header /\ Last(Predecessors(h)) = n

(* The assertion, where OptimizeMIR first makes it: predecessors and       *)
(* successors agree, and a block is listed after its predecessors, those   *)
(* excepted whose last successor is the header of the loop they close.     *)
(* Before SplitCriticalEdges "the graph is not in RPO" (Ion.cpp:703): the  *)
(* test that ends a do-while loop has the header as its first successor,   *)
(* and passes only because its edge to the header is split.                *)
AssertGraphCoherency ==
  Built => \A n \in SplitGraph :
    /\ \A m \in Range(Successors(n)) : n \in Range(Predecessors(m))
    /\ \A m \in Range(Predecessors(n)) :
         /\ n \in Range(Successors(m))
         /\ isLoopBackedge(m) \/ ListPlace(m) < ListPlace(n)

(* A bailout at the start of a block continues in the interpreter with the *)
(* instruction the compiled code was about to run.                         *)
ResumesInPlace(b) ==
  NextInstruction(blocks[b].pc)
    = MadeFrom(blocks, NextPlace(blocks, Place(b, 1, FALSE)))

InvertedHeader(b) ==
  linv /\ blocks[b].header /\ code[blocks[b].pc].note = "while"

(* The resume point of every block, also of those made for breaks and      *)
(* continues, is where the block begins, unless it is the header of an     *)
(* inverted loop, or an inverted loop without a backedge left its entry in *)
(* loops_.                                                                 *)
OtherBlocksResumeInPlace ==
  Built /\ ~broken => \A b \in DOMAIN blocks : InvertedHeader(b) \/ ResumesInPlace(b)

(* The builder never searches loops_ in vain and never lacks a current     *)
(* block, unless an inverted loop without a backedge came before.          *)
CrashesOnlyIfBroken == status = "crashed" => broken

(* The builder reads the condition of an inverted loop twice and jumps     *)
(* back and forth in the bytecode; it comes to an end.                     *)
BuilderEnds == <>(status # "building")

(* An operation callback that is triggered while a script runs is called   *)
(* some time after, also in a loop without end, where no loop is inverted. *)
CallbacksAreCalled == (interrupt /\ ~linv) ~> (~interrupt \/ ~Running)

(* "We capture stack state at critical points: (1) At the beginning of     *)
(* every basic block": what a block resumes at is what it begins with.     *)
EveryBlockResumesInPlace ==
  Built /\ ~broken => \A b \in DOMAIN blocks : ResumesInPlace(b)
===============================================================================
