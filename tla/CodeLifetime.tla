----------------------------- MODULE CodeLifetime -----------------------------
(***************************************************************************)
(* What the engine promises about the memory of compiled code, without a   *)
(* word about how it keeps track: code exists from the moment a script     *)
(* gets it until the moment it is neither the code of a script nor run by  *)
(* a frame, and it is given back in that very step.  Code that a script    *)
(* abandons instead of letting it go is never given back.                  *)
(***************************************************************************)
EXTENDS Naturals, Sequences

CONSTANTS
  Script,     \* the scripts
  Code,       \* pieces of memory that can hold code
  NoCode      \* what a script without code has

VARIABLES
  current,    \* the code a script would be entered in now
  running,    \* the code of each frame, the innermost one last
  allocated,  \* memory that holds code
  abandoned   \* code that nobody accounts for any more

vars == <<current, running, allocated, abandoned>>

Init ==
  /\ current = [s \in Script |-> NoCode]
  /\ running = <<>>
  /\ allocated = {}
  /\ abandoned = {}

(* Code somebody can still reach. *)
Held(cur, run, lost) ==
  {cur[s] : s \in Script} \cup {run[i] : i \in DOMAIN run} \cup lost

Install(s, k) ==
  /\ current[s] = NoCode
  /\ k \notin allocated
  /\ current' = [current EXCEPT ![s] = k]
  /\ allocated' = allocated \cup {k}
  /\ UNCHANGED <<running, abandoned>>

Run(s) ==
  /\ current[s] # NoCode
  /\ running' = Append(running, current[s])
  /\ UNCHANGED <<current, allocated, abandoned>>

(* All frames but the n outermost ones end and the scripts in S lose their *)
(* code; what nobody holds any more is given back.                         *)
LetGo(n, S) ==
  /\ running' = SubSeq(running, 1, n)
  /\ current' = [s \in Script |-> IF s \in S THEN NoCode ELSE current[s]]
  /\ allocated' = allocated \cap Held(current', running', abandoned)
  /\ UNCHANGED abandoned

Abandon(s) ==
  /\ current[s] # NoCode
  /\ current' = [current EXCEPT ![s] = NoCode]
  /\ abandoned' = abandoned \cup {current[s]}
  /\ UNCHANGED <<running, allocated>>

Next ==
  \/ \E s \in Script, k \in Code : Install(s, k)
  \/ \E s \in Script : Run(s) \/ Abandon(s)
  \/ \E n \in 0..Len(running), S \in SUBSET Script : LetGo(n, S)

Spec == Init /\ [][Next]_vars
===============================================================================
