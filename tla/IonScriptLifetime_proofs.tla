----------------------- MODULE IonScriptLifetime_proofs -----------------------
(***************************************************************************)
(* Proofs about IonScriptLifetime, for any scripts, IonScripts,            *)
(* compartments and depth of the stack.  All the ways to leave frames are  *)
(* instances of one lemma (Left), all the ways to discard code of another  *)
(* (Discarded).                                                            *)
(***************************************************************************)
EXTENDS IonScriptLifetime, FiniteSetTheorems, SequenceTheorems, TLAPS

(* The patched frames that return into k. *)
PatchedFrames(st, k) == {i \in DOMAIN st : st[i].invalidated /\ st[i].code = k}

FramesHoldCode == \A i \in DOMAIN stack : stack[i].code \in allocated

ScriptsHoldCode ==
  \A s \in Script : hasIonScript(s) => ion[s] \in allocated \ forbidden

(* Code is the code of one script, and of the frames of that script. *)
CodeHasOneScript ==
  /\ \A s, t \in Script : hasIonScript(s) /\ ion[s] = ion[t] => s = t
  /\ \A s \in Script, i \in DOMAIN stack :
       ion[s] = stack[i].code => stack[i].script = s

PatchedIsOld ==
  \A i \in DOMAIN stack : stack[i].invalidated =>
    /\ stack[i].code \notin forbidden
    /\ \A s \in Script : ion[s] # stack[i].code

UnpatchedIsCurrent ==
  \A i \in DOMAIN stack :
    \/ stack[i].invalidated
    \/ stack[i].code = ion[stack[i].script]
    \/ stack[i].code \in forbidden

ForbiddenIsKept == forbidden \subseteq allocated

NothingUnused ==
  \A k \in allocated :
    \/ k \in forbidden
    \/ \E s \in Script : ion[s] = k
    \/ \E i \in DOMAIN stack : stack[i].code = k

(* The inductive invariant. *)
IInv ==
  /\ TypeOK
  /\ RefcountsCountFrames
  /\ FramesHoldCode
  /\ ScriptsHoldCode
  /\ CodeHasOneScript
  /\ PatchedIsOld
  /\ UnpatchedIsCurrent
  /\ ForbiddenIsKept
  /\ NothingUnused

-----------------------------------------------------------------------------
(* Facts about the stack and about sets of frames. *)

LEMMA StackTypes ==
  ASSUME TypeOK
  PROVE  /\ DOMAIN stack = 1..Len(stack)
         /\ Len(stack) \in Nat
         /\ \A i \in DOMAIN stack :
              /\ stack[i].script \in Script
              /\ stack[i].code \in IonScript
              /\ stack[i].invalidated \in BOOLEAN
<1>1. stack \in Seq(Frame)  BY DEF TypeOK
<1>2. \A i \in 1..Len(stack) : stack[i] \in Frame  BY <1>1
<1> QED BY <1>1, <1>2 DEF Frame

LEMMA FrameSetsAreFinite ==
  ASSUME TypeOK, NEW F \in SUBSET DOMAIN stack
  PROVE  IsFiniteSet(F) /\ Cardinality(F) \in Nat
<1>1. IsFiniteSet(1..Len(stack))  BY StackTypes, FS_Interval
<1>2. IsFiniteSet(F)  BY <1>1, StackTypes, FS_Subset
<1> QED BY <1>2, FS_CardinalityType

LEMMA CurrentIsIonScript ==
  ASSUME TypeOK, NEW s \in Script
  PROVE  hasIonScript(s) <=> ion[s] \in IonScript
BY SpecialIonAssumption DEF TypeOK, hasIonScript

(* A frame of current code is not patched, and current code has no count. *)
LEMMA CurrentHasNoCount ==
  ASSUME IInv, NEW s \in Script, hasIonScript(s)
  PROVE  /\ refcount[ion[s]] = 0
         /\ ion[s] \in allocated
<1>1. ion[s] \in allocated  BY DEF IInv, ScriptsHoldCode
<1>2. PatchedFrames(stack, ion[s]) = {}
  BY DEF PatchedFrames, IInv, PatchedIsOld
<1> QED BY <1>1, <1>2, FS_EmptySet DEF IInv, RefcountsCountFrames, PatchedFrames

LEMMA PopStack ==
  ASSUME TypeOK, NEW n \in 0..Len(stack), Pop(n)
  PROVE  /\ stack' \in Seq(Frame)
         /\ Len(stack') = Len(stack) - n
         /\ DOMAIN stack' = 1..(Len(stack) - n)
         /\ DOMAIN stack' \subseteq DOMAIN stack
         /\ \A i \in DOMAIN stack' : stack'[i] = stack[i]
<1>1. stack \in Seq(Frame) /\ Len(stack) \in Nat  BY DEF TypeOK
<1> DEFINE m == Len(stack) - n
<1>2. m \in Nat /\ m <= Len(stack)  BY <1>1
<1>3. stack' = SubSeq(stack, 1, m)  BY DEF Pop
<1>4. /\ stack' \in Seq(Frame) /\ Len(stack') = m
      /\ \A i \in 1..m : stack'[i] = stack[i]
  BY <1>1, <1>2, <1>3
<1> QED BY <1>1, <1>2, <1>4

LEMMA PatchStack ==
  ASSUME TypeOK, NEW F \in SUBSET DOMAIN stack, stack' = Patched(F)
  PROVE  /\ stack' \in Seq(Frame)
         /\ Len(stack') = Len(stack)
         /\ DOMAIN stack' = DOMAIN stack
         /\ \A i \in DOMAIN stack :
              /\ stack'[i].script = stack[i].script
              /\ stack'[i].code = stack[i].code
              /\ stack'[i].invalidated <=> stack[i].invalidated \/ i \in F
<1>1. /\ stack \in Seq(Frame) /\ Len(stack) \in Nat
      /\ DOMAIN stack = 1..Len(stack)
      /\ \A i \in DOMAIN stack : stack[i] \in Frame
  BY DEF TypeOK
<1>2. \A i \in DOMAIN stack : stack'[i] = [stack[i] EXCEPT !.invalidated = @ \/ i \in F]
  BY DEF Patched
<1>3. \A i \in DOMAIN stack :
        /\ stack'[i] \in Frame
        /\ stack'[i].script = stack[i].script
        /\ stack'[i].code = stack[i].code
        /\ stack'[i].invalidated <=> stack[i].invalidated \/ i \in F
  BY <1>1, <1>2 DEF Frame
<1>4. /\ DOMAIN stack' = 1..Len(stack)
      /\ stack' = [i \in 1..Len(stack) |-> stack'[i]]
  BY <1>1 DEF Patched
<1>5. stack' \in Seq(Frame) /\ Len(stack') = Len(stack)
  BY <1>1, <1>3, <1>4
<1> QED BY <1>1, <1>3, <1>4, <1>5

-----------------------------------------------------------------------------
(* Frames end: each patched frame among the innermost n gives back its     *)
(* reference, and an IonScript whose count drops to zero is freed.         *)
LEMMA Left ==
  ASSUME IInv, NEW n \in 0..Len(stack), Pop(n),
         NEW G, G = {i \in DOMAIN stack : i > Len(stack) - n /\ stack[i].invalidated},
         Decrefs(G),
         UNCHANGED <<ion, forbidden, undefined>>
  PROVE  IInv'
<1>t. TypeOK  BY DEF IInv
<1>s. /\ DOMAIN stack = 1..Len(stack)
      /\ Len(stack) \in Nat
      /\ \A i \in DOMAIN stack :
           /\ stack[i].script \in Script
           /\ stack[i].code \in IonScript
           /\ stack[i].invalidated \in BOOLEAN
  BY <1>t, StackTypes
<1>p. /\ stack' \in Seq(Frame)
      /\ Len(stack') = Len(stack) - n
      /\ DOMAIN stack' = 1..(Len(stack) - n)
      /\ DOMAIN stack' \subseteq DOMAIN stack
      /\ \A i \in DOMAIN stack' : stack'[i] = stack[i]
  BY <1>t, PopStack
<1> DEFINE Gone(k) == {i \in G : stack[i].code = k}
           Old(k)  == PatchedFrames(stack, k)
           New(k)  == PatchedFrames(stack', k)
<1>r. refcount' = [k \in IonScript |-> refcount[k] - Cardinality(Gone(k))]
  BY DEF Decrefs
<1>a. allocated' = allocated \ {k \in {stack[i].code : i \in G} : refcount'[k] = 0}
  <2>1. \A k \in {stack[i].code : i \in G} : k \in IonScript  BY <1>s
  <2> QED BY <2>1 DEF Decrefs
<1>c. ASSUME NEW k \in IonScript
      PROVE  /\ Cardinality(New(k)) = Cardinality(Old(k)) - Cardinality(Gone(k))
             /\ Cardinality(New(k)) \in Nat
             /\ Cardinality(New(k)) = 0 => New(k) = {}
             /\ Cardinality(Gone(k)) = 0 \/ Gone(k) # {}
  <2>1. New(k) = Old(k) \ Gone(k)
    BY <1>s, <1>p DEF PatchedFrames
  <2>2. Gone(k) \subseteq Old(k)
    BY DEF PatchedFrames
  <2>3. Old(k) \cap Gone(k) = Gone(k)
    BY <2>2
  <2>4. Old(k) \in SUBSET DOMAIN stack /\ New(k) \in SUBSET DOMAIN stack
    BY <2>1 DEF PatchedFrames
  <2> HIDE DEF Gone, Old, New
  <2>5. IsFiniteSet(Old(k))  BY <1>t, <2>4, FrameSetsAreFinite
  <2>6. IsFiniteSet(New(k)) /\ Cardinality(New(k)) \in Nat
    BY <1>t, <2>4, FrameSetsAreFinite
  <2>7. Cardinality(New(k)) = Cardinality(Old(k)) - Cardinality(Gone(k))
    BY <2>1, <2>3, <2>5, FS_Difference
  <2>8. Cardinality(New(k)) = 0 => New(k) = {}
    BY <2>6, FS_EmptySet
  <2>9. Cardinality(Gone(k)) = 0 \/ Gone(k) # {}
    BY FS_EmptySet
  <2> QED BY <2>6, <2>7, <2>8, <2>9
<1>d. ASSUME NEW k \in allocated
      PROVE  refcount'[k] = Cardinality(New(k))
  <2>1. k \in IonScript  BY <1>t DEF TypeOK
  <2>2. refcount[k] = Cardinality(Old(k))
    BY DEF IInv, RefcountsCountFrames, PatchedFrames
  <2> HIDE DEF Gone, Old, New
  <2> QED BY <2>1, <2>2, <1>r, <1>c
<1>e. \A i \in DOMAIN stack : stack[i].code \in allocated
  BY DEF IInv, FramesHoldCode
<1>1. TypeOK'
  <2>1. ASSUME NEW k \in IonScript PROVE refcount'[k] \in Nat
    <3>1. CASE k \in allocated
      <4> HIDE DEF New, Gone
      <4> QED BY <3>1, <1>c, <1>d
    <3>2. CASE k \notin allocated
      <4>1. Gone(k) = {}  BY <3>2, <1>e
      <4>2. refcount[k] \in Nat  BY <1>t DEF TypeOK
      <4>3. Cardinality(Gone(k)) = 0  BY <4>1, FS_EmptySet
      <4> HIDE DEF Gone
      <4> QED BY <4>2, <4>3, <1>r
    <3> QED BY <3>1, <3>2
  <2>2. refcount' \in [IonScript -> Nat]
    <3> HIDE DEF Gone
    <3> QED BY <2>1, <1>r
  <2>3. Len(stack') <= MaxFrames
    BY <1>t, <1>p, BoundAssumption DEF TypeOK
  <2> QED BY <2>2, <2>3, <1>t, <1>p, <1>a DEF TypeOK
<1>2. RefcountsCountFrames'
  <2>1. \A k \in allocated' : refcount'[k] = Cardinality(New(k))
    BY <1>a, <1>d
  <2> QED BY <2>1 DEF RefcountsCountFrames, PatchedFrames
<1>3. FramesHoldCode'
  <2> SUFFICES ASSUME NEW i \in DOMAIN stack', stack[i].code \notin allocated'
               PROVE  FALSE
    BY <1>p DEF FramesHoldCode
  <2> DEFINE k == stack[i].code
  <2>1. i \in DOMAIN stack /\ k \in allocated /\ k \in IonScript
    BY <1>p, <1>e, <1>s
  <2>2. PICK j \in G : stack[j].code = k /\ refcount'[k] = 0
    BY <2>1, <1>a
  <2>3. stack[i].invalidated
    BY <2>1, <2>2, <1>s DEF IInv, PatchedIsOld, UnpatchedIsCurrent
  <2>4. i \in New(k)
    BY <2>3, <1>p DEF PatchedFrames
  <2> HIDE DEF New, Gone, k
  <2>5. Cardinality(New(k)) = 0
    BY <2>1, <2>2, <1>d
  <2> QED BY <2>1, <2>4, <2>5, <1>c
<1>4. \A k \in allocated \ allocated' : k \notin forbidden /\ \A s \in Script : ion[s] # k
  <2> SUFFICES ASSUME NEW k \in allocated, k \notin allocated'
               PROVE  k \notin forbidden /\ \A s \in Script : ion[s] # k
    OBVIOUS
  <2>1. PICK j \in G : stack[j].code = k
    BY <1>a
  <2> QED BY <2>1 DEF IInv, PatchedIsOld
<1>5. ScriptsHoldCode'
  BY <1>4 DEF IInv, ScriptsHoldCode, hasIonScript
<1>6. CodeHasOneScript'
  BY <1>p DEF IInv, CodeHasOneScript, hasIonScript
<1>7. PatchedIsOld' /\ UnpatchedIsCurrent'
  BY <1>p DEF IInv, PatchedIsOld, UnpatchedIsCurrent
<1>8. ForbiddenIsKept'
  BY <1>4 DEF IInv, ForbiddenIsKept
<1>9. NothingUnused'
  <2> SUFFICES ASSUME NEW k \in allocated', k \notin forbidden,
                      \A s \in Script : ion[s] # k
               PROVE  \E i \in DOMAIN stack' : stack'[i].code = k
    BY DEF NothingUnused
  <2>1. k \in allocated /\ k \in IonScript  BY <1>a, <1>t DEF TypeOK
  <2>2. PICK i \in DOMAIN stack : stack[i].code = k
    BY <2>1 DEF IInv, NothingUnused
  <2>3. stack[i].invalidated
    BY <2>2, <1>s DEF IInv, UnpatchedIsCurrent
  <2>4. CASE i \in DOMAIN stack'
    BY <2>2, <2>4, <1>p
  <2>5. CASE i \notin DOMAIN stack'
    <3>1. i \in G  BY <2>3, <2>5, <1>s, <1>p
    <3>2. refcount'[k] # 0  BY <2>1, <2>2, <3>1, <1>a
    <3>3. New(k) # {}
      <4>1. New(k) = {} => Cardinality(New(k)) = 0  BY FS_EmptySet
      <4> HIDE DEF New
      <4> QED BY <4>1, <3>2, <2>1, <1>d
    <3> QED BY <3>3, <1>p DEF PatchedFrames
  <2> QED BY <2>4, <2>5
<1> QED BY <1>1, <1>2, <1>3, <1>5, <1>6, <1>7, <1>8, <1>9 DEF IInv

-----------------------------------------------------------------------------
(* The frames that run the current code of a script in S. *)
FramesOf(S) ==
  {i \in DOMAIN stack : stack[i].script \in S /\ ~checkInvalidation(stack[i])}

(* The scripts in S lose their code: the frames that run it are patched    *)
(* and counted, and the IonScripts without a frame are freed.              *)
Discards(S, after) ==
  /\ \A s \in S : hasIonScript(s)
  /\ stack' = Patched(FramesOf(S))
  /\ refcount' = Increfs(refcount, FramesOf(S))
  /\ allocated' = allocated \ {k \in {ion[s] : s \in S} : refcount'[k] = 0}
  /\ ion' = [s \in Script |-> IF s \in S THEN after ELSE ion[s]]
  /\ UNCHANGED <<forbidden, undefined>>

LEMMA Discarded ==
  ASSUME IInv, NEW S \in SUBSET Script,
         NEW after \in {NULL, ION_DISABLED_SCRIPT}, Discards(S, after)
  PROVE  IInv'
<1> DEFINE F == FramesOf(S)
<1>t. TypeOK  BY DEF IInv
<1>s. /\ DOMAIN stack = 1..Len(stack)
      /\ Len(stack) \in Nat
      /\ \A i \in DOMAIN stack :
           /\ stack[i].script \in Script
           /\ stack[i].code \in IonScript
           /\ stack[i].invalidated \in BOOLEAN
  BY <1>t, StackTypes
<1>p. /\ stack' \in Seq(Frame)
      /\ Len(stack') = Len(stack)
      /\ DOMAIN stack' = DOMAIN stack
      /\ \A i \in DOMAIN stack :
           /\ stack'[i].script = stack[i].script
           /\ stack'[i].code = stack[i].code
           /\ stack'[i].invalidated <=> stack[i].invalidated \/ i \in F
  <2>1. F \in SUBSET DOMAIN stack /\ stack' = Patched(F)  BY DEF FramesOf, Discards
  <2> QED BY <2>1, <1>t, PatchStack
<1>u. /\ \A s \in S : hasIonScript(s)
      /\ allocated' = allocated \ {k \in {ion[s] : s \in S} : refcount'[k] = 0}
      /\ \A s \in Script : ion'[s] = IF s \in S THEN after ELSE ion[s]
      /\ forbidden' = forbidden /\ undefined' = undefined
  BY DEF Discards
<1>f. \A i \in F :
        /\ i \in DOMAIN stack
        /\ stack[i].script \in S
        /\ ion[stack[i].script] = stack[i].code
        /\ ~stack[i].invalidated
  BY <1>s DEF FramesOf, checkInvalidation, IInv, PatchedIsOld
<1>g. \A i \in DOMAIN stack, s \in S : stack[i].code = ion[s] => i \in F
  BY <1>u DEF FramesOf, checkInvalidation, IInv, CodeHasOneScript
<1>h. after \notin IonScript
  BY SpecialIonAssumption
<1> HIDE DEF F
<1> DEFINE Hit(k) == {i \in F : ion[stack[i].script] = k}
           Old(k) == PatchedFrames(stack, k)
           New(k) == PatchedFrames(stack', k)
<1>r. refcount' = [k \in IonScript |-> refcount[k] + Cardinality(Hit(k))]
  BY DEF Increfs, Discards, F
<1>c. ASSUME NEW k \in IonScript
      PROVE  /\ Cardinality(New(k)) = Cardinality(Old(k)) + Cardinality(Hit(k))
             /\ Cardinality(Hit(k)) \in Nat
             /\ Cardinality(New(k)) = 0 <=> New(k) = {}
  <2>1. New(k) = Old(k) \cup Hit(k)
    <3>1. \A i \in DOMAIN stack : i \in New(k) <=> i \in Old(k) \/ i \in Hit(k)
      BY <1>p, <1>f DEF PatchedFrames
    <3>2. /\ \A i \in New(k) : i \in DOMAIN stack
          /\ \A i \in Old(k) : i \in DOMAIN stack
          /\ \A i \in Hit(k) : i \in DOMAIN stack
      BY <1>p, <1>f DEF PatchedFrames
    <3> HIDE DEF Hit, Old, New
    <3> QED BY <3>1, <3>2
  <2>2. Old(k) \cap Hit(k) = {}
    BY <1>f DEF PatchedFrames
  <2>3. /\ Old(k) \in SUBSET DOMAIN stack
        /\ Hit(k) \in SUBSET DOMAIN stack
        /\ New(k) \in SUBSET DOMAIN stack
    BY <1>f, <1>p DEF PatchedFrames
  <2> HIDE DEF Hit, Old, New
  <2>4. /\ IsFiniteSet(Old(k)) /\ Cardinality(Old(k)) \in Nat
        /\ IsFiniteSet(Hit(k)) /\ Cardinality(Hit(k)) \in Nat
        /\ IsFiniteSet(New(k))
    BY <1>t, <2>3, FrameSetsAreFinite
  <2>5. Cardinality(Old(k) \cap Hit(k)) = 0
    BY <2>2, FS_EmptySet
  <2>6. Cardinality(New(k)) = Cardinality(Old(k)) + Cardinality(Hit(k)) - 0
    BY <2>1, <2>4, <2>5, FS_Union
  <2>7. Cardinality(New(k)) = 0 <=> New(k) = {}
    BY <2>4, FS_EmptySet
  <2> QED BY <2>4, <2>6, <2>7
<1>d. ASSUME NEW k \in allocated
      PROVE  refcount'[k] = Cardinality(New(k))
  <2>1. k \in IonScript  BY <1>t DEF TypeOK
  <2>2. refcount[k] = Cardinality(Old(k))
    BY DEF IInv, RefcountsCountFrames, PatchedFrames
  <2> HIDE DEF Hit, Old, New
  <2> QED BY <2>1, <2>2, <1>r, <1>c
<1>1. TypeOK'
  <2>1. refcount' \in [IonScript -> Nat]
    <3>1. \A k \in IonScript : refcount[k] \in Nat /\ Cardinality(Hit(k)) \in Nat
      BY <1>c, <1>t DEF TypeOK
    <3> HIDE DEF Hit
    <3> QED BY <3>1, <1>r
  <2>2. ion' \in [Script -> IonScript \cup {NULL, ION_DISABLED_SCRIPT}]
    BY <1>t DEF TypeOK, Discards
  <2> QED BY <2>1, <2>2, <1>t, <1>p, <1>u DEF TypeOK
<1>2. RefcountsCountFrames'
  <2>1. \A k \in allocated' : refcount'[k] = Cardinality(New(k))
    BY <1>d, <1>u
  <2> QED BY <2>1 DEF RefcountsCountFrames, PatchedFrames
<1>3. FramesHoldCode'
  <2> SUFFICES ASSUME NEW i \in DOMAIN stack, stack[i].code \notin allocated'
               PROVE  FALSE
    BY <1>p DEF FramesHoldCode
  <2> DEFINE k == stack[i].code
  <2>1. k \in allocated /\ k \in IonScript
    BY <1>s DEF IInv, FramesHoldCode
  <2>2. PICK s \in S : k = ion[s] /\ refcount'[k] = 0
    BY <2>1, <1>u
  <2>3. i \in New(k)
    BY <2>2, <1>g, <1>p DEF PatchedFrames
  <2> HIDE DEF New, k
  <2> QED BY <2>1, <2>2, <2>3, <1>c, <1>d
<1>i. \A s \in Script : ion'[s] \in IonScript => s \notin S /\ ion'[s] = ion[s]
  BY <1>h, <1>u
<1>j. \A s \in Script : (hasIonScript(s))' <=> ion'[s] \in IonScript
  BY <1>1, SpecialIonAssumption DEF TypeOK, hasIonScript
<1>k. \A s \in Script : hasIonScript(s) <=> ion[s] \in IonScript
  BY <1>t, CurrentIsIonScript
<1>4. ScriptsHoldCode'
  <2> SUFFICES ASSUME NEW s \in Script, (hasIonScript(s))'
               PROVE  ion'[s] \in allocated' \ forbidden'
    BY DEF ScriptsHoldCode
  <2>1. s \notin S /\ ion'[s] = ion[s] /\ hasIonScript(s)
    BY <1>i, <1>j, <1>k
  <2>2. ion[s] \in allocated \ forbidden
    BY <2>1 DEF IInv, ScriptsHoldCode
  <2>3. \A t \in S : ion[t] # ion[s]
    BY <2>1 DEF IInv, CodeHasOneScript
  <2> QED BY <2>1, <2>2, <2>3, <1>u
<1>5. CodeHasOneScript'
  <2>1. \A s, t \in Script : (hasIonScript(s))' /\ ion'[s] = ion'[t] => s = t
    BY <1>i, <1>j, <1>k DEF IInv, CodeHasOneScript
  <2>2. \A s \in Script, i \in DOMAIN stack :
          ion'[s] = stack[i].code => stack[i].script = s
    BY <1>i, <1>s DEF IInv, CodeHasOneScript
  <2> QED BY <2>1, <2>2, <1>p DEF CodeHasOneScript
<1>6. PatchedIsOld'
  <2> SUFFICES ASSUME NEW i \in DOMAIN stack, stack'[i].invalidated
               PROVE  /\ stack[i].code \notin forbidden
                      /\ \A s \in Script : ion'[s] # stack[i].code
    BY <1>p, <1>u DEF PatchedIsOld
  <2>1. CASE stack[i].invalidated
    BY <2>1, <1>i, <1>s DEF IInv, PatchedIsOld
  <2>2. CASE i \in F
    <3> DEFINE s == stack[i].script
    <3>1. s \in S /\ s \in Script /\ ion[s] = stack[i].code  BY <2>2, <1>f
    <3>2. hasIonScript(s)  BY <3>1, <1>u
    <3>3. ion[s] \notin forbidden
      BY <3>1, <3>2 DEF IInv, ScriptsHoldCode
    <3>4. ASSUME NEW u \in Script, ion'[u] = ion[s] PROVE FALSE
      <4>1. u \notin S /\ ion[u] = ion[s]
        BY <3>1, <3>4, <1>i, <1>s
      <4>2. u = s
        BY <4>1, <3>1, <3>2 DEF IInv, CodeHasOneScript
      <4> QED BY <4>1, <4>2, <3>1
    <3> QED BY <3>1, <3>3, <3>4
  <2> QED BY <2>1, <2>2, <1>p
<1>7. UnpatchedIsCurrent'
  <2> SUFFICES ASSUME NEW i \in DOMAIN stack, ~stack'[i].invalidated,
                      stack[i].code \notin forbidden
               PROVE  stack[i].code = ion'[stack[i].script]
    BY <1>p, <1>u DEF UnpatchedIsCurrent
  <2>1. ~stack[i].invalidated /\ i \notin F  BY <1>p
  <2>2. stack[i].code = ion[stack[i].script]
    BY <2>1 DEF IInv, UnpatchedIsCurrent
  <2>3. stack[i].script \notin S
    BY <2>1, <2>2, <1>g
  <2> QED BY <2>2, <2>3, <1>s, <1>u
<1>8. ForbiddenIsKept'
  <2>1. \A s \in S : ion[s] \notin forbidden
    BY <1>u DEF IInv, ScriptsHoldCode
  <2> QED BY <2>1, <1>u DEF IInv, ForbiddenIsKept
<1>9. NothingUnused'
  <2> SUFFICES ASSUME NEW k \in allocated', k \notin forbidden,
                      \A i \in DOMAIN stack : stack[i].code # k
               PROVE  \E s \in Script : ion'[s] = k
    BY <1>p, <1>u DEF NothingUnused
  <2>1. k \in allocated /\ k \in IonScript  BY <1>t, <1>u DEF TypeOK
  <2>2. PICK s \in Script : ion[s] = k
    BY <2>1 DEF IInv, NothingUnused
  <2>3. CASE s \notin S
    BY <2>2, <2>3, <1>u
  <2>4. CASE s \in S
    <3>1. refcount'[k] # 0
      BY <2>1, <2>2, <2>4, <1>u
    <3>2. New(k) # {}
      <4>1. New(k) = {} => Cardinality(New(k)) = 0  BY FS_EmptySet
      <4> HIDE DEF New
      <4> QED BY <4>1, <3>1, <2>1, <1>d
    <3> QED BY <3>2, <1>p DEF PatchedFrames
  <2> QED BY <2>3, <2>4
<1> QED BY <1>1, <1>2, <1>3, <1>4, <1>5, <1>6, <1>7, <1>8, <1>9 DEF IInv

-----------------------------------------------------------------------------
(* The operations are instances of the two lemmas. *)

LEMMA InitInductive == Init => IInv
<1> SUFFICES ASSUME Init PROVE IInv
  OBVIOUS
<1>1. stack = <<>> /\ stack \in Seq(Frame) /\ Len(stack) = 0 /\ DOMAIN stack = {}
  BY DEF Init
<1>2. TypeOK
  <2>1. ion \in [Script -> IonScript \cup {NULL, ION_DISABLED_SCRIPT}]
    BY DEF Init
  <2>2. refcount \in [IonScript -> Nat]
    BY DEF Init
  <2>3. Len(stack) <= MaxFrames
    BY <1>1, BoundAssumption
  <2>4. allocated \subseteq IonScript /\ forbidden \subseteq IonScript /\ undefined \in BOOLEAN
    BY DEF Init
  <2> QED BY <1>1, <2>1, <2>2, <2>3, <2>4 DEF TypeOK
<1>3. \A s \in Script : ~hasIonScript(s)
  BY DEF Init, hasIonScript
<1> QED
  BY <1>1, <1>2, <1>3 DEF Init, IInv, RefcountsCountFrames, FramesHoldCode,
    ScriptsHoldCode, CodeHasOneScript, PatchedIsOld, UnpatchedIsCurrent,
    ForbiddenIsKept, NothingUnused

(* A frame that is not patched has no reference to give back. *)
LEMMA DecrefsNothing ==
  ASSUME TypeOK, UNCHANGED <<refcount, allocated>>
  PROVE  Decrefs({})
<1>1. \A k \in IonScript : {i \in {} : stack[i].code = k} = {}
  OBVIOUS
<1>2. \A k \in IonScript : Cardinality({i \in {} : stack[i].code = k}) = 0
  BY <1>1, FS_EmptySet
<1>3. \A k \in IonScript : refcount[k] \in Nat  BY DEF TypeOK
<1>4. refcount = [k \in IonScript |->
        refcount[k] - Cardinality({i \in {} : stack[i].code = k})]
  BY <1>2, <1>3 DEF TypeOK
<1> QED BY <1>4 DEF Decrefs

LEMMA TopIsLast ==
  ASSUME TypeOK, stack # <<>>
  PROVE  /\ Len(stack) \in DOMAIN stack
         /\ 1 \in 0..Len(stack)
         /\ \A i \in DOMAIN stack : i > Len(stack) - 1 <=> i = Len(stack)
<1>1. stack \in Seq(Frame) /\ Len(stack) \in Nat /\ Len(stack) # 0
  BY DEF TypeOK
<1> QED BY <1>1, StackTypes

(* What Return and Bailout have in common. *)
LEMMA TopLeaves ==
  ASSUME IInv, stack # <<>>, ~Top.invalidated, Pop(1),
         UNCHANGED <<ion, refcount, allocated, forbidden, undefined>>
  PROVE  IInv'
<1>t. TypeOK  BY DEF IInv
<1>1. {} = {i \in DOMAIN stack : i > Len(stack) - 1 /\ stack[i].invalidated}
  BY <1>t, TopIsLast DEF Top
<1>2. Decrefs({})  BY <1>t, DecrefsNothing
<1> QED BY <1>t, <1>1, <1>2, TopIsLast, Left

LEMMA PatchedTopLeaves ==
  ASSUME IInv, InvalidationBailout
  PROVE  IInv'
<1>t. TypeOK  BY DEF IInv
<1>1. {Len(stack)} = {i \in DOMAIN stack : i > Len(stack) - 1 /\ stack[i].invalidated}
  BY <1>t, TopIsLast DEF Top, InvalidationBailout
<1>2. /\ Decrefs({Len(stack)}) /\ Pop(1)
      /\ UNCHANGED <<ion, forbidden, undefined>> /\ stack # <<>>
  BY DEF InvalidationBailout
<1> QED BY <1>t, <1>1, <1>2, TopIsLast, Left

(* The innermost activation is the innermost Cardinality(Activation) frames. *)
LEMMA ActivationIsInnermost ==
  ASSUME TypeOK
  PROVE  /\ Cardinality(Activation) \in 0..Len(stack)
         /\ \A i \in DOMAIN stack :
              i \in Activation <=> i > Len(stack) - Cardinality(Activation)
<1> DEFINE A == Activation
           l == Len(stack)
<1>s. l \in Nat /\ DOMAIN stack = 1..l  BY StackTypes
<1>1. A \in SUBSET (1..l)  BY <1>s DEF Activation
<1>2. \A i \in A : i..l \subseteq A
  BY <1>s DEF Activation
<1> HIDE DEF A, l
<1>3. \A i \in 1..l : i \notin A => A \subseteq (i+1)..l
  <2> SUFFICES ASSUME NEW i \in 1..l, i \notin A, NEW j \in A
               PROVE  j \in (i+1)..l
    OBVIOUS
  <2>1. j \in 1..l /\ j..l \subseteq A  BY <1>1, <1>2
  <2>2. i \notin j..l  BY <2>1
  <2> QED BY <2>1, <2>2, <1>s
<1>4. \A i \in 1..(l+1) :
        IsFiniteSet(i..l) /\ Cardinality(i..l) = l - i + 1
  <2> SUFFICES ASSUME NEW i \in 1..(l+1)
               PROVE  IsFiniteSet(i..l) /\ Cardinality(i..l) = l - i + 1
    OBVIOUS
  <2>1. i \in Int /\ l \in Int /\ i <= l + 1  BY <1>s
  <2>2. IsFiniteSet(i..l)
        /\ Cardinality(i..l) = IF i > l THEN 0 ELSE l - i + 1
    BY <2>1, FS_Interval
  <2>3. i > l => l - i + 1 = 0  BY <2>1
  <2> QED BY <2>1, <2>2, <2>3
<1>5. IsFiniteSet(A) /\ Cardinality(A) \in Nat /\ Cardinality(A) <= l
  <2>1. IsFiniteSet(1..l) /\ Cardinality(1..l) = l  BY <1>4, <1>s
  <2>2. IsFiniteSet(A) /\ Cardinality(A) <= Cardinality(1..l)  BY <2>1, <1>1, FS_Subset
  <2> QED BY <2>1, <2>2, FS_CardinalityType
<1>6. ASSUME NEW i \in A PROVE i > l - Cardinality(A)
  <2>1. i \in 1..l  BY <1>1
  <2>2. Cardinality(i..l) <= Cardinality(A)  BY <1>2, <1>5, FS_Subset
  <2> QED BY <2>1, <2>2, <1>4, <1>5, <1>s
<1>7. ASSUME NEW i \in 1..l, i \notin A PROVE i <= l - Cardinality(A)
  <2>1. i + 1 \in 1..(l+1)  BY <1>s
  <2>2. IsFiniteSet((i+1)..l) /\ Cardinality((i+1)..l) = l - (i + 1) + 1
    BY <2>1, <1>4
  <2>3. Cardinality(A) <= Cardinality((i+1)..l)  BY <1>3, <1>7, <2>2, FS_Subset
  <2> QED BY <2>2, <2>3, <1>5, <1>s
<1>8. Cardinality(A) \in 0..l  BY <1>5, <1>s
<1>9. \A i \in 1..l : i \in A <=> i > l - Cardinality(A)
  BY <1>5, <1>6, <1>7, <1>s
<1> QED BY <1>8, <1>9, <1>s DEF A, l

LEMMA ActivationLeaves ==
  ASSUME IInv, HandleException
  PROVE  IInv'
<1>t. TypeOK  BY DEF IInv
<1> DEFINE n == Cardinality(Activation)
           G == {i \in Activation : checkInvalidation(stack[i])}
<1>1. /\ n \in 0..Len(stack)
      /\ \A i \in DOMAIN stack : i \in Activation <=> i > Len(stack) - n
  BY <1>t, ActivationIsInnermost
<1>2. /\ \A i \in Activation : i \in DOMAIN stack /\ Found(stack[i])
      /\ Decrefs(G) /\ Pop(n) /\ UNCHANGED <<ion, forbidden, undefined>>
  BY DEF HandleException, Activation
<1>3. \A i \in Activation : checkInvalidation(stack[i]) <=> stack[i].invalidated
  <2> SUFFICES ASSUME NEW i \in Activation
               PROVE  checkInvalidation(stack[i]) <=> stack[i].invalidated
    OBVIOUS
  <2>1. i \in DOMAIN stack /\ stack[i].script \in Script /\ stack[i].invalidated \in BOOLEAN
    BY <1>2, <1>t, StackTypes
  <2>2. stack[i].invalidated => checkInvalidation(stack[i])
    BY <2>1 DEF IInv, PatchedIsOld, checkInvalidation
  <2> QED BY <1>2, <2>1, <2>2 DEF Found
<1>4. G = {i \in DOMAIN stack : i > Len(stack) - n /\ stack[i].invalidated}
  BY <1>1, <1>2, <1>3
<1> HIDE DEF n, G
<1> QED BY <1>1, <1>2, <1>4, Left

(* Invalidate takes back the references it flags the IonScripts with: its  *)
(* walk finds the frames of the scripts it is given, and no others.        *)
LEMMA InvalidateDiscards ==
  ASSUME IInv, NEW S \in SUBSET Script, NEW after, Invalidate(S, after),
         UNCHANGED <<forbidden, undefined>>
  PROVE  Discards(S, after)
<1>t. TypeOK  BY DEF IInv
<1> DEFINE listed  == {ion[s] : s \in S}
           flagged == [k \in IonScript |->
                         IF k \in listed THEN refcount[k] + 1 ELSE refcount[k]]
           frames  == InvalidateActivation(flagged, Compartments, FALSE)
           walked  == Increfs(flagged, frames)
           dropped == [k \in IonScript |->
                         IF k \in listed THEN walked[k] - 1 ELSE walked[k]]
<1>1. /\ \A s \in S : hasIonScript(s)
      /\ refcount' = dropped
      /\ allocated' = allocated \ {k \in listed : dropped[k] = 0}
      /\ stack' = Patched(frames)
      /\ ion' = [s \in Script |-> IF s \in S THEN after ELSE ion[s]]
  BY DEF Invalidate
<1>2. ASSUME NEW i \in DOMAIN stack
      PROVE  i \in frames <=> i \in FramesOf(S)
  <2> DEFINE t == stack[i].script
  <2>1. t \in Script /\ CompartmentOf[t] \in Compartments
    BY <1>t, StackTypes DEF Compartments
  <2>2. CASE checkInvalidation(stack[i])
    BY <2>2 DEF InvalidateActivation, FramesOf
  <2>3. CASE ~checkInvalidation(stack[i])
    <3>1. hasIonScript(t)  BY <2>3 DEF checkInvalidation
    <3>2. refcount[ion[t]] = 0 /\ ion[t] \in IonScript
      BY <2>1, <3>1, <1>t, CurrentHasNoCount, CurrentIsIonScript
    <3>3. flagged[ion[t]] # 0 <=> ion[t] \in listed
      BY <3>2
    <3>4. ion[t] \in listed <=> t \in S
      BY <2>1, <3>1 DEF IInv, CodeHasOneScript
    <3> HIDE DEF flagged, listed
    <3> QED BY <2>1, <2>3, <3>3, <3>4 DEF InvalidateActivation, FramesOf
  <2> QED BY <2>2, <2>3
<1>3. frames = FramesOf(S)
  <2>1. frames \subseteq DOMAIN stack /\ FramesOf(S) \subseteq DOMAIN stack
    BY DEF InvalidateActivation, FramesOf
  <2> HIDE DEF frames
  <2> QED BY <1>2, <2>1
<1> HIDE DEF frames
<1>4. ASSUME NEW k \in IonScript
      PROVE  dropped[k] = Increfs(refcount, FramesOf(S))[k]
  <2> DEFINE H == {i \in frames : ion[stack[i].script] = k}
  <2>1. H \in SUBSET DOMAIN stack  BY <1>3 DEF FramesOf
  <2>2. Cardinality(H) \in Nat  BY <2>1, <1>t, FrameSetsAreFinite
  <2>3. refcount[k] \in Nat  BY <1>t DEF TypeOK
  <2>4. walked[k] = flagged[k] + Cardinality(H)  BY DEF Increfs
  <2>5. Increfs(refcount, FramesOf(S))[k] = refcount[k] + Cardinality(H)
    BY <1>3 DEF Increfs
  <2> HIDE DEF H, walked
  <2> QED BY <2>2, <2>3, <2>4, <2>5
<1>5. dropped = Increfs(refcount, FramesOf(S))
  <2>1. /\ dropped = [k \in IonScript |-> dropped[k]]
        /\ Increfs(refcount, FramesOf(S))
             = [k \in IonScript |-> Increfs(refcount, FramesOf(S))[k]]
    BY DEF Increfs
  <2> HIDE DEF dropped
  <2> QED BY <1>4, <2>1
<1> HIDE DEF dropped
<1> QED BY <1>1, <1>3, <1>5 DEF Discards

(* The scripts whose code DiscardJitCode(c) gives up. *)
ScriptsWithCode(c) == {t \in Script : CompartmentOf[t] = c /\ hasIonScript(t)}

LEMMA DiscardJitCodeDiscards ==
  ASSUME IInv, NEW c, DiscardJitCode(c)
  PROVE  Discards(ScriptsWithCode(c), NULL)
<1>t. TypeOK  BY DEF IInv
<1> DEFINE S == ScriptsWithCode(c)
           frames == InvalidateActivation(refcount, {c}, TRUE)
<1>1. frames = FramesOf(S)
  BY <1>t, StackTypes
  DEF InvalidateActivation, FramesOf, ScriptsWithCode, checkInvalidation
<1>2. FinishInvalidation(refcount', c) = {k \in {ion[s] : s \in S} : refcount'[k] = 0}
  BY DEF FinishInvalidation, ScriptsWithCode
<1>3. ion' = [s \in Script |-> IF s \in S THEN NULL ELSE ion[s]]
  BY DEF DiscardJitCode, ScriptsWithCode
<1>4. \A s \in S : hasIonScript(s)  BY DEF ScriptsWithCode
<1>5. /\ refcount' = Increfs(refcount, frames)
      /\ stack' = Patched(frames)
      /\ allocated' = allocated \ FinishInvalidation(refcount', c)
      /\ UNCHANGED <<forbidden, undefined>>
  BY DEF DiscardJitCode
<1> HIDE DEF frames, S
<1>6. Discards(S, NULL)
  BY <1>1, <1>2, <1>3, <1>4, <1>5 DEF Discards
<1> QED BY <1>6 DEF S

-----------------------------------------------------------------------------
(* The operations that leave the stack alone or push a frame. *)

LEMMA ForbidCompilationInductive ==
  ASSUME IInv, NEW s \in Script, ForbidCompilation(s)
  PROVE  IInv'
<1>t. TypeOK  BY DEF IInv
<1>u. /\ UNCHANGED <<refcount, allocated, stack, undefined>>
      /\ \A t \in Script : ion'[t] = IF t = s THEN ION_DISABLED_SCRIPT ELSE ion[t]
      /\ forbidden' = IF hasIonScript(s) THEN forbidden \cup {ion[s]} ELSE forbidden
  BY <1>t DEF ForbidCompilation, TypeOK
<1>s. \A i \in DOMAIN stack :
        /\ stack[i].script \in Script
        /\ stack[i].code \in IonScript
        /\ stack[i].invalidated \in BOOLEAN
  BY <1>t, StackTypes
<1>h. \A t \in Script : hasIonScript(t) <=> ion[t] \in IonScript
  BY <1>t, CurrentIsIonScript
<1>1. TypeOK'
  <2>1. ion' \in [Script -> IonScript \cup {NULL, ION_DISABLED_SCRIPT}]
    BY <1>t DEF TypeOK, ForbidCompilation
  <2>2. forbidden' \subseteq IonScript  BY <1>t, <1>u, <1>h DEF TypeOK
  <2> QED BY <1>t, <1>u, <2>1, <2>2 DEF TypeOK
<1>i. \A t \in Script : (hasIonScript(t))' <=> t # s /\ hasIonScript(t)
  BY <1>u DEF hasIonScript
<1>d. ION_DISABLED_SCRIPT \notin IonScript  BY SpecialIonAssumption
<1>2. RefcountsCountFrames' /\ FramesHoldCode'
  BY <1>u DEF IInv, RefcountsCountFrames, FramesHoldCode
<1>3. ScriptsHoldCode'
  BY <1>u, <1>i DEF IInv, ScriptsHoldCode, CodeHasOneScript
<1>4. CodeHasOneScript'
  BY <1>u, <1>i, <1>s, <1>d, <1>h DEF IInv, CodeHasOneScript
<1>5. PatchedIsOld'
  BY <1>u, <1>s, <1>d DEF IInv, PatchedIsOld
<1>6. UnpatchedIsCurrent'
  BY <1>u, <1>s, <1>h DEF IInv, UnpatchedIsCurrent
<1>7. ForbiddenIsKept'
  BY <1>u DEF IInv, ForbiddenIsKept, ScriptsHoldCode
<1>8. NothingUnused'
  BY <1>u, <1>t, <1>h DEF IInv, NothingUnused, TypeOK
<1> QED BY <1>1, <1>2, <1>3, <1>4, <1>5, <1>6, <1>7, <1>8 DEF IInv

LEMMA CompileInductive ==
  ASSUME IInv, NEW s \in Script, NEW k \in IonScript, Compile(s, k)
  PROVE  IInv'
<1>t. TypeOK  BY DEF IInv
<1>u. /\ UNCHANGED <<stack, forbidden, undefined>>
      /\ ion[s] = NULL /\ k \notin allocated
      /\ \A t \in Script : ion'[t] = IF t = s THEN k ELSE ion[t]
      /\ \A j \in IonScript : refcount'[j] = IF j = k THEN 0 ELSE refcount[j]
      /\ allocated' = allocated \cup {k}
  BY <1>t DEF Compile, TypeOK
<1>s. \A i \in DOMAIN stack :
        /\ stack[i].script \in Script
        /\ stack[i].code \in IonScript
        /\ stack[i].code # k
        /\ stack[i].invalidated \in BOOLEAN
  BY <1>t, <1>u, StackTypes DEF IInv, FramesHoldCode
<1>n. k # NULL /\ k # ION_DISABLED_SCRIPT /\ k \notin forbidden
  BY <1>u, SpecialIonAssumption DEF IInv, ForbiddenIsKept
<1>c. \A t \in Script : ion[t] # k
  BY <1>u, <1>n DEF IInv, ScriptsHoldCode, hasIonScript
<1>i. \A t \in Script : (hasIonScript(t))' <=> t = s \/ hasIonScript(t)
  BY <1>u, <1>n DEF hasIonScript
<1>h. ~hasIonScript(s)  BY <1>u DEF hasIonScript
<1>1. TypeOK'
  <2>1. ion' \in [Script -> IonScript \cup {NULL, ION_DISABLED_SCRIPT}]
    BY <1>t DEF TypeOK, Compile
  <2>2. refcount' \in [IonScript -> Nat]  BY <1>t DEF TypeOK, Compile
  <2> QED BY <1>t, <1>u, <2>1, <2>2 DEF TypeOK
<1>2. RefcountsCountFrames'
  <2> SUFFICES ASSUME NEW j \in allocated'
               PROVE  refcount'[j] = Cardinality(PatchedFrames(stack, j))
    BY <1>u DEF RefcountsCountFrames, PatchedFrames
  <2>1. CASE j = k
    <3>1. PatchedFrames(stack, k) = {}  BY <1>s DEF PatchedFrames
    <3> QED BY <2>1, <3>1, <1>u, FS_EmptySet
  <2>2. CASE j # k
    BY <2>2, <1>u, <1>t DEF IInv, RefcountsCountFrames, PatchedFrames, TypeOK
  <2> QED BY <2>1, <2>2
<1>3. FramesHoldCode' /\ ForbiddenIsKept'
  BY <1>u DEF IInv, FramesHoldCode, ForbiddenIsKept
<1>4. ScriptsHoldCode'
  BY <1>u, <1>i, <1>n DEF IInv, ScriptsHoldCode
<1>5. CodeHasOneScript'
  BY <1>u, <1>i, <1>s, <1>c DEF IInv, CodeHasOneScript
<1>6. PatchedIsOld'
  BY <1>u, <1>s DEF IInv, PatchedIsOld
<1>7. UnpatchedIsCurrent'
  <2>1. \A i \in DOMAIN stack : stack[i].code # NULL
    BY <1>s, SpecialIonAssumption
  <2> QED BY <2>1, <1>u, <1>s DEF IInv, UnpatchedIsCurrent
<1>8. NothingUnused'
  <2>1. \A t \in Script : ion[t] # NULL => ion'[t] = ion[t]
    BY <1>u
  <2>2. \A j \in allocated : j # NULL
    BY <1>t, SpecialIonAssumption DEF TypeOK
  <2> QED BY <1>u, <2>1, <2>2 DEF IInv, NothingUnused
<1> QED BY <1>1, <1>2, <1>3, <1>4, <1>5, <1>6, <1>7, <1>8 DEF IInv

LEMMA EnterStack ==
  ASSUME TypeOK, NEW s \in Script, NEW entry \in BOOLEAN, Enter(s, entry)
  PROVE  /\ stack' \in Seq(Frame)
         /\ Len(stack') = Len(stack) + 1
         /\ DOMAIN stack' = 1..(Len(stack) + 1)
         /\ \A i \in DOMAIN stack : i \in DOMAIN stack' /\ stack'[i] = stack[i]
         /\ \A i \in DOMAIN stack' : i \in DOMAIN stack \/ i = Len(stack) + 1
         /\ stack'[Len(stack) + 1].script = s
         /\ stack'[Len(stack) + 1].code = ion[s]
         /\ ~stack'[Len(stack) + 1].invalidated
<1> DEFINE f == [script |-> s, code |-> ion[s], invalidated |-> FALSE, entry |-> entry]
<1>1. ion[s] \in IonScript
  BY CurrentIsIonScript DEF Enter
<1>2. f \in Frame /\ f.script = s /\ f.code = ion[s] /\ f.invalidated = FALSE
  BY <1>1 DEF Frame
<1>3. stack' = Append(stack, f) /\ stack \in Seq(Frame)  BY DEF Enter, TypeOK
<1> HIDE DEF f
<1>4. /\ stack' \in Seq(Frame)
      /\ Len(stack') = Len(stack) + 1
      /\ \A i \in 1..Len(stack) : stack'[i] = stack[i]
      /\ stack'[Len(stack) + 1] = f
  BY <1>2, <1>3, AppendProperties
<1>5. DOMAIN stack = 1..Len(stack) /\ Len(stack) \in Nat  BY StackTypes
<1>6. DOMAIN stack' = 1..(Len(stack) + 1)  BY <1>4
<1>7. \A i \in 1..(Len(stack) + 1) : i \in 1..Len(stack) \/ i = Len(stack) + 1
  BY <1>5
<1>8. \A i \in 1..Len(stack) : i \in 1..(Len(stack) + 1)
  BY <1>5
<1> QED BY <1>2, <1>4, <1>5, <1>6, <1>7, <1>8

LEMMA EnterInductive ==
  ASSUME IInv, NEW s \in Script, NEW entry \in BOOLEAN, Enter(s, entry)
  PROVE  IInv'
<1>t. TypeOK  BY DEF IInv
<1> DEFINE m == Len(stack) + 1
<1>p. /\ stack' \in Seq(Frame)
      /\ Len(stack') = m
      /\ \A i \in DOMAIN stack : i \in DOMAIN stack' /\ stack'[i] = stack[i]
      /\ \A i \in DOMAIN stack' : i \in DOMAIN stack \/ i = m
      /\ stack'[m].script = s
      /\ stack'[m].code = ion[s]
      /\ ~stack'[m].invalidated
  BY <1>t, EnterStack
<1>u. /\ UNCHANGED <<ion, refcount, allocated, forbidden, undefined>>
      /\ hasIonScript(s) /\ Len(stack) < MaxFrames
  BY DEF Enter
<1>c. ion[s] \in allocated \ forbidden
  BY <1>u DEF IInv, ScriptsHoldCode
<1>h. \A t \in Script : (hasIonScript(t))' <=> hasIonScript(t)
  BY <1>u DEF hasIonScript
<1>1. TypeOK'
  <2>1. m <= MaxFrames  BY <1>t, <1>u, BoundAssumption, StackTypes
  <2> QED BY <1>t, <1>u, <1>p, <2>1 DEF TypeOK
<1> HIDE DEF m
<1>2. RefcountsCountFrames'
  <2>1. \A k \in IonScript : PatchedFrames(stack', k) = PatchedFrames(stack, k)
    BY <1>p DEF PatchedFrames
  <2>2. \A k \in allocated : refcount[k] = Cardinality(PatchedFrames(stack, k))
    BY DEF IInv, RefcountsCountFrames, PatchedFrames
  <2>3. \A k \in allocated' : refcount'[k] = Cardinality(PatchedFrames(stack', k))
    BY <2>1, <2>2, <1>u, <1>t DEF TypeOK
  <2> QED BY <2>3 DEF RefcountsCountFrames, PatchedFrames
<1>3. FramesHoldCode'
  BY <1>p, <1>u, <1>c DEF IInv, FramesHoldCode
<1>4. ScriptsHoldCode' /\ ForbiddenIsKept'
  BY <1>u, <1>h DEF IInv, ScriptsHoldCode, ForbiddenIsKept
<1>5. CodeHasOneScript'
  <2>1. \A t \in Script : ion[t] = ion[s] => t = s
    BY <1>u DEF IInv, CodeHasOneScript
  <2> QED BY <2>1, <1>p, <1>u, <1>h DEF IInv, CodeHasOneScript
<1>6. PatchedIsOld'
  BY <1>p, <1>u DEF IInv, PatchedIsOld
<1>7. UnpatchedIsCurrent'
  BY <1>p, <1>u DEF IInv, UnpatchedIsCurrent
<1>8. NothingUnused'
  BY <1>p, <1>u DEF IInv, NothingUnused
<1> QED BY <1>1, <1>2, <1>3, <1>4, <1>5, <1>6, <1>7, <1>8 DEF IInv

LEMMA FinalizeScriptInductive ==
  ASSUME IInv, NEW s \in Script, FinalizeScript(s)
  PROVE  IInv'
<1>t. TypeOK  BY DEF IInv
<1>u. /\ UNCHANGED <<refcount, stack, forbidden, undefined>>
      /\ \A i \in DOMAIN stack : stack[i].script # s
      /\ \A t \in Script : ion'[t] = IF t = s THEN NULL ELSE ion[t]
      /\ allocated' = IF hasIonScript(s) THEN allocated \ {ion[s]} ELSE allocated
  BY <1>t DEF FinalizeScript, TypeOK
<1>s. \A i \in DOMAIN stack :
        /\ stack[i].script \in Script
        /\ stack[i].code \in IonScript
        /\ stack[i].code # ion[s]
        /\ stack[i].code # NULL
  BY <1>t, <1>u, StackTypes, SpecialIonAssumption DEF IInv, CodeHasOneScript
<1>h. \A t \in Script : (hasIonScript(t))' <=> t # s /\ hasIonScript(t)
  BY <1>u DEF hasIonScript
<1>n. \A t \in Script : hasIonScript(t) <=> ion[t] \in IonScript
  BY <1>t, CurrentIsIonScript
<1>1. TypeOK'
  <2>1. ion' \in [Script -> IonScript \cup {NULL, ION_DISABLED_SCRIPT}]
    BY <1>t DEF TypeOK, FinalizeScript
  <2> QED BY <1>t, <1>u, <2>1 DEF TypeOK
<1>2. RefcountsCountFrames'
  BY <1>u DEF IInv, RefcountsCountFrames
<1>3. FramesHoldCode'
  BY <1>u, <1>s DEF IInv, FramesHoldCode
<1>4. ScriptsHoldCode'
  BY <1>u, <1>h DEF IInv, ScriptsHoldCode, CodeHasOneScript
<1>5. CodeHasOneScript'
  BY <1>u, <1>h, <1>s, <1>n, SpecialIonAssumption DEF IInv, CodeHasOneScript
<1>6. PatchedIsOld'
  BY <1>u, <1>s DEF IInv, PatchedIsOld
<1>7. UnpatchedIsCurrent'
  BY <1>u, <1>s DEF IInv, UnpatchedIsCurrent
<1>8. ForbiddenIsKept'
  BY <1>u DEF IInv, ForbiddenIsKept, ScriptsHoldCode
<1>9. NothingUnused'
  <2> SUFFICES ASSUME NEW k \in allocated', k \notin forbidden,
                      \A i \in DOMAIN stack : stack[i].code # k
               PROVE  \E t \in Script : ion'[t] = k
    BY <1>u DEF NothingUnused
  <2>1. k \in allocated /\ k \in IonScript  BY <1>t, <1>u DEF TypeOK
  <2>2. PICK t \in Script : ion[t] = k  BY <2>1 DEF IInv, NothingUnused
  <2>3. t # s  BY <2>1, <2>2, <1>u, <1>n
  <2> QED BY <2>2, <2>3, <1>u
<1> QED BY <1>1, <1>2, <1>3, <1>4, <1>5, <1>6, <1>7, <1>8, <1>9 DEF IInv

LEMMA SameStateInductive ==
  ASSUME IInv, UNCHANGED <<ion, refcount, allocated, stack, forbidden>>,
         undefined' \in BOOLEAN
  PROVE  IInv'
BY DEF IInv, TypeOK, RefcountsCountFrames, FramesHoldCode, ScriptsHoldCode,
  CodeHasOneScript, PatchedIsOld, UnpatchedIsCurrent, ForbiddenIsKept,
  NothingUnused, hasIonScript

LEMMA NextInductive == IInv /\ [Next]_vars => IInv'
<1> SUFFICES ASSUME IInv, [Next]_vars PROVE IInv'
  OBVIOUS
<1>1. ASSUME NEW s \in Script, NEW k \in IonScript, Compile(s, k) PROVE IInv'
  BY <1>1, CompileInductive
<1>2. ASSUME NEW s \in Script, NEW entry \in BOOLEAN, Enter(s, entry) PROVE IInv'
  BY <1>2, EnterInductive
<1>3. ASSUME NEW s \in Script, ForbidCompilation(s) PROVE IInv'
  BY <1>3, ForbidCompilationInductive
<1>4. ASSUME NEW s \in Script, FinalizeScript(s) PROVE IInv'
  BY <1>4, FinalizeScriptInductive
<1>5. ASSUME NEW S \in SUBSET Script, Recompile(S) PROVE IInv'
  <2>1. Discards(S, NULL)  BY <1>5, InvalidateDiscards DEF Recompile
  <2> QED BY <2>1, Discarded
<1>6. ASSUME NEW c \in Compartments, DiscardJitCode(c) PROVE IInv'
  <2>1. Discards(ScriptsWithCode(c), NULL)  BY <1>6, DiscardJitCodeDiscards
  <2>2. ScriptsWithCode(c) \in SUBSET Script  BY DEF ScriptsWithCode
  <2> QED BY <2>1, <2>2, Discarded
<1>7. CASE SlowCallLimit
  <2>1. {Top.script} \in SUBSET Script
    BY <1>7, TopIsLast, StackTypes DEF SlowCallLimit, IInv, Top
  <2>2. Discards({Top.script}, ION_DISABLED_SCRIPT)
    BY <1>7, <2>1, InvalidateDiscards DEF SlowCallLimit
  <2> QED BY <2>1, <2>2, Discarded
<1>8. CASE Return
  BY <1>8, TopLeaves DEF Return
<1>9. CASE Bailout
  BY <1>9, TopLeaves DEF Bailout
<1>10. CASE InvalidationBailout
  BY <1>10, PatchedTopLeaves
<1>11. CASE HandleException
  BY <1>11, ActivationLeaves
<1>12. CASE LosesTrack
  BY <1>12, SameStateInductive DEF LosesTrack
<1>13. CASE UNCHANGED vars
  <2>1. UNCHANGED <<ion, refcount, allocated, stack, forbidden>> /\ undefined' = undefined
    BY <1>13 DEF vars
  <2>2. undefined \in BOOLEAN  BY DEF IInv, TypeOK
  <2> QED BY <2>1, <2>2, SameStateInductive
<1> QED
  BY <1>1, <1>2, <1>3, <1>4, <1>5, <1>6, <1>7, <1>8, <1>9, <1>10, <1>11,
    <1>12, <1>13 DEF Next, Step, Undefined

(* The parts of IInv, over all the orders of compiling, entering, leaving  *)
(* and discarding code.                                                    *)
THEOREM Inductive == Spec => []IInv
BY InitInductive, NextInductive, PTL DEF Spec

(* The variables of IonScriptLifetime keep their types. *)
THEOREM TypeCorrect == Spec => []TypeOK
<1>1. IInv => TypeOK  BY DEF IInv
<1> QED BY <1>1, Inductive, PTL

(* The increfs of InvalidateActivation and Invalidate and the decrefs of   *)
(* InvalidationBailout, HandleException and Invalidate add up to the       *)
(* number of patched frames, for any number of scripts and frames.         *)
THEOREM CountsAreRight == Spec => []RefcountsCountFrames
<1>1. IInv => RefcountsCountFrames  BY DEF IInv
<1> QED BY <1>1, Inductive, PTL

(* IonFrameIterator::ionScript finds the IonScript a frame returns into,   *)
(* and it exists, unless ForbidCompilation threw the pointer to it away.   *)
THEOREM FramesAreSafe == Spec => []FramesFindTheirCode
<1>1. ASSUME IInv PROVE FramesFindTheirCode
  <2> SUFFICES ASSUME NEW i \in DOMAIN stack
               PROVE  /\ stack[i].code \in allocated
                      /\ stack[i].code \notin forbidden => Found(stack[i])
    BY DEF FramesFindTheirCode
  <2>1. stack[i].code \in allocated  BY <1>1 DEF IInv, FramesHoldCode
  <2>2. TypeOK  BY <1>1 DEF IInv
  <2>3. /\ stack[i].script \in Script /\ stack[i].code \in IonScript
        /\ stack[i].invalidated \in BOOLEAN
    BY <2>2, StackTypes
  <2>4. stack[i].code = ion[stack[i].script] => ~checkInvalidation(stack[i])
    BY <2>2, <2>3, CurrentIsIonScript DEF checkInvalidation
  <2>5. \/ stack[i].invalidated
        \/ stack[i].code = ion[stack[i].script]
        \/ stack[i].code \in forbidden
    BY <1>1 DEF IInv, UnpatchedIsCurrent
  <2> QED BY <2>1, <2>3, <2>4, <2>5 DEF Found
<1> QED BY <1>1, Inductive, PTL

-----------------------------------------------------------------------------
(* The refinement.  What CodeLifetime calls current and running. *)
CurrentCode == [s \in Script |-> IF hasIonScript(s) THEN ion[s] ELSE NULL]

CodesOf(st) == [i \in DOMAIN st |-> st[i].code]

RunningCode == CodesOf(stack)

LEMMA CodesOfIsSeq ==
  ASSUME NEW st \in Seq(Frame)
  PROVE  /\ CodesOf(st) \in Seq(IonScript)
         /\ Len(CodesOf(st)) = Len(st)
         /\ DOMAIN st = 1..Len(st) /\ Len(st) \in Nat
         /\ \A i \in DOMAIN st : CodesOf(st)[i] = st[i].code /\ CodesOf(st)[i] \in IonScript
<1>1. /\ DOMAIN st = 1..Len(st) /\ Len(st) \in Nat
      /\ \A i \in DOMAIN st : st[i] \in Frame
  OBVIOUS
<1>2. \A i \in DOMAIN st : st[i].code \in IonScript  BY <1>1 DEF Frame
<1>3. /\ CodesOf(st) = [i \in 1..Len(st) |-> CodesOf(st)[i]]
      /\ \A i \in 1..Len(st) : CodesOf(st)[i] = st[i].code
  BY <1>1 DEF CodesOf
<1>4. \A i \in 1..Len(st) : CodesOf(st)[i] \in IonScript
  BY <1>1, <1>2, <1>3
<1> QED BY <1>1, <1>3, <1>4

(* A step that frees code, in a way that keeps the invariant, frees what   *)
(* nobody holds any more and nothing else.                                 *)
LEMMA FreedIsUnheld ==
  ASSUME IInv, IInv', allocated' \subseteq allocated, forbidden' = forbidden
  PROVE  allocated' = allocated \cap Lifetime!Held(CurrentCode', RunningCode', forbidden)
<1> DEFINE H == Lifetime!Held(CurrentCode', RunningCode', forbidden)
<1>t. TypeOK'  BY DEF IInv
<1>h. H = {CurrentCode'[s] : s \in Script}
            \cup {RunningCode'[i] : i \in DOMAIN RunningCode'} \cup forbidden
  BY DEF Lifetime!Held
<1>r. DOMAIN RunningCode' = DOMAIN stack' /\ \A i \in DOMAIN stack' : RunningCode'[i] = stack'[i].code
  BY DEF RunningCode, CodesOf
<1>c. \A s \in Script : CurrentCode'[s] = IF (hasIonScript(s))' THEN ion'[s] ELSE NULL
  BY DEF CurrentCode
<1>n. \A k \in allocated : k # NULL /\ k # ION_DISABLED_SCRIPT
  BY SpecialIonAssumption DEF IInv, TypeOK
<1> HIDE DEF H
<1>1. ASSUME NEW k \in allocated' PROVE k \in H
  <2>1. \/ k \in forbidden
        \/ \E s \in Script : ion'[s] = k
        \/ \E i \in DOMAIN stack' : stack'[i].code = k
    BY DEF IInv, NothingUnused
  <2>2. \A s \in Script : ion'[s] = k => (hasIonScript(s))'
    BY <1>n DEF hasIonScript
  <2> QED BY <2>1, <2>2, <1>h, <1>r, <1>c
<1>2. ASSUME NEW k \in allocated, k \in H PROVE k \in allocated'
  <2>1. CASE \E s \in Script : k = CurrentCode'[s]
    BY <2>1, <1>c, <1>n DEF IInv, ScriptsHoldCode
  <2>2. CASE \E i \in DOMAIN stack' : k = stack'[i].code
    BY <2>2 DEF IInv, FramesHoldCode
  <2>3. CASE k \in forbidden
    BY <2>3 DEF IInv, ForbiddenIsKept
  <2> QED BY <1>2, <1>h, <1>r, <2>1, <2>2, <2>3
<1>3. allocated' = allocated \cap H  BY <1>1, <1>2
<1> QED BY <1>3 DEF H

(* The step of CodeLifetime that keeps n frames and takes the code of S. *)
LEMMA IsLetGo ==
  ASSUME IInv, IInv', allocated' \subseteq allocated, forbidden' = forbidden,
         NEW n \in 0..Len(stack), NEW S \in SUBSET Script,
         Len(stack') = n,
         \A i \in DOMAIN stack' : stack'[i].code = stack[i].code,
         \A s \in Script : CurrentCode'[s] = IF s \in S THEN NULL ELSE CurrentCode[s]
  PROVE  Lifetime!Next
<1>t. TypeOK /\ TypeOK'  BY DEF IInv
<1>r. /\ RunningCode \in Seq(IonScript)
      /\ Len(RunningCode) = Len(stack)
      /\ DOMAIN stack = 1..Len(stack) /\ Len(stack) \in Nat
      /\ \A i \in DOMAIN stack : RunningCode[i] = stack[i].code /\ RunningCode[i] \in IonScript
  BY <1>t, CodesOfIsSeq DEF TypeOK, RunningCode
<1>q. /\ RunningCode' \in Seq(IonScript)
      /\ Len(RunningCode') = n
      /\ DOMAIN stack' = 1..n
      /\ \A i \in DOMAIN stack' : RunningCode'[i] = stack'[i].code
  BY <1>t, CodesOfIsSeq DEF TypeOK, RunningCode
<1>1. RunningCode' = SubSeq(RunningCode, 1, n)
  <2>1. \A i \in 1..n : i \in DOMAIN stack  BY <1>r
  <2>2. /\ SubSeq(RunningCode, 1, n) \in Seq(IonScript)
        /\ Len(SubSeq(RunningCode, 1, n)) = n
        /\ \A i \in 1..n : SubSeq(RunningCode, 1, n)[i] = RunningCode[i]
    BY <1>r, <2>1
  <2>3. \A i \in 1..n : RunningCode'[i] = SubSeq(RunningCode, 1, n)[i]
    BY <1>q, <1>r, <2>1, <2>2
  <2> QED BY <1>q, <2>2, <2>3, SeqEqual
<1>2. CurrentCode' = [s \in Script |-> IF s \in S THEN NULL ELSE CurrentCode[s]]
  BY DEF CurrentCode
<1>3. allocated' = allocated \cap Lifetime!Held(CurrentCode', RunningCode', forbidden)
  BY FreedIsUnheld
<1>4. Lifetime!LetGo(n, S)
  BY <1>1, <1>2, <1>3 DEF Lifetime!LetGo, CurrentCode, RunningCode, CodesOf
<1>5. n \in 0..Len(RunningCode)  BY <1>r
<1> QED BY <1>4, <1>5 DEF Lifetime!Next, RunningCode, CodesOf

LEMMA PopIsLetGo ==
  ASSUME IInv, IInv', NEW n \in 0..Len(stack), Pop(n),
         allocated' \subseteq allocated, UNCHANGED <<ion, forbidden>>
  PROVE  Lifetime!Next
<1>t. TypeOK  BY DEF IInv
<1>1. /\ Len(stack') = Len(stack) - n
      /\ \A i \in DOMAIN stack' : stack'[i] = stack[i]
  BY <1>t, PopStack
<1>2. \A s \in Script : CurrentCode'[s] = IF s \in {} THEN NULL ELSE CurrentCode[s]
  BY DEF CurrentCode, hasIonScript
<1>3. Len(stack) - n \in 0..Len(stack)  BY <1>t, StackTypes
<1>4. {} \in SUBSET Script  OBVIOUS
<1> QED BY <1>1, <1>2, <1>3, <1>4, IsLetGo

LEMMA DiscardIsLetGo ==
  ASSUME IInv, IInv', NEW S \in SUBSET Script,
         NEW after \in {NULL, ION_DISABLED_SCRIPT}, Discards(S, after)
  PROVE  Lifetime!Next
<1>t. TypeOK  BY DEF IInv
<1>1. /\ Len(stack') = Len(stack)
      /\ \A i \in DOMAIN stack' : stack'[i].code = stack[i].code
  <2>1. FramesOf(S) \in SUBSET DOMAIN stack /\ stack' = Patched(FramesOf(S))
    BY DEF FramesOf, Discards
  <2> QED BY <2>1, <1>t, PatchStack
<1>2. \A s \in Script : CurrentCode'[s] = IF s \in S THEN NULL ELSE CurrentCode[s]
  BY DEF CurrentCode, hasIonScript, Discards
<1>3. Len(stack) \in 0..Len(stack)  BY <1>t, StackTypes
<1>4. allocated' \subseteq allocated /\ forbidden' = forbidden  BY DEF Discards
<1> QED BY <1>1, <1>2, <1>3, <1>4, IsLetGo

LEMMA FinalizeScriptIsLetGo ==
  ASSUME IInv, IInv', NEW s \in Script, FinalizeScript(s)
  PROVE  Lifetime!Next
<1>t. TypeOK  BY DEF IInv
<1>1. stack' = stack /\ forbidden' = forbidden /\ allocated' \subseteq allocated
  BY DEF FinalizeScript
<1>2. \A t \in Script : CurrentCode'[t] = IF t \in {s} THEN NULL ELSE CurrentCode[t]
  BY <1>t DEF CurrentCode, hasIonScript, FinalizeScript, TypeOK
<1>3. Len(stack) \in 0..Len(stack)  BY <1>t, StackTypes
<1>4. {s} \in SUBSET Script  OBVIOUS
<1> QED BY <1>1, <1>2, <1>3, <1>4, IsLetGo

LEMMA CompileIsInstall ==
  ASSUME TypeOK, NEW s \in Script, NEW k \in IonScript, Compile(s, k)
  PROVE  Lifetime!Next
<1>1. CurrentCode[s] = NULL
  BY DEF CurrentCode, Compile, hasIonScript
<1>2. k # NULL /\ k # ION_DISABLED_SCRIPT  BY SpecialIonAssumption
<1>3. CurrentCode' = [CurrentCode EXCEPT ![s] = k]
  BY <1>2 DEF CurrentCode, Compile, hasIonScript, TypeOK
<1>4. RunningCode' = RunningCode  BY DEF RunningCode, Compile
<1>5. k \notin allocated /\ allocated' = allocated \cup {k} /\ forbidden' = forbidden
  BY DEF Compile
<1>6. Lifetime!Install(s, k)
  BY <1>1, <1>3, <1>4, <1>5 DEF Lifetime!Install, CurrentCode, RunningCode, CodesOf
<1> QED BY <1>6 DEF Lifetime!Next

LEMMA EnterIsRun ==
  ASSUME TypeOK, TypeOK', NEW s \in Script, NEW entry \in BOOLEAN, Enter(s, entry)
  PROVE  Lifetime!Next
<1>1. CurrentCode[s] = ion[s] /\ ion[s] \in IonScript /\ ion[s] # NULL
  BY CurrentIsIonScript, SpecialIonAssumption DEF CurrentCode, Enter
<1>2. /\ RunningCode \in Seq(IonScript)
      /\ Len(RunningCode) = Len(stack)
      /\ DOMAIN stack = 1..Len(stack) /\ Len(stack) \in Nat
      /\ \A i \in DOMAIN stack : RunningCode[i] = stack[i].code
  BY CodesOfIsSeq DEF TypeOK, RunningCode
<1>3. /\ stack' \in Seq(Frame)
      /\ Len(stack') = Len(stack) + 1
      /\ \A i \in DOMAIN stack : stack'[i] = stack[i]
      /\ stack'[Len(stack) + 1].code = ion[s]
  BY EnterStack
<1>4. /\ RunningCode' \in Seq(IonScript)
      /\ Len(RunningCode') = Len(stack) + 1
      /\ DOMAIN stack' = 1..(Len(stack) + 1)
      /\ \A i \in DOMAIN stack' : RunningCode'[i] = stack'[i].code
  BY <1>3, CodesOfIsSeq DEF RunningCode
<1>5. RunningCode' = Append(RunningCode, ion[s])
  <2> DEFINE a == Append(RunningCode, ion[s])
  <2>1. /\ a \in Seq(IonScript) /\ Len(a) = Len(stack) + 1
        /\ \A i \in 1..Len(stack) : a[i] = RunningCode[i]
        /\ a[Len(stack) + 1] = ion[s]
    BY <1>1, <1>2, AppendProperties
  <2>2. \A i \in 1..(Len(stack) + 1) : i \in 1..Len(stack) \/ i = Len(stack) + 1
    BY <1>2
  <2> HIDE DEF a
  <2>3. \A i \in 1..(Len(stack) + 1) : RunningCode'[i] = a[i]
    BY <1>2, <1>3, <1>4, <2>1, <2>2
  <2>4. RunningCode' = a  BY <1>4, <2>1, <2>3, SeqEqual
  <2> QED BY <2>4 DEF a
<1>6. CurrentCode' = CurrentCode /\ allocated' = allocated /\ forbidden' = forbidden
  BY DEF CurrentCode, hasIonScript, Enter
<1>7. Lifetime!Run(s)
  BY <1>1, <1>5, <1>6 DEF Lifetime!Run, CurrentCode, RunningCode, CodesOf
<1> QED BY <1>7 DEF Lifetime!Next

LEMMA ForbidCompilationIsAbandon ==
  ASSUME TypeOK, NEW s \in Script, ForbidCompilation(s)
  PROVE  Lifetime!Next \/ UNCHANGED Lifetime!vars
<1>1. RunningCode' = RunningCode /\ allocated' = allocated
  BY DEF RunningCode, ForbidCompilation
<1>2. CurrentCode' = [CurrentCode EXCEPT ![s] = NULL]
  BY DEF CurrentCode, ForbidCompilation, hasIonScript, TypeOK
<1>3. CASE hasIonScript(s)
  <2>1. CurrentCode[s] = ion[s] /\ ion[s] # NULL
    BY <1>3 DEF CurrentCode, hasIonScript
  <2>2. forbidden' = forbidden \cup {CurrentCode[s]}
    BY <1>3, <2>1 DEF ForbidCompilation
  <2>3. Lifetime!Abandon(s)
    BY <1>1, <1>2, <2>1, <2>2 DEF Lifetime!Abandon, CurrentCode, RunningCode, CodesOf
  <2> QED BY <2>3 DEF Lifetime!Next
<1>4. CASE ~hasIonScript(s)
  <2>1. CurrentCode[s] = NULL  BY <1>4 DEF CurrentCode
  <2>2. CurrentCode' = CurrentCode  BY <1>2, <2>1 DEF CurrentCode
  <2>3. forbidden' = forbidden  BY <1>4 DEF ForbidCompilation
  <2> QED BY <1>1, <2>2, <2>3 DEF Lifetime!vars, CurrentCode, RunningCode, CodesOf
<1> QED BY <1>3, <1>4

LEMMA StepRefines == IInv /\ IInv' /\ [Next]_vars => [Lifetime!Next]_(Lifetime!vars)
<1> SUFFICES ASSUME IInv, IInv', [Next]_vars
             PROVE  Lifetime!Next \/ UNCHANGED Lifetime!vars
  OBVIOUS
<1>t. TypeOK /\ TypeOK'  BY DEF IInv
<1> DEFINE Goal == Lifetime!Next \/ UNCHANGED Lifetime!vars
<1>1. ASSUME NEW s \in Script, NEW k \in IonScript, Compile(s, k) PROVE Goal
  BY <1>1, <1>t, CompileIsInstall
<1>2. ASSUME NEW s \in Script, NEW entry \in BOOLEAN, Enter(s, entry) PROVE Goal
  BY <1>2, <1>t, EnterIsRun
<1>3. ASSUME NEW s \in Script, ForbidCompilation(s) PROVE Goal
  BY <1>3, <1>t, ForbidCompilationIsAbandon
<1>4. ASSUME NEW s \in Script, FinalizeScript(s) PROVE Goal
  BY <1>4, FinalizeScriptIsLetGo
<1>5. ASSUME NEW S \in SUBSET Script, Recompile(S) PROVE Goal
  <2>1. Discards(S, NULL)  BY <1>5, InvalidateDiscards DEF Recompile
  <2> QED BY <2>1, DiscardIsLetGo
<1>6. ASSUME NEW c \in Compartments, DiscardJitCode(c) PROVE Goal
  <2>1. Discards(ScriptsWithCode(c), NULL)  BY <1>6, DiscardJitCodeDiscards
  <2>2. ScriptsWithCode(c) \in SUBSET Script  BY DEF ScriptsWithCode
  <2> QED BY <2>1, <2>2, DiscardIsLetGo
<1>7. CASE SlowCallLimit
  <2>1. {Top.script} \in SUBSET Script
    BY <1>7, <1>t, TopIsLast, StackTypes DEF SlowCallLimit, Top
  <2>2. Discards({Top.script}, ION_DISABLED_SCRIPT)
    BY <1>7, <2>1, InvalidateDiscards DEF SlowCallLimit
  <2> QED BY <2>1, <2>2, DiscardIsLetGo
<1>8. CASE Return \/ Bailout \/ InvalidationBailout
  <2>1. 1 \in 0..Len(stack) /\ Pop(1) /\ UNCHANGED <<ion, forbidden>>
    BY <1>8, <1>t, TopIsLast DEF Return, Bailout, InvalidationBailout
  <2>2. allocated' \subseteq allocated
    BY <1>8 DEF Return, Bailout, InvalidationBailout, Decrefs
  <2> QED BY <2>1, <2>2, PopIsLetGo
<1>9. CASE HandleException
  <2>1. Cardinality(Activation) \in 0..Len(stack)
    BY <1>t, ActivationIsInnermost
  <2>2. /\ Pop(Cardinality(Activation)) /\ allocated' \subseteq allocated
        /\ UNCHANGED <<ion, forbidden>>
    BY <1>9 DEF HandleException, Decrefs
  <2> QED BY <2>1, <2>2, PopIsLetGo
<1>10. CASE LosesTrack \/ UNCHANGED vars
  <2>1. UNCHANGED <<ion, allocated, stack, forbidden>>
    BY <1>10 DEF LosesTrack, vars
  <2> QED BY <2>1 DEF Lifetime!vars, hasIonScript
<1> QED
  BY <1>1, <1>2, <1>3, <1>4, <1>5, <1>6, <1>7, <1>8, <1>9, <1>10
  DEF Next, Step, Undefined

(* Counting the patched frames implements CodeLifetime: over all orders of *)
(* compiling, entering, leaving and discarding code, an IonScript is       *)
(* destroyed in the very step in which its script and its last frame have  *)
(* let go of it.                                                           *)
THEOREM RefcountsImplementLifetime == Spec => FreedExactlyWhenUnused
<1>1. Init => Lifetime!Init
  <2> SUFFICES ASSUME Init PROVE Lifetime!Init
    OBVIOUS
  <2>1. [i \in DOMAIN stack |-> stack[i].code] = <<>>
    BY DEF Init
  <2>2. [s \in Script |-> IF hasIonScript(s) THEN ion[s] ELSE NULL] = [s \in Script |-> NULL]
    BY DEF Init, hasIonScript
  <2> QED BY <2>1, <2>2 DEF Init, Lifetime!Init
<1>2. Spec => []IInv  BY Inductive
<1> QED BY <1>1, <1>2, StepRefines, PTL DEF Spec, FreedExactlyWhenUnused, Lifetime!Spec
=============================================================================
