---------------------------- MODULE Frames_proofs ---------------------------
(***************************************************************************)
(* What the functions of PhysicalFrames guarantee for every bitmap length, *)
(* word width, initial bitmap and count asked for, and in which builds;    *)
(* and, of page_allocator_init, for every memory map and whatever is       *)
(* mapped above the kernel, where it puts the bitmap, which words it       *)
(* leaves in it, and what it leaves mapped.  The invariant of the first    *)
(* rests on UpperTogether: a word is scanned only if its top bit is 0, so  *)
(* the first test of the inner loop always succeeds.                       *)
(***************************************************************************)
EXTENDS AllocatorInit, FiniteSetTheorems, WellFoundedInduction, TLAPS

(* The masks are sets of bits of a word. *)
LEMMA MaskType ==
    ASSUME NEW o \in Bits, NEW shift \in Shifts
    PROVE  Mask(shift, o) \in SUBSET Bits
BY SizesAssumption DEF Mask, Bits, W, Shifts

(* A processor's shift covers all upper bits or none of them. *)
LEMMA MaskUpper ==
    ASSUME NEW o \in Bits
    PROVE  Upper \subseteq Mask("masked", o) \/ Upper \cap Mask("masked", o) = {}
BY SizesAssumption DEF Mask, Bits, W, Upper

(* The mask of the top offset. *)
LEMMA MaskTop ==
    /\ W - 1 \in Bits /\ W - 1 \in Upper /\ Upper \subseteq Bits
    /\ Mask("masked", W - 1) = Upper
    /\ Mask("folded", W - 1) = {}
BY SizesAssumption DEF Mask, Bits, W, Upper

LEMMA XorType ==
    ASSUME NEW a \in SUBSET Bits, NEW b \in SUBSET Bits
    PROVE  Xor(a, b) \in SUBSET Bits
BY DEF Xor

(* TypeOK of the bitmap, the grants and the holders (memory.c:249-292). *)
LEMMA TypeInit == Init => TypeOK
<1> SUFFICES ASSUME Init PROVE TypeOK
  OBVIOUS
<1>1. PICK cleared \in [Words -> SUBSET Bits] :
          bitmap = [w \in Words |-> Cleared(cleared[w])]
  BY DEF Init
<1>2. bitmap \in [Words -> SUBSET Bits]
  BY <1>1 DEF Cleared
<1>3. grants \in [Frames -> 0 .. MaxGrants] /\ held \in [Frames -> 0 .. MaxGrants]
  BY SizesAssumption DEF Init
<1> QED
  BY <1>2, <1>3 DEF TypeOK, Init

(* The holders of a frame are among those it was granted to. *)
HeldWithinGrants == \A f \in Frames : held[f] =< grants[f]

(* A frame of a build with the processor's shift that was granted, and a   *)
(* frame of any build that was given back, has its upper bits marked.      *)
Retired ==
    \A f \in Frames :
        (grants[f] > 0 /\ (allocShift = "masked" \/ (held[f] < grants[f] /\ ~Extended(f))))
            => Upper \subseteq bitmap[f[1]]

IInv == TypeOK /\ UpperTogether /\ GrantsAtTop /\ HeldWithinGrants /\ Retired /\ AtMostOneGrant

(* page_allocator_init clears upper bits only as a block. *)
LEMMA InvInit == Init => IInv
<1> SUFFICES ASSUME Init PROVE IInv
  OBVIOUS
<1>1. TypeOK
  BY TypeInit
<1>2. UpperTogether
  <2> SUFFICES ASSUME NEW w \in Words
               PROVE  Upper \subseteq bitmap[w] \/ Upper \cap bitmap[w] = {}
    BY DEF UpperTogether
  <2>1. PICK cleared \in [Words -> SUBSET Bits] :
            bitmap = [v \in Words |-> Cleared(cleared[v])]
    BY DEF Init
  <2>2. bitmap[w] = Bits \ UNION {Mask("masked", o) : o \in cleared[w]}
    BY <2>1 DEF Cleared
  <2>3. CASE \E o \in cleared[w] : Upper \subseteq Mask("masked", o)
    BY <2>2, <2>3
  <2>4. CASE \A o \in cleared[w] : ~(Upper \subseteq Mask("masked", o))
    <3>1. \A o \in cleared[w] : Upper \cap Mask("masked", o) = {}
      BY <2>4, MaskUpper
    <3> QED
      BY <2>2, <3>1, MaskTop
  <2> QED
    BY <2>3, <2>4
<1>3. \A f \in Frames : grants[f] = 0 /\ held[f] = 0
  BY DEF Init
<1> QED
  BY <1>1, <1>2, <1>3 DEF IInv, GrantsAtTop, HeldWithinGrants, Retired, AtMostOneGrant

(* The scan stops at the top offset of the word it enters. *)
LEMMA FirstFitTop ==
    ASSUME IInv, NEW w \in Words, NEW o \in Bits, FirstFit(w, o)
    PROVE  o = W - 1 /\ Upper \cap bitmap[w] = {}
<1>1. Scannable(bitmap[w])
  BY DEF FirstFit, Candidate
<1>2. Upper \cap bitmap[w] = {}
  BY <1>1, MaskTop DEF IInv, UpperTogether, Scannable
<1>3. Candidate(w, W - 1)
  <2>1. allocShift \in Shifts
    BY DEF IInv, TypeOK
  <2>2. bitmap[w] \cap Mask(allocShift, W - 1) = {}
    BY <1>2, <2>1, MaskTop DEF Shifts
  <2> QED
    BY <1>1, <2>2 DEF Candidate
<1>4. ~(W - 1 > o)
  BY <1>3, MaskTop DEF FirstFit
<1> QED
  BY <1>2, <1>4, SizesAssumption DEF Bits, W

(* page_physical_alloc returning a frame. *)
LEMMA InvAlloc ==
    ASSUME IInv, NEW w \in Words, NEW o \in Bits, PhysicalAlloc(w, o)
    PROVE  IInv'
<1> DEFINE f == <<w, o>>
<1>1. f \in Frames /\ f[1] = w /\ f[2] = o
  BY DEF Frames
<1>2. o = W - 1 /\ Upper \cap bitmap[w] = {}
  BY FirstFitTop DEF PhysicalAlloc
<1>3. /\ bitmap' = [bitmap EXCEPT ![w] = Xor(@, Mask(allocShift, W - 1))]
      /\ grants' = [grants EXCEPT ![f] = @ + 1]
      /\ held' = [held EXCEPT ![f] = @ + 1]
      /\ grants[f] < MaxGrants
      /\ allocShift' = allocShift
  BY <1>2 DEF PhysicalAlloc
<1>4. TypeOK /\ allocShift \in {"masked", "folded"}
  BY DEF IInv, TypeOK, Shifts
<1>5. /\ \A v \in Words : v # w => bitmap'[v] = bitmap[v]
      /\ allocShift = "masked" => Upper \subseteq bitmap'[w]
      /\ allocShift = "folded" => bitmap'[w] = bitmap[w]
      /\ bitmap' \in [Words -> SUBSET Bits]
  <2>1. bitmap'[w] = Xor(bitmap[w], Mask(allocShift, W - 1))
    BY <1>3, <1>4 DEF TypeOK
  <2>2. bitmap'[w] \in SUBSET Bits
    BY <2>1, <1>4, MaskType, MaskTop, XorType DEF TypeOK
  <2>3. bitmap' \in [Words -> SUBSET Bits]
    BY <1>3, <1>4, <2>1, <2>2 DEF TypeOK
  <2> QED
    BY <1>2, <1>3, <1>4, <2>1, <2>3, MaskTop DEF TypeOK, Xor
<1>6. /\ grants'[f] = grants[f] + 1 /\ held'[f] = held[f] + 1
      /\ \A g \in Frames : g # f => grants'[g] = grants[g] /\ held'[g] = held[g]
  BY <1>1, <1>3, <1>4 DEF TypeOK
<1>7. grants[f] \in Nat /\ held[f] \in Nat /\ held[f] =< grants[f]
  BY <1>1, <1>4, SizesAssumption DEF TypeOK, IInv, HeldWithinGrants
<1>8. TypeOK'
  <2>1. grants' \in [Frames -> 0 .. MaxGrants]
    BY <1>1, <1>3, <1>4, <1>7, SizesAssumption DEF TypeOK
  <2>2. held' \in [Frames -> 0 .. MaxGrants]
    BY <1>1, <1>3, <1>4, <1>7, SizesAssumption DEF TypeOK
  <2> QED
    BY <1>3, <1>4, <1>5, <2>1, <2>2 DEF TypeOK
<1>9. UpperTogether'
  BY <1>2, <1>4, <1>5 DEF IInv, UpperTogether
<1>10. GrantsAtTop'
  BY <1>1, <1>2, <1>6 DEF IInv, GrantsAtTop
<1>11. HeldWithinGrants'
  BY <1>6, <1>7 DEF IInv, HeldWithinGrants
<1>12. grants[f] > 0 => allocShift = "folded" /\ (held[f] = grants[f] \/ Extended(f))
  <2> SUFFICES ASSUME grants[f] > 0,
                      ~(allocShift = "folded" /\ (held[f] = grants[f] \/ Extended(f)))
               PROVE  FALSE
    OBVIOUS
  <2>1. Upper \subseteq bitmap[w]
    BY <1>1, <1>4, <1>7 DEF IInv, Retired
  <2> QED
    BY <2>1, <1>2, MaskTop
<1>13. Retired'
  <2> SUFFICES ASSUME NEW g \in Frames, grants'[g] > 0,
                      allocShift = "masked" \/ (held'[g] < grants'[g] /\ ~Extended(g))
               PROVE  Upper \subseteq bitmap'[g[1]]
    BY <1>3 DEF Retired, Extended
  <2>1. CASE g = f
    BY <2>1, <1>1, <1>4, <1>5, <1>6, <1>7, <1>12
  <2>2. CASE g # f
    <3>1. Upper \subseteq bitmap[g[1]] /\ g[1] \in Words
      BY <2>2, <1>6 DEF IInv, Retired, Frames
    <3>2. g[1] # w
      BY <3>1, <1>2, MaskTop
    <3> QED
      BY <3>1, <3>2, <1>5
  <2> QED
    BY <2>1, <2>2
<1>14. AtMostOneGrant'
  <2> SUFFICES ASSUME allocShift = "masked", NEW g \in Frames PROVE grants'[g] =< 1
    BY <1>3 DEF AtMostOneGrant
  <2>1. CASE g = f
    BY <2>1, <1>6, <1>7, <1>12
  <2>2. CASE g # f
    BY <2>2, <1>6 DEF IInv, AtMostOneGrant
  <2> QED
    BY <2>1, <2>2
<1> QED
  BY <1>8, <1>9, <1>10, <1>11, <1>13, <1>14 DEF IInv

(* page_physical_free by a holder. *)
LEMMA InvFree ==
    ASSUME IInv, NEW f \in Frames, PhysicalFree(f)
    PROVE  IInv'
<1>1. /\ held[f] > 0 /\ held' = [held EXCEPT ![f] = @ - 1] /\ grants' = grants
      /\ f[1] \in Words /\ f[2] \in Bits /\ allocShift' = allocShift
  BY DEF PhysicalFree, Frames
<1>2. TypeOK
  BY DEF IInv
<1>3. /\ held[f] \in Nat /\ grants[f] \in Nat /\ held[f] =< grants[f] /\ f[2] = W - 1
      /\ held[f] =< MaxGrants
  BY <1>1, <1>2, SizesAssumption DEF TypeOK, IInv, HeldWithinGrants, GrantsAtTop
<1>4. held'[f] = held[f] - 1 /\ \A g \in Frames : g # f => held'[g] = held[g]
  BY <1>1, <1>2 DEF TypeOK
<1>5. \/ bitmap' = bitmap /\ (Extended(f) \/ W - 1 \in bitmap[f[1]])
      \/ /\ bitmap' = [bitmap EXCEPT ![f[1]] = Xor(@, Upper)]
         /\ W - 1 \notin bitmap[f[1]]
  BY <1>1, <1>3, MaskTop DEF PhysicalFree, Status
<1>6. /\ bitmap' \in [Words -> SUBSET Bits]
      /\ \A v \in Words : v # f[1] => bitmap'[v] = bitmap[v]
      /\ (Extended(f) /\ bitmap' = bitmap) \/ Upper \subseteq bitmap'[f[1]]
  <2>1. CASE bitmap' = bitmap /\ (Extended(f) \/ W - 1 \in bitmap[f[1]])
    BY <2>1, <1>1, <1>2, MaskTop DEF TypeOK, IInv, UpperTogether
  <2>2. CASE /\ bitmap' = [bitmap EXCEPT ![f[1]] = Xor(@, Upper)]
             /\ W - 1 \notin bitmap[f[1]]
    <3>1. Upper \cap bitmap[f[1]] = {}
      BY <2>2, <1>1, MaskTop DEF IInv, UpperTogether
    <3>2. bitmap'[f[1]] = Xor(bitmap[f[1]], Upper)
      BY <2>2, <1>1, <1>2 DEF TypeOK
    <3>3. bitmap'[f[1]] \in SUBSET Bits
      BY <3>2, <1>1, <1>2, MaskTop, XorType DEF TypeOK
    <3>4. Upper \subseteq bitmap'[f[1]]
      BY <3>1, <3>2 DEF Xor
    <3> QED
      BY <2>2, <3>2, <3>3, <3>4, <1>1, <1>2 DEF TypeOK
  <2> QED
    BY <1>5, <2>1, <2>2
<1>7. TypeOK'
  <2>1. held[f] - 1 \in 0 .. MaxGrants
    BY <1>1, <1>3, SizesAssumption
  <2>2. held' \in [Frames -> 0 .. MaxGrants]
    BY <2>1, <1>1, <1>2 DEF TypeOK
  <2> QED
    BY <2>2, <1>1, <1>2, <1>6 DEF TypeOK
<1>8. UpperTogether'
  <2> SUFFICES ASSUME NEW v \in Words
               PROVE  Upper \subseteq bitmap'[v] \/ Upper \cap bitmap'[v] = {}
    BY DEF UpperTogether
  <2>1. Upper \subseteq bitmap[v] \/ Upper \cap bitmap[v] = {}
    BY DEF IInv, UpperTogether
  <2> QED
    BY <2>1, <1>6
<1>9. GrantsAtTop' /\ AtMostOneGrant'
  BY <1>1 DEF IInv, GrantsAtTop, AtMostOneGrant
<1>10. HeldWithinGrants'
  BY <1>1, <1>3, <1>4 DEF IInv, HeldWithinGrants
<1>11. Retired'
  <2> SUFFICES ASSUME NEW g \in Frames, grants[g] > 0,
                      allocShift = "masked" \/ (held'[g] < grants[g] /\ ~Extended(g))
               PROVE  Upper \subseteq bitmap'[g[1]]
    BY <1>1 DEF Retired, Extended
  <2>1. g[1] \in Words
    BY DEF Frames
  <2>2. CASE g = f
    BY <2>2, <1>1, <1>6 DEF IInv, Retired
  <2>3. CASE g # f
    BY <2>1, <2>3, <1>4, <1>6 DEF IInv, Retired
  <2> QED
    BY <2>2, <2>3
<1> QED
  BY <1>7, <1>8, <1>9, <1>10, <1>11 DEF IInv

(* page_physical_alloc_multiple returning 0: in the word it stops at, the  *)
(* upper bits are 0, so it sets all of them or none.                       *)
LEMMA InvMultiple ==
    ASSUME IInv, NEW f \in Frames, NEW count, PhysicalAllocMultiple(f, count)
    PROVE  IInv'
<1>1. /\ bitmap' = [bitmap EXCEPT ![f[1]] = Xor(@, Mask("masked", f[2]))]
      /\ allocShift' = allocShift /\ grants' = grants /\ held' = held
      /\ f[1] \in Words /\ f[2] \in Bits
      /\ Scannable(bitmap[f[1]])
  BY DEF PhysicalAllocMultiple, Stops, Frames
<1>2. TypeOK
  BY DEF IInv
<1>3. Upper \cap bitmap[f[1]] = {}
  BY <1>1, MaskTop DEF IInv, UpperTogether, Scannable
<1>4. /\ bitmap'[f[1]] = Xor(bitmap[f[1]], Mask("masked", f[2]))
      /\ \A v \in Words : v # f[1] => bitmap'[v] = bitmap[v]
  BY <1>1, <1>2 DEF TypeOK
<1>5. bitmap' \in [Words -> SUBSET Bits]
  <2>1. Mask("masked", f[2]) \in SUBSET Bits
    BY <1>1, MaskType DEF Shifts
  <2>2. Xor(bitmap[f[1]], Mask("masked", f[2])) \in SUBSET Bits
    BY <2>1, <1>1, <1>2, XorType DEF TypeOK
  <2> QED
    BY <2>2, <1>1, <1>2 DEF TypeOK
<1>6. TypeOK'
  BY <1>1, <1>2, <1>5 DEF TypeOK
<1>7. UpperTogether'
  <2>1. Upper \subseteq bitmap'[f[1]] \/ Upper \cap bitmap'[f[1]] = {}
    BY <1>1, <1>3, <1>4, MaskUpper DEF Xor
  <2> QED
    BY <2>1, <1>4 DEF IInv, UpperTogether
<1>8. GrantsAtTop' /\ HeldWithinGrants' /\ AtMostOneGrant'
  BY <1>1 DEF IInv, GrantsAtTop, HeldWithinGrants, AtMostOneGrant
<1>9. Retired'
  <2> SUFFICES ASSUME NEW g \in Frames, Upper \subseteq bitmap[g[1]]
               PROVE  Upper \subseteq bitmap'[g[1]]
    BY <1>1 DEF IInv, Retired, Extended
  <2>1. g[1] \in Words /\ g[1] # f[1]
    BY <1>3, MaskTop DEF Frames
  <2> QED
    BY <2>1, <1>4
<1> QED
  BY <1>6, <1>7, <1>8, <1>9 DEF IInv

(* Every step of the allocator preserves the invariant. *)
LEMMA InvNext == IInv /\ [Next]_vars => IInv'
<1> SUFFICES ASSUME IInv, [Next]_vars PROVE IInv'
  OBVIOUS
<1>1. CASE \E w \in Words, o \in Bits : PhysicalAlloc(w, o)
  BY <1>1, InvAlloc
<1>2. CASE \/ PhysicalAllocFails
           \/ \E count \in Counts : PhysicalAllocMultipleFails(count)
           \/ UNCHANGED vars
  <2>1. UNCHANGED vars
    BY <1>2 DEF PhysicalAllocFails, PhysicalAllocMultipleFails
  <2> QED
    BY <2>1 DEF vars, IInv, TypeOK, UpperTogether, GrantsAtTop,
              HeldWithinGrants, Retired, AtMostOneGrant
<1>3. CASE \E f \in Frames : PhysicalFree(f)
  BY <1>3, InvFree
<1>4. CASE \E f \in Frames, count \in Counts : PhysicalAllocMultiple(f, count)
  BY <1>4, InvMultiple
<1> QED
  BY <1>1, <1>2, <1>3, <1>4 DEF Next

(* The inductive invariant holds for every bitmap and every build. *)
THEOREM Invariance == Spec => []IInv
BY InvInit, InvNext, PTL DEF Spec

(* The variables of the model of memory.c's allocator keep their types.    *)
THEOREM TypeCorrect == Spec => []TypeOK
<1>1. IInv => TypeOK
  BY DEF IInv
<1> QED
  BY <1>1, Invariance, PTL

(* In every build the upper bits of a bitmap word change together and      *)
(* page_physical_alloc returns only the top frame of a word.               *)
THEOREM OneFramePerWord == Spec => [](UpperTogether /\ GrantsAtTop)
<1>1. IInv => UpperTogether /\ GrantsAtTop
  BY DEF IInv
<1> QED
  BY <1>1, Invariance, PTL

(* With the processor's shift no frame is handed out twice.                *)
THEOREM GrantedOnce == Spec => []AtMostOneGrant
<1>1. IInv => AtMostOneGrant
  BY DEF IInv
<1> QED
  BY <1>1, Invariance, PTL

(* In every build a frame given to page_physical_free is not handed out    *)
(* again.                                                                  *)
THEOREM FreedIsRetired == Spec => FreedNeverReissued
<1>1. IInv /\ [Next]_vars =>
         [\A f \in Frames : (held[f] < grants[f] /\ ~Extended(f)) => grants'[f] = grants[f]]_vars
  <2> SUFFICES ASSUME IInv, Next, NEW f \in Frames, held[f] < grants[f], ~Extended(f)
               PROVE  grants'[f] = grants[f]
    BY DEF vars
  <2>1. CASE \E w \in Words, o \in Bits : PhysicalAlloc(w, o)
    <3>1. PICK w \in Words, o \in Bits : PhysicalAlloc(w, o)
      BY <2>1
    <3>2. Upper \cap bitmap[w] = {}
      BY <3>1, FirstFitTop DEF PhysicalAlloc
    <3>3. Upper \subseteq bitmap[f[1]]
      <4>1. grants[f] \in Nat /\ held[f] \in Nat
        BY DEF IInv, TypeOK
      <4> QED
        BY <4>1 DEF IInv, Retired
    <3>4. f # <<w, o>>
      BY <3>2, <3>3, MaskTop
    <3> QED
      BY <3>1, <3>4 DEF PhysicalAlloc, IInv, TypeOK
  <2>2. CASE \/ PhysicalAllocFails
             \/ \E g \in Frames, count \in Counts : PhysicalAllocMultiple(g, count)
             \/ \E count \in Counts : PhysicalAllocMultipleFails(count)
    BY <2>2 DEF PhysicalAllocFails, PhysicalAllocMultiple, PhysicalAllocMultipleFails, vars
  <2>3. CASE \E g \in Frames : PhysicalFree(g)
    BY <2>3 DEF PhysicalFree
  <2> QED
    BY <2>1, <2>2, <2>3 DEF Next
<1> QED
  BY <1>1, Invariance, PTL DEF Spec, FreedNeverReissued

(* With the processor's shift a word that has lent a frame is never again  *)
(* changed, not even by page_physical_alloc_multiple.                      *)
THEOREM GrantedIsFrozen == Spec => GrantedWordsFrozen
<1>1. IInv /\ [Next]_vars =>
         [\A f \in Frames : (allocShift = "masked" /\ grants[f] > 0)
             => bitmap'[f[1]] = bitmap[f[1]]]_vars
  <2> SUFFICES ASSUME IInv, Next, NEW f \in Frames, allocShift = "masked", grants[f] > 0
               PROVE  bitmap'[f[1]] = bitmap[f[1]]
    BY DEF vars
  <2>1. Upper \subseteq bitmap[f[1]] /\ f[1] \in Words
    BY DEF IInv, Retired, Frames
  <2>2. CASE \E w \in Words, o \in Bits : PhysicalAlloc(w, o)
    <3>1. PICK w \in Words, o \in Bits : PhysicalAlloc(w, o)
      BY <2>2
    <3>2. w # f[1]
      BY <2>1, <3>1, FirstFitTop, MaskTop DEF PhysicalAlloc
    <3> QED
      BY <2>1, <3>1, <3>2 DEF PhysicalAlloc, IInv, TypeOK
  <2>3. CASE \E g \in Frames, count \in Counts : PhysicalAllocMultiple(g, count)
    <3>1. PICK g \in Frames, count \in Counts : PhysicalAllocMultiple(g, count)
      BY <2>3
    <3>2. g[1] # f[1]
      BY <2>1, <3>1, MaskTop DEF PhysicalAllocMultiple, Stops, Scannable
    <3> QED
      BY <2>1, <3>1, <3>2 DEF PhysicalAllocMultiple, IInv, TypeOK
  <2>4. CASE \E g \in Frames : PhysicalFree(g)
    <3>1. PICK g \in Frames : PhysicalFree(g)
      BY <2>4
    <3>2. CASE g[1] = f[1]
      <4>1. held[g] > 0 /\ held[g] =< grants[g] /\ held[g] \in Nat /\ grants[g] \in Nat
        BY <3>1 DEF PhysicalFree, IInv, TypeOK, HeldWithinGrants
      <4>2. g[2] = W - 1
        BY <4>1 DEF IInv, GrantsAtTop
      <4>3. Status(g)
        BY <2>1, <3>2, <4>2, MaskTop DEF Status
      <4> QED
        BY <3>1, <4>3 DEF PhysicalFree
    <3>3. CASE g[1] # f[1]
      BY <2>1, <3>1, <3>3 DEF PhysicalFree, IInv, TypeOK
    <3> QED
      BY <3>2, <3>3
  <2>5. CASE \/ PhysicalAllocFails
             \/ \E count \in Counts : PhysicalAllocMultipleFails(count)
    BY <2>5 DEF PhysicalAllocFails, PhysicalAllocMultipleFails, vars
  <2> QED
    BY <2>2, <2>3, <2>4, <2>5 DEF Next
<1> QED
  BY <1>1, Invariance, PTL DEF Spec, GrantedWordsFrozen

(* In the builds with the processor's shift, the history of a frame.       *)
LEMMA OneHistory ==
    ASSUME IInv, NEW f \in Frames, allocShift = "masked"
    PROVE  \/ grants[f] = 0 /\ held[f] = 0
           \/ grants[f] = 1 /\ held[f] \in {0, 1}
<1>1. grants[f] \in Nat /\ held[f] \in Nat
  BY SizesAssumption DEF IInv, TypeOK
<1> QED
  BY <1>1 DEF IInv, HeldWithinGrants, AtMostOneGrant

(* The two functions that change what is lent, as steps of the supply.     *)
LEMMA SupplyStep ==
    IInv /\ [Next]_vars => [Supply!SupplyNext]_[f \in Frames |-> UseOf(f)]
<1> SUFFICES ASSUME IInv, IInv', [Next]_vars
             PROVE  [Supply!SupplyNext]_[f \in Frames |-> UseOf(f)]
  BY InvNext
<1> USE DEF Supply!SupplyNext, Supply!Lend, Supply!TakeBack
<1>1. CASE \E w \in Words, o \in Bits : PhysicalAlloc(w, o)
  <2>1. PICK w \in Words, o \in Bits : PhysicalAlloc(w, o)
    BY <1>1
  <2> DEFINE g == <<w, o>>
  <2>2. /\ g \in Frames /\ allocShift' = allocShift
        /\ grants'[g] = grants[g] + 1 /\ held'[g] = held[g] + 1
        /\ \A f \in Frames : f # g => grants'[f] = grants[f] /\ held'[f] = held[f]
    BY <2>1 DEF PhysicalAlloc, IInv, TypeOK, Frames
  <2>3. CASE allocShift = "masked"
    <3>1. grants[g] = 0 /\ grants'[g] = 1 /\ held'[g] = 1
      BY <2>2, <2>3, OneHistory, SizesAssumption DEF IInv, TypeOK, AtMostOneGrant
    <3>2. UseOf(g) = "new" /\ UseOf(g)' = "lent"
      BY <2>2, <2>3, <3>1 DEF UseOf
    <3>3. \A f \in Frames : f # g => UseOf(f)' = UseOf(f)
      BY <2>2 DEF UseOf
    <3> QED
      BY <2>2, <3>2, <3>3
  <2>4. CASE allocShift # "masked"
    <3>1. \A f \in Frames : UseOf(f)' = UseOf(f)
      BY <2>2, <2>4 DEF UseOf
    <3> QED
      BY <3>1
  <2> QED
    BY <2>3, <2>4
<1>2. CASE \E g \in Frames : PhysicalFree(g)
  <2>1. PICK g \in Frames : PhysicalFree(g)
    BY <1>2
  <2>2. /\ held[g] > 0 /\ held'[g] = held[g] - 1
        /\ allocShift' = allocShift /\ grants' = grants
        /\ \A f \in Frames : f # g => held'[f] = held[f]
    BY <2>1 DEF PhysicalFree, IInv, TypeOK
  <2>3. CASE allocShift = "masked"
    <3>1. grants[g] = 1 /\ held[g] = 1 /\ held'[g] = 0
      BY <2>2, <2>3, OneHistory
    <3>2. UseOf(g) = "lent" /\ UseOf(g)' = "returned"
      BY <2>2, <2>3, <3>1 DEF UseOf
    <3>3. \A f \in Frames : f # g => UseOf(f)' = UseOf(f)
      BY <2>2 DEF UseOf
    <3> QED
      BY <3>2, <3>3
  <2>4. CASE allocShift # "masked"
    <3>1. \A f \in Frames : UseOf(f)' = UseOf(f)
      BY <2>2, <2>4 DEF UseOf
    <3> QED
      BY <3>1
  <2> QED
    BY <2>3, <2>4
<1>3. CASE \/ \E f \in Frames, count \in Counts : PhysicalAllocMultiple(f, count)
           \/ PhysicalAllocFails
           \/ \E count \in Counts : PhysicalAllocMultipleFails(count)
           \/ UNCHANGED vars
  <2>1. allocShift' = allocShift /\ grants' = grants /\ held' = held
    BY <1>3 DEF PhysicalAllocMultiple, PhysicalAllocFails, PhysicalAllocMultipleFails, vars
  <2> QED
    BY <2>1 DEF UseOf
<1> QED
  BY <1>1, <1>2, <1>3 DEF Next

(* Where the shift is the processor's, the bitmap of memory.c implements   *)
(* FrameSupply for every size and every initial bitmap.                    *)
THEOREM FramesAreSupplied == Spec => ImplementsFrameSupply
<1>1. Init => Supply!SupplyInit
  BY DEF Init, Supply!SupplyInit, UseOf
<1> QED
  BY <1>1, SupplyStep, Invariance, PTL DEF Spec, ImplementsFrameSupply, Supply!SupplySpec

-----------------------------------------------------------------------------
(* page_allocator_init *)

-----------------------------------------------------------------------------
(* Arithmetic *)

(* A set of n members has 2^n subsets, hence 2^n is not 0.                 *)
LEMMA PowerOfTwo == ASSUME NEW n \in Nat PROVE 2^n \in Nat \ {0}
<1>1. IsFiniteSet(1 .. n) /\ Cardinality(1 .. n) = n
  BY FS_Interval
<1>2. IsFiniteSet(SUBSET (1 .. n)) /\ Cardinality(SUBSET (1 .. n)) = 2^n
  BY <1>1, FS_SUBSET
<1>3. SUBSET (1 .. n) # {}
  OBVIOUS
<1> QED
  BY <1>2, <1>3, FS_CardinalityType, FS_EmptySet

(* A set of natural numbers has a least member.                            *)
LEMMA Least ==
    ASSUME NEW T \in SUBSET Nat, T # {}
    PROVE  \E x \in T : \A y \in T : ~(y < x)
<1> DEFINE R == OpToRel(<, Nat)
<1>1. IsWellFoundedOn(R, Nat)
  BY NatLessThanWellFounded, Zenon
<1>2. \A x, y \in Nat : y < x => <<y, x>> \in R
  BY DEF OpToRel
<1> HIDE DEF R
<1>3. PICK x \in T : \A y \in T : ~(<<y, x>> \in R)
  BY <1>1, WFMin
<1> QED
  BY <1>2, <1>3

-----------------------------------------------------------------------------
(* The place of the bitmap *)

Descriptors == [type : {"usable", "mapping", "other", "bitmap"}, pages : Nat, start : Nat]

MapOK == Len(mmap) \in Nat \ {0} /\ DOMAIN mmap = 1 .. Len(mmap)
            /\ \A k \in 1 .. Len(mmap) : mmap[k] \in Descriptors

Fits(k) == mmap[k].type = "usable" /\ mmap[k].pages >= Required

\* k is no better than the best descriptor so far, and comes later if it is as good.
NoBetter(k) ==
    \/ mmap[k].pages > mmap[best].pages
    \/ mmap[k].pages = mmap[best].pages /\ k > best

\* What the search knows after n descriptors ...
Searched(n) ==
    IF best = 0 THEN \A k \in 1 .. n : ~Fits(k)
    ELSE /\ best \in 1 .. n /\ Fits(best)
         /\ \A k \in 1 .. n : Fits(k) => k = best \/ NoBetter(k)

\* ... and, its choice retyped, what the other loops are given.
Placed ==
    IF best = 0 THEN \A k \in 1 .. Len(mmap) : ~Fits(k)
    ELSE /\ best \in 1 .. Len(mmap)
         /\ mmap[best].type = "bitmap" /\ mmap[best].pages >= Required
         /\ \A k \in 1 .. Len(mmap) : Fits(k) => NoBetter(k)

PlaceInv ==
    /\ MapOK
    /\ pc = "select" => index \in 1 .. Len(mmap) /\ Searched(index - 1)
    /\ pc # "select" => Placed
    /\ pc = "clear" => index \in 1 .. Len(mmap)

LEMMA MapType == ASSUME NEW m \in MemoryMaps, mmap = m PROVE MapOK
<1> DEFINE First == [type : {"usable", "mapping", "other"}, pages : Nat, start : Nat]
<1>1. m \in Seq(First) /\ Len(m) > 0
  BY InitAssumption
<1>2. First \subseteq Descriptors
  BY DEF Descriptors
<1> HIDE DEF First
<1>3. Len(m) \in Nat \ {0} /\ DOMAIN m = 1 .. Len(m) /\ \A k \in 1 .. Len(m) : m[k] \in First
  BY <1>1
<1> QED
  BY <1>2, <1>3 DEF MapOK

LEMMA PlaceInit == BootInit => PlaceInv
<1> SUFFICES ASSUME BootInit PROVE PlaceInv
  OBVIOUS
<1>1. MapOK
  BY MapType DEF BootInit
<1> QED
  BY <1>1 DEF BootInit, PlaceInv, Searched, MapOK

(* The descriptor that was chosen is retyped; nothing else of the map      *)
(* changes (memory.c:101-107).                                             *)
LEMMA Retyped ==
    ASSUME MapOK, NEW b \in 1 .. Len(mmap), mmap' = [mmap EXCEPT ![b].type = "bitmap"]
    PROVE  /\ MapOK' /\ Len(mmap') = Len(mmap)
           /\ mmap'[b].type = "bitmap"
           /\ \A k \in 1 .. Len(mmap) : mmap'[k].pages = mmap[k].pages
           /\ \A k \in 1 .. Len(mmap) : k # b => mmap'[k] = mmap[k]
<1>1. /\ Len(mmap') = Len(mmap) /\ DOMAIN mmap' = DOMAIN mmap
      /\ \A k \in 1 .. Len(mmap) : k # b => mmap'[k] = mmap[k]
      /\ mmap'[b] = [mmap[b] EXCEPT !.type = "bitmap"]
  BY DEF MapOK
<1>2. mmap[b] \in Descriptors
  BY DEF MapOK
<1>3. /\ mmap'[b] \in Descriptors /\ mmap'[b].type = "bitmap"
      /\ mmap'[b].pages = mmap[b].pages
  BY <1>1, <1>2 DEF Descriptors
<1> QED
  BY <1>1, <1>3 DEF MapOK

(* A round of the search (memory.c:77-107).                                *)
LEMMA SearchStep ==
    ASSUME MapOK, index \in 1 .. Len(mmap), Searched(index - 1),
           best' = IF mmap[index].type = "usable" /\ mmap[index].pages >= Required
                      /\ Smaller(mmap[index]) THEN index ELSE best
    PROVE  IF best' = 0 THEN \A k \in 1 .. index : ~Fits(k)
           ELSE /\ best' \in 1 .. index /\ Fits(best')
                /\ \A k \in 1 .. index : Fits(k) => \/ k = best'
                                                    \/ mmap[k].pages > mmap[best'].pages
                                                    \/ /\ mmap[k].pages = mmap[best'].pages
                                                       /\ k > best'
<1>1. \A k \in 1 .. Len(mmap) : mmap[k].pages \in Nat
  BY DEF MapOK, Descriptors
<1>2. /\ Len(mmap) \in Nat /\ index \in Nat /\ index > 0
      /\ 1 .. index = 1 .. index - 1 \cup {index}
  BY DEF MapOK
<1>3. CASE Fits(index) /\ Smaller(mmap[index])
  <2>1. best' = index
    BY <1>3 DEF Fits
  <2>2. \A k \in 1 .. index - 1 : Fits(k) => mmap[k].pages > mmap[index].pages
    <3>1. CASE best = 0
      BY <3>1 DEF Searched
    <3>2. CASE best # 0
      <4>1. /\ best \in 1 .. index - 1 /\ mmap[index].pages < mmap[best].pages
            /\ \A k \in 1 .. index - 1 : Fits(k) => k = best \/ NoBetter(k)
        BY <1>3, <3>2 DEF Searched, Smaller
      <4>2. \A k \in 1 .. index - 1 : Fits(k) => mmap[k].pages >= mmap[best].pages
        BY <1>1, <1>2, <4>1 DEF NoBetter
      <4> QED
        BY <1>1, <1>2, <4>1, <4>2
    <3> QED
      BY <3>1, <3>2
  <2> QED
    BY <1>2, <1>3, <2>1, <2>2
<1>4. CASE ~(Fits(index) /\ Smaller(mmap[index]))
  <2>1. best' = best
    BY <1>4 DEF Fits
  <2>2. CASE best = 0
    BY <1>2, <1>4, <2>1, <2>2 DEF Searched, Smaller
  <2>3. CASE best # 0
    <3>1. /\ best \in 1 .. index - 1 /\ Fits(best)
          /\ \A k \in 1 .. index - 1 : Fits(k) => k = best \/ NoBetter(k)
      BY <2>3 DEF Searched
    <3>2. Fits(index) => NoBetter(index)
      BY <1>1, <1>2, <1>4, <3>1 DEF Smaller, NoBetter
    <3> QED
      BY <1>2, <2>1, <2>3, <3>1, <3>2 DEF NoBetter
  <2> QED
    BY <2>2, <2>3
<1> QED
  BY <1>3, <1>4

LEMMA SelectPlace == ASSUME PlaceInv, Select PROVE PlaceInv'
<1>1. MapOK /\ pc = "select" /\ index \in 1 .. Len(mmap) /\ Searched(index - 1)
  BY DEF Select, PlaceInv
<1>2. best' = IF mmap[index].type = "usable" /\ mmap[index].pages >= Required
                 /\ Smaller(mmap[index]) THEN index ELSE best
  BY DEF Select
<1>3. IF best' = 0 THEN \A k \in 1 .. index : ~Fits(k)
      ELSE /\ best' \in 1 .. index /\ Fits(best')
           /\ \A k \in 1 .. index : Fits(k) => \/ k = best'
                                               \/ mmap[k].pages > mmap[best'].pages
                                               \/ /\ mmap[k].pages = mmap[best'].pages
                                                  /\ k > best'
  BY <1>1, <1>2, SearchStep
<1>4. Len(mmap) \in Nat
  BY <1>1 DEF MapOK
<1>5. CASE index < Len(mmap)
  <2>1. index' = index + 1 /\ mmap' = mmap /\ pc' = pc
    BY <1>5 DEF Select
  <2>2. index' \in 1 .. Len(mmap)' /\ index' - 1 = index /\ MapOK'
    BY <1>1, <1>4, <1>5, <2>1 DEF MapOK
  <2>3. Searched(index - 1)'
    BY <1>3, <2>1, <2>2 DEF Searched, Fits, NoBetter
  <2> QED
    BY <1>1, <2>1, <2>2, <2>3 DEF PlaceInv
<1>6. CASE ~(index < Len(mmap))
  <2>1. index = Len(mmap) /\ index' = 1
    BY <1>1, <1>4, <1>6 DEF Select
  <2>2. CASE best' = 0
    <3>1. pc' = "failed" /\ mmap' = mmap
      BY <1>6, <2>2 DEF Select
    <3> QED
      BY <1>1, <1>3, <2>1, <2>2, <3>1 DEF PlaceInv, Placed, MapOK, Fits
  <2>3. CASE best' # 0
    <3>1. pc' = "clear" /\ mmap' = [mmap EXCEPT ![best'].type = "bitmap"]
      BY <1>6, <2>3 DEF Select
    <3>2. PICK b \in 1 .. Len(mmap) : b = best'
      BY <1>3, <2>1, <2>3
    <3>3. /\ MapOK' /\ Len(mmap') = Len(mmap)
          /\ mmap'[b].type = "bitmap"
          /\ \A k \in 1 .. Len(mmap) : mmap'[k].pages = mmap[k].pages
          /\ \A k \in 1 .. Len(mmap) : k # b => mmap'[k] = mmap[k]
      BY <1>1, <3>1, <3>2, Retyped
    <3>4. mmap'[b].pages >= Required
      BY <1>3, <2>3, <3>2, <3>3 DEF Fits
    <3>5. \A k \in 1 .. Len(mmap) : Fits(k)' => NoBetter(k)'
      BY <1>3, <2>1, <2>3, <3>2, <3>3 DEF Fits, NoBetter
    <3>6. Placed'
      BY <2>3, <3>2, <3>3, <3>4, <3>5 DEF Placed
    <3> QED
      BY <1>4, <2>1, <3>1, <3>3, <3>6 DEF PlaceInv, MapOK
  <2> QED
    BY <2>2, <2>3
<1> QED
  BY <1>5, <1>6

LEMMA PlaceNext == PlaceInv /\ [BootNext]_initVars => PlaceInv'
<1> SUFFICES ASSUME PlaceInv, [BootNext]_initVars PROVE PlaceInv'
  OBVIOUS
<1>1. CASE Select
  BY <1>1, SelectPlace
<1>2. CASE ~Select
  <2>1. mmap' = mmap /\ best' = best /\ (pc' = "select" => pc = "select" /\ index' = index)
    BY <1>2 DEF BootNext, initVars, bootVars, Clear, AllocMap, MapMap, MapMapFails, AllocBitmap,
                AllocBitmapFails, MapBitmap, MapBitmapFails
  <2>2. pc' = "clear" => pc = "clear" /\ index' \in 1 .. Len(mmap)
    BY <1>2 DEF BootNext, initVars, bootVars, Clear, AllocMap, MapMap, MapMapFails, AllocBitmap,
                AllocBitmapFails, MapBitmap, MapBitmapFails, PlaceInv, MapOK
  <2>3. pc = "select" => pc' = "select"
    BY <1>2 DEF BootNext, initVars, bootVars, Clear, AllocMap, MapMap, MapMapFails, AllocBitmap,
                AllocBitmapFails, MapBitmap, MapBitmapFails
  <2> QED
    BY <2>1, <2>2, <2>3 DEF PlaceInv, MapOK, Searched, Placed, Fits, NoBetter
<1> QED
  BY <1>1, <1>2

(* Whatever the firmware's memory map is, one pass over it finds the place *)
(* that comparing all descriptors would (memory.c:77-107).                 *)
THEOREM Smallest == BootSpec => []SmallestPlace
<1>1. PlaceInv => SmallestPlace
  BY DEF PlaceInv, MapOK, Placed, Fits, NoBetter, SmallestPlace
<1> QED
  BY <1>1, PlaceInit, PlaceNext, PTL DEF BootSpec

-----------------------------------------------------------------------------
(* The bits of usable memory *)

\* Every word is what some of its bits cleared with the macro's mask leave.
WordsCleared == \A w \in Words : \E S \in SUBSET Bits : bitmap[w] = Cleared(S)

WordsInv == pc \in {"select", "clear", "alloc_map"} => WordsCleared

(* The bits that are cleared for a descriptor have numbers, though not     *)
(* always those of its pages (memory.c:140-187).                           *)
LEMMA PageNumberType ==
    ASSUME NEW d \in Descriptors, NEW i \in ClearRounds(d)
    PROVE  PageNumber(d, i) \in Nat
<1>1. d.pages \in Nat /\ d.start \in Nat
  BY DEF Descriptors
<1>2. i \in Nat
  <2>1. (CASE d.type = "mapping" -> UsedTables
           [] d.type = "bitmap"  -> Required
           [] d.type = "usable"  -> 0
           [] OTHER              -> d.pages) \in Nat
    BY <1>1, InitAssumption
  <2> QED
    BY <1>1, <2>1 DEF ClearRounds
<1>3. PageShift + i \in Nat /\ (PageShift + i) % ShiftMod \in Nat
  BY <1>2, InitAssumption
<1>4. 2^((PageShift + i) % ShiftMod) \in Nat \ {0} /\ 2^PageShift \in Nat
  BY <1>3, PowerOfTwo, InitAssumption
<1>5. \A a, c \in Nat : a * c \in Nat
  OBVIOUS
<1>6. \A a \in Nat, c \in Nat \ {0} : a \div c \in Nat
  OBVIOUS
<1>7. d.start * 2^PageShift \in Nat
  BY <1>1, <1>4, <1>5
<1> QED
  BY <1>4, <1>6, <1>7 DEF PageNumber

LEMMA ClearWords == ASSUME PlaceInv, WordsInv, Clear PROVE WordsCleared'
<1> DEFINE d == mmap[index]
           pages == {PageNumber(d, i) : i \in ClearRounds(d)}
           bits(w) == {n % W : n \in {p \in pages : p \div W = w}}
<1>1. d \in Descriptors /\ WordsCleared
  BY DEF Clear, PlaceInv, MapOK, WordsInv
<1>2. pages \subseteq Nat
  BY <1>1, PageNumberType
<1>3. \A n \in Nat : n % W \in Bits
  BY SizesAssumption DEF W, Bits
<1>4. \A w \in Words : bits(w) \in SUBSET Bits
  BY <1>2, <1>3
<1>5. \A w \in Words : bitmap'[w] = bitmap[w] \ UNION {Mask("masked", o) : o \in bits(w)}
  BY DEF Clear, ClearedBits
<1> HIDE DEF d, pages, bits
<1>6. \A w \in Words, S \in SUBSET Bits :
         bitmap[w] = Cleared(S) => bitmap'[w] = Cleared(S \cup bits(w))
  BY <1>5 DEF Cleared
<1> QED
  BY <1>1, <1>4, <1>6 DEF WordsCleared

LEMMA WordsNext == PlaceInv /\ WordsInv /\ [BootNext]_initVars => WordsInv'
<1> SUFFICES ASSUME PlaceInv, WordsInv, [BootNext]_initVars PROVE WordsInv'
  OBVIOUS
<1>1. CASE Clear
  BY <1>1, ClearWords DEF WordsInv
<1>2. CASE Select \/ UNCHANGED initVars
  BY <1>2 DEF Select, vars, initVars, bootVars, WordsInv, WordsCleared
<1>3. CASE AllocMap \/ MapMap \/ MapMapFails \/ AllocBitmap \/ AllocBitmapFails \/ MapBitmap
           \/ MapBitmapFails
  BY <1>3 DEF WordsInv, AllocMap, MapMap, MapMapFails, AllocBitmap, AllocBitmapFails, MapBitmap,
              MapBitmapFails
<1> QED
  BY <1>1, <1>2, <1>3 DEF BootNext

(* For every memory map, the words page_allocator_init leaves are among    *)
(* those the theorems of PhysicalFrames begin with (memory.c:110-187).     *)
THEOREM AsAssumed == BootSpec => []WordsAsAssumed
<1>1. BootInit => WordsInv
  <2>1. Bits = Cleared({}) /\ {} \in SUBSET Bits
    BY DEF Cleared
  <2> QED
    BY <2>1 DEF BootInit, WordsInv, WordsCleared
<1>2. WordsInv => WordsAsAssumed
  BY DEF WordsInv, WordsCleared, WordsAsAssumed
<1> QED
  BY <1>1, <1>2, PlaceInit, PlaceNext, WordsNext, PTL DEF BootSpec

-----------------------------------------------------------------------------
(* What is mapped above the kernel *)

Unmapped(n) == n \in 0 .. LastPage /\ mapped[n] = NoFrame

\* Pages 0 to n are mapped.
MappedUpTo(n) == \A k \in 0 .. n : mapped[k] # NoFrame

(* Two pages are free for the two calls of page_map; between them the      *)
(* pointer names the last of the mapped pages at the kernel's end, or the  *)
(* one below them.                                                         *)
EndInv ==
    /\ DOMAIN mapped = VirtualPages
    /\ pc \in {"select", "clear", "alloc_map", "map_map"} =>
          \E a, b : Unmapped(a) /\ Unmapped(b) /\ a # b
    /\ pc = "map_map" => first \in Frames
    /\ pc = "map_bitmap" => second \in Frames
    /\ pc \in {"alloc_bitmap", "map_bitmap"} =>
          /\ mapAt \in VirtualPages /\ MappedUpTo(mapAt) /\ MappedUpTo(0)
          /\ \E a : Unmapped(a)
    /\ pc = "done" => mapped[mapAt + 1] # NoFrame

LEMMA FramesAreFrames == NoFrame \notin Frames /\ Kernel # NoFrame
BY DEF NoFrame, Frames, Kernel

LEMMA TargetIs ==
    ASSUME NEW a, Unmapped(a)
    PROVE  Unmapped(Target) /\ MappedUpTo(Target - 1)
<1> DEFINE T == {n \in 0 .. LastPage : mapped[n] = NoFrame}
<1>1. T \in SUBSET Nat /\ T # {}
  BY DEF Unmapped
<1> HIDE DEF T
<1>2. PICK n \in T : \A k \in T : ~(k < n)
  BY <1>1, Least
<1>3. n \in 0 .. LastPage /\ mapped[n] = NoFrame /\ \A k \in 0 .. n - 1 : mapped[k] # NoFrame
  BY <1>2, InitAssumption DEF T
<1> QED
  BY <1>3 DEF Target, Unmapped, MappedUpTo

(* The two calls of page_map (memory.c:199-238).                           *)
LEMMA MapMapEnd == ASSUME EndInv, MapMap PROVE EndInv'
<1>1. PICK a, b : Unmapped(a) /\ Unmapped(b) /\ a # b /\ first \in Frames
                  /\ DOMAIN mapped = VirtualPages
  BY DEF MapMap, EndInv
<1>2. PICK t : t = Target
  OBVIOUS
<1>3. Unmapped(t) /\ MappedUpTo(t - 1)
  BY <1>1, <1>2, TargetIs
<1>4. /\ mapped' = [mapped EXCEPT ![t] = first] /\ pc' = "alloc_bitmap"
      /\ mapAt' = IF t = 0 THEN -1 ELSE t
  BY <1>2 DEF MapMap
<1>5. /\ t \in 0 .. LastPage /\ t \in VirtualPages /\ LastPage \in Nat
  BY <1>3, InitAssumption DEF Unmapped, VirtualPages
<1>6. /\ DOMAIN mapped' = VirtualPages /\ mapped'[t] # NoFrame
      /\ \A k \in VirtualPages : k # t => mapped'[k] = mapped[k]
  BY <1>1, <1>4, <1>5, FramesAreFrames
<1>7. MappedUpTo(t)' /\ MappedUpTo(0)'
  BY <1>3, <1>5, <1>6 DEF MappedUpTo, VirtualPages
<1>8. mapAt' \in VirtualPages /\ MappedUpTo(mapAt)'
  BY <1>4, <1>5, <1>7 DEF VirtualPages, MappedUpTo
<1>9. \E c : Unmapped(c)'
  BY <1>1, <1>5, <1>6 DEF Unmapped, VirtualPages
<1> QED
  BY <1>4, <1>6, <1>7, <1>8, <1>9 DEF EndInv

LEMMA MapBitmapEnd == ASSUME EndInv, MapBitmap PROVE EndInv'
<1>1. PICK a : /\ Unmapped(a) /\ mapAt \in VirtualPages /\ MappedUpTo(mapAt) /\ MappedUpTo(0)
               /\ second \in Frames /\ DOMAIN mapped = VirtualPages
  BY DEF MapBitmap, EndInv
<1>2. PICK t : t = Target
  OBVIOUS
<1>3. Unmapped(t) /\ MappedUpTo(t - 1)
  BY <1>1, <1>2, TargetIs
<1>4. mapped' = [mapped EXCEPT ![t] = second] /\ pc' = "done" /\ mapAt' = mapAt
  BY <1>2 DEF MapBitmap
<1>5. /\ t \in 0 .. LastPage /\ t \in VirtualPages /\ LastPage \in Nat
  BY <1>3, InitAssumption DEF Unmapped, VirtualPages
<1>6. /\ DOMAIN mapped' = VirtualPages /\ mapped'[t] # NoFrame
      /\ \A k \in VirtualPages : k # t => mapped'[k] = mapped[k]
  BY <1>1, <1>4, <1>5, FramesAreFrames
<1>7. mapAt \in -1 .. LastPage /\ mapAt + 1 =< t
  BY <1>1, <1>3, <1>5 DEF Unmapped, MappedUpTo, VirtualPages
<1>8. mapAt + 1 \in VirtualPages
  BY <1>5, <1>7 DEF VirtualPages
<1>9. mapAt + 1 # t => mapped[mapAt + 1] # NoFrame
  BY <1>3, <1>5, <1>7 DEF MappedUpTo
<1>10. mapped'[mapAt' + 1] # NoFrame
  BY <1>4, <1>6, <1>8, <1>9
<1> QED
  BY <1>4, <1>6, <1>10 DEF EndInv

LEMMA EndNext == EndInv /\ [BootNext]_initVars => EndInv'
<1> SUFFICES ASSUME EndInv, [BootNext]_initVars PROVE EndInv'
  OBVIOUS
<1> USE DEF Unmapped, MappedUpTo
<1>1. CASE MapMap
  BY <1>1, MapMapEnd
<1>2. CASE MapBitmap
  BY <1>2, MapBitmapEnd
<1>3. CASE Select \/ Clear
  BY <1>3 DEF Select, Clear, EndInv
<1>4. CASE AllocMap
  <2>1. \A f \in Frames : first' = f => first' \in Frames
    OBVIOUS
  <2> QED
    BY <1>4, <2>1 DEF AllocMap, EndInv
<1>5. CASE AllocBitmap
  BY <1>5 DEF AllocBitmap, EndInv
<1>6. CASE MapMapFails
  BY <1>6 DEF MapMapFails, EndInv
<1>7. CASE AllocBitmapFails
  BY <1>7 DEF AllocBitmapFails, EndInv
<1>8. CASE MapBitmapFails
  BY <1>8 DEF MapBitmapFails, EndInv
<1>9. CASE UNCHANGED initVars
  BY <1>9 DEF initVars, bootVars, EndInv
<1> QED
  BY <1>1, <1>2, <1>3, <1>4, <1>5, <1>6, <1>7, <1>8, <1>9 DEF BootNext

(* Whatever is mapped above the kernel, and whether the map's own page was *)
(* the first or not, page_allocator_init leaves the page at the end of the *)
(* registered range mapped (memory.c:199-238).                             *)
THEOREM EndMapped == BootSpec => []EndPageMapped
<1>1. BootInit => EndInv
  <2> SUFFICES ASSUME BootInit PROVE EndInv
    OBVIOUS
  <2>1. PICK occupied \in Occupied :
            mapped = [n \in VirtualPages |-> IF n = -1 \/ n \in occupied THEN Kernel ELSE NoFrame]
    BY DEF BootInit
  <2>2. occupied \subseteq 0 .. LastPage - 2 /\ LastPage \in Nat /\ LastPage > 0
    BY InitAssumption
  <2>3. Unmapped(LastPage) /\ Unmapped(LastPage - 1) /\ LastPage # LastPage - 1
    BY <2>1, <2>2 DEF Unmapped, VirtualPages
  <2> QED
    BY <2>1, <2>3 DEF BootInit, EndInv
<1>2. EndInv => EndPageMapped
  BY DEF EndInv, EndPageMapped
<1> QED
  BY <1>1, <1>2, EndNext, PTL DEF BootSpec
=============================================================================
