---------------------------- MODULE PhysicalFrames ----------------------------
(***************************************************************************)
(* The physical page-frame allocator of kernel/kernel/memory.c: the bitmap  *)
(* page_bitmap and the functions page_physical_alloc,                      *)
(* page_physical_alloc_multiple and page_physical_free, with the callers   *)
(* that hold the frames.                                                   *)
(*                                                                         *)
(* A bitmap word is the set of its bits that are 1.  A word has W bits (64 *)
(* in the code) but every mask is computed as the expression               *)
(* 1 << offset, whose type is int: it has IntBits = W / 2 bits (32) and is *)
(* then sign-extended.  For offset >= IntBits the shift is undefined, and  *)
(* the compilers that build the kernel give it one of two values:          *)
(*   "masked": the processor's shift, which takes the count modulo IntBits;*)
(*   "folded": the constant 0, when the loop is peeled and the shift is    *)
(*             evaluated at compile time.                                  *)
(* allocShift is the value a build gives the shifts of page_physical_alloc,*)
(* whose loop starts at the constant 63.  In the other functions the offset*)
(* or the number of rounds before a hit is known only at run time, and the *)
(* shift is always the processor's.                                        *)
(***************************************************************************)
EXTENDS Integers, FiniteSets

CONSTANTS
    NumWords,      \* page_bitmap_length
    IntBits,       \* width of int
    IntWords,      \* words whose index << 18 still fits in an int
    Counts,        \* the counts given to page_physical_alloc_multiple
    CounterMod,    \* its counter c is a uint8_t: 256
    MaxGrants      \* bound: how often one frame is handed out

ASSUME SizesAssumption ==
    /\ NumWords \in Nat \ {0}
    /\ IntBits \in Nat \ {0, 1}
    /\ IntWords \in Nat
    /\ Counts \subseteq Nat
    /\ CounterMod \in Nat \ {0}
    /\ MaxGrants \in Nat \ {0}

Shifts == {"masked", "folded"}

W == 2 * IntBits

Bits  == 0 .. W - 1
Words == 0 .. NumWords - 1

\* A frame <<w, o>> is the address (w << 18) | (o << 12).
Frames == Words \X Bits

VARIABLES
    allocShift,    \* fixed when the kernel is built
    bitmap,        \* page_bitmap: 1 -> allocated, 0 -> free
    grants,        \* how often page_physical_alloc returned the frame
    held           \* how many callers hold the frame now

vars == <<allocShift, bitmap, grants, held>>

-----------------------------------------------------------------------------
(* Words and masks *)

\* (uint64_t)(1 << o): the top bit of an int is sign-extended.
Mask(shift, o) ==
    LET IntMask(k) == IF k = IntBits - 1 THEN IntBits - 1 .. W - 1 ELSE {k}
    IN  IF o < IntBits THEN IntMask(o)
        ELSE IF shift = "masked" THEN IntMask(o - IntBits)
        ELSE {}

Xor(a, b) == (a \ b) \cup (b \ a)

\* PAGE_STATUS shifts the 64-bit word itself and is exact.
Status(f) == f[2] \in bitmap[f[1]]

\* Mutant: page_bitmap[i] < UINT64_MAX, any word that is not full.
ScannableNotFull(word) == word # Bits

\* page_bitmap[i] < INT64_MAX
Scannable(word) == W - 1 \notin word /\ ~(0 .. W - 2 \subseteq word)

\* Offset o of word w passes the test of the inner loop.
Candidate(w, o) == Scannable(bitmap[w]) /\ bitmap[w] \cap Mask(allocShift, o) = {}

\* Mutant: the inner loop goes upwards.
FirstFitUpwards(w, o) ==
    /\ Candidate(w, o)
    /\ \A v \in Words : v < w => \A b \in Bits : ~Candidate(v, b)
    /\ \A b \in Bits : b < o => ~Candidate(w, b)

\* The first hit: words upwards, offsets downwards.
FirstFit(w, o) ==
    /\ Candidate(w, o)
    /\ \A v \in Words : v < w => \A b \in Bits : ~Candidate(v, b)
    /\ \A b \in Bits : b > o => ~Candidate(w, b)

\* From IntWords on, index << 18 is a negative int and the frame is
\* sign-extended to an address that no bitmap word covers.
Extended(f) == f[1] >= IntWords

-----------------------------------------------------------------------------
(* The bitmap that page_allocator_init leaves (memory.c:110-187): all ones, *)
(* then the masks of the offsets it clears removed.  Which pages these are *)
(* depends on the firmware's memory map.                                   *)

Cleared(S) == Bits \ UNION {Mask("masked", o) : o \in S}

Init ==
    /\ allocShift \in Shifts
    /\ \E cleared \in [Words -> SUBSET Bits] :
          bitmap = [w \in Words |-> Cleared(cleared[w])]
    /\ grants = [f \in Frames |-> 0]
    /\ held = [f \in Frames |-> 0]

\* Mutant: the allocated bits are not marked.
PhysicalAllocUnmarked(w, o) ==
    /\ FirstFit(w, o)
    /\ grants[<<w, o>>] < MaxGrants
    /\ grants' = [grants EXCEPT ![<<w, o>>] = @ + 1]
    /\ held' = [held EXCEPT ![<<w, o>>] = @ + 1]
    /\ UNCHANGED <<allocShift, bitmap>>

(* page_physical_alloc returning 0 *)
PhysicalAlloc(w, o) ==
    /\ FirstFit(w, o)
    /\ grants[<<w, o>>] < MaxGrants
    /\ bitmap' = [bitmap EXCEPT ![w] = Xor(@, Mask(allocShift, o))]
    /\ grants' = [grants EXCEPT ![<<w, o>>] = @ + 1]
    /\ held' = [held EXCEPT ![<<w, o>>] = @ + 1]
    /\ UNCHANGED allocShift

(* page_physical_alloc returning -1 *)
PhysicalAllocFails ==
    /\ \A w \in Words, o \in Bits : ~Candidate(w, o)
    /\ UNCHANGED vars

\* The counter c of page_physical_alloc_multiple after its test of a frame.
\* Words are visited upwards and offsets downwards; c runs on from one
\* scanned word to the next and restarts after a word that is skipped.
RunLength ==
    LET Free(f) == bitmap[f[1]] \cap Mask("masked", f[2]) = {}
        c[f \in Frames] ==
          IF ~Scannable(bitmap[f[1]]) \/ ~Free(f) THEN 0
          ELSE LET before == CASE f[2] < W - 1 -> c[<<f[1], f[2] + 1>>]
                               [] f[2] = W - 1 /\ f[1] > 0 -> c[<<f[1] - 1, 0>>]
                               [] OTHER -> 0
               IN  (before + 1) % CounterMod
    IN  c

\* The frame at which page_physical_alloc_multiple stops.
Stops(f, count) ==
    LET Hit(g)    == Scannable(bitmap[g[1]]) /\ RunLength[g] = count
        Before(g) == g[1] < f[1] \/ (g[1] = f[1] /\ g[2] > f[2])
    IN  Hit(f) /\ \A g \in Frames : Before(g) => ~Hit(g)

\* Mutant: the mask is not sign-extended.
PhysicalAllocMultipleOneBit(f, count) ==
    /\ Stops(f, count)
    /\ bitmap' = [bitmap EXCEPT ![f[1]] = Xor(@, {f[2]})]
    /\ UNCHANGED <<allocShift, grants, held>>

(* page_physical_alloc_multiple returning 0: of the whole run one mask is  *)
(* toggled.  The address it returns, count pages below the end of the run, *)
(* goes to no caller in the kernel and is not kept.                        *)
PhysicalAllocMultiple(f, count) ==
    /\ Stops(f, count)
    /\ bitmap' = [bitmap EXCEPT ![f[1]] = Xor(@, Mask("masked", f[2]))]
    /\ UNCHANGED <<allocShift, grants, held>>

(* page_physical_alloc_multiple returning -1 *)
PhysicalAllocMultipleFails(count) ==
    /\ \A f \in Frames : ~Stops(f, count)
    /\ UNCHANGED vars

\* Mutant: the guard asks for an allocated page.
PhysicalFreeAllocated(f) ==
    /\ held[f] > 0
    /\ held' = [held EXCEPT ![f] = @ - 1]
    /\ IF ~Extended(f) /\ Status(f)
       THEN bitmap' = [bitmap EXCEPT ![f[1]] = Xor(@, Mask("masked", f[2]))]
       ELSE UNCHANGED bitmap
    /\ UNCHANGED <<allocShift, grants>>

\* Mutant: a caller frees a frame once more than it got it.
PhysicalFreeTwice(f) ==
    /\ grants[f] > 0
    /\ held' = [held EXCEPT ![f] = @ - 1]
    /\ UNCHANGED <<allocShift, bitmap, grants>>

(* page_physical_free, called by a holder of f *)
PhysicalFree(f) ==
    /\ held[f] > 0
    /\ held' = [held EXCEPT ![f] = @ - 1]
    /\ IF ~Extended(f) /\ ~Status(f)
       THEN bitmap' = [bitmap EXCEPT ![f[1]] = Xor(@, Mask("masked", f[2]))]
       ELSE UNCHANGED bitmap
    /\ UNCHANGED <<allocShift, grants>>

Next ==
    \/ \E w \in Words, o \in Bits : PhysicalAlloc(w, o)
    \/ PhysicalAllocFails
    \/ \E f \in Frames, count \in Counts : PhysicalAllocMultiple(f, count)
    \/ \E count \in Counts : PhysicalAllocMultipleFails(count)
    \/ \E f \in Frames : PhysicalFree(f)

Spec == Init /\ [][Next]_vars

-----------------------------------------------------------------------------
TypeOK ==
    /\ allocShift \in Shifts
    /\ bitmap \in [Words -> SUBSET Bits]
    /\ grants \in [Frames -> 0 .. MaxGrants]
    /\ held \in [Frames -> 0 .. MaxGrants]

\* The bits of the sign-extended masks of offsets IntBits - 1 and W - 1.
Upper == IntBits - 1 .. W - 1

(* In every build, from page_allocator_init on, the upper bits of a word   *)
(* are all 1 or all 0: an alloc, a free or an initial clear takes them     *)
(* together or not at all.                                                 *)
UpperTogether == \A w \in Words : Upper \subseteq bitmap[w] \/ Upper \cap bitmap[w] = {}

(* In every build the loop of page_physical_alloc (memory.c:249-262) finds *)
(* nothing but the top frame of a word: a word is worth one frame, not W.  *)
GrantsAtTop == \A f \in Frames : grants[f] > 0 => f[2] = W - 1

(* In every build a frame that some holder has given to page_physical_free *)
(* is never handed out again: a free takes memory out of use.              *)
FreedNeverReissued ==
    [][\A f \in Frames : (held[f] < grants[f] /\ ~Extended(f)) => grants'[f] = grants[f]]_vars

(* Where the shift is the processor's, page_physical_alloc hands out a     *)
(* frame at most once in the kernel's lifetime.                            *)
AtMostOneGrant == allocShift = "masked" => \A f \in Frames : grants[f] =< 1

(* Where the shift is the processor's, no call changes a word that has     *)
(* lent a frame, whatever count page_physical_alloc_multiple is asked for, *)
(* 0 and more than a uint8_t holds included.                               *)
GrantedWordsFrozen ==
    [][\A f \in Frames : (allocShift = "masked" /\ grants[f] > 0)
           => bitmap'[f[1]] = bitmap[f[1]]]_vars

\* A frame by its history; another build than the processor's shift is
\* taken for a supply that nobody uses.
UseOf(f) ==
    IF allocShift # "masked" \/ grants[f] = 0 THEN "new"
    ELSE IF grants[f] > 1 THEN "more than once"
    ELSE IF held[f] = 1 THEN "lent"
    ELSE IF held[f] = 0 THEN "returned" ELSE "more than once"

Supply == INSTANCE FrameSupply WITH use <- [f \in Frames |-> UseOf(f)]

(* Where the shift is the processor's, the bitmap implements a supply in   *)
(* which a frame goes from new to lent to returned and no further          *)
(* (memory.c:249-292), whatever order the calls come in.                   *)
ImplementsFrameSupply == Supply!SupplySpec
=============================================================================
