------------------------------ MODULE VirtualMap ------------------------------
(***************************************************************************)
(* The map of allocated virtual ranges in kernel/kernel/memory.c: a linked *)
(* list of entries in the array virtual_address_map, whose free slots are  *)
(* tracked in virtual_address_map_free_bitmap, and the page_virtual_*      *)
(* functions.                                                              *)
(*                                                                         *)
(* An operation is a function from the map (a record) to an outcome: the   *)
(* map it leaves, its result, and what it stores in *frame.  Addresses are *)
(* bytes modulo AddrMod (2^64), a page has Page bytes (4096), a bitmap     *)
(* word 2 * IntBits bits (64).  The masks are computed with an int shift,  *)
(* as in PhysicalFrames; InsertShift is the value a build gives the        *)
(* undefined ones in INSERT_VIRTUAL_MAP_ENTRY_AND_RETURN.                  *)
(***************************************************************************)
EXTENDS Integers, FiniteSets

CONSTANTS
    Page,          \* 1 << 12
    AddrMod,       \* addresses wrap here
    IntBits,       \* width of int; a bitmap word is twice as wide
    NumWords,      \* virtual_address_map_free_bitmap_length: 2
    InsertShift,   \* "masked" or "folded"
    Base0, Length0,\* the entry that page_allocator_init makes
    Addrs,         \* the addresses callers pass
    Counts,        \* the page counts callers pass
    Jumps,         \* the jump counts callers pass
    InitBitmaps,   \* what the page of the free bitmap may hold at first
    MaxOwned,      \* bound: pages that callers own at once
    Ceiling        \* bound: allocations stay below this address

ASSUME VirtualAssumption ==
    /\ {Page, AddrMod, NumWords} \subseteq Nat \ {0}
    /\ IntBits \in Nat \ {0, 1}
    /\ InsertShift \in {"masked", "folded"}
    /\ {Base0, Length0} \cup Addrs \subseteq 0 .. AddrMod - 1
    /\ Counts \cup Jumps \subseteq Nat
    /\ MaxOwned \in Nat
    /\ Ceiling \in 0 .. AddrMod - 1

W     == 2 * IntBits
Bits  == 0 .. W - 1
Slots == 0 .. NumWords * W - 1
Upper == IntBits - 1 .. W - 1
Null  == NumWords * W

(* bounds: what is asked for in one call does not lead around the end of   *)
(* the addresses                                                           *)
ASSUME BoundsAssumption ==
    /\ Length0 > 0 /\ Base0 + Length0 =< Ceiling
    /\ \A n \in Counts \cup Jumps \cup {1} : Ceiling + n * Page < AddrMod
    /\ \A bm \in InitBitmaps : bm \in [0 .. NumWords - 1 -> SUBSET Bits]

VARIABLES
    vmap,          \* [slot, first, bm]: the entries, the list head, the bitmap
    own,           \* how many callers hold the page at each address
    status         \* "fault" once a call has read through a null pointer; PageAllocator
                   \* has "panic" as well

vars == <<vmap, own, status>>

Address == 0 .. AddrMod - 1

Add(a, b) == (a + b) % AddrMod
Sub(a, b) == (a - b) % AddrMod

-----------------------------------------------------------------------------
(* Slots *)

\* Mutant: the int is zero-extended.
MaskZeroExtended(shift, o) ==
    IF o < IntBits THEN {o} ELSE IF shift = "masked" THEN {o - IntBits} ELSE {}

Mask(shift, o) ==
    LET IntMask(k) == IF k = IntBits - 1 THEN IntBits - 1 .. W - 1 ELSE {k}
    IN  IF o < IntBits THEN IntMask(o)
        ELSE IF shift = "masked" THEN IntMask(o - IntBits)
        ELSE {}

UpperAgree(word) == Upper \subseteq word \/ word \cap Upper = {}

\* The slots INSERT may take; the first hit has the lowest word and in it
\* the highest offset.
FreeSlots(m) ==
    {k \in Slots :
        LET word == m.bm[k \div W]
        IN  /\ W - 1 \notin word /\ ~(0 .. W - 2 \subseteq word)
            /\ word \cap Mask(InsertShift, k % W) = {}}

InsertSlot(m) ==
    CHOOSE k \in FreeSlots(m) :
        \A j \in FreeSlots(m) : k \div W < j \div W \/ (k \div W = j \div W /\ k >= j)

\* The byte distance of an entry of 32 bytes is shifted right by 3, so the
\* location is four times the slot, and the bit is counted from the top.
\* Beyond NumWords the word is not one that INSERT looks at.
ClearSlot(bm, k) ==
    LET w == (4 * k) \div W
    IN  IF w < NumWords
        THEN [bm EXCEPT ![w] = @ \ Mask("masked", W - 1 - ((4 * k) % W))]
        ELSE bm

-----------------------------------------------------------------------------
(* Entries and the list *)

Next_(m, e) == m.slot[e].next
HasNext(m, e) == m.slot[e].next # Null
NextBase(m, e) == m.slot[m.slot[e].next].base
End(m, e) == Add(m.slot[e].base, m.slot[e].len)

\* The entries from the head, as far as the list has any.
Chain(m) ==
    LET at[k \in 0 .. NumWords * W] ==
          IF k = 0 THEN m.first
          ELSE IF at[k - 1] = Null THEN Null ELSE Next_(m, at[k - 1])
    IN  at

Listed(m) == LET at == Chain(m) IN {at[k] : k \in 0 .. NumWords * W} \ {Null}

\* A list with a cycle has no end within as many steps as there are slots.
Terminates(m) == Chain(m)[NumWords * W] = Null

\* FIND_ENTRY_WITH_TRIPREF: the first entry whose successor is not below a.
Stops(m, a) ==
    LET at == Chain(m)
    IN  {k \in 0 .. NumWords * W - 1 :
            at[k] # Null /\ (~HasNext(m, at[k]) \/ ~(NextBase(m, at[k]) < a))}
FindAt(m, a) == LET stops == Stops(m, a) IN CHOOSE k \in stops : \A j \in stops : k =< j
Find(m, a) == Chain(m)[FindAt(m, a)]

-----------------------------------------------------------------------------
(* Outcomes *)

NoFrame == AddrMod

Returns(m, r, f) == [m |-> m, ret |-> r, frame |-> f, status |-> "ok"]
Faults(m) == [m |-> m, ret |-> -1, frame |-> NoFrame, status |-> "fault"]

\* Mutant: the slot is not marked.
InsertUnmarked(m, t, base, len) ==
    IF FreeSlots(m) = {} THEN Returns(m, -1, base)
    ELSE LET k  == InsertSlot(m)
             s1 == [m.slot EXCEPT ![k] = [base |-> base, len |-> len, next |-> Next_(m, t)]]
         IN  Returns([m EXCEPT !.slot = [s1 EXCEPT ![t].next = k]], 0, base)

\* INSERT_VIRTUAL_MAP_ENTRY_AND_RETURN after entry t, followed by return -1
Insert(m, t, base, len) ==
    IF FreeSlots(m) = {} THEN Returns(m, -1, base)
    ELSE LET k  == InsertSlot(m)
             s1 == [m.slot EXCEPT ![k] = [base |-> base, len |-> len, next |-> Next_(m, t)]]
         IN  Returns([m EXCEPT !.slot = [s1 EXCEPT ![t].next = k],
                               !.bm[k \div W] = @ \cup Mask(InsertShift, k % W)], 0, base)

\* The next entry becomes part of t.
Absorb(m, t) ==
    LET n == Next_(m, t)
    IN  [m EXCEPT !.slot[t].len = Add(@, m.slot[n].len),
                  !.slot[t].next = m.slot[n].next,
                  !.bm = ClearSlot(@, n)]

JoinIfTouching(m, t) ==
    IF HasNext(m, t) /\ End(m, t) = NextBase(m, t) THEN Absorb(m, t) ELSE m

GrowUp(m, t, bytes) == JoinIfTouching([m EXCEPT !.slot[t].len = Add(@, bytes)], t)

\* Mutant: the base moves and the length stays.
GrowDownBaseOnly(m, t, bytes) == [m EXCEPT !.slot[Next_(m, t)].base = Sub(@, bytes)]

GrowDown(m, t, bytes) ==
    [m EXCEPT !.slot[Next_(m, t)].base = Sub(@, bytes),
              !.slot[Next_(m, t)].len = Add(@, bytes)]

\* The part after t, if it touches the range [a, a + bytes), grows down to
\* hold it; otherwise the range gets an entry of its own.
PlaceAfter(m, t, a, bytes) ==
    IF HasNext(m, t) /\ NextBase(m, t) = Add(a, bytes)
    THEN Returns(GrowDown(m, t, bytes), 0, a)
    ELSE Insert(m, t, a, bytes)

-----------------------------------------------------------------------------
(* The page_virtual_alloc family *)

VirtualAlloc(m) ==
    LET t == m.first
        f == End(m, t)
    IN  IF f = 0 THEN Returns(m, -1, f)
        ELSE Returns(GrowUp(m, t, 1), 0, f)

AllocAt(m, a) ==
    LET t == Find(m, a)
    IN  IF End(m, t) > a THEN Returns(m, 1, a)
        ELSE IF End(m, t) = a THEN Returns(GrowUp(m, t, Page), 0, a)
        ELSE PlaceAfter(m, t, a, Page)

AllocAfter(m, b) ==
    LET t == Find(m, b)
    IN  IF End(m, t) >= b THEN Returns(GrowUp(m, t, Page), 0, End(m, t))
        ELSE PlaceAfter(m, t, b, Page)

\* Where the beyond functions start: jump pages above the entry, or base.
Beyond(m, t, b, j) == LET f == Add(End(m, t), j * Page) IN IF f < b THEN b ELSE f

\* Mutant: an entry that begins at the frame itself is not refused.
AllocBeyondOffByOne(m, b, j) ==
    LET t == Find(m, b)
        f == Beyond(m, t, b, j)
    IN  IF j = 0 THEN AllocAfter(m, b)
        ELSE IF HasNext(m, t) /\ NextBase(m, t) < f THEN Returns(m, 1, f)
        ELSE PlaceAfter(m, t, f, Page)

AllocBeyond(m, b, j) ==
    LET t == Find(m, b)
        f == Beyond(m, t, b, j)
    IN  IF j = 0 THEN AllocAfter(m, b)
        ELSE IF HasNext(m, t) /\ NextBase(m, t) =< f THEN Returns(m, 1, f)
        ELSE IF HasNext(m, t) /\ NextBase(m, t) # Add(f, Page) /\ End(m, Next_(m, t)) = f
        THEN Returns(GrowUp(m, Next_(m, t), Page), 0, f)
        ELSE PlaceAfter(m, t, f, Page)

\* The beyond_ex functions try the entry found first with Beyond; while the
\* next entry blocks the frame, they go on to it and place the frame jump
\* pages above its end.
BeyondExFrame(m, b, j, k) ==
    LET e == Chain(m)[k]
    IN  IF k = FindAt(m, b) THEN Beyond(m, e, b, j) ELSE Add(End(m, e), j * Page)

BeforeOthers(m) == {k \in 0 .. Null - 1 : Chain(m)[k] # Null /\ HasNext(m, Chain(m)[k])}

BeyondExWalk(m, b, j, blocked) ==
    LET ends == {k \in FindAt(m, b) .. Null - 1 : Chain(m)[k] # Null} \ blocked
        k == CHOOSE x \in ends : \A y \in ends : x =< y
    IN  [t |-> Chain(m)[k], f |-> BeyondExFrame(m, b, j, k)]

AllocBeyondEx(m, b, j) ==
    LET blocked == {k \in BeforeOthers(m) :
                      NextBase(m, Chain(m)[k]) =< BeyondExFrame(m, b, j, k)}
        w == BeyondExWalk(m, b, j, blocked)
    IN  IF j = 0 THEN AllocAfter(m, b) ELSE PlaceAfter(m, w.t, w.f, Page)

-----------------------------------------------------------------------------
(* The page_virtual_alloc_multiple family; alloc_count 0 returns -1 *)

\* Mutant: the range is not compared with the next entry.
AllocMultipleUnchecked(m, n) ==
    IF n = 0 THEN Returns(m, -1, NoFrame)
    ELSE Returns(GrowUp(m, m.first, n * Page), 0, NoFrame)

\* *frame is never set.
AllocMultiple(m, n) ==
    LET t   == m.first
        top == Add(End(m, t), n * Page)
    IN  IF n = 0 THEN Returns(m, -1, NoFrame)
        ELSE IF HasNext(m, t) /\ top > NextBase(m, t) THEN Returns(m, 1, NoFrame)
        ELSE Returns(GrowUp(m, t, n * Page), 0, NoFrame)

\* top is computed for the first entry and compared for the one found.
AllocMultipleEx(m, n) ==
    LET top  == Add(End(m, m.first), n * Page)
        ends == {k \in 0 .. NumWords * W - 1 :
                   LET e == Chain(m)[k]
                   IN  e # Null /\ ~(HasNext(m, e) /\ Add(End(m, e), n * Page) > NextBase(m, e))}
        t    == Chain(m)[CHOOSE x \in ends : \A y \in ends : x =< y]
        m1   == [m EXCEPT !.slot[t].len = Add(@, n * Page)]
    IN  IF n = 0 THEN Returns(m, -1, NoFrame)
        ELSE IF HasNext(m1, t) /\ top = NextBase(m1, t) THEN Returns(Absorb(m1, t), 0, NoFrame)
        ELSE Returns(m1, 0, NoFrame)

\* The range check reads the next entry without asking whether there is one.
AllocMultipleAt(m, a, n) ==
    LET t == Find(m, a)
    IN  IF n = 0 THEN Returns(m, -1, a)
        ELSE IF End(m, t) > a THEN Returns(m, 1, a)
        ELSE IF ~HasNext(m, t) THEN Faults(m)
        ELSE IF Add(a, n * Page) > NextBase(m, t) THEN Returns(m, 1, a)
        ELSE IF End(m, t) = a THEN Returns(GrowUp(m, t, n * Page), 0, a)
        ELSE PlaceAfter(m, t, a, n * Page)

AllocMultipleAfter(m, b, n) ==
    LET t == Find(m, b)
    IN  IF n = 0 THEN Returns(m, -1, NoFrame)
        ELSE IF ~(End(m, t) >= b) THEN PlaceAfter(m, t, b, n * Page)
        ELSE IF HasNext(m, t) /\ NextBase(m, t) < Add(End(m, t), n * Page)
        THEN Returns(m, 1, End(m, t))
        ELSE Returns(GrowUp(m, t, n * Page), 0, End(m, t))

\* The loop ends at an entry whose successor is far enough; it faults at
\* the last entry.
AllocMultipleAfterEx(m, b, n) ==
    LET k0   == FindAt(m, b)
        ends == {k \in k0 .. NumWords * W - 1 :
                   LET e == Chain(m)[k]
                   IN  /\ e # Null /\ HasNext(m, e)
                       /\ ~(NextBase(m, e) < Add(End(m, e), n * Page))}
        t    == Chain(m)[CHOOSE x \in ends : \A y \in ends : x =< y]
    IN  IF n = 0 THEN Returns(m, -1, NoFrame)
        ELSE IF ~(End(m, Find(m, b)) >= b) THEN PlaceAfter(m, Find(m, b), b, n * Page)
        ELSE IF ends = {} THEN Faults(m)
        ELSE Returns(GrowUp(m, t, n * Page), 0, End(m, t))

AllocMultipleBeyond(m, b, n, j) ==
    LET t == Find(m, b)
        f == Beyond(m, t, b, j)
    IN  IF n = 0 THEN Returns(m, -1, NoFrame)
        ELSE IF j = 0 THEN AllocMultipleAfter(m, b, n)
        ELSE IF HasNext(m, t) /\ NextBase(m, t) =< f THEN Returns(m, 1, f)
        ELSE IF HasNext(m, t) /\ NextBase(m, t) # Add(f, n * Page) /\ End(m, Next_(m, t)) = f
        THEN Returns(GrowUp(m, Next_(m, t), n * Page), 0, f)
        ELSE PlaceAfter(m, t, f, n * Page)

AllocMultipleBeyondEx(m, b, n, j) ==
    LET blocked == {k \in BeforeOthers(m) :
                      NextBase(m, Chain(m)[k]) < Add(BeyondExFrame(m, b, j, k), n * Page)}
        w == BeyondExWalk(m, b, j, blocked)
    IN  IF n = 0 THEN Returns(m, -1, NoFrame)
        ELSE IF j = 0 THEN AllocMultipleAfter(m, b, n)
        ELSE PlaceAfter(m, w.t, w.f, n * Page)

-----------------------------------------------------------------------------
(* page_virtual_free and page_virtual_free_multiple *)

\* The entry leaves the list: the link that led to it is overwritten.
Unlink(m, k) ==
    LET e  == Chain(m)[k]
        m1 == IF k = 0 THEN [m EXCEPT !.first = Next_(m, e)]
              ELSE [m EXCEPT !.slot[Chain(m)[k - 1]].next = Next_(m, e)]
    IN  [m1 EXCEPT !.bm = ClearSlot(@, e)]

\* The entry keeps what is below a; what is above gets a new entry, if
\* there is a slot for it.
Split(m, t, a, bytes) ==
    LET below == Sub(a, m.slot[t].base)
        above == Sub(Sub(m.slot[t].len, below), bytes)
    IN  Insert([m EXCEPT !.slot[t].len = below], t, Add(a, bytes), above)

VirtualFree(m, a) ==
    LET t == Find(m, a)
    IN  IF a >= End(m, t) THEN Returns(m, -1, a)
        ELSE IF m.slot[t].len = 1 THEN Returns(Unlink(m, FindAt(m, a)), 0, a)
        ELSE Split(m, t, a, Page)

\* When INSERT finds no slot the function ends without a return statement.
FreeRange(m, a, n) ==
    LET t == Find(m, a)
    IN  IF Add(a, n * Page) >= End(m, t) THEN Returns(m, -1, a)
        ELSE IF m.slot[t].len = 1 THEN Returns(Unlink(m, FindAt(m, a)), 0, a)
        ELSE Split(m, t, a, n * Page)

\* Count 1 is freed by page_virtual_free and then once more.
FreeMultiple(m, a, n) ==
    IF n = 0 THEN Returns(m, -1, a)
    ELSE FreeRange(IF n = 1 THEN VirtualFree(m, a).m ELSE m, a, n)

-----------------------------------------------------------------------------
(* The callers *)

\* One more holder of each of the n pages from f.
Gain(f, n) ==
    LET gained == {Add(f, i * Page) : i \in 0 .. n - 1}
    IN  [a \in Address |-> own[a] + (IF a \in gained THEN 1 ELSE 0)]

\* A call of an allocation function for n pages with outcome o.
Allocates(o, n) ==
    /\ status = "ok"
    /\ Cardinality({a \in Address : own[a] > 0}) + n =< MaxOwned
    /\ \A e \in Listed(o.m) : o.m.slot[e].base + o.m.slot[e].len =< Ceiling
    /\ vmap' = o.m
    /\ status' = o.status
    /\ own' = IF o.status = "ok" /\ o.ret = 0 /\ o.frame # NoFrame
              THEN Gain(o.frame, n) ELSE own

PageVirtualAlloc                       == Allocates(VirtualAlloc(vmap), 1)
PageVirtualAllocAt(a)                  == Allocates(AllocAt(vmap, a), 1)
PageVirtualAllocAfter(b)               == Allocates(AllocAfter(vmap, b), 1)
PageVirtualAllocBeyond(b, j)           == Allocates(AllocBeyond(vmap, b, j), 1)
PageVirtualAllocBeyondEx(b, j)         == Allocates(AllocBeyondEx(vmap, b, j), 1)
PageVirtualAllocMultiple(n)            == Allocates(AllocMultiple(vmap, n), n)
PageVirtualAllocMultipleEx(n)          == Allocates(AllocMultipleEx(vmap, n), n)
PageVirtualAllocMultipleAt(a, n)       == Allocates(AllocMultipleAt(vmap, a, n), n)
PageVirtualAllocMultipleAfter(b, n)    == Allocates(AllocMultipleAfter(vmap, b, n), n)
PageVirtualAllocMultipleAfterEx(b, n)  == Allocates(AllocMultipleAfterEx(vmap, b, n), n)
PageVirtualAllocMultipleBeyond(b, n, j) == Allocates(AllocMultipleBeyond(vmap, b, n, j), n)
PageVirtualAllocMultipleBeyondEx(b, n, j) == Allocates(AllocMultipleBeyondEx(vmap, b, n, j), n)

\* Callers free pages that they own, and use them no more.
PageVirtualFree(a) ==
    /\ status = "ok"
    /\ own[a] > 0
    /\ vmap' = VirtualFree(vmap, a).m
    /\ own' = [own EXCEPT ![a] = @ - 1]
    /\ UNCHANGED status

PageVirtualFreeMultiple(a, n) ==
    LET pages == {Add(a, i * Page) : i \in 0 .. n - 1}
    IN  /\ status = "ok"
        /\ \A p \in pages : own[p] > 0
        /\ vmap' = FreeMultiple(vmap, a, n).m
        /\ own' = [p \in Address |-> own[p] - (IF p \in pages THEN 1 ELSE 0)]
        /\ UNCHANGED status

\* page_allocator_init makes one entry; the bitmap is a page of memory that
\* nobody clears, and marking slot 0 in it has no effect.
Init ==
    /\ \E bm \in InitBitmaps :
          vmap = [slot  |-> [k \in Slots |->
                               [base |-> IF k = 0 THEN Base0 ELSE 0,
                                len  |-> IF k = 0 THEN Length0 ELSE 0,
                                next |-> Null]],
                  first |-> 0,
                  bm    |-> bm]
    /\ own = [a \in Address |-> 0]
    /\ status = "ok"

\* All fourteen functions, for addresses in addrs.
Allocate(addrs) ==
    \/ PageVirtualAlloc
    \/ \E a \in addrs : PageVirtualAllocAt(a)
    \/ \E b \in addrs : PageVirtualAllocAfter(b)
    \/ \E b \in addrs, j \in Jumps : PageVirtualAllocBeyond(b, j)
    \/ \E b \in addrs, j \in Jumps : PageVirtualAllocBeyondEx(b, j)
    \/ \E n \in Counts : PageVirtualAllocMultiple(n)
    \/ \E n \in Counts : PageVirtualAllocMultipleEx(n)
    \/ \E a \in addrs, n \in Counts : PageVirtualAllocMultipleAt(a, n)
    \/ \E b \in addrs, n \in Counts : PageVirtualAllocMultipleAfter(b, n)
    \/ \E b \in addrs, n \in Counts : PageVirtualAllocMultipleAfterEx(b, n)
    \/ \E b \in addrs, n \in Counts, j \in Jumps : PageVirtualAllocMultipleBeyond(b, n, j)
    \/ \E b \in addrs, n \in Counts, j \in Jumps : PageVirtualAllocMultipleBeyondEx(b, n, j)

\* A caller frees from a page that it holds.
Free ==
    \E a \in {p \in Address : own[p] > 0} :
        PageVirtualFree(a) \/ \E n \in Counts : PageVirtualFreeMultiple(a, n)

Next == Allocate(Addrs) \/ Free

Spec == Init /\ [][Next]_vars

\* The allocation functions that look before they place: with a gap of at
\* least one page, or at the end of the first entry.
AllocateChecked(addrs) ==
    \/ \E b \in addrs, j \in Jumps \ {0} : PageVirtualAllocBeyond(b, j)
    \/ \E b \in addrs, j \in Jumps \ {0} : PageVirtualAllocBeyondEx(b, j)
    \/ \E n \in Counts : PageVirtualAllocMultiple(n)
    \/ \E b \in addrs, n \in Counts, j \in Jumps \ {0} : PageVirtualAllocMultipleBeyondEx(b, n, j)

-----------------------------------------------------------------------------
TypeOK ==
    /\ vmap.slot \in [Slots -> [base : Address, len : Address, next : Slots \cup {Null}]]
    /\ vmap.first \in Slots \cup {Null}
    /\ vmap.bm \in [0 .. NumWords - 1 -> SUBSET Bits]
    /\ own \in [Address -> Nat]
    /\ status \in {"ok", "fault", "panic"}

Entries == {vmap.slot[e] : e \in Listed(vmap)}
InEntry(a) == \E e \in Entries : e.base =< a /\ a < e.base + e.len

\* The pages of n and of k pages at a and at b have a byte in common.
Meet(a, n, b, k) == a < b + k * Page /\ b < a + n * Page

(* No order of calls makes the list circular: every lookup ends ("Loop     *)
(* through the linked list until we find the correct entry",               *)
(* memory.c:336-338), although joins and frees clear the wrong bits of the *)
(* free bitmap.                                                            *)
ListTerminates == Terminates(vmap)

(* A word of the free bitmap whose upper bits agree, as in a page that was *)
(* cleared, is good for one entry, its last slot.  Any other word lends    *)
(* only the slots of its lower bits, IntBits - 1 of W; so a map of 128     *)
(* slots holds at most 3 entries, or 63 if its bitmap begins as garbage.   *)
FewSlotsUsed ==
    \A e \in Listed(vmap) \ {0} :
        IF UpperAgree(vmap.bm[e \div W]) THEN e % W = W - 1 ELSE e % W \in IntBits .. W - 2

(* Entries stay in order and apart, so a lookup that stops at the first    *)
(* entry above an address has seen all that could hold it.                 *)
Sorted ==
    \A e \in Listed(vmap) : HasNext(vmap, e) =>
        vmap.slot[e].base + vmap.slot[e].len =< NextBase(vmap, e)

(* No two callers hold pages with a common byte.                           *)
NoSharedPage ==
    \A a \in Address : own[a] > 0 =>
        /\ own[a] = 1
        /\ \A b \in Address : (own[b] > 0 /\ b # a) => ~Meet(a, 1, b, 1)

(* Every byte of a page that a caller holds belongs to an entry: nothing   *)
(* that was handed out is taken for free later.                            *)
OwnedCovered ==
    \A a \in Address : own[a] > 0 => \A i \in 0 .. Page - 1 : InEntry(a + i)
=============================================================================
