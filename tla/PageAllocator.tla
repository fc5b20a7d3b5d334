---------------------------- MODULE PageAllocator ----------------------------
(***************************************************************************)
(* The page_alloc and page_free functions of kernel/kernel/memory.c, which *)
(* compose the physical allocator, the map of virtual ranges (VirtualMap)  *)
(* and the page mapper.                                                    *)
(*                                                                         *)
(* From the physical allocator they see this (PhysicalFrames): no frame is *)
(* handed out twice, and a frame that is freed does not come back; frames  *)
(* are numbers, handed out downwards.  The three levels of tables that     *)
(* page_map may have to add are one level here, of TableSpan pages each.   *)
(* page_unmap ends without a return statement, so its result is any value. *)
(***************************************************************************)
EXTENDS VirtualMap

CONSTANTS
    NumFrames,     \* frames the physical allocator can hand out
    TableSpan,     \* pages under one table
    FrameVar       \* address of the caller's variable that "frame" points to

ASSUME PageAllocatorAssumption ==
    /\ NumFrames \in Nat
    /\ TableSpan \in Nat \ {0}
    /\ FrameVar \in 0 .. AddrMod - 1

PageOf(a) == a \div Page
Pages     == 0 .. PageOf(AddrMod - 1)

VARIABLES
    pt,            \* the frame each page is mapped to; 0 if none
    tables,        \* the tables that exist
    pool,          \* frames left
    retired        \* frames given to page_physical_free

sysVars == <<vmap, own, status, pt, tables, pool, retired>>

Sys == [m |-> vmap, pt |-> pt, tables |-> tables, pool |-> pool, retired |-> retired]

-----------------------------------------------------------------------------
(* The functions they call *)

Retire(s, f) == [s EXCEPT !.retired = @ \cup {f}]

\* Mutant: a page that is mapped gets the new frame.
PtMapOverwriting(s, a, f) ==
    LET t == PageOf(a) \div TableSpan
    IN  IF t \notin s.tables /\ s.pool = 0 THEN [sys |-> s, ret |-> -1]
        ELSE [sys |-> [s EXCEPT !.tables = @ \cup {t}, !.pt[PageOf(a)] = f,
                                !.pool = IF t \in s.tables THEN @ ELSE @ - 1],
              ret |-> 0]

\* Mutant: the result of page_physical_alloc is not looked at.
PtMapUnchecked(s, a, f) ==
    LET t  == PageOf(a) \div TableSpan
        s1 == IF t \in s.tables THEN s ELSE [s EXCEPT !.tables = @ \cup {t}, !.pool = @ - 1]
    IN  IF s1.pt[PageOf(a)] # 0 THEN [sys |-> s1, ret |-> 1]
        ELSE [sys |-> [s1 EXCEPT !.pt[PageOf(a)] = f], ret |-> 0]

\* page_map
PtMap(s, a, f) ==
    LET t  == PageOf(a) \div TableSpan
        s1 == IF t \in s.tables THEN s ELSE [s EXCEPT !.tables = @ \cup {t}, !.pool = @ - 1]
    IN  IF t \notin s.tables /\ s.pool = 0 THEN [sys |-> s, ret |-> -1]
        ELSE IF s1.pt[PageOf(a)] # 0 THEN [sys |-> s1, ret |-> 1]
        ELSE [sys |-> [s1 EXCEPT !.pt[PageOf(a)] = f], ret |-> 0]

Fails(s)     == [sys |-> s, got |-> {}, status |-> "ok"]
Panics(s)    == [sys |-> s, got |-> {}, status |-> "panic"]
Gets(s, got) == [sys |-> s, got |-> got, status |-> "ok"]

-----------------------------------------------------------------------------
(* page_free and page_free_multiple *)

\* page_unmap of a, then page_virtual_free unless the result happened to be -1.
Freed(s, a, refused) ==
    [s EXCEPT !.pt[PageOf(a)] = 0, !.m = IF refused THEN @ ELSE VirtualFree(@, a).m]

\* The loop unmaps one page after the other, but frees the first one each
\* time.  refused are the rounds in which page_unmap's result was -1.
FreeRound(s, a, i, refused) ==
    [s EXCEPT !.pt[PageOf(Add(a, i * Page))] = 0,
              !.m = IF i \in refused THEN @ ELSE VirtualFree(@, a).m]

FreedMultiple(s, a, n, refused) ==
    LET after[i \in 0 .. n] == IF i = 0 THEN s ELSE FreeRound(after[i - 1], a, i - 1, refused)
    IN  after[n]

-----------------------------------------------------------------------------
(* page_alloc and its variants *)

\* One page: a frame, then a virtual page (outcome o of the page_virtual
\* function), then the mapping of the address target.
AllocOne(o, target) ==
    LET f == pool
        s == [Sys EXCEPT !.pool = @ - 1, !.m = o.m]
        r == PtMap(s, target, f)
    IN  IF pool = 0 THEN Fails(Sys)
        ELSE IF o.ret # 0 THEN Fails(Retire(s, f))
        ELSE CASE r.ret = 0  -> Gets(r.sys, {o.frame})
               [] r.ret = 1  -> Panics(r.sys)
               [] r.ret = -1 -> Fails([Retire(r.sys, f) EXCEPT !.m = VirtualFree(@, target).m])

\* Mutant: the pages mapped so far stay.
UnwindKeeping(s, base, stride, i, n, refused) ==
    [s EXCEPT !.m = FreeMultiple(@, Add(base, i * stride), n - i).m]

\* What an alloc_multiple function undoes when page i fails.
Unwind(s, base, stride, i, n, refused) ==
    LET s1 == IF i > 0 THEN FreedMultiple(s, base, i, refused) ELSE s
    IN  [s1 EXCEPT !.m = FreeMultiple(@, Add(base, i * stride), n - i).m]

\* A frame for page i, and the mapping of base + i * stride.
AllocRound(s, base, stride, i, n, refused) ==
    LET f == s.pool
        r == PtMap([s EXCEPT !.pool = @ - 1], Add(base, i * stride), f)
    IN  IF s.pool = 0 THEN Fails(Unwind(s, base, stride, i, n, refused))
        ELSE CASE r.ret = 0  -> Gets(r.sys, {Add(base, k * Page) : k \in 0 .. i})
               [] r.ret = 1  -> Panics(r.sys)
               [] r.ret = -1 -> Fails(Unwind(Retire(r.sys, f), base, stride, i, n, refused))

\* Several pages: the virtual range (outcome o), then a round for each page
\* until one fails.
AllocMany(o, n, base, stride, refused) ==
    LET after[i \in 0 .. n] ==
          IF i = 0 THEN Gets([Sys EXCEPT !.m = o.m], {})
          ELSE IF i > 1 /\ after[i - 1].got = {} THEN after[i - 1]
          ELSE AllocRound(after[i - 1].sys, base, stride, i - 1, n, refused)
    IN  IF o.status = "fault" THEN [Fails(Sys) EXCEPT !.status = "fault"]
        ELSE IF o.ret # 0 THEN Fails([Sys EXCEPT !.m = o.m])
        ELSE after[n]

\* A call with outcome x, in which the page_virtual function had outcome o.
Ends(o, x) ==
    /\ status = "ok"
    /\ \A m \in {o.m, x.sys.m} : \A e \in Listed(m) : m.slot[e].base + m.slot[e].len =< Ceiling
    /\ vmap' = x.sys.m
    /\ pt' = x.sys.pt
    /\ tables' = x.sys.tables
    /\ pool' = x.sys.pool
    /\ retired' = x.sys.retired
    /\ status' = x.status
    /\ own' = [a \in Address |-> own[a] + (IF a \in x.got THEN 1 ELSE 0)]

One(o, target) == Ends(o, AllocOne(o, target))

PageAlloc            == LET o == VirtualAlloc(vmap) IN One(o, o.frame)
PageAllocAt(a)       == One(AllocAt(vmap, a), a)
PageAllocAfter(b)    == LET o == AllocAfter(vmap, b) IN One(o, o.frame)
PageAllocBeyondEx(b, j) == LET o == AllocBeyondEx(vmap, b, j) IN One(o, o.frame)

\* The address of the variable is mapped instead of its value.
PageAllocBeyond(b, j) == One(AllocBeyond(vmap, b, j), FrameVar)

Many(o, n, base, stride, refused) == Ends(o, AllocMany(o, n, base, stride, refused))

\* The variable is never set: a is what it happens to hold.
PageAllocMultiple(a, n, refused)   == Many(AllocMultiple(vmap, n), n, a, Page, refused)
PageAllocMultipleEx(a, n, refused) == Many(AllocMultipleEx(vmap, n), n, a, Page, refused)
PageAllocMultipleAt(a, n, refused) == Many(AllocMultipleAt(vmap, a, n), n, a, Page, refused)

\* The address of the variable again; "frame + (i << 12)" counts in words of
\* eight bytes.
ManyAtVar(o, n, refused) == Many(o, n, FrameVar, 8 * Page, refused)
PageAllocMultipleAfter(b, n, refused)   == ManyAtVar(AllocMultipleAfter(vmap, b, n), n, refused)
PageAllocMultipleAfterEx(b, n, refused) == ManyAtVar(AllocMultipleAfterEx(vmap, b, n), n, refused)
PageAllocMultipleBeyond(b, n, j, refused) ==
    ManyAtVar(AllocMultipleBeyond(vmap, b, n, j), n, refused)
PageAllocMultipleBeyondEx(b, n, j, refused) ==
    ManyAtVar(AllocMultipleBeyondEx(vmap, b, n, j), n, refused)

\* A holder of pages frees them.
Frees(pages, s) ==
    /\ status = "ok"
    /\ \A p \in pages : own[p] > 0
    /\ vmap' = s.m
    /\ pt' = s.pt
    /\ own' = [a \in Address |-> own[a] - (IF a \in pages THEN 1 ELSE 0)]
    /\ UNCHANGED <<status, tables, pool, retired>>

PageFree(a, refused) == Frees({a}, Freed(Sys, a, refused))
PageFreeMultiple(a, n, refused) ==
    Frees({Add(a, i * Page) : i \in 0 .. n - 1}, FreedMultiple(Sys, a, n, refused))

-----------------------------------------------------------------------------
\* At first the pages of the first entry are mapped, the one that follows them
\* (AllocatorInit, EndPageMapped) and that of the variable.
SysInit ==
    LET mapped == {PageOf(a) : a \in Base0 .. Base0 + Length0} \cup {PageOf(FrameVar)}
    IN  /\ Init
        /\ pt = [n \in Pages |-> IF n \in mapped THEN NumFrames + 1 + n ELSE 0]
        /\ tables = {n \div TableSpan : n \in mapped}
        /\ pool = NumFrames
        /\ retired = {}

Rounds(n) == SUBSET (0 .. n - 1)

SysNext ==
    \/ PageAlloc
    \/ \E a \in Addrs : PageAllocAt(a)
    \/ \E b \in Addrs : PageAllocAfter(b)
    \/ \E b \in Addrs, j \in Jumps : PageAllocBeyond(b, j)
    \/ \E b \in Addrs, j \in Jumps : PageAllocBeyondEx(b, j)
    \/ \E a \in Addrs, n \in Counts : \E r \in Rounds(n) : PageAllocMultiple(a, n, r)
    \/ \E a \in Addrs, n \in Counts : \E r \in Rounds(n) : PageAllocMultipleEx(a, n, r)
    \/ \E a \in Addrs, n \in Counts : \E r \in Rounds(n) : PageAllocMultipleAt(a, n, r)
    \/ \E b \in Addrs, n \in Counts : \E r \in Rounds(n) : PageAllocMultipleAfter(b, n, r)
    \/ \E b \in Addrs, n \in Counts : \E r \in Rounds(n) : PageAllocMultipleAfterEx(b, n, r)
    \/ \E b \in Addrs, n \in Counts, j \in Jumps : \E r \in Rounds(n) : PageAllocMultipleBeyond(b, n, j, r)
    \/ \E b \in Addrs, n \in Counts, j \in Jumps : \E r \in Rounds(n) : PageAllocMultipleBeyondEx(b, n, j, r)
    \/ \E a \in Address, refused \in BOOLEAN : PageFree(a, refused)
    \/ \E a \in Address, n \in Counts : \E r \in Rounds(n) : PageFreeMultiple(a, n, r)

SysSpec == SysInit /\ [][SysNext]_sysVars

-----------------------------------------------------------------------------
SysTypeOK ==
    /\ TypeOK
    /\ pt \in [Pages -> 0 .. NumFrames + 1 + PageOf(AddrMod - 1)]
    /\ tables \subseteq Pages
    /\ pool \in 0 .. NumFrames
    /\ retired \subseteq 1 .. NumFrames

\* Pages a caller holds; a page that page_virtual_alloc returns need not be
\* aligned.
Owned == {a \in Address : own[a] > 0}

(* Whatever order the functions are called in, and wherever the frames run *)
(* out, a page that a caller holds stays mapped, to a frame that no other  *)
(* page has, and no other caller holds a page with the same mapping.       *)
HeldPagesApart ==
    /\ \A a \in Owned : own[a] = 1 /\ pt[PageOf(a)] \in 1 .. NumFrames
    /\ \A a, b \in Owned : a # b => PageOf(a) # PageOf(b)
    /\ \A n, k \in Pages : (n # k /\ pt[n] # 0) => pt[n] # pt[k]

(* A call that gives its caller nothing and takes nothing back, because it *)
(* failed at some page, leaves every translation as it was: the pages that *)
(* an alloc_multiple function had mapped are unmapped again.               *)
FailureUnmapsAll == [][(own' = own /\ status' = "ok") => pt' = pt]_sysVars

-----------------------------------------------------------------------------
(* What the comments say *)

(* memory.h:512-515, "It will be unmapped and deallocated in the physical  *)
(* page map": page_free gives the frame of the page back.                  *)
FreeDeallocates ==
    [][\A a \in Address, refused \in BOOLEAN :
          PageFree(a, refused) => pt[PageOf(a)] \in retired']_sysVars
=============================================================================
