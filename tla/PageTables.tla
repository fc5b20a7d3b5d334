------------------------------ MODULE PageTables ------------------------------
(***************************************************************************)
(* The page mapper of kernel/arch/x86_64/paging.c on the four levels of    *)
(* x86_64 page tables, with the kernel code that reads and writes through  *)
(* the mappings it makes.                                                  *)
(*                                                                         *)
(* Physical memory is a function from frames to the entries they hold:     *)
(* page_map and page_unmap read any frame an entry points to as a table.   *)
(* A virtual page is the tuple of its four indices.  Tables come from      *)
(* page_physical_alloc, which hands out the frames of pool in order and    *)
(* none of them twice (PhysicalFrames, AtMostOneGrant).                    *)
(***************************************************************************)
EXTENDS Integers, Sequences, FiniteSets

CONSTANTS
    N,             \* entries of a table: 512
    Frames,        \* physical frames
    Zero,          \* the frame at physical address 0
    Roots,         \* top-level tables that callers name
    BootPdp, BootPd, BootBig,   \* the firmware's identity map and a 2 MiB page
    IdentityIndex, \* its top-level index
    MirrorIndex,   \* top-level index of the mapping at "offset"
    Pool0,         \* the frames page_physical_alloc will hand out
    MapPages,      \* virtual pages that callers map and access
    UnmapPages,    \* virtual pages that callers unmap
    MultiplePages, \* virtual pages that page_map_multiple is called for
    WriteIdx,      \* bound: the words of a mapped page that callers write
    MaxData        \* bound: the frames callers obtain to map

ASSUME TablesAssumption ==
    /\ N \in Nat \ {0}
    /\ {Zero, BootPdp, BootPd, BootBig} \cup Roots \subseteq Frames
    /\ {IdentityIndex, MirrorIndex} \subseteq 0 .. N - 1
    /\ Pool0 \in Seq(Frames)
    /\ WriteIdx \subseteq 0 .. N - 1
    /\ MaxData \in Nat
    /\ MapPages \cup UnmapPages \cup MultiplePages \subseteq
           (0 .. N - 1) \X (0 .. N - 1) \X (0 .. N - 1) \X (0 .. N - 1)

Idx == 0 .. N - 1

NoFrame == "none"

\* The firmware's tables are not handed out, no frame is twice in the pool,
\* and callers map no page of the firmware's part of the address space.
ASSUME FramesAssumption ==
    /\ NoFrame \notin Frames
    /\ BootPdp # BootPd /\ BootPdp # BootBig /\ BootPd # BootBig
    /\ {BootPdp, BootPd, BootBig} \cap Roots = {}
    /\ \A j, k \in 1 .. Len(Pool0) : Pool0[j] = Pool0[k] => j = k
    /\ \A k \in 1 .. Len(Pool0) : Pool0[k] \notin {BootPdp, BootPd, BootBig} \cup Roots
    /\ \A v \in MapPages : v[1] \notin {IdentityIndex, MirrorIndex}

VARIABLES
    mem,           \* the entries of every frame
    current,       \* current_pml4
    pool,          \* frames page_physical_alloc has left
    data,          \* frames that callers obtained to map
    tlb            \* translations the processor has cached

vars == <<mem, current, pool, data, tlb>>

-----------------------------------------------------------------------------
Entry  == [p : BOOLEAN, big : BOOLEAN, addr : Frames]
Absent == [p |-> FALSE, big |-> FALSE, addr |-> Zero]
To(f)  == [p |-> TRUE, big |-> FALSE, addr |-> f]

EmptyTable == [i \in Idx |-> Absent]

\* The processor's walk from root r, which honours the flags.
Translate(m, r, v) ==
    LET e4 == m[r][v[1]]
        e3 == m[e4.addr][v[2]]
        e2 == m[e3.addr][v[3]]
        e1 == m[e2.addr][v[4]]
    IN  IF ~(e4.p /\ e3.p /\ e2.p) THEN NoFrame
        ELSE IF e2.big THEN e2.addr
        ELSE IF e1.p THEN e1.addr ELSE NoFrame

\* The table that the walk of page v reaches below root r at depth 1, 2, 3.
TableAt(m, r, v, k) ==
    LET e4 == m[r][v[1]]
        e3 == m[e4.addr][v[2]]
        e2 == m[e3.addr][v[3]]
    IN  CASE k = 1 -> IF e4.p THEN e4.addr ELSE NoFrame
          [] k = 2 -> IF e4.p /\ e3.p THEN e3.addr ELSE NoFrame
          [] k = 3 -> IF e4.p /\ e3.p /\ e2.p /\ ~e2.big THEN e2.addr ELSE NoFrame

TableFrames ==
    Roots \cup ({TableAt(mem, r, v, k) : r \in Roots, v \in MapPages, k \in 1 .. 3} \ {NoFrame})

-----------------------------------------------------------------------------
(* page_map *)

\* Mutant: the allocator does not mark the frame it hands out.
DescendUnmarked(st, i) ==
    IF ~st.ok THEN st
    ELSE IF st.m[st.at][i].p THEN [st EXCEPT !.at = st.m[st.at][i].addr]
    ELSE IF st.pool = <<>> THEN [st EXCEPT !.ok = FALSE]
    ELSE LET f == Head(st.pool)
         IN  [m    |-> [[st.m EXCEPT ![f] = EmptyTable] EXCEPT ![st.at][i] = To(f)],
              pool |-> st.pool, at |-> f, ok |-> TRUE]

\* One level: follow entry i of table st.at, or clear a new frame and
\* install it there.  The installed table stays if a later level fails.
Descend(st, i) ==
    IF ~st.ok THEN st
    ELSE IF st.m[st.at][i].p THEN [st EXCEPT !.at = st.m[st.at][i].addr]
    ELSE IF st.pool = <<>> THEN [st EXCEPT !.ok = FALSE]
    ELSE LET f == Head(st.pool)
         IN  [m    |-> [[st.m EXCEPT ![f] = EmptyTable] EXCEPT ![st.at][i] = To(f)],
              pool |-> Tail(st.pool), at |-> f, ok |-> TRUE]

\* Mutant: a present leaf entry is overwritten.
MapInOverwriting(m, pl, r, v, f) ==
    LET st == Descend(Descend(Descend([m |-> m, pool |-> pl, at |-> r, ok |-> TRUE],
                                      v[1]), v[2]), v[3])
    IN  IF ~st.ok THEN [m |-> st.m, pool |-> st.pool, ret |-> -1]
        ELSE [m |-> [st.m EXCEPT ![st.at][v[4]] = To(f)], pool |-> st.pool, ret |-> 0]

\* Mutant: running out of frames is reported as "already mapped".
MapInMisreporting(m, pl, r, v, f) ==
    LET st == Descend(Descend(Descend([m |-> m, pool |-> pl, at |-> r, ok |-> TRUE],
                                      v[1]), v[2]), v[3])
    IN  IF ~st.ok \/ st.m[st.at][v[4]].p THEN [m |-> st.m, pool |-> st.pool, ret |-> 1]
        ELSE [m |-> [st.m EXCEPT ![st.at][v[4]] = To(f)], pool |-> st.pool, ret |-> 0]

\* page_map of page v to frame f in the tables at r: the memory it leaves
\* and its result.
MapIn(m, pl, r, v, f) ==
    LET st == Descend(Descend(Descend([m |-> m, pool |-> pl, at |-> r, ok |-> TRUE],
                                      v[1]), v[2]), v[3])
    IN  IF ~st.ok THEN [m |-> st.m, pool |-> st.pool, ret |-> -1]
        ELSE IF st.m[st.at][v[4]].p THEN [m |-> st.m, pool |-> st.pool, ret |-> 1]
        ELSE [m |-> [st.m EXCEPT ![st.at][v[4]] = To(f)], pool |-> st.pool, ret |-> 0]

(* page_map *)
PageMap(v, f) ==
    LET r == MapIn(mem, pool, current, v, f)
    IN  /\ mem' = r.m
        /\ pool' = r.pool
        /\ UNCHANGED <<current, data, tlb>>

(* page_map_in_table: current_pml4 is replaced during the call *)
PageMapInTable(root, v, f) ==
    LET r == MapIn(mem, pool, root, v, f)
    IN  /\ mem' = r.m
        /\ pool' = r.pool
        /\ UNCHANGED <<current, data, tlb>>

\* page_map_multiple parses va_addr + index << 12 as (va_addr + index) << 12.
\* A page offset has as many bits here as an index.
PageNumber(v) == ((v[1] * N + v[2]) * N + v[3]) * N + v[4]
PageOf(n) == <<(n \div (N * N * N)) % N, (n \div (N * N)) % N, (n \div N) % N, n % N>>
MultiplePage(v, k) == PageOf(PageNumber(v) * N + k)

\* page_map_multiple of the frames fs stops at the first result that is not
\* 0, and returns the index after it whether the page was mapped or the
\* frames ran out.
MapMultiple(v, fs) ==
    LET s[k \in 0 .. Len(fs)] ==
          IF k = 0 THEN [m |-> mem, pool |-> pool, ret |-> 0]
          ELSE IF s[k - 1].ret # 0 THEN s[k - 1]
          ELSE LET r == MapIn(s[k - 1].m, s[k - 1].pool, current, MultiplePage(v, k - 1), fs[k])
               IN  [r EXCEPT !.ret = IF @ = 0 THEN 0 ELSE k]
    IN  s[Len(fs)]

(* page_map_multiple *)
PageMapMultiple(v, fs) ==
    /\ mem' = MapMultiple(v, fs).m
    /\ pool' = MapMultiple(v, fs).pool
    /\ UNCHANGED <<current, data, tlb>>

-----------------------------------------------------------------------------
(* page_unmap *)

\* Addresses of pages, sign-extended above the middle of the range.
Address(v) == PageNumber(v) + (IF v[1] >= N \div 2 THEN N * N * N * N * N ELSE 0)
Offset == Address(<<MirrorIndex, 0, 0, 0>>)

\* virtual_address <= 0x0000FF8000000000, the last top-level index without
\* its sign extension
InMirrorGuard(v) == Offset =< Address(v) /\ Address(v) =< (N - 1) * N * N * N

\* The walk looks at no present bit: an absent entry leads to frame Zero.
UnmapWalk(v) ==
    LET l3 == mem[current][v[1]].addr
        l2 == mem[l3][v[2]].addr
        l1 == mem[l2][v[3]].addr
    IN  mem' = [mem EXCEPT ![l1][v[4]].p = FALSE]

(* page_unmap; no cached translation is invalidated *)
PageUnmap(v) ==
    /\ IF InMirrorGuard(v) THEN UNCHANGED mem ELSE UnmapWalk(v)
    /\ UNCHANGED <<current, pool, data, tlb>>

(* page_map_set: loading cr3 drops the cached translations *)
PageMapSet(root) ==
    /\ current' = root
    /\ tlb' = {}
    /\ UNCHANGED <<mem, pool, data>>

-----------------------------------------------------------------------------
\* Mutant: the allocator does not mark the caller's frame.
PhysicalAllocDataUnmarked ==
    /\ pool # <<>>
    /\ Cardinality(data) < MaxData
    /\ data' = data \cup {Head(pool)}
    /\ UNCHANGED <<mem, current, pool, tlb>>

(* The callers: memory.c obtains a frame for a page it is going to map *)
PhysicalAllocData ==
    /\ pool # <<>>
    /\ Cardinality(data) < MaxData
    /\ data' = data \cup {Head(pool)}
    /\ pool' = Tail(pool)
    /\ UNCHANGED <<mem, current, tlb>>

\* The processor translates an access to v; a cached translation may be used.
Touch(v) ==
    /\ Translate(mem, current, v) # NoFrame
    /\ tlb' = tlb \cup {<<v, Translate(mem, current, v)>>}
    /\ UNCHANGED <<mem, current, pool, data>>

\* A write through a cached translation: any bits, here an entry.
Write(t, i) ==
    /\ mem' = [mem EXCEPT ![t[2]][i] = To(BootBig)]
    /\ UNCHANGED <<current, pool, data, tlb>>

Init ==
    /\ \E z \in {Absent, To(BootBig)} :
          mem = [f \in Frames |->
                   CASE f \in Roots -> [i \in Idx |-> IF i \in {IdentityIndex, MirrorIndex}
                                                      THEN To(BootPdp) ELSE Absent]
                     [] f = BootPdp -> [EmptyTable EXCEPT ![0] = To(BootPd)]
                     [] f = BootPd  -> [EmptyTable EXCEPT
                                           ![0] = [p |-> TRUE, big |-> TRUE, addr |-> BootBig]]
                     [] OTHER       -> [i \in Idx |-> z]]
    /\ current \in Roots
    /\ pool = Pool0
    /\ data = {}
    /\ tlb = {}

\* page_free is given pages that were mapped.
UnmapMapped == \E v \in UnmapPages : Translate(mem, current, v) # NoFrame /\ PageUnmap(v)

Next ==
    \/ \E v \in MapPages, f \in data : PageMap(v, f)
    \/ \E root \in Roots, v \in MapPages, f \in data : PageMapInTable(root, v, f)
    \/ UnmapMapped
    \/ \E root \in Roots : PageMapSet(root)
    \/ PhysicalAllocData
    \/ \E v \in MapPages : Touch(v)
    \/ \E t \in tlb, i \in WriteIdx : Write(t, i)
    \/ \E v \in MultiplePages, fs \in [1 .. 2 -> data] : PageMapMultiple(v, fs)

Spec == Init /\ [][Next]_vars

-----------------------------------------------------------------------------
(* The tables implement AddressMap: page_map, page_map_in_table and        *)
(* page_unmap change the translation of the one page they are called for,  *)
(* whatever tables they share with other pages, run out of frames half-way *)
(* or find left behind, and writes to mapped pages change none.            *)
Abstract == INSTANCE AddressMap WITH
    Spaces <- Roots, Pages <- MapPages,
    space <- [r \in Roots |-> [v \in MapPages |-> Translate(mem, r, v)]]

ImplementsAddressMap == Abstract!MapSpec

(* Two walks meet in a table only if they share the path to it: no frame   *)
(* page_map installs serves two positions, in one address space or two.    *)
TablesAreATree ==
    \A r, s \in Roots, v, u \in MapPages, j, k \in 1 .. 3 :
        (TableAt(mem, r, v, j) = TableAt(mem, s, u, k) /\ TableAt(mem, r, v, j) # NoFrame)
            => /\ r = s /\ j = k
               /\ \A i \in 1 .. k : v[i] = u[i]

(* A cached translation never leads to a page table, also after page_unmap *)
(* left it stale (paging.c:103 invalidates nothing): no write through the  *)
(* TLB reaches a table.                                                    *)
TablesOutOfReach == \A t \in tlb : t[2] \notin TableFrames

(* The result of page_map tells the truth (memory.h:62-68, "-1 -> failed,  *)
(* 0 -> success, 1 -> already mapped") of any call that may be made now: 0 *)
(* if the page gets the caller's frame and had none, 1 if it has one, -1   *)
(* only when the frames ran out and the page has none.  A call that does   *)
(* not return 0 changes no translation of any address space, whichever     *)
(* tables it has cleared and installed (paging.c:21-77).                   *)
MapReports ==
    \A r \in Roots, v \in MapPages, f \in data :
        LET call   == MapIn(mem, pool, r, v, f)
            before == Translate(mem, r, v)
        IN  /\ call.ret = 0  => before = NoFrame /\ Translate(call.m, r, v) = f
            /\ call.ret = 1  => before # NoFrame
            /\ call.ret = -1 => before = NoFrame /\ call.pool = <<>>
            /\ call.ret # 0  => \A s \in Roots, u \in MapPages :
                                  Translate(call.m, s, u) = Translate(mem, s, u)
=============================================================================
