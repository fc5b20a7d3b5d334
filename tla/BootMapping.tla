----------------------------- MODULE BootMapping -----------------------------
(***************************************************************************)
(* The boot loader from ExitBootServices to the call of the kernel:        *)
(* bootloader/arch/x86_64/uefi_mem.c, which copies the firmware's page     *)
(* tables, relocates them, mirrors the identity map and adds the pages of  *)
(* the kernel, and the last part of efi_main in uefi_boot.c.               *)
(*                                                                         *)
(* Frames and virtual pages are page numbers; memory holds the entries of  *)
(* every frame.  Addresses of the kernel's segments are in units of which  *)
(* a page has PageUnits.  The loader works on physical addresses, which    *)
(* the identity map makes virtual ones.                                    *)
(***************************************************************************)
EXTENDS Integers, Sequences, FiniteSets, FiniteSetsExt

CONSTANTS
    N,             \* entries of a table: 512
    LastFrame,     \* bound: the highest frame whose contents are modelled
    PageUnits,     \* units of an address in a page: 4096
    Firmwares,     \* the machine when boot services end
    Kernels        \* the kernel files

Frames == 0 .. LastFrame
Idx    == 0 .. N - 1

Entry   == [p : BOOLEAN, w : BOOLEAN, big : BOOLEAN, addr : Nat]
Absent  == [p |-> FALSE, w |-> FALSE, big |-> FALSE, addr |-> 0]
To(f)   == [p |-> TRUE, w |-> TRUE, big |-> FALSE, addr |-> f]
Empty   == [i \in Idx |-> Absent]

Present(t) == {i \in Idx : t[i].p}

\* The indices of a virtual page in the four levels.
IndexOf(n) == <<(n \div (N * N * N)) % N, (n \div (N * N)) % N, (n \div N) % N, n % N>>

\* The tables that table t leads to, and those of the lower levels.
Below(m, t) == {m[t][i].addr : i \in {j \in Present(m[t]) : ~m[t][j].big}}
Pdps(m, r)  == {m[r][i].addr : i \in Present(m[r])}
Pds(m, r)   == UNION {Below(m, t) : t \in Pdps(m, r)}
Pts(m, r)   == UNION {Below(m, t) : t \in Pds(m, r)}

Unmapped == -1

\* The processor's walk, with pages of 1 GiB and 2 MiB.
Translate(m, r, n) ==
    LET v  == IndexOf(n)
        e4 == m[r][v[1]]
        e3 == m[e4.addr][v[2]]
        e2 == m[e3.addr][v[3]]
        e1 == m[e2.addr][v[4]]
    IN  IF ~(e4.p /\ e3.p) THEN Unmapped
        ELSE IF e3.big THEN e3.addr + v[3] * N + v[4]
        ELSE IF ~e2.p THEN Unmapped
        ELSE IF e2.big THEN e2.addr + v[4]
        ELSE IF e1.p THEN e1.addr ELSE Unmapped

Region(d) == d.start .. d.start + d.pages - 1

Descriptors == [start : Frames, pages : Nat, type : {"free", "boot", "loader"}]

EntryAt(m, l) == m[l[1]][l[2]]

\* The places of the entries that lead to a table of the upper three levels.
Links(m, r) ==
    {<<r, i>> : i \in Present(m[r])}
        \cup {l \in Pdps(m, r) \X Idx : EntryAt(m, l).p /\ ~EntryAt(m, l).big}

\* The memory map is sorted.  The upper three levels of the firmware's tables
\* are a tree in one descriptor, none of them is empty (highest_addr would not
\* be beyond it), and tables of the last level are not in free memory.  The
\* identity map begins at the first top-level entry, leaves room for the
\* mirror, and covers the tables, with no page of 1 GiB over them.
FirmwareOK(fw) ==
    LET m      == fw.mem
        upper  == {fw.cr3} \cup Pdps(m, fw.cr3) \cup Pds(m, fw.cr3)
        links  == Links(m, fw.cr3)
        count  == Cardinality(Present(m[fw.cr3]))
        v      == IndexOf(fw.cr3)
    IN  /\ m \in [Frames -> [Idx -> Entry]]
        /\ fw.image \in Nat
        /\ fw.mmap \in Seq(Descriptors)
        /\ \A i, j \in 1 .. Len(fw.mmap) :
              i < j => fw.mmap[i].start + fw.mmap[i].pages =< fw.mmap[j].start
        /\ \A i \in 1 .. Len(fw.mmap) : Region(fw.mmap[i]) \subseteq Frames
        /\ \E i \in 1 .. Len(fw.mmap) : upper \subseteq Region(fw.mmap[i]) /\ fw.mmap[i].type = "boot"
        /\ \A l \in links : EntryAt(m, l).addr # fw.cr3
        /\ \A k, l \in links : EntryAt(m, k).addr = EntryAt(m, l).addr => k = l
        /\ \A t \in upper : Present(m[t]) # {}
        /\ \A t \in Pts(m, fw.cr3) : /\ t \in Frames
                                    /\ \A i \in 1 .. Len(fw.mmap) :
                                          fw.mmap[i].type = "free" => t \notin Region(fw.mmap[i])
        /\ Present(m[fw.cr3]) = 0 .. count - 1
        /\ count > 0 /\ 2 * count < N
        /\ Translate(m, fw.cr3, fw.cr3) = fw.cr3
        /\ ~m[m[fw.cr3][v[1]].addr][v[2]].big

Segments == [vaddr : Nat, offset : Nat, filesize : Nat]

\* Segments are in the order of their offsets, do not overlap in the file,
\* have congruent offsets and addresses, leave at least as much room between
\* their addresses as between their offsets, and are, to the end of the file,
\* in the part of the address space that the last top-level entry maps.
KernelOK(k) ==
    LET s == k.segments
    IN  /\ s \in Seq(Segments) /\ s # <<>>
        /\ k.size \in Nat
        /\ \A i \in 1 .. Len(s) :
              /\ s[i].vaddr % PageUnits = s[i].offset % PageUnits
              /\ s[i].vaddr \div PageUnits >= (N - 1) * (N * N * N)
              /\ (s[i].vaddr + (k.size - s[i].offset)) \div PageUnits < N * (N * N * N)
              /\ s[i].offset + s[i].filesize =< k.size
        /\ \A i, j \in 1 .. Len(s) :
              i < j => /\ s[i].offset + s[i].filesize =< s[j].offset
                       /\ s[j].vaddr - s[i].vaddr >= s[j].offset - s[i].offset

ASSUME BootAssumption ==
    /\ {N, PageUnits} \subseteq Nat \ {0}
    /\ LastFrame \in Nat
    /\ \A fw \in Firmwares : FirmwareOK(fw)
    /\ \A k \in Kernels : KernelOK(k)

VARIABLES
    phase,         \* where efi_main is
    firmware,      \* the machine it was given
    kernel,        \* the file it read
    mem,           \* the entries of every frame
    mmap,          \* the memory map; one descriptor is retyped
    cr3,           \* frame of the top-level table, pml4_pointer
    base,          \* mapping_base_address
    next,          \* next_available_mapping_page
    available,     \* available_mapping_page_count, negative where it wraps
    table,         \* the boot table the kernel is given
    seg            \* the segment to be mapped

vars == <<phase, firmware, kernel, mem, mmap, cr3, base, next, available, table, seg>>

-----------------------------------------------------------------------------
(* ExitBootServices refuses a map key that is stale; there is no retry *)
ExitBootServices ==
    /\ phase = "services"
    /\ phase' \in {"exited", "aborted"}
    /\ UNCHANGED <<firmware, kernel, mem, mmap, cr3, base, next, available, table, seg>>

-----------------------------------------------------------------------------
(* init_virtual_mapping *)

\* The descriptors that begin above the tables; the tables are taken to be
\* in the one before the first of them.
Above(map, root) == {i \in 1 .. Len(map) : map[i].start > root}
Source(map, root) == map[Min(Above(map, root)) - 1]

\* The free descriptors with room for n pages.
Places(map, n) == {i \in 1 .. Len(map) : map[i].pages >= n /\ map[i].type = "free"}

\* The copy of the pages of src to dst.
Copied(m, src, dst) ==
    [f \in Frames |-> IF f \in dst .. dst + src.pages - 1
                      THEN m[f - dst + src.start] ELSE m[f]]

\* Mutant: entries of the second level keep the addresses of the old tables.
RelocatedTop(m, root, delta) ==
    [f \in Frames |-> [i \in Idx |->
        IF m[f][i].p /\ f = root THEN [m[f][i] EXCEPT !.addr = @ + delta] ELSE m[f][i]]]

\* Present entries of the top level, and those of the second that point to a
\* table, are moved by delta.  Entries of the third level are left alone:
\* tables of the last level stay where the firmware has them.
Relocated(m, root, delta) ==
    LET pdps == {f + delta : f \in Pdps(m, root)}
    IN  [f \in Frames |-> [i \in Idx |->
            IF m[f][i].p /\ (f = root \/ (f \in pdps /\ ~m[f][i].big))
            THEN [m[f][i] EXCEPT !.addr = @ + delta] ELSE m[f][i]]]

\* Mutant: the entries of the third level are not looked at.
HighestOfTwo(m, root) == Max({f \in {root} \cup Pdps(m, root) : Present(m[f]) # {}})

\* highest_addr: the last page of the three levels with a present entry.
Highest(m, root) ==
    Max({f \in {root} \cup Pdps(m, root) \cup Pds(m, root) : Present(m[f]) # {}})

\* The third-level entry for the old tables is made writable.  Neither the
\* present nor the size bits are looked at on the way.
MadeWritable(m, root, old) ==
    LET v == IndexOf(old)
    IN  [m EXCEPT ![m[m[root][v[1]].addr][v[2]].addr][v[3]].w = TRUE]

\* Mutant: the last entry is taken for the mirror too.
MirrorStartLate(m, root) == N - Cardinality(Present(m[root]))

\* 511 - count
MirrorStart(m, root) == N - 1 - Cardinality(Present(m[root]))

\* MAPPING_TYPE_MAP_ALL, the one efi_main asks for.
Mirrored(m, root) ==
    LET start == MirrorStart(m, root)
    IN  [m EXCEPT ![root] = [i \in Idx |->
            IF i \in start .. start + Cardinality(Present(m[root])) - 1
            THEN To(m[root][i - start].addr) ELSE m[root][i]]]

\* Mutant: one page too many is counted.
AvailableOneMore(dst, pages, nxt) == dst + pages - nxt + 1

\* The pages from the next one to the end of the copy.
AvailableCount(dst, pages, nxt) == dst + pages - nxt

InitVirtualMapping ==
    /\ phase = "exited"
    /\ Above(mmap, cr3) # {}
    /\ LET src    == Source(mmap, cr3)
           places == Places(mmap, src.pages)
           to     == Min(places)
           dst    == mmap[to].start
           root   == cr3 + dst - src.start
           moved  == Relocated(Copied(mem, src, dst), root, dst - src.start)
       IN  /\ places # {}
           /\ mem' = Mirrored(MadeWritable(moved, root, cr3), root)
           /\ mmap' = [mmap EXCEPT ![to].type = "mapping"]
           /\ cr3' = root
           /\ base' = dst
           /\ next' = Highest(moved, root) + 1
           /\ available' = AvailableCount(dst, src.pages, next')
           /\ table' = [table EXCEPT !.mirror = MirrorStart(moved, root)]
    /\ phase' = "mapping"
    /\ UNCHANGED <<firmware, kernel, seg>>

\* EFI_NOT_FOUND, and EFI_BUFFER_TOO_SMALL: nothing was changed.
InitVirtualMappingFails ==
    /\ phase = "exited"
    /\ Above(mmap, cr3) # {} => Places(mmap, Source(mmap, cr3).pages) = {}
    /\ phase' = "aborted"
    /\ UNCHANGED <<firmware, kernel, mem, mmap, cr3, base, next, available, table, seg>>

-----------------------------------------------------------------------------
(* get_mapping_pointers_and_count *)

\* Mutant: the subtraction is the other way round.
UsedCountNegated == base - next

UsedCount == next - base

GetMappingPointersAndCount ==
    /\ phase = "mapping"
    /\ table' = [table EXCEPT !.pml4 = cr3, !.used = UsedCount]
    /\ phase' = "loading"
    /\ UNCHANGED <<firmware, kernel, mem, mmap, cr3, base, next, available, seg>>

-----------------------------------------------------------------------------
(* map_page, map_pages *)

\* One level: follow entry i of table st.at, or take the next page, clear it
\* and install it.  The count of available pages is not looked at.
Descend(st, i) ==
    IF st.m[st.at][i].p THEN [st EXCEPT !.at = st.m[st.at][i].addr]
    ELSE [m    |-> [[st.m EXCEPT ![st.next] = Empty] EXCEPT ![st.at][i] = To(st.next)],
          next |-> st.next + 1, available |-> st.available - 1, at |-> st.next]

\* map_page of virtual page n to frame f: a page that is mapped stays as it is.
MapPage(st, n, f) ==
    LET v == IndexOf(n)
        s == Descend(Descend(Descend([st EXCEPT !.at = cr3], v[1]), v[2]), v[3])
    IN  IF s.m[s.at][v[4]].p THEN s ELSE [s EXCEPT !.m[s.at][v[4]] = To(f)]

\* map_pages of count pages, results ignored; addresses in units.
MapPages(phys, va, count) ==
    LET s[k \in 0 .. count] ==
          IF k = 0 THEN [m |-> mem, next |-> next, available |-> available, at |-> cr3]
          ELSE MapPage(s[k - 1], va \div PageUnits + k - 1, phys \div PageUnits + k - 1)
    IN  s[count]

-----------------------------------------------------------------------------
(* The loop over the program headers *)

\* Up to the next segment's offset, or to the end of the file.
SegmentSize(i) ==
    (IF i = Len(kernel.segments) THEN kernel.size ELSE kernel.segments[i + 1].offset)
        - kernel.segments[i].offset

\* Mutant: the page that holds the end of the segment is not counted.
SegmentPagesShort(i) ==
    LET va == kernel.segments[i].vaddr
    IN  (va + SegmentSize(i)) \div PageUnits - va \div PageUnits

\* From the page of the first address to that of the address after the last.
SegmentPages(i) ==
    LET va == kernel.segments[i].vaddr
    IN  1 + (va + SegmentSize(i)) \div PageUnits - va \div PageUnits

\* One round.  map_pages returns no value, so that the test of its status may
\* end the loader after any segment.
MapSegment ==
    /\ phase = "loading"
    /\ seg =< Len(kernel.segments)
    /\ LET s == kernel.segments[seg]
           r == MapPages(firmware.image * PageUnits + s.offset, s.vaddr, SegmentPages(seg))
       IN  /\ mem' = r.m
           /\ next' = r.next
           /\ available' = r.available
           /\ table' = [table EXCEPT !.start = IF @ = 0 THEN s.vaddr ELSE @,
                                     !.pages = IF @ = 0 THEN SegmentPages(seg) ELSE @]
    /\ seg' = seg + 1
    /\ phase' \in {"loading", "aborted"}
    /\ UNCHANGED <<firmware, kernel, mmap, cr3, base>>

CallKernel ==
    /\ phase = "loading"
    /\ seg > Len(kernel.segments)
    /\ phase' = "kernel"
    /\ UNCHANGED <<firmware, kernel, mem, mmap, cr3, base, next, available, table, seg>>

Init ==
    /\ phase = "services"
    /\ firmware \in Firmwares
    /\ kernel \in Kernels
    /\ mem = firmware.mem
    /\ mmap = firmware.mmap
    /\ cr3 = firmware.cr3
    /\ base = 0 /\ next = 0 /\ available = 0
    /\ table = [mirror |-> 0, pml4 |-> 0, used |-> 0, start |-> 0, pages |-> 0]
    /\ seg = 1

Next ==
    \/ ExitBootServices
    \/ InitVirtualMapping
    \/ InitVirtualMappingFails
    \/ GetMappingPointersAndCount
    \/ MapSegment
    \/ CallKernel

Spec == Init /\ [][Next]_vars

-----------------------------------------------------------------------------
(* The loader's state has its types. *)
TypeOK ==
    /\ phase \in {"services", "exited", "mapping", "loading", "kernel", "aborted"}
    /\ mem \in [Frames -> [Idx -> Entry]]
    /\ mmap \in Seq([start : Frames, pages : Nat, type : {"free", "boot", "loader", "mapping"}])
    /\ cr3 \in Frames
    /\ base \in Frames /\ next \in Nat /\ available \in Int
    /\ table \in [mirror : Idx, pml4 : Frames, used : Nat, start : Nat, pages : Nat]
    /\ seg \in 1 .. Len(kernel.segments) + 1

\* The tables were copied and no page beyond the copy has been taken.
Within == phase \in {"mapping", "loading", "kernel"} /\ available >= 0

Copy == base .. base + Source(firmware.mmap, firmware.cr3).pages - 1

\* The tables but those of the last level that the firmware made.
TablesInUse ==
    {cr3} \cup Pdps(mem, cr3) \cup Pds(mem, cr3)
          \cup (Pts(mem, cr3) \ Pts(firmware.mem, firmware.cr3))

\* The virtual pages of the firmware's part of the address space.
LowPages == 0 .. Cardinality(Present(firmware.mem[firmware.cr3])) * N * N * N - 1

(* Everything the firmware mapped is still mapped to the same frame after  *)
(* its tables were moved and the kernel's pages were added: the pages that *)
(* map_page clears (uefi_mem.c:110, from highest_addr on) hold no table.   *)
IdentityKept ==
    Within => \A n \in LowPages :
        Translate(mem, cr3, n) = Translate(firmware.mem, firmware.cr3, n)

(* mapping_base plus a physical address reaches that address: what the     *)
(* kernel's page mapper relies on for every access to a table.             *)
MirrorMatches ==
    Within => \A n \in LowPages :
        Translate(mem, cr3, n + table.mirror * N * N * N) = Translate(firmware.mem, firmware.cr3, n)

(* The tables of the upper three levels, and all those that map_page adds, *)
(* are in the part of the copy that was given out: nothing but the tables  *)
(* of 4 KiB pages that the firmware made is still used of the old ones.    *)
TablesInCopy ==
    Within => TablesInUse \subseteq Copy \cap (0 .. next - 1)

(* As long as available_mapping_page_count has not passed zero, the loader *)
(* has changed no frame outside the copy; it is never tested               *)
(* (uefi_mem.c:13), and would be enough.                                   *)
OnlyCopyWritten ==
    Within => \A f \in Frames \ Copy : mem[f] = firmware.mem[f]

(* When the kernel is called, every byte of every segment in the file is   *)
(* at its address, also where segments share a page or the page counted    *)
(* for the end of one is the first of the next (uefi_boot.c:320).          *)
KernelInPlace ==
    (Within /\ phase = "kernel") =>
        \A i \in 1 .. Len(kernel.segments) :
            LET s == kernel.segments[i]
            IN  \A x \in 0 .. s.filesize - 1 :
                    Translate(mem, cr3, (s.vaddr + x) \div PageUnits)
                        = firmware.image + (s.offset + x) \div PageUnits

(* The tables in the descriptor of the page maps are among the             *)
(* used_mapping_page_count pages that page_allocator_init keeps.           *)
TablesAreCounted ==
    (Within /\ phase = "kernel") =>
        \A f \in TablesInUse : f < base + table.used
=============================================================================
