---------------------------- MODULE AllocatorInit ----------------------------
(***************************************************************************)
(* page_allocator_init of kernel/kernel/memory.c, on the bitmap and with   *)
(* the page_physical_alloc of PhysicalFrames: the choice of a place for    *)
(* the bitmap, the clearing of the bits of usable memory, and the pages    *)
(* for the map of virtual ranges and for its free bitmap.                  *)
(*                                                                         *)
(* Virtual pages are numbered from the end of the kernel: 0 is the page at *)
(* kernel_start_pointer + (kernel_page_count << 12), -1 the kernel's last. *)
(* Pages from Boundary on are under a table that does not exist at first.  *)
(***************************************************************************)
EXTENDS PhysicalFrames, Sequences

CONSTANTS
    MemoryMaps,    \* the firmware's memory maps: sequences of descriptors
    Required,      \* required_pages: 32
    UsedTables,    \* used_mapping_page_count
    PageShift,     \* 12
    ShiftMod,      \* the processor's shift count is taken modulo 64
    Occupied,      \* the sets of pages above the kernel that may be mapped
    LastPage,      \* bound: the highest virtual page; two are never mapped
    Boundary

ASSUME InitAssumption ==
    /\ {Required, UsedTables, PageShift, LastPage, Boundary} \subseteq Nat
    /\ ShiftMod \in Nat \ {0}
    /\ LastPage > 0 /\ Occupied \subseteq SUBSET (0 .. LastPage - 2)
    /\ \A m \in MemoryMaps :
          /\ m \in Seq([type : {"usable", "mapping", "other"}, pages : Nat, start : Nat])
          /\ Len(m) > 0

VARIABLES
    pc,
    mmap,          \* the memory map; entries are retyped
    index,         \* of the loop over the descriptors
    best,          \* reserved_index, 0 before a descriptor was found
    mapped,        \* the virtual pages that are mapped, with their frames
    mapAt,         \* the page virtual_address_map points to
    first,         \* frame of the map of virtual ranges
    second         \* frame of its free bitmap

bootVars == <<pc, mmap, index, best, mapped, mapAt, first, second>>
initVars == <<vars, bootVars>>

NoFrame == <<>>
Kernel  == <<NumWords, 0>>     \* a frame of the kernel image

VirtualPages == -1 .. LastPage

-----------------------------------------------------------------------------
(* The place of the bitmap *)

\* Mutant: a later descriptor is taken if it is as large as the best one.
SmallerOrEqual(d) == best = 0 \/ d.pages =< mmap[best].pages

\* d->number_of_pages < reserved_pages
Smaller(d) == best = 0 \/ d.pages < mmap[best].pages

\* One round of the first loop.  The retyping of the kernel's and the font's
\* descriptors never happens: its flags start at 0.
Select ==
    LET d == mmap[index]
    IN  /\ pc = "select"
        /\ best' = IF d.type = "usable" /\ d.pages >= Required /\ Smaller(d) THEN index ELSE best
        /\ IF index < Len(mmap)
           THEN index' = index + 1 /\ UNCHANGED <<pc, mmap>>
           ELSE /\ index' = 1
                /\ pc' = IF best' = 0 THEN "failed" ELSE "clear"
                /\ mmap' = IF best' = 0 THEN mmap ELSE [mmap EXCEPT ![best'].type = "bitmap"]
        /\ UNCHANGED <<vars, mapped, mapAt, first, second>>

-----------------------------------------------------------------------------
(* The bits of usable memory *)

\* physical_start >> 12 + i is physical_start >> (12 + i).
PageNumber(d, i) == (d.start * 2^PageShift) \div 2^((PageShift + i) % ShiftMod)

\* The rounds i of the loop for a descriptor.
ClearRounds(d) ==
    LET from == CASE d.type = "mapping" -> UsedTables
                  [] d.type = "bitmap"  -> Required
                  [] d.type = "usable"  -> 0
                  [] OTHER              -> d.pages
    IN  from .. d.pages - 1

\* Mutant: a bit is toggled, not cleared.
ClearedBitsToggled(w, pages) ==
    LET hits == {n \in pages : n \div W = w}
    IN  Xor(bitmap[w], {n % W : n \in hits})

\* The word w after the bits of pages were cleared.  A page of no word of
\* the bitmap changes memory that is not part of this state.
ClearedBits(w, pages) == bitmap[w] \ UNION {Mask("masked", n % W) : n \in {p \in pages : p \div W = w}}

Clear ==
    LET d     == mmap[index]
        pages == {PageNumber(d, i) : i \in ClearRounds(d)}
    IN  /\ pc = "clear"
        /\ bitmap' = [w \in Words |-> ClearedBits(w, pages)]
        /\ IF index < Len(mmap)
           THEN index' = index + 1 /\ UNCHANGED pc
           ELSE index' = 1 /\ pc' = "alloc_map"
        /\ UNCHANGED <<allocShift, grants, held, mmap, best, mapped, mapAt, first, second>>

-----------------------------------------------------------------------------
(* The map of virtual ranges and its free bitmap *)

\* Both loops over page_map end at the first page that is not mapped.
Target == CHOOSE n \in 0 .. LastPage :
              mapped[n] = NoFrame /\ \A k \in 0 .. n - 1 : mapped[k] # NoFrame

NeedsTable == Target >= Boundary /\ \A n \in Boundary .. LastPage : mapped[n] = NoFrame

NoCandidate == \A w \in Words, o \in Bits : ~Candidate(w, o)

\* page_map takes a frame if it needs a table.
TakesTable ==
    \/ NeedsTable /\ \E w \in Words, o \in Bits : PhysicalAlloc(w, o)
    \/ ~NeedsTable /\ UNCHANGED vars

\* page_physical_alloc for the map
AllocMap ==
    /\ pc = "alloc_map"
    /\ \/ \E f \in Frames : PhysicalAlloc(f[1], f[2]) /\ first' = f /\ pc' = "map_map"
       \/ PhysicalAllocFails /\ pc' = "failed" /\ UNCHANGED first
    /\ UNCHANGED <<mmap, index, best, mapped, mapAt, second>>

\* Mutant: i counts the first call of page_map as well.
MapMapCounted ==
    /\ pc = "map_map"
    /\ TakesTable
    /\ mapped' = [mapped EXCEPT ![Target] = first]
    /\ mapAt' = Target + 1
    /\ pc' = "alloc_bitmap"
    /\ UNCHANGED <<mmap, index, best, first, second>>

\* The map is at page i - 1, but i does not count the first call of page_map:
\* when that call succeeds, the pointer is one page low.
MapMap ==
    /\ pc = "map_map"
    /\ TakesTable
    /\ mapped' = [mapped EXCEPT ![Target] = first]
    /\ mapAt' = IF Target = 0 THEN -1 ELSE Target
    /\ pc' = "alloc_bitmap"
    /\ UNCHANGED <<mmap, index, best, first, second>>

MapMapFails ==
    /\ pc = "map_map"
    /\ NeedsTable /\ NoCandidate
    /\ PhysicalFree(first)
    /\ pc' = "failed"
    /\ UNCHANGED <<mmap, index, best, mapped, mapAt, first, second>>

\* page_physical_alloc for the free bitmap
AllocBitmap ==
    /\ pc = "alloc_bitmap"
    /\ \E f \in Frames : PhysicalAlloc(f[1], f[2]) /\ second' = f
    /\ pc' = "map_bitmap"
    /\ UNCHANGED <<mmap, index, best, mapped, mapAt, first>>

\* The bitmap after page_physical_free(f)
FreeIn(bm, f) ==
    IF ~Extended(f) /\ f[2] \notin bm[f[1]]
    THEN [bm EXCEPT ![f[1]] = Xor(@, Mask("masked", f[2]))] ELSE bm

\* The error paths unmap the page the pointer names, and free a frame whose
\* number page_unmap was to return but does not.
AllocBitmapFails ==
    /\ pc = "alloc_bitmap"
    /\ NoCandidate
    /\ mapped' = [mapped EXCEPT ![mapAt] = NoFrame]
    /\ bitmap' \in {bitmap} \cup {FreeIn(bitmap, f) : f \in Frames}
    /\ pc' = "failed"
    /\ UNCHANGED <<allocShift, grants, held, mmap, index, best, mapAt, first, second>>

\* The free bitmap is mapped here but used at its physical address.
MapBitmap ==
    /\ pc = "map_bitmap"
    /\ TakesTable
    /\ mapped' = [mapped EXCEPT ![Target] = second]
    /\ pc' = "done"
    /\ UNCHANGED <<mmap, index, best, mapAt, first, second>>

MapBitmapFails ==
    /\ pc = "map_bitmap"
    /\ NeedsTable /\ NoCandidate
    /\ mapped' = [mapped EXCEPT ![mapAt] = NoFrame]
    /\ \E bm \in {bitmap} \cup {FreeIn(bitmap, f) : f \in Frames} : bitmap' = FreeIn(bm, second)
    /\ held' = [held EXCEPT ![second] = @ - 1]
    /\ pc' = "failed"
    /\ UNCHANGED <<allocShift, grants, mmap, index, best, mapAt, first, second>>

-----------------------------------------------------------------------------
BootInit ==
    /\ allocShift \in Shifts
    /\ bitmap = [w \in Words |-> Bits]
    /\ grants = [f \in Frames |-> 0]
    /\ held = [f \in Frames |-> 0]
    /\ pc = "select"
    /\ mmap \in MemoryMaps
    /\ index = 1
    /\ best = 0
    /\ \E occupied \in Occupied :
          mapped = [n \in VirtualPages |-> IF n = -1 \/ n \in occupied THEN Kernel ELSE NoFrame]
    /\ mapAt = -1
    /\ first = <<0, 0>> /\ second = <<0, 0>>

BootNext ==
    \/ Select \/ Clear
    \/ AllocMap \/ MapMap \/ MapMapFails
    \/ AllocBitmap \/ AllocBitmapFails \/ MapBitmap \/ MapBitmapFails

BootSpec == BootInit /\ [][BootNext]_initVars

-----------------------------------------------------------------------------
(* The bitmap goes to the smallest usable descriptor that is large enough, *)
(* the first one of that size, and page_allocator_init gives up only if    *)
(* there is none: the one-pass search of memory.c:77-107 finds what a      *)
(* comparison of all descriptors would.                                    *)
SmallestPlace ==
    LET fits(k) == mmap[k].type = "usable" /\ mmap[k].pages >= Required
    IN  pc # "select" =>
          IF best = 0 THEN \A k \in DOMAIN mmap : ~fits(k)
          ELSE /\ mmap[best].type = "bitmap" /\ mmap[best].pages >= Required
               /\ \A k \in DOMAIN mmap : fits(k) =>
                     \/ mmap[k].pages > mmap[best].pages
                     \/ mmap[k].pages = mmap[best].pages /\ k > best

(* Whatever the memory map is, the words that page_allocator_init leaves   *)
(* are among those PhysicalFrames begins with.                             *)
WordsAsAssumed ==
    pc = "alloc_map" => \A w \in Words : \E S \in SUBSET Bits : bitmap[w] = Cleared(S)

(* After page_allocator_init the page that follows the registered range is *)
(* always mapped: it is that of the map itself or of its free bitmap.      *)
(* This is the page that the first page_alloc tries to map.                *)
EndPageMapped == pc = "done" => mapped[mapAt + 1] # NoFrame

-----------------------------------------------------------------------------
(* What the comments say *)

UsableFrame(f) ==
    LET n == f[1] * W + f[2]
    IN  \E d \in {mmap[k] : k \in DOMAIN mmap} :
            /\ d.start =< n /\ n < d.start + d.pages
            /\ \/ d.type = "usable"
               \/ d.type = "bitmap" /\ n >= d.start + Required
               \/ d.type = "mapping" /\ n >= d.start + UsedTables

(* memory.c:116, "Check whether this descriptor is free or not", with      *)
(* memory.c:8-12, "0 -> Free": a page that the bitmap calls free is one of *)
(* a free descriptor, and not one of the bitmap's own or of a table.       *)
OnlyUsableFree == pc = "alloc_map" => \A f \in Frames : ~Status(f) => UsableFrame(f)

=============================================================================
