# Betelgeuse: a TLA+ model of the boot loader, the kernel's memory management and its output

Betelgeuse is a UEFI boot loader and an x86_64 kernel. This directory holds TLA+ modules
that model the parts of the boot loader and the kernel with real state, the TLC configurations that check
them, and proofs that TLAPS checks. `PROJECT.json` lists the parts of the system, the
runs, the source lines behind every definition, the findings and the hazards.

    tlc -workers 2 -config frames.cfg MCPhysicalFrames
    tlapm Frames_proofs.tla

## 1. The system

The boot loader (`bootloader/arch/x86_64`) opens the kernel, its font and the memory map,
exits boot services, copies the firmware's page tables and extends them
(`uefi_mem.c`), maps the kernel's segments, and calls the kernel with a boot table. Any
call of the firmware may fail and leads to one abort path.
The kernel starts the terminal, the serial port, the page allocator and the interrupt
table, and halts; from then on it serves breakpoints and double faults. There is one
thread. What runs beside it is the firmware, which changes its memory map; the processor, which
keeps stale translations and delivers exceptions and interrupts; and the serial port. What is hard is
the order in which calls fail,
the arithmetic on masks, the many ways of calling a dozen similar functions one after
the other, what happens when memory runs out half-way, and pages that stay reachable
after they were unmapped.

| part | state | operations | uses | must hold |
|---|---|---|---|---|
| physical frame allocator, `memory.c` 249-292 | `page_bitmap` | alloc, alloc_multiple, free | - | a frame has one holder; free gives it back |
| allocator initialisation, `memory.c` 63-239 | bitmap, first range, pointers | page_allocator_init | frames, mapper, boot table | only free memory is free; the map is where its pointer says |
| virtual range map, `memory.c` 318-735 | list of ranges, slot bitmap | 12 allocations, 2 frees | - | sorted, finite, disjoint; what is held is covered |
| page mapper, `paging.c` | page tables, `current_pml4`, TLB | map, map_in_table, map_multiple, unmap, set | frames | a call changes one translation; tables are out of reach |
| page allocator, `memory.c` 737-1087 | the three above | 12 allocations, 2 frees | the three above | held pages are mapped, apart; failure leaves nothing |
| kernel terminal, `tty.c` | cursor, colours, framebuffer | write, putchar, cursor, ... | font, boot table | drawing stays in the framebuffer |
| boot loader page tables, `uefi_mem.c` | copied tables, page counter | init_virtual_mapping, map_page(s) | memory map | translations survive the copy; pages are reserved |
| boot sequence, `uefi_boot.c`, `uefi_file.c`, `boot.s`, `kernel.c` | open files, pages and pools, memory map key, boot table | efi_main, early_kmain, kmain | firmware | the boot table describes the machine; nothing else stays allocated; it ends |
| interrupts, `interrupts.c`, `irqs.s` | interrupt table, interrupt flag | install_interrupts, two handlers | processor | every vector leads to a handler once the table is used |
| formatted output, `printf.c`, `putchar.c`, `puts.c` | format, arguments, the number being converted | conversions, padding | terminal, serial port | ends, prints what is meant, in step with its arguments |
| serial port, `serial.c` | the transmitter | serial_write | device | nothing is lost |
| boot loader terminal, strings, segments, panic | see section 7 | | | |

## 2. Undefined shifts

Most masks of `memory.c` are written `1 << offset` with an offset up to 63. The type is
int, so the value for 31 is sign-extended to the upper 33 bits of a word, and from 32 on
the shift is undefined. The compilers that build the kernel give it one of two values:
that of the processor's shift instruction, which takes the count modulo 32 ("masked"), or
0, when a loop is peeled or unrolled and the shift becomes a constant ("folded").
The variable `allocShift` and the constant `InsertShift` choose between them for the two
search loops that start at the constant 63, `page_physical_alloc` and the slot search. Shifts by an amount known
only at run time are always the processor's. A word is modelled as the set of its 1
bits; int has `IntBits` bits and a word twice as many, so that the small instances keep
the proportions of 32 and 64. In `page_allocator_init` the literal `1 << 63` is a
constant and marks nothing.

## 3. Modules

**PhysicalFrames** has the bitmap, and as history how often each frame was handed out
(`grants`) and how many callers hold it (`held`). `PhysicalAlloc(w, o)` is a successful
`page_physical_alloc`; its guard `FirstFit` is the order of the two loops.
`Extended` are the words whose index does not survive `<< 18` in an int. `Init` allows
every bitmap made by clearing masks from words of ones. `MaxGrants` bounds `grants`.
`PhysicalAllocMultiple(f, count)` is `page_physical_alloc_multiple` stopping at frame `f`;
`RunLength` is its counter, which runs on across words and wraps at `CounterMod`. The
address it returns is not kept: nothing in the kernel calls the function.

**FrameSupply** is what the users of the allocator rely on: of each frame, that it is new,
lent or returned, and that it is lent once. `UseOf` maps the history of PhysicalFrames to
it, and `ImplementsFrameSupply` says that, where the shift is the processor's, every step
of the allocator is a step of the supply or none. PageTables and
PageAllocator draw their frames from such a supply.

**AllocatorInit** is `page_allocator_init` on the same bitmap, one action per loop round
or call, and one per error path. Virtual pages are numbered from the end of the kernel.
The frame number that the error paths free without having set it is any number.
`InitAssumption` types the boot table and leaves the two topmost virtual pages unmapped.

**AddressMap** is what the page mapper promises: a function from pages to frames for each
address space, changed one page at a time, never over an existing entry.
**PageTables** is the mapper: physical memory is a function from frames to entries, so
that a table, a data page and a 2 MiB page are the same kind of thing, as in the code.
`Descend` is one of the three identical blocks of `page_map`. `Touch` and `Write` are the
processor filling its TLB and a client writing through it; `page_unmap` invalidates
nothing. Frames come from a sequence, each at most once, which is what
FrameSupply promises. Pages are unmapped that are mapped, as page_free does;
`page_map_multiple`, which maps pages far from the one it is called for, is called for one page.
`FramesAssumption` says that the firmware's tables are distinct and not handed out, that no frame is
handed out twice, and that no page below the two reserved entries of a root, which `page_map` refuses, is observed.

**VirtualMap** has the fourteen `page_virtual_*` functions as operators from the map to
an outcome (the map they leave, the result, `*frame`), and one action for each.
Addresses count bytes modulo `AddrMod`; a page has `Page` bytes, so that adding 1 instead
of a page is visible. `own` is history: the pages callers hold. Callers free what they
hold. `Allocate` is any of the twelve allocation functions, `AllocateChecked` one of those
that look before they place; MCVirtualMap has both kinds of callers in one run, told apart by its
variable `callers`. `ClearSlot` computes the bit as the code does, not the bit of the slot.
`Ceiling` bounds how far ranges grow: a call that would lead beyond it is left out, which
also leaves out calls after a range whose length wrapped below zero. `BoundsAssumption` adds that what
one call may ask for does not lead from there around the end of the addresses (in the kernel, 2^47
bytes above the ranges). `MaxOwned` bounds
the pages held. `FewSlotsUsed` names the slots that can ever be used: of the 128 of the kernel, the
list holds at most 3 entries if the page of the bitmap was clear, and at most 63 if it was garbage.

**PageAllocator** composes VirtualMap's operators with a frame supply and a page table of
one level; `AllocOne` is the body shared by the five single-page functions and
`AllocMany` that of the seven others. Where the code passes `frame` instead of `*frame`,
the address is `FrameVar`, on a page that is mapped; where `*frame` is never set, it is
any address; where `page_unmap` returns nothing, the result is any value.
A panic ends the behaviour. The bound `Ceiling` is asked of the map that the `page_virtual` function leaves and of
the one that the whole call leaves.

**Terminal** has the cursor, the colours and the glyphs drawn. `terminal_write` is its
loop body, once per character. A character that is not printable is dropped.

**BootMapping** is `uefi_mem.c` and `efi_main` from ExitBootServices on. The whole of
`init_virtual_mapping` is one action, made of an operator for each of its steps
(`Copied`, `Relocated`, `MadeWritable`, `Mirrored`); a round of the loop over the
program headers is another. `firmware` and `kernel` are the inputs and stay as they were,
so that the properties compare what the loader leaves with what it was given.
`FirmwareOK` is what the code takes for granted of the firmware: a sorted memory map; the
upper three levels of the tables a tree in one descriptor of boot services, with no table
empty; tables of the last level not in free memory; an identity map that begins at entry 0, leaves room for the mirror
and covers the top-level table, though not by a 1 GiB page. `KernelOK` is what the linker script gives: segments
in the order of their offsets that do not overlap in the file, have congruent offsets and addresses, at least as much room
between their addresses as between their offsets, and lie in the part of the last top-level entry. `map_pages` has no return
statement, so the loader may stop after any segment. `available` is an integer; a negative
one stands for the wrapped counter.

**Loader** is `efi_main` up to the call of the kernel, one action per call of the firmware or group of
calls that fail alike, with the functions of `uefi_file.c`. `held` is what it has
open and allocated; `failed` is history: where calls failed. Each call succeeds or jumps
to `end`, and what it had done by then depends on where in it the failure was. `machine`
describes the volumes, graphics modes, font and kernel file. A use of a handle that is
not open, or of boot services that have ended, is undefined and stops the behaviour,
with its cause in `fault`. UEFI does not promise all boot services once ExitBootServices has failed; here the abort path has
them. `FirmwareChangesMap` is the firmware allocating between
GetMemoryMap and ExitBootServices.

**KernelStart** extends Loader by the kernel: `_start`, `early_kmain`, `kmain` and
`install_interrupts` down to `lidt` and `sti`, one action per round of the loop that
clears the table. `Deliver` is the processor with an exception or interrupt: with the
firmware's table it resets the machine, with an absent entry it goes by
the double fault, and `handlers` is the stack of interrupted contexts. `Report` is what `kmain` prints after `sti`,
with interrupts on. The table begins as
zeros or garbage. The handlers' own printing is not repeated here, so
that neither module has a handler that prints in the middle of a `putchar`; a handler that comes unasked is the double fault's and never
goes back to it.

**Printf** is `printf` round by round: one action per round of each of its loops, and
`putchar` in two steps, the terminal and then the serial port once it is empty. The input
is a sequence of items, what the author of the call means; `FormatOf` writes them down as
a format with arguments, which is all that the actions see. `Meant` says what should be
printed and `AsMeant` for which directives it is. `BinaryLimits` are the two values a
build gives `1 << 63`. Words have `WordBits` bits and int half of that; characters are
strings of one letter. `MaxOutput` bounds what is remembered of the output and
the counters, so that endless loops are finite.

The MC modules give constants their values and sets of inputs; MCVirtualMap bounds its two kinds of callers differently.

## 4. Runs

Deadlock is not checked where the model stops at a bound, or where the system stops
(a panic, a reset, the end of a call or of the initialisation).

Fairness is assumed of two things. In `printf`, of the program (`WF_vars(Program)`: one thread, and
nothing preempts it for good) and of the device (`WF_vars(Transmit)`: the serial port
sends what it holds); without the second `serial_write` waits for ever, and `Returns` with it. In
`bootseq`, of the loader and of the kernel; not of `ReadKey`, so nobody has to press a key, and not of
the firmware's memory map, of exceptions or of interrupts. At the beginning
of the abort path this is an assumption about the firmware: closing the first folder, when it
fails, is tried again at once with nothing changed, and the loader only gets on if it does not fail for ever. A later failure there needs no such assumption, because the
second round closes a folder that is closed and ends as undefined.

Passing runs:

| run | instance | shows |
|---|---|---|
| `frames` | 3 words of 6 bits, every initial bitmap, both values of the shift; third word above the int limit; counts 0, 1, 2, 5, 9 with a counter modulo 8 | one frame per word, the top one, in every build; freed frames never come back; with the processor's shift a frame is handed out once and a word that lent one is never changed; the allocator implements FrameSupply |
| `init` | 729 memory maps of 3 descriptors, 3 sets of occupied pages | best place; words as PhysicalFrames assumes; the page after the registered range is mapped |
| `tables` | tables of 3 entries, 2 address spaces, 3 pages sharing all, some or no tables, 5 frames | implements AddressMap; results are true; tables form a tree; stale translations reach no table |
| `vmap` | pages of 2 bytes, 12 slots in 2 words of 6 bits; callers of all functions, with 2 pages held and ranges up to byte 14, and callers that keep to the functions that look before they place, with 16 initial bitmaps (4 contents a word, whose upper bits agree or differ) and 6 pages held | for all: the list ends and uses only the slots of `FewSlotsUsed`; for the second: pages are disjoint, the list sorted, all that is held covered |
| `pages` | 4 frames, 10 pages, all functions | held pages are mapped and apart; failure unmaps what it mapped |
| `boot` | tables of 5 entries; 243 machines: 3 forms of identity map (2 MiB pages; one of 4 KiB pages; 1 GiB pages as well), 3 orders of the tables, 3 orders of the descriptors, 0, 3 or 4 pages to spare, free memory too small, exact or larger; 4 kernel files | moved tables translate as before; the mirror is right; no table is cleared or left behind; only the copy is written while the page count is not negative; the kernel is in place |
| `terminal` | 8 by 3 characters and some pixels more | the cursor and glyphs are on the screen |
| `printf` | words of 24 bits and ints of 12; every type with 9 sets of flags, 3 widths, 2 lengths and 11 or 12 arguments at the powers and limits; every length; pairs of 9 directives among text | the serial port echoes the screen; what is printed is what is meant wherever `AsMeant` says so; a call returns if and only if no directive of it is in `Endless` |
| `bootseq` | 240 machines (volumes with and without the folder, 1 or 2 graphics handles, 5 lists of modes, 4 fonts around the size of the buffer, good and bad kernel files), a failure at every call, 2 changes of the memory map, 10 vectors, 2 events | nothing else is kept; the boot table describes the machine; the causes of undefined behaviour; handlers for all vectors; the boot ends |

24 bits are what it takes to keep the proportions of 64 in `printf`: the largest power of ten of a word
exceeds every signed number but not every unsigned one, and is more than half of the word; the highest hexadecimal digit is a
whole one; and some larger power of ten exceeds the largest one modulo the word. Such a power is 10^8 = 16113920 here and
10^26 = 15908979783594147840 of 64 bits, where 14 further powers do. A number between the two, as by `%-llu`, is printed with
the wrapped power, and `exp` is not 0 afterwards, which is a disjunct of `Endless` of its own; words of 20 bits have no such
power. Octal numbers of 64 bits have 1 as their highest digit, which 24 bits also allow to be another. Fonts reach from one page to the first size that does not fit, and 10 vectors are the fewest that contain a double fault and an
interrupt above it. The bounds are small but every limit is met: mapping pages run out while the kernel is mapped, the kernel's pages
cross the end of a table and share pages, words fill up, the slots and the frames run
out in the middle of a call, tables are shared and not, addresses wrap, the run counter
wraps, and counts of 0 and 1 have their special cases.

Three runs end in a violation. Each compares the code with what a comment says of it; the
findings in `PROJECT.json` quote the comment.

| run | the code |
|---|---|
| `init_free` | the bit of a usable page is cleared with an int mask (memory.c:160), which is sign-extended for offset 31: the page at it is usable, the 32 after it are marked free with it. In the trace the next page is the bitmap's own. The shift of line 157 is not what this trace shows; see below |
| `pages_leak` | `page_free` never gives the frame back |
| `boot_used` | the number of mapping pages in use is read before the kernel is mapped, so the tables that map the kernel are free for `page_allocator_init` |

### Other disagreements

These were met while modelling. The models contain the behaviour, and the passing
properties are stated so that they hold in spite of it; no run is kept for them.

- `page_unmap` looks at no present bit: for a page without tables it changes an entry of
  physical page 0, where memory.h:88-93 promises "1 -> not mapped" (paging.c:100).
- `page_physical_free` of an allocated frame changes nothing: its test is the wrong way
  round (memory.c:289), so that a freed frame is lost, which `FreedNeverReissued` states.
- `page_virtual_alloc` grows the range by one byte (memory.c:352), so two callers get
  addresses in the same page.
- Folded shifts: `page_physical_alloc` gives a frame to two callers, and the slot search
  takes a slot twice, which makes the list of ranges circular (`InsertShift = "folded"`
  violates `ListTerminates`).
- `bitmap_index << 18` is negative from word 8192 on (memory.c:254): frames above 2 GiB
  get an address that no bitmap word covers.
- `page_physical_alloc_multiple` returns a range that ends below the run it found and
  marks one mask only (memory.c:275-276).
- `physical_start >> 12 + i` shifts by `12 + i` (memory.c:127, 142, 157): of a range of usable pages the loop clears the bits of start,
  start / 2, start / 4 and so on. The count starts again at 64, where it writes
  words outside the bitmap (memory.c:160); and `virtual_address_map` is one page low when the page after the
  kernel is free (memory.c:206).
- The end of the reserved range in `page_unmap` has no sign extension, so the mirror can
  be unmapped (paging.c:90); `page_map_multiple` shifts the sum of address and index
  (paging.c:81); `page_map` takes a 2 MiB page for a table (paging.c:71).
- `page_virtual_alloc_at` and `page_virtual_free` overlook an entry that begins at the
  address (memory.c:366, 671); `page_virtual_alloc_multiple_beyond` compares only the
  first page with the next entry (memory.c:618); `page_virtual_alloc_multiple_at` and
  `_after_ex` read `next` at the end of the list (memory.c:519).
- `page_alloc` panics at its first call: `EndPageMapped` shows that the page it gets is
  mapped (memory.c:749).
- `init_virtual_mapping` fails after ExitBootServices and `efi_main` goes to a path
  whose comment is "Pre-exit-boot-services abort" (uefi_boot.c:292, 351), which calls boot
  services. With a 1 GiB page over the firmware's tables it sets a bit of ordinary memory
  (uefi_mem.c:128). Tables of 4 KiB pages are not moved, and stay in boot services
  memory, which the kernel marks free. A table of the upper levels with no present
  entry is overlooked by the search for the highest table in use, so that `map_page` clears it and uses it for another level
  (uefi_mem.c:110): without that condition of `FirmwareOK`, `TablesInCopy` is violated. Mapping pages are taken past the end of the copy
  when it has none to spare (uefi_mem.c:13). Zero-initialised data is not cleared and is
  mapped only as far as the file goes (uefi_boot.c:311), and headers of any type are
  taken for segments.
- `printf` (`AsMeant` and `Endless` list the cases): left-aligned octal and binary numbers never end, decimal ones
  are not padded, or never end either if only a power of ten that wrapped exceeds them (printf.c:364-368, 431-435, 568-572, 625-629); numbers from 10^19 on are
  endless or begin with another character (336); 16^15 begins with the end of the table
  of digits (494); a sign and `0x` come before the padding whatever it is made of; a
  precision is parsed and ignored, and `.*` is not parsed, so that later arguments shift;
  negative ints are sign-extended in hexadecimal; `%%` and `\%` both print a percent sign; the
  loop of `%b` compares with an int shift by 63 (591); `%hd` negates in int (245, 254).
- The abort path of `efi_main` is reached before its handles are initialised
  (uefi_boot.c:56, 353), jumps back to itself when it fails, and closes a folder twice
  then; the second graphics handle is used if there is one only (203); the scan line is
  that of the last mode of the right width, the height looked for is 0x320 = 800 where the
  comment says 720 (207, 229), and SetMode is not checked (245). Two folders stay open and two
  lists of handles allocated, which `NothingElseKept` states.
- A font with a wrong magic number would leave the terminal without a font: `early_kmain` goes on after an error of
  `terminal_init` (kernel.c:16-22); the loader's check prevents it.
- The interrupt controllers are not moved, so that the timer has the vector of double
  faults; the limit loaded for the interrupt table is one byte too long (irqs.s:68); the stack for double faults begins at its
  lowest address (gdt.c:87).
- libc's `memcpy` copies the byte after the end, as often as there are bytes (memcpy.c:7). The
  boot loader has one of its own that is right.
- A tab can jump over the end of a line whose length is not a multiple of four
  (tty.c:65), which is why `Terminal_proofs` assumes it is.

## 5. Proofs

Every proof module extends the modules it is about; `tlapm M_proofs.tla` checks it.

| module | theorems | assumptions |
|---|---|---|
| `Frames_proofs` | of PhysicalFrames: TypeCorrect, OneFramePerWord, GrantedOnce, FreedIsRetired, GrantedIsFrozen, FramesAreSupplied; of AllocatorInit: Smallest, AsAssumed, EndMapped | `SizesAssumption`; AllocatorInit: `InitAssumption` |
| `PageTables_proofs` | Tree, OutOfReach, Reports, Refines | `TablesAssumption`, `FramesAssumption`; Refines: `OneObserved` |
| `VirtualMap_proofs` | Types, ListEnds, FewSlots, CheckedSorted, CheckedApart, CheckedCovered | `VirtualAssumption`, `BoundsAssumption`, `MaskedBuild`; the last three: `Paged` |
| `PageAllocator_proofs` | PagesApart, FailuresUndone, SysTypes | `PageAllocatorAssumption`, `VirtualAssumption`; the last two: `BoundsAssumption`, `MaskedBuild`, `Placed` |
| `BootMapping_proofs` | BootTypes, IdentityStays, MirrorFollows, TablesStayInCopy, CopyOnlyWritten, KernelIsInPlace | `BootAssumption` |
| `KernelStart_proofs` | NothingElse, HandlersForAll, Faults, Table | `VectorAssumption`, `LoaderAssumption` |
| `Printf_proofs` | SerialKeepsUp | `WidthsAssumption` |
| `Terminal_proofs` | TerminalSafe | `ScreenAssumption`, and a line is a multiple of four characters |

**Recursion.** The walks and counters are recursive functions. That such a function exists and obeys its
equation is not an induction over data here: the set of lengths for which no function obeys it, if it had
members, would have a least one, and the walk one shorter can be extended. `Least` (from
the library's well-founded induction) and the lemmas `ChainIs`, and those about the loops of
PageAllocator and `map_pages` (`RoundsAre`), do this once each; the proofs then use the equation. What has to hold after
every round of a loop is shown in the same way: the first round after which it fails would be a least one.

### Frames

`Frames_proofs` holds for every number of words, every width of int from 2 up
and both values of the shift. The inductive invariant `IInv` has, besides the type
invariant, the parts
`UpperTogether` (bits 31 to 63 of a word are equal, since the masks of 31 and 63 cover
them all and no other mask touches one of them that the search can reach), `GrantsAtTop`,
`HeldWithinGrants` (nobody holds a frame that was not handed out), `Retired` (a frame that
was given back, or was handed out in a build with the processor's shift, has all upper
bits of its word set) and `AtMostOneGrant`. `AtMostOneGrant` is not inductive without `UpperTogether` and
`GrantsAtTop`: only because the top bit is what is handed out, and marking it sets the bit
that makes the search skip the word, does the word lend nothing more.
`page_physical_alloc_multiple` preserves all of it because it changes only words whose
upper bits are 0, so that no closed word is opened; `RunLength`, a recursive function, is
not needed for this. `GrantsAtTop`,
`FreedNeverReissued` and `UpperTogether` hold in every build; `AtMostOneGrant` and
`GrantedWordsFrozen` speak of the builds with the processor's shift.
For the refinement `FramesAreSupplied`, `OneHistory` says that, in those builds, the history of a frame is one of "new", "lent"
and "returned", and `SupplyStep` maps each action to `Lend`, `TakeBack` or a stutter. It
needs the inductive invariant, since a second grant of a frame would be a step that the supply does not have.

For AllocatorInit there are three invariants, one for each part of the result. `PlaceInv` says what the search for a place knows after n
descriptors: the best of those that fit, the later one of two as good. `WordsInv` says that
every word is what clearing some masks leaves of ones, which is the form PhysicalFrames begins with; `PowerOfTwo` counts subsets for
it, since the bit of a frame is a remainder by a power of two. `EndInv` says that two pages are still free for the two calls of
`page_map`, so that each finds the next page to map, and between them that `virtual_address_map` names the
last of the pages mapped from the kernel's end on or the one below; the second call then maps or has mapped the page after it.

### Page tables

`PageTables_proofs` is for tables of every size, any number of address spaces and pages and every physical memory.
Memory is one function from frames to entries, so nothing in the state says which frame is a table of which level;
the invariant `Shape` says that there is such a labelling, `kind`, with five parts. `Typed`; `Labels` (roots,
frames of callers and frames of the pool are what they are called); `Links` (a present entry leads to a table of the next
level, and one of the last level to a frame of a caller); `OneParent` (a table has one entry leading to it);
`BootStays` (the firmware's entries). `OneParent` is what makes a call change one translation: with two entries
leading to a table, a new entry in it would be seen under two addresses. It has an exception,
the firmware's table that all roots share under two indices, and `BootStays` is what keeps the exception to that
one. `Stale` says that the processor's translations lead to frames of callers. From these follow `Tree`, `OutOfReach`,
`Reports`, and `Refines`: `Reports` is of every call that could be made in a state, and an invariant, because a call that finds the page mapped, or
no frame, changes nothing that a property of steps could be about. Of `Refines` every step is a step of AddressMap or a stutter. `OneObserved` is a condition of the
refinement: AddressMap has no step that maps two pages, and `page_map_multiple` maps two, of which one may be
observed. The kernel does not call that function.

### Ranges and pages

`VirtualMap_proofs` is about the build with the processor's shift, and about maps of one or two words; the kernel's has
two. Both conditions (`MaskedBuild`) are needed: the other build takes a slot twice and
makes the list circular, and with more words the bits that `ClearSlot` computes would fall in the bitmap. The invariant has two halves. `Whole` says of the list that it is typed, that a number `D` grows from
each entry to the next (so it ends: `ChainEnds` counts the slots), that every entry but the first is the next of one, and that
an entry's bit is set and its slot one of those `FewSlotsUsed` names. Inserting keeps this if the slot found
is not in the list, that is, if no bit of an entry has been cleared; and joins and frees clear bits, other ones
than those of the entry they remove. Of the slots in use, 0 is the only one whose computed bit lies in the bitmap at
all (`ClearsNothing`), and `Ranged` is the reason why its entry is never removed: it begins
where `page_allocator_init` put it, all others at or above `Floor`, the end of the kernel's own pages, and every range ends
between `Floor` and the ceiling, so nobody is ever given a page from which the first entry could be freed. `Held` carries the bound to the pages that callers hold and may free.
The proof goes through the fourteen functions in turn, with arithmetic modulo `AddrMod`.

`Sorted`, `NoSharedPage` and `OwnedCovered` do not hold for all callers, since some of the functions place a
range where another lies. For those that keep to the four of `AllocateChecked` (and free nothing) they
are proved together, from `CheckedInv`: `Inv` as above; `Tidy`, that the entries are not empty, lie on page
boundaries below the ceiling, and end before the next begins; and `Lent`, that a page that is held has one holder, is
aligned, and lies in entries byte for byte. `GapIsFree` is the lemma it turns on: in a tidy map no entry reaches into
the gap between an entry and its next, however far down the list it is, because bases grow along the
list (the bases themselves are the number `D` that `ChainRises` asks for). So a
range placed in that gap was covered by no entry, hence by `Lent` held by nobody. `Takes` says
this of an outcome, for a new entry, for one that grows down, for one that grows up, and for two that join, and each
function is shown to end in one of these cases or to leave the map alone. `Paged` says
that callers pass addresses of pages, which is what a `pageframe_t` holds, and that the range registered by
`page_allocator_init` consists of whole pages, as `mapping_base` and the page of the map make it; without it the test
`next->base_pointer <= *frame` would let a page reach into the next range. The address must also not lead
beyond the ceiling, the bound of the model; `MaskedBuild` comes in through `Inv`.

`PageAllocator_proofs` shows `HeldPagesApart` for every number of frames and every address space, and whatever the map
of ranges answers: addresses it hands out twice, or that fault, included. `Apart` has two parts. `Mapping`: a frame is mapped at
most once, and those mapped have been taken from the pool; the page of the caller's variable `frame` has one from before,
so that a call that maps at the address of the variable fails. `Given`: a page that is held is mapped, and no two held
addresses are in one page. The first is needed for the second, because a call that is given the address of another caller
is refused only by `page_map` finding the page mapped. The loops of `AllocMany` and of the frees are
recursive functions, for which the invariant holds after every round.

`FailureUnmapsAll` and `SysTypeOK` do depend on the map, so they are proved for the build of `MaskedBuild`, from `SysInv`:
`Apart`, the types of the state (`Typed`), the map whole and in its range (`Kept`, the two halves of the invariant of
`VirtualMap_proofs`), and `Held` from there. `Result` says already that a call which gives nothing leaves the
translations alone, and `SysInv` that there is no other call of which `own` shows nothing: that a page which is handed out or
given back is one that can be counted, an address of the address space at or above `Floor`. For this the loops of `AllocMany`, of its undoing and
of `page_free_multiple` have to keep the map whole in every round (`RoundValid`, `UnwindValid`, `FreedValid`), also where
the first page is freed again each time. The functions that pass `frame` instead of `*frame` undo a failure at the address of the
variable, which is no page of the map. `FreeBelow` shows what comes of that: the range asked for ends below the first entry's end and
`page_virtual_free_multiple` cuts the first entry at it, which then has a length that reaches around the end of the addresses (`Spoilt`).
Such a call leads beyond `Ceiling`, so the model leaves it out, and with it whatever the code does with such a map; any other call leaves the map whole.
`Placed` is what these lemmas need: the caller's variable is below the kernel's pages (kmain runs on the stack of the firmware, as
`install_stack` is not called, kernel.c:63), the kernel has more than one byte, and `Addrs` are at or above its end. A function that
is asked for an address of the kernel refuses it or looks further up; but `Addrs` also stand for what the variable holds that
`page_alloc_multiple` and `_ex` read and never set, and if that were an address of the kernel, undoing a failure there would take the first entry
apart. The run `pages` has such addresses neither.

### Boot

`BootMapping_proofs` is for every machine of the form `FirmwareOK`, every kernel file of the form `KernelOK`, and tables of
every size. What `init_virtual_mapping` makes (`Made`) is a function of the firmware, so its effect needs no invariant: the
lemmas up to `MadeIsGrown` follow the copy, the relocation and the mirror, and show that a walk of the new tables
meets the image of each table the old walk meets. The condition that the tables are a tree is needed there: a table
with two entries leading to it would be relocated twice. The invariant `BootInv` says what `map_page` has added since:

- `Supplied`: pages are given out one by one from `First`, the page after the highest table, and `next + available` is
  always the end of the copy (`Limit`). That the page count is not negative, which the properties ask, is that no page beyond it was given out.
- `Grown`: every frame but the new tables, and every entry but the last of the top level, is as `Made` left it. Of the
  new tables there is a labelling by the indices that lead to them (`Third`, `Second(b)`, `Bottom(b, c)`), and an entry of a
  table leads only to the one with its label. This is what is not obvious from `map_page` and what makes it change one translation: if one new table were reached under two
  indices, an entry in it would map two pages (`MapPageGrown`). The lemma is by one level after another, since a level may be
  new or already there.
- `Loaded`: each page of the segments so far is mapped to its frame in the file, and no other page of the last top-level entry is
  mapped. It needs that two segments with a page in common agree on its frame (`SharedPages`), for which the
  offsets and addresses have to be congruent and in order; otherwise the second would move the end of the first.

`Extended` claims the last two up to `Limit` only. Beyond it the loader clears and links what lies behind the copy, tables or not, and
only the types are kept, which `BootTypes` states for all behaviours. `IdentityKept`, `MirrorMatches`, `TablesInCopy`,
`OnlyCopyWritten` and `KernelInPlace` each follow from `BootInv`.

`KernelStart_proofs` has one inductive invariant for the whole boot. `LInv` says what the
loader holds at each of its places while boot services last, and that afterwards it
holds what `NothingElseKept` says; `HeldBefore` is needed in full, since what is held at the end is the
sum of what every call before took and gave back. `KInv` says how far the interrupt table is
filled: that entries below the loop's index are absent, so that nothing of the garbage is left when the table
is loaded, and that nothing changes it after. `NothingElse` and `HandlersForAll` follow for every machine.
`FInv`, for `AbortPathFaults`, says where a call can have failed given the place the loader is at, and which handles are set and open on the way out:
that no call fails without a jump to `end` is what ties a fault to its cause. `TInv`, for
`TableDescribesMachine`, says what the loader knows of the font, of the modes it has looked at, and that the key of the memory
map is the current one, from the place on where it has learned it.
`VectorAssumption` is that the table has an entry for double faults, and `LoaderAssumption` types the machines.

### Output

`Terminal_proofs` shows for every screen that the cursor and the glyphs stay on it,
if a line has a multiple of four characters and glyphs are 8 by 16 pixels. Both
conditions are needed: a tab passes the end of any other line, and
`terminal_putentryat` has 8 and 16 as constants.

`Printf_proofs` shows `SerialEchoes` for every set of calls, every width of words and every bound.
The inductive invariant adds to it `Texts`: all the texts involved are sequences, and those
that are kept are no longer than the bound; `KeptType` and `KeptAgain` say what keeping a prefix does. Only `TerminalWrite`, `SerialWrite`
and `Transmit` disturb it; all other actions leave the output alone.

### Model-checked only

- What `printf` prints: `PrintedAsMeant` and `EndlessStays` are about the digits of a number, that is, about a recursive
  definition for all its arguments, which needs an induction over data.
- `TypeOK` of Printf: that a digit loop does not count below 0 is again a fact about the digits of a number, that every argument
  fetched is of the type its directive wants is one about the parser and all formats, and of powers such as `2 ^ WordBits` the
  provers know nothing, not even that they are numbers.
- `Returns` and `BootEnds`: liveness is out of the provers' reach.

## 6. Left to do

1. The boot loader's map with AddressMap as its abstract specification; the hand-over from
   BootMapping to AllocatorInit, with the tables that are marked free.
2. The type invariant of Printf for all formats.

## 7. Not modelled

- The boot loader's terminal (`uefi_tty.c`, `uefi_print.c`): the first is an earlier copy
  of `tty.c`. `map_page` writes to it for every page (uefi_mem.c:170-182), and `init_virtual_mapping` for a 1 GiB page (102), but nothing
  initialises it: its characters are 0 pixels high and nothing is drawn. The second passes strings to the firmware, in a buffer of 1024 characters
  that a longer `boot.cfg` would overrun.
- The string functions: single loops without state.
- The bits of descriptors and segments (`gdt.c`), `serial_init`, and the interrupt
  handlers of `irqs.s` that nothing installs: constants written once.
- `kmalloc` and `kfree`, which are empty; `page_map_create`, which is declared only; floating point
  output, which is not implemented.
