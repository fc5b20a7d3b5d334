-------------------------------- MODULE Loader --------------------------------
(***************************************************************************)
(* efi_main (bootloader/arch/x86_64/uefi_boot.c) up to the call of the     *)
(* kernel, with uefi_file.c: the firmware's calls, each of which may fail, *)
(* what the loader holds, and the way out at `end` that ERR jumps to.      *)
(* What the loader does to page tables is BootMapping's; here it succeeds  *)
(* or fails.                                                               *)
(***************************************************************************)
EXTENDS Integers, Sequences, FiniteSets

CONSTANTS
    Machines,        \* [volumes, gops, modes, font, elf]: see below
    PageUnits,       \* file sizes count fractions of a page: how many make one
    FontPages,       \* pages in psf_buf: 0x8000 / 0x1000
    Width, Height,   \* 0x500 and 0x320
    MaxChanges       \* bound: changes the firmware makes to its memory map

(* volumes: for each file system, whether it has the folder boot;          *)
(* gops: how many graphics handles LocateHandleBuffer finds;               *)
(* modes: the graphics modes [width, height, stride] by index;             *)
(* font: [ok, size] of the font file; elf: whether the kernel is ELF64.    *)

ASSUME LoaderAssumption ==
    /\ PageUnits \in Nat \ {0} /\ FontPages \in Nat
    /\ \A mc \in Machines :
          /\ mc.volumes \in Seq(BOOLEAN) /\ mc.gops \in Nat
          /\ mc.font \in [ok : BOOLEAN, size : Nat] /\ mc.elf \in BOOLEAN
          /\ mc.modes \in Seq([width : Nat, height : Nat, stride : Nat])

Folders == {"boot", "resources"}
NoMode == [width |-> 0, height |-> 0, stride |-> 0]

VARIABLES
    machine,
    pc, round,       \* where efi_main is, and the index of a loop
    file,            \* the file being read
    held,            \* what the loader has: [open, pages, pools]
    pointer,         \* the folders' handles: "unset", "null" or "set"
    services,        \* boot services have not ended
    changes, key,    \* the firmware's memory map, and the version the loader has
    chosen, shown,   \* index of the mode asked for; the mode that is set
    table,           \* boot_table.graphics_mode
    font,            \* size of what psf_buf holds
    failed,          \* where calls failed
    fault            \* what undefined thing was done

video == <<chosen, shown, table>>
memmap == <<services, changes, key>>
loaderVars == <<machine, pc, round, file, held, pointer, memmap, video, font, failed, fault>>

LoaderInit ==
    /\ machine \in Machines
    /\ pc = "setup" /\ round = 0 /\ file = "config"
    /\ held = [open |-> {}, pages |-> {}, pools |-> {}]
    /\ pointer = [f \in Folders |-> "unset"]
    /\ services = TRUE /\ changes = 0 /\ key = -1
    /\ chosen = 0 /\ shown = NoMode /\ table = NoMode
    /\ font = 0
    /\ failed = {} /\ fault = "none"

Goto(p) == pc' = p /\ UNCHANGED failed
Abort == pc' = "close boot" /\ failed' = failed \cup {pc}
Leave == pc' = "returned" /\ UNCHANGED failed

With(kind, x) == [held EXCEPT ![kind] = @ \cup {x}]
Without(kind, x) == [held EXCEPT ![kind] = @ \ {x}]

-----------------------------------------------------------------------------
(* The console and the keyboard.  A jump from here to `end` skips the      *)
(* initialisation of the folders' handles.                                 *)
Setup ==
    /\ pc = "setup"
    /\ \/ Goto("locate") /\ pointer' = [f \in Folders |-> "null"]
       \/ Abort /\ UNCHANGED pointer
    /\ UNCHANGED <<machine, round, file, held, memmap, video, font, fault>>

(* file_open: the list of file systems is in a pool that is never freed.   *)
LocateVolumes ==
    /\ pc = "locate"
    /\ \/ Goto("volume") /\ held' = With("pools", "volumes")
       \/ Abort /\ UNCHANGED held
    /\ round' = 0
    /\ UNCHANGED <<machine, file, pointer, memmap, video, font, fault>>

(* One round of its loop: open the volume and the folder, close the volume.*)
TryVolume ==
    /\ pc = "volume"
    /\ LET exists == round < Len(machine.volumes)
           found == exists /\ machine.volumes[round + 1]
           opened == [pointer EXCEPT !["boot"] = "set"]
       IN  \/ ~exists /\ Abort /\ UNCHANGED <<held, pointer, round>>
           \/ exists /\ Abort /\ UNCHANGED <<held, pointer, round>>
           \/ exists /\ Abort /\ held' = With("open", "volume") /\ UNCHANGED <<pointer, round>>
           \/ found /\ Abort /\ held' = [held EXCEPT !.open = @ \cup {"volume", "boot"}]
                    /\ pointer' = opened /\ UNCHANGED round
           \/ found /\ Goto("resources") /\ held' = With("open", "boot")
                    /\ pointer' = opened /\ UNCHANGED round
           \/ exists /\ Goto("volume") /\ round' = round + 1 /\ UNCHANGED <<held, pointer>>
    /\ UNCHANGED <<machine, file, memmap, video, font, fault>>

OpenResources ==
    /\ pc = "resources"
    /\ \/ /\ Goto("open")
          /\ held' = With("open", "resources")
          /\ pointer' = [pointer EXCEPT !["resources"] = "set"]
       \/ Abort /\ UNCHANGED <<held, pointer>>
    /\ UNCHANGED <<machine, round, file, memmap, video, font, fault>>

-----------------------------------------------------------------------------
(* Each of the three files is opened, measured, read into pages and closed *)
(* (file_open_ex, file_read, file_close).                                  *)
FileStep == UNCHANGED <<machine, round, file, pointer, memmap, video, font, fault>>

OpenFile ==
    /\ pc = "open"
    /\ \/ Goto("info") /\ held' = With("open", file)
       \/ Abort /\ UNCHANGED held
    /\ FileStep

\* GetInfo is asked twice, the second time with a pool for its answer, unless
\* the first already answers, at the null pointer it was given.
GetInfo ==
    /\ pc = "info"
    /\ \/ Abort /\ UNCHANGED held
       \/ Abort /\ held' = With("pools", "info")
       \/ Goto("pages") /\ held' = With("pools", "info")
       \/ Goto("pages") /\ UNCHANGED held
    /\ FileStep

AllocatePages ==
    /\ pc = "pages"
    /\ \/ Goto("read") /\ held' = With("pages", file)
       \/ Abort /\ UNCHANGED held
    /\ FileStep

\* Mutant: the pool is freed for the small answer only.
ReadFileKeepingInfo ==
    /\ pc = "read"
    /\ Goto("close") \/ Abort
    /\ UNCHANGED held
    /\ FileStep

\* The pool is freed if there is one.
ReadFile ==
    /\ pc = "read"
    /\ \/ Goto("close") /\ held' = Without("pools", "info")
       \/ Abort /\ UNCHANGED held
    /\ FileStep

\* Mutant: the folder is closed with the file.
CloseFileAndFolder ==
    /\ pc = "close"
    /\ \/ Goto("use") /\ held' = [held EXCEPT !.open = @ \ {file, "resources"}]
       \/ Abort /\ UNCHANGED held
    /\ FileStep

CloseFile ==
    /\ pc = "close"
    /\ \/ Goto("use") /\ held' = Without("open", file)
       \/ Abort /\ UNCHANGED held
    /\ FileStep

(* boot.cfg is printed and freed. *)
UseConfig ==
    /\ pc = "use" /\ file = "config"
    /\ \/ Goto("open") /\ held' = Without("pages", "config") /\ file' = "font"
       \/ Abort /\ UNCHANGED <<held, file>>
    /\ UNCHANGED <<machine, round, pointer, memmap, video, font, fault>>

PagesOf(size) == size \div PageUnits + 1

FontFits(size) == PagesOf(size) =< FontPages

(* The font is checked, measured, copied to psf_buf and freed. *)
UseFont ==
    /\ pc = "use" /\ file = "font"
    /\ IF ~machine.font.ok \/ ~FontFits(machine.font.size)
       THEN /\ Leave \/ (~machine.font.ok /\ Abort)
            /\ UNCHANGED <<held, file, font>>
       ELSE /\ font' = machine.font.size
            /\ \/ Goto("open") /\ held' = Without("pages", "font") /\ file' = "kernel"
               \/ Abort /\ UNCHANGED <<held, file>>
    /\ UNCHANGED <<machine, round, pointer, memmap, video, fault>>

(* The kernel stays in its pages if it is a 64-bit ELF file for x86_64. *)
UseKernel ==
    /\ pc = "use" /\ file = "kernel"
    /\ IF machine.elf THEN Goto("graphics") ELSE Leave \/ Abort
    /\ UNCHANGED held
    /\ FileStep

-----------------------------------------------------------------------------
(* The second graphics handle is used, however many there are. *)
LocateGraphics ==
    /\ pc = "graphics"
    /\ round' = 0
    /\ \/ Abort /\ UNCHANGED <<held, fault>>
       \/ /\ held' = With("pools", "graphics")
          /\ \/ machine.gops > 1 /\ (Goto("modes") \/ Abort) /\ UNCHANGED fault
             \/ machine.gops = 1 /\ Goto("undefined") /\ fault' = "no second handle"
    /\ UNCHANGED <<machine, file, pointer, memmap, video, font>>

(* Of the modes of the right width the last one of the right height is     *)
(* chosen, and the last one's scan line is written down.                   *)
Remembered(mode) ==
    /\ chosen' = IF mode.width = Width /\ mode.height = Height THEN round + 1 ELSE chosen
    /\ table' = IF mode.width = Width
                THEN [width |-> Width, height |-> Height, stride |-> mode.stride]
                ELSE table

(* One round of the loop over the graphics modes; the description of a mode*)
(* is in a pool, the firmware's or the loader's.                           *)
QueryMode ==
    /\ pc = "modes" /\ round < Len(machine.modes)
    /\ \/ Abort /\ UNCHANGED <<held, round, chosen, table>>
       \/ /\ Abort /\ held' = With("pools", "mode")
          /\ Remembered(machine.modes[round + 1]) \/ UNCHANGED <<chosen, table>>
          /\ UNCHANGED round
       \/ /\ Goto("modes") /\ round' = round + 1
          /\ Remembered(machine.modes[round + 1])
          /\ UNCHANGED held
    /\ UNCHANGED <<machine, file, pointer, memmap, shown, font, fault>>

(* SetMode's result is not looked at. *)
SetMode ==
    /\ pc = "modes" /\ round = Len(machine.modes)
    /\ IF chosen = 0 THEN Leave /\ UNCHANGED shown
       ELSE /\ shown' \in {machine.modes[chosen], NoMode}
            /\ Goto("map") \/ Abort
    /\ UNCHANGED <<machine, round, file, held, pointer, memmap, chosen, table, font, fault>>

GetMemoryMap ==
    /\ pc = "map"
    /\ \/ Goto("exit") /\ key' = changes
       \/ Abort /\ UNCHANGED key
    /\ UNCHANGED <<machine, round, file, held, pointer, services, changes, video, font, fault>>

\* Mutant: the result is not looked at.
ExitBootServicesUnchecked ==
    /\ pc = "exit"
    /\ Goto("mapping") /\ services' = FALSE
    /\ UNCHANGED <<machine, round, file, held, pointer, changes, key, video, font, fault>>

(* Boot services end only for the caller who knows the present memory map. *)
(* There is no second attempt.                                             *)
ExitBootServices ==
    /\ pc = "exit"
    /\ \/ key = changes /\ Goto("mapping") /\ services' = FALSE
       \/ Abort /\ UNCHANGED services
    /\ UNCHANGED <<machine, round, file, held, pointer, changes, key, video, font, fault>>

(* The firmware allocates or frees memory of its own. *)
FirmwareChangesMap ==
    /\ services /\ changes < MaxChanges /\ pc \in {"map", "exit"}
    /\ changes' = changes + 1
    /\ UNCHANGED <<machine, pc, round, file, held, pointer, services, key, video, font, failed, fault>>

(* init_virtual_mapping and the loop over the segments, and the call. *)
InitVirtualMapping ==
    /\ pc = "mapping"
    /\ Goto("segments") \/ Abort
    /\ UNCHANGED <<machine, round, file, held, pointer, memmap, video, font, fault>>

MapSegments ==
    /\ pc = "segments"
    /\ Goto("kernel") \/ Leave
    /\ UNCHANGED <<machine, round, file, held, pointer, memmap, video, font, fault>>

-----------------------------------------------------------------------------
(***************************************************************************)
(* The way out: close both folders, say goodbye, wait for a key.  A failure*)
(* here jumps to its beginning again.                                      *)
(***************************************************************************)
Undefined(what) ==
    /\ pc' = "undefined" /\ fault' = what
    /\ UNCHANGED <<held, failed>>

CloseFolder(f, next) ==
    IF ~services THEN Undefined("services have ended")
    ELSE IF pointer[f] # "set" THEN Undefined("not opened")
    ELSE IF f \notin held.open THEN Undefined("closed twice")
    ELSE /\ \/ Goto(next) /\ held' = Without("open", f)
            \/ Abort /\ UNCHANGED held
         /\ UNCHANGED fault

CloseFolders ==
    /\ \/ pc = "close boot" /\ CloseFolder("boot", "close resources")
       \/ pc = "close resources" /\ CloseFolder("resources", "goodbye")
    /\ UNCHANGED <<machine, round, file, pointer, memmap, video, font>>

Goodbye ==
    /\ pc = "goodbye"
    /\ Goto("key") \/ Abort
    /\ UNCHANGED <<machine, round, file, held, pointer, memmap, video, font, fault>>

\* Until there is a key, ReadKeyStroke is not ready.
ReadKey ==
    /\ pc = "key"
    /\ Leave \/ Abort
    /\ UNCHANGED <<machine, round, file, held, pointer, memmap, video, font, fault>>

LoaderStep ==
    \/ Setup \/ LocateVolumes \/ TryVolume \/ OpenResources
    \/ OpenFile \/ GetInfo \/ AllocatePages \/ ReadFile \/ CloseFile
    \/ UseConfig \/ UseFont \/ UseKernel
    \/ LocateGraphics \/ QueryMode \/ SetMode
    \/ GetMemoryMap \/ ExitBootServices \/ InitVirtualMapping \/ MapSegments
    \/ CloseFolders \/ Goodbye

-----------------------------------------------------------------------------
(* Whatever path led there, when boot services end the loader has nothing  *)
(* left but the kernel's pages, the two folders it never closes and the    *)
(* two lists of handles it never frees (uefi_boot.c:89-288).               *)
NothingElseKept ==
    ~services => held = [open |-> {"boot", "resources"}, pages |-> {"kernel"},
                         pools |-> {"volumes", "graphics"}]

(* The kernel is called with the memory map of the moment boot services    *)
(* ended, a font that lies in psf_buf whole, and a mode of the right size. *)
(* The scan line is that mode's if all modes of its width have the same,   *)
(* and the mode is set if SetMode did not fail (uefi_boot.c:211-288).      *)
TableDescribesMachine ==
    pc = "kernel" =>
        /\ key = changes
        /\ machine.font.ok /\ font = machine.font.size /\ font =< FontPages * PageUnits
        /\ LET mode == machine.modes[chosen]
               alike == {machine.modes[i].stride : i \in
                           {k \in DOMAIN machine.modes : machine.modes[k].width = Width}}
           IN  /\ [table EXCEPT !.stride = mode.stride] = mode
               /\ alike = {mode.stride} => table = mode
               /\ shown \in {mode, NoMode}

(* Undefined behaviour has one of these causes (uefi_boot.c:203, 351-364): *)
(* a graphics handle too few; a call that failed before the folders were   *)
(* open; one that failed in the abort path itself, after it had closed the *)
(* first folder; and one that failed once boot services had ended.         *)
AbortPathFaults ==
    pc = "undefined" =>
        CASE fault = "no second handle" -> machine.gops = 1 /\ failed = {}
          [] fault = "not opened" ->
                failed \cap {"setup", "locate", "volume", "resources"} # {}
          [] fault = "closed twice" -> failed \cap {"close resources", "goodbye", "key"} # {}
          [] fault = "services have ended" -> failed = {"mapping"}

=============================================================================
