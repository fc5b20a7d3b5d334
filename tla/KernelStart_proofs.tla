-------------------------- MODULE KernelStart_proofs --------------------------
(***************************************************************************)
(* For every machine and every choice of what fails: what the loader keeps *)
(* when boot services end, and where the kernel's interrupt table leads.   *)
(***************************************************************************)
EXTENDS KernelStart, TLAPS

-----------------------------------------------------------------------------
(* The loader *)

Kept(open, pages, pools) ==
    held.open = open /\ held.pages = pages /\ held.pools = pools

IsRecord == held = [open |-> held.open, pages |-> held.pages, pools |-> held.pools]

FileNames == {"config", "font", "kernel"}

(* What the loader holds at each place of efi_main that leads on to the    *)
(* kernel.                                                                 *)
HeldBefore ==
    /\ pc \in {"setup", "locate"} => Kept({}, {}, {})
    /\ pc = "volume" => Kept({}, {}, {"volumes"})
    /\ pc = "resources" => Kept({"boot"}, {}, {"volumes"})
    /\ pc = "open" => Kept(Folders, {}, {"volumes"})
    /\ pc = "info" => Kept(Folders \cup {file}, {}, {"volumes"})
    /\ pc = "pages" => /\ held.open = Folders \cup {file} /\ held.pages = {}
                       /\ held.pools \ {"info"} = {"volumes"}
    /\ pc = "read" => /\ held.open = Folders \cup {file} /\ held.pages = {file}
                      /\ held.pools \ {"info"} = {"volumes"}
    /\ pc = "close" => Kept(Folders \cup {file}, {file}, {"volumes"})
    /\ pc = "use" => Kept(Folders, {file}, {"volumes"})
    /\ pc = "graphics" => Kept(Folders, {"kernel"}, {"volumes"})
    /\ pc \in {"modes", "map", "exit"} => Kept(Folders, {"kernel"}, {"volumes", "graphics"})

\* Where efi_main and the kernel can be once boot services have ended.
KernelPlaces == {"page allocator", "clear", "entries", "load", "report", "halted", "panic",
                 "reset"}
PlacesAfter == {"mapping", "segments", "kernel", "close boot", "returned", "undefined"}
                  \cup KernelPlaces

Kernel == Kept(Folders, {"kernel"}, {"volumes", "graphics"})

LInv ==
    /\ file \in FileNames
    /\ IsRecord
    /\ services \in BOOLEAN
    /\ services => HeldBefore /\ pc \notin {"mapping", "segments", "kernel"} \cup KernelPlaces
    /\ ~services => Kernel /\ pc \in PlacesAfter

(* What the calls that open, allocate, free and close do to it.            *)
LEMMA Gained ==
    ASSUME IsRecord, NEW x
    PROVE  /\ held' = With("open", x) => IsRecord' /\ held'.open = held.open \cup {x}
                 /\ held'.pages = held.pages /\ held'.pools = held.pools
           /\ held' = With("pages", x) => IsRecord' /\ held'.pages = held.pages \cup {x}
                 /\ held'.open = held.open /\ held'.pools = held.pools
           /\ held' = With("pools", x) => IsRecord' /\ held'.pools = held.pools \cup {x}
                 /\ held'.open = held.open /\ held'.pages = held.pages
BY DEF IsRecord, With

LEMMA Same == ASSUME IsRecord, held' = held PROVE IsRecord'
BY DEF IsRecord

LEMMA GivenUp ==
    ASSUME IsRecord, NEW x
    PROVE  /\ held' = Without("open", x) => IsRecord' /\ held'.open = held.open \ {x}
                 /\ held'.pages = held.pages /\ held'.pools = held.pools
           /\ held' = Without("pages", x) => IsRecord' /\ held'.pages = held.pages \ {x}
                 /\ held'.open = held.open /\ held'.pools = held.pools
           /\ held' = Without("pools", x) => IsRecord' /\ held'.pools = held.pools \ {x}
                 /\ held'.open = held.open /\ held'.pages = held.pages
BY DEF IsRecord, Without

(* efi_main begins with nothing (uefi_boot.c:48-88).                       *)
LEMMA LoaderInitHolds == Init => LInv
BY DEF Init, LoaderInit, LInv, HeldBefore, Kept, IsRecord, FileNames, KernelPlaces

(* Before boot services end, the invariant is HeldBefore.                  *)
LEMMA Underway ==
    ASSUME LInv, pc \notin PlacesAfter
    PROVE  services = TRUE /\ HeldBefore /\ IsRecord /\ file \in FileNames
BY DEF LInv

LEMMA Onward ==
    ASSUME services' = TRUE, HeldBefore', IsRecord', file' \in FileNames,
           pc' \notin {"mapping", "segments", "kernel"} \cup KernelPlaces
    PROVE  LInv'
BY DEF LInv

(* A jump to `end`, or a return.                                           *)
LEMMA GivesUp ==
    ASSUME services' = TRUE, IsRecord', file' \in FileNames,
           pc' \in {"close boot", "close resources", "goodbye", "key", "returned", "undefined"}
    PROVE  LInv'
<1>1. HeldBefore'
  BY DEF HeldBefore
<1> QED
  BY <1>1, Onward DEF KernelPlaces

(* The steps that read the three files and use them (uefi_file.c:55-102,   *)
(* uefi_boot.c:97-190).                                                    *)
LEMMA OpenHolds == ASSUME LInv, OpenFile PROVE LInv'
<1>1. /\ services = TRUE /\ services' = services
      /\ IsRecord /\ file \in FileNames /\ file' = file
      /\ held.open = Folders /\ held.pages = {} /\ held.pools = {"volumes"}
  BY Underway DEF OpenFile, FileStep, memmap, HeldBefore, Kept, PlacesAfter, KernelPlaces
<1>2. CASE Goto("info") /\ held' = With("open", file)
  <2>1. /\ IsRecord' /\ held'.open = Folders \cup {file}
        /\ held'.pages = {} /\ held'.pools = {"volumes"}
    BY <1>1, <1>2, Gained
  <2>2. HeldBefore'
    BY <1>1, <1>2, <2>1 DEF HeldBefore, Kept, Goto
  <2> QED
    BY <1>1, <1>2, <2>1, <2>2, Onward DEF Goto, KernelPlaces, FileNames
<1>3. CASE Abort /\ UNCHANGED held
  BY <1>1, <1>3, Same, GivesUp DEF Abort
<1> QED
  BY <1>1, <1>2, <1>3 DEF OpenFile

LEMMA InfoHolds == ASSUME LInv, GetInfo PROVE LInv'
<1>1. /\ services = TRUE /\ services' = services
      /\ IsRecord /\ file \in FileNames /\ file' = file
      /\ held.open = Folders \cup {file} /\ held.pages = {} /\ held.pools = {"volumes"}
  BY Underway DEF GetInfo, FileStep, memmap, HeldBefore, Kept, PlacesAfter, KernelPlaces
<1>2. CASE Goto("pages") /\ held' = With("pools", "info")
  <2>1. /\ IsRecord' /\ held'.open = Folders \cup {file}
        /\ held'.pages = {} /\ held'.pools = {"volumes", "info"}
    BY <1>1, <1>2, Gained
  <2>2. HeldBefore'
    BY <1>1, <1>2, <2>1 DEF HeldBefore, Kept, Goto
  <2> QED
    BY <1>1, <1>2, <2>1, <2>2, Onward DEF Goto, KernelPlaces, FileNames
<1>3. CASE Abort /\ UNCHANGED held
  BY <1>1, <1>3, Same, GivesUp DEF Abort
<1>4. CASE Abort /\ held' = With("pools", "info")
  BY <1>1, <1>4, Gained, GivesUp DEF Abort
<1>5. CASE Goto("pages") /\ UNCHANGED held
  <2>1. HeldBefore'
    BY <1>1, <1>5 DEF HeldBefore, Kept, Goto
  <2> QED
    BY <1>1, <1>5, <2>1, Same, Onward DEF Goto, KernelPlaces, FileNames
<1> QED
  BY <1>1, <1>2, <1>3, <1>4, <1>5 DEF GetInfo

LEMMA PagesHold == ASSUME LInv, AllocatePages PROVE LInv'
<1>1. /\ services = TRUE /\ services' = services
      /\ IsRecord /\ file \in FileNames /\ file' = file
      /\ held.open = Folders \cup {file} /\ held.pages = {} /\ held.pools \ {"info"} = {"volumes"}
  BY Underway DEF AllocatePages, FileStep, memmap, HeldBefore, Kept, PlacesAfter, KernelPlaces
<1>2. CASE Goto("read") /\ held' = With("pages", file)
  <2>1. /\ IsRecord' /\ held'.open = Folders \cup {file}
        /\ held'.pages = {file} /\ held'.pools \ {"info"} = {"volumes"}
    BY <1>1, <1>2, Gained
  <2>2. HeldBefore'
    BY <1>1, <1>2, <2>1 DEF HeldBefore, Kept, Goto
  <2> QED
    BY <1>1, <1>2, <2>1, <2>2, Onward DEF Goto, KernelPlaces, FileNames
<1>3. CASE Abort /\ UNCHANGED held
  BY <1>1, <1>3, Same, GivesUp DEF Abort
<1> QED
  BY <1>1, <1>2, <1>3 DEF AllocatePages

LEMMA ReadHolds == ASSUME LInv, ReadFile PROVE LInv'
<1>1. /\ services = TRUE /\ services' = services
      /\ IsRecord /\ file \in FileNames /\ file' = file
      /\ held.open = Folders \cup {file} /\ held.pages = {file} /\ held.pools \ {"info"} = {"volumes"}
  BY Underway DEF ReadFile, FileStep, memmap, HeldBefore, Kept, PlacesAfter, KernelPlaces
<1>2. CASE Goto("close") /\ held' = Without("pools", "info")
  <2>1. /\ IsRecord' /\ held'.open = Folders \cup {file}
        /\ held'.pages = {file} /\ held'.pools = {"volumes"}
    BY <1>1, <1>2, GivenUp
  <2>2. HeldBefore'
    BY <1>1, <1>2, <2>1 DEF HeldBefore, Kept, Goto
  <2> QED
    BY <1>1, <1>2, <2>1, <2>2, Onward DEF Goto, KernelPlaces, FileNames
<1>3. CASE Abort /\ UNCHANGED held
  BY <1>1, <1>3, Same, GivesUp DEF Abort
<1> QED
  BY <1>1, <1>2, <1>3 DEF ReadFile

LEMMA CloseHolds == ASSUME LInv, CloseFile PROVE LInv'
<1>1. /\ services = TRUE /\ services' = services
      /\ IsRecord /\ file \in FileNames /\ file' = file
      /\ held.open = Folders \cup {file} /\ held.pages = {file} /\ held.pools = {"volumes"}
  BY Underway DEF CloseFile, FileStep, memmap, HeldBefore, Kept, PlacesAfter, KernelPlaces
<1>2. CASE Goto("use") /\ held' = Without("open", file)
  <2>1. /\ IsRecord' /\ held'.open = Folders
        /\ held'.pages = {file} /\ held'.pools = {"volumes"}
    BY <1>1, <1>2, GivenUp DEF Folders, FileNames
  <2>2. HeldBefore'
    BY <1>1, <1>2, <2>1 DEF HeldBefore, Kept, Goto
  <2> QED
    BY <1>1, <1>2, <2>1, <2>2, Onward DEF Goto, KernelPlaces, FileNames
<1>3. CASE Abort /\ UNCHANGED held
  BY <1>1, <1>3, Same, GivesUp DEF Abort
<1> QED
  BY <1>1, <1>2, <1>3 DEF CloseFile

LEMMA ConfigHolds == ASSUME LInv, UseConfig PROVE LInv'
<1>1. /\ services = TRUE /\ services' = services
      /\ IsRecord /\ file \in FileNames /\ file = "config"
      /\ held.open = Folders /\ held.pages = {file} /\ held.pools = {"volumes"}
  BY Underway DEF UseConfig, memmap, HeldBefore, Kept, PlacesAfter, KernelPlaces
<1>2. CASE Goto("open") /\ held' = Without("pages", "config") /\ file' = "font"
  <2>1. /\ IsRecord' /\ held'.open = Folders
        /\ held'.pages = {} /\ held'.pools = {"volumes"}
    BY <1>1, <1>2, GivenUp
  <2>2. HeldBefore'
    BY <1>1, <1>2, <2>1 DEF HeldBefore, Kept, Goto
  <2> QED
    BY <1>1, <1>2, <2>1, <2>2, Onward DEF Goto, KernelPlaces, FileNames
<1>3. CASE Abort /\ UNCHANGED <<held, file>>
  BY <1>1, <1>3, Same, GivesUp DEF Abort
<1> QED
  BY <1>1, <1>2, <1>3 DEF UseConfig

LEMMA FontHolds == ASSUME LInv, UseFont PROVE LInv'
<1>1. /\ services = TRUE /\ services' = services
      /\ IsRecord /\ file \in FileNames /\ file = "font"
      /\ held.open = Folders /\ held.pages = {file} /\ held.pools = {"volumes"}
  BY Underway DEF UseFont, memmap, HeldBefore, Kept, PlacesAfter, KernelPlaces
<1>2. CASE Goto("open") /\ held' = Without("pages", "font") /\ file' = "kernel"
  <2>1. /\ IsRecord' /\ held'.open = Folders
        /\ held'.pages = {} /\ held'.pools = {"volumes"}
    BY <1>1, <1>2, GivenUp
  <2>2. HeldBefore'
    BY <1>1, <1>2, <2>1 DEF HeldBefore, Kept, Goto
  <2> QED
    BY <1>1, <1>2, <2>1, <2>2, Onward DEF Goto, KernelPlaces, FileNames
<1>3. CASE (Leave \/ Abort) /\ UNCHANGED <<held, file>>
  BY <1>1, <1>3, Same, GivesUp DEF Leave, Abort
<1> QED
  BY <1>1, <1>2, <1>3 DEF UseFont

LEMMA KernelFileHolds == ASSUME LInv, UseKernel PROVE LInv'
<1>1. /\ services = TRUE /\ services' = services
      /\ IsRecord /\ file \in FileNames /\ file = "kernel" /\ file' = file
      /\ held.open = Folders /\ held.pages = {file} /\ held.pools = {"volumes"}
  BY Underway DEF UseKernel, FileStep, memmap, HeldBefore, Kept, PlacesAfter, KernelPlaces
<1>2. CASE Goto("graphics") /\ UNCHANGED held
  <2>1. /\ IsRecord' /\ held'.open = Folders
        /\ held'.pages = {"kernel"} /\ held'.pools = {"volumes"}
    BY <1>1, <1>2, Same
  <2>2. HeldBefore'
    BY <1>1, <1>2, <2>1 DEF HeldBefore, Kept, Goto
  <2> QED
    BY <1>1, <1>2, <2>1, <2>2, Onward DEF Goto, KernelPlaces, FileNames
<1>3. CASE (Leave \/ Abort) /\ UNCHANGED held
  BY <1>1, <1>3, Same, GivesUp DEF Leave, Abort
<1> QED
  BY <1>1, <1>2, <1>3 DEF UseKernel

(* The other steps before boot services end (uefi_boot.c:48-95, 192-292).  *)
LEMMA SetupHolds == ASSUME LInv, Setup PROVE LInv'
<1>1. /\ services = TRUE /\ services' = services
      /\ IsRecord /\ file \in FileNames /\ file' = file /\ held' = held
      /\ held.open = {} /\ held.pages = {} /\ held.pools = {}
  BY Underway DEF Setup, memmap, HeldBefore, Kept, PlacesAfter, KernelPlaces
<1>2. CASE Goto("locate") /\ UNCHANGED held
  <2>1. /\ IsRecord' /\ held'.open = {}
        /\ held'.pages = {} /\ held'.pools = {}
    BY <1>1, <1>2, Same
  <2>2. HeldBefore'
    BY <1>1, <1>2, <2>1 DEF HeldBefore, Kept, Goto
  <2> QED
    BY <1>1, <1>2, <2>1, <2>2, Onward DEF Goto, KernelPlaces, FileNames
<1>3. CASE Abort /\ UNCHANGED held
  BY <1>1, <1>3, Same, GivesUp DEF Abort
<1> QED
  BY <1>1, <1>2, <1>3 DEF Setup

LEMMA LocateHolds == ASSUME LInv, LocateVolumes PROVE LInv'
<1>1. /\ services = TRUE /\ services' = services
      /\ IsRecord /\ file \in FileNames /\ file' = file
      /\ held.open = {} /\ held.pages = {} /\ held.pools = {}
  BY Underway DEF LocateVolumes, memmap, HeldBefore, Kept, PlacesAfter, KernelPlaces
<1>2. CASE Goto("volume") /\ held' = With("pools", "volumes")
  <2>1. /\ IsRecord' /\ held'.open = {}
        /\ held'.pages = {} /\ held'.pools = {"volumes"}
    BY <1>1, <1>2, Gained
  <2>2. HeldBefore'
    BY <1>1, <1>2, <2>1 DEF HeldBefore, Kept, Goto
  <2> QED
    BY <1>1, <1>2, <2>1, <2>2, Onward DEF Goto, KernelPlaces, FileNames
<1>3. CASE Abort /\ UNCHANGED held
  BY <1>1, <1>3, Same, GivesUp DEF Abort
<1> QED
  BY <1>1, <1>2, <1>3 DEF LocateVolumes

LEMMA VolumeHolds == ASSUME LInv, TryVolume PROVE LInv'
<1>1. /\ services = TRUE /\ services' = services
      /\ IsRecord /\ file \in FileNames /\ file' = file
      /\ held.open = {} /\ held.pages = {} /\ held.pools = {"volumes"}
  BY Underway DEF TryVolume, memmap, HeldBefore, Kept, PlacesAfter, KernelPlaces
<1>2. CASE Goto("resources") /\ held' = With("open", "boot")
  <2>1. /\ IsRecord' /\ held'.open = {"boot"}
        /\ held'.pages = {} /\ held'.pools = {"volumes"}
    BY <1>1, <1>2, Gained
  <2>2. HeldBefore'
    BY <1>1, <1>2, <2>1 DEF HeldBefore, Kept, Goto
  <2> QED
    BY <1>1, <1>2, <2>1, <2>2, Onward DEF Goto, KernelPlaces, FileNames
<1>3. CASE Goto("volume") /\ UNCHANGED held
  <2>1. /\ IsRecord' /\ held'.open = {}
        /\ held'.pages = {} /\ held'.pools = {"volumes"}
    BY <1>1, <1>3, Same
  <2>2. HeldBefore'
    BY <1>1, <1>3, <2>1 DEF HeldBefore, Kept, Goto
  <2> QED
    BY <1>1, <1>3, <2>1, <2>2, Onward DEF Goto, KernelPlaces, FileNames
<1>4. CASE Abort /\ UNCHANGED held
  BY <1>1, <1>4, Same, GivesUp DEF Abort
<1>5. CASE Abort /\ held' = With("open", "volume")
  BY <1>1, <1>5, Gained, GivesUp DEF Abort
<1>6. CASE Abort /\ held' = [held EXCEPT !.open = @ \cup {"volume", "boot"}]
  BY <1>1, <1>6, GivesUp DEF Abort, IsRecord
<1> QED
  BY <1>1, <1>2, <1>3, <1>4, <1>5, <1>6 DEF TryVolume

LEMMA ResourcesHold == ASSUME LInv, OpenResources PROVE LInv'
<1>1. /\ services = TRUE /\ services' = services
      /\ IsRecord /\ file \in FileNames /\ file' = file
      /\ held.open = {"boot"} /\ held.pages = {} /\ held.pools = {"volumes"}
  BY Underway DEF OpenResources, memmap, HeldBefore, Kept, PlacesAfter, KernelPlaces
<1>2. CASE Goto("open") /\ held' = With("open", "resources")
  <2>1. /\ IsRecord' /\ held'.open = Folders
        /\ held'.pages = {} /\ held'.pools = {"volumes"}
    BY <1>1, <1>2, Gained DEF Folders
  <2>2. HeldBefore'
    BY <1>1, <1>2, <2>1 DEF HeldBefore, Kept, Goto
  <2> QED
    BY <1>1, <1>2, <2>1, <2>2, Onward DEF Goto, KernelPlaces, FileNames
<1>3. CASE Abort /\ UNCHANGED held
  BY <1>1, <1>3, Same, GivesUp DEF Abort
<1> QED
  BY <1>1, <1>2, <1>3 DEF OpenResources

LEMMA GraphicsHold == ASSUME LInv, LocateGraphics PROVE LInv'
<1>1. /\ services = TRUE /\ services' = services
      /\ IsRecord /\ file \in FileNames /\ file' = file
      /\ held.open = Folders /\ held.pages = {"kernel"} /\ held.pools = {"volumes"}
  BY Underway DEF LocateGraphics, memmap, HeldBefore, Kept, PlacesAfter, KernelPlaces
<1>2. CASE Goto("modes") /\ held' = With("pools", "graphics")
  <2>1. /\ IsRecord' /\ held'.open = Folders
        /\ held'.pages = {"kernel"} /\ held'.pools = {"volumes", "graphics"}
    BY <1>1, <1>2, Gained
  <2>2. HeldBefore'
    BY <1>1, <1>2, <2>1 DEF HeldBefore, Kept, Goto
  <2> QED
    BY <1>1, <1>2, <2>1, <2>2, Onward DEF Goto, KernelPlaces, FileNames
<1>3. CASE Abort /\ UNCHANGED held
  BY <1>1, <1>3, Same, GivesUp DEF Abort
<1>4. CASE (Abort \/ Goto("undefined")) /\ held' = With("pools", "graphics")
  BY <1>1, <1>4, Gained, GivesUp DEF Abort, Goto
<1> QED
  BY <1>1, <1>2, <1>3, <1>4 DEF LocateGraphics

LEMMA ModesHold == ASSUME LInv, QueryMode PROVE LInv'
<1>1. /\ services = TRUE /\ services' = services
      /\ IsRecord /\ file \in FileNames /\ file' = file
      /\ held.open = Folders /\ held.pages = {"kernel"} /\ held.pools = {"volumes", "graphics"}
  BY Underway DEF QueryMode, memmap, HeldBefore, Kept, PlacesAfter, KernelPlaces
<1>2. CASE Goto("modes") /\ UNCHANGED held
  <2>1. /\ IsRecord' /\ held'.open = Folders
        /\ held'.pages = {"kernel"} /\ held'.pools = {"volumes", "graphics"}
    BY <1>1, <1>2, Same
  <2>2. HeldBefore'
    BY <1>1, <1>2, <2>1 DEF HeldBefore, Kept, Goto
  <2> QED
    BY <1>1, <1>2, <2>1, <2>2, Onward DEF Goto, KernelPlaces, FileNames
<1>3. CASE Abort /\ UNCHANGED held
  BY <1>1, <1>3, Same, GivesUp DEF Abort
<1>4. CASE Abort /\ held' = With("pools", "mode")
  BY <1>1, <1>4, Gained, GivesUp DEF Abort
<1> QED
  BY <1>1, <1>2, <1>3, <1>4 DEF QueryMode

LEMMA SetModeHolds == ASSUME LInv, SetMode PROVE LInv'
<1>1. /\ services = TRUE /\ services' = services
      /\ IsRecord /\ file \in FileNames /\ file' = file /\ held' = held
      /\ held.open = Folders /\ held.pages = {"kernel"} /\ held.pools = {"volumes", "graphics"}
  BY Underway DEF SetMode, memmap, HeldBefore, Kept, PlacesAfter, KernelPlaces
<1>2. CASE Goto("map")
  <2>1. /\ IsRecord' /\ held'.open = Folders
        /\ held'.pages = {"kernel"} /\ held'.pools = {"volumes", "graphics"}
    BY <1>1, <1>2, Same
  <2>2. HeldBefore'
    BY <1>1, <1>2, <2>1 DEF HeldBefore, Kept, Goto
  <2> QED
    BY <1>1, <1>2, <2>1, <2>2, Onward DEF Goto, KernelPlaces, FileNames
<1>3. CASE Leave \/ Abort
  BY <1>1, <1>3, Same, GivesUp DEF Leave, Abort
<1> QED
  BY <1>1, <1>2, <1>3 DEF SetMode

LEMMA MemoryMapHolds == ASSUME LInv, GetMemoryMap PROVE LInv'
<1>1. /\ services = TRUE /\ services' = services
      /\ IsRecord /\ file \in FileNames /\ file' = file /\ held' = held
      /\ held.open = Folders /\ held.pages = {"kernel"} /\ held.pools = {"volumes", "graphics"}
  BY Underway DEF GetMemoryMap, memmap, HeldBefore, Kept, PlacesAfter, KernelPlaces
<1>2. CASE Goto("exit")
  <2>1. /\ IsRecord' /\ held'.open = Folders
        /\ held'.pages = {"kernel"} /\ held'.pools = {"volumes", "graphics"}
    BY <1>1, <1>2, Same
  <2>2. HeldBefore'
    BY <1>1, <1>2, <2>1 DEF HeldBefore, Kept, Goto
  <2> QED
    BY <1>1, <1>2, <2>1, <2>2, Onward DEF Goto, KernelPlaces, FileNames
<1>3. CASE Abort
  BY <1>1, <1>3, Same, GivesUp DEF Leave, Abort
<1> QED
  BY <1>1, <1>2, <1>3 DEF GetMemoryMap

(* The firmware's own changes concern none of this.                        *)
LEMMA FirmwareHolds == ASSUME LInv, FirmwareChangesMap PROVE LInv'
<1>1. /\ services = TRUE /\ services' = services /\ HeldBefore /\ IsRecord
      /\ file \in FileNames /\ file' = file /\ held' = held /\ pc' = pc
      /\ pc \in {"map", "exit"}
  BY Underway DEF FirmwareChangesMap, PlacesAfter, KernelPlaces
<1>2. HeldBefore'
  BY <1>1 DEF HeldBefore, Kept
<1> QED
  BY <1>1, <1>2, Same, Onward DEF KernelPlaces

(* Boot services end with exactly this in the loader's hands.              *)
LEMMA ExitHolds == ASSUME LInv, ExitBootServices PROVE LInv'
<1>1. /\ services = TRUE /\ IsRecord /\ file \in FileNames
      /\ file' = file /\ held' = held
      /\ held.open = Folders /\ held.pages = {"kernel"} /\ held.pools = {"volumes", "graphics"}
  BY Underway DEF ExitBootServices, HeldBefore, Kept, PlacesAfter, KernelPlaces
<1>2. CASE Goto("mapping") /\ services' = FALSE
  BY <1>1, <1>2, Same DEF Goto, LInv, Kernel, Kept, PlacesAfter
<1>3. CASE Abort /\ UNCHANGED services
  BY <1>1, <1>3, Same, GivesUp DEF Abort
<1> QED
  BY <1>2, <1>3 DEF ExitBootServices

(* After that nothing is given back: the abort path goes no further than a *)
(* call of boot services (uefi_boot.c:289-366).                            *)
LEMMA StaysHeld ==
    ASSUME LInv, services = FALSE, services' = services, held' = held, file' = file,
           pc' \in PlacesAfter
    PROVE  LInv'
<1>1. Kernel /\ IsRecord /\ file \in FileNames
  BY DEF LInv
<1>2. Kernel'
  BY <1>1 DEF Kernel, Kept
<1> QED
  BY <1>1, <1>2, Same DEF LInv

LEMMA MappingHolds == ASSUME LInv, InitVirtualMapping \/ MapSegments PROVE LInv'
<1>1. /\ pc \in {"mapping", "segments"}
      /\ services' = services /\ held' = held /\ file' = file
      /\ pc' \in {"segments", "kernel", "close boot", "returned"}
  BY DEF InitVirtualMapping, MapSegments, Goto, Abort, Leave, memmap
<1>2. services = FALSE
  BY <1>1 DEF LInv
<1> QED
  BY <1>1, <1>2, StaysHeld DEF PlacesAfter

LEMMA CloseFoldersHolds == ASSUME LInv, CloseFolders PROVE LInv'
<1>1. PICK f \in Folders, next \in {"close resources", "goodbye"} :
          /\ pc \in {"close boot", "close resources"}
          /\ CloseFolder(f, next)
          /\ services' = services /\ file' = file
  BY DEF CloseFolders, Folders, memmap
<1>2. CASE ~services
  <2>1. services = FALSE /\ held' = held /\ pc' = "undefined"
    BY <1>1, <1>2 DEF CloseFolder, Undefined, LInv
  <2> QED
    BY <1>1, <2>1, StaysHeld DEF PlacesAfter
<1>3. CASE services
  <2>1. services = TRUE /\ IsRecord /\ file \in FileNames
    BY <1>3 DEF LInv
  <2>2. CASE Undefined("not opened") \/ Undefined("closed twice")
    BY <1>1, <2>1, <2>2, Same, GivesUp DEF Undefined
  <2>3. CASE Goto(next) /\ held' = Without("open", f)
    BY <1>1, <2>1, <2>3, GivenUp, GivesUp DEF Goto
  <2>4. CASE Abort /\ UNCHANGED held
    BY <1>1, <2>1, <2>4, Same, GivesUp DEF Abort
  <2> QED
    BY <1>1, <1>3, <2>2, <2>3, <2>4 DEF CloseFolder
<1> QED
  BY <1>2, <1>3

LEMMA FarewellHolds == ASSUME LInv, Goodbye \/ ReadKey PROVE LInv'
<1>1. /\ pc \in {"goodbye", "key"}
      /\ services' = services /\ held' = held /\ file' = file
      /\ pc' \in {"key", "close boot", "returned"}
  BY DEF Goodbye, ReadKey, Goto, Abort, Leave, memmap
<1>2. services = TRUE /\ IsRecord /\ file \in FileNames
  BY <1>1 DEF LInv, PlacesAfter, KernelPlaces
<1> QED
  BY <1>1, <1>2, Same, GivesUp

-----------------------------------------------------------------------------
(* The kernel *)

Entries == {"absent", "garbage", "breakpoint_handler", "double_fault_handler"}

Installed ==
    /\ idt[Breakpoint] = "breakpoint_handler"
    /\ idt[DoubleFault] = "double_fault_handler"
    /\ \A v \in Vectors \ {Breakpoint, DoubleFault} : idt[v] = "absent"

(* install_interrupts fills the table before load_idt lets the processor   *)
(* use it, and nothing changes it afterwards (interrupts.c:41-60).         *)
KInv ==
    /\ idt \in [Vectors -> Entries]
    /\ handlers # <<>> => pc \in KernelPlaces \cup {"undefined"}
    /\ pc = "clear" => /\ round \in Nat
                       /\ \A v \in Vectors : v < round => idt[v] = "absent"
    /\ pc = "entries" => \A v \in Vectors : idt[v] = "absent"
    /\ pc = "load" \/ idtr = "kernel" => Installed
    /\ idtr = "kernel" => pc \in {"report", "halted", "panic"}

IInv == LInv /\ KInv

(* The vectors of the two handlers are vectors.                            *)
LEMMA TwoVectors ==
    Breakpoint \in Vectors /\ DoubleFault \in Vectors /\ Breakpoint # DoubleFault
BY VectorAssumption DEF Breakpoint, DoubleFault, Vectors

LEMMA KernelInitHolds == Init => KInv
BY DEF Init, LoaderInit, KInv, Entries

(* While the loader runs nothing of the kernel does.                       *)
LEMMA LoaderPlaces ==
    ASSUME LoaderStep \/ ReadKey \/ FirmwareChangesMap
    PROVE  pc \notin KernelPlaces \cup {"undefined"} /\ pc' \notin KernelPlaces
<1> USE DEF Goto, Abort, Leave, KernelPlaces
<1>1. CASE Setup \/ LocateVolumes \/ TryVolume \/ OpenResources
  BY <1>1 DEF Setup, LocateVolumes, TryVolume, OpenResources
<1>2. CASE OpenFile \/ GetInfo \/ AllocatePages \/ ReadFile \/ CloseFile
  BY <1>2 DEF OpenFile, GetInfo, AllocatePages, ReadFile, CloseFile
<1>3. CASE UseConfig \/ UseFont \/ UseKernel
  BY <1>3 DEF UseConfig, UseFont, UseKernel
<1>4. CASE LocateGraphics \/ QueryMode \/ SetMode
  BY <1>4 DEF LocateGraphics, QueryMode, SetMode
<1>5. CASE GetMemoryMap \/ ExitBootServices \/ InitVirtualMapping \/ MapSegments
  BY <1>5 DEF GetMemoryMap, ExitBootServices, InitVirtualMapping, MapSegments
<1>6. CASE CloseFolders
  BY <1>6 DEF CloseFolders, CloseFolder, Undefined
<1>7. CASE Goodbye \/ ReadKey \/ FirmwareChangesMap
  BY <1>7 DEF Goodbye, ReadKey, FirmwareChangesMap
<1> QED
  BY <1>1, <1>2, <1>3, <1>4, <1>5, <1>6, <1>7 DEF LoaderStep

(* A step of the loader.                                                   *)
LEMMA LoaderHolds ==
    ASSUME IInv, LoaderStep \/ ReadKey \/ FirmwareChangesMap, UNCHANGED kernelVars
    PROVE  IInv'
<1>1. LInv'
  BY OpenHolds, InfoHolds, PagesHold, ReadHolds, CloseHolds, ConfigHolds, FontHolds,
     KernelFileHolds, SetupHolds, LocateHolds, VolumeHolds, ResourcesHold, GraphicsHold,
     ModesHold, SetModeHolds, MemoryMapHolds, FirmwareHolds, ExitHolds, MappingHolds,
     CloseFoldersHolds, FarewellHolds
     DEF IInv, LoaderStep
<1>2. pc \notin KernelPlaces \cup {"undefined"} /\ pc' \notin KernelPlaces
  BY LoaderPlaces
<1>3. handlers = <<>> /\ idtr # "kernel" /\ idt \in [Vectors -> Entries]
  BY <1>2 DEF IInv, KInv, KernelPlaces
<1>4. handlers' = <<>> /\ idtr' # "kernel" /\ idt' \in [Vectors -> Entries]
  BY <1>3 DEF kernelVars
<1>5. KInv'
  BY <1>2, <1>4 DEF KInv, KernelPlaces
<1> QED
  BY <1>1, <1>5 DEF IInv

(* The kernel and the processor touch nothing of the loader's.             *)
LEMMA KernelKeeps ==
    ASSUME IInv, KernelStep \/ Trap \/ Irq
    PROVE  LInv'
<1> USE DEF LoaderRest, memmap, KernelPlaces, At
<1>1. CASE Start \/ InitPageAllocator \/ ClearEntry \/ SetEntries \/ LoadIdt \/ Report
  <2>1. /\ pc \in {"kernel"} \cup KernelPlaces /\ pc' \in KernelPlaces
        /\ UNCHANGED <<file, held, services>>
    BY <1>1 DEF Start, InitPageAllocator, ClearEntry, SetEntries, LoadIdt, Report, kernelVars
  <2> QED
    BY <2>1, StaysHeld DEF IInv, LInv, PlacesAfter
<1>2. CASE Handle
  <2>1. /\ pc \in KernelPlaces /\ pc' \in KernelPlaces
        /\ UNCHANGED <<file, held, services>>
    BY <1>2 DEF Handle, IInv, KInv
  <2> QED
    BY <2>1, StaysHeld DEF IInv, LInv, PlacesAfter
<1>3. CASE Trap \/ Irq
  <2>1. /\ pc \in KernelPlaces /\ pc' \in KernelPlaces \cup {"undefined"}
        /\ UNCHANGED <<file, held, services>>
    BY <1>3 DEF Trap, Irq, KernelRuns, Deliver
  <2> QED
    BY <2>1, StaysHeld DEF IInv, LInv, PlacesAfter
<1> QED
  BY <1>1, <1>2, <1>3 DEF KernelStep

LEMMA Counted == \A n \in Nat : n + 1 \in Nat
OBVIOUS

\* Before its first round the loop has cleared nothing.
LEMMA NoneBelow == \A v \in Vectors : ~(v < 0)
BY VectorAssumption DEF Vectors

(* install_interrupts and load_idt (interrupts.c:41-60, irqs.s:61-71).     *)
LEMMA InstallHolds ==
    ASSUME KInv, ClearEntry \/ SetEntries \/ LoadIdt \/ Report
    PROVE  KInv'
<1> USE DEF KInv, At, KernelPlaces
<1>1. CASE ClearEntry
  <2>1. idtr' = idtr /\ idtr # "kernel" /\ handlers' = <<>>
    BY <1>1 DEF ClearEntry
  <2>2. CASE round < NumVectors
    <3>1. idt' = [idt EXCEPT ![round] = "absent"] /\ pc' = "clear"
      BY <1>1, <2>2 DEF ClearEntry
    <3>5. round \in Nat /\ round' = round + 1
      BY <1>1, <2>2 DEF ClearEntry
    <3>2. idt' \in [Vectors -> Entries]
      BY <3>1 DEF Entries
    <3>3. \A v \in Vectors : v < round' => idt'[v] = "absent"
      BY <1>1, <3>1, <3>5, VectorAssumption DEF ClearEntry, Vectors
    <3>4. round' \in Nat
      BY <3>5, Counted
    <3> QED
      BY <2>1, <3>1, <3>2, <3>3, <3>4
  <2>3. CASE ~(round < NumVectors)
    <3>1. idt' = idt /\ pc' = "entries" /\ round \in Nat
      BY <1>1, <2>3 DEF ClearEntry
    <3>2. \A v \in Vectors : idt[v] = "absent"
      BY <1>1, <2>3, <3>1, VectorAssumption DEF ClearEntry, Vectors
    <3> QED
      BY <2>1, <3>1, <3>2
  <2> QED
    BY <2>2, <2>3
<1>2. CASE SetEntries
  <2>1. /\ idt' = [idt EXCEPT ![Breakpoint] = "breakpoint_handler",
                              ![DoubleFault] = "double_fault_handler"]
        /\ pc' = "load" /\ idtr' = idtr /\ idtr # "kernel" /\ handlers' = <<>>
        /\ \A v \in Vectors : idt[v] = "absent"
    BY <1>2 DEF SetEntries
  <2>2. idt' \in [Vectors -> Entries]
    BY <2>1 DEF Entries
  <2>3. Installed'
    BY <2>1, TwoVectors DEF Installed
  <2> QED
    BY <2>1, <2>2, <2>3
<1>3. CASE LoadIdt
  BY <1>3 DEF LoadIdt, Installed
<1>4. CASE Report
  BY <1>4 DEF Report, kernelVars, Installed
<1> QED
  BY <1>1, <1>2, <1>3, <1>4

(* The other steps of the kernel.                                          *)
LEMMA KernelHolds ==
    ASSUME KInv, Start \/ InitPageAllocator \/ Handle
    PROVE  KInv'
<1> USE DEF KInv, At, KernelPlaces
<1>1. CASE Start
  BY <1>1 DEF Start, kernelVars
<1>2. CASE InitPageAllocator
  <2>1. /\ pc' \in {"clear", "halted"} /\ round' = 0 /\ handlers' = <<>>
        /\ UNCHANGED <<idt, idtr>>
    BY <1>2 DEF InitPageAllocator, kernelVars
  <2>2. \A v \in Vectors : ~(v < round')
    BY <2>1, NoneBelow
  <2>3. idt' \in [Vectors -> Entries] /\ idtr' # "kernel"
    BY <1>2, <2>1 DEF InitPageAllocator
  <2>4. round' \in Nat
    BY <2>1
  <2> QED
    BY <2>1, <2>2, <2>3, <2>4
<1>3. CASE Handle
  BY <1>3 DEF Handle, Installed
<1> QED
  BY <1>1, <1>2, <1>3

(* Where an exception or interrupt leads with the kernel's table.          *)
LEMMA Delivered ==
    ASSUME KInv, idtr = "kernel", NEW v \in Vectors, Deliver(v)
    PROVE  pc' = pc
<1> DEFINE entry == IF idt[v] = "absent" THEN DoubleFault ELSE v
<1>1. Installed
  BY DEF KInv
<1>2. idt[entry] \in {"breakpoint_handler", "double_fault_handler"}
  BY <1>1, TwoVectors DEF Installed
<1> QED
  BY <1>2 DEF Deliver

(* Exceptions and interrupts.                                              *)
LEMMA EventHolds ==
    ASSUME KInv, Trap \/ Irq
    PROVE  KInv' /\ (idtr = "kernel" => pc' = pc)
<1>1. PICK v \in Vectors : /\ Deliver(v) /\ KernelRuns
                           /\ UNCHANGED <<round, idt, idtr>>
  BY VectorAssumption DEF Trap, Irq
<1>2. pc' = pc \/ (pc' \in {"reset", "undefined"} /\ handlers' = handlers)
  BY <1>1 DEF Deliver
<1>3. idtr = "kernel" => pc' = pc
  BY <1>1, Delivered
<1>4. pc \in KernelPlaces
  BY <1>1 DEF KernelRuns, KernelPlaces
<1>5. KInv'
  BY <1>1, <1>2, <1>3, <1>4 DEF KInv, KernelPlaces, Installed
<1> QED
  BY <1>3, <1>5

(* Every step preserves the invariant.                                     *)
LEMMA InvNext == IInv /\ [Next]_vars => IInv'
<1> SUFFICES ASSUME IInv, [Next]_vars PROVE IInv'
  OBVIOUS
<1>1. CASE (LoaderStep \/ ReadKey \/ FirmwareChangesMap) /\ UNCHANGED kernelVars
  BY <1>1, LoaderHolds
<1>2. CASE KernelStep \/ Trap \/ Irq
  <2>1. LInv'
    BY <1>2, KernelKeeps
  <2>2. KInv'
    BY <1>2, InstallHolds, KernelHolds, EventHolds DEF IInv, KernelStep
  <2> QED
    BY <2>1, <2>2 DEF IInv
<1>3. CASE UNCHANGED vars
  BY <1>3 DEF vars, loaderVars, kernelVars, memmap, IInv, LInv, HeldBefore, Kept, IsRecord,
              Kernel, KInv, Installed
<1> QED
  BY <1>1, <1>2, <1>3 DEF Next

(* The inductive invariant of the boot sequence.                           *)
THEOREM Invariance == Spec => []IInv
<1>1. Init => IInv
  BY LoaderInitHolds, KernelInitHolds DEF IInv
<1> QED
  BY <1>1, InvNext, PTL DEF Spec

(* On every machine, whatever fails on the way, the loader ends boot       *)
(* services with nothing but the kernel's pages, two folders and two lists *)
(* of handles (uefi_boot.c:48-289).                                        *)
THEOREM NothingElse == Spec => []NothingElseKept
<1>1. IInv => NothingElseKept
  BY DEF IInv, LInv, NothingElseKept, Kernel, Kept, IsRecord, Folders
<1> QED
  BY <1>1, Invariance, PTL

(* For every number of vectors and whatever memory held at first, once the *)
(* interrupt table is loaded no exception and no interrupt resets the      *)
(* machine or runs what is not a handler (interrupts.c:41-60).             *)
THEOREM HandlersForAll == Spec => EveryVectorEndsInAHandler
<1>1. IInv /\ [Next]_vars => [idtr = "kernel" => pc' \notin {"reset", "undefined"}]_vars
  <2> SUFFICES ASSUME IInv, Next, idtr = "kernel"
               PROVE  pc' \notin {"reset", "undefined"}
    BY DEF vars
  <2>1. pc \in {"report", "halted", "panic"}
    BY DEF IInv, KInv
  <2>2. CASE LoaderStep \/ ReadKey \/ FirmwareChangesMap
    BY <2>1, <2>2, LoaderPlaces DEF KernelPlaces
  <2>3. CASE KernelStep
    BY <2>1, <2>3 DEF KernelStep, Start, InitPageAllocator, ClearEntry, SetEntries,
                      LoadIdt, Report, Handle, At
  <2>4. CASE Trap \/ Irq
    BY <2>1, <2>4, EventHolds DEF IInv
  <2> QED
    BY <2>2, <2>3, <2>4 DEF Next
<1> QED
  BY <1>1, Invariance, PTL DEF Spec, EveryVectorEndsInAHandler

-----------------------------------------------------------------------------
(* The way out *)

Early == {"setup", "locate", "volume", "resources"}
Late  == {"close resources", "goodbye", "key"}
WayOut == {"close boot"} \cup Late
FilePlaces == {"open", "info", "pages", "read", "close", "use"}
Later == FilePlaces \cup {"graphics", "modes", "map", "exit", "mapping", "segments"}

Got(f) == pointer[f] = "set"

(* Why a fault that has happened did.                                      *)
Explained ==
    \/ fault = "no second handle" /\ machine.gops = 1 /\ failed = {}
    \/ fault = "not opened" /\ failed \cap Early # {}
    \/ fault = "closed twice" /\ failed \cap Late # {}
    \/ fault = "services have ended" /\ failed = {"mapping"}

(* No call fails without a jump to `end`; a folder whose handle is set is  *)
(* open until the way out has closed it.                                   *)
FInv ==
    /\ DOMAIN pointer = Folders
    /\ pc \in Early \cup Later => failed = {}
    /\ pc \in Early => ~Got("resources") /\ (pc = "resources" <=> Got("boot"))
    /\ pc \in Later => Got("boot") /\ Got("resources")
    /\ pc \in WayOut =>
          /\ services => /\ (Got("boot") /\ Got("resources")) \/ failed \cap Early # {}
                         /\ Got("resources") \/ pc \in {"close boot", "close resources"}
                         /\ \/ failed \cap Late # {}
                            \/ /\ pc = "close boot" /\ Got("boot") => "boot" \in held.open
                               /\ Got("resources") => "resources" \in held.open
                            \/ pc \in {"goodbye", "key"}
          /\ ~services => pc = "close boot" /\ failed = {"mapping"}
    /\ pc = "undefined" => Explained

LEMMA FaultInit == Init => FInv
BY DEF Init, LoaderInit, FInv, Got, Folders, Early, Later, WayOut, Late, FilePlaces

(* A jump to `end` from before boot services end.                          *)
LEMMA Aborted ==
    ASSUME FInv, pc \in Early \cup Later, Abort, services' = TRUE,
           DOMAIN pointer' = Folders,
           pc \in Early \/ (Got("boot") /\ Got("resources"))',
           Got("boot")' => "boot" \in held'.open,
           Got("resources")' => "resources" \in held'.open
    PROVE  FInv'
<1>1. failed' = {pc} /\ pc' = "close boot"
  BY DEF FInv, Abort
<1>2. (Got("boot") /\ Got("resources"))' \/ failed' \cap Early # {}
  BY <1>1 DEF Early
<1> QED
  BY <1>1, <1>2 DEF FInv, Early, Later, FilePlaces, WayOut, Late

(* A step on the way to the kernel.                                        *)
LEMMA WentOn ==
    ASSUME FInv, pc \in Later, pc' \in Later \cup {"kernel", "returned"}, failed' = failed,
           pointer' = pointer
    PROVE  FInv'
BY DEF FInv, Got, Early, Later, FilePlaces, WayOut, Late

(* On that way the folders are open.                                       *)
LEMMA FoldersOpen ==
    ASSUME LInv, pc \in Later \ {"mapping", "segments"}
    PROVE  /\ services = TRUE /\ IsRecord /\ "boot" \in held.open /\ "resources" \in held.open
<1>1. services = TRUE /\ HeldBefore /\ IsRecord
  BY Underway DEF Later, FilePlaces, PlacesAfter, KernelPlaces
<1> QED
  BY <1>1 DEF HeldBefore, Kept, Folders, Later, FilePlaces

LEMMA OnwardFaults ==
    ASSUME LInv, FInv, pc \in Later \ {"mapping", "segments"},
           pointer' = pointer, services' = services,
           \/ pc' \in Later \cup {"returned"} /\ failed' = failed
           \/ /\ Abort
              /\ held' = held \/ (\E x : held' = With("open", x) \/ held' = With("pools", x))
    PROVE  FInv'
<1>1. services = TRUE /\ IsRecord /\ "boot" \in held.open /\ "resources" \in held.open
  BY FoldersOpen
<1>2. CASE pc' \in Later \cup {"returned"} /\ failed' = failed
  BY <1>2, WentOn
<1>3. CASE Abort /\ (held' = held \/ (\E x : held' = With("open", x) \/ held' = With("pools", x)))
  <2>1. "boot" \in held'.open /\ "resources" \in held'.open
    BY <1>1, <1>3, Gained
  <2>2. /\ DOMAIN pointer' = Folders /\ Got("boot")' /\ Got("resources")'
    BY DEF FInv, Got
  <2> QED
    BY <1>1, <1>3, <2>1, <2>2, Aborted
<1> QED
  BY <1>2, <1>3

LEMMA FileFaults ==
    ASSUME LInv, FInv, OpenFile \/ GetInfo \/ AllocatePages \/ ReadFile \/ CloseFile
    PROVE  FInv'
<1>1. pc \in FilePlaces /\ pointer' = pointer /\ services' = services
  BY DEF OpenFile, GetInfo, AllocatePages, ReadFile, CloseFile, FileStep, memmap, FilePlaces
<1>2. \/ pc' \in FilePlaces /\ failed' = failed
      \/ /\ Abort
         /\ held' = held \/ (\E x : held' = With("open", x) \/ held' = With("pools", x))
  BY DEF OpenFile, GetInfo, AllocatePages, ReadFile, CloseFile, Goto, FilePlaces
<1> QED
  BY <1>1, <1>2, OnwardFaults DEF Later, FilePlaces

LEMMA UseFaults == ASSUME LInv, FInv, UseConfig \/ UseFont \/ UseKernel PROVE FInv'
<1>1. pc = "use" /\ pointer' = pointer /\ services' = services
  BY DEF UseConfig, UseFont, UseKernel, FileStep, memmap
<1>2. \/ pc' \in {"open", "graphics", "returned"} /\ failed' = failed
      \/ Abort /\ held' = held
  BY DEF UseConfig, UseFont, UseKernel, Goto, Leave
<1> QED
  BY <1>1, <1>2, OnwardFaults DEF Later, FilePlaces

LEMMA ModeFaults ==
    ASSUME LInv, FInv, QueryMode \/ SetMode \/ GetMemoryMap
    PROVE  FInv'
<1>1. pc \in {"modes", "map"} /\ pointer' = pointer /\ services' = services
  BY DEF QueryMode, SetMode, GetMemoryMap, memmap
<1>2. \/ pc' \in {"modes", "map", "exit", "returned"} /\ failed' = failed
      \/ /\ Abort
         /\ held' = held \/ (\E x : held' = With("open", x) \/ held' = With("pools", x))
  BY DEF QueryMode, SetMode, GetMemoryMap, Goto, Leave
<1> QED
  BY <1>1, <1>2, OnwardFaults DEF Later, FilePlaces

LEMMA GraphicsFaults == ASSUME LInv, FInv, LocateGraphics PROVE FInv'
<1>1. pc = "graphics" /\ pointer' = pointer /\ services' = services /\ machine' = machine
  BY DEF LocateGraphics, memmap
<1>2. CASE machine.gops = 1 /\ Goto("undefined") /\ fault' = "no second handle"
  <2>1. failed = {} /\ failed' = {} /\ pc' = "undefined" /\ DOMAIN pointer' = Folders
    BY <1>1, <1>2 DEF FInv, Goto, Later
  <2>2. Explained'
    BY <1>1, <1>2, <2>1 DEF Explained
  <2> QED
    BY <2>1, <2>2 DEF FInv, Early, Later, FilePlaces, WayOut, Late
<1>3. CASE \/ pc' = "modes" /\ failed' = failed
           \/ Abort /\ (held' = held \/ held' = With("pools", "graphics"))
  BY <1>1, <1>3, OnwardFaults DEF Later
<1> QED
  BY <1>2, <1>3 DEF LocateGraphics, Goto

(* The last calls: what fails once boot services have ended is the         *)
(* mapping, and then the first call of the way out is undefined.           *)
LEMMA EndFaults ==
    ASSUME LInv, FInv, ExitBootServices \/ InitVirtualMapping \/ MapSegments
    PROVE  FInv'
<1>1. pointer' = pointer
  BY DEF ExitBootServices, InitVirtualMapping, MapSegments
<1>2. CASE ExitBootServices
  <2>1. pc = "exit"
    BY <1>2 DEF ExitBootServices
  <2>2. CASE Goto("mapping")
    BY <1>1, <2>1, <2>2, WentOn DEF Goto, Later
  <2>3. CASE Abort /\ UNCHANGED services
    BY <1>1, <1>2, <2>1, <2>3, OnwardFaults DEF ExitBootServices, Later
  <2> QED
    BY <1>2, <2>2, <2>3 DEF ExitBootServices
<1>3. CASE InitVirtualMapping \/ MapSegments
  <2>1. pc \in {"mapping", "segments"} /\ services = FALSE /\ services' = FALSE /\ failed = {}
    BY <1>3 DEF InitVirtualMapping, MapSegments, LInv, FInv, memmap, Later
  <2>2. CASE pc' \in {"segments", "kernel", "returned"} /\ failed' = failed
    BY <1>1, <2>1, <2>2, WentOn DEF Later
  <2>3. CASE pc = "mapping" /\ pc' = "close boot" /\ failed' = {"mapping"}
    BY <1>1, <2>1, <2>3 DEF FInv, Early, Later, FilePlaces, WayOut, Late
  <2> QED
    BY <1>3, <2>1, <2>2, <2>3 DEF InitVirtualMapping, MapSegments, Goto, Abort, Leave
<1> QED
  BY <1>2, <1>3

(* Before the folders are open (uefi_boot.c:48-95, uefi_file.c:5-53).      *)
LEMMA EarlyHeld ==
    ASSUME LInv, pc \in Early
    PROVE  services = TRUE /\ IsRecord /\ (pc = "resources" => "boot" \in held.open)
<1>1. services = TRUE /\ HeldBefore /\ IsRecord
  BY Underway DEF Early, PlacesAfter, KernelPlaces
<1> QED
  BY <1>1 DEF HeldBefore, Kept

LEMMA SetupFaults == ASSUME LInv, FInv, Setup PROVE FInv'
<1>1. pc = "setup" /\ services' = TRUE /\ held' = held
  BY EarlyHeld DEF Setup, memmap, Early
<1>2. CASE Goto("locate") /\ pointer' = [f \in Folders |-> "null"]
  BY <1>1, <1>2 DEF FInv, Got, Goto, Folders, Early, Later, FilePlaces, WayOut, Late
<1>3. CASE Abort /\ UNCHANGED pointer
  <2>1. ~Got("boot")' /\ ~Got("resources")' /\ DOMAIN pointer' = Folders
    BY <1>1, <1>3 DEF FInv, Got, Early
  <2> QED
    BY <1>1, <1>3, <2>1, Aborted DEF Early
<1> QED
  BY <1>2, <1>3 DEF Setup

LEMMA LocateFaults == ASSUME LInv, FInv, LocateVolumes PROVE FInv'
<1>1. pc = "locate" /\ services' = TRUE /\ pointer' = pointer
  BY EarlyHeld DEF LocateVolumes, memmap, Early
<1>2. ~Got("boot")' /\ ~Got("resources")' /\ DOMAIN pointer' = Folders
  BY <1>1 DEF FInv, Got, Early
<1>3. CASE Goto("volume")
  BY <1>1, <1>2, <1>3 DEF FInv, Goto, Early, Later, FilePlaces, WayOut, Late
<1>4. CASE Abort
  BY <1>1, <1>2, <1>4, Aborted DEF Early
<1> QED
  BY <1>3, <1>4 DEF LocateVolumes

LEMMA VolumeFaults == ASSUME LInv, FInv, TryVolume PROVE FInv'
<1>1. /\ pc = "volume" /\ services' = TRUE /\ IsRecord
      /\ DOMAIN pointer = Folders /\ ~Got("boot") /\ ~Got("resources") /\ failed = {}
  BY EarlyHeld DEF TryVolume, memmap, Early, FInv
<1>2. CASE pointer' = pointer
  <2>1. ~Got("boot")' /\ ~Got("resources")' /\ DOMAIN pointer' = Folders
    BY <1>1, <1>2 DEF Got
  <2>2. CASE Goto("volume")
    BY <1>1, <2>1, <2>2 DEF FInv, Goto, Early, Later, FilePlaces, WayOut, Late
  <2>3. CASE Abort
    BY <1>1, <2>1, <2>3, Aborted DEF Early
  <2>4. CASE Goto("resources") /\ pointer' = [pointer EXCEPT !["boot"] = "set"]
    BY <1>1, <2>1, <2>4 DEF Got, Folders
  <2> QED
    BY <1>2, <2>2, <2>3, <2>4 DEF TryVolume
<1>3. CASE pointer' = [pointer EXCEPT !["boot"] = "set"]
  <2>1. Got("boot")' /\ ~Got("resources")' /\ DOMAIN pointer' = Folders
    BY <1>1, <1>3 DEF Got, Folders
  <2>2. CASE Goto("resources")
    BY <1>1, <2>1, <2>2 DEF FInv, Goto, Early, Later, FilePlaces, WayOut, Late
  <2>3. CASE Abort /\ held' = [held EXCEPT !.open = @ \cup {"volume", "boot"}]
    <3>1. "boot" \in held'.open
      BY <1>1, <2>3 DEF IsRecord
    <3> QED
      BY <1>1, <2>1, <2>3, <3>1, Aborted DEF Early
  <2>4. pointer' # pointer
    BY <1>1, <2>1 DEF Got
  <2> QED
    BY <1>3, <2>2, <2>3, <2>4 DEF TryVolume
<1> QED
  BY <1>2, <1>3 DEF TryVolume

LEMMA ResourcesFaults == ASSUME LInv, FInv, OpenResources PROVE FInv'
<1>1. /\ pc = "resources" /\ services' = TRUE /\ "boot" \in held.open
      /\ DOMAIN pointer = Folders /\ Got("boot") /\ ~Got("resources") /\ failed = {}
  BY EarlyHeld DEF OpenResources, memmap, Early, FInv
<1>2. CASE Goto("open") /\ pointer' = [pointer EXCEPT !["resources"] = "set"]
  <2>1. Got("boot")' /\ Got("resources")' /\ DOMAIN pointer' = Folders
    BY <1>1, <1>2 DEF Got, Folders
  <2> QED
    BY <1>1, <1>2, <2>1 DEF FInv, Goto, Early, Later, FilePlaces, WayOut, Late
<1>3. CASE Abort /\ UNCHANGED <<held, pointer>>
  <2>1. ~Got("resources")' /\ DOMAIN pointer' = Folders /\ "boot" \in held'.open
    BY <1>1, <1>3 DEF Got
  <2> QED
    BY <1>1, <1>3, <2>1, Aborted DEF Early
<1> QED
  BY <1>2, <1>3 DEF OpenResources

(* The way out itself (uefi_boot.c:351-366).                               *)
LEMMA ClosingFaults == ASSUME LInv, FInv, CloseFolders PROVE FInv'
<1> USE DEF WayOut, Late
<1>1. pointer' = pointer /\ services' = services /\ DOMAIN pointer' = Folders
  BY DEF CloseFolders, memmap, FInv
<1>2. \A what : Undefined(what) /\ Explained' => FInv'
  BY <1>1 DEF Undefined, FInv, Early, Later, FilePlaces
<1>3. CASE ~services
  <2>1. Undefined("services have ended") /\ failed' = {"mapping"}
    BY <1>3 DEF CloseFolders, CloseFolder, Undefined, FInv
  <2> QED
    BY <1>2, <2>1 DEF Explained, Undefined
<1>4. CASE services
  <2>1. IsRecord
    BY DEF LInv
  <2>f. PICK f \in Folders :
           \E next : /\ \/ f = "boot" /\ pc = "close boot" /\ next = "close resources"
                        \/ f = "resources" /\ pc = "close resources" /\ next = "goodbye"
                     /\ CloseFolder(f, next)
    BY DEF CloseFolders, Folders
  <2>2. PICK next : /\ \/ f = "boot" /\ pc = "close boot" /\ next = "close resources"
                       \/ f = "resources" /\ pc = "close resources" /\ next = "goodbye"
                    /\ CloseFolder(f, next)
    BY <2>f
  <2>3. /\ (Got("boot") /\ Got("resources")) \/ failed \cap Early # {}
        /\ \/ failed \cap Late # {}
           \/ /\ pc = "close boot" /\ Got("boot") => "boot" \in held.open
              /\ Got("resources") => "resources" \in held.open
    BY <1>4, <2>2 DEF FInv
  <2>4. CASE Undefined("not opened")
    <3>1. ~Got(f)
      BY <1>4, <2>2, <2>4 DEF CloseFolder, Undefined, Goto, Abort, Got
    <3>2. failed \cap Early # {}
      BY <2>2, <2>3, <3>1
    <3> QED
      BY <1>2, <2>4, <3>2 DEF Explained, Undefined
  <2>5. CASE Undefined("closed twice")
    <3>1. Got(f) /\ f \notin held.open
      BY <1>4, <2>2, <2>5 DEF CloseFolder, Undefined, Goto, Abort, Got
    <3>2. failed \cap Late # {}
      BY <2>2, <2>3, <3>1
    <3> QED
      BY <1>2, <2>5, <3>2 DEF Explained, Undefined
  <2>6. CASE Goto(next) /\ held' = Without("open", f) /\ Got(f)
    <3>1. held'.open = held.open \ {f}
      BY <2>1, <2>6, GivenUp
    <3>2. (Got("boot") /\ Got("resources"))' \/ failed' \cap Early # {}
      BY <1>1, <2>3, <2>6 DEF Got, Goto
    <3>3. Got("resources")' \/ next = "close resources"
      BY <1>1, <2>2, <2>6 DEF Got
    <3>4. \/ failed' \cap Late # {}
          \/ Got("resources")' => "resources" \in held'.open
          \/ next = "goodbye"
      BY <1>1, <2>2, <2>3, <2>6, <3>1 DEF Got, Goto
    <3>5. pc' = next /\ next \in {"close resources", "goodbye"} /\ services' = TRUE
      BY <1>1, <1>4, <2>2, <2>6 DEF Goto, LInv
    <3> QED
      BY <1>1, <3>2, <3>3, <3>4, <3>5 DEF FInv, Early, Later, FilePlaces
  <2>7. CASE Abort /\ held' = held
    <3>1. pc' = "close boot" /\ failed' = failed \cup {pc} /\ services' = TRUE
      BY <1>1, <1>4, <2>7 DEF Abort, LInv
    <3>2. (Got("boot") /\ Got("resources"))' \/ failed' \cap Early # {}
      BY <1>1, <2>3, <3>1 DEF Got
    <3>3. \/ failed' \cap Late # {}
          \/ /\ Got("boot")' => "boot" \in held'.open
             /\ Got("resources")' => "resources" \in held'.open
      BY <1>1, <2>2, <2>3, <2>7, <3>1 DEF Got
    <3> QED
      BY <1>1, <3>1, <3>2, <3>3 DEF FInv, Early, Later, FilePlaces
  <2> QED
    BY <1>4, <2>2, <2>4, <2>5, <2>6, <2>7 DEF CloseFolder, Got
<1> QED
  BY <1>3, <1>4

LEMMA FarewellFaults == ASSUME LInv, FInv, Goodbye \/ ReadKey PROVE FInv'
<1> USE DEF WayOut, Late
<1>1. /\ pc \in {"goodbye", "key"} /\ pointer' = pointer /\ services' = services
      /\ DOMAIN pointer' = Folders
  BY DEF Goodbye, ReadKey, memmap, FInv
<1>2. services = TRUE
  BY <1>1 DEF LInv, PlacesAfter, KernelPlaces
<1>3. (Got("boot") /\ Got("resources"))' \/ failed \cap Early # {}
  BY <1>1, <1>2 DEF FInv, Got
<1>4. CASE Goto("key")
  BY <1>1, <1>2, <1>3, <1>4 DEF FInv, Got, Goto, Early, Later, FilePlaces
<1>5. CASE Abort
  <2>1. pc' = "close boot" /\ failed' = failed \cup {pc}
    BY <1>5 DEF Abort
  <2> QED
    BY <1>1, <1>2, <1>3, <2>1 DEF FInv, Early, Later, FilePlaces
<1>6. CASE Leave
  BY <1>1, <1>6 DEF FInv, Leave, Early, Later, FilePlaces
<1> QED
  BY <1>4, <1>5, <1>6 DEF Goodbye, ReadKey

LEMMA FirmwareFaults == ASSUME FInv, FirmwareChangesMap PROVE FInv'
BY DEF FirmwareChangesMap, FInv, Got, Explained, Early, Later, FilePlaces, WayOut, Late

-----------------------------------------------------------------------------
(* In the kernel nothing is undefined: before its own table is loaded the  *)
(* firmware's is in use, with which any event resets the machine.          *)
KernelsOrFirmwares == idtr \in {"firmware", "kernel"}

LEMMA KernelFaults ==
    ASSUME KInv, FInv, KernelsOrFirmwares, KernelStep \/ Trap \/ Irq
    PROVE  FInv'
<1>1. pc' \in KernelPlaces
  <2>1. CASE KernelStep
    BY <2>1 DEF KernelStep, Start, InitPageAllocator, ClearEntry, SetEntries, LoadIdt, Report, Handle,
                At, KernelPlaces, KInv
  <2>2. CASE Trap \/ Irq
    <3>1. PICK v \in Vectors : Deliver(v) /\ KernelRuns
      BY <2>2, VectorAssumption DEF Trap, Irq
    <3>2. CASE idtr = "kernel"
      BY <3>1, <3>2, Delivered DEF KernelRuns, KernelPlaces
    <3>3. CASE idtr = "firmware"
      BY <3>1, <3>3 DEF Deliver, KernelPlaces
    <3> QED
      BY <3>2, <3>3 DEF KernelsOrFirmwares
  <2> QED
    BY <2>1, <2>2
<1>2. pointer' = pointer
  BY DEF KernelStep, Start, InitPageAllocator, ClearEntry, SetEntries, LoadIdt, Report, Handle,
         Trap, Irq, LoaderRest
<1> QED
  BY <1>1, <1>2 DEF FInv, KernelPlaces, Early, Later, FilePlaces, WayOut, Late

LEMMA TableInUse == KernelsOrFirmwares /\ [Next]_vars => KernelsOrFirmwares'
BY DEF KernelsOrFirmwares, Next, vars, kernelVars, KernelStep, Start, InitPageAllocator,
       ClearEntry, SetEntries, LoadIdt, Report, Handle, Trap, Irq

LEMMA FaultsNext == IInv /\ KernelsOrFirmwares /\ FInv /\ [Next]_vars => FInv'
<1> SUFFICES ASSUME IInv, KernelsOrFirmwares, FInv, [Next]_vars
             PROVE  FInv'
  OBVIOUS
<1>1. CASE LoaderStep \/ ReadKey \/ FirmwareChangesMap
  BY <1>1, SetupFaults, LocateFaults, VolumeFaults, ResourcesFaults, FileFaults, UseFaults,
     GraphicsFaults, ModeFaults, EndFaults, ClosingFaults, FarewellFaults, FirmwareFaults
     DEF IInv, LoaderStep
<1>2. CASE KernelStep \/ Trap \/ Irq
  BY <1>2, KernelFaults DEF IInv
<1>3. CASE UNCHANGED vars
  BY <1>3 DEF vars, loaderVars, memmap, FInv, Got, Explained, Early, Later, FilePlaces,
              WayOut, Late
<1> QED
  BY <1>1, <1>2, <1>3 DEF Next

(* On every machine, whatever fails: when the loader does what is          *)
(* undefined, it is for want of a second graphics handle, or a folder it   *)
(* had not opened, or one it had closed, or boot services that had ended,  *)
(* each after the failure that leads there and no other                    *)
(* (uefi_boot.c:203, 351-364).                                             *)
THEOREM Faults == Spec => []AbortPathFaults
<1>1. Init => FInv /\ KernelsOrFirmwares
  BY FaultInit DEF Init, KernelsOrFirmwares
<1>2. FInv => AbortPathFaults
  BY DEF FInv, Explained, AbortPathFaults, Early, Late
<1> QED
  BY <1>1, <1>2, Invariance, FaultsNext, TableInUse, PTL DEF Spec

-----------------------------------------------------------------------------
(* What the kernel is told *)

ModesDone == {"map", "exit", "mapping", "segments", "kernel"}
FontDone == {"graphics", "modes"} \cup ModesDone

FontKnown == machine.font.ok /\ font = machine.font.size /\ FontFits(font)

Fits(i) == machine.modes[i].width = Width /\ machine.modes[i].height = Height

\* The table has the scan line of one of the modes that are wide enough.
TableFrom(i) ==
    /\ machine.modes[i].width = Width
    /\ table = [width |-> Width, height |-> Height, stride |-> machine.modes[i].stride]

\* What is written down after n modes.
ModeKnown(n) ==
    chosen # 0 => chosen \in 1 .. n /\ Fits(chosen) /\ \E i \in 1 .. n : TableFrom(i)

ModeShown == chosen # 0 /\ shown \in {machine.modes[chosen], NoMode}

(* What efi_main knows of the font, of the graphics modes and of the       *)
(* firmware's memory map, from where it has learned it.                    *)
TInv ==
    /\ machine \in Machines
    /\ pc \in Early => file = "config"
    /\ pc \in Early \cup FilePlaces \cup {"graphics"} => chosen = 0
    /\ (pc \in FilePlaces /\ file = "kernel") \/ pc \in FontDone => FontKnown
    /\ pc = "modes" => round \in 0 .. Len(machine.modes) /\ ModeKnown(round)
    /\ pc \in ModesDone => ModeKnown(Len(machine.modes)) /\ ModeShown
    /\ pc \in {"mapping", "segments", "kernel"} => key = changes

LEMMA Modes ==
    ASSUME machine \in Machines
    PROVE  /\ Len(machine.modes) \in Nat
           /\ \A i \in 1 .. Len(machine.modes) :
                 /\ machine.modes[i].width \in Nat /\ machine.modes[i].stride \in Nat
                 /\ machine.modes[i] = [width |-> machine.modes[i].width,
                                        height |-> machine.modes[i].height,
                                        stride |-> machine.modes[i].stride]
           /\ DOMAIN machine.modes = 1 .. Len(machine.modes)
<1> DEFINE modes == machine.modes
           Shapes == [width : Nat, height : Nat, stride : Nat]
<1>1. modes \in Seq(Shapes)
  BY LoaderAssumption
<1>2. \A x \in Shapes :
         /\ x.width \in Nat /\ x.stride \in Nat
         /\ x = [width |-> x.width, height |-> x.height, stride |-> x.stride]
  OBVIOUS
<1> HIDE DEF modes, Shapes
<1>3. /\ Len(modes) \in Nat /\ DOMAIN modes = 1 .. Len(modes)
      /\ \A i \in 1 .. Len(modes) : modes[i] \in Shapes
  BY <1>1
<1>4. \A i \in 1 .. Len(modes) :
         /\ modes[i].width \in Nat /\ modes[i].stride \in Nat
         /\ modes[i] = [width |-> modes[i].width, height |-> modes[i].height,
                        stride |-> modes[i].stride]
  BY <1>2, <1>3
<1> QED
  BY <1>3, <1>4 DEF modes

LEMMA TableInit == Init => TInv
BY DEF Init, LoaderInit, TInv, FilePlaces, FontDone, ModesDone

(* A jump to `end`, a return, or an undefined step.                        *)
LEMMA OffTheWay ==
    ASSUME TInv, machine' = machine,
           pc' \notin Early \cup FilePlaces \cup FontDone
    PROVE  TInv'
BY DEF TInv, FontDone, ModesDone

(* The steps that read the files, before the graphics modes.               *)
LEMMA ReadOn ==
    ASSUME TInv, pc \in Early \cup FilePlaces,
           pc' \in Early \cup FilePlaces \cup {"graphics"},
           pc \in FilePlaces => pc' \notin Early,
           pc' = "graphics" => pc \in FilePlaces /\ file = "kernel",
           UNCHANGED <<machine, video, file, font>>
    PROVE  TInv'
<1>1. chosen' = 0 /\ machine' \in Machines
  BY DEF TInv, video
<1>2. FontKnown => FontKnown'
  BY DEF FontKnown
<1>3. (pc' \in FilePlaces /\ file' = "kernel") \/ pc' = "graphics" => FontKnown'
  BY <1>2 DEF TInv
<1>4. pc' \in Early => file' = "config"
  BY DEF TInv
<1> QED
  BY <1>1, <1>3, <1>4 DEF TInv, Early, FilePlaces, FontDone, ModesDone

LEMMA EarlyTable ==
    ASSUME TInv, Setup \/ LocateVolumes \/ TryVolume \/ OpenResources
    PROVE  TInv'
<1>1. pc \in Early /\ UNCHANGED <<machine, video, file, font>>
  BY DEF Setup, LocateVolumes, TryVolume, OpenResources, Early
<1>2. pc' = "close boot" \/ pc' \in Early \cup {"open"}
  BY DEF Setup, LocateVolumes, TryVolume, OpenResources, Early, Goto, Abort
<1>3. CASE pc' = "close boot"
  BY <1>1, <1>3, OffTheWay DEF Early, FilePlaces, FontDone, ModesDone
<1>4. CASE pc' \in Early \cup {"open"}
  BY <1>1, <1>4, ReadOn DEF Early, FilePlaces
<1> QED
  BY <1>2, <1>3, <1>4

LEMMA FileTable ==
    ASSUME TInv, OpenFile \/ GetInfo \/ AllocatePages \/ ReadFile \/ CloseFile \/ UseKernel
    PROVE  TInv'
<1>1. pc \in FilePlaces /\ UNCHANGED <<machine, video, file, font>>
  BY DEF OpenFile, GetInfo, AllocatePages, ReadFile, CloseFile, UseKernel, FileStep, FilePlaces
<1>2. \/ pc' \in {"close boot", "returned"} \/ pc' \in FilePlaces
      \/ pc' = "graphics" /\ file = "kernel"
  BY DEF OpenFile, GetInfo, AllocatePages, ReadFile, CloseFile, UseKernel, FilePlaces, Goto,
         Abort, Leave
<1>3. CASE pc' \in {"close boot", "returned"}
  BY <1>1, <1>3, OffTheWay DEF Early, FilePlaces, FontDone, ModesDone
<1>4. CASE pc' \in FilePlaces \/ (pc' = "graphics" /\ file = "kernel")
  BY <1>1, <1>4, ReadOn DEF Early, FilePlaces
<1> QED
  BY <1>2, <1>3, <1>4

(* The font that is copied is a font and fits (uefi_boot.c:111-148).       *)
LEMMA UseTable == ASSUME TInv, UseConfig \/ UseFont PROVE TInv'
<1>1. /\ pc = "use" /\ machine' = machine /\ machine' \in Machines /\ UNCHANGED video
      /\ chosen' = 0
  BY DEF UseConfig, UseFont, TInv, FilePlaces, video
<1>2. \/ pc' \in {"close boot", "returned"}
      \/ pc' = "open" /\ (file' = "kernel" => FontKnown')
  <2>1. CASE UseConfig
    BY <2>1 DEF UseConfig, Goto, Abort
  <2>2. CASE UseFont
    BY <1>1, <2>2 DEF UseFont, Goto, Abort, Leave, FontKnown
  <2> QED
    BY <2>1, <2>2
<1> QED
  BY <1>1, <1>2 DEF TInv, Early, FilePlaces, FontDone, ModesDone

(* The loop over the graphics modes (uefi_boot.c:205-238).                 *)
LEMMA GraphicsTable == ASSUME TInv, LocateGraphics PROVE TInv'
<1>1. /\ pc = "graphics" /\ machine \in Machines /\ FontKnown /\ chosen = 0
      /\ UNCHANGED <<machine, font, video>> /\ round' = 0
  BY DEF LocateGraphics, TInv, FontDone
<1>2. CASE pc' # "modes"
  BY <1>1, <1>2, OffTheWay DEF LocateGraphics, Goto, Abort, Early, FilePlaces, FontDone, ModesDone
<1>3. CASE pc' = "modes"
  <2>1. FontKnown' /\ chosen' = 0 /\ machine' \in Machines /\ machine' = machine
    BY <1>1 DEF FontKnown, video
  <2>2. round' \in 0 .. Len(machine'.modes)
    BY <1>1, <2>1, Modes
  <2>3. ModeKnown(round)'
    BY <2>1 DEF ModeKnown
  <2> QED
    BY <1>3, <2>1, <2>2, <2>3 DEF TInv, Early, FilePlaces, FontDone, ModesDone
<1> QED
  BY <1>2, <1>3

LEMMA QueryTable == ASSUME TInv, QueryMode PROVE TInv'
<1>1. /\ pc = "modes" /\ machine \in Machines /\ FontKnown
      /\ round \in 0 .. Len(machine.modes) /\ round < Len(machine.modes) /\ ModeKnown(round)
      /\ UNCHANGED <<machine, font>>
  BY DEF QueryMode, TInv, FontDone
<1>2. CASE Abort
  BY <1>1, <1>2, OffTheWay DEF Abort, Early, FilePlaces, FontDone, ModesDone
<1>3. CASE Goto("modes") /\ round' = round + 1 /\ Remembered(machine.modes[round + 1])
  <2>1. PICK n : n = round + 1
    OBVIOUS
  <2> DEFINE mode == machine.modes[n]
  <2>2. /\ n \in 1 .. Len(machine.modes) /\ 1 .. n = 1 .. round \cup {n} /\ round' = n
    BY <1>1, <1>3, <2>1, Modes
  <2>3. chosen' # 0 => /\ chosen' \in 1 .. n
                       /\ Fits(chosen')
                       /\ \E i \in 1 .. n : TableFrom(i)'
    <3>1. CASE mode.width = Width
      <4>1. TableFrom(n)'
        BY <1>1, <1>3, <2>1, <3>1 DEF Remembered, TableFrom
      <4>2. CASE mode.height = Height
        <5>1. chosen' = n
          BY <1>3, <2>1, <3>1, <4>2 DEF Remembered
        <5> QED
          BY <2>2, <3>1, <4>1, <4>2, <5>1 DEF Fits
      <4>3. CASE mode.height # Height
        <5>1. chosen' = chosen
          BY <1>3, <2>1, <4>3 DEF Remembered
        <5> QED
          BY <1>1, <2>2, <4>1, <5>1 DEF ModeKnown
      <4> QED
        BY <4>2, <4>3
    <3>2. CASE mode.width # Width
      <4>1. chosen' = chosen /\ table' = table
        BY <1>3, <2>1, <3>2 DEF Remembered
      <4>2. \A i : TableFrom(i) => TableFrom(i)'
        BY <1>1, <4>1 DEF TableFrom
      <4> QED
        BY <1>1, <2>2, <4>1, <4>2 DEF ModeKnown
    <3> QED
      BY <3>1, <3>2
  <2>4. ModeKnown(round)'
    BY <1>1, <2>2, <2>3 DEF ModeKnown, Fits
  <2>5. FontKnown' /\ machine' = machine /\ round' \in 0 .. Len(machine.modes)
    BY <1>1, <2>2, Modes DEF FontKnown
  <2> QED
    BY <1>1, <1>3, <2>4, <2>5 DEF TInv, Goto, Early, FilePlaces, FontDone, ModesDone
<1> QED
  BY <1>2, <1>3 DEF QueryMode

LEMMA SetTable == ASSUME TInv, SetMode PROVE TInv'
<1>1. /\ pc = "modes" /\ machine' = machine /\ FontKnown /\ ModeKnown(Len(machine.modes))
      /\ UNCHANGED <<font, chosen, table>> /\ machine \in Machines
  BY DEF SetMode, TInv, FontDone
<1>2. CASE pc' # "map"
  BY <1>1, <1>2, OffTheWay DEF SetMode, Leave, Goto, Abort, Early, FilePlaces, FontDone, ModesDone
<1>3. CASE pc' = "map"
  <2>1. ModeShown'
    BY <1>1, <1>3 DEF SetMode, ModeShown, Leave
  <2>2. ModeKnown(Len(machine.modes))' /\ FontKnown'
    BY <1>1 DEF ModeKnown, Fits, TableFrom, FontKnown
  <2> QED
    BY <1>1, <1>3, <2>1, <2>2 DEF TInv, Early, FilePlaces, FontDone, ModesDone
<1> QED
  BY <1>2, <1>3

(* From there nothing of it changes; boot services end only for one who    *)
(* knows the present memory map, which then stays (uefi_boot.c:265-320).   *)
LEMMA CallTable ==
    ASSUME TInv, \/ GetMemoryMap \/ ExitBootServices \/ InitVirtualMapping \/ MapSegments
                 \/ FirmwareChangesMap
    PROVE  TInv'
<1>1. pc \in {"map", "exit", "mapping", "segments"} /\ UNCHANGED <<machine, font, video>>
  BY DEF GetMemoryMap, ExitBootServices, InitVirtualMapping, MapSegments, FirmwareChangesMap
<1>2. /\ machine \in Machines /\ FontKnown /\ ModeKnown(Len(machine.modes)) /\ ModeShown
  BY <1>1 DEF TInv, FontDone, ModesDone
<1>3. /\ machine' \in Machines /\ FontKnown' /\ ModeKnown(Len(machine.modes))' /\ ModeShown'
  BY <1>1, <1>2 DEF FontKnown, ModeKnown, Fits, TableFrom, ModeShown, video
<1>4. pc' \in {"mapping", "segments", "kernel"} => (key = changes)'
  BY DEF GetMemoryMap, ExitBootServices, InitVirtualMapping, MapSegments, FirmwareChangesMap,
         TInv, Goto, Abort, Leave, memmap
<1>5. pc' \in ModesDone \cup {"close boot", "returned"}
  BY DEF GetMemoryMap, ExitBootServices, InitVirtualMapping, MapSegments, FirmwareChangesMap,
         Goto, Abort, Leave, ModesDone
<1> QED
  BY <1>3, <1>4, <1>5 DEF TInv, Early, FilePlaces, FontDone, ModesDone

LEMMA OutTable ==
    ASSUME TInv, CloseFolders \/ Goodbye \/ ReadKey
    PROVE  TInv'
<1>1. machine' = machine /\ pc' \in WayOut \cup {"undefined", "returned"}
  BY DEF CloseFolders, CloseFolder, Undefined, Goodbye, ReadKey, Goto, Abort, Leave, WayOut, Late
<1> QED
  BY <1>1, OffTheWay DEF WayOut, Late, Early, FilePlaces, FontDone, ModesDone

LEMMA KernelTable ==
    ASSUME KInv, TInv, KernelStep \/ Trap \/ Irq
    PROVE  TInv'
<1>1. machine' = machine
  BY DEF KernelStep, Start, InitPageAllocator, ClearEntry, SetEntries, LoadIdt, Report, Handle,
         Trap, Irq, LoaderRest
<1>2. pc' \in KernelPlaces \cup {"undefined"}
  BY DEF KernelStep, Start, InitPageAllocator, ClearEntry, SetEntries, LoadIdt, Report, Handle,
         At, KernelPlaces, KInv, Trap, Irq, KernelRuns, Deliver
<1> QED
  BY <1>1, <1>2, OffTheWay DEF KernelPlaces, Early, FilePlaces, FontDone, ModesDone

LEMMA TableNext == IInv /\ TInv /\ [Next]_vars => TInv'
<1> SUFFICES ASSUME IInv, TInv, [Next]_vars PROVE TInv'
  OBVIOUS
<1>1. CASE LoaderStep \/ ReadKey \/ FirmwareChangesMap
  BY <1>1, EarlyTable, FileTable, UseTable, GraphicsTable, QueryTable, SetTable, CallTable,
     OutTable DEF LoaderStep
<1>2. CASE KernelStep \/ Trap \/ Irq
  BY <1>2, KernelTable DEF IInv
<1>3. CASE UNCHANGED vars
  BY <1>3 DEF vars, loaderVars, memmap, video, TInv, FontKnown, ModeKnown, Fits, TableFrom,
              ModeShown
<1> QED
  BY <1>1, <1>2, <1>3 DEF Next

(* Whatever the invariant knows is what the kernel is told.                *)
LEMMA Described == ASSUME TInv PROVE TableDescribesMachine
<1> SUFFICES ASSUME pc = "kernel" PROVE TableDescribesMachine
  BY DEF TableDescribesMachine
<1> DEFINE modes == machine.modes
           mode == modes[chosen]
           wide == {k \in DOMAIN modes : modes[k].width = Width}
           alike == {modes[i].stride : i \in wide}
<1>1. /\ machine \in Machines /\ FontKnown /\ ModeKnown(Len(modes)) /\ ModeShown
      /\ key = changes
  BY DEF TInv, FontDone, ModesDone
<1>2. font =< FontPages * PageUnits
  <2>1. machine.font.size \in Nat
    BY <1>1, LoaderAssumption
  <2>2. font \in Nat /\ font \div PageUnits + 1 =< FontPages
    BY <1>1, <2>1 DEF FontKnown, FontFits, PagesOf
  <2>3. font < (font \div PageUnits + 1) * PageUnits
    BY <2>2, LoaderAssumption
  <2>4. font \div PageUnits \in Nat
    BY <2>2, LoaderAssumption
  <2>5. \A a, b, c \in Nat : a =< b => a * c =< b * c
    OBVIOUS
  <2>6. (font \div PageUnits + 1) * PageUnits =< FontPages * PageUnits
    BY <2>2, <2>4, <2>5, LoaderAssumption
  <2> QED
    BY <2>2, <2>3, <2>4, <2>6, LoaderAssumption
<1>3. PICK i \in 1 .. Len(modes) : TableFrom(i)
  BY <1>1 DEF ModeKnown, ModeShown
<1>4. /\ chosen \in 1 .. Len(modes) /\ mode.width = Width /\ mode.height = Height
      /\ shown \in {mode, NoMode}
  BY <1>1 DEF ModeKnown, ModeShown, Fits
<1>5. mode = [width |-> Width, height |-> Height, stride |-> mode.stride]
  BY <1>1, <1>4, Modes
<1>6. table = [width |-> Width, height |-> Height, stride |-> modes[i].stride]
  BY <1>3 DEF TableFrom
<1>7. modes[i].stride \in alike
  BY <1>1, <1>3, Modes DEF TableFrom
<1>8. machine.font.ok /\ font = machine.font.size
  BY <1>1 DEF FontKnown
<1> HIDE DEF mode, alike
<1>9. [table EXCEPT !.stride = mode.stride] = mode
  BY <1>5, <1>6
<1>10. alike = {mode.stride} => table = mode
  BY <1>5, <1>6, <1>7
<1> QED
  BY <1>1, <1>2, <1>4, <1>8, <1>9, <1>10 DEF TableDescribesMachine, mode, alike

(* On every machine the kernel is called with the memory map of the moment *)
(* boot services ended, with a font that lies in psf_buf whole, and with a *)
(* mode of the right size, the one asked for up to the scan line           *)
(* (uefi_boot.c:211-320).                                                  *)
THEOREM Table == Spec => []TableDescribesMachine
<1>1. Init => TInv
  BY TableInit
<1> QED
  BY <1>1, Described, Invariance, TableNext, PTL DEF Spec
=============================================================================
