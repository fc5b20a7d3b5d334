------------------------------ MODULE KernelStart -----------------------------
(***************************************************************************)
(* From _start (boot.s) to the halt loop: early_kmain and kmain (kernel.c),*)
(* the segments (gdt.c, gdt_asm.s) and the interrupt table (interrupts.c,  *)
(* irqs.s), after the loader has called the kernel, and what the processor *)
(* does with an exception or an interrupt in each state.                   *)
(***************************************************************************)
EXTENDS Loader

CONSTANTS
    NumVectors,      \* 256
    Traps, Irqs,     \* vectors of exceptions and of interrupts that may come
    MaxEvents        \* bound: how many come

Breakpoint == 3
DoubleFault == 8
Vectors == 0 .. NumVectors - 1

ASSUME VectorAssumption ==
    /\ NumVectors \in Nat /\ NumVectors > DoubleFault
    /\ Traps \cup Irqs \subseteq Vectors

VARIABLES
    idt,             \* the handler of each vector; at first what memory holds
    idtr,            \* whose table the processor uses
    enabled,         \* the interrupt flag
    handlers,        \* the handlers that run, innermost last: [vector, enabled]
    events

kernelVars == <<idt, idtr, enabled, handlers, events>>
vars == <<loaderVars, kernelVars>>

(* The loader does not clear zero-initialised data, and boot services end  *)
(* with interrupts disabled.                                               *)
Init ==
    /\ LoaderInit
    /\ idt \in {[v \in Vectors |-> "absent"], [v \in Vectors |-> "garbage"]}
    /\ idtr = "firmware" /\ enabled = FALSE
    /\ handlers = <<>> /\ events = 0

-----------------------------------------------------------------------------
LoaderRest == UNCHANGED <<machine, file, held, pointer, memmap, video, font, failed, fault>>

\* The kernel goes on from p when no handler runs.
At(p) == pc = p /\ handlers = <<>>

(* load_gdt, early_kmain and _init.  The font was checked by the loader, so*)
(* terminal_init succeeds.                                                 *)
Start ==
    /\ At("kernel")
    /\ pc' = "page allocator"
    /\ UNCHANGED <<round, kernelVars>> /\ LoaderRest

(* kmain returns to the halt loop when page_allocator_init fails. *)
InitPageAllocator ==
    /\ At("page allocator")
    /\ pc' \in {"clear", "halted"}
    /\ round' = 0
    /\ UNCHANGED kernelVars /\ LoaderRest

\* Mutant: the loop counter is as wide as a vector.
ClearEntryNarrow ==
    /\ At("clear")
    /\ idt' = [idt EXCEPT ![round] = "absent"]
    /\ round' = (round + 1) % NumVectors
    /\ UNCHANGED <<pc, idtr, enabled, handlers, events>> /\ LoaderRest

(* install_interrupts: the loop ... *)
ClearEntry ==
    /\ At("clear")
    /\ IF round < NumVectors
       THEN /\ idt' = [idt EXCEPT ![round] = "absent"]
            /\ round' = round + 1
            /\ UNCHANGED pc
       ELSE pc' = "entries" /\ UNCHANGED <<idt, round>>
    /\ UNCHANGED <<idtr, enabled, handlers, events>> /\ LoaderRest

\* Mutant: there is no handler for double faults.
SetEntriesOne ==
    /\ At("entries")
    /\ idt' = [idt EXCEPT ![Breakpoint] = "breakpoint_handler"]
    /\ pc' = "load"
    /\ UNCHANGED <<round, idtr, enabled, handlers, events>> /\ LoaderRest

(* ... the two handlers ... *)
SetEntries ==
    /\ At("entries")
    /\ idt' = [idt EXCEPT ![Breakpoint] = "breakpoint_handler",
                          ![DoubleFault] = "double_fault_handler"]
    /\ pc' = "load"
    /\ UNCHANGED <<round, idtr, enabled, handlers, events>> /\ LoaderRest

(* ... and load_idt: lidt and sti. *)
LoadIdt ==
    /\ At("load")
    /\ idtr' = "kernel" /\ enabled' = TRUE
    /\ pc' = "report"
    /\ UNCHANGED <<round, idt, handlers, events>> /\ LoaderRest

(* kmain prints with interrupts on, then returns to the halt loop. *)
Report ==
    /\ At("report")
    /\ pc' = "halted"
    /\ UNCHANGED <<round, kernelVars>> /\ LoaderRest

(* breakpoint_handler prints and returns; double_fault_handler panics. *)
Handle ==
    /\ handlers # <<>> /\ pc \notin {"panic", "reset", "undefined"}
    /\ LET h == handlers[Len(handlers)]
       IN  IF idt[h.vector] = "double_fault_handler"
           THEN pc' = "panic" /\ UNCHANGED <<enabled, handlers>>
           ELSE /\ handlers' = SubSeq(handlers, 1, Len(handlers) - 1)
                /\ enabled' = h.enabled
                /\ UNCHANGED pc
    /\ UNCHANGED <<round, idt, idtr, events>> /\ LoaderRest

KernelStep ==
    Start \/ InitPageAllocator \/ ClearEntry \/ SetEntries \/ LoadIdt \/ Report \/ Handle

-----------------------------------------------------------------------------
(* The processor.  An absent entry raises an exception whose entry is      *)
(* absent as well, hence a double fault; without an entry for that the     *)
(* machine is reset.  So it is while the firmware's table is in use, whose *)
(* code selector the kernel's segments do not have.                        *)
Deliver(v) ==
    LET entry == IF idt[v] = "absent" THEN DoubleFault ELSE v
    IN  IF idtr = "firmware" \/ idt[entry] = "absent"
        THEN pc' = "reset" /\ UNCHANGED <<enabled, handlers>>
        ELSE IF idt[entry] = "garbage"
        THEN pc' = "undefined" /\ UNCHANGED <<enabled, handlers>>
        ELSE /\ handlers' = Append(handlers, [vector |-> entry, enabled |-> enabled])
             /\ enabled' = FALSE
             /\ UNCHANGED pc

KernelRuns == pc \in {"page allocator", "clear", "entries", "load", "report", "halted"}

\* An instruction raises an exception; hlt and jmp do not.
Trap ==
    /\ KernelRuns /\ (pc # "halted" \/ handlers # <<>>)
    /\ \E v \in Traps : Deliver(v)
    /\ events < MaxEvents /\ events' = events + 1
    /\ UNCHANGED <<round, idt, idtr>> /\ LoaderRest

Irq ==
    /\ KernelRuns /\ enabled
    /\ \E v \in Irqs : Deliver(v)
    /\ events < MaxEvents /\ events' = events + 1
    /\ UNCHANGED <<round, idt, idtr>> /\ LoaderRest

Next ==
    \/ (LoaderStep \/ ReadKey \/ FirmwareChangesMap) /\ UNCHANGED kernelVars
    \/ KernelStep \/ Trap \/ Irq

(* The loader and the kernel run whenever nothing else does.  Nobody need  *)
(* press a key.                                                            *)
Spec ==
    /\ Init /\ [][Next]_vars
    /\ WF_vars(LoaderStep /\ UNCHANGED kernelVars)
    /\ WF_vars(KernelStep)

-----------------------------------------------------------------------------
(* Once the kernel's interrupt table is in use, no exception and no        *)
(* interrupt resets the machine or runs what is not a handler, although    *)
(* 254 vectors have none (interrupts.c:44-58): each is a breakpoint or ends*)
(* as a double fault.                                                      *)
EveryVectorEndsInAHandler ==
    [][idtr = "kernel" => pc' \notin {"reset", "undefined"}]_vars

(* The machine is started or the loader gives up: no loop, retry or        *)
(* handler on the way is endless (uefi_file.c:21-48, uefi_boot.c:211-238,  *)
(* 352-365, interrupts.c:44-53).                                           *)
BootEnds ==
    <>(pc \in {"halted", "panic", "reset", "returned", "undefined", "key"})
=============================================================================
