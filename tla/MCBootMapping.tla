---------------------------- MODULE MCBootMapping ----------------------------
(* BootMapping with five entries a table.  A machine has a page of low      *)
(* memory, the descriptor of the firmware's tables, a free one and that of  *)
(* the kernel file, in three orders; the tables are in three orders in      *)
(* theirs, with and without pages to spare.                                 *)
EXTENDS BootMapping

Big(f) == [p |-> TRUE, w |-> FALSE, big |-> TRUE, addr |-> f]

\* What memory holds that is no table: it looks like entries.
Junk == [i \in Idx |-> To(0)]

Machine(shape, at, spare, extra, order) ==
    LET n      == (IF shape = "plain" THEN 3 ELSE 4) + spare
        free   == n + extra
        image  == 4
        tables == CASE order = "tables first" -> 1
                    [] order = "free first"   -> 1 + free
                    [] order = "tables last"  -> 1 + free + image
        place  == IF order = "tables first" THEN 1 + n ELSE 1
        file   == IF order = "tables last" THEN 1 + free ELSE 1 + free + n
        pml4   == tables + at[1]
        pdp    == tables + at[2]
        pd     == tables + at[3]
        other  == tables + 3
        descs  == {[start |-> 0, pages |-> 1, type |-> "free"],
                   [start |-> tables, pages |-> n, type |-> "boot"],
                   [start |-> place, pages |-> free, type |-> "free"],
                   [start |-> file, pages |-> image, type |-> "loader"]}
    IN  [cr3   |-> pml4,
         image |-> file,
         mmap  |-> CHOOSE s \in [1 .. 4 -> descs] : \A i \in 1 .. 3 : s[i].start < s[i + 1].start,
         mem   |-> [f \in Frames |->
            CASE f = pml4 -> [i \in Idx |-> IF i = 0 THEN To(pdp)
                                            ELSE IF i = 1 /\ shape = "two" THEN To(other) ELSE Absent]
              [] f = pdp  -> [Empty EXCEPT ![0] = To(pd)]
              [] f = pd   -> [i \in Idx |-> IF i = 1 /\ shape = "small" THEN To(other) ELSE Big(N * i)]
              [] f = other /\ shape = "small" -> [i \in Idx |-> To(N + i)]
              [] f = other /\ shape = "two"   -> [Empty EXCEPT ![N - 1] = Big(N * N * N)]
              [] OTHER -> Junk]]

Orders == {<<0, 1, 2>>, <<2, 1, 0>>, <<1, 2, 0>>}

MCFirmwares == {Machine(shape, at, spare, extra, order) :
    shape \in {"plain", "small", "two"}, at \in Orders, spare \in {0, 3, 4}, extra \in {-1, 0, 2},
    order \in {"tables first", "free first", "tables last"}}

PlainFirmwares == {Machine("plain", <<0, 1, 2>>, 4, 2, order) :
    order \in {"tables first", "free first"}}

\* The kernel begins two pages before the end of a table.
KernelPage == (N - 1) * N * N * N + (N - 2) * N * N + 3

Segment(page, unit, offset, size) ==
    [vaddr |-> page * PageUnits + unit, offset |-> offset, filesize |-> size]

\* One segment; two that touch; two that share a page of the file only; two
\* that share a page of both.
MCKernels == {
    [size |-> 7, segments |-> <<Segment(KernelPage, 0, 2, 3)>>],
    [size |-> 7, segments |-> <<Segment(KernelPage, 0, 2, 2), Segment(KernelPage + 1, 0, 4, 2)>>],
    [size |-> 8, segments |-> <<Segment(KernelPage, 0, 2, 3), Segment(KernelPage + 2, 1, 5, 3)>>],
    [size |-> 7, segments |-> <<Segment(KernelPage, 0, 2, 3), Segment(KernelPage + 1, 1, 5, 2)>>]}
=============================================================================
