------------------------------ MODULE MCImage ------------------------------
(***************************************************************************)
(* Instances of Image: pages of two bytes, a static program whose text and *)
(* data share a page, and a position independent one with a dynamic        *)
(* linker.                                                                 *)
(***************************************************************************)
EXTENDS Image

Segment(vaddr, offset, filesz, memsz, flags) ==
    [vaddr |-> vaddr, offset |-> offset, filesz |-> filesz, memsz |-> memsz, flags |-> flags]

Static == [type |-> "ET_EXEC", interp |-> FALSE, len |-> 6,
           phdrs |-> <<Segment(4, 2, 3, 3, "rx"), Segment(7, 5, 1, 4, "rw")>>]

Pie == [type |-> "ET_DYN", interp |-> TRUE, len |-> 4,
        phdrs |-> <<Segment(0, 0, 2, 2, "rx"), Segment(3, 3, 1, 3, "rw")>>]

MCPrograms == {Static, Pie}

MCDynlinker == [phdrs |-> <<Segment(0, 0, 2, 2, "rx"), Segment(3, 3, 1, 2, "rw")>>,
                len |-> 4, dlopen |-> 1]
=============================================================================
