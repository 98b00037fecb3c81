------------------------------- MODULE MCKernel ------------------------------
(* Kernel with two small files.  The sectors are of eight bytes: the first *)
(* file starts in the middle of one, the second, whose sector number needs *)
(* three bytes, takes two and shares entries of the cache with the program.*)
EXTENDS Kernel

MCSize == [f \in Files |-> IF f = 0 THEN 3 ELSE 6]
MCDiskOffset == [f \in Files |-> IF f = 0 THEN 29 ELSE 526356]
MCLens == {0, 2, 9}
MCSeeks == {-4, 0, 7}
MCSegments == <<[offset |-> 6, filesz |-> 7, memsz |-> 9],
                [offset |-> 15, filesz |-> 4, memsz |-> 4]>>
MCGuest == {[irq |-> 0, routine |-> "timer_event"],
            [irq |-> 1, routine |-> "keyboard_event"]}
=============================================================================
