------------------------------- MODULE MCFiles -------------------------------
(***************************************************************************)
(* A file that ends inside its second block, one that fills its only block,*)
(* the directory and the clock.                                            *)
(***************************************************************************)
EXTENDS Files, TLC

MCInodes == 1 :> [length |-> 3, data_block_num |-> <<7, 4>>] @@
            2 :> [length |-> 2, data_block_num |-> <<5>>]
MCdirentries == <<[filename |-> ".",   filetype |-> "dir"],
                  [filename |-> "rtc", filetype |-> "rtc"],
                  [filename |-> "a",   filetype |-> "file", inode_num |-> 1],
                  [filename |-> "b",   filetype |-> "file", inode_num |-> 2]>>
=============================================================================
