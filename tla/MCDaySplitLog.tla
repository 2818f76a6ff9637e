--------------------------- MODULE MCDaySplitLog ---------------------------
(* DaySplitLog over three days; one inode for each name, so that a new     *)
(* log always finds a free one.  Inodes are interchangeable.               *)
EXTENDS DaySplitLog, TLC

InodeSymmetry == Permutations(Inodes)
=============================================================================
