---------------------------- MODULE MCLogRotate ----------------------------
(* LogRotate with three archives instead of ten.  Four inodes are one for  *)
(* each name; a free one is left whenever a file is made.  Inodes are      *)
(* interchangeable.                                                        *)
EXTENDS LogRotate, TLC

InodeSymmetry == Permutations(Inodes)
=============================================================================
