----------------------------- MODULE TreeOps_MC -----------------------------
(***************************************************************************)
(* A panel with a marked directory 1, which holds the directory 2 and the  *)
(* file 4, and a marked file 6.  Files 3 (in 2) and 4 are one file under   *)
(* two names; file 5 is put into directory 2 while the operation runs.     *)
(***************************************************************************)
EXTENDS TreeOps

MCParent == <<0, 1, 2, 1, 2, 0>>
MCBelow == <<{1, 2, 3, 4, 5}, {2, 3, 5}, {3}, {4}, {5}, {6}>>
MCMarked == <<1, 6>>
=============================================================================
