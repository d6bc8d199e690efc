-------------------------- MODULE ArchiveCache_MC --------------------------
(***************************************************************************)
(* A tar archive t with a tar archive tt in it, and an archive e of a      *)
(* script with one of each kind in it: ee and te.                          *)
(***************************************************************************)
EXTENDS ArchiveCache

CONSTANTS t, tt, e, ee, te

MCOuter == [a \in {t, tt, e, ee, te} |->
              CASE a = tt -> t [] a \in {ee, te} -> e [] a \in {t, e} -> Local]
=============================================================================
