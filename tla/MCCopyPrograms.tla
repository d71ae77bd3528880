--------------------------- MODULE MCCopyPrograms ---------------------------
(* Instances of CopyPrograms for model checking.                           *)
EXTENDS CopyPrograms

FourBlocks == <<11, 12, 13, 14>>
=============================================================================
