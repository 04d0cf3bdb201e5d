----------------------- MODULE MC_PEFConfigRetrieval -----------------------
(* Instantiates GetPEFConfig for TLC.  Counts 0, 1 and 2 exercise the     *)
(* empty loop, the single-entry loop and the `<` / `<=` difference; 255   *)
(* is the uint8 edge, checked in its own run.                             *)
EXTENDS PEFConfigRetrieval

MCCountsSmall == {0, 1, 2}
MCCountsEdge  == {255}
=============================================================================
