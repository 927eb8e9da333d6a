----------------------------- MODULE MCFmiCall ------------------------------
(***************************************************************************)
(* FmiCall for TLC: the configurations give the bounds.                    *)
(***************************************************************************)
EXTENDS FmiCall
=============================================================================
