--------------------------- MODULE MCRuntimeControl --------------------------
(***************************************************************************)
(* RuntimeControl with finite constants for TLC.                           *)
(***************************************************************************)
EXTENDS RuntimeControl, TLC

\* Installed below a directory es-hotzone-trader, or not.
MCAllRecognised == Programs
MCModuleRecognised == {"module_start"}

MCSymmetry == Permutations(Pids)
=============================================================================
