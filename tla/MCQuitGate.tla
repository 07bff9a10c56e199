----------------------------- MODULE MCQuitGate -----------------------------
(***************************************************************************)
(* Small instances of QuitGate: the names of two gates.                    *)
(***************************************************************************)
EXTENDS QuitGate

CONSTANTS g1, g2
=============================================================================
