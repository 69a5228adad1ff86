------------------------------ MODULE MCEngine ------------------------------
(***************************************************************************)
(* Engine with a keyboard ring of two slots (it overflows on the second    *)
(* pending key) and one mapped key.                                        *)
(***************************************************************************)
EXTENDS Engine

MCKeymap == [k \in 0..255 |-> IF k = 4 THEN 28 ELSE 0]
=============================================================================
