------------------------------ MODULE MCBuffer ------------------------------
(***************************************************************************)
(* A buffer that starts with room for two characters and is filled with    *)
(* twice as many.                                                          *)
(***************************************************************************)
EXTENDS Buffer
=============================================================================
