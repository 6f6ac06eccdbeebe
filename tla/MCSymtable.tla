----------------------------- MODULE MCSymtable -----------------------------
(***************************************************************************)
(* A symbol table of names of one and two characters, hashed to a word of  *)
(* eight bits: two names of one hash, and one whose hash is the least int. *)
(***************************************************************************)
EXTENDS Symtable

MCNames == { <<97>>, <<98, 97>>, <<101, 116>> }
MCCharMin == -128
=============================================================================
