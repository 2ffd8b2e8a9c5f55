---------------------------- MODULE MCKvReaders ----------------------------
(* Small instances of KvReaders for TLC. *)
EXTENDS KvReaders, TLC

CONSTANT small

\* One value, of two units with its header; two of them fill a sector.
MCOne == small :> 2

\* No handler tells one key from another but by comparing names.
KeySymmetry == Permutations(Keys)
=============================================================================
