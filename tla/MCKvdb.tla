------------------------------- MODULE MCKvdb -------------------------------
(* Small instances of Kvdb for TLC. *)
EXTENDS Kvdb, TLC

CONSTANTS small, large

\* A sector of 7 units holds two small values, or one small and one large; one of 6
\* holds two small values, or one large.
MCSize == small :> 2 @@ large :> 3
\* Nodes of one size only.
MCSame == small :> 2 @@ large :> 2
=============================================================================
