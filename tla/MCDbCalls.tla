----------------------------- MODULE MCDbCalls -----------------------------
(* Small instances of DbCalls for TLC. *)
EXTENDS DbCalls, TLC

CONSTANTS main, worker, fine, coarse, odd, short

\* Blocks of one, two, one and four units; a partition whose length is no
\* multiple of a larger sector, and one of a single block.
MCBlk     == fine :> 1 @@ coarse :> 2 @@ odd :> 1 @@ short :> 4
MCPartLen == fine :> 4 @@ coarse :> 8 @@ odd :> 5 @@ short :> 4
=============================================================================
