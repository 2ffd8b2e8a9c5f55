------------------------------- MODULE MCTsdb -------------------------------
EXTENDS Tsdb, TLC

CONSTANTS small, large

SizeTwo == (small :> 1) @@ (large :> 3)
SizeOnly == small :> 1
SizeOne == (small :> 1) @@ (large :> 1)

Anywhere == PCs \ {"off", "hung"}

\* The cuts that cost no log: between calls and while the end of a sector is saved.
EndCuts  == {"idle", "end_pre", "end_body", "end_write", "full"}

=============================================================================
