----------------------------- MODULE MCKvCache -----------------------------
(* Small instances of KvCache for TLC. *)
EXTENDS KvCache, TLC

CONSTANTS a, ab, b, c

\* The CRCs of a and ab collide.
MCCrc == a :> 1 @@ ab :> 1 @@ b :> 2 @@ c :> 3
NoPrefixes == {}
MCPrefixes == {<<a, ab>>}
=============================================================================
