------------------------ MODULE MCCapabilitiesCache ------------------------
(***************************************************************************)
(* Two clients ask under two apikeys.  The cache holds one entry, so that  *)
(* the entry of one apikey evicts the other's.                             *)
(***************************************************************************)
EXTENDS CapabilitiesCache, TLC

CONSTANTS c1, c2, old, new

MCClients == {c1, c2}

MCRequests == [listed : {"flat"}, apikey : {"alice", "bob"}]

MCContents == {old, new}

Symmetry == Permutations(MCClients) \cup Permutations(MCContents)

=============================================================================
