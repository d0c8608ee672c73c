----------------------------- MODULE MCBlockPool -----------------------------
(* Small instances of BlockPool for TLC. *)
EXTENDS BlockPool

CONSTANTS p1, p2
MCPeers == {p1, p2}
MCBadPeers == {p2}
MCNoBadPeers == {}

=============================================================================
