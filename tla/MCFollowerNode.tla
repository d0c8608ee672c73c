---------------------------- MODULE MCFollowerNode ----------------------------
(* Small instances of FollowerNode for TLC. *)
EXTENDS FollowerNode

MCTxHeights == {h \in Heights : h # 2}

=============================================================================
