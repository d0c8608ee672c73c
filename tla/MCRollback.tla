------------------------------ MODULE MCRollback ------------------------------
(***************************************************************************)
(* Small instances of Rollback.                                            *)
(***************************************************************************)
EXTENDS Rollback

\* Two validator changes, with heights before, between and after them.
MCValChanges == {2, 4}

=============================================================================
