---------------------------- MODULE MCBackfillSync ----------------------------
(* Instances of BackfillSync for TLC: what a tick may give the pair. *)
EXTENDS BackfillSync

MCOne      == {1}
MCTwo      == {2}
=============================================================================
