-------------------------- MODULE MCFollowupQueue --------------------------
(* Small instances of FollowupQueue. *)
EXTENDS FollowupQueue
=============================================================================
