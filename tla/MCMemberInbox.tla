---------------------------- MODULE MCMemberInbox ----------------------------
(* Small instances of MemberInbox for TLC. *)
EXTENDS MemberInbox
==============================================================================
