------------------------ MODULE MCConversationClaim ------------------------
(* One server whose sessions share a directory: two rows of one conversation
   after a reboot, another conversation that no row is left of, and one yet to
   begin. *)
EXTENDS ConversationClaim

CONSTANTS r1, r2, a, b, c, d, p1

MCDirOf == [x \in Conv |-> d]
MCFell == <<a, a>>
=============================================================================
