---------------------------- MODULE TeamCentral ----------------------------
(***************************************************************************)
(* What a central keeps of one member machine                              *)
(* (src/packages/server/server/team-ingest.ts, team-forget.ts): a document *)
(* for each session it was sent, the aggregate ("statsCache") last sent    *)
(* with them, and the identity of its database.                            *)
(*                                                                         *)
(* A session's content is a version, 0 for none.  An aggregate is what it  *)
(* was computed from: the version each session had in it, 0 for a session  *)
(* that was left out.                                                      *)
(***************************************************************************)
EXTENDS Naturals

CONSTANTS Session,      \* the sessions of the machine
          MaxVersion,   \* how often a session may change
          NoCache       \* a request without an aggregate

VARIABLE central

Version == 0..MaxVersion
Content == [Session -> Version]
Empty == [x \in Session |-> 0]

CentralType == central \in [held : Content, cache : Content, instance : Nat \ {0}]

CentralInit == central = [held |-> Empty, cache |-> Empty, instance |-> 1]

(* handleIngestBody: the documents are upserted one by one; the aggregate  *)
(* is replaced when the request carries one.                               *)
Ingest(batch, content, cache) ==
  central' = [central EXCEPT
                !.held  = [x \in Session |-> IF x \in batch THEN content[x] ELSE @[x]],
                !.cache = IF cache = NoCache THEN @ ELSE cache]

(* handleTeamForget: the named documents go; the aggregate stays as it is. *)
ForgetSessions(ids) ==
  central' = [central EXCEPT
                !.held = [x \in Session |-> IF x \in ids THEN 0 ELSE @[x]]]

(* The database is replaced by another one: an empty one, or (a restored   *)
(* copy under a new identity, a rotated token) one that holds the same.    *)
Replaced(keeps) ==
  central' = [held  |-> IF keeps THEN central.held  ELSE Empty,
              cache |-> IF keeps THEN central.cache ELSE Empty,
              instance |-> central.instance + 1]
=============================================================================
