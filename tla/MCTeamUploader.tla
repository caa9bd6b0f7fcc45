--------------------------- MODULE MCTeamUploader ---------------------------
(* One central, two sessions, of which one may be denied.                  *)
EXTENDS TeamUploader

CONSTANTS s, t

MCSession == {s, t}
MCRuleSets == {{}, {s}}
=============================================================================
