------------------------- MODULE MCProjectionCatchUp -------------------------
(***************************************************************************)
(* Small instances of ProjectionCatchUp for TLC.                           *)
(***************************************************************************)
EXTENDS ProjectionCatchUp

CONSTANTS e1, e2, e3, a1, old, new

\* Build `new` bumps the version of projection 1.  A change of the adapters
\* rebuilds in the same way, and all the projections at once.
MCVersion  == [b \in Build |-> [d \in Projection |->
                 IF b = new /\ d = 1 THEN 2 ELSE 1]]
MCAdapters == [b \in Build |-> 1]
=============================================================================
