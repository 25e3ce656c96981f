---------------------------- MODULE MCReputation ----------------------------
(***************************************************************************)
(* TLC instances of Reputation: one prestataire with two appointments.     *)
(***************************************************************************)
EXTENDS Reputation, TLC

CONSTANTS a1, a2, p1, r1, r2, j1, j2

MCPerformer == [a \in Appts |-> p1]

MCTypeOrder == <<"TOP_RATED">>

\* One request carries the client's calls, the other a retry of the first of
\* them, and the calls of the prestataire and the administrators.
MCCalls == {<<r1, "create", a1, 5>>, <<r1, "create", a2, 5>>,
            <<r1, "edit", a1, 1>>, <<r1, "edit", a2, Null>>,
            <<r2, "create", a1, 5>>,
            <<r2, "hide", a1, Null>>, <<r2, "adminHide", a1, Null>>,
            <<r2, "respond", a1, Null>>, <<r2, "flag", a2, Null>>,
            <<r2, "unflag", a2, Null>>, <<r2, "adminUnflag", a2, Null>>}

MCSymmetry == Permutations(Jobs)
=============================================================================
