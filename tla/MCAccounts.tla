----------------------------- MODULE MCAccounts -----------------------------
(***************************************************************************)
(* TLC instance of Accounts: a prestataire with a session and a service,   *)
(* and two ids for those who come.                                         *)
(***************************************************************************)
EXTENDS Accounts, TLC

CONSTANTS p, i1, i2, pmail, nmail, s1, s2, t1, t2, t3, a1, a2, e1, e2, g1, g2, l1

MCOwner == [s \in Services |-> p]

MCKnownRole == [i \in Ids |-> IF i = p THEN "PRESTATAIRE" ELSE "none"]

MCKnownEmail == [i \in Ids |-> pmail]

MCKnownSession == [t \in Tokens |-> IF t = t1 THEN p ELSE NoOne]

MCTtl == [q \in Queries |-> IF q = "categories" THEN 2 ELSE 1]

MCEditCalls == {<<p, "bio", 0>>, <<p, "categories", 0>>, <<s1, "isActive", 1>>,
                <<s1, "displayOrder", 1>>}

MCSymmetry == Permutations({i1, i2}) \cup Permutations(Edits) \cup Permutations(Auths)
=============================================================================
