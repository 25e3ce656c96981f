--------------------------- MODULE MCConversation ---------------------------
(***************************************************************************)
(* TLC instance of Conversation: a client and a prestataire with a new     *)
(* appointment, an old one and a completed one, and two sockets of the     *)
(* prestataire.                                                            *)
(***************************************************************************)
EXTENDS Conversation, TLC

CONSTANTS a1, a2, a3, c, p, s1, s2, r1, r2, m1, m2, x1, x2

MCClient == [a \in Appts |-> c]

MCProvider == [a \in Appts |-> p]

MCStatus == [a \in Appts |-> CASE a = a1 -> "none"
                                [] a = a2 -> "CONFIRMED"
                                [] a = a3 -> "COMPLETED"]

MCUserOf == [s \in Sockets |-> p]

\* One request carries most calls of the client, the other those of the
\* prestataire.
MCCalls == {<<r1, "send", c, a1>>, <<r1, "send", c, a2>>, <<r1, "send", c, a3>>,
            <<r1, "flag", c, a2>>, <<r1, "read", p, a2>>,
            <<r2, "send", p, a2>>, <<r2, "read", p, a2>>, <<r2, "count", p, a1>>}

MCSymmetry == Permutations(Sockets) \cup Permutations(Messages)
              \cup Permutations(Cancels)
=============================================================================
