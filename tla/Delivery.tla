------------------------------ MODULE Delivery ------------------------------
(***************************************************************************)
(* What messages, notifications and mails promise, with no sockets, rows   *)
(* or handlers: a fact is stored once, for an audience that stays the      *)
(* same, and only those of its audience are ever told of it.  That they    *)
(* are is not promised.                                                    *)
(***************************************************************************)
CONSTANTS Facts, People

VARIABLES
    audience,   \* audience[f]: whom fact f concerns, nobody before it is stored
    told        \* told[u]: the facts u has been told of

TypeOK ==
    /\ audience \in [Facts -> SUBSET People]
    /\ told \in [People -> SUBSET Facts]

Init ==
    /\ audience \in [Facts -> SUBSET People]
    /\ told = [u \in People |-> {}]

Store(f, S) ==
    /\ audience[f] = {}
    /\ audience' = [audience EXCEPT ![f] = S]

\* Those of U who are reached; the others may be told later, or never.
Tell(f, U) ==
    /\ U \subseteq audience[f]
    /\ told' = [u \in People |-> IF u \in U THEN told[u] \cup {f} ELSE told[u]]

\* The facts that get an audience in a step, and those who are told something.
Stored == {f \in Facts : audience'[f] # audience[f]}
Reached == {u \in People : told'[u] # told[u]}

Next ==
    \/ /\ UNCHANGED audience
       /\ \E f \in Facts : Tell(f, Reached)
    \/ /\ UNCHANGED told
       /\ \E f \in Stored : audience'[f] \subseteq People /\ Store(f, audience'[f])

Spec == Init /\ [][Next]_<<audience, told>>

\* What follows from it: whoever has been told of a fact is one of those it
\* concerns.
OnlyConcerned == \A u \in People : \A f \in told[u] : u \in audience[f]
=============================================================================
