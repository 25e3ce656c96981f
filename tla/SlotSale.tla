------------------------------ MODULE SlotSale ------------------------------
(***************************************************************************)
(* What booking promises, with no requests, locks or statuses: a slot is   *)
(* sold to one client at most once, the sale is held until it is closed,   *)
(* and a closed sale stays closed.  Whether it closed by cancellation or   *)
(* by completion is left open.                                             *)
(***************************************************************************)
CONSTANTS Slots, Clients

VARIABLE sale   \* sale[s]: the sales of slot s, pairs <<client, state>>

TypeOK == sale \in [Slots -> SUBSET (Clients \X {"held", "closed"})]

Init == sale = [s \in Slots |-> {}]

Sell(s, c) ==
    /\ sale[s] = {}
    /\ sale' = [sale EXCEPT ![s] = {<<c, "held">>}]

\* The nightly job may close several sales in one statement.
Close(S) ==
    /\ \A s \in S : \E c \in Clients : sale[s] = {<<c, "held">>}
    /\ sale' = [s \in Slots |->
                  IF s \in S THEN {<<p[1], "closed">> : p \in sale[s]}
                             ELSE sale[s]]

Next ==
    \/ \E s \in Slots, c \in Clients : Sell(s, c)
    \/ \E S \in SUBSET Slots : Close(S)

Spec == Init /\ [][Next]_sale
=============================================================================
