------------------------------- MODULE Badges -------------------------------
(***************************************************************************)
(* BadgesService: awarding, extending, revoking and expiring badges.       *)
(*                                                                         *)
(* The badges of a prestataire are calculated when a review is created or  *)
(* an appointment completed, and every night; calculations of one          *)
(* prestataire may overlap.  A calculation reads the prestataire's rating  *)
(* once, then decides badge type after badge type; it stops at the first   *)
(* statement that fails.                                                   *)
(***************************************************************************)
EXTENDS Parties, Integers, Sequences

CONSTANTS
    TypeOrder,      \* badgeChecks: the badge types, TOP_RATED first
    MinReviews,     \* BADGE_CRITERIA.TOP_RATED
    MinRating,      \* in hundredths
    Lifetime,       \* the 90 days of a badge, in nights
    Jobs            \* the calculations that may run at one time

VARIABLES
    badge,          \* badge[p][t]: the row of p's badge of type t
    calc,           \* calc[j]: how far calculation j has got
    awarded         \* history: awarded[p][t] counts badge.awarded events

badgeVars == <<badge, calc, awarded>>

Types == {TypeOrder[i] : i \in 1..Len(TypeOrder)}

ASSUME BadgesAssumption ==
    /\ TypeOrder \in Seq({"TOP_RATED", "RESPONSIVE", "RELIABLE", "POPULAR"})
    /\ Len(TypeOrder) > 0
    /\ MinReviews \in Nat
    /\ MinRating \in Nat
    /\ Lifetime \in Nat \ {0}
    /\ Null \notin Prestataires

-----------------------------------------------------------------------------
(* Types.  left is the number of nights to expires_at.                     *)

BadgeRow == [row: BOOLEAN, active: BOOLEAN, left: 0..Lifetime]

NoBadge == [row |-> FALSE, active |-> FALSE, left |-> 0]

CalcPc == {"idle", "check", "find", "insert", "extend", "revoke"}

\* i is the place in TypeOrder of the type being decided; topRated is what
\* the rating read at the beginning says.
Calculation == [pc: CalcPc, of: Prestataires \cup {Null}, i: Nat,
                topRated: BOOLEAN]

NoCalc == [pc |-> "idle", of |-> Null, i |-> 0, topRated |-> FALSE]

BadgesTypeOK ==
    /\ badge \in [Prestataires -> [Types -> BadgeRow]]
    /\ calc \in [Jobs -> Calculation]
    /\ awarded \in [Prestataires -> [Types -> Nat]]

BadgesInit ==
    /\ badge = [p \in Prestataires |-> [t \in Types |-> NoBadge]]
    /\ calc = [j \in Jobs |-> NoCalc]
    /\ awarded = [p \in Prestataires |-> [t \in Types |-> 0]]

-----------------------------------------------------------------------------
(* calculateBadges *)

TypeOf(j) == TypeOrder[calc[j].i]

BadgeOf(j) == badge[calc[j].of][TypeOf(j)]

CalcGoto(j, pc) == calc' = [calc EXCEPT ![j] = [@ EXCEPT !.pc = pc]]

CalcStop(j) == calc' = [calc EXCEPT ![j] = NoCalc]

\* On to the next type, or done.
CalcNext(j) ==
    calc' = [calc EXCEPT ![j] = IF @.i < Len(TypeOrder)
                                THEN [pc |-> "check", of |-> @.of, i |-> @.i + 1,
                                      topRated |-> FALSE]
                                ELSE NoCalc]

\* Mutant: the number of reviews is not looked at.
EarnedByAverage(x) == x.average >= MinRating

\* checkTopRated
TopRated(x) == x.count >= MinReviews /\ x.average >= MinRating

\* Calculation j of p begins by reading p's row, with rating x.
CalcBegin(j, p, x) ==
    /\ calc[j].pc = "idle"
    /\ calc' = [calc EXCEPT ![j] = [pc |-> "check", of |-> p, i |-> 1,
                                    topRated |-> TopRated(x)]]

\* Whether the badge is earned: TOP_RATED by the rating, the others by
\* appointments counted now, which may say either.
Earned(j) == IF TypeOf(j) = "TOP_RATED" THEN {calc[j].topRated} ELSE BOOLEAN

Check(j) ==
    /\ calc[j].pc = "check"
    /\ \E earned \in Earned(j) :
          CalcGoto(j, IF earned THEN "find" ELSE "revoke")
    /\ UNCHANGED <<badge, awarded>>

-----------------------------------------------------------------------------
(* awardBadge and revokeBadge *)

\* findOne looks for an active badge only.
Find(j) ==
    /\ calc[j].pc = "find"
    /\ CalcGoto(j, IF BadgeOf(j).active THEN "extend" ELSE "insert")
    /\ UNCHANGED <<badge, awarded>>

\* save() of the badge found active: is_active is written back as TRUE if
\* the badge has been revoked before save() reloads it, and left as it is
\* if it is revoked after.
Extend(j) ==
    /\ calc[j].pc = "extend"
    /\ \E active \in {TRUE, BadgeOf(j).active} :
          badge' = [badge EXCEPT ![calc[j].of][TypeOf(j)] =
                      [@ EXCEPT !.active = active, !.left = Lifetime]]
    /\ CalcNext(j)
    /\ UNCHANGED awarded

\* Mutant: (prestataire_id, type) is not unique, so a second row goes in.
InsertAnyway(j) ==
    LET p == calc[j].of IN
    /\ calc[j].pc = "insert"
    /\ badge' = [badge EXCEPT ![p][TypeOf(j)] =
                   [row |-> TRUE, active |-> TRUE, left |-> Lifetime]]
    /\ awarded' = [awarded EXCEPT ![p][TypeOf(j)] = @ + 1]
    /\ CalcNext(j)

\* INSERT, then badge.awarded is emitted.
Insert(j) ==
    LET p == calc[j].of IN
    /\ calc[j].pc = "insert"
    /\ ~BadgeOf(j).row
    /\ badge' = [badge EXCEPT ![p][TypeOf(j)] =
                   [row |-> TRUE, active |-> TRUE, left |-> Lifetime]]
    /\ awarded' = [awarded EXCEPT ![p][TypeOf(j)] = @ + 1]
    /\ CalcNext(j)

\* (prestataire_id, type) is unique and an inactive row is there, or another
\* calculation has inserted one: the error ends the whole calculation.
InsertRefused(j) ==
    /\ calc[j].pc = "insert"
    /\ BadgeOf(j).row
    /\ CalcStop(j)
    /\ UNCHANGED <<badge, awarded>>

Revoke(j) ==
    /\ calc[j].pc = "revoke"
    /\ badge' = [badge EXCEPT ![calc[j].of][TypeOf(j)] =
                   [@ EXCEPT !.active = FALSE]]
    /\ CalcNext(j)
    /\ UNCHANGED awarded

CalcStep(j) ==
    \/ Check(j)
    \/ Find(j)
    \/ Extend(j)
    \/ Insert(j)
    \/ InsertRefused(j)
    \/ Revoke(j)

-----------------------------------------------------------------------------
(* Time and the nightly clean-up *)

Expired(b) == b.active /\ b.left = 0

\* cleanupExpiredBadges: one UPDATE statement.
CleanUp ==
    /\ \E p \in Prestataires, t \in Types : Expired(badge[p][t])
    /\ badge' = [p \in Prestataires |-> [t \in Types |->
                   IF Expired(badge[p][t])
                     THEN [badge[p][t] EXCEPT !.active = FALSE]
                     ELSE badge[p][t]]]
    /\ UNCHANGED <<calc, awarded>>

\* A day passes.
Night ==
    /\ \E p \in Prestataires, t \in Types : badge[p][t].left > 0
    /\ badge' = [p \in Prestataires |-> [t \in Types |->
                   [badge[p][t] EXCEPT !.left = IF @ = 0 THEN 0 ELSE @ - 1]]]
    /\ UNCHANGED <<calc, awarded>>
=============================================================================
