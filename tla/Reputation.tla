----------------------------- MODULE Reputation -----------------------------
(***************************************************************************)
(* Reviews and badges together: review.created and appointment.completed   *)
(* start calculations of badges that read the rating the review service    *)
(* stores, and so does the nightly job.                                    *)
(***************************************************************************)
EXTENDS Reviews, Badges

CONSTANT AtOnce     \* bound: how many requests and calculations run at once

ASSUME ReputationAssumption == AtOnce \in Nat

VARIABLE seen       \* history: the ratings each prestataire deserved so far

vars == <<reviewVars, badgeVars, seen>>

TypeOK ==
    /\ ReviewsTypeOK
    /\ BadgesTypeOK
    /\ seen \in [Prestataires -> SUBSET RatingCols]

Init ==
    /\ ReviewsInit
    /\ BadgesInit
    /\ seen = [p \in Prestataires |-> {Unrated}]

-----------------------------------------------------------------------------
Running == Cardinality({r \in Requests : rreq[r].pc # "idle"}
                       \cup {j \in Jobs : calc[j].pc # "idle"})

\* An event about prestataire p, whose rating is x, is emitted: its listener
\* begins a calculation, unless the bound is reached.
Emit(p, x) ==
    \/ /\ Running < AtOnce
       /\ \E j \in Jobs : CalcBegin(j, p, x)
    \/ UNCHANGED calc

\* createReview has stored the rating and emits review.created.
ReviewCreated(r) ==
    LET p == Performer[rreq[r].appt] IN
    /\ rreq[r].created
    /\ RatingStore(r)
    /\ Emit(p, rating'[p])
    /\ UNCHANGED <<badge, awarded>>

\* The other handlers store the rating and emit nothing.
RatingStored(r) ==
    /\ ~rreq[r].created
    /\ RatingStore(r)
    /\ UNCHANGED badgeVars

\* completeAppointment emits appointment.completed.
AppointmentCompleted(a) ==
    /\ CompleteAppointment(a)
    /\ Emit(Performer[a], rating[Performer[a]])
    /\ UNCHANGED <<badge, awarded>>

\* recalculateAllBadges, at 3 AM: an error of one prestataire's calculation
\* is caught, so that each gets its own.
Nightly(j, p) ==
    /\ Running < AtOnce
    /\ CalcBegin(j, p, rating[p])
    /\ UNCHANGED <<reviewVars, badge, awarded>>

\* A statement of a request or a calculation fails, or the server stops: what
\* it has written stays, the rest is not done.
Abandoned ==
    /\ \/ \E r \in Requests : rreq[r].pc # "idle" /\ Finish(r) /\ UNCHANGED calc
       \/ \E j \in Jobs : calc[j].pc # "idle" /\ CalcStop(j) /\ UNCHANGED rreq
    /\ UNCHANGED <<Rows, badge, awarded>>

Step ==
    \/ /\ UNCHANGED badgeVars
       /\ \E r \in Requests :
             \/ ReviewStep(r)
             \/ Running < AtOnce /\ \E a \in Appts : ReviewCall(r, a)
    \/ \E r \in Requests : ReviewCreated(r) \/ RatingStored(r)
    \/ \E a \in Appts : AppointmentCompleted(a)
    \/ \E j \in Jobs : CalcStep(j) /\ UNCHANGED reviewVars
    \/ \E j \in Jobs, p \in Prestataires : Nightly(j, p)
    \/ Abandoned
    \/ CleanUp /\ UNCHANGED reviewVars
    \/ Night /\ UNCHANGED reviewVars

\* After every step, what each prestataire deserves by then is noted.
Note == seen' = [p \in Prestataires |-> seen[p] \cup {Deserved(p)'}]

Next == Step /\ Note

Spec == Init /\ [][Next]_vars

-----------------------------------------------------------------------------
(* Properties *)

\* The rating shown was right at some moment: it is that of the visible
\* reviews as they once were, however recalculations and stale saves of
\* reviews interleave.
RatingWasDeserved == \A p \in Prestataires : rating[p] \in seen[p]

\* Old reviews weigh less, but the rating stays an average: if all reviews that
\* count give between lo and hi stars, so does the rating they make.
AverageBetween ==
    \A p \in Prestataires, lo, hi \in Ratings :
        /\ Visible(p) # {}
        /\ \A a \in Visible(p) : lo =< review[a].rating /\ review[a].rating =< hi
        => 100 * lo =< Deserved(p).average /\ Deserved(p).average =< 100 * hi

\* A TOP_RATED badge is never held by a prestataire who at no moment had the
\* reviews for it, although the badge is decided on a copy of a stored copy
\* of their rating.
Qualifies(x) == x.count >= MinReviews /\ x.average >= MinRating

TopRatedOnceDeserved ==
    \A p \in Prestataires :
        "TOP_RATED" \in Types /\ badge[p]["TOP_RATED"].active
            => \E x \in seen[p] : Qualifies(x)

\* What overlapping calculations, listeners and nightly jobs agree on: each
\* badge is announced at most once.
AwardedOnce ==
    \A p \in Prestataires, t \in Types : awarded[p][t] =< 1

\* A step that changes what a prestataire deserves is followed by a
\* recalculation of the same request, unless an administrator hid the review
\* or the save wrote back stale columns for a handler that changes neither.
ChangeIsRecalculated ==
    [][\A p \in Prestataires : (Deserved(p)' # Deserved(p)) =>
          \/ \E r \in Requests : /\ rreq[r].pc # "read"
                                 /\ rreq'[r].pc = "read"
                                 /\ Performer[rreq'[r].appt] = p
          \/ \E r \in Requests, a \in Appts : AdminHide(r, a)
          \/ \E r \in Requests : /\ rreq[r].pc = "write"
                                 /\ ~rreq[r].recalc
                                 /\ rreq[r].dirty \cap {"rating", "visible"} # {}
      ]_vars
=============================================================================
