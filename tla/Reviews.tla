------------------------------ MODULE Reviews -------------------------------
(***************************************************************************)
(* ReviewsService, with the review moderation of AdminService: reviews of  *)
(* completed appointments and the rating columns of the prestataires.      *)
(*                                                                         *)
(* A handler reads a review, checks and changes its copy, and calls        *)
(* save(), which reloads the row and updates the columns in which the copy *)
(* differs.  Then it may read all visible reviews and store the rating     *)
(* they give.  Each of these statements is a step; others run in between.  *)
(*                                                                         *)
(* An appointment has at most one review (its appointment_id is unique),   *)
(* so a review is named by its appointment.  Comments, partial ratings and *)
(* dates are left out.                                                     *)
(***************************************************************************)
EXTENDS Parties, Integers, FiniteSets, Functions

CONSTANTS
    Appts,          \* ids of appointments
    Performer,      \* appointments.prestataire_id
    Ratings,        \* the ratings clients give
    MaxEdits,       \* MAX_EDITS
    Requests,       \* the review requests being served at one time
    Calls           \* the calls: <<request, operation, appointment, rating>>

VARIABLES
    completed,      \* the appointments whose status is COMPLETED
    review,         \* review[a]: the review of appointment a
    rating,         \* rating[p]: averageRating, in hundredths, totalReviews
    rreq            \* rreq[r]: how far request r has got

reviewVars == <<completed, review, rating, rreq>>

ReviewOpNames == {"create", "edit", "respond", "flag", "unflag", "hide",
                  "adminHide", "adminUnflag"}

ASSUME ReviewsAssumption ==
    /\ Performer \in [Appts -> Prestataires]
    /\ Ratings \subseteq 1..5
    /\ MaxEdits \in Nat
    /\ Calls \subseteq Requests \X ReviewOpNames \X Appts
                  \X (Ratings \cup {Null})
    /\ Null \notin Appts \cup Requests \cup Ratings

-----------------------------------------------------------------------------
(* Types.  born is the rank of created_at; 0 before the INSERT.            *)

ReviewRow == [born: Nat, rating: Ratings \cup {0}, edits: 0..MaxEdits,
              response: BOOLEAN, flagged: BOOLEAN, visible: BOOLEAN]

Columns == {"rating", "edits", "response", "flagged", "visible"}

NoReview == [born |-> 0, rating |-> 0, edits |-> 0, response |-> FALSE,
             flagged |-> FALSE, visible |-> FALSE]

RatingCols == [average: Nat, count: Nat]

Unrated == [average |-> 0, count |-> 0]

\* Between two statements a request holds its copy of the review, the
\* columns save() found different, whether it is to recalculate the rating,
\* and the result of that.
ReviewPc == {"idle", "insert", "load", "write", "read", "store"}

ReviewRequest == [pc: ReviewPc, appt: Appts \cup {Null}, copy: ReviewRow,
                  dirty: SUBSET Columns, recalc: BOOLEAN, created: BOOLEAN,
                  result: RatingCols]

IdleReview == [pc |-> "idle", appt |-> Null, copy |-> NoReview, dirty |-> {},
               recalc |-> FALSE, created |-> FALSE, result |-> Unrated]

ReviewsTypeOK ==
    /\ completed \subseteq Appts
    /\ review \in [Appts -> ReviewRow]
    /\ rating \in [Prestataires -> RatingCols]
    /\ rreq \in [Requests -> ReviewRequest]

-----------------------------------------------------------------------------
(* The rating of a set of reviews *)

Live(a) == review[a].born > 0

Visible(p) == {a \in Appts : Performer[a] = p /\ Live(a) /\ review[a].visible}

\* The columns the rating is made of, of the reviews A.
Judged(A) == [a \in A |-> [born |-> review[a].born, rating |-> review[a].rating]]

Product(f) == FoldFunction(LAMBDA x, y : x * y, 1, f)

\* 0.95 ^ place of a among the reviews in rows, the most recent first, as a
\* multiple of 0.01 ^ (size - 1): whole numbers.  Every more recent review
\* contributes 95, every other one 100.
Weight(a, rows) ==
    Product([b \in DOMAIN rows \ {a} |->
               IF rows[b].born > rows[a].born THEN 95 ELSE 100])

\* Math.round(100 * weighted average)
Rounded(sum, weight) == (200 * sum + weight) \div (2 * weight)

\* Mutant: the weighted sum is divided by the number of reviews.
RatingByCount(rows) ==
    LET sum == SumFunction([a \in DOMAIN rows |-> rows[a].rating * Weight(a, rows)])
        all == SumFunction([a \in DOMAIN rows |-> 100 ^ (Cardinality(DOMAIN rows) - 1)])
    IN  IF DOMAIN rows = {} THEN Unrated
        ELSE [average |-> Rounded(sum, all), count |-> Cardinality(DOMAIN rows)]

\* The rating that the reviews in rows give.
RatingOf(rows) ==
    LET weight == [a \in DOMAIN rows |-> Weight(a, rows)]
        sum == SumFunction([a \in DOMAIN rows |-> rows[a].rating * weight[a]])
    IN  IF DOMAIN rows = {} THEN Unrated
        ELSE [average |-> Rounded(sum, SumFunction(weight)),
              count |-> Cardinality(DOMAIN rows)]

\* The rating prestataire p deserves now.
Deserved(p) == RatingOf(Judged(Visible(p)))

-----------------------------------------------------------------------------
ReviewsInit ==
    /\ completed = {}
    /\ review = [a \in Appts |-> NoReview]
    /\ rating = [p \in Prestataires |-> Unrated]
    /\ rreq = [r \in Requests |-> IdleReview]

Rows == <<completed, review, rating>>

Finish(r) == rreq' = [rreq EXCEPT ![r] = IdleReview]

\* The request goes on to save its copy of the review of a.
Save(r, a, copy, recalc) ==
    rreq' = [rreq EXCEPT ![r] = [IdleReview EXCEPT !.pc = "load", !.appt = a,
                                    !.copy = copy, !.recalc = recalc]]

\* The call finds its review.  n is the rating it gives, if any.
Finds(r, op, a, n) ==
    rreq[r].pc = "idle" /\ <<r, op, a, n>> \in Calls /\ Live(a)

\* completeAppointment, modelled in Appointments
CompleteAppointment(a) ==
    /\ a \notin completed
    /\ completed' = completed \cup {a}
    /\ UNCHANGED <<review, rating, rreq>>

-----------------------------------------------------------------------------
(* createReview *)

CreateBegin(r, a, n) ==
    /\ rreq[r].pc = "idle"
    /\ <<r, "create", a, n>> \in Calls
    /\ a \in completed
    /\ ~Live(a)
    /\ rreq' = [rreq EXCEPT ![r] = [IdleReview EXCEPT !.pc = "insert",
                   !.appt = a, !.recalc = TRUE, !.created = TRUE,
                   !.copy = [NoReview EXCEPT !.rating = n, !.visible = TRUE]]]
    /\ UNCHANGED Rows

Births == Cardinality({a \in Appts : Live(a)})

CreateInsert(r) ==
    LET a == rreq[r].appt IN
    /\ rreq[r].pc = "insert"
    /\ ~Live(a)
    /\ review' = [review EXCEPT ![a] = [rreq[r].copy EXCEPT !.born = Births + 1]]
    /\ rreq' = [rreq EXCEPT ![r].pc = "read"]
    /\ UNCHANGED <<completed, rating>>

\* Another request has reviewed the appointment meanwhile: unique index, 400.
CreateDuplicate(r) ==
    /\ rreq[r].pc = "insert"
    /\ Live(rreq[r].appt)
    /\ Finish(r)
    /\ UNCHANGED Rows

-----------------------------------------------------------------------------
(* updateReview, respondToReview, flagReview, unflagReview, hideReview: the *)
(* read, the checks, and the changes to the copy                           *)

\* Mutant: the limit is not checked.
EditAgain(r, a, n) ==
    /\ Finds(r, "edit", a, n)
    /\ Save(r, a, [review[a] EXCEPT !.rating = IF n = Null THEN @ ELSE n,
                                    !.edits = @ + 1], n # Null)
    /\ UNCHANGED Rows

\* Without a rating, an edit changes the rest of the review only.
EditBegin(r, a, n) ==
    /\ Finds(r, "edit", a, n)
    /\ review[a].edits < MaxEdits
    /\ Save(r, a, [review[a] EXCEPT !.rating = IF n = Null THEN @ ELSE n,
                                    !.edits = @ + 1], n # Null)
    /\ UNCHANGED Rows

RespondBegin(r, a) ==
    /\ Finds(r, "respond", a, Null)
    /\ ~review[a].response
    /\ Save(r, a, [review[a] EXCEPT !.response = TRUE], FALSE)
    /\ UNCHANGED Rows

FlagBegin(r, a) ==
    /\ Finds(r, "flag", a, Null)
    /\ ~review[a].flagged
    /\ Save(r, a, [review[a] EXCEPT !.flagged = TRUE], FALSE)
    /\ UNCHANGED Rows

UnflagBegin(r, a) ==
    /\ Finds(r, "unflag", a, Null)
    /\ Save(r, a, [review[a] EXCEPT !.flagged = FALSE], FALSE)
    /\ UNCHANGED Rows

HideBegin(r, a) ==
    /\ Finds(r, "hide", a, Null)
    /\ Save(r, a, [review[a] EXCEPT !.visible = FALSE], TRUE)
    /\ UNCHANGED Rows

-----------------------------------------------------------------------------
(* save() and updatePrestataireRating *)

\* Mutant: the handler forgets to recalculate.
NoRecalc(r) == IF rreq[r].created THEN "read" ELSE "idle"

AfterSave(r) == IF rreq[r].recalc THEN "read" ELSE "idle"

Continue(r, pc) ==
    rreq' = [rreq EXCEPT ![r] = IF pc = "idle" THEN IdleReview
                                ELSE [@ EXCEPT !.pc = pc, !.dirty = {}]]

\* save() reads the row again and compares.
SaveLoad(r) ==
    LET q == rreq[r]
        dirty == {c \in Columns : q.copy[c] # review[q.appt][c]}
    IN  /\ q.pc = "load"
        /\ IF dirty = {} THEN Continue(r, AfterSave(r))
           ELSE rreq' = [rreq EXCEPT ![r] = [@ EXCEPT !.pc = "write",
                                                      !.dirty = dirty]]
        /\ UNCHANGED Rows

\* ... and updates the columns that differed.
SaveWrite(r) ==
    LET q == rreq[r] IN
    /\ q.pc = "write"
    /\ review' = [review EXCEPT ![q.appt] =
                    [c \in DOMAIN @ |-> IF c \in q.dirty THEN q.copy[c] ELSE @[c]]]
    /\ Continue(r, AfterSave(r))
    /\ UNCHANGED <<completed, rating>>

\* Mutant: hidden reviews count too.
RatingReadAll(r) ==
    LET q == rreq[r]
        all == {a \in Appts : Performer[a] = Performer[q.appt] /\ Live(a)}
    IN  /\ q.pc = "read"
        /\ rreq' = [rreq EXCEPT ![r] = [@ EXCEPT !.pc = "store",
                                                 !.result = RatingOf(Judged(all))]]
        /\ UNCHANGED Rows

\* The visible reviews are read in one SELECT ...
RatingRead(r) ==
    LET q == rreq[r] IN
    /\ q.pc = "read"
    /\ rreq' = [rreq EXCEPT ![r] = [@ EXCEPT !.pc = "store",
                              !.result = Deserved(Performer[q.appt])]]
    /\ UNCHANGED Rows

\* ... and their rating is stored in another statement; createReview then
\* emits review.created.
RatingStore(r) ==
    LET q == rreq[r] IN
    /\ q.pc = "store"
    /\ rating' = [rating EXCEPT ![Performer[q.appt]] = q.result]
    /\ Finish(r)
    /\ UNCHANGED <<completed, review>>

-----------------------------------------------------------------------------
(* AdminService.hideReview and unflagReview: one UPDATE statement each      *)

AdminHide(r, a) ==
    /\ Finds(r, "adminHide", a, Null)
    /\ review[a].visible
    /\ review' = [review EXCEPT ![a].visible = FALSE]
    /\ UNCHANGED <<completed, rating, rreq>>

AdminUnflag(r, a) ==
    /\ Finds(r, "adminUnflag", a, Null)
    /\ review[a].flagged
    /\ review' = [review EXCEPT ![a].flagged = FALSE]
    /\ UNCHANGED <<completed, rating, rreq>>

-----------------------------------------------------------------------------
ReviewStep(r) ==
    \/ CreateInsert(r)
    \/ CreateDuplicate(r)
    \/ SaveLoad(r)
    \/ SaveWrite(r)
    \/ RatingRead(r)

ReviewCall(r, a) ==
    \/ \E n \in Ratings : CreateBegin(r, a, n)
    \/ \E n \in Ratings \cup {Null} : EditBegin(r, a, n)
    \/ RespondBegin(r, a)
    \/ FlagBegin(r, a)
    \/ UnflagBegin(r, a)
    \/ HideBegin(r, a)
    \/ AdminHide(r, a)
    \/ AdminUnflag(r, a)
=============================================================================
