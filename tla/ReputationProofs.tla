-------------------------- MODULE ReputationProofs --------------------------
(***************************************************************************)
(* Ratings and badges for every number of appointments, prestataires,      *)
(* requests and calculations: a rating that is shown was deserved once, a  *)
(* TOP_RATED badge is never held without having been deserved, and a badge *)
(* is announced at most once.                                              *)
(*                                                                         *)
(* The argument follows a rating from hand to hand.  What a request has    *)
(* read, what the row of the prestataire holds, and what a calculation     *)
(* decides from are each a rating that is in seen, which only grows.       *)
(***************************************************************************)
EXTENDS Reputation, FiniteSetTheorems, WellFoundedInduction, TLAPS

-----------------------------------------------------------------------------
(* The inductive invariant *)

\* Prestataire p once had the reviews for TOP_RATED.
Once(p) == \E x \in seen[p] : Qualifies(x)

\* Calculations are about a prestataire and a type, and carry on only what a
\* rating of the past justifies.
CalcJustified ==
    \A j \in Jobs : calc[j].pc # "idle" =>
        /\ calc[j].of \in Prestataires
        /\ calc[j].i \in 1..Len(TypeOrder)
        /\ calc[j].topRated => Once(calc[j].of)
        /\ calc[j].pc \in {"find", "insert", "extend"}
             /\ TypeOf(j) = "TOP_RATED" => calc[j].topRated

BadgeJustified ==
    \A p \in Prestataires :
        "TOP_RATED" \in Types /\ badge[p]["TOP_RATED"].active => Once(p)

\* Without a row nothing has been announced.
AnnouncedHasRow ==
    \A p \in Prestataires, t \in Types :
        /\ awarded[p][t] =< 1
        /\ ~badge[p][t].row => awarded[p][t] = 0

BadgeInv == BadgesTypeOK /\ CalcJustified /\ BadgeJustified /\ AnnouncedHasRow

\* The fields of a review request.
IsRequest(q) == q \in [pc: {q.pc}, appt: {q.appt}, copy: {q.copy},
                       dirty: {q.dirty}, recalc: {q.recalc},
                       created: {q.created}, result: {q.result}]

\* A request at work names an appointment; one about to store a rating has
\* read it.
RequestRead ==
    \A r \in Requests :
        /\ IsRequest(rreq[r])
        /\ rreq[r].pc # "idle" => rreq[r].appt \in Appts
        /\ rreq[r].pc = "store" => rreq[r].result \in seen[Performer[rreq[r].appt]]

NowSeen == \A p \in Prestataires : Deserved(p) \in seen[p]

IsFcn(f, S) == f = [x \in S |-> f[x]]

RatingInv ==
    /\ IsFcn(rating, Prestataires) /\ IsFcn(rreq, Requests)
    /\ IsFcn(seen, Prestataires)
    /\ RequestRead
    /\ RatingWasDeserved
    /\ NowSeen

Inv == RatingInv /\ BadgeInv

-----------------------------------------------------------------------------
(* History *)

\* What has been deserved stays noted, and what is deserved now is.
LEMMA NoteGrows ==
    ASSUME RatingInv, Note
    PROVE  /\ IsFcn(seen, Prestataires)'
           /\ \A p \in Prestataires : seen[p] \subseteq seen'[p]
           /\ NowSeen'
BY DEF RatingInv, Note, IsFcn, NowSeen

LEMMA OnceGrows ==
    ASSUME RatingInv, Note, NEW p \in Prestataires, Once(p)
    PROVE  Once(p)'
BY NoteGrows DEF Once, Qualifies

-----------------------------------------------------------------------------
(* Badges *)

LEMMA IdleCalcTyped == NoCalc \in Calculation /\ NoCalc.pc = "idle"
BY DEF NoCalc, Calculation, CalcPc

\* A calculation moves on to q, and the rows stay.
LEMMA CalcMoves ==
    ASSUME Inv, Note, NEW j \in Jobs, NEW q \in Calculation,
           calc' = [calc EXCEPT ![j] = q],
           UNCHANGED <<badge, awarded>>,
           q.pc # "idle" =>
             /\ q.of \in Prestataires
             /\ q.i \in 1..Len(TypeOrder)
             /\ q.topRated => Once(q.of)
             /\ q.pc \in {"find", "insert", "extend"}
                  /\ TypeOrder[q.i] = "TOP_RATED" => q.topRated
    PROVE  BadgeInv'
<1>1. BadgesTypeOK'
  BY DEF Inv, BadgeInv, BadgesTypeOK
<1>2. calc'[j] = q /\ \A k \in Jobs \ {j} : calc'[k] = calc[k]
  BY DEF Inv, BadgeInv, BadgesTypeOK
<1>3. CalcJustified'
  <2> SUFFICES ASSUME NEW k \in Jobs, calc'[k].pc # "idle"
               PROVE  /\ calc'[k].of \in Prestataires
                      /\ calc'[k].i \in 1..Len(TypeOrder)
                      /\ calc'[k].topRated => Once(calc[k].of)'
                      /\ calc'[k].pc \in {"find", "insert", "extend"}
                           /\ TypeOrder[calc'[k].i] = "TOP_RATED"
                           => calc'[k].topRated
    BY DEF CalcJustified, TypeOf
  <2>1. CASE k = j
    BY <1>2, <2>1, OnceGrows DEF Inv
  <2>2. CASE k # j
    BY <1>2, <2>2, OnceGrows DEF Inv, BadgeInv, CalcJustified, TypeOf
  <2> QED
    BY <2>1, <2>2
<1>4. BadgeJustified'
  BY OnceGrows DEF Inv, BadgeInv, BadgeJustified
<1>5. AnnouncedHasRow'
  BY DEF Inv, BadgeInv, AnnouncedHasRow
<1> QED
  BY <1>1, <1>3, <1>4, <1>5 DEF BadgeInv

\* The calculations and the announcements stay, and no badge becomes active.
LEMMA BadgesFade ==
    ASSUME Inv, Note, UNCHANGED <<calc, awarded>>,
           badge' \in [Prestataires -> [Types -> BadgeRow]],
           \A p \in Prestataires, t \in Types :
               /\ badge'[p][t].row = badge[p][t].row
               /\ badge'[p][t].active => badge[p][t].active
    PROVE  BadgeInv'
<1>1. BadgesTypeOK'
  BY DEF Inv, BadgeInv, BadgesTypeOK
<1>2. CalcJustified'
  BY OnceGrows DEF Inv, BadgeInv, CalcJustified, TypeOf
<1>3. BadgeJustified'
  BY OnceGrows DEF Inv, BadgeInv, BadgeJustified
<1>4. AnnouncedHasRow'
  BY DEF Inv, BadgeInv, AnnouncedHasRow
<1> QED
  BY <1>1, <1>2, <1>3, <1>4 DEF BadgeInv

\* The calculation writes a row, announces the badge n times in all, and goes
\* on to the next type.
LEMMA BadgeWritten ==
    ASSUME Inv, Note, NEW j \in Jobs, calc[j].pc # "idle",
           NEW row \in BadgeRow, NEW n \in Nat,
           badge' = [badge EXCEPT ![calc[j].of][TypeOf(j)] = row],
           awarded' \in [Prestataires -> [Types -> Nat]],
           awarded'[calc[j].of][TypeOf(j)] = n,
           \A p \in Prestataires, t \in Types :
               p # calc[j].of \/ t # TypeOf(j) => awarded'[p][t] = awarded[p][t],
           CalcNext(j),
           n =< 1, ~row.row => n = 0,
           row.active /\ TypeOf(j) = "TOP_RATED" => Once(calc[j].of)
    PROVE  BadgeInv'
<1> DEFINE p == calc[j].of
           t == TypeOf(j)
           q == calc'[j]
<1>0. BadgesTypeOK /\ p \in Prestataires /\ t \in Types
       /\ calc[j].i \in 1..Len(TypeOrder) /\ Len(TypeOrder) \in Nat
  BY BadgesAssumption DEF Inv, BadgeInv, CalcJustified, TypeOf, Types
<1>1. /\ q \in Calculation
      /\ \A k \in Jobs \ {j} : calc'[k] = calc[k]
      /\ calc' \in [Jobs -> Calculation]
      /\ q.pc \in {"idle", "check"}
      /\ ~q.topRated
      /\ q.pc # "idle" => q.of = p /\ q.i \in 1..Len(TypeOrder)
  <2> DEFINE next == [pc |-> "check", of |-> p, i |-> calc[j].i + 1,
                      topRated |-> FALSE]
  <2>1. next \in Calculation /\ next.pc = "check" /\ ~next.topRated
        /\ next.of = p /\ next.i = calc[j].i + 1
    BY <1>0 DEF Calculation, CalcPc
  <2>2. NoCalc \in Calculation /\ NoCalc.pc = "idle" /\ ~NoCalc.topRated
    BY DEF NoCalc, Calculation, CalcPc
  <2>3. calc' = [calc EXCEPT ![j] = IF calc[j].i < Len(TypeOrder)
                                    THEN next ELSE NoCalc]
    BY <1>0 DEF CalcNext, BadgesTypeOK
  <2>4. calc[j].i < Len(TypeOrder) => calc[j].i + 1 \in 1..Len(TypeOrder)
    BY <1>0
  <2> HIDE DEF next
  <2> QED
    BY <1>0, <2>1, <2>2, <2>3, <2>4 DEF BadgesTypeOK
<1>2. /\ badge' \in [Prestataires -> [Types -> BadgeRow]]
      /\ badge'[p][t] = row
      /\ \A p2 \in Prestataires, t2 \in Types :
            p2 # p \/ t2 # t => badge'[p2][t2] = badge[p2][t2]
  BY <1>0 DEF BadgesTypeOK
<1>3. /\ awarded' \in [Prestataires -> [Types -> Nat]]
      /\ awarded'[p][t] = n
      /\ \A p2 \in Prestataires, t2 \in Types :
            p2 # p \/ t2 # t => awarded'[p2][t2] = awarded[p2][t2]
  BY <1>0
<1> HIDE DEF p, t, q
<1>4. BadgesTypeOK'
  BY <1>1, <1>2, <1>3 DEF BadgesTypeOK
<1>5. CalcJustified'
  <2> SUFFICES ASSUME NEW k \in Jobs, calc'[k].pc # "idle"
               PROVE  /\ calc'[k].of \in Prestataires
                      /\ calc'[k].i \in 1..Len(TypeOrder)
                      /\ calc'[k].topRated => Once(calc[k].of)'
                      /\ calc'[k].pc \in {"find", "insert", "extend"}
                           /\ TypeOrder[calc'[k].i] = "TOP_RATED"
                           => calc'[k].topRated
    BY DEF CalcJustified, TypeOf
  <2>1. CASE k = j
    BY <1>0, <1>1, <2>1 DEF q
  <2>2. CASE k # j
    BY <1>1, <2>2, OnceGrows DEF Inv, BadgeInv, CalcJustified, TypeOf
  <2> QED
    BY <2>1, <2>2
<1>6. BadgeJustified'
  <2> SUFFICES ASSUME NEW p2 \in Prestataires, "TOP_RATED" \in Types,
                      badge'[p2]["TOP_RATED"].active
               PROVE  Once(p2)'
    BY DEF BadgeJustified
  <2>1. CASE p2 = p /\ t = "TOP_RATED"
    BY <1>0, <1>2, <2>1, OnceGrows DEF Inv, p, t
  <2>2. CASE ~(p2 = p /\ t = "TOP_RATED")
    BY <1>2, <2>2, OnceGrows DEF Inv, BadgeInv, BadgeJustified
  <2> QED
    BY <2>1, <2>2
<1>7. AnnouncedHasRow'
  BY <1>2, <1>3 DEF Inv, BadgeInv, AnnouncedHasRow
<1> QED
  BY <1>4, <1>5, <1>6, <1>7 DEF BadgeInv

\* Rows changed in one column.
LEMMA RowChanged ==
    ASSUME NEW b \in BadgeRow, NEW a \in BOOLEAN, NEW l \in 0..Lifetime
    PROVE  /\ [b EXCEPT !.active = a] \in BadgeRow
           /\ [b EXCEPT !.active = a].row = b.row
           /\ [b EXCEPT !.active = a].active = a
           /\ [b EXCEPT !.left = l] \in BadgeRow
           /\ [b EXCEPT !.left = l].row = b.row
           /\ [b EXCEPT !.left = l].active = b.active
BY DEF BadgeRow

LEMMA RowOlder ==
    ASSUME NEW b \in BadgeRow
    PROVE  LET older == [b EXCEPT !.left = IF b.left = 0 THEN 0 ELSE b.left - 1]
           IN  older \in BadgeRow /\ older.row = b.row /\ older.active = b.active
<1>1. b.left \in 0..Lifetime
  BY DEF BadgeRow
<1>2. PICK l \in 0..Lifetime : l = IF b.left = 0 THEN 0 ELSE b.left - 1
  BY <1>1, BadgesAssumption
<1> QED
  BY <1>2, RowChanged, b.active \in BOOLEAN DEF BadgeRow

\* The step of a calculation.
LEMMA CalcStepInv ==
    ASSUME Inv, Note, NEW j \in Jobs, CalcStep(j)
    PROVE  BadgeInv'
<1> DEFINE c == calc[j]
           To(pc) == [c EXCEPT !.pc = pc]
           old == badge[c.of][TypeOf(j)]
<1>0. calc[j].pc # "idle"
  BY DEF CalcStep, Check, Find, Extend, Insert, InsertRefused, Revoke
<1>1. /\ BadgesTypeOK /\ c \in Calculation
      /\ c.of \in Prestataires /\ TypeOf(j) \in Types
      /\ c.i \in 1..Len(TypeOrder)
      /\ c.topRated => Once(c.of)
      /\ c.pc \in {"find", "insert", "extend"} /\ TypeOf(j) = "TOP_RATED"
           => c.topRated
      /\ old \in BadgeRow
      /\ awarded[c.of][TypeOf(j)] \in Nat
  BY <1>0 DEF Inv, BadgeInv, CalcJustified, BadgesTypeOK, TypeOf, Types
<1>2. \A pc \in CalcPc : /\ To(pc) \in Calculation /\ To(pc).pc = pc
                         /\ To(pc).of = c.of /\ To(pc).i = c.i
                         /\ To(pc).topRated = c.topRated
  BY <1>1 DEF Calculation
<1>3. \A a \in BOOLEAN : \A l \in 0..Lifetime :
        LET row == [old EXCEPT !.active = a, !.left = l]
        IN  row \in BadgeRow /\ row.active = a /\ row.row = old.row
  BY <1>1 DEF BadgeRow
<1>4. CASE Check(j)
  <2>1. PICK earned \in Earned(j) :
          CalcGoto(j, IF earned THEN "find" ELSE "revoke")
    BY <1>4 DEF Check
  <2>2. earned /\ TypeOf(j) = "TOP_RATED" => c.topRated
    BY <2>1 DEF Earned
  <2>3. CASE earned
    <3>1. calc' = [calc EXCEPT ![j] = To("find")] /\ "find" \in CalcPc
      BY <2>1, <2>3 DEF CalcGoto, CalcPc
    <3> HIDE DEF To
    <3> QED
      BY <1>1, <1>2, <1>4, <2>2, <2>3, <3>1, CalcMoves DEF Check, TypeOf
  <2>4. CASE ~earned
    <3>1. calc' = [calc EXCEPT ![j] = To("revoke")] /\ "revoke" \in CalcPc
      BY <2>1, <2>4 DEF CalcGoto, CalcPc
    <3> HIDE DEF To
    <3> QED
      BY <1>1, <1>2, <1>4, <3>1, CalcMoves DEF Check, TypeOf
  <2> QED
    BY <2>3, <2>4
<1>5. CASE Find(j)
  <2>1. PICK pc \in {"extend", "insert"} : calc' = [calc EXCEPT ![j] = To(pc)]
    BY <1>5 DEF Find, CalcGoto
  <2>2. pc \in CalcPc /\ calc[j].pc = "find"
    BY <1>5, <2>1 DEF CalcPc, Find
  <2> HIDE DEF To
  <2> QED
    BY <1>1, <1>2, <1>5, <2>1, <2>2, CalcMoves DEF Find, TypeOf
<1>6. CASE Extend(j)
  <2>1. PICK a \in {TRUE, old.active} :
          badge' = [badge EXCEPT ![c.of][TypeOf(j)] =
                      [old EXCEPT !.active = a, !.left = Lifetime]]
    BY <1>1, <1>6 DEF Extend, BadgeOf, BadgesTypeOK
  <2>2. a \in BOOLEAN /\ Lifetime \in 0..Lifetime
    <3>1. old.active \in BOOLEAN
      BY <1>1 DEF BadgeRow
    <3>2. Lifetime \in 0..Lifetime
      BY BadgesAssumption
    <3> QED
      BY <2>1, <3>1, <3>2
  <2> DEFINE row == [old EXCEPT !.active = a, !.left = Lifetime]
             n == awarded[c.of][TypeOf(j)]
  <2>3. row \in BadgeRow /\ row.row = old.row
    BY <1>3, <2>2
  <2>4. /\ awarded' \in [Prestataires -> [Types -> Nat]]
        /\ awarded'[c.of][TypeOf(j)] = n /\ n \in Nat
        /\ \A p \in Prestataires, t \in Types :
             p # c.of \/ t # TypeOf(j) => awarded'[p][t] = awarded[p][t]
    BY <1>1, <1>6 DEF Extend, BadgesTypeOK
  <2>5. n =< 1 /\ (~row.row => n = 0)
    BY <1>1, <2>3 DEF Inv, BadgeInv, AnnouncedHasRow
  <2>6. TypeOf(j) = "TOP_RATED" => Once(c.of)
    BY <1>1, <1>6 DEF Extend
  <2>7. badge' = [badge EXCEPT ![c.of][TypeOf(j)] = row] /\ CalcNext(j)
    BY <1>6, <2>1 DEF Extend
  <2> HIDE DEF row, n
  <2> QED
    BY <1>0, <2>3, <2>4, <2>5, <2>6, <2>7, BadgeWritten
<1>7. CASE Insert(j)
  <2> DEFINE row == [row |-> TRUE, active |-> TRUE, left |-> Lifetime]
             n == awarded[c.of][TypeOf(j)] + 1
  <2>1. row \in BadgeRow /\ row.row
    BY BadgesAssumption DEF BadgeRow
  <2>2. n \in Nat /\ n =< 1
    BY <1>1, <1>7 DEF Inv, BadgeInv, AnnouncedHasRow, Insert, BadgeOf
  <2>3. badge' = [badge EXCEPT ![c.of][TypeOf(j)] = row] /\ CalcNext(j)
    BY <1>7 DEF Insert
  <2>4. /\ awarded' \in [Prestataires -> [Types -> Nat]]
        /\ awarded'[c.of][TypeOf(j)] = n /\ n \in Nat
        /\ \A p \in Prestataires, t \in Types :
             p # c.of \/ t # TypeOf(j) => awarded'[p][t] = awarded[p][t]
    BY <1>1, <1>7, <2>2 DEF Insert, BadgesTypeOK
  <2>5. TypeOf(j) = "TOP_RATED" => Once(c.of)
    BY <1>1, <1>7 DEF Insert
  <2> HIDE DEF row, n
  <2> QED
    BY <1>0, <2>1, <2>2, <2>3, <2>4, <2>5, BadgeWritten
<1>8. CASE InsertRefused(j)
  BY <1>8, IdleCalcTyped, CalcMoves DEF InsertRefused, CalcStop
<1>9. CASE Revoke(j)
  <2> DEFINE row == [old EXCEPT !.active = FALSE]
             n == awarded[c.of][TypeOf(j)]
  <2>1. row \in BadgeRow /\ row.row = old.row /\ ~row.active
    BY <1>1 DEF BadgeRow
  <2>2. n \in Nat /\ n =< 1 /\ (~row.row => n = 0)
    BY <1>1, <2>1 DEF Inv, BadgeInv, AnnouncedHasRow
  <2>3. badge' = [badge EXCEPT ![c.of][TypeOf(j)] = row] /\ CalcNext(j)
    BY <1>1, <1>9 DEF Revoke, BadgesTypeOK
  <2>4. /\ awarded' \in [Prestataires -> [Types -> Nat]]
        /\ awarded'[c.of][TypeOf(j)] = n /\ n \in Nat
        /\ \A p \in Prestataires, t \in Types :
             p # c.of \/ t # TypeOf(j) => awarded'[p][t] = awarded[p][t]
    BY <1>1, <1>9 DEF Revoke, BadgesTypeOK
  <2> HIDE DEF row, n
  <2> QED
    BY <1>0, <2>1, <2>2, <2>3, <2>4, BadgeWritten
<1> QED
  BY <1>4, <1>5, <1>6, <1>7, <1>8, <1>9 DEF CalcStep

\* A calculation of p begins with a rating p has deserved.
LEMMA CalcBeginInv ==
    ASSUME Inv, Note, NEW j \in Jobs, NEW p \in Prestataires, NEW x,
           x \in seen[p], CalcBegin(j, p, x), UNCHANGED <<badge, awarded>>
    PROVE  BadgeInv'
<1> DEFINE q == [pc |-> "check", of |-> p, i |-> 1, topRated |-> TopRated(x)]
<1>1. q \in Calculation /\ q.pc = "check" /\ q.of = p /\ q.i = 1
      /\ (q.topRated <=> TopRated(x))
  BY DEF Calculation, CalcPc, TopRated
<1>2. TopRated(x) => Once(p)
  BY DEF TopRated, Once, Qualifies
<1>3. 1 \in 1..Len(TypeOrder)
  BY BadgesAssumption
<1>4. calc' = [calc EXCEPT ![j] = q]
  BY DEF CalcBegin
<1> HIDE DEF q
<1> QED
  BY <1>1, <1>2, <1>3, <1>4, CalcMoves

\* Rows that fade: the nightly clean-up and the passing of a day.
LEMMA NightInv ==
    ASSUME Inv, Note, CleanUp \/ Night
    PROVE  BadgeInv'
<1>1. BadgesTypeOK
  BY DEF Inv, BadgeInv
<1>2. UNCHANGED <<calc, awarded>>
  BY DEF CleanUp, Night
<1>3. CASE CleanUp
  <2>1. \A p \in Prestataires, t \in Types :
          /\ badge[p][t] \in BadgeRow
          /\ [badge[p][t] EXCEPT !.active = FALSE] \in BadgeRow
          /\ [badge[p][t] EXCEPT !.active = FALSE].row = badge[p][t].row
          /\ [badge[p][t] EXCEPT !.active = FALSE].active = FALSE
    <3> SUFFICES ASSUME NEW p \in Prestataires, NEW t \in Types
                 PROVE  /\ badge[p][t] \in BadgeRow
                        /\ [badge[p][t] EXCEPT !.active = FALSE] \in BadgeRow
                        /\ [badge[p][t] EXCEPT !.active = FALSE].row
                             = badge[p][t].row
                        /\ [badge[p][t] EXCEPT !.active = FALSE].active = FALSE
      OBVIOUS
    <3>1. badge[p][t] \in BadgeRow
      BY <1>1 DEF BadgesTypeOK
    <3>2. 0 \in 0..Lifetime
      BY BadgesAssumption
    <3> QED
      BY <3>1, <3>2, RowChanged
  <2> QED
    BY <1>2, <1>3, <2>1, BadgesFade DEF CleanUp
<1>4. CASE Night
  <2> DEFINE Older(b) == [b EXCEPT !.left = IF b.left = 0 THEN 0 ELSE b.left - 1]
  <2>1. \A p \in Prestataires, t \in Types :
          /\ Older(badge[p][t]) \in BadgeRow
          /\ Older(badge[p][t]).row = badge[p][t].row
          /\ Older(badge[p][t]).active = badge[p][t].active
    <3> SUFFICES ASSUME NEW p \in Prestataires, NEW t \in Types
                 PROVE  /\ Older(badge[p][t]) \in BadgeRow
                        /\ Older(badge[p][t]).row = badge[p][t].row
                        /\ Older(badge[p][t]).active = badge[p][t].active
      OBVIOUS
    <3>1. badge[p][t] \in BadgeRow /\ badge[p][t].left \in 0..Lifetime
      BY <1>1 DEF BadgesTypeOK, BadgeRow
    <3> QED
      BY <3>1, RowOlder
  <2>2. badge' = [p \in Prestataires |-> [t \in Types |-> Older(badge[p][t])]]
    BY <1>4 DEF Night
  <2> HIDE DEF Older
  <2> QED
    BY <1>2, <2>1, <2>2, BadgesFade
<1> QED
  BY <1>3, <1>4

-----------------------------------------------------------------------------
(* Ratings *)

\* A request moves on to q, and the ratings stay.
LEMMA RequestMoves ==
    ASSUME RatingInv, Note, NEW r \in Requests, NEW q,
           rreq' = [rreq EXCEPT ![r] = q], rating' = rating,
           IsRequest(q),
           q.pc # "idle" => q.appt \in Appts,
           q.pc = "store" => q.result \in seen[Performer[q.appt]]
    PROVE  RatingInv'
<1>1. /\ rreq'[r] = q
      /\ \A r2 \in Requests \ {r} : rreq'[r2] = rreq[r2]
      /\ IsFcn(rreq, Requests)'
  BY DEF RatingInv, IsFcn
<1>2. \A a \in Appts : Performer[a] \in Prestataires
  BY ReviewsAssumption
<1>3. RequestRead'
  <2> SUFFICES ASSUME NEW k \in Requests
               PROVE  /\ IsRequest(rreq'[k])
                      /\ rreq'[k].pc # "idle" => rreq'[k].appt \in Appts
                      /\ rreq'[k].pc = "store" =>
                           rreq'[k].result \in seen'[Performer[rreq'[k].appt]]
    BY DEF RequestRead, IsRequest
  <2>1. CASE k = r
    BY <1>1, <1>2, <2>1, NoteGrows
  <2>2. CASE k # r
    BY <1>1, <1>2, <2>2, NoteGrows DEF RatingInv, RequestRead
  <2> QED
    BY <2>1, <2>2
<1>4. RatingWasDeserved' /\ IsFcn(rating, Prestataires)'
  BY NoteGrows DEF RatingInv, RatingWasDeserved, IsFcn
<1> QED
  BY <1>1, <1>3, <1>4, NoteGrows DEF RatingInv

LEMMA RatingsStay ==
    ASSUME RatingInv, Note, UNCHANGED <<rating, rreq>>
    PROVE  RatingInv'
<1>1. \A a \in Appts : Performer[a] \in Prestataires
  BY ReviewsAssumption
<1>2. RequestRead'
  BY <1>1, NoteGrows DEF RatingInv, RequestRead, IsRequest
<1> QED
  BY <1>2, NoteGrows DEF RatingInv, RatingWasDeserved, IsFcn

\* The rating a request has read is stored.
LEMMA RatingStored_ ==
    ASSUME RatingInv, Note, NEW r \in Requests, RatingStore(r)
    PROVE  RatingInv'
<1> DEFINE p == Performer[rreq[r].appt]
<1>1. p \in Prestataires /\ rreq[r].result \in seen[p]
  BY ReviewsAssumption DEF RatingStore, RatingInv, RequestRead
<1>2. /\ IsFcn(rating, Prestataires)'
      /\ rating'[p] = rreq[r].result
      /\ \A p2 \in Prestataires \ {p} : rating'[p2] = rating[p2]
  BY <1>1 DEF RatingStore, RatingInv, IsFcn
<1>3. RatingWasDeserved'
  BY <1>1, <1>2, NoteGrows DEF RatingInv, RatingWasDeserved
<1>4. /\ rreq'[r] = IdleReview
      /\ \A r2 \in Requests \ {r} : rreq'[r2] = rreq[r2]
      /\ IsFcn(rreq, Requests)'
  BY DEF RatingStore, Finish, RatingInv, IsFcn
<1>5. IsRequest(IdleReview) /\ IdleReview.pc = "idle"
  BY DEF IsRequest, IdleReview
<1>6. \A a \in Appts : Performer[a] \in Prestataires
  BY ReviewsAssumption
<1>7. RequestRead'
  <2> SUFFICES ASSUME NEW k \in Requests
               PROVE  /\ IsRequest(rreq'[k])
                      /\ rreq'[k].pc # "idle" => rreq'[k].appt \in Appts
                      /\ rreq'[k].pc = "store" =>
                           rreq'[k].result \in seen'[Performer[rreq'[k].appt]]
    BY DEF RequestRead, IsRequest
  <2>1. CASE k = r
    BY <1>4, <1>5, <2>1
  <2>2. CASE k # r
    BY <1>4, <1>6, <2>2, NoteGrows DEF RatingInv, RequestRead
  <2> QED
    BY <2>1, <2>2
<1> QED
  BY <1>2, <1>3, <1>4, <1>7, NoteGrows DEF RatingInv

LEMMA IdleShape == IsRequest(IdleReview) /\ IdleReview.pc = "idle"
BY DEF IsRequest, IdleReview

\* A call begins, or is served by one statement.
LEMMA CallInv ==
    ASSUME Inv, Note, NEW r \in Requests, NEW a \in Appts, ReviewCall(r, a)
    PROVE  RatingInv'
<1> USE DEF Inv
<1>1. ASSUME NEW copy, NEW recalc, Save(r, a, copy, recalc), UNCHANGED Rows
      PROVE  RatingInv'
  <2> DEFINE q == [IdleReview EXCEPT !.pc = "load", !.appt = a,
                                     !.copy = copy, !.recalc = recalc]
  <2>1. IsRequest(q) /\ q.pc = "load" /\ q.appt = a
    BY DEF IsRequest, IdleReview
  <2>2. rreq' = [rreq EXCEPT ![r] = q] /\ rating' = rating
    BY <1>1 DEF Save, Rows
  <2> HIDE DEF q
  <2> QED
    BY <2>1, <2>2, RequestMoves
<1>2. ASSUME NEW n \in Ratings, CreateBegin(r, a, n)
      PROVE  RatingInv'
  <2> DEFINE copy == [NoReview EXCEPT !.rating = n, !.visible = TRUE]
             q == [IdleReview EXCEPT !.pc = "insert", !.appt = a,
                      !.recalc = TRUE, !.created = TRUE, !.copy = copy]
  <2>1. IsRequest(q) /\ q.pc = "insert" /\ q.appt = a
    <3> HIDE DEF copy
    <3> QED
      BY DEF IsRequest, IdleReview
  <2>2. rreq' = [rreq EXCEPT ![r] = q] /\ rating' = rating
    BY <1>2 DEF CreateBegin, Rows
  <2> HIDE DEF q
  <2> QED
    BY <2>1, <2>2, RequestMoves
<1>3. ASSUME NEW n \in Ratings \cup {Null}, EditBegin(r, a, n)
      PROVE  RatingInv'
  BY <1>1, <1>3 DEF EditBegin
<1>4. CASE RespondBegin(r, a) \/ FlagBegin(r, a) \/ UnflagBegin(r, a)
             \/ HideBegin(r, a)
  BY <1>1, <1>4 DEF RespondBegin, FlagBegin, UnflagBegin, HideBegin
<1>5. CASE AdminHide(r, a) \/ AdminUnflag(r, a)
  <2>1. UNCHANGED <<rating, rreq>>
    BY <1>5 DEF AdminHide, AdminUnflag
  <2> QED
    BY <2>1, RatingsStay
<1> QED
  BY <1>2, <1>3, <1>4, <1>5 DEF ReviewCall

\* A request goes on, up to the storing of the rating.
LEMMA ReviewStepInv ==
    ASSUME Inv, Note, NEW r \in Requests, ReviewStep(r)
    PROVE  RatingInv'
<1> USE DEF Inv
<1> DEFINE o == rreq[r]
<1>0. IsRequest(o) /\ (o.pc # "idle" => o.appt \in Appts)
  BY DEF RatingInv, RequestRead
<1>1. ASSUME NEW pc \in {"read", "idle"}, Continue(r, pc), rating' = rating,
             o.pc # "idle"
      PROVE  RatingInv'
  <2>1. CASE pc = "idle"
    <3>1. rreq' = [rreq EXCEPT ![r] = IdleReview]
      BY <1>1, <2>1 DEF Continue
    <3> QED
      BY <1>1, <3>1, IdleShape, RequestMoves
  <2>2. CASE pc = "read"
    <3> DEFINE q == [o EXCEPT !.pc = pc, !.dirty = {}]
    <3>1. rreq' = [rreq EXCEPT ![r] = q]
      BY <1>1, <2>2 DEF Continue, RatingInv, IsFcn
    <3>2. IsRequest(q) /\ q.pc = "read" /\ q.appt = o.appt
      BY <1>0, <2>2 DEF IsRequest
    <3> HIDE DEF q
    <3> QED
      BY <1>0, <1>1, <3>1, <3>2, RequestMoves
  <2> QED
    BY <2>1, <2>2
<1>2. CASE CreateInsert(r)
  <2> DEFINE q == [o EXCEPT !.pc = "read"]
  <2>1. rreq' = [rreq EXCEPT ![r] = q] /\ rating' = rating /\ o.pc = "insert"
    BY <1>2 DEF CreateInsert, RatingInv, IsFcn
  <2>2. IsRequest(q) /\ q.pc = "read" /\ q.appt = o.appt
    BY <1>0 DEF IsRequest
  <2> HIDE DEF q
  <2> QED
    BY <1>0, <2>1, <2>2, RequestMoves
<1>3. CASE CreateDuplicate(r)
  BY <1>3, IdleShape, RequestMoves DEF CreateDuplicate, Finish, Rows
<1>4. CASE SaveLoad(r)
  <2> DEFINE dirty == {c \in Columns : o.copy[c] # review[o.appt][c]}
  <2>1. CASE dirty = {}
    <3>1. Continue(r, AfterSave(r)) /\ rating' = rating /\ o.pc = "load"
      BY <1>4, <2>1 DEF SaveLoad, Rows
    <3>2. AfterSave(r) \in {"read", "idle"}
      BY DEF AfterSave
    <3> QED
      BY <1>1, <3>1, <3>2
  <2>2. CASE dirty # {}
    <3> DEFINE q == [o EXCEPT !.pc = "write", !.dirty = dirty]
    <3>1. rreq' = [rreq EXCEPT ![r] = q] /\ rating' = rating /\ o.pc = "load"
      BY <1>4, <2>2 DEF SaveLoad, Rows, RatingInv, IsFcn
    <3>2. IsRequest(q) /\ q.pc = "write" /\ q.appt = o.appt
      BY <1>0 DEF IsRequest
    <3> HIDE DEF q
    <3> QED
      BY <1>0, <3>1, <3>2, RequestMoves
  <2> QED
    BY <2>1, <2>2
<1>5. CASE SaveWrite(r)
  <2>1. Continue(r, AfterSave(r)) /\ rating' = rating /\ o.pc = "write"
    BY <1>5 DEF SaveWrite
  <2>2. AfterSave(r) \in {"read", "idle"}
    BY DEF AfterSave
  <2> QED
    BY <1>1, <2>1, <2>2
<1>6. CASE RatingRead(r)
  <2> DEFINE x == Deserved(Performer[o.appt])
             q == [o EXCEPT !.pc = "store", !.result = x]
  <2>1. rreq' = [rreq EXCEPT ![r] = q] /\ rating' = rating /\ o.pc = "read"
    BY <1>6 DEF RatingRead, Rows, RatingInv, IsFcn
  <2>2. IsRequest(q) /\ q.pc = "store" /\ q.appt = o.appt /\ q.result = x
    BY <1>0 DEF IsRequest
  <2>3. x \in seen[Performer[o.appt]]
    BY <1>0, <2>1, ReviewsAssumption DEF RatingInv, NowSeen
  <2> HIDE DEF q, x
  <2> QED
    BY <1>0, <2>1, <2>2, <2>3, RequestMoves
<1> QED
  BY <1>2, <1>3, <1>4, <1>5, <1>6 DEF ReviewStep

-----------------------------------------------------------------------------
(* The theorems *)

LEMMA InitInv == Init => Inv
<1> SUFFICES ASSUME Init PROVE Inv
  OBVIOUS
<1>1. \A p \in Prestataires : Deserved(p) = Unrated
  BY DEF Init, ReviewsInit, Deserved, RatingOf, Judged, Visible, Live, NoReview
<1>2. RatingInv
  BY <1>1, IdleShape DEF Init, ReviewsInit, RatingInv, IsFcn, RequestRead,
     RatingWasDeserved, NowSeen
<1>3. NoBadge \in BadgeRow /\ ~NoBadge.active /\ ~NoBadge.row
  BY BadgesAssumption DEF NoBadge, BadgeRow
<1>4. BadgesTypeOK
  BY <1>3, IdleCalcTyped DEF Init, BadgesInit, BadgesTypeOK
<1>5. CalcJustified /\ BadgeJustified /\ AnnouncedHasRow
  BY <1>3, IdleCalcTyped DEF Init, BadgesInit, CalcJustified, BadgeJustified,
     AnnouncedHasRow
<1> QED
  BY <1>2, <1>4, <1>5 DEF Inv, BadgeInv

\* No badge row, calculation or announcement changes.
LEMMA BadgesStay ==
    ASSUME Inv, Note, UNCHANGED badgeVars
    PROVE  BadgeInv'
BY BadgesFade DEF badgeVars, Inv, BadgeInv, BadgesTypeOK

\* An event is emitted, and perhaps a calculation begins.
LEMMA EmitInv ==
    ASSUME Inv, Note, NEW p \in Prestataires, NEW x, x \in seen[p],
           Emit(p, x), UNCHANGED <<badge, awarded>>
    PROVE  BadgeInv'
<1>1. CASE UNCHANGED calc
  BY <1>1, BadgesStay DEF badgeVars
<1>2. ASSUME NEW j \in Jobs, CalcBegin(j, p, x)
      PROVE  BadgeInv'
  BY <1>2, CalcBeginInv
<1> QED
  BY <1>1, <1>2 DEF Emit

LEMMA NextInv == Inv /\ [Next]_vars => Inv'
<1> SUFFICES ASSUME Inv, [Next]_vars PROVE Inv'
  OBVIOUS
<1>1. CASE UNCHANGED vars
  <2>1. \A p \in Prestataires : Deserved(p)' = Deserved(p)
    BY <1>1 DEF vars, reviewVars, Deserved, Judged, Visible, Live
  <2>2. RatingInv'
    BY <1>1, <2>1 DEF vars, reviewVars, Inv, RatingInv, RequestRead, IsFcn,
       IsRequest, RatingWasDeserved, NowSeen
  <2>3. BadgeInv'
    BY <1>1 DEF vars, badgeVars, Inv, BadgeInv, BadgesTypeOK, CalcJustified,
       BadgeJustified, AnnouncedHasRow, Once, TypeOf
  <2> QED
    BY <2>2, <2>3 DEF Inv
<1>2. CASE Next
  <2>0. Note /\ RatingInv /\ \A a \in Appts : Performer[a] \in Prestataires
    BY <1>2, ReviewsAssumption DEF Next, Inv
  <2>1. ASSUME UNCHANGED badgeVars, NEW r \in Requests,
               \/ ReviewStep(r)
               \/ \E a \in Appts : ReviewCall(r, a)
        PROVE  Inv'
    BY <2>0, <2>1, CallInv, ReviewStepInv, BadgesStay DEF Inv
  <2>2. ASSUME NEW r \in Requests, ReviewCreated(r)
        PROVE  Inv'
    <3> DEFINE p == Performer[rreq[r].appt]
    <3>1. RatingStore(r) /\ Emit(p, rating'[p]) /\ UNCHANGED <<badge, awarded>>
      BY <2>2 DEF ReviewCreated
    <3>2. rreq[r].appt \in Appts /\ rreq[r].result \in seen[p]
      BY <3>1 DEF RatingStore, Inv, RatingInv, RequestRead
    <3>3. rating'[p] = rreq[r].result
      BY <2>0, <3>1, <3>2 DEF RatingStore, RatingInv, IsFcn
    <3>4. p \in Prestataires /\ rating'[p] \in seen[p]
      BY <2>0, <3>2, <3>3
    <3> HIDE DEF p
    <3>5. BadgeInv'
      BY <2>0, <3>1, <3>4, EmitInv
    <3> QED
      BY <2>0, <3>1, <3>5, RatingStored_ DEF Inv
  <2>3. ASSUME NEW r \in Requests, RatingStored(r)
        PROVE  Inv'
    BY <2>0, <2>3, RatingStored_, BadgesStay DEF RatingStored, Inv
  <2>4. ASSUME NEW a \in Appts, AppointmentCompleted(a)
        PROVE  Inv'
    <3>1. UNCHANGED <<rating, rreq>>
      BY <2>4 DEF AppointmentCompleted, CompleteAppointment
    <3>2. rating[Performer[a]] \in seen[Performer[a]]
      BY <2>0 DEF RatingInv, RatingWasDeserved
    <3>3. BadgeInv'
      BY <2>0, <2>4, <3>2, EmitInv DEF AppointmentCompleted
    <3> QED
      BY <2>0, <3>1, <3>3, RatingsStay DEF Inv
  <2>5. ASSUME NEW j \in Jobs, CalcStep(j), UNCHANGED reviewVars
        PROVE  Inv'
    BY <2>0, <2>5, CalcStepInv, RatingsStay DEF Inv, reviewVars
  <2>6. ASSUME NEW j \in Jobs, NEW p \in Prestataires, Nightly(j, p)
        PROVE  Inv'
    <3>1. rating[p] \in seen[p]
      BY <2>0 DEF RatingInv, RatingWasDeserved
    <3>2. BadgeInv'
      BY <2>0, <2>6, <3>1, CalcBeginInv DEF Nightly
    <3> QED
      BY <2>0, <2>6, <3>2, RatingsStay DEF Inv, Nightly, reviewVars
  <2>7. CASE Abandoned
    <3>1. ASSUME NEW r \in Requests, Finish(r), UNCHANGED calc,
                 UNCHANGED <<Rows, badge, awarded>>
          PROVE  Inv'
      <4>1. RatingInv'
        BY <2>0, <3>1, IdleShape, RequestMoves DEF Finish, Rows
      <4> QED
        BY <2>0, <3>1, <4>1, BadgesStay DEF Inv, badgeVars
    <3>2. ASSUME NEW j \in Jobs, CalcStop(j), UNCHANGED rreq,
                 UNCHANGED <<Rows, badge, awarded>>
          PROVE  Inv'
      <4>1. BadgeInv'
        BY <2>0, <3>2, IdleCalcTyped, CalcMoves DEF CalcStop
      <4> QED
        BY <2>0, <3>2, <4>1, RatingsStay DEF Inv, Rows
    <3> QED
      BY <2>7, <3>1, <3>2 DEF Abandoned
  <2>8. CASE (CleanUp \/ Night) /\ UNCHANGED reviewVars
    BY <2>0, <2>8, NightInv, RatingsStay DEF Inv, reviewVars
  <2> QED
    BY <1>2, <2>1, <2>2, <2>3, <2>4, <2>5, <2>6, <2>7, <2>8 DEF Next, Step
<1> QED
  BY <1>1, <1>2

LEMMA AlwaysInv == Spec => []Inv
BY InitInv, NextInv, PTL DEF Spec

\* The rating shown for a prestataire is one their visible reviews once gave.
THEOREM RatingSound == Spec => []RatingWasDeserved
<1>1. Inv => RatingWasDeserved
  BY DEF Inv, RatingInv
<1> QED
  BY <1>1, AlwaysInv, PTL

\* An active TOP_RATED badge was deserved once.
THEOREM TopRatedSound == Spec => []TopRatedOnceDeserved
<1>1. Inv => TopRatedOnceDeserved
  BY DEF Inv, BadgeInv, BadgeJustified, TopRatedOnceDeserved, Once
<1> QED
  BY <1>1, AlwaysInv, PTL

\* A badge is announced at most once, however calculations overlap.
THEOREM AwardedAtMostOnce == Spec => []AwardedOnce
<1>1. Inv => AwardedOnce
  BY DEF Inv, BadgeInv, AnnouncedHasRow, AwardedOnce
<1> QED
  BY <1>1, AlwaysInv, PTL

-----------------------------------------------------------------------------
(* Recalculation.  Reviews and the copies of requests are rows, and a save  *)
(* writes columns only: so created_at stays, and what a prestataire         *)
(* deserves depends on the columns written.                                 *)

IsRow(x) == x \in [born: {x.born}, rating: {x.rating}, edits: {x.edits},
                   response: {x.response}, flagged: {x.flagged},
                   visible: {x.visible}]

RowsShape ==
    /\ IsFcn(review, Appts)
    /\ \A a \in Appts : IsRow(review[a])
    /\ \A r \in Requests : IsRow(rreq[r].copy) /\ rreq[r].dirty \subseteq Columns

RecalcInv == Inv /\ RowsShape

LEMMA IdleRows ==
    /\ IsRow(NoReview) /\ IsRow(IdleReview.copy) /\ IdleReview.dirty = {}
    /\ IdleReview.pc = "idle"
BY DEF IsRow, NoReview, IdleReview

\* Only the review of a changes, not in a column the rating is made of: then
\* everybody deserves what they did.
LEMMA SameDeserved ==
    ASSUME NEW p, NEW a \in Appts,
           \A b \in Appts \ {a} : review'[b] = review[b],
           \/ Performer[a] # p
           \/ /\ review'[a].born = review[a].born
              /\ review'[a].rating = review[a].rating
              /\ review'[a].visible = review[a].visible
    PROVE  Deserved(p)' = Deserved(p)
<1>1. Visible(p)' = Visible(p)
  BY DEF Visible, Live
<1>2. \A b \in Visible(p) : /\ review'[b].born = review[b].born
                            /\ review'[b].rating = review[b].rating
  BY DEF Visible
<1>3. Judged(Visible(p))' = Judged(Visible(p))
  BY <1>1, <1>2 DEF Judged
<1> QED
  BY <1>3 DEF Deserved

\* A request moves on to q; the reviews stay.
LEMMA ShapeMoves ==
    ASSUME RecalcInv, NEW r \in Requests, NEW q, rreq' = [rreq EXCEPT ![r] = q],
           review' = review, IsRow(q.copy), q.dirty \subseteq Columns
    PROVE  RowsShape'
<1>1. /\ rreq'[r] = q
      /\ \A i \in Requests \ {r} : rreq'[i] = rreq[i]
  BY DEF RecalcInv, Inv, RatingInv, IsFcn
<1> QED
  BY <1>1 DEF RecalcInv, RowsShape, IsFcn, IsRow

\* The review of a becomes row, and request r keeps its copy or ends.
LEMMA ShapeWrites ==
    ASSUME RecalcInv, NEW a \in Appts, NEW row, IsRow(row),
           review' = [review EXCEPT ![a] = row],
           \A i \in Requests : /\ IsRow(rreq'[i].copy)
                               /\ rreq'[i].dirty \subseteq Columns
    PROVE  /\ RowsShape'
           /\ review'[a] = row
           /\ \A b \in Appts \ {a} : review'[b] = review[b]
<1>1. /\ IsFcn(review, Appts)'
      /\ review'[a] = row
      /\ \A b \in Appts \ {a} : review'[b] = review[b]
  BY DEF RecalcInv, RowsShape, IsFcn
<1> QED
  BY <1>1 DEF RecalcInv, RowsShape, IsRow

LEMMA ContinueShape ==
    ASSUME RecalcInv, NEW r \in Requests, Continue(r, AfterSave(r))
    PROVE  /\ \A i \in Requests : /\ IsRow(rreq'[i].copy)
                                  /\ rreq'[i].dirty \subseteq Columns
           /\ rreq[r].recalc => rreq'[r].pc = "read" /\ rreq'[r].appt = rreq[r].appt
<1> DEFINE o == rreq[r]
           q == [o EXCEPT !.pc = "read", !.dirty = {}]
<1>1. IsRequest(o) /\ IsRow(o.copy)
  BY DEF RecalcInv, Inv, RatingInv, RequestRead, RowsShape
<1>2. q.pc = "read" /\ q.dirty = {} /\ q.appt = o.appt /\ q.copy = o.copy
  BY <1>1 DEF IsRequest
<1>3. /\ rreq'[r] = IF o.recalc THEN q ELSE IdleReview
      /\ \A i \in Requests \ {r} : rreq'[i] = rreq[i]
  BY DEF Continue, AfterSave, RecalcInv, Inv, RatingInv, IsFcn
<1> HIDE DEF q
<1> QED
  BY <1>1, <1>2, <1>3, IdleRows DEF RecalcInv, RowsShape

\* What is to follow a change of what p deserves.
Follows(p) ==
    \/ \E r \in Requests : /\ rreq[r].pc # "read"
                           /\ rreq'[r].pc = "read"
                           /\ Performer[rreq'[r].appt] = p
    \/ \E r \in Requests, a \in Appts : AdminHide(r, a)
    \/ \E r \in Requests : /\ rreq[r].pc = "write"
                           /\ ~rreq[r].recalc
                           /\ rreq[r].dirty \cap {"rating", "visible"} # {}

Recalculates == \A p \in Prestataires : Deserved(p)' # Deserved(p) => Follows(p)

LEMMA QuietReviews ==
    ASSUME UNCHANGED review
    PROVE  Recalculates
BY DEF Recalculates, Deserved, Judged, Visible, Live

LEMMA InsertRecalculates ==
    ASSUME RecalcInv, NEW r \in Requests, CreateInsert(r)
    PROVE  RowsShape' /\ Recalculates
<1> DEFINE a == rreq[r].appt
           row == [rreq[r].copy EXCEPT !.born = Births + 1]
           q == [rreq[r] EXCEPT !.pc = "read"]
<1>1. /\ rreq[r].pc = "insert" /\ a \in Appts
      /\ IsRequest(rreq[r]) /\ IsRow(rreq[r].copy) /\ rreq[r].dirty \subseteq Columns
  BY DEF CreateInsert, RecalcInv, Inv, RatingInv, RequestRead, RowsShape
<1>2. IsRow(row)
  <2> DEFINE n == Births + 1
  <2> HIDE DEF n
  <2>1. IsRow([rreq[r].copy EXCEPT !.born = n])
    BY <1>1 DEF IsRow
  <2> QED
    BY <2>1 DEF n
<1>3. q.pc = "read" /\ q.appt = a /\ q.copy = rreq[r].copy /\ q.dirty = rreq[r].dirty
  BY <1>1 DEF IsRequest
<1>4. review' = [review EXCEPT ![a] = row] /\ rreq' = [rreq EXCEPT ![r] = q]
  BY DEF CreateInsert, RecalcInv, Inv, RatingInv, IsFcn
<1>5. rreq'[r] = q /\ \A i \in Requests \ {r} : rreq'[i] = rreq[i]
  BY <1>4 DEF RecalcInv, Inv, RatingInv, IsFcn
<1> HIDE DEF row, q, a
<1>6. \A i \in Requests : IsRow(rreq'[i].copy) /\ rreq'[i].dirty \subseteq Columns
  BY <1>1, <1>3, <1>5 DEF RecalcInv, RowsShape
<1>7. RowsShape' /\ \A b \in Appts \ {a} : review'[b] = review[b]
  BY <1>1, <1>2, <1>4, <1>6, ShapeWrites
<1>8. ASSUME NEW p \in Prestataires, Deserved(p)' # Deserved(p)
      PROVE  Follows(p)
  <2>1. Performer[a] = p
    BY <1>1, <1>7, <1>8, SameDeserved
  <2> QED
    BY <1>1, <1>3, <1>5, <2>1 DEF Follows
<1> QED
  BY <1>7, <1>8 DEF Recalculates

LEMMA WriteRecalculates ==
    ASSUME RecalcInv, NEW r \in Requests, SaveWrite(r)
    PROVE  RowsShape' /\ Recalculates
<1> DEFINE a == rreq[r].appt
           old == review[a]
           row == [c \in DOMAIN old |-> IF c \in rreq[r].dirty THEN rreq[r].copy[c]
                                        ELSE old[c]]
<1>1. /\ rreq[r].pc = "write" /\ a \in Appts /\ IsRow(old)
      /\ rreq[r].dirty \subseteq Columns
  BY DEF SaveWrite, RecalcInv, Inv, RatingInv, RequestRead, RowsShape
<1>2. IsRow(row) /\ row.born = old.born
      /\ ("rating" \notin rreq[r].dirty => row.rating = old.rating)
      /\ ("visible" \notin rreq[r].dirty => row.visible = old.visible)
  <2>1. DOMAIN old = {"born", "rating", "edits", "response", "flagged", "visible"}
    BY <1>1 DEF IsRow
  <2>2. "born" \notin rreq[r].dirty
    BY <1>1 DEF Columns
  <2>3. row = [born |-> row.born, rating |-> row.rating, edits |-> row.edits,
               response |-> row.response, flagged |-> row.flagged,
               visible |-> row.visible]
    BY <2>1
  <2>4. IsRow(row)
    <3> HIDE DEF row
    <3> QED
      BY <2>3 DEF IsRow
  <2> QED
    BY <2>1, <2>2, <2>4
<1>3. review' = [review EXCEPT ![a] = row] /\ Continue(r, AfterSave(r))
  BY <1>1 DEF SaveWrite, RecalcInv, RowsShape, IsFcn
<1> HIDE DEF row
<1>4. /\ \A i \in Requests : IsRow(rreq'[i].copy) /\ rreq'[i].dirty \subseteq Columns
      /\ rreq[r].recalc => rreq'[r].pc = "read" /\ rreq'[r].appt = a
  BY <1>3, ContinueShape
<1>5. /\ RowsShape' /\ review'[a] = row
      /\ \A b \in Appts \ {a} : review'[b] = review[b]
  BY <1>1, <1>2, <1>3, <1>4, ShapeWrites
<1>6. ASSUME NEW p \in Prestataires, Deserved(p)' # Deserved(p)
      PROVE  Follows(p)
  <2>1. Performer[a] = p /\ rreq[r].dirty \cap {"rating", "visible"} # {}
    BY <1>1, <1>2, <1>5, <1>6, SameDeserved
  <2>2. CASE rreq[r].recalc
    BY <1>1, <1>4, <2>1, <2>2 DEF Follows
  <2>3. CASE ~rreq[r].recalc
    BY <1>1, <2>1, <2>3 DEF Follows
  <2> QED
    BY <2>2, <2>3
<1> QED
  BY <1>5, <1>6 DEF Recalculates

\* The two statements of an administrator.
LEMMA AdminRecalculates ==
    ASSUME RecalcInv, NEW r \in Requests, NEW a \in Appts,
           AdminHide(r, a) \/ AdminUnflag(r, a)
    PROVE  RowsShape' /\ Recalculates
<1> DEFINE old == review[a]
<1>1. IsRow(old)
  BY DEF RecalcInv, RowsShape
<1>2. PICK row : /\ IsRow(row)
                 /\ review' = [review EXCEPT ![a] = row]
                 /\ AdminHide(r, a) \/ /\ row.born = old.born
                                       /\ row.rating = old.rating
                                       /\ row.visible = old.visible
  <2>1. CASE AdminHide(r, a)
    <3> DEFINE row == [old EXCEPT !.visible = FALSE]
    <3>1. IsRow(row)
      BY <1>1 DEF IsRow
    <3>2. review' = [review EXCEPT ![a] = row]
      BY <2>1 DEF AdminHide
    <3> HIDE DEF row
    <3> QED
      BY <2>1, <3>1, <3>2
  <2>2. CASE AdminUnflag(r, a)
    <3> DEFINE row == [old EXCEPT !.flagged = FALSE]
    <3>1. IsRow(row) /\ row.born = old.born /\ row.rating = old.rating
          /\ row.visible = old.visible
      BY <1>1 DEF IsRow
    <3>2. review' = [review EXCEPT ![a] = row]
      BY <2>2 DEF AdminUnflag
    <3> HIDE DEF row
    <3> QED
      BY <3>1, <3>2
  <2> QED
    BY <2>1, <2>2
<1>3. \A i \in Requests : IsRow(rreq'[i].copy) /\ rreq'[i].dirty \subseteq Columns
  BY DEF AdminHide, AdminUnflag, RecalcInv, RowsShape
<1>4. /\ RowsShape' /\ review'[a] = row
      /\ \A b \in Appts \ {a} : review'[b] = review[b]
  BY <1>2, <1>3, ShapeWrites
<1>5. ASSUME NEW p \in Prestataires, Deserved(p)' # Deserved(p)
      PROVE  Follows(p)
  <2>1. AdminHide(r, a)
    BY <1>2, <1>4, <1>5, SameDeserved
  <2> QED
    BY <2>1 DEF Follows
<1> QED
  BY <1>4, <1>5 DEF Recalculates

\* The calls that only begin.
LEMMA CallShape ==
    ASSUME RecalcInv, NEW r \in Requests, NEW a \in Appts, ReviewCall(r, a)
    PROVE  RowsShape' /\ Recalculates
<1>1. IsRow(review[a])
  BY DEF RecalcInv, RowsShape
<1>2. ASSUME NEW copy, IsRow(copy), NEW recalc, Save(r, a, copy, recalc),
             review' = review
      PROVE  RowsShape'
  <2> DEFINE q == [IdleReview EXCEPT !.pc = "load", !.appt = a,
                                     !.copy = copy, !.recalc = recalc]
  <2>1. q.copy = copy /\ q.dirty = {}
    BY DEF IdleReview
  <2>2. rreq' = [rreq EXCEPT ![r] = q]
    BY <1>2 DEF Save
  <2> HIDE DEF q
  <2> QED
    BY <1>2, <2>1, <2>2, ShapeMoves
<1>3. ASSUME NEW n \in Ratings, CreateBegin(r, a, n)
      PROVE  RowsShape' /\ Recalculates
  <2> DEFINE copy == [NoReview EXCEPT !.rating = n, !.visible = TRUE]
             q == [IdleReview EXCEPT !.pc = "insert", !.appt = a,
                      !.recalc = TRUE, !.created = TRUE, !.copy = copy]
  <2>1. IsRow(copy)
    BY IdleRows DEF IsRow, NoReview
  <2>2. q.copy = copy /\ q.dirty = {}
    <3> HIDE DEF copy
    <3> QED
      BY DEF IdleReview
  <2>3. rreq' = [rreq EXCEPT ![r] = q] /\ review' = review
    BY <1>3 DEF CreateBegin, Rows
  <2> HIDE DEF q, copy
  <2> QED
    BY <2>1, <2>2, <2>3, ShapeMoves, QuietReviews
<1>4. ASSUME NEW n \in Ratings \cup {Null}, EditBegin(r, a, n)
      PROVE  RowsShape' /\ Recalculates
  <2> DEFINE stars == IF n = Null THEN review[a].rating ELSE n
             edits == review[a].edits + 1
             copy == [review[a] EXCEPT !.rating = stars, !.edits = edits]
  <2>1. IsRow(copy)
    <3> HIDE DEF stars, edits
    <3> QED
      BY <1>1 DEF IsRow
  <2>2. Save(r, a, copy, n # Null) /\ review' = review
    BY <1>4 DEF EditBegin, Rows
  <2> HIDE DEF copy
  <2> QED
    BY <1>2, <2>1, <2>2, QuietReviews
<1>5. CASE RespondBegin(r, a)
  <2>1. IsRow([review[a] EXCEPT !.response = TRUE])
    BY <1>1 DEF IsRow
  <2> QED
    BY <1>2, <1>5, <2>1, QuietReviews DEF RespondBegin, Rows
<1>6. CASE FlagBegin(r, a) \/ UnflagBegin(r, a)
  <2>1. /\ IsRow([review[a] EXCEPT !.flagged = TRUE])
        /\ IsRow([review[a] EXCEPT !.flagged = FALSE])
    BY <1>1 DEF IsRow
  <2> QED
    BY <1>2, <1>6, <2>1, QuietReviews DEF FlagBegin, UnflagBegin, Rows
<1>7. CASE HideBegin(r, a)
  <2>1. IsRow([review[a] EXCEPT !.visible = FALSE])
    BY <1>1 DEF IsRow
  <2> QED
    BY <1>2, <1>7, <2>1, QuietReviews DEF HideBegin, Rows
<1> QED
  BY <1>3, <1>4, <1>5, <1>6, <1>7, AdminRecalculates DEF ReviewCall

LEMMA StepShape ==
    ASSUME RecalcInv, NEW r \in Requests, ReviewStep(r)
    PROVE  RowsShape' /\ Recalculates
<1> DEFINE o == rreq[r]
<1>1. IsRequest(o) /\ IsRow(o.copy) /\ o.dirty \subseteq Columns
  BY DEF RecalcInv, Inv, RatingInv, RequestRead, RowsShape
<1>2. CASE CreateDuplicate(r)
  BY <1>2, IdleRows, ShapeMoves, QuietReviews DEF CreateDuplicate, Finish, Rows
<1>3. CASE SaveLoad(r)
  <2> DEFINE dirty == {c \in Columns : o.copy[c] # review[o.appt][c]}
             q == [o EXCEPT !.pc = "write", !.dirty = dirty]
  <2>1. review' = review
    BY <1>3 DEF SaveLoad, Rows
  <2>2. CASE dirty = {}
    <3>1. Continue(r, AfterSave(r))
      BY <1>3, <2>2 DEF SaveLoad
    <3> QED
      BY <2>1, <3>1, ContinueShape, QuietReviews DEF RecalcInv, RowsShape, IsFcn, IsRow
  <2>3. CASE dirty # {}
    <3>1. rreq' = [rreq EXCEPT ![r] = q]
      BY <1>3, <2>3 DEF SaveLoad, RecalcInv, Inv, RatingInv, IsFcn
    <3>2. q.copy = o.copy /\ q.dirty = dirty
      BY <1>1 DEF IsRequest
    <3>3. dirty \subseteq Columns
      OBVIOUS
    <3> HIDE DEF q, dirty
    <3> QED
      BY <1>1, <2>1, <3>1, <3>2, <3>3, ShapeMoves, QuietReviews
  <2> QED
    BY <2>2, <2>3
<1>4. CASE RatingRead(r)
  <2> DEFINE x == Deserved(Performer[o.appt])
             q == [o EXCEPT !.pc = "store", !.result = x]
  <2>1. rreq' = [rreq EXCEPT ![r] = q] /\ review' = review
    BY <1>4 DEF RatingRead, Rows, RecalcInv, Inv, RatingInv, IsFcn
  <2>2. q.copy = o.copy /\ q.dirty = o.dirty
    <3> HIDE DEF x
    <3> QED
      BY <1>1 DEF IsRequest
  <2> HIDE DEF q, x
  <2> QED
    BY <1>1, <2>1, <2>2, ShapeMoves, QuietReviews
<1> QED
  BY <1>2, <1>3, <1>4, InsertRecalculates, WriteRecalculates DEF ReviewStep

LEMMA RecalcNext ==
    ASSUME RecalcInv, [Next]_vars
    PROVE  RowsShape' /\ Recalculates
<1>1. ASSUME UNCHANGED <<review, rreq>>
      PROVE  RowsShape' /\ Recalculates
  BY <1>1, QuietReviews DEF RecalcInv, RowsShape, IsFcn, IsRow
<1>2. ASSUME NEW r \in Requests, Finish(r), review' = review
      PROVE  RowsShape' /\ Recalculates
  BY <1>2, IdleRows, ShapeMoves, QuietReviews DEF Finish
<1>3. CASE UNCHANGED vars
  BY <1>1, <1>3 DEF vars, reviewVars
<1>4. CASE \E r \in Requests : ReviewCreated(r) \/ RatingStored(r)
  BY <1>2, <1>4 DEF ReviewCreated, RatingStored, RatingStore
<1>5. CASE \E a \in Appts : AppointmentCompleted(a)
  BY <1>1, <1>5 DEF AppointmentCompleted, CompleteAppointment
<1>6. CASE Abandoned
  BY <1>1, <1>2, <1>6 DEF Abandoned, Rows
<1>7. CASE \E j \in Jobs, p \in Prestataires : Nightly(j, p)
  BY <1>1, <1>7 DEF Nightly, reviewVars
<1> QED
  BY <1>1, <1>3, <1>4, <1>5, <1>6, <1>7, CallShape, StepShape
     DEF Next, Step, reviewVars

\* Whoever changes what a prestataire deserves goes on to recalculate it, but
\* for the two ways that ChangeIsRecalculated names.
THEOREM RecalculationFollows == Spec => ChangeIsRecalculated
<1>1. Init => RecalcInv
  <2> SUFFICES ASSUME Init PROVE RecalcInv
    OBVIOUS
  <2>1. RowsShape
    BY IdleRows DEF Init, ReviewsInit, RowsShape, IsFcn
  <2> QED
    BY <2>1, InitInv DEF RecalcInv
<1>2. RecalcInv /\ [Next]_vars => RecalcInv'
  BY NextInv, RecalcNext DEF RecalcInv
<1>3. RecalcInv /\ [Next]_vars =>
        [\A p \in Prestataires : (Deserved(p)' # Deserved(p)) =>
            \/ \E r \in Requests : /\ rreq[r].pc # "read"
                                   /\ rreq'[r].pc = "read"
                                   /\ Performer[rreq'[r].appt] = p
            \/ \E r \in Requests, a \in Appts : AdminHide(r, a)
            \/ \E r \in Requests : /\ rreq[r].pc = "write"
                                   /\ ~rreq[r].recalc
                                   /\ rreq[r].dirty \cap {"rating", "visible"} # {}
        ]_vars
  BY RecalcNext DEF Recalculates, Follows
<1> QED
  BY <1>1, <1>2, <1>3, PTL DEF Spec, ChangeIsRecalculated

-----------------------------------------------------------------------------
(* Sums and products over a finite set, by induction on its subsets.  The   *)
(* library defines them by recursion, as the choice of a function that      *)
(* satisfies an equation: that one exists is FoldExists.                    *)

\* Finite induction, with the set of what has the property for the property.
LEMMA SubsetInduction ==
    ASSUME NEW S, IsFiniteSet(S), NEW T,
           \A s \in SUBSET S : (\A x \in s : s \ {x} \in T) => s \in T
    PROVE  SUBSET S \subseteq T
<1> DEFINE U == (SUBSET S) \ T
           R == StrictSubsetOrdering(S)
<1> SUFFICES ASSUME U # {} PROVE FALSE
  OBVIOUS
<1>1. IsWellFoundedOn(R, SUBSET S)
  <2>1. FiniteSubsetsOf(S) = SUBSET S
    BY FS_FiniteSubsetsOfFinite
  <2>2. IsWellFoundedOn(R, FiniteSubsetsOf(S))
    BY FS_StrictSubsetOrderingWellFounded
  <2> HIDE DEF R
  <2> QED
    BY <2>1, <2>2
<1>2. PICK s \in U : \A y \in U : ~(<<y, s>> \in R)
  <2> HIDE DEF R
  <2> QED
    BY <1>1, WFMin
<1>3. \A x \in s : s \ {x} \in T
  <2> SUFFICES ASSUME NEW x \in s, s \ {x} \notin T PROVE FALSE
    OBVIOUS
  <2>1. s \ {x} \in U
    OBVIOUS
  <2>2. <<s \ {x}, s>> \in R
    BY DEF StrictSubsetOrdering
  <2> QED
    BY <1>2, <2>1, <2>2
<1> QED
  BY <1>3

\* The element that a fold takes from a set first, and what is left.
First(s) == CHOOSE x \in s : TRUE

Rest(s) == s \ {First(s)}

LEMMA Sizes ==
    ASSUME NEW S, IsFiniteSet(S), NEW s \in SUBSET S
    PROVE  /\ Cardinality(s) \in Nat
           /\ Cardinality(s) =< Cardinality(S)
           /\ (Cardinality(s) = 0 <=> s = {})
           /\ s # {} => /\ First(s) \in s
                        /\ Rest(s) \in SUBSET S
                        /\ Cardinality(Rest(s)) = Cardinality(s) - 1
<1>1. IsFiniteSet(s)
  BY FS_Subset
<1>2. s # {} => First(s) \in s
  BY DEF First
<1> QED
  BY <1>1, <1>2, FS_Subset, FS_CardinalityType, FS_EmptySet, FS_RemoveElement DEF Rest

\* The fold function g of step, at s.
FoldsTo(g, base, step, s) ==
    g[s] = IF s = {} THEN base ELSE step[<<First(s), g[Rest(s)]>>]

\* g folds step over the sets of at most n elements of S.
FoldsUpto(g, base, step, S, n) ==
    \A s \in SUBSET S : Cardinality(s) =< n => FoldsTo(g, base, step, s)

LEMMA FoldGrows ==
    ASSUME NEW S, IsFiniteSet(S), NEW B, NEW base \in B,
           NEW step \in [S \X B -> B], NEW n \in Nat,
           NEW g \in [SUBSET S -> B], FoldsUpto(g, base, step, S, n)
    PROVE  \E h \in [SUBSET S -> B] : FoldsUpto(h, base, step, S, n + 1)
<1> DEFINE h == [s \in SUBSET S |-> IF Cardinality(s) =< n THEN g[s]
                                    ELSE step[<<First(s), g[Rest(s)]>>]]
<1>1. h \in [SUBSET S -> B]
  <2> SUFFICES ASSUME NEW s \in SUBSET S, ~(Cardinality(s) =< n)
               PROVE  step[<<First(s), g[Rest(s)]>>] \in B
    OBVIOUS
  <2>1. Cardinality(s) # 0
    OBVIOUS
  <2>2. <<First(s), g[Rest(s)]>> \in S \X B
    BY <2>1, Sizes
  <2> QED
    BY <2>2
<1>2. ASSUME NEW s \in SUBSET S, Cardinality(s) =< n + 1
      PROVE  FoldsTo(h, base, step, s)
  <2>1. CASE s = {}
    <3>1. Cardinality(s) = 0
      BY <2>1, Sizes
    <3>2. h[s] = g[s] /\ FoldsTo(g, base, step, s)
      BY <3>1 DEF FoldsUpto
    <3> QED
      BY <2>1, <3>2 DEF FoldsTo
  <2>2. CASE s # {}
    <3>1. Rest(s) \in SUBSET S /\ Cardinality(Rest(s)) =< n
      BY <1>2, <2>2, Sizes
    <3>2. h[Rest(s)] = g[Rest(s)]
      BY <3>1
    <3>3. h[s] = step[<<First(s), g[Rest(s)]>>]
      BY <2>2 DEF FoldsUpto, FoldsTo
    <3> QED
      BY <2>2, <3>2, <3>3 DEF FoldsTo
  <2> QED
    BY <2>1, <2>2
<1> HIDE DEF h
<1> QED
  BY <1>1, <1>2 DEF FoldsUpto

\* A fold over the subsets of a finite set is a function.
LEMMA FoldExists ==
    ASSUME NEW S, IsFiniteSet(S), NEW B, NEW base \in B,
           NEW step \in [S \X B -> B]
    PROVE  \E g \in [SUBSET S -> B] : \A s \in SUBSET S : FoldsTo(g, base, step, s)
<1> DEFINE T == {t \in SUBSET S : \E g \in [SUBSET S -> B] :
                                     FoldsUpto(g, base, step, S, Cardinality(t))}
<1>1. ASSUME NEW t \in SUBSET S, \A x \in t : t \ {x} \in T
      PROVE  t \in T
  <2>1. CASE t = {}
    <3> DEFINE g == [s \in SUBSET S |-> base]
    <3>1. g \in [SUBSET S -> B]
      OBVIOUS
    <3>2. \A s \in SUBSET S : s = {} => FoldsTo(g, base, step, s)
      BY DEF FoldsTo
    <3> HIDE DEF g
    <3>3. Cardinality(t) = 0
      BY <2>1, Sizes
    <3>4. ASSUME NEW s \in SUBSET S, Cardinality(s) =< 0
          PROVE  s = {}
      BY <3>4, Sizes
    <3>5. FoldsUpto(g, base, step, S, Cardinality(t))
      BY <3>2, <3>3, <3>4 DEF FoldsUpto
    <3> QED
      BY <3>1, <3>5
  <2>2. CASE t # {}
    <3> DEFINE n == Cardinality(Rest(t))
    <3>1. n \in Nat /\ Cardinality(t) = n + 1 /\ First(t) \in t
      BY <2>2, Sizes
    <3>2. Rest(t) \in T
      BY <1>1, <3>1 DEF Rest
    <3>3. PICK g \in [SUBSET S -> B] : FoldsUpto(g, base, step, S, n)
      BY <3>2
    <3> HIDE DEF n
    <3>4. \E h \in [SUBSET S -> B] : FoldsUpto(h, base, step, S, n + 1)
      BY <3>1, <3>3, FoldGrows
    <3> QED
      BY <3>1, <3>4
  <2> QED
    BY <2>1, <2>2
<1>2. S \in T
  <2> HIDE DEF T
  <2> QED
    BY <1>1, SubsetInduction
<1>3. PICK g \in [SUBSET S -> B] : FoldsUpto(g, base, step, S, Cardinality(S))
  BY <1>2
<1> QED
  BY <1>3, Sizes DEF FoldsUpto

\* g[s] is the sum of f over s, taken element by element.
Sums(g, f, S) ==
    /\ g[{}] = 0
    /\ \A s \in SUBSET S : s # {} => g[s] = f[First(s)] + g[Rest(s)]
    /\ \A s \in SUBSET S : g[s] \in Nat

LEMMA SumSteps ==
    ASSUME NEW S, IsFiniteSet(S), NEW f \in [S -> Nat]
    PROVE  \E g : Sums(g, f, S) /\ g[S] = SumFunction(f)
<1> DEFINE step == [c \in S \X Nat |-> f[c[1]] + c[2]]
           Body(g) == [s \in SUBSET S |-> IF s = {} THEN 0
                         ELSE LET x == CHOOSE x \in s : TRUE
                              IN  f[x] + g[s \ {x}]]
           iter == CHOOSE g : g = Body(g)
<1>1. step \in [S \X Nat -> Nat]
  OBVIOUS
<1>2. ASSUME NEW g \in [SUBSET S -> Nat],
             \A s \in SUBSET S : FoldsTo(g, 0, step, s)
      PROVE  g = Body(g)
  <2>1. ASSUME NEW s \in SUBSET S, s # {}
        PROVE  g[s] = f[First(s)] + g[Rest(s)]
    <3>1. First(s) \in S /\ g[Rest(s)] \in Nat
      BY <2>1, Sizes
    <3> QED
      BY <1>2, <2>1, <3>1 DEF FoldsTo
  <2>2. g[{}] = 0
    BY <1>2 DEF FoldsTo
  <2> QED
    BY <2>1, <2>2 DEF First, Rest
<1>3. iter = Body(iter)
  <2> HIDE DEF Body, step
  <2> QED
    BY <1>1, <1>2, FoldExists
<1>4. SumFunction(f) = iter[S]
  BY DEF SumFunction, SumFunctionOnSet, FoldFunctionOnSet, MapThenFoldSet
<1>5. iter[{}] = 0 /\ \A s \in SUBSET S : s # {} => iter[s] = f[First(s)] + iter[Rest(s)]
  <2> HIDE DEF iter
  <2> QED
    BY <1>3 DEF First, Rest
<1> HIDE DEF iter
<1> DEFINE T == {s \in SUBSET S : iter[s] \in Nat}
<1>6. ASSUME NEW s \in SUBSET S, \A x \in s : s \ {x} \in T
      PROVE  s \in T
  <2>1. CASE s # {}
    <3>1. First(s) \in S /\ iter[Rest(s)] \in Nat
      BY <1>6, <2>1, Sizes DEF Rest
    <3> QED
      BY <1>5, <2>1, <3>1
  <2>2. CASE s = {}
    BY <1>5, <2>2
  <2> QED
    BY <2>1, <2>2
<1>7. \A s \in SUBSET S : s \in T
  <2> HIDE DEF T
  <2> QED
    BY <1>6, SubsetInduction
<1> QED
  BY <1>4, <1>5, <1>7 DEF Sums

\* The product of positive numbers is positive.
LEMMA ProductPositive ==
    ASSUME NEW S, IsFiniteSet(S), NEW f \in [S -> Nat \ {0}]
    PROVE  Product(f) \in Nat \ {0}
<1> DEFINE N1 == Nat \ {0}
           step == [c \in S \X N1 |-> f[c[1]] * c[2]]
           Body(g) == [s \in SUBSET S |-> IF s = {} THEN 1
                         ELSE LET x == CHOOSE x \in s : TRUE
                              IN  f[x] * g[s \ {x}]]
           iter == CHOOSE g : g = Body(g)
<1>0. \A m, n \in N1 : m * n \in N1
  OBVIOUS
<1>1. step \in [S \X N1 -> N1] /\ 1 \in N1
  <2> HIDE DEF N1
  <2> QED
    BY <1>0, 1 \in N1 DEF N1
<1>2. ASSUME NEW g \in [SUBSET S -> N1],
             \A s \in SUBSET S : FoldsTo(g, 1, step, s)
      PROVE  g = Body(g)
  <2>1. ASSUME NEW s \in SUBSET S, s # {}
        PROVE  g[s] = f[First(s)] * g[Rest(s)]
    <3>1. First(s) \in S /\ g[Rest(s)] \in N1
      BY <2>1, Sizes
    <3> HIDE DEF N1
    <3> QED
      BY <1>2, <2>1, <3>1 DEF FoldsTo
  <2>2. g[{}] = 1
    BY <1>2 DEF FoldsTo
  <2> QED
    BY <2>1, <2>2 DEF First, Rest
<1>3. iter = Body(iter)
  <2> HIDE DEF Body, step, N1
  <2> QED
    BY <1>1, <1>2, FoldExists
<1>4. Product(f) = iter[S]
  BY DEF Product, FoldFunction, FoldFunctionOnSet, MapThenFoldSet
<1>5. iter[{}] = 1 /\ \A s \in SUBSET S : s # {} => iter[s] = f[First(s)] * iter[Rest(s)]
  <2> HIDE DEF iter
  <2> QED
    BY <1>3 DEF First, Rest
<1> HIDE DEF iter
<1> DEFINE T == {s \in SUBSET S : iter[s] \in N1}
<1>6. ASSUME NEW s \in SUBSET S, \A x \in s : s \ {x} \in T
      PROVE  s \in T
  <2>1. CASE s # {}
    <3>1. First(s) \in S /\ iter[Rest(s)] \in N1
      BY <1>6, <2>1, Sizes DEF Rest
    <3>2. f[First(s)] \in N1 /\ iter[s] = f[First(s)] * iter[Rest(s)]
      BY <1>5, <2>1, <3>1
    <3>3. iter[s] \in N1
      BY <1>0, <3>1, <3>2
    <3> QED
      BY <3>3
  <2>2. CASE s = {}
    BY <1>5, <2>2
  <2> QED
    BY <2>1, <2>2
<1>7. \A s \in SUBSET S : s \in T
  <2> HIDE DEF T
  <2> QED
    BY <1>6, SubsetInduction
<1> QED
  BY <1>4, <1>7

\* Scaling: between lo and hi times the weights.
LEMMA Scaled ==
    ASSUME NEW lo \in Nat, NEW hi \in Nat, NEW v \in Nat, NEW w \in Nat,
           NEW x \in Nat, NEW y \in Nat, lo =< v, v =< hi,
           lo * x =< y, y =< hi * x
    PROVE  lo * (w + x) =< v * w + y /\ v * w + y =< hi * (w + x)
<1>1. lo * w =< v * w
  OBVIOUS
<1>2. v * w =< hi * w
  OBVIOUS
<1>3. lo * (w + x) = lo * w + lo * x /\ hi * (w + x) = hi * w + hi * x
  OBVIOUS
<1>4. lo * w \in Nat /\ v * w \in Nat /\ hi * w \in Nat /\ lo * x \in Nat /\ hi * x \in Nat
  OBVIOUS
<1> QED
  BY <1>1, <1>2, <1>3, <1>4

\* A sum of weighted values lies between the lowest and the highest value,
\* times the sum of the weights, which is positive.
LEMMA WeightedSum ==
    ASSUME NEW S, IsFiniteSet(S), NEW v \in [S -> Nat], NEW w \in [S -> Nat \ {0}],
           NEW lo \in Nat, NEW hi \in Nat, \A a \in S : lo =< v[a] /\ v[a] =< hi
    PROVE  LET total == SumFunction(w)
               sum == SumFunction([a \in S |-> v[a] * w[a]])
           IN  /\ sum \in Nat /\ total \in Nat
               /\ S # {} => total > 0
               /\ lo * total =< sum /\ sum =< hi * total
<1> DEFINE vw == [a \in S |-> v[a] * w[a]]
<1>1. \A a \in S : v[a] \in Nat /\ w[a] \in Nat /\ w[a] > 0
  OBVIOUS
<1>2. w \in [S -> Nat]
  BY <1>1
<1>3. vw \in [S -> Nat]
  BY <1>1
<1>4. \A a \in S : vw[a] = v[a] * w[a]
  OBVIOUS
<1> HIDE DEF vw
<1>5. PICK x : Sums(x, w, S) /\ x[S] = SumFunction(w)
  BY <1>2, SumSteps
<1>6. PICK y : Sums(y, vw, S) /\ y[S] = SumFunction(vw)
  BY <1>3, SumSteps
<1> DEFINE T == {s \in SUBSET S : /\ lo * x[s] =< y[s] /\ y[s] =< hi * x[s]
                                  /\ s # {} => x[s] > 0}
<1>7. ASSUME NEW s \in SUBSET S, \A e \in s : s \ {e} \in T
      PROVE  s \in T
  <2>1. CASE s = {}
    <3>1. x[s] = 0 /\ y[s] = 0
      BY <1>5, <1>6, <2>1 DEF Sums
    <3> QED
      BY <2>1, <3>1
  <2>2. CASE s # {}
    <3> DEFINE e == First(s)
               r == Rest(s)
    <3>1. e \in S /\ r \in T /\ r \in SUBSET S
      BY <1>7, <2>2, Sizes DEF Rest
    <3>2. x[s] = w[e] + x[r] /\ y[s] = v[e] * w[e] + y[r]
      BY <1>4, <1>5, <1>6, <2>2, <3>1 DEF Sums
    <3>3. x[r] \in Nat /\ y[r] \in Nat /\ lo * x[r] =< y[r] /\ y[r] =< hi * x[r]
      BY <1>5, <1>6, <3>1 DEF Sums
    <3> HIDE DEF e, r
    <3>4. v[e] \in Nat /\ w[e] \in Nat /\ w[e] > 0 /\ lo =< v[e] /\ v[e] =< hi
      BY <1>1, <3>1
    <3>5. lo * x[s] =< y[s] /\ y[s] =< hi * x[s]
      BY <3>2, <3>3, <3>4, Scaled
    <3>6. x[s] > 0
      BY <3>2, <3>3, <3>4
    <3> QED
      BY <3>5, <3>6
  <2> QED
    BY <2>1, <2>2
<1>8. S \in T
  <2> HIDE DEF T
  <2> QED
    BY <1>7, SubsetInduction
<1>9. x[S] \in Nat /\ y[S] \in Nat
  BY <1>5, <1>6 DEF Sums
<1> QED
  BY <1>5, <1>6, <1>8, <1>9 DEF vw

LEMMA RoundedBetween ==
    ASSUME NEW sum \in Nat, NEW total \in Nat, total > 0,
           NEW lo \in Nat, NEW hi \in Nat, lo * total =< sum, sum =< hi * total
    PROVE  /\ Rounded(sum, total) \in Nat
           /\ 100 * lo =< Rounded(sum, total) /\ Rounded(sum, total) =< 100 * hi
<1> DEFINE q == Rounded(sum, total)
           m == 200 * sum + total
           d == 2 * total
<1>1. m \in Nat /\ d \in Nat /\ d > 0
  OBVIOUS
<1>2. q = m \div d
  BY DEF Rounded
<1> HIDE DEF q, m, d
<1>3. q \in Int /\ d * q =< m /\ m < d * q + d
  BY <1>1, <1>2
<1>4. m = 200 * sum + total /\ d = 2 * total
  BY DEF m, d
<1>5. 200 * (lo * total) =< 200 * sum /\ 200 * sum =< 200 * (hi * total)
      /\ lo * total \in Nat /\ hi * total \in Nat
  OBVIOUS
<1>6. d * (100 * lo) = 200 * (lo * total) /\ d * (100 * hi) = 200 * (hi * total)
  BY <1>4
<1>7. 100 * lo =< q
  <2> SUFFICES ASSUME q + 1 =< 100 * lo PROVE FALSE
    BY <1>3
  <2>1. d * (q + 1) =< d * (100 * lo)
    BY <1>1, <1>3
  <2>2. d * (q + 1) = d * q + d /\ d * q \in Int /\ d * (100 * lo) \in Int
    BY <1>1, <1>3
  <2> QED
    BY <1>3, <1>4, <1>5, <1>6, <2>1, <2>2
<1>8. q =< 100 * hi
  <2> SUFFICES ASSUME 100 * hi + 1 =< q PROVE FALSE
    BY <1>3
  <2>1. d * (100 * hi + 1) =< d * q
    BY <1>1, <1>3
  <2>2. d * (100 * hi + 1) = d * (100 * hi) + d /\ d * q \in Int
        /\ d * (100 * hi) \in Int
    BY <1>1, <1>3
  <2> QED
    BY <1>3, <1>4, <1>5, <1>6, <2>1, <2>2
<1>9. 100 * lo \in Nat /\ q \in Int
  BY <1>3
<1>10. q \in Nat
  BY <1>7, <1>9
<1> QED
  BY <1>7, <1>8, <1>10 DEF q

-----------------------------------------------------------------------------
(* The rating is a weighted average *)

LEMMA WeightPositive ==
    ASSUME NEW rows, IsFiniteSet(DOMAIN rows), NEW a
    PROVE  Weight(a, rows) \in Nat \ {0}
<1> DEFINE S == DOMAIN rows \ {a}
           f == [b \in S |-> IF rows[b].born > rows[a].born THEN 95 ELSE 100]
<1>1. IsFiniteSet(S) /\ f \in [S -> Nat \ {0}]
  BY FS_Subset
<1> HIDE DEF S, f
<1>2. Product(f) \in Nat \ {0}
  BY <1>1, ProductPositive
<1> QED
  BY <1>2 DEF Weight, f, S

LEMMA RatingBetween ==
    ASSUME NEW rows, IsFiniteSet(DOMAIN rows), NEW lo \in Nat, NEW hi \in Nat,
           \A a \in DOMAIN rows : /\ rows[a].rating \in Nat
                                  /\ lo =< rows[a].rating /\ rows[a].rating =< hi
    PROVE  /\ RatingOf(rows) \in RatingCols
           /\ DOMAIN rows # {} => /\ 100 * lo =< RatingOf(rows).average
                                  /\ RatingOf(rows).average =< 100 * hi
<1> DEFINE D == DOMAIN rows
           v == [a \in D |-> rows[a].rating]
           w == [a \in D |-> Weight(a, rows)]
           sum == SumFunction([a \in D |-> v[a] * w[a]])
           total == SumFunction(w)
<1>1. v \in [D -> Nat] /\ \A a \in D : lo =< v[a] /\ v[a] =< hi
  OBVIOUS
<1>2. w \in [D -> Nat \ {0}]
  BY WeightPositive
<1>3. Cardinality(D) \in Nat
  BY FS_CardinalityType
<1>4. [a \in D |-> v[a] * w[a]] = [a \in D |-> rows[a].rating * w[a]]
  OBVIOUS
<1>5. CASE D = {}
  BY <1>5 DEF RatingOf, RatingCols, Unrated
<1>6. CASE D # {}
  <2>1. RatingOf(rows) = [average |-> Rounded(sum, total), count |-> Cardinality(D)]
    BY <1>4, <1>6 DEF RatingOf
  <2> HIDE DEF v, w
  <2>2. /\ sum \in Nat /\ total \in Nat /\ total > 0
        /\ lo * total =< sum /\ sum =< hi * total
    BY <1>1, <1>2, <1>6, WeightedSum
  <2> HIDE DEF sum, total
  <2>3. /\ Rounded(sum, total) \in Nat
        /\ 100 * lo =< Rounded(sum, total) /\ Rounded(sum, total) =< 100 * hi
    BY <2>2, RoundedBetween
  <2> QED
    BY <1>3, <2>1, <2>3 DEF RatingCols
<1> QED
  BY <1>5, <1>6

-----------------------------------------------------------------------------
(* Types.  The reviews written are finitely many, although appointments     *)
(* need not be: so they can be counted and averaged.                        *)

Written == {a \in Appts : Live(a)}

TypeInv ==
    /\ Inv
    /\ ReviewsTypeOK
    /\ seen \in [Prestataires -> SUBSET RatingCols]
    /\ IsFiniteSet(Written)

LEMMA StarsUpTo5 == \A n \in Ratings \cup {0} : n \in 0..5
<1>1. Ratings \subseteq 1..5
  BY ReviewsAssumption
<1> QED
  BY <1>1

LEMMA StarsBounded ==
    ASSUME TypeInv, NEW a \in Appts
    PROVE  review[a].rating \in 0..5
<1>1. review[a].rating \in Ratings \cup {0}
  BY DEF TypeInv, ReviewsTypeOK, ReviewRow
<1> QED
  BY <1>1, StarsUpTo5


LEMMA DeservedTyped ==
    ASSUME TypeInv, NEW p \in Prestataires
    PROVE  Deserved(p) \in RatingCols
<1> DEFINE rows == Judged(Visible(p))
<1>1. IsFiniteSet(Visible(p)) /\ DOMAIN rows = Visible(p)
  BY FS_Subset DEF TypeInv, Written, Visible, Judged
<1>2. \A a \in Visible(p) : /\ rows[a].rating \in Nat
                            /\ 0 =< rows[a].rating /\ rows[a].rating =< 5
  BY StarsBounded DEF Judged, Visible
<1> HIDE DEF rows
<1>3. RatingOf(rows) \in RatingCols
  BY <1>1, <1>2, RatingBetween
<1> QED
  BY <1>3 DEF rows, Deserved

\* The rating prestataires deserve lies between the lowest and the highest of
\* the stars their visible reviews give.
LEMMA TypedAverage == TypeInv => AverageBetween
<1> SUFFICES ASSUME TypeInv, NEW p \in Prestataires, NEW lo \in Ratings,
                    NEW hi \in Ratings, Visible(p) # {},
                    \A a \in Visible(p) : lo =< review[a].rating
                                          /\ review[a].rating =< hi
             PROVE  100 * lo =< Deserved(p).average /\ Deserved(p).average =< 100 * hi
  BY DEF AverageBetween
<1> DEFINE rows == Judged(Visible(p))
<1>1. IsFiniteSet(Visible(p)) /\ DOMAIN rows = Visible(p)
  BY FS_Subset DEF TypeInv, Written, Visible, Judged
<1>2. lo \in Nat /\ hi \in Nat
  BY ReviewsAssumption
<1>3. \A a \in Visible(p) : /\ rows[a].rating \in Nat
                            /\ lo =< rows[a].rating /\ rows[a].rating =< hi
  BY StarsBounded DEF Judged, Visible
<1> HIDE DEF rows
<1>4. 100 * lo =< RatingOf(rows).average /\ RatingOf(rows).average =< 100 * hi
  BY <1>1, <1>2, <1>3, RatingBetween
<1> QED
  BY <1>4 DEF rows, Deserved

Kept == ReviewsTypeOK /\ IsFiniteSet(Written)

\* A request moves on to q.
LEMMA RequestTyped ==
    ASSUME TypeInv, NEW r \in Requests, NEW q \in ReviewRequest,
           rreq' = [rreq EXCEPT ![r] = q], UNCHANGED Rows
    PROVE  Kept'
BY DEF TypeInv, ReviewsTypeOK, Kept, Written, Live, Rows

\* The review of a becomes row.
LEMMA RowTyped ==
    ASSUME TypeInv, NEW a \in Appts, NEW row \in ReviewRow,
           review' = [review EXCEPT ![a] = row],
           rreq' \in [Requests -> ReviewRequest], UNCHANGED <<completed, rating>>
    PROVE  Kept'
<1>1. Written' \in SUBSET (Written \cup {a})
  BY DEF TypeInv, ReviewsTypeOK, Written, Live
<1>2. IsFiniteSet(Written')
  BY <1>1, FS_AddElement, FS_Subset DEF TypeInv
<1> QED
  BY <1>2 DEF TypeInv, ReviewsTypeOK, Kept

LEMMA IdleTyped ==
    /\ IdleReview \in ReviewRequest
    /\ NoReview \in ReviewRow
    /\ Unrated \in RatingCols
BY ReviewsAssumption DEF IdleReview, ReviewRequest, ReviewPc, NoReview, ReviewRow,
   Unrated, RatingCols

\* A call reads the review and changes its copy, or is one statement.
LEMMA CallTyped ==
    ASSUME TypeInv, NEW r \in Requests, NEW a \in Appts, ReviewCall(r, a)
    PROVE  Kept'
<1>1. review[a] \in ReviewRow
  BY DEF TypeInv, ReviewsTypeOK
<1>2. ASSUME NEW copy \in ReviewRow, NEW recalc \in BOOLEAN,
             Save(r, a, copy, recalc), UNCHANGED Rows
      PROVE  Kept'
  <2> DEFINE q == [IdleReview EXCEPT !.pc = "load", !.appt = a,
                                     !.copy = copy, !.recalc = recalc]
  <2>1. q \in ReviewRequest
    BY IdleTyped DEF ReviewRequest, ReviewPc
  <2>2. rreq' = [rreq EXCEPT ![r] = q]
    BY <1>2 DEF Save
  <2> HIDE DEF q
  <2> QED
    BY <1>2, <2>1, <2>2, RequestTyped
<1>3. ASSUME NEW n \in Ratings, CreateBegin(r, a, n)
      PROVE  Kept'
  <2> DEFINE copy == [NoReview EXCEPT !.rating = n, !.visible = TRUE]
             q == [IdleReview EXCEPT !.pc = "insert", !.appt = a,
                      !.recalc = TRUE, !.created = TRUE, !.copy = copy]
  <2>1. copy \in ReviewRow
    BY IdleTyped DEF ReviewRow
  <2>2. q \in ReviewRequest
    <3> HIDE DEF copy
    <3> QED
      BY <2>1, IdleTyped DEF ReviewRequest, ReviewPc
  <2>3. rreq' = [rreq EXCEPT ![r] = q] /\ UNCHANGED Rows
    BY <1>3 DEF CreateBegin
  <2> HIDE DEF q
  <2> QED
    BY <2>2, <2>3, RequestTyped
<1>4. ASSUME NEW n \in Ratings \cup {Null}, EditBegin(r, a, n)
      PROVE  Kept'
  <2> DEFINE stars == IF n = Null THEN review[a].rating ELSE n
             edits == review[a].edits + 1
             copy == [review[a] EXCEPT !.rating = stars, !.edits = edits]
  <2>1. stars \in Ratings \cup {0} /\ edits \in 0..MaxEdits
    BY <1>1, <1>4, ReviewsAssumption DEF EditBegin, ReviewRow
  <2>2. copy \in ReviewRow
    <3> HIDE DEF stars, edits
    <3> QED
      BY <1>1, <2>1 DEF ReviewRow
  <2>3. Save(r, a, copy, n # Null) /\ UNCHANGED Rows
    BY <1>4 DEF EditBegin
  <2> HIDE DEF copy
  <2> QED
    BY <1>2, <2>2, <2>3
<1>5. CASE RespondBegin(r, a)
  <2>1. [review[a] EXCEPT !.response = TRUE] \in ReviewRow
    BY <1>1 DEF ReviewRow
  <2> QED
    BY <1>2, <1>5, <2>1 DEF RespondBegin
<1>6. CASE FlagBegin(r, a) \/ UnflagBegin(r, a)
  <2>1. /\ [review[a] EXCEPT !.flagged = TRUE] \in ReviewRow
        /\ [review[a] EXCEPT !.flagged = FALSE] \in ReviewRow
    BY <1>1 DEF ReviewRow
  <2> QED
    BY <1>2, <1>6, <2>1 DEF FlagBegin, UnflagBegin
<1>7. CASE HideBegin(r, a)
  <2>1. [review[a] EXCEPT !.visible = FALSE] \in ReviewRow
    BY <1>1 DEF ReviewRow
  <2> QED
    BY <1>2, <1>7, <2>1 DEF HideBegin
<1>8. CASE AdminHide(r, a) \/ AdminUnflag(r, a)
  <2>1. PICK row \in {[review[a] EXCEPT !.visible = FALSE],
                      [review[a] EXCEPT !.flagged = FALSE]} :
          review' = [review EXCEPT ![a] = row]
    BY <1>8 DEF AdminHide, AdminUnflag, TypeInv, ReviewsTypeOK
  <2>2. row \in ReviewRow
    BY <1>1, <2>1 DEF ReviewRow
  <2>3. UNCHANGED <<completed, rating, rreq>>
    BY <1>8 DEF AdminHide, AdminUnflag
  <2> QED
    BY <2>1, <2>2, <2>3, RowTyped DEF TypeInv, ReviewsTypeOK
<1> QED
  BY <1>3, <1>4, <1>5, <1>6, <1>7, <1>8 DEF ReviewCall

\* The steps of a request up to the storing of the rating.
LEMMA StepTyped ==
    ASSUME TypeInv, NEW r \in Requests, ReviewStep(r)
    PROVE  Kept'
<1> DEFINE o == rreq[r]
<1>1. o \in ReviewRequest /\ (o.pc # "idle" => o.appt \in Appts)
  BY DEF TypeInv, ReviewsTypeOK, Inv, RatingInv, RequestRead
<1>2. ASSUME NEW pc \in {"read", "idle"}, Continue(r, pc)
      PROVE  \E q \in ReviewRequest : rreq' = [rreq EXCEPT ![r] = q]
  <2>1. [o EXCEPT !.pc = "read", !.dirty = {}] \in ReviewRequest
    BY <1>1 DEF ReviewRequest, ReviewPc
  <2>2. rreq' = [rreq EXCEPT ![r] = IF pc = "idle" THEN IdleReview
                    ELSE [o EXCEPT !.pc = "read", !.dirty = {}]]
    BY <1>2 DEF Continue, TypeInv, ReviewsTypeOK
  <2> QED
    BY <2>1, <2>2, IdleTyped
<1>3. AfterSave(r) \in {"read", "idle"}
  BY DEF AfterSave
<1>4. CASE CreateInsert(r)
  <2> DEFINE n == Births + 1
             row == [o.copy EXCEPT !.born = n]
  <2>1. n \in Nat
    BY FS_CardinalityType DEF Births, TypeInv, Written
  <2>2. row \in ReviewRow
    <3> HIDE DEF n
    <3> QED
      BY <1>1, <2>1 DEF ReviewRequest, ReviewRow
  <2>3. /\ review' = [review EXCEPT ![o.appt] = row] /\ o.appt \in Appts
        /\ rreq' = [rreq EXCEPT ![r].pc = "read"]
        /\ UNCHANGED <<completed, rating>>
    BY <1>1, <1>4 DEF CreateInsert
  <2>4. rreq' \in [Requests -> ReviewRequest]
    BY <1>1, <2>3 DEF TypeInv, ReviewsTypeOK, ReviewRequest, ReviewPc
  <2> HIDE DEF row
  <2> QED
    BY <2>2, <2>3, <2>4, RowTyped
<1>5. CASE CreateDuplicate(r)
  BY <1>5, IdleTyped, RequestTyped DEF CreateDuplicate, Finish
<1>6. CASE SaveLoad(r)
  <2> DEFINE dirty == {c \in Columns : o.copy[c] # review[o.appt][c]}
  <2>1. CASE dirty = {}
    BY <1>2, <1>3, <1>6, <2>1, RequestTyped DEF SaveLoad
  <2>2. CASE dirty # {}
    <3> DEFINE q == [o EXCEPT !.pc = "write", !.dirty = dirty]
    <3>1. rreq' = [rreq EXCEPT ![r] = q] /\ UNCHANGED Rows
      BY <1>6, <2>2 DEF SaveLoad, TypeInv, ReviewsTypeOK
    <3>2. dirty \in SUBSET Columns
      OBVIOUS
    <3> HIDE DEF dirty
    <3>3. q \in ReviewRequest
      BY <1>1, <3>2 DEF ReviewRequest, ReviewPc
    <3> HIDE DEF q
    <3> QED
      BY <3>1, <3>3, RequestTyped
  <2> QED
    BY <2>1, <2>2
<1>7. CASE SaveWrite(r)
  <2> DEFINE old == review[o.appt]
             row == [c \in DOMAIN old |-> IF c \in o.dirty THEN o.copy[c] ELSE old[c]]
  <2>1. o.appt \in Appts /\ old \in ReviewRow /\ o.copy \in ReviewRow
    BY <1>1, <1>7 DEF SaveWrite, TypeInv, ReviewsTypeOK, ReviewRequest
  <2>2. row \in ReviewRow
    <3>1. DOMAIN old = {"born", "rating", "edits", "response", "flagged", "visible"}
      BY <2>1 DEF ReviewRow
    <3>2. row = [born |-> row.born, rating |-> row.rating, edits |-> row.edits,
                 response |-> row.response, flagged |-> row.flagged,
                 visible |-> row.visible]
      BY <3>1
    <3>3. /\ row.born \in Nat /\ row.rating \in Ratings \cup {0}
          /\ row.edits \in 0..MaxEdits /\ row.response \in BOOLEAN
          /\ row.flagged \in BOOLEAN /\ row.visible \in BOOLEAN
      BY <2>1, <3>1 DEF ReviewRow
    <3> HIDE DEF row
    <3> QED
      BY <3>2, <3>3 DEF ReviewRow
  <2>3. review' = [review EXCEPT ![o.appt] = row] /\ UNCHANGED <<completed, rating>>
    BY <1>7, <2>1 DEF SaveWrite, TypeInv, ReviewsTypeOK
  <2>4. rreq' \in [Requests -> ReviewRequest]
    BY <1>2, <1>3, <1>7 DEF SaveWrite, TypeInv, ReviewsTypeOK
  <2> HIDE DEF row
  <2> QED
    BY <2>1, <2>2, <2>3, <2>4, RowTyped
<1>8. CASE RatingRead(r)
  <2> DEFINE x == Deserved(Performer[o.appt])
             q == [o EXCEPT !.pc = "store", !.result = x]
  <2>1. rreq' = [rreq EXCEPT ![r] = q] /\ UNCHANGED Rows
    BY <1>8 DEF RatingRead, TypeInv, ReviewsTypeOK
  <2>2. x \in RatingCols
    BY <1>1, <1>8, ReviewsAssumption, DeservedTyped DEF RatingRead
  <2> HIDE DEF x
  <2>3. q \in ReviewRequest
    BY <1>1, <2>2 DEF ReviewRequest, ReviewPc
  <2> HIDE DEF q
  <2> QED
    BY <2>1, <2>3, RequestTyped
<1> QED
  BY <1>4, <1>5, <1>6, <1>7, <1>8 DEF ReviewStep

LEMMA StoreTyped ==
    ASSUME TypeInv, NEW r \in Requests, RatingStore(r)
    PROVE  Kept'
<1>1. rreq[r].result \in RatingCols
  BY DEF TypeInv, ReviewsTypeOK, ReviewRequest
<1>2. rating' \in [Prestataires -> RatingCols]
  BY <1>1 DEF RatingStore, TypeInv, ReviewsTypeOK
<1>3. rreq' \in [Requests -> ReviewRequest]
  BY IdleTyped DEF RatingStore, Finish, TypeInv, ReviewsTypeOK
<1> QED
  BY <1>2, <1>3 DEF RatingStore, TypeInv, ReviewsTypeOK, Kept, Written, Live

LEMMA TypeNext == TypeInv /\ [Next]_vars => TypeInv'
<1> SUFFICES ASSUME TypeInv, [Next]_vars PROVE TypeInv'
  OBVIOUS
<1>1. Inv'
  BY NextInv DEF TypeInv
<1>2. ASSUME UNCHANGED reviewVars
      PROVE  Kept'
  BY <1>2 DEF reviewVars, TypeInv, ReviewsTypeOK, Kept, Written, Live
<1>3. CASE UNCHANGED vars
  BY <1>1, <1>2, <1>3 DEF vars, TypeInv, Kept
<1>4. CASE Next
  <2>1. ASSUME NEW a \in Appts, CompleteAppointment(a)
        PROVE  Kept'
    BY <2>1 DEF CompleteAppointment, TypeInv, ReviewsTypeOK, Kept, Written, Live
  <2>2. ASSUME NEW r \in Requests, Finish(r), UNCHANGED Rows
        PROVE  Kept'
    BY <2>2, IdleTyped, RequestTyped DEF Finish
  <2>3. ASSUME Abandoned
        PROVE  Kept'
    <3>1. UNCHANGED Rows
      BY <2>3 DEF Abandoned
    <3>2. CASE UNCHANGED rreq
      BY <1>2, <3>1, <3>2 DEF Rows, reviewVars
    <3> QED
      BY <2>2, <2>3, <3>1, <3>2 DEF Abandoned
  <2>4. Kept'
    <3>1. CASE \E r \in Requests : ReviewStep(r) \/ \E a \in Appts : ReviewCall(r, a)
      BY <3>1, StepTyped, CallTyped
    <3>2. CASE \E r \in Requests : ReviewCreated(r) \/ RatingStored(r)
      BY <3>2, StoreTyped DEF ReviewCreated, RatingStored
    <3>3. CASE \E a \in Appts : AppointmentCompleted(a)
      BY <2>1, <3>3 DEF AppointmentCompleted
    <3>4. CASE UNCHANGED reviewVars
      BY <1>2, <3>4
    <3> QED
      BY <1>4, <2>3, <3>1, <3>2, <3>3, <3>4 DEF Next, Step, Nightly
  <2>5. ASSUME NEW p \in Prestataires
        PROVE  Deserved(p)' \in RatingCols
    <3> DEFINE V == {a \in Appts : Performer[a] = p /\ review'[a].born > 0
                                   /\ review'[a].visible}
               rows == [a \in V |-> [born |-> review'[a].born,
                                     rating |-> review'[a].rating]]
    <3>1. Deserved(p)' = RatingOf(rows)
      BY DEF Deserved, Judged, Visible, Live
    <3>2. V \in SUBSET Written'
      BY DEF Written, Live
    <3>3. IsFiniteSet(V)
      BY <2>4, <3>2, FS_Subset DEF Kept
    <3>4. \A a \in V : review'[a].rating \in 0..5
      <4> SUFFICES ASSUME NEW a \in V PROVE review'[a].rating \in Ratings \cup {0}
        BY StarsUpTo5
      <4> QED
        BY <2>4 DEF Kept, ReviewsTypeOK, ReviewRow
    <3>5. DOMAIN rows = V /\ \A a \in V : /\ rows[a].rating \in Nat
                                          /\ 0 =< rows[a].rating /\ rows[a].rating =< 5
      BY <3>4
    <3> HIDE DEF V, rows
    <3>6. RatingOf(rows) \in RatingCols
      BY <3>3, <3>5, RatingBetween
    <3> QED
      BY <3>1, <3>6
  <2>6. seen' \in [Prestataires -> SUBSET RatingCols]
    BY <1>4, <2>5 DEF Next, Note, TypeInv
  <2> QED
    BY <1>1, <2>4, <2>6 DEF TypeInv, Kept
<1> QED
  BY <1>3, <1>4

LEMMA AlwaysTyped == Spec => []TypeInv
<1>1. Init => TypeInv
  <2> SUFFICES ASSUME Init PROVE TypeInv
    OBVIOUS
  <2>1. Written = {}
    BY DEF Init, ReviewsInit, Written, Live, NoReview
  <2>2. ReviewsTypeOK /\ seen \in [Prestataires -> SUBSET RatingCols]
    BY IdleTyped DEF Init, ReviewsInit, ReviewsTypeOK
  <2> QED
    BY <2>1, <2>2, InitInv, FS_EmptySet DEF TypeInv
<1> QED
  BY <1>1, TypeNext, PTL DEF Spec

\* Every variable of reviews, ratings and badges keeps its type: the number of
\* edits stays within the limit and a rating is always a number.
THEOREM ReputationTyped == Spec => []TypeOK
<1>1. TypeInv => TypeOK
  BY DEF TypeInv, Inv, BadgeInv, TypeOK
<1> QED
  BY <1>1, AlwaysTyped, PTL

\* What a prestataire deserves lies between the lowest and the highest of the
\* stars their visible reviews give, for any number of reviews.
THEOREM AverageIsBetween == Spec => []AverageBetween
BY TypedAverage, AlwaysTyped, PTL
=============================================================================
