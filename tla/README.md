# A formal model of the bookMe API

bookMe is a NestJS application on Postgres (TypeORM, READ COMMITTED), Redis,
socket.io and an in-process event bus. Clients book the slots that prestataires
(providers) offer; appointments are then cancelled or completed, talked about,
reminded of, reviewed, and counted for badges. This directory models the places
where requests, jobs, listeners and failures meet.

Paths below are relative to the repository; `appointments.service.ts` stands for
`src/appointments/appointments.service.ts`, and so on.

## 1. Inventory

| Component | State it keeps | Operations | Meets |
|---|---|---|---|
| Appointments (`appointments.service.ts`) | `appointments` rows: status, slot, client, canceller, completion, three reminder flags | book, cancel, complete, hourly auto-completion, mark a reminder sent; lists | writes `slots.status` and `prestataires.total_appointments`; emits `appointment.created`, `.cancelled`, `.completed` |
| Slots (`slots.service.ts`) | `slots` rows: date, start, end, status, deletion mark | create, create recurring, update, delete, block a range; lists | shares `slots` with booking |
| Cron (`cron.service.ts`) | none | 24h and 1h reminders, review requests, auto-completion, badges, cleanups | calls the services; a job does not wait for its previous run |
| Notifications, gateway (`notifications/`) | `notifications` rows; sockets, rooms and the map of connected users | listeners; read, delete, clean up; connect, join, leave, disconnect | listen to bookings, cancellations, messages; a listener's error is swallowed |
| Email (`email.service.ts`) | none | mails on booking, cancellation, registration, reset | listens to the same events |
| Messages (`messages.service.ts`) | `messages` rows per appointment: read, flagged | send, mark read, flag, count | reads appointments; emits `message.sent` |
| Reviews (`reviews.service.ts`) | `reviews` rows, rating columns of `prestataires` | create, edit, respond, flag, unflag, hide, recalculate | reads appointments; emits `review.created` |
| Badges (`badges.service.ts`) | `badges` rows, unique per (prestataire, type) | award, extend, revoke, expire, recalculate | listens to reviews and completions; nightly jobs |
| Users, Admin (`users/`, `admin/`) | `users`, `clients`, `prestataires`, `audit_logs` | profile updates; approve, reject, suspend, reactivate, moderate | booking increments a column of `prestataires` |
| Auth (`auth.service.ts`, guards) | `users`, `refresh_tokens`, a Redis blacklist | register, log in, refresh, log out, verify, resend, forgot, reset, change | every guarded call |
| Search, cache (`search.service.ts`, `common`) | Redis entries with a time to live | cached search, top rated and categories; an invalidation nobody calls | reads prestataires and services |
| Services (`services.service.ts`) | `services` rows | create, update, soft delete, reorder | saved with the prestataire's copy |
| Dashboard, upload, health | nothing of their own | read-only; I/O | |

What is hard, and what has to hold:

* **Booking** is a transaction that locks the slot's row, checks it, and several
  awaits later inserts the appointment and reserves the slot. No slot may be
  sold twice, the loser of a race is to get 409, and a client must not be
  expected twice at one time.
* **Cancelling and completing** check a copy of the row read *before* any
  transaction and save that copy. Late saves meet newer rows.
* **TypeORM's `save()`** is itself two statements: it reloads the row, compares
  it with the copy, and updates the columns that differ. Slots, reviews,
  messages, profiles and services are all changed this way, with no
  transaction around the check and the save.
* **Events** are emitted after the write; a crash in between loses them, and what
  listeners do (a row, a push, a mail) may fail at each of its own steps.
* **Cron jobs** must catch what earlier runs missed, and may overlap.
* **Derived data** (ratings, badges, unread counts, presence, cached lookups) is
  read, computed and written without locks: it may be stale, but must not be
  something that was never true.
* **Work of several statements** (registration, an administrator's act and its log
  entry, a reset and the revocation of sessions) can stop half way.

`PROJECT.json` lists each hazard at its line, with the properties that cover it.

## 2. Modules

| Module | What it is |
|---|---|
| `BookingStore` | The rows of booking, row locks, events and clock; the queries over them. |
| `Appointments` | `AppointmentsService` and a crash; one action per piece of a handler between two awaits that matter. |
| `SlotCalendar` | `SlotsService`, and `save()` as it works. |
| `Booking` | Both on one store, with a history variable. |
| `SlotSale` | The abstract specification: a slot is sold at most once and a sale, once closed, stays closed. |
| `Delivery` | The abstract specification of messages, notifications and mails: a fact is stored once, for an audience that stays the same, and only that audience is told of it. |
| `Reminders` | The three reminder jobs, on a grid of half hours. |
| `Parties` | Who took part in which appointment. |
| `Reviews`, `Badges`, `Reputation` | `ReviewsService`; `BadgesService` with its jobs; both joined by the events. |
| `Gateway`, `Threads`, `Notices`, `Conversation` | The socket gateway; `MessagesService`; listeners, notification rows and mails; all of them with the cancellations and restarts they react to. |
| `Users`, `Sessions`, `Directory`, `Search`, `Accounts` | Tables and registration; `AuthService`; profiles, services and administrators; cached lookups; all of them on one database. |
| `MC*` | TLC instances. |
| `AppointmentsProofs`, `BookingProofs`, `RemindersProofs`, `ReputationProofs`, `ConversationProofs`, `AccountsProofs`, `SessionsProofs`, `DirectoryProofs` | Theorems. |

### How state and actions correspond to the code

**Everywhere.** A request is a record that holds what the handler keeps in its local
variables between two awaits; `pc` is where it is. A handler's early return with an
error that changes nothing (403, 404, a failed guard before any write) leaves no
trace, so it is the absence of an action, except where it ends a request already in
progress. `SaveLoad` and `SaveWrite` are the two statements of a `save()`. Columns no
property tells apart (names, prices, texts) are left out. Variables marked *history*
in a module record what a property speaks of and guard no action.

**Booking.** `slot[s]`, `appt[a]`, `total[p]` are the rows. `slotLock[s]` is the
transaction that holds `FOR UPDATE` on the row.

* `bookAppointment`: `BookBegin` (call accepted), `BookLock` (`SELECT ... FOR UPDATE`
  returns an AVAILABLE row) or `BookTurnedAway` (404, 409), `BookCheck` (notice, client's
  clash) or `BookRefuse` (any check fails, ROLLBACK), `BookCommit` (INSERT, RESERVED,
  increment, COMMIT: one action, since nobody sees the three writes apart) or
  `BookDuplicate` (the unique index refuses), then `Emit`, or `ReloadFails`: the
  appointment is loaded again between the COMMIT and the emission, and if that fails
  nobody hears of it. `BookRefuse` may always happen, since the prestataire's status and
  the services are not in this module; the notice is any of `NoticeHours`.
* `cancelAppointment`: `CancelBegin` reads and checks, `CancelCommit` saves the
  copy and releases the slot, `CancelDeadlock` is the abort Postgres decides when
  a late cancellation and a booking wait for each other, `Emit`.
* `completeAppointment`: `CompleteBegin`, `CompleteCommit`, `Emit`.
* `autoCompleteOldAppointments`: `AutoComplete`, one UPDATE statement.
* In both `save()`s of an appointment the null columns of the copy
  (`completed_at`, `cancelled_by`) overwrite what was committed before the
  reload, and leave what is committed after it: a choice in the action.
* `createSlot`: `CreateBegin` (all its checks), `CreateInsert`. `updateSlot`:
  `UpdateStatus` or `UpdateTimes`, then `UpdateOverlap` if times were given.
  `deleteSlot`: `DeleteRead`. `blockSlots`: `BlockRead`. All end in `SaveLoad` and
  `SaveWrite` (which waits for row locks and obeys the CHECK constraint).
* `createRecurringSlots` writes nothing: its pattern id is not a uuid and the
  column is, so the bulk INSERT always fails. What it generates for a day is the
  operator `GenerateDay`.
* `Crash`: requests vanish, their transactions roll back, locks are freed.

**Reminders.** `run[j]` is a run of a job. `Fire` starts it, `FindDue` is its query
(window of half an hour on both sides, inclusive), then for each appointment `Notify` (the
notification row) and `Mark` (the flag). `NotifyFails` and `MarkFails` are the failures
the job catches per appointment, `FindFails` ends the run, `Crash` ends all runs, `Missed`
is a firing that found no server. `HalfHour` is the clock: it may pass only when the jobs
due at this half hour have fired or were missed.

**Reputation.** `EditBegin`, `RespondBegin`, `FlagBegin`, `UnflagBegin`, `HideBegin` read
and check a review, `SaveLoad` and `SaveWrite` save it, `RatingRead` and `RatingStore`
are `updatePrestataireRating`; `AdminHide` and `AdminUnflag` are the administrators'.
`CreateInsert` inserts the review, `CreateDuplicate` is the unique index's refusal. Each
emitted event starts a calculation `calc[j]` of badges; `Check`, `Find`, `Insert`,
`Extend`, `Revoke` go through the badge types one await at a time. `RatingOf` is the
average in hundredths, weighted by age: `Weight` is 0.95 to the power of the number of
more recent reviews, scaled to a whole number as a product over the other reviews.
`Nightly` and `CleanUp` are the jobs.

**Conversation.** `rooms[s]` is what socket.io knows of a socket, `connectedUsers` the
gateway's own map. `SendSave`, `SendEmit`, `MarkAsRead`, `FlagBegin`/`FlagLoad`/
`FlagWrite`, `CountBegin`/`CountAppt`/`CountAnswer` are `MessagesService`
statement by statement. Appointments are here without their slots: `Book`, the check and
the save of a cancellation (`CancelBegin`, `CancelCommit`, `CancelFails`) and of a
completion (`CompleteBegin`, `CompleteSave`, `CompleteFails`), so that two cancellations
of one appointment can both commit, and a completion be overwritten or overwrite. A
cancellation is therefore named by its call `x`, and `cancel[x]` is the payload it emits:
whom its handlers tell is worked out from that, not from the row. `stage[e]` is how far
the call and the listener of event `e` have come; for each emitted event the listeners'
work is a step per effect: `InsertNote`, `PushNote`, `MailClient`, `MailProvider`, and
their failures. `Restart` forgets sockets, requests and listeners; rows stay. `Audience`
and `Told` map this to `Delivery`: whom a fact concerns is read off its row, or off the
call that cancelled; who was told of it off what sockets and mailboxes have got.

**Accounts.** `user[i]`, `kept`, `row[k]` are the rows of `users`, profiles and services.
`RegisterCheck`, `RegisterUser`, `RegisterProfile` are the statements of a registration.
`auth[r]` is a call of `AuthService`: `Login` or `RefreshRead`, `RefreshRevoke`,
`SaveRefreshToken`; `LogoutBegin`, `RevokeAll`; and a `Begin` and a `Write` for verify,
resend, forgot, reset and change. `edit[r]` is a call of a profile owner or an
administrator: read and check, `SaveLoad`, `SaveWrite` or an act (`RejectAct`,
`SuspendAct`), then `AuditStep`. A `save()` of a prestataire also compares its services:
one created since the copy was read would be cut off from it, which the NOT NULL column
forbids (`Refused`). `LookupMiss`, `LookupRead`, `LookupStore` are a cached lookup, during
which time may pass (`Tick`): it can store an answer older than the life it gives it.
`Owner[s]` fixes who creates which service, so a service needs no owner column.

## 3. Runs

| Run | Instance | Question |
|---|---|---|
| `appointments` | 2 slots of 2 prestataires at the same time, 2 clients, 2 requests, 3 rows, 5 ticks, crashes | Is booking safe, and does it implement `SlotSale`? |
| `appointments_live` | 1 slot, 1 row, 3 requests (of two clients and the prestataire), 6 ticks, no crash | Is every request answered, every booking announced, every appointment closed? |
| `booking` | 1 slot to be created or there, 1 appointment request, 2 slot requests, 1 tick, crashes | What is left of it when the prestataire works on the slot meanwhile? |
| `slots` | 3 slots to be created, 2 days, 1 request | Where can overlaps come from? What is generated for a day? |
| `reputation` | 2 appointments of 1 prestataire, 2 requests, 2 calculations, 1 badge type, failures, 1 night of badge life | May a rating or badge be something nobody deserved at any time? |
| `reminders` | 2 appointments, one on the half hour, 2 runs, 1 fault, 9 half hours | Who is reminded, how often? |
| `conversation` | 2 parties, 3 appointments (new, booked, completed), 2 messages, 2 sockets of one user, 2 requests, 2 cancelling calls, 4 calls in all, restarts | Is what is told true, and told to the right party (does it implement `Delivery`)? |
| `accounts` | 1 known prestataire, 2 new users, 3 tokens, 2 requests of each kind, 1 lookup, 3 calls, failures | What can overlapping or broken off calls spoil, and nothing else? |
| `stale_save` | as `booking`, deleting only | **Violated**: a CONFIRMED appointment keeps its slot. |
| `rebook` | as `appointments` | **Violated**: a slot offered as AVAILABLE can be booked. |
| `client_clash` | as `appointments`, both requests may be one client's | **Violated**: no client is booked twice at one time. |
| `closed_twice` | as `appointments` | **Violated**: a closed appointment keeps its status. |

**Bounds.** Two requests are enough for every race of two.

* `appointments`: a third row lets one slot meet a duplicate while the other is taken.
  Slots are at ticks 2 to 3 with a tick for an hour, so that windows of 0 and 1 hours
  are open, closing and closed, and 5 ticks let the job complete what ends at 3.
  `MaxNow` bounds the clock. The rows cannot run out: a slot takes one.
* `appointments_live`: one slot is enough, since requests wait for each other only on a
  slot's lock; two queue for it, and the third cancels or completes meanwhile. A tick
  more than in `appointments` lets the job find what was missed.
* `booking`: one slot and two slot requests show two saves on each side of one booking;
  its intervals let two updates write one end each.
* `reminders`: `Ahead` is 4 half hours instead of 48; what matters is that windows of
  consecutive runs meet, overlap or leave gaps, and that depends on the appointment being
  on the hour or not, so there is one of each. `MaxFaults` bounds failures, crashes and
  missed firings: with one fault every promise has its exception exactly once.
* `reputation`: `MaxEdits` is 1 instead of 2, `MinReviews` 2 instead of 10, `Lifetime` 1
  night instead of 90; ratings 1 and 5 move the average across the limit. `Calls` gives
  the first request the client's calls and the second a retry, the prestataire's and the
  administrators'.
* `conversation`: `MaxCalls` bounds what users begin, not what follows from it: with 4, an
  appointment can be cancelled by both parties and completed in between. `KnownStatus`
  gives an appointment of each kind to begin with. One user with two sockets is the case
  where presence can go wrong.
* `accounts`: `MaxCalls` is 3, so each pair of calls can overlap and a third use what
  they left; a time to live is one or two ticks, so that an entry is fresh, half spent
  and gone; three token ids let one token be replaced twice. `MaxTook` is the longest a
  lookup may take: one tick, as much as the shortest life of an entry.

**Symmetry** is over interchangeable rows, requests, runs and sockets, in safety runs only.

**Deadlock** is checked in the booking runs. `CHECK_DEADLOCK FALSE` is said where a history
ends: `slots` when every slot is deleted and the days are past; `reminders` at the
horizon; `reputation`, `conversation` and `accounts` when every call has been made.

**What the violations show.** `stale_save`: `deleteSlot` reads an AVAILABLE slot, a
client books it, `deleteSlot` saves its copy. `rebook`: the unique index on
`slot_id` counts cancelled rows, so a released slot is offered for ever and never
booked. `client_clash`: the lock is on the slot, not on the client.
`closed_twice`: a cancellation that read CONFIRMED overwrites a completion.

**What still holds.**

* *Booking.* That unique index, over-strict as it is, is also what keeps a second, late
  cancellation from releasing a slot that has been booked again.
  `UnracedBookingHoldsSlot`: the stale save is the only way a booking can lose its slot.
  `LocksAreHeld`: every row lock belongs to a request that is booking that slot, so bookings
  do not wait in a circle and no slot stays locked after a refusal or a crash.
  `LoserGetsConflict`: the index (400) never answers in place of the lock (409) while the
  winner's appointment stands. `OverlapOnlyFromBlocked`: one request at a time,
  overlaps can come only from reopening a blocked slot.
* *Reminders.* `ServedInTime`: the windows of successive runs leave no gap: an
  appointment in time for a job is served, unless as many things went wrong as it had
  chances. `NoIdleDuplicate`: each thing that goes wrong (an overlapping run, a failed
  mark, a crash) costs at most one more reminder. `MarkedWasSent`: the flag never lies.
* *Reputation.* `RatingWasDeserved`: with recalculations racing, the stored rating may be
  older than the reviews, but it is the rating of the reviews visible at some moment.
  `TopRatedOnceDeserved` says the same of the badge. `AwardedOnce`: two calculations that
  both find no badge cannot both announce it, thanks to the index and to the order of
  insert and event. (For the same index, a badge once revoked is never awarded again.)
  `AverageBetween`: the weights and the rounding leave a rating between the lowest and the
  highest of the reviews it is made of. `ChangeIsRecalculated`: who changes what a rating
  depends on goes on to recalculate it, except the administrator's `hide`, which is what
  the code does.
* *Conversation.* `PresenceAgrees`: the gateway's map and socket.io's rooms agree, with
  two sockets of one user coming and going. `OtherPartyTold`: each committed cancellation
  goes, as a push and as a row, to the party that did not make that call, though handlers
  spell roles in two ways and both parties may cancel. `ReadStays`: `flagMessage` saves an
  older copy and so loses the mark of a message read since; a message read while no such
  copy is on its way stays read, whatever is flagged later. `CountIsPlausible`: the unread
  count, summed over one query per appointment, counts only messages that were unread at
  some time during the call, and misses only those that were not unread all the time.
  `DeliveryRefined`: the gateway, the listener that stores notifications and the mailer
  work out the recipients of one event each on their own; together they tell of a fact
  only those it concerns, and only once it is stored; no row of one is stored over
  another. It does not promise that anybody is told: users may be offline, and listeners
  fail. What is sent to the room of an appointment is left out of it, since
  `handleJoinAppointment` lets any user into any room (that it is stored first is part of
  the theorem `ToldSound`).
* *Accounts.* `SerialUnlessOverlapped`: rows are as each save meant them unless a copy was
  late (`RowsAsMeant`), a prestataire is decided on once unless two decisions overlapped
  or a late copy made it PENDING again (`DecidedOnce`), a refresh token has one successor
  unless two calls held it at once (`RotatedOnce`). `ResetRevokesRefresh`: a reset revokes
  the refresh tokens issued with older passwords, but for a reset that broke off before
  the revocation and a token that was just being issued. (Access tokens are another
  matter: a reset blacklists none.) `HalfDoneOnlyByFailure`: a user without profile and an
  act without log entry come from a failure only. `AnswersAreRecent`: whoever a cached
  answer lists was to be listed at some moment of its life or of the lookup that stored
  it. That is all there is without the invalidation a comment speaks of (section 5).

**Fairness.** Liveness is stated where scheduling gives a reason for it, in
`Appointments`. `Serve(r)` is strongly fair: the server goes on with a request it has
accepted, and Postgres queues the waiters of a row lock, so a waiter is not overtaken for
ever, although its lock is taken again and again. `AutoComplete` is weakly fair (the job
runs every hour) and so is the clock. No user is obliged to call anything. The liveness
run has no crash: a crash between the COMMIT and `emit` loses the event for good, as the
code has no outbox. So does the reload that fails between them, with the server up:
`BookingsAnnounced` names it as the one exception. What the reminder jobs owe is stated as
the safety property `ServedInTime` instead, since the answer is a matter of windows and
deadlines.

## 4. Proofs

TLC checks the instances above; the theorems hold for every value of the constants
under the named assumptions of the modules (types of the constants, and the value that
stands for nothing distinct from every id).

**Booking** (`AppointmentsProofs`, about `ApptSpec`; `BookingProofs`, about `Booking`).
`NoDoubleBooking` is not inductive: it says nothing of requests under way. `BookingInv`
adds

* `RowsComplete`, `OneRowPerSlot`: what the table's constraints guarantee;
* `RequestShape`: a request past its checks knows its slot, or an existing row;
* `BookersHoldLock`: a booking past `FOR UPDATE` holds the row lock;
* `SlotStillAvailable`: and, because everyone who writes the status waits for that
  lock, its check is still true;
* `ConfirmedHoldsSlot`: RESERVED while CONFIRMED. A late cancellation frees only the
  slot of its own row, and by `OneRowPerSlot` no other row has that slot.

All of it but the last is `BookingCore`, which needs nothing of the slots but that a
locked row stays as it is. `AppointmentsProofs` shows that each action keeps it and lets
CONFIRMED appointments keep their slots, whichever do (`RequestStep` does it once for all
actions that write no row; `BookCommit`, `CancelCommit`, `CompleteCommit` and
`AutoComplete` have lemmas of their own), and derives `TypeCorrect`,
`NoDoubleBookingEver`, `CheckStillHoldsAtInsert`, `ConfirmedKeepsSlot` and
`DuplicateMeansClosed`. `LocksAreHeld`, the converse of `BookersHoldLock`, is needed by
none of these, and follows step by step once `BookingCore` is known (`LocksNeverLeft`).
The refinement, `BookingImplementsSale`: a booking's COMMIT is `Sell`, every closing is
`Close`, a second save of a closed row changes no sale. `CompletedEndsFirst` and
`EventsAreDurable` need what a request remembers of the row it checked
(`RequestsRemember`). `OneClientOnePlace` has a condition, `OneRequestEach`: the lock is
on the slot, so the check for another appointment of the client holds until the INSERT
(`StillFree`) only if no other request books for that client meanwhile.

`BookingProofs` proves the same core when prestataires change the slots meanwhile. Their
saves wait for row locks, and an INSERT is of a row that nobody can have locked
(`LockedIsLive`, `InsertsApart`), so locked rows stay as they are and `BookingCore` holds:
`BothTyped`, `SlotsStayOrdered`, `NoDoubleBookingWithCalendar`, `CheckHoldsWithCalendar`,
`LocksNeverLeftWithCalendar` and `BothImplementSale` follow.
`EventsAreDurableWithCalendar` repeats the argument of `EventsAreDurable`, for which slot
requests are silent: they write no appointment and emit nothing. `CompletedIsOver` is not
among these, because a prestataire may move the slot of a closed appointment to a later
hour. What is lost is `ConfirmedHoldsSlot`; what is left of it is `BookedSlotStays`,
because a slot request holds the slot of an unraced booking at no time
(`UnracedIsNotHeld`): it would have read it RESERVED.

It also proves what `SlotCalendar` promises alone. `GeneratedSlotsFit` follows from an
arithmetic lemma, for every duration and pause (`StridesApart`, `AnyDayFits`), and from the
check of what is there. `OverlapsComeFromBlocked`, with one request at a time
(`OneAtATime`): what a request holds always fits beside the rows as they are, unless
its slot was BLOCKED (`FitsIn`), and a save then writes exactly its entities
(`SavedIsEntities`).

**Reminders** (`RemindersProofs`). `RemindersTyped` and, from the types with what a run
in its marking step has just stored, `NeverMarkedUnsent`. `DuplicatesAreFaults` counts
in advance the notifications that runs at work may still send (`FewNotes`): a run
still at work when the next is due adds one to what may come and one to the faults. The
set of runs has to be finite for that. `NobodyForgotten` accounts for each chance of an
appointment (`LossesExplained`): a past one cost a fault of its own, the present one did
or somebody at work can still take it; so with fewer faults than chances the
appointment was served. The windows are used only through the set of those chances.

**Reputation** (`ReputationProofs`). `RatingSound`: not only the stored rating, but also
each result on its way must be one the prestataire deserved once; the history `seen`
only grows, and each step adds what is deserved after it. `TopRatedSound` follows the
same value one step further, into the calculation that read the stored rating.
`AwardedAtMostOnce`: an announced badge has its row, rows are never deleted, and only the
insert of a row announces. `RecalculationFollows`: a save writes only columns that differ,
so what is deserved changes only where ratings, visibility or the set of reviews do,
and each action that does not touch them leaves every `Deserved` as it was.
`AverageIsBetween` is the one about arithmetic. Sums and products are the folds of the
community modules, over sets of any finite size; `SubsetInduction` does induction over the
subsets of a finite set with the library's well-foundedness facts, which need no operator
parameter. From it come what one more element adds to a fold (`FoldGrows`, `SumSteps`),
that weights are positive, that a weighted sum lies between its bounds (`WeightedSum`), and
that rounding does not leave them (`RoundedBetween`). That the reviews are finitely many is
itself an invariant, since nothing says so of the appointments. `ReputationTyped` follows
with it, as the types bound a rating by 5 stars.

**Conversation** (`ConversationProofs`). `PresenceSound`: the map and the rooms agree
after connecting, disconnecting and restarting; the step that could break it is the
disconnection of one of two sockets. `ToldSound` (no event, those to a room included, tells
of what is not stored): what a listener holds is stored
before the step that tells it, and rows outlive restarts; a cancellation that has been
committed stays so (`Committed`) although its row may be overwritten. `OtherPartySound`
relates the recipient, worked out from the payload, to the caller whose call committed
(`CancelKnown`). `ReadSound`: no request holds an unread copy of a settled message that it
could still save over the row.
`CountSound`: what has been summed so far is bounded by the messages of the appointments
already asked, those unread since the call began from below and those unread at any time
of it from above (`CountInv`), while the first set shrinks and the second grows.
`ConversationDelivers` is the refinement: each step stores one fact for the first time,
tells of one fact, or is a stutter of `Delivery`. It takes two invariants besides the types
and `ToldSound`'s: `Once`, that whoever is about to store a row finds none there, so no
audience is replaced by another, and `EmitsOwn`, that a sender who is about to emit wrote
that message. `OnlyConcernedAreTold` is then a consequence of `Delivery` alone.

**Accounts** (`AccountsProofs`, `SessionsProofs`, `DirectoryProofs`). `AccountsTyped`
includes the foreign keys. `AnswersSound`: a lookup in progress holds only what was true
since it began, and an entry with *n* ticks to live only what was true at most the rest of
its life and the duration of its lookup ago (`EntryFresh`, `LookupFresh`), for every
`MaxTook`. `RefreshTokensRevoked`: what is to hold of a token must hold of the request
that issues it (`SessionsInv`), since it may be saved after the revocation: it is then
marked as overtaken by the same step that takes away the user's excuse. `HalfDoneSound`
counts the requests between an act and its audit entry, which is why the set of requests
has to be finite. `SerialSound` rests on four invariants:

* `CopiesHonest`: a copy that is not late equals its row, but for the columns the call is
  about, and the columns to write are those that differ;
* `RowsAsMeant`, which follows from it at each write;
* `DecisionsInv`: while nobody contests a prestataire, one request at most is deciding
  on it, and it is PENDING only before the decision; a user without profile is undecided;
* `RotationInv`: a refresh token with a successor, or with one on its way, is spent, and
  before that one request at most holds it.

Only model-checked: the liveness properties, which are out of the prover's reach.

## 5. Not modelled, and limits

* Lists, statistics, the dashboard, formatting, validation of input formats, uploads,
  health checks, mail templates and transport: no state, or no state of their own.
* `CacheService`, `SearchService.invalidateSearchCache`, the gateway's `notify*` helpers and
  `markEmailSent` have no callers.
* Time zones and milliseconds; the hours of `HoursUntil` are truncated toward zero as
  dayjs does. `Reminders` has a grid of half hours.
* A save of several slots (`blockSlots`) takes its row locks at once in the model; two
  such calls over the same slots in opposite orders could deadlock, and Postgres would
  abort one.
* `Reminders` takes the reminder flags as columns that only the jobs write. A late save of
  an appointment can reset them (`appointments.service.ts:212`), but it also ends the
  CONFIRMED status that reminders ask for; the flag of the review request could only be
  reset by a save that is late by the two hours that request waits.
* The two checks and the insert of the first administrator are one action
  (`CreateInitialAdmin`): a refused insert is caught and changes nothing.
* `Delivery` and `ResetRevokesRefresh` promise no more than their names: that anybody is
  told, and that an access token is refused after a reset, is promised by nothing.
* The pushes of `review.created` and `badge.awarded`, which are like the others.
* Hashing, the contents of tokens, the order, filters and pages of a search.

Noticed on the way, in what the models describe as the code does it, and not run as a
violation of its own:

* `MAX_RECURRING_SLOTS` is tested once per day of a range; concurrent `createSlot` calls
  can both pass `checkOverlap`.
* `cron.service.ts:60` says "every 15 minutes" of a job that runs every 30.
* `review.entity.ts:83` says one edit, `MAX_EDITS` is 2.
* The cancellation mail is never sent: its handler compares the canceller's role with
  `'client'` while roles are upper case, and reads `client.user`, which the query of
  `cancelAppointment` does not load (`email.service.ts:325`).
* `bookAppointment` reloads the appointment after its transaction
  (`appointments.service.ts:148`): if that fails, the client gets an error for a booking
  that stands, and nobody is told.
* Both parties can cancel one appointment at the same time; both calls succeed, the row
  keeps the later canceller, and each party is told that the other has cancelled.
* `resetPassword` blacklists no access token: one issued with the old password is
  accepted until it expires (`jwt.strategy.ts:33`).
* `message.read` has a listener and no emitter; `user.verification_resend` an emitter and
  no listener: asking for the mail again replaces the token of the mail already sent.
* `notifications.gateway.ts:196` says "if not in room" of a push that is always made.
* A suspended prestataire stays in the search results: suspension changes the user,
  the search looks at the prestataire's status only.
* `changePassword` ends no session; `login` does not ask for a verified e-mail; `reject`
  deletes the account without looking at the status again.
* `search.service.ts:322` says the cache is invalidated when a profile changes; nobody
  calls it.

## 6. Plan

Done: all modules, runs and proofs above; each safety property of a passing run is a
theorem. What could still be added is detail of little consequence: the late save of a
reminder flag (section 5), and the pushes left out there.
