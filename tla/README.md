# Verification of the barber shop backend

This directory holds TLA+ models of the NestJS/MongoDB backend in `src/`, the
TLC runs that check them on small instances and TLAPS proofs about them. Paths
such as `appointments.service.ts:493` are below `src/src/` (the repository's own
`src/`); `README.md:91` is the repository's README.

## 1. Inventory

| part | state it keeps | operations that change it |
| --- | --- | --- |
| Reservations (`appointments/`) | the `appointments` collection: status, barber, date, time, `slotKey`, `activeClientKey`, who cancelled and when, archived; two unique sparse indexes | create, update (administrator's PATCH, the client's cancellation, a WhatsApp link), archive |
| Completion job (`appointment-completion.service.ts`) | a `running` flag and the operations of one bulk write | a pass at start-up and every minute |
| WhatsApp links (`whatsapp/`, `appointment-actions.controller.ts`) | none: a link signs a date, a time and an expiry | create at the end of a reservation's creation, review (GET), execute (POST) |
| Business clock (`common/time`) | none | local date and time of an instant, instant of a slot |
| Schedules (`barber-schedules/`) | one document per barber and day: working hours, breaks, day off | create, PATCH, add block, remove block, delete; the last two cancel reservations |
| Slots and availability (`getScheduleSlots`, `getAvailableSlots`) | none | pure |
| Users (`users/`) | email, role, booking block and its history | PATCH and its role variant, DELETE, booking access |
| Barbers (`barbers/`) | active or not, profile | create, PATCH, DELETE |
| Accounts (`auth/`) | email, password hash, Google id in the users collection | register, login, Google login |
| Migration (`migrate-active-client-key.ts`) | none but the client keys it writes | a dry run or an applied pass over all reservations |
| Email (`email/`) | none | one HTTP call per message; awaited, never retried |
| Configuration, application shell | environment, wiring | none |

**How they interact.** Everything meets in MongoDB. Controllers call the
services; a service awaits one database operation after another, and at every
await any other handler, the job, or another process may run. There are no
transactions: what is atomic is one operation on one document (or, for
`updateMany` and `bulkWrite`, on each document), and the unique indexes. The
reservation handlers read users, barbers and schedules; the schedule handlers
call the reservations' `update`; creation calls email and then WhatsApp, and
update calls email, after their writes. Authorisation reads the role in a token,
which is the role at login; only booking access looks at the account again.

**What is hard.** `update` decides on a document it read up to five operations
earlier and guards its write by the status alone; two keys are stored beside the
fields they are computed from; the same instant is compared with a slot in four
places with different strictness; the job works on candidates that change under
it; a pass may fail half way and is retried a minute later; links are opened
long after they were sent; nothing is persisted about handlers, so a restart
drops them between two operations. The hazards are listed at their lines in
`PROJECT.json`.

**What makes the parts correct.**

* Reservations: one holder per slot of a barber; one reservation ahead per
  client; both keys always those of the reservation they sit in; only the
  documented transitions, and final states stay; the notice for cancellation;
  one announcement per outcome.
* Job: completes only what started 24 hours ago, and eventually all of it.
* Links: act only on the reservation they sign.
* Clock: three corrections find every wall-clock time there is; comparing date
  and time as text is comparing instants.
* Schedules: one day per barber and date; an added block crosses nothing; nothing is removed
  before what lies in it is cancelled; what is shown as available is free.
* Users and accounts: one account per email and per Google id; the history of
  booking access alternates.
* Migration: when it reports success every reservation ahead is protected; half
  done, stopped or retried it protects no less than before.

## 2. The modules

### Calendar

The clock is a natural number of ticks, a day is `DayLength` of them. `Today`
and `CurrentTime` split an instant as `getSantiagoDateTime` does, `IsFuture` and
`IsExpired` are the service's comparisons of a slot with now — by date first,
then by time of day — and `StartsAt` is `getSantiagoAppointmentTimestamp`. The
code compares fixed-width text, whose order is that of the numbers. The offset
of the zone is constant here: a slot's start is its wall-clock time. What the
code does across a change of offset is module SantiagoTime. One tick stands for
two units of the code: `getSantiagoDateTime` cuts the clock to the minute before
text is compared (`santiago-time.ts:18-30`), instants (the notice, the age of
what the job completes, the life of a link) are milliseconds. A slot starts on a
full minute, so that text and instants differ only within the minute in which it
starts, which is here the one tick of its start.

### Clients

What the reservations rely on about accounts: absent, or a role (administrator
or not) and a block. Its actions `Register`, `SwitchRole`, `SwitchAccess` and
`Unregister` are the directory steps of Appointments, and the specification that
Accounts is checked and proved to implement: the two modules meet here.

### Appointments

`now`, `appts` (the collection), `req` (the handlers in progress), `todo` (the
operations the job has prepared), `mail` (history: how often each outcome was
announced, the pending reservation included), `links`, and the directory:
`users` (of Clients), `barbers`, `agenda` (the slots that the schedules of each
barber offer). `Opening(collection)` is a program that starts on a collection;
`Init` starts on an empty one, module Migration on others.

*Grain.* One action is what a handler does from one database operation to the
next: the operation, and the code that runs on its result. `req[p].pc` is the
operation the handler waits for:

| action | code |
| --- | --- |
| `StartCreate`, `ReleaseKeys`, `CheckActive`, `ReadBarber`, `ReadSchedule`, `CheckSlot`, `Save`, `EmailPending`, `Notify` | `create`, 221–292: the email is awaited before the WhatsApp link is made |
| `StartPatch`, `StartCancelMine`, `StartLink` | the three controllers that call `update` |
| `Load`, `ReadBarber`, `ReadSchedule`, `CheckSlot`, `ReadClient`, `ReleaseKeys`, `CheckActive`, `Write`, `Mail` | `update`, 363–560 |
| `StartArchive`, `Archive` | `remove`, 562–576 |
| `JobFind`, `JobWrite`, `JobFail` | `completeOverdueConfirmed` and `run` |
| `AddUser`, `ChangeRole`, `SetBookingAccess`, `RemoveUser`, `AddBarber`, `SetBarber`, `EditSchedule` | what users, barbers and schedules change of what a reservation reads |
| `Tick`, `Abandon`, `Restart` | time; a rejected await; the process |

A refused or failed handler goes back to idle; the response is not kept. What a
handler remembers across awaits is in its record: the status it read (`seen`),
the slot it computed (`slot`), whether it will take the client's key
(`takesKey`), when it read (`at`), the link it came with.

The document is written in full by `NewAppt`, `Updated`, `Completed` and
`Released`. `Updated` keeps the code's asymmetry: the fields of the body are set
on the document *as it is now* (`Merge(doc.slot, dto)`), the slot key is that of
the slot computed from the document *as it was read* (`r.slot`). The indexes are
`Duplicate`: a write that would duplicate a key fails and the handler with it.

*Abstractions.* A reservation, a user, a barber are model values; a slot is a
record; a slot key is the slot it names (`buildSlotKey` is injective on ids,
dates and times of fixed format); a client key is the user. A filter on the
date is evaluated with the clock at the operation, not a few milliseconds
before; what the code decides after an await is decided with the clock of the
action. Logging, messages and populated fields are left out. A PATCH can carry
any body, the sets in `MCAppointments` choose the interesting ones. `Due` keeps
both conditions of the job although the second implies the first with a
constant offset. Two processes of the backend would be more handlers (which are
not bound to a process) and a second job.

### Overlaps, MCOverlaps

`update` reads a reservation, works on for up to five database operations, and
writes under a filter that compares the status (for a link also date and time).
When another update moves the reservation in between, the write is made of a slot
that is not there any more; `stale_slot_key` shows what comes of it. Overlaps
extends Appointments without restricting it: its three *history variables*, which
no step reads, are set by `Remember` next to every step.

* `overtaken`: the handlers whose reservation was moved since they read it;
* `stale`: the reservations that such a handler has written;
* `been`: the users that are, or once were, administrators.

Every behaviour of Appointments is one of Overlaps. Its properties hold of the
reservations that are `Fresh`, not in `stale`, while everything overlaps, moves
included: they say that a write overtaken by a move is the only thing that can
separate a key from its slot, have a slot promised twice, or get past the
notice, and that it does so to the reservation it writes and to no other. The
properties about the clients' keys speak of users not in `been`: an administrator
books without the key, and the code gives none when the role is taken away.
Roles, accounts and barbers change freely.

### BookingLedger

The promise of the reservations, without handlers, keys, emails or clocks: a
`state` for each reservation and a `holder` for each slot, with three actions.
`Reserve` takes a free slot; `Amend` moves an entry along its life cycle, to
another free slot, or both, and frees what it leaves in the same step; `Lose`
gives an active entry up. The mapping (in Overlaps) is the status, `"lost"` for a
reservation in `stale`, and `HolderOf`, read off the slots shown to people and
not off the keys, so that `KeepsTheLedger` says that the keys do their work: a
handler that moves and confirms in five database operations looks from outside
like one step, no step takes a slot from its holder, and an overtaken write costs
the book one entry.

### MCAppointments

Model values, bodies and schedules for TLC. One day is two ticks of twelve
hours: the notice (12 h) is one tick, the completion delay and the life of a
link (24 h) two. The booking window is one day instead of seven, which puts days
0 and 1 inside it and lets a day end before the clock does.

### Schedules

Extends Overlaps with `schedules`, the documents of
`barber-schedules.service.ts`, and `task`, the schedule handlers in progress. It
composes schedules and reservations: the variable `agenda` of Appointments, any
set of slots there, is `Offer(schedules)` here, written together with the
documents by `Store`.

| action | code |
| --- | --- |
| `StartDay`, `CheckDay`, `SaveDay` | `create`, 29–46, with the unique index |
| `PatchDay` | `update`, 73–84: any subset of the fields of a body, unseen |
| `StartAdd`, `Push` | `addBlock`, 86–106: check on the day that was read, then a compare-and-set |
| `StartRemoveBlock`, `FindAffected`, `CancelNext`, `CancelRefused`, `RemoveBlock` | `removeBlock` and `cancelReservationsForRemoval` |
| `StartRemoveDay`, …, `RemoveDay` | `remove`, 128–143 |
| `AbandonTask` | a database operation that rejects |

To cancel a reservation a task starts a request of Appointments (`StartPatch`
with status `cancelled`, as administrator) and waits for it (`waits`); the step in
which the request ends also answers the task (`Answer`): it goes on if `update`
returned, and stops if it threw. `update` throws although the reservation is
cancelled when the client or the barber is gone (`Notified`).

`ScheduleSlots`, `AvailableSlots` and `BusySlots` are `getScheduleSlots`,
`getAvailableSlots` and `getAvailability`. A block is a record of two times of
day, and the blocks of a day are a set: their order in the document, which the
write sorts, is left out.

The time of `getSantiagoAppointmentTimestamp` in the checks of the handlers is
`StartsAt`. `getScheduleSlots` offers times from the start of each block, in
steps of `SlotLength`, whatever the grid of other days.

### MCSchedules

One day of four ticks and slots of two: blocks and slots can cross by half.

### Accounts, MCAccounts

`accounts` (the collection), `tokens` (the roles in the tokens that an account
was ever given), `call` (the handlers in progress).

| action | code |
| --- | --- |
| `StartRegister`, `SaveLocal` | `register`: the email is looked up, the password hashed, the document saved under the unique indexes |
| `Login` | `login`: only an account whose password is a hash |
| `StartGoogle`, `FindEmail`, `Link`, `SaveGoogle` | `loginWithGoogle`: by subject, else by email and linked, else a new account |
| `UpdateUser`, `DeleteUser` | PATCH and DELETE of `/users/:id` and PATCH of its role, behind `assertSelfOrAdmin` |
| `StartAccess`, `SetAccess` | `/clients/:id/booking-access`: the administrator is looked up, then the compare-and-set with the history |
| `GiveUp` | a rejected await, a restart |

A PATCH may carry a `passwordHash`, which is stored as it was sent
(`users.service.ts:86-93`). It may be a valid hash (`"hash"`), and then its
password logs in; anything else (`"verbatim"`) is one that no password matches
(`auth.service.ts:39-60`). A token keeps its role
whatever becomes of the account; that it expires only allows less, and is left
out. Identifiers are not used twice. The unique index on the email exists in the
schema and needs Mongoose's default `autoIndex`. `Seen` maps an account to what
Clients knows of it, a barber's account being a client's; `KeepsTheClients` is the
refinement. `OnlyBoss` starts with one administrator who has a Google account, so
that every endpoint can be reached and the null Google ids (below,
`second_account`) do not stop everything else.

### SantiagoTime, MCSantiagoTime

`getSantiagoAppointmentTimestamp` in a zone whose offset changes once:
`timestamp` starts at the wall clock taken for an instant (`FirstGuess`), and
`Correct` is one turn of the loop, at most three; `Fail` is the RangeError.
`Observed` is `getSantiagoDateTime`. The zones of the run change by an hour at a
local midnight, forward and back, as Chile's does; a tick is half an hour. The
properties are about the result and about what the callers do with it: comparing
date and time as text (the service), comparing instants (job, links), and
narrowing by date before comparing instants (the job's query).

### Migration, MCMigration

Extends Overlaps with `mig`, the script of `migrate-active-client-key.ts`.

| action | code |
| --- | --- |
| `ReadRecords` | `find()` of all reservations |
| `Plan` | `find()` of all users, the loop that plans, and the end of a dry run or of a run that finds duplicates or orphans |
| `WriteChange` | one `updateOne` of the last loop, refused by the index if another reservation has the key |
| `Stop` | the process or the connection is gone |

The README asks for booking writes to be paused, and for nothing else: while the
script runs no handler of a reservation does (`BookingsArePaused`), but `Meanwhile`
the completion job and the clock go on, the backend may restart, and
administrators change roles, remove accounts and edit barbers and schedules.
Before and after it everything runs. `mig.admins` remembers who was an
administrator when the script read the users (line 14): it plans no key for their
reservations, so that a role taken away before the last write leaves them
without. `Protected`, in the properties, therefore speaks of the other clients.
The script starts on `Legacy` databases, written before there were client keys
but with the slot keys unique, and may run any number of times; the records are
written in the order in which the database returned them (`Place`). The unique
index is always there, as the schema declares it: creating it changes nothing.

`ShortRun` is a bound: from the plan to the last write the script takes less than
a day. `updateOne` compares nothing but the identifier, so that a longer run
could give a key to a reservation that was ahead when the run was planned and
that the job has completed since: `KeysAreReleased` depends on the bound.

## 3. What the runs check

| run | question | result |
| --- | --- | --- |
| `bookings` | a client books and cancels, an administrator confirms, misses and moves, roles change and the account may go, while time passes | `OneAheadEach`, `AheadHoldsKey` hold |
| `moves` | two reservations are made, moved to another time or barber, confirmed, missed and cancelled by overlapping handlers | `KeyedAsShown`, `OneHolderEach`, `NoticeKept`, `ClosedOnceStarted` hold; the handlers implement BookingLedger (`KeepsTheLedger`) |
| `outcomes` | job, administrators, links and archive decide and move one reservation without restriction, with failing passes, failing handlers and restarts | `StateMachine`, `ClosedByJobIsDue`, `KeysAreReleased`, `AnnouncedOnce`, `LinkActsOnWhatItSigns` hold, and under fairness `ConfirmedIsClosed` |
| `directory` | roles, blocks, accounts, barbers and schedules come, change and go while a reservation is made, decided, moved and archived | `TypeOK`, `AnnouncedOnce` hold |
| `shop` | two administrators create, change and delete days, and add and remove blocks, while a reservation is made, decided and closed | `SchedulesTypeOK`, `OneDayPerDate`, `AddedBlocksFit`, `AvailableIsFree`, `RemovedAfterCancelling` hold; the composition implements `Spec` of Appointments |
| `accounts` | registrations, Google logins, edits, removals and booking access overlap | `AccountsTypeOK`, `OneAccountPerIdentity`, `AccessHistoryIsTrue` hold; the accounts implement Clients (`KeepsTheClients`) |
| `time` | every half hour of three days around a change of the clock, forward and back | `TimeIsFound`, `FirstOfTwo`, `TextIsTime`, `NothingDueIsOverlooked` hold |
| `migration` | keys are migrated, stopped and retried between uses of the program, while the job runs, roles change and accounts come and go | `AppliedIsComplete`, `NothingIsUnprotected`, `OnlyDuplicatesPrevent`, `KeysAreReleased` hold |
| `stale_slot_key` | a move between the read and the write of a confirmation, and a creation past its conflict query; no reservation excepted | two reservations at one slot |
| `completed_ahead` | complete and move in one PATCH | a completed reservation that has not started |
| `removed_block` | a creation between the query for affected reservations and the removal | a pending reservation in a block that was removed without consent |
| `second_account` | two people register in an empty shop | the second is refused although nobody has the email |

The four violations are disagreements between the code and the repository's
README, described under `findings` with the quoted lines.

* `stale_slot_key`: `findOneAndUpdate` at `appointments.service.ts:493` compares
  the status and not the slot that the rest of the write was computed from. (For
  a link it does compare date and time; `LinkActsOnWhatItSigns` is the property
  that this keeps.) The client's key is decided on the same stale slot, so that
  overlapping updates can also leave a client with two reservations ahead; and a
  client's cancellation can pass whose reservation is moved nearer after the
  notice was checked. A creation that starts after the write is stopped by its
  conflict query (262-268), which looks at the slots shown; it is one already past
  it that takes the slot. `KeyedAsShown`, `NoticeKept` and the other properties of
  Overlaps say that this is as far as it goes.
* `removed_block` has the gap of the same kind in the schedules: the final write
  compares the schedule, not the reservations.
* `completed_ahead`: the start is checked on the old slot only.
* `second_account`: `googleId` defaults to null, and a sparse unique index leaves
  out missing fields, not null ones.

*Bounds.* Two reservations are what every property about pairs needs, and two
handlers what every overlap does; properties of one reservation (`outcomes`,
`directory`) are checked with one. Two to four slots: one to be taken, one to
move to, one to be taken instead; in `outcomes` two that lie a day apart, so
that a reservation the job has found due can be moved to where it is not.
`MaxNow` lets the last slot start (`directory`; the first of three in
`bookings`), or end by 24 hours and be found late (`outcomes`); in `moves` the
clock stands, at the start of one slot and before another. `bookings` moves
reservations to a later slot only, `moves` both ways. `Room` starts a creation
only while an identifier is left for it. `Endpoints` switches endpoints off in
runs that do not ask about them, and with `"link"` off the WhatsApp service is
unconfigured, as the code allows. Reservations and handlers are symmetric;
`outcomes`, which checks liveness, uses no symmetry. In `shop` one reservation
and one request meet two administrators and two documents: a creation or a
decision can fall between any two steps of a removal, and a second task can
remove, add or delete at the same time; blocks cross by half. It has one date,
so that moving a day onto the date of another is only covered by the theorem
`DaysStayDistinct`. `accounts` has three accounts and two calls, two emails and
two Google accounts, enough for two strangers beside the administrator; a
history of two entries is a block and its end. `migration` has two legacy
records of one client, each pending, confirmed or cancelled, and room for a new
one between two runs; the clock can pass a day after a plan, so that the job
meets what the script has read, and `ShortRun` bounds the writes. Its one client
is made an administrator and back, or removed, at any step of the script; with
one handler no write is overtaken.

*Fairness* (`FairSpec`, run `outcomes`). The clock advances: `WF(Tick)`. The timer
calls the job every minute and a restart calls it at once: `WF(JobFind)`. A pass
may fail or be lost in a restart, again and again but not for ever: `SF` of the
bulk's writes. Handlers get no fairness: a request may hang for ever.

*Deadlock* is checked in every run but `time`, whose search stops once it has
ended: idle handlers, restarts and the job keep the system able to move.

## 4. What the properties mean

Each is stated above its definition with the behaviour of the code it is about.
The properties of Overlaps, and `AvailableIsFree`, speak of `Fresh` reservations;
`OneAheadEach` and `AheadHoldsKey` also of clients who never were administrators
(`been`). Neither restricts what the program does. `ClosedOnceStarted` is about
the slot a reservation has until it is closed; the body that closes it may move
it ahead in the same write, which is `completed_ahead`.
`KeysAreReleased` says that only an active reservation has a client's key and
that a cancelled one has no slot key. A completed or missed one keeps its slot
key: the slot was used.
`AnnouncedOnce` is an upper bound: the code sends at most once and loses the
message with the process. Moves are not announced at all, although the email of
a pending reservation says that any change will be (`email.service.ts:71`).

`AddedBlocksFit` is about the endpoint that checks for crossings: the block that it
adds crosses nothing of the day as it is when it is written. POST and PATCH of a
day store any hours, crossing or not, and the code promises nothing of them.

`AppliedIsComplete` and `NothingIsUnprotected` speak of `Protected` reservations: an
administrator who is made a client after the script has read the users is, until
the script ends, treated as an administrator.

`OnlyDuplicatesPrevent` names what a conflict comes from: a client who is not
`Regular`, either because the client was an administrator at some time or because
an overtaken handler has written one of the client's reservations. For example, a
client who is made an administrator gets no key for a past reservation that is
moved ahead meanwhile. Once made a client again, and once the reservation that
held the key has passed, the client has one reservation that needs the key and
another that still has it, since keys are released only when somebody books or
updates. If the first is written first the index refuses it, on every retry.

`TextIsTime` has an exception, the hour that the clock shows a second time: then
the service takes for past what job and links take for ahead, or the reverse.
`FirstOfTwo` says which instant such a slot means. A slot in the hour that the
clock leaves out (`TimeIsFound`) cannot be converted at all. The clock changes at
midnight, so both need working hours next to it, which the schedules do not
forbid.

## 5. What is proved

Every property of a passing run is a theorem, but `ConfirmedIsClosed`. The
theorems hold for all sets of users, barbers, reservations, handlers, slots and
bodies, for every length of the day and every clock bound, with handlers
overlapping in every way. Those about the migration are about the specification
of section 2, in which booking writes are paused while the script runs and a run
writes for less than a day. Two theorems have a hypothesis about the collection
that the program finds, since what the endpoints keep must hold at first:
`OpensWithOneEach` and `OpensWithTrueHistories`. An empty one satisfies both.

### Calendar and clock

`CalendarProofs` proves `FutureIsChronological`: `IsFuture(slot, t)` is
`StartsAt(slot) > t`, for every length of the day, from a lemma on division.

`SantiagoTimeProofs` proves, for every set of zones behind UTC whose clock changes
once, at a midnight and by less than a day, and every wall clock:

* `SearchIsComplete` (`TimeIsFound`) and `FirstIsMeant` (`FirstOfTwo`). The first
  guess is too early, since the zone is behind UTC, and each correction moves by
  what the wrong offset leaves. The invariant names the instant that the search
  looks at after each correction and what it has ruled out; a wall clock that
  occurs at all occurs at one of the three (`GuessesAreEnough`), and the earliest of
  its occurrences is the one that is met first.
* `TextOrderIsTimeOrder` (`TextIsTime`): outside the second pass the wall clock
  grows with the instant, also across the change.
* `DatesNarrowSoundly` (`NothingDueIsOverlooked`): put back at midnight the date
  shown can fall behind for a while, but not behind that of a slot that has
  started; from lemmas on the date of a wall clock.

### Reservations

`AppointmentsProofs`, the base of all that follows: `TypeCorrect`, `Spec =>
[]TypeOK`. The induction needs what a handler has found out by the stage it is at
(`HandlerOK`) and that a stored reservation has a slot and a client (`DocsOK`); the
three make `Shape`. One lemma per action.

`OutcomesProofs`: what compare-and-set on the status is enough for. Its lemmas say
once in how few ways a step can change one document (`Evolves`).

* `KeysDoNotOutlive`, `OnlyLegalTransitions`: `KnowInv`, which is `Shape`,
  `KeysAreReleased` and what a handler *knows* of its document: its client, that
  what its body asks for is legal from the status it read, that it takes a key
  only for an active status. The status it read may be old; the write happens
  only if it is the present one, and then what is known is true of the document.
* `JobClosesWhatIsDue`: everything in `todo` started a day ago (`TodoInv`), and the
  bulk write compares the slot with the one that was found.
* `LinksActAsSigned`: from the filter, which for a link compares date and time.
* `NothingIsToldTwice`: `TellInv`: a message that was sent is about what happened,
  and one that a handler is about to send was not sent and no other handler is
  about to send it; `LinkInv` says the same of the creation.

`OverlapsProofs`: what the compare-and-set on the status does *not* ensure, and
what holds all the same.

* `KeysMatchSlots` and `NoSlotIsSharedByTwo`. The inductive invariant `SlotsInv` is
  `KnowInv`, unique keys (the two indexes), `KeyedAsShown`, and `TargetsInv`: the slot
  that a handler which was not overtaken has computed is still what its body makes
  of the document. A step that moves the document makes the handler overtaken,
  and an overtaken write makes the document stale, so that each case is either
  kept or excepted. Equal slots of two held, fresh reservations would then be
  equal keys.
* `NoticeIsKept`: a client's cancellation that goes on was given in time for the
  slot that was read (`NoticeInv`), which for a fresh reservation is the slot it has.
* `OnlyWhatStartedIsClosed`: a handler that is to close a reservation and was not
  overtaken works on one that has started (`StartedInv`), and so does the job
  (`TodoInv`).
* `ReservationsAheadHoldKeys` and `OneAheadPerClient`: `KeyInv` adds that whoever is
  an administrator is in `been`, and that a handler which is to write no key has
  the reservation of somebody in `been`, or one that does not lie ahead, and that
  this stays so as time passes (`FutureFades`). Two reservations ahead would be two
  equal keys.
* `LedgerIsKept`: `OverlapSpec => KeepsTheLedger`. A write is `Amend` or, if overtaken,
  `Lose`; a save `Reserve`, the job's write `Amend`. A step changes at most one entry
  (`EntriesStep`), and the slot that it takes is held by nobody because its key was
  free (`SlotsInv`).

### Schedules

`SchedulesProofs`, for all sets of documents, tasks, blocks and bodies:

* `SchedulesAreWellFormed`: `ShopSpec => []SchedulesTypeOK`, inductive together
  with `Shape`; it includes what a task has read by each stage (`TaskOK`).
* `ShopImplementsReservations`: `ShopSpec => Spec`. A step of a task is a
  `StartPatch`, an `EditSchedule` (whose new slots are slots because the documents
  are well-formed: `OfferIsSlots`) or leaves the reservations alone; the other
  steps are steps of Appointments. The history variables are kept along with them,
  so that what is proved in `OverlapsProofs` carries over; `ShopSlotsAreExclusive` is
  the example.
* `DaysStayDistinct`: one document per barber and date, from the index alone.
* `BlocksAddedFit`: `PushInv` says what a task that is about to push knows: its block
  crosses nothing of the day it read, and the compare-and-set makes that the day
  it writes. No other step adds a block while a task moves.
* `ShownFreeIsFree`: from `SlotsInv`.
* `RemovalFollowsCancelling`: `CancelInv` says that what a task
  has found and no longer has to cancel is cancelled, and that the request it
  waits for is an update that asks for `cancelled`. It is cancelled once that
  request reaches its email (`KnowInv`), and stays so (`Evolves`); a request that
  ends in any other way stops the task.

### Accounts

`AccountsProofs`: everything follows from what a step can make of one account
(`AccountStep`): it is added, edited or linked, to an identity that nobody else
has; its access is switched; or it is removed.

* `AccountsAreTyped`, inductive as `AccountsShape` with what a call has been given
  by the stage it is at.
* `OneAccountEach` (with `OpensWithOneEach`) from the indexes: the look-ups that
  precede a write are not needed for it.
* `HistoryTellsTheTruth` (with `OpensWithTrueHistories`): the compare-and-set on
  `blocked` appends the opposite of the last entry.
* `ClientsAreKept`: `AccountsSpec => KeepsTheClients`, one action of Clients for
  each kind of change, or a stutter. It is what connects Accounts and
  Appointments, whose directory steps are the actions of Clients.

### Migration

`MigrationProofs`, for every order of the records:

* `MigratedKeysAreReleased`, `AppliedProtectsAll` and `ScriptKeepsProtection`.
  `MigrationInv` is `KnowInv`, `TodoInv` and what the script knows (`ScriptInv`):
  while it plans, its records are the collection but for what the job has
  completed; while it writes, the keys that are left belong to reservations that
  were ahead when the writing began, which is less than a day ago, so that the job
  has closed none of them; and no reservation that is still ahead was forgotten,
  unless its client was an administrator when the users were read (`mig.admins`).
  What becomes of roles and accounts after that makes no difference, because the
  plan does not look at them again.
* `DiagnosisFindsAllConflicts`. What the script needs of the program is `AllOrNone`:
  of the reservations ahead of a client who is `Regular`, none holds the client's
  key, or all do, and then it is one. `OwnInv` makes it inductive with what a
  handler knows that takes a key (`KnowsOthers`): every other reservation of the
  client ahead holds the key, and the index will refuse this one. Then no two
  records are planned to get one key, and nobody else holds a regular client's
  key that is left to write (`PlannedInv`).

Assumptions: those on the constants, named in the modules (`ConstantsAssumption`,
`NullAssumption`, `DayLengthAssumption`, `ScheduleAssumption`, `ZonesAssumption`,
`AccountsAssumption`, `MigrationAssumption`), evaluated by TLC in every run, and
the bound `ShortRun` in the specification of the migration.

Only model-checked: `ConfirmedIsClosed`. Liveness under fairness is beyond the
prover, and so is ENABLED.

## 6. Plan

The models are complete as far as section 7 says, and every safety property of
the runs is proved. What would still say more:

1. **The composition.** `ShopSpec => Spec` carries every theorem about Appointments
   over, and `ShopRecalls` every one about Overlaps; stating `KeepsTheLedger`,
   `AheadHoldsKey` and the outcomes of `ShopSpec` makes that visible. Of the
   migration, `OneHolderEach` (it follows from the `SlotsInv` that
   `MigrationProofs` carries along).
2. **How far a stale write reaches.** A stale reservation is excepted for good. One
   that is moved again by a handler that was not overtaken has the key of its slot
   again; saying so would let it become fresh.
3. **Safety behind the liveness.** What `ConfirmedIsClosed` rests on: what is due
   and confirmed is found by every pass, and stays due until it is closed or
   moved.
4. **Reuse.** `OverlapsProofs` and `MigrationProofs` follow the handlers separately
   for `KeyInv` and `OwnInv`; one lemma on what a step does to what a handler takes
   would serve both.

## 7. What is not modelled

Configuration and its validation, the application shell and the health route:
no state of their own. Email templates and addresses, HTML pages and the texts of
answers. Validation of DTOs, but for what it lets through (PATCH of a user's role is
not validated; the model sends the roles there are). Password hashing, tokens'
signatures and expiry, the verification of Google's tokens, rate limits. The
signature of a link: only links that were sent are opened. Creating indexes. A
second process of the backend would be more handlers and a second job, whose
passes differ from repeated ones only in overlapping; it is not run.
