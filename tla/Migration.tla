------------------------------- MODULE Migration -------------------------------
(***************************************************************************)
(* migrate-active-client-key.ts: gives the reservations of an existing     *)
(* database the clients' keys, and takes the keys that are not due away.   *)
(* It reads all reservations, then all users, plans the changes, and       *)
(* writes them one at a time, in the order in which it read them.          *)
(*                                                                         *)
(* "Run with booking writes paused": the handlers of module Appointments   *)
(* run before and after the migration.  During it the completion job and   *)
(* the clock go on, the program may be restarted, and administrators go on *)
(* changing roles, accounts, barbers and schedules.  The script may be run *)
(* again at any time, and may stop between two writes.  The unique index   *)
(* that it creates if there is none is the one that module Appointments    *)
(* always has: keys are unique in every database that the program leaves   *)
(* behind, so that creating the index does not fail.                       *)
(***************************************************************************)
EXTENDS Overlaps

CONSTANTS
    Place,      \* of a reservation in the order in which the database returns them
    Legacy      \* the collections that were written before there were keys

ASSUME MigrationAssumption ==
    /\ Place \in [Appts -> Nat] /\ \A a, b \in Appts : a # b => Place[a] # Place[b]
    /\ Legacy \subseteq [Appts -> ApptType]
    /\ \A old \in Legacy, a \in Appts :
          /\ old[a].status # "absent" => old[a].slot \in Slots /\ old[a].client \in Users
          /\ old[a].activeClientKey = Null
          /\ old[a].slotKey = IF old[a].status \in HeldStatuses THEN old[a].slot ELSE Null
          /\ \A b \in Appts \ {a} : old[a].slotKey # Null => old[a].slotKey # old[b].slotKey

VARIABLE
    mig     \* the script: what it waits for, how its last run ended, the reservations
            \* it has read, the administrators it has read, the keys it has planned,
            \* those that are left to write, and since when it writes

NotRunning(outcome) ==
    [pc |-> "idle", outcome |-> outcome, records |-> Null, admins |-> {},
     keys |-> Null, left |-> {}, since |-> 0]

-------------------------------------------------------------------------------
\* The script

\* No handler that books, decides, moves or archives is running.
BookingsArePaused == \A p \in Requests : req[p].pc = "idle"

ReadRecords ==
    /\ mig.pc = "idle" /\ BookingsArePaused
    /\ mig' = [NotRunning("none") EXCEPT !.pc = "users", !.records = appts]
    /\ UNCHANGED vars

\* mutants: a pending reservation is not active yet, a reservation of today is
\* past, and the status is forgotten
EligibleWhenConfirmed(doc) == doc.status = "confirmed" /\ IsFuture(doc.slot, now)
EligibleFromTomorrow(doc) == doc.status \in ActiveStatuses /\ doc.slot.date > Today(now)
EligibleWhateverStatus(doc) == doc.status # "absent" /\ IsFuture(doc.slot, now)

\* An active reservation that is still ahead
Eligible(doc) == Occupies(doc.slot, doc.status, now)

KeyOf(doc) ==
    IF Eligible(doc) /\ users[doc.client] # Null /\ users[doc.client].role # "admin"
    THEN doc.client ELSE Null

Administrators == {c \in Users : users[c] # Null /\ users[c].role = "admin"}

Orphans(docs) == {a \in Appts : Eligible(docs[a]) /\ users[docs[a].client] = Null}

\* mutant: conflicts are left to the index
NoDuplicates(docs) == {}

Duplicates(docs) ==
    {a \in Appts : \E b \in Appts \ {a} : KeyOf(docs[b]) = KeyOf(docs[a]) /\ KeyOf(docs[a]) # Null}

Changes(docs) ==
    {a \in Appts : docs[a].status # "absent" /\ docs[a].activeClientKey # KeyOf(docs[a])}

\* The users are read and the changes planned.  A dry run ends here, and so
\* does a run that finds that clients have several reservations, or are gone.
Plan ==
    LET docs == mig.records IN
    /\ mig.pc = "users"
    /\ \/ mig' = NotRunning("refused")
       \/ /\ Duplicates(docs) = {} /\ Orphans(docs) = {}
          /\ mig' = IF Changes(docs) = {} THEN NotRunning("applied")
                    ELSE [mig EXCEPT !.pc = "write", !.records = Null, !.since = now,
                                     !.admins = Administrators,
                                     !.keys = [a \in Appts |-> KeyOf(docs[a])],
                                     !.left = Changes(docs)]
    /\ UNCHANGED vars

\* updateOne, of the first that is left: the index refuses a key that another
\* reservation still has, and the script then ends, with the changes so far
\* written.
IsNext(a) == a \in mig.left /\ \A b \in mig.left : Place[a] <= Place[b]

WriteChange(a) ==
    LET new == [appts[a] EXCEPT !.activeClientKey = mig.keys[a]] IN
    /\ mig.pc = "write" /\ IsNext(a)
    /\ IF Duplicate(a, new)
       THEN mig' = NotRunning("conflict") /\ UNCHANGED appts
       ELSE /\ appts' = [appts EXCEPT ![a] = new]
            /\ mig' = IF mig.left = {a} THEN NotRunning("applied")
                      ELSE [mig EXCEPT !.left = @ \ {a}]
    /\ UNCHANGED <<now, req, todo, mail, links, directory>>

\* The script is stopped, or loses the database.
Stop ==
    /\ mig.pc # "idle"
    /\ mig' = NotRunning("none")
    /\ UNCHANGED vars

Migrate == ReadRecords \/ Plan \/ (\E a \in Appts : WriteChange(a)) \/ Stop

-------------------------------------------------------------------------------
MigrationInit ==
    /\ \E old \in Legacy : Opening(old)
    /\ HistoryInit
    /\ mig = NotRunning("none")

\* The writes are done within a day (a bound: they are a few, one after another).
ShortRun == mig.pc = "write" => now < mig.since + DayLength

\* What goes on while the writes of bookings are paused
Meanwhile == Job \/ Directory \/ Restart \/ (ShortRun /\ Tick)

MigrationStep ==
    \/ Migrate
    \/ (mig.pc = "idle" /\ Next) /\ UNCHANGED mig
    \/ (mig.pc # "idle" /\ Meanwhile) /\ UNCHANGED mig

MigrationNext == MigrationStep /\ Remember

MigrationSpec == MigrationInit /\ [][MigrationNext]_<<vars, history, mig>>

-------------------------------------------------------------------------------
\* Properties

\* A reservation that is still ahead, of a client who neither is an
\* administrator nor was one when the script read the users
Protected(a) ==
    LET client == users[appts[a].client] IN
    /\ Active(a) /\ IsFuture(appts[a].slot, now)
    /\ client # Null /\ client.role = "user" /\ appts[a].client \notin mig.admins

\* When the script reports that it was applied, also after runs that stopped
\* half way, every reservation of a client that is still ahead holds the
\* client's key, whatever the job and administrators did meanwhile.
AppliedIsComplete ==
    [][mig.outcome # "applied" /\ mig'.outcome = "applied" =>
         \A a \in Appts : Protected(a) => appts'[a].activeClientKey = appts[a].client
      ]_<<vars, history, mig>>

\* No step of the script, applied, stopped or refused, takes the key away from
\* a reservation that is still ahead.
NothingIsUnprotected ==
    [][mig' # mig =>
         \A a \in Appts : Protected(a) /\ appts[a].activeClientKey # Null =>
             appts'[a].activeClientKey = appts[a].activeClientKey
      ]_<<vars, history, mig>>

\* A client who never was an administrator, and none of whose reservations was
\* written by an overtaken handler
Regular(c) == c \notin been /\ \A a \in stale : appts[a].client # c

\* A diagnosis that finds neither clients with several reservations nor
\* reservations without a client can be applied: a change that meets a key that
\* another reservation still has is one of a client who is not regular ("The
\* index rejects conflicts even if a competing write slips in").
OnlyDuplicatesPrevent ==
    [][mig.outcome # "conflict" /\ mig'.outcome = "conflict" =>
         \E a \in Appts : IsNext(a) /\ ~Regular(appts[a].client)
      ]_<<vars, history, mig>>

===============================================================================
