---------------------------- MODULE MigrationProofs ----------------------------
(***************************************************************************)
(* What the migration of the clients' keys does to the reservations, for   *)
(* every collection that it finds and however often it is run: proofs of   *)
(* the properties that Migration.cfg checks on an instance.                *)
(***************************************************************************)
EXTENDS Migration, OverlapsProofs

-------------------------------------------------------------------------------
\* What the script knows of the collection while it runs

\* A document as it is now, of which old was read: the job may have completed it.
SameOrDone(old, new) ==
    \/ new = old
    \/ /\ old.status = "confirmed" /\ new = Completed(old)
       /\ StartsAt(old.slot) + DayLength <= now

\* The records are those of the collection, but for what the job completed.
RecordsInv ==
    /\ mig.records \in [Appts -> ApptType]
    /\ \A a \in Appts : SameOrDone(mig.records[a], appts[a])

\* A reservation that is to have its client's key, whatever has become of the
\* client since the script read the users
IsDue(a) == Active(a) /\ IsFuture(appts[a].slot, now) /\ appts[a].client \notin mig.admins

\* The keys that are left to write are those of reservations that were ahead
\* when the script began to write, which is too short ago for the job to close
\* them; no reservation that is due a key is forgotten.
WritingInv ==
    /\ mig.left \subseteq Appts
    /\ mig.keys \in [Appts -> Users \cup {Null}]
    /\ mig.since \in Nat /\ mig.since <= now /\ now <= mig.since + DayLength
    /\ \A a \in mig.left : mig.keys[a] # Null =>
          /\ Active(a) /\ mig.keys[a] = appts[a].client
          /\ StartsAt(appts[a].slot) > mig.since
    /\ \A a \in Appts : IsDue(a) =>
          /\ mig.keys[a] = appts[a].client
          /\ a \notin mig.left => appts[a].activeClientKey = appts[a].client

MigType ==
    [pc: {"idle", "users", "write"}, outcome: {"none", "refused", "applied", "conflict"},
     records: [Appts -> ApptType] \cup {Null}, keys: [Appts -> Users \cup {Null}] \cup {Null},
     left: SUBSET Appts, since: Nat, admins: SUBSET Users]

ScriptInv ==
    /\ mig \in MigType
    /\ mig.pc # "idle" => BookingsArePaused /\ mig.outcome = "none"
    /\ mig.pc = "users" => RecordsInv
    /\ mig.pc = "write" => WritingInv

MigrationInv == KnowInv /\ TodoInv /\ ScriptInv

LEMMA NotRunningType ==
    ASSUME NEW outcome \in {"none", "refused", "applied", "conflict"}
    PROVE  NotRunning(outcome) \in MigType /\ NotRunning(outcome).pc = "idle"
           /\ NotRunning(outcome).outcome = outcome
  BY DEF NotRunning, MigType

LEMMA StartsMigrationInv == MigrationInit => MigrationInv
<1> SUFFICES ASSUME MigrationInit PROVE MigrationInv
  OBVIOUS
<1>1. PICK old \in Legacy : Opening(old)
  BY DEF MigrationInit
<1>2. /\ appts = old /\ old \in [Appts -> ApptType]
      /\ \A a \in Appts : appts[a].activeClientKey = Null
      /\ \A a \in Appts : appts[a].status # "absent" => appts[a].slot \in Slots /\ appts[a].client \in Users
  BY <1>1, MigrationAssumption DEF Opening
<1>3. TypeOK
  BY <1>1, <1>2, IdleFacts, ConstantsAssumption DEF Opening, TypeOK, Instants, MailType, ClientType
<1>4. Shape /\ \A p \in Requests : req[p].op = "none"
  BY <1>1, <1>2, <1>3, IdleFacts DEF Opening, Shape, DocsOK
<1>6. \A a \in Appts : appts[a].status = "cancelled" => appts[a].slotKey = Null
  BY <1>2, MigrationAssumption DEF MigrationInit, HeldStatuses
<1>5. KnowInv
  BY <1>2, <1>4, <1>6 DEF KnowInv, Knows, KeysAreReleased
<1>7. TodoInv
  BY <1>1 DEF Opening, TodoInv
<1>8. ScriptInv
  BY NotRunningType DEF MigrationInit, ScriptInv
<1> QED
  BY <1>5, <1>7, <1>8 DEF MigrationInv

-------------------------------------------------------------------------------
\* What the job, the clock and administrators do while the script runs

LEMMA FutureIs ==
    ASSUME NEW slot \in Slots, NEW t \in Nat
    PROVE  StartsAt(slot) \in Nat /\ (IsFuture(slot, t) <=> StartsAt(slot) > t)
  BY SlotStart, FutureIsChronological

LEMMA ActiveFacts ==
    ASSUME Shape, NEW a \in Appts, Active(a)
    PROVE  appts[a].slot \in Slots /\ appts[a].client \in Users
  BY DEF Shape, DocsOK, Active, ActiveStatuses

LEMMA MeanwhileIsAStep == Meanwhile => Next
  BY DEF Meanwhile, Next

(* The job completes what is due, and nothing else touches a reservation. *)
LEMMA OnlyTheJobGoesOn ==
    ASSUME MigrationInv, Meanwhile, NEW a \in Appts
    PROVE  \/ appts'[a] = appts[a]
           \/ /\ appts[a].status = "confirmed" /\ appts'[a] = Completed(appts[a])
              /\ appts[a].slot \in Slots
              /\ StartsAt(appts[a].slot) + DayLength <= now
<1>1. CASE appts'[a] = appts[a]
  BY <1>1
<1>2. CASE IsCompleted(a) /\ Job
  <2>1. PICK w \in todo : w.appt = a /\ JobMatches(w, appts[a]) /\ appts'[a] = Completed(appts[a])
    BY <1>2 DEF IsCompleted
  <2>2. StartsAt(w) + DayLength <= now
    BY DEF MigrationInv, TodoInv
  <2>3. appts[a].slot \in Slots
    BY <2>1 DEF MigrationInv, KnowInv, Shape, DocsOK, JobMatches
  <2> QED
    BY <2>1, <2>2, <2>3 DEF JobMatches, StartsAt
<1>3. Job => appts'[a] = appts[a] \/ IsCompleted(a)
  BY JobWrites DEF MigrationInv, KnowInv
<1>4. Directory \/ Restart \/ Tick => appts' = appts
  BY DEF Directory, People, ChangeRole, SetBookingAccess, RemoveUser, AddUser, AddBarber,
         SetBarber, EditSchedule, Restart, Tick
<1> QED
  BY <1>1, <1>2, <1>3, <1>4 DEF Meanwhile

LEMMA ClockDuringRun ==
    ASSUME MigrationInv, Meanwhile
    PROVE  /\ now \in Nat /\ now' \in Nat /\ now <= now'
           /\ mig.pc = "write" => now' <= mig.since + DayLength
           /\ BookingsArePaused => BookingsArePaused'
<1>1. now \in Nat /\ (mig.pc = "write" => now <= mig.since + DayLength)
  BY ConstantsAssumption DEF MigrationInv, KnowInv, Shape, TypeOK, Instants, ScriptInv, WritingInv
<1>2. CASE Job \/ Directory
  <2>1. now' = now /\ req' = req
    BY <1>2 DEF Job, JobFind, JobWrite, JobFail, Directory, People, ChangeRole, SetBookingAccess,
                RemoveUser, AddUser, AddBarber, SetBarber, EditSchedule
  <2> QED
    BY <1>1, <2>1 DEF BookingsArePaused
<1>3. CASE ShortRun /\ Tick
  <2>1. now' = now + 1 /\ req' = req
    BY <1>3 DEF Tick
  <2>2. mig.pc = "write" => now < mig.since + DayLength /\ mig.since \in Nat
    BY <1>3 DEF ShortRun, MigrationInv, ScriptInv, WritingInv
  <2> QED
    BY <1>1, <2>1, <2>2, DayLengthAssumption DEF BookingsArePaused
<1>4. CASE Restart
  <2>1. now' = now /\ \A p \in Requests : req'[p].pc = "idle"
    BY <1>4, IdleFacts DEF Restart
  <2> QED
    BY <1>1, <2>1 DEF BookingsArePaused
<1> QED
  BY <1>2, <1>3, <1>4 DEF Meanwhile

(* A reservation that is due a key was due it before. *)
LEMMA DueBefore ==
    ASSUME MigrationInv, Meanwhile, UNCHANGED mig, NEW a \in Appts, IsDue(a)'
    PROVE  IsDue(a) /\ appts'[a] = appts[a]
<1>1. appts'[a] = appts[a]
  <2>1. Completed(appts[a]).status = "completed"
    BY DEF Completed, MigrationInv, KnowInv, Shape, TypeOK, ApptType
  <2> QED
    BY <2>1, OnlyTheJobGoesOn DEF IsDue, Active, ActiveStatuses
<1>2. Active(a) /\ appts[a].slot \in Slots
  BY <1>1, ActiveFacts DEF MigrationInv, KnowInv, IsDue, Active
<1>3. IsFuture(appts[a].slot, now)
  <2>1. IsFuture(appts[a].slot, now')
    BY <1>1 DEF IsDue
  <2> QED
    BY <1>2, <2>1, ClockDuringRun, FutureIs
<1> QED
  BY <1>1, <1>2, <1>3 DEF IsDue

LEMMA RecordsOn ==
    ASSUME MigrationInv, RecordsInv, Meanwhile, UNCHANGED mig
    PROVE  RecordsInv'
<1> SUFFICES ASSUME NEW a \in Appts
             PROVE  SameOrDone(mig.records[a], appts[a])'
  BY DEF RecordsInv
<1> DEFINE old == mig.records[a]
<1>1. /\ SameOrDone(old, appts[a]) /\ old \in ApptType
      /\ now \in Nat /\ now' \in Nat /\ now <= now'
  BY ClockDuringRun DEF RecordsInv
<1>2. CASE appts'[a] = appts[a]
  <2>1. CASE appts[a] = old
    BY <1>2, <2>1 DEF SameOrDone
  <2>2. CASE old.status = "confirmed" /\ appts[a] = Completed(old) /\ StartsAt(old.slot) + DayLength <= now
    <3>1. old.slot \in Slots
      BY <1>1, <2>2 DEF MigrationInv, KnowInv, Shape, DocsOK, Completed, ApptType
    <3>2. StartsAt(old.slot) + DayLength <= now'
      BY <1>1, <2>2, <3>1, SlotStart, DayLengthAssumption
    <3> QED
      BY <1>2, <2>2, <3>2 DEF SameOrDone
  <2> QED
    BY <1>1, <2>1, <2>2 DEF SameOrDone
<1>3. CASE /\ appts[a].status = "confirmed" /\ appts'[a] = Completed(appts[a])
           /\ appts[a].slot \in Slots /\ StartsAt(appts[a].slot) + DayLength <= now
  <2>1. appts[a] = old
    BY <1>1, <1>3 DEF SameOrDone, Completed, ApptType
  <2>2. StartsAt(old.slot) + DayLength <= now'
    BY <1>1, <1>3, <2>1, SlotStart, DayLengthAssumption
  <2> QED
    BY <1>3, <2>1, <2>2 DEF SameOrDone
<1> QED
  BY <1>2, <1>3, OnlyTheJobGoesOn

LEMMA WritingOn ==
    ASSUME MigrationInv, WritingInv, mig.pc = "write", Meanwhile, UNCHANGED mig
    PROVE  WritingInv'
<1>1. /\ mig.left \subseteq Appts /\ mig.since \in Nat /\ mig.since <= now
      /\ now \in Nat /\ now' \in Nat /\ now <= now' /\ now <= mig.since + DayLength
      /\ now' <= mig.since + DayLength
  BY ClockDuringRun DEF WritingInv
<1>2. ASSUME NEW a \in mig.left, mig.keys[a] # Null
      PROVE  /\ appts'[a].status \in ActiveStatuses /\ mig.keys[a] = appts'[a].client
             /\ StartsAt(appts'[a].slot) > mig.since
  <2>1. Active(a) /\ mig.keys[a] = appts[a].client /\ StartsAt(appts[a].slot) > mig.since /\ a \in Appts
    BY <1>2 DEF WritingInv
  <2>2. appts[a].slot \in Slots /\ StartsAt(appts[a].slot) \in Nat
    BY <2>1, ActiveFacts, SlotStart DEF MigrationInv, KnowInv
  <2>3. ~(StartsAt(appts[a].slot) + DayLength <= now)
    BY <1>1, <2>1, <2>2, DayLengthAssumption
  <2>4. appts'[a] = appts[a]
    BY <2>1, <2>3, OnlyTheJobGoesOn
  <2> QED
    BY <2>1, <2>4 DEF Active
<1>3. ASSUME NEW a \in Appts, IsDue(a)'
      PROVE  /\ mig.keys[a] = appts'[a].client
             /\ a \notin mig.left => appts'[a].activeClientKey = appts'[a].client
  BY <1>3, DueBefore DEF WritingInv
<1>4. mig.since <= now'
  BY <1>1
<1> QED
  BY <1>1, <1>2, <1>3, <1>4 DEF WritingInv, Active

(* What goes on meanwhile leaves what the script knows true. *)
LEMMA ScriptWaits ==
    ASSUME MigrationInv, Meanwhile, UNCHANGED mig
    PROVE  ScriptInv'
  BY RecordsOn, WritingOn, ClockDuringRun DEF MigrationInv, ScriptInv, BookingsArePaused

-------------------------------------------------------------------------------
\* The steps of the script

LEMMA ReadRecordsStep ==
    ASSUME MigrationInv, ReadRecords
    PROVE  ScriptInv'
<1>1. appts \in [Appts -> ApptType]
  BY DEF MigrationInv, KnowInv, Shape, TypeOK
<1>2. mig' = [NotRunning("none") EXCEPT !.pc = "users", !.records = appts] /\ appts' = appts /\ req' = req
  BY DEF ReadRecords, vars
<1>3. mig' \in MigType /\ mig'.pc = "users" /\ mig'.records = appts
  BY <1>1, <1>2, NotRunningType DEF MigType, NotRunning
<1>4. mig'.outcome = "none"
  BY <1>2 DEF NotRunning
<1>5. RecordsInv'
  BY <1>1, <1>2, <1>3 DEF RecordsInv, SameOrDone
<1> QED
  BY <1>2, <1>3, <1>4, <1>5 DEF ScriptInv, ReadRecords, BookingsArePaused

(* The keys that are planned are those of reservations that are still there, *)
(* and a reservation that is still ahead is as it was read.                  *)
LEMMA PlannedKeys ==
    ASSUME MigrationInv, mig.pc = "users", NEW a \in Appts
    PROVE  LET key == KeyOf(mig.records[a])
               client == appts[a].client
           IN  /\ key \in Users \cup {Null}
               /\ key # Null => /\ Active(a) /\ key = client /\ StartsAt(appts[a].slot) > now
                                /\ IsFuture(appts[a].slot, now) /\ mig.records[a] = appts[a]
               /\ Active(a) /\ IsFuture(appts[a].slot, now) =>
                     /\ mig.records[a] = appts[a] /\ Eligible(mig.records[a])
                     /\ users[client] # Null /\ users[client].role # "admin" => key = client
<1> DEFINE old == mig.records[a]
           key == KeyOf(old)
<1>1. /\ Shape /\ now \in Nat /\ old \in ApptType /\ appts[a] \in ApptType /\ SameOrDone(old, appts[a])
      /\ mig.pc = "users" => RecordsInv
  BY ConstantsAssumption DEF MigrationInv, KnowInv, Shape, TypeOK, Instants, ScriptInv, RecordsInv
<1>2. old.status # "absent" => old.slot \in Slots /\ old.client \in Users
  BY <1>1 DEF SameOrDone, Shape, DocsOK, Completed, ApptType
<1>3. ASSUME key # Null
      PROVE  old.status \in ActiveStatuses /\ IsFuture(old.slot, now) /\ key = old.client
  BY <1>3 DEF KeyOf, Eligible, Occupies
<1>4. key \in Users \cup {Null}
  BY <1>1, <1>2, <1>3 DEF ActiveStatuses
<1>5. ASSUME key # Null
      PROVE  /\ Active(a) /\ key = appts[a].client /\ StartsAt(appts[a].slot) > now
             /\ IsFuture(appts[a].slot, now) /\ appts[a] = old
  <2>1. old.slot \in Slots
    BY <1>2, <1>3, <1>5 DEF ActiveStatuses
  <2>2. StartsAt(old.slot) > now /\ StartsAt(old.slot) \in Nat
    BY <1>1, <1>3, <1>5, <2>1, FutureIs
  <2>3. ~(StartsAt(old.slot) + DayLength <= now)
    BY <1>1, <2>2, DayLengthAssumption
  <2>4. appts[a] = old
    BY <1>1, <2>3 DEF SameOrDone
  <2> QED
    BY <1>3, <1>5, <2>2, <2>4 DEF Active
<1>6. ASSUME Active(a), IsFuture(appts[a].slot, now)
      PROVE  /\ old = appts[a] /\ Eligible(old)
             /\ users[appts[a].client] # Null /\ users[appts[a].client].role # "admin" =>
                    key = appts[a].client
  <2>1. appts[a] = old
    BY <1>1, <1>6 DEF SameOrDone, Active, ActiveStatuses, Completed, ApptType
  <2> QED
    BY <1>6, <2>1 DEF Active, KeyOf, Eligible, Occupies
<1> QED
  BY <1>4, <1>5, <1>6

\* What the diagnosis makes of the records it has read
Planned == [a \in Appts |-> KeyOf(mig.records[a])]

(* Where nobody is missing, a reservation that is ahead has its client's key *)
(* in the plan, unless the client is an administrator.                       *)
LEMMA PlanIsComplete ==
    ASSUME MigrationInv, mig.pc = "users", Orphans(mig.records) = {}, NEW a \in Appts,
           Active(a), IsFuture(appts[a].slot, now), appts[a].client \notin Administrators
    PROVE  /\ KeyOf(mig.records[a]) = appts[a].client
           /\ a \notin Changes(mig.records) => appts[a].activeClientKey = appts[a].client
<1>1. mig.records[a] = appts[a] /\ Eligible(mig.records[a]) /\ appts[a].client \in Users
  BY PlannedKeys, ActiveFacts DEF MigrationInv, KnowInv
<1>2. users[appts[a].client] # Null
  BY <1>1 DEF Orphans
<1>3. KeyOf(mig.records[a]) = appts[a].client
  BY <1>1, <1>2, PlannedKeys DEF Administrators
<1>4. mig.records[a].status # "absent"
  BY <1>1 DEF Active, ActiveStatuses
<1> QED
  BY <1>1, <1>3, <1>4 DEF Changes

LEMMA PlanStep ==
    ASSUME MigrationInv, Plan
    PROVE  /\ ScriptInv'
           /\ mig.pc = "users" /\ UNCHANGED vars
           /\ mig'.outcome = "conflict" => FALSE
           /\ mig'.outcome = "applied" =>
                 Changes(mig.records) = {} /\ Orphans(mig.records) = {}
           /\ mig'.pc = "write" =>
                 /\ mig'.keys = Planned /\ mig'.left = Changes(mig.records)
                 /\ mig'.admins = Administrators /\ Duplicates(mig.records) = {}
<1> DEFINE left == Changes(mig.records)
<1>1. /\ mig.pc = "users" /\ BookingsArePaused /\ UNCHANGED vars
      /\ appts' = appts /\ req' = req /\ users' = users /\ now' = now
      /\ mig \in MigType /\ now \in Nat /\ mig.outcome = "none"
  BY ConstantsAssumption
     DEF Plan, vars, MigrationInv, ScriptInv, KnowInv, Shape, TypeOK, Instants
<1>2. CASE mig' = NotRunning("refused")
  BY <1>1, <1>2, NotRunningType DEF ScriptInv
<1>3. CASE mig' = NotRunning("applied") /\ left = {} /\ Orphans(mig.records) = {}
  BY <1>1, <1>3, NotRunningType DEF ScriptInv
<1>4. CASE /\ mig' = [mig EXCEPT !.pc = "write", !.records = Null, !.since = now,
                                 !.admins = Administrators, !.keys = Planned, !.left = left]
           /\ Orphans(mig.records) = {} /\ Duplicates(mig.records) = {}
  <2>1. \A a \in Appts : KeyOf(mig.records[a]) \in Users \cup {Null}
    BY <1>1, PlannedKeys
  <2>2. /\ Planned \in [Appts -> Users \cup {Null}] /\ left \in SUBSET Appts
        /\ Administrators \in SUBSET Users
        /\ \A a \in Appts : Planned[a] = KeyOf(mig.records[a])
    BY <2>1 DEF Changes, Planned, Administrators
  <2> HIDE DEF left
  <2>3. /\ mig' \in MigType /\ mig'.pc = "write" /\ mig'.since = now /\ mig'.keys = Planned
        /\ mig'.left = left /\ mig'.outcome = "none" /\ mig'.admins = Administrators
    BY <1>1, <1>4, <2>2 DEF MigType
  <2>4. ASSUME NEW a \in left, Planned[a] # Null
        PROVE  Active(a) /\ Planned[a] = appts[a].client /\ StartsAt(appts[a].slot) > now
    BY <1>1, <2>2, <2>4, PlannedKeys
  <2>5. ASSUME NEW a \in Appts, Active(a), IsFuture(appts[a].slot, now),
               appts[a].client \notin Administrators
        PROVE  /\ Planned[a] = appts[a].client
               /\ a \notin left => appts[a].activeClientKey = appts[a].client
    BY <1>1, <1>4, <2>2, <2>5, PlanIsComplete DEF left
  <2>6. WritingInv'
    BY <1>1, <2>2, <2>3, <2>4, <2>5, DayLengthAssumption DEF WritingInv, Active, IsDue
  <2> QED
    BY <1>1, <1>4, <2>3, <2>6 DEF ScriptInv, BookingsArePaused, left
<1> QED
  BY <1>1, <1>2, <1>3, <1>4 DEF Plan, Planned

(* What the script writes: the key, and nothing else, of one reservation, or *)
(* nothing at all.                                                           *)
LEMMA WriteChangeWrites ==
    ASSUME MigrationInv, NEW a \in Appts, WriteChange(a)
    PROVE  /\ mig.pc = "write" /\ WritingInv /\ a \in mig.left /\ mig \in MigType /\ BookingsArePaused
           /\ now' = now /\ req' = req /\ todo' = todo /\ users' = users
           /\ \/ appts' = appts /\ mig' = NotRunning("conflict")
              \/ /\ appts' = [appts EXCEPT ![a] = [appts[a] EXCEPT !.activeClientKey = mig.keys[a]]]
                 /\ IF mig.left = {a} THEN mig' = NotRunning("applied")
                    ELSE mig' = [mig EXCEPT !.left = @ \ {a}]
  BY DEF WriteChange, IsNext, MigrationInv, ScriptInv, directory

LEMMA WriteChangeKeeps ==
    ASSUME MigrationInv, NEW a \in Appts, WriteChange(a), NEW b \in Appts
    PROVE  /\ appts'[b] \in ApptType
           /\ appts'[b].status = appts[b].status /\ appts'[b].client = appts[b].client
           /\ appts'[b].slot = appts[b].slot /\ appts'[b].slotKey = appts[b].slotKey
           /\ appts'[b].cancelledBy = appts[b].cancelledBy
           /\ appts'[b].cancelledAt = appts[b].cancelledAt
           /\ appts'[b].activeClientKey \in {appts[b].activeClientKey, mig.keys[b]}
           /\ b # a => appts'[b] = appts[b]
<1>1. /\ appts \in [Appts -> ApptType] /\ mig.keys[a] \in Users \cup {Null}
  BY WriteChangeWrites DEF MigrationInv, KnowInv, Shape, TypeOK, WritingInv
<1>2. \/ appts'[b] = appts[b]
      \/ b = a /\ appts'[b] = [appts[b] EXCEPT !.activeClientKey = mig.keys[b]]
  BY <1>1, WriteChangeWrites
<1> QED
  BY <1>1, <1>2 DEF ApptType

LEMMA WriteChangeKnows ==
    ASSUME MigrationInv, NEW a \in Appts, WriteChange(a)
    PROVE  KnowInv' /\ TodoInv'
<1>1. /\ Shape /\ WritingInv /\ a \in mig.left /\ KeysAreReleased
      /\ now' = now /\ req' = req /\ todo' = todo /\ UNCHANGED <<mail, links, users, barbers, agenda>>
  BY WriteChangeWrites DEF MigrationInv, KnowInv, WriteChange, directory
<1>2. appts' \in [Appts -> ApptType]
  <2>1. appts \in [Appts -> ApptType] /\ mig.keys[a] \in Users \cup {Null}
    BY <1>1 DEF Shape, TypeOK, WritingInv
  <2>2. [appts[a] EXCEPT !.activeClientKey = mig.keys[a]] \in ApptType
    BY <2>1 DEF ApptType
  <2> QED
    BY <2>1, <2>2, WriteChangeWrites
<1>3. Shape'
  BY <1>1, <1>2, WriteChangeKeeps DEF Shape, TypeOK, DocsOK
<1>4. ASSUME NEW p \in Requests PROVE Knows(req'[p], appts')
  <2>1. \A b \in Appts : Evolves(appts[b], appts'[b])
    BY WriteChangeKeeps DEF Evolves
  <2> QED
    BY <1>1, <2>1, KnowsOn, ShapeFacts DEF MigrationInv, KnowInv
<1>5. ASSUME NEW b \in Appts, appts'[b].activeClientKey # Null
      PROVE  appts'[b].status \in ActiveStatuses /\ appts'[b].activeClientKey = appts'[b].client
  <2>1. CASE appts'[b] = appts[b]
    BY <1>1, <1>5, <2>1 DEF KeysAreReleased, Active
  <2>2. CASE b = a /\ appts'[b].activeClientKey = mig.keys[a]
    BY <1>1, <1>5, <2>2, WriteChangeKeeps DEF WritingInv, Active
  <2>3. appts[b].activeClientKey = appts'[b].activeClientKey =>
            Active(b) /\ appts[b].activeClientKey = appts[b].client
    BY <1>1, <1>5 DEF KeysAreReleased
  <2> QED
    BY <2>1, <2>2, <2>3, WriteChangeKeeps DEF Active
<1>6. \A b \in Appts : appts'[b].status = "cancelled" => appts'[b].slotKey = Null
  BY <1>1, WriteChangeKeeps DEF KeysAreReleased
<1> QED
  BY <1>1, <1>3, <1>4, <1>5, <1>6 DEF MigrationInv, KnowInv, TodoInv, KeysAreReleased, Active

(* One change less is left; when it was the last, nothing is left undone. *)
LEMMA WriteChangeStep ==
    ASSUME MigrationInv, NEW a \in Appts, WriteChange(a)
    PROVE  /\ ScriptInv'
           /\ mig'.outcome = "applied" =>
                 \A b \in Appts : IsDue(b) => appts'[b].activeClientKey = appts[b].client
<1>1. /\ WritingInv /\ a \in mig.left /\ mig \in MigType /\ BookingsArePaused /\ mig.pc = "write"
      /\ now' = now /\ req' = req /\ mig.outcome = "none"
      /\ appts \in [Appts -> ApptType]
  BY WriteChangeWrites DEF MigrationInv, ScriptInv, KnowInv, Shape, TypeOK
<1>2. CASE mig' = NotRunning("conflict")
  BY <1>2, NotRunningType DEF ScriptInv
<1>3. ASSUME appts' = [appts EXCEPT ![a] = [appts[a] EXCEPT !.activeClientKey = mig.keys[a]]],
             NEW b \in Appts, IsDue(b), b \notin mig.left \ {a}
      PROVE  appts'[b].activeClientKey = appts[b].client
  <2>1. mig.keys[b] = appts[b].client /\ (b \notin mig.left => appts[b].activeClientKey = appts[b].client)
    BY <1>1, <1>3 DEF WritingInv
  <2>2. CASE b = a
    BY <1>1, <1>3, <2>1, <2>2 DEF ApptType
  <2>3. CASE b # a
    BY <1>1, <1>3, <2>1, <2>3
  <2> QED
    BY <2>2, <2>3
<1>4. CASE /\ appts' = [appts EXCEPT ![a] = [appts[a] EXCEPT !.activeClientKey = mig.keys[a]]]
           /\ mig.left = {a} /\ mig' = NotRunning("applied")
  BY <1>3, <1>4, NotRunningType DEF ScriptInv
<1>5. CASE /\ appts' = [appts EXCEPT ![a] = [appts[a] EXCEPT !.activeClientKey = mig.keys[a]]]
           /\ mig' = [mig EXCEPT !.left = @ \ {a}]
  <2>1. /\ mig' \in MigType /\ mig'.pc = "write" /\ mig'.left = mig.left \ {a} /\ mig'.keys = mig.keys
        /\ mig'.since = mig.since /\ mig'.outcome = "none" /\ mig'.admins = mig.admins
    BY <1>1, <1>5 DEF MigType
  <2>2. ASSUME NEW b \in mig'.left, mig.keys[b] # Null
        PROVE  appts'[b].status \in ActiveStatuses /\ mig.keys[b] = appts'[b].client
               /\ StartsAt(appts'[b].slot) > mig.since
    <3>1. b \in Appts /\ b \in mig.left
      BY <1>1, <2>1, <2>2 DEF WritingInv
    <3> QED
      BY <1>1, <2>2, <3>1, WriteChangeKeeps DEF WritingInv, Active
  <2>3. ASSUME NEW b \in Appts, IsDue(b)'
        PROVE  /\ mig.keys[b] = appts'[b].client
               /\ b \notin mig'.left => appts'[b].activeClientKey = appts'[b].client
    <3>1. appts'[b].client = appts[b].client /\ IsDue(b)
      BY <1>1, <2>1, <2>3, WriteChangeKeeps DEF IsDue, Active
    <3>2. mig.keys[b] = appts[b].client
      BY <1>1, <3>1 DEF WritingInv
    <3> QED
      BY <1>3, <1>5, <2>1, <3>1, <3>2
  <2>4. WritingInv'
    BY <1>1, <2>1, <2>2, <2>3 DEF WritingInv, Active
  <2> QED
    BY <1>1, <2>1, <2>4 DEF ScriptInv, BookingsArePaused
<1> QED
  BY <1>2, <1>4, <1>5, NotRunningType, WriteChangeWrites

-------------------------------------------------------------------------------
\* The program and the script together

LEMMA BetweenRuns ==
    ASSUME MigrationInv, [MigrationNext]_<<vars, history, mig>>, ~(\E a \in Appts : WriteChange(a))
    PROVE  [Next]_vars /\ KnowInv' /\ TodoInv'
<1>1. [Next]_vars
  BY MeanwhileIsAStep DEF MigrationNext, MigrationStep, Migrate, ReadRecords, Plan, Stop
<1> QED
  BY <1>1, NextKnowInv, NextTodoInv DEF MigrationInv, KnowInv

LEMMA StopStep == ASSUME MigrationInv, Stop PROVE ScriptInv'
  BY NotRunningType DEF Stop, ScriptInv

LEMMA MigrationInvStep ==
    ASSUME MigrationInv, [MigrationNext]_<<vars, history, mig>>
    PROVE  MigrationInv'
<1>1. ASSUME NEW a \in Appts, WriteChange(a) PROVE MigrationInv'
  BY <1>1, WriteChangeKnows, WriteChangeStep DEF MigrationInv
<1>2. ASSUME ~(\E a \in Appts : WriteChange(a)) PROVE ScriptInv'
  <2>1. CASE Migrate
    BY <1>2, <2>1, ReadRecordsStep, PlanStep, StopStep DEF Migrate
  <2>2. CASE mig.pc = "idle" /\ mig' = mig
    BY <2>2 DEF MigrationInv, ScriptInv
  <2>3. CASE Meanwhile /\ UNCHANGED mig
    BY <2>3, ScriptWaits
  <2>4. CASE UNCHANGED <<vars, history, mig>>
    BY <2>4 DEF vars, MigrationInv, ScriptInv, BookingsArePaused, RecordsInv, SameOrDone, WritingInv, IsDue, Active
  <2> QED
    BY <2>1, <2>2, <2>3, <2>4 DEF MigrationNext, MigrationStep
<1> QED
  BY <1>1, <1>2, BetweenRuns DEF MigrationInv

LEMMA MigrationInvariant == MigrationSpec => []MigrationInv
  BY StartsMigrationInv, MigrationInvStep, PTL DEF MigrationSpec

(* Whatever the script finds, however often it is run and wherever it stops, *)
(* no client's key outlives its reservation, and a cancelled reservation     *)
(* protects no slot: the script gives no key to a reservation that is over,  *)
(* or that the job closes before the key is written.                         *)
THEOREM MigratedKeysAreReleased == MigrationSpec => []KeysAreReleased
<1>1. MigrationInv => KeysAreReleased
  BY DEF MigrationInv, KnowInv
<1> QED
  BY <1>1, MigrationInvariant, PTL

LEMMA ProtectedIsDue ==
    ASSUME MigrationInv, NEW a \in Appts, Protected(a)
    PROVE  IsDue(a) /\ appts[a].client \notin Administrators
  BY DEF Protected, IsDue, Administrators

(* When the script reports that it was applied, every reservation of a       *)
(* client that is still ahead holds the client's key, although the job went  *)
(* on, the clock advanced and administrators changed roles and accounts      *)
(* between the diagnosis and the last write, and whatever earlier runs that  *)
(* stopped half way had written.                                             *)
THEOREM AppliedProtectsAll == MigrationSpec => AppliedIsComplete
<1>1. ASSUME MigrationInv, MigrationNext, mig.outcome # "applied", mig'.outcome = "applied",
             NEW a \in Appts, Protected(a)
      PROVE  appts'[a].activeClientKey = appts[a].client
  <2>1. CASE Plan
    <3>1. /\ Changes(mig.records) = {} /\ Orphans(mig.records) = {} /\ mig.pc = "users"
          /\ appts' = appts
      BY <1>1, <2>1, PlanStep DEF vars
    <3> QED
      BY <1>1, <3>1, ProtectedIsDue, PlanIsComplete DEF IsDue
  <2>2. ASSUME NEW b \in Appts, WriteChange(b) PROVE appts'[a].activeClientKey = appts[a].client
    BY <1>1, <2>2, WriteChangeStep, ProtectedIsDue
  <2>3. ASSUME ReadRecords PROVE FALSE
    <3>1. mig' = [NotRunning("none") EXCEPT !.pc = "users", !.records = appts]
      BY <2>3 DEF ReadRecords
    <3>2. mig'.outcome = "none"
      BY <3>1 DEF NotRunning
    <3> QED
      BY <1>1, <3>2
  <2>4. ASSUME Stop PROVE FALSE
    BY <1>1, <2>4, NotRunningType DEF Stop
  <2> QED
    BY <1>1, <2>1, <2>2, <2>3, <2>4 DEF MigrationNext, MigrationStep, Migrate
<1>2. ASSUME MigrationInv, [MigrationNext]_<<vars, history, mig>>
      PROVE  [mig.outcome # "applied" /\ mig'.outcome = "applied" =>
                \A a \in Appts : Protected(a) => appts'[a].activeClientKey = appts[a].client
             ]_<<vars, history, mig>>
  BY <1>1, <1>2
<1> QED
  BY <1>2, MigrationInvariant, PTL DEF MigrationSpec, AppliedIsComplete

(* No step of the script, of a run that is applied, stops or is refused,     *)
(* takes the key away from a reservation that is still ahead, also of a      *)
(* client who became an administrator and ceased to be one since the script  *)
(* read the users.                                                           *)
THEOREM ScriptKeepsProtection == MigrationSpec => NothingIsUnprotected
<1>1. ASSUME MigrationInv, MigrationNext, mig' # mig, NEW a \in Appts, Protected(a),
             appts[a].activeClientKey # Null
      PROVE  appts'[a].activeClientKey = appts[a].activeClientKey
  <2>1. ASSUME NEW b \in Appts, WriteChange(b)
        PROVE  appts'[a].activeClientKey = appts[a].activeClientKey
    <3>1. mig.keys[a] = appts[a].client
      BY <1>1, <2>1, WriteChangeWrites, ProtectedIsDue DEF WritingInv
    <3>2. appts[a].activeClientKey = appts[a].client
      BY <1>1 DEF MigrationInv, KnowInv, KeysAreReleased
    <3> QED
      BY <1>1, <2>1, <3>1, <3>2, WriteChangeKeeps
  <2>2. CASE ReadRecords \/ Plan \/ Stop
    BY <2>2 DEF ReadRecords, Plan, Stop, vars
  <2> QED
    BY <1>1, <2>1, <2>2 DEF MigrationNext, MigrationStep, Migrate
<1>2. ASSUME MigrationInv, [MigrationNext]_<<vars, history, mig>>
      PROVE  [mig' # mig =>
                \A a \in Appts : Protected(a) /\ appts[a].activeClientKey # Null =>
                    appts'[a].activeClientKey = appts[a].activeClientKey
             ]_<<vars, history, mig>>
  BY <1>1, <1>2
<1> QED
  BY <1>2, MigrationInvariant, PTL DEF MigrationSpec, NothingIsUnprotected

-------------------------------------------------------------------------------
\* What the program guarantees of the keys of a client who is regular: either
\* no reservation holds the client's key, or all that are still ahead do.

\* A reservation that was written is one that was made.
StaleInv == stale \subseteq Appts /\ \A a \in stale : appts[a].status # "absent"

AllOrNone ==
    \A a, b \in Appts :
        Regular(appts[a].client) /\ Ahead(a) /\ appts[b].activeClientKey = appts[a].client =>
            appts[a].activeClientKey = appts[a].client

\* A handler that is going to take its client's key, unless something intervenes
Takes(r) ==
    \/ r.op = "update" /\ r.pc = "write" /\ r.takesKey
    \/ r.op = "create" /\ r.pc \in {"barber", "schedule", "slot"} /\ ~r.admin
    \/ r.op = "create" /\ r.pc = "save" /\ r.takesKey

\* A handler, r, that takes the key has found no other reservation of the client
\* that is still ahead, and those made since then hold the key.
KnowsOthers(r) ==
    /\ r.op = "create" /\ r.pc \notin {"email", "whatsapp"} => r.appt = Null
    /\ r.op = "update" /\ r.pc \notin {"write", "mail"} => ~r.takesKey
    /\ Takes(r) /\ Regular(r.client) =>
           \A b \in Appts \ {r.appt} :
               Ahead(b) /\ appts[b].client = r.client => appts[b].activeClientKey = r.client

OwnInv ==
    /\ SlotsInv /\ KnowsKeysInv
    /\ StaleInv /\ AllOrNone
    /\ \A p \in Requests : KnowsOthers(req[p])

LEMMA StaleKept ==
    ASSUME StaleInv, \A a \in Appts : Evolves(appts[a], appts'[a]), stale' = stale
    PROVE  StaleInv'
  BY DEF StaleInv, Evolves, Legal

LEMMA StaleInvStep ==
    ASSUME SlotsInv, StaleInv, [Next]_vars, Recalls
    PROVE  StaleInv'
<1>1. \A a \in Appts : Evolves(appts[a], appts'[a])
  BY EvolvesStep DEF SlotsInv
<1>2. CASE stale' = stale
  BY <1>1, <1>2, StaleKept
<1>3. CASE stale' = stale \cup {a \in Appts : \E p \in overtaken : Writes(p, a)}
  <2>1. ASSUME NEW a \in Appts, NEW p \in Requests, Writes(p, a)
        PROVE  appts[a].status # "absent"
    <3>1. HandlerOK(req[p]) /\ Knows(req[p], appts)
      BY DEF SlotsInv, KnowInv, Shape
    <3> QED
      BY <2>1, <3>1 DEF Writes, HandlerOK, Knows
  <2>2. \A a \in Appts : appts[a].status # "absent" => appts'[a].status # "absent"
    BY <1>1 DEF Evolves, Legal
  <2> QED
    BY <1>3, <2>1, <2>2 DEF StaleInv, SlotsInv
<1> QED
  BY <1>2, <1>3 DEF Recalls, Remember, history

(* A client who is regular was regular before. *)
LEMMA RegularBefore ==
    ASSUME SlotsInv, StaleInv, [Next]_vars, Recalls, NEW c, Regular(c)'
    PROVE  Regular(c)
<1>1. ASSUME NEW a \in stale PROVE appts[a].client # c
  <2>1. a \in stale' /\ a \in Appts /\ appts[a].status # "absent"
    BY <1>1, Recalled DEF StaleInv
  <2>2. appts'[a].client = appts[a].client
    BY <2>1, EvolvesStep DEF Evolves, SlotsInv
  <2> QED
    BY <2>1, <2>2 DEF Regular
<1> QED
  BY <1>1, Recalled DEF Regular

(* A reservation that is ahead holds the client's key, or is as it was. *)
LEMMA AheadStep ==
    ASSUME OwnInv, [Next]_vars, Recalls, NEW a \in Appts \ stale', Ahead(a)'
    PROVE  \/ appts'[a].activeClientKey = appts'[a].client
           \/ /\ Ahead(a) /\ appts[a].client = appts'[a].client
              /\ appts[a].activeClientKey = appts'[a].activeClientKey
<1> DEFINE doc == appts[a]
           new == appts'[a]
<1>1. /\ SlotsInv /\ KnowsKeysInv /\ Shape /\ Shape' /\ doc \in ApptType
      /\ now \in Nat /\ now' \in Nat /\ now <= now'
      /\ new.status \in ActiveStatuses /\ new.client \notin been' /\ IsFuture(new.slot, now')
  BY NextShape, ClockAdvances DEF OwnInv, SlotsInv, KnowInv, Shape, TypeOK, Ahead, Active
<1>2. IsFuture(new.slot, now)
  <2>1. new.slot \in Slots
    BY <1>1 DEF Shape, DocsOK, ActiveStatuses
  <2> QED
    BY <1>1, <2>1, FutureFades
<1>3. doc.status = new.status /\ doc.slot = new.slot /\ doc.client = new.client => Ahead(a)
  BY <1>1, <1>2, Recalled DEF Ahead, Active
<1>4. CASE new = doc
  BY <1>3, <1>4
<1>5. CASE IsArchived(a)
  BY <1>1, <1>3, <1>5 DEF IsArchived, ApptType
<1>6. CASE IsReleased(a)
  <2>1. PICK c \in Users : new = Released(doc, c)
    BY <1>6 DEF IsReleased
  <2>2. doc.status = new.status /\ doc.slot = new.slot /\ doc.client = new.client
    BY <1>1, <2>1 DEF Released, ApptType
  <2>3. Occupies(doc.slot, doc.status, now)
    BY <1>1, <1>2, <2>2 DEF Occupies
  <2>4. new = doc
    BY <2>1, <2>3 DEF Released
  <2> QED
    BY <1>4, <2>4
<1>7. CASE IsSaved(a)
  <2>1. PICK p \in Requests : req[p].pc = "save" /\ new = NewAppt(req[p])
    BY <1>7 DEF IsSaved
  <2>2. /\ new.slot = req[p].slot /\ new.client = req[p].client
        /\ new.activeClientKey = IF req[p].takesKey THEN req[p].client ELSE Null
    BY <2>1 DEF NewAppt, NoAppt
  <2>3. KnowsKey(req[p], now, been) /\ req[p].op = "create"
    BY <1>1, <2>1, ShapeFacts DEF KnowsKeysInv, HandlerOK
  <2> QED
    BY <1>1, <1>2, <2>1, <2>2, <2>3, Recalled DEF KnowsKey
<1>8. CASE IsWritten(a) /\ new # doc
  <2>1. PICK p \in Requests :
            /\ req[p].pc = "write"
            /\ new.status = NewStatus(req[p].seen, req[p].dto)
            /\ new.slot = req[p].slot /\ new.client = req[p].client
            /\ new.activeClientKey = IF req[p].takesKey THEN req[p].client ELSE Null
    BY <1>1, <1>8, WritesWhatItChecked
  <2>2. KnowsKey(req[p], now, been)
    BY <1>1 DEF KnowsKeysInv
  <2> QED
    BY <1>1, <1>2, <2>1, <2>2, Recalled DEF KnowsKey, Occupies
<1>9. ~IsCompleted(a)
  BY <1>1, CompletedType DEF IsCompleted, ActiveStatuses
<1> QED
  BY <1>1, <1>4, <1>5, <1>6, <1>7, <1>8, <1>9, DocStep

(* A handler that leaves the check of the client's reservations and goes on *)
(* has found none.                                                          *)
LEMMA ActiveIsChecked ==
    ASSUME Shape, [Next]_vars, NEW p \in Requests, req[p].pc = "active",
           req'[p] # req[p], req'[p] # Idle
    PROVE  ~HasActive(req[p].client, req[p].appt)
<1>0. req \in [Requests -> RequestType]
  BY DEF Shape, TypeOK
<1>1. ASSUME NEW q \in Requests, Create(q) PROVE FALSE
  <2>1. q = p
    BY <1>1, CreateMoves
  <2> QED
    BY <1>1, <2>1 DEF Create, StartCreate, Save, EmailPending, Notify
<1>2. ASSUME NEW q \in Requests, Update(q) PROVE FALSE
  <2>1. q = p
    BY <1>2, UpdateMoves
  <2> QED
    BY <1>2, <2>1 DEF Update, StartPatch, StartCancelMine, StartLink, Load, ReadClient, Write, Mail
<1>3. ASSUME NEW q \in Requests, Shared(q) PROVE CheckActive(p)
  <2>1. q = p
    BY <1>3, SharedMoves
  <2> QED
    BY <1>3, <2>1 DEF Shared, ReleaseKeys, ReadBarber, ReadSchedule, CheckSlot
<1>4. ASSUME NEW q \in Requests, Archiving(q) \/ Abandon(q) PROVE FALSE
  <2>1. PICK s : Become(q, s) /\ (q = p => s = Idle)
    BY <1>4 DEF Archiving, StartArchive, Archive, Abandon, Finish
  <2> QED
    BY <2>1, OneMoves
<1>5. ~(Job \/ Directory \/ Tick \/ UNCHANGED vars)
  BY DEF Job, JobFind, JobWrite, JobFail, Directory, People, ChangeRole, SetBookingAccess,
         RemoveUser, AddUser, AddBarber, SetBarber, EditSchedule, Tick, vars
<1>6. ~Restart
  BY DEF Restart
<1>7. CheckActive(p)
  BY <1>1, <1>2, <1>3, <1>4, <1>5, <1>6 DEF Next
<1>8. CASE HasActive(req[p].client, req[p].appt)
  <2>1. Become(p, Idle)
    BY <1>7, <1>8 DEF CheckActive, Finish
  <2> QED
    BY <2>1, OneMoves
<1> QED
  BY <1>8

(* What a handler knows of the client's reservations stays true. *)
LEMMA KnowsOthersOn ==
    ASSUME OwnInv, [Next]_vars, Recalls,
           NEW q \in Requests, NEW r \in RequestType, req'[q] = r, KnowsOthers(r)
    PROVE  KnowsOthers(req[q])'
<1>1. ASSUME Takes(r), Regular(r.client)', NEW b \in Appts \ {r.appt}, Ahead(b)', appts'[b].client = r.client
      PROVE  appts'[b].activeClientKey = r.client
  <2>1. b \notin stale' /\ Regular(r.client)
    BY <1>1, RegularBefore DEF Regular, OwnInv
  <2> QED
    BY <1>1, <2>1, AheadStep DEF KnowsOthers
<1> QED
  BY <1>1 DEF KnowsOthers, Takes

(* What a handler has found of the client's reservations when it goes on *)
LEMMA NoneAhead ==
    ASSUME Shape, [Next]_vars, NEW q \in Requests, req[q].pc = "active",
           req'[q] # req[q], req'[q] # Idle
    PROVE  \A b \in Appts \ {req[q].appt} : ~(Ahead(b) /\ appts[b].client = req[q].client)
  BY ActiveIsChecked DEF HasActive, Ahead

LEMMA KnowsOthersStep ==
    ASSUME OwnInv, [Next]_vars, Recalls, NEW q \in Requests
    PROVE  KnowsOthers(req[q])'
<1> DEFINE r == req[q]
           s == req'[q]
<1>1. /\ Shape /\ r \in RequestType /\ HandlerOK(r) /\ KnowsOthers(r) /\ Knows(r, appts) /\ Moves(q)
      /\ s \in RequestType /\ HandlerOK(s)
  BY NextShape, HandlerMoves DEF OwnInv, SlotsInv, KnowInv, Shape, TypeOK
<1> SUFFICES KnowsOthers(s)
  BY <1>1, KnowsOthersOn
<1>2. CASE s = r \/ s = Idle \/ Archives(q) \/ Asks(q)
  <2>1. Archives(q) => s.op = "archive" /\ s.pc = "archive"
    BY IdleFacts DEF Archives, RequestType
  <2>2. Asks(q) => s.op = "update" /\ s.pc = "load" /\ ~s.takesKey
    BY IdleFacts DEF Asks, UpdateRequest, Idle
  <2> QED
    BY <1>1, <1>2, <2>1, <2>2, IdleFacts DEF KnowsOthers, Takes
<1>3. CASE Saves(q) \/ Announces(q)
  <2>1. Saves(q) => s.op = "create" /\ s.pc = "email"
    BY <1>1, AfterWriting
  <2>2. Announces(q) => s.pc = "mail" /\ s.op = "update"
    BY <1>1, AfterWriting DEF RequestType, Announces, HandlerOK
  <2> QED
    BY <1>3, <2>1, <2>2 DEF KnowsOthers, Takes
<1>4. CASE Starts(q)
  <2>1. PICK c \in Users, slot \in Slots :
            s = [Idle EXCEPT !.op = "create", !.client = c, !.slot = slot,
                             !.admin = (users[c].role = "admin"),
                             !.pc = IF users[c].role = "admin" THEN "barber" ELSE "release"]
    BY <1>4 DEF Starts
  <2>2. /\ s.op = "create" /\ s.appt = Null
        /\ s.pc = (IF users[c].role = "admin" THEN "barber" ELSE "release")
        /\ s.admin = (users[c].role = "admin")
    BY <2>1, IdleFacts DEF RequestType, Idle
  <2> QED
    BY <2>2 DEF KnowsOthers, Takes
<1>5. CASE Reads(q)
  <2>1. PICK u \in RequestType :
            /\ u.op = "update" /\ u.pc = "load" /\ s = Loaded(u, appts[u.appt])
            /\ u = r \/ \E a \in Appts, dto \in Dtos : u = UpdateRequest(a, dto, "admin")
    BY <1>5 DEF Reads
  <2>2. ~u.takesKey
    BY <1>1, <2>1 DEF Knows, UpdateRequest, Idle
  <2>3. s.op = "update" /\ ~s.takesKey
    BY <2>1, <2>2 DEF Loaded, SlotIsFree, RequestType
  <2> QED
    BY <2>3 DEF KnowsOthers, Takes
<1>6. CASE Frees(q)
  <2>1. CASE r.op = "create"
    <3> DEFINE k == ~r.admin /\ Occupies(r.slot, "pending", now)
    <3>1. r.pc \in {"schedule", "slot"} /\ s = [r EXCEPT !.pc = "save", !.takesKey = k]
      BY <1>6, <2>1 DEF Frees, SlotIsFree
    <3>3. k => ~r.admin
      OBVIOUS
    <3> HIDE DEF k
    <3>4. /\ s.pc = "save" /\ s.takesKey = k /\ s.op = "create" /\ s.admin = r.admin
          /\ s.client = r.client /\ s.slot = r.slot /\ s.appt = r.appt
      BY <2>1, <3>1 DEF RequestType
    <3> QED
      BY <1>1, <2>1, <3>1, <3>3, <3>4 DEF KnowsOthers, Takes
  <2>2. CASE r.op = "update"
    <3>1. s.op = "update" /\ s.takesKey = r.takesKey /\ r.pc \notin {"write", "mail"}
      BY <1>1, <1>6, <2>2 DEF Frees, SlotIsFree, RequestType
    <3> HIDE DEF s
    <3> QED
      BY <1>1, <2>2, <3>1 DEF KnowsOthers, Takes
  <2> QED
    BY <1>1, <1>6, <2>1, <2>2 DEF Frees, HandlerOK
<1>7. CASE Consults(q)
  <2>1. s.op = "update" /\ s.takesKey = r.takesKey /\ r.op = "update" /\ r.pc = "client"
    BY <1>1, <1>7 DEF Consults, Passes, RequestType, HandlerOK
  <2> QED
    BY <1>1, <2>1 DEF KnowsOthers, Takes
<1>8. CASE TakesKey(q)
  <2>1. /\ s.op = "update" /\ s.pc = "write" /\ s.takesKey /\ s.client = r.client /\ s.appt = r.appt
        /\ r.pc = "active"
    BY <1>1, <1>8 DEF TakesKey, RequestType
  <2> QED
    BY <1>1, <2>1, NoneAhead, IdleFacts DEF KnowsOthers, Takes
<1>9. CASE Passes(q, "active", "barber") /\ r.op = "create"
  <2>1. /\ s.op = "create" /\ s.pc = "barber" /\ s.client = r.client /\ s.appt = r.appt
        /\ s.admin = r.admin /\ r.pc = "active"
    BY <1>1, <1>9 DEF Passes, RequestType
  <2> QED
    BY <1>1, <1>9, <2>1, NoneAhead, IdleFacts DEF KnowsOthers, Takes
<1>10. CASE Proceeds(q) /\ ~(Passes(q, "active", "barber") /\ r.op = "create")
  <2>1. /\ s.op = r.op /\ s.admin = r.admin /\ s.client = r.client /\ s.appt = r.appt
        /\ s.takesKey = r.takesKey
        /\ \/ r.pc = "release" /\ s.pc = "active"
           \/ r.pc = "barber" /\ s.pc = "schedule"
           \/ r.pc = "schedule" /\ s.pc = "slot"
           \/ r.pc = "email" /\ s.pc = "whatsapp"
    BY <1>1, <1>10 DEF Proceeds, Passes, RequestType
  <2>2. r.pc = "email" => r.op = "create"
    BY <1>1 DEF HandlerOK
  <2> HIDE DEF s
  <2> QED
    BY <1>1, <2>1, <2>2 DEF KnowsOthers, Takes
<1> QED
  BY <1>1, <1>2, <1>3, <1>4, <1>5, <1>6, <1>7, <1>8, <1>9, <1>10 DEF Moves

(* The key of a client is not taken while another reservation of the client *)
(* lies ahead without it.                                                   *)
LEMMA AllOrNoneStep ==
    ASSUME OwnInv, [Next]_vars, Recalls
    PROVE  AllOrNone'
<1> SUFFICES ASSUME NEW a \in Appts, NEW b \in Appts, Regular(appts[a].client)', Ahead(a)',
                    appts'[b].activeClientKey = appts'[a].client,
                    appts'[a].activeClientKey # appts'[a].client
             PROVE  FALSE
  BY DEF AllOrNone
<1> DEFINE c == appts'[a].client
<1>1. /\ Ahead(a) /\ appts[a].client = c /\ appts[a].activeClientKey = appts'[a].activeClientKey
      /\ Regular(c)
  <2>1. a \notin stale'
    BY DEF Regular
  <2> QED
    BY <2>1, AheadStep, RegularBefore DEF OwnInv
<1>2. /\ KnowInv /\ Shape /\ c \in Users /\ appts[a].activeClientKey # c /\ a # b
      /\ appts[b] \in ApptType
  BY <1>1, ActiveFacts DEF OwnInv, SlotsInv, KnowInv, Ahead, Shape, TypeOK
<1>3. appts[b].activeClientKey # c
  BY <1>1, <1>2 DEF OwnInv, AllOrNone
<1>4. c # Null
  BY <1>2, NullFacts
<1>5. CASE IsReleased(b) \/ IsArchived(b) \/ IsCompleted(b)
  <2>1. appts'[b].activeClientKey \in {Null, appts[b].activeClientKey}
    BY <1>2, <1>5 DEF IsReleased, Released, IsArchived, IsCompleted, Completed, ApptType
  <2> QED
    BY <1>3, <1>4, <2>1
<1>6. ASSUME NEW p \in Requests, Takes(req[p]), req[p].client = c, req[p].appt # a
      PROVE  FALSE
  BY <1>1, <1>2, <1>6 DEF OwnInv, KnowsOthers
<1>7. CASE IsSaved(b)
  <2>1. PICK p \in Requests : req[p].pc = "save" /\ appts'[b] = NewAppt(req[p])
    BY <1>7 DEF IsSaved
  <2>2. appts'[b].activeClientKey = IF req[p].takesKey THEN req[p].client ELSE Null
    BY <2>1 DEF NewAppt, NoAppt
  <2>3. req[p].op = "create" /\ req[p].appt = Null
    BY <1>2, <2>1, ShapeFacts DEF OwnInv, KnowsOthers, HandlerOK
  <2> QED
    BY <1>4, <1>6, <2>1, <2>2, <2>3, NullFacts DEF Takes
<1>8. CASE IsWritten(b)
  <2>1. PICK p \in Requests :
            req[p].pc = "write" /\ req[p].appt = b /\ appts'[b] = Updated(req[p], appts[b])
    BY <1>8 DEF IsWritten
  <2>2. appts'[b].activeClientKey = IF req[p].takesKey THEN req[p].client ELSE Null
    BY <1>2, <2>1 DEF Updated, ApptType
  <2>3. req[p].op = "update"
    BY <1>2, <2>1, ShapeFacts DEF HandlerOK
  <2> QED
    BY <1>2, <1>4, <1>6, <2>1, <2>2, <2>3 DEF Takes
<1> QED
  BY <1>2, <1>3, <1>5, <1>7, <1>8, DocStep

LEMMA OwnInvStep ==
    ASSUME OwnInv, [Next]_vars, Recalls
    PROVE  OwnInv'
<1>1. SlotsInv /\ KnowInv /\ KnowsKeysInv /\ StaleInv
  BY DEF OwnInv, SlotsInv
<1>2. SlotsInv' /\ StaleInv'
  BY <1>1, NextSlotsInv, StaleInvStep
<1>3. KnowsKeysInv'
  BY <1>1, AdminsStep, KnowsKeyStep DEF KnowsKeysInv
<1> QED
  BY <1>2, <1>3, AllOrNoneStep, KnowsOthersStep DEF OwnInv

-------------------------------------------------------------------------------
\* Only clients who are not regular keep the script from writing.

\* No two reservations are to get the same key, and nobody else holds the key of
\* a regular client that is left to write.
PlannedInv ==
    mig.pc = "write" =>
        \A a, b \in Appts : a # b /\ mig.keys[a] # Null =>
            /\ mig.keys[b] # mig.keys[a]
            /\ a \in mig.left /\ Regular(mig.keys[a]) => appts[b].activeClientKey # mig.keys[a]

ConflictFreeInv == MigrationInv /\ OwnInv /\ PlannedInv /\ mig.admins \subseteq been

LEMMA StartsConflictFree == MigrationInit => ConflictFreeInv
<1> SUFFICES ASSUME MigrationInit PROVE ConflictFreeInv
  OBVIOUS
<1>1. PICK old \in Legacy : Opening(old)
  BY DEF MigrationInit
<1>2. /\ appts = old
      /\ \A a \in Appts :
            /\ appts[a].status # "absent" => appts[a].slot \in Slots /\ appts[a].client \in Users
            /\ appts[a].activeClientKey = Null
            /\ appts[a].slotKey = IF Held(a) THEN appts[a].slot ELSE Null
            /\ \A b \in Appts \ {a} : appts[a].slotKey # Null => appts[a].slotKey # appts[b].slotKey
  BY <1>1, MigrationAssumption DEF Opening, Held
<1>3. MigrationInv /\ KnowInv /\ Shape
  BY StartsMigrationInv DEF MigrationInv, KnowInv
<1>4. /\ \A p \in Requests : req[p] = Idle
      /\ overtaken = {} /\ stale = {} /\ been = Admins /\ mig = NotRunning("none")
      /\ users = [c \in Users |-> [role |-> IF c \in Admins THEN "admin" ELSE "user", blocked |-> FALSE]]
  BY <1>1 DEF Opening, MigrationInit, HistoryInit
<1>5. SlotsInv
  BY <1>2, <1>3, <1>4, IdleFacts
     DEF SlotsInv, TargetsInv, Updating, KeysAreUnique, ClientKeysAreUnique, KeyedAsShown, Fresh
<1>6. AllOrNone
  BY <1>2, <1>3, ActiveFacts, NullFacts DEF AllOrNone, Ahead
<1>7. \A p \in Requests : KnowsOthers(req[p]) /\ KnowsKey(req[p], now, been)
  BY <1>4, IdleFacts DEF KnowsOthers, Takes, KnowsKey
<1>8. AdminsAreKnown
  BY <1>4 DEF AdminsAreKnown
<1>9. PlannedInv /\ mig.admins \subseteq been /\ StaleInv
  BY <1>4 DEF NotRunning, PlannedInv, StaleInv
<1> QED
  BY <1>3, <1>5, <1>6, <1>7, <1>8, <1>9 DEF ConflictFreeInv, OwnInv, KnowsKeysInv

LEMMA PlanIsConflictFree ==
    ASSUME ConflictFreeInv, Plan, Recalls, OwnInv'
    PROVE  PlannedInv' /\ mig'.admins \subseteq been'
<1>1. /\ mig.pc = "users" /\ MigrationInv /\ OwnInv /\ AllOrNone /\ appts' = appts
      /\ SlotsInv /\ StaleInv /\ been \subseteq been'
  BY Recalled DEF Plan, ConflictFreeInv, OwnInv, vars
<1>2. CASE mig'.pc # "write"
  <2>1. mig' = NotRunning("refused") \/ mig' = NotRunning("applied")
    BY <1>1, <1>2, PlanStep DEF Plan, MigrationInv, ScriptInv, MigType
  <2> QED
    BY <1>2, <2>1 DEF PlannedInv, NotRunning
<1>3. CASE mig'.pc = "write"
  <2>1. /\ mig'.keys = Planned /\ mig'.left = Changes(mig.records) /\ mig'.admins = Administrators
        /\ Duplicates(mig.records) = {} /\ UNCHANGED vars
        /\ \A a \in Appts : Planned[a] = KeyOf(mig.records[a])
    BY <1>1, <1>3, PlanStep DEF Planned
  <2>2. ASSUME NEW a \in Appts, NEW b \in Appts \ {a}, Planned[a] # Null
        PROVE  Planned[b] # Planned[a]
    BY <2>1, <2>2 DEF Duplicates
  <2>3. ASSUME NEW a \in Changes(mig.records), NEW b \in Appts \ {a}, Planned[a] # Null,
               Planned[a] \notin been', \A x \in stale' : appts'[x].client # Planned[a]
        PROVE  appts[b].activeClientKey # Planned[a]
    <3>1. a \in Appts /\ mig.records[a].activeClientKey # Planned[a]
      BY <2>1, <2>3 DEF Changes
    <3>2. /\ Active(a) /\ IsFuture(appts[a].slot, now) /\ Planned[a] = appts[a].client
          /\ mig.records[a] = appts[a]
      BY <1>1, <2>1, <2>3, <3>1, PlannedKeys
    <3>3. Regular(appts[a].client)
      <4>1. \A c : Regular(c)' => Regular(c)
        BY <1>1, <2>1, RegularBefore DEF ConflictFreeInv
      <4> QED
        BY <2>3, <3>2, <4>1 DEF Regular
    <3>4. Ahead(a)
      BY <3>2, <3>3 DEF Ahead, Regular
    <3> QED
      BY <1>1, <2>3, <3>1, <3>2, <3>3, <3>4 DEF AllOrNone
  <2>4. Administrators \subseteq been
    BY DEF ConflictFreeInv, OwnInv, KnowsKeysInv, AdminsAreKnown, Administrators
  <2> QED
    <3>1. PlannedInv'
      <4> SUFFICES ASSUME NEW a \in Appts, NEW b \in Appts \ {a}, mig'.keys[a] # Null
                   PROVE  /\ mig'.keys[b] # mig'.keys[a]
                          /\ a \in mig'.left /\ Regular(mig.keys[a])' => appts'[b].activeClientKey # mig'.keys[a]
        BY DEF PlannedInv
      <4> QED
        BY <1>1, <2>1, <2>2, <2>3 DEF Regular
    <3> QED
      BY <1>1, <2>1, <2>4, <3>1
<1> QED
  BY <1>2, <1>3

(* A key that the index refuses is that of a client who is not regular. *)
LEMMA ConflictIsIrregular ==
    ASSUME ConflictFreeInv, NEW a \in Appts, WriteChange(a),
           Duplicate(a, [appts[a] EXCEPT !.activeClientKey = mig.keys[a]])
    PROVE  IsNext(a) /\ ~Regular(appts[a].client)
<1> DEFINE new == [appts[a] EXCEPT !.activeClientKey = mig.keys[a]]
<1>1. /\ mig.pc = "write" /\ a \in mig.left /\ WritingInv /\ PlannedInv /\ KeysAreUnique
      /\ appts[a] \in ApptType /\ mig.keys[a] \in Users \cup {Null}
  BY WriteChangeWrites
     DEF ConflictFreeInv, OwnInv, SlotsInv, MigrationInv, KnowInv, Shape, TypeOK, WritingInv
<1>2. new.slotKey = appts[a].slotKey /\ new.activeClientKey = mig.keys[a]
  BY <1>1 DEF ApptType
<1>3. ~TakenSlotKey(a, new)
  BY <1>1, <1>2 DEF TakenSlotKey, KeysAreUnique
<1>4. mig.keys[a] # Null /\ \E b \in Appts \ {a} : appts[b].activeClientKey = mig.keys[a]
  BY <1>2, <1>3 DEF Duplicate, TakenClientKey
<1>5. ~Regular(mig.keys[a]) /\ mig.keys[a] = appts[a].client
  BY <1>1, <1>4 DEF PlannedInv, WritingInv
<1> QED
  BY <1>5 DEF WriteChange

(* What the script leaves of the history when it writes *)
LEMMA WriteChangeHistory ==
    ASSUME MigrationInv, NEW a \in Appts, WriteChange(a), Remember
    PROVE  stale' = stale /\ been \subseteq been' /\ overtaken' \subseteq Requests
           /\ \A q \in Requests \ overtaken' : Updating(req[q]) => q \notin overtaken
<1>1. req' = req
  BY WriteChangeWrites
<1> QED
  BY <1>1 DEF Remember, Writes

LEMMA WriteChangeIsConflictFree ==
    ASSUME ConflictFreeInv, NEW a \in Appts, WriteChange(a), Remember
    PROVE  ConflictFreeInv'
<1> DEFINE new == [appts[a] EXCEPT !.activeClientKey = mig.keys[a]]
<1>1. /\ MigrationInv /\ MigrationInv' /\ WritingInv /\ BookingsArePaused /\ mig \in MigType
      /\ OwnInv /\ SlotsInv /\ StaleInv /\ Shape /\ KnowInv'
      /\ mig.pc = "write" /\ a \in mig.left /\ mig.left \subseteq Appts
      /\ now' = now /\ req' = req /\ users' = users
      /\ stale' = stale /\ been \subseteq been' /\ overtaken' \subseteq Requests
  BY WriteChangeHistory, WriteChangeWrites, WriteChangeKnows, WriteChangeStep
     DEF ConflictFreeInv, OwnInv, SlotsInv, MigrationInv, KnowInv, WritingInv
<1>2. \A p \in Requests : req[p].pc = "idle" /\ (req[p].op = "update" => req[p].appt \in Appts)
  BY <1>1, ShapeFacts DEF BookingsArePaused, HandlerOK
<1>3. \A c : Regular(c)' => Regular(c)
  <2>1. ASSUME NEW c, Regular(c)', NEW b \in stale PROVE appts[b].client # c
    BY <1>1, <2>1, WriteChangeKeeps DEF Regular, StaleInv
  <2> QED
    BY <1>1, <2>1 DEF Regular
<1>4. ASSUME NEW b \in Appts, Ahead(b)'
      PROVE  Ahead(b) /\ appts'[b].client = appts[b].client /\ IsDue(b)
  <2>1. Ahead(b) /\ appts'[b].client = appts[b].client
    BY <1>1, <1>4, WriteChangeKeeps DEF Ahead, Active
  <2> QED
    BY <2>1 DEF Ahead, IsDue, ConflictFreeInv
<1>5. TargetsInv' /\ KeysAreUnique' /\ KeyedAsShown'
  <2>1. TargetsInv'
    BY <1>1, <1>2, WriteChangeKeeps, WriteChangeHistory DEF SlotsInv, TargetsInv, Updating
  <2>2. KeysAreUnique' /\ KeyedAsShown'
    BY <1>1, WriteChangeKeeps DEF SlotsInv, KeysAreUnique, KeyedAsShown, Fresh, Held
  <2> QED
    BY <2>1, <2>2
<1>6. KnowsKeysInv' /\ StaleInv' /\ \A p \in Requests : KnowsOthers(req[p])'
  <2>1. AdminsAreKnown'
    BY <1>1 DEF OwnInv, KnowsKeysInv, AdminsAreKnown
  <2>2. ASSUME NEW p \in Requests PROVE KnowsKey(req'[p], now', been') /\ KnowsOthers(req[p])'
    BY <1>1, <1>2 DEF OwnInv, KnowsKeysInv, KnowsKey, KnowsOthers, Takes
  <2>3. StaleInv'
    BY <1>1, WriteChangeKeeps DEF StaleInv
  <2> QED
    BY <2>1, <2>2, <2>3 DEF KnowsKeysInv
<1>7. CASE appts' = appts /\ mig' = NotRunning("conflict")
  <2>1. ClientKeysAreUnique' /\ AllOrNone'
    BY <1>1, <1>3, <1>4, <1>7 DEF OwnInv, SlotsInv, ClientKeysAreUnique, AllOrNone
  <2>2. PlannedInv' /\ mig'.admins \subseteq been'
    BY <1>7 DEF PlannedInv, NotRunning
  <2> QED
    BY <1>1, <1>5, <1>6, <2>1, <2>2 DEF ConflictFreeInv, OwnInv, SlotsInv
<1>8. CASE ~Duplicate(a, new) /\ appts' = [appts EXCEPT ![a] = new]
  <2>0. /\ appts'[a].activeClientKey = mig.keys[a] /\ new.activeClientKey = mig.keys[a]
        /\ \A b \in Appts \ {a} : appts'[b] = appts[b]
    BY <1>1, <1>8 DEF Shape, TypeOK, ApptType
  <2>1. ClientKeysAreUnique'
    BY <1>1, <1>8, <2>0 DEF SlotsInv, ClientKeysAreUnique, Duplicate, TakenClientKey
  <2>2. AllOrNone'
    <3> SUFFICES ASSUME NEW b \in Appts, NEW c \in Appts, Regular(appts[b].client)', Ahead(b)',
                        appts'[c].activeClientKey = appts'[b].client
                 PROVE  appts'[b].activeClientKey = appts'[b].client
      BY DEF AllOrNone
    <3>1. /\ Ahead(b) /\ appts'[b].client = appts[b].client /\ Regular(appts[b].client)
          /\ mig.keys[b] = appts[b].client /\ (b \notin mig.left => appts[b].activeClientKey = appts[b].client)
          /\ mig.keys[b] # Null
      BY <1>1, <1>3, <1>4, ActiveFacts, NullFacts DEF WritingInv, Ahead
    <3>2. CASE b = a
      BY <2>0, <3>1, <3>2
    <3>3. CASE b # a /\ c = a
      BY <1>1, <2>0, <3>1, <3>3 DEF ConflictFreeInv, PlannedInv
    <3>4. CASE b # a /\ c # a
      BY <1>1, <2>0, <3>1, <3>4 DEF OwnInv, AllOrNone
    <3> QED
      BY <3>2, <3>3, <3>4
  <2>3. CASE mig' = NotRunning("applied")
    <3>1. PlannedInv' /\ mig'.admins \subseteq been'
      BY <2>3 DEF PlannedInv, NotRunning
    <3> QED
      BY <1>1, <1>5, <1>6, <2>1, <2>2, <3>1 DEF ConflictFreeInv, OwnInv, SlotsInv
  <2>4. CASE mig' = [mig EXCEPT !.left = @ \ {a}]
    <3>1. /\ mig'.pc = "write" /\ mig'.left = mig.left \ {a} /\ mig'.keys = mig.keys
          /\ mig'.admins = mig.admins
      BY <1>1, <2>4 DEF MigType
    <3>2. ASSUME NEW b \in mig.left \ {a}, NEW c \in Appts \ {b}, mig.keys[b] # Null, Regular(mig.keys[b])
          PROVE  appts'[c].activeClientKey # mig.keys[b]
      BY <1>1, <2>0, <3>2 DEF ConflictFreeInv, PlannedInv
    <3>3. PlannedInv'
      BY <1>1, <1>3, <3>1, <3>2 DEF ConflictFreeInv, PlannedInv
    <3> QED
      BY <1>1, <1>5, <1>6, <2>1, <2>2, <3>1, <3>3 DEF ConflictFreeInv, OwnInv, SlotsInv
  <2> QED
    BY <1>8, <2>3, <2>4 DEF WriteChange
<1> QED
  BY <1>7, <1>8 DEF WriteChange

LEMMA PlannedGoesOn ==
    ASSUME ConflictFreeInv, Meanwhile, Recalls, UNCHANGED mig
    PROVE  PlannedInv'
<1>1. ASSUME NEW b \in Appts PROVE appts'[b].activeClientKey \in {Null, appts[b].activeClientKey}
  <2>1. appts[b] \in ApptType /\ MigrationInv
    BY DEF ConflictFreeInv, MigrationInv, KnowInv, Shape, TypeOK
  <2> QED
    BY <2>1, OnlyTheJobGoesOn DEF Completed, ApptType
<1>2. \A c : Regular(c)' => Regular(c)
  BY MeanwhileIsAStep, RegularBefore DEF ConflictFreeInv, OwnInv
<1> QED
  BY <1>1, <1>2 DEF ConflictFreeInv, PlannedInv

LEMMA ConflictFreeStep ==
    ASSUME ConflictFreeInv, [MigrationNext]_<<vars, history, mig>>
    PROVE  ConflictFreeInv'
<1>1. MigrationInv /\ MigrationInv' /\ OwnInv /\ PlannedInv /\ mig.admins \subseteq been
  BY MigrationInvStep DEF ConflictFreeInv
<1>2. ASSUME NEW a \in Appts, WriteChange(a) PROVE ConflictFreeInv'
  <2>1. CASE MigrationNext
    BY <1>2, <2>1, WriteChangeIsConflictFree DEF MigrationNext
  <2>2. CASE UNCHANGED <<vars, history, mig>>
    <3>1. mig' # mig
      BY <1>1, <1>2, WriteChangeWrites DEF NotRunning, MigType
    <3> QED
      BY <2>2, <3>1
  <2> QED
    BY <2>1, <2>2
<1>3. ASSUME ~(\E a \in Appts : WriteChange(a)) PROVE ConflictFreeInv'
  <2>1. [Next]_vars /\ Recalls
    BY <1>1, <1>3, BetweenRuns DEF MigrationNext, Recalls, history, vars
  <2>2. OwnInv' /\ been \subseteq been'
    BY <1>1, <2>1, OwnInvStep, Recalled
  <2>3. CASE Plan
    BY <1>1, <2>1, <2>2, <2>3, PlanIsConflictFree DEF ConflictFreeInv
  <2>4. CASE ReadRecords \/ Stop
    <3>1. CASE ReadRecords
      <4>1. mig' = [NotRunning("none") EXCEPT !.pc = "users", !.records = appts]
        BY <3>1 DEF ReadRecords
      <4>2. mig'.pc # "write" /\ mig'.admins = {}
        BY <4>1 DEF NotRunning
      <4> QED
        BY <1>1, <2>2, <4>2 DEF ConflictFreeInv, PlannedInv
    <3>2. CASE Stop
      <4>1. mig'.pc # "write" /\ mig'.admins = {}
        BY <3>2 DEF Stop, NotRunning
      <4> QED
        BY <1>1, <2>2, <4>1 DEF ConflictFreeInv, PlannedInv
    <3> QED
      BY <2>4, <3>1, <3>2
  <2>5. CASE Meanwhile /\ UNCHANGED mig
    BY <1>1, <2>1, <2>2, <2>5, PlannedGoesOn DEF ConflictFreeInv
  <2>6. CASE mig.pc = "idle" /\ UNCHANGED mig
    BY <1>1, <2>2, <2>6 DEF ConflictFreeInv, PlannedInv
  <2>7. CASE UNCHANGED <<vars, history, mig>>
    BY <1>1, <2>2, <2>7 DEF ConflictFreeInv, PlannedInv, Regular, vars, history
  <2> QED
    BY <1>3, <2>3, <2>4, <2>5, <2>6, <2>7 DEF MigrationNext, MigrationStep, Migrate
<1> QED
  BY <1>2, <1>3

LEMMA ConflictFreeInvariant == MigrationSpec => []ConflictFreeInv
  BY StartsConflictFree, ConflictFreeStep, PTL DEF MigrationSpec

(* The only clients that keep the migration from being applied are those of  *)
(* whom the diagnosis reports several reservations ahead, and those who once *)
(* were administrators or have a reservation that a stale write spoiled: no  *)
(* other write meets a key that another reservation still has, although keys *)
(* that are not due are taken away in the same pass as others are given.     *)
THEOREM DiagnosisFindsAllConflicts == MigrationSpec => OnlyDuplicatesPrevent
<1>1. ASSUME ConflictFreeInv, MigrationNext, mig.outcome # "conflict", mig'.outcome = "conflict"
      PROVE  \E a \in Appts : IsNext(a) /\ ~Regular(appts[a].client)
  <2>1. ASSUME NEW a \in Appts, WriteChange(a)
        PROVE  Duplicate(a, [appts[a] EXCEPT !.activeClientKey = mig.keys[a]])
    <3>1. mig \in MigType /\ mig.outcome = "none"
      BY <1>1, <2>1, WriteChangeWrites DEF ConflictFreeInv, MigrationInv, ScriptInv
    <3>2. ~(mig' = NotRunning("applied")) /\ ~(mig' = [mig EXCEPT !.left = @ \ {a}])
      BY <1>1, <3>1 DEF NotRunning, MigType
    <3> QED
      BY <2>1, <3>2 DEF WriteChange
  <2>2. ~Plan
    BY <1>1, PlanStep DEF ConflictFreeInv
  <2>3. ~ReadRecords /\ ~Stop
    <3>1. ReadRecords => mig'.outcome = NotRunning("none").outcome
      BY DEF ReadRecords, NotRunning
    <3>2. Stop => mig'.outcome = NotRunning("none").outcome
      BY DEF Stop
    <3> QED
      BY <1>1, <3>1, <3>2, NotRunningType
  <2>4. mig' # mig
    BY <1>1
  <2> QED
    BY <1>1, <2>1, <2>2, <2>3, <2>4, ConflictIsIrregular DEF MigrationNext, MigrationStep, Migrate
<1>2. ASSUME ConflictFreeInv, [MigrationNext]_<<vars, history, mig>>
      PROVE  [mig.outcome # "conflict" /\ mig'.outcome = "conflict" =>
                \E a \in Appts : IsNext(a) /\ ~Regular(appts[a].client)
             ]_<<vars, history, mig>>
  BY <1>1, <1>2
<1> QED
  BY <1>2, ConflictFreeInvariant, PTL DEF MigrationSpec, OnlyDuplicatesPrevent

===============================================================================
