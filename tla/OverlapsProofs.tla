---------------------------- MODULE OverlapsProofs ----------------------------
(***************************************************************************)
(* What Overlaps promises, for every number of handlers.  A handler whose  *)
(* reservation has not moved since it was read writes what it has checked, *)
(* as the slot goes and not only as the status goes; one that was          *)
(* overtaken spoils the reservation it writes and no other.  The lemmas    *)
(* speak of a step of Appointments that is remembered, so that the shop    *)
(* and its schedules can use them too.                                     *)
(***************************************************************************)
EXTENDS Overlaps, OutcomesProofs, CalendarProofs

\* The history goes on, or nothing happens at all.
Recalls == Remember \/ UNCHANGED <<vars, history>>

(* What the history says of a step *)
LEMMA Recalled ==
    ASSUME Recalls
    PROVE  /\ stale \subseteq stale' /\ been \subseteq been'
           /\ \A q \in Requests \ overtaken' : Updating(req'[q]) =>
                  q \notin overtaken /\ appts'[req'[q].appt].slot = appts[req'[q].appt].slot
           /\ \A q \in overtaken, a \in Appts : Writes(q, a) => a \in stale'
           /\ overtaken \subseteq Requests => overtaken' \subseteq Requests
<1>1. CASE Remember
  BY <1>1 DEF Remember
<1>2. CASE UNCHANGED <<vars, history>>
  BY <1>2 DEF vars, history, Writes
<1> QED
  BY <1>1, <1>2 DEF Recalls

-------------------------------------------------------------------------------
\* The slots

\* A handler that was not overtaken works with the slot that its body makes of
\* the reservation as it is now.
TargetsInv ==
    \A p \in Requests \ overtaken :
        Updating(req[p]) => req[p].slot = Merge(appts[req[p].appt].slot, req[p].dto)

ClientKeysAreUnique ==
    \A a, b \in Appts :
        a # b /\ appts[a].activeClientKey # Null => appts[a].activeClientKey # appts[b].activeClientKey

SlotsInv ==
    /\ KnowInv
    /\ overtaken \subseteq Requests
    /\ TargetsInv
    /\ KeysAreUnique /\ ClientKeysAreUnique
    /\ KeyedAsShown

(* Between its load and its write a handler keeps what it works with. *)
LEMMA KeepsTarget ==
    ASSUME NEW q \in Requests, req[q] \in RequestType,
           Proceeds(q) \/ Consults(q) \/ Frees(q) \/ TakesKey(q)
    PROVE  LET r == req[q]
               s == req'[q]
           IN  /\ s.op = r.op /\ s.actor = r.actor /\ s.dto = r.dto /\ s.appt = r.appt
               /\ s.client = r.client /\ s.seen = r.seen /\ s.slot = r.slot /\ s.at = r.at
               /\ s.admin = r.admin
               /\ r.pc \in {"client", "release", "active", "barber", "schedule", "slot", "email"}
  BY DEF Proceeds, Consults, Frees, TakesKey, Passes, SlotIsFree, RequestType

(* The handler that reads its document has the slot that its body asks for. *)
LEMMA ReadsTarget ==
    ASSUME Shape, NEW q \in Requests, Reads(q)
    PROVE  \E u \in RequestType :
              LET s == req'[q]
                  cur == appts[u.appt]
              IN  /\ HandlerOK(u) /\ u.op = "update" /\ u.pc = "load" /\ u.appt \in Appts
                  /\ u = req[q] \/ \E a \in Appts, dto \in Dtos : u = UpdateRequest(a, dto, "admin")
                  /\ CanLoad(u) /\ s = Loaded(u, cur) /\ cur \in ApptType /\ cur.slot \in Slots
                  /\ s.op = "update" /\ s.appt = u.appt /\ s.dto = u.dto /\ s.actor = u.actor
                  /\ s.client = cur.client /\ s.seen = cur.status /\ s.at = now
                  /\ s.slot = Merge(cur.slot, u.dto)
                  /\ (~ChangesSlot(u.dto) => s.slot = cur.slot)
                  /\ s.takesKey = u.takesKey /\ cur.status \in ActiveStatuses
<1>1. PICK u \in RequestType :
          /\ HandlerOK(u) /\ u.op = "update" /\ u.pc = "load"
          /\ u = req[q] \/ \E a \in Appts, dto \in Dtos : u = UpdateRequest(a, dto, "admin")
          /\ CanLoad(u) /\ req'[q] = Loaded(u, appts[u.appt])
  BY DEF Reads
<1> DEFINE cur == appts[u.appt]
           s == req'[q]
<1>2. u.appt \in Appts /\ cur.status # "absent" /\ cur.status \in ActiveStatuses
  BY <1>1 DEF HandlerOK, CanLoad, Accepted
<1>3. cur \in ApptType /\ cur.slot \in Slots
  BY <1>2 DEF Shape, TypeOK, DocsOK
<1>4. /\ s.op = "update" /\ s.appt = u.appt /\ s.dto = u.dto /\ s.actor = u.actor
      /\ s.client = cur.client /\ s.seen = cur.status /\ s.at = now
      /\ s.slot = Merge(cur.slot, u.dto) /\ s.takesKey = u.takesKey
  BY <1>1 DEF Loaded, SlotIsFree, RequestType
<1>5. ~ChangesSlot(u.dto) => s.slot = cur.slot
  BY <1>3, <1>4, MergeKeeps
<1> HIDE DEF s, cur
<1>6. u = req[q] \/ \E a \in Appts, dto \in Dtos : u = UpdateRequest(a, dto, "admin")
  BY <1>1
<1>7. HandlerOK(u) /\ u.op = "update" /\ u.pc = "load" /\ CanLoad(u) /\ s = Loaded(u, cur)
  BY <1>1 DEF s, cur
<1> QED
  BY <1>2, <1>3, <1>4, <1>5, <1>6, <1>7 DEF s, cur

(* The handlers that update come from a reading, or go on with one. *)
LEMMA UpdatingStep ==
    ASSUME Shape, [Next]_vars, NEW q \in Requests, Updating(req'[q])
    PROVE  \/ req'[q] = req[q]
           \/ Reads(q)
           \/ Proceeds(q) \/ Consults(q) \/ Frees(q) \/ TakesKey(q)
<1>1. Moves(q) /\ req[q] \in RequestType
  BY HandlerMoves, ShapeFacts
<1>2. ~(req'[q] = Idle) /\ ~Starts(q) /\ ~Archives(q) /\ ~Saves(q) /\ ~Announces(q)
  BY <1>1, AfterWriting, IdleFacts DEF Starts, Archives, RequestType, Updating
<1>3. ~Asks(q)
  BY DEF Asks, UpdateRequest, Idle, Updating
<1> QED
  BY <1>1, <1>2, <1>3 DEF Moves

LEMMA TargetStep ==
    ASSUME Shape, TargetsInv, [Next]_vars, Recalls,
           NEW q \in Requests \ overtaken', Updating(req'[q])
    PROVE  req'[q].slot = Merge(appts'[req'[q].appt].slot, req'[q].dto)
<1> DEFINE r == req[q]
           s == req'[q]
<1>1. q \notin overtaken /\ appts'[s.appt].slot = appts[s.appt].slot
  BY Recalled
<1>2. CASE s = r
  BY <1>1, <1>2 DEF TargetsInv
<1>3. CASE Reads(q)
  <2>1. s.slot = Merge(appts[s.appt].slot, s.dto)
    BY <1>3, ReadsTarget
  <2> QED
    BY <1>1, <2>1
<1>4. CASE Proceeds(q) \/ Consults(q) \/ Frees(q) \/ TakesKey(q)
  <2>1. /\ s.op = r.op /\ s.slot = r.slot /\ s.dto = r.dto /\ s.appt = r.appt
        /\ r.pc \notin {"load", "mail"}
    BY <1>4, ShapeFacts, KeepsTarget
  <2> QED
    BY <1>1, <2>1 DEF TargetsInv, Updating
<1> QED
  BY <1>2, <1>3, <1>4, UpdatingStep

(* What a handler writes that was not overtaken: the slot is the one that it *)
(* looked at.  The reservation is stale otherwise.                           *)
LEMMA WritesWhatItChecked ==
    ASSUME SlotsInv, Recalls, NEW a \in Appts, IsWritten(a),
           appts'[a] # appts[a], a \notin stale'
    PROVE  \E p \in Requests \ overtaken :
              LET r == req[p]
                  n == NewStatus(r.seen, r.dto)
              IN  /\ r \in RequestType /\ HandlerOK(r) /\ Updating(r) /\ r.pc = "write"
                  /\ r.appt = a /\ r.client = appts[a].client
                  /\ appts[a].status = r.seen /\ r.seen \in ActiveStatuses /\ r.slot \in Slots
                  /\ n \in Statuses /\ n \in Allowed(r.seen) \cup {r.seen}
                  /\ appts'[a] \in ApptType
                  /\ appts'[a].status = n /\ appts'[a].slot = r.slot
                  /\ appts'[a].slotKey = IF n = "cancelled" THEN Null ELSE r.slot
                  /\ appts'[a].client = r.client
                  /\ appts'[a].activeClientKey = IF r.takesKey THEN r.client ELSE Null
                  /\ n = "cancelled" => appts'[a].cancelledBy = r.actor /\ appts'[a].cancelledAt = r.at
<1>1. PICK p \in Requests :
          /\ req[p].pc = "write" /\ req[p].appt = a
          /\ FilterMatches(req[p], appts[a])
          /\ appts'[a] = Updated(req[p], appts[a])
          /\ req'[p] # req[p]
  BY DEF IsWritten
<1> DEFINE r == req[p]
           doc == appts[a]
           n == NewStatus(r.seen, r.dto)
<1>2. /\ r \in RequestType /\ HandlerOK(r) /\ r.op = "update" /\ r.seen \in ActiveStatuses
      /\ r.slot \in Slots /\ r.client \in Users
      /\ doc \in ApptType /\ doc.status = r.seen /\ doc.slot \in Slots
  BY <1>1, WriterFacts DEF SlotsInv, KnowInv
<1>3. p \notin overtaken
  BY <1>1, Recalled DEF Writes
<1>4. r.slot = Merge(doc.slot, r.dto) /\ Updating(r)
  BY <1>1, <1>2, <1>3 DEF SlotsInv, TargetsInv, Updating
<1>5. r.client = doc.client /\ n \in Allowed(r.seen) \cup {r.seen}
  BY <1>1, <1>2 DEF SlotsInv, KnowInv, Knows
<1>6. /\ appts'[a].status = n /\ appts'[a].slot = r.slot /\ appts'[a].client = r.client
      /\ appts'[a].slotKey = IF n = "cancelled" THEN Null ELSE r.slot
      /\ n \in Statuses /\ appts'[a] \in ApptType
  BY <1>1, <1>2, <1>4, <1>5, UpdatedType
<1>7. /\ appts'[a].activeClientKey = IF r.takesKey THEN r.client ELSE Null
      /\ n = "cancelled" => appts'[a].cancelledBy = r.actor /\ appts'[a].cancelledAt = r.at
  BY <1>1, <1>2 DEF Updated, ApptType
<1> HIDE DEF n
<1> QED
  BY <1>1, <1>2, <1>3, <1>4, <1>5, <1>6, <1>7 DEF n

\* The client's keys at most go, and the keys of the slots stay.
KeysOnlyGo ==
    \A b \in Appts : /\ appts'[b].activeClientKey \in {Null, appts[b].activeClientKey}
                     /\ appts'[b].slotKey = appts[b].slotKey

OneIsIndexed == \E a \in Appts : /\ ~Duplicate(a, appts'[a])
                                 /\ \A b \in Appts \ {a} : appts'[b] = appts[b]

(* One reservation is written under the indexes, or keys only go. *)
LEMMA KeysStep ==
    ASSUME Shape, [Next]_vars
    PROVE  KeysOnlyGo \/ OneIsIndexed
<1>0. appts \in [Appts -> ApptType]
  BY DEF Shape, TypeOK
<1>1. appts' = appts => KeysOnlyGo
  BY DEF KeysOnlyGo
<1>2. ASSUME NEW p \in Requests, NEW a \in Appts, Save(p, a) PROVE appts' = appts \/ OneIsIndexed
  BY <1>0, <1>2 DEF Save, OneIsIndexed
<1>3. ASSUME NEW p \in Requests, Write(p) PROVE appts' = appts \/ OneIsIndexed
  <2>1. req[p].appt \in Appts
    BY <1>3, ShapeFacts DEF Write, HandlerOK
  <2> QED
    BY <1>0, <1>3, <2>1 DEF Write, OneIsIndexed
<1>4. ASSUME NEW p \in Requests, ReleaseKeys(p) PROVE KeysOnlyGo
  BY <1>0, <1>4 DEF ReleaseKeys, Released, ApptType, KeysOnlyGo
<1>5. ASSUME NEW p \in Requests, Archive(p) PROVE KeysOnlyGo
  <2>1. \A b \in Appts : appts'[b] = appts[b] \/ appts'[b] = [appts[b] EXCEPT !.archived = TRUE]
    BY <1>5, ArchiveWrites DEF IsArchived
  <2> QED
    BY <1>0, <2>1 DEF ApptType, KeysOnlyGo
<1>6. CASE Job
  <2>1. \A b \in Appts : appts'[b] = appts[b] \/ appts'[b] = Completed(appts[b])
    BY <1>6, JobWrites DEF IsCompleted
  <2> QED
    BY <1>0, <2>1 DEF Completed, ApptType, KeysOnlyGo
<1>7. ASSUME NEW p \in Requests, Create(p) PROVE KeysOnlyGo \/ OneIsIndexed
  BY <1>1, <1>2, <1>7 DEF Create, StartCreate, EmailPending, Notify
<1>8. ASSUME NEW p \in Requests, Update(p) PROVE KeysOnlyGo \/ OneIsIndexed
  BY <1>1, <1>3, <1>8 DEF Update, StartPatch, StartCancelMine, StartLink, Load, ReadClient, Mail
<1>9. ASSUME NEW p \in Requests, Shared(p) PROVE KeysOnlyGo
  BY <1>1, <1>4, <1>9 DEF Shared, CheckActive, ReadBarber, ReadSchedule, CheckSlot
<1>10. ASSUME NEW p \in Requests, Archiving(p) \/ Abandon(p) PROVE KeysOnlyGo
  BY <1>1, <1>5, <1>10 DEF Archiving, StartArchive, Abandon
<1>11. CASE Directory \/ Restart \/ Tick \/ UNCHANGED vars
  BY <1>1, <1>11 DEF Directory, People, ChangeRole, SetBookingAccess, RemoveUser, AddUser, AddBarber,
              SetBarber, EditSchedule, Restart, Tick, vars
<1> QED
  BY <1>6, <1>7, <1>8, <1>9, <1>10, <1>11, Zenon DEF Next

LEMMA UniqueStep ==
    ASSUME Shape, KeysAreUnique, ClientKeysAreUnique, [Next]_vars
    PROVE  KeysAreUnique' /\ ClientKeysAreUnique'
<1>1. CASE KeysOnlyGo
  BY <1>1 DEF KeysOnlyGo, ClientKeysAreUnique, KeysAreUnique
<1>2. CASE OneIsIndexed
  <2>1. KeysAreUnique'
    BY <1>2 DEF OneIsIndexed, KeysAreUnique, Duplicate, TakenSlotKey
  <2>2. ClientKeysAreUnique'
    BY <1>2 DEF OneIsIndexed, ClientKeysAreUnique, Duplicate, TakenClientKey
  <2> QED
    BY <2>1, <2>2
<1> QED
  BY <1>1, <1>2, KeysStep

LEMMA KeyedStep ==
    ASSUME SlotsInv, [Next]_vars, Recalls, NEW a \in Appts \ stale'
    PROVE  appts'[a].slotKey = IF appts'[a].status \in HeldStatuses THEN appts'[a].slot ELSE Null
<1> DEFINE doc == appts[a]
           new == appts'[a]
<1>1. /\ Shape /\ doc \in ApptType
      /\ doc.slotKey = IF doc.status \in HeldStatuses THEN doc.slot ELSE Null
  BY Recalled DEF SlotsInv, KnowInv, Shape, TypeOK, KeyedAsShown, Fresh, Held
<1>2. CASE new = doc
  BY <1>1, <1>2
<1>3. CASE IsReleased(a) \/ IsArchived(a)
  <2>1. new.status = doc.status /\ new.slot = doc.slot /\ new.slotKey = doc.slotKey
    BY <1>1, <1>3 DEF IsReleased, Released, IsArchived, ApptType
  <2> QED
    BY <1>1, <2>1
<1>4. CASE IsSaved(a)
  <2>1. PICK p \in Requests : req[p].pc = "save" /\ new = NewAppt(req[p])
    BY <1>4 DEF IsSaved
  <2>2. req[p] \in RequestType /\ req[p].client \in Users /\ req[p].slot \in Slots
    BY <1>1, <2>1, ShapeFacts DEF HandlerOK
  <2> QED
    BY <2>1, <2>2, NewApptType DEF HeldStatuses
<1>5. CASE IsCompleted(a)
  BY <1>1, <1>5, CompletedType DEF IsCompleted, JobMatches, HeldStatuses
<1>6. CASE IsWritten(a) /\ new # doc
  <2>1. \E s \in Statuses, slot \in Slots :
            new.status = s /\ new.slot = slot /\ new.slotKey = IF s = "cancelled" THEN Null ELSE slot
    BY <1>6, WritesWhatItChecked
  <2> QED
    BY <2>1 DEF Statuses, ActiveStatuses, FinalStatuses, HeldStatuses
<1> QED
  BY <1>1, <1>2, <1>3, <1>4, <1>5, <1>6, DocStep

LEMMA NextSlotsInv ==
    ASSUME SlotsInv, [Next]_vars, Recalls
    PROVE  SlotsInv'
<1>1. Shape /\ KnowInv'
  BY NextKnowInv DEF SlotsInv, KnowInv
<1>2. TargetsInv'
  BY <1>1, TargetStep DEF SlotsInv, TargetsInv
<1>3. KeyedAsShown'
  BY KeyedStep DEF KeyedAsShown, Fresh, Held
<1> QED
  BY <1>1, <1>2, <1>3, UniqueStep, Recalled DEF SlotsInv

LEMMA InitSlotsInv == Init /\ HistoryInit => SlotsInv
<1> SUFFICES ASSUME Init, HistoryInit PROVE SlotsInv
  OBVIOUS
<1>1. \A a \in Appts : /\ appts[a].slotKey = Null /\ appts[a].activeClientKey = Null
                       /\ appts[a].status \notin HeldStatuses
  BY DEF Init, Opening, NoAppt, HeldStatuses
<1>2. \A p \in Requests : ~Updating(req[p])
  BY IdleFacts DEF Init, Opening, Updating
<1> QED
  BY <1>1, <1>2, InitKnowInv
     DEF SlotsInv, TargetsInv, KeysAreUnique, ClientKeysAreUnique, KeyedAsShown, Fresh, Held, HistoryInit

LEMMA RecordedStep ==
    ASSUME [OverlapNext]_<<vars, history>>
    PROVE  [Next]_vars /\ Recalls
  BY DEF OverlapNext, Recalls, history, vars

LEMMA SlotsInvariant == OverlapSpec => []SlotsInv
<1>1. SlotsInv /\ [OverlapNext]_<<vars, history>> => SlotsInv'
  BY NextSlotsInv, RecordedStep
<1> QED
  BY <1>1, InitSlotsInv, PTL DEF OverlapSpec

(* Every reservation has the slot key of the slot it is shown at, and a       *)
(* cancelled one has none, but for those that a handler wrote from a slot     *)
(* they no longer had: nothing else can part the two.                         *)
THEOREM KeysMatchSlots == OverlapSpec => []KeyedAsShown
<1>1. SlotsInv => KeyedAsShown
  BY DEF SlotsInv
<1> QED
  BY <1>1, SlotsInvariant, PTL

LEMMA SlotsInvGivesOneHolder ==
    ASSUME SlotsInv
    PROVE  OneHolderEach
<1> SUFFICES ASSUME NEW a \in Fresh, NEW b \in Fresh, a # b, Held(a), Held(b), appts[a].slot = appts[b].slot
             PROVE  FALSE
  BY DEF OneHolderEach
<1>1. appts[a].slotKey = appts[a].slot /\ appts[b].slotKey = appts[b].slot
  BY DEF SlotsInv, KeyedAsShown
<1>2. appts[a].slot \in Slots
  BY DEF SlotsInv, KnowInv, Shape, DocsOK, Held, HeldStatuses, Fresh
<1> QED
  BY <1>1, <1>2, NullFacts DEF SlotsInv, KeysAreUnique, Fresh

(* Creations, moves and decisions that overlap put no two reservations at    *)
(* one barber, date and time: the unique index compares the keys, and the    *)
(* keys are those of the slots.                                              *)
THEOREM NoSlotIsSharedByTwo == OverlapSpec => []OneHolderEach
  BY SlotsInvariant, SlotsInvGivesOneHolder, PTL

-------------------------------------------------------------------------------
\* The notice

\* A client's cancellation that goes on has been given in time.
NoticeInv ==
    /\ \A p \in Requests :
          Updating(req[p]) /\ req[p].actor = "user" => StartsAt(req[p].slot) - req[p].at >= Notice
    /\ NoticeKept

(* The actor of an update that is a client's cancels and changes nothing else. *)
LEMMA NoticeStep ==
    ASSUME KnowInv, NoticeInv, [Next]_vars, NEW q \in Requests,
           Updating(req'[q]), req'[q].actor = "user"
    PROVE  StartsAt(req'[q].slot) - req'[q].at >= Notice
<1> DEFINE r == req[q]
           s == req'[q]
<1>1. Shape /\ r \in RequestType /\ Knows(r, appts)
  BY ShapeFacts DEF KnowInv
<1>2. CASE s = r
  BY <1>2 DEF NoticeInv
<1>3. CASE Reads(q)
  <2>1. PICK u \in RequestType :
            /\ u.op = "update" /\ u.pc = "load"
            /\ u = r \/ \E a \in Appts, dto \in Dtos : u = UpdateRequest(a, dto, "admin")
            /\ CanLoad(u) /\ s.actor = u.actor /\ s.at = now
            /\ ~ChangesSlot(u.dto) => s.slot = appts[u.appt].slot
    BY <1>1, <1>3, ReadsTarget
  <2>2. u = r
    BY <2>1 DEF UpdateRequest, Idle
  <2>3. u.dto = StatusDto("cancelled")
    BY <1>1, <2>1, <2>2 DEF Knows
  <2>4. ~ChangesSlot(u.dto) /\ u.dto.status = "cancelled"
    BY <2>3, NoDtoFacts DEF Statuses, FinalStatuses
  <2> QED
    BY <2>1, <2>4 DEF CanLoad, Accepted, NoticeGiven
<1>4. CASE Proceeds(q) \/ Consults(q) \/ Frees(q) \/ TakesKey(q)
  <2>1. s.op = r.op /\ s.actor = r.actor /\ s.slot = r.slot /\ s.at = r.at /\ r.pc \notin {"load", "mail"}
    BY <1>1, <1>4, KeepsTarget
  <2> QED
    BY <2>1 DEF NoticeInv, Updating
<1> QED
  BY <1>1, <1>2, <1>3, <1>4, UpdatingStep

(* Each write, but for the cancellation, leaves a cancelled reservation as it is. *)
LEMMA CancelledByWrite ==
    ASSUME KnowInv, [Next]_vars, NEW a \in Appts,
           appts[a].status # "cancelled", appts'[a].status = "cancelled"
    PROVE  IsWritten(a)
<1>1. Shape /\ appts[a] \in ApptType
  BY DEF KnowInv, Shape, TypeOK
<1>2. ~IsReleased(a) /\ ~IsArchived(a)
  BY <1>1 DEF IsReleased, Released, IsArchived, ApptType
<1>3. ~IsSaved(a)
  BY DEF IsSaved, NewAppt, NoAppt
<1>4. ~IsCompleted(a)
  BY <1>1, CompletedType DEF IsCompleted
<1> QED
  BY <1>1, <1>2, <1>3, <1>4, DocStep

LEMMA NextNoticeInv ==
    ASSUME SlotsInv, NoticeInv, [Next]_vars, Recalls
    PROVE  NoticeInv'
<1>0. KnowInv
  BY DEF SlotsInv
<1>1. ASSUME NEW a \in Appts \ stale', appts'[a].status = "cancelled", appts'[a].cancelledBy = "user"
      PROVE  StartsAt(appts'[a].slot) - appts'[a].cancelledAt >= Notice
  <2>1. CASE appts[a].status = "cancelled"
    <3>1. /\ appts'[a].slot = appts[a].slot /\ appts'[a].cancelledBy = appts[a].cancelledBy
          /\ appts'[a].cancelledAt = appts[a].cancelledAt
      BY <1>0, <2>1, EvolvesStep DEF Evolves, FinalStatuses
    <3> QED
      BY <1>1, <2>1, <3>1, Recalled DEF NoticeInv, NoticeKept, Fresh
  <2>2. CASE appts[a].status # "cancelled"
    <3>1. IsWritten(a)
      BY <1>0, <1>1, <2>2, CancelledByWrite
    <3>2. PICK p \in Requests :
              /\ Updating(req[p])
              /\ appts'[a].status = NewStatus(req[p].seen, req[p].dto)
              /\ appts'[a].slot = req[p].slot
              /\ NewStatus(req[p].seen, req[p].dto) = "cancelled" =>
                    appts'[a].cancelledBy = req[p].actor /\ appts'[a].cancelledAt = req[p].at
      BY <1>1, <2>2, <3>1, WritesWhatItChecked
    <3> QED
      BY <1>1, <3>2 DEF NoticeInv
  <2> QED
    BY <2>1, <2>2
<1>2. NoticeKept'
  BY <1>1 DEF NoticeKept, Fresh
<1> QED
  BY <1>0, <1>2, NoticeStep DEF NoticeInv

(* A client's cancellation was decided at least the notice before the       *)
(* reservation, as it stands, starts, whatever time passes and whoever else *)
(* decides between the check and the write.                                 *)
THEOREM NoticeIsKept == OverlapSpec => []NoticeKept
<1>1. Init /\ HistoryInit => NoticeInv
  BY IdleFacts DEF Init, Opening, NoAppt, NoticeInv, NoticeKept, Updating, Fresh
<1>2. SlotsInv /\ NoticeInv /\ [OverlapNext]_<<vars, history>> => NoticeInv'
  BY NextNoticeInv, RecordedStep
<1>3. NoticeInv => NoticeKept
  BY DEF NoticeInv
<1> QED
  BY <1>1, <1>2, <1>3, SlotsInvariant, PTL DEF OverlapSpec

-------------------------------------------------------------------------------
\* What is closed had started

Closed(status) == status \in {"completed", "no_show"}

\* A handler that is about to close a reservation has seen it started.
StartedInv ==
    \A p \in Requests \ overtaken :
        Updating(req[p]) /\ Closed(NewStatus(req[p].seen, req[p].dto))
            => StartsAt(appts[req[p].appt].slot) <= now

LEMMA StartedStep ==
    ASSUME KnowInv, StartedInv, [Next]_vars, Recalls, NEW q \in Requests \ overtaken',
           Updating(req'[q]), Closed(NewStatus(req'[q].seen, req'[q].dto))
    PROVE  StartsAt(appts'[req'[q].appt].slot) <= now'
<1> DEFINE r == req[q]
           s == req'[q]
<1>1. /\ Shape /\ r \in RequestType /\ HandlerOK(r) /\ Shape'
      /\ HandlerOK(s) /\ Knows(s, appts')
      /\ now \in Nat /\ now' \in Nat /\ now <= now'
  BY NextShape, ShapeFacts, ClockAdvances, KnowStep DEF KnowInv, Shape
<1>2. q \notin overtaken /\ appts'[s.appt].slot = appts[s.appt].slot
  BY Recalled
<1>3. StartsAt(appts'[s.appt].slot) \in Nat
  <2>1. s.appt \in Appts /\ appts'[s.appt].status # "absent"
    BY <1>1 DEF HandlerOK, Updating, Knows
  <2>2. appts'[s.appt].slot \in Slots
    BY <1>1, <2>1 DEF Shape, DocsOK
  <2> QED
    BY <2>2, SlotStart
<1>4. CASE s = r
  BY <1>1, <1>2, <1>3, <1>4 DEF StartedInv
<1>5. CASE Reads(q)
  <2>1. PICK u \in RequestType :
            LET cur == appts[u.appt] IN
            /\ s.appt = u.appt
            /\ CanLoad(u) /\ s.seen = cur.status /\ s.dto = u.dto
            /\ cur.status \in ActiveStatuses
    BY <1>1, <1>5, ReadsTarget
  <2> DEFINE cur == appts[u.appt]
  <2>2. u.dto.status \in {"completed", "no_show"} /\ u.dto.status # cur.status /\ u.dto.status # Null
    BY <2>1, NullFacts DEF Closed, NewStatus, ActiveStatuses, Statuses, FinalStatuses
  <2>3. now >= StartsAt(cur.slot)
    BY <2>1, <2>2 DEF CanLoad, Accepted, TransitionAllowed
  <2> QED
    BY <1>1, <1>2, <1>3, <2>1, <2>3
<1>6. CASE Proceeds(q) \/ Consults(q) \/ Frees(q) \/ TakesKey(q)
  <2>1. /\ s.op = r.op /\ s.dto = r.dto /\ s.seen = r.seen /\ s.appt = r.appt
        /\ r.pc \notin {"load", "mail"}
    BY <1>1, <1>6, KeepsTarget
  <2>2. StartsAt(appts[r.appt].slot) <= now
    BY <1>2, <2>1 DEF StartedInv, Updating
  <2> QED
    BY <1>1, <1>2, <1>3, <2>1, <2>2
<1> QED
  BY <1>1, <1>4, <1>5, <1>6, UpdatingStep

LEMMA ClosesWhatStarted ==
    ASSUME SlotsInv, TodoInv, StartedInv, [Next]_vars, Recalls, NEW a \in Appts \ stale',
           Active(a), Closed(appts'[a].status)
    PROVE  StartsAt(appts[a].slot) <= now
<1>1. /\ Shape /\ now \in Nat /\ appts[a] \in ApptType /\ ~Closed(appts[a].status)
      /\ StartsAt(appts[a].slot) \in Nat
  BY ClockAdvances, SlotStart
     DEF SlotsInv, KnowInv, Shape, TypeOK, DocsOK, Active, ActiveStatuses, Closed
<1>2. ~IsReleased(a) /\ ~IsArchived(a) /\ appts'[a] # appts[a]
  BY <1>1 DEF IsReleased, Released, IsArchived, ApptType
<1>3. ~IsSaved(a)
  BY DEF IsSaved, NewAppt, NoAppt, Closed
<1>4. CASE IsWritten(a)
  <2>1. PICK p \in Requests \ overtaken :
            /\ Updating(req[p]) /\ req[p].appt = a
            /\ appts'[a].status = NewStatus(req[p].seen, req[p].dto)
    BY <1>2, <1>4, WritesWhatItChecked
  <2> QED
    BY <2>1 DEF StartedInv
<1>5. CASE IsCompleted(a)
  <2>1. PICK w \in todo : JobMatches(w, appts[a])
    BY <1>5 DEF IsCompleted
  <2>2. StartsAt(w) = StartsAt(appts[a].slot) /\ StartsAt(w) + DayLength <= now
    BY <2>1 DEF JobMatches, StartsAt, TodoInv
  <2> QED
    BY <1>1, <2>2, DayLengthAssumption
<1> QED
  BY <1>1, <1>2, <1>3, <1>4, <1>5, DocStep

(* Nobody completes a reservation, or marks it missed, before the slot has   *)
(* started that it has until then, although the clock was looked at several  *)
(* operations earlier and the reservation may have been moved since.         *)
THEOREM OnlyWhatStartedIsClosed == OverlapSpec => ClosedOnceStarted
<1>1. Init /\ HistoryInit => StartedInv /\ TodoInv
  BY IdleFacts DEF Init, Opening, StartedInv, TodoInv, Updating
<1>2. SlotsInv /\ (StartedInv /\ TodoInv) /\ [OverlapNext]_<<vars, history>> => (StartedInv /\ TodoInv)'
  <2>1. ASSUME SlotsInv, StartedInv, TodoInv, [OverlapNext]_<<vars, history>>
        PROVE  StartedInv' /\ TodoInv'
    BY <2>1, RecordedStep, StartedStep, NextTodoInv DEF SlotsInv, KnowInv, StartedInv
  <2> QED
    BY <2>1
<1>3. ASSUME SlotsInv, StartedInv /\ TodoInv, [OverlapNext]_<<vars, history>>
      PROVE  [\A a \in Appts \ stale' :
                Active(a) /\ appts'[a].status \in {"completed", "no_show"}
                    => StartsAt(appts[a].slot) <= now]_<<vars, history>>
  BY <1>3, RecordedStep, ClosesWhatStarted DEF Closed
<1> QED
  BY <1>1, <1>2, <1>3, SlotsInvariant, PTL DEF OverlapSpec, ClosedOnceStarted

-------------------------------------------------------------------------------
\* The clients' keys

\* What a handler knows of the key that it writes: one that will write no key is
\* for somebody who is, or was, an administrator, or for a slot that is not ahead.
KnowsKey(r, t, known) ==
    /\ r.op = "create" /\ r.pc \notin {"email", "whatsapp"} /\ r.admin => r.client \in known
    /\ r.pc = "save" /\ ~r.takesKey => r.admin \/ ~IsFuture(r.slot, t)
    /\ r.pc = "write" /\ ~r.takesKey =>
           r.client \in known \/ ~Occupies(r.slot, NewStatus(r.seen, r.dto), t)

AdminsAreKnown == \A c \in Users : users[c] # Null /\ users[c].role = "admin" => c \in been

KnowsKeysInv == AdminsAreKnown /\ \A p \in Requests : KnowsKey(req[p], now, been)

KeyInv == KnowsKeysInv /\ AheadHoldsKey

(* What lies ahead later lies ahead now. *)
LEMMA FutureFades ==
    ASSUME NEW slot \in Slots, NEW t \in Nat, NEW u \in Nat, t <= u, IsFuture(slot, u)
    PROVE  IsFuture(slot, t)
<1>1. slot.date \in Int /\ slot.timeSlot \in 0..(DayLength - 1) /\ StartsAt(slot) \in Nat
  BY SlotStart
<1>2. StartsAt(slot) > u
  BY <1>1, FutureIsChronological
<1>3. StartsAt(slot) > t
  BY <1>1, <1>2
<1> QED
  BY <1>1, <1>3, FutureIsChronological

LEMMA AdminsStep ==
    ASSUME AdminsAreKnown, Recalls
    PROVE  AdminsAreKnown'
<1>1. CASE Remember
  BY <1>1 DEF Remember, AdminsAreKnown
<1>2. CASE UNCHANGED <<vars, history>>
  BY <1>2 DEF vars, history, AdminsAreKnown
<1> QED
  BY <1>1, <1>2 DEF Recalls

(* What a handler knows of the key it writes stays true with time. *)
LEMMA KnowsKeyOn ==
    ASSUME NEW r \in RequestType, HandlerOK(r), NEW t \in Nat, NEW u \in Nat, t <= u,
           NEW k, NEW l, k \subseteq l, KnowsKey(r, t, k)
    PROVE  KnowsKey(r, u, l)
<1>1. r.pc \in {"save", "write"} => r.slot \in Slots
  BY DEF HandlerOK
<1> QED
  BY <1>1, FutureFades DEF KnowsKey, Occupies

(* What a handler knows of its key once its slot is free *)
LEMMA FreeKnowsKey ==
    ASSUME NEW r \in RequestType, NEW known, r.op \in {"create", "update"},
           r.op = "create" /\ r.pc \notin {"email", "whatsapp"} /\ r.admin => r.client \in known,
           r.pc \notin {"email", "whatsapp"}
    PROVE  KnowsKey(SlotIsFree(r), now, known)
<1>1. CASE r.op = "create"
  <2> DEFINE k == ~r.admin /\ Occupies(r.slot, "pending", now)
  <2>1. SlotIsFree(r) = [r EXCEPT !.pc = "save", !.takesKey = k]
    BY <1>1 DEF SlotIsFree
  <2>2. ~k => r.admin \/ ~IsFuture(r.slot, now)
    BY DEF Occupies, ActiveStatuses
  <2> HIDE DEF k
  <2>3. /\ SlotIsFree(r).pc = "save" /\ SlotIsFree(r).takesKey = k /\ SlotIsFree(r).op = "create"
        /\ SlotIsFree(r).admin = r.admin /\ SlotIsFree(r).client = r.client /\ SlotIsFree(r).slot = r.slot
    BY <1>1, <2>1 DEF RequestType
  <2> QED
    BY <1>1, <2>2, <2>3 DEF KnowsKey
<1>2. CASE r.op = "update"
  <2> DEFINE s == SlotIsFree(r)
  <2>1. /\ s.op = "update" /\ s.slot = r.slot /\ s.seen = r.seen /\ s.dto = r.dto
        /\ s.pc = IF Occupies(r.slot, NewStatus(r.seen, r.dto), now) THEN "client" ELSE "write"
    BY <1>2 DEF SlotIsFree, RequestType
  <2> HIDE DEF s
  <2>2. KnowsKey(s, now, known)
    BY <2>1 DEF KnowsKey
  <2> QED
    BY <2>2 DEF s
<1> QED
  BY <1>1, <1>2

LEMMA KnowsKeyStep ==
    ASSUME KnowInv, KnowsKeysInv, [Next]_vars, Recalls, NEW q \in Requests
    PROVE  KnowsKey(req'[q], now', been')
<1> DEFINE r == req[q]
           s == req'[q]
<1>1. /\ Shape /\ r \in RequestType /\ HandlerOK(r) /\ KnowsKey(r, now, been) /\ Moves(q)
      /\ s \in RequestType /\ HandlerOK(s)
      /\ now \in Nat /\ now' \in Nat /\ now <= now' /\ been \subseteq been'
  BY NextShape, HandlerMoves, ClockAdvances, Recalled DEF KnowInv, KnowsKeysInv, Shape, TypeOK
<1>2. KnowsKey(s, now, been) => KnowsKey(s, now', been')
  BY <1>1, KnowsKeyOn
<1>3. CASE s = r \/ s = Idle \/ Archives(q) \/ Asks(q)
  <2>1. Archives(q) => s.op = "archive" /\ s.pc = "archive"
    BY IdleFacts DEF Archives, RequestType
  <2>2. Asks(q) => s.op = "update" /\ s.pc = "load"
    BY IdleFacts DEF Asks, UpdateRequest, Idle
  <2> QED
    BY <1>1, <1>2, <1>3, <2>1, <2>2, IdleFacts DEF KnowsKey
<1>4. CASE Saves(q) \/ Announces(q)
  <2>1. s.pc \in {"email", "mail"} /\ (s.op = "create" => s.pc = "email")
    <3>1. Saves(q) => s.pc = "email"
      BY <1>1, AfterWriting
    <3>2. Announces(q) => s.pc = "mail" /\ s.op = "update"
      BY <1>1, AfterWriting DEF RequestType, Announces, HandlerOK
    <3> QED
      BY <1>4, <3>1, <3>2
  <2> QED
    BY <2>1 DEF KnowsKey
<1>5. CASE Starts(q)
  <2>1. PICK c \in Users, slot \in Slots :
            /\ users[c] # Null
            /\ s = [Idle EXCEPT !.op = "create", !.client = c, !.slot = slot,
                                !.admin = (users[c].role = "admin"),
                                !.pc = IF users[c].role = "admin" THEN "barber" ELSE "release"]
    BY <1>5 DEF Starts
  <2>2. s.admin = (users[c].role = "admin") /\ s.client = c /\ s.pc \in {"barber", "release"}
    BY <2>1, IdleFacts DEF RequestType
  <2>3. users[c].role = "admin" => c \in been
    BY <2>1 DEF KnowsKeysInv, AdminsAreKnown
  <2> QED
    BY <1>1, <2>2, <2>3 DEF KnowsKey
<1>6. CASE Reads(q)
  <2>1. PICK u \in RequestType :
            u.op = "update" /\ u.pc = "load" /\ s = Loaded(u, appts[u.appt])
    BY <1>6 DEF Reads
  <2> DEFINE cur == appts[u.appt]
             read == [u EXCEPT !.seen = cur.status, !.client = cur.client,
                               !.slot = Merge(cur.slot, u.dto), !.at = now]
  <2>2. s = IF ChecksSlot(u, cur) THEN [read EXCEPT !.pc = "barber"] ELSE SlotIsFree(read)
    BY <2>1 DEF Loaded
  <2>3. CASE ChecksSlot(u, cur)
    <3>1. s.pc = "barber" /\ s.op = "update"
      BY <2>1, <2>2, <2>3 DEF RequestType
    <3> QED
      BY <3>1 DEF KnowsKey
  <2>4. CASE ~ChecksSlot(u, cur)
    <3> DEFINE n == NewStatus(read.seen, read.dto)
    <3>1. /\ s.op = "update" /\ s.slot = read.slot /\ s.seen = read.seen /\ s.dto = read.dto
          /\ s.pc = IF Occupies(read.slot, n, now) THEN "client" ELSE "write"
      BY <2>1, <2>2, <2>4 DEF SlotIsFree, RequestType
    <3> HIDE DEF s, read
    <3>2. KnowsKey(s, now, been)
      BY <3>1 DEF KnowsKey
    <3> QED
      BY <1>2, <3>2 DEF s
  <2> QED
    BY <2>3, <2>4
<1>7. CASE Frees(q)
  <2>1. r.op \in {"create", "update"} /\ r.pc \notin {"email", "whatsapp"} /\ s = SlotIsFree(r)
    BY <1>1, <1>7 DEF Frees, HandlerOK
  <2>2. r.op = "create" /\ r.pc \notin {"email", "whatsapp"} /\ r.admin => r.client \in been
    BY <1>1 DEF KnowsKey
  <2> QED
    BY <1>1, <1>2, <2>1, <2>2, FreeKnowsKey
<1>8. CASE Consults(q)
  <2>1. s.client = r.client /\ s.op = "update" /\ r.client \in Users /\ s.pc \in {"write", "release"}
    BY <1>1, <1>8 DEF Consults, Passes, RequestType, HandlerOK
  <2>2. s.pc = "write" => users[r.client] # Null /\ users[r.client].role = "admin"
    BY <1>1, <1>8 DEF Consults, Passes, RequestType
  <2>3. s.pc = "write" => r.client \in been
    BY <2>1, <2>2 DEF KnowsKeysInv, AdminsAreKnown
  <2> QED
    BY <1>1, <2>1, <2>3 DEF KnowsKey
<1>9. CASE TakesKey(q)
  <2>1. s.op = "update" /\ s.pc = "write" /\ s.takesKey
    BY <1>1, <1>9 DEF TakesKey, RequestType
  <2> QED
    BY <2>1 DEF KnowsKey
<1>10. CASE Proceeds(q)
  <2>1. /\ s.op = r.op /\ s.admin = r.admin /\ s.client = r.client
        /\ s.pc \in {"active", "barber", "schedule", "slot", "whatsapp"}
        /\ s.pc # "whatsapp" => r.pc \notin {"email", "whatsapp"}
    BY <1>1, <1>10 DEF Proceeds, Passes, RequestType
  <2> QED
    BY <1>1, <2>1 DEF KnowsKey
<1> QED
  BY <1>1, <1>3, <1>4, <1>5, <1>6, <1>7, <1>8, <1>9, <1>10 DEF Moves

LEMMA AheadHoldsKeyStep ==
    ASSUME SlotsInv, KeyInv, [Next]_vars, Recalls, NEW a \in Appts \ stale',
           appts'[a].status \in ActiveStatuses, appts'[a].client \notin been',
           IsFuture(appts'[a].slot, now')
    PROVE  appts'[a].activeClientKey = appts'[a].client
<1> DEFINE doc == appts[a]
           new == appts'[a]
<1>1. /\ Shape /\ Shape' /\ doc \in ApptType
      /\ now \in Nat /\ now' \in Nat /\ now <= now'
  BY NextShape, ClockAdvances DEF SlotsInv, KnowInv, Shape, TypeOK
<1>2. IsFuture(new.slot, now)
  <2>1. new.slot \in Slots
    BY <1>1 DEF Shape, DocsOK, ActiveStatuses
  <2> QED
    BY <1>1, <2>1, FutureFades
<1>3. doc.status \in ActiveStatuses /\ doc.slot = new.slot /\ doc.client = new.client =>
          doc.activeClientKey = doc.client
  BY <1>2, Recalled DEF KeyInv, AheadHoldsKey, Ahead, Active, Fresh
<1>4. CASE new = doc
  BY <1>3, <1>4
<1>5. CASE IsArchived(a)
  BY <1>1, <1>3, <1>5 DEF IsArchived, ApptType
<1>6. CASE IsReleased(a)
  <2>1. PICK c \in Users : new = Released(doc, c)
    BY <1>6 DEF IsReleased
  <2>2. doc.status = new.status /\ doc.slot = new.slot /\ doc.client = new.client
    BY <1>1, <2>1 DEF Released, ApptType
  <2>3. Occupies(doc.slot, doc.status, now)
    BY <1>2, <2>2 DEF Occupies
  <2>4. new = doc
    BY <2>1, <2>3 DEF Released
  <2> QED
    BY <1>4, <2>4
<1>7. CASE IsSaved(a)
  <2>1. PICK p \in Requests : req[p].pc = "save" /\ new = NewAppt(req[p])
    BY <1>7 DEF IsSaved
  <2>2. /\ new.slot = req[p].slot /\ new.client = req[p].client
        /\ new.activeClientKey = IF req[p].takesKey THEN req[p].client ELSE Null
    BY <2>1 DEF NewAppt, NoAppt
  <2>3. KnowsKey(req[p], now, been) /\ req[p].op = "create"
    BY <1>1, <2>1, ShapeFacts DEF KeyInv, KnowsKeysInv, HandlerOK
  <2> QED
    BY <1>2, <2>1, <2>2, <2>3, Recalled DEF KnowsKey
<1>8. CASE IsWritten(a) /\ new # doc
  <2>1. PICK p \in Requests :
            /\ req[p].pc = "write"
            /\ new.status = NewStatus(req[p].seen, req[p].dto)
            /\ new.slot = req[p].slot /\ new.client = req[p].client
            /\ new.activeClientKey = IF req[p].takesKey THEN req[p].client ELSE Null
    BY <1>8, WritesWhatItChecked
  <2>2. KnowsKey(req[p], now, been)
    BY DEF KeyInv, KnowsKeysInv
  <2> QED
    BY <1>2, <2>1, <2>2, Recalled DEF KnowsKey, Occupies
<1>9. ~IsCompleted(a)
  BY <1>1, CompletedType DEF IsCompleted, ActiveStatuses
<1> QED
  BY <1>1, <1>4, <1>5, <1>6, <1>7, <1>8, <1>9, DocStep

LEMMA NextKeyInv ==
    ASSUME SlotsInv, KeyInv, [Next]_vars, Recalls
    PROVE  KeyInv'
<1>1. AheadHoldsKey'
  BY AheadHoldsKeyStep DEF AheadHoldsKey, Ahead, Active, Fresh
<1> QED
  BY <1>1, AdminsStep, KnowsKeyStep DEF KeyInv, KnowsKeysInv, SlotsInv

LEMMA InitKeyInv == Init /\ HistoryInit => KeyInv
<1> SUFFICES ASSUME Init, HistoryInit PROVE KeyInv
  OBVIOUS
<1>1. AdminsAreKnown
  BY DEF Init, Opening, AdminsAreKnown, HistoryInit
<1>2. AheadHoldsKey
  BY DEF Init, Opening, NoAppt, AheadHoldsKey, Ahead, Active, ActiveStatuses, Fresh
<1>3. \A p \in Requests : KnowsKey(req[p], now, been)
  BY IdleFacts DEF Init, Opening, KnowsKey
<1> QED
  BY <1>1, <1>2, <1>3 DEF KeyInv, KnowsKeysInv

LEMMA KeyInvariant == OverlapSpec => [](SlotsInv /\ KeyInv)
<1>1. SlotsInv /\ KeyInv /\ [OverlapNext]_<<vars, history>> => KeyInv'
  BY NextKeyInv, RecordedStep
<1> QED
  BY <1>1, SlotsInvariant, InitKeyInv, PTL DEF OverlapSpec

(* A reservation that lies ahead holds the key of its client, also after it  *)
(* was moved, or confirmed by a handler that looked at it earlier: unless    *)
(* the client was an administrator at some time, or the write was stale.     *)
THEOREM ReservationsAheadHoldKeys == OverlapSpec => []AheadHoldsKey
<1>1. KeyInv => AheadHoldsKey
  BY DEF KeyInv
<1> QED
  BY <1>1, KeyInvariant, PTL

(* No client has two reservations ahead, however many creations and updates  *)
(* overlap: both would hold the client's key, which is unique.               *)
THEOREM OneAheadPerClient == OverlapSpec => []OneAheadEach
<1>1. ASSUME SlotsInv, KeyInv PROVE OneAheadEach
  <2> SUFFICES ASSUME NEW a \in Fresh, NEW b \in Fresh,
                      a # b, Ahead(a), Ahead(b), appts[a].client = appts[b].client
               PROVE  FALSE
    BY DEF OneAheadEach
  <2>1. appts[a].activeClientKey = appts[a].client /\ appts[b].activeClientKey = appts[b].client
    BY <1>1 DEF KeyInv, AheadHoldsKey
  <2>2. appts[a].client \in Users /\ a \in Appts /\ b \in Appts
    BY <1>1 DEF SlotsInv, KnowInv, Shape, DocsOK, Ahead, Active, ActiveStatuses, Fresh
  <2> QED
    BY <1>1, <2>1, <2>2, NullFacts DEF SlotsInv, ClientKeysAreUnique
<1> QED
  BY <1>1, KeyInvariant, PTL

-------------------------------------------------------------------------------
\* The ledger

\* Of the collection docs, of which the ledger has lost the entries in out
Holds(docs, out, a, slot) ==
    a \in Appts \ out /\ docs[a].status \in HeldStatuses /\ docs[a].slot = slot

HolderIn(docs, out, slot) ==
    IF \E a \in Appts \ out : docs[a].status \in HeldStatuses /\ docs[a].slot = slot
    THEN CHOOSE a \in Appts \ out : docs[a].status \in HeldStatuses /\ docs[a].slot = slot
    ELSE Null

\* Nobody shares a slot: OneHolderEach, of the collection docs
Exclusive(docs, out) ==
    \A a, b \in Appts : \A slot \in Slots : Holds(docs, out, a, slot) /\ Holds(docs, out, b, slot) => a = b

(* The holder that the ledger shows is the reservation that has the slot. *)
LEMMA HolderIsUnique ==
    ASSUME NEW docs, NEW out, Exclusive(docs, out), NEW slot \in Slots
    PROVE  /\ \A a \in Appts : Holds(docs, out, a, slot) <=> HolderIn(docs, out, slot) = a
           /\ HolderIn(docs, out, slot) \in Appts \cup {Null}
<1>1. CASE \E a \in Appts : Holds(docs, out, a, slot)
  <2>1. \E a \in Appts \ out : docs[a].status \in HeldStatuses /\ docs[a].slot = slot
    BY <1>1 DEF Holds
  <2>2. /\ HolderIn(docs, out, slot) \in Appts \ out
        /\ docs[HolderIn(docs, out, slot)].status \in HeldStatuses
        /\ docs[HolderIn(docs, out, slot)].slot = slot
    BY <2>1, Zenon DEF HolderIn
  <2>3. Holds(docs, out, HolderIn(docs, out, slot), slot)
    BY <2>2 DEF Holds
  <2> QED
    BY <2>2, <2>3 DEF Exclusive
<1>2. CASE ~\E a \in Appts : Holds(docs, out, a, slot)
  <2>1. HolderIn(docs, out, slot) = Null
    BY <1>2 DEF HolderIn, Holds
  <2> QED
    BY <1>2, <2>1, NullFacts
<1> QED
  BY <1>1, <1>2

LEMMA SlotsInvExclusive == SlotsInv => Exclusive(appts, stale)
<1> SUFFICES ASSUME SlotsInv, NEW a \in Appts, NEW b \in Appts, NEW slot \in Slots,
                    Holds(appts, stale, a, slot), Holds(appts, stale, b, slot)
             PROVE  a = b
  BY DEF Exclusive
<1>1. OneHolderEach
  BY SlotsInvGivesOneHolder
<1> QED
  BY <1>1 DEF OneHolderEach, Fresh, Held, Holds

\* At most one entry of the ledger changes in a step.
OneEntry ==
    \E a \in Appts : /\ IsSaved(a) \/ IsWritten(a) \/ IsCompleted(a)
                     /\ \A b \in Appts \ {a} : appts'[b] = appts[b]

SameEntries ==
    \A b \in Appts : appts'[b].status = appts[b].status /\ appts'[b].slot = appts[b].slot

LEMMA EntriesStep ==
    ASSUME Shape, [Next]_vars
    PROVE  SameEntries \/ OneEntry
<1>0. appts \in [Appts -> ApptType]
  BY DEF Shape, TypeOK
<1>1. appts' = appts => SameEntries
  BY DEF SameEntries
<1>2. ASSUME NEW p \in Requests, NEW a \in Appts, Save(p, a) PROVE appts' = appts \/ OneEntry
  <2>1. appts' = appts \/ appts' = [appts EXCEPT ![a] = NewAppt(req[p])]
    BY <1>2 DEF Save
  <2>2. \A b \in Appts \ {a} : appts'[b] = appts[b]
    BY <1>0, <2>1
  <2>3. appts'[a] = appts[a] => appts' = appts
    BY <1>0, <2>1
  <2> QED
    BY <1>2, <2>2, <2>3, SaveWrites DEF OneEntry
<1>3. ASSUME NEW p \in Requests, Write(p) PROVE appts' = appts \/ OneEntry
  <2> DEFINE a == req[p].appt
  <2>1. a \in Appts
    BY <1>3, ShapeFacts DEF Write, HandlerOK
  <2>2. appts' = appts \/ appts' = [appts EXCEPT ![a] = Updated(req[p], appts[a])]
    BY <1>3 DEF Write
  <2>3. \A b \in Appts \ {a} : appts'[b] = appts[b]
    BY <1>0, <2>1, <2>2
  <2>4. appts'[a] = appts[a] => appts' = appts
    BY <1>0, <2>1, <2>2
  <2> QED
    BY <1>3, <2>1, <2>3, <2>4, WriteWrites DEF OneEntry
<1>4. ASSUME NEW p \in Requests, ReleaseKeys(p) PROVE SameEntries
  BY <1>0, <1>4 DEF ReleaseKeys, Released, ApptType, SameEntries
<1>5. ASSUME NEW p \in Requests, Archive(p) PROVE SameEntries
  <2>1. \A b \in Appts : appts'[b] = appts[b] \/ appts'[b] = [appts[b] EXCEPT !.archived = TRUE]
    BY <1>5, ArchiveWrites DEF IsArchived
  <2> QED
    BY <1>0, <2>1 DEF ApptType, SameEntries
<1>6. ASSUME NEW w \in todo, JobWrite(w) PROVE appts' = appts \/ OneEntry
  <2>1. w.appt \in Appts /\ Job
    BY <1>6 DEF Shape, TypeOK, Job
  <2>2. appts' = appts \/ appts' = [appts EXCEPT ![w.appt] = Completed(appts[w.appt])]
    BY <1>6 DEF JobWrite
  <2>3. \A b \in Appts \ {w.appt} : appts'[b] = appts[b]
    BY <1>0, <2>1, <2>2
  <2>4. appts'[w.appt] = appts[w.appt] => appts' = appts
    BY <1>0, <2>1, <2>2
  <2> QED
    BY <2>1, <2>3, <2>4, JobWrites DEF OneEntry
<1>7. ASSUME NEW p \in Requests, Create(p) PROVE SameEntries \/ OneEntry
  BY <1>1, <1>2, <1>7 DEF Create, StartCreate, EmailPending, Notify
<1>8. ASSUME NEW p \in Requests, Update(p) PROVE SameEntries \/ OneEntry
  BY <1>1, <1>3, <1>8 DEF Update, StartPatch, StartCancelMine, StartLink, Load, ReadClient, Mail
<1>9. ASSUME NEW p \in Requests, Shared(p) PROVE SameEntries
  BY <1>1, <1>4, <1>9 DEF Shared, CheckActive, ReadBarber, ReadSchedule, CheckSlot
<1>10. ASSUME NEW p \in Requests, Archiving(p) \/ Abandon(p) PROVE SameEntries
  BY <1>1, <1>5, <1>10 DEF Archiving, StartArchive, Abandon
<1>11. CASE Job
  BY <1>1, <1>6, <1>11 DEF Job, JobFind, JobFail
<1>12. CASE Directory \/ Restart \/ Tick \/ UNCHANGED vars
  BY <1>1, <1>12 DEF Directory, People, ChangeRole, SetBookingAccess, RemoveUser, AddUser, AddBarber,
              SetBarber, EditSchedule, Restart, Tick, vars
<1> QED
  BY <1>7, <1>8, <1>9, <1>10, <1>11, <1>12, Zenon DEF Next

(* What one changed reservation makes of the holder of a slot. *)
LEMMA HolderStep ==
    ASSUME Exclusive(appts, stale), Exclusive(appts', stale'), NEW a \in Appts,
           \A b \in Appts \ {a} : appts'[b] = appts[b] /\ (b \in stale' <=> b \in stale),
           NEW slot \in Slots
    PROVE  /\ HolderIn(appts', stale', slot) = IF Holds(appts', stale', a, slot) THEN a
                                              ELSE IF HolderIn(appts, stale, slot) = a THEN Null
                                              ELSE HolderIn(appts, stale, slot)
           /\ Holds(appts', stale', a, slot) => HolderIn(appts, stale, slot) \in {a, Null}
<1>1. /\ \A b \in Appts : Holds(appts, stale, b, slot) <=> HolderIn(appts, stale, slot) = b
      /\ HolderIn(appts, stale, slot) \in Appts \cup {Null}
  BY HolderIsUnique
<1>2. /\ \A b \in Appts : Holds(appts', stale', b, slot) <=> HolderIn(appts', stale', slot) = b
      /\ HolderIn(appts', stale', slot) \in Appts \cup {Null}
  BY HolderIsUnique
<1>3. \A b \in Appts \ {a} : Holds(appts', stale', b, slot) <=> Holds(appts, stale, b, slot)
  BY DEF Holds
<1> QED
  BY <1>1, <1>2, <1>3, NullFacts

LedgerStates == [a \in Appts |-> IF a \in stale THEN "lost" ELSE appts[a].status]

LedgerHolders == [slot \in Slots |-> HolderOf(slot)]

LEMMA HoldersOfAppts ==
    /\ LedgerHolders = [slot \in Slots |-> HolderIn(appts, stale, slot)]
    /\ LedgerHolders' = [slot \in Slots |-> HolderIn(appts', stale', slot)]
  BY DEF LedgerHolders, HolderOf, HolderIn, Held, Fresh

(* A step that changes what was lost, if anything, is not in the book. *)
LEMMA SameBook ==
    ASSUME Exclusive(appts, stale), Exclusive(appts', stale'), stale' = stale,
           \A b \in Appts \ stale : appts'[b].status = appts[b].status /\ appts'[b].slot = appts[b].slot
    PROVE  LedgerStates' = LedgerStates /\ LedgerHolders' = LedgerHolders
<1>1. LedgerStates' = LedgerStates
  BY DEF LedgerStates
<1>2. \A slot \in Slots : HolderIn(appts', stale', slot) = HolderIn(appts, stale, slot)
  <2> TAKE slot \in Slots
  <2>1. \A a \in Appts : Holds(appts', stale', a, slot) <=> Holds(appts, stale, a, slot)
    BY DEF Holds
  <2>2. /\ \A b \in Appts : Holds(appts, stale, b, slot) <=> HolderIn(appts, stale, slot) = b
        /\ HolderIn(appts, stale, slot) \in Appts \cup {Null}
    BY HolderIsUnique
  <2>3. /\ \A b \in Appts : Holds(appts', stale', b, slot) <=> HolderIn(appts', stale', slot) = b
        /\ HolderIn(appts', stale', slot) \in Appts \cup {Null}
    BY HolderIsUnique
  <2> QED
    BY <2>1, <2>2, <2>3
<1> QED
  BY <1>1, <1>2, HoldersOfAppts

(* A stale write loses one entry. *)
LEMMA LoseStep ==
    ASSUME Exclusive(appts, stale), Exclusive(appts', stale'), NEW a \in Appts,
           \A b \in Appts \ {a} : appts'[b] = appts[b],
           a \notin stale, stale' = stale \cup {a}
    PROVE  /\ LedgerStates' = [LedgerStates EXCEPT ![a] = "lost"]
           /\ LedgerHolders' = [t \in Slots |-> IF LedgerHolders[t] = a THEN Null ELSE LedgerHolders[t]]
<1>1. LedgerStates' = [LedgerStates EXCEPT ![a] = "lost"]
  BY DEF LedgerStates
<1>2. \A t \in Slots : HolderIn(appts', stale', t) =
            IF HolderIn(appts, stale, t) = a THEN Null ELSE HolderIn(appts, stale, t)
  <2> TAKE t \in Slots
  <2>1. ~Holds(appts', stale', a, t)
    BY DEF Holds
  <2> QED
    BY <2>1, HolderStep
<1> QED
  BY <1>1, <1>2, HoldersOfAppts

(* A reservation that is made takes a free slot of the book. *)
LEMMA ReserveStep ==
    ASSUME Exclusive(appts, stale), Exclusive(appts', stale'), Shape, NEW a \in Appts \ stale, IsSaved(a),
           stale' = stale,
           \A b \in Appts \ {a} : appts'[b] = appts[b]
    PROVE  \E s \in Slots :
              /\ LedgerStates[a] = "absent" /\ LedgerHolders[s] = Null
              /\ LedgerStates' = [LedgerStates EXCEPT ![a] = "pending"]
              /\ LedgerHolders' = [LedgerHolders EXCEPT ![s] = a]
<1>1. PICK p \in Requests :
          /\ req[p].pc = "save" /\ appts[a].status = "absent" /\ appts'[a] = NewAppt(req[p])
  BY DEF IsSaved
<1> DEFINE s == req[p].slot
<1>2. req[p] \in RequestType /\ s \in Slots /\ req[p].client \in Users
  BY <1>1, ShapeFacts DEF HandlerOK
<1>3. appts'[a].status = "pending" /\ appts'[a].slot = s
  BY <1>1, <1>2, NewApptType
<1> HIDE DEF s
<1>4. \A t \in Slots : (Holds(appts', stale', a, t) <=> t = s) /\ ~Holds(appts, stale, a, t)
  BY <1>1, <1>3 DEF Holds, HeldStatuses
<1>5. \A t \in Slots : HolderIn(appts, stale, t) # a
  BY <1>4, HolderIsUnique
<1>6. \A t \in Slots : HolderIn(appts', stale', t) = IF t = s THEN a ELSE HolderIn(appts, stale, t)
  BY <1>4, <1>5, HolderStep
<1>7. HolderIn(appts, stale, s) = Null
  BY <1>2, <1>4, <1>5, HolderStep
<1>8. LedgerStates' = [LedgerStates EXCEPT ![a] = "pending"] /\ LedgerStates[a] = "absent"
  BY <1>1, <1>3 DEF LedgerStates
<1>9. LedgerHolders' = [LedgerHolders EXCEPT ![s] = a] /\ LedgerHolders[s] = Null
  BY <1>2, <1>6, <1>7, HoldersOfAppts
<1> QED
  BY <1>2, <1>8, <1>9

(* An update, or the job, amends the entry of one reservation. *)
LEMMA AmendStep ==
    ASSUME Exclusive(appts, stale), Exclusive(appts', stale'), NEW a \in Appts \ stale, stale' = stale,
           \A b \in Appts \ {a} : appts'[b] = appts[b],
           appts[a].status \in ActiveStatuses, appts[a].slot \in Slots,
           appts'[a].status \in Statuses, appts'[a].slot \in Slots
    PROVE  \E s \in Slots :
              /\ LedgerHolders[s] \in {a, Null}
              /\ LedgerStates' = [LedgerStates EXCEPT ![a] = appts'[a].status]
              /\ LedgerHolders' =
                    [t \in Slots |-> IF t = s /\ appts'[a].status # "cancelled" THEN a
                                     ELSE IF LedgerHolders[t] = a THEN Null ELSE LedgerHolders[t]]
<1> DEFINE n == appts'[a].status
           s == IF n = "cancelled" THEN appts[a].slot ELSE appts'[a].slot
<1>1. s \in Slots
  OBVIOUS
<1>2. \A t \in Slots : Holds(appts', stale', a, t) <=> t = s /\ n # "cancelled"
  BY DEF Holds, HeldStatuses, Statuses, ActiveStatuses, FinalStatuses
<1>3. n = "cancelled" => Holds(appts, stale, a, s)
  BY DEF Holds, HeldStatuses, ActiveStatuses
<1> HIDE DEF s
<1>4. HolderIn(appts, stale, s) \in {a, Null}
  BY <1>1, <1>2, <1>3, HolderStep, HolderIsUnique
<1>5. \A t \in Slots :
        HolderIn(appts', stale', t) = IF t = s /\ n # "cancelled" THEN a
                              ELSE IF HolderIn(appts, stale, t) = a THEN Null ELSE HolderIn(appts, stale, t)
  BY <1>2, HolderStep
<1>6. LedgerStates' = [LedgerStates EXCEPT ![a] = n]
  BY DEF LedgerStates
<1> HIDE DEF n
<1>7. LedgerHolders' = [t \in Slots |-> IF t = s /\ n # "cancelled" THEN a
                                        ELSE IF LedgerHolders[t] = a THEN Null ELSE LedgerHolders[t]]
  BY <1>5, HoldersOfAppts
<1>8. LedgerHolders[s] \in {a, Null}
  BY <1>1, <1>4, HoldersOfAppts
<1> QED
  BY <1>1, <1>6, <1>7, <1>8 DEF n

(* What becomes stale is one reservation, which an update has just written. *)
LEMMA StaleStep ==
    ASSUME SlotsInv, [Next]_vars, Recalls, stale' # stale
    PROVE  \E a \in Appts \ stale : /\ stale' = stale \cup {a} /\ appts[a].status \in ActiveStatuses
                                   /\ \A b \in Appts \ {a} : appts'[b] = appts[b]
<1>1. Remember /\ Shape /\ overtaken \subseteq Requests
  BY DEF Recalls, history, SlotsInv, KnowInv
<1>2. PICK p \in Requests, a \in Appts : Writes(p, a) /\ a \in stale' /\ a \notin stale
  BY <1>1 DEF Remember
<1>3. req[p].pc = "write" /\ req[p].appt = a /\ req'[p] # req[p] /\ appts'[a] # appts[a]
  BY <1>2 DEF Writes
<1>4. Write(p) /\ FilterMatches(req[p], appts[a])
  BY <1>1, <1>3, WriterWrites
<1>5. appts[a].status \in ActiveStatuses
  BY <1>1, <1>3, <1>4, WriterFacts
<1>6. \A b \in Appts \ {a} : appts'[b] = appts[b]
  BY <1>1, <1>3, <1>4 DEF Write, Shape, TypeOK
<1>7. \A q \in overtaken, b \in Appts : Writes(q, b) => b = a
  BY <1>6 DEF Writes
<1>8. stale' = stale \cup {a}
  BY <1>1, <1>2, <1>7 DEF Remember
<1> QED
  BY <1>2, <1>5, <1>6, <1>8

(* Every step of the handlers is an entry in the book, or none. *)
LEMMA LedgerStep ==
    ASSUME SlotsInv, SlotsInv', [Next]_vars, Recalls
    PROVE  [Ledger!LedgerNext]_<<LedgerStates, LedgerHolders>>
<1>1. Shape /\ Exclusive(appts, stale) /\ Exclusive(appts', stale')
  <2>1. Exclusive(appts, stale)
    BY SlotsInvExclusive
  <2>2. Exclusive(appts, stale)'
    BY SlotsInvExclusive, PTL
  <2> QED
    BY <2>1, <2>2 DEF SlotsInv, KnowInv, Exclusive, Holds
<1>2. Shape /\ appts \in [Appts -> ApptType]
  BY DEF SlotsInv, KnowInv, Shape, TypeOK
<1>3. \A a \in Appts : appts[a].status # "absent" => appts[a].slot \in Slots
  BY <1>2 DEF Shape, DocsOK
<1>4. \A a \in Appts \ stale : LedgerStates[a] = appts[a].status
  BY DEF LedgerStates
<1>5. CASE stale' # stale
  <2>1. PICK a \in Appts \ stale : /\ stale' = stale \cup {a} /\ appts[a].status \in ActiveStatuses
                                  /\ \A b \in Appts \ {a} : appts'[b] = appts[b]
    BY <1>5, StaleStep
  <2>2. /\ LedgerStates' = [LedgerStates EXCEPT ![a] = "lost"]
        /\ LedgerHolders' = [t \in Slots |-> IF LedgerHolders[t] = a THEN Null ELSE LedgerHolders[t]]
    BY <1>1, <2>1, LoseStep
  <2>3. LedgerStates[a] \in Ledger!ActiveStates
    BY <1>4, <2>1 DEF ActiveStatuses, Ledger!ActiveStates
  <2>4. Ledger!Lose(a)
    BY <2>2, <2>3 DEF Ledger!Lose, LedgerStates, LedgerHolders
  <2> QED
    BY <2>1, <2>4 DEF Ledger!LedgerNext
<1>6. ASSUME NEW a \in Appts \ stale, \A b \in Appts \ {a} : appts'[b] = appts[b], IsSaved(a), stale' = stale
      PROVE  Ledger!LedgerNext
  <2>1. PICK s \in Slots :
              /\ LedgerStates[a] = "absent" /\ LedgerHolders[s] = Null
              /\ LedgerStates' = [LedgerStates EXCEPT ![a] = "pending"]
              /\ LedgerHolders' = [LedgerHolders EXCEPT ![s] = a]
    BY <1>1, <1>6, ReserveStep
  <2>2. Ledger!Reserve(a, s)
    BY <2>1 DEF Ledger!Reserve, LedgerStates, LedgerHolders
  <2> QED
    BY <2>2 DEF Ledger!LedgerNext
<1>7. ASSUME NEW a \in Appts \ stale, \A b \in Appts \ {a} : appts'[b] = appts[b], stale' = stale,
             appts[a].status \in ActiveStatuses, appts'[a].slot \in Slots,
             <<appts[a].status, appts'[a].status>> \in Legal \/ appts'[a].status = appts[a].status
      PROVE  Ledger!LedgerNext
  <2> DEFINE to == appts'[a].status
  <2>1. to \in Statuses /\ appts[a].slot \in Slots
    BY <1>3, <1>7 DEF Legal, Statuses, ActiveStatuses, FinalStatuses
  <2>2. PICK s \in Slots :
              /\ LedgerHolders[s] \in {a, Null}
              /\ LedgerStates' = [LedgerStates EXCEPT ![a] = to]
              /\ LedgerHolders' =
                    [t \in Slots |-> IF t = s /\ to # "cancelled" THEN a
                                     ELSE IF LedgerHolders[t] = a THEN Null ELSE LedgerHolders[t]]
    BY <1>1, <1>7, <2>1, AmendStep
  <2>3. /\ LedgerStates[a] \in Ledger!ActiveStates
        /\ to = LedgerStates[a] \/ <<LedgerStates[a], to>> \in Ledger!Transitions
    BY <1>4, <1>7 DEF Legal, ActiveStatuses, Ledger!ActiveStates, Ledger!Transitions
  <2> HIDE DEF to
  <2>4. Ledger!Amend(a, to, s)
    BY <2>2, <2>3 DEF Ledger!Amend, LedgerStates, LedgerHolders
  <2> QED
    BY <2>1, <2>4 DEF Ledger!LedgerNext, Statuses, ActiveStatuses, FinalStatuses
<1>8. ASSUME NEW a \in Appts \ stale, \A b \in Appts \ {a} : appts'[b] = appts[b], IsWritten(a),
             appts'[a] # appts[a], stale' = stale
      PROVE  Ledger!LedgerNext
  <2>1. PICK p \in Requests :
              LET r == req[p]
                  n == NewStatus(r.seen, r.dto)
              IN  /\ appts[a].status = r.seen /\ r.seen \in ActiveStatuses /\ r.slot \in Slots
                  /\ n \in Allowed(r.seen) \cup {r.seen}
                  /\ appts'[a].status = n /\ appts'[a].slot = r.slot
    BY <1>8, WritesWhatItChecked
  <2> QED
    BY <1>7, <1>8, <2>1, AllowedIsLegal
<1>9. ASSUME NEW a \in Appts \ stale, \A b \in Appts \ {a} : appts'[b] = appts[b], IsCompleted(a), stale' = stale
      PROVE  Ledger!LedgerNext
  <2>1. /\ appts[a].status = "confirmed" /\ appts'[a].status = "completed"
        /\ appts'[a].slot = appts[a].slot
    BY <1>2, <1>9, CompletedType DEF IsCompleted, JobMatches
  <2> QED
    BY <1>3, <1>7, <1>9, <2>1 DEF ActiveStatuses, Legal
<1>10. CASE stale' = stale
             /\ \A b \in Appts \ stale : appts'[b].status = appts[b].status /\ appts'[b].slot = appts[b].slot
  <2>1. LedgerStates' = LedgerStates /\ LedgerHolders' = LedgerHolders
    BY <1>1, <1>10, SameBook
  <2> QED
    BY <2>1
<1>11. CASE stale' = stale
             /\ ~\A b \in Appts \ stale : appts'[b].status = appts[b].status /\ appts'[b].slot = appts[b].slot
  <2>1. PICK a \in Appts : /\ IsSaved(a) \/ IsWritten(a) \/ IsCompleted(a)
                           /\ \A b \in Appts \ {a} : appts'[b] = appts[b]
    BY <1>2, <1>11, EntriesStep DEF SameEntries, OneEntry
  <2>2. a \notin stale /\ appts'[a] # appts[a]
    BY <1>11, <2>1
  <2> QED
    BY <1>6, <1>8, <1>9, <1>11, <2>1, <2>2
<1> QED
  BY <1>5, <1>10, <1>11

(* The book opens empty. *)
LEMMA LedgerStarts == Init /\ HistoryInit => Ledger!LedgerInit
<1> SUFFICES ASSUME Init, HistoryInit PROVE Ledger!LedgerInit
  OBVIOUS
<1>1. \A a \in Appts : appts[a].status = "absent" /\ a \notin stale
  BY DEF Init, Opening, NoAppt, HistoryInit
<1>2. \A slot \in Slots : HolderOf(slot) = Null
  BY <1>1 DEF HolderOf, Held, HeldStatuses, Fresh
<1> QED
  BY <1>1, <1>2 DEF Ledger!LedgerInit

(* The handlers, the job and the services around them together keep the book *)
(* of module BookingLedger: a reservation is made, moved, decided, completed *)
(* and cancelled in one step each, however many database operations it took, *)
(* and never at a slot that another reservation holds; a write by a handler  *)
(* that was overtaken loses the entry it is made to, and no other.           *)
THEOREM LedgerIsKept == OverlapSpec => KeepsTheLedger
<1>1. SlotsInv /\ SlotsInv' /\ [OverlapNext]_<<vars, history>>
        => [Ledger!LedgerNext]_<<LedgerStates, LedgerHolders>>
  BY LedgerStep, RecordedStep
<1>2. [Ledger!LedgerNext]_<<LedgerStates, LedgerHolders>>
        => [Ledger!LedgerNext]_<<[a \in Appts |-> IF a \in stale THEN "lost" ELSE appts[a].status],
                                 [slot \in Slots |-> HolderOf(slot)]>>
  BY DEF LedgerStates, LedgerHolders
<1> QED
  BY <1>1, <1>2, LedgerStarts, SlotsInvariant, PTL DEF OverlapSpec, KeepsTheLedger, Ledger!LedgerSpec

===============================================================================
