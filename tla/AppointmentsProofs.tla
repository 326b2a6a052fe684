-------------------------- MODULE AppointmentsProofs --------------------------
EXTENDS Appointments, TLAPS

-------------------------------------------------------------------------------
\* The operators

LEMMA NullFacts ==
    /\ Null \notin Slots /\ Null \notin Users /\ Null \notin Barbers /\ Null \notin Appts
    /\ Null \notin Days /\ Null \notin Hours /\ Null \notin Statuses
  BY NullAssumption

LEMMA NoDtoFacts ==
    /\ NoDto \in DtoType /\ ~ChangesSlot(NoDto)
    /\ \A s \in Statuses : /\ StatusDto(s) \in DtoType /\ ~ChangesSlot(StatusDto(s))
                           /\ StatusDto(s).status = s
  BY DEF NoDto, StatusDto, DtoType, ChangesSlot, Statuses

LEMMA IdleFacts == Idle \in RequestType /\ HandlerOK(Idle) /\ Idle.op = "none" /\ Idle.pc = "idle"
  BY NoDtoFacts, ConstantsAssumption DEF Idle, RequestType, HandlerOK, Instants, Stages

(* A PATCH asks for a slot. *)
LEMMA MergeIsSlot ==
    ASSUME NEW slot \in Slots, NEW dto \in DtoType
    PROVE  Merge(slot, dto) \in Slots
  BY DEF Merge, Slots, DtoType

(* A body that names no part of the slot leaves the slot alone. *)
LEMMA MergeKeeps ==
    ASSUME NEW slot \in Slots, NEW dto, ~ChangesSlot(dto)
    PROVE  Merge(slot, dto) = slot
  BY DEF Merge, Slots, ChangesSlot

LEMMA NewStatusType ==
    ASSUME NEW s \in Statuses, NEW dto \in DtoType
    PROVE  NewStatus(s, dto) \in Statuses
  BY DEF NewStatus, DtoType

-------------------------------------------------------------------------------
\* Type correctness

(* A handler that becomes a well-formed record leaves the rest in shape. *)
LEMMA HandlerStep ==
    ASSUME Shape, NEW p \in Requests, NEW r \in RequestType, HandlerOK(r), Become(p, r),
           UNCHANGED <<now, todo, users, barbers, agenda>>,
           appts' \in [Appts -> ApptType], DocsOK',
           mail' \in [Appts -> MailType],
           links' \in [Appts -> LinkType \cup {Null}]
    PROVE  Shape'
<1>1. req' = [req EXCEPT ![p] = r] /\ req \in [Requests -> RequestType]
  BY DEF Become, Shape, TypeOK
<1>2. req' \in [Requests -> RequestType] /\ \A q \in Requests : req'[q] = IF q = p THEN r ELSE req[q]
  BY <1>1
<1>3. TypeOK'
  BY <1>2 DEF Shape, TypeOK
<1>4. \A q \in Requests : HandlerOK(req'[q])
  BY <1>2 DEF Shape
<1> QED
  BY <1>3, <1>4 DEF Shape

(* What Shape says of a handler and of the reservation it is about. *)
LEMMA ShapeFacts ==
    ASSUME Shape, NEW p \in Requests
    PROVE  req[p] \in RequestType /\ HandlerOK(req[p]) /\ now \in Instants
           /\ appts \in [Appts -> ApptType]
           /\ mail \in [Appts -> MailType]
           /\ links \in [Appts -> LinkType \cup {Null}]
  BY DEF Shape, TypeOK

(* A handler that stops leaves everything in shape. *)
LEMMA FinishShape ==
    ASSUME Shape, NEW p \in Requests, Finish(p),
           UNCHANGED <<now, appts, todo, mail, links, users, barbers, agenda>>
    PROVE  Shape'
<1>1. appts' \in [Appts -> ApptType] /\ DocsOK' /\ mail' \in [Appts -> MailType]
      /\ links' \in [Appts -> LinkType \cup {Null}]
  BY DEF Shape, TypeOK, DocsOK
<1> QED
  BY <1>1, HandlerStep, IdleFacts DEF Finish

(* Only the handler changes. *)
LEMMA HandlerOnly ==
    ASSUME Shape, NEW p \in Requests, NEW r \in RequestType, HandlerOK(r), Become(p, r),
           UNCHANGED <<now, appts, todo, mail, links, users, barbers, agenda>>
    PROVE  Shape'
<1>1. /\ appts' \in [Appts -> ApptType] /\ DocsOK'
      /\ mail' \in [Appts -> MailType]
      /\ links' \in [Appts -> LinkType \cup {Null}]
  BY DEF Shape, TypeOK, DocsOK
<1> QED
  BY <1>1, HandlerStep

LEMMA SlotIsFreeType ==
    ASSUME NEW r \in RequestType, HandlerOK(r), r.op \in {"create", "update"},
           r.op = "update" => r.seen \in ActiveStatuses /\ r.slot \in Slots /\ r.client \in Users,
           r.op = "create" => r.client \in Users,
           r.pc # "mail" /\ r.pc # "archive"
    PROVE  SlotIsFree(r) \in RequestType /\ HandlerOK(SlotIsFree(r))
<1>1. CASE r.op = "create"
  <2> DEFINE k == ~r.admin /\ Occupies(r.slot, "pending", now)
  <2>1. SlotIsFree(r) = [r EXCEPT !.pc = "save", !.takesKey = k]
    BY <1>1 DEF SlotIsFree
  <2>2. k \in BOOLEAN
    OBVIOUS
  <2> HIDE DEF k
  <2> QED
    BY <1>1, <2>1, <2>2 DEF RequestType, Stages, HandlerOK
<1>2. CASE r.op = "update"
  BY <1>2 DEF SlotIsFree, RequestType, Stages, HandlerOK
<1> QED
  BY <1>1, <1>2

LEMMA LoadedType ==
    ASSUME NEW r \in RequestType, HandlerOK(r), r.op = "update",
           r.pc # "mail", now \in Instants,
           NEW cur \in ApptType, cur.status \in ActiveStatuses,
           cur.slot \in Slots, cur.client \in Users
    PROVE  Loaded(r, cur) \in RequestType /\ HandlerOK(Loaded(r, cur))
<1> DEFINE read == [r EXCEPT !.seen = cur.status, !.client = cur.client,
                             !.slot = Merge(cur.slot, r.dto), !.at = now]
<1>1. r.dto \in DtoType
  BY DEF RequestType
<1>2. Merge(cur.slot, r.dto) \in Slots
  BY <1>1, MergeIsSlot
<1>3. /\ read \in RequestType /\ HandlerOK(read)
      /\ read.op = "update" /\ read.seen \in ActiveStatuses
      /\ read.slot \in Slots /\ read.client \in Users /\ read.pc = r.pc
  BY <1>2 DEF RequestType, HandlerOK, Statuses
<1>4. r.pc # "archive"
  BY DEF HandlerOK
<1>5. Loaded(r, cur) = IF ChecksSlot(r, cur) THEN [read EXCEPT !.pc = "barber"] ELSE SlotIsFree(read)
  BY DEF Loaded
<1> HIDE DEF read
<1>6. SlotIsFree(read) \in RequestType /\ HandlerOK(SlotIsFree(read))
  BY <1>3, <1>4, SlotIsFreeType
<1>7. [read EXCEPT !.pc = "barber"] \in RequestType /\ HandlerOK([read EXCEPT !.pc = "barber"])
  BY <1>3 DEF RequestType, Stages, HandlerOK
<1> QED
  BY <1>5, <1>6, <1>7

(* Moving a handler to another stage keeps its type. *)
LEMMA StageType ==
    ASSUME NEW r \in RequestType, NEW s \in Stages
    PROVE  [r EXCEPT !.pc = s] \in RequestType
  BY DEF RequestType

LEMMA ReleaseKeysShape ==
    ASSUME Shape, NEW p \in Requests, ReleaseKeys(p)
    PROVE  Shape'
<1> DEFINE r == [req[p] EXCEPT !.pc = "active"]
<1>1. r \in RequestType /\ HandlerOK(r) /\ Become(p, r)
  BY ShapeFacts DEF ReleaseKeys, GoTo, RequestType, Stages, HandlerOK
<1>2. \A a \in Appts : /\ appts'[a] \in ApptType
                       /\ appts'[a].status = appts[a].status
                       /\ appts'[a].slot = appts[a].slot
                       /\ appts'[a].client = appts[a].client
  BY ShapeFacts DEF ReleaseKeys, Released, ApptType
<1>3. appts' \in [Appts -> ApptType]
  BY <1>2 DEF ReleaseKeys
<1>4. DocsOK'
  BY <1>2 DEF Shape, DocsOK
<1> HIDE DEF r
<1> QED
  BY <1>1, <1>3, <1>4, ShapeFacts, HandlerStep DEF ReleaseKeys, directory

LEMMA CheckActiveShape ==
    ASSUME Shape, NEW p \in Requests, CheckActive(p)
    PROVE  Shape'
<1> DEFINE r == req[p]
           w == [r EXCEPT !.pc = "write", !.takesKey = TRUE]
           b == [r EXCEPT !.pc = "barber"]
<1>0. r \in RequestType /\ HandlerOK(r) /\ r.pc = "active"
  BY ShapeFacts DEF CheckActive
<1>1. r.op = "update" => w \in RequestType /\ HandlerOK(w)
  BY <1>0 DEF RequestType, Stages, HandlerOK
<1>2. b \in RequestType /\ HandlerOK(b)
  BY <1>0 DEF RequestType, Stages, HandlerOK
<1>3. Finish(p) \/ (r.op = "update" /\ Become(p, w)) \/ Become(p, b)
  BY DEF CheckActive, GoTo
<1>4. UNCHANGED <<now, appts, todo, mail, links, users, barbers, agenda>>
  BY DEF CheckActive, directory
<1> HIDE DEF r, w, b
<1> QED
  BY <1>1, <1>2, <1>3, <1>4, FinishShape, HandlerOnly

LEMMA ReadBarberShape ==
    ASSUME Shape, NEW p \in Requests, ReadBarber(p)
    PROVE  Shape'
<1> DEFINE r == [req[p] EXCEPT !.pc = "schedule"]
<1>1. r \in RequestType /\ HandlerOK(r)
  BY ShapeFacts DEF ReadBarber, RequestType, Stages, HandlerOK
<1>2. Finish(p) \/ Become(p, r)
  BY DEF ReadBarber, GoTo
<1>3. UNCHANGED <<now, appts, todo, mail, links, users, barbers, agenda>>
  BY DEF ReadBarber, directory
<1> HIDE DEF r
<1> QED
  BY <1>1, <1>2, <1>3, FinishShape, HandlerOnly

(* The handlers that look for a free slot can go on with it. *)
LEMMA SlotIsFreeShape ==
    ASSUME Shape, NEW p \in Requests, req[p].pc \in {"schedule", "slot"}
    PROVE  SlotIsFree(req[p]) \in RequestType /\ HandlerOK(SlotIsFree(req[p]))
<1> DEFINE r == req[p]
<1>1. /\ r \in RequestType /\ HandlerOK(r) /\ r.op \in {"create", "update"}
      /\ r.op = "update" => r.seen \in ActiveStatuses /\ r.slot \in Slots /\ r.client \in Users
      /\ r.op = "create" => r.client \in Users
      /\ r.pc # "mail" /\ r.pc # "archive"
  BY ShapeFacts DEF HandlerOK
<1> HIDE DEF r
<1>2. SlotIsFree(r) \in RequestType /\ HandlerOK(SlotIsFree(r))
  BY <1>1, SlotIsFreeType
<1> QED
  BY <1>2 DEF r

LEMMA ReadScheduleShape ==
    ASSUME Shape, NEW p \in Requests, ReadSchedule(p)
    PROVE  Shape'
<1> DEFINE r == [req[p] EXCEPT !.pc = "slot"]
<1>1. r \in RequestType /\ HandlerOK(r)
  BY ShapeFacts DEF ReadSchedule, RequestType, Stages, HandlerOK
<1>2. Finish(p) \/ Become(p, SlotIsFree(req[p])) \/ Become(p, r)
  BY DEF ReadSchedule, GoTo
<1>3. UNCHANGED <<now, appts, todo, mail, links, users, barbers, agenda>>
  BY DEF ReadSchedule, directory
<1>4. req[p].pc = "schedule"
  BY DEF ReadSchedule
<1> HIDE DEF r
<1> QED
  BY <1>1, <1>2, <1>3, <1>4, SlotIsFreeShape, FinishShape, HandlerOnly

LEMMA CheckSlotShape ==
    ASSUME Shape, NEW p \in Requests, CheckSlot(p)
    PROVE  Shape'
<1>1. Finish(p) \/ Become(p, SlotIsFree(req[p]))
  BY DEF CheckSlot
<1>2. UNCHANGED <<now, appts, todo, mail, links, users, barbers, agenda>> /\ req[p].pc = "slot"
  BY DEF CheckSlot, directory
<1> QED
  BY <1>1, <1>2, SlotIsFreeShape, FinishShape, HandlerOnly

LEMMA StartCreateShape ==
    ASSUME Shape, NEW p \in Requests, NEW c \in Users, NEW slot \in Slots, StartCreate(p, c, slot)
    PROVE  Shape'
<1> DEFINE r == [Idle EXCEPT !.op = "create", !.client = c, !.slot = slot,
                             !.admin = (users[c].role = "admin"),
                             !.pc = IF users[c].role = "admin" THEN "barber" ELSE "release"]
<1>1. r \in RequestType /\ HandlerOK(r)
  BY IdleFacts DEF RequestType, Stages, HandlerOK
<1>2. Become(p, r)
  BY DEF StartCreate
<1>3. UNCHANGED <<now, appts, todo, mail, links, users, barbers, agenda>>
  BY DEF StartCreate, directory
<1> HIDE DEF r
<1> QED
  BY <1>1, <1>2, <1>3, HandlerOnly

LEMMA NewApptType ==
    ASSUME NEW r \in RequestType, r.client \in Users, r.slot \in Slots
    PROVE  /\ NewAppt(r) \in ApptType
           /\ NewAppt(r).status = "pending" /\ NewAppt(r).slot = r.slot
           /\ NewAppt(r).client = r.client /\ NewAppt(r).slotKey = r.slot
  BY DEF NewAppt, NoAppt, ApptType, RequestType, Statuses, ActiveStatuses

LEMMA SaveShape ==
    ASSUME Shape, NEW p \in Requests, NEW a \in Appts, Save(p, a)
    PROVE  Shape'
<1> DEFINE r == req[p]
           n == [Idle EXCEPT !.op = "create", !.pc = "email", !.appt = a, !.slot = r.slot]
<1>1. r \in RequestType /\ r.client \in Users /\ r.slot \in Slots
  BY ShapeFacts DEF Save, HandlerOK
<1>2. n \in RequestType /\ HandlerOK(n)
  <2>1. n \in RequestType
    BY <1>1, IdleFacts DEF RequestType, Stages
  <2>2. n.op = "create" /\ n.pc = "email" /\ n.appt = a /\ n.slot = r.slot
    BY IdleFacts DEF RequestType
  <2> HIDE DEF n, r
  <2> QED
    BY <1>1, <2>1, <2>2 DEF HandlerOK
<1>3. UNCHANGED <<now, todo, mail, links, users, barbers, agenda>>
  BY DEF Save, directory
<1>4. CASE Duplicate(a, NewAppt(r))
  BY <1>3, <1>4, FinishShape DEF Save
<1>5. CASE ~Duplicate(a, NewAppt(r))
  <2>1. appts' = [appts EXCEPT ![a] = NewAppt(r)] /\ Become(p, n)
    BY <1>5 DEF Save
  <2> HIDE DEF r, n
  <2>2. appts' \in [Appts -> ApptType] /\ DocsOK'
    BY <1>1, <2>1, NewApptType, ShapeFacts DEF Shape, DocsOK
  <2> QED
    BY <1>2, <1>3, <2>1, <2>2, ShapeFacts, HandlerStep
<1> QED
  BY <1>4, <1>5

LEMMA DatesAndTimes == Days \subseteq Nat /\ Hours \subseteq Nat
  BY ConstantsAssumption, DayLengthAssumption

LEMMA LinkForType ==
    ASSUME NEW slot \in Slots, now \in Instants
    PROVE  LinkFor(slot) \in LinkType
<1>0. slot.date \in Days /\ slot.timeSlot \in Hours
  BY DEF Slots
<1>1. slot.date \in Nat /\ slot.timeSlot \in Nat
  BY <1>0, DatesAndTimes
<1>2. slot.date * DayLength \in Nat
  BY <1>1, DayLengthAssumption
<1>3. StartsAt(slot) \in Nat /\ now + DayLength \in Nat
  BY <1>1, <1>2, DayLengthAssumption, ConstantsAssumption DEF StartsAt, Instants
<1> QED
  BY <1>0, <1>3 DEF LinkFor, LinkType

LEMMA EmailPendingShape ==
    ASSUME Shape, NEW p \in Requests, EmailPending(p)
    PROVE  Shape'
<1> DEFINE r == [req[p] EXCEPT !.pc = "whatsapp"]
           a == req[p].appt
<1>1. r \in RequestType /\ HandlerOK(r) /\ a \in Appts
  BY ShapeFacts DEF EmailPending, RequestType, Stages, HandlerOK
<1>2. Become(p, r) /\ UNCHANGED <<now, appts, todo, links, users, barbers, agenda>>
      /\ mail' = [mail EXCEPT ![a].pending = @ + 1]
  BY DEF EmailPending, GoTo, directory
<1> HIDE DEF r, a
<1>3. mail' \in [Appts -> MailType]
  BY <1>1, <1>2, ShapeFacts DEF MailType
<1>4. appts' \in [Appts -> ApptType] /\ DocsOK' /\ links' \in [Appts -> LinkType \cup {Null}]
  BY <1>2 DEF Shape, TypeOK, DocsOK
<1> QED
  BY <1>1, <1>2, <1>3, <1>4, HandlerStep

LEMMA NotifyShape ==
    ASSUME Shape, NEW p \in Requests, Notify(p)
    PROVE  Shape'
<1> DEFINE r == req[p]
<1>1. r.appt \in Appts /\ r.slot \in Slots /\ now \in Instants
  BY ShapeFacts DEF Notify, HandlerOK
<1>2. UNCHANGED <<now, appts, todo, mail, users, barbers, agenda>> /\ Become(p, Idle)
  BY DEF Notify, directory, Finish
<1>3. links' = [links EXCEPT ![r.appt] = LinkFor(r.slot)] \/ links' = links
  BY DEF Notify
<1>4. LinkFor(r.slot) \in LinkType
  BY <1>1, LinkForType
<1> HIDE DEF r
<1>5. links' \in [Appts -> LinkType \cup {Null}]
  BY <1>1, <1>3, <1>4, ShapeFacts
<1>6. /\ appts' \in [Appts -> ApptType] /\ DocsOK'
      /\ mail' \in [Appts -> MailType]
  BY <1>2 DEF Shape, TypeOK, DocsOK
<1> QED
  BY <1>2, <1>5, <1>6, HandlerStep, IdleFacts

(* Every request for an update that the code makes is well formed. *)
LEMMA UpdateRequestType ==
    ASSUME NEW a \in Appts, NEW dto \in DtoType, NEW actor \in {"user", "admin"},
           dto \in Dtos \/ ~ChangesSlot(dto)
    PROVE  LET r == UpdateRequest(a, dto, actor) IN
           r \in RequestType /\ HandlerOK(r) /\ r.op = "update" /\ r.pc = "load"
             /\ r.appt = a /\ r.dto = dto
  BY IdleFacts DEF UpdateRequest, RequestType, Stages, HandlerOK

(* Reading the document at the head of update() keeps the shape. *)
LEMMA LoadKeepsShape ==
    ASSUME Shape, NEW p \in Requests, NEW r \in RequestType, HandlerOK(r),
           r.op = "update", r.pc # "mail", CanLoad(r), Become(p, Loaded(r, appts[r.appt])),
           UNCHANGED <<now, appts, todo, mail, links, users, barbers, agenda>>
    PROVE  Shape'
<1> DEFINE cur == appts[r.appt]
<1>1. r.appt \in Appts
  BY DEF HandlerOK
<1>2. cur \in ApptType /\ cur.status \in ActiveStatuses
  BY <1>1 DEF Shape, TypeOK, CanLoad, Accepted
<1>3. cur.slot \in Slots /\ cur.client \in Users
  BY <1>1, <1>2 DEF Shape, DocsOK, ActiveStatuses
<1>4. now \in Instants
  BY DEF Shape, TypeOK
<1> HIDE DEF cur
<1>5. Loaded(r, cur) \in RequestType /\ HandlerOK(Loaded(r, cur))
  BY <1>2, <1>3, <1>4, LoadedType
<1> QED
  BY <1>5, HandlerOnly DEF cur

LEMMA StartPatchShape ==
    ASSUME Shape, NEW p \in Requests, NEW a \in Appts, NEW dto \in Dtos, StartPatch(p, a, dto)
    PROVE  Shape'
<1> DEFINE r == UpdateRequest(a, dto, "admin")
<1>1. /\ r \in RequestType /\ HandlerOK(r) /\ r.op = "update" /\ r.pc = "load" /\ r.appt = a
  BY UpdateRequestType, ConstantsAssumption
<1>2. CanLoad(r) /\ Become(p, Loaded(r, appts[a]))
      /\ UNCHANGED <<now, appts, todo, mail, links, users, barbers, agenda>>
  BY DEF StartPatch, directory
<1> HIDE DEF r
<1> QED
  BY <1>1, <1>2, LoadKeepsShape

LEMMA StartCancelMineShape ==
    ASSUME Shape, NEW p \in Requests, NEW a \in Appts, NEW c \in Users, StartCancelMine(p, a, c)
    PROVE  Shape'
<1> DEFINE r == UpdateRequest(a, StatusDto("cancelled"), "user")
<1>1. r \in RequestType /\ HandlerOK(r)
  BY UpdateRequestType, NoDtoFacts DEF Statuses, FinalStatuses
<1>2. Become(p, r) /\ UNCHANGED <<now, appts, todo, mail, links, users, barbers, agenda>>
  BY DEF StartCancelMine, directory
<1> HIDE DEF r
<1> QED
  BY <1>1, <1>2, HandlerOnly

LEMMA StartLinkShape ==
    ASSUME Shape, NEW p \in Requests, NEW a \in Appts, NEW status \in {"confirmed", "cancelled"},
           StartLink(p, a, status)
    PROVE  Shape'
<1> DEFINE u == UpdateRequest(a, StatusDto(status), "admin")
           r == [u EXCEPT !.link = links[a]]
<1>1. u \in RequestType /\ HandlerOK(u)
  BY UpdateRequestType, NoDtoFacts DEF Statuses, FinalStatuses, ActiveStatuses
<1>2. Become(p, r) /\ UNCHANGED <<now, appts, todo, mail, links, users, barbers, agenda>>
  BY DEF StartLink, directory
<1>3. links[a] \in LinkType \cup {Null}
  BY ShapeFacts
<1> HIDE DEF u
<1>4. r \in RequestType /\ HandlerOK(r)
  BY <1>1, <1>3 DEF RequestType, HandlerOK
<1> HIDE DEF r
<1> QED
  BY <1>2, <1>4, HandlerOnly

LEMMA LoadShape ==
    ASSUME Shape, NEW p \in Requests, Load(p)
    PROVE  Shape'
<1>1. req[p] \in RequestType /\ HandlerOK(req[p]) /\ req[p].op = "update" /\ req[p].pc = "load"
  BY ShapeFacts DEF Load, HandlerOK
<1>2. UNCHANGED <<now, appts, todo, mail, links, users, barbers, agenda>>
  BY DEF Load, directory
<1>3. Finish(p) \/ (CanLoad(req[p]) /\ Become(p, Loaded(req[p], appts[req[p].appt])))
  BY DEF Load
<1> QED
  BY <1>1, <1>2, <1>3, FinishShape, LoadKeepsShape

LEMMA ReadClientShape ==
    ASSUME Shape, NEW p \in Requests, ReadClient(p)
    PROVE  Shape'
<1> DEFINE w == [req[p] EXCEPT !.pc = "write"]
           k == [req[p] EXCEPT !.pc = "release"]
<1>1. /\ w \in RequestType /\ HandlerOK(w)
      /\ k \in RequestType /\ HandlerOK(k)
  BY ShapeFacts DEF ReadClient, RequestType, Stages, HandlerOK
<1>2. Finish(p) \/ Become(p, w) \/ Become(p, k)
  BY DEF ReadClient, GoTo
<1>3. UNCHANGED <<now, appts, todo, mail, links, users, barbers, agenda>>
  BY DEF ReadClient, directory
<1> HIDE DEF w, k
<1> QED
  BY <1>1, <1>2, <1>3, FinishShape, HandlerOnly

(* What an update writes is a reservation of the same client at a slot. *)
LEMMA UpdatedType ==
    ASSUME NEW r \in RequestType, r.seen \in ActiveStatuses, r.slot \in Slots, r.client \in Users,
           NEW doc \in ApptType, doc.slot \in Slots
    PROVE  /\ Updated(r, doc) \in ApptType
           /\ Updated(r, doc).status = NewStatus(r.seen, r.dto)
           /\ Updated(r, doc).status \in Statuses
           /\ Updated(r, doc).client = doc.client
           /\ Updated(r, doc).slot = Merge(doc.slot, r.dto)
           /\ Updated(r, doc).slot \in Slots
           /\ Updated(r, doc).slotKey = IF Updated(r, doc).status = "cancelled" THEN Null ELSE r.slot
<1> DEFINE status == NewStatus(r.seen, r.dto)
           slot == Merge(doc.slot, r.dto)
           by == IF status = "cancelled" THEN r.actor ELSE doc.cancelledBy
           at == IF status = "cancelled" THEN r.at ELSE doc.cancelledAt
           key == IF status = "cancelled" THEN Null ELSE r.slot
           mine == IF r.takesKey THEN r.client ELSE Null
<1>1. r.dto \in DtoType
  BY DEF RequestType
<1>2. status \in Statuses /\ slot \in Slots
  BY <1>1, MergeIsSlot, NewStatusType DEF Statuses
<1>3. by \in {"user", "admin", Null} /\ at \in Instants \cup {Null}
      /\ key \in Slots \cup {Null} /\ mine \in Users \cup {Null}
  BY DEF RequestType, ApptType
<1>4. Updated(r, doc) = [doc EXCEPT !.status = status, !.slot = slot, !.slotKey = key,
                                    !.activeClientKey = mine, !.cancelledBy = by, !.cancelledAt = at]
  BY DEF Updated
<1>5. key = IF status = "cancelled" THEN Null ELSE r.slot
  OBVIOUS
<1> HIDE DEF slot, by, at, key, mine
<1>6. Updated(r, doc) \in ApptType
  BY <1>2, <1>3, <1>4 DEF ApptType
<1>7. /\ Updated(r, doc).status = status /\ Updated(r, doc).client = doc.client
      /\ Updated(r, doc).slot = slot /\ Updated(r, doc).slotKey = key
  BY <1>4 DEF ApptType
<1> QED
  BY <1>2, <1>5, <1>6, <1>7 DEF slot

(* The handler at "write" has read an existing reservation of a client. *)
LEMMA WriterFacts ==
    ASSUME Shape, NEW p \in Requests, req[p].pc = "write",
           FilterMatches(req[p], appts[req[p].appt])
    PROVE  LET r == req[p]
               doc == appts[r.appt]
           IN  /\ r \in RequestType /\ HandlerOK(r) /\ r.op = "update" /\ r.appt \in Appts
               /\ r.seen \in ActiveStatuses /\ r.slot \in Slots /\ r.client \in Users
               /\ doc \in ApptType /\ doc.status = r.seen /\ doc.slot \in Slots /\ doc.client \in Users
<1> DEFINE r == req[p]
<1>1. r \in RequestType /\ HandlerOK(r) /\ r.op = "update" /\ r.appt \in Appts
      /\ r.seen \in ActiveStatuses /\ r.slot \in Slots /\ r.client \in Users
  BY ShapeFacts DEF HandlerOK
<1>2. appts[r.appt] \in ApptType /\ appts[r.appt].status = r.seen
  BY <1>1, ShapeFacts DEF FilterMatches
<1>3. appts[r.appt].slot \in Slots /\ appts[r.appt].client \in Users
  BY <1>1, <1>2 DEF Shape, DocsOK, ActiveStatuses
<1> QED
  BY <1>1, <1>2, <1>3

LEMMA WriteShape ==
    ASSUME Shape, NEW p \in Requests, Write(p)
    PROVE  Shape'
<1> DEFINE r == req[p]
           doc == appts[r.appt]
           new == Updated(r, doc)
           m == [r EXCEPT !.pc = "mail", !.slot = new.slot]
<1>1. UNCHANGED <<now, todo, mail, links, users, barbers, agenda>> /\ r.pc = "write"
  BY DEF Write, directory
<1>2. CASE FilterMatches(r, doc) /\ ~Duplicate(r.appt, new)
  <2>1. /\ r \in RequestType /\ HandlerOK(r) /\ r.op = "update" /\ r.appt \in Appts
        /\ r.seen \in ActiveStatuses /\ r.slot \in Slots /\ r.client \in Users
        /\ doc \in ApptType /\ doc.slot \in Slots /\ doc.client \in Users
    BY <1>1, <1>2, WriterFacts
  <2>2. appts' = [appts EXCEPT ![r.appt] = new]
    BY <1>2 DEF Write
  <2>3. Finish(p) \/ (Announced(r) /\ Become(p, m))
    BY <1>2 DEF Write, GoTo
  <2> HIDE DEF r, doc
  <2>4. new \in ApptType /\ new.slot \in Slots /\ new.client \in Users
    BY <2>1, UpdatedType
  <2> HIDE DEF new
  <2>5. Announced(r) => m \in RequestType /\ HandlerOK(m)
    BY <2>1, <2>4 DEF Announced, RequestType, Stages, HandlerOK
  <2> HIDE DEF m
  <2>6. appts' \in [Appts -> ApptType] /\ DocsOK'
    BY <2>1, <2>2, <2>4, ShapeFacts DEF Shape, DocsOK
  <2> QED
    BY <1>1, <2>3, <2>5, <2>6, ShapeFacts, HandlerStep, IdleFacts DEF Finish
<1>3. CASE ~(FilterMatches(r, doc) /\ ~Duplicate(r.appt, new))
  BY <1>1, <1>3, FinishShape DEF Write
<1> QED
  BY <1>2, <1>3

LEMMA MailShape ==
    ASSUME Shape, NEW p \in Requests, Mail(p)
    PROVE  Shape'
<1> DEFINE r == req[p]
           kind == r.dto.status
<1>1. r.appt \in Appts /\ kind \in {"confirmed", "cancelled"}
  BY ShapeFacts DEF Mail, HandlerOK
<1>2. mail' = [mail EXCEPT ![r.appt][kind] = @ + 1] \/ mail' = mail
  BY DEF Mail
<1>3. UNCHANGED <<now, appts, todo, links, users, barbers, agenda>> /\ Become(p, Idle)
  BY DEF Mail, directory, Finish
<1> HIDE DEF r, kind
<1>4. mail' \in [Appts -> MailType]
  <2>1. mail \in [Appts -> MailType]
    BY ShapeFacts
  <2>2. CASE kind = "confirmed"
    BY <1>1, <1>2, <2>1, <2>2 DEF MailType
  <2>3. CASE kind = "cancelled"
    BY <1>1, <1>2, <2>1, <2>3 DEF MailType
  <2> QED
    BY <1>1, <2>2, <2>3
<1>5. appts' \in [Appts -> ApptType] /\ DocsOK' /\ links' \in [Appts -> LinkType \cup {Null}]
  BY <1>3 DEF Shape, TypeOK, DocsOK
<1> QED
  BY <1>3, <1>4, <1>5, HandlerStep, IdleFacts

LEMMA StartArchiveShape ==
    ASSUME Shape, NEW p \in Requests, NEW a \in Appts, StartArchive(p, a)
    PROVE  Shape'
<1> DEFINE r == [Idle EXCEPT !.op = "archive", !.pc = "archive", !.appt = a, !.seen = appts[a].status]
<1>1. r \in RequestType /\ HandlerOK(r)
  BY IdleFacts DEF StartArchive, RequestType, Stages, HandlerOK, Statuses
<1>2. Become(p, r) /\ UNCHANGED <<now, appts, todo, mail, links, users, barbers, agenda>>
  BY DEF StartArchive, directory
<1> HIDE DEF r
<1> QED
  BY <1>1, <1>2, HandlerOnly

LEMMA ArchiveShape ==
    ASSUME Shape, NEW p \in Requests, Archive(p)
    PROVE  Shape'
<1> DEFINE a == req[p].appt
<1>1. a \in Appts
  BY ShapeFacts DEF Archive, HandlerOK
<1>2. appts' = [appts EXCEPT ![a].archived = TRUE] \/ appts' = appts
  BY DEF Archive
<1>3. UNCHANGED <<now, todo, mail, links, users, barbers, agenda>> /\ Become(p, Idle)
  BY DEF Archive, directory, Finish
<1> HIDE DEF a
<1>4. \A b \in Appts : appts'[b] = [appts[b] EXCEPT !.archived = TRUE] \/ appts'[b] = appts[b]
  BY <1>1, <1>2, ShapeFacts
<1>5. \A b \in Appts : /\ appts'[b] \in ApptType
                       /\ appts'[b].status = appts[b].status
                       /\ appts'[b].slot = appts[b].slot
                       /\ appts'[b].client = appts[b].client
  BY <1>4, ShapeFacts DEF ApptType
<1>6. appts' \in [Appts -> ApptType]
  BY <1>1, <1>2, <1>5, ShapeFacts
<1>7. DocsOK'
  BY <1>5 DEF Shape, DocsOK
<1> QED
  BY <1>3, <1>6, <1>7, ShapeFacts, HandlerStep, IdleFacts

LEMMA CompletedType ==
    ASSUME NEW doc \in ApptType
    PROVE  /\ Completed(doc) \in ApptType /\ Completed(doc).status = "completed"
           /\ Completed(doc).slot = doc.slot /\ Completed(doc).client = doc.client
           /\ Completed(doc).slotKey = doc.slotKey
  BY DEF Completed, ApptType, Statuses, FinalStatuses

LEMMA JobShape ==
    ASSUME Shape, Job
    PROVE  Shape'
<1>1. CASE JobFind
  <2>1. \A a \in Appts : Due(appts[a]) => appts[a].slot.date \in Days /\ appts[a].slot.timeSlot \in Hours
    BY DEF Due, Shape, DocsOK, Slots
  <2>2. todo' \subseteq [appt : Appts, date : Days, timeSlot : Hours]
    BY <1>1, <2>1 DEF JobFind
  <2> QED
    BY <1>1, <2>2 DEF JobFind, Shape, TypeOK, DocsOK, directory
<1>2. CASE \E w \in todo : JobWrite(w)
  <2>1. PICK w \in todo : JobWrite(w)
    BY <1>2
  <2>2. w.appt \in Appts /\ todo' \subseteq [appt : Appts, date : Days, timeSlot : Hours]
    BY <2>1 DEF JobWrite, Shape, TypeOK
  <2>3. \A b \in Appts : (appts'[b] = Completed(appts[b]) /\ JobMatches(w, appts[b])) \/ appts'[b] = appts[b]
    BY <2>1, <2>2 DEF JobWrite, Shape, TypeOK
  <2>4. \A b \in Appts : /\ appts'[b] \in ApptType
                         /\ appts'[b].slot = appts[b].slot /\ appts'[b].client = appts[b].client
                         /\ appts[b].status = "absent" => appts'[b].status = "absent"
    <3> SUFFICES ASSUME NEW b \in Appts
                 PROVE  /\ appts'[b] \in ApptType
                        /\ appts'[b].slot = appts[b].slot /\ appts'[b].client = appts[b].client
                        /\ appts[b].status = "absent" => appts'[b].status = "absent"
      OBVIOUS
    <3>1. appts[b] \in ApptType
      BY DEF Shape, TypeOK
    <3> QED
      BY <2>3, <3>1, CompletedType DEF JobMatches
  <2>5. appts' \in [Appts -> ApptType]
    BY <2>1, <2>2, <2>4 DEF JobWrite, Shape, TypeOK
  <2>6. DocsOK'
    BY <2>4 DEF Shape, DocsOK
  <2> QED
    BY <2>1, <2>2, <2>5, <2>6 DEF JobWrite, Shape, TypeOK, directory
<1>3. CASE JobFail
  BY <1>3 DEF JobFail, Shape, TypeOK, DocsOK, directory
<1> QED
  BY <1>1, <1>2, <1>3 DEF Job

LEMMA PeopleShape ==
    ASSUME Shape, People
    PROVE  Shape'
<1>0. users \in [Users -> ClientType \cup {Null}]
  BY DEF Shape, TypeOK
<1>1. CASE \E c \in Users : ChangeRole(c) \/ SetBookingAccess(c) \/ RemoveUser(c) \/ AddUser(c)
  <2>1. PICK c \in Users : ChangeRole(c) \/ SetBookingAccess(c) \/ RemoveUser(c) \/ AddUser(c)
    BY <1>1
  <2>2. UNCHANGED <<now, appts, req, todo, mail, links, barbers, agenda>>
    BY <2>1 DEF ChangeRole, SetBookingAccess, RemoveUser, AddUser
  <2>3. SwitchRole(c) \/ SwitchAccess(c) \/ Unregister(c) \/ Register(c)
    BY <2>1 DEF ChangeRole, SetBookingAccess, RemoveUser, AddUser
  <2>4. \E u \in ClientType \cup {Null} : users' = [users EXCEPT ![c] = u]
    <3>1. CASE SwitchRole(c)
      <4> DEFINE u == [users[c] EXCEPT !.role = IF @ = "admin" THEN "user" ELSE "admin"]
      <4>1. u \in ClientType
        BY <1>0, <3>1 DEF SwitchRole, ClientType
      <4>2. users' = [users EXCEPT ![c] = u]
        BY <1>0, <3>1 DEF SwitchRole
      <4> QED
        BY <4>1, <4>2
    <3>2. CASE SwitchAccess(c)
      <4> DEFINE u == [users[c] EXCEPT !.blocked = ~@]
      <4>1. u \in ClientType
        BY <1>0, <3>2 DEF SwitchAccess, ClientType
      <4>2. users' = [users EXCEPT ![c] = u]
        BY <1>0, <3>2 DEF SwitchAccess
      <4> QED
        BY <4>1, <4>2
    <3>3. CASE Unregister(c)
      BY <3>3 DEF Unregister
    <3>4. CASE Register(c)
      BY <3>4 DEF Register, NewClient, ClientType
    <3> QED
      BY <2>3, <3>1, <3>2, <3>3, <3>4
  <2>5. users' \in [Users -> ClientType \cup {Null}]
    BY <1>0, <2>4
  <2> QED
    BY <2>2, <2>5 DEF Shape, TypeOK, DocsOK
<1>2. CASE \E b \in Barbers, state \in {"active", "inactive"} : AddBarber(b, state)
  BY <1>2 DEF AddBarber, Shape, TypeOK, DocsOK
<1>3. CASE \E b \in Barbers, state \in {"active", "inactive", "removed"} : SetBarber(b, state)
  BY <1>3 DEF SetBarber, Shape, TypeOK, DocsOK
<1> QED
  BY <1>1, <1>2, <1>3 DEF People

LEMMA DirectoryShape ==
    ASSUME Shape, Directory
    PROVE  Shape'
<1>1. CASE EditSchedule
  BY <1>1 DEF EditSchedule, Shape, TypeOK, DocsOK
<1> QED
  BY <1>1, PeopleShape DEF Directory

LEMMA TickShape == ASSUME Shape, Tick PROVE Shape'
  BY ConstantsAssumption DEF Tick, Shape, TypeOK, DocsOK, Instants, directory

LEMMA AbandonShape ==
    ASSUME Shape, NEW p \in Requests, Abandon(p)
    PROVE  Shape'
  BY FinishShape DEF Abandon, directory

LEMMA RestartShape == ASSUME Shape, Restart PROVE Shape'
<1>1. /\ req' \in [Requests -> RequestType] /\ \A p \in Requests : HandlerOK(req'[p])
      /\ todo' \subseteq [appt : Appts, date : Days, timeSlot : Hours]
  BY IdleFacts DEF Restart
<1>2. TypeOK' /\ DocsOK'
  BY <1>1 DEF Restart, Shape, TypeOK, DocsOK, directory
<1> QED
  BY <1>1, <1>2 DEF Shape

LEMMA InitShape == Init => Shape
<1> SUFFICES ASSUME Init PROVE Shape
  OBVIOUS
<1>1. NoAppt \in ApptType /\ NoAppt.status = "absent"
  BY DEF NoAppt, ApptType
<1>2. TypeOK
  BY <1>1, IdleFacts, ConstantsAssumption DEF Init, Opening, TypeOK, Instants, MailType, ClientType
<1> QED
  BY <1>1, <1>2, IdleFacts DEF Init, Opening, Shape, DocsOK

(* Every step keeps the shape: one lemma per action. *)
LEMMA NextShape == ASSUME Shape, [Next]_vars PROVE Shape'
<1>1. ASSUME NEW p \in Requests, Create(p) PROVE Shape'
  BY <1>1, StartCreateShape, SaveShape, EmailPendingShape, NotifyShape DEF Create
<1>2. ASSUME NEW p \in Requests, Update(p) PROVE Shape'
  BY <1>2, StartPatchShape, StartCancelMineShape, StartLinkShape, LoadShape, ReadClientShape,
     WriteShape, MailShape DEF Update
<1>3. ASSUME NEW p \in Requests, Shared(p) PROVE Shape'
  BY <1>3, ReleaseKeysShape, CheckActiveShape, ReadBarberShape, ReadScheduleShape,
     CheckSlotShape DEF Shared
<1>4. ASSUME NEW p \in Requests, Archiving(p) PROVE Shape'
  BY <1>4, StartArchiveShape, ArchiveShape DEF Archiving
<1>5. CASE UNCHANGED vars
  BY <1>5 DEF vars, Shape, TypeOK, DocsOK
<1> QED
  BY <1>1, <1>2, <1>3, <1>4, <1>5, JobShape, DirectoryShape, AbandonShape, RestartShape, TickShape
     DEF Next

LEMMA ShapeInvariant == Spec => []Shape
  BY InitShape, NextShape, PTL DEF Spec

(* Every variable keeps its type, for any number of users, reservations and *)
(* handlers (the documents of the collection and the state handlers carry   *)
(* from one await to the next).                                             *)
THEOREM TypeCorrect == Spec => []TypeOK
<1>1. Shape => TypeOK
  BY DEF Shape
<1> QED
  BY <1>1, ShapeInvariant, PTL

===============================================================================
