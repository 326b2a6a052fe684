------------------------------- MODULE Overlaps -------------------------------
(***************************************************************************)
(* What the reservations promise although update() decides on a document   *)
(* that it read several database operations before it writes.              *)
(*                                                                         *)
(* The filter of its write compares the status, and for a link the date    *)
(* and the time.  A reservation that is moved between the read and the     *)
(* write is therefore written from a slot that it no longer has.  Three    *)
(* history variables, which no step looks at, remember where that          *)
(* happened and who was an administrator at some time.  The properties     *)
(* hold of every other reservation and client, whatever overlaps: they say *)
(* that nothing else can go wrong, and how far one stale write reaches.    *)
(***************************************************************************)
EXTENDS Appointments

VARIABLES
    overtaken,  \* handlers whose reservation was moved since they read it
    stale,      \* reservations that such a handler has written
    been        \* users that are, or once were, administrators

history == <<overtaken, stale, been>>

\* A handler that has read its reservation and not yet written it
Updating(r) == r.op = "update" /\ r.pc \notin {"load", "mail"}

\* p writes a in this step.
Writes(p, a) ==
    req[p].pc = "write" /\ req[p].appt = a /\ req'[p] # req[p] /\ appts'[a] # appts[a]

HistoryInit ==
    /\ overtaken = {}
    /\ stale = {}
    /\ been = Admins

Remember ==
    /\ overtaken' = {p \in Requests :
                        /\ Updating(req'[p])
                        /\ \/ p \in overtaken
                           \/ appts'[req'[p].appt].slot # appts[req'[p].appt].slot}
    /\ stale' = stale \cup {a \in Appts : \E p \in overtaken : Writes(p, a)}
    /\ been' = been \cup {c \in Users : users'[c] # Null /\ users'[c].role = "admin"}

OverlapNext == Next /\ Remember

OverlapSpec == Init /\ HistoryInit /\ [][OverlapNext]_<<vars, history>>

-------------------------------------------------------------------------------
\* Properties

Fresh == Appts \ stale

\* A reservation of somebody who never was an administrator, that is ahead
Ahead(a) == Active(a) /\ IsFuture(appts[a].slot, now) /\ appts[a].client \notin been

\* The key that the unique index protects is that of the slot the reservation
\* is shown at, and a cancelled reservation protects nothing, although an
\* update writes the two from different readings.
KeyedAsShown ==
    \A a \in Fresh : appts[a].slotKey = IF Held(a) THEN appts[a].slot ELSE Null

\* No barber is promised to two clients: creations, moves and decisions that
\* overlap never put two reservations at one barber, date and time (README:
\* "slotKey independently protects each barber slot").
OneHolderEach ==
    \A a, b \in Fresh : a # b /\ Held(a) /\ Held(b) => appts[a].slot # appts[b].slot

\* A reservation that is still ahead holds its client's key, also after it was
\* moved, or decided by a handler that looked at it earlier (README: "Future
\* pending or confirmed reservations hold this key for non-admin clients").
AheadHoldsKey == \A a \in Fresh : Ahead(a) => appts[a].activeClientKey = appts[a].client

\* A client never has two reservations ahead, however many creations and
\* updates of the client's reservations overlap.
OneAheadEach ==
    \A a, b \in Fresh : a # b /\ Ahead(a) /\ Ahead(b) => appts[a].client # appts[b].client

\* A cancellation by the client was decided Notice before the reservation, as
\* it stands, starts, although the handler waits for the database in between
\* (README: "client cancellation still requires at least 12 hours of notice").
NoticeKept ==
    \A a \in Fresh :
        appts[a].status = "cancelled" /\ appts[a].cancelledBy = "user"
            => StartsAt(appts[a].slot) - appts[a].cancelledAt >= Notice

\* When a reservation is completed or missed, the slot that it had until then
\* has started.  (Where the same body moves it, that is the slot it leaves:
\* CompletedHasStarted asks for more.)
ClosedOnceStarted ==
    [][\A a \in Appts \ stale' :
         Active(a) /\ appts'[a].status \in {"completed", "no_show"}
             => StartsAt(appts[a].slot) <= now
      ]_<<vars, history>>

\* The slot of a reservation that is not cancelled is that reservation's.
HolderOf(slot) ==
    IF \E a \in Fresh : Held(a) /\ appts[a].slot = slot
    THEN CHOOSE a \in Fresh : Held(a) /\ appts[a].slot = slot ELSE Null

Ledger == INSTANCE BookingLedger WITH
            state <- [a \in Appts |-> IF a \in stale THEN "lost" ELSE appts[a].status],
            holder <- [slot \in Slots |-> HolderOf(slot)]

\* Seen from outside, handlers that overlap for many steps book, move, decide
\* and cancel one reservation at a time: a move leaves one slot and takes
\* another at once, nothing ever takes a slot that is somebody else's, and a
\* stale write costs the book the entry it was made to and no other.
KeepsTheLedger == Ledger!LedgerSpec

===============================================================================
