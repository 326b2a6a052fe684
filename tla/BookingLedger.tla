---------------------------- MODULE BookingLedger ----------------------------
(***************************************************************************)
(* What the reservations promise a barber shop, without handlers, keys,    *)
(* emails or clocks: a book in which a slot is nobody's or one             *)
(* reservation's, and in which an entry only moves along its life cycle.   *)
(* An active entry may be lost: the book then promises nothing about it    *)
(* any more, and its slot is free.  The handlers of Appointments, which    *)
(* take many steps and overlap, are shown to keep such a book, in module   *)
(* Overlaps, which says when an entry is lost.                             *)
(***************************************************************************)
CONSTANTS
    Appts, Slots,
    Null        \* nobody's

VARIABLES
    state,      \* the life of a reservation
    holder      \* whose a slot is

ActiveStates == {"pending", "confirmed"}
Transitions == {<<"pending", "confirmed">>, <<"pending", "cancelled">>,
                <<"confirmed", "completed">>, <<"confirmed", "cancelled">>,
                <<"confirmed", "no_show">>}

LedgerInit ==
    /\ state = [a \in Appts |-> "absent"]
    /\ holder = [s \in Slots |-> Null]

\* A reservation is made for a slot that is free.
Reserve(a, s) ==
    /\ state[a] = "absent" /\ holder[s] = Null
    /\ state' = [state EXCEPT ![a] = "pending"]
    /\ holder' = [holder EXCEPT ![s] = a]

\* An active reservation changes its state, its slot, or both; the slot it
\* leaves is free in the same step, and cancelling it frees its slot.
Amend(a, to, s) ==
    /\ state[a] \in ActiveStates
    /\ to = state[a] \/ <<state[a], to>> \in Transitions
    /\ holder[s] \in {a, Null}
    /\ state' = [state EXCEPT ![a] = to]
    /\ holder' = [t \in Slots |-> IF t = s /\ to # "cancelled" THEN a
                                  ELSE IF holder[t] = a THEN Null ELSE holder[t]]

\* An active reservation is written from what it was before.
Lose(a) ==
    /\ state[a] \in ActiveStates
    /\ state' = [state EXCEPT ![a] = "lost"]
    /\ holder' = [t \in Slots |-> IF holder[t] = a THEN Null ELSE holder[t]]

LedgerNext ==
    \/ \E a \in Appts : Lose(a)
    \/ \E a \in Appts, s \in Slots :
           \/ Reserve(a, s)
           \/ \E to \in {"pending", "confirmed", "cancelled", "completed", "no_show"} : Amend(a, to, s)

LedgerSpec == LedgerInit /\ [][LedgerNext]_<<state, holder>>

===============================================================================
