------------------------------ MODULE MCAccounts ------------------------------
(* Instances of Accounts for TLC.                                            *)
EXTENDS Accounts, TLC

CONSTANTS i1, i2, i3, e1, e2, g1, g2, p1, p2

\* The first account is special, the others and the calls are not.
Alike == Permutations(Ids \ {i1}) \cup Permutations(Calls)

\* The first administrator was made one by hand.
Boss == [NewAccount(e2, g2, "hash") EXCEPT !.role = "admin"]
Nobody == [i \in Ids |-> Null]
OnlyBoss == [i \in Ids |-> IF i = i1 THEN Boss ELSE Null]

\* Each person has a Google account.
OwnEmails == {<<g1, e1>>, <<g2, e2>>}

NoBody == [email |-> Null, role |-> Null, password |-> Null]
Promotions == {[NoBody EXCEPT !.role = r] : r \in {"admin", "user"}}
Edits == Promotions \cup {[NoBody EXCEPT !.email = e1, !.password = s] : s \in {"hash", "verbatim"}}
===============================================================================
