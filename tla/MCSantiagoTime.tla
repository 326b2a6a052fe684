---------------------------- MODULE MCSantiagoTime ----------------------------
(* An instance of SantiagoTime for TLC: a tick is half an hour.              *)
EXTENDS SantiagoTime

\* Between UTC-3 and UTC-4, at the first midnight of the range
PutBack == [change |-> DayLength + 6, before |-> -6, after |-> -8]
PutForward == [change |-> DayLength + 8, before |-> -8, after |-> -6]
BothChanges == {PutBack, PutForward}

ThreeDays == 0..(3 * DayLength - 1)
AroundThem == (0 - DayLength)..(4 * DayLength)
===============================================================================
