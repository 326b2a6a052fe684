------------------------------ MODULE MCOverlaps ------------------------------
(* Instances of Overlaps for TLC, from the values of MCAppointments.         *)
EXTENDS Overlaps, MCAppointments

===============================================================================
