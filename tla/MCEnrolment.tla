---------------------------- MODULE MCEnrolment ----------------------------
(* Enrolment for TLC. *)
EXTENDS Enrolment

MCWorker == {"w1", "w2"}

=============================================================================
