--------------------------- MODULE MCRegistration ---------------------------
(* Registration for TLC: one job more than the batch asks for, which a     *)
(* restart or a resume could submit.                                       *)
EXTENDS Registration

MCMaxJob == Count + 1

=============================================================================
