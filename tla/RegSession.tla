----------------------------- MODULE RegSession -----------------------------
(***************************************************************************)
(* What a registration session promises to those who watch it: it is open  *)
(* until its worker ends it, once; it never says imported before the pool  *)
(* has the account; a stop asks, and the worker answers in its own time    *)
(* with whatever end it came to.  It always comes to one.                  *)
(*                                                                         *)
(* Module Enrolment is the worker and implements this.                     *)
(***************************************************************************)
CONSTANT Worker

VARIABLES
    phase,   \* open, imported, error or cancelled
    stored,  \* the account is in the pool
    asked    \* a stop was requested

vars == <<phase, stored, asked>>

Init ==
    /\ phase = [w \in Worker |-> "open"]
    /\ stored = [w \in Worker |-> FALSE]
    /\ asked = [w \in Worker |-> FALSE]

Ask(w) ==
    /\ phase[w] = "open"
    /\ asked' = [asked EXCEPT ![w] = TRUE]
    /\ UNCHANGED <<phase, stored>>

Store(w) ==
    /\ phase[w] = "open" /\ ~stored[w]
    /\ stored' = [stored EXCEPT ![w] = TRUE]
    /\ UNCHANGED <<phase, asked>>

End(w, p) ==
    /\ phase[w] = "open"
    /\ p = "imported" => stored[w]
    /\ p = "cancelled" => asked[w]
    /\ phase' = [phase EXCEPT ![w] = p]
    /\ UNCHANGED <<stored, asked>>

Next ==
    \E w \in Worker :
        Ask(w) \/ Store(w) \/ \E p \in {"imported", "error", "cancelled"} : End(w, p)

\* A session ends whether or not it is stopped.
Ends == \A w \in Worker : WF_vars(\E p \in {"imported", "error", "cancelled"} : End(w, p))

Spec == Init /\ [][Next]_vars /\ Ends

=============================================================================
