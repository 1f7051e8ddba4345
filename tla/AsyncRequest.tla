---------------------------- MODULE AsyncRequest ----------------------------
(***************************************************************************)
(* What an asynchronous database request promises its caller: once issued  *)
(* it stays pending until its handler is called, which happens at most     *)
(* once, with one of the outcomes the request may legitimately have, or    *)
(* until it is abandoned, after which nothing happens to it; and it does   *)
(* not stay pending.  Where no error a node may report makes the client    *)
(* give up a request, every handler is called.  This is the promise        *)
(* db_dispatch makes to has_uuid, create_uuid and every operation of       *)
(* async_database.                                                         *)
(***************************************************************************)
CONSTANTS
    Requests,       \* the calls of send_message_to_swarm
    Outcomes,       \* [Requests -> the outcomes a handler may be given]
    Abandonable     \* may requests be given up?

VARIABLES
    phase,          \* [Requests -> {"idle", "pending", "answered", "abandoned"}]
    outcome         \* [Requests -> <<>> or <<the outcome handed over>>]

vars == <<phase, outcome>>

Init ==
    /\ phase = [r \in Requests |-> "idle"]
    /\ outcome = [r \in Requests |-> <<>>]

Issue(r) ==
    /\ phase[r] = "idle"
    /\ phase' = [phase EXCEPT ![r] = "pending"]
    /\ UNCHANGED outcome

Complete(r) ==
    /\ phase[r] = "pending"
    /\ phase' = [phase EXCEPT ![r] = "answered"]
    /\ \E v \in Outcomes[r] : outcome' = [outcome EXCEPT ![r] = <<v>>]

\* One request is dropped, or the thread that would call the handlers goes
\* down with all that are pending.
Abandon(R) ==
    /\ Abandonable
    /\ \A r \in R : phase[r] = "pending"
    /\ phase' = [r \in Requests |-> IF r \in R THEN "abandoned" ELSE phase[r]]
    /\ UNCHANGED outcome

Leave(r) == Complete(r) \/ \E R \in SUBSET Requests : r \in R /\ Abandon(R)

Next == \E r \in Requests : Issue(r) \/ Leave(r)

Fairness == \A r \in Requests : WF_vars(Leave(r))

Spec == Init /\ [][Next]_vars /\ Fairness
=============================================================================
