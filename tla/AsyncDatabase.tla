--------------------------- MODULE AsyncDatabase ----------------------------
(***************************************************************************)
(* async_database_impl: each method sends one request through db_dispatch  *)
(* and turns the answer into the JSON result of a response.                *)
(*                                                                         *)
(* db_dispatch is used through what AsyncRequest promises: one answer per  *)
(* request.  It never passes an error code, so the branches for one are    *)
(* left out.  Keys and values are left out: "data" stands for all members  *)
(* of a result that are copied from the answer.                            *)
(***************************************************************************)
EXTENDS Integers

CONSTANTS
    Calls,          \* calls of methods of databases
    Methods,        \* methods that are called
    Swarms          \* swarms the databases are on, not 0

VARIABLES
    method,         \* method of each call, "none" before
    target,         \* swarm of its outstanding request, 0 for none
    answer,         \* history: the database_response the handler was given
    stored          \* result of its response, [json, error], once completed

vars == <<method, target, answer, stored>>

\* A database_response holds an error or the payload of its request: reading
\* the other one gives an empty message.  The payload says whether a key is
\* there ("absent" if not), or carries the error of a quick read.
Response(error, payload) == [error |-> error, payload |-> payload]

NoResponse == Response("none", "empty")

\* The members of a JSON result, -1 for no "result".
Json(result, error, data) == [result |-> result, error |-> error, data |-> data]

\* set_result, then set_ready or set_error.
Ready(json) == [json |-> json, error |-> 0]
Failed(message, code) == [json |-> Json(-1, message, "empty"), error |-> code]
NotStored == Failed("none", -1)

DatabaseError == 3      \* db_error::database_error

Init ==
    /\ method = [c \in Calls |-> "none"]
    /\ target = [c \in Calls |-> 0]
    /\ answer = [c \in Calls |-> NoResponse]
    /\ stored = [c \in Calls |-> NotStored]

-----------------------------------------------------------------------------
(* What the handlers store *)

\* Mutant: the error of the answer is not looked at.
translate_swarm_response_Blind(r, json) == Ready(json)

translate_swarm_response(r, json) ==
    IF r.error # "none" THEN Failed(r.error, DatabaseError) ELSE Ready(json)

send_message_with_basic_response(r) ==
    translate_swarm_response(r, Json(1, "none", "empty"))

create(r) == send_message_with_basic_response(r)
update(r) == send_message_with_basic_response(r)
remove(r) == send_message_with_basic_response(r)
expire(r) == send_message_with_basic_response(r)
persist(r) == send_message_with_basic_response(r)
add_writer(r) == send_message_with_basic_response(r)
remove_writer(r) == send_message_with_basic_response(r)

read(r) == translate_swarm_response(r, Json(1, "none", r.payload))
size(r) == translate_swarm_response(r, Json(1, "none", r.payload))
ttl(r) == translate_swarm_response(r, Json(1, "none", r.payload))
writers(r) == translate_swarm_response(r, Json(1, "none", r.payload))

\* The list of keys comes without a "result".
keys(r) == translate_swarm_response(r, Json(-1, "none", r.payload))

has(r) ==
    translate_swarm_response(
        r, Json(IF r.payload = "absent" THEN 0 ELSE 1, "none", "empty"))

\* Only the error inside the payload is looked at.
quick_read(r) ==
    IF r.payload = "failed" THEN Failed(r.payload, DatabaseError)
    ELSE Ready(Json(1, "none", r.payload))

Handler(r) ==
    [create |-> create(r), read |-> read(r), update |-> update(r),
     remove |-> remove(r), quick_read |-> quick_read(r), has |-> has(r),
     keys |-> keys(r), size |-> size(r), expire |-> expire(r),
     persist |-> persist(r), ttl |-> ttl(r), writers |-> writers(r),
     add_writer |-> add_writer(r), remove_writer |-> remove_writer(r)]

-----------------------------------------------------------------------------
\* What swarms answer to method m.  A timeout is an answer with an error; the
\* nodes report the errors of quick reads in the payload and others as errors.
Answers(m) ==
    {Response("none", "data"), Response("timeout", "empty")}
    \cup (IF m = "quick_read" THEN {Response("none", "failed")}
          ELSE {Response("failed", "empty")})
    \cup (IF m = "has" THEN {Response("none", "absent")} ELSE {})

\* A method is called on a database on swarm s.
Call(c, m, s) ==
    /\ method[c] = "none"
    /\ method' = [method EXCEPT ![c] = m]
    /\ target' = [target EXCEPT ![c] = s]
    /\ UNCHANGED <<answer, stored>>

\* db_dispatch calls the handler.
Answer(c, r) ==
    /\ target[c] # 0
    /\ r \in Answers(method[c])
    /\ answer' = [answer EXCEPT ![c] = r]
    /\ stored' = [stored EXCEPT ![c] = Handler(r)[method[c]]]
    /\ target' = [target EXCEPT ![c] = 0]
    /\ UNCHANGED method

-----------------------------------------------------------------------------
(* Properties *)

Completed(c) == stored[c] # NotStored
SwarmFailed(r) == r.error # "none" \/ r.payload = "failed"
ErrorGiven(c) == stored[c].json.error # "none" /\ stored[c].error # 0

\* A result of translate_swarm_response carries an error, and an error number,
\* exactly if the swarm reported one or the request timed out; a key that is not
\* there is no error.
FailuresReported ==
    \A c \in Calls : Completed(c) /\ method[c] # "quick_read" =>
        (ErrorGiven(c) <=> SwarmFailed(answer[c]))

\* quick_read gives "result - set to 1 on success ... or error - set to error
\* message", also when no node answers in time.
QuickReadTruthful ==
    \A c \in Calls : Completed(c) /\ method[c] = "quick_read" =>
        (ErrorGiven(c) <=> SwarmFailed(answer[c]))
=============================================================================
