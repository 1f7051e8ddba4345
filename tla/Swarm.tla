------------------------------- MODULE Swarm --------------------------------
(***************************************************************************)
(* swarm: the list of the nodes of a swarm, kept up to date by asking each *)
(* of them for its status, and the choice of the node a request is sent    *)
(* to.                                                                     *)
(*                                                                         *)
(* Messages and timers are handled on the io thread; send_request runs on  *)
(* the client's thread, on a copy of the pointer to the list.  A status    *)
(* answer builds a new list and puts it in place of the old one, into      *)
(* which its operator[] has put an entry with a null node for every uuid   *)
(* it did not know.  The old list and the entries in it are destroyed      *)
(* unless the client's thread still uses it.                               *)
(*                                                                         *)
(* A poll of a node is a status request being written ("fresh" while the   *)
(* entry its callback refers to is in the current list, "stale" once the   *)
(* list was replaced), one that was "sent" and not answered yet, an armed  *)
(* status timer, or an expired one whose handler is "queued".  A write     *)
(* that was under way when its node was dropped is "gone": node has been   *)
(* destroyed, but its write handler still calls the callback.              *)
(***************************************************************************)
EXTENDS Integers, Sequences, FiniteSets

CONSTANTS
    Uuids,          \* nodes that are ever members of the swarm
    Initial,        \* node list the swarm is constructed with
    NoNode,         \* the empty string for a uuid
    Inits,          \* calls of initialize
    Faults,         \* what may go wrong
    MaxDuration,    \* status durations are 1 .. MaxDuration, 0 for unknown
    MaxStatus,      \* bound on the status answers handled
    MaxSends        \* bound on the requests of the client's thread

ASSUME SwarmAssumption ==
    /\ Initial \subseteq Uuids /\ Initial # {}
    /\ NoNode \notin Uuids
    /\ Faults \subseteq {"send_error", "garbled", "throw", "no_primary"}
    /\ MaxDuration \in Nat \ {0}
    /\ MaxStatus \in Nat /\ MaxSends \in Nat

VARIABLES
    nodes,          \* keys of the current node list
    blank,          \* those whose node is null
    duration,       \* last_status_duration of each entry
    primary_node,
    fastest_node,
    init_called,
    init_handler,   \* the call of initialize to complete, or none
    told,           \* history: what the handlers of initialize were told
    polls,          \* polls of each node, by phase
    armed,          \* nodes whose status timer is armed
    statuses,       \* status answers handled
    silent,         \* history: nodes whose answer could not be used
    client,         \* the send_request of the client's thread
    sends,          \* requests it has sent
    failed          \* a null node was used, or a destroyed entry

vars == <<nodes, blank, duration, primary_node, fastest_node, init_called,
          init_handler, told, polls, armed, statuses, silent, client, sends,
          failed>>

Phases == {"fresh", "stale", "sent", "queued", "gone"}
NoPolls == [ph \in Phases |-> 0]
Idle == [busy |-> FALSE, keys |-> {}, null |-> {}, target |-> NoNode,
         current |-> FALSE]

\* init_nodes has put the initial nodes in place; the first is the primary.
Init ==
    /\ nodes = Initial
    /\ blank = {}
    /\ duration = [n \in Uuids |-> 0]
    /\ primary_node \in Initial
    /\ fastest_node = primary_node
    /\ init_called = FALSE
    /\ init_handler = {}
    /\ told = [i \in Inits |-> <<>>]
    /\ polls = [n \in Uuids |-> NoPolls]
    /\ armed = {}
    /\ statuses = 0
    /\ silent = {}
    /\ client = Idle
    /\ sends = 0
    /\ failed = FALSE

-----------------------------------------------------------------------------
(* Initialization *)

Tell(i, what) == told' = [told EXCEPT ![i] = Append(@, what)]

\* initialize: the status of every node is requested.
Initialize(i) ==
    /\ ~failed /\ ~init_called
    /\ told[i] = <<>>
    /\ init_called' = TRUE
    /\ init_handler' = {i}
    /\ polls' = [n \in Uuids |->
            IF n \in nodes THEN [polls[n] EXCEPT !["fresh"] = @ + 1]
            ELSE polls[n]]
    /\ UNCHANGED <<nodes, blank, duration, primary_node, fastest_node, told,
                   armed, statuses, silent, client, sends, failed>>

\* initialize when it was called before.
InitializeAgain(i) ==
    /\ ~failed /\ init_called
    /\ told[i] = <<>> /\ i \notin init_handler
    /\ Tell(i, "operation_in_progress")
    /\ UNCHANGED <<nodes, blank, duration, primary_node, fastest_node,
                   init_called, init_handler, polls, armed, statuses,
                   silent, client, sends, failed>>

\* Mutant: the handler is not cleared.
CompleteInit_Keeps ==
    /\ told' = [i \in Inits |->
            IF i \in init_handler THEN Append(told[i], "success") ELSE told[i]]
    /\ UNCHANGED init_handler

\* The end of handle_status_response: the first status completes initialize.
CompleteInit ==
    /\ told' = [i \in Inits |->
            IF i \in init_handler THEN Append(told[i], "success") ELSE told[i]]
    /\ init_handler' = {}

-----------------------------------------------------------------------------
(* Status requests *)

\* The write of a status request is over; the callback does nothing.
StatusSent(n, age) ==
    /\ ~failed
    /\ polls[n][age] > 0
    /\ polls' = [polls EXCEPT ![n][age] = @ - 1, ![n]["sent"] = @ + 1]
    /\ UNCHANGED <<nodes, blank, duration, primary_node, fastest_node,
                   init_called, init_handler, told, armed, statuses,
                   silent, client, sends, failed>>

\* The write failed: the callback of send_status_request resets the duration
\* and sets the timer.
StatusSendFailed(n) ==
    /\ ~failed
    /\ "send_error" \in Faults
    /\ polls[n]["fresh"] > 0
    /\ polls' = [polls EXCEPT ![n]["fresh"] = @ - 1]
    /\ duration' = [duration EXCEPT ![n] = 0]
    /\ armed' = armed \cup {n}
    /\ UNCHANGED <<nodes, blank, primary_node, fastest_node, init_called,
                   init_handler, told, statuses, silent, client, sends,
                   failed>>

\* The same through a reference to an entry of a list that was replaced.  The
\* duration in the current list stays; if the memory of the entry is intact it
\* still holds the pointer to the timer, and otherwise anything may happen.
StatusSendFailedStale(n) ==
    /\ ~failed
    /\ "send_error" \in Faults
    /\ polls[n]["stale"] > 0
    /\ polls' = [polls EXCEPT ![n]["stale"] = @ - 1]
    /\ \E intact \in BOOLEAN :
        /\ armed' = IF intact THEN armed \cup {n} ELSE armed
        /\ failed' = ~intact
    /\ UNCHANGED <<nodes, blank, duration, primary_node, fastest_node,
                   init_called, init_handler, told, statuses, silent, client,
                   sends>>

\* The write of a node that was dropped ends, as a rule because its websocket was
\* destroyed.  The callback uses the entry and its timer, which are destroyed as
\* well, unless the client's thread still holds the list: anything may happen,
\* nothing, or a wait that expires.
GoneWriteEnds(n) ==
    /\ ~failed
    /\ polls[n]["gone"] > 0
    /\ \E waits \in {0, 1} :
        polls' = [polls EXCEPT ![n]["gone"] = @ - 1, ![n]["queued"] = @ + waits]
    /\ failed' \in BOOLEAN
    /\ UNCHANGED <<nodes, blank, duration, primary_node, fastest_node,
                   init_called, init_handler, told, armed, statuses, silent,
                   client, sends>>

TimerExpires(n) ==
    /\ ~failed
    /\ n \in armed
    /\ armed' = armed \ {n}
    /\ polls' = [polls EXCEPT ![n]["queued"] = @ + 1]
    /\ UNCHANGED <<nodes, blank, duration, primary_node, fastest_node,
                   init_called, init_handler, told, statuses, silent, client,
                   sends, failed>>

\* The handler of the timer: send_status_request, which does nothing for a
\* node that is no longer listed.
TimerHandled(n) ==
    /\ ~failed
    /\ polls[n]["queued"] > 0
    /\ polls' = [polls EXCEPT ![n]["queued"] = @ - 1,
            ![n]["fresh"] = IF n \in nodes THEN @ + 1 ELSE @]
    /\ failed' = (n \in blank)
    /\ UNCHANGED <<nodes, blank, duration, primary_node, fastest_node,
                   init_called, init_handler, told, armed, statuses,
                   silent, client, sends>>

-----------------------------------------------------------------------------
(* Status answers *)

\* handle_node_message lets the answer of u through: u is listed, and every
\* node of the list could be told to back off.
Answered(u) ==
    /\ ~failed
    /\ statuses < MaxStatus
    /\ statuses' = statuses + 1
    /\ u \in nodes /\ blank = {}
    /\ polls[u]["sent"] > 0

\* Durations of the entries of the new list L: the one of u is measured, the
\* others are copied, and new nodes have none.
NewDuration(u, L, d) ==
    [n \in Uuids |-> IF n \notin L THEN 0
                     ELSE IF n = u THEN d
                     ELSE IF n \in nodes THEN duration[n] ELSE 0]

\* Mutant: the node that answered is taken for the fastest.
Fastest_Last(u, L, d, dur) == {u}

\* The nodes the search for the fastest may end with: u unless one is faster.
Fastest(u, L, d, dur) ==
    LET faster == {n \in L : dur[n] > 0 /\ dur[n] < d} IN
    IF faster = {} THEN {u}
    ELSE {n \in faster : \A m \in faster : dur[n] <= dur[m]}

\* The polls of n after the answer of u put a list that has n in place: writes
\* that go on refer to the old list.
KeptPolls(u, n) ==
    [polls[n] EXCEPT !["fresh"] = 0,
                     !["stale"] = @ + polls[n]["fresh"],
                     !["sent"] = IF n = u THEN @ - 1 ELSE @]

\* Those of a node dropped from the list: it goes with its queue, and of its
\* messages only the one being written has a handler left.
DroppedPolls(n) ==
    [ph \in Phases |->
        CASE ph = "queued" -> polls[n]["queued"]
          [] ph = "gone" -> polls[n]["gone"] +
                (IF polls[n]["fresh"] + polls[n]["stale"] > 0 THEN 1 ELSE 0)
          [] OTHER -> 0]

\* A node that joins is polled.
NewPolls(u, L) ==
    [n \in Uuids |->
        IF n \in nodes
        THEN IF n \in L THEN KeptPolls(u, n) ELSE DroppedPolls(n)
        ELSE [polls[n] EXCEPT !["fresh"] = IF n \in L THEN 1 ELSE 0]]

\* The list the client's thread is using gets the null entries.
BlanksIn(new) ==
    IF client.current
    THEN [client EXCEPT !.keys = @ \cup new, !.null = @ \cup new,
                        !.current = FALSE]
    ELSE client

\* Mutant: the timer of a node is set only the first time.
schedule_status_request_Once(u, L) ==
    armed' = (armed \cap L) \cup (IF duration[u] = 0 THEN {u} \cap L ELSE {})

\* The timer of u is set; the timers of dropped nodes are destroyed.
schedule_status_request(u, L) == armed' = (armed \cap L) \cup ({u} \cap L)

\* handle_status_response for the status of u with the peer list L and the
\* primary p, d after it was requested: add_node makes an entry with a node for
\* every uuid whose entry has none.
HandleStatusResponse(u, L, p, d) ==
    LET new == L \ nodes
        dur == NewDuration(u, L, d) IN
    /\ Answered(u)
    /\ p \in L \/ (p = NoNode /\ "no_primary" \in Faults)
    /\ nodes' = L
    /\ blank' = {}
    /\ duration' = dur
    /\ primary_node' = p
    /\ fastest_node' \in Fastest(u, L, d, dur)
    /\ polls' = NewPolls(u, L)
    /\ schedule_status_request(u, L)
    /\ client' = BlanksIn(new)
    /\ CompleteInit
    /\ silent' = (silent \cap L \cap nodes) \ {u}
    /\ UNCHANGED <<init_called, sends, failed>>

\* A status that cannot be parsed: initialize is completed all the same.
HandleGarbledStatus(u) ==
    /\ "garbled" \in Faults
    /\ Answered(u)
    /\ polls' = [polls EXCEPT ![u]["sent"] = @ - 1]
    /\ silent' = silent \cup {u}
    /\ CompleteInit
    /\ UNCHANGED <<nodes, blank, duration, primary_node, fastest_node,
                   init_called, armed, client, sends, failed>>

\* An exception: its JSON is malformed, or one of the nodes it lists cannot be
\* resolved.  The entries the peer list was found to add so far stay in the
\* current list without a node; the timer of u may have been set before.
HandleStatusThrows(u, L, again) ==
    /\ "throw" \in Faults
    /\ Answered(u)
    /\ L \cap nodes = {} /\ (again => L # {})
    /\ nodes' = nodes \cup L
    /\ blank' = L
    /\ polls' = [polls EXCEPT ![u]["sent"] = @ - 1]
    /\ armed' = IF again THEN armed \cup {u} ELSE armed
    /\ silent' = IF again THEN silent ELSE silent \cup {u}
    /\ client' = IF client.current
                 THEN [client EXCEPT !.keys = @ \cup L, !.null = @ \cup L]
                 ELSE client
    /\ UNCHANGED <<duration, primary_node, fastest_node, init_called,
                   init_handler, told, sends, failed>>

\* handle_node_message calls back_off on every node of the list, and so does a
\* broadcast with send_message: a null node among them ends the process.
UseAllNodes ==
    /\ ~failed
    /\ blank # {}
    /\ failed' = TRUE
    /\ UNCHANGED <<nodes, blank, duration, primary_node, fastest_node,
                   init_called, init_handler, told, polls, armed, statuses,
                   silent, client, sends>>

-----------------------------------------------------------------------------
(* send_request on the client's thread *)

\* The current list, primary and fastest node are copied under the mutex.
BeginSend(target) ==
    /\ ~failed
    /\ ~client.busy /\ sends < MaxSends
    /\ sends' = sends + 1
    /\ target \in {primary_node, fastest_node}
    /\ client' = [busy |-> TRUE, keys |-> nodes, null |-> blank,
                  target |-> target, current |-> TRUE]
    /\ UNCHANGED <<nodes, blank, duration, primary_node, fastest_node,
                   init_called, init_handler, told, polls, armed, statuses,
                   silent, failed>>

\* The target is looked up in the list that was copied; if it is not there the
\* first node is taken, which may be any.
EndSend(n) ==
    /\ ~failed
    /\ client.busy
    /\ n \in client.keys
    /\ client.target \in client.keys => n = client.target
    /\ client' = Idle
    /\ failed' = (n \in client.null)
    /\ UNCHANGED <<nodes, blank, duration, primary_node, fastest_node,
                   init_called, init_handler, told, polls, armed, statuses,
                   silent, sends>>

-----------------------------------------------------------------------------
Poll(n) ==
    \/ \E age \in {"fresh", "stale"} : StatusSent(n, age)
    \/ StatusSendFailed(n) \/ StatusSendFailedStale(n) \/ GoneWriteEnds(n)
    \/ TimerExpires(n) \/ TimerHandled(n)

StatusAnswer(u) ==
    \/ \E L \in (SUBSET Uuids) \ {{}}, p \in Uuids \cup {NoNode},
          d \in 1 .. MaxDuration : HandleStatusResponse(u, L, p, d)
    \/ HandleGarbledStatus(u)
    \/ \E L \in SUBSET Uuids, again \in BOOLEAN : HandleStatusThrows(u, L, again)

ClientStep ==
    \/ \E target \in Uuids \cup {NoNode} : BeginSend(target)
    \/ \E n \in Uuids : EndSend(n)

Next ==
    \/ \E i \in Inits : Initialize(i) \/ InitializeAgain(i)
    \/ \E n \in Uuids : Poll(n) \/ StatusAnswer(n)
    \/ UseAllNodes
    \/ ClientStep

Spec == Init /\ [][Next]_vars

-----------------------------------------------------------------------------
(* Properties *)

\* Every member of the swarm object has its declared type: the entries without
\* a node are entries of the list, and the polls are counted per phase.
TypeOK ==
    /\ nodes \in (SUBSET Uuids) \ {{}} /\ blank \subseteq nodes
    /\ duration \in [Uuids -> 0 .. MaxDuration]
    /\ primary_node \in Uuids \cup {NoNode} /\ fastest_node \in Uuids
    /\ init_called \in BOOLEAN
    /\ init_handler \subseteq Inits /\ Cardinality(init_handler) <= 1
    /\ told \in [Inits -> Seq({"success", "operation_in_progress"})]
    /\ polls \in [Uuids -> [Phases -> Nat]]
    /\ armed \subseteq nodes
    /\ statuses \in 0 .. MaxStatus /\ sends \in 0 .. MaxSends
    /\ silent \subseteq nodes
    /\ client.null \subseteq client.keys
    /\ failed \in BOOLEAN

\* The handler of initialize is called at most once, however many nodes answer
\* and whether their answers can be used or not.
InitHandlerOnce == \A i \in Inits : Len(told[i]) <= 1

Polled(n) == n \in armed \/ \E ph \in Phases \ {"gone"} : polls[n][ph] > 0

\* Once initialized, every node of the list is polled: a request to it is on
\* its way or unanswered, or its timer is running, whatever nodes join, leave
\* and come back, with what is left of their former entries still under way, and
\* as long as no callback has used a destroyed entry.  The exception is a node
\* that sent a status that could not be used: nothing asks it again.
ListedNodesPolled ==
    init_called /\ ~failed => \A n \in nodes \ (silent \cup blank) : Polled(n)

\* fastest_node has the shortest duration of the nodes listed whose duration is
\* known, as long as its own is known: answers, joining and leaving nodes and
\* failed requests between them leave no faster node behind.
FastestIsFastest ==
    fastest_node \in nodes /\ duration[fastest_node] > 0 =>
        \A n \in nodes : duration[n] > 0 => duration[fastest_node] <= duration[n]

\* Every node a request, a back-off or a status request goes to exists.
NoNullNode == ~failed
=============================================================================
