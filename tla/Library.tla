------------------------------ MODULE Library -------------------------------
(***************************************************************************)
(* The library as its client sees it: initialize and terminate, has_db,    *)
(* create_db and open_db with their asynchronous forms, and the methods of *)
(* the databases they hand out.                                            *)
(*                                                                         *)
(* It composes SwarmFactory and AsyncDatabase, whose steps on the io       *)
(* thread it runs, with the session, the responses and the initialization  *)
(* of swarms.  The client is one thread.  What follows an exception out of *)
(* a handler is not modelled: after it the client can only read results.   *)
(***************************************************************************)
EXTENDS Integers, Sequences, FiniteSets

CONSTANTS
    NumSwarms, Uuids, Ops, Kind, Uuid, Failures, MaxRetry,  \* see SwarmFactory
    Opens,          \* the lookups that are open_db
    Sync,           \* operations in their blocking form
    Calls, Methods, \* see AsyncDatabase
    MaxInits        \* bound on the calls of initialize

ASSUME LibraryAssumption ==
    /\ NumSwarms \in Nat
    /\ Kind \in [Ops -> {"has", "create"}]
    /\ Uuid \in [Ops -> Uuids]
    /\ Failures \in BOOLEAN
    /\ MaxRetry \in Nat
    /\ \A o \in Opens : o \in Ops /\ Kind[o] = "has"
    /\ Sync \subseteq Ops
    /\ MaxInits \in Nat

VARIABLES
    exists, swarm_dbs, called, asked, count, creating, results,
    method, target, answer, stored,
    initialized,
    io_thread,      \* "none", "running" or "joined"
    error_val,
    inits,          \* calls of initialize
    aborted,        \* was a running thread's object destroyed?
    unread,         \* history: did an initialize fail to read the registry?
    current,        \* operations of this session
    lost,           \* swarms whose request for an operation or a call was dropped
    init_called,    \* swarms whose swarm::initialize was called
    init_handler,   \* operation waiting for the first status of a swarm
    result_str,     \* the responses of Ops: the stored JSON,
    prom,           \* the promise, Unset before it is set,
    resp_error,     \* the error
    db,             \* and the swarm of the database, 0 for none
    signalling,     \* response whose set_error is under way on the io thread
    thrown,         \* did a handler throw?
    client,         \* what the client's thread waits for
    got             \* history: result given to the client, NoJson before

factory == <<exists, swarm_dbs, called, asked, count, creating, results>>
database == <<method, target, answer, stored>>
session == <<initialized, io_thread, error_val, inits, aborted, unread, current,
             lost>>
responses == <<result_str, prom, resp_error, signalling, thrown>>
vars == <<factory, database, session, responses, init_called, init_handler,
          db, client, got>>

F == INSTANCE SwarmFactory
D == INSTANCE AsyncDatabase WITH Swarms <- 1 .. NumSwarms

Swarms == F!Swarms
None == F!None
Unset == -1
Json(result, error) == [result |-> result, error |-> error]
NoJson == Json(-1, "none")

\* db_error
Code ==
    [success |-> 0, connection_error |-> 2, database_error |-> 3,
     already_exists |-> 5, no_database |-> 7]

Init ==
    /\ F!Init
    /\ D!Init
    /\ initialized = FALSE
    /\ io_thread = "none"
    /\ error_val = -1
    /\ inits = 0
    /\ aborted = FALSE
    /\ unread = FALSE
    /\ current = {}
    /\ lost = [x \in Ops \cup Calls |-> {}]
    /\ init_called = {}
    /\ init_handler = [s \in Swarms |-> {}]
    /\ result_str = [o \in Ops |-> NoJson]
    /\ prom = [o \in Ops |-> Unset]
    /\ resp_error = [o \in Ops |-> 0]
    /\ db = [o \in Ops |-> None]
    /\ signalling = {}
    /\ thrown = FALSE
    /\ client = {}
    /\ got = [o \in Ops |-> NoJson]

-----------------------------------------------------------------------------
(* Responses and swarms *)

\* The registry has a weak pointer to the swarm: a swarm lives, and remembers
\* that it was initialized, while a handler, a database or a request holds it.
Held(s) ==
    \/ init_handler[s] # {}
    \/ \E o \in Ops : db[o] = s
    \/ \E o \in Ops : (s \in asked[o] \/ creating[o] = s) /\ s \notin lost[o]
    \/ \E c \in Calls : target[c] = s /\ s \notin lost[c]

Keep(S) == init_called' = {s \in S : Held(s)'}

\* set_result and set_error on the client's thread,
CompleteAtOnce(o, json, error) ==
    /\ result_str' = [result_str EXCEPT ![o] = json]
    /\ thrown' = (prom[o] # Unset)
    /\ prom' = IF thrown' THEN prom ELSE [prom EXCEPT ![o] = error]
    /\ resp_error' = IF thrown' THEN resp_error ELSE [resp_error EXCEPT ![o] = error]
    /\ UNCHANGED signalling

\* and on the io thread, where the client may read between the promise and the
\* signal.  Setting a promise twice throws.
CompleteOnIo(o, json, error) ==
    /\ result_str' = [result_str EXCEPT ![o] = json]
    /\ thrown' = (prom[o] # Unset)
    /\ prom' = IF thrown' THEN prom ELSE [prom EXCEPT ![o] = error]
    /\ signalling' = IF thrown' THEN {} ELSE {o}
    /\ UNCHANGED resp_error

Complete(o, json, error, onIo) ==
    IF onIo THEN CompleteOnIo(o, json, error) ELSE CompleteAtOnce(o, json, error)

\* Mutant: the refusal of the swarm is not reported.
OpenDatabase_Silent(o, s, onIo) ==
    /\ init_handler' = [init_handler EXCEPT ![s] = IF s \in init_called THEN @ ELSE {o}]
    /\ Keep(init_called \cup {s})
    /\ UNCHANGED responses

\* async_database_impl::open: the swarm is initialized, which it refuses if it
\* was before.
OpenDatabase(o, s, onIo) ==
    \/ /\ s \in init_called
       /\ Complete(o, Json(0, "operation_in_progress"), Code.connection_error, onIo)
       /\ UNCHANGED init_handler
       /\ Keep(init_called)
    \/ /\ s \notin init_called
       /\ init_handler' = [init_handler EXCEPT ![s] = {o}]
       /\ Keep(init_called \cup {s})
       /\ UNCHANGED responses

\* Mutant: a failure to find or create the database is not reported.
FactoryCallback_Silent(o, r, onIo) ==
    \/ /\ r.sw # None
       /\ IF Kind[o] = "create" \/ o \in Opens THEN OpenDatabase(o, r.sw, onIo)
          ELSE /\ Complete(o, Json(1, "none"), Code.success, onIo)
               /\ UNCHANGED init_handler
               /\ Keep(init_called)
    \/ /\ r.sw = None
       /\ UNCHANGED <<responses, init_handler>>
       /\ Keep(init_called)

\* The callbacks that has_db and create_db are given by the entry points.
FactoryCallback(o, r, onIo) ==
    \/ /\ Kind[o] = "has" /\ o \notin Opens
       /\ Complete(o, Json(IF r.sw # None THEN 1 ELSE 0, "none"), Code.success, onIo)
       /\ UNCHANGED init_handler
       /\ Keep(init_called)
    \/ /\ Kind[o] = "create" \/ o \in Opens
       /\ r.sw # None
       /\ OpenDatabase(o, r.sw, onIo)
    \/ /\ Kind[o] = "create" \/ o \in Opens
       /\ r.sw = None
       /\ Complete(o, Json(0, r.err), Code[r.err], onIo)
       /\ UNCHANGED init_handler
       /\ Keep(init_called)

\* The callback is run by the step of swarm_factory that calls it.
WithCallback(o, onIo) ==
    \/ /\ results'[o] # results[o]
       /\ FactoryCallback(o, results'[o][Len(results'[o])], onIo)
    \/ /\ results'[o] = results[o]
       /\ UNCHANGED <<responses, init_handler>>
       /\ Keep(init_called)

-----------------------------------------------------------------------------
(* The session *)

ClientFree == client = {} /\ ~thrown /\ ~aborted

\* common_init makes a new io_context, dispatcher and factory, and replaces the
\* io thread; what was outstanding in an earlier session is never answered, and
\* its databases are not used any more.
common_init ==
    /\ ClientFree
    /\ ~initialized
    /\ inits < MaxInits
    /\ inits' = inits + 1
    /\ aborted' = (io_thread = "running")
    /\ swarm_dbs' = [u \in Uuids |-> None]
    /\ asked' = [o \in Ops |-> {}]
    /\ count' = [o \in Ops |-> 0]
    /\ creating' = [o \in Ops |-> None]
    /\ target' = [c \in Calls |-> 0]
    /\ init_handler' = [s \in Swarms |-> {}]
    /\ init_called' = {}
    /\ db' = [o \in Ops |-> None]
    /\ current' = {}
    /\ lost' = [x \in Ops \cup Calls |-> {}]
    /\ UNCHANGED <<exists, called, results, method, answer, stored, responses,
                   client, got>>

\* Mutant: a bad endpoint is reported without stopping the io thread.
InitializeEndpoint_NoJoin(good) ==
    /\ common_init
    /\ initialized' = good
    /\ io_thread' = "running"
    /\ error_val' = IF good THEN 0 ELSE -1
    /\ UNCHANGED unread

\* initialize with an endpoint, which may be malformed.
InitializeEndpoint(good) ==
    /\ common_init
    /\ initialized' = good
    /\ io_thread' = IF good THEN "running" ELSE "joined"
    /\ error_val' = IF good THEN 0 ELSE -1
    /\ UNCHANGED unread

\* initialize with a registry: one that cannot be read is an exception, after
\* which the io thread goes on.
InitializeEsr(good) ==
    /\ common_init
    /\ initialized' = good
    /\ io_thread' = "running"
    /\ error_val' = 0
    /\ unread' = (unread \/ ~good)

\* Mutant: the io thread is not stopped.
Terminate_NoStop ==
    /\ ClientFree
    /\ initialized
    /\ initialized' = FALSE
    /\ error_val' = -1
    /\ UNCHANGED <<factory, database, io_thread, inits, aborted, unread, current,
                   lost, responses, init_called, init_handler, db, client, got>>

\* terminate joins the io thread, so a handler that is running ends first.
Terminate ==
    /\ ClientFree
    /\ initialized
    /\ signalling = {}
    /\ io_thread' = "joined"
    /\ initialized' = FALSE
    /\ error_val' = -1
    /\ UNCHANGED <<factory, database, inits, aborted, unread, current, lost,
                   responses, init_called, init_handler, db, client, got>>

-----------------------------------------------------------------------------
(* The client's thread *)

\* async_has_db, async_create_db, async_open_db, and has_db, create_db, open_db,
\* which go on to wait for the result.
Start(o) ==
    /\ ClientFree
    /\ initialized
    /\ F!CallCached(o) \/ F!CallUncached(o)
    /\ current' = current \cup {o}
    /\ client' = IF o \in Sync THEN {o} ELSE {}
    /\ UNCHANGED <<database, initialized, io_thread, error_val, inits, aborted,
                   unread, lost, db, got>>
    /\ WithCallback(o, FALSE)

\* get_result of an asynchronous operation.
Wait(o) ==
    /\ client = {} /\ ~aborted
    /\ o \in called \ Sync
    /\ got[o] = NoJson
    /\ client' = {o}
    /\ UNCHANGED <<factory, database, session, responses, init_called,
                   init_handler, db, got>>

\* It returns; the blocking forms also record the error.
GetResult(o) ==
    /\ client = {o}
    /\ prom[o] # Unset
    /\ client' = {}
    /\ got' = [got EXCEPT ![o] = result_str[o]]
    /\ error_val' = IF o \in Sync THEN resp_error[o] ELSE error_val
    /\ UNCHANGED <<factory, database, initialized, io_thread, inits, aborted,
                   unread, current, lost, responses, init_called, init_handler,
                   db>>

\* A method of a database the client was given, in its blocking form.
CallMethod(c, m, o) ==
    /\ ClientFree
    /\ initialized
    /\ db[o] # None /\ got[o].result = 1
    /\ D!Call(c, m, db[o])
    /\ client' = {c}
    /\ UNCHANGED <<factory, session, responses, init_called, init_handler, db, got>>

MethodReturns(c) ==
    /\ client = {c}
    /\ D!Completed(c)
    /\ client' = {}
    /\ UNCHANGED <<factory, database, session, responses, init_called,
                   init_handler, db, got>>

\* The client drops a database, and with it the swarm if nothing else holds it.
Release(o) ==
    /\ ClientFree
    /\ db[o] # None /\ got[o].result = 1
    /\ db' = [db EXCEPT ![o] = None]
    /\ UNCHANGED <<factory, database, session, responses, init_handler, client, got>>
    /\ Keep(init_called)

-----------------------------------------------------------------------------
(* The io thread *)

IoFree == io_thread = "running" /\ signalling = {} /\ ~thrown /\ ~aborted

\* The handlers of has_uuid and create_uuid.
Answered(o) ==
    /\ IoFree
    /\ \/ creating[o] \notin lost[o] /\ F!AnsweredCreate(o)
       \/ \E s \in Swarms \ lost[o] : F!AnsweredHas(o, s)
    /\ UNCHANGED <<database, session, db, client, got>>
    /\ WithCallback(o, TRUE)

\* A fatal error: db_dispatch drops the request and never calls its handler, which
\* goes, and with it the hold on the swarm.
Drop(x, s) ==
    /\ IoFree
    /\ s \notin lost[x]
    /\ lost' = [lost EXCEPT ![x] = @ \cup {s}]
    /\ UNCHANGED <<factory, database, initialized, io_thread, error_val, inits,
                   aborted, unread, current, responses, init_handler, db,
                   client, got>>
    /\ Keep(init_called)

DropRequest(s) ==
    \/ \E o \in Ops : (s \in asked[o] \/ creating[o] = s) /\ Drop(o, s)
    \/ \E c \in Calls : target[c] = s /\ Drop(c, s)

\* Mutant: set_ready comes before set_db, so that the promise is set first.
FirstStatus_NoDb(s) ==
    /\ IoFree
    /\ \E o \in init_handler[s] :
        /\ CompleteOnIo(o, Json(1, "none"), Code.success)
        /\ init_handler' = [init_handler EXCEPT ![s] = IF thrown' THEN @ ELSE {}]
    /\ UNCHANGED <<factory, database, session, db, client, got>>
    /\ Keep(init_called)

\* Mutant: init_handler is not reset.
FirstStatus_Keeps(s) ==
    /\ IoFree
    /\ \E o \in init_handler[s] :
        /\ CompleteOnIo(o, Json(1, "none"), Code.success)
        /\ db' = [db EXCEPT ![o] = s]
    /\ UNCHANGED <<factory, database, session, init_handler, client, got>>
    /\ Keep(init_called)

\* The first status of a swarm: init_handler, which is the callback of open.  The
\* step ends where the client may notice, with the promise, so it shows what was
\* done before: set_result and set_db, not the signal.
FirstStatus(s) ==
    /\ IoFree
    /\ \E o \in init_handler[s] :
        /\ CompleteOnIo(o, Json(1, "none"), Code.success)
        /\ db' = [db EXCEPT ![o] = s]
        /\ init_handler' = [init_handler EXCEPT ![s] = IF thrown' THEN @ ELSE {}]
    /\ UNCHANGED <<factory, database, session, client, got>>
    /\ Keep(init_called)

\* The rest of set_error: the error is stored and signalled.
Signal ==
    /\ signalling # {}
    /\ resp_error' = [o \in Ops |-> IF o \in signalling THEN prom[o] ELSE resp_error[o]]
    /\ signalling' = {}
    /\ UNCHANGED <<factory, database, session, result_str, prom, thrown,
                   init_called, init_handler, db, client, got>>

MethodAnswered(c) ==
    /\ IoFree
    /\ target[c] \notin lost[c]
    /\ \E r \in D!Answers(method[c]) : D!Answer(c, r)
    /\ UNCHANGED <<factory, session, responses, init_handler, db, client, got>>
    /\ Keep(init_called)

-----------------------------------------------------------------------------
Next ==
    \/ \E good \in BOOLEAN : InitializeEndpoint(good) \/ InitializeEsr(good)
    \/ Terminate
    \/ \E o \in Ops : Start(o) \/ Wait(o) \/ GetResult(o) \/ Release(o) \/ Answered(o)
    \/ \E s \in Swarms : FirstStatus(s) \/ DropRequest(s)
    \/ Signal
    \/ \E c \in Calls :
        \/ \E m \in Methods, o \in Ops : CallMethod(c, m, o)
        \/ MethodReturns(c)
        \/ MethodAnswered(c)

\* db_dispatch answers every request it does not drop, by a timeout at the latest,
\* a handler that was begun ends, and a client whose result is there goes on.  No
\* status has to come.
Fairness ==
    /\ \A o \in Ops : WF_vars(Answered(o)) /\ WF_vars(GetResult(o))
    /\ \A c \in Calls : WF_vars(MethodAnswered(c)) /\ WF_vars(MethodReturns(c))
    /\ WF_vars(Signal)

Spec == Init /\ [][Next]_vars
FairSpec == Spec /\ Fairness

-----------------------------------------------------------------------------
(* Properties *)

\* The variables have their types: errors are members of db_error, one handler
\* waits for a swarm, and an initialized swarm is held by someone.
TypeOK ==
    /\ F!TypeOK
    /\ initialized \in BOOLEAN
    /\ io_thread \in {"none", "running", "joined"}
    /\ error_val \in {-1, 0, 2, 3, 5, 7}
    /\ init_called \subseteq Swarms
    /\ \A s \in init_called : Held(s)
    /\ \A s \in Swarms : Cardinality(init_handler[s]) <= 1
    /\ prom \in [Ops -> {Unset, 0, 2, 3, 5, 7}]
    /\ resp_error \in [Ops -> {0, 2, 3, 5, 7}]
    /\ db \in [Ops -> Swarms \cup {None}]
    /\ lost \in [Ops \cup Calls -> SUBSET Swarms]
    /\ Cardinality(signalling) <= 1
    /\ Cardinality(client) <= 1

\* The outcome of an operation is decided once: a promise is set again, and the
\* handler throws, only if swarm_factory has called back twice for one operation,
\* never because of databases that share a swarm, further statuses, failures,
\* retries or an earlier session.
OutcomeOnce == thrown => \E o \in Ops : Len(results[o]) > 1

\* Until a handler throws: a client that was told of success by create_db or
\* open_db in this session has a database, until it drops it, and every database
\* is on a swarm that holds it, is initialized and has been heard.
DatabasesUsable ==
    ~thrown => \A o \in current :
        /\ prom[o] = 0 /\ got[o] = NoJson /\ (Kind[o] = "create" \/ o \in Opens)
            => db[o] # None
        /\ db[o] # None =>
            /\ Uuid[o] \in exists[db[o]]
            /\ db[o] \in init_called
            /\ init_handler[db[o]] = {}

\* The object of a running io thread is destroyed, which aborts the process, only
\* after an initialize that could not read the registry; bad endpoints, failures
\* and any order of sessions leave the thread joined before it is replaced.
AbortedOnlyUnread == aborted => unread

\* Nothing is completed after terminate: an operation of a session that has ended
\* keeps the outcome it had.
QuietAfterTerminate ==
    [][~initialized => UNCHANGED <<prom, result_str, resp_error, stored>>]_vars

\* Why an operation or a call may stay without a result for good: its swarm sends
\* no status, db_dispatch has dropped one of its requests, a handler has thrown,
\* or the session is over.
MayWait(x) ==
    \/ \E s \in Swarms : x \in init_handler[s]
    \/ lost[x] # {}
    \/ thrown
    \/ ~initialized

\* Every operation ends, with these exceptions.
EveryOperationEnds ==
    \A o \in Ops : []<>(o \in current => prom[o] # Unset \/ MayWait(o))

\* A client blocked on an operation of this session, or on a method of a database,
\* gets its result, with the same exceptions.
BlockedClientGoesOn ==
    \A x \in Ops \cup Calls :
        []<>(client = {x} /\ x \in current \cup Calls => MayWait(x))

\* The result of a method that needs a quorum carries an error, in the JSON and in
\* its number, exactly if the swarm reported one or the request timed out.
FailuresReported == D!FailuresReported

\* The same for quick_read, "result - set to 1 on success ... or error - set to
\* error message": its request may time out as well.
QuickReadTruthful == D!QuickReadTruthful
=============================================================================
