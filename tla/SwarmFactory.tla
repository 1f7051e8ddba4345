---------------------------- MODULE SwarmFactory ----------------------------
(***************************************************************************)
(* swarm_factory: finds the swarm that holds a database by asking all of   *)
(* them, creates databases, and remembers where they are.                  *)
(*                                                                         *)
(* has_uuid and create_uuid of db_dispatch are used through what           *)
(* AsyncRequest promises: each call is answered once, by the swarm or by   *)
(* the error a timeout turns into, and answers come in any order.  Swarms  *)
(* are numbered as the registry lists them.                                *)
(***************************************************************************)
EXTENDS Integers, Sequences, FiniteSets

CONSTANTS
    NumSwarms,      \* swarms in the registry
    Uuids,          \* databases
    Ops,            \* calls of has_db and create_db
    Kind,           \* [Ops -> {"has", "create"}]
    Uuid,           \* [Ops -> Uuids]
    Failures,       \* may a request to a swarm fail or time out?
    MaxRetry        \* MAX_RETRY

ASSUME FactoryAssumption ==
    /\ NumSwarms \in Nat
    /\ Kind \in [Ops -> {"has", "create"}]
    /\ Uuid \in [Ops -> Uuids]
    /\ Failures \in BOOLEAN
    /\ MaxRetry \in Nat

Swarms == 1 .. NumSwarms
None == 0

VARIABLES
    exists,         \* the databases each swarm really holds
    swarm_dbs,      \* swarm_factory::swarm_dbs, None for no entry
    called,         \* operations that were started
    asked,          \* swarms whose has_uuid is outstanding, per operation
    count,          \* the shared counter of has_db
    creating,       \* swarm whose create_uuid is outstanding, or None
    results         \* history: what the callback was called with

vars == <<exists, swarm_dbs, called, asked, count, creating, results>>

Holders(u) == {s \in Swarms : u \in exists[s]}

\* A database is on one swarm or on none when the client starts.
Init ==
    /\ \E at \in [Uuids -> Swarms \cup {None}] :
            exists = [s \in Swarms |-> {u \in Uuids : at[u] = s}]
    /\ swarm_dbs = [u \in Uuids |-> None]
    /\ called = {}
    /\ asked = [o \in Ops |-> {}]
    /\ count = [o \in Ops |-> 0]
    /\ creating = [o \in Ops |-> None]
    /\ results = [o \in Ops |-> <<>>]

-----------------------------------------------------------------------------
Callback(o, err, sw) ==
    results' = [results EXCEPT ![o] = Append(@, [err |-> err, sw |-> sw])]

\* select_swarm_for_size takes the retry count as an index into the list of
\* swarms, counted from 0.
SwarmAt(retry) == retry + 1
FirstRetry == IF MaxRetry < NumSwarms - 1 THEN MaxRetry ELSE NumSwarms - 1

\* do_create_db: create_uuid is sent to the swarm the retry count selects.
do_create_db(o, retry) == creating' = [creating EXCEPT ![o] = SwarmAt(retry)]

\* Mutant: create_db does not return after "already exists".
HasCallback_NoReturn(o, err, sw) ==
    \/ /\ Kind[o] = "has"
       /\ Callback(o, err, sw)
       /\ UNCHANGED creating
    \/ /\ Kind[o] = "create" /\ sw # None
       /\ Callback(o, "already_exists", None)
       /\ do_create_db(o, FirstRetry)
    \/ /\ Kind[o] = "create" /\ sw = None
       /\ do_create_db(o, FirstRetry)
       /\ UNCHANGED results

\* The callback has_db was given: the client's, or the one of create_db, which
\* goes on to create the database unless a swarm has it.
HasCallback(o, err, sw) ==
    \/ /\ Kind[o] = "has"
       /\ Callback(o, err, sw)
       /\ UNCHANGED creating
    \/ /\ Kind[o] = "create" /\ sw # None
       /\ Callback(o, "already_exists", None)
       /\ UNCHANGED creating
    \/ /\ Kind[o] = "create" /\ sw = None
       /\ do_create_db(o, FirstRetry)
       /\ UNCHANGED results

Begin(o) ==
    /\ o \notin called
    /\ called' = called \cup {o}
    /\ UNCHANGED exists

\* has_db for a database whose swarm is cached: the callback is called at once.
CallCached(o) ==
    /\ Begin(o)
    /\ swarm_dbs[Uuid[o]] # None
    /\ HasCallback(o, "success", swarm_dbs[Uuid[o]])
    /\ UNCHANGED <<swarm_dbs, asked, count>>

\* has_db otherwise: has_uuid is sent to every swarm of the registry.
CallUncached(o) ==
    /\ Begin(o)
    /\ swarm_dbs[Uuid[o]] = None
    /\ asked' = [asked EXCEPT ![o] = Swarms]
    /\ count' = [count EXCEPT ![o] = NumSwarms]
    /\ UNCHANGED <<swarm_dbs, creating, results>>

\* The outcomes of has_uuid on swarm s.
HasOutcome(o, s, err) ==
    \/ err = "success" /\ Uuid[o] \in exists[s]
    \/ err = "no_database" /\ Uuid[o] \notin exists[s]
    \/ err = "database_error" /\ Failures

\* Mutant: the swarm is remembered whatever it answered.
Remember_Always(o, s, err) == swarm_dbs' = [swarm_dbs EXCEPT ![Uuid[o]] = s]

Remember(o, s, err) ==
    swarm_dbs' = IF err = "success" THEN [swarm_dbs EXCEPT ![Uuid[o]] = s]
                 ELSE swarm_dbs

LastAnswer(o) == count'[o] = 0

\* The handler of has_uuid in has_db.
AnswerHas(o, s, err) ==
    /\ s \in asked[o]
    /\ HasOutcome(o, s, err)
    /\ asked' = [asked EXCEPT ![o] = @ \ {s}]
    /\ count' = [count EXCEPT ![o] = @ - 1]
    /\ Remember(o, s, err)
    /\ \/ err = "success" /\ HasCallback(o, "success", s)
       \/ err # "success" /\ LastAnswer(o) /\ HasCallback(o, "no_database", None)
       \/ err # "success" /\ ~LastAnswer(o) /\ UNCHANGED <<results, creating>>
    /\ UNCHANGED <<exists, called>>

\* The handler of create_uuid in do_create_db, for a database the swarm has
\* created.
AnswerCreated(o) ==
    LET s == creating[o] IN
    /\ s # None
    /\ Uuid[o] \notin exists[s]
    /\ exists' = [exists EXCEPT ![s] = @ \cup {Uuid[o]}]
    /\ swarm_dbs' = [swarm_dbs EXCEPT ![Uuid[o]] = s]
    /\ Callback(o, "success", s)
    /\ creating' = [creating EXCEPT ![o] = None]
    /\ UNCHANGED <<called, asked, count>>

\* Mutant: a failed creation is only followed by a retry, never by a report.
AnswerCreateFailed_Silent(o) ==
    LET s == creating[o] IN
    /\ s # None
    /\ Failures \/ Uuid[o] \in exists[s]
    /\ IF s > SwarmAt(0) THEN do_create_db(o, s - 2)
       ELSE creating' = [creating EXCEPT ![o] = None]
    /\ UNCHANGED <<exists, swarm_dbs, called, asked, count, results>>

\* Mutant: the creation of a database is reported whatever the swarm answers.
AnswerCreateFailed_Reported(o) ==
    LET s == creating[o] IN
    /\ s # None
    /\ Failures \/ Uuid[o] \in exists[s]
    /\ Callback(o, "success", s)
    /\ creating' = [creating EXCEPT ![o] = None]
    /\ UNCHANGED <<exists, swarm_dbs, called, asked, count>>

\* The same for an error: the next swarm is tried until the retries run out.
\* The swarm has the database already, or refuses, or the answer is lost after
\* the swarm has created it.
AnswerCreateFailed(o) ==
    LET s == creating[o] IN
    /\ s # None
    /\ \/ /\ Failures \/ Uuid[o] \in exists[s]
          /\ UNCHANGED exists
       \/ /\ Failures
          /\ exists' = [exists EXCEPT ![s] = @ \cup {Uuid[o]}]
    /\ IF s > SwarmAt(0)
       THEN do_create_db(o, s - 2) /\ UNCHANGED results
       ELSE /\ Callback(o, "database_error", None)
            /\ creating' = [creating EXCEPT ![o] = None]
    /\ UNCHANGED <<swarm_dbs, called, asked, count>>

-----------------------------------------------------------------------------
Errors == {"success", "no_database", "database_error"}

AnsweredHas(o, s) == \E err \in Errors : AnswerHas(o, s, err)
AnsweredCreate(o) == AnswerCreated(o) \/ AnswerCreateFailed(o)

Next ==
    \E o \in Ops :
        \/ CallCached(o) \/ CallUncached(o)
        \/ \E s \in Swarms : AnsweredHas(o, s)
        \/ AnsweredCreate(o)

\* Every request is answered, by its timeout at the latest: the assumption under
\* which this module is checked by itself.  db_dispatch keeps it for requests no
\* node declares too old or too large; Library has those it drops as well.
Fairness ==
    \A o \in Ops :
        /\ \A s \in Swarms : WF_vars(AnsweredHas(o, s))
        /\ WF_vars(AnsweredCreate(o))

Spec == Init /\ [][Next]_vars
FairSpec == Spec /\ Fairness

-----------------------------------------------------------------------------
(* Properties *)

\* The members of swarm_factory have their declared types: the counter of has_db
\* never wraps below 0, and the retries of do_create_db index swarms that exist.
TypeOK ==
    /\ exists \in [Swarms -> SUBSET Uuids]
    /\ swarm_dbs \in [Uuids -> Swarms \cup {None}]
    /\ called \subseteq Ops
    /\ asked \in [Ops -> SUBSET Swarms]
    /\ count \in [Ops -> 0 .. NumSwarms]
    /\ creating \in [Ops -> Swarms \cup {None}]
    /\ results \in [Ops -> Seq([err : Errors \cup {"already_exists"},
                                sw : Swarms \cup {None}])]

Told(o) == {results[o][i] : i \in 1 .. Len(results[o])}

\* The cache never sends an operation to a swarm without the database, however
\* lookups, creations and their late or failed answers interleave.
CacheSound ==
    \A u \in Uuids : swarm_dbs[u] # None => u \in exists[swarm_dbs[u]]

\* Good news is true: a caller told of success is given a swarm that holds the
\* database, and "already exists" is said only of a database some swarm holds.
GoodNewsTrue ==
    \A o \in Ops : \A r \in Told(o) :
        /\ r.err = "success" => r.sw # None /\ Uuid[o] \in exists[r.sw]
        /\ r.err = "already_exists" => Holders(Uuid[o]) # {}

\* Bad news comes once: whatever was called back before, an operation is told at
\* most once that the database is not there or could not be created.
BadNewsOnce ==
    \A o \in Ops :
        Cardinality({i \in 1 .. Len(results[o]) :
            results[o][i].err \in {"no_database", "database_error"}}) <= 1

\* Every operation calls back, if the swarms' requests are all answered.
EveryOpCallsBack == \A o \in Ops : o \in called ~> results[o] # <<>>

\* create_db makes "a new database", or reports an error: it does not create a
\* second copy of a database that already exists.
NoSecondCopy ==
    \A u \in Uuids : Cardinality(Holders(u)) <= 1
=============================================================================
