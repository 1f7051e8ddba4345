--------------------------- MODULE LibraryProofs ----------------------------
(***************************************************************************)
(* Proofs about the library for any number of sessions, operations and     *)
(* calls, on the lemmas of SwarmFactoryProofs.                             *)
(***************************************************************************)
EXTENDS Library, FiniteSetTheorems, TLAPS

-----------------------------------------------------------------------------
(* Sessions *)

\* Nothing is outstanding: no request, and no operation that waits for a status.
Idle ==
    /\ asked = [o \in Ops |-> {}]
    /\ creating = [o \in Ops |-> None]
    /\ target = [c \in Calls |-> 0]
    /\ init_handler = [s \in Swarms |-> {}]

\* Outside a session nothing is being signalled, and the io thread runs only after
\* a registry could not be read, and then has nothing to do; the next initialize
\* aborts the process.
SessionInv ==
    /\ aborted => unread
    /\ ~initialized => signalling = {}
    /\ ~initialized /\ io_thread = "running" => unread /\ Idle

\* What a dropped request leaves alone.
LEMMA DropFrame ==
    ASSUME NEW s \in Swarms, DropRequest(s)
    PROVE  /\ UNCHANGED <<factory, database, initialized, io_thread, error_val>>
           /\ UNCHANGED <<inits, aborted, unread, current, responses>>
           /\ UNCHANGED <<init_handler, db, client, got>>
           /\ Keep(init_called)
           /\ IoFree
           /\ \E x \in Ops \cup Calls : lost' = [lost EXCEPT ![x] = @ \cup {s}]
  BY DEF DropRequest, Drop

\* The requests that were dropped are requests to swarms.
LostInv == lost \in [Ops \cup Calls -> SUBSET Swarms]

\* Every step preserves LostInv.
LEMMA LostStep == LostInv /\ [Next]_vars => LostInv'
<1> SUFFICES ASSUME LostInv, [Next]_vars PROVE LostInv'
  OBVIOUS
<1>1. ASSUME UNCHANGED lost \/ lost' = [x \in Ops \cup Calls |-> {}] PROVE LostInv'
  BY <1>1 DEF LostInv
<1>2. ASSUME NEW s \in Swarms, DropRequest(s) PROVE LostInv'
  <2>1. PICK x \in Ops \cup Calls : lost' = [lost EXCEPT ![x] = @ \cup {s}]
    BY <1>2, DropFrame
  <2> QED
    BY <2>1 DEF LostInv
<1>3. ASSUME NEW good \in BOOLEAN, InitializeEndpoint(good) \/ InitializeEsr(good)
      PROVE  LostInv'
  BY <1>1, <1>3 DEF InitializeEndpoint, InitializeEsr, common_init
<1>4. CASE Terminate \/ Signal \/ UNCHANGED vars
  BY <1>1, <1>4 DEF Terminate, Signal, vars, session
<1>5. ASSUME NEW o \in Ops,
             Start(o) \/ Wait(o) \/ GetResult(o) \/ Release(o) \/ Answered(o)
      PROVE  LostInv'
  BY <1>1, <1>5 DEF Start, Wait, GetResult, Release, Answered, session
<1>6. ASSUME NEW s \in Swarms, FirstStatus(s) PROVE LostInv'
  BY <1>1, <1>6 DEF FirstStatus, session
<1>7. ASSUME NEW c \in Calls,
             \/ \E m \in Methods, o \in Ops : CallMethod(c, m, o)
             \/ MethodReturns(c) \/ MethodAnswered(c)
      PROVE  LostInv'
  BY <1>1, <1>7 DEF CallMethod, MethodReturns, MethodAnswered, session
<1> QED
  BY <1>2, <1>3, <1>4, <1>5, <1>6, <1>7 DEF Next

\* LostInv holds in every reachable state.
THEOREM LostInvariant == Spec => []LostInv
<1>1. Init => LostInv
  BY DEF Init, LostInv
<1> QED
  BY <1>1, LostStep, PTL DEF Spec

\* With nothing outstanding no handler runs.
LEMMA IdleQuiet ==
    ASSUME Idle
    PROVE  /\ \A o \in Ops : ~Answered(o)
           /\ \A s \in Swarms : ~FirstStatus(s)
           /\ \A c \in Calls : ~MethodAnswered(c)
<1>1. ASSUME NEW o \in Ops PROVE ~Answered(o)
  <2>1. ~F!AnsweredCreate(o)
    BY DEF Idle, F!AnsweredCreate, F!AnswerCreated, F!AnswerCreateFailed, None
  <2>2. \A s : ~F!AnsweredHas(o, s)
    BY DEF Idle, F!AnsweredHas, F!AnswerHas
  <2> QED
    BY <2>1, <2>2 DEF Answered
<1>2. \A s \in Swarms : ~FirstStatus(s)
  BY DEF Idle, FirstStatus
<1>3. \A c \in Calls : ~MethodAnswered(c)
  BY DEF Idle, MethodAnswered, D!Answer
<1> QED
  BY <1>1, <1>2, <1>3

\* Every step preserves SessionInv.
LEMMA SessionStep ==
    ASSUME SessionInv, [Next]_vars
    PROVE  SessionInv'
<1>1. ASSUME NEW good \in BOOLEAN, InitializeEndpoint(good) PROVE SessionInv'
  BY <1>1 DEF InitializeEndpoint, common_init, responses, SessionInv
<1>2. ASSUME NEW good \in BOOLEAN, InitializeEsr(good) PROVE SessionInv'
  <2>1. /\ initialized' = good /\ unread' = (unread \/ ~good)
        /\ aborted' = (io_thread = "running") /\ ~initialized
        /\ UNCHANGED signalling /\ Idle'
    BY <1>2 DEF InitializeEsr, common_init, responses, Idle
  <2> QED
    BY <2>1 DEF SessionInv
<1>3. CASE Terminate
  BY <1>3 DEF Terminate, ClientFree, responses, SessionInv
<1>4. ASSUME NEW o \in Ops, Start(o) PROVE SessionInv'
  BY <1>4 DEF Start, ClientFree, SessionInv
<1>5. ASSUME UNCHANGED <<initialized, io_thread, aborted, unread>>,
             UNCHANGED <<asked, creating, target, init_handler>>,
             signalling' = signalling \/ signalling' = {}
      PROVE  SessionInv'
  BY <1>5 DEF SessionInv, Idle
<1>6. ASSUME NEW o \in Ops, Wait(o) \/ GetResult(o) \/ Release(o) PROVE SessionInv'
  BY <1>5, <1>6 DEF Wait, GetResult, Release, session, responses, factory, database
<1>7. ASSUME UNCHANGED <<initialized, io_thread, aborted, unread>>, initialized
      PROVE  SessionInv'
  BY <1>7 DEF SessionInv
<1>8. ASSUME IoFree, ~Idle PROVE initialized
  BY <1>8 DEF IoFree, SessionInv
<1>9. ASSUME NEW o \in Ops, Answered(o) PROVE SessionInv'
  <2>1. IoFree /\ UNCHANGED <<initialized, io_thread, aborted, unread>>
    BY <1>9 DEF Answered, session
  <2> QED
    BY <1>7, <1>8, <1>9, <2>1, IdleQuiet
<1>10. ASSUME NEW s \in Swarms, FirstStatus(s) PROVE SessionInv'
  <2>1. IoFree /\ UNCHANGED <<initialized, io_thread, aborted, unread>>
    BY <1>10 DEF FirstStatus, session
  <2> QED
    BY <1>7, <1>8, <1>10, <2>1, IdleQuiet
<1>11. ASSUME NEW s \in Swarms, DropRequest(s) PROVE SessionInv'
  BY <1>5, <1>11, DropFrame DEF factory, database, responses
<1>12. CASE Signal
  BY <1>5, <1>12 DEF Signal, session, factory, database
<1>13. ASSUME NEW c \in Calls, NEW m \in Methods, NEW o \in Ops, CallMethod(c, m, o)
       PROVE  SessionInv'
  BY <1>7, <1>13 DEF CallMethod, session
<1>14. ASSUME NEW c \in Calls, MethodReturns(c) PROVE SessionInv'
  BY <1>5, <1>14 DEF MethodReturns, session, responses, factory, database
<1>15. ASSUME NEW c \in Calls, MethodAnswered(c) PROVE SessionInv'
  <2>1. IoFree /\ UNCHANGED <<initialized, io_thread, aborted, unread>>
    BY <1>15 DEF MethodAnswered, session
  <2> QED
    BY <1>7, <1>8, <1>15, <2>1, IdleQuiet
<1>16. CASE UNCHANGED vars
  BY <1>5, <1>16 DEF vars, session, responses, factory, database
<1> QED
  BY <1>1, <1>2, <1>3, <1>4, <1>6, <1>9, <1>10, <1>11, <1>12, <1>13, <1>14, <1>15,
     <1>16 DEF Next

\* SessionInv holds in every reachable state.
THEOREM SessionInvariant == Spec => []SessionInv
<1>1. Init => SessionInv
  BY DEF Init, SessionInv
<1>2. SessionInv /\ [Next]_vars => SessionInv'
  BY SessionStep
<1> QED
  BY <1>1, <1>2, PTL DEF Spec

\* The object of a running io thread is replaced, and the process aborted, only
\* after a registry that could not be read, over any number of sessions and failed
\* attempts to begin one.
THEOREM AbortsOnlyUnread == Spec => []AbortedOnlyUnread
<1>1. SessionInv => AbortedOnlyUnread
  BY DEF SessionInv, AbortedOnlyUnread
<1> QED
  BY <1>1, SessionInvariant, PTL

\* Outside a session no step completes a response or stores a result.
LEMMA QuietStep ==
    ASSUME SessionInv, ~initialized, [Next]_vars
    PROVE  UNCHANGED <<prom, result_str, resp_error, stored>>
<1>1. signalling = {} /\ (~IoFree \/ Idle)
  BY DEF SessionInv, IoFree
<1>2. ASSUME NEW good \in BOOLEAN, InitializeEndpoint(good) \/ InitializeEsr(good)
      PROVE  UNCHANGED <<prom, result_str, resp_error, stored>>
  BY <1>2 DEF InitializeEndpoint, InitializeEsr, common_init, responses
<1>3. ASSUME NEW o \in Ops, Wait(o) \/ GetResult(o) \/ Release(o)
      PROVE  UNCHANGED <<prom, result_str, resp_error, stored>>
  BY <1>3 DEF Wait, GetResult, Release, responses, database
<1>4. ASSUME NEW c \in Calls, MethodReturns(c)
      PROVE  UNCHANGED <<prom, result_str, resp_error, stored>>
  BY <1>4 DEF MethodReturns, responses, database
<1>5. CASE UNCHANGED vars
  BY <1>5 DEF vars, responses, database
<1>6. /\ \A o \in Ops : ~Start(o)
      /\ \A c \in Calls, m \in Methods, o \in Ops : ~CallMethod(c, m, o)
      /\ ~Terminate /\ ~Signal
  BY <1>1 DEF Start, CallMethod, Terminate, Signal
<1>7. /\ \A o \in Ops : ~Answered(o)
      /\ \A s \in Swarms : ~FirstStatus(s)
      /\ \A c \in Calls : ~MethodAnswered(c)
  <2>1. CASE Idle
    BY <2>1, IdleQuiet
  <2>2. CASE ~IoFree
    BY <2>2 DEF Answered, FirstStatus, MethodAnswered
  <2> QED
    BY <1>1, <2>1, <2>2
<1>8. ASSUME NEW s \in Swarms, DropRequest(s)
      PROVE  UNCHANGED <<prom, result_str, resp_error, stored>>
  BY <1>8, DropFrame DEF responses, database
<1> QED
  BY <1>2, <1>3, <1>4, <1>5, <1>6, <1>7, <1>8 DEF Next

\* After terminate nothing is completed: no step outside a session touches the
\* promise, the result or the error of an operation or the result of a method,
\* also not one of the io thread a registry that could not be read leaves behind.
THEOREM QuietOutsideSessions == Spec => QuietAfterTerminate
<1>1. SessionInv /\ [Next]_vars
        => [~initialized => UNCHANGED <<prom, result_str, resp_error, stored>>]_vars
  BY QuietStep
<1> QED
  BY <1>1, SessionInvariant, PTL DEF Spec, QuietAfterTerminate

-----------------------------------------------------------------------------
(* Results of the methods *)

\* The methods of async_database.
MethodNames ==
    {"create", "read", "update", "remove", "quick_read", "has", "keys", "size",
     "expire", "persist", "ttl", "writers", "add_writer", "remove_writer"}

\* Every handler but quick_read's stores what translate_swarm_response makes of
\* the answer and of some JSON without an error.
LEMMA HandlerTranslates ==
    ASSUME NEW m \in MethodNames \ {"quick_read"}, NEW r
    PROVE  \E result, data : D!Handler(r)[m] =
                D!translate_swarm_response(r, D!Json(result, "none", data))
<1> DEFINE T(result, data) ==
        D!translate_swarm_response(r, D!Json(result, "none", data))
<1>1. \/ D!Handler(r)[m] = T(1, "empty")
      \/ D!Handler(r)[m] = T(1, r.payload)
      \/ D!Handler(r)[m] = T(-1, r.payload)
      \/ D!Handler(r)[m] = T(IF r.payload = "absent" THEN 0 ELSE 1, "empty")
  BY DEF MethodNames, D!Handler, D!create, D!update, D!remove, D!expire,
         D!persist, D!add_writer, D!remove_writer, D!read, D!size, D!ttl,
         D!writers, D!keys, D!has, D!send_message_with_basic_response
<1> QED
  BY <1>1

\* What such a handler stores has an error exactly if the answer is one.
LEMMA HandlerTruthful ==
    ASSUME NEW m \in MethodNames \ {"quick_read"}, NEW r \in D!Answers(m)
    PROVE  LET s == D!Handler(r)[m] IN
           (s.json.error # "none" /\ s.error # 0) <=> D!SwarmFailed(r)
<1>1. PICK result, data : D!Handler(r)[m] =
            D!translate_swarm_response(r, D!Json(result, "none", data))
  BY HandlerTranslates
<1>2. r.payload # "failed"
  BY DEF D!Answers, D!Response
<1>3. CASE r.error = "none"
  BY <1>1, <1>2, <1>3 DEF D!translate_swarm_response, D!Ready, D!Json, D!SwarmFailed
<1>4. CASE r.error # "none"
  BY <1>1, <1>4 DEF D!translate_swarm_response, D!Failed, D!Json, D!SwarmFailed,
                    D!DatabaseError
<1> QED
  BY <1>3, <1>4

\* Each call is in one of its stages: not made, its request outstanding, answered;
\* what is stored is the handler's result for the answer.
MethodsInv ==
    /\ method = [c \in Calls |-> method[c]]
    /\ target = [c \in Calls |-> target[c]]
    /\ answer = [c \in Calls |-> answer[c]]
    /\ stored = [c \in Calls |-> stored[c]]
    /\ \A c \in Calls :
        /\ method[c] \in Methods \cup {"none"}
        /\ target[c] # 0 => method[c] # "none" /\ stored[c] = D!NotStored
        /\ method[c] = "none" => stored[c] = D!NotStored
        /\ stored[c] # D!NotStored => /\ answer[c] \in D!Answers(method[c])
                                      /\ stored[c] = D!Handler(answer[c])[method[c]]

\* Every step preserves MethodsInv.
LEMMA MethodsStep ==
    ASSUME "none" \notin Methods, MethodsInv, [Next]_vars
    PROVE  MethodsInv'
<1>1. ASSUME UNCHANGED database PROVE MethodsInv'
  BY <1>1 DEF database, MethodsInv
<1>2. ASSUME NEW good \in BOOLEAN, InitializeEndpoint(good) \/ InitializeEsr(good)
      PROVE  MethodsInv'
  <2>1. UNCHANGED <<method, answer, stored>> /\ target' = [c \in Calls |-> 0]
    BY <1>2 DEF InitializeEndpoint, InitializeEsr, common_init
  <2> QED
    BY <2>1 DEF MethodsInv
<1>3. ASSUME NEW c \in Calls, NEW m \in Methods, NEW o \in Ops, CallMethod(c, m, o)
      PROVE  MethodsInv'
  <2>1. /\ method[c] = "none"
        /\ method' = [method EXCEPT ![c] = m]
        /\ target' = [target EXCEPT ![c] = db[o]]
        /\ UNCHANGED <<answer, stored>>
    BY <1>3 DEF CallMethod, D!Call
  <2>2. /\ method'[c] = m /\ stored'[c] = D!NotStored
        /\ \A p \in Calls : p # c => /\ method'[p] = method[p]
                                     /\ target'[p] = target[p]
    BY <2>1 DEF MethodsInv
  <2>3. method' = [p \in Calls |-> method'[p]] /\ target' = [p \in Calls |-> target'[p]]
    BY <2>1 DEF MethodsInv
  <2> QED
    BY <2>1, <2>2, <2>3 DEF MethodsInv
<1>4. ASSUME NEW c \in Calls, MethodAnswered(c) PROVE MethodsInv'
  <2>1. PICK r \in D!Answers(method[c]) :
            /\ target[c] # 0
            /\ answer' = [answer EXCEPT ![c] = r]
            /\ stored' = [stored EXCEPT ![c] = D!Handler(r)[method[c]]]
            /\ target' = [target EXCEPT ![c] = 0]
            /\ UNCHANGED method
    BY <1>4 DEF MethodAnswered, D!Answer
  <2>2. /\ method[c] # "none"
        /\ target'[c] = 0 /\ answer'[c] = r
        /\ stored'[c] = D!Handler(r)[method[c]]
        /\ \A p \in Calls : p # c => /\ answer'[p] = answer[p]
                                     /\ stored'[p] = stored[p]
                                     /\ target'[p] = target[p]
    BY <2>1 DEF MethodsInv
  <2>3. /\ answer' = [p \in Calls |-> answer'[p]]
        /\ stored' = [p \in Calls |-> stored'[p]]
        /\ target' = [p \in Calls |-> target'[p]]
    BY <2>1 DEF MethodsInv
  <2> QED
    BY <2>1, <2>2, <2>3 DEF MethodsInv
<1>5. CASE Terminate \/ Signal
  BY <1>1, <1>5 DEF Terminate, Signal
<1>6. ASSUME NEW o \in Ops,
             Start(o) \/ Wait(o) \/ GetResult(o) \/ Release(o) \/ Answered(o)
      PROVE  MethodsInv'
  BY <1>1, <1>6 DEF Start, Wait, GetResult, Release, Answered
<1>7. ASSUME NEW s \in Swarms, FirstStatus(s) PROVE MethodsInv'
  BY <1>1, <1>7 DEF FirstStatus
<1>8. ASSUME NEW c \in Calls, MethodReturns(c) PROVE MethodsInv'
  BY <1>1, <1>8 DEF MethodReturns
<1>9. ASSUME NEW s \in Swarms, DropRequest(s) PROVE MethodsInv'
  BY <1>1, <1>9, DropFrame
<1>10. CASE UNCHANGED vars
  BY <1>1, <1>10 DEF vars
<1> QED
  BY <1>2, <1>3, <1>4, <1>5, <1>6, <1>7, <1>8, <1>9, <1>10 DEF Next

\* MethodsInv holds in every reachable state.
THEOREM MethodsInvariant ==
    ASSUME "none" \notin Methods
    PROVE  Spec => []MethodsInv
<1>1. Init => MethodsInv
  BY DEF Init, D!Init, MethodsInv
<1>2. MethodsInv /\ [Next]_vars => MethodsInv'
  BY MethodsStep
<1> QED
  BY <1>1, <1>2, PTL DEF Spec

\* The result of every method that needs a quorum carries an error exactly if the
\* swarm reported one or the request timed out, for any number of calls.
THEOREM FailuresAlwaysReported ==
    ASSUME Methods \subseteq MethodNames
    PROVE  Spec => []FailuresReported
<1>1. "none" \notin Methods
  BY DEF MethodNames
<1>2. MethodsInv => FailuresReported
  <2> SUFFICES ASSUME MethodsInv, NEW c \in Calls,
                      stored[c] # D!NotStored, method[c] # "quick_read"
               PROVE  D!ErrorGiven(c) <=> D!SwarmFailed(answer[c])
    BY DEF FailuresReported, D!FailuresReported, D!Completed
  <2>1. /\ method[c] \in MethodNames \ {"quick_read"}
        /\ answer[c] \in D!Answers(method[c])
        /\ stored[c] = D!Handler(answer[c])[method[c]]
    BY DEF MethodsInv
  <2> QED
    BY <2>1, HandlerTruthful DEF D!ErrorGiven
<1>3. Spec => []MethodsInv
  BY <1>1, MethodsInvariant
<1> QED
  BY <1>2, <1>3, PTL

-----------------------------------------------------------------------------
(* The factory inside the library *)

FP == INSTANCE SwarmFactoryProofs

\* A step of swarm_factory for operation o.
FactoryStep(o) ==
    \/ F!CallCached(o) \/ F!CallUncached(o)
    \/ F!AnsweredCreate(o) \/ \E s \in Swarms : F!AnsweredHas(o, s)

\* The assumption of swarm_factory holds in the library.
LEMMA FactoryAssumed == FP!FactoryAssumption
  BY LibraryAssumption DEF FP!FactoryAssumption

\* It is a step of the module SwarmFactoryProofs speaks about.
LEMMA FactoryStepIs ==
    ASSUME NEW o \in Ops, FactoryStep(o)
    PROVE  FP!StepOf(o)
<1>1. F!CallCached(o) => FP!CallCached(o)
  BY DEF F!CallCached, FP!CallCached, F!Begin, FP!Begin, F!None, FP!None,
         F!HasCallback, FP!HasCallback, F!Callback, FP!Callback,
         F!do_create_db, FP!do_create_db, F!SwarmAt, FP!SwarmAt,
         F!FirstRetry, FP!FirstRetry
<1>2. F!CallUncached(o) => FP!CallUncached(o)
  BY DEF F!CallUncached, FP!CallUncached, F!Begin, FP!Begin, F!None, FP!None,
         F!Swarms, FP!Swarms
<1>3. F!AnsweredCreate(o) => FP!AnsweredCreate(o)
  BY DEF F!AnsweredCreate, FP!AnsweredCreate, F!AnswerCreated, FP!AnswerCreated,
         F!AnswerCreateFailed, FP!AnswerCreateFailed, F!None, FP!None,
         F!Callback, FP!Callback, F!do_create_db, FP!do_create_db,
         F!SwarmAt, FP!SwarmAt
<1>4. ASSUME NEW s \in Swarms, F!AnsweredHas(o, s)
      PROVE  s \in FP!Swarms /\ FP!AnsweredHas(o, s)
  BY <1>4
  DEF Swarms, F!Swarms, FP!Swarms, F!AnsweredHas, FP!AnsweredHas, F!AnswerHas,
      FP!AnswerHas, F!Errors, FP!Errors, F!HasOutcome, FP!HasOutcome,
      F!Remember, FP!Remember, F!LastAnswer, FP!LastAnswer, F!None, FP!None,
      F!HasCallback, FP!HasCallback, F!Callback, FP!Callback,
      F!do_create_db, FP!do_create_db, F!SwarmAt, FP!SwarmAt,
      F!FirstRetry, FP!FirstRetry
<1> QED
  BY <1>1, <1>2, <1>3, <1>4 DEF FactoryStep, FP!StepOf

\* What SwarmFactoryProofs says of a step of swarm_factory holds in the library.
LEMMA FactoryStepEffect ==
    ASSUME NEW o \in Ops, FP!IInv, FactoryStep(o)
    PROVE  /\ FP!IInv'
           /\ FP!Frame(o)
           /\ UNCHANGED results \/ FP!TrueReport(o)
<1>1. FP!StepOf(o)
  BY FactoryStepIs
<1>2. /\ FP!Frame(o) /\ FP!CacheStep
      /\ UNCHANGED results \/ FP!TrueReport(o)
  BY <1>1, FactoryAssumed, FP!StepEffect
<1>3. FP!CacheSound'
  BY <1>2 DEF FP!CacheStep, FP!CacheSound
<1>4. FP!TypeOK' /\ FP!Counted' /\ FP!Phased'
  BY <1>1, FactoryAssumed, FP!TypeStep
<1>5. FP!GoodNewsTrue'
  BY <1>1, FactoryAssumed, FP!GoodNewsStep
<1>6. FP!BadNewsLast'
  BY <1>1, FactoryAssumed, FP!BadNewsStep
<1> QED
  BY <1>2, <1>3, <1>4, <1>5, <1>6 DEF FP!IInv

\* A step that leaves the factory alone keeps its invariant.
LEMMA FactoryIdle ==
    ASSUME FP!IInv, UNCHANGED factory
    PROVE  FP!IInv'
<1>1. UNCHANGED <<exists, swarm_dbs, called, asked, count, creating, results>>
  BY DEF factory
<1>2. FP!TypeOK' /\ FP!Counted' /\ FP!Phased' /\ FP!CacheSound'
  BY <1>1 DEF FP!IInv, FP!TypeOK, FP!Counted, FP!Phased, FP!Working, FP!CacheSound
<1>3. \A o \in Ops : /\ FP!Told(o)' = FP!Told(o) /\ FP!BadAt(o)' = FP!BadAt(o)
                     /\ FP!Working(o)' = FP!Working(o)
  BY <1>1 DEF FP!Told, FP!BadAt, FP!Working
<1>4. \A u : FP!Holders(u)' = FP!Holders(u)
  BY <1>1 DEF FP!Holders
<1>5. FP!GoodNewsTrue' /\ FP!BadNewsLast'
  BY <1>1, <1>3, <1>4 DEF FP!IInv, FP!GoodNewsTrue, FP!BadNewsLast
<1> QED
  BY <1>2, <1>5 DEF FP!IInv

\* The factory of a new session starts empty and keeps the history.
LEMMA FactoryReset ==
    ASSUME FP!IInv, common_init
    PROVE  FP!IInv'
<1>1. /\ UNCHANGED <<exists, called, results>>
      /\ swarm_dbs' = [u \in Uuids |-> 0]
      /\ asked' = [o \in Ops |-> {}] /\ count' = [o \in Ops |-> 0]
      /\ creating' = [o \in Ops |-> 0]
  BY DEF common_init, None, F!None
<1>2. FP!TypeOK'
  <2>1. 0 \in 0 .. NumSwarms
    BY LibraryAssumption
  <2>2. count' \in [Ops -> 0 .. NumSwarms] /\ asked' \in [Ops -> SUBSET FP!Swarms]
    BY <1>1, <2>1
  <2>3. /\ swarm_dbs' \in [Uuids -> FP!Swarms \cup {FP!None}]
        /\ creating' \in [Ops -> FP!Swarms \cup {FP!None}]
    BY <1>1 DEF FP!None
  <2> QED
    BY <1>1, <2>2, <2>3 DEF FP!IInv, FP!TypeOK
<1>3. FP!Counted'
  <2>1. FP!Cardinality({}) = 0
    BY FactoryAssumed, FP!FS_EmptySet
  <2> QED
    BY <1>1, <2>1 DEF FP!Counted
<1>4. \A o \in Ops : ~FP!Working(o)'
  BY <1>1 DEF FP!Working, FP!None
<1>5. FP!Phased'
  BY <1>1, <1>4 DEF FP!Phased, FP!IInv
<1>6. FP!CacheSound'
  BY <1>1 DEF FP!CacheSound, FP!None
<1>7. FP!GoodNewsTrue'
  BY <1>1 DEF FP!IInv, FP!GoodNewsTrue, FP!Told, FP!Holders
<1>8. FP!BadNewsLast'
  BY <1>1, <1>4 DEF FP!IInv, FP!BadNewsLast, FP!BadAt
<1> QED
  BY <1>2, <1>3, <1>5, <1>6, <1>7, <1>8 DEF FP!IInv

-----------------------------------------------------------------------------
(* What the callbacks of has_db and create_db do *)

\* The operation hands out a database.
HandsOut(o) == Kind[o] = "create" \/ o \in Opens

\* Some swarm holds the database of o.
OnSwarm(o) == \E s \in Swarms : Uuid[o] \in exists[s]

\* The errors in the JSON of has_db, create_db and open_db.
Messages == {"none", "no_database", "database_error", "already_exists",
             "operation_in_progress"}

\* The members of db_error that has_db, create_db and open_db record.
ErrorCodes == {0, 2, 3, 5, 7}

\* The response is not touched,
Untouched(o) ==
    /\ UNCHANGED <<responses, init_handler>>
    /\ Keep(init_called)

\* it is completed, truthfully and with an error if no database is handed out,
CompletedNow(o, onIo) ==
    \E result \in {0, 1}, message \in Messages, error \in ErrorCodes :
        /\ Complete(o, Json(result, message), error, onIo)
        /\ result = 1 => OnSwarm(o)'
        /\ HandsOut(o) => error # 0
        /\ UNCHANGED init_handler
        /\ Keep(init_called)

\* or the swarm of the database is initialized for it.
OpensNow(o) ==
    \E s \in Swarms :
        /\ Uuid[o] \in exists'[s]
        /\ s \notin init_called
        /\ init_handler' = [init_handler EXCEPT ![s] = {o}]
        /\ Keep(init_called \cup {s})
        /\ UNCHANGED responses

\* A report of swarm_factory ends in one of these ways.
LEMMA CallbackEffect ==
    ASSUME NEW o \in Ops, NEW onIo \in BOOLEAN, FP!IInv, FactoryStep(o),
           WithCallback(o, onIo)
    PROVE  \/ Untouched(o) /\ results'[o] = results[o]
           \/ (CompletedNow(o, onIo) \/ OpensNow(o)) /\ results'[o] # results[o]
<1>1. CASE results'[o] = results[o]
  BY <1>1 DEF WithCallback, Untouched
<1>2. CASE results'[o] # results[o]
  <2> DEFINE r == results'[o][Len(results'[o])]
  <2>1. FactoryCallback(o, r, onIo)
    BY <1>2 DEF WithCallback
  <2>2. FP!TrueReport(o)
    BY <1>2, FactoryStepEffect
  <2>3. PICK err \in FP!Errors \cup {"already_exists"}, sw \in FP!Swarms \cup {FP!None} :
            /\ FP!Callback(o, err, sw)
            /\ err = "success" <=> sw # FP!None
            /\ sw # FP!None => Uuid[o] \in exists'[sw]
    BY <2>2 DEF FP!TrueReport
  <2>4. results \in [Ops -> Seq(FP!Reports)]
    BY DEF FP!IInv, FP!TypeOK, FP!Reports
  <2>5. /\ Len(results[o]) \in Nat
        /\ Len(results'[o]) = Len(results[o]) + 1
        /\ results'[o][Len(results[o]) + 1] = [err |-> err, sw |-> sw]
    BY <2>3, <2>4, FactoryAssumed, FP!CallbackAppends
  <2>6. r.err = err /\ r.sw = sw
    BY <2>5
  <2>7. sw # None => sw \in Swarms /\ Uuid[o] \in exists'[sw]
    BY <2>3 DEF None, F!None, FP!None, Swarms, F!Swarms, FP!Swarms
  <2>8. err \in {"success", "no_database", "database_error", "already_exists"}
    BY DEF FP!Errors
  <2>9. sw = None => err # "success"
    BY <2>3 DEF None, F!None, FP!None
  <2> HIDE DEF r
  <2>10. CASE Kind[o] = "has" /\ o \notin Opens
    <3> DEFINE result == IF sw # None THEN 1 ELSE 0
    <3>1. /\ Complete(o, Json(result, "none"), 0, onIo)
          /\ UNCHANGED init_handler /\ Keep(init_called)
      BY <2>1, <2>6, <2>10 DEF FactoryCallback, Code
    <3>2. result \in {0, 1}
      OBVIOUS
    <3>3. result = 1 => OnSwarm(o)'
      BY <2>7 DEF OnSwarm
    <3>4. ~HandsOut(o)
      BY <2>10 DEF HandsOut
    <3> HIDE DEF result
    <3>5. CompletedNow(o, onIo)
      <4>1. "none" \in Messages /\ 0 \in ErrorCodes
        BY DEF Messages, ErrorCodes
      <4> QED
        BY <3>1, <3>2, <3>3, <3>4, <4>1 DEF CompletedNow
    <3> QED
      BY <1>2, <3>5
  <2>11. CASE HandsOut(o) /\ sw = None
    <3>1. /\ Complete(o, Json(0, err), Code[err], onIo)
          /\ UNCHANGED init_handler /\ Keep(init_called)
      BY <2>1, <2>6, <2>11 DEF FactoryCallback, HandsOut
    <3>2. err \in Messages
      BY <2>8, <2>9, <2>11 DEF Messages
    <3>3. Code[err] \in ErrorCodes /\ Code[err] # 0
      BY <2>8, <2>9, <2>11 DEF Code, ErrorCodes
    <3>4. CompletedNow(o, onIo)
      BY <3>1, <3>2, <3>3 DEF CompletedNow
    <3> QED
      BY <1>2, <3>4
  <2>12. CASE HandsOut(o) /\ sw # None
    <3>1. OpenDatabase(o, sw, onIo) /\ sw \in Swarms /\ Uuid[o] \in exists'[sw]
      BY <2>1, <2>6, <2>7, <2>12 DEF FactoryCallback, HandsOut
    <3>2. CASE sw \in init_called
      <4>1. /\ Complete(o, Json(0, "operation_in_progress"), 2, onIo)
            /\ UNCHANGED init_handler /\ Keep(init_called)
        BY <3>1, <3>2 DEF OpenDatabase, Code
      <4>2. CompletedNow(o, onIo)
        BY <4>1 DEF CompletedNow, Messages, ErrorCodes
      <4> QED
        BY <1>2, <4>2
    <3>3. CASE sw \notin init_called
      <4>1. OpensNow(o)
        BY <3>1, <3>3 DEF OpenDatabase, OpensNow
      <4> QED
        BY <1>2, <4>1
    <3> QED
      BY <3>2, <3>3
  <2> QED
    BY <2>10, <2>11, <2>12, LibraryAssumption DEF HandsOut
<1> QED
  BY <1>1, <1>2

\* result_str and prom are functions on the operations.
Shaped ==
    /\ result_str = [o \in Ops |-> result_str[o]]
    /\ prom = [o \in Ops |-> prom[o]]

\* The response of o is completed with json and error, the others are not touched;
\* a promise that is set already stays as it is, and the handler throws.
CompletedAs(o, json, error) ==
    /\ Shaped'
    /\ result_str'[o] = json
    /\ prom'[o] = IF prom[o] = Unset THEN error ELSE prom[o]
    /\ \A p \in Ops \ {o} : result_str'[p] = result_str[p] /\ prom'[p] = prom[p]
    /\ thrown' = (prom[o] # Unset)

\* What completing the response of o changes, on either thread.
LEMMA CompleteEffect ==
    ASSUME Shaped, NEW o \in Ops, NEW json, NEW error, NEW onIo,
           Complete(o, json, error, onIo)
    PROVE  CompletedAs(o, json, error)
<1> USE DEF Shaped, CompletedAs
<1>1. /\ result_str' = [result_str EXCEPT ![o] = json]
      /\ thrown' = (prom[o] # Unset)
      /\ prom' = IF thrown' THEN prom ELSE [prom EXCEPT ![o] = error]
  BY DEF Complete, CompleteOnIo, CompleteAtOnce
<1>2. /\ result_str' = [p \in Ops |-> IF p = o THEN json ELSE result_str[p]]
  BY <1>1
<1>3. CASE prom[o] = Unset
  <2>1. prom' = [p \in Ops |-> IF p = o THEN error ELSE prom[p]]
    BY <1>1, <1>3
  <2> QED
    BY <1>1, <1>2, <1>3, <2>1
<1>4. CASE prom[o] # Unset
  BY <1>1, <1>2, <1>4
<1> QED
  BY <1>3, <1>4

-----------------------------------------------------------------------------
(* Results are true *)

\* What a client is told of, and every open that waits for a swarm, is a database
\* the swarm holds; a response that is complete has a result.
TruthInv ==
    /\ FP!IInv
    /\ init_handler \in [Swarms -> SUBSET Ops]
    /\ Shaped
    /\ got = [o \in Ops |-> got[o]]
    /\ \A s \in Swarms : \A o \in init_handler[s] : Uuid[o] \in exists[s]
    /\ \A o \in Ops :
        /\ result_str[o].result = 1 => OnSwarm(o)
        /\ got[o].result = 1 => OnSwarm(o)
        /\ prom[o] # Unset => result_str[o].result \in {0, 1}

\* The callbacks of swarm_factory preserve TruthInv.
LEMMA TruthCallback ==
    ASSUME TruthInv, NEW o \in Ops, NEW onIo \in BOOLEAN, FactoryStep(o),
           WithCallback(o, onIo), UNCHANGED got
    PROVE  TruthInv'
<1>1. FP!IInv' /\ FP!Frame(o)
  BY FactoryStepEffect DEF TruthInv
<1>2. \A s \in Swarms : exists[s] \subseteq exists'[s]
  BY <1>1 DEF FP!Frame, Swarms, F!Swarms, FP!Swarms
<1>3. \A p \in Ops : OnSwarm(p) => OnSwarm(p)'
  BY <1>2 DEF OnSwarm
<1>4. CASE Untouched(o)
  BY <1>1, <1>2, <1>3, <1>4 DEF Untouched, responses, TruthInv, Shaped
<1>5. CASE CompletedNow(o, onIo)
  <2>1. PICK result \in {0, 1}, message \in Messages, error \in ErrorCodes :
            /\ Complete(o, Json(result, message), error, onIo)
            /\ result = 1 => OnSwarm(o)'
            /\ UNCHANGED init_handler
    BY <1>5 DEF CompletedNow
  <2> DEFINE json == Json(result, message)
  <2>2. CompletedAs(o, json, error)
    BY <2>1, CompleteEffect DEF TruthInv
  <2>3. json.result = result
    BY DEF Json
  <2> HIDE DEF json
  <2>4. \A p \in Ops : /\ result_str'[p].result = 1 => OnSwarm(p)'
                       /\ prom'[p] # Unset => result_str'[p].result \in {0, 1}
    BY <1>3, <2>1, <2>2, <2>3 DEF TruthInv, CompletedAs
  <2>5. \A p \in Ops : got'[p].result = 1 => OnSwarm(p)'
    BY <1>3 DEF TruthInv
  <2> QED
    BY <1>1, <1>2, <2>1, <2>2, <2>4, <2>5 DEF TruthInv, CompletedAs
<1>6. CASE OpensNow(o)
  <2>1. PICK s \in Swarms :
            /\ Uuid[o] \in exists'[s]
            /\ init_handler' = [init_handler EXCEPT ![s] = {o}]
            /\ UNCHANGED <<result_str, prom>>
    BY <1>6 DEF OpensNow, responses
  <2>2. init_handler' \in [Swarms -> SUBSET Ops]
    BY <2>1 DEF TruthInv
  <2>3. \A t \in Swarms : \A p \in init_handler'[t] : Uuid[p] \in exists'[t]
    BY <1>2, <2>1 DEF TruthInv
  <2> QED
    BY <1>1, <1>3, <2>1, <2>2, <2>3 DEF TruthInv, Shaped
<1> QED
  BY <1>4, <1>5, <1>6, CallbackEffect DEF TruthInv

\* Every step preserves TruthInv.
LEMMA TruthStep == TruthInv /\ [Next]_vars => TruthInv'
<1> SUFFICES ASSUME TruthInv, [Next]_vars PROVE TruthInv'
  OBVIOUS
<1>1. ASSUME UNCHANGED <<factory, init_handler, result_str, prom, got>>
      PROVE  TruthInv'
  <2>1. FP!IInv'
    BY <1>1, FactoryIdle DEF TruthInv
  <2>2. UNCHANGED exists
    BY <1>1 DEF factory
  <2> QED
    BY <1>1, <2>1, <2>2 DEF TruthInv, OnSwarm, Shaped
<1>2. ASSUME NEW good \in BOOLEAN, InitializeEndpoint(good) \/ InitializeEsr(good)
      PROVE  TruthInv'
  <2>1. common_init
    BY <1>2 DEF InitializeEndpoint, InitializeEsr
  <2>2. /\ UNCHANGED <<exists, result_str, prom, got>>
        /\ init_handler' = [s \in Swarms |-> {}]
    BY <2>1 DEF common_init, responses
  <2>3. FP!IInv'
    BY <2>1, FactoryReset DEF TruthInv
  <2> QED
    BY <2>2, <2>3 DEF TruthInv, OnSwarm, Shaped
<1>3. ASSUME NEW o \in Ops, Start(o) PROVE TruthInv'
  <2>1. FactoryStep(o) /\ WithCallback(o, FALSE) /\ UNCHANGED got
    BY <1>3 DEF Start, FactoryStep
  <2> QED
    BY <2>1, TruthCallback
<1>4. ASSUME NEW o \in Ops, Answered(o) PROVE TruthInv'
  <2>1. FactoryStep(o) /\ WithCallback(o, TRUE) /\ UNCHANGED got
    BY <1>4 DEF Answered, FactoryStep
  <2> QED
    BY <2>1, TruthCallback
<1>5. ASSUME NEW s \in Swarms, FirstStatus(s) PROVE TruthInv'
  <2>1. PICK o \in init_handler[s] :
            /\ CompleteOnIo(o, Json(1, "none"), 0)
            /\ init_handler' =
                    [init_handler EXCEPT ![s] = IF thrown' THEN @ ELSE {}]
    BY <1>5 DEF FirstStatus, Code
  <2>2. o \in Ops /\ OnSwarm(o)
    BY DEF TruthInv, OnSwarm
  <2>3. UNCHANGED <<factory, got>>
    BY <1>5 DEF FirstStatus
  <2>4. FP!IInv' /\ UNCHANGED exists
    BY <2>3, FactoryIdle DEF TruthInv, factory
  <2>5. CompletedAs(o, Json(1, "none"), 0)
    BY <2>1, <2>2, CompleteEffect DEF TruthInv, Complete
  <2>6. Json(1, "none").result = 1
    BY DEF Json
  <2>7. \A p \in Ops : OnSwarm(p)' = OnSwarm(p)
    BY <2>4 DEF OnSwarm
  <2>8. \A p \in Ops : /\ result_str'[p].result = 1 => OnSwarm(p)'
                       /\ got'[p].result = 1 => OnSwarm(p)'
                       /\ prom'[p] # Unset => result_str'[p].result \in {0, 1}
    BY <2>2, <2>3, <2>5, <2>6, <2>7 DEF TruthInv, CompletedAs
  <2>9. /\ init_handler' \in [Swarms -> SUBSET Ops]
        /\ \A t \in Swarms : init_handler'[t] \subseteq init_handler[t]
    BY <2>1 DEF TruthInv
  <2> QED
    BY <2>3, <2>4, <2>5, <2>8, <2>9 DEF TruthInv, CompletedAs
<1>6. ASSUME NEW o \in Ops, GetResult(o) PROVE TruthInv'
  <2>1. /\ UNCHANGED <<factory, init_handler, result_str, prom>>
        /\ got' = [got EXCEPT ![o] = result_str[o]]
    BY <1>6 DEF GetResult, responses
  <2>2. FP!IInv' /\ UNCHANGED exists
    BY <2>1, FactoryIdle DEF TruthInv, factory
  <2>3. got' = [p \in Ops |-> IF p = o THEN result_str[o] ELSE got[p]]
    BY <2>1 DEF TruthInv
  <2> QED
    BY <2>1, <2>2, <2>3 DEF TruthInv, OnSwarm, Shaped
<1>7. CASE Terminate \/ Signal
  BY <1>1, <1>7 DEF Terminate, Signal, responses
<1>8. ASSUME NEW o \in Ops, Wait(o) \/ Release(o) PROVE TruthInv'
  BY <1>1, <1>8 DEF Wait, Release, responses
<1>9. ASSUME NEW c \in Calls,
             \/ \E m \in Methods, o \in Ops : CallMethod(c, m, o)
             \/ MethodReturns(c) \/ MethodAnswered(c)
      PROVE  TruthInv'
  BY <1>1, <1>9 DEF CallMethod, MethodReturns, MethodAnswered, responses
<1>10. ASSUME NEW s \in Swarms, DropRequest(s) PROVE TruthInv'
  BY <1>1, <1>10, DropFrame DEF responses
<1>11. CASE UNCHANGED vars
  BY <1>1, <1>11 DEF vars, responses
<1> QED
  BY <1>2, <1>3, <1>4, <1>5, <1>6, <1>7, <1>8, <1>9, <1>10, <1>11 DEF Next

\* TruthInv holds at the beginning.
LEMMA TruthInit == Init => TruthInv
<1> SUFFICES ASSUME Init PROVE TruthInv
  OBVIOUS
<1>1. FP!Init
  BY DEF Init, F!Init, FP!Init, F!Swarms, FP!Swarms, F!None, FP!None
<1>2. FP!IInv
  BY <1>1, FactoryAssumed, FP!InitIInv
<1>3. NoJson.result = -1
  BY DEF NoJson, Json
<1> QED
  BY <1>2, <1>3 DEF Init, TruthInv, Shaped

\* A client that is told a database is there, was created or was opened is told
\* the truth, for any number of swarms, operations and sessions.
THEOREM TruthInvariant == Spec => []TruthInv
  BY TruthInit, TruthStep, PTL DEF Spec

-----------------------------------------------------------------------------
(* One swarm: every operation is reported once *)

\* With one swarm a report is the last thing swarm_factory does for an operation.
LEMMA OneReport ==
    ASSUME NumSwarms = 1, FP!IInv, NEW o \in Ops, FactoryStep(o)
    PROVE  /\ o \notin called \/ asked[o] # {} \/ creating[o] # None
           /\ results'[o] # results[o] => asked'[o] = {} /\ creating'[o] = None
<1>1. /\ Swarms = {1} /\ None = 0 /\ F!None = 0 /\ F!Swarms = {1}
  BY DEF Swarms, F!Swarms, None, F!None
<1>2. /\ asked \in [Ops -> SUBSET {1}]
      /\ creating \in [Ops -> {0, 1}]
      /\ results \in [Ops -> Seq(FP!Reports)]
      /\ o \notin called => asked[o] = {} /\ creating[o] = 0
      /\ asked[o] # {} => creating[o] = 0
  <2>1. FP!Swarms = {1} /\ FP!None = 0
    BY DEF FP!Swarms, FP!None
  <2> QED
    BY <2>1 DEF FP!IInv, FP!TypeOK, FP!Reports, FP!Phased, FP!Working
<1> DEFINE Goal == /\ o \notin called \/ asked[o] # {} \/ creating[o] # 0
                   /\ results'[o] # results[o] => asked'[o] = {} /\ creating'[o] = 0
<1>3. ASSUME F!CallCached(o) PROVE Goal
  <2>1. /\ o \notin called /\ UNCHANGED asked
        /\ F!HasCallback(o, "success", swarm_dbs[Uuid[o]])
        /\ swarm_dbs[Uuid[o]] # 0
    BY <1>1, <1>3 DEF F!CallCached, F!Begin
  <2>2. UNCHANGED creating
    BY <1>1, <2>1 DEF F!HasCallback
  <2> QED
    BY <1>2, <2>1, <2>2
<1>4. ASSUME F!CallUncached(o) PROVE Goal
  BY <1>4 DEF F!CallUncached, F!Begin
<1>5. ASSUME F!AnswerCreated(o) PROVE Goal
  <2>1. /\ creating[o] # 0 /\ UNCHANGED asked
        /\ creating' = [creating EXCEPT ![o] = 0]
    BY <1>1, <1>5 DEF F!AnswerCreated
  <2> QED
    BY <1>2, <2>1
<1>6. ASSUME F!AnswerCreateFailed(o) PROVE Goal
  <2>1. creating[o] # 0 /\ UNCHANGED asked
    BY <1>1, <1>6 DEF F!AnswerCreateFailed
  <2>2. creating[o] = 1
    BY <1>2, <2>1
  <2>3. creating' = [creating EXCEPT ![o] = 0]
    BY <1>1, <1>6, <2>2 DEF F!AnswerCreateFailed, F!SwarmAt
  <2> QED
    BY <1>2, <2>1, <2>3
<1>7. ASSUME NEW s \in Swarms, NEW err, F!AnswerHas(o, s, err) PROVE Goal
  <2>1. s \in asked[o] /\ asked' = [asked EXCEPT ![o] = @ \ {s}]
    BY <1>7 DEF F!AnswerHas
  <2>2. asked'[o] = {} /\ creating[o] = 0
    BY <1>1, <1>2, <2>1
  <2>3. results'[o] # results[o] => UNCHANGED creating
    BY <1>7 DEF F!AnswerHas, F!HasCallback
  <2> QED
    BY <2>1, <2>2, <2>3
<1>8. Goal
  BY <1>3, <1>4, <1>5, <1>6, <1>7
  DEF FactoryStep, F!AnsweredCreate, F!AnsweredHas
<1> QED
  BY <1>1, <1>8

\* The operation waits for a request or for the first status of its swarm.
AtWork(o) == asked[o] # {} \/ creating[o] # None
AwaitsStatus(o) == \E s \in Swarms : o \in init_handler[s]

\* An operation is in one stage: not begun, at work, waiting for the status, or
\* complete; only in the last is its promise set.
StageInv ==
    /\ ~thrown
    /\ \A o \in Ops :
        /\ o \notin called => ~AtWork(o) /\ ~AwaitsStatus(o) /\ prom[o] = Unset
        /\ AtWork(o) => ~AwaitsStatus(o)
        /\ AtWork(o) \/ AwaitsStatus(o) => prom[o] = Unset

\* The callbacks of swarm_factory preserve StageInv.
LEMMA StageCallback ==
    ASSUME NumSwarms = 1, TruthInv, StageInv, NEW o \in Ops, NEW onIo \in BOOLEAN,
           FactoryStep(o), WithCallback(o, onIo)
    PROVE  StageInv'
<1>1. FP!IInv /\ FP!Frame(o)
  BY FactoryStepEffect DEF TruthInv
<1>2. /\ \A p \in Ops \ {o} : (p \in called' <=> p \in called) /\ AtWork(p)' = AtWork(p)
      /\ o \in called'
  BY <1>1 DEF FP!Frame, AtWork
<1>3. prom[o] = Unset /\ ~AwaitsStatus(o)
  BY <1>1, OneReport DEF StageInv, AtWork
<1>4. results'[o] # results[o] => ~AtWork(o)'
  BY <1>1, OneReport DEF AtWork, None, F!None
<1>5. CASE Untouched(o)
  <2>1. UNCHANGED <<prom, thrown>> /\ \A p \in Ops : AwaitsStatus(p)' = AwaitsStatus(p)
    BY <1>5 DEF Untouched, responses, AwaitsStatus
  <2> QED
    BY <1>2, <1>3, <2>1 DEF StageInv
<1>6. CASE CompletedNow(o, onIo) /\ results'[o] # results[o]
  <2>1. PICK result \in {0, 1}, message \in Messages, error \in ErrorCodes :
            /\ Complete(o, Json(result, message), error, onIo)
            /\ UNCHANGED init_handler
    BY <1>6 DEF CompletedNow
  <2>2. CompletedAs(o, Json(result, message), error)
    BY <2>1, CompleteEffect DEF TruthInv
  <2>3. ~thrown' /\ \A p \in Ops \ {o} : prom'[p] = prom[p]
    BY <1>3, <2>2 DEF CompletedAs
  <2>4. \A p \in Ops : AwaitsStatus(p)' = AwaitsStatus(p)
    BY <2>1 DEF AwaitsStatus
  <2> QED
    BY <1>2, <1>3, <1>4, <1>6, <2>3, <2>4 DEF StageInv
<1>7. CASE OpensNow(o) /\ results'[o] # results[o]
  <2>1. PICK s \in Swarms : /\ init_handler' = [init_handler EXCEPT ![s] = {o}]
                            /\ UNCHANGED responses
    BY <1>7 DEF OpensNow
  <2>2. \A p \in Ops \ {o} : AwaitsStatus(p)' => AwaitsStatus(p)
    BY <2>1 DEF AwaitsStatus, TruthInv
  <2>3. UNCHANGED <<prom, thrown>>
    BY <2>1 DEF responses
  <2> QED
    BY <1>2, <1>3, <1>4, <1>7, <2>2, <2>3 DEF StageInv
<1> QED
  BY <1>1, <1>5, <1>6, <1>7, CallbackEffect

\* With one swarm every step preserves StageInv.
LEMMA StageStep ==
    ASSUME NumSwarms = 1
    PROVE  TruthInv /\ StageInv /\ [Next]_vars => StageInv'
<1> SUFFICES ASSUME TruthInv, StageInv, [Next]_vars PROVE StageInv'
  OBVIOUS
<1>1. ASSUME UNCHANGED <<factory, init_handler, prom, thrown>> PROVE StageInv'
  BY <1>1 DEF factory, StageInv, AtWork, AwaitsStatus
<1>2. ASSUME NEW good \in BOOLEAN, InitializeEndpoint(good) \/ InitializeEsr(good)
      PROVE  StageInv'
  <2>1. /\ UNCHANGED <<called, prom, thrown>>
        /\ asked' = [o \in Ops |-> {}] /\ creating' = [o \in Ops |-> None]
        /\ init_handler' = [s \in Swarms |-> {}]
    BY <1>2 DEF InitializeEndpoint, InitializeEsr, common_init, responses
  <2>2. \A o \in Ops : ~AtWork(o)' /\ ~AwaitsStatus(o)'
    BY <2>1 DEF AtWork, AwaitsStatus, None, F!None
  <2> QED
    BY <2>1, <2>2 DEF StageInv
<1>3. ASSUME NEW o \in Ops, Start(o) PROVE StageInv'
  <2>1. FactoryStep(o) /\ WithCallback(o, FALSE)
    BY <1>3 DEF Start, FactoryStep
  <2> QED
    BY <2>1, StageCallback
<1>4. ASSUME NEW o \in Ops, Answered(o) PROVE StageInv'
  <2>1. FactoryStep(o) /\ WithCallback(o, TRUE)
    BY <1>4 DEF Answered, FactoryStep
  <2> QED
    BY <2>1, StageCallback
<1>5. ASSUME NEW s \in Swarms, FirstStatus(s) PROVE StageInv'
  <2>1. PICK o \in init_handler[s] :
            /\ CompleteOnIo(o, Json(1, "none"), 0)
            /\ init_handler' =
                    [init_handler EXCEPT ![s] = IF thrown' THEN @ ELSE {}]
    BY <1>5 DEF FirstStatus, Code
  <2>2. o \in Ops /\ AwaitsStatus(o)
    BY DEF TruthInv, AwaitsStatus
  <2>3. o \in called /\ ~AtWork(o) /\ prom[o] = Unset
    BY <2>2 DEF StageInv
  <2>4. CompletedAs(o, Json(1, "none"), 0)
    BY <2>1, <2>2, CompleteEffect DEF TruthInv, Complete
  <2>5. ~thrown' /\ \A p \in Ops \ {o} : prom'[p] = prom[p]
    BY <2>3, <2>4 DEF CompletedAs
  <2>6. \A t \in Swarms : t = s
    BY DEF Swarms, F!Swarms
  <2>7. \A p \in Ops : ~AwaitsStatus(p)'
    BY <2>1, <2>5, <2>6 DEF AwaitsStatus, TruthInv
  <2>8. UNCHANGED called /\ \A p \in Ops : AtWork(p)' = AtWork(p)
    BY <1>5 DEF FirstStatus, factory, AtWork
  <2> QED
    BY <2>3, <2>5, <2>7, <2>8 DEF StageInv
<1>6. CASE Terminate \/ Signal
  BY <1>1, <1>6 DEF Terminate, Signal, responses
<1>7. ASSUME NEW o \in Ops, Wait(o) \/ GetResult(o) \/ Release(o) PROVE StageInv'
  BY <1>1, <1>7 DEF Wait, GetResult, Release, responses
<1>8. ASSUME NEW c \in Calls,
             \/ \E m \in Methods, o \in Ops : CallMethod(c, m, o)
             \/ MethodReturns(c) \/ MethodAnswered(c)
      PROVE  StageInv'
  BY <1>1, <1>8 DEF CallMethod, MethodReturns, MethodAnswered, responses
<1>9. ASSUME NEW s \in Swarms, DropRequest(s) PROVE StageInv'
  BY <1>1, <1>9, DropFrame DEF responses
<1>10. CASE UNCHANGED vars
  BY <1>1, <1>10 DEF vars, responses
<1> QED
  BY <1>2, <1>3, <1>4, <1>5, <1>6, <1>7, <1>8, <1>9, <1>10 DEF Next

\* StageInv holds in every reachable state of a library with one swarm.
THEOREM StageInvariant ==
    ASSUME NumSwarms = 1
    PROVE  Spec => []StageInv
<1>1. Init => StageInv
  BY DEF Init, F!Init, StageInv, AtWork, AwaitsStatus, None, F!None
<1>2. TruthInv /\ StageInv /\ [Next]_vars => StageInv'
  BY StageStep
<1> QED
  BY <1>1, <1>2, TruthInvariant, PTL DEF Spec

\* With one swarm no callback sets a promise twice and no handler throws, for any
\* number of operations, databases, sessions, failures and retries.
THEOREM OneSwarmNeverThrows ==
    ASSUME NumSwarms = 1
    PROVE  Spec => []~thrown
<1>1. StageInv => ~thrown
  BY DEF StageInv
<1>2. Spec => []StageInv
  BY StageInvariant
<1> QED
  BY <1>1, <1>2, PTL

-----------------------------------------------------------------------------
(* Any number of swarms: outcomes are decided once per report *)

\* An operation that was not reported has no outcome and waits for nothing; one
\* that was reported once has an outcome or waits for one swarm.
DecidedInv ==
    /\ OutcomeOnce
    /\ \A o \in Ops :
        /\ results[o] = <<>> => prom[o] = Unset /\ ~AwaitsStatus(o)
        /\ Len(results[o]) > 1 \/ prom[o] = Unset \/ ~AwaitsStatus(o)
        /\ \A s, t \in Swarms :
            o \in init_handler[s] /\ o \in init_handler[t] =>
                s = t \/ Len(results[o]) > 1

\* Nothing but the reports of an operation are added by a step of it.
LEMMA OthersReports ==
    ASSUME FP!IInv, NEW o \in Ops, FactoryStep(o)
    PROVE  \A p \in Ops \ {o} : results'[p] = results[p]
<1>1. UNCHANGED results \/ FP!TrueReport(o)
  BY FactoryStepEffect
<1>2. results \in [Ops -> Seq(FP!Reports)]
  BY DEF FP!IInv, FP!TypeOK, FP!Reports
<1>3. CASE FP!TrueReport(o)
  <2>1. PICK err \in FP!Errors \cup {"already_exists"},
             sw \in FP!Swarms \cup {FP!None} : FP!Callback(o, err, sw)
    BY <1>3 DEF FP!TrueReport
  <2> QED
    BY <1>2, <2>1, FactoryAssumed, FP!CallbackAppends
<1> QED
  BY <1>1, <1>3

\* A step of swarm_factory adds at most one report.
LEMMA OneMoreReport ==
    ASSUME FP!IInv, NEW o \in Ops, FactoryStep(o)
    PROVE  /\ Len(results[o]) \in Nat
           /\ results[o] = <<>> <=> Len(results[o]) = 0
           /\ results'[o] # results[o] => Len(results'[o]) = Len(results[o]) + 1
           /\ results'[o] # results[o] => results'[o] # <<>>
<1>1. UNCHANGED results \/ FP!TrueReport(o)
  BY FactoryStepEffect
<1>2. results \in [Ops -> Seq(FP!Reports)]
  BY DEF FP!IInv, FP!TypeOK, FP!Reports
<1>3. Len(results[o]) \in Nat /\ (results[o] = <<>> <=> Len(results[o]) = 0)
  BY <1>2
<1>4. CASE FP!TrueReport(o)
  <2>1. PICK err \in FP!Errors \cup {"already_exists"},
             sw \in FP!Swarms \cup {FP!None} : FP!Callback(o, err, sw)
    BY <1>4 DEF FP!TrueReport
  <2>2. Len(results'[o]) = Len(results[o]) + 1
    BY <1>2, <2>1, FactoryAssumed, FP!CallbackAppends
  <2>3. results'[o] # <<>>
    BY <1>3, <2>2
  <2> QED
    BY <1>3, <2>2, <2>3
<1> QED
  BY <1>1, <1>3, <1>4

\* The callbacks of swarm_factory preserve DecidedInv.
LEMMA DecidedCallback ==
    ASSUME TruthInv, DecidedInv, NEW o \in Ops, NEW onIo \in BOOLEAN,
           FactoryStep(o), WithCallback(o, onIo)
    PROVE  DecidedInv'
<1>1. FP!IInv
  BY DEF TruthInv
<1>2. /\ \A p \in Ops \ {o} : results'[p] = results[p]
      /\ Len(results[o]) \in Nat
      /\ results[o] = <<>> <=> Len(results[o]) = 0
      /\ results'[o] # results[o] =>
            Len(results'[o]) = Len(results[o]) + 1 /\ results'[o] # <<>>
  BY <1>1, OthersReports, OneMoreReport
<1>3. CASE Untouched(o) /\ results'[o] = results[o]
  <2>1. /\ UNCHANGED <<prom, thrown, init_handler>>
        /\ \A p \in Ops : results'[p] = results[p] /\ AwaitsStatus(p)' = AwaitsStatus(p)
    BY <1>2, <1>3 DEF Untouched, responses, AwaitsStatus
  <2> QED
    BY <2>1 DEF DecidedInv, OutcomeOnce
<1>4. CASE CompletedNow(o, onIo) /\ results'[o] # results[o]
  <2>1. PICK result \in {0, 1}, message \in Messages, error \in ErrorCodes :
            /\ Complete(o, Json(result, message), error, onIo)
            /\ UNCHANGED init_handler
    BY <1>4 DEF CompletedNow
  <2>2. CompletedAs(o, Json(result, message), error)
    BY <2>1, CompleteEffect DEF TruthInv
  <2>3. \A p \in Ops : AwaitsStatus(p)' = AwaitsStatus(p)
    BY <2>1 DEF AwaitsStatus
  <2>4. CASE results[o] = <<>>
    <3>1. prom[o] = Unset /\ ~AwaitsStatus(o)
      BY <2>4 DEF DecidedInv
    <3>2. ~thrown' /\ \A p \in Ops \ {o} : prom'[p] = prom[p]
      BY <2>2, <3>1 DEF CompletedAs
    <3>3. \A s \in Swarms : o \notin init_handler'[s]
      BY <2>1, <3>1 DEF AwaitsStatus
    <3> QED
      BY <1>2, <1>4, <2>1, <2>3, <3>1, <3>2, <3>3 DEF DecidedInv, OutcomeOnce
  <2>5. CASE results[o] # <<>>
    <3>1. Len(results'[o]) > 1
      BY <1>2, <1>4, <2>5
    <3>2. \A p \in Ops \ {o} : prom'[p] = prom[p]
      BY <2>2 DEF CompletedAs
    <3> QED
      BY <1>2, <1>4, <2>1, <2>3, <3>1, <3>2 DEF DecidedInv, OutcomeOnce
  <2> QED
    BY <2>4, <2>5
<1>5. CASE OpensNow(o) /\ results'[o] # results[o]
  <2>1. PICK s \in Swarms : /\ init_handler' = [init_handler EXCEPT ![s] = {o}]
                            /\ UNCHANGED <<prom, thrown>>
    BY <1>5 DEF OpensNow, responses
  <2>2. /\ init_handler'[s] = {o}
        /\ \A t \in Swarms \ {s} : init_handler'[t] = init_handler[t]
    BY <2>1 DEF TruthInv
  <2>3. \A p \in Ops \ {o} : \A t \in Swarms :
            p \in init_handler'[t] => p \in init_handler[t]
    BY <2>2
  <2>4. \A p \in Ops \ {o} : AwaitsStatus(p)' => AwaitsStatus(p)
    BY <2>3 DEF AwaitsStatus
  <2>5. OutcomeOnce'
    <3>1. \A p \in Ops : Len(results[p]) > 1 => Len(results'[p]) > 1
      BY <1>2, <1>5
    <3> QED
      BY <2>1, <3>1 DEF DecidedInv, OutcomeOnce
  <2>6. CASE results[o] = <<>>
    <3>1. prom'[o] = Unset /\ \A t \in Swarms : o \in init_handler'[t] => t = s
      BY <2>1, <2>2, <2>6 DEF DecidedInv, AwaitsStatus
    <3> QED
      BY <1>2, <1>5, <2>1, <2>3, <2>4, <2>5, <3>1 DEF DecidedInv
  <2>7. CASE results[o] # <<>>
    <3>1. Len(results'[o]) > 1
      BY <1>2, <1>5, <2>7
    <3> QED
      BY <1>2, <1>5, <2>1, <2>3, <2>4, <2>5, <3>1 DEF DecidedInv
  <2> QED
    BY <2>6, <2>7
<1> QED
  BY <1>1, <1>3, <1>4, <1>5, CallbackEffect

\* Every step preserves DecidedInv.
LEMMA DecidedStep == TruthInv /\ DecidedInv /\ [Next]_vars => DecidedInv'
<1> SUFFICES ASSUME TruthInv, DecidedInv, [Next]_vars PROVE DecidedInv'
  OBVIOUS
<1>1. ASSUME UNCHANGED <<factory, init_handler, prom, thrown>> PROVE DecidedInv'
  BY <1>1 DEF factory, DecidedInv, OutcomeOnce, AwaitsStatus
<1>2. ASSUME NEW good \in BOOLEAN, InitializeEndpoint(good) \/ InitializeEsr(good)
      PROVE  DecidedInv'
  <2>1. /\ UNCHANGED <<results, prom, thrown>>
        /\ init_handler' = [s \in Swarms |-> {}]
    BY <1>2 DEF InitializeEndpoint, InitializeEsr, common_init, responses
  <2>2. \A o \in Ops : ~AwaitsStatus(o)'
    BY <2>1 DEF AwaitsStatus
  <2> QED
    BY <2>1, <2>2 DEF DecidedInv, OutcomeOnce
<1>3. ASSUME NEW o \in Ops, Start(o) PROVE DecidedInv'
  <2>1. FactoryStep(o) /\ WithCallback(o, FALSE)
    BY <1>3 DEF Start, FactoryStep
  <2> QED
    BY <2>1, DecidedCallback
<1>4. ASSUME NEW o \in Ops, Answered(o) PROVE DecidedInv'
  <2>1. FactoryStep(o) /\ WithCallback(o, TRUE)
    BY <1>4 DEF Answered, FactoryStep
  <2> QED
    BY <2>1, DecidedCallback
<1>5. ASSUME NEW s \in Swarms, FirstStatus(s) PROVE DecidedInv'
  <2>1. PICK o \in init_handler[s] :
            /\ CompleteOnIo(o, Json(1, "none"), 0)
            /\ init_handler' =
                    [init_handler EXCEPT ![s] = IF thrown' THEN @ ELSE {}]
    BY <1>5 DEF FirstStatus, Code
  <2>2. o \in Ops /\ AwaitsStatus(o)
    BY DEF TruthInv, AwaitsStatus
  <2>3. UNCHANGED results
    BY <1>5 DEF FirstStatus, factory
  <2>4. CompletedAs(o, Json(1, "none"), 0)
    BY <2>1, <2>2, CompleteEffect DEF TruthInv, Complete
  <2>5. \A t \in Swarms : init_handler'[t] \subseteq init_handler[t]
    BY <2>1 DEF TruthInv
  <2>6. \A p \in Ops : AwaitsStatus(p)' => AwaitsStatus(p)
    BY <2>5 DEF AwaitsStatus
  <2>7. results[o] # <<>>
    BY <2>2 DEF DecidedInv
  <2>8. CASE prom[o] # Unset
    <3>1. Len(results[o]) > 1
      BY <2>2, <2>8 DEF DecidedInv
    <3>2. \A p \in Ops : prom'[p] = prom[p]
      BY <2>4, <2>8 DEF CompletedAs
    <3> QED
      BY <2>2, <2>3, <2>5, <2>6, <3>1, <3>2 DEF DecidedInv, OutcomeOnce
  <2>9. CASE prom[o] = Unset
    <3>1. ~thrown' /\ \A p \in Ops \ {o} : prom'[p] = prom[p]
      BY <2>4, <2>9 DEF CompletedAs
    <3>2. init_handler'[s] = {}
      BY <2>1, <3>1 DEF TruthInv
    <3>3. Len(results[o]) > 1 \/ ~AwaitsStatus(o)'
      BY <2>1, <2>2, <2>5, <3>2 DEF DecidedInv, AwaitsStatus
    <3> QED
      BY <2>3, <2>5, <2>6, <2>7, <3>1, <3>3 DEF DecidedInv, OutcomeOnce
  <2> QED
    BY <2>8, <2>9
<1>6. CASE Terminate \/ Signal
  BY <1>1, <1>6 DEF Terminate, Signal, responses
<1>7. ASSUME NEW o \in Ops, Wait(o) \/ GetResult(o) \/ Release(o) PROVE DecidedInv'
  BY <1>1, <1>7 DEF Wait, GetResult, Release, responses
<1>8. ASSUME NEW c \in Calls,
             \/ \E m \in Methods, o \in Ops : CallMethod(c, m, o)
             \/ MethodReturns(c) \/ MethodAnswered(c)
      PROVE  DecidedInv'
  BY <1>1, <1>8 DEF CallMethod, MethodReturns, MethodAnswered, responses
<1>9. ASSUME NEW s \in Swarms, DropRequest(s) PROVE DecidedInv'
  BY <1>1, <1>9, DropFrame DEF responses
<1>10. CASE UNCHANGED vars
  BY <1>1, <1>10 DEF vars, responses
<1> QED
  BY <1>2, <1>3, <1>4, <1>5, <1>6, <1>7, <1>8, <1>9, <1>10 DEF Next

\* DecidedInv holds in every reachable state.
THEOREM DecidedInvariant == Spec => []DecidedInv
<1>1. Init => DecidedInv
  BY DEF Init, F!Init, DecidedInv, OutcomeOnce, AwaitsStatus
<1> QED
  BY <1>1, DecidedStep, TruthInvariant, PTL DEF Spec

\* For any number of swarms, operations, databases, sessions, failures and retries
\* a promise is set twice only after swarm_factory has called back twice for one
\* operation.
THEOREM OutcomeDecidedOnce == Spec => []OutcomeOnce
<1>1. DecidedInv => OutcomeOnce
  BY DEF DecidedInv
<1> QED
  BY <1>1, DecidedInvariant, PTL

-----------------------------------------------------------------------------
(* Databases are usable *)

\* A swarm that somebody waits for was initialized, and a database, of this
\* session and handed out by a successful operation, is on a swarm that holds it,
\* is initialized and has been heard.
UsableInv ==
    /\ db \in [Ops -> Swarms \cup {None}]
    /\ current \subseteq called
    /\ \A s \in Swarms : init_handler[s] # {} => s \in init_called
    /\ \A o \in current :
        prom[o] = 0 /\ got[o] = NoJson /\ HandsOut(o) => db[o] # None
    /\ \A o \in Ops : db[o] # None =>
        /\ Uuid[o] \in exists[db[o]]
        /\ db[o] \in init_called
        /\ init_handler[db[o]] = {}

\* A swarm that is waited for, or has a database, is held and stays initialized.
LEMMA KeptWhileHeld ==
    ASSUME NEW S, Keep(S)
    PROVE  /\ \A s \in S : init_handler'[s] # {} => s \in init_called'
           /\ \A o \in Ops : db'[o] \in S => db'[o] \in init_called'
<1>1. \A s \in S : init_handler'[s] # {} => Held(s)'
  BY DEF Held
<1>2. ASSUME NEW o \in Ops, db'[o] \in S PROVE db'[o] \in init_called'
  <2>1. \A s \in S : db'[o] = s => s \in init_called'
    BY DEF Keep, Held
  <2> QED
    BY <1>2, <2>1
<1> QED
  BY <1>1, <1>2 DEF Keep

\* After an exception the io thread and the calls that complete a response do not
\* go on.
LEMMA ThrownStays ==
    ASSUME thrown, [Next]_vars
    PROVE  thrown'
<1>1. ~ClientFree /\ ~IoFree
  BY DEF ClientFree, IoFree
<1>2. ASSUME NEW o \in Ops, Wait(o) \/ GetResult(o) PROVE thrown'
  BY <1>2 DEF Wait, GetResult, responses
<1>3. ASSUME NEW c \in Calls, MethodReturns(c) PROVE thrown'
  BY <1>3 DEF MethodReturns, responses
<1>4. CASE Signal \/ UNCHANGED vars
  BY <1>4 DEF Signal, vars, responses
<1>5. /\ \A good \in BOOLEAN : ~InitializeEndpoint(good) /\ ~InitializeEsr(good)
      /\ \A o \in Ops : ~Start(o) /\ ~Release(o) /\ ~Answered(o)
      /\ \A s \in Swarms : ~FirstStatus(s)
      /\ \A c \in Calls, m \in Methods, o \in Ops : ~CallMethod(c, m, o)
      /\ \A c \in Calls : ~MethodAnswered(c)
      /\ ~Terminate
  BY <1>1 DEF InitializeEndpoint, InitializeEsr, common_init, Start, Release, Answered,
              FirstStatus, CallMethod, MethodAnswered, Terminate
<1>6. \A s \in Swarms : ~DropRequest(s)
  BY <1>1, DropFrame
<1> QED
  BY <1>2, <1>3, <1>4, <1>5, <1>6 DEF Next

\* The callbacks of swarm_factory preserve UsableInv, unless they throw.
LEMMA UsableCallback ==
    ASSUME TruthInv, DecidedInv, UsableInv, ~thrown', NEW o \in Ops,
           NEW onIo \in BOOLEAN, FactoryStep(o), WithCallback(o, onIo),
           UNCHANGED <<db, got>>,
           \/ UNCHANGED current
           \/ o \notin called /\ current' = current \cup {o}
    PROVE  UsableInv'
<1>1. FP!IInv /\ FP!IInv' /\ FP!Frame(o)
  BY FactoryStepEffect DEF TruthInv
<1>2. /\ \A s \in Swarms : exists[s] \subseteq exists'[s]
      /\ current' \subseteq called' /\ current' \subseteq Ops
  BY <1>1 DEF FP!Frame, Swarms, F!Swarms, FP!Swarms, UsableInv, FP!IInv, FP!TypeOK
<1>3. \A p \in Ops : db[p] # None =>
        db[p] \in Swarms /\ Uuid[p] \in exists'[db[p]] /\ db[p] \in init_called
  BY <1>2 DEF UsableInv
<1>4. ASSUME NEW p \in current', p \notin current PROVE prom[p] # 0
  <2>1. p = o /\ o \notin called
    BY <1>4
  <2>2. results[o] = <<>>
    BY <1>1, <2>1 DEF FP!IInv, FP!Phased
  <2> QED
    BY <2>1, <2>2 DEF DecidedInv, Unset
<1>5. CASE Untouched(o)
  <2>1. UNCHANGED <<prom, init_handler>> /\ Keep(init_called)
    BY <1>5 DEF Untouched, responses
  <2>2. \A p \in current' :
            prom'[p] = 0 /\ got'[p] = NoJson /\ HandsOut(p) => db'[p] # None
    BY <1>4, <2>1 DEF UsableInv, HandsOut
  <2>3. /\ \A s \in init_called : init_handler'[s] # {} => s \in init_called'
        /\ \A p \in Ops : db'[p] \in init_called => db'[p] \in init_called'
    BY <2>1, KeptWhileHeld
  <2> QED
    BY <1>2, <1>3, <2>1, <2>2, <2>3 DEF UsableInv
<1>6. CASE CompletedNow(o, onIo)
  <2>1. PICK result \in {0, 1}, message \in Messages, error \in ErrorCodes :
            /\ Complete(o, Json(result, message), error, onIo)
            /\ HandsOut(o) => error # 0
            /\ UNCHANGED init_handler
            /\ Keep(init_called)
    BY <1>6 DEF CompletedNow
  <2>2. CompletedAs(o, Json(result, message), error)
    BY <2>1, CompleteEffect DEF TruthInv
  <2>3. prom[o] = Unset
    BY <2>2 DEF CompletedAs
  <2>4. \A p \in current' :
            prom'[p] = 0 /\ got'[p] = NoJson /\ HandsOut(p) => db'[p] # None
    BY <1>2, <1>4, <2>1, <2>2, <2>3 DEF UsableInv, HandsOut, CompletedAs
  <2>5. /\ \A s \in init_called : init_handler'[s] # {} => s \in init_called'
        /\ \A p \in Ops : db'[p] \in init_called => db'[p] \in init_called'
    BY <2>1, KeptWhileHeld
  <2> QED
    BY <1>2, <1>3, <2>1, <2>4, <2>5 DEF UsableInv
<1>7. CASE OpensNow(o)
  <2>1. PICK s \in Swarms : /\ s \notin init_called
                            /\ init_handler' = [init_handler EXCEPT ![s] = {o}]
                            /\ Keep(init_called \cup {s})
                            /\ UNCHANGED responses
    BY <1>7 DEF OpensNow
  <2>2. UNCHANGED prom
    BY <2>1 DEF responses
  <2>3. \A p \in current' :
            prom'[p] = 0 /\ got'[p] = NoJson /\ HandsOut(p) => db'[p] # None
    BY <1>4, <2>2 DEF UsableInv, HandsOut
  <2>4. /\ \A t \in init_called \cup {s} : init_handler'[t] # {} => t \in init_called'
        /\ \A p \in Ops : db'[p] \in init_called \cup {s} => db'[p] \in init_called'
    BY <2>1, KeptWhileHeld
  <2>5. \A t \in Swarms : t # s => init_handler'[t] = init_handler[t]
    BY <2>1 DEF TruthInv
  <2>6. \A t \in Swarms : init_handler'[t] # {} => t \in init_called'
    BY <2>4, <2>5 DEF UsableInv
  <2>7. \A p \in Ops : db'[p] # None =>
            db'[p] \in init_called' /\ init_handler'[db'[p]] = {}
    BY <1>3, <2>1, <2>4, <2>5 DEF UsableInv
  <2> QED
    BY <1>2, <1>3, <2>3, <2>6, <2>7 DEF UsableInv
<1> QED
  BY <1>1, <1>5, <1>6, <1>7, CallbackEffect

\* Every step preserves UsableInv as long as no handler throws.
LEMMA UsableStep ==
    ASSUME TruthInv, DecidedInv, UsableInv, ~thrown', [Next]_vars
    PROVE  UsableInv'
<1>1. ASSUME UNCHANGED <<exists, called, current, init_handler, prom, got, db>>,
             UNCHANGED init_called \/ Keep(init_called)
      PROVE  UsableInv'
  <2>1. /\ \A s \in init_called : init_handler'[s] # {} => s \in init_called'
        /\ \A p \in Ops : db'[p] \in init_called => db'[p] \in init_called'
    BY <1>1, KeptWhileHeld
  <2> QED
    BY <1>1, <2>1 DEF UsableInv, HandsOut
<1>2. ASSUME NEW good \in BOOLEAN, InitializeEndpoint(good) \/ InitializeEsr(good)
      PROVE  UsableInv'
  <2>1. /\ db' = [o \in Ops |-> None] /\ current' = {}
        /\ init_handler' = [s \in Swarms |-> {}]
    BY <1>2 DEF InitializeEndpoint, InitializeEsr, common_init
  <2> QED
    BY <2>1 DEF UsableInv
<1>3. ASSUME NEW o \in Ops, Start(o) PROVE UsableInv'
  <2>1. /\ FactoryStep(o) /\ WithCallback(o, FALSE)
        /\ UNCHANGED <<db, got>>
        /\ o \notin called /\ current' = current \cup {o}
    BY <1>3 DEF Start, FactoryStep, F!CallCached, F!CallUncached, F!Begin
  <2> QED
    BY <2>1, UsableCallback
<1>4. ASSUME NEW o \in Ops, Answered(o) PROVE UsableInv'
  <2>1. /\ FactoryStep(o) /\ WithCallback(o, TRUE)
        /\ UNCHANGED <<db, got, current>>
    BY <1>4 DEF Answered, FactoryStep, session
  <2> QED
    BY <2>1, UsableCallback
<1>5. ASSUME NEW s \in Swarms, FirstStatus(s) PROVE UsableInv'
  <2>1. PICK o \in init_handler[s] :
            /\ CompleteOnIo(o, Json(1, "none"), 0)
            /\ db' = [db EXCEPT ![o] = s]
            /\ init_handler' =
                    [init_handler EXCEPT ![s] = IF thrown' THEN @ ELSE {}]
    BY <1>5 DEF FirstStatus, Code
  <2>2. /\ UNCHANGED <<exists, called, current, got>>
        /\ Keep(init_called)
    BY <1>5 DEF FirstStatus, factory, session
  <2>3. /\ o \in Ops /\ Uuid[o] \in exists[s] /\ s \in init_called
        /\ s \in Swarms /\ s # None
    BY DEF TruthInv, UsableInv, Swarms, F!Swarms, None, F!None
  <2>4. /\ init_handler'[s] = {}
        /\ \A t \in Swarms : t # s => init_handler'[t] = init_handler[t]
    BY <2>1 DEF TruthInv
  <2>5. /\ db'[o] = s /\ \A p \in Ops : p # o => db'[p] = db[p]
        /\ db' \in [Ops -> Swarms \cup {None}]
    BY <2>1, <2>3 DEF UsableInv
  <2>6. /\ \A t \in init_called : init_handler'[t] # {} => t \in init_called'
        /\ \A p \in Ops : db'[p] \in init_called => db'[p] \in init_called'
    BY <2>2, KeptWhileHeld
  <2>7. CompletedAs(o, Json(1, "none"), 0)
    BY <2>1, <2>3, CompleteEffect DEF TruthInv, Complete
  <2>8. \A p \in Ops : p # o => prom'[p] = prom[p]
    BY <2>7 DEF CompletedAs
  <2>9. current \subseteq Ops
    BY DEF UsableInv, TruthInv, FP!IInv, FP!TypeOK
  <2>10. \A p \in current' :
            prom'[p] = 0 /\ got'[p] = NoJson /\ HandsOut(p) => db'[p] # None
    BY <2>2, <2>3, <2>5, <2>8, <2>9 DEF UsableInv, HandsOut
  <2>11. \A t \in Swarms : init_handler'[t] # {} => t \in init_called'
    BY <2>4, <2>6 DEF UsableInv
  <2>12. \A p \in Ops : db'[p] # None => /\ Uuid[p] \in exists'[db'[p]]
                                         /\ db'[p] \in init_called'
                                         /\ init_handler'[db'[p]] = {}
    BY <2>2, <2>3, <2>4, <2>5, <2>6 DEF UsableInv
  <2> QED
    BY <2>2, <2>5, <2>10, <2>11, <2>12 DEF UsableInv
<1>6. ASSUME NEW o \in Ops, GetResult(o) PROVE UsableInv'
  <2>1. /\ UNCHANGED <<exists, called, current, init_handler, init_called, prom, db>>
        /\ got' = [got EXCEPT ![o] = result_str[o]]
        /\ prom[o] # Unset
    BY <1>6 DEF GetResult, factory, responses
  <2>2. result_str[o] # NoJson
    BY <2>1 DEF TruthInv, NoJson, Json
  <2>3. \A p \in Ops : got'[p] = NoJson => got[p] = NoJson
    BY <2>1, <2>2 DEF TruthInv
  <2>4. current \subseteq Ops
    BY DEF UsableInv, TruthInv, FP!IInv, FP!TypeOK
  <2> QED
    BY <2>1, <2>3, <2>4 DEF UsableInv, HandsOut
<1>7. ASSUME NEW o \in Ops, Release(o) PROVE UsableInv'
  <2>1. /\ UNCHANGED <<exists, called, current, init_handler, prom, got>>
        /\ Keep(init_called)
        /\ got[o].result = 1
        /\ db' = [db EXCEPT ![o] = None]
    BY <1>7 DEF Release, factory, session, responses
  <2>2. got[o] # NoJson
    BY <2>1 DEF NoJson, Json
  <2>3. /\ db' \in [Ops -> Swarms \cup {None}]
        /\ \A p \in Ops : p # o => db'[p] = db[p]
        /\ db'[o] = None
    BY <2>1 DEF UsableInv
  <2>4. /\ \A t \in init_called : init_handler'[t] # {} => t \in init_called'
        /\ \A p \in Ops : db'[p] \in init_called => db'[p] \in init_called'
    BY <2>1, KeptWhileHeld
  <2>5. current \subseteq Ops
    BY DEF UsableInv, TruthInv, FP!IInv, FP!TypeOK
  <2> QED
    BY <2>1, <2>2, <2>3, <2>4, <2>5 DEF UsableInv, HandsOut
<1>8. CASE Terminate \/ Signal
  BY <1>1, <1>8 DEF Terminate, Signal, factory, session, responses
<1>9. ASSUME NEW o \in Ops, Wait(o) PROVE UsableInv'
  BY <1>1, <1>9 DEF Wait, factory, session, responses
<1>10. ASSUME NEW c \in Calls,
             \/ \E m \in Methods, o \in Ops : CallMethod(c, m, o)
             \/ MethodReturns(c) \/ MethodAnswered(c)
      PROVE  UsableInv'
  BY <1>1, <1>10 DEF CallMethod, MethodReturns, MethodAnswered, factory, session,
                     responses
<1>11. ASSUME NEW s \in Swarms, DropRequest(s) PROVE UsableInv'
  BY <1>1, <1>11, DropFrame DEF factory, responses
<1>12. CASE UNCHANGED vars
  BY <1>1, <1>12 DEF vars, factory, session, responses
<1> QED
  BY <1>2, <1>3, <1>4, <1>5, <1>6, <1>7, <1>8, <1>9, <1>10, <1>11, <1>12 DEF Next

\* Until a handler throws, every database a client was given, and has not dropped,
\* is on a swarm that holds it, is initialized and has been heard, and a successful
\* create_db or open_db has one, for any number of swarms, operations and sessions.
THEOREM DatabasesAlwaysUsable == Spec => []DatabasesUsable
<1>1. Init => UsableInv
  BY DEF Init, UsableInv, None, F!None
<1>2. TruthInv /\ UsableInv => DatabasesUsable
  <2> SUFFICES ASSUME TruthInv, UsableInv PROVE DatabasesUsable
    OBVIOUS
  <2>1. current \subseteq Ops
    BY DEF UsableInv, TruthInv, FP!IInv, FP!TypeOK
  <2> QED
    BY <2>1 DEF UsableInv, HandsOut, DatabasesUsable
<1>3. thrown => DatabasesUsable
  BY DEF DatabasesUsable
<1>4. TruthInv /\ DecidedInv /\ (thrown \/ UsableInv) /\ [Next]_vars
        => (thrown \/ UsableInv)'
  BY UsableStep, ThrownStays
<1> QED
  BY <1>1, <1>2, <1>3, <1>4, DecidedInvariant, TruthInvariant, PTL DEF Spec

-----------------------------------------------------------------------------
(* Nobody is forgotten: what the liveness properties rest on *)

\* Only one operation waits for a swarm, and the swarm knows that it was
\* initialized as long as one does.
HandlersInv ==
    /\ \A s \in Swarms : \A o, p \in init_handler[s] : o = p
    /\ \A s \in Swarms : init_handler[s] # {} => s \in init_called

\* An operation of this session that swarm_factory has not reported is at work;
\* one that it has reported has its outcome, or waits for the first status.
ReportInv ==
    /\ current \subseteq called
    /\ \A o \in current :
        /\ results[o] = <<>> => AtWork(o)
        /\ results[o] # <<>> => prom[o] # Unset \/ AwaitsStatus(o)

\* A request of the operation is outstanding that db_dispatch has not dropped.
AnswerDue(o) ==
    \/ asked[o] \ lost[o] # {}
    \/ creating[o] # None /\ creating[o] \notin lost[o]

\* An operation of this session has its outcome, or something is coming that will
\* bring it on, an answer of a swarm or the first status of one, unless db_dispatch
\* has dropped a request of it.
NothingForgotten ==
    \A o \in current :
        prom[o] # Unset \/ AnswerDue(o) \/ AwaitsStatus(o) \/ lost[o] # {}

\* A client blocked in a method of a database has its result, or its request is
\* outstanding, unless db_dispatch has dropped it; the io thread runs for as long
\* as there is a session.
MethodUnderWay ==
    /\ initialized => io_thread = "running"
    /\ \A c \in Calls : c \in client =>
        \/ D!Completed(c)
        \/ target[c] # 0 /\ target[c] \notin lost[c]
        \/ lost[c] # {}

\* A step of swarm_factory reports the operation or leaves it at work.
LEMMA FactoryGoesOn ==
    ASSUME NumSwarms >= 1, FP!IInv, NEW o \in Ops, FactoryStep(o)
    PROVE  results'[o] # <<>> \/ AtWork(o)'
<1>1. FP!StepOf(o)
  BY FactoryStepIs
<1>2. results'[o] # <<>> \/ FP!Working(o)'
  BY <1>1, FactoryAssumed, FP!StepGoesOn
<1> QED
  BY <1>2 DEF FP!Working, FP!None, AtWork, None, F!None

\* The callbacks of swarm_factory leave the operation that waits for a swarm
\* waiting: a swarm that is waited for was initialized, and refuses another.
LEMMA HandlersCallback ==
    ASSUME TruthInv, HandlersInv, NEW o \in Ops, NEW onIo \in BOOLEAN,
           FactoryStep(o), WithCallback(o, onIo)
    PROVE  /\ HandlersInv'
           /\ \A p \in Ops : AwaitsStatus(p) => AwaitsStatus(p)'
<1>1. CASE UNCHANGED init_handler /\ Keep(init_called)
  <2>1. \A s \in init_called : init_handler'[s] # {} => s \in init_called'
    BY <1>1, KeptWhileHeld
  <2> QED
    BY <1>1, <2>1 DEF HandlersInv, AwaitsStatus
<1>2. CASE OpensNow(o)
  <2>1. PICK s \in Swarms : /\ s \notin init_called
                            /\ init_handler' = [init_handler EXCEPT ![s] = {o}]
                            /\ Keep(init_called \cup {s})
    BY <1>2 DEF OpensNow
  <2>2. /\ init_handler[s] = {} /\ init_handler'[s] = {o}
        /\ \A t \in Swarms : t # s => init_handler'[t] = init_handler[t]
    BY <2>1 DEF HandlersInv, TruthInv
  <2>3. \A t \in init_called \cup {s} : init_handler'[t] # {} => t \in init_called'
    BY <2>1, KeptWhileHeld
  <2> QED
    BY <2>2, <2>3 DEF HandlersInv, AwaitsStatus
<1>3. FP!IInv
  BY DEF TruthInv
<1> QED
  BY <1>1, <1>2, <1>3, CallbackEffect DEF Untouched, CompletedNow

\* The callbacks of swarm_factory preserve ReportInv: a report completes the
\* operation or lets it wait, and what is not reported goes on.
LEMMA ReportCallback ==
    ASSUME NumSwarms >= 1, TruthInv, HandlersInv, ReportInv, NEW o \in Ops,
           NEW onIo \in BOOLEAN, FactoryStep(o), WithCallback(o, onIo),
           \/ UNCHANGED current
           \/ o \notin called /\ current' = current \cup {o}
    PROVE  ReportInv'
<1>1. FP!IInv /\ FP!IInv' /\ FP!Frame(o)
  BY FactoryStepEffect DEF TruthInv
<1>2. /\ current' \subseteq called' /\ current' \subseteq Ops
      /\ \A p \in current' : p = o \/ p \in current
      /\ \A p \in Ops \ {o} : AtWork(p)' = AtWork(p) /\ results'[p] = results[p]
  BY <1>1, OthersReports DEF FP!Frame, ReportInv, FP!IInv, FP!TypeOK, AtWork
<1>3. \A p \in Ops : AwaitsStatus(p) => AwaitsStatus(p)'
  BY HandlersCallback
<1>4. \A p \in Ops : prom[p] # Unset => prom'[p] # Unset
  <2>1. CASE UNCHANGED prom
    BY <2>1
  <2>2. CASE CompletedNow(o, onIo)
    <3>1. PICK result \in {0, 1}, message \in Messages, error \in ErrorCodes :
              Complete(o, Json(result, message), error, onIo)
      BY <2>2 DEF CompletedNow
    <3>2. CompletedAs(o, Json(result, message), error)
      BY <3>1, CompleteEffect DEF TruthInv
    <3> QED
      BY <3>2 DEF CompletedAs
  <2> QED
    BY <1>1, <2>1, <2>2, CallbackEffect DEF Untouched, OpensNow, responses
<1>5. results'[o] # results[o] => prom'[o] # Unset \/ AwaitsStatus(o)'
  <2>1. CASE CompletedNow(o, onIo)
    <3>1. PICK result \in {0, 1}, message \in Messages, error \in ErrorCodes :
              Complete(o, Json(result, message), error, onIo)
      BY <2>1 DEF CompletedNow
    <3>2. CompletedAs(o, Json(result, message), error)
      BY <3>1, CompleteEffect DEF TruthInv
    <3> QED
      BY <3>2 DEF CompletedAs, Unset, ErrorCodes
  <2>2. CASE OpensNow(o)
    BY <2>2 DEF OpensNow, AwaitsStatus, TruthInv
  <2> QED
    BY <1>1, <2>1, <2>2, CallbackEffect
<1>6. results'[o] = <<>> => AtWork(o)'
  BY <1>1, FactoryGoesOn
<1>7. o \notin called => results[o] = <<>>
  BY <1>1 DEF FP!IInv, FP!Phased
<1>8. ASSUME o \in current', results'[o] # <<>>
      PROVE  prom'[o] # Unset \/ AwaitsStatus(o)'
  <2>1. CASE results'[o] # results[o]
    BY <1>5, <2>1
  <2>2. CASE results'[o] = results[o]
    <3>1. o \in current
      BY <1>7, <1>8, <2>2
    <3> QED
      BY <1>3, <1>4, <1>8, <2>2, <3>1 DEF ReportInv
  <2> QED
    BY <2>1, <2>2
<1>9. ASSUME NEW p \in current', p # o
      PROVE  /\ results'[p] = <<>> => AtWork(p)'
             /\ results'[p] # <<>> => prom'[p] # Unset \/ AwaitsStatus(p)'
  BY <1>2, <1>3, <1>4, <1>9 DEF ReportInv
<1> QED
  BY <1>2, <1>6, <1>8, <1>9 DEF ReportInv

\* Every step preserves the two, for any number of swarms.
LEMMA ReportStep ==
    ASSUME NumSwarms >= 1
    PROVE  TruthInv /\ HandlersInv /\ ReportInv /\ [Next]_vars
                => HandlersInv' /\ ReportInv'
<1> SUFFICES ASSUME TruthInv, HandlersInv, ReportInv, [Next]_vars
             PROVE  HandlersInv' /\ ReportInv'
  OBVIOUS
<1>1. ASSUME UNCHANGED <<factory, current, init_handler, prom>>,
             UNCHANGED init_called \/ Keep(init_called)
      PROVE  HandlersInv' /\ ReportInv'
  <2>1. \A s \in init_called : init_handler'[s] # {} => s \in init_called'
    BY <1>1, KeptWhileHeld
  <2>2. HandlersInv'
    BY <1>1, <2>1 DEF HandlersInv
  <2>3. ReportInv'
    BY <1>1 DEF factory, ReportInv, AtWork, AwaitsStatus
  <2> QED
    BY <2>2, <2>3
<1>2. ASSUME NEW good \in BOOLEAN, InitializeEndpoint(good) \/ InitializeEsr(good)
      PROVE  HandlersInv' /\ ReportInv'
  <2>1. init_handler' = [s \in Swarms |-> {}] /\ current' = {}
    BY <1>2 DEF InitializeEndpoint, InitializeEsr, common_init
  <2> QED
    BY <2>1 DEF HandlersInv, ReportInv
<1>3. ASSUME NEW o \in Ops, Start(o) PROVE HandlersInv' /\ ReportInv'
  <2>1. /\ FactoryStep(o) /\ WithCallback(o, FALSE)
        /\ o \notin called /\ current' = current \cup {o}
    BY <1>3 DEF Start, FactoryStep, F!CallCached, F!CallUncached, F!Begin
  <2> QED
    BY <2>1, HandlersCallback, ReportCallback
<1>4. ASSUME NEW o \in Ops, Answered(o) PROVE HandlersInv' /\ ReportInv'
  <2>1. FactoryStep(o) /\ WithCallback(o, TRUE) /\ UNCHANGED current
    BY <1>4 DEF Answered, FactoryStep, session
  <2> QED
    BY <2>1, HandlersCallback, ReportCallback
<1>5. ASSUME NEW s \in Swarms, FirstStatus(s) PROVE HandlersInv' /\ ReportInv'
  <2>1. PICK o \in init_handler[s] :
            /\ CompleteOnIo(o, Json(1, "none"), 0)
            /\ init_handler' =
                    [init_handler EXCEPT ![s] = IF thrown' THEN @ ELSE {}]
    BY <1>5 DEF FirstStatus, Code
  <2>2. o \in Ops /\ init_handler[s] = {o}
    BY DEF TruthInv, HandlersInv
  <2>3. UNCHANGED <<factory, current>> /\ Keep(init_called)
    BY <1>5 DEF FirstStatus, session
  <2>4. /\ init_handler'[s] \subseteq {o}
        /\ \A t \in Swarms : t # s => init_handler'[t] = init_handler[t]
    BY <2>1, <2>2 DEF TruthInv
  <2>5. \A t \in init_called : init_handler'[t] # {} => t \in init_called'
    BY <2>3, KeptWhileHeld
  <2>6. HandlersInv'
    BY <2>2, <2>4, <2>5 DEF HandlersInv
  <2>7. CompletedAs(o, Json(1, "none"), 0)
    BY <2>1, <2>2, CompleteEffect DEF TruthInv, Complete
  <2>8. prom'[o] # Unset /\ \A p \in Ops : p # o => prom'[p] = prom[p]
    BY <2>7 DEF CompletedAs, Unset
  <2>9. \A p \in Ops : p # o /\ AwaitsStatus(p) => AwaitsStatus(p)'
    BY <2>2, <2>4 DEF AwaitsStatus
  <2>10. current \subseteq Ops
    BY DEF ReportInv, TruthInv, FP!IInv, FP!TypeOK
  <2>11. UNCHANGED <<called, results>> /\ \A p \in Ops : AtWork(p)' = AtWork(p)
    BY <2>3 DEF factory, AtWork
  <2>12. ReportInv'
    BY <2>3, <2>8, <2>9, <2>10, <2>11 DEF ReportInv
  <2> QED
    BY <2>6, <2>12
<1>6. CASE Terminate \/ Signal
  BY <1>1, <1>6 DEF Terminate, Signal, responses, session
<1>7. ASSUME NEW o \in Ops, Wait(o) \/ GetResult(o) \/ Release(o)
      PROVE  HandlersInv' /\ ReportInv'
  BY <1>1, <1>7 DEF Wait, GetResult, Release, responses, session
<1>8. ASSUME NEW c \in Calls,
             \/ \E m \in Methods, o \in Ops : CallMethod(c, m, o)
             \/ MethodReturns(c) \/ MethodAnswered(c)
      PROVE  HandlersInv' /\ ReportInv'
  BY <1>1, <1>8 DEF CallMethod, MethodReturns, MethodAnswered, responses, session
<1>9. ASSUME NEW s \in Swarms, DropRequest(s) PROVE HandlersInv' /\ ReportInv'
  BY <1>1, <1>9, DropFrame DEF responses
<1>10. CASE UNCHANGED vars
  BY <1>1, <1>10 DEF vars, responses, session
<1> QED
  BY <1>2, <1>3, <1>4, <1>5, <1>6, <1>7, <1>8, <1>9, <1>10 DEF Next

\* No operation of a session is forgotten, for any number of swarms that answer in
\* any order, operations that share a swarm and databases that come and go: it has
\* its outcome, or awaits an answer that is due or the first status of its swarm,
\* unless db_dispatch has dropped one of its requests.
THEOREM NoOperationForgotten ==
    ASSUME NumSwarms >= 1
    PROVE  Spec => []NothingForgotten
<1>1. Init => HandlersInv /\ ReportInv
  BY DEF Init, HandlersInv, ReportInv
<1>2. TruthInv /\ HandlersInv /\ ReportInv /\ [Next]_vars
        => HandlersInv' /\ ReportInv'
  BY ReportStep
<1>3. ReportInv => NothingForgotten
  BY DEF ReportInv, NothingForgotten, AtWork, AnswerDue
<1> QED
  BY <1>1, <1>2, <1>3, TruthInvariant, PTL DEF Spec

\* A handler always stores a result.
LEMMA HandlerStores ==
    ASSUME NEW m \in MethodNames, NEW r \in D!Answers(m)
    PROVE  D!Handler(r)[m] # D!NotStored
<1>1. D!NotStored.error = -1
  BY DEF D!NotStored, D!Failed
<1>2. CASE m = "quick_read"
  <2>1. D!Handler(r)[m] = D!quick_read(r)
    BY <1>2 DEF D!Handler
  <2>2. D!quick_read(r).error \in {0, 3}
    BY DEF D!quick_read, D!Failed, D!Ready, D!DatabaseError
  <2> QED
    BY <1>1, <2>1, <2>2
<1>3. CASE m # "quick_read"
  <2>1. PICK result, data : D!Handler(r)[m] =
            D!translate_swarm_response(r, D!Json(result, "none", data))
    BY <1>3, HandlerTranslates
  <2>2. D!Handler(r)[m].error \in {0, 3}
    BY <2>1 DEF D!translate_swarm_response, D!Failed, D!Ready, D!DatabaseError
  <2> QED
    BY <1>1, <2>2
<1> QED
  BY <1>2, <1>3

\* Every step preserves MethodUnderWay: a method leaves its request with the io
\* thread, and neither the session nor the next one ends before it returns.
LEMMA MethodUnderWayStep ==
    ASSUME Methods \subseteq MethodNames, Ops \cap Calls = {},
           MethodsInv, LostInv, MethodUnderWay, [Next]_vars
    PROVE  MethodUnderWay'
<1> USE DEF MethodUnderWay, D!Completed
<1>1. ASSUME NEW good \in BOOLEAN, InitializeEndpoint(good) \/ InitializeEsr(good)
      PROVE  MethodUnderWay'
  BY <1>1 DEF InitializeEndpoint, InitializeEsr, common_init, ClientFree
<1>2. CASE Terminate
  BY <1>2 DEF Terminate, database
<1>3. ASSUME NEW o \in Ops, Start(o) PROVE MethodUnderWay'
  <2>1. \A c \in Calls : c \notin client'
    BY <1>3 DEF Start
  <2> QED
    BY <1>3, <2>1 DEF Start
<1>4. ASSUME NEW o \in Ops, Wait(o) PROVE MethodUnderWay'
  <2>1. \A c \in Calls : c \notin client'
    BY <1>4 DEF Wait
  <2> QED
    BY <1>4, <2>1 DEF Wait, session
<1>5. ASSUME NEW o \in Ops, GetResult(o) \/ Release(o) \/ Answered(o)
      PROVE  MethodUnderWay'
  <2>1. UNCHANGED <<initialized, io_thread, target, stored, lost>>
    BY <1>5 DEF GetResult, Release, Answered, session, database
  <2>2. client' \in {{}, client}
    BY <1>5 DEF GetResult, Release, Answered
  <2> QED
    BY <2>1, <2>2
<1>6. ASSUME NEW s \in Swarms, FirstStatus(s) PROVE MethodUnderWay'
  BY <1>6 DEF FirstStatus, session, database
<1>7. CASE Signal
  BY <1>7 DEF Signal, session, database
<1>8. ASSUME NEW c \in Calls, NEW m \in Methods, NEW o \in Ops, CallMethod(c, m, o)
      PROVE  MethodUnderWay'
  <2>1. /\ client' = {c} /\ UNCHANGED <<initialized, io_thread, lost>>
        /\ target' = [target EXCEPT ![c] = db[o]] /\ db[o] # 0
    BY <1>8 DEF CallMethod, D!Call, session, None, F!None
  <2> QED
    BY <2>1 DEF MethodsInv
<1>9. ASSUME NEW c \in Calls, MethodReturns(c) PROVE MethodUnderWay'
  BY <1>9 DEF MethodReturns, session
<1>10. ASSUME NEW c \in Calls, MethodAnswered(c) PROVE MethodUnderWay'
  <2>1. PICK r \in D!Answers(method[c]) :
            /\ target[c] # 0
            /\ stored' = [stored EXCEPT ![c] = D!Handler(r)[method[c]]]
            /\ target' = [target EXCEPT ![c] = 0]
    BY <1>10 DEF MethodAnswered, D!Answer
  <2>2. method[c] \in MethodNames
    BY <2>1 DEF MethodsInv
  <2>3. stored'[c] # D!NotStored
    BY <2>1, <2>2, HandlerStores DEF MethodsInv
  <2>4. \A d \in Calls : d # c => stored'[d] = stored[d] /\ target'[d] = target[d]
    BY <2>1 DEF MethodsInv
  <2>5. UNCHANGED <<client, initialized, io_thread, lost>>
    BY <1>10 DEF MethodAnswered, session
  <2> QED
    BY <2>3, <2>4, <2>5
<1>11. ASSUME NEW s \in Swarms, DropRequest(s) PROVE MethodUnderWay'
  <2>1. UNCHANGED <<initialized, io_thread, target, stored, client>>
    BY <1>11, DropFrame DEF database
  <2>2. PICK x \in Ops \cup Calls : lost' = [lost EXCEPT ![x] = @ \cup {s}]
    BY <1>11, DropFrame
  <2>3. \A c \in Calls : lost'[c] = lost[c] \/ lost'[c] # {}
    BY <2>2 DEF LostInv
  <2> QED
    BY <2>1, <2>3
<1>12. CASE UNCHANGED vars
  BY <1>12 DEF vars, session, database
<1> QED
  BY <1>1, <1>2, <1>3, <1>4, <1>5, <1>6, <1>7, <1>8, <1>9, <1>10, <1>11, <1>12 DEF Next

\* A client blocked in a method of a database has its result, or its request is
\* outstanding and while there is a session there is an io thread to complete it,
\* unless db_dispatch has dropped the request.
THEOREM NoMethodForgotten ==
    ASSUME Methods \subseteq MethodNames, Ops \cap Calls = {}
    PROVE  Spec => []MethodUnderWay
<1>1. Init => MethodUnderWay
  BY DEF Init, MethodUnderWay
<1>2. "none" \notin Methods
  BY DEF MethodNames
<1>3. Spec => []MethodsInv
  BY <1>2, MethodsInvariant
<1>4. MethodsInv /\ LostInv /\ MethodUnderWay /\ [Next]_vars => MethodUnderWay'
  BY MethodUnderWayStep
<1> QED
  BY <1>1, <1>3, <1>4, LostInvariant, PTL DEF Spec

-----------------------------------------------------------------------------
(* The library runs the swarm_factory of its module *)

\* common_init makes a new factory: its cache and everything under way in the
\* old one are gone, the swarms keep their databases.
FactoryReplaced ==
    /\ swarm_dbs' = [u \in Uuids |-> None]
    /\ asked' = [o \in Ops |-> {}]
    /\ count' = [o \in Ops |-> 0]
    /\ creating' = [o \in Ops |-> None]
    /\ UNCHANGED <<exists, called, results>>

\* A step of the library is no step of the factory, one step of the operation
\* whose entry point or handler it is, or the beginning of a session.
LEMMA FactorySteps ==
    ASSUME [Next]_vars
    PROVE  \/ UNCHANGED factory
           \/ initialized /\ F!Next
           \/ io_thread = "running" /\ F!Next
           \/ common_init /\ FactoryReplaced
<1>1. ASSUME NEW good \in BOOLEAN, InitializeEndpoint(good) \/ InitializeEsr(good)
      PROVE  common_init /\ FactoryReplaced
  BY <1>1 DEF InitializeEndpoint, InitializeEsr, common_init, FactoryReplaced
<1>2. ASSUME NEW o \in Ops, Start(o) PROVE initialized /\ F!Next
  BY <1>2 DEF Start, F!Next
<1>3. ASSUME NEW o \in Ops, Answered(o) PROVE io_thread = "running" /\ F!Next
  BY <1>3 DEF Answered, IoFree, F!Next, Swarms
<1>4. ASSUME NEW o \in Ops, Wait(o) \/ GetResult(o) \/ Release(o)
      PROVE  UNCHANGED factory
  BY <1>4 DEF Wait, GetResult, Release
<1>5. ASSUME Terminate \/ Signal \/ \E s \in Swarms : FirstStatus(s) \/ DropRequest(s)
      PROVE  UNCHANGED factory
  BY <1>5, DropFrame DEF Terminate, Signal, FirstStatus
<1>6. ASSUME NEW c \in Calls,
             \/ \E m \in Methods, o \in Ops : CallMethod(c, m, o)
             \/ MethodReturns(c) \/ MethodAnswered(c)
      PROVE  UNCHANGED factory
  BY <1>6 DEF CallMethod, MethodReturns, MethodAnswered
<1>7. CASE UNCHANGED vars
  BY <1>7 DEF vars
<1> QED
  BY <1>1, <1>2, <1>3, <1>4, <1>5, <1>6, <1>7 DEF Next

\* The factory inside the library takes the steps of SwarmFactory and no other,
\* except that a new session replaces it: neither the client's calls nor the
\* order in which handlers run on the io thread make a step of their own, for
\* any number of sessions, swarms and operations, requests that are dropped and
\* registries that cannot be read.
THEOREM RunsFactory ==
    Spec => F!Init /\ [][F!Next \/ FactoryReplaced]_factory
<1>1. Init => F!Init
  BY DEF Init
<1>2. [Next]_vars => [F!Next \/ FactoryReplaced]_factory
  BY FactorySteps
<1> QED
  BY <1>1, <1>2, PTL DEF Spec

\* Before the first session the members of the factory have their first values,
\* nothing calls it, and no thread runs its handlers.
FirstSession ==
    /\ inits \in Nat
    /\ inits = 0 =>
        /\ ~initialized
        /\ io_thread # "running"
        /\ swarm_dbs = [u \in Uuids |-> None]
        /\ asked = [o \in Ops |-> {}]
        /\ count = [o \in Ops |-> 0]
        /\ creating = [o \in Ops |-> None]

\* Every step of the library preserves FirstSession.
LEMMA FirstSessionStep ==
    ASSUME FirstSession, [Next]_vars
    PROVE  FirstSession'
<1>1. ASSUME common_init PROVE FirstSession'
  <2>1. inits \in Nat /\ inits' = inits + 1
    BY <1>1 DEF common_init, FirstSession
  <2>2. inits' \in Nat /\ inits' # 0
    BY <2>1
  <2> QED
    BY <2>2 DEF FirstSession
<1>2. ASSUME NEW good \in BOOLEAN, InitializeEndpoint(good) \/ InitializeEsr(good)
      PROVE  common_init
  BY <1>2 DEF InitializeEndpoint, InitializeEsr
<1>3. ASSUME inits' = inits, inits # 0 PROVE FirstSession'
  BY <1>3 DEF FirstSession
<1>4. ASSUME UNCHANGED <<factory, inits, initialized, io_thread>>
      PROVE  FirstSession'
  BY <1>4 DEF FirstSession, factory
<1>5. ASSUME NEW o \in Ops, Start(o) PROVE FirstSession'
  <2>1. inits' = inits /\ initialized
    BY <1>5 DEF Start
  <2> QED
    BY <1>3, <2>1 DEF FirstSession
<1>6. ASSUME NEW o \in Ops, Answered(o) PROVE FirstSession'
  <2>1. inits' = inits /\ io_thread = "running"
    BY <1>6 DEF Answered, IoFree, session
  <2> QED
    BY <1>3, <2>1 DEF FirstSession
<1>7. CASE Terminate
  <2>1. inits' = inits /\ initialized
    BY <1>7 DEF Terminate
  <2> QED
    BY <1>3, <2>1 DEF FirstSession
<1>8. ASSUME NEW o \in Ops, Wait(o) \/ GetResult(o) \/ Release(o)
      PROVE  FirstSession'
  BY <1>4, <1>8 DEF Wait, GetResult, Release, session
<1>9. ASSUME Signal \/ \E s \in Swarms : FirstStatus(s) \/ DropRequest(s)
      PROVE  FirstSession'
  BY <1>4, <1>9, DropFrame DEF Signal, FirstStatus, session
<1>10. ASSUME NEW c \in Calls,
              \/ \E m \in Methods, o \in Ops : CallMethod(c, m, o)
              \/ MethodReturns(c) \/ MethodAnswered(c)
       PROVE  FirstSession'
  BY <1>4, <1>10 DEF CallMethod, MethodReturns, MethodAnswered, session
<1>11. CASE UNCHANGED vars
  BY <1>4, <1>11 DEF vars, session
<1> QED
  BY <1>1, <1>2, <1>5, <1>6, <1>7, <1>8, <1>9, <1>10, <1>11 DEF Next

\* With one session, the case of a program that calls initialize once, the
\* library implements SwarmFactory: beginning the session changes nothing of a
\* factory that was never used.  What holds of every behaviour of SwarmFactory
\* then holds of the factory in the library.
THEOREM ImplementsFactory ==
    ASSUME MaxInits \in {0, 1}
    PROVE  Spec => F!Spec
<1>1. Init => F!Init /\ FirstSession
  BY DEF Init, F!Init, FirstSession, None
<1>2. FirstSession /\ [Next]_vars => FirstSession'
  BY FirstSessionStep
<1>3. ASSUME FirstSession, [Next]_vars PROVE [F!Next]_(F!vars)
  <2>1. UNCHANGED factory => UNCHANGED F!vars
    BY DEF factory, F!vars
  <2>2. ASSUME common_init, FactoryReplaced PROVE UNCHANGED F!vars
    <3>1. inits \in Nat /\ inits < MaxInits
      BY <1>3, <2>2 DEF common_init, FirstSession
    <3>2. inits = 0
      BY <3>1
    <3> QED
      BY <1>3, <2>2, <3>2 DEF FirstSession, FactoryReplaced, F!vars
  <2> QED
    BY <1>3, <2>1, <2>2, FactorySteps
<1> QED
  BY <1>1, <1>2, <1>3, PTL DEF Spec, F!Spec

-----------------------------------------------------------------------------
(* Types *)

\* A promise and an error are members of db_error, and the response whose
\* set_error is under way has its promise set.
ResponseTypes ==
    /\ prom \in [Ops -> {Unset} \cup ErrorCodes]
    /\ resp_error \in [Ops -> ErrorCodes]
    /\ signalling = {} \/ \E o \in Ops : signalling = {o}
    /\ \A o \in signalling : prom[o] # Unset

\* A swarm that was initialized is held by someone.
HeldInv ==
    /\ init_called \subseteq Swarms
    /\ \A s \in init_called : Held(s)

\* The session, the databases and who waits for whom.
SessionTypes ==
    /\ initialized \in BOOLEAN
    /\ io_thread \in {"none", "running", "joined"}
    /\ error_val \in {-1} \cup ErrorCodes
    /\ db \in [Ops -> Swarms \cup {None}]
    /\ \A s \in Swarms : init_handler[s] = {} \/ \E o \in Ops : init_handler[s] = {o}
    /\ client = {} \/ \E x \in Ops \cup Calls : client = {x}

\* Completing a response with a member of db_error preserves ResponseTypes.
LEMMA CompleteTypes ==
    ASSUME ResponseTypes, NEW o \in Ops, NEW json, NEW error \in ErrorCodes,
           NEW onIo, Complete(o, json, error, onIo)
    PROVE  ResponseTypes'
<1>1. error # Unset
  BY DEF ErrorCodes, Unset
<1>2. thrown' = (prom[o] # Unset)
  BY DEF Complete, CompleteAtOnce, CompleteOnIo
<1>3. prom' = IF thrown' THEN prom ELSE [prom EXCEPT ![o] = error]
  BY DEF Complete, CompleteAtOnce, CompleteOnIo
<1>4. prom' \in [Ops -> {Unset} \cup ErrorCodes]
  BY <1>3 DEF ResponseTypes
<1>5. \A p \in Ops : prom[p] # Unset => prom'[p] # Unset
  BY <1>1, <1>3 DEF ResponseTypes
<1>6. ~thrown' => prom'[o] # Unset
  BY <1>1, <1>3 DEF ResponseTypes
<1>7. CASE CompleteAtOnce(o, json, error)
  <2>1. /\ resp_error' = IF thrown' THEN resp_error
                         ELSE [resp_error EXCEPT ![o] = error]
        /\ UNCHANGED signalling
    BY <1>7 DEF CompleteAtOnce
  <2>2. resp_error' \in [Ops -> ErrorCodes]
    BY <2>1 DEF ResponseTypes
  <2> QED
    BY <1>4, <1>5, <2>1, <2>2 DEF ResponseTypes
<1>8. CASE CompleteOnIo(o, json, error)
  <2>1. /\ signalling' = IF thrown' THEN {} ELSE {o}
        /\ UNCHANGED resp_error
    BY <1>8 DEF CompleteOnIo
  <2> QED
    BY <1>4, <1>6, <2>1 DEF ResponseTypes
<1> QED
  BY <1>7, <1>8 DEF Complete

\* Whatever swarms are considered, only those that are held are kept.
LEMMA KeepHeld ==
    ASSUME NEW S \in SUBSET Swarms, Keep(S)
    PROVE  HeldInv'
<1>1. \A s \in Swarms : s \in init_called' => s \in S /\ Held(s)'
  BY DEF Keep
<1>2. init_called' \subseteq Swarms
  BY DEF Keep
<1>3. \A s \in init_called' : Held(s)'
  BY <1>1, <1>2
<1> QED
  BY <1>2, <1>3 DEF HeldInv, Swarms, F!Swarms

\* The callbacks of swarm_factory preserve the types.
LEMMA TypesCallback ==
    ASSUME TruthInv, ResponseTypes, HeldInv, SessionTypes, NEW o \in Ops,
           NEW onIo \in BOOLEAN, FactoryStep(o), WithCallback(o, onIo),
           UNCHANGED <<initialized, io_thread, error_val, db>>,
           UNCHANGED client \/ client' = {} \/ client' = {o}
    PROVE  ResponseTypes' /\ HeldInv' /\ SessionTypes'
<1>1. FP!IInv
  BY DEF TruthInv
<1>2. init_called \in SUBSET Swarms
  BY DEF HeldInv
<1>3. CASE Untouched(o)
  <2>1. /\ UNCHANGED <<prom, resp_error, signalling, init_handler>>
        /\ Keep(init_called)
    BY <1>3 DEF Untouched, responses
  <2>2. HeldInv'
    BY <1>2, <2>1, KeepHeld
  <2>3. ResponseTypes'
    BY <2>1 DEF ResponseTypes
  <2> QED
    BY <2>1, <2>2, <2>3 DEF SessionTypes
<1>4. CASE CompletedNow(o, onIo)
  <2>1. PICK result \in {0, 1}, message \in Messages, error \in ErrorCodes :
            /\ Complete(o, Json(result, message), error, onIo)
            /\ UNCHANGED init_handler
            /\ Keep(init_called)
    BY <1>4 DEF CompletedNow
  <2>2. HeldInv'
    BY <1>2, <2>1, KeepHeld
  <2>3. ResponseTypes'
    BY <2>1, CompleteTypes
  <2> QED
    BY <2>1, <2>2, <2>3 DEF SessionTypes
<1>5. CASE OpensNow(o)
  <2>1. PICK s \in Swarms : /\ init_handler' = [init_handler EXCEPT ![s] = {o}]
                            /\ Keep(init_called \cup {s})
                            /\ UNCHANGED <<prom, resp_error, signalling>>
    BY <1>5 DEF OpensNow, responses
  <2>2. HeldInv'
    BY <1>2, <2>1, KeepHeld
  <2>3. ResponseTypes'
    BY <2>1 DEF ResponseTypes
  <2>4. \A t \in Swarms :
            init_handler'[t] = IF t = s THEN {o} ELSE init_handler[t]
    BY <2>1 DEF TruthInv
  <2> QED
    BY <2>2, <2>3, <2>4 DEF SessionTypes
<1> QED
  BY <1>1, <1>3, <1>4, <1>5, CallbackEffect

\* Every step of the library preserves the types.
LEMMA TypesStep ==
    ASSUME TruthInv, MethodsInv, ResponseTypes, HeldInv, SessionTypes, [Next]_vars
    PROVE  ResponseTypes' /\ HeldInv' /\ SessionTypes'
<1>1. init_called \in SUBSET Swarms
  BY DEF HeldInv
<1>2. ASSUME UNCHANGED <<prom, resp_error, signalling>> PROVE ResponseTypes'
  BY <1>2 DEF ResponseTypes
<1>3. ASSUME UNCHANGED <<init_called, init_handler, db, asked, creating, target>>,
             UNCHANGED lost
      PROVE  HeldInv'
  BY <1>3 DEF HeldInv, Held
<1>4. ASSUME UNCHANGED <<initialized, io_thread, error_val, db, init_handler>>,
             UNCHANGED client \/ client' = {} \/ \E x \in Ops \cup Calls : client' = {x}
      PROVE  SessionTypes'
  BY <1>4 DEF SessionTypes
<1> DEFINE Goal == ResponseTypes' /\ HeldInv' /\ SessionTypes'
<1>5. ASSUME NEW good \in BOOLEAN, InitializeEndpoint(good) \/ InitializeEsr(good)
      PROVE  Goal
  <2>1. /\ UNCHANGED <<prom, resp_error, signalling, client>>
        /\ init_called' = {} /\ init_handler' = [s \in Swarms |-> {}]
        /\ db' = [o \in Ops |-> None]
    BY <1>5 DEF InitializeEndpoint, InitializeEsr, common_init, responses
  <2>2. /\ initialized' = good
        /\ io_thread' \in {"running", "joined"}
        /\ error_val' \in {-1, 0}
    BY <1>5 DEF InitializeEndpoint, InitializeEsr
  <2>3. HeldInv'
    BY <2>1 DEF HeldInv
  <2>4. SessionTypes'
    BY <2>1, <2>2 DEF SessionTypes, ErrorCodes
  <2> QED
    BY <1>2, <2>1, <2>3, <2>4
<1>6. CASE Terminate
  <2>1. /\ UNCHANGED <<prom, resp_error, signalling, client, db, init_handler>>
        /\ UNCHANGED <<init_called, asked, creating, target, lost>>
        /\ initialized' = FALSE /\ io_thread' = "joined" /\ error_val' = -1
    BY <1>6 DEF Terminate, responses, factory, database
  <2>2. SessionTypes'
    BY <2>1 DEF SessionTypes
  <2> QED
    BY <1>2, <1>3, <2>1, <2>2
<1>7. ASSUME NEW o \in Ops, Start(o) PROVE Goal
  <2>1. /\ FactoryStep(o) /\ WithCallback(o, FALSE)
        /\ UNCHANGED <<initialized, io_thread, error_val, db>>
        /\ client' = {} \/ client' = {o}
    BY <1>7 DEF Start, FactoryStep
  <2> QED
    BY <2>1, TypesCallback
<1>8. ASSUME NEW o \in Ops, Answered(o) PROVE Goal
  <2>1. /\ FactoryStep(o) /\ WithCallback(o, TRUE)
        /\ UNCHANGED <<initialized, io_thread, error_val, db, client>>
    BY <1>8 DEF Answered, FactoryStep, session
  <2> QED
    BY <2>1, TypesCallback
<1>9. ASSUME NEW o \in Ops, Wait(o) PROVE Goal
  <2>1. /\ UNCHANGED <<prom, resp_error, signalling, initialized, io_thread>>
        /\ UNCHANGED <<error_val, db, init_handler, init_called, asked, creating>>
        /\ UNCHANGED <<target, lost>> /\ client' = {o}
    BY <1>9 DEF Wait, responses, session, factory, database
  <2> QED
    BY <1>2, <1>3, <1>4, <2>1
<1>10. ASSUME NEW o \in Ops, GetResult(o) PROVE Goal
  <2>1. /\ UNCHANGED <<prom, resp_error, signalling, initialized, io_thread>>
        /\ UNCHANGED <<db, init_handler, init_called, asked, creating, target, lost>>
        /\ client' = {}
        /\ error_val' = IF o \in Sync THEN resp_error[o] ELSE error_val
    BY <1>10 DEF GetResult, responses, factory, database
  <2>2. error_val' \in {-1} \cup ErrorCodes
    BY <2>1 DEF SessionTypes, ResponseTypes
  <2>3. SessionTypes'
    BY <2>1, <2>2 DEF SessionTypes
  <2> QED
    BY <1>2, <1>3, <2>1, <2>3
<1>11. ASSUME NEW o \in Ops, Release(o) PROVE Goal
  <2>1. /\ UNCHANGED <<prom, resp_error, signalling, initialized, io_thread>>
        /\ UNCHANGED <<error_val, init_handler, client>>
        /\ db' = [db EXCEPT ![o] = None]
        /\ Keep(init_called)
    BY <1>11 DEF Release, responses, session
  <2>2. HeldInv'
    BY <1>1, <2>1, KeepHeld
  <2>3. SessionTypes'
    BY <2>1 DEF SessionTypes
  <2> QED
    BY <1>2, <2>1, <2>2, <2>3
<1>12. ASSUME NEW s \in Swarms, FirstStatus(s) PROVE Goal
  <2>1. PICK o \in init_handler[s] :
            /\ CompleteOnIo(o, Json(1, "none"), 0)
            /\ db' = [db EXCEPT ![o] = s]
            /\ init_handler' =
                    [init_handler EXCEPT ![s] = IF thrown' THEN @ ELSE {}]
    BY <1>12 DEF FirstStatus, Code
  <2>2. /\ UNCHANGED <<initialized, io_thread, error_val, client>>
        /\ Keep(init_called)
    BY <1>12 DEF FirstStatus, session
  <2>3. o \in Ops
    BY DEF TruthInv
  <2>4. 0 \in ErrorCodes /\ Complete(o, Json(1, "none"), 0, TRUE)
    BY <2>1 DEF ErrorCodes, Complete
  <2>5. ResponseTypes'
    BY <2>3, <2>4, CompleteTypes
  <2>6. HeldInv'
    BY <1>1, <2>2, KeepHeld
  <2>7. db' \in [Ops -> Swarms \cup {None}]
    BY <2>1 DEF SessionTypes
  <2>8. \A t \in Swarms : init_handler'[t] = init_handler[t] \/ init_handler'[t] = {}
    BY <2>1 DEF TruthInv
  <2>9. SessionTypes'
    BY <2>2, <2>7, <2>8 DEF SessionTypes
  <2> QED
    BY <2>5, <2>6, <2>9
<1>13. CASE Signal
  <2>1. /\ UNCHANGED <<prom, initialized, io_thread, error_val, db, init_handler>>
        /\ UNCHANGED <<init_called, asked, creating, target, lost, client>>
        /\ signalling' = {}
        /\ resp_error' = [o \in Ops |-> IF o \in signalling THEN prom[o]
                                        ELSE resp_error[o]]
    BY <1>13 DEF Signal, factory, database, session
  <2>2. \A o \in Ops : o \in signalling => prom[o] \in ErrorCodes
    BY DEF ResponseTypes
  <2>3. resp_error' \in [Ops -> ErrorCodes]
    BY <2>1, <2>2 DEF ResponseTypes
  <2>4. ResponseTypes'
    BY <2>1, <2>3 DEF ResponseTypes
  <2> QED
    BY <1>3, <1>4, <2>1, <2>4
<1>14. ASSUME NEW c \in Calls, NEW m \in Methods, NEW o \in Ops, CallMethod(c, m, o)
       PROVE  Goal
  <2>1. /\ UNCHANGED <<prom, resp_error, signalling, initialized, io_thread>>
        /\ UNCHANGED <<error_val, db, init_handler, init_called, asked, creating, lost>>
        /\ method[c] = "none" /\ client' = {c}
        /\ target' = [target EXCEPT ![c] = db[o]]
    BY <1>14 DEF CallMethod, D!Call, responses, session, factory
  <2>2. target[c] = 0
    BY <2>1 DEF MethodsInv
  <2>3. \A s \in Swarms, e \in Calls : target[e] = s => target'[e] = s
    BY <2>1, <2>2 DEF Swarms, F!Swarms, MethodsInv
  <2>4. \A s \in Swarms : Held(s) => Held(s)'
    BY <2>1, <2>3 DEF Held
  <2>5. HeldInv'
    BY <2>1, <2>4 DEF HeldInv
  <2> QED
    BY <1>2, <1>4, <2>1, <2>5
<1>15. ASSUME NEW c \in Calls, MethodReturns(c) PROVE Goal
  <2>1. /\ UNCHANGED <<prom, resp_error, signalling, initialized, io_thread>>
        /\ UNCHANGED <<error_val, db, init_handler, init_called, asked, creating>>
        /\ UNCHANGED <<target, lost>> /\ client' = {}
    BY <1>15 DEF MethodReturns, responses, session, factory, database
  <2> QED
    BY <1>2, <1>3, <1>4, <2>1
<1>16. ASSUME NEW c \in Calls, MethodAnswered(c) PROVE Goal
  <2>1. /\ UNCHANGED <<prom, resp_error, signalling, initialized, io_thread>>
        /\ UNCHANGED <<error_val, db, init_handler, client>>
        /\ Keep(init_called)
    BY <1>16 DEF MethodAnswered, responses, session
  <2>2. HeldInv'
    BY <1>1, <2>1, KeepHeld
  <2> QED
    BY <1>2, <1>4, <2>1, <2>2
<1>17. ASSUME NEW s \in Swarms, DropRequest(s) PROVE Goal
  <2>1. /\ UNCHANGED <<prom, resp_error, signalling, initialized, io_thread>>
        /\ UNCHANGED <<error_val, db, init_handler, client>>
        /\ Keep(init_called)
    BY <1>17, DropFrame DEF responses
  <2>2. HeldInv'
    BY <1>1, <2>1, KeepHeld
  <2> QED
    BY <1>2, <1>4, <2>1, <2>2
<1>18. CASE UNCHANGED vars
  <2>1. /\ UNCHANGED <<prom, resp_error, signalling, initialized, io_thread>>
        /\ UNCHANGED <<error_val, db, init_handler, init_called, asked, creating>>
        /\ UNCHANGED <<target, lost, client>>
    BY <1>18 DEF vars, responses, session, factory, database
  <2> QED
    BY <1>2, <1>3, <1>4, <2>1
<1> QED
  BY <1>5, <1>6, <1>7, <1>8, <1>9, <1>10, <1>11, <1>12, <1>13, <1>14, <1>15, <1>16,
     <1>17, <1>18 DEF Next

\* The invariants give the types as the module states them.
LEMMA TypesMeanTypeOK ==
    ASSUME FP!IInv, LostInv, ResponseTypes, HeldInv, SessionTypes
    PROVE  TypeOK
<1>1. F!TypeOK
  BY DEF FP!IInv, FP!TypeOK, F!TypeOK, F!Swarms, FP!Swarms, F!None, FP!None,
         F!Errors, FP!Errors
<1>2. ASSUME NEW S, S = {} \/ \E x : S = {x} PROVE Cardinality(S) <= 1
  <2>1. CASE S = {}
    BY <2>1, FS_EmptySet
  <2>2. ASSUME NEW x, S = {x} PROVE Cardinality(S) = 1
    BY <2>2, FS_Singleton
  <2> QED
    BY <1>2, <2>1, <2>2
<1>3. \A s \in Swarms : Cardinality(init_handler[s]) <= 1
  BY <1>2 DEF SessionTypes
<1>4. Cardinality(signalling) <= 1 /\ Cardinality(client) <= 1
  <2>1. signalling = {} \/ \E x : signalling = {x}
    BY DEF ResponseTypes
  <2>2. client = {} \/ \E x \in Ops \cup Calls : client = {x}
    BY DEF SessionTypes
  <2> QED
    BY <1>2, <2>1, <2>2
<1>5. /\ prom \in [Ops -> {Unset, 0, 2, 3, 5, 7}]
      /\ resp_error \in [Ops -> {0, 2, 3, 5, 7}]
      /\ error_val \in {-1, 0, 2, 3, 5, 7}
  BY DEF ResponseTypes, SessionTypes, ErrorCodes
<1> QED
  BY <1>1, <1>3, <1>4, <1>5 DEF TypeOK, HeldInv, SessionTypes, LostInv

\* Every variable of the library keeps its type, for any number of swarms,
\* sessions, operations and calls, dropped requests and failures: every error is
\* a member of db_error, one operation waits for a swarm, one response is being
\* signalled, and the registry of swarms remembers as initialized only swarms that
\* an operation, a database or a request still holds.
THEOREM TypeCorrect ==
    ASSUME "none" \notin Methods
    PROVE  Spec => []TypeOK
<1>1. Init => ResponseTypes /\ HeldInv /\ SessionTypes
  BY DEF Init, ResponseTypes, HeldInv, SessionTypes, ErrorCodes
<1>2. TruthInv /\ MethodsInv /\ ResponseTypes /\ HeldInv /\ SessionTypes /\ [Next]_vars
        => ResponseTypes' /\ HeldInv' /\ SessionTypes'
  BY TypesStep
<1>3. TruthInv /\ LostInv /\ ResponseTypes /\ HeldInv /\ SessionTypes => TypeOK
  BY TypesMeanTypeOK DEF TruthInv
<1>4. Spec => []MethodsInv
  BY MethodsInvariant
<1> QED
  BY <1>1, <1>2, <1>3, <1>4, LostInvariant, TruthInvariant, PTL DEF Spec

=============================================================================
