----------------------------- MODULE CliProofs ------------------------------
(***************************************************************************)
(* Proofs about bzapi-cli: for every command line, configuration, number   *)
(* of swarms and behaviour of the swarms and of the registry.              *)
(***************************************************************************)
EXTENDS Cli, LibraryProofs

\* main and the io thread take steps; fairness is not used in these proofs.
CliSafety == CliInit /\ [][CliNext]_cli_vars

-----------------------------------------------------------------------------
(* The way out *)

\* Until it initializes the library main has no io thread; outside a session the
\* thread runs exactly if the registry could not be read, and then there is none.
ExitInv ==
    /\ pc \in {"main", "command", "initialize"} =>
            ~unread /\ ~initialized /\ io_thread = "none"
    /\ initialized => ~unread
    /\ ~initialized => (io_thread = "running" <=> unread)
    /\ CleanExit

\* Every step of the program preserves ExitInv.
LEMMA ExitStep == ExitInv /\ [CliNext]_cli_vars => ExitInv'
<1> SUFFICES ASSUME ExitInv, [CliNext]_cli_vars PROVE ExitInv'
  OBVIOUS
<1> USE DEF ExitInv, CleanExit
<1>1. CASE CheckCommandLine
  <2>1. UNCHANGED <<unread, initialized, io_thread>>
    BY <1>1 DEF CheckCommandLine, vars, factory, session
  <2>2. /\ pc = "main" /\ pc' \in {"caught", "command", "exited"}
        /\ pc' = "exited" => exit' = "ABORT" <=> io_thread' = "running"
    BY <1>1 DEF CheckCommandLine, Goto, Exit
  <2> QED
    BY <2>1, <2>2
<1>2. CASE process_program_options
  <2>1. UNCHANGED <<unread, initialized, io_thread>>
    BY <1>2 DEF process_program_options, vars, factory, session
  <2>2. pc = "command" /\ pc' \in {"return", "caught", "initialize"}
    BY <1>2 DEF process_program_options, Goto
  <2> QED
    BY <2>1, <2>2
<1>3. CASE initialize_bzapi
  <2>1. pc = "initialize" /\ pc' \in {"call", "return"}
    BY <1>3 DEF initialize_bzapi, Goto
  <2>2. PICK good \in BOOLEAN : InitializeEsr(good)
    BY <1>3 DEF initialize_bzapi
  <2>3. /\ initialized' = good /\ io_thread' = "running"
        /\ unread' = (unread \/ ~good)
    BY <2>2 DEF InitializeEsr
  <2> QED
    BY <2>1, <2>3
<1>4. ASSUME NEW o \in Ops, CallLibrary(o) PROVE ExitInv'
  <2>1. initialized' = initialized /\ initialized /\ UNCHANGED unread /\ pc' = "result"
    BY <1>4 DEF CallLibrary, Start, Goto
  <2> QED
    BY <2>1
<1>5. ASSUME NEW o \in Ops, LibraryReturns(o) PROVE ExitInv'
  <2>1. UNCHANGED <<unread, initialized, io_thread>> /\ pc' \in {"method", "release"}
    BY <1>5 DEF LibraryReturns, GetResult, factory, Goto
  <2> QED
    BY <2>1
<1>6. ASSUME NEW c \in Calls, NEW o \in Ops, CallDatabase(c, o) PROVE ExitInv'
  <2>1. UNCHANGED <<unread, initialized, io_thread>> /\ pc' = "answer"
    BY <1>6 DEF CallDatabase, CallMethod, factory, session, Goto
  <2> QED
    BY <2>1
<1>7. ASSUME NEW c \in Calls, DatabaseReturns(c) PROVE ExitInv'
  <2>1. UNCHANGED <<unread, initialized, io_thread>> /\ pc' = "release"
    BY <1>7 DEF DatabaseReturns, MethodReturns, factory, session, Goto
  <2> QED
    BY <2>1
<1>8. CASE HandlerReturns
  <2>1. UNCHANGED <<unread, initialized, io_thread>> /\ pc' = "return"
    BY <1>8 DEF HandlerReturns, Release, vars, factory, session, Goto
  <2> QED
    BY <2>1
<1>9. CASE Leave
  <2>1. /\ pc' = "exited"
        /\ exit' = "ABORT" <=> io_thread' = "running"
    BY <1>9 DEF Leave, Exit
  <2>2. CASE initialized
    <3>1. ~initialized' /\ io_thread' = "joined" /\ UNCHANGED unread
      BY <1>9, <2>2 DEF Leave, Terminate
    <3> QED
      BY <2>1, <2>2, <3>1
  <2>3. CASE ~initialized
    <3>1. UNCHANGED <<unread, initialized, io_thread>>
      BY <1>9, <2>3 DEF Leave, vars, factory, session
    <3> QED
      BY <2>1, <2>3, <3>1
  <2> QED
    BY <2>2, <2>3
<1>10. CASE IoStep
  <2>1. UNCHANGED <<unread, initialized, io_thread, pc, exit>>
    BY <1>10 DEF IoStep, Handlers, Answered, MethodAnswered, Signal, session, program
  <2> QED
    BY <2>1
<1>11. ASSUME NEW s \in Swarms, StatusComes(s) \/ RequestDropped(s) PROVE ExitInv'
  <2>1. UNCHANGED <<unread, initialized, io_thread, pc, exit>>
    BY <1>11, DropFrame DEF StatusComes, RequestDropped, FirstStatus, session, program
  <2> QED
    BY <2>1
<1>12. CASE UNCHANGED cli_vars
  <2>1. UNCHANGED <<unread, initialized, io_thread, pc, exit>>
    BY <1>12 DEF cli_vars, vars, factory, session, program
  <2> QED
    BY <2>1
<1> QED
  BY <1>1, <1>2, <1>3, <1>4, <1>5, <1>6, <1>7, <1>8, <1>9, <1>10, <1>11, <1>12
  DEF CliNext, MainStep

\* The process leaves the library terminated, and is aborted exactly if the registry
\* could not be read, for any command line, configuration and number of swarms.
THEOREM ExitsCleanly == CliSpec => []CleanExit
<1>1. CliSpec => CliSafety
  BY PTL DEF CliSpec, CliSafety
<1>2. CliInit => ExitInv
  BY DEF CliInit, Init, ExitInv, CleanExit
<1>3. ExitInv => CleanExit
  BY DEF ExitInv
<1>4. CliSafety => []ExitInv
  BY <1>2, ExitStep, PTL DEF CliSafety
<1> QED
  BY <1>1, <1>3, <1>4, PTL

-----------------------------------------------------------------------------
(* The code SUCCESS *)

\* The methods of the library are the ones the commands call.
AllMethods == Methods = {MethodOf[k] : k \in DOMAIN MethodOf}

\* The operation of the command has succeeded,
Opened == \E o \in called : Serves(o) /\ got[o].result = 1

\* and its method, if it has one, has a result.
Done ==
    /\ Opened
    /\ line.command \in DOMAIN MethodOf =>
            \E c \in Calls : method[c] = MethodOf[line.command] /\ D!Completed(c)

\* What main knows at each place: whom it waits for, that it calls a method only of
\* a database it has opened, and that ok is set only when the command is done.
SuccessInv ==
    /\ pc # "exited" => exit = "none"
    /\ pc \notin {"release", "return", "exited"} => ok = FALSE
    /\ pc = "result" => \A o \in Ops : client = {o} => o \in called /\ Serves(o)
    /\ pc \in {"method", "answer"} => Opened /\ line.command \in DOMAIN MethodOf
    /\ pc = "answer" => \A c \in Calls :
            client = {c} => method[c] = MethodOf[line.command]
    /\ pc # "exited" /\ ok => Done
    /\ exit = "SUCCESS" /\ ~line.help => Done

\* A step of the program is a step of the library or none.
LEMMA LibraryStep ==
    ASSUME AllMethods, SuccessInv, [CliNext]_cli_vars
    PROVE  [Next]_vars
<1>1. CASE CheckCommandLine \/ process_program_options
  BY <1>1 DEF CheckCommandLine, process_program_options
<1>2. CASE initialize_bzapi
  BY <1>2 DEF initialize_bzapi, Next
<1>3. ASSUME NEW o \in Ops, CallLibrary(o) \/ LibraryReturns(o) PROVE Next
  BY <1>3 DEF CallLibrary, LibraryReturns, Next
<1>4. ASSUME NEW c \in Calls, NEW o \in Ops, CallDatabase(c, o) PROVE Next
  <2>1. MethodOf[line.command] \in Methods
    BY <1>4 DEF CallDatabase, SuccessInv, AllMethods
  <2> QED
    BY <1>4, <2>1 DEF CallDatabase, Next
<1>5. ASSUME NEW c \in Calls, DatabaseReturns(c) PROVE Next
  BY <1>5 DEF DatabaseReturns, Next
<1>6. CASE HandlerReturns
  BY <1>6 DEF HandlerReturns, Next
<1>7. CASE Leave
  BY <1>7 DEF Leave, Next
<1>8. CASE IoStep
  BY <1>8 DEF IoStep, Handlers, Next
<1>9. ASSUME NEW s \in Swarms, StatusComes(s) \/ RequestDropped(s) PROVE Next
  BY <1>9 DEF StatusComes, RequestDropped, Next
<1>10. CASE UNCHANGED cli_vars
  BY <1>10 DEF cli_vars
<1> QED
  BY <1>1, <1>2, <1>3, <1>4, <1>5, <1>6, <1>7, <1>8, <1>9, <1>10
  DEF CliNext, MainStep

\* What is done stays done in a step that changes no operation of the client, also
\* if it answers a method.
LEMMA DoneStays ==
    ASSUME MethodsInv, UNCHANGED <<line, called, got, method>>,
           UNCHANGED stored \/ \E c \in Calls : MethodAnswered(c)
    PROVE  (Opened => Opened') /\ (Done => Done')
<1>1. \A o : Serves(o)' = Serves(o)
  BY DEF Serves
<1>2. Opened => Opened'
  BY <1>1 DEF Opened
<1>3. \A c \in Calls : D!Completed(c) => D!Completed(c)'
  <2>1. CASE UNCHANGED stored
    BY <2>1 DEF D!Completed, D!NotStored, D!Failed, D!Json
  <2>2. ASSUME NEW c \in Calls, MethodAnswered(c), NEW p \in Calls, D!Completed(p)
        PROVE  D!Completed(p)'
    <3>1. PICK r : target[c] # 0
            /\ stored' = [stored EXCEPT ![c] = D!Handler(r)[method[c]]]
      BY <2>2 DEF MethodAnswered, D!Answer
    <3>2. p # c
      BY <2>2, <3>1 DEF MethodsInv, D!Completed
    <3>3. stored'[p] = stored[p]
      BY <3>1, <3>2 DEF MethodsInv
    <3> QED
      BY <2>2, <3>3 DEF D!Completed, D!NotStored, D!Failed, D!Json
  <2> QED
    BY <2>1, <2>2
<1> QED
  BY <1>2, <1>3 DEF Done

\* Every step of the program preserves SuccessInv.
LEMMA SuccessStep ==
    TruthInv /\ MethodsInv /\ SuccessInv /\ [CliNext]_cli_vars => SuccessInv'
<1> SUFFICES ASSUME TruthInv, MethodsInv, SuccessInv, [CliNext]_cli_vars
             PROVE  SuccessInv'
  OBVIOUS
<1>1. CASE CheckCommandLine
  <2>1. /\ pc = "main" /\ ok = FALSE /\ exit = "none" /\ UNCHANGED <<line, ok>>
        /\ pc' \in {"caught", "command", "exited"}
        /\ pc' # "exited" => exit' = "none"
        /\ exit' = "SUCCESS" => line.help
    BY <1>1 DEF CheckCommandLine, Goto, Exit, SuccessInv
  <2> QED
    BY <2>1 DEF SuccessInv
<1>2. CASE process_program_options \/ initialize_bzapi
  <2>1. /\ pc \in {"command", "initialize"} /\ ok = FALSE /\ exit = "none"
        /\ UNCHANGED <<line, ok, exit>>
        /\ pc' \in {"return", "caught", "initialize", "call"}
    BY <1>2 DEF process_program_options, initialize_bzapi, Goto, SuccessInv
  <2> QED
    BY <2>1 DEF SuccessInv
<1>3. ASSUME NEW o \in Ops, CallLibrary(o) PROVE SuccessInv'
  <2>1. /\ pc = "call" /\ ok = FALSE /\ exit = "none" /\ UNCHANGED <<line, ok, exit>>
        /\ pc' = "result" /\ Serves(o)
        /\ o \in called' /\ client' \in {{o}, {}}
    BY <1>3 DEF CallLibrary, Start, Goto, SuccessInv, F!CallCached, F!CallUncached,
                F!Begin
  <2>2. \A p \in Ops : client' = {p} => p = o
    BY <2>1
  <2>3. Serves(o)'
    BY <2>1 DEF Serves
  <2> QED
    BY <2>1, <2>2, <2>3 DEF SuccessInv
<1>4. ASSUME NEW o \in Ops, LibraryReturns(o) PROVE SuccessInv'
  <2>1. /\ pc = "result" /\ exit = "none" /\ UNCHANGED <<line, exit, called>>
        /\ o \in called /\ Serves(o)
    BY <1>4 DEF LibraryReturns, GetResult, Goto, SuccessInv, factory
  <2>2. Serves(o)'
    BY <2>1 DEF Serves
  <2>3. /\ ok' = (got'[o].result = 1 /\ line.command \notin DOMAIN MethodOf)
        /\ pc' = IF got'[o].result = 1 /\ line.command \in DOMAIN MethodOf
                 THEN "method" ELSE "release"
    BY <1>4 DEF LibraryReturns, ResultOf, Goto
  <2>4. got'[o].result = 1 => Opened'
    BY <2>1, <2>2 DEF Opened
  <2>5. CASE got'[o].result = 1 /\ line.command \in DOMAIN MethodOf
    <3>1. pc' = "method" /\ ok' = FALSE /\ Opened'
      BY <2>3, <2>4, <2>5
    <3> QED
      BY <2>1, <2>5, <3>1 DEF SuccessInv
  <2>6. CASE got'[o].result = 1 /\ line.command \notin DOMAIN MethodOf
    <3>1. pc' = "release" /\ Done'
      BY <2>1, <2>3, <2>4, <2>6 DEF Done
    <3> QED
      BY <2>1, <3>1 DEF SuccessInv
  <2>7. CASE got'[o].result # 1
    <3>1. pc' = "release" /\ ok' = FALSE
      BY <2>3, <2>7
    <3> QED
      BY <2>1, <3>1 DEF SuccessInv
  <2> QED
    BY <2>5, <2>6, <2>7
<1>5. ASSUME NEW c \in Calls, NEW o \in Ops, CallDatabase(c, o) PROVE SuccessInv'
  <2>1. /\ pc = "method" /\ ok = FALSE /\ exit = "none" /\ UNCHANGED <<line, ok, exit>>
        /\ pc' = "answer" /\ UNCHANGED <<called, got>> /\ client' = {c}
        /\ method' = [method EXCEPT ![c] = MethodOf[line.command]]
        /\ Opened /\ line.command \in DOMAIN MethodOf
    BY <1>5 DEF CallDatabase, CallMethod, D!Call, Goto, SuccessInv, factory
  <2>2. Opened'
    BY <2>1 DEF Opened, Serves
  <2>3. method'[c] = MethodOf[line.command]
    BY <2>1 DEF MethodsInv
  <2>4. \A p \in Calls : client' = {p} => p = c
    BY <2>1
  <2> QED
    BY <2>1, <2>2, <2>3, <2>4 DEF SuccessInv
<1>6. ASSUME NEW c \in Calls, DatabaseReturns(c) PROVE SuccessInv'
  <2>1. /\ pc = "answer" /\ exit = "none" /\ UNCHANGED <<line, exit>>
        /\ pc' = "release" /\ UNCHANGED <<called, got, method, stored>>
        /\ client = {c} /\ D!Completed(c)
    BY <1>6 DEF DatabaseReturns, MethodReturns, Goto, SuccessInv, factory, database
  <2>2. Done
    BY <2>1 DEF SuccessInv, Done
  <2>3. Done'
    BY <2>1, <2>2, DoneStays
  <2> QED
    BY <2>1, <2>3 DEF SuccessInv
<1>7. CASE HandlerReturns
  <2>1. /\ pc = "release" /\ exit = "none" /\ UNCHANGED <<line, exit, ok>>
        /\ pc' = "return" /\ UNCHANGED <<called, got, method, stored>>
    BY <1>7 DEF HandlerReturns, Release, Goto, SuccessInv, vars, factory, database
  <2>2. Done => Done'
    BY <2>1, DoneStays
  <2> QED
    BY <2>1, <2>2 DEF SuccessInv
<1>8. CASE Leave
  <2>1. /\ pc \in {"return", "caught"} /\ UNCHANGED <<line, ok>> /\ pc' = "exited"
        /\ exit' = "SUCCESS" => ok /\ pc = "return"
        /\ UNCHANGED <<called, got, method, stored>>
    BY <1>8 DEF Leave, Exit, Terminate, vars, factory, database
  <2>2. Done => Done'
    BY <2>1, DoneStays
  <2> QED
    BY <2>1, <2>2 DEF SuccessInv
<1>9. CASE IoStep \/ \E s \in Swarms : StatusComes(s) \/ RequestDropped(s)
  <2>1. UNCHANGED <<line, pc, ok, exit>> /\ pc # "exited" /\ UNCHANGED <<got, client>>
    BY <1>9, DropFrame
    DEF IoStep, StatusComes, RequestDropped, Handlers, Answered, MethodAnswered, Signal,
        FirstStatus, program
  <2>2. UNCHANGED method
    BY <1>9, DropFrame
    DEF IoStep, StatusComes, RequestDropped, Handlers, Answered, MethodAnswered,
        D!Answer, Signal, FirstStatus, database
  <2>3. UNCHANGED stored \/ \E c \in Calls : MethodAnswered(c)
    BY <1>9, DropFrame
    DEF IoStep, StatusComes, RequestDropped, Handlers, Answered, Signal, FirstStatus,
        database
  <2>4. UNCHANGED called
    <3>1. ASSUME NEW o \in Ops, Answered(o) PROVE UNCHANGED called
      BY <3>1 DEF Answered, F!AnsweredCreate, F!AnswerCreated, F!AnswerCreateFailed,
                  F!AnsweredHas, F!AnswerHas
    <3> QED
      BY <1>9, <3>1, DropFrame
      DEF IoStep, StatusComes, RequestDropped, Handlers, MethodAnswered, Signal,
          FirstStatus, factory
  <2>5. (Opened => Opened') /\ (Done => Done')
    BY <2>1, <2>2, <2>3, <2>4, DoneStays
  <2>6. \A o : Serves(o)' = Serves(o)
    BY <2>1 DEF Serves
  <2> QED
    BY <2>1, <2>2, <2>4, <2>5, <2>6 DEF SuccessInv
<1>10. CASE UNCHANGED cli_vars
  <2>1. UNCHANGED <<line, pc, ok, exit, got, client, method, stored, called>>
    BY <1>10 DEF cli_vars, vars, program, factory, database
  <2>2. (Opened => Opened') /\ (Done => Done')
    BY <2>1, DoneStays
  <2>3. \A o : Serves(o)' = Serves(o)
    BY <2>1 DEF Serves
  <2> QED
    BY <2>1, <2>2, <2>3 DEF SuccessInv
<1> QED
  BY <1>1, <1>2, <1>3, <1>4, <1>5, <1>6, <1>7, <1>8, <1>9, <1>10
  DEF CliNext, MainStep

\* What main and the library know of each other holds in every reachable state.
LEMMA CliInvariance ==
    ASSUME AllMethods
    PROVE  CliSafety => [](TruthInv /\ MethodsInv /\ SuccessInv)
<1>1. "none" \notin Methods
  BY DEF AllMethods, MethodOf
<1>2. CliInit => TruthInv /\ MethodsInv /\ SuccessInv
  <2>1. CliInit => Init
    BY DEF CliInit
  <2>2. Init => MethodsInv
    BY DEF Init, D!Init, MethodsInv
  <2>3. CliInit => SuccessInv
    BY DEF CliInit, SuccessInv
  <2> QED
    BY <2>1, <2>2, <2>3, TruthInit
<1>3. TruthInv /\ MethodsInv /\ SuccessInv /\ [CliNext]_cli_vars
        => TruthInv' /\ MethodsInv' /\ SuccessInv'
  <2>1. SuccessInv /\ [CliNext]_cli_vars => [Next]_vars
    BY LibraryStep
  <2>2. MethodsInv /\ [Next]_vars => MethodsInv'
    BY <1>1, MethodsStep
  <2> QED
    BY <2>1, <2>2, TruthStep, SuccessStep
<1> QED
  BY <1>2, <1>3, PTL DEF CliSafety

\* The exit code SUCCESS is true: the database exists, it was opened for a command
\* that needs it open, and the method of the command has a result, for any number
\* of swarms, with failing swarms and a failing registry.
THEOREM SuccessIsTrue ==
    ASSUME AllMethods
    PROVE  CliSpec => []SuccessMeansDone
<1>1. CliSpec => CliSafety
  BY PTL DEF CliSpec, CliSafety
<1>2. TruthInv /\ SuccessInv => SuccessMeansDone
  <2> SUFFICES ASSUME TruthInv, SuccessInv, exit = "SUCCESS", ~line.help
               PROVE  SuccessMeansDone
    BY DEF SuccessMeansDone
  <2>1. Done
    BY DEF SuccessInv
  <2>2. PICK o \in called : Serves(o) /\ got[o].result = 1
    BY <2>1 DEF Done, Opened
  <2>3. o \in Ops
    BY DEF TruthInv, FP!IInv, FP!TypeOK
  <2>4. Uuid[o] \in UNION {exists[s] : s \in Swarms}
    BY <2>2, <2>3 DEF TruthInv, OnSwarm
  <2> QED
    BY <2>1, <2>2, <2>4 DEF Done, SuccessMeansDone
<1>3. CliSafety => [](TruthInv /\ MethodsInv /\ SuccessInv)
  BY CliInvariance
<1> QED
  BY <1>1, <1>2, <1>3, PTL

-----------------------------------------------------------------------------
(* The program is a client of the library *)

\* Every behaviour of the program is one of Library: main calls it as a client
\* may, one call at a time and in a session, so what is proved of Library for any
\* client holds for bzapi-cli.
THEOREM UsesLibrary ==
    ASSUME AllMethods
    PROVE  CliSpec => Spec
<1>1. CliSpec => CliSafety
  BY PTL DEF CliSpec, CliSafety
<1>2. CliInit => Init
  BY DEF CliInit
<1>3. SuccessInv /\ [CliNext]_cli_vars => [Next]_vars
  BY LibraryStep
<1>4. CliSafety => [](TruthInv /\ MethodsInv /\ SuccessInv)
  BY CliInvariance
<1> QED
  BY <1>1, <1>2, <1>3, <1>4, PTL DEF CliSafety, Spec

-----------------------------------------------------------------------------
(* main never waits in vain: what ProgramEnds rests on *)

\* The program uses the blocking forms only, and operations and methods are told
\* apart.
Blocking == Ops \subseteq Sync /\ Ops \cap Calls = {}

\* While main is inside a handler there is a session, and main is blocked in the
\* call the handler has made.
CallInv ==
    /\ ~aborted
    /\ pc \in {"call", "result", "method", "answer", "release"} => initialized
    /\ pc = "result" => \E o \in current : o \in Ops /\ client = {o}
    /\ pc = "answer" => \E c \in Calls : client = {c}

\* Where main waits, what it waits for is there or on its way, an answer of a swarm
\* or the first status of one, unless db_dispatch has dropped a request of it; and
\* the io thread that brings it runs, and has thrown only after a second report.
MainWaits ==
    /\ pc \in {"call", "result", "method", "answer", "release"} =>
            initialized /\ io_thread = "running" /\ ~aborted /\ OutcomeOnce
    /\ pc = "result" => \E o \in current :
            /\ client = {o}
            /\ prom[o] # Unset \/ AnswerDue(o) \/ AwaitsStatus(o) \/ lost[o] # {}
    /\ pc = "answer" => \E c \in Calls :
            /\ client = {c}
            /\ \/ D!Completed(c)
               \/ target[c] # 0 /\ target[c] \notin lost[c]
               \/ lost[c] # {}

\* Every step of the program preserves CallInv.
LEMMA CallStep ==
    ASSUME Blocking, ExitInv, CallInv, [CliNext]_cli_vars
    PROVE  CallInv'
<1> USE DEF CallInv
<1>1. CASE CheckCommandLine \/ process_program_options
  <2>1. UNCHANGED aborted
    BY <1>1 DEF CheckCommandLine, process_program_options, vars, session
  <2>2. pc' \in {"caught", "command", "exited", "return", "initialize"}
    BY <1>1 DEF CheckCommandLine, process_program_options, Goto, Exit
  <2> QED
    BY <2>1, <2>2
<1>2. CASE initialize_bzapi
  <2>1. pc = "initialize" /\ io_thread = "none"
    BY <1>2 DEF initialize_bzapi, ExitInv
  <2>2. PICK good \in BOOLEAN :
            InitializeEsr(good) /\ Goto(IF good THEN "call" ELSE "return")
    BY <1>2 DEF initialize_bzapi
  <2>3. aborted' = FALSE
    BY <2>1, <2>2 DEF InitializeEsr, common_init
  <2>4. initialized' = good /\ pc' = IF good THEN "call" ELSE "return"
    BY <2>2 DEF InitializeEsr, Goto
  <2>5. CASE good
    BY <2>3, <2>4, <2>5
  <2>6. CASE ~good
    BY <2>3, <2>4, <2>6
  <2> QED
    BY <2>5, <2>6
<1>3. ASSUME NEW o \in Ops, CallLibrary(o) PROVE CallInv'
  <2>1. /\ pc' = "result" /\ initialized' /\ o \in current'
        /\ client' = {o} /\ UNCHANGED aborted
    BY <1>3 DEF CallLibrary, Start, Goto, Blocking
  <2> QED
    BY <2>1
<1>4. ASSUME NEW o \in Ops, LibraryReturns(o) PROVE CallInv'
  <2>1. /\ pc = "result" /\ pc' \in {"method", "release"}
        /\ UNCHANGED <<initialized, aborted>>
    BY <1>4 DEF LibraryReturns, GetResult, Goto
  <2> QED
    BY <2>1
<1>5. ASSUME NEW c \in Calls, NEW o \in Ops, CallDatabase(c, o) PROVE CallInv'
  <2>1. /\ pc = "method" /\ pc' = "answer" /\ client' = {c}
        /\ UNCHANGED <<initialized, aborted>>
    BY <1>5 DEF CallDatabase, CallMethod, Goto, session
  <2> QED
    BY <2>1
<1>6. ASSUME NEW c \in Calls, DatabaseReturns(c) PROVE CallInv'
  <2>1. pc = "answer" /\ pc' = "release" /\ UNCHANGED <<initialized, aborted>>
    BY <1>6 DEF DatabaseReturns, MethodReturns, Goto, session
  <2> QED
    BY <2>1
<1>7. CASE HandlerReturns \/ Leave
  <2>1. pc' \in {"return", "exited"} /\ UNCHANGED aborted
    BY <1>7 DEF HandlerReturns, Release, Leave, Terminate, Goto, Exit, vars, session
  <2> QED
    BY <2>1
<1>8. CASE \/ IoStep \/ UNCHANGED cli_vars
           \/ \E s \in Swarms : StatusComes(s) \/ RequestDropped(s)
  <2>1. UNCHANGED <<pc, client, initialized, aborted, current>>
    BY <1>8, DropFrame
    DEF IoStep, StatusComes, RequestDropped, Handlers, Answered, MethodAnswered, Signal,
        FirstStatus, program, cli_vars, vars, session
  <2> QED
    BY <2>1
<1> QED
  BY <1>1, <1>2, <1>3, <1>4, <1>5, <1>6, <1>7, <1>8 DEF CliNext, MainStep

\* Main never waits in vain, whatever the command and the registry and for any
\* number of swarms: blocked in the library, it has a call whose answer, result or
\* status is there or still to come, or one of whose requests db_dispatch dropped,
\* and an io thread that takes it.  With UsesLibrary this rests on what Library
\* guarantees any client.
THEOREM NeverWaitsInVain ==
    ASSUME AllMethods, Blocking, NumSwarms >= 1
    PROVE  CliSpec => []MainWaits
<1>1. CliSpec => CliSafety
  BY PTL DEF CliSpec, CliSafety
<1>2. CliSafety => [](ExitInv /\ CallInv)
  <2>1. CliInit => ExitInv /\ CallInv
    BY DEF CliInit, Init, ExitInv, CleanExit, CallInv
  <2>2. ExitInv /\ CallInv /\ [CliNext]_cli_vars => ExitInv' /\ CallInv'
    BY ExitStep, CallStep
  <2> QED
    BY <2>1, <2>2, PTL DEF CliSafety
<1>3. Spec => []NothingForgotten
  BY NoOperationForgotten
<1>4. Spec => []MethodUnderWay
  <2>1. Methods \subseteq MethodNames
    BY DEF AllMethods, MethodOf, MethodNames
  <2> QED
    BY <2>1, NoMethodForgotten DEF Blocking
<1>5. Spec => []OutcomeOnce
  BY OutcomeDecidedOnce
<1>6. CliSpec => Spec
  BY UsesLibrary
<1>7. ExitInv /\ CallInv /\ NothingForgotten /\ MethodUnderWay /\ OutcomeOnce
        => MainWaits
  <2> SUFFICES ASSUME ExitInv, CallInv, NothingForgotten, MethodUnderWay, OutcomeOnce
               PROVE  MainWaits
    OBVIOUS
  <2>1. pc = "result" => \E o \in current :
            /\ client = {o}
            /\ prom[o] # Unset \/ AnswerDue(o) \/ AwaitsStatus(o) \/ lost[o] # {}
    BY DEF CallInv, NothingForgotten
  <2>2. pc = "answer" => \E c \in Calls :
            /\ client = {c}
            /\ \/ D!Completed(c)
               \/ target[c] # 0 /\ target[c] \notin lost[c]
               \/ lost[c] # {}
    BY DEF CallInv, MethodUnderWay
  <2> QED
    BY <2>1, <2>2 DEF CallInv, MethodUnderWay, MainWaits
<1> QED
  BY <1>1, <1>2, <1>3, <1>4, <1>5, <1>6, <1>7, PTL
=============================================================================
