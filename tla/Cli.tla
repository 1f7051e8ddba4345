-------------------------------- MODULE Cli ---------------------------------
(***************************************************************************)
(* bzapi-cli: one command per process.  main checks the command line and   *)
(* the configuration, the handler of the command initializes the library,  *)
(* calls it in its blocking form and prints what it says, and main         *)
(* terminates the library and returns a code.                              *)
(*                                                                         *)
(* It composes Library, whose client it is, with main: the steps of        *)
(* Library on the client's thread happen where main makes the call, those  *)
(* on the io thread at any time until the process ends.                    *)
(***************************************************************************)
EXTENDS Library

VARIABLES
    line,           \* the command line and the configuration it names
    pc,             \* where main is
    ok,             \* what the handler of the command returns
    exit            \* code of the process, "none" while it runs

program == <<line, pc, ok, exit>>
cli_vars == <<vars, program>>

\* The commands that call a method, with the method.
MethodOf ==
    [writers |-> "writers", add_writer |-> "add_writer",
     remove_writer |-> "remove_writer", create |-> "create", read |-> "read",
     qread |-> "quick_read", update |-> "update", delete |-> "remove",
     has |-> "has", ttl |-> "ttl", persist |-> "persist", expire |-> "expire",
     keys |-> "keys", size |-> "size"]

\* bzapi_cmd_handlers.
Commands == (DOMAIN MethodOf) \cup {"status", "create_db", "has_db"}

\* The handlers of these look for no option of their own.
WithoutOptions == {"status", "create_db", "has_db", "writers", "keys", "size"}

\* What main can be given: options that program_options refuses, a request for
\* help, a configuration that cannot be read or has a member of another type, a
\* command line without a uuid, a command or the options of the command.
CommandLines ==
    [parses : BOOLEAN, help : BOOLEAN, config : {"good", "bad_type", "unreadable"},
     uuid : BOOLEAN, command : Commands \cup {"unknown", "missing"},
     options : BOOLEAN]

load_config == line.config # "unreadable"

OptionsMissing == line.command \notin WithoutOptions /\ ~line.options

CliInit ==
    /\ Init
    /\ line \in CommandLines
    /\ pc = "main"
    /\ ok = FALSE
    /\ exit = "none"

-----------------------------------------------------------------------------
(* The way out *)

\* The process ends with the code main returns, unless the io thread is still
\* running: destroying its object ends the process.
Exit(code) ==
    /\ pc' = "exited"
    /\ exit' = IF io_thread' = "running" THEN "ABORT" ELSE code

\* Mutant: the library is not terminated after a failed command.
Leave_Failed ==
    /\ pc \in {"return", "caught"}
    /\ IF initialized /\ ok THEN Terminate ELSE UNCHANGED vars
    /\ Exit(IF pc = "caught" THEN "ERROR_UNHANDLED_EXCEPTION"
            ELSE IF ok THEN "SUCCESS" ELSE "ERROR_IN_COMMAND_LINE")
    /\ UNCHANGED <<line, ok>>

\* The end of main, and its catch: terminate, which does nothing for a library
\* that is not initialized.
Leave ==
    /\ pc \in {"return", "caught"}
    /\ IF initialized THEN Terminate ELSE UNCHANGED vars
    /\ Exit(IF pc = "caught" THEN "ERROR_UNHANDLED_EXCEPTION"
            ELSE IF ok THEN "SUCCESS" ELSE "ERROR_IN_COMMAND_LINE")
    /\ UNCHANGED <<line, ok>>

Goto(label) == pc' = label /\ UNCHANGED exit

-----------------------------------------------------------------------------
(* main, up to the call of the handler *)

\* The early returns of main do not terminate the library.
CheckCommandLine ==
    /\ pc = "main"
    /\ UNCHANGED <<vars, line, ok>>
    /\ \/ ~line.parses /\ Goto("caught")
       \/ line.parses /\ line.help /\ Exit("SUCCESS")
       \/ /\ line.parses /\ ~line.help
          /\ ~load_config \/ ~line.uuid \/ line.command = "missing"
          /\ Exit("ERROR_IN_COMMAND_LINE")
       \/ /\ line.parses /\ ~line.help
          /\ load_config /\ line.uuid /\ line.command # "missing"
          /\ Goto("command")

\* process_program_options, and the checks of the handlers: a timeout of another
\* type throws in initialize_bzapi.
process_program_options ==
    /\ pc = "command"
    /\ Goto(IF line.command \notin Commands \/ OptionsMissing THEN "return"
            ELSE IF line.config = "bad_type" THEN "caught" ELSE "initialize")
    /\ UNCHANGED <<vars, line, ok>>

initialize_bzapi ==
    /\ pc = "initialize"
    /\ \E good \in BOOLEAN :
        /\ InitializeEsr(good)
        /\ Goto(IF good THEN "call" ELSE "return")
    /\ UNCHANGED <<line, ok>>

-----------------------------------------------------------------------------
(* The handlers of the commands *)

\* The operation of the library a command begins with: create_db, has_db, or
\* open_db for all others.
Serves(o) ==
    CASE line.command = "create_db" -> Kind[o] = "create"
      [] line.command = "has_db" -> Kind[o] = "has" /\ o \notin Opens
      [] OTHER -> o \in Opens

CallLibrary(o) ==
    /\ pc = "call"
    /\ Serves(o)
    /\ Start(o)
    /\ Goto("result")
    /\ UNCHANGED <<line, ok>>

\* Mutant: the command goes on without a database.
ResultOf_Blind(o) == ok' = (line.command \notin DOMAIN MethodOf)

\* status only reads what it has; the other commands go on with their method.
ResultOf(o) ==
    ok' = (got'[o].result = 1 /\ line.command \notin DOMAIN MethodOf)

LibraryReturns(o) ==
    /\ pc = "result"
    /\ GetResult(o)
    /\ ResultOf(o)
    /\ Goto(IF got'[o].result = 1 /\ line.command \in DOMAIN MethodOf
            THEN "method" ELSE "release")
    /\ UNCHANGED line

CallDatabase(c, o) ==
    /\ pc = "method"
    /\ CallMethod(c, MethodOf[line.command], o)
    /\ Goto("answer")
    /\ UNCHANGED <<line, ok>>

\* The result is printed, be it an error or not.
DatabaseReturns(c) ==
    /\ pc = "answer"
    /\ MethodReturns(c)
    /\ ok' = TRUE
    /\ Goto("release")
    /\ UNCHANGED line

\* The handler returns and its database goes.
HandlerReturns ==
    /\ pc = "release"
    /\ \/ \E o \in Ops : Release(o)
       \/ (\A o \in Ops : db[o] = None \/ got[o].result # 1) /\ UNCHANGED vars
    /\ Goto("return")
    /\ UNCHANGED <<line, ok>>

-----------------------------------------------------------------------------
MainStep ==
    \/ CheckCommandLine \/ process_program_options
    \/ \E o \in Ops : CallLibrary(o) \/ LibraryReturns(o)
    \/ \E c \in Calls : (\E o \in Ops : CallDatabase(c, o)) \/ DatabaseReturns(c)
    \/ HandlerReturns \/ Leave

\* The handlers that have to run on the io thread, and what may happen on it: a
\* status comes, a request is dropped.
Handlers ==
    \/ \E o \in Ops : Answered(o)
    \/ \E c \in Calls : MethodAnswered(c)
    \/ Signal

IoStep == pc # "exited" /\ Handlers /\ UNCHANGED program
StatusComes(s) == pc # "exited" /\ FirstStatus(s) /\ UNCHANGED program
RequestDropped(s) == pc # "exited" /\ DropRequest(s) /\ UNCHANGED program

CliNext ==
    \/ MainStep \/ initialize_bzapi \/ IoStep
    \/ \E s \in Swarms : StatusComes(s) \/ RequestDropped(s)

\* The main thread goes on unless it waits, and db_dispatch answers every request
\* it does not drop, by a timeout at the latest.  Nothing bounds how long the
\* registry is read, and no status has to come.
CliSpec ==
    /\ CliInit /\ [][CliNext]_cli_vars
    /\ WF_cli_vars(MainStep) /\ WF_cli_vars(IoStep)

-----------------------------------------------------------------------------
(* Properties *)

\* Whatever the command, the configuration and the swarms do, the process ends with
\* the library terminated, its io thread joined and the code of main, unless the
\* registry could not be read: then it is aborted, always.
CleanExit ==
    pc = "exited" => ~initialized /\ (exit = "ABORT" <=> unread)

\* The code SUCCESS is true: the database exists after has_db and create_db, and
\* for the other commands it was opened and the method, if there is one, has a
\* result.
SuccessMeansDone ==
    exit = "SUCCESS" /\ ~line.help =>
        \E o \in called :
            /\ Serves(o)
            /\ Uuid[o] \in UNION {exists[s] : s \in Swarms}
            /\ line.command \notin {"has_db", "create_db"} => got[o].result = 1
            /\ line.command \in DOMAIN MethodOf =>
                    \E c \in Calls : method[c] = MethodOf[line.command] /\ D!Completed(c)

\* The program ends, unless the registry is read forever, a handler throws, or the
\* call main is blocked in may wait: for a swarm that sends no status, or because
\* of a request db_dispatch has dropped.
ProgramEnds ==
    <>[](pc \in {"exited", "initialize"} \/ thrown \/ \E x \in client : MayWait(x))
=============================================================================
