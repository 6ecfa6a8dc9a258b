------------------------------ MODULE Startup ------------------------------
(***************************************************************************)
(* The start and the end of both programs, as far as they happen outside   *)
(* of their loops: instances of the collector, or of the forwarder, that   *)
(* are started, stopped and killed on one pidfile, each instance of the    *)
(* collector with a command of its own, whose options decide what main     *)
(* does.                                                                   *)
(***************************************************************************)
EXTENDS ForwarderPidFile, Options

CONSTANTS Commands,      \* what a user may type
          PlainCommands  \* what is enough when others run already

ASSUME StartupAssumption ==
    /\ PlainCommands \subseteq Commands
    /\ \A command \in Commands : /\ command.args \in Seq(ToSet(command.args))
                                 /\ command.file \in Seq(ToSet(command.file))
                                 /\ \A arg \in ToSet(command.args) \union ToSet(command.file) :
                                       arg.name = "debug" => arg.value \in Seq(ToSet(arg.value))

VARIABLES
    typed,  \* the command that is being obeyed, NoCommand a step later
    parsed  \* what parse made of it

startVars == <<typed, parsed>>
NoCommand == [args |-> <<>>, file |-> <<>>]
NoOptions == [result |-> "none"]

StartupInit ==
    /\ ForwarderInit
    /\ typed = NoCommand /\ parsed = NoOptions

(* main of the collector up to the first thing that others can see.        *)
StartCollector(p, command) ==
    /\ pc[p] = "unborn"
    /\ typed' = command
    /\ parsed' = parse(command)
    /\ IF parsed'.result = "ParseSuccess"
       THEN Start(p, parsed'.m_daemonize)
       ELSE Goto(p, "unborn", "gone") /\ UNCHANGED <<m_fd, pidf, path, files, content, lock>>

Idle == \A p \in Procs : pc[p] = "unborn"

StartupNext ==
    \/ /\ program = "collector"
       /\ \E p \in Procs, command \in IF Idle THEN Commands ELSE PlainCommands :
             StartCollector(p, command)
       /\ UNCHANGED <<program, scriptVars, unlocked>>
    \/ /\ program = "collector"
       /\ Collector
       /\ typed' = NoCommand /\ parsed' = NoOptions
       /\ UNCHANGED <<program, scriptVars, unlocked>>
    \/ /\ program = "forwarder"
       /\ Forwarder
       /\ UNCHANGED <<program, scriptVars, startVars>>
    \/ /\ program = "forwarder"
       /\ Stop
       /\ UNCHANGED <<program, unlocked, startVars>>

StartupSpec ==
    StartupInit /\ [][StartupNext]_<<vars, program, scriptVars, unlocked, startVars>>

-----------------------------------------------------------------------------

StartupTypeOK == IF program = "collector" THEN TypeOK ELSE ForwarderTypeOK

Said(name) ==
    LET given == typed.args \o Config(typed)
    IN {given[i].value : i \in {j \in DOMAIN given : given[j].name = name}}

(* No value that a user has written is dropped without a word: a database  *)
(* option that stands on the command line and in the file, or twice, is    *)
(* refused, and of all that is accepted only the debug flags of the file   *)
(* give way, to those of the command line (Options.cpp:102-118, 135-179).  *)
OptionsAsGiven ==
    parsed.result = "ParseSuccess" =>
        /\ \A name \in db :
              /\ Said(name) \subseteq {parsed.m_db[name]}
              /\ Said(name) = {} => parsed.m_db[name] = ""
              /\ Times(typed.args \o Config(typed), name) =< 1
        /\ parsed.m_daemonize <=> Said("foreground") = {}
        /\ Said("help") = {} /\ Said("target") # {}

(* The items of the value that counts.                                     *)
DebugFlags ==
    CASE "debug" \in Names(typed.args) -> ValueIn(typed.args, "debug")
      [] "debug" \in Names(Config(typed)) /\ "debug" \notin Names(typed.args) ->
             ValueIn(Config(typed), "debug")
      [] OTHER -> <<>>

(* The items that name a stream, by itself or with all others.             *)
Asking(module, flags) == {i \in DOMAIN flags : flags[i].flag \in {module, "all"}}

FilesFor(module, flags) == {File(flags[i]) : i \in Asking(module, flags)} \ {<<>>}

(* No debug stream is on that nobody asked for, one that is named without  *)
(* a file is on wherever its name stands, and of the values that do not    *)
(* begin with "all" none makes a stream write to a file that was not named *)
(* for it: not to one of another item, and not to one of the source that   *)
(* gave way (Options.cpp:135-176, Options.h:34-47).                        *)
StreamsOnlyAsAsked ==
    parsed.result = "ParseSuccess" =>
        \A module \in DebugStreams :
            LET stream == parsed.m_debugStreams[module] IN
            /\ stream.m_active => Asking(module, DebugFlags) # {}
            /\ [flag |-> module, to |-> ""] \in ToSet(DebugFlags) => stream.m_active
            /\ ~BeginsWithAll(DebugFlags) =>
                  stream.rdbuf \in FilesFor(module, DebugFlags) \union {Stdout}
=============================================================================
