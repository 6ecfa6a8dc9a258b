------------------------------ MODULE Options ------------------------------
(***************************************************************************)
(* The options of the collector: Options::parse over its command line and  *)
(* the configuration file that one may name, and the debug streams that    *)
(* come of it.  How boost::program_options stores what it finds is         *)
(* modelled as far as this program uses it.                                *)
(*                                                                         *)
(* A command is [args, file]: what stands on the command line and in the   *)
(* file, each a sequence of [name, value]; a file that is not there reads  *)
(* like an empty one.  The name "malformed" stands for an option without   *)
(* its argument and for a line without "=", "surplus" for a second target. *)
(* The value of "debug" is a sequence of [flag, to], what stands between   *)
(* its commas, to being the file behind "=" or "" if there is none.        *)
(***************************************************************************)
EXTENDS Integers, FiniteSets, FiniteSetsExt, SequencesExt

general == {"help", "debug"}
daemonOptions == {"pid-file", "foreground", "config-file"}
db      == {"db-path", "db-user", "db-pass"}
hidden  == {"target"}

options       == general \union daemonOptions \union db \union hidden
configOptions == general \union db

-----------------------------------------------------------------------------
(* boost::program_options.  variables maps the options that were given to  *)
(* their values.                                                           *)

Names(args) == {arg.name : arg \in ToSet(args)}

Times(args, name) == Cardinality({i \in DOMAIN args : args[i].name = name})

(* An option keeps the value that was stored first and ignores the others  *)
(* later, but for the composing ones, for which a second value is an error.*)
Final(variables) == DOMAIN variables \ db

(* The first thing that cannot be parsed decides about the error.          *)
ParseError(args, allowed) ==
    LET bad == {i \in DOMAIN args : args[i].name \notin allowed \union {"surplus"}}
    IN IF bad # {} THEN {args[Min(bad)].name}
       ELSE Names(args) \intersect {"surplus"}

(* Mutant: a second value is only noticed in the same source.              *)
MultipleOccurrencesHere(args, variables) ==
    \E name \in Names(args) \ Final(variables) : Times(args, name) > 1

MultipleOccurrences(args, variables) ==
    \E name \in Names(args) \ Final(variables) :
        Times(args, name) > 1 \/ name \in DOMAIN variables

ValueIn(args, name) == (CHOOSE arg \in ToSet(args) : arg.name = name).value

Store(variables, args) ==
    [name \in DOMAIN variables \union Names(args) |->
        IF name \in DOMAIN variables THEN variables[name] ELSE ValueIn(args, name)]

Nothing == [name \in {} |-> ""]

-----------------------------------------------------------------------------
(* DebugStream: whether it is active, where it goes, and the file its      *)
(* filebuf has open.                                                       *)

DebugStreams == {"io", "message", "data"}

(* The name of a file is a sequence: empty for none, and longer than one   *)
(* where the name goes on behind a comma.                                  *)
File(item) == IF item.to = "" THEN <<>> ELSE <<item.to>>

Stdout == <<"stdout">>
Stderr == <<"stderr">>

reset == [m_active |-> FALSE, rdbuf |-> Stdout, m_fileBuf |-> <<>>]

(* A filebuf that is open refuses to open another file.                    *)
setFile(stream, file) ==
    LET opened == IF stream.m_fileBuf = <<>> THEN file ELSE stream.m_fileBuf IN
    CASE file = <<>>               -> [stream EXCEPT !.m_active = TRUE]
      [] file \in {Stdout, Stderr} -> [stream EXCEPT !.m_active = TRUE, !.rdbuf = file]
      [] OTHER -> [m_active |-> TRUE, rdbuf |-> opened, m_fileBuf |-> opened]

Default == <<[flag |-> "none", to |-> ""]>>

(* The stream a flag names: "io" only without a file, for it is compared   *)
(* with more characters than it has.  The others are ignored.              *)
ModuleOf(item) ==
    CASE item.flag = "io" /\ item.to = "" -> {"io"}
      [] item.flag = "message"            -> {"message"}
      [] item.flag = "data"               -> {"data"}
      [] OTHER                            -> {}

(* Mutant: a file is kept for the items behind it.                         *)
SetStreamsCarrying(flags) ==
    LET files(i) == {j \in 1..i : flags[j].to # ""}
        file(i)  == IF files(i) = {} THEN <<>> ELSE File(flags[Max(files(i))])
        stream[i \in 0..Len(flags)] ==
            IF i = 0 THEN [module \in DebugStreams |-> reset]
            ELSE [module \in DebugStreams |->
                     IF module \in ModuleOf(flags[i])
                     THEN setFile(stream[i - 1][module], file(i)) ELSE stream[i - 1][module]]
    IN stream[Len(flags)]

(* The stream of a module after all items that name it, in their order.    *)
After(module, flags) ==
    LET stream[i \in 0..Len(flags)] ==
            IF i = 0 THEN reset
            ELSE IF module \in ModuleOf(flags[i]) THEN setFile(stream[i - 1], File(flags[i]))
            ELSE stream[i - 1]
    IN stream[Len(flags)]

(* A value that begins with "all" is not cut at its commas: its file is    *)
(* all that stands behind the first "=" in it.                             *)
BeginsWithAll(flags) == flags # <<>> /\ flags[1].flag = "all"

RestOf(flags) ==
    LET named == {i \in DOMAIN flags : flags[i].to # ""}
    IN IF named = {} THEN <<>>
       ELSE File(flags[Min(named)]) \o SubSeq(flags, Min(named) + 1, Len(flags))

(* What the value of "debug" makes of the streams.  "all" behind another   *)
(* item is a word like any that is not known.                              *)
SetStreams(flags) ==
    [module \in DebugStreams |->
        CASE flags = Default      -> reset
          [] BeginsWithAll(flags) -> setFile(reset, RestOf(flags))
          [] OTHER                -> After(module, flags)]

-----------------------------------------------------------------------------

Config(command) ==
    IF "config-file" \in Names(command.args) THEN command.file ELSE <<>>

(* unknown_option and multiple_occurrences are caught, other errors are    *)
(* not and end the program.                                                *)
Caught   == [result |-> "ParseFailure"]
Uncaught == [result |-> "terminate"]

Failure(errors) ==
    IF errors \subseteq {"malformed", "surplus"} THEN Uncaught ELSE Caught

(* What parse returns, and what it leaves in the members of Options.       *)
parse(command) ==
    LET args   == command.args
        config == Config(command)
        given  == Store(Nothing, args)
        all    == Store(given, config)
    IN CASE ParseError(args, options) # {} -> Failure(ParseError(args, options))
         [] MultipleOccurrences(args, Nothing) -> Caught
         [] ParseError(config, configOptions) # {} ->
                Failure(ParseError(config, configOptions))
         [] MultipleOccurrences(config, given) -> Caught
         [] "help" \in DOMAIN all -> [result |-> "CloseAfterParse"]
         [] "target" \notin DOMAIN all -> Caught
         [] OTHER ->
              [result         |-> "ParseSuccess",
               m_daemonize    |-> "foreground" \notin DOMAIN all,
               m_db           |-> [name \in db |-> IF name \in DOMAIN all
                                                   THEN all[name] ELSE ""],
               m_debugStreams |-> SetStreams(IF "debug" \in DOMAIN all
                                             THEN all["debug"] ELSE Default)]
=============================================================================
