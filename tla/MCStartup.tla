----------------------------- MODULE MCStartup -----------------------------
(***************************************************************************)
(* An instance of Startup for TLC: commands that agree, disagree, repeat   *)
(* themselves or make no sense on their two sources.                       *)
(***************************************************************************)
EXTENDS Startup, TLC

Symmetry == Permutations(Procs)

Target     == [name |-> "target", value |-> "host:9876"]
Foreground == [name |-> "foreground", value |-> ""]
ConfigFile == [name |-> "config-file", value |-> "wmr.conf"]
Help       == [name |-> "help", value |-> ""]
DbPath(v)  == [name |-> "db-path", value |-> v]
Malformed  == [name |-> "malformed", value |-> ""]
Surplus    == [name |-> "surplus", value |-> ""]
Unknown    == [name |-> "unknown", value |-> ""]

Debug(flags) == [name |-> "debug", value |-> flags]
Flag(flag, to) == [flag |-> flag, to |-> to]

Debugs == {Debug(<<>>), Debug(<<Flag("none", "")>>), Debug(<<Flag("all", "")>>),
           Debug(<<Flag("all", "x")>>),
           Debug(<<Flag("all", ""), Flag("message", "x"), Flag("data", "")>>),
           Debug(<<Flag("io", "x"), Flag("message", "")>>),
           Debug(<<Flag("message", "x"), Flag("io", ""), Flag("all", "")>>),
           Debug(<<Flag("message", "x"), Flag("message", "y")>>),
           Debug(<<Flag("data", "x"), Flag("data", "stderr"), Flag("stats", ""),
                   Flag("message", "x")>>)}

OnLine == {Debug(<<Flag("message", "x"), Flag("data", "")>>), DbPath("none"),
           Help, Foreground, Malformed, Surplus, Unknown, Target} \union Debugs

InFile == {DbPath("server"), DbPath("none"), Malformed, Unknown, Target, Help}
          \union Debugs

MCPlainCommands == {[args |-> <<Target>>, file |-> <<>>],
                    [args |-> <<Target, Foreground>>, file |-> <<>>]}

MCCommands ==
    MCPlainCommands
    \union {[args |-> <<>>, file |-> <<>>], [args |-> <<ConfigFile>>, file |-> <<>>]}
    \union {[args |-> <<Target, a>>, file |-> <<>>] : a \in OnLine}
    \union {[args |-> <<Target, a, b>>, file |-> <<>>] : a, b \in OnLine}
    \union {[args |-> <<Target, ConfigFile>>, file |-> <<f, g>>] : f, g \in InFile}
    \union {[args |-> <<Target, ConfigFile, a>>, file |-> <<f>>] :
               a \in OnLine, f \in InFile}
=============================================================================
