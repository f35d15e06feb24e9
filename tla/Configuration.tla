---------------------------- MODULE Configuration ----------------------------
(***************************************************************************)
(* What VMICore starts with (vmicore/src/Cmdline.cpp,                      *)
(* lib/config/ConfigYAMLParser.cpp, main.cpp, rust_src/src/logging.rs).    *)
(*                                                                         *)
(* A configuration file is a function from the keys that it has, a command *)
(* line one from the options that it sets, and the arguments for plugins,  *)
(* each split at its first colon.                                          *)
(***************************************************************************)
EXTENDS Naturals, Sequences

CONSTANTS
    CommandLines,  \* each [options, plugins]
    ConfigFiles

Required == {"results_directory", "log_level", "vm.name", "vm.offsets_file", "plugin_system.directory"}
Keys     == Required \cup {"vm.socket"}
Options  == {"results_directory", "log_level", "vm.name", "vm.socket"}

LogLevels == {"debug", "info", "warning", "error"}
Rank(l) == CASE l = "debug" -> 0 [] l = "info" -> 1 [] l = "warning" -> 2 [] l = "error" -> 3

ASSUME ConfigurationAssumption ==
    /\ \A line \in CommandLines : DOMAIN line.options \subseteq Options
    /\ \A file \in ConfigFiles : DOMAIN file \subseteq Keys

\* An argument for a plugin without a colon
Malformed(argument) == Len(argument) = 1

\* convertPluginArgValuesToArgVectors keeps one vector of arguments per plugin.
NamedTwice(line) ==
    \E i, j \in DOMAIN line.plugins : i # j /\ line.plugins[i][1] = line.plugins[j][1]

parse(line) ==
    IF NamedTwice(line) \/ \E i \in DOMAIN line.plugins : Malformed(line.plugins[i]) THEN "throws" ELSE "ok"

extractConfiguration(file) == IF Required \subseteq DOMAIN file THEN "ok" ELSE "throws"

\* What the getters return after main has called the setters: the command line counts more than the
\* file, and a socket that neither has is empty.
Value(key, line, file) ==
    IF key \in DOMAIN line.options THEN line.options[key]
    ELSE IF key \in DOMAIN file THEN file[key]
    ELSE ""

convert_to_log_level(text) == IF text \in LogLevels THEN text ELSE "throws"

\* The exit code of the setup.  The setters do not help a file that lacks a key, and an unknown log
\* level is an error of Rust, which main leaves with 2.
SetupCode(line, file) ==
    IF parse(line) = "throws" \/ extractConfiguration(file) = "throws" THEN 1
    ELSE IF convert_to_log_level(Value("log_level", line, file)) = "throws" THEN 2
    ELSE 0
=============================================================================
