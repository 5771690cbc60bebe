------------------------------ MODULE CommandLine ------------------------------
(***************************************************************************)
(* The command line of next-loggers (src/cli/argv.ts, src/cli/main.ts) as  *)
(* far as the options of the library (src/config.ts): parseArgv() turns    *)
(* the arguments into environment variables, main() adds the declared      *)
(* defaults and writes them to the environment, and loadNextLoggerConfig() *)
(* lays that over the config file. A user writes arguments one after       *)
(* another, in any spelling, and means something by each; the parser reads *)
(* them from left to right and looks one argument ahead. So an argument    *)
(* may be forgotten once it has been read.                                 *)
(*                                                                         *)
(* A flag is a record: its scope ("global" or a command), long name, short *)
(* letter, type, environment variable and default. Left out: the types     *)
(* that no flag of src/cli/spec.ts has (integer, float, json, map),        *)
(* --version, which is as --help, the rendering of the help, the search    *)
(* for the config file, and the options that come from several variables.  *)
(***************************************************************************)
EXTENDS Naturals, SequencesExt

CONSTANTS
  Flags, Commands,
  Texts, Dashed,          \* what values and words may be; values that look like an option
  BoolWords,              \* words of a boolean -> "true", "false"
  Lists, Malformed,       \* texts that are JSON arrays -> their items; that look like one
  Usable,                 \* library options: variable -> the values it accepts
  Environments, Files,    \* what process.env and the config file may have
  MaxArguments            \* bound: arguments of a command line

VARIABLES
  unread, arguments, finished,
  ended, dangling,        \* the user wrote "--"; a flag that waits for its value
  meant,                  \* what the user means; "said" are the values of a variable
  result, sawTerminator,  \* parseArgv
  inherited, file,        \* process.env at the start, and the config file
  outcome, environment, loaded

writing == <<unread, arguments, finished, ended, dangling, meant>>
reading == <<result, sawTerminator>>
effect == <<inherited, file, outcome, environment, loaded>>
vars == <<writing, reading, effect>>

(* ParseResult. "lists" has the repeatable flags, errors are counted.      *)
Parsed == [command |-> "none", env |-> <<>>, lists |-> <<>>, positionals |-> <<>>,
           errors |-> 0, help |-> FALSE]

Init ==
  /\ unread = <<>> /\ arguments = 0 /\ finished = FALSE /\ ended = FALSE /\ dangling = FALSE
  /\ meant = [command |-> "none", said |-> <<>>, positionals |-> <<>>, errors |-> 0, help |-> FALSE]
  /\ result = Parsed /\ sawTerminator = FALSE
  /\ inherited = <<>> /\ file = <<>> /\ outcome = "none" /\ environment = <<>> /\ loaded = <<>>

-----------------------------------------------------------------------------
(* Arguments: a word, --name, --no-name, --name=value, -letters with a     *)
(* value glued to them or after "=", and the two that stand for themselves.*)
Word(t) == [is |-> "word", text |-> t]
Long(n, no, v) == [is |-> "long", name |-> n, no |-> no, value |-> v]
Short(letters, v) == [is |-> "short", letters |-> letters, value |-> v]
Terminator == [is |-> "--"]
Help == [is |-> "--help"]

(* flagsInScope, matchLong and matchShort: a command's own flags come first. *)
InScope(command) ==
  {f \in Flags : \/ f.scope = command
                 \/ f.scope = "global" /\ ~\E g \in Flags : g.scope = command /\ g.name = f.name}
MatchLong(command, n) == {f \in InScope(command) : f.name = n}
MatchShort(command, l) == {f \in InScope(command) : f.short = l}

Put(m, key, v) == (key :> v) @@ m
Error(r) == [r EXCEPT !.errors = @ + 1]
Switch(r, f, word) == [r EXCEPT !.env = Put(@, f.env, word)]
Items(t) == IF t \in DOMAIN Lists THEN Lists[t] ELSE <<t>>
Collected(r, f) == IF f.env \in DOMAIN r.lists THEN r.lists[f.env] ELSE <<>>

(* validate *)
Valid(f, t) == (f.type = "bool" => t \in DOMAIN BoolWords) /\ (f.type = "array" => t \notin Malformed)

(* setValue, with normalizeBool. *)
SetValue(r, f, t) ==
  CASE ~Valid(f, t) -> Error(r)
    [] Valid(f, t) /\ f.type = "bool" -> Switch(r, f, BoolWords[t])
    [] Valid(f, t) /\ f.type = "array" -> [r EXCEPT !.lists = Put(@, f.env, Collected(r, f) \o Items(t))]
    [] OTHER -> [r EXCEPT !.env = Put(@, f.env, t)]

-----------------------------------------------------------------------------
(* What the user may write, and means by it.                               *)
Said(m, v) == IF v \in DOMAIN m.said THEN m.said[v] ELSE <<>>
Say(f, t) ==
  IF (f.type = "bool" /\ t \notin DOMAIN BoolWords) \/ (f.type = "array" /\ t \in Malformed) THEN Error(meant)
  ELSE [meant EXCEPT !.said = Put(@, f.env, Append(Said(meant, f.env), t))]

Write(tokens, m) ==
  /\ ~finished /\ Len(unread) < 2
  /\ arguments + Len(tokens) <= MaxArguments
  /\ dangling => tokens[1].is # "word"
  /\ unread' = unread \o tokens /\ arguments' = arguments + Len(tokens)
  /\ meant' = m
  /\ UNCHANGED <<finished, reading, effect>>

Keeps == UNCHANGED <<ended, dangling>>
Plain == ~ended /\ dangling' = FALSE /\ UNCHANGED ended

(* A value, behind the flag, glued to its letter, after "=", or next. *)
WriteValue(f, t) ==
  /\ Plain
  /\ \/ Write(<<Long(f.name, FALSE, <<t>>)>>, Say(f, t))
     \/ f.short # "none" /\ Write(<<Short(<<f.short>>, <<t>>)>>, Say(f, t))
     \/ /\ f.type # "bool" /\ t \notin Dashed
        /\ \/ Write(<<Long(f.name, FALSE, <<>>), Word(t)>>, Say(f, t))
           \/ f.short # "none" /\ Write(<<Short(<<f.short>>, <<>>), Word(t)>>, Say(f, t))

WriteSwitch(f) ==
  /\ Plain /\ f.type = "bool"
  /\ \/ Write(<<Long(f.name, FALSE, <<>>)>>, Say(f, "yes"))
     \/ Write(<<Long(f.name, TRUE, <<>>)>>, Say(f, "off"))
     \/ f.short # "none" /\ \E n \in {1, 2} :
          Write(<<Short([i \in 1..n |-> f.short], <<>>)>>, Say(f, "yes"))

(* A flag that is not known here, the negation of a flag with a value, or  *)
(* letters that are not all switches, is one mistake; so is a flag without *)
(* its value, before another option or at the end.                         *)
WriteMistake(f) ==
  /\ ~ended /\ UNCHANGED ended
  /\ \/ f \notin InScope(meant.command) /\ MatchLong(meant.command, f.name) = {}
        /\ dangling' = FALSE /\ Write(<<Long(f.name, FALSE, <<>>)>>, Error(meant))
     \/ /\ f \in InScope(meant.command) /\ f.type # "bool"
        /\ \/ dangling' = TRUE /\ Write(<<Long(f.name, FALSE, <<>>)>>, Error(meant))
           \/ dangling' = TRUE /\ f.short # "none" /\ Write(<<Short(<<f.short>>, <<>>)>>, Error(meant))
           \/ dangling' = FALSE /\ Write(<<Long(f.name, TRUE, <<>>)>>, Error(meant))
           \/ \E g \in InScope(meant.command) :
                /\ f.short # "none" /\ g.short # "none" /\ g.type = "bool"
                /\ dangling' = FALSE /\ Write(<<Short(<<g.short, f.short>>, <<>>)>>, Error(meant))

(* The first word that names a command selects it. *)
WriteWord(t) ==
  /\ Keeps
  /\ Write(<<Word(t)>>,
       IF ~ended /\ t \in Commands /\ meant.command = "none" THEN [meant EXCEPT !.command = t]
       ELSE [meant EXCEPT !.positionals = Append(@, Word(t))])

WriteMark ==
  \/ Plain /\ Write(<<Help>>, [meant EXCEPT !.help = TRUE])
  \/ ~ended /\ ended' = TRUE /\ dangling' = FALSE /\ Write(<<Terminator>>, meant)
  \/ \E token \in {Help, Terminator} :
       ended /\ Keeps /\ Write(<<token>>, [meant EXCEPT !.positionals = Append(@, token)])

Finish ==
  /\ ~finished /\ finished' = TRUE
  /\ UNCHANGED <<unread, arguments, ended, dangling, meant, reading, effect>>

-----------------------------------------------------------------------------
(* parseArgv: a round of its loop. *)
Token == unread[1]
Read(n, r) ==
  /\ unread' = SubSeq(unread, n + 1, Len(unread)) /\ result' = r
  /\ UNCHANGED <<arguments, finished, ended, dangling, meant, sawTerminator, effect>>

Reading == Len(unread) > 1 \/ (finished /\ unread # <<>>)

ReadTerminated ==
  /\ Reading /\ sawTerminator
  /\ Read(1, [result EXCEPT !.positionals = Append(@, Token)])

ReadTerminator ==
  /\ Reading /\ ~sawTerminator /\ Token = Terminator
  /\ sawTerminator' = TRUE /\ unread' = Tail(unread)
  /\ UNCHANGED <<arguments, finished, ended, dangling, meant, result, effect>>

ReadHelp ==
  /\ Reading /\ ~sawTerminator /\ Token = Help
  /\ Read(1, [result EXCEPT !.help = TRUE])

AcceptsAnyValue == Len(unread) > 1       \* a slip: an option is taken for a value

AcceptsSeparatedValue == Len(unread) > 1 /\ unread[2].is = "word"

(* A flag without a value of its own. *)
ReadBare(f) ==
  \/ f.type = "bool" /\ Read(1, Switch(result, f, "true"))
  \/ f.type # "bool" /\ AcceptsSeparatedValue
     /\ Read(2, SetValue(result, f, IF unread[2].is = "word" THEN unread[2].text ELSE "an option"))
  \/ f.type # "bool" /\ ~AcceptsSeparatedValue /\ Read(1, Error(result))

ReadLong ==
  /\ Reading /\ ~sawTerminator /\ Token.is = "long"
  /\ LET matches == MatchLong(result.command, Token.name) IN
       \/ /\ Token.no \/ matches = {}
          /\ \/ \E f \in matches : f.type = "bool" /\ Read(1, Switch(result, f, "false"))
             \/ (\A f \in matches : f.type # "bool") /\ Read(1, Error(result))
       \/ /\ ~Token.no
          /\ \E f \in matches :
               \/ Token.value # <<>> /\ Read(1, SetValue(result, f, Token.value[1]))
               \/ Token.value = <<>> /\ ReadBare(f)

(* A bundle if every letter is a switch, else the rest is the value. *)
ReadShort ==
  /\ Reading /\ ~sawTerminator /\ Token.is = "short"
  /\ LET more == Tail(Token.letters)
         switches == \A i \in DOMAIN Token.letters :
                       \E g \in MatchShort(result.command, Token.letters[i]) : g.type = "bool"
     IN \/ MatchShort(result.command, Token.letters[1]) = {} /\ Read(1, Error(result))
        \/ \E f \in MatchShort(result.command, Token.letters[1]) :
             \/ Token.value # <<>> /\ Read(1, SetValue(result, f, Token.value[1]))
             \/ Token.value = <<>> /\ more = <<>> /\ ReadBare(f)
             \/ /\ more # <<>> /\ switches
                /\ \E g \in MatchShort(result.command, more[1]) :
                     Read(1, Switch(Switch(result, f, "true"), g, "true"))
             \/ more # <<>> /\ ~switches /\ Read(1, SetValue(result, f, more[1]))

ReadWord ==
  /\ Reading /\ ~sawTerminator /\ Token.is = "word"
  /\ Read(1, IF result.command = "none" /\ Token.text \in Commands
             THEN [result EXCEPT !.command = Token.text]
             ELSE [result EXCEPT !.positionals = Append(@, Token)])

-----------------------------------------------------------------------------
DefaultsFirst(flags, parsed, env) ==       \* a slip: a default outranks the environment
  LET absent == {f \in flags : f.default # "none" /\ f.env \notin DOMAIN parsed}
  IN parsed @@ [v \in {f.env : f \in absent} |-> (CHOOSE f \in absent : f.env = v).default]

ApplyDefaults(flags, parsed, env) ==
  LET absent == {f \in flags : f.default # "none" /\ f.env \notin DOMAIN parsed \cup DOMAIN env}
  IN parsed @@ [v \in {f.env : f \in absent} |-> (CHOOSE f \in absent : f.env = v).default]

(* envToLoggerOptions: a variable that is empty or not understood is none. *)
EnvToLoggerOptions(env) ==
  [v \in {w \in DOMAIN env \cap DOMAIN Usable : env[w] \in Usable[w]} |-> env[v]]

(* loadNextLoggerConfig *)
LoadNextLoggerConfig(env, config) == EnvToLoggerOptions(env) @@ config

(* main, and the command that loads the configuration. *)
Main ==
  /\ finished /\ unread = <<>> /\ outcome = "none"
  /\ inherited' \in Environments /\ file' \in Files
  /\ outcome' = CASE result.help -> "help"
                  [] ~result.help /\ (result.errors > 0 \/ (result.command = "none" /\ result.positionals # <<>>)) -> "usage"
                  [] ~result.help /\ result.errors = 0 /\ result.command = "none" /\ result.positionals = <<>> -> "help"
                  [] OTHER -> "run"
  /\ environment' = IF outcome' = "run"
                    THEN ApplyDefaults({f \in Flags : f.scope \in {"global", result.command}}, result.env, inherited') @@ inherited'
                    ELSE inherited'
  /\ loaded' = LoadNextLoggerConfig(environment', file')
  /\ UNCHANGED <<writing, reading>>

Next ==
  \/ \E f \in InScope(meant.command), t \in Texts : WriteValue(f, t)
  \/ \E f \in InScope(meant.command) : WriteSwitch(f)
  \/ \E f \in Flags : WriteMistake(f)
  \/ \E t \in Texts \ Dashed : WriteWord(t)
  \/ WriteMark \/ Finish
  \/ ReadTerminated \/ ReadTerminator \/ ReadHelp \/ ReadLong \/ ReadShort \/ ReadWord
  \/ Main

Spec == Init /\ [][Next]_vars

-----------------------------------------------------------------------------
(* The last value said counts. *)
Meaning(v) ==
  LET t == Last(Said(meant, v)) IN
    IF \E f \in Flags : f.env = v /\ f.type = "bool" THEN BoolWords[t] ELSE t

(* However the arguments are spelled and combined, the parser reads what   *)
(* the user means: no value takes an option, a scope holds from its        *)
(* command on, a mistake is one error. Only a command that runs changes    *)
(* the environment; there a flag beats the environment, which beats the    *)
(* declared default, and what the library makes of it beats the config     *)
(* file (src/cli/argv.ts:116-321, src/cli/main.ts:36-71,                   *)
(* src/config.ts:70-121, 191-203).                                         *)
CommandLineIsRead ==
  /\ (finished /\ unread = <<>>) =>
       /\ \A part \in {"command", "positionals", "errors", "help"} : result[part] = meant[part]
       /\ DOMAIN meant.said = DOMAIN result.env \cup DOMAIN result.lists
       /\ \A v \in DOMAIN result.env : result.env[v] = Meaning(v)
       /\ \A v \in DOMAIN result.lists :
            result.lists[v] = FlattenSeq([i \in DOMAIN Said(meant, v) |-> Items(Said(meant, v)[i])])
  /\ outcome # "none" =>
       LET runs == ~meant.help /\ meant.errors = 0 /\ meant.command # "none" IN
         /\ (outcome = "run") = runs
         /\ ~runs => environment = inherited
         /\ \A f \in Flags :
              runs /\ f.scope \in {"global", meant.command} /\ f.type # "array" =>
                IF f.env \in DOMAIN meant.said THEN environment[f.env] = Meaning(f.env)
                ELSE IF f.env \in DOMAIN inherited THEN environment[f.env] = inherited[f.env]
                ELSE IF f.default # "none" THEN environment[f.env] = f.default
                ELSE f.env \notin DOMAIN environment
         /\ \A v \in DOMAIN Usable :
              LET set == IF runs /\ v \in DOMAIN meant.said THEN <<Meaning(v)>>
                         ELSE IF v \in DOMAIN inherited THEN <<inherited[v]>> ELSE <<>>
              IN IF set # <<>> /\ set[1] \in Usable[v] THEN loaded[v] = set[1]
                 ELSE v \in DOMAIN loaded <=> v \in DOMAIN file /\ loaded[v] = file[v]
=============================================================================
