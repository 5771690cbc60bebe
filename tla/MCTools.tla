------------------------------- MODULE MCTools --------------------------------
(* The serialization of what is logged, and the repository's tools: the lint *)
(* rules, the scanner of other languages and the command line. Parts that    *)
(* share no state, so one of them runs in a behaviour and the others stay as *)
(* they begin.                                                               *)
EXTENDS Integers, TLC

CONSTANTS
  Nodes, Root, Leaves, Keys, RedactKeys, MaxDepth, MaxArrayLength, MaxProperties, MaxEntries, MaxTotal,
  Names, Imported, MaxStatements,
  Locals, MaxLines,
  Commands, Texts, Dashed, Malformed, MaxArguments

VARIABLES
  part,
  kind, entries,
  origin, knownLoggers, knownFactories, scopes, reports, holds, built, evaded, statements, returned,
  language, scopeStack, findings, variables, chains, rebound, lines, atEnd,
  unread, arguments, finished, ended, dangling, meant, result, sawTerminator,
  inherited, file, outcome, environment, loaded

graphVars == <<kind, entries>>
lintVars == <<origin, knownLoggers, knownFactories, scopes, reports, holds, built, evaded, statements, returned>>
scanVars == <<language, scopeStack, findings, variables, chains, rebound, lines, atEnd>>
cliVars == <<unread, arguments, finished, ended, dangling, meant, result, sawTerminator,
             inherited, file, outcome, environment, loaded>>
toolVars == <<lintVars, scanVars, cliVars>>
vars == <<part, graphVars, toolVars>>

(* Flags of src/cli/spec.ts; two have the same name in different scopes. *)
Flag(scope, flag, short, type, env, default) ==
  [scope |-> scope, name |-> flag, short |-> short, type |-> type, env |-> env, default |-> default]
Flags == {Flag("global", "logger-name", "none", "string", "NAME", "none"),
          Flag("global", "max-level", "L", "string", "MAX_LEVEL", "none"),
          Flag("global", "quiet", "q", "bool", "QUIET", "false"),
          Flag("lint", "logger-name", "none", "array", "LINT_NAMES", "none"),
          Flag("lint", "all", "none", "bool", "LINT_ALL", "false")}
BoolWords == ("yes" :> "true") @@ ("off" :> "false")
Lists == "[x,y]" :> <<"x", "y">>
Usable == ("NAME" :> Texts \ {""}) @@ ("MAX_LEVEL" :> {"warn"})
Environments == {<<>>, ("MAX_LEVEL" :> "warn") @@ ("QUIET" :> "yes"), ("NAME" :> "") @@ ("MAX_LEVEL" :> "loud")}
Files == {<<>>, ("MAX_LEVEL" :> "error") @@ ("NAME" :> "file")}

G == INSTANCE Serialization
L == INSTANCE RequireSend
S == INSTANCE SendScanner
A == INSTANCE CommandLine

Some(p, set, value) == IF part = p THEN set ELSE {value}

Init ==
  /\ part \in {"values", "lint", "scan", "cli"}
  /\ kind \in Some("values", [Nodes -> G!Kinds], [n \in Nodes |-> "object"]) /\ G!Init
  /\ origin \in Some("lint", {"import", "require"}, "import") /\ L!Init
  /\ part # "lint" => L!Held(Imported) = L!Logger
  /\ language \in Some("scan", S!Languages, "rust") /\ S!Init
  /\ A!Init

Next ==
  /\ UNCHANGED part
  /\ \/ part = "values" /\ G!Next /\ UNCHANGED toolVars
     \/ /\ UNCHANGED graphVars
        /\ \/ part = "lint" /\ L!Next /\ UNCHANGED <<scanVars, cliVars>>
           \/ part = "scan" /\ S!Next /\ UNCHANGED <<lintVars, cliVars>>
           \/ part = "cli" /\ A!Next /\ UNCHANGED <<lintVars, scanVars>>

Spec == Init /\ [][Next]_vars

-----------------------------------------------------------------------------
(* Serialization shows a value exactly if the logged object leads to it     *)
(* without passing a redacted key; only a cycle is called circular; and a   *)
(* getter that throws takes only its own property with it                   *)
(* (src/base-logger.ts:347-506).                                            *)
ShowsExactlyThePlain == G!ShowsExactlyThePlain /\ G!CircularIsACycle /\ G!PoisonIsContained

(* The lint rules report the events that are neither sent nor handed on,    *)
(* and no others (src/eslint-plugin.ts:361-386,                             *)
(* .ores-lint/eslint/plugin.mjs:127-290). So does the scanner of the        *)
(* languages ESLint cannot parse, whatever blocks the names are in          *)
(* (.ores-lint/require-send.mjs:297-401).                                   *)
ReportsTheUnsent == L!ReportsTheUnsent /\ S!ScannerFindsTheUnsent

(* Arguments are read as they are meant, and beat the environment, which    *)
(* beats a default, and the config file (src/cli/argv.ts:116-321,           *)
(* src/cli/main.ts:36-71, src/config.ts:70-121, 191-203).                   *)
CommandLineIsRead == A!CommandLineIsRead
=============================================================================
