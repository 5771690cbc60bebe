------------------------------ MODULE SendScanner ------------------------------
(***************************************************************************)
(* The scanner of .ores-lint/require-send.mjs, which looks for log events  *)
(* that nobody sends in Rust, Dart and Gleam. It has no syntax tree: it    *)
(* walks over the tokens, takes braces for blocks, and judges a chain by   *)
(* the token before it and the one after it. A behaviour writes a          *)
(* function, one statement after another, as the scanner reads it and as   *)
(* it would run.                                                           *)
(*                                                                         *)
(* A statement is an expression in a place: the place stands for the       *)
(* tokens around the expression. The logger has a name that looks like one *)
(* (looksLikeLogger), the value of a tail or an arm is used by somebody,   *)
(* and an arm is not the last one. Left out: the comments that disable the *)
(* rule, a chain inside the arguments of another, the files not scanned.   *)
(***************************************************************************)
EXTENDS Naturals, SequencesExt

CONSTANTS
  Locals,                 \* the names a function gives to events
  MaxLines                \* bound: statements and blocks of a function

Languages == {"rust", "dart", "gleam"}

VARIABLES
  language,
  scopeStack,             \* the pending events of each block, by name; the file's own are none
  findings,               \* the events reported
  variables,              \* of each block, what its variables really hold
  chains,                 \* the events: sent, handed on, and followed (below)
  rebound,                \* history: a name was given a second event, or a type to two
  lines, atEnd            \* the block at hand has had its last statement

scanner == <<scopeStack, findings>>
function == <<variables, chains, rebound, lines, atEnd>>
vars == <<language, scanner, function>>

Init ==
  /\ language \in Languages
  /\ scopeStack = << <<>> >> /\ findings = {}
  /\ variables = << <<>> >> /\ chains = <<>> /\ rebound = FALSE
  /\ lines = 0 /\ atEnd = FALSE

-----------------------------------------------------------------------------
(* The function as it runs. Expressions are log.info("m"), alone, sent at   *)
(* once, or written log |> logging.info("m"); log.log() with three          *)
(* arguments, which sends; a name, name.send() or name |> logging.send, and *)
(* send(name) or channel.send(name). The event of a name is 0 if it has     *)
(* none.                                                                    *)
Blocks(x) == {i \in DOMAIN variables : x \in DOMAIN variables[i]}
Event(x) == IF Blocks(x) = {} THEN 0 ELSE variables[Max(Blocks(x))][x]

Piped(e) == e.form = "pipeInfo"
Builds(e) == e.form \in {"info", "pipeInfo", "infoSend", "emit"}

Places ==
  {"statement", "argument", "let", "typed", "arm"}
    \cup (IF language = "dart" THEN {} ELSE {"tail"})
    \cup (IF language = "gleam" THEN {} ELSE {"assign", "return"})

Expressions ==
  [form : {"info", "infoSend", IF language = "gleam" THEN "pipeInfo" ELSE "emit"}, of : {"none"}]
    \cup [form : {"name", "send", "sendOf"}, of : {x \in Locals : Event(x) # 0}]

Value(e) ==
  CASE e.form \in {"info", "pipeInfo"} -> Len(chains) + 1
    [] e.form = "name" -> Event(e.of)
    [] OTHER -> 0
Hands(place) == place \in {"argument", "return", "arm", "tail"}

(* The scanner follows an event that has one plain name, in the block where *)
(* the name is declared, and is sent by it; and one that is handed on       *)
(* where it is built, except from an arm or by a pipe in Gleam.             *)
Follows(e, place, x) ==
  CASE Builds(e) ->
         /\ language = "gleam" => place # "arm" /\ (Piped(e) => place \in {"statement", "tail"})
         /\ place = "typed" => language = "dart"
         /\ place = "assign" => Blocks(x) = {Len(variables)}
    [] e.form = "name" -> FALSE
    [] OTHER -> language = "gleam" => e.form = "sendOf"

Run(e, place, x) ==
  LET n == IF Builds(e) THEN Len(chains) + 1 ELSE Event(e.of)
      old == IF Builds(e) THEN [sent |-> FALSE, handed |-> FALSE, followed |-> TRUE] ELSE chains[n]
      new == [sent |-> old.sent \/ e.form \in {"infoSend", "emit", "send", "sendOf"},
              handed |-> old.handed \/ Hands(place),
              followed |-> old.followed /\ Follows(e, place, x)]
  IN chains' = IF Builds(e) THEN Append(chains, new) ELSE [chains EXCEPT ![n] = new]

Unsent(n) == ~chains[n].sent /\ ~chains[n].handed

-----------------------------------------------------------------------------
(* The scanner. *)
Top == Len(scopeStack)
Without(f, x) == [y \in DOMAIN f \ {x} |-> f[y]]

ClearInnermost(x) ==      \* a slip: the blocks around are not looked at
  [scopeStack EXCEPT ![Top] = Without(@, x)]

(* clear(): in the innermost of the blocks that has the name. *)
Clear(x) ==
  LET having == {i \in DOMAIN scopeStack : x \in DOMAIN scopeStack[i]}
  IN IF having = {} THEN scopeStack ELSE [scopeStack EXCEPT ![Max(having)] = Without(@, x)]

(* mark() *)
Mark(x, n) ==
  [scopeStack EXCEPT ![Top] = [y \in DOMAIN @ \cup {x} |-> IF y = x THEN n ELSE @[y]]]

(* precedingAssignment(): the identifier before the =, which in "let e:     *)
(* Event =" is the type; "Event e =" is Dart's.                             *)
PrecedingAssignment(place, x) == IF place = "typed" /\ language # "dart" THEN "Event" ELSE x

(* The tokens before the chain are those of an assignment.                  *)
Assigned(e, place) == place \in {"let", "typed", "assign"} /\ ~Piped(e)

HandoffNever(e, place) == FALSE     \* a slip: a chain is a statement or an assignment

(* Or they, or the one after it, hand it on: isReturnish(), a parenthesis   *)
(* or comma, no semicolon in Rust, a brace in Gleam.                        *)
Handoff(e, place) ==
  \/ place = "tail"
  \/ place = "argument" /\ ~Piped(e)
  \/ place \in {"return", "arm"} /\ language # "gleam"

(* countTopLevelArgs(): log.log(level, message, context) sends by itself.   *)
CountTopLevelArgs(e) == IF e.form = "emit" THEN 3 ELSE 1

(* walkMethodChain() and walkGleamPipe() find a level and no terminal       *)
(* method.                                                                  *)
Undelivered(e) == e.form \in {"info", "pipeInfo", "emit"} /\ CountTopLevelArgs(e) < 3

(* A chain with a level method. *)
ScanChain(e, place, x) ==
  IF Undelivered(e) /\ Assigned(e, place)
  THEN /\ scopeStack' = Mark(PrecedingAssignment(place, x), Len(chains) + 1)
       /\ UNCHANGED findings
  ELSE /\ findings' = IF Undelivered(e) /\ ~Handoff(e, place)
                      THEN findings \cup {Len(chains) + 1} ELSE findings
       /\ UNCHANGED scopeStack

(* A terminal method: name.send(), where the name is before a dot, and      *)
(* send(name); "name |> logging.send" is neither.                           *)
ScanTerminal(e) ==
  /\ scopeStack' = IF e.form = "sendOf" \/ (e.form = "send" /\ language # "gleam")
                   THEN Clear(e.of) ELSE scopeStack
  /\ UNCHANGED findings

-----------------------------------------------------------------------------
Line == lines < MaxLines /\ lines' = lines + 1 /\ UNCHANGED language

Binding(e, place, x) ==
  IF place \in {"let", "typed", "assign"}
  THEN LET level == IF place = "assign" THEN Max(Blocks(x)) ELSE Len(variables) IN
         /\ variables' = [variables EXCEPT ![level] =
              [y \in DOMAIN @ \cup {x} |-> IF y = x THEN Value(e) ELSE @[y]]]
         /\ rebound' = (rebound \/ (Event(x) # 0 /\ Unsent(Event(x)))
                                \/ (place = "typed" /\ "Event" \in DOMAIN scopeStack[Top]))
  ELSE UNCHANGED <<variables, rebound>>

(* A statement with an event that is built, or with a name that holds one. *)
Statement(e, place, x) ==
  /\ Line /\ ~atEnd
  /\ place = "assign" => Blocks(x) # {}
  /\ e.form \in {"send", "sendOf"} => place = "statement"
  /\ e.form \in {"infoSend", "emit"} => place \in {"statement", "let"}
  /\ place \in {"let", "typed"} /\ language = "dart" => x \notin DOMAIN variables[Len(variables)]
  /\ e.form = "name" => place \notin {"statement", "typed", "assign"} /\ e.of # x
  /\ Run(e, place, x)
  /\ Binding(e, place, x)
  /\ IF Builds(e) THEN ScanChain(e, place, x) ELSE ScanTerminal(e)
  /\ atEnd' = (place \in {"return", "tail"})

(* A brace opens a block. *)
OpenBrace ==
  /\ Line /\ ~atEnd
  /\ scopeStack' = Append(scopeStack, <<>>) /\ variables' = Append(variables, <<>>)
  /\ UNCHANGED <<findings, chains, rebound, atEnd>>

CloseBraceForgets ==             \* a slip: what was pending in the block is forgotten
  /\ scopeStack # <<>>
  /\ scopeStack' = Front(scopeStack) /\ variables' = Front(variables)
  /\ atEnd' = FALSE
  /\ UNCHANGED <<language, findings, chains, rebound, lines>>

(* It closes, and flushScope() reports what is pending. *)
CloseBrace ==
  /\ scopeStack # <<>>
  /\ findings' = findings \cup {Last(scopeStack)[x] : x \in DOMAIN Last(scopeStack)}
  /\ scopeStack' = Front(scopeStack) /\ variables' = Front(variables)
  /\ atEnd' = FALSE
  /\ UNCHANGED <<language, chains, rebound, lines>>

Next ==
  \/ /\ scopeStack # <<>>
     /\ \/ \E e \in Expressions, place \in Places :
             \E x \in IF place \in {"let", "typed", "assign"} THEN Locals ELSE {"none"} :
               Statement(e, place, x)
        \/ OpenBrace
  \/ CloseBrace

Spec == Init /\ [][Next]_vars

-----------------------------------------------------------------------------
(* No event that is neither sent nor handed on escapes the scanner, however *)
(* blocks, names and languages are combined, unless its name was given to   *)
(* another event before it was sent: it is reported, or will be where its   *)
(* block ends. And of the events that it follows it reports no others       *)
(* (.ores-lint/require-send.mjs:297-401).                                   *)
ScannerFindsTheUnsent ==
  ~rebound =>
    LET pending == UNION {{scopeStack[i][x] : x \in DOMAIN scopeStack[i]} : i \in DOMAIN scopeStack}
    IN /\ \A n \in DOMAIN chains : Unsent(n) => n \in findings \cup pending
       /\ \A n \in findings \cup pending : chains[n].followed => Unsent(n)
=============================================================================
