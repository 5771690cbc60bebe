------------------------------ MODULE RequireSend ------------------------------
(***************************************************************************)
(* The two lint rules that look for log events nobody sends: "next-loggers" *)
(* of src/eslint-plugin.ts, which looks at expression statements, and      *)
(* "ores" of .ores-lint/eslint/plugin.mjs, which also follows events that  *)
(* were given a name through the functions of a file. Both learn which     *)
(* names hold loggers from imports, declarations and assignments. A        *)
(* behaviour writes a program, one statement after another, as the rules   *)
(* visit it and as it would run, a function being called where it is       *)
(* written.                                                                *)
(*                                                                         *)
(* A class that is constructed stands for a factory that is called, and a  *)
(* name for a qualified one. Left out: the second rule of the first plugin *)
(* with its markers, the options, and the rule for semicolons.             *)
(***************************************************************************)
EXTENDS Naturals, Sequences, FiniteSetsExt

CONSTANTS
  Names, Imported,        \* the names of a program; the one it imports
  MaxStatements           \* bound: statements of a program

Rules == {"next-loggers", "ores"}

VARIABLES
  origin,                 \* the program has its module by "import" or "require"
  knownLoggers, knownFactories,     \* by rule
  scopes,                 \* of "ores": the functions around, name -> pending event
  reports,                \* by rule: the events reported
  holds,                  \* what the names of those functions really hold
  built,                  \* the events: sent, handed on, and a statement of their own
  evaded,                 \* history: the program did what is too much for the rules
  statements, returned

tracking == <<knownLoggers, knownFactories, scopes, reports>>
program == <<holds, built, evaded, statements, returned>>
vars == <<origin, tracking, program>>

Other == [is |-> "other", id |-> 0]
Logger == [is |-> "logger", id |-> 0]
Factory == [is |-> "factory", id |-> 0]

(* registerExport and requireModuleName; only one rule knows require(). *)
Init ==
  /\ origin \in {"import", "require"}
  /\ \E export \in {Logger, Factory} :
       LET by(r, what) == IF export = what /\ (origin = "import" \/ r = "next-loggers")
                          THEN {Imported} ELSE {}
       IN /\ holds = << [x \in {Imported} |-> export] >>
          /\ knownLoggers = [r \in Rules |-> by(r, Logger)]
          /\ knownFactories = [r \in Rules |-> by(r, Factory)]
  /\ scopes = << <<>> >>
  /\ reports = [r \in Rules |-> {}]
  /\ built = <<>> /\ evaded = FALSE /\ statements = 0 /\ returned = FALSE

-----------------------------------------------------------------------------
(* What the program really does.                                           *)
Level(x) == {i \in DOMAIN holds : x \in DOMAIN holds[i]}
Visible(x) == Level(x) # {}
Held(x) == IF Visible(x) THEN holds[Max(Level(x))][x] ELSE Other
Unsent(v) == v.is = "event" /\ ~built[v.id].sent /\ ~built[v.id].handed

(* An expression is a form over a name: x, x(), x.anew(), x.info(),         *)
(* x.info().send(), x.send(), f(x), f(x.info()), x().info(), or another.    *)
UsesOf(v) ==
  CASE v = Logger -> {"other", "name", "anew", "info", "infoSend", "pass", "passInfo"}
    [] v = Factory -> {"other", "name", "make", "makeInfo"}
    [] v.is = "event" -> {"other", "name", "send", "pass"}
    [] v = Other -> {"other", "name", "make", "anew", "info", "infoSend", "send", "pass"}

Expr(forms) ==
  UNION {[form : forms \cap UsesOf(Held(x)), of : {x}] : x \in {y \in Names : Visible(y)}}
Values == Expr({"other", "name", "make", "anew", "info", "infoSend"})
Actions == Expr({"info", "infoSend", "send", "pass", "passInfo", "makeInfo"})

(* It builds an event. *)
Builds(e) ==
  \/ e.form \in {"info", "infoSend", "passInfo"} /\ Held(e.of) = Logger
  \/ e.form = "makeInfo" /\ Held(e.of) = Factory

Next1 == Len(built) + 1

Value(e) ==
  CASE e.form = "name" -> Held(e.of)
    [] e.form = "make" /\ Held(e.of) = Factory -> Logger
    [] e.form = "anew" /\ Held(e.of) = Logger -> Logger
    [] e.form = "info" /\ Builds(e) -> [is |-> "event", id |-> Next1]
    [] OTHER -> Other

Evaluated(e, use) ==
  IF Builds(e)
  THEN Append(built, [sent |-> e.form = "infoSend",
                      handed |-> e.form = "passInfo" \/ use = "return",
                      statement |-> use = "statement" /\ e.form = "info"])
  ELSE [n \in DOMAIN built |->
         IF Held(e.of) # [is |-> "event", id |-> n] THEN built[n]
         ELSE [built[n] EXCEPT !.sent = @ \/ e.form = "send",
                               !.handed = @ \/ e.form = "pass" \/ (use = "return" /\ e.form = "name")]]

(* What the rules do not follow: an event or a factory copied to another   *)
(* name, a logger used where it is made, a name bound anew, an event that  *)
(* leaves its function through an assignment.                              *)
Copies(e) == e.form = "name" /\ (Unsent(Held(e.of)) \/ Held(e.of) = Factory)
Rebinds(x, level) ==
  \/ Visible(x) /\ level \notin Level(x)
  \/ Held(x) \in {Logger, Factory} \/ Unsent(Held(x))
  \/ \E r \in Rules : x \in knownLoggers[r] \cup knownFactories[r]

-----------------------------------------------------------------------------
(* The rules. isLoggerProducer: *)
IsLoggerProducer(r, e) ==
  \/ e.form \in {"name", "anew"} /\ e.of \in knownLoggers[r]
  \/ e.form = "make" /\ e.of \in knownFactories[r]

Learn(x, e) ==
  knownLoggers' = [r \in Rules |->
    IF IsLoggerProducer(r, e) THEN knownLoggers[r] \cup {x} ELSE knownLoggers[r]]

(* inspectChain: an event, not delivered. *)
Undelivered(known, r, e) == e.form = "info" /\ e.of \in known[r]

PendingIn(stack, x) == {i \in DOMAIN stack : x \in DOMAIN stack[i]}
Drop(f, x) == [y \in DOMAIN f \ {x} |-> f[y]]

ClearInnermost(stack, x) ==       \* a slip: only the function at hand is looked at
  [stack EXCEPT ![Len(stack)] = Drop(@, x)]

(* clearPending: in the innermost of the functions that has it. *)
ClearPending(stack, x) ==
  IF PendingIn(stack, x) = {} THEN stack
  ELSE [stack EXCEPT ![Max(PendingIn(stack, x))] = Drop(@, x)]

MarkPending(stack, x, n) ==
  [stack EXCEPT ![Len(stack)] = [y \in DOMAIN @ \cup {x} |-> IF y = x THEN n ELSE @[y]]]

ConsumeOnlyChains(stack, e) ==       \* a slip: an argument is not looked at
  IF e.form \in {"infoSend", "send"} THEN ClearPending(stack, e.of) ELSE stack

(* consumeTerminalUse: a terminal method ends the chain, or it is an argument. *)
ConsumeTerminalUse(stack, e) ==
  IF e.form \in {"infoSend", "send", "pass"} THEN ClearPending(stack, e.of) ELSE stack

-----------------------------------------------------------------------------
Statement ==
  statements < MaxStatements /\ ~returned /\ statements' = statements + 1 /\ UNCHANGED origin

Bind(x, e, level) ==
  /\ holds' = [holds EXCEPT ![level] = [y \in DOMAIN @ \cup {x} |-> IF y = x THEN Value(e) ELSE @[y]]]
  /\ built' = Evaluated(e, "bind")
  /\ evaded' = (evaded \/ Copies(e) \/ Rebinds(x, level) \/ (level < Len(holds) /\ Value(e).is = "event"))
  /\ Learn(x, e)
  /\ UNCHANGED <<knownFactories, reports, returned>>

(* VariableDeclarator; the calls inside come after it. *)
Declare(x, e) ==
  /\ Statement
  /\ x \notin DOMAIN holds[Len(holds)]
  /\ Bind(x, e, Len(holds))
  /\ scopes' = ConsumeTerminalUse(
       IF Undelivered(knownLoggers', "ores", e) THEN MarkPending(scopes, x, Value(e).id) ELSE scopes, e)

(* AssignmentExpression; what an import or a require bound is constant. *)
Assign(x, e) ==
  /\ Statement
  /\ x # Imported /\ Visible(x)
  /\ Bind(x, e, Max(Level(x)))
  /\ scopes' = ConsumeTerminalUse(
       IF Undelivered(knownLoggers', "ores", e) THEN MarkPending(scopes, x, Value(e).id)
       ELSE ConsumeTerminalUse(scopes, e), e)

(* ExpressionStatement of both rules, then CallExpression. *)
Expression(e) ==
  /\ Statement
  /\ built' = Evaluated(e, "statement")
  /\ evaded' = (evaded \/ (e.form = "makeInfo" /\ Builds(e)))
  /\ reports' = [r \in Rules |->
       reports[r] \cup (IF Undelivered(knownLoggers, r, e) THEN {Next1} ELSE {})]
  /\ scopes' = IF Undelivered(knownLoggers, "ores", e) THEN scopes
               ELSE ConsumeTerminalUse(ConsumeTerminalUse(scopes, e), e)
  /\ UNCHANGED <<holds, knownLoggers, knownFactories, returned>>

(* ReturnStatement, and the body of an arrow function that is a name. *)
Return(e) ==
  /\ Statement
  /\ Len(scopes) > 1
  /\ returned' = TRUE
  /\ built' = Evaluated(e, "return")
  /\ scopes' = IF e.form = "name" THEN ClearPending(scopes, e.of) ELSE ConsumeTerminalUse(scopes, e)
  /\ UNCHANGED <<holds, evaded, knownLoggers, knownFactories, reports>>

(* The beginning and the end of a function, and the end of the program. *)
EnterScope ==
  /\ Statement /\ scopes # <<>>
  /\ scopes' = Append(scopes, <<>>)
  /\ holds' = Append(holds, <<>>)
  /\ UNCHANGED <<built, evaded, knownLoggers, knownFactories, reports, returned>>

Front(s) == SubSeq(s, 1, Len(s) - 1)

ExitScope ==
  /\ scopes # <<>>
  /\ LET pending == scopes[Len(scopes)] IN
       reports' = [reports EXCEPT !["ores"] = @ \cup {pending[x] : x \in DOMAIN pending}]
  /\ scopes' = Front(scopes)
  /\ holds' = Front(holds)
  /\ returned' = FALSE
  /\ UNCHANGED <<origin, built, evaded, statements, knownLoggers, knownFactories>>

Next ==
  \/ \E x \in Names, e \in Values : scopes # <<>> /\ (Declare(x, e) \/ Assign(x, e))
  \/ \E e \in Actions : scopes # <<>> /\ Expression(e)
  \/ \E e \in Expr({"name", "info", "infoSend"}) : Return(e)
  \/ EnterScope \/ ExitScope

Spec == Init /\ [][Next]_vars

-----------------------------------------------------------------------------
(* The rules report exactly the events that they look for and that are      *)
(* neither sent nor handed on, however names, nested functions and returns  *)
(* are combined: the first rule those that are statements, the other one    *)
(* all, at the latest where their function ends, for a program that does    *)
(* not evade them (.ores-lint/eslint/plugin.mjs:127-290,                    *)
(* src/eslint-plugin.ts:361-386).                                           *)
ReportsTheUnsent ==
  ~evaded =>
    LET unsent == {n \in DOMAIN built : ~built[n].sent /\ ~built[n].handed}
        pending == UNION {{scopes[i][x] : x \in DOMAIN scopes[i]} : i \in DOMAIN scopes}
    IN /\ reports["next-loggers"] = {n \in unsent : built[n].statement}
       /\ origin = "import" =>
            /\ reports["ores"] \cup pending = unsent
            /\ reports["ores"] \cap pending = {}
=============================================================================
