SPECIFICATION Spec
CONSTANTS
  Nodes = {n1, n2}
  Root = n1
  Leaves = {x}
  Keys = {"k", "constructor", "name", "cause"}
  RedactKeys = {"name", "cause"}
  MaxDepth = 3
  MaxArrayLength = 2
  MaxProperties = 2
  MaxEntries = 3
  MaxTotal = 4
  Names = {"a", "b", "c"}
  Imported = "a"
  MaxStatements = 4
  Locals = {"e", "f"}
  MaxLines = 4
  Commands = {"lint"}
  Texts = {"warn", "lint", "-x", "[x", "[x,y]", "yes", ""}
  Dashed = {"-x"}
  Malformed = {"[x"}
  MaxArguments = 3
INVARIANTS
  ShowsExactlyThePlain
  ReportsTheUnsent
  CommandLineIsRead
CHECK_DEADLOCK FALSE
