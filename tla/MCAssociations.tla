--------------------------- MODULE MCAssociations ---------------------------
(***************************************************************************)
(* Instances of Associations: two names, sources that define, redefine and *)
(* call them, a registration that replaces another, one that takes the     *)
(* name of a Python or a runtime extension, and one sandbox.               *)
(***************************************************************************)
EXTENDS Associations

Text      == [op |-> "text"]
Field     == [op |-> "field"]
Use(f)    == [op |-> "use", arg |-> f]
Call(n)   == [op |-> "call", arg |-> n]
Body(steps)         == [name |-> "", steps |-> steps, text |-> TRUE]
Define(name, steps) == [name |-> name, steps |-> steps, text |-> TRUE]

MCSourceOf(s) ==
  CASE s = "page" -> [chars |-> 1, parts |-> <<Body(<<Field, Field, Call("part")>>)>>]
    [] s = "own"  -> [chars |-> 1, parts |-> <<Body(<<Field, Field, Call("main")>>),
                                               Define("main", <<Text>>)>>]
    [] s = "stub" -> [chars |-> 1, parts |-> <<Body(<<Call("part"), Call("part")>>),
                                               Define("part", <<>>)>>]
    [] s = "lib"  -> [chars |-> 1, parts |-> <<Body(<<Use("f")>>),
                                               Define("part", <<Use("f"), Use("call")>>)>>]
    [] s = "attr" -> [chars |-> 2, parts |-> <<Body(<<Text>>),
                                               [name |-> "part", steps |-> <<Use("x")>>, text |-> FALSE]>>]

User(n, c) == [owner |-> n, capabilities |-> c]

MCRegistrations ==
  {<<>>, "f" :> User("first", {}), "f" :> User("second", {"render"}), "bad name" :> User("first", {}),
   "py" :> User("first", {}), "_html_template_htmlescaper" :> User("first", {}) @@ "x" :> User("first", {})}

MCExtensions == {[functions |-> "x" :> User("plugin", {"render"}), kinds |-> {"text", "html"}],
                 [functions |-> "x" :> User("other", {}), kinds |-> {"text"}]}

MCPythonFunctions == "regex" :> {"py"}

MCPolicies == {NoSandbox, [functions |-> {"f", "x", "py"}, capabilities |-> {}, chars |-> 1]}
=============================================================================
