---------------------------- MODULE MCEvaluation ----------------------------
(* Pipelines of one to three commands, each used in every way, rendered    *)
(* under different registries, data, policies and budgets.                 *)
EXTENDS Evaluation

Operand(kind, name, value, fields, pipeline) ==
  [kind |-> kind, name |-> name, value |-> value, fields |-> fields, pipeline |-> pipeline]
Pipeline(bindings, assignment, commands) ==
  [bindings |-> bindings, assignment |-> assignment, commands |-> commands]
Nothing == Pipeline(<<>>, FALSE, <<>>)

Dot          == Operand("dot", "", INVALID, <<>>, Nothing)
Nil          == Operand("nil", "", INVALID, <<>>, Nothing)
Const(v)     == Operand("constant", "", v, <<>>, Nothing)
Field(fs)    == Operand("field", "", INVALID, fs, Nothing)
Var(x, fs)   == Operand("variable", x, INVALID, fs, Nothing)
Fn(f)        == Operand("function", f, INVALID, <<>>, Nothing)
Sub(cs, fs)  == Operand("subpipeline", "", INVALID, fs, Pipeline(<<>>, FALSE, cs))

One == Const(Number(1))

FirstCommands ==
  << <<Field(<<"a">>)>>, <<Field(<<"z">>)>>, <<Field(<<"m", "x">>)>>, <<Field(<<"z", "z">>)>>,
     <<Field(<<"o", "get">>)>>, <<Field(<<"o", "get", "x">>)>>, <<Field(<<"o", "bad">>)>>,
     <<Field(<<"o", "add">>), One>>, <<Field(<<"o", "dyn">>)>>, <<Field(<<"o", "prop">>)>>,
     <<Field(<<"t", "z">>)>>, <<Var("$", <<"a">>)>>, <<Nil>>, <<Dot, One>>,
     <<Fn("f1"), Field(<<"o", "get">>)>>, <<Fn("fv"), Sub(<< <<Field(<<"o", "get">>)>> >>, <<"x">>), Fn("f01")>>,
     <<Fn("and"), Field(<<"a">>), Field(<<"z">>), Fn("fail")>>, <<Fn("or"), Field(<<"o", "get">>)>>,
     <<Fn("call"), Field(<<"g">>), One>>, <<Fn("index"), Field(<<"m">>), Const(Text("y", 1))>>,
     <<Field(<<"l">>)>>, <<Field(<<"s">>)>>, <<Field(<<"s2">>)>>, <<Field(<<"m">>)>> >>

SecondCommands ==
  << <<Fn("f1")>>, <<Fn("f01")>>, <<Fn("fv")>>, <<Fn("f1"), One>>, <<Fn("f2"), One>>,
     <<Fn("fint")>>, <<Fn("fint2"), One>>, <<Fn("wait")>>, <<Fn("fail")>>, <<Fn("not")>>, <<Fn("len")>>,
     <<Fn("print")>>, <<Fn("eq"), One>>, <<Fn("or"), Nil>>, <<Fn("here")>>, <<Fn("later")>>,
     <<Fn("raw")>>, <<Fn("fv"), Field(<<"o", "get">>), Var("$", <<"a">>)>>, <<Fn("slice"), Field(<<"l">>)>> >>

Third == <<Fn("f01")>>

CommandsOf(t) ==
  <<FirstCommands[t.first]>> \o (IF t.second = 0 THEN <<>> ELSE <<SecondCommands[t.second]>>)
                            \o (IF t.third THEN <<Third>> ELSE <<>>)

Instruction(op, pipeline) == [op |-> op, pipeline |-> pipeline]
Write(p) == Instruction("write", p)
Later    == Write(Pipeline(<<>>, FALSE, << <<Var("$x", <<>>)>>, <<Fn("fv")>> >>))

Ops == {"write", "if", "with", "eval", "range", "set"}

(* Which commands, and how the pipeline is used: written, tested and its   *)
(* variable read, evaluated before a call, ranged over, assigned.          *)
MCTemplates ==
  [op : Ops, first : DOMAIN FirstCommands, second : 0..Len(SecondCommands), third : {FALSE}]
    \cup [op : {"write", "if"}, first : {1, 2, 5}, second : DOMAIN SecondCommands, third : {TRUE}]

MCProgramOf(t) ==
  CASE t.op = "write" -> <<Write(Pipeline(<<>>, FALSE, CommandsOf(t)))>>
    [] t.op \in {"if", "with"} -> <<Instruction(t.op, Pipeline(<<"$x">>, FALSE, CommandsOf(t))), Later>>
    [] t.op = "eval" -> <<Instruction("eval", Pipeline(<<"$x">>, FALSE, CommandsOf(t))),
                          Instruction("call", Later.pipeline)>>
    [] t.op = "range" -> <<Instruction("range", Pipeline(<<"$x">>, FALSE, CommandsOf(t)))>>
    [] t.op = "set" -> <<Instruction("eval", Pipeline(<<"$">>, TRUE, CommandsOf(t))),
                         Write(Pipeline(<<>>, FALSE, << <<Var("$", <<"a">>)>>, <<Fn("fv")>> >>))>>

Entry(key, class, v) == [key |-> Text(key, 1), class |-> class, val |-> v]
Dict(entries)  == Value("map", 0, "dict", entries)
Object == Value("object", 1, "o",
  <<Entry("get", "method", Method("get", Dict(<<Entry("x", "item", Number(3))>>))),
    Entry("add", "method", [Method("add", Number(5)) EXCEPT !.n = 1]),
    Entry("bad", "failing", INVALID), Entry("dyn", "dynamic", Method("dyn", Number(6))),
    Entry("prop", "property", Number(4))>>)

Data ==
  Dict(<<Entry("a", "item", Number(1)), Entry("o", "item", Object),
         Entry("l", "item", List(<<Number(1), None>>)),
         Entry("m", "item", Dict(<<Entry("x", "item", Number(2))>>)),
         Entry("t", "item", Value("typedmap", 0, "typed", <<Entry("zero", "item", Text("", 0))>>)),
         Entry("g", "item", Value("function", 1, "g",
            <<[key |-> None, class |-> "term", val |-> INVALID]>>)),
         Entry("s", "item", Value("goseq", 0, "s", <<Entry("k", "item", Number(7))>>)),
         Entry("s2", "item", Value("goseq2", 0, "s2", <<Entry("k", "item", Number(7))>>))>>)

User ==
  [name \in {"f1", "f01", "f2", "fv", "fint", "fint2", "wait", "fail", "here", "later", "raw"} |->
     CASE name = "f1"    -> Function(Signature(1, 1, <<"">>), "term", INVALID)
       [] name = "f01"   -> Function(Signature(0, 1, <<"">>), "term", INVALID)
       [] name = "f2"    -> Function(Signature(2, 2, <<"", "">>), "term", INVALID)
       [] name = "fv"    -> Function(Signature(0, Variadic, <<>>), "term", INVALID)
       [] name = "fint"  -> Function(Signature(0, 1, <<"int">>), "term", INVALID)
       [] name = "fint2" -> Function(Signature(1, 2, <<"int|str", "any">>), "term", INVALID)
       [] name = "wait"  -> Function(Signature(1, 1, <<"">>), "await", Number(8))
       [] name = "fail"  -> Function(Signature(0, Variadic, <<>>), "raise", INVALID)
       [] name = "here"  -> ContextFunction([i \in {"sync"} |-> Signature(2, 2, <<"", "">>)],
                                            "term", INVALID)
       [] name = "later" -> ContextFunction([i \in {"async"} |-> Signature(1, 2, <<"", "">>)],
                                            "await", Number(9))
       [] name = "raw"   -> Function([NoSpec EXCEPT !.min = 1, !.max = 1], "term", INVALID)]

NoSandbox == [active |-> FALSE, attributes |-> {}, properties |-> {}, methods |-> {}, custom |-> FALSE]
Policy    == [active |-> TRUE, attributes |-> {"dyn"}, properties |-> {"prop"}, methods |-> {"get"},
              custom |-> FALSE]

World(functions, limit, missing, sandbox) ==
  [functions |-> functions, dot |-> Data, limit |-> limit, missing |-> missing,
   sandbox |-> sandbox, session |-> TRUE]

MCWorlds ==
  << World(User, 99, "default", NoSandbox),
     World(User, 1, "default", NoSandbox),
     World(User, 99, "error", NoSandbox),
     World(User, 99, "zero", NoSandbox),
     World(User, 99, "default", Policy),
     World((("and" :> User["fv"]) @@ User), 99, "default", NoSandbox) >>

=============================================================================
