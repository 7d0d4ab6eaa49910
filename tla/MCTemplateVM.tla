---------------------------- MODULE MCTemplateVM ----------------------------
(* Instances of TemplateVM: programs compiled from small template trees.    *)
EXTENDS TemplateVM, Compiler

x == "x"
item == "item"

Dot == Pipeline(<<>>, FALSE, "dot", 0)
Data == Pipeline(<<>>, FALSE, "data", 0)
CallData == Pipeline(<<>>, FALSE, "data", 1)
Read(v) == Pipeline(<<>>, FALSE, v, 0)
DeclareVar(v, src) == Pipeline(<<v>>, FALSE, src, 0)
AssignVar(v, src) == Pipeline(<<v>>, TRUE, src, 0)
RangeOver(src) == Pipeline(<<item>>, FALSE, src, 0)

If(p, body) == Branch("if", p, body, FALSE, <<>>)
IfElse(p, body, els) == Branch("if", p, body, TRUE, els)
With(p, body) == Branch("with", p, body, FALSE, <<>>)
WithElse(p, body, els) == Branch("with", p, body, TRUE, els)
Range(p, body) == Branch("range", p, body, FALSE, <<>>)
RangeElse(p, body, els) == Branch("range", p, body, TRUE, els)

VarNames == {"$", x, item}

ProgOf(main, b) == [main |-> Compile(main), b |-> Compile(b)]
MapOf(code) == [n \in DOMAIN code |-> StackMap(code[n])]
TwoNames == {"main", "b"}

\* {{define "b"}}{{if .}}{{template "b" f .D}}{{else}}t{{end}}{{end}}
RecursiveTree == << IfElse(Dot, << Call("b", CallData) >>, << Text >>) >>

\* {{$x := .}}{{with .D}}{{range $item := .D}}{{if $item}}{{$x = .}}{{f .D}}
\* {{end}}{{else}}{{$item = .}}{{end}}{{.}}{{else}}{{range .D}}{{template "b" .}}{{end}}{{end}}{{$x}}
StructuredTree ==
    << Action(DeclareVar(x, "dot")),
       WithElse(Data,
           << RangeElse(RangeOver("data"),
                  << If(Read(item), << Action(AssignVar(x, "dot")),
                                       Action(CallData) >>) >>,
                  << Action(AssignVar(item, "dot")) >>),
              Action(Dot) >>,
           << Range(Data, << Call("b", Dot) >>) >>),
       Action(Read(x)) >>

\* The compiled form, spelled out: a run with fairness evaluates its program in
\* every step.
Pop == Plain("POP_SCOPE")
Enter(op, pipe, target) ==
    << Plain("PUSH_SCOPE"), Instruction(op, pipe, target, 0, "") >>
StructuredProg ==
    [main |->
        << Instruction("EVAL_PIPELINE", DeclareVar(x, "dot"), 0, 0, "") >>
        \o Enter("ENTER_WITH", Data, 17)
        \o Enter("ITERATE", RangeOver("data"), 12)
        \o Enter("JUMP_IF_FALSE", Read(item), 10)
        \o << Instruction("EVAL_PIPELINE", AssignVar(x, "dot"), 0, 0, ""),
              Instruction("WRITE_PIPELINE", CallData, 0, 0, ""),
              Pop,
              Instruction("NEXT_ITERATION", NoPipeline, 13, 6, ""),
              Instruction("EVAL_PIPELINE", AssignVar(item, "dot"), 0, 0, ""),
              Pop,
              Plain("WRITE_DOT"),
              Plain("EXIT_WITH"),
              Instruction("JUMP", NoPipeline, 22, 0, "") >>
        \o Enter("ITERATE", Data, 21)
        \o << Instruction("CALL_TEMPLATE", Dot, 0, 0, "b"),
              Instruction("NEXT_ITERATION", NoPipeline, 21, 19, ""),
              Pop,
              Pop,
              Instruction("WRITE_PIPELINE", Read(x), 0, 0, "") >>,
     b |->
        Enter("JUMP_IF_FALSE", Dot, 5)
        \o << Instruction("CALL_TEMPLATE", CallData, 0, 0, "b"),
              Instruction("JUMP", NoPipeline, 6, 0, ""),
              Plain("WRITE_TEXT"),
              Pop >>]

ASSUME StructuredCompiled ==
    StructuredProg = ProgOf(StructuredTree, RecursiveTree)
StructuredMap == MapOf(StructuredProg)

\* Its withs and ranges, by position.
StructuredOpen ==
    [main |-> [k \in 1 .. 24 |-> IF k \in 6 .. 11 THEN <<"with", "range">>
                                ELSE IF k \in 4 .. 15 THEN <<"with">>
                                ELSE IF k \in 19 .. 20 THEN <<"range">>
                                ELSE <<>>],
     b    |-> [k \in 1 .. 7 |-> <<>>]]

ASSUME StructuredNests ==
    \A n \in TwoNames : Structured(StructuredProg[n], StructuredMap[n], StructuredOpen[n])

\* {{with .D}}{{range $x, $item := .D}}{{with .}}{{range .}}{{if .}}{{break}}
\* {{end}}{{continue}}{{end}}{{if $x}}{{continue}}{{else}}{{break}}{{end}}{{end}}
\* {{end}}{{end}}{{template "b" .D}}{{if .D}}{{template "none"}}{{end}}     {{define "b"}}{{range .}}{{with .}}{{break}}
\* {{end}}{{end}}{{end}}
JumpsTree ==
    << With(Data,
           << Range(Pipeline(<<x, item>>, FALSE, "data", 0),
                  << With(Dot,
                         << Range(Data, << If(Dot, << Break >>), Continue >>),
                            IfElse(Read(x), << Continue >>, << Break >>) >>) >>) >>),
       Call("b", Data),
       If(Data, << Call("none", NoPipeline) >>) >>

BreakInWithTree == << Range(Dot, << With(Dot, << Break >>) >>) >>

JumpsProg == ProgOf(JumpsTree, BreakInWithTree)
JumpsMap == MapOf(JumpsProg)

\* {{with .D}}{{range .D}}{{with .}}{{break}}{{end}}{{end}}{{end}}{{.}}
DotLeakTree ==
    << With(Data, << Range(Data, << With(Dot, << Break >>) >>) >>),
       Action(Dot) >>

DotLeakProg == ProgOf(DotLeakTree, << Text >>)
DotLeakMap == MapOf(DotLeakProg)
============================================================================
