------------------------------ MODULE Compiler ------------------------------
(***************************************************************************)
(* gotpl/compile/compiler.py: the lowering of a parsed template tree to    *)
(* instructions, with the jump sites patched once their targets are known. *)
(*                                                                         *)
(* The compiler state st is [code, loops, failed]: the instructions        *)
(* emitted so far, the stack of _LoopContext (the break and continue sites *)
(* of each enclosing range), and whether emit_loop_jump found that stack   *)
(* empty, which is a Python IndexError.                                    *)
(***************************************************************************)
EXTENDS TemplateProgram, TemplateTree, FiniteSets

CONSTANT MaxLevels   \* bound: constructs inside one another in a compiled tree

ASSUME CompilerAssumption == MaxLevels \in Nat

----------------------------------------------------------------------------
(* The trees the compiler is given, by the levels of constructs in them, and *)
(* the states it goes through.                                               *)

\* Names, texts and the sources of values; the provers do not know by themselves
\* that a string literal is in STRING.
Strings == STRING \cup {"", "none"}

CompiledPipelines == [binds : Seq(Strings), assign : BOOLEAN, src : Strings, calls : Nat]

LeafNodes ==
    {Blank, Break, Continue}
      \cup [k : {"text"}, text : Strings]
      \cup [k : {"action"}, pipe : CompiledPipelines]
      \cup [k : {"call"}, name : Strings, pipe : CompiledPipelines]

ConstructNodes(lists) ==
    [k : {"if", "with", "range"}, pipe : CompiledPipelines,
     body : lists, hasElse : BOOLEAN, els : lists]
      \cup [k : {"block"}, name : Strings, pipe : CompiledPipelines, body : lists]

NodesWithin[d \in Nat] ==
    IF d = 0 THEN LeafNodes
    ELSE LeafNodes \cup ConstructNodes(Seq(NodesWithin[d - 1]))

CompiledInstructions ==
    [op : OpCodes, pipe : CompiledPipelines, target : Nat, body : Nat, name : Strings]

CompilerStates ==
    [code : Seq(CompiledInstructions),
     loops : Seq([breaks : SUBSET Nat, continues : SUBSET Nat]),
     failed : BOOLEAN]

----------------------------------------------------------------------------
IsPlainDot(pipe) == pipe.binds = <<>> /\ pipe.src = "dot" /\ pipe.calls = 0

Emit(st, i) == [st EXCEPT !.code = Append(@, i)]
Here(st) == Len(st.code) + 1

Patch(st, sites, t) ==
    [st EXCEPT !.code = [i \in DOMAIN @ |->
        IF i \in sites THEN [@[i] EXCEPT !.target = t] ELSE @[i]]]

EmitAction(n, st) ==
    Emit(st, IF n.pipe.binds # <<>>
             THEN Instruction("EVAL_PIPELINE", n.pipe, 0, 0, "")
             ELSE IF IsPlainDot(n.pipe) THEN Plain("WRITE_DOT")
             ELSE Instruction("WRITE_PIPELINE", n.pipe, 0, 0, ""))

\* A break or a continue becomes a jump out of the body whose site is recorded
\* in the innermost loop; the scopes and dots opened since are not unwound.
EmitLoopJump(st, isBreak) ==
    LET s1 == Emit(st, Plain(IF isBreak THEN "BREAK_RANGE" ELSE "JUMP"))
        site == {Len(s1.code)}
        d == Len(st.loops)
    IN IF d = 0 THEN [s1 EXCEPT !.failed = TRUE]
       ELSE IF isBreak THEN [s1 EXCEPT !.loops[d].breaks = @ \cup site]
       ELSE [s1 EXCEPT !.loops[d].continues = @ \cup site]

\* emit_list, a loop over emit_node; the exception of emit_loop_jump abandons
\* the compilation.  emit is emit_node for the nodes of the list.
EmitList(emit, nodes, st) ==
    LET after[k \in 0 .. Len(nodes)] ==
            IF k = 0 THEN st
            ELSE LET before == after[k - 1]
                 IN IF before.failed THEN before ELSE emit[nodes[k]][before]
    IN after[Len(nodes)]

\* A branch that carries no value to save: if, and the frame of with.
\* leave(s) closes the taken body; EXIT_WITH for with, nothing for if.
EmitBranch(emit, n, op, leave, st) ==
    LET s1 == Emit(Emit(st, Plain("PUSH_SCOPE")),
                   Instruction(op, n.pipe, 0, 0, ""))
        branch == {Len(s1.code)}
        s2 == EmitList(emit, n.body, s1)
        s3 == [s2 EXCEPT !.code = @ \o leave]
    IN IF ~n.hasElse
       THEN Emit(Patch(s3, branch, Here(s3)), Plain("POP_SCOPE"))
       ELSE LET s4 == Emit(s3, Plain("JUMP"))
                s5 == EmitList(emit, n.els, Patch(s4, branch, Here(s4)))
            IN Emit(Patch(s5, {Len(s4.code)}, Here(s5)), Plain("POP_SCOPE"))

\* Mutant: with forgets to leave its body.
EmitWithNoExit(emit, n, st) == EmitBranch(emit, n, "ENTER_WITH", <<>>, st)

EmitIf(emit, n, st) == EmitBranch(emit, n, "JUMP_IF_FALSE", <<>>, st)
EmitWith(emit, n, st) == EmitBranch(emit, n, "ENTER_WITH", <<Plain("EXIT_WITH")>>, st)

EmitRange(emit, n, st) ==
    LET s1 == Emit(Emit(st, Plain("PUSH_SCOPE")),
                   Instruction("ITERATE", n.pipe, 0, 0, ""))
        iterate == {Len(s1.code)}
        s2 == EmitList(emit, n.body,
                  [s1 EXCEPT !.loops =
                      Append(@, [breaks |-> {}, continues |-> {}])])
        loop == s2.loops[Len(s2.loops)]
        s3 == Emit([s2 EXCEPT !.loops = SubSeq(@, 1, Len(@) - 1)],
                   Instruction("NEXT_ITERATION", NoPipeline, 0, Here(s1), ""))
        next == {Len(s3.code)}
        s4 == Patch(Patch(s3, loop.continues, Len(s3.code)), iterate, Here(s3))
        s5 == IF n.hasElse THEN EmitList(emit, n.els, s4) ELSE s4
        s6 == Emit(s5, Plain("POP_SCOPE"))
    IN Patch(s6, next \cup loop.breaks, Len(s6.code))

EmitNode(emit, n, st) ==
    CASE n.k = "text"     ->
            Emit(st, Instruction("WRITE_TEXT", NoPipeline, 0, 0, n.text))
      [] n.k = "blank"    -> Emit(st, Plain("WRITE_TEXT"))
      [] n.k = "action"   -> EmitAction(n, st)
      [] n.k = "if"       -> EmitIf(emit, n, st)
      [] n.k = "with"     -> EmitWith(emit, n, st)
      [] n.k = "range"    -> EmitRange(emit, n, st)
      [] n.k = "break"    -> EmitLoopJump(st, TRUE)
      [] n.k = "continue" -> EmitLoopJump(st, FALSE)
      [] OTHER            ->       \* a template call, or a block's call
            Emit(st, Instruction("CALL_TEMPLATE", n.pipe, 0, 0, n.name))

\* emit_node for nodes of at most d levels; the nodes inside have one less.
EmitWithin[d \in Nat] ==
    [n \in NodesWithin[d] |-> [st \in CompilerStates |->
        EmitNode(IF d = 0 THEN <<>> ELSE EmitWithin[d - 1], n, st)]]

CompileList(root) ==
    EmitList(EmitWithin[MaxLevels], root,
             [code |-> <<>>, loops |-> <<>>, failed |-> FALSE])

Compile(root) == CompileList(root).code

\* compile_template: the definitions first, then the root.
CompileTemplate(root, definitions) ==
    LET programs == [d \in DOMAIN definitions |-> CompileList(definitions[d].body)]
                       \o << CompileList(root) >>
    IN [failed |-> \E k \in DOMAIN programs : programs[k].failed,
        codes  |-> {programs[k].code : k \in DOMAIN programs}]

----------------------------------------------------------------------------
\* The stack map of compiled code: what is textually open before each position.
Opened(code, open, close, pc) ==
    Cardinality({i \in 1 .. pc - 1 : code[i].op = open})
      - Cardinality({i \in 1 .. pc - 1 : code[i].op = close})

StackMap(code) ==
    [pc \in 1 .. Len(code) + 1 |->
        Shape(Opened(code, "PUSH_SCOPE", "POP_SCOPE", pc),
              Opened(code, "ENTER_WITH", "EXIT_WITH", pc),
              Opened(code, "ITERATE", "NEXT_ITERATION", pc))]
============================================================================
