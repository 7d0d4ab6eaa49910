----------------------------- MODULE TemplateVM -----------------------------
(***************************************************************************)
(* The execution loop of the template virtual machine                      *)
(* (gotpl/runtime/sync_vm.py, _render_program_to): one render of one       *)
(* association, an action per opcode.  The loop of async_vm.py performs    *)
(* the same steps with awaits at the calls and the writes; a render owns   *)
(* all the state below, so the awaits add no interleaving to it.  What     *)
(* nested renders share is the subject of RenderSession.                   *)
(***************************************************************************)
EXTENDS TemplateProgram

CONSTANTS
    Names,          \* the templates of the association
    Prog,           \* the compiled program of each template
    Map,            \* the stack map of each program
    RootName,       \* the template being rendered
    Vars,           \* variable names
    RootVar,        \* the variable "$"
    Values,         \* data values
    Truthy,         \* those for which ValueAdapter.is_true holds
    Invalid,        \* the INVALID value, of a missing field or variable
    Unset,          \* marks a variable a scope does not hold
    ValueSizes,     \* possible lengths of a formatted value
    MaxItems,       \* bound: items an iterator yields
    NoLimit,        \* None, as a limit
    MaxOutput, MaxIterations, MaxCalls, MaxTemplateDepth,  \* ExecutionBudget
    HardDepth,      \* _MAX_TEMPLATE_DEPTH
    BaseDepth       \* the _depth argument of the render

Limits == Nat \cup {NoLimit}

Instructions ==
    [op : OpCodes,
     pipe : [binds : Seq(Vars), assign : BOOLEAN,
             src : Vars \cup {"dot", "data", "none"}, calls : Nat],
     target : Nat, body : Nat, name : STRING]

ASSUME ProgramAssumption ==
    /\ RootName \in Names
    /\ Names \subseteq STRING
    /\ DOMAIN Prog = Names
    /\ \A n \in Names : Prog[n] \in Seq(Instructions)

\* Every program passes the stack verification of TemplateProgram, as compiled
\* code does (CompiledVerified of FrontEnd).
ASSUME VerifiedAssumption ==
    /\ DOMAIN Map = Names
    /\ \A n \in Names : Verified(Prog[n], Map[n])

ASSUME ValueAssumption ==
    /\ RootVar \in Vars
    /\ {"dot", "data", "none"} \cap Vars = {}
    /\ Truthy \subseteq Values
    /\ Invalid \in Values \ Truthy
    /\ Unset \notin Values
    /\ ValueSizes \subseteq Nat

ASSUME LimitAssumption ==
    /\ NoLimit \notin Nat
    /\ {MaxItems, MaxOutput, MaxIterations, MaxCalls, MaxTemplateDepth}
         \subseteq Limits
    /\ HardDepth \in Nat
    /\ BaseDepth \in Nat

Within(n, limit) == limit # NoLimit => n <= limit

----------------------------------------------------------------------------
VARIABLES
    status,     \* "running", "done" or "failed"
    cause,      \* why it failed: "none", "exec", "budget", "depth", "io", ...
    prog, pc,   \* current_program and the position in it
    ctx,        \* the current _ExecutionContext
    frames,     \* the lazily allocated caller stack
    used,       \* ExecutionBudgetState
    written     \* characters the underlying writer accepted

vars == <<status, cause, prog, pc, ctx, frames, used, written>>

Statuses == {"running", "done", "failed"}
Causes == {"none", "exec", "budget", "depth", "io", "internal", "undefined"}

Scopes == [Vars -> Values \cup {Unset}]
EmptyScope == [v \in Vars |-> Unset]

Contexts ==
    [root : Values, dot : Values,
     scopes : Seq(Scopes), dots : Seq(Values),
     ranges : Seq([dot : Values, produced : Nat, pipe : {i.pipe : i \in
                   UNION {{Prog[n][k] : k \in DOMAIN Prog[n]} : n \in Names}}])]

\* A fresh context; None and the empty list are the same empty stack.
NewContext(dot) ==
    [root |-> dot, dot |-> dot, scopes |-> <<>>, dots |-> <<>>, ranges |-> <<>>]

Init ==
    /\ status = IF BaseDepth < HardDepth THEN "running" ELSE "failed"
    /\ cause = IF BaseDepth < HardDepth THEN "none" ELSE "depth"
    /\ prog = RootName /\ pc = 1
    /\ \E data \in Values : ctx = NewContext(data)
    /\ frames = <<>>
    /\ used = [output |-> 0, iterations |-> 0, calls |-> 0]
    /\ written = 0

----------------------------------------------------------------------------
(* Variables and pipelines                                                  *)

\* Position i holds the innermost scope with a value for v.
Holds(c, v, i) ==
    /\ i \in DOMAIN c.scopes
    /\ c.scopes[i][v] # Unset
    /\ \A j \in DOMAIN c.scopes : j > i => c.scopes[j][v] = Unset

Bound(c, v) == \E i \in DOMAIN c.scopes : Holds(c, v, i)

LookupVariable(c, v) ==
    IF Bound(c, v) THEN c.scopes[CHOOSE i \in DOMAIN c.scopes : Holds(c, v, i)][v]
    ELSE IF v = RootVar THEN c.root ELSE Invalid

Assignable(c, v) == Bound(c, v) \/ v = RootVar

Assign(c, v, value) ==
    IF Bound(c, v)
    THEN LET i == CHOOSE k \in DOMAIN c.scopes : Holds(c, v, k)
         IN [c EXCEPT !.scopes[i][v] = value]
    ELSE [c EXCEPT !.root = value]

Declare(c, v, value) ==
    IF c.scopes = <<>>
    THEN [c EXCEPT !.scopes = <<[EmptyScope EXCEPT ![v] = value]>>]
    ELSE [c EXCEPT !.scopes[Len(c.scopes)][v] = value]

SetVariable(c, v, value, assignment) ==
    IF assignment THEN Assign(c, v, value) ELSE Declare(c, v, value)

\* An action, if or with binds at most one variable.
CanBind(c, p) == p.assign /\ p.binds # <<>> => Assignable(c, p.binds[1])
Bind(c, p, value) ==
    IF p.binds = <<>> THEN c ELSE SetVariable(c, p.binds[1], value, p.assign)

\* The values a pipeline can have.
PipelineValues(c, p) ==
    CASE p.src = "dot"  -> {c.dot}
      [] p.src = "data" -> Values
      [] p.src = "none" -> {Invalid}
      [] OTHER          -> {LookupVariable(c, p.src)}

Instr == Prog[prog][pc]
At(op) == status = "running" /\ pc \in 1 .. Len(Prog[prog]) /\ Instr.op = op

Fail(why) ==
    /\ status' = "failed" /\ cause' = why
    /\ UNCHANGED <<prog, pc, ctx, frames, written>>

\* Every function call of the pipeline is charged before it is made.
ChargeCalls(p) ==
    /\ Within(used.calls + p.calls, MaxCalls)
    /\ used' = [used EXCEPT !.calls = @ + p.calls]

Proceed == UNCHANGED <<status, cause>>

PipelineOps == {"WRITE_PIPELINE", "EVAL_PIPELINE", "JUMP_IF_FALSE",
                "ENTER_WITH", "ITERATE", "CALL_TEMPLATE"}

\* A pipeline raises after k of its calls: the budget refuses the next call, a
\* call fails, or a lookup in the data does.
PipelineFails ==
    /\ status = "running" /\ pc \in 1 .. Len(Prog[prog])
    /\ Instr.op \in PipelineOps
    /\ Instr.op = "CALL_TEMPLATE" => Instr.name \in Names
    /\ LET p == Instr.pipe IN
       \E k \in 0 .. p.calls :
          /\ Within(used.calls + k, MaxCalls)
          /\ used' = [used EXCEPT !.calls = @ + k]
          /\ IF k < p.calls /\ ~Within(used.calls + k + 1, MaxCalls)
             THEN Fail("budget")
             ELSE (k > 0 \/ p.src = "data") /\ Fail("exec")

\* set_variable refuses to assign a variable nothing declared.
BindingFails ==
    /\ status = "running" /\ pc \in 1 .. Len(Prog[prog])
    /\ Instr.op \in PipelineOps \ {"ITERATE"}
    /\ ~CanBind(ctx, Instr.pipe)
    /\ ChargeCalls(Instr.pipe)
    /\ Fail("undefined")

----------------------------------------------------------------------------
(* Output: _BudgetedWriter charges, then writes; _write_text refuses a      *)
(* short write.                                                             *)

\* Mutant: the chunk reaches the writer before it is charged.
WriteBeforeCharge(n, u) ==
    /\ written' = written + n
    /\ IF Within(u.output + n, MaxOutput)
       THEN /\ used' = [u EXCEPT !.output = @ + n]
            /\ pc' = pc + 1
            /\ UNCHANGED <<prog, ctx, frames>> /\ Proceed
       ELSE /\ used' = u
            /\ status' = "failed" /\ cause' = "budget"
            /\ UNCHANGED <<prog, pc, ctx, frames>>

\* Write n characters once the budget stands at u.
Write(n, u) ==
    IF Within(u.output + n, MaxOutput)
    THEN /\ used' = [u EXCEPT !.output = @ + n]
         /\ \/ /\ written' = written + n
               /\ pc' = pc + 1
               /\ UNCHANGED <<prog, ctx, frames>> /\ Proceed
            \/ \E accepted \in 0 .. n - 1 :
                  /\ written' = written + accepted
                  /\ status' = "failed" /\ cause' = "io"
                  /\ UNCHANGED <<prog, pc, ctx, frames>>
    ELSE used' = u /\ Fail("budget")

WriteText == At("WRITE_TEXT") /\ Write(1, used)

WriteDot == At("WRITE_DOT") /\ \E n \in ValueSizes : Write(n, used)

\* The calls of the pipeline and its output in one step: nothing runs between.
WritePipeline ==
    /\ At("WRITE_PIPELINE")
    /\ Within(used.calls + Instr.pipe.calls, MaxCalls)
    /\ \E n \in ValueSizes :
          Write(n, [used EXCEPT !.calls = @ + Instr.pipe.calls])

EvalPipeline ==
    /\ At("EVAL_PIPELINE")
    /\ CanBind(ctx, Instr.pipe)
    /\ ChargeCalls(Instr.pipe)
    /\ \E value \in PipelineValues(ctx, Instr.pipe) :
          ctx' = Bind(ctx, Instr.pipe, value)
    /\ pc' = pc + 1
    /\ UNCHANGED <<prog, frames, written>> /\ Proceed

----------------------------------------------------------------------------
(* Scopes, conditions and with                                              *)

PushScope ==
    /\ At("PUSH_SCOPE")
    /\ ctx' = [ctx EXCEPT !.scopes = Append(@, EmptyScope)]
    /\ pc' = pc + 1
    /\ UNCHANGED <<prog, frames, used, written>> /\ Proceed

DropLast(s) == SubSeq(s, 1, Len(s) - 1)

PopScope ==
    /\ At("POP_SCOPE")
    /\ UNCHANGED used
    /\ IF ctx.scopes = <<>> THEN Fail("internal")
       ELSE /\ ctx' = [ctx EXCEPT !.scopes = DropLast(@)]
            /\ pc' = pc + 1
            /\ UNCHANGED <<prog, frames, written>> /\ Proceed

\* Mutant: the branch is patched one instruction late, past POP_SCOPE.
AfterTestLate(value) ==
    IF value \in Truthy THEN pc + 1 ELSE Instr.target + 1

\* A true condition falls through, a false one jumps.
AfterTest(value) == IF value \in Truthy THEN pc + 1 ELSE Instr.target

JumpIfFalse ==
    /\ At("JUMP_IF_FALSE")
    /\ CanBind(ctx, Instr.pipe)
    /\ ChargeCalls(Instr.pipe)
    /\ \E value \in PipelineValues(ctx, Instr.pipe) :
          /\ ctx' = Bind(ctx, Instr.pipe, value)
          /\ pc' = AfterTest(value)
    /\ UNCHANGED <<prog, frames, written>> /\ Proceed

\* Mutant: with moves dot without saving it.
SaveDotLost(c, value) == [c EXCEPT !.dot = value]

SaveDot(c, value) == [c EXCEPT !.dots = Append(@, c.dot), !.dot = value]

EnterWith ==
    /\ At("ENTER_WITH")
    /\ CanBind(ctx, Instr.pipe)
    /\ ChargeCalls(Instr.pipe)
    /\ \E value \in PipelineValues(ctx, Instr.pipe) :
          LET c == Bind(ctx, Instr.pipe, value) IN
          /\ ctx' = IF value \in Truthy THEN SaveDot(c, value) ELSE c
          /\ pc' = AfterTest(value)
    /\ UNCHANGED <<prog, frames, written>> /\ Proceed

ExitWith ==
    /\ At("EXIT_WITH")
    /\ UNCHANGED used
    /\ IF ctx.dots = <<>> THEN Fail("internal")
       ELSE /\ ctx' = [ctx EXCEPT !.dot = ctx.dots[Len(ctx.dots)],
                                  !.dots = DropLast(@)]
            /\ pc' = pc + 1
            /\ UNCHANGED <<prog, frames, written>> /\ Proceed

----------------------------------------------------------------------------
(* Ranges                                                                   *)

CanBindItem(c, p) ==
    p.assign => \A k \in DOMAIN p.binds : Assignable(c, p.binds[k])

\* _enter_range_item: dot and the one or two range variables.
EnterItem(c, p, key, item) ==
    LET d == [c EXCEPT !.dot = item] IN
    CASE Len(p.binds) = 1 -> SetVariable(d, p.binds[1], item, p.assign)
      [] Len(p.binds) = 2 ->
            SetVariable(SetVariable(d, p.binds[1], key, p.assign),
                        p.binds[2], item, p.assign)
      [] OTHER -> d

\* Mutant: the first item is free, and so is every other.
ChargeIterationFree(u) == u

ChargeIteration(u) == [u EXCEPT !.iterations = @ + 1]

\* The iterator delivered an item: it is charged before the body sees it.
\* c is the context whose range stack is ready for the body.
Deliver(c, p, u, body) ==
    IF ~Within(u.iterations + 1, MaxIterations) THEN used' = u /\ Fail("budget")
    ELSE /\ used' = ChargeIteration(u)
         /\ IF ~CanBindItem(c, p) THEN Fail("undefined")
            ELSE /\ \E key, item \in Values : ctx' = EnterItem(c, p, key, item)
                 /\ pc' = body
                 /\ UNCHANGED <<prog, frames, written>> /\ Proceed

PushRange(c, p) ==
    [c EXCEPT !.ranges = Append(@, [dot |-> c.dot, produced |-> 1, pipe |-> p])]

Iterate ==
    /\ At("ITERATE")
    /\ Within(used.calls + Instr.pipe.calls, MaxCalls)
    /\ LET u == [used EXCEPT !.calls = @ + Instr.pipe.calls] IN
       \/ /\ pc' = Instr.target          \* no item
          /\ used' = u
          /\ UNCHANGED <<prog, ctx, frames, written>> /\ Proceed
       \/ used' = u /\ Fail("exec")       \* not iterable, or the iterator raised
       \/ /\ Within(1, MaxItems)
          /\ Deliver(PushRange(ctx, Instr.pipe), Instr.pipe, u, pc + 1)

\* The bound on the data needs the count, an unbounded iterator does not.
Produced(r) ==
    [r EXCEPT !.produced = IF MaxItems = NoLimit THEN @ ELSE @ + 1]

TopRange == ctx.ranges[Len(ctx.ranges)]

\* Mutant: the range ends with the dot of its last item.
LeaveRangeKeepsDot(c) == [c EXCEPT !.ranges = DropLast(@)]

\* Mutant: the dot is restored, the iterator stays on the stack.
LeaveRangeKeepsState(c) == [c EXCEPT !.dot = c.ranges[Len(c.ranges)].dot]

\* Leave the innermost range, with the dot it was entered with.
LeaveRange(c) ==
    [c EXCEPT !.dot = c.ranges[Len(c.ranges)].dot, !.ranges = DropLast(@)]

NextIteration ==
    /\ At("NEXT_ITERATION")
    /\ IF ctx.ranges = <<>> THEN UNCHANGED used /\ Fail("internal")
       ELSE \/ /\ ctx' = LeaveRange(ctx)
               /\ pc' = Instr.target
               /\ UNCHANGED <<prog, frames, used, written>> /\ Proceed
            \/ UNCHANGED used /\ Fail("exec")
            \/ /\ Within(TopRange.produced + 1, MaxItems)
               /\ Deliver([ctx EXCEPT !.ranges[Len(ctx.ranges)] = Produced(@)],
                          TopRange.pipe, used, Instr.body)

BreakRange ==
    /\ At("BREAK_RANGE")
    /\ UNCHANGED used
    /\ IF ctx.ranges = <<>> THEN Fail("internal")
       ELSE /\ ctx' = LeaveRange(ctx)
            /\ pc' = Instr.target
            /\ UNCHANGED <<prog, frames, written>> /\ Proceed

Jump ==
    /\ At("JUMP")
    /\ pc' = Instr.target
    /\ UNCHANGED <<prog, ctx, frames, used, written>> /\ Proceed

----------------------------------------------------------------------------
(* Calls of associated templates                                            *)

Depth == BaseDepth + Len(frames)

\* Mutant: the limit is compared with the calls active so far.
DepthBudgetAllowsOneMore == Within(Depth, MaxTemplateDepth)

\* What CALL_TEMPLATE checks before it pushes a frame.
DepthBudgetAllows == Within(Depth + 1, MaxTemplateDepth)

\* Enter the callee on a fresh context: it sees nothing of the caller's.
EnterTemplate(name, dot) ==
    /\ frames' = Append(frames, [prog |-> prog, ctx |-> ctx, pc |-> pc + 1])
    /\ prog' = name /\ pc' = 1
    /\ ctx' = NewContext(dot)
    /\ UNCHANGED written /\ Proceed

CallTemplate ==
    /\ At("CALL_TEMPLATE")
    /\ IF Instr.name \notin Names THEN UNCHANGED used /\ Fail("exec")
       ELSE /\ ChargeCalls(Instr.pipe)
            /\ CanBind(ctx, Instr.pipe)
            /\ IF ~DepthBudgetAllows THEN Fail("budget")
               ELSE IF Depth >= HardDepth THEN Fail("depth")
               ELSE \E dot \in PipelineValues(ctx, Instr.pipe) :
                       EnterTemplate(Instr.name, dot)

\* Mutant: the caller's context and position come back, its program does not.
ReturnToCallee ==
    /\ status = "running" /\ pc > Len(Prog[prog])
    /\ UNCHANGED <<used, written, cause, prog>>
    /\ IF frames = <<>>
       THEN status' = "done" /\ UNCHANGED <<pc, ctx, frames>>
       ELSE LET f == frames[Len(frames)] IN
            /\ pc' = f.pc /\ ctx' = f.ctx
            /\ frames' = DropLast(frames)
            /\ UNCHANGED status

\* The program ends: resume the caller's frame, or finish the render.
Return ==
    /\ status = "running" /\ pc > Len(Prog[prog])
    /\ UNCHANGED <<used, written, cause>>
    /\ IF frames = <<>>
       THEN status' = "done" /\ UNCHANGED <<prog, pc, ctx, frames>>
       ELSE LET f == frames[Len(frames)] IN
            /\ prog' = f.prog /\ pc' = f.pc /\ ctx' = f.ctx
            /\ frames' = DropLast(frames)
            /\ UNCHANGED status

Stopped == status # "running" /\ UNCHANGED vars

Next ==
    \/ WriteText \/ WriteDot \/ WritePipeline \/ EvalPipeline
    \/ PushScope \/ PopScope \/ JumpIfFalse \/ EnterWith \/ ExitWith
    \/ Iterate \/ NextIteration \/ BreakRange \/ Jump
    \/ CallTemplate \/ Return
    \/ PipelineFails \/ BindingFails
    \/ Stopped

Spec == Init /\ [][Next]_vars

\* One thread runs the loop to its end; nothing else can hold it up.
FairSpec == Spec /\ WF_vars(Next)

----------------------------------------------------------------------------
(* Type invariant                                                           *)

Budgets == [output : Nat, iterations : Nat, calls : Nat]

FrameOK(n, c, k) == n \in Names /\ c \in Contexts /\ k \in 1 .. Len(Prog[n]) + 1

\* Every variable has its type; in particular the position stays in the program.
TypeOK ==
    /\ status \in Statuses /\ cause \in Causes
    /\ FrameOK(prog, ctx, pc)
    /\ frames \in Seq([prog : Names, ctx : Contexts, pc : Nat])
    /\ \A k \in DOMAIN frames :
          FrameOK(frames[k].prog, frames[k].ctx, frames[k].pc)
    /\ used \in Budgets
    /\ written \in Nat

(* Safety                                                                   *)

StacksServe(n, c, k) ==
    Serves(Shape(Len(c.scopes), Len(c.dots), Len(c.ranges)), Map[n][k])

\* The stacks of the running context and of every suspended caller hold what
\* the code ahead of them takes: the range stack exactly, scopes and saved
\* dots at least (sync_vm.py _RangeState saves neither, so a break or a
\* continue out of an if or a with leaves a surplus).
StackDiscipline ==
    /\ status = "running" => StacksServe(prog, ctx, pc)
    /\ \A k \in DOMAIN frames :
          StacksServe(frames[k].prog, frames[k].ctx, frames[k].pc)

\* The loop never meets an empty stack: none of its "invalid compiled ..."
\* errors can be raised by compiled code.
NoInternalError == cause # "internal"

\* Output is charged before the writer sees it, every counter stays within its
\* limit, failed renders included (policy.py _consume, _BudgetedWriter), and the
\* active template calls respect the budget and the hard limit (sync_vm.py
\* CALL_TEMPLATE, "frames in one associated-template execution").
CountersBounded ==
    /\ written <= used.output
    /\ Within(used.output, MaxOutput)
    /\ Within(used.iterations, MaxIterations)
    /\ Within(used.calls, MaxCalls)
DepthBounded ==
    frames # <<>> => /\ Within(BaseDepth + Len(frames), MaxTemplateDepth)
                     /\ BaseDepth + Len(frames) <= HardDepth
WithinBudget == CountersBounded /\ DepthBounded

\* A scope lives as long as its block: at most one scope more than the blocks
\* open here (pop_scope, "Leave the current lexical scope"), the one that a
\* declaration outside every block opens.
LexicalScopes ==
    status = "running" => Len(ctx.scopes) <= Map[prog][pc].scopes + 1

AssignsRoot ==
    \E n \in Names : \E k \in DOMAIN Prog[n] :
        \E b \in DOMAIN Prog[n][k].pipe.binds : Prog[n][k].pipe.binds[b] = RootVar

\* Outside every with and range, dot is what the template was called with.
DotRestored ==
    LET m == Map[prog][pc] IN
    status = "running" /\ m.dots = 0 /\ m.ranges = 0 /\ ~AssignsRoot
        => ctx.dot = ctx.root

(* Liveness                                                                 *)

\* With finite data or an iteration budget every render ends.
Terminates == <>(status # "running")
============================================================================
