----------------------------- MODULE Evaluation -----------------------------
(***************************************************************************)
(* The evaluation of pipelines: the generic evaluator of runtime/sync_vm,  *)
(* its asynchronous twin in runtime/async_vm, and the linked evaluator     *)
(* that runs pipelines resolved ahead of time by runtime/linked.           *)
(*                                                                         *)
(* One template is rendered twice, with the same data: by render(), which  *)
(* takes the linked pipelines when there are enough of them, and by        *)
(* render_async(), which always takes the generic ones.  Each render       *)
(* evaluates one instruction a step; a render shares nothing with another. *)
(* A template here is the straight sequence of its pipelines, with how     *)
(* each is used; jumps, scopes and frames are TemplateVM's.                *)
(***************************************************************************)
EXTENDS Callables

CONSTANTS Templates,     \* the names of the templates
          ProgramOf(_),  \* the instructions of each, a sequence
          Worlds         \* what they are rendered with, a sequence of records

Renders == {"sync", "async"}

VARIABLES template,  \* what is rendered
          world,     \* the index of what it is rendered with
          render     \* [Renders -> the state of a render]

vars == <<template, world, render>>

(* The memory of a render: ok and err say whether it failed, v is the last *)
(* value, calls what the budget was charged, variables the variables, log  *)
(* the bodies that ran and reads the attributes they read.                 *)
Fail(m, e)   == [m EXCEPT !.ok = FALSE, !.err = e]
Give(m, r)   == IF r.ok THEN [m EXCEPT !.v = r.v] ELSE Fail(m, r.err)
Charge(m, e) == IF m.calls + 1 > e.limit THEN Fail(m, "budget") ELSE [m EXCEPT !.calls = @ + 1]

Options(e) == [missing |-> e.missing, sandbox |-> e.sandbox]

LookupVariable(m, name) == IF name \in DOMAIN m.variables THEN m.variables[name] ELSE INVALID

SetVariable(m, name, assignment) ==
  IF assignment /\ name \notin DOMAIN m.variables THEN Fail(m, "variable")
  ELSE [m EXCEPT !.variables = (name :> m.v) @@ @]

Bind(m, pipeline, bind) ==
  IF ~bind THEN m
  ELSE FoldLeft(LAMBDA a, name : IF a.ok THEN SetVariable(a, name, pipeline.assignment) ELSE a,
                m, pipeline.bindings)

(***************************************************************************)
(* Calls.  The budget is charged first, then the signature is checked, and *)
(* only then does the body run.                                            *)
(***************************************************************************)
Finish(m, out, e) ==
  CASE out.how = "value"      -> [m EXCEPT !.v = out.v]
    [] out.how = "template"   -> Fail(m, "template")
    [] out.how = "raise"      -> Fail(m, "failed")
    [] out.how = "await"      -> IF e.async THEN [m EXCEPT !.v = out.v] ELSE Fail(m, "awaitable")
    [] out.how = "awaitraise" -> Fail(m, IF e.async THEN "failed" ELSE "awaitable")

(* Python itself raises when the arguments do not fit.                     *)
RunBody(name, fn, args, operands, m, e) ==
  IF ~ArityFits(CallSpec(fn), Len(args)) THEN Fail(m, "failed")
  ELSE Finish([m EXCEPT !.log = Append(@, [name |-> name, args |-> args, operands |-> operands])],
              Body(name, fn, args), e)

CallUncharged(name, fn, args, operands, m, e) == RunBody(name, fn, args, operands, m, e)

(* The linked evaluator's direct and unary calls check nothing more.       *)
CallDirectly(name, fn, args, operands, m, e) ==
  LET charged == Charge(m, e)
  IN IF charged.ok THEN RunBody(name, fn, args, operands, charged, e) ELSE charged

Implementation(fn, e) ==
  IF e.async /\ "async" \in DOMAIN fn.sigs THEN "async" ELSE "sync"

Invoke(name, fn, args, operands, m, e) ==
  LET charged == Charge(m, e)
      spec    == CallSpec(fn)
  IN IF ~charged.ok THEN charged
     ELSE IF fn.ctx /\ ~e.session THEN Fail(charged, "session")
     ELSE IF Implementation(fn, e) \notin DOMAIN fn.sigs THEN Fail(charged, "awaitable")
     ELSE IF RequiresValidation(spec) /\ ~ArityFits(spec, Len(args)) THEN Fail(charged, "arity")
     ELSE IF RequiresValidation(spec) /\ ~TypesFit(spec, args) THEN Fail(charged, "failed")
     ELSE RunBody(name, fn, args, operands, charged, e)

InvokeMethod(method, args, m, e) ==
  Invoke(method.t, MethodFunction(method), args, args, m, e)

(***************************************************************************)
(* Operands.                                                               *)
(***************************************************************************)
Reads(v, field, m, e) ==
  IF m.ok /\ e.sandbox.active /\ v.k = "object" /\ field \in KeysOf(v)
  THEN [m EXCEPT !.reads = @ \cup {[class |-> EntryOf(v, field).class, field |-> field,
                                     callable |-> IsBoundMethod(m.v)]}] ELSE m

LookupField(v, field, m, e) == Reads(v, field, Give(m, Lookup(v, field, Options(e))), e)

(* A method found before the last field is called for the field after it.  *)
InvokeInside(found, last, e) ==
  IF found.ok /\ ~last /\ IsBoundMethod(found.v) THEN InvokeMethod(found.v, <<>>, found, e) ELSE found

LookupChain(v, fields, m, e) ==
  FoldLeft(LAMBDA r, i : IF ~r.ok \/ (i > 1 /\ r.v = INVALID) THEN r
                         ELSE InvokeInside(LookupField(r.v, fields[i], r, e), i = Len(fields), e),
           [m EXCEPT !.v = v], [i \in DOMAIN fields |-> i])

LookupInside(m, fields, e) == IF m.ok THEN LookupChain(m.v, fields, m, e) ELSE m

PassMethodOn(m, e) == m

InvokeArgumentMethod(m, e) ==
  IF m.ok /\ IsBoundMethod(m.v) THEN InvokeMethod(m.v, <<>>, m, e) ELSE m

RECURSIVE EvaluatePipeline(_, _, _, _)

EvaluateOperand(o, m, e) ==
  CASE o.kind = "dot"      -> [m EXCEPT !.v = e.dot]
    [] o.kind = "nil"      -> [m EXCEPT !.v = UNTYPED_NIL]
    [] o.kind = "constant" -> [m EXCEPT !.v = o.value]
    [] o.kind = "field"    -> LookupChain(e.dot, o.fields, m, e)
    [] o.kind = "variable" -> LookupChain(LookupVariable(m, o.name), o.fields, m, e)
    [] o.kind = "subpipeline" -> LookupInside(EvaluatePipeline(o.pipeline, TRUE, m, e), o.fields, e)
    [] o.kind = "function" ->
         IF o.name \in DOMAIN e.functions
         THEN Invoke(o.name, e.functions[o.name], <<>>, <<>>, m, e) ELSE Fail(m, "undefined")

EvaluateArgument(o, m, e) == InvokeArgumentMethod(EvaluateOperand(o, m, e), e)

(* The arguments are evaluated from the left, up to the first that fails.  *)
EvaluateArguments(operands, m, e) ==
  LET With(args, r) == [m |-> r, args |-> Append(args, r.v)]
  IN FoldLeft(LAMBDA a, o : IF a.m.ok THEN With(a.args, EvaluateArgument(o, a.m, e)) ELSE a,
              [m |-> m, args |-> <<>>], operands)

Piped(args, piped) == IF piped = INVALID THEN args ELSE Append(args, piped)

EvaluateLogical(name, operands, piped, m, e) ==
  LET Judged(r) == [m |-> r, done |-> ~r.ok \/ IsTrue(r.v) = (name = "or")]
      Ended(a)   == IF a.done \/ piped = INVALID THEN a.m ELSE [a.m EXCEPT !.v = piped]
  IN IF operands = <<>> /\ piped = INVALID THEN Fail(m, "argument")
     ELSE Ended(FoldLeft(LAMBDA a, o : IF a.done THEN a ELSE Judged(EvaluateOperand(o, a.m, e)),
                        [m |-> [m EXCEPT !.v = INVALID], done |-> FALSE], operands))

(* A command that starts with a value: a bound method is called with the   *)
(* rest of the command, anything else must stand alone.                    *)
ApplyValue(value, rest, piped, e) ==
  IF ~rest.m.ok THEN rest.m
  ELSE IF IsBoundMethod(value)
  THEN Invoke(value.t, MethodFunction(value), Piped(rest.args, piped), rest.args, rest.m, e)
  ELSE IF Piped(rest.args, piped) # <<>> THEN Fail(rest.m, "arguments")
  ELSE [rest.m EXCEPT !.v = value]

EvaluateValueCommand(command, piped, m, e) ==
  LET Apply(first) == IF first.ok THEN ApplyValue(first.v, EvaluateArguments(Tail(command), first, e), piped, e)
                      ELSE first
  IN Apply(EvaluateOperand(command[1], m, e))

CallFunction(name, rest, piped, e) ==
  IF rest.m.ok THEN Invoke(name, e.functions[name], Piped(rest.args, piped), rest.args, rest.m, e)
  ELSE rest.m

EvaluateCommand(command, piped, m, e) ==
  LET name == command[1].name
  IN IF command[1].kind # "function" THEN EvaluateValueCommand(command, piped, m, e)
     ELSE IF name \in LogicalBuiltins(e.user) THEN EvaluateLogical(name, Tail(command), piped, m, e)
     ELSE IF name \notin DOMAIN e.functions THEN Fail(m, "undefined")
     ELSE CallFunction(name, EvaluateArguments(Tail(command), m, e), piped, e)

Concluded(m, pipeline, bind) == IF m.ok THEN Bind(m, pipeline, bind) ELSE m

EvaluatePipeline(pipeline, bind, m, e) ==
  Concluded(FoldLeft(LAMBDA r, command : IF r.ok THEN EvaluateCommand(command, r.v, r, e) ELSE r,
                     [m EXCEPT !.v = INVALID], pipeline.commands), pipeline, bind)

(***************************************************************************)
(* Linking: what a pipeline becomes, given the functions of the template.  *)
(***************************************************************************)
IsUnaryByArity(command, functions) ==
  /\ Len(command) = 1 /\ command[1].kind = "function"
  /\ command[1].name \in DOMAIN functions \ LogicalNames
  /\ LET fn == functions[command[1].name]
     IN ~fn.ctx /\ (CallSpec(fn).known => ArityFits(CallSpec(fn), 1))

IsUnary(command, functions) ==
  /\ Len(command) = 1 /\ command[1].kind = "function"
  /\ command[1].name \in DOMAIN functions \ LogicalNames
  /\ LET fn == functions[command[1].name]
     IN ~fn.ctx /\ (CallSpec(fn).known => ArityFits(CallSpec(fn), 1) /\ ~ChecksTypes(CallSpec(fn)))

LinksAsLookup(pipeline, functions) ==
  LET commands == pipeline.commands
  IN /\ Len(commands[1]) = 1 /\ commands[1][1].kind \in {"field", "variable"}
     /\ \A i \in 2..Len(commands) : IsUnary(commands[i], functions)

LinksAsCommands(pipeline, functions) ==
  \A i \in DOMAIN pipeline.commands :
    LET first == pipeline.commands[i][1]
    IN first.kind = "function" => first.name \in DOMAIN functions \ LogicalNames

(* Whether the i-th command may skip the checks of the call: counted with  *)
(* the piped value, which a command after the first is taken to receive.   *)
IsDirect(command, i, fn) ==
  LET spec  == CallSpec(fn)
      count == Len(command) - 1 + (IF i > 1 THEN 1 ELSE 0)
  IN ~fn.ctx /\ (spec.known => ArityFits(spec, count) /\ ~ChecksTypes(spec))

Link(pipeline, functions) ==
  CASE LinksAsLookup(pipeline, functions) -> "lookup"
    [] ~LinksAsLookup(pipeline, functions) /\ LinksAsCommands(pipeline, functions) -> "commands"
    [] OTHER -> "none"

IsControl(instruction) == instruction.op \in {"if", "with", "range"}

LinkedCount(program, functions) ==
  Cardinality({i \in DOMAIN program :
    \/ program[i].op = "write" /\ Link(program[i].pipeline, functions) # "none"
    \/ IsControl(program[i]) /\ Link(program[i].pipeline, functions) = "lookup"})

CallCount(program) == Cardinality({i \in DOMAIN program : program[i].op = "call"})

UsesLinked(program, functions) == LinkedCount(program, functions) > CallCount(program)

(***************************************************************************)
(* The linked evaluator.  A lookup pipeline hands its value to one unary   *)
(* function after another, whatever the value is.                          *)
(***************************************************************************)
EvaluateLinkedLookup(pipeline, bind, m, e) ==
  Concluded(FoldLeft(LAMBDA r, command :
                       IF r.ok THEN CallDirectly(command[1].name, e.functions[command[1].name],
                                                 <<r.v>>, <<>>, r, e) ELSE r,
                     EvaluateArgument(pipeline.commands[1][1], m, e), Tail(pipeline.commands)),
            pipeline, bind)

CallLinked(name, direct, rest, piped, e) ==
  IF rest.m.ok /\ direct
  THEN CallDirectly(name, e.functions[name], Piped(rest.args, piped), rest.args, rest.m, e)
  ELSE CallFunction(name, rest, piped, e)

EvaluateLinkedCommand(command, i, m, e) ==
  LET name == command[1].name
  IN IF ~m.ok THEN m
     ELSE IF command[1].kind # "function" THEN EvaluateValueCommand(command, m.v, m, e)
     ELSE CallLinked(name, IsDirect(command, i, e.functions[name]),
                     EvaluateArguments(Tail(command), m, e), m.v, e)

EvaluateLinkedCommands(pipeline, bind, m, e) ==
  Concluded(FoldLeft(LAMBDA r, i : EvaluateLinkedCommand(pipeline.commands[i], i, r, e),
                     [m EXCEPT !.v = INVALID], [i \in DOMAIN pipeline.commands |-> i]),
            pipeline, bind)

(***************************************************************************)
(* The instructions of the two machines.                                   *)
(***************************************************************************)
Environment(r) ==
  LET w == Worlds[world]
  IN [async |-> r = "async", user |-> w.functions, limit |-> w.limit, missing |-> w.missing,
      functions |-> ExecutionRegistry(w.functions, w.sandbox.active), dot |-> w.dot,
      sandbox |-> w.sandbox, session |-> w.session]

Program == ProgramOf(template)

(* Write instructions have a sidecar of any form, controls of lookup form; *)
(* the other pipelines are always evaluated generically.                   *)
EvaluateInstruction(instruction, m, e) ==
  LET form   == Link(instruction.pipeline, e.functions)
      linked == ~e.async /\ UsesLinked(Program, e.functions)
      bind   == instruction.op # "range"
  IN CASE linked /\ form = "lookup" /\ (instruction.op = "write" \/ IsControl(instruction)) ->
            EvaluateLinkedLookup(instruction.pipeline, bind, m, e)
       [] linked /\ form = "commands" /\ instruction.op = "write" ->
            EvaluateLinkedCommands(instruction.pipeline, bind, m, e)
       [] OTHER -> EvaluatePipeline(instruction.pipeline, bind, m, e)

(* What the instruction does with the value, as far as it can be seen.     *)
Use(instruction, m) ==
  LET entries == RangeEntries(m.v, Len(instruction.pipeline.bindings))
  IN CASE ~m.ok -> m
       [] m.ok /\ instruction.op = "write" -> Give(m, Format(m.v))
       [] m.ok /\ instruction.op = "if" -> [m EXCEPT !.v = Bool(IsTrue(m.v))]
       [] m.ok /\ instruction.op = "range" ->
            IF entries.ok THEN [m EXCEPT !.v = List([i \in DOMAIN entries.entries |->
                                                       entries.entries[i].val])]
            ELSE Fail(m, "range")
       [] m.ok /\ instruction.op \in {"with", "eval", "call"} -> m

Init ==
  /\ template \in Templates /\ world \in DOMAIN Worlds
  /\ render = [r \in Renders |->
       [pc |-> 1, out |-> <<>>,
        m |-> [ok |-> TRUE, err |-> "", v |-> INVALID, calls |-> 0, log |-> <<>>, reads |-> {},
               variables |-> [name \in {"$"} |-> Worlds[world].dot]]]]

Running(r) == render[r].m.ok /\ render[r].pc <= Len(Program)

Execute(r) ==
  /\ Running(r)
  /\ LET instruction == Program[render[r].pc]
     IN \E after \in {Use(instruction, EvaluateInstruction(instruction, render[r].m, Environment(r)))} :
          render' = [render EXCEPT ![r].m = after, ![r].pc = @ + 1,
                                   ![r].out = IF after.ok THEN Append(@, after.v) ELSE @]
  /\ UNCHANGED <<template, world>>

Done == \A r \in Renders : ~Running(r)

Next == \E r \in Renders : Execute(r)

Spec == Init /\ [][Next]_vars /\ WF_vars(Next)

-----------------------------------------------------------------------------
(* What a caller can tell of a render: the class of its exception, what it *)
(* wrote, what it was charged and the calls that were made, in order.      *)
ExceptionClass(m) ==
  IF m.ok THEN "none" ELSE IF m.err \in {"awaitable", "budget", "sandbox"} THEN m.err ELSE "execution"

Observed(r) == [class |-> ExceptionClass(render[r].m), out |-> render[r].out,
                calls |-> render[r].m.calls, log |-> render[r].m.log]

Calls(r)  == {render[r].m.log[i] : i \in DOMAIN render[r].m.log}
Handed(c) == {c.args[i] : i \in DOMAIN c.args}

(* A function was handed on, by the pipeline, a value that is not there.   *)
HandsOnMissing ==
  \E c \in Calls("sync") : Len(c.args) > Len(c.operands) /\ Last(c.args) = INVALID

(* The linked sidecar "preserves the generic reference program"            *)
(* (runtime/linked.py): whenever render() does not need an awaitable, it   *)
(* writes, calls and is charged what render_async() does, and fails when   *)
(* it does.                                                                *)
SyncMatchesAsync ==
  Done /\ render["sync"].m.err # "awaitable" => Observed("sync") = Observed("async")

(* The same, but for pipelines that hand on a missing value: every other   *)
(* pipeline that is linked, as a lookup or as commands, direct or checked, *)
(* does what the generic evaluator does.                                   *)
MatchesUnlessMissing ==
  Done /\ render["sync"].m.err # "awaitable" /\ ~HandsOnMissing =>
    Observed("sync") = Observed("async")

(* No body runs before the budget was charged for it, on any path: the     *)
(* bodies that ran never outnumber the calls charged, nor these the limit. *)
ChargedBeforeCalled ==
  \A r \in Renders : /\ Len(render[r].m.log) <= render[r].m.calls
                      /\ render[r].m.calls <= Worlds[world].limit

(* A bound method among the operands of a call is called, not passed on:   *)
(* whether it comes from a field, a chain, a sub-pipeline or a variable,   *)
(* no body is given one as an operand.                                     *)
OperandsInvoked ==
  \A r \in Renders : \A c \in Calls(r) : \A i \in DOMAIN c.operands : ~IsBoundMethod(c.operands[i])

(* With missing_key="error" a field that is not there stops the render: no *)
(* body is handed a missing value, and no variable holds one, except those *)
(* that index made, which looks a key up without asking the mode.          *)
MissingKeyStops ==
  Worlds[world].missing = "error" =>
    \A r \in Renders :
      (\A c \in Calls(r) : c.name # "index") =>
        /\ \A c \in Calls(r) : INVALID \notin Handed(c)
        /\ \A x \in DOMAIN render[r].m.variables : render[r].m.variables[x] # INVALID

(* Under a policy, whatever the way a pipeline reaches it, each attribute  *)
(* read from an object is on the list for what it is.                      *)
ReadsAreGranted ==
  LET policy == Worlds[world].sandbox
  IN \A r \in Renders : \A read \in render[r].m.reads :
       CASE read.class \in {"property", "failing"} -> read.field \in policy.properties
         [] read.class = "method" -> read.field \in policy.methods
         [] OTHER -> read.field \in policy.attributes /\ (read.callable => read.field \in policy.methods)
=============================================================================
