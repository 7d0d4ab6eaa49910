------------------------- MODULE TemplateVM_proofs -------------------------
(***************************************************************************)
(* Theorems about the execution loop, for every association whose programs *)
(* pass the stack verification, all data and all limits.                   *)
(*                                                                         *)
(* A step does one of a few things to the running context: it leaves it,   *)
(* sets a variable in it, or pushes or pops one of its stacks.  The first  *)
(* lemmas give the type and the shape of the result; the invariants then   *)
(* have one case per opcode.                                               *)
(***************************************************************************)
EXTENDS TemplateVM, SequenceTheorems, FiniteSetTheorems, TLAPS

----------------------------------------------------------------------------
(* Types                                                                    *)

Pipes == {i.pipe : i \in UNION {{Prog[n][k] : k \in DOMAIN Prog[n]} : n \in Names}}
RangeStates == [dot : Values, produced : Nat, pipe : Pipes]

LEMMA ContextsType ==
    Contexts = [root : Values, dot : Values, scopes : Seq(Scopes),
                dots : Seq(Values), ranges : Seq(RangeStates)]
BY DEF Contexts, RangeStates, Pipes

LEMMA PipesType ==
    ASSUME NEW p \in Pipes
    PROVE  /\ p.binds \in Seq(Vars) /\ p.assign \in BOOLEAN
           /\ p.src \in Vars \cup {"dot", "data", "none"} /\ p.calls \in Nat
<1>1. PICK n \in Names : \E k \in DOMAIN Prog[n] : p = Prog[n][k].pipe
  BY DEF Pipes
<1>2. PICK k \in DOMAIN Prog[n] : p = Prog[n][k].pipe
  BY <1>1
<1>3. Prog[n] \in Seq(Instructions)
  BY ProgramAssumption DEF ProgramAssumption
<1>4. Prog[n][k] \in Instructions
  BY <1>3
<1>5. QED
  BY <1>2, <1>4 DEF Instructions

\* What the stack map says of an instruction, spelled out.
LEMMA InstructionFacts ==
    ASSUME NEW n \in Names, NEW k \in 1 .. Len(Prog[n])
    PROVE  /\ Prog[n][k] \in Instructions /\ Prog[n][k].pipe \in Pipes
           /\ Map[n] \in [1 .. Len(Prog[n]) + 1 ->
                             [scopes : Nat, dots : Nat, ranges : Nat]]
           /\ HasOperands(Prog[n][k].op, Map[n][k])
           /\ Prog[n][k].op \notin NoFallThroughOps =>
                Serves(FallThrough(Prog[n][k].op, Map[n][k]), Map[n][k + 1])
           /\ Prog[n][k].op \in JumpOps =>
                /\ Prog[n][k].target \in 1 .. Len(Prog[n]) + 1
                /\ Serves(Jumping(Prog[n][k].op, Map[n][k]), Map[n][Prog[n][k].target])
           /\ Prog[n][k].op = "NEXT_ITERATION" =>
                /\ Prog[n][k].body \in 1 .. Len(Prog[n]) + 1
                /\ Serves(Map[n][k], Map[n][Prog[n][k].body])
<1>1. Verified(Prog[n], Map[n])
  BY VerifiedAssumption DEF VerifiedAssumption
<1>2. Prog[n] \in Seq(Instructions)
  BY ProgramAssumption DEF ProgramAssumption
<1>3. Prog[n][k] \in Instructions
  BY <1>2
<1>4. Prog[n][k].pipe \in Pipes
  BY <1>2 DEF Pipes
<1>5. QED
  BY <1>1, <1>3, <1>4 DEF Verified

\* Values fill one variable of one scope.
LEMMA ScopesUpdate ==
    ASSUME NEW s \in Seq(Scopes), NEW i \in 1 .. Len(s),
           NEW v \in Vars, NEW value \in Values
    PROVE  /\ [s EXCEPT ![i][v] = value] \in Seq(Scopes)
           /\ Len([s EXCEPT ![i][v] = value]) = Len(s)
<1>1. s[i] \in Scopes
  OBVIOUS
<1>2. [s[i] EXCEPT ![v] = value] \in Scopes
  BY <1>1 DEF Scopes
<1>3. [s EXCEPT ![i][v] = value] = [s EXCEPT ![i] = [s[i] EXCEPT ![v] = value]]
  OBVIOUS
<1>4. QED
  BY <1>1, <1>2, <1>3

\* Context d is c with its scopes replaced by s.
Rescoped(d, c, s) ==
    /\ d \in Contexts /\ d.scopes = s
    /\ d.root = c.root /\ d.dot = c.dot /\ d.dots = c.dots /\ d.ranges = c.ranges

LEMMA WithScopes ==
    ASSUME NEW c \in Contexts, NEW s \in Seq(Scopes)
    PROVE  Rescoped([c EXCEPT !.scopes = s], c, s)
BY ContextsType DEF Rescoped

\* Context d has the stacks of c, except that a declaration outside every
\* block may have opened a scope, and its dot is dot.
Keeps(d, c, dot) ==
    /\ d \in Contexts /\ d.dot = dot
    /\ d.dots = c.dots /\ d.ranges = c.ranges
    /\ Len(d.scopes) >= Len(c.scopes)

LEMMA SetVariableKeeps ==
    ASSUME NEW c \in Contexts, NEW v \in Vars, NEW value \in Values,
           NEW assignment \in BOOLEAN
    PROVE  Keeps(SetVariable(c, v, value, assignment), c, c.dot)
<1>1. c.scopes \in Seq(Scopes)
  BY ContextsType
<1> SUFFICES ASSUME NEW d, d = SetVariable(c, v, value, assignment)
             PROVE  Keeps(d, c, c.dot)
  OBVIOUS
<1>2. ASSUME NEW s \in Seq(Scopes), Len(s) >= Len(c.scopes),
             d = [c EXCEPT !.scopes = s]
      PROVE  Keeps(d, c, c.dot)
  <2>1. Rescoped(d, c, s)
    BY <1>2, WithScopes
  <2>2. QED
    BY <1>2, <2>1 DEF Rescoped, Keeps
<1>3. CASE ~assignment /\ c.scopes = <<>>
  <2> DEFINE s == <<[EmptyScope EXCEPT ![v] = value]>>
  <2>1. [EmptyScope EXCEPT ![v] = value] \in Scopes
    BY DEF EmptyScope, Scopes
  <2>2. s \in Seq(Scopes) /\ Len(s) = 1
    BY <2>1
  <2>3. d = [c EXCEPT !.scopes = s]
    BY <1>3 DEF SetVariable, Declare
  <2> HIDE DEF s
  <2>4. QED
    BY <1>2, <1>3, <2>2, <2>3
<1>4. CASE ~assignment /\ c.scopes # <<>>
  <2> DEFINE s == [c.scopes EXCEPT ![Len(c.scopes)][v] = value]
  <2>1. Len(c.scopes) \in 1 .. Len(c.scopes)
    BY <1>1, <1>4
  <2>2. s \in Seq(Scopes) /\ Len(s) = Len(c.scopes)
    BY <1>1, <2>1, ScopesUpdate
  <2>3. d = [c EXCEPT !.scopes[Len(c.scopes)][v] = value]
    BY <1>4 DEF SetVariable, Declare
  <2>4. d = [c EXCEPT !.scopes = s]
    BY <2>3, ContextsType
  <2> HIDE DEF s
  <2>5. QED
    BY <1>1, <1>2, <2>2, <2>4
<1>5. CASE assignment /\ Bound(c, v)
  <2>1. PICK i \in DOMAIN c.scopes : i = CHOOSE k \in DOMAIN c.scopes : Holds(c, v, k)
    BY <1>5 DEF Bound
  <2> DEFINE s == [c.scopes EXCEPT ![i][v] = value]
  <2>2. s \in Seq(Scopes) /\ Len(s) = Len(c.scopes)
    BY <1>1, ScopesUpdate
  <2>3. d = [c EXCEPT !.scopes[i][v] = value]
    BY <1>5, <2>1 DEF SetVariable, Assign
  <2>4. d = [c EXCEPT !.scopes = s]
    BY <2>3, ContextsType
  <2> HIDE DEF s
  <2>5. QED
    BY <1>1, <1>2, <2>2, <2>4
<1>6. CASE assignment /\ ~Bound(c, v)
  <2>1. d = [c EXCEPT !.root = value]
    BY <1>6 DEF SetVariable, Assign
  <2>2. d \in Contexts
    BY <2>1, ContextsType
  <2>3. QED
    BY <1>1, <2>1, <2>2, ContextsType DEF Keeps
<1>7. QED
  BY <1>3, <1>4, <1>5, <1>6

LEMMA BindKeeps ==
    ASSUME NEW c \in Contexts, NEW p \in Pipes, NEW value \in Values
    PROVE  Keeps(Bind(c, p, value), c, c.dot)
<1>1. p.binds \in Seq(Vars) /\ p.assign \in BOOLEAN
  BY PipesType
<1>2. CASE p.binds = <<>>
  BY <1>2, ContextsType DEF Bind, Keeps
<1>3. CASE p.binds # <<>>
  <2>1. p.binds[1] \in Vars
    BY <1>1, <1>3
  <2>2. QED
    BY <1>1, <1>3, <2>1, SetVariableKeeps DEF Bind
<1>4. QED
  BY <1>2, <1>3

LEMMA EnterItemKeeps ==
    ASSUME NEW c \in Contexts, NEW p \in Pipes,
           NEW key \in Values, NEW item \in Values
    PROVE  Keeps(EnterItem(c, p, key, item), c, item)
<1>1. p.binds \in Seq(Vars) /\ p.assign \in BOOLEAN
  BY PipesType
<1> DEFINE d == [c EXCEPT !.dot = item]
<1>2. Keeps(d, c, item)
  BY ContextsType DEF Keeps
<1>3. d \in Contexts /\ d.dot = item
  BY <1>2 DEF Keeps
<1>4. EnterItem(c, p, key, item) =
        CASE Len(p.binds) = 1 -> SetVariable(d, p.binds[1], item, p.assign)
          [] Len(p.binds) = 2 ->
                SetVariable(SetVariable(d, p.binds[1], key, p.assign),
                            p.binds[2], item, p.assign)
          [] OTHER -> d
  BY DEF EnterItem
<1> HIDE DEF d
<1>5. CASE Len(p.binds) = 1
  <2>1. p.binds[1] \in Vars
    BY <1>1, <1>5
  <2>2. Keeps(SetVariable(d, p.binds[1], item, p.assign), d, item)
    BY <1>1, <1>3, <2>1, SetVariableKeeps
  <2>3. QED
    BY <1>2, <1>4, <1>5, <2>2, ContextsType DEF Keeps
<1>6. CASE Len(p.binds) = 2
  <2>1. p.binds[1] \in Vars /\ p.binds[2] \in Vars
    BY <1>1, <1>6
  <2> DEFINE e == SetVariable(d, p.binds[1], key, p.assign)
             f == SetVariable(e, p.binds[2], item, p.assign)
  <2>2. Keeps(e, d, item)
    BY <1>1, <1>3, <2>1, SetVariableKeeps
  <2>3. e \in Contexts /\ e.dot = item
    BY <2>2 DEF Keeps
  <2>4. EnterItem(c, p, key, item) = f
    BY <1>4, <1>6
  <2> HIDE DEF e
  <2>5. Keeps(f, e, item)
    BY <1>1, <2>1, <2>3, SetVariableKeeps
  <2> HIDE DEF f
  <2>6. QED
    BY <1>2, <2>2, <2>4, <2>5, ContextsType DEF Keeps
<1>7. CASE Len(p.binds) \notin {1, 2}
  BY <1>2, <1>4, <1>7
<1>8. QED
  BY <1>5, <1>6, <1>7

\* A pipeline's value is a value: an unset variable is never read.
LEMMA PipelineValuesType ==
    ASSUME NEW c \in Contexts, NEW p \in Pipes
    PROVE  PipelineValues(c, p) \subseteq Values
<1>1. ASSUME NEW v \in Vars
      PROVE  LookupVariable(c, v) \in Values
  <2>1. CASE Bound(c, v)
    <3>1. PICK i \in DOMAIN c.scopes :
               i = (CHOOSE k \in DOMAIN c.scopes : Holds(c, v, k)) /\ Holds(c, v, i)
      BY <2>1 DEF Bound
    <3>2. c.scopes[i] \in Scopes
      BY ContextsType
    <3>3. c.scopes[i][v] \in Values
      BY <3>1, <3>2 DEF Scopes, Holds
    <3>4. QED
      BY <2>1, <3>1, <3>3 DEF LookupVariable
  <2>2. CASE ~Bound(c, v)
    BY <2>2, ContextsType, ValueAssumption DEF LookupVariable, ValueAssumption
  <2>3. QED
    BY <2>1, <2>2
<1>2. p.src \in Vars \cup {"dot", "data", "none"}
  BY PipesType
<1>3. c.dot \in Values /\ Invalid \in Values
  BY ContextsType, ValueAssumption DEF ValueAssumption
<1>4. QED
  BY <1>1, <1>2, <1>3 DEF PipelineValues

----------------------------------------------------------------------------
(* Control flow                                                             *)

ShapeOf(c) == Shape(Len(c.scopes), Len(c.dots), Len(c.ranges))

\* Position k of the running program is one the context c can be in.
Landing(c, k) == FrameOK(prog, c, k) /\ StacksServe(prog, c, k)

\* The inductive invariant of control.
Control == TypeOK /\ StackDiscipline /\ NoInternalError

LEMMA ShapeType ==
    ASSUME NEW c \in Contexts
    PROVE  ShapeOf(c) \in [scopes : Nat, dots : Nat, ranges : Nat]
BY ContextsType DEF ShapeOf, Shape

\* What holds when an instruction runs.
LEMMA Here ==
    ASSUME Control, NEW op, At(op)
    PROVE  /\ prog \in Names /\ ctx \in Contexts /\ pc \in 1 .. Len(Prog[prog])
           /\ Instr \in Instructions /\ Instr.pipe \in Pipes /\ Instr.op = op
           /\ Serves(ShapeOf(ctx), Map[prog][pc])
           /\ HasOperands(op, Map[prog][pc])
<1>1. prog \in Names /\ ctx \in Contexts /\ pc \in 1 .. Len(Prog[prog]) /\ Instr.op = op
  BY DEF Control, TypeOK, FrameOK, At
<1>2. Serves(ShapeOf(ctx), Map[prog][pc])
  BY DEF Control, StackDiscipline, StacksServe, ShapeOf, At
<1>3. QED
  BY <1>1, <1>2, InstructionFacts DEF Instr

\* A context whose stacks serve the edge to the next instruction, or the edge
\* to the target, may go there.
LEMMA LandsNext ==
    ASSUME Control, NEW op, At(op), op \notin NoFallThroughOps,
           NEW c \in Contexts, Serves(ShapeOf(c), FallThrough(op, ShapeOf(ctx)))
    PROVE  Landing(c, pc + 1)
<1>1. Map[prog] \in [1 .. Len(Prog[prog]) + 1 ->
                        [scopes : Nat, dots : Nat, ranges : Nat]]
  BY Here, InstructionFacts
<1>2. Prog[prog] \in Seq(Instructions)
  BY Here, ProgramAssumption DEF ProgramAssumption
<1>3. pc \in DOMAIN Map[prog] /\ pc + 1 \in 1 .. Len(Prog[prog]) + 1
  BY <1>1, <1>2, Here
<1>4. Serves(FallThrough(op, Map[prog][pc]), Map[prog][pc + 1])
  BY Here, InstructionFacts DEF Instr
<1>5. Serves(FallThrough(op, ShapeOf(ctx)), FallThrough(op, Map[prog][pc]))
  <2>1. Serves(ShapeOf(ctx), Map[prog][pc])
    BY Here
  <2>2. /\ ShapeOf(ctx) \in [scopes : Nat, dots : Nat, ranges : Nat]
        /\ Map[prog][pc] \in [scopes : Nat, dots : Nat, ranges : Nat]
    BY <1>1, <1>3, Here, ShapeType
  <2>3. QED
    BY <2>1, <2>2 DEF Serves, FallThrough
<1>6. Serves(ShapeOf(c), Map[prog][pc + 1])
  <2>1. /\ ShapeOf(c) \in [scopes : Nat, dots : Nat, ranges : Nat]
        /\ ShapeOf(ctx) \in [scopes : Nat, dots : Nat, ranges : Nat]
        /\ Map[prog][pc] \in [scopes : Nat, dots : Nat, ranges : Nat]
        /\ Map[prog][pc + 1] \in [scopes : Nat, dots : Nat, ranges : Nat]
    BY <1>1, <1>3, Here, ShapeType
  <2>2. QED
    BY <1>4, <1>5, <2>1 DEF Serves, FallThrough
<1>7. QED
  BY <1>3, <1>6, Here DEF Landing, FrameOK, StacksServe, ShapeOf

LEMMA LandsTarget ==
    ASSUME Control, NEW op \in JumpOps, At(op),
           NEW c \in Contexts, Serves(ShapeOf(c), Jumping(op, ShapeOf(ctx)))
    PROVE  Landing(c, Instr.target)
<1>1. Map[prog] \in [1 .. Len(Prog[prog]) + 1 ->
                        [scopes : Nat, dots : Nat, ranges : Nat]]
  BY Here, InstructionFacts
<1>2. /\ Instr.target \in 1 .. Len(Prog[prog]) + 1
      /\ Serves(Jumping(op, Map[prog][pc]), Map[prog][Instr.target])
  BY Here, InstructionFacts DEF Instr
<1>3. Prog[prog] \in Seq(Instructions)
  BY Here, ProgramAssumption DEF ProgramAssumption
<1>4. pc \in DOMAIN Map[prog]
  BY <1>1, <1>3, Here
<1>5. /\ ShapeOf(c) \in [scopes : Nat, dots : Nat, ranges : Nat]
      /\ ShapeOf(ctx) \in [scopes : Nat, dots : Nat, ranges : Nat]
      /\ Map[prog][pc] \in [scopes : Nat, dots : Nat, ranges : Nat]
      /\ Map[prog][Instr.target] \in [scopes : Nat, dots : Nat, ranges : Nat]
  BY <1>1, <1>2, <1>4, Here, ShapeType
<1>6. Serves(ShapeOf(ctx), Map[prog][pc])
  BY Here
<1>7. Serves(ShapeOf(c), Map[prog][Instr.target])
  <2> DEFINE n == IF op \in {"NEXT_ITERATION", "BREAK_RANGE"} THEN 1 ELSE 0
  <2>1. ASSUME NEW a \in [scopes : Nat, dots : Nat, ranges : Nat]
        PROVE  /\ Jumping(op, a).scopes = a.scopes /\ Jumping(op, a).dots = a.dots
               /\ Jumping(op, a).ranges = a.ranges - n
    BY DEF Jumping
  <2>2. n \in {0, 1}
    OBVIOUS
  <2> HIDE DEF n
  <2>3. Map[prog][pc].ranges - n = Map[prog][Instr.target].ranges
        /\ Map[prog][pc].scopes >= Map[prog][Instr.target].scopes
        /\ Map[prog][pc].dots >= Map[prog][Instr.target].dots
    BY <1>2, <1>5, <2>1 DEF Serves
  <2>4. ShapeOf(ctx).ranges - n = ShapeOf(c).ranges
        /\ ShapeOf(c).scopes >= ShapeOf(ctx).scopes
        /\ ShapeOf(c).dots >= ShapeOf(ctx).dots
    BY <1>5, <2>1 DEF Serves
  <2>5. QED
    BY <1>5, <1>6, <2>2, <2>3, <2>4 DEF Serves
<1>8. QED
  BY <1>2, <1>7, Here DEF Landing, FrameOK, StacksServe, ShapeOf

LEMMA LandsBody ==
    ASSUME Control, At("NEXT_ITERATION"),
           NEW c \in Contexts, Serves(ShapeOf(c), ShapeOf(ctx))
    PROVE  Landing(c, Instr.body)
<1>1. Map[prog] \in [1 .. Len(Prog[prog]) + 1 ->
                        [scopes : Nat, dots : Nat, ranges : Nat]]
  BY Here, InstructionFacts
<1>2. /\ Instr.body \in 1 .. Len(Prog[prog]) + 1
      /\ Serves(Map[prog][pc], Map[prog][Instr.body])
  BY Here, InstructionFacts DEF Instr
<1>3. Prog[prog] \in Seq(Instructions)
  BY Here, ProgramAssumption DEF ProgramAssumption
<1>4. pc \in DOMAIN Map[prog]
  BY <1>1, <1>3, Here
<1>5. /\ ShapeOf(c) \in [scopes : Nat, dots : Nat, ranges : Nat]
      /\ ShapeOf(ctx) \in [scopes : Nat, dots : Nat, ranges : Nat]
      /\ Map[prog][pc] \in [scopes : Nat, dots : Nat, ranges : Nat]
      /\ Map[prog][Instr.body] \in [scopes : Nat, dots : Nat, ranges : Nat]
  BY <1>1, <1>2, <1>4, Here, ShapeType
<1>6. Serves(ShapeOf(ctx), Map[prog][pc])
  BY Here
<1>7. Serves(ShapeOf(c), Map[prog][Instr.body])
  BY <1>2, <1>5, <1>6 DEF Serves
<1>8. QED
  BY <1>2, <1>7, Here DEF Landing, FrameOK, StacksServe, ShapeOf

----------------------------------------------------------------------------
(* What a step does to control: it stops the render, moves within the       *)
(* program, calls a template or returns from one.                           *)

Halts ==
    /\ status' \in {"done", "failed"} /\ cause' \in Causes \ {"internal"}
    /\ UNCHANGED <<prog, pc, ctx, frames>>

Moves == Landing(ctx', pc') /\ UNCHANGED <<prog, frames, status, cause>>

Enters ==
    /\ Landing(ctx, pc + 1)
    /\ DepthBudgetAllows /\ ~(Depth >= HardDepth)
    /\ \E name \in Names, dot \in Values : EnterTemplate(name, dot)

Resumes ==
    /\ frames # <<>>
    /\ prog' = frames[Len(frames)].prog /\ pc' = frames[Len(frames)].pc
    /\ ctx' = frames[Len(frames)].ctx
    /\ frames' = DropLast(frames)
    /\ UNCHANGED <<status, cause>>

LEMMA FailHalts ==
    ASSUME NEW why \in Causes \ {"internal"}, Fail(why)
    PROVE  Halts
BY DEF Fail, Halts

LEMMA KeepsShape ==
    ASSUME NEW c \in Contexts, NEW d, NEW dot, Keeps(d, c, dot)
    PROVE  Serves(ShapeOf(d), ShapeOf(c))
BY ContextsType DEF Keeps, Serves, ShapeOf, Shape

\* An instruction without an effect of its own on the stacks.
LEMMA KeepsLands ==
    ASSUME Control, NEW op, At(op),
           op \in {"WRITE_TEXT", "WRITE_DOT", "WRITE_PIPELINE", "EVAL_PIPELINE",
                   "JUMP_IF_FALSE", "CALL_TEMPLATE"},
           NEW c, NEW dot, Keeps(c, ctx, dot)
    PROVE  Landing(c, pc + 1)
<1>1. c \in Contexts /\ ctx \in Contexts
  BY Here DEF Keeps
<1>2. Serves(ShapeOf(c), ShapeOf(ctx))
  BY <1>1, KeepsShape
<1>3. Serves(ShapeOf(c), FallThrough(op, ShapeOf(ctx)))
  BY <1>1, <1>2, ShapeType DEF Serves, FallThrough
<1>4. QED
  BY <1>1, <1>3, LandsNext DEF NoFallThroughOps

LEMMA ContextKeeps ==
    ASSUME Control
    PROVE  Keeps(ctx, ctx, ctx.dot)
BY ContextsType DEF Control, TypeOK, FrameOK, Keeps

LEMMA WriteStep ==
    ASSUME Control, NEW op \in {"WRITE_TEXT", "WRITE_DOT", "WRITE_PIPELINE"}, At(op),
           NEW n, NEW u, Write(n, u)
    PROVE  Halts \/ Moves
<1>1. Landing(ctx, pc + 1)
  BY ContextKeeps, KeepsLands
<1>2. CASE Within(u.output + n, MaxOutput)
  BY <1>1, <1>2 DEF Write, Halts, Moves, Causes, Proceed
<1>3. CASE ~Within(u.output + n, MaxOutput)
  BY <1>3, FailHalts DEF Write, Causes
<1>4. QED
  BY <1>2, <1>3

LEMMA EvalStep ==
    ASSUME Control, EvalPipeline
    PROVE  Moves
<1>1. At("EVAL_PIPELINE") /\ pc' = pc + 1 /\ UNCHANGED <<prog, frames, status, cause>>
  BY DEF EvalPipeline, Proceed
<1>2. PICK value \in PipelineValues(ctx, Instr.pipe) : ctx' = Bind(ctx, Instr.pipe, value)
  BY DEF EvalPipeline
<1>3. ctx \in Contexts /\ Instr.pipe \in Pipes
  BY <1>1, Here
<1>4. Keeps(ctx', ctx, ctx.dot)
  BY <1>2, <1>3, BindKeeps, PipelineValuesType
<1>5. Landing(ctx', pc + 1)
  BY <1>1, <1>4, KeepsLands
<1>6. QED
  BY <1>1, <1>5 DEF Moves

LEMMA PushScopeStep ==
    ASSUME Control, PushScope
    PROVE  Moves
<1>1. /\ At("PUSH_SCOPE") /\ pc' = pc + 1 /\ UNCHANGED <<prog, frames, status, cause>>
      /\ ctx' = [ctx EXCEPT !.scopes = Append(ctx.scopes, EmptyScope)]
  BY DEF PushScope, Proceed
<1>2. ctx \in Contexts
  BY <1>1, Here
<1>3. ctx.scopes \in Seq(Scopes) /\ EmptyScope \in Scopes
  BY <1>2, ContextsType DEF EmptyScope, Scopes
<1>4. Append(ctx.scopes, EmptyScope) \in Seq(Scopes)
      /\ Len(Append(ctx.scopes, EmptyScope)) = Len(ctx.scopes) + 1
  BY <1>3
<1>5. Rescoped(ctx', ctx, Append(ctx.scopes, EmptyScope))
  BY <1>1, <1>2, <1>4, WithScopes
<1>6. Serves(ShapeOf(ctx'), FallThrough("PUSH_SCOPE", ShapeOf(ctx)))
  BY <1>2, <1>4, <1>5, ContextsType DEF Rescoped, Serves, FallThrough, ShapeOf, Shape
<1>7. Landing(ctx', pc + 1)
  BY <1>1, <1>5, <1>6, LandsNext DEF Rescoped, NoFallThroughOps
<1>8. QED
  BY <1>1, <1>7 DEF Moves

LEMMA DropLastType ==
    ASSUME NEW S, NEW s \in Seq(S), s # <<>>
    PROVE  /\ DropLast(s) \in Seq(S) /\ Len(DropLast(s)) = Len(s) - 1
           /\ \A i \in 1 .. Len(s) - 1 : DropLast(s)[i] = s[i]
           /\ s[Len(s)] \in S /\ Len(s) \in Nat \ {0}
<1>1. Len(s) \in Nat \ {0}
  OBVIOUS
<1>2. Len(s) - 1 \in Int /\ \A i \in 1 .. Len(s) - 1 : s[i] \in S
  BY <1>1
<1>3. /\ DropLast(s) \in Seq(S)
      /\ Len(DropLast(s)) = IF 1 <= Len(s) - 1 THEN Len(s) - 1 - 1 + 1 ELSE 0
      /\ \A i \in 1 .. Len(s) - 1 - 1 + 1 : DropLast(s)[i] = s[1 + i - 1]
  BY <1>2, SubSeqProperties DEF DropLast
<1>4. \A i \in 1 .. Len(s) - 1 : DropLast(s)[i] = s[i]
  BY <1>1, <1>3
<1>5. DropLast(s) \in Seq(S) /\ Len(DropLast(s)) = Len(s) - 1
  <2> DEFINE l == Len(s)
             k == Len(DropLast(s))
  <2>1. l \in Nat \ {0} /\ k = IF 1 <= l - 1 THEN l - 1 - 1 + 1 ELSE 0
    BY <1>1, <1>3
  <2> HIDE DEF l, k
  <2>2. k = l - 1
    BY <2>1
  <2>3. QED
    BY <1>3, <2>2 DEF l, k
<1>6. s[Len(s)] \in S
  BY <1>1
<1>7. QED
  BY <1>1, <1>4, <1>5, <1>6

LEMMA PopScopeStep ==
    ASSUME Control, PopScope
    PROVE  Moves
<1>1. At("POP_SCOPE")
  BY DEF PopScope
<1>2. ctx \in Contexts /\ ctx.scopes \in Seq(Scopes)
  BY <1>1, Here, ContextsType
<1>3. ctx.scopes # <<>>
  <2>1. HasOperands("POP_SCOPE", Map[prog][pc]) /\ Serves(ShapeOf(ctx), Map[prog][pc])
    BY <1>1, Here
  <2>2. Map[prog][pc].scopes > 0
    BY <2>1 DEF HasOperands
  <2>3. Map[prog][pc].scopes \in Nat
    BY <1>1, Here, InstructionFacts
  <2>4. Len(ctx.scopes) >= Map[prog][pc].scopes
    BY <2>1 DEF Serves, ShapeOf, Shape
  <2>5. QED
    BY <1>2, <2>2, <2>3, <2>4
<1>4. /\ pc' = pc + 1 /\ UNCHANGED <<prog, frames, status, cause>>
      /\ ctx' = [ctx EXCEPT !.scopes = DropLast(ctx.scopes)]
  BY <1>3 DEF PopScope, Proceed
<1>5. DropLast(ctx.scopes) \in Seq(Scopes) /\ Len(DropLast(ctx.scopes)) = Len(ctx.scopes) - 1
  BY <1>2, <1>3, DropLastType
<1>6. Rescoped(ctx', ctx, DropLast(ctx.scopes))
  BY <1>2, <1>4, <1>5, WithScopes
<1>7. Serves(ShapeOf(ctx'), FallThrough("POP_SCOPE", ShapeOf(ctx)))
  BY <1>2, <1>5, <1>6, ContextsType DEF Rescoped, Serves, FallThrough, ShapeOf, Shape
<1>8. Landing(ctx', pc + 1)
  BY <1>1, <1>6, <1>7, LandsNext DEF Rescoped, NoFallThroughOps
<1>9. QED
  BY <1>4, <1>8 DEF Moves

\* Where the test of an if or a with leads.
LEMMA JumpIfFalseStep ==
    ASSUME Control, JumpIfFalse
    PROVE  Moves
<1>1. At("JUMP_IF_FALSE") /\ UNCHANGED <<prog, frames, status, cause>>
  BY DEF JumpIfFalse, Proceed
<1>2. PICK value \in PipelineValues(ctx, Instr.pipe) :
           ctx' = Bind(ctx, Instr.pipe, value) /\ pc' = AfterTest(value)
  BY DEF JumpIfFalse
<1>3. ctx \in Contexts /\ Instr.pipe \in Pipes
  BY <1>1, Here
<1>4. Keeps(ctx', ctx, ctx.dot)
  BY <1>2, <1>3, BindKeeps, PipelineValuesType
<1>5. Landing(ctx', pc + 1)
  BY <1>1, <1>4, KeepsLands
<1>6. Landing(ctx', Instr.target)
  <2>1. Serves(ShapeOf(ctx'), Jumping("JUMP_IF_FALSE", ShapeOf(ctx)))
    BY <1>3, <1>4, KeepsShape, ShapeType DEF Serves, Jumping
  <2>2. QED
    BY <1>1, <1>4, <2>1, LandsTarget DEF Keeps, JumpOps
<1>7. QED
  BY <1>1, <1>2, <1>5, <1>6 DEF Moves, AfterTest

LEMMA EnterWithStep ==
    ASSUME Control, EnterWith
    PROVE  Moves
<1>1. At("ENTER_WITH") /\ UNCHANGED <<prog, frames, status, cause>>
  BY DEF EnterWith, Proceed
<1>2. PICK value \in PipelineValues(ctx, Instr.pipe) :
           /\ ctx' = (IF value \in Truthy
                      THEN SaveDot(Bind(ctx, Instr.pipe, value), value)
                      ELSE Bind(ctx, Instr.pipe, value))
           /\ pc' = AfterTest(value)
  BY DEF EnterWith
<1> DEFINE c == Bind(ctx, Instr.pipe, value)
<1>3. ctx \in Contexts /\ Instr.pipe \in Pipes
  BY <1>1, Here
<1>4. value \in Values
  BY <1>3, PipelineValuesType
<1>5. Keeps(c, ctx, ctx.dot)
  BY <1>3, <1>4, BindKeeps
<1>6. ctx' = (IF value \in Truthy THEN SaveDot(c, value) ELSE c)
  BY <1>2
<1> HIDE DEF c
<1>7. CASE value \in Truthy
  <2>1. c \in Contexts /\ c.dots \in Seq(Values) /\ c.dot \in Values
    BY <1>5, ContextsType DEF Keeps
  <2>2. Append(c.dots, c.dot) \in Seq(Values)
        /\ Len(Append(c.dots, c.dot)) = Len(c.dots) + 1
    BY <2>1
  <2>3. ctx' = [c EXCEPT !.dots = Append(c.dots, c.dot), !.dot = value]
    BY <1>6, <1>7 DEF SaveDot
  <2>4. /\ ctx' \in Contexts
        /\ Len(ctx'.dots) = Len(c.dots) + 1
        /\ ctx'.scopes = c.scopes /\ ctx'.ranges = c.ranges
    BY <1>4, <2>1, <2>2, <2>3, ContextsType
  <2>5. Serves(ShapeOf(ctx'), FallThrough("ENTER_WITH", ShapeOf(ctx)))
    BY <1>3, <1>5, <2>1, <2>4, ContextsType
       DEF Keeps, Serves, FallThrough, ShapeOf, Shape
  <2>6. Landing(ctx', pc + 1)
    BY <1>1, <2>4, <2>5, LandsNext DEF NoFallThroughOps
  <2>7. QED
    BY <1>1, <1>2, <1>7, <2>6 DEF Moves, AfterTest
<1>8. CASE value \notin Truthy
  <2>1. Serves(ShapeOf(c), Jumping("ENTER_WITH", ShapeOf(ctx)))
    BY <1>3, <1>5, KeepsShape, ShapeType DEF Serves, Jumping
  <2>2. Landing(c, Instr.target)
    BY <1>1, <1>5, <2>1, LandsTarget DEF Keeps, JumpOps
  <2>3. QED
    BY <1>1, <1>2, <1>6, <1>8, <2>2 DEF Moves, AfterTest
<1>9. QED
  BY <1>7, <1>8

LEMMA ExitWithStep ==
    ASSUME Control, ExitWith
    PROVE  Moves
<1>1. At("EXIT_WITH")
  BY DEF ExitWith
<1>2. ctx \in Contexts /\ ctx.dots \in Seq(Values)
  BY <1>1, Here, ContextsType
<1>3. ctx.dots # <<>>
  <2>1. HasOperands("EXIT_WITH", Map[prog][pc]) /\ Serves(ShapeOf(ctx), Map[prog][pc])
    BY <1>1, Here
  <2>2. Map[prog][pc].dots > 0
    BY <2>1 DEF HasOperands
  <2>3. Map[prog][pc].dots \in Nat
    BY <1>1, Here, InstructionFacts
  <2>4. Len(ctx.dots) >= Map[prog][pc].dots
    BY <2>1 DEF Serves, ShapeOf, Shape
  <2>5. QED
    BY <1>2, <2>2, <2>3, <2>4
<1>4. /\ pc' = pc + 1 /\ UNCHANGED <<prog, frames, status, cause>>
      /\ ctx' = [ctx EXCEPT !.dot = ctx.dots[Len(ctx.dots)], !.dots = DropLast(ctx.dots)]
  BY <1>3 DEF ExitWith, Proceed
<1>5. /\ DropLast(ctx.dots) \in Seq(Values)
      /\ Len(DropLast(ctx.dots)) = Len(ctx.dots) - 1
      /\ ctx.dots[Len(ctx.dots)] \in Values
  BY <1>2, <1>3, DropLastType
<1>6. /\ ctx' \in Contexts /\ Len(ctx'.dots) = Len(ctx.dots) - 1
      /\ ctx'.scopes = ctx.scopes /\ ctx'.ranges = ctx.ranges
  BY <1>2, <1>4, <1>5, ContextsType
<1>7. Serves(ShapeOf(ctx'), FallThrough("EXIT_WITH", ShapeOf(ctx)))
  BY <1>2, <1>6, ContextsType DEF Serves, FallThrough, ShapeOf, Shape
<1>8. Landing(ctx', pc + 1)
  BY <1>1, <1>6, <1>7, LandsNext DEF NoFallThroughOps
<1>9. QED
  BY <1>4, <1>8 DEF Moves

LEMMA JumpStep ==
    ASSUME Control, Jump
    PROVE  Moves
<1>1. At("JUMP") /\ UNCHANGED <<prog, ctx, frames, status, cause>> /\ pc' = Instr.target
  BY DEF Jump, Proceed
<1>2. ctx \in Contexts
  BY <1>1, Here
<1>3. Serves(ShapeOf(ctx), Jumping("JUMP", ShapeOf(ctx)))
  BY <1>2, ShapeType DEF Serves, Jumping
<1>4. Landing(ctx, Instr.target)
  BY <1>1, <1>2, <1>3, LandsTarget DEF JumpOps
<1>5. QED
  BY <1>1, <1>4 DEF Moves

\* An item goes to a loop's body if the ready context c may: the budget or an
\* undeclared variable stops the render instead.
LEMMA DeliverStep ==
    ASSUME Control, NEW c \in Contexts, NEW p \in Pipes, NEW u, NEW body,
           Deliver(c, p, u, body),
           \A d \in Contexts : Serves(ShapeOf(d), ShapeOf(c)) => Landing(d, body)
    PROVE  Halts \/ Moves
<1>1. CASE ~Within(u.iterations + 1, MaxIterations) \/ ~CanBindItem(c, p)
  <2>1. Fail("budget") \/ Fail("undefined")
    BY <1>1 DEF Deliver
  <2>2. QED
    BY <2>1, FailHalts DEF Causes
<1>2. CASE Within(u.iterations + 1, MaxIterations) /\ CanBindItem(c, p)
  <2>1. /\ \E key, item \in Values : ctx' = EnterItem(c, p, key, item)
        /\ pc' = body /\ UNCHANGED <<prog, frames, status, cause>>
    BY <1>2 DEF Deliver, Proceed
  <2>2. PICK key \in Values, item \in Values : ctx' = EnterItem(c, p, key, item)
    BY <2>1
  <2>3. Keeps(ctx', c, item)
    BY <2>2, EnterItemKeeps
  <2>4. ctx' \in Contexts /\ Serves(ShapeOf(ctx'), ShapeOf(c))
    BY <2>3, KeepsShape DEF Keeps
  <2>5. QED
    BY <2>1, <2>4 DEF Moves
<1>3. QED
  BY <1>1, <1>2

LEMMA IterateStep ==
    ASSUME Control, Iterate
    PROVE  Halts \/ Moves
<1>1. At("ITERATE")
  BY DEF Iterate
<1>2. ctx \in Contexts /\ Instr.pipe \in Pipes
  BY <1>1, Here
<1>3. CASE pc' = Instr.target /\ UNCHANGED <<prog, ctx, frames, written>> /\ Proceed
  <2>1. Serves(ShapeOf(ctx), Jumping("ITERATE", ShapeOf(ctx)))
    BY <1>2, ShapeType DEF Serves, Jumping
  <2>2. Landing(ctx, Instr.target)
    BY <1>1, <1>2, <2>1, LandsTarget DEF JumpOps
  <2>3. QED
    BY <1>3, <2>2 DEF Moves, Proceed
<1>4. CASE Fail("exec")
  BY <1>4, FailHalts DEF Causes
<1>5. ASSUME NEW u, Deliver(PushRange(ctx, Instr.pipe), Instr.pipe, u, pc + 1)
      PROVE  Halts \/ Moves
  <2> DEFINE c == PushRange(ctx, Instr.pipe)
             r == [dot |-> ctx.dot, produced |-> 1, pipe |-> Instr.pipe]
  <2>1. ctx.ranges \in Seq(RangeStates) /\ r \in RangeStates
    BY <1>2, ContextsType DEF RangeStates
  <2>2. c = [ctx EXCEPT !.ranges = Append(ctx.ranges, r)]
    BY DEF PushRange
  <2> HIDE DEF c, r
  <2>3. Append(ctx.ranges, r) \in Seq(RangeStates)
        /\ Len(Append(ctx.ranges, r)) = Len(ctx.ranges) + 1
    BY <2>1
  <2>4. /\ c \in Contexts /\ Len(c.ranges) = Len(ctx.ranges) + 1
        /\ c.scopes = ctx.scopes /\ c.dots = ctx.dots
    BY <1>2, <2>2, <2>3, ContextsType
  <2>5. ASSUME NEW d \in Contexts, Serves(ShapeOf(d), ShapeOf(c))
        PROVE  Landing(d, pc + 1)
    <3>1. Serves(ShapeOf(c), FallThrough("ITERATE", ShapeOf(ctx)))
      BY <1>2, <2>4, ContextsType DEF Serves, FallThrough, ShapeOf, Shape
    <3>2. Serves(ShapeOf(d), FallThrough("ITERATE", ShapeOf(ctx)))
      BY <1>2, <2>4, <2>5, <3>1, ShapeType DEF Serves, FallThrough
    <3>3. QED
      BY <1>1, <3>2, LandsNext DEF NoFallThroughOps
  <2>6. Deliver(c, Instr.pipe, u, pc + 1)
    BY <1>5 DEF c
  <2>7. QED
    BY <1>2, <2>4, <2>5, <2>6, DeliverStep
<1>6. QED
  BY <1>3, <1>4, <1>5 DEF Iterate

LEMMA RangeActive ==
    ASSUME Control, NEW op \in {"NEXT_ITERATION", "BREAK_RANGE"}, At(op)
    PROVE  ctx.ranges # <<>> /\ ctx.ranges \in Seq(RangeStates)
<1>1. ctx \in Contexts /\ ctx.ranges \in Seq(RangeStates)
  BY Here, ContextsType
<1>2. HasOperands(op, Map[prog][pc]) /\ Serves(ShapeOf(ctx), Map[prog][pc])
  BY Here
<1>3. Map[prog][pc].ranges > 0
  BY <1>2 DEF HasOperands
<1>4. Map[prog][pc].ranges \in Nat
  <2>1. prog \in Names /\ pc \in 1 .. Len(Prog[prog])
    BY Here
  <2>2. Map[prog] \in [1 .. Len(Prog[prog]) + 1 ->
                          [scopes : Nat, dots : Nat, ranges : Nat]]
    BY <2>1, InstructionFacts
  <2>3. Len(Prog[prog]) \in Nat
    BY <2>1, ProgramAssumption DEF ProgramAssumption
  <2>4. QED
    BY <2>1, <2>2, <2>3
<1>5. Len(ctx.ranges) = Map[prog][pc].ranges
  BY <1>2 DEF Serves, ShapeOf, Shape
<1>6. QED
  BY <1>1, <1>3, <1>4, <1>5

LEMMA LeaveRangeLands ==
    ASSUME Control, NEW op \in {"NEXT_ITERATION", "BREAK_RANGE"}, At(op)
    PROVE  Landing(LeaveRange(ctx), Instr.target)
<1>1. ctx \in Contexts
  BY Here
<1>2. ctx.ranges # <<>> /\ ctx.ranges \in Seq(RangeStates)
  BY RangeActive
<1>3. /\ DropLast(ctx.ranges) \in Seq(RangeStates)
      /\ Len(DropLast(ctx.ranges)) = Len(ctx.ranges) - 1
      /\ ctx.ranges[Len(ctx.ranges)] \in RangeStates
  BY <1>2, DropLastType
<1> DEFINE c == LeaveRange(ctx)
<1>4. c = [ctx EXCEPT !.dot = ctx.ranges[Len(ctx.ranges)].dot,
                      !.ranges = DropLast(ctx.ranges)]
  BY DEF LeaveRange
<1>5. ctx.ranges[Len(ctx.ranges)].dot \in Values
  BY <1>3 DEF RangeStates
<1> HIDE DEF c
<1>6. /\ c \in Contexts /\ Len(c.ranges) = Len(ctx.ranges) - 1
      /\ c.scopes = ctx.scopes /\ c.dots = ctx.dots
  BY <1>1, <1>3, <1>4, <1>5, ContextsType
<1>7. Serves(ShapeOf(c), Jumping(op, ShapeOf(ctx)))
  BY <1>1, <1>6, ContextsType DEF Serves, Jumping, ShapeOf, Shape
<1>8. Landing(c, Instr.target)
  BY <1>6, <1>7, LandsTarget DEF JumpOps
<1>9. QED
  BY <1>8 DEF c

LEMMA BreakRangeStep ==
    ASSUME Control, BreakRange
    PROVE  Moves
<1>1. At("BREAK_RANGE")
  BY DEF BreakRange
<1>2. /\ ctx' = LeaveRange(ctx) /\ pc' = Instr.target
      /\ UNCHANGED <<prog, frames, status, cause>>
  BY <1>1, RangeActive DEF BreakRange, Proceed
<1>3. QED
  BY <1>1, <1>2, LeaveRangeLands DEF Moves

LEMMA NextIterationStep ==
    ASSUME Control, NextIteration
    PROVE  Halts \/ Moves
<1>1. At("NEXT_ITERATION")
  BY DEF NextIteration
<1>2. ctx \in Contexts /\ ctx.ranges # <<>> /\ ctx.ranges \in Seq(RangeStates)
  BY <1>1, Here, RangeActive
<1> DEFINE n == Len(ctx.ranges)
           s == [ctx.ranges EXCEPT ![n] = Produced(@)]
           c == [ctx EXCEPT !.ranges[n] = Produced(@)]
<1>3. n \in 1 .. Len(ctx.ranges) /\ ctx.ranges[n] \in RangeStates
  BY <1>2
<1>4. Produced(ctx.ranges[n]) \in RangeStates
  BY <1>3 DEF Produced, RangeStates
<1>5. s \in Seq(RangeStates) /\ Len(s) = Len(ctx.ranges)
  BY <1>2, <1>3, <1>4
<1>6. c = [ctx EXCEPT !.ranges = s]
  BY <1>2, ContextsType
<1>7. \/ ctx' = LeaveRange(ctx) /\ pc' = Instr.target /\ UNCHANGED <<prog, frames, status, cause>>
      \/ Fail("exec")
      \/ Deliver(c, TopRange.pipe, used, Instr.body)
  BY <1>2 DEF NextIteration, Proceed
<1> HIDE DEF s, c
<1>8. /\ c \in Contexts /\ Len(c.ranges) = Len(ctx.ranges)
      /\ c.scopes = ctx.scopes /\ c.dots = ctx.dots
  BY <1>2, <1>5, <1>6, ContextsType
<1>9. ASSUME NEW d \in Contexts, Serves(ShapeOf(d), ShapeOf(c))
      PROVE  Landing(d, Instr.body)
  <2>1. ShapeOf(c) = ShapeOf(ctx)
    BY <1>8 DEF ShapeOf
  <2>2. QED
    BY <1>1, <1>9, <2>1, LandsBody
<1>10. TopRange.pipe \in Pipes
  BY <1>3 DEF TopRange, RangeStates
<1>11. QED
  BY <1>1, <1>7, <1>8, <1>9, <1>10, FailHalts, LeaveRangeLands, DeliverStep
     DEF Moves, Causes

LEMMA CallTemplateStep ==
    ASSUME Control, CallTemplate
    PROVE  Halts \/ Enters
<1>1. At("CALL_TEMPLATE")
  BY DEF CallTemplate
<1>2. ctx \in Contexts /\ Instr.pipe \in Pipes
  BY <1>1, Here
<1>3. Landing(ctx, pc + 1)
  BY <1>1, ContextKeeps, KeepsLands
<1>4. \/ Fail("exec") \/ Fail("budget") \/ Fail("depth")
      \/ /\ Instr.name \in Names /\ DepthBudgetAllows /\ ~(Depth >= HardDepth)
         /\ \E dot \in PipelineValues(ctx, Instr.pipe) : EnterTemplate(Instr.name, dot)
  BY DEF CallTemplate
<1>5. QED
  BY <1>2, <1>3, <1>4, FailHalts, PipelineValuesType DEF Enters, Causes

LEMMA ReturnStep ==
    ASSUME Control, Return
    PROVE  Halts \/ Resumes
<1>1. CASE frames = <<>>
  BY <1>1 DEF Return, Halts, Control, TypeOK, NoInternalError
<1>2. CASE frames # <<>>
  BY <1>2 DEF Return, Resumes
<1>3. QED
  BY <1>1, <1>2

LEMMA OtherSteps ==
    ASSUME Control, PipelineFails \/ BindingFails \/ Stopped
    PROVE  Halts
<1>1. CASE PipelineFails \/ BindingFails
  <2>1. Fail("budget") \/ Fail("exec") \/ Fail("undefined")
    BY <1>1 DEF PipelineFails, BindingFails
  <2>2. QED
    BY <2>1, FailHalts DEF Causes
<1>2. CASE Stopped
  BY <1>2 DEF Stopped, vars, Halts, Control, TypeOK, Statuses, NoInternalError
<1>3. QED
  BY <1>1, <1>2

\* One case per action.
LEMMA StepEffect ==
    ASSUME Control, Next
    PROVE  Halts \/ Moves \/ Enters \/ Resumes
<1>1. CASE WriteText \/ WriteDot \/ WritePipeline
  BY <1>1, WriteStep DEF WriteText, WriteDot, WritePipeline
<1>2. CASE EvalPipeline
  BY <1>2, EvalStep
<1>3. CASE PushScope
  BY <1>3, PushScopeStep
<1>4. CASE PopScope
  BY <1>4, PopScopeStep
<1>5. CASE JumpIfFalse
  BY <1>5, JumpIfFalseStep
<1>6. CASE EnterWith
  BY <1>6, EnterWithStep
<1>7. CASE ExitWith
  BY <1>7, ExitWithStep
<1>8. CASE Iterate
  BY <1>8, IterateStep
<1>9. CASE NextIteration
  BY <1>9, NextIterationStep
<1>10. CASE BreakRange
  BY <1>10, BreakRangeStep
<1>11. CASE Jump
  BY <1>11, JumpStep
<1>12. CASE CallTemplate
  BY <1>12, CallTemplateStep
<1>13. CASE Return
  BY <1>13, ReturnStep
<1>14. CASE PipelineFails \/ BindingFails \/ Stopped
  BY <1>14, OtherSteps
<1>15. QED
  BY <1>1, <1>2, <1>3, <1>4, <1>5, <1>6, <1>7, <1>8, <1>9, <1>10, <1>11,
     <1>12, <1>13, <1>14 DEF Next

----------------------------------------------------------------------------
(* Counters                                                                 *)

Counted == used \in Budgets /\ written \in Nat

LEMMA WriteCounted ==
    ASSUME Counted, NEW n \in Nat, NEW u \in Budgets, Write(n, u)
    PROVE  Counted'
<1>1. [u EXCEPT !.output = u.output + n] \in Budgets
  BY DEF Budgets
<1>2. written' \in Nat
  BY DEF Write, Counted, Fail
<1>3. used' \in Budgets
  BY <1>1 DEF Write
<1>4. QED
  BY <1>2, <1>3 DEF Counted

\* What each action may do to the counters.
LEMMA StepCounts ==
    ASSUME Control, Next
    PROVE  Counted'
<1>1. Counted
  BY DEF Control, TypeOK, Counted
<1>2. ASSUME NEW k \in Nat
      PROVE  [used EXCEPT !.calls = used.calls + k] \in Budgets
  BY <1>1 DEF Counted, Budgets
<1>3. ASSUME NEW u \in Budgets
      PROVE  ChargeIteration(u) \in Budgets
  BY DEF ChargeIteration, Budgets
<1>4. ASSUME NEW op, At(op)
      PROVE  Instr.pipe.calls \in Nat
  BY <1>4, Here, PipesType
<1>5. CASE WriteText
  BY <1>1, <1>5, WriteCounted DEF WriteText, Counted
<1>6. CASE WriteDot
  BY <1>1, <1>6, WriteCounted, ValueAssumption DEF WriteDot, Counted, ValueAssumption
<1>7. CASE WritePipeline
  BY <1>1, <1>2, <1>4, <1>7, WriteCounted, ValueAssumption
     DEF WritePipeline, ValueAssumption
<1>8. CASE EvalPipeline \/ JumpIfFalse \/ EnterWith
  BY <1>1, <1>2, <1>4, <1>8
     DEF EvalPipeline, JumpIfFalse, EnterWith, ChargeCalls, Counted
<1>9. CASE PushScope \/ PopScope \/ ExitWith \/ BreakRange \/ Jump \/ Return \/ Stopped
  BY <1>1, <1>9
     DEF PushScope, PopScope, ExitWith, BreakRange, Jump, Return, Stopped, vars,
         Fail, Counted
<1>10. ASSUME NEW c, NEW p, NEW u \in Budgets, NEW body, Deliver(c, p, u, body)
       PROVE  Counted'
  BY <1>1, <1>3, <1>10 DEF Deliver, Fail, Counted
<1>11. CASE Iterate
  <2> DEFINE u == [used EXCEPT !.calls = used.calls + Instr.pipe.calls]
  <2>1. u \in Budgets
    BY <1>2, <1>4, <1>11 DEF Iterate
  <2>2. \/ used' = u /\ UNCHANGED written
        \/ used' = u /\ Fail("exec")
        \/ Deliver(PushRange(ctx, Instr.pipe), Instr.pipe, u, pc + 1)
    BY <1>11 DEF Iterate
  <2> HIDE DEF u
  <2>3. QED
    BY <1>1, <1>10, <2>1, <2>2 DEF Fail, Counted
<1>12. CASE NextIteration
  <2> DEFINE c == [ctx EXCEPT !.ranges[Len(ctx.ranges)] = Produced(@)]
  <2>1. \/ UNCHANGED <<used, written>>
        \/ UNCHANGED used /\ Fail("internal")
        \/ UNCHANGED used /\ Fail("exec")
        \/ Deliver(c, TopRange.pipe, used, Instr.body)
    BY <1>12 DEF NextIteration
  <2> HIDE DEF c
  <2>2. QED
    BY <1>1, <1>10, <2>1 DEF Fail, Counted
<1>13. CASE CallTemplate
  BY <1>1, <1>2, <1>4, <1>13 DEF CallTemplate, ChargeCalls, EnterTemplate, Fail, Counted
<1>14. CASE PipelineFails
  BY <1>1, <1>2, <1>14 DEF PipelineFails, Fail, Counted
<1>15. CASE BindingFails
  <2>1. Instr.pipe.calls \in Nat
    BY <1>4, <1>15 DEF BindingFails, At
  <2>2. QED
    BY <1>1, <1>2, <1>15, <2>1 DEF BindingFails, ChargeCalls, Fail, Counted
<1>16. QED
  BY <1>5, <1>6, <1>7, <1>8, <1>9, <1>11, <1>12, <1>13, <1>14, <1>15 DEF Next

----------------------------------------------------------------------------
(* The inductive invariant                                                  *)

FrameRecords == [prog : Names, ctx : Contexts, pc : Nat]

\* A template starts on empty stacks, which is what its first position needs.
LEMMA StartFits ==
    ASSUME NEW name \in Names, NEW dot \in Values
    PROVE  FrameOK(name, NewContext(dot), 1) /\ StacksServe(name, NewContext(dot), 1)
<1>1. Prog[name] \in Seq(Instructions) /\ Verified(Prog[name], Map[name])
  BY ProgramAssumption, VerifiedAssumption DEF ProgramAssumption, VerifiedAssumption
<1>2. NewContext(dot) \in Contexts
  BY ContextsType DEF NewContext
<1>3. 1 \in 1 .. Len(Prog[name]) + 1
  BY <1>1
<1>4. Map[name][1] = Shape(0, 0, 0)
  BY <1>1 DEF Verified
<1>5. QED
  BY <1>2, <1>3, <1>4 DEF FrameOK, StacksServe, NewContext, Serves, Shape

LEMMA InitControl ==
    ASSUME Init
    PROVE  Control
<1>1. RootName \in Names
  BY ProgramAssumption DEF ProgramAssumption
<1>2. PICK data \in Values : ctx = NewContext(data)
  BY DEF Init
<1>3. FrameOK(prog, ctx, pc) /\ StacksServe(prog, ctx, pc)
  BY <1>1, <1>2, StartFits DEF Init
<1>4. frames \in Seq(FrameRecords) /\ DOMAIN frames = {}
  BY DEF Init
<1>5. used \in Budgets /\ written \in Nat
  BY DEF Init, Budgets
<1>6. status \in Statuses /\ cause \in Causes \ {"internal"}
  BY DEF Init, Statuses, Causes
<1>7. QED
  BY <1>3, <1>4, <1>5, <1>6
     DEF Control, TypeOK, StackDiscipline, NoInternalError, FrameRecords

\* The parts of Control that speak of the callers.
FramesOK ==
    /\ frames \in Seq(FrameRecords)
    /\ \A k \in DOMAIN frames :
          /\ FrameOK(frames[k].prog, frames[k].ctx, frames[k].pc)
          /\ StacksServe(frames[k].prog, frames[k].ctx, frames[k].pc)

LEMMA ControlParts ==
    Control <=> /\ status \in Statuses /\ cause \in Causes \ {"internal"}
                /\ FrameOK(prog, ctx, pc)
                /\ status = "running" => StacksServe(prog, ctx, pc)
                /\ FramesOK
                /\ Counted
BY DEF Control, TypeOK, StackDiscipline, NoInternalError, FramesOK, FrameRecords, Counted

LEMMA ControlPartsPrime ==
    Control' <=> /\ status' \in Statuses /\ cause' \in Causes \ {"internal"}
                 /\ FrameOK(prog', ctx', pc')
                 /\ status' = "running" => StacksServe(prog', ctx', pc')
                 /\ FramesOK'
                 /\ Counted'
BY DEF Control, TypeOK, StackDiscipline, NoInternalError, FramesOK, FrameRecords,
       Counted, FrameOK, StacksServe, Contexts

LEMMA ControlStep ==
    ASSUME Control, [Next]_vars
    PROVE  Control'
<1>1. CASE UNCHANGED vars
  BY <1>1, ControlParts, ControlPartsPrime DEF vars, FramesOK, Counted
<1> SUFFICES ASSUME Next PROVE Control'
  BY <1>1
<1>2. Counted'
  BY StepCounts
<1>3. /\ status \in Statuses /\ cause \in Causes \ {"internal"}
      /\ FrameOK(prog, ctx, pc) /\ FramesOK
  BY ControlParts
<1>4. CASE Halts
  <2>1. FramesOK'
    BY <1>3, <1>4 DEF Halts, FramesOK
  <2>2. QED
    BY <1>2, <1>3, <1>4, <2>1, ControlPartsPrime DEF Halts, Statuses
<1>5. CASE Moves
  <2>1. FramesOK'
    BY <1>3, <1>5 DEF Moves, FramesOK
  <2>2. FrameOK(prog', ctx', pc') /\ StacksServe(prog', ctx', pc')
    BY <1>5 DEF Moves, Landing
  <2>3. QED
    BY <1>2, <1>3, <1>5, <2>1, <2>2, ControlPartsPrime DEF Moves
<1>6. CASE Enters
  <2>1. PICK name \in Names, dot \in Values : EnterTemplate(name, dot)
    BY <1>6 DEF Enters
  <2>2. FrameOK(prog', ctx', pc') /\ StacksServe(prog', ctx', pc')
    BY <2>1, StartFits DEF EnterTemplate
  <2>3. FrameOK(prog, ctx, pc + 1) /\ StacksServe(prog, ctx, pc + 1)
    BY <1>6 DEF Enters, Landing
  <2> DEFINE f == [prog |-> prog, ctx |-> ctx, pc |-> pc + 1]
  <2>4. f \in FrameRecords
    BY <2>3 DEF FrameOK, FrameRecords
  <2>5. /\ f.prog = prog /\ f.ctx = ctx /\ f.pc = pc + 1
        /\ frames' = Append(frames, f)
    BY <2>1 DEF EnterTemplate
  <2> HIDE DEF f
  <2>6. frames \in Seq(FrameRecords)
    BY <1>3 DEF FramesOK
  <2>7. frames' \in Seq(FrameRecords)
    BY <2>4, <2>5, <2>6
  <2>8. ASSUME NEW k \in DOMAIN frames'
        PROVE  /\ FrameOK(frames'[k].prog, frames'[k].ctx, frames'[k].pc)
               /\ StacksServe(frames'[k].prog, frames'[k].ctx, frames'[k].pc)
    <3>1. CASE k \in DOMAIN frames
      <4>1. frames'[k] = frames[k]
        BY <2>5, <2>6, <3>1
      <4>2. QED
        BY <1>3, <3>1, <4>1 DEF FramesOK
    <3>2. CASE k \notin DOMAIN frames
      <4>1. frames'[k] = f
        BY <2>4, <2>5, <2>6, <3>2
      <4>2. QED
        BY <2>3, <2>5, <4>1
    <3>3. QED
      BY <3>1, <3>2
  <2>9. FramesOK'
    BY <2>7, <2>8 DEF FramesOK, FrameOK, StacksServe, FrameRecords, Contexts
  <2>10. QED
    BY <1>2, <1>3, <2>1, <2>2, <2>9, ControlPartsPrime DEF EnterTemplate, Proceed
<1>7. CASE Resumes
  <2>1. frames \in Seq(FrameRecords) /\ frames # <<>>
    BY <1>3, <1>7 DEF FramesOK, Resumes
  <2>2. /\ frames' \in Seq(FrameRecords)
        /\ Len(frames') = Len(frames) - 1
        /\ \A k \in 1 .. Len(frames) - 1 : frames'[k] = frames[k]
        /\ Len(frames) \in Nat \ {0}
    BY <1>7, <2>1, DropLastType DEF Resumes
  <2>3. Len(frames) \in DOMAIN frames
    BY <2>1, <2>2
  <2>4. FrameOK(prog', ctx', pc') /\ StacksServe(prog', ctx', pc')
    BY <1>3, <1>7, <2>3 DEF FramesOK, Resumes
  <2>5. ASSUME NEW k \in DOMAIN frames'
        PROVE  frames'[k] = frames[k] /\ k \in DOMAIN frames
    BY <2>1, <2>2
  <2>6. FramesOK'
    BY <1>3, <2>2, <2>5 DEF FramesOK, FrameOK, StacksServe, FrameRecords, Contexts
  <2>7. QED
    BY <1>2, <1>3, <1>7, <2>4, <2>6, ControlPartsPrime DEF Resumes
<1>8. QED
  BY <1>4, <1>5, <1>6, <1>7, StepEffect

\* The invariant that carries the theorems on control: types, stacks, causes.
THEOREM ControlInvariant == Spec => []Control
<1>1. Init => Control
  BY InitControl
<1>2. Control /\ [Next]_vars => Control'
  BY ControlStep
<1>3. QED
  BY <1>1, <1>2, PTL DEF Spec

\* Every variable keeps its type; the position stays inside the program.
THEOREM TypeCorrect == Spec => []TypeOK
<1>1. Control => TypeOK
  BY DEF Control
<1>2. QED
  BY <1>1, ControlInvariant, PTL

\* Whatever the path through breaks, continues, calls and returns, the stacks
\* hold what the code ahead takes from them.
THEOREM StacksSuffice == Spec => []StackDiscipline
<1>1. Control => StackDiscipline
  BY DEF Control
<1>2. QED
  BY <1>1, ControlInvariant, PTL

\* The loop never meets an empty stack.
THEOREM NoInvalidProgram == Spec => []NoInternalError
<1>1. Control => NoInternalError
  BY DEF Control
<1>2. QED
  BY <1>1, ControlInvariant, PTL

----------------------------------------------------------------------------
(* Depth and budgets                                                        *)

LEMMA DepthStep ==
    ASSUME Control, DepthBounded, [Next]_vars
    PROVE  DepthBounded'
<1>1. frames \in Seq(FrameRecords)
  BY ControlParts DEF FramesOK
<1>2. CASE UNCHANGED frames
  BY <1>2 DEF DepthBounded
<1>3. CASE Enters
  <2>1. PICK f : frames' = Append(frames, f)
    BY <1>3 DEF Enters, EnterTemplate
  <2>2. Len(frames') = Len(frames) + 1 /\ Len(frames) \in Nat
    BY <1>1, <2>1
  <2>3. Within(BaseDepth + Len(frames) + 1, MaxTemplateDepth)
        /\ ~(BaseDepth + Len(frames) >= HardDepth)
    BY <1>3 DEF Enters, DepthBudgetAllows, Depth
  <2>4. BaseDepth \in Nat /\ HardDepth \in Nat
    BY LimitAssumption DEF LimitAssumption
  <2>5. /\ BaseDepth + Len(frames') = BaseDepth + Len(frames) + 1
        /\ BaseDepth + Len(frames') <= HardDepth
    BY <2>2, <2>3, <2>4
  <2>6. QED
    BY <2>3, <2>5 DEF DepthBounded
<1>4. CASE Resumes
  <2>1. frames # <<>>
    BY <1>4 DEF Resumes
  <2>2. Len(frames') = Len(frames) - 1 /\ Len(frames) \in Nat \ {0}
    BY <1>1, <1>4, <2>1, DropLastType DEF Resumes
  <2>3. /\ BaseDepth \in Nat /\ HardDepth \in Nat
        /\ MaxTemplateDepth \in Nat \cup {NoLimit} /\ NoLimit \notin Nat
    BY LimitAssumption DEF LimitAssumption, Limits
  <2>4. /\ Within(BaseDepth + Len(frames), MaxTemplateDepth)
        /\ BaseDepth + Len(frames) <= HardDepth
    BY <2>1 DEF DepthBounded
  <2>5. Within(BaseDepth + Len(frames'), MaxTemplateDepth)
    BY <2>2, <2>3, <2>4 DEF Within
  <2>6. QED
    BY <2>2, <2>3, <2>4, <2>5 DEF DepthBounded
<1>5. QED
  BY <1>2, <1>3, <1>4, StepEffect DEF Halts, Moves, vars

\* Active calls never exceed the budget nor the hard limit.
THEOREM DepthIsBounded == Spec => []DepthBounded
<1>1. Init => DepthBounded
  BY DEF Init, DepthBounded
<1>2. Control /\ DepthBounded /\ [Next]_vars => DepthBounded'
  BY DepthStep
<1>3. QED
  BY <1>1, <1>2, ControlInvariant, PTL DEF Spec

LEMMA WriteBudget ==
    ASSUME Counted, CountersBounded, NEW n \in Nat, NEW u \in Budgets, Write(n, u),
           u.output = used.output, u.iterations = used.iterations,
           Within(u.calls, MaxCalls)
    PROVE  CountersBounded'
<1>1. written \in Nat /\ used.output \in Nat /\ written <= used.output
  BY DEF Counted, CountersBounded, Budgets
<1>2. CASE Within(u.output + n, MaxOutput)
  <2>1. used' = [u EXCEPT !.output = u.output + n]
    BY <1>2 DEF Write
  <2>2. /\ used'.output = u.output + n /\ used'.iterations = u.iterations
        /\ used'.calls = u.calls
    BY <2>1 DEF Budgets
  <2>3. \/ written' = written + n
        \/ \E accepted \in 0 .. n - 1 : written' = written + accepted
    BY <1>2 DEF Write
  <2>4. written' <= used'.output
    BY <1>1, <2>2, <2>3
  <2>5. QED
    BY <1>2, <2>2, <2>4 DEF CountersBounded
<1>3. CASE ~Within(u.output + n, MaxOutput)
  BY <1>3 DEF Write, Fail, CountersBounded
<1>4. QED
  BY <1>2, <1>3

LEMMA BudgetStep ==
    ASSUME Control, CountersBounded, [Next]_vars
    PROVE  CountersBounded'
<1>1. Counted
  BY ControlParts
<1>2. ASSUME NEW k \in Nat
      PROVE  LET u == [used EXCEPT !.calls = used.calls + k] IN
             /\ u \in Budgets /\ u.output = used.output
             /\ u.iterations = used.iterations /\ u.calls = used.calls + k
  BY <1>1 DEF Counted, Budgets
<1>3. ASSUME NEW op, At(op)
      PROVE  Instr.pipe.calls \in Nat
  BY <1>3, Here, PipesType
<1>4. ASSUME NEW k \in Nat, Within(used.calls + k, MaxCalls), UNCHANGED written,
             used' = [used EXCEPT !.calls = used.calls + k]
      PROVE  CountersBounded'
  BY <1>2, <1>4 DEF CountersBounded
<1>5. CASE UNCHANGED <<used, written>>
  BY <1>5 DEF CountersBounded
<1>6. CASE WriteText
  BY <1>1, <1>6, WriteBudget DEF WriteText, Counted, CountersBounded
<1>7. CASE WriteDot
  BY <1>1, <1>7, WriteBudget, ValueAssumption
     DEF WriteDot, Counted, CountersBounded, ValueAssumption
<1>8. CASE WritePipeline
  <2> DEFINE u == [used EXCEPT !.calls = used.calls + Instr.pipe.calls]
  <2>1. Instr.pipe.calls \in Nat
    BY <1>3, <1>8 DEF WritePipeline
  <2>2. /\ u \in Budgets /\ u.output = used.output
        /\ u.iterations = used.iterations /\ u.calls = used.calls + Instr.pipe.calls
    BY <1>2, <2>1
  <2>3. PICK n \in ValueSizes : Write(n, u)
    BY <1>8 DEF WritePipeline
  <2>4. Within(used.calls + Instr.pipe.calls, MaxCalls) /\ n \in Nat
    BY <1>8, ValueAssumption DEF WritePipeline, ValueAssumption
  <2> HIDE DEF u
  <2>5. QED
    BY <1>1, <2>2, <2>3, <2>4, WriteBudget
<1>9. CASE EvalPipeline \/ JumpIfFalse \/ EnterWith
  <2>1. /\ Within(used.calls + Instr.pipe.calls, MaxCalls) /\ UNCHANGED written
        /\ used' = [used EXCEPT !.calls = used.calls + Instr.pipe.calls]
    BY <1>9 DEF EvalPipeline, JumpIfFalse, EnterWith, ChargeCalls
  <2>2. Instr.pipe.calls \in Nat
    BY <1>3, <1>9 DEF EvalPipeline, JumpIfFalse, EnterWith
  <2>3. QED
    BY <1>4, <2>1, <2>2
<1>10. CASE PushScope \/ PopScope \/ ExitWith \/ BreakRange \/ Jump \/ Return \/ Stopped
  BY <1>5, <1>10
     DEF PushScope, PopScope, ExitWith, BreakRange, Jump, Return, Stopped, vars, Fail
<1>11. ASSUME NEW c, NEW p, NEW u \in Budgets, NEW body, Deliver(c, p, u, body),
              u.output = used.output, u.iterations = used.iterations,
              Within(u.calls, MaxCalls)
       PROVE  CountersBounded'
  <2>1. CASE ~Within(u.iterations + 1, MaxIterations)
    BY <1>11, <2>1 DEF Deliver, Fail, CountersBounded
  <2>2. CASE Within(u.iterations + 1, MaxIterations)
    <3>1. used' = [u EXCEPT !.iterations = u.iterations + 1] /\ UNCHANGED written
      BY <1>11, <2>2 DEF Deliver, Fail, ChargeIteration
    <3>2. /\ used'.output = u.output /\ used'.iterations = u.iterations + 1
          /\ used'.calls = u.calls
      BY <3>1 DEF Budgets
    <3>3. QED
      BY <1>11, <2>2, <3>1, <3>2 DEF CountersBounded
  <2>3. QED
    BY <2>1, <2>2
<1>12. CASE Iterate
  <2> DEFINE u == [used EXCEPT !.calls = used.calls + Instr.pipe.calls]
  <2>1. Instr.pipe.calls \in Nat
    BY <1>3, <1>12 DEF Iterate
  <2>2. /\ u \in Budgets /\ u.output = used.output
        /\ u.iterations = used.iterations /\ u.calls = used.calls + Instr.pipe.calls
    BY <1>2, <2>1
  <2>3. Within(used.calls + Instr.pipe.calls, MaxCalls)
    BY <1>12 DEF Iterate
  <2>4. \/ used' = u /\ UNCHANGED written
        \/ used' = u /\ Fail("exec")
        \/ Deliver(PushRange(ctx, Instr.pipe), Instr.pipe, u, pc + 1)
    BY <1>12 DEF Iterate
  <2>5. CASE used' = u /\ UNCHANGED written
    BY <1>4, <2>1, <2>3, <2>5
  <2> HIDE DEF u
  <2>6. QED
    BY <1>11, <2>2, <2>3, <2>4, <2>5 DEF Fail
<1>13. CASE NextIteration
  <2> DEFINE c == [ctx EXCEPT !.ranges[Len(ctx.ranges)] = Produced(@)]
  <2>1. \/ UNCHANGED <<used, written>>
        \/ Deliver(c, TopRange.pipe, used, Instr.body)
    BY <1>13 DEF NextIteration, Fail
  <2> HIDE DEF c
  <2>2. QED
    BY <1>1, <1>5, <1>11, <2>1 DEF Counted, CountersBounded
<1>14. CASE CallTemplate
  <2>1. \/ UNCHANGED <<used, written>>
        \/ /\ Within(used.calls + Instr.pipe.calls, MaxCalls) /\ UNCHANGED written
           /\ used' = [used EXCEPT !.calls = used.calls + Instr.pipe.calls]
    BY <1>14 DEF CallTemplate, ChargeCalls, EnterTemplate, Fail
  <2>2. Instr.pipe.calls \in Nat
    BY <1>3, <1>14 DEF CallTemplate
  <2>3. QED
    BY <1>4, <1>5, <2>1, <2>2
<1>15. CASE PipelineFails
  <2>1. PICK k \in 0 .. Instr.pipe.calls :
             /\ Within(used.calls + k, MaxCalls) /\ UNCHANGED written
             /\ used' = [used EXCEPT !.calls = used.calls + k]
    BY <1>15 DEF PipelineFails, Fail
  <2>2. QED
    BY <1>4, <2>1
<1>16. CASE BindingFails
  <2>1. /\ Within(used.calls + Instr.pipe.calls, MaxCalls) /\ UNCHANGED written
        /\ used' = [used EXCEPT !.calls = used.calls + Instr.pipe.calls]
    BY <1>16 DEF BindingFails, ChargeCalls, Fail
  <2>2. Instr.pipe.calls \in Nat
    BY <1>3, <1>16 DEF BindingFails, At
  <2>3. QED
    BY <1>4, <2>1, <2>2
<1>17. QED
  BY <1>5, <1>6, <1>7, <1>8, <1>9, <1>10, <1>12, <1>13, <1>14, <1>15, <1>16
     DEF Next, vars

\* Every counter stays within its limit, nothing is written before it is
\* charged, and no call is deeper than its limits, in renders that fail as in
\* those that finish.
THEOREM BudgetsHold == Spec => []WithinBudget
<1>1. Init => CountersBounded
  BY LimitAssumption DEF Init, CountersBounded, Within, LimitAssumption, Limits
<1>2. Control /\ CountersBounded /\ [Next]_vars => CountersBounded'
  BY BudgetStep
<1>3. CountersBounded /\ DepthBounded => WithinBudget
  BY DEF WithinBudget
<1>4. QED
  BY <1>1, <1>2, <1>3, ControlInvariant, DepthIsBounded, PTL DEF Spec

----------------------------------------------------------------------------
(* Structured programs: blocks leave nothing behind                         *)

Kinds == {"with", "range"}

\* The outermost saved dot is the one the template was called with.
DotSaved(c, o) ==
    /\ o = <<>> => c.dot = c.root
    /\ o # <<>> /\ o[1] = "with" => c.dots[1] = c.root
    /\ o # <<>> /\ o[1] = "range" => c.ranges[1].dot = c.root

\* The stacks of c are those of position m, where the blocks o are open.
Tidy(c, m, o) ==
    /\ Len(c.scopes) <= m.scopes + 1
    /\ Len(c.dots) = m.dots /\ Len(c.ranges) = m.ranges
    /\ ~AssignsRoot => DotSaved(c, o)

Shapes == [scopes : Nat, dots : Nat, ranges : Nat]

\* The map counts what is open.
Counts(m, o) ==
    /\ m \in Shapes /\ o \in Seq(Kinds)
    /\ m.dots = Occurrences("with", o) /\ m.ranges = Occurrences("range", o)

LEMMA OccurrenceFacts ==
    ASSUME NEW o \in Seq(Kinds), NEW kind \in Kinds
    PROVE  /\ Occurrences(kind, o) \in Nat
           /\ o # <<>> /\ o[1] = kind => Occurrences(kind, o) >= 1
           /\ Len(o) = 1 /\ o[1] = kind => Occurrences(kind, o) = 1
           /\ Len(o) > 1 /\ o[1] = kind /\ o[Len(o)] = kind => Occurrences(kind, o) >= 2
           /\ Occurrences(kind, o) = 0 => \A k \in 1 .. Len(o) : o[k] # kind
<1> DEFINE S == {k \in DOMAIN o : o[k] = kind}
           n == Len(o)
<1>1. n \in Nat /\ DOMAIN o = 1 .. n
  OBVIOUS
<1>2. IsFiniteSet(1 .. n)
  BY <1>1, FS_Interval
<1>3. S \in SUBSET (1 .. n)
  BY <1>1
<1>4. Occurrences(kind, o) = Cardinality(S)
  BY DEF Occurrences
<1>5. \A k \in 1 .. n : o[k] = kind => k \in S
  BY <1>1
<1> HIDE DEF S
<1>6. IsFiniteSet(S)
  BY <1>2, <1>3, FS_Subset
<1>7. Cardinality(S) \in Nat
  BY <1>6, FS_CardinalityType
<1>8. ASSUME NEW T \in SUBSET S
      PROVE  Cardinality(T) <= Cardinality(S)
  BY <1>6, FS_Subset
<1>9. ASSUME NEW k \in S
      PROVE  Cardinality(S) >= 1
  <2>1. Cardinality({k}) = 1
    BY FS_Singleton
  <2>2. {k} \in SUBSET S
    OBVIOUS
  <2>3. Cardinality({k}) <= Cardinality(S)
    BY <1>8, <2>2
  <2>4. QED
    BY <1>7, <2>1, <2>3
<1>10. o # <<>> => n >= 1
  BY <1>1
<1>11. o # <<>> /\ o[1] = kind => Cardinality(S) >= 1
  BY <1>1, <1>5, <1>9, <1>10
<1>12. n = 1 /\ o[1] = kind => Cardinality(S) = 1
  <2>1. n = 1 /\ o[1] = kind => S = {1}
    <3> SUFFICES ASSUME n = 1, o[1] = kind PROVE S = {1}
      OBVIOUS
    <3>1. 1 .. n = {1}
      BY <1>1
    <3>2. 1 \in S
      BY <1>5, <3>1
    <3>3. QED
      BY <1>3, <3>1, <3>2
  <2>2. Cardinality({1}) = 1
    BY FS_Singleton
  <2>3. QED
    BY <2>1, <2>2
<1>13. n > 1 /\ o[1] = kind /\ o[n] = kind => Cardinality(S) >= 2
  <2> SUFFICES ASSUME n > 1, o[1] = kind, o[n] = kind PROVE Cardinality(S) >= 2
    OBVIOUS
  <2>1. 1 \in S /\ n \in S /\ n # 1
    BY <1>1, <1>5
  <2>2. IsFiniteSet({1}) /\ Cardinality({1}) = 1
    BY FS_Singleton
  <2>3. Cardinality({1} \cup {n}) = 2
    <3>1. n \notin {1}
      BY <2>1
    <3> DEFINE one == {1}
    <3>2. IsFiniteSet(one) /\ Cardinality(one) = 1 /\ n \notin one
      BY <2>2, <3>1
    <3> HIDE DEF one
    <3>3. Cardinality(one \cup {n}) = Cardinality(one) + 1
      BY <3>2, FS_AddElement
    <3>4. Cardinality(one \cup {n}) = 2
      BY <3>2, <3>3
    <3>5. QED
      BY <3>4 DEF one
  <2>4. {1} \cup {n} \in SUBSET S
    BY <2>1
  <2>5. Cardinality({1} \cup {n}) <= Cardinality(S)
    BY <1>8, <2>4
  <2>6. QED
    BY <1>7, <2>3, <2>5
<1>14. Cardinality(S) = 0 => \A k \in 1 .. n : o[k] # kind
  BY <1>5, <1>6, FS_EmptySet
<1>15. QED
  BY <1>4, <1>7, <1>11, <1>12, <1>13, <1>14

LEMMA NothingOpen ==
    ASSUME NEW m, NEW o, Counts(m, o), m.dots = 0, m.ranges = 0
    PROVE  o = <<>>
<1>1. o \in Seq(Kinds) /\ Occurrences("with", o) = 0 /\ Occurrences("range", o) = 0
  BY DEF Counts
<1>2. \A k \in 1 .. Len(o) : o[k] # "with" /\ o[k] # "range"
  BY <1>1, OccurrenceFacts DEF Kinds
<1>3. \A k \in 1 .. Len(o) : o[k] \in Kinds
  BY <1>1
<1>4. 1 .. Len(o) = {}
  BY <1>2, <1>3 DEF Kinds
<1>5. Len(o) = 0
  BY <1>1, <1>4, LenProperties
<1>6. QED
  BY <1>1, <1>5, EmptySeq

\* Which block is outermost when one opens, and when one closes.
LEMMA OneOpens ==
    ASSUME NEW o \in Seq(Kinds), NEW kind \in Kinds
    PROVE  /\ Append(o, kind) \in Seq(Kinds) /\ Append(o, kind) # <<>>
           /\ Append(o, kind)[1] = IF o = <<>> THEN kind ELSE o[1]
<1>1. Len(Append(o, kind)) = Len(o) + 1 /\ Len(o) \in Nat
  OBVIOUS
<1>2. QED
  BY <1>1

LEMMA OneCloses ==
    ASSUME NEW o \in Seq(Kinds), o # <<>>
    PROVE  LET p == SubSeq(o, 1, Len(o) - 1) IN
           /\ p \in Seq(Kinds)
           /\ p = <<>> <=> Len(o) = 1
           /\ p # <<>> => p[1] = o[1] /\ Len(o) > 1
<1> DEFINE p == SubSeq(o, 1, Len(o) - 1)
<1>1. p = DropLast(o)
  BY DEF DropLast
<1>2. /\ p \in Seq(Kinds) /\ Len(p) = Len(o) - 1
      /\ \A i \in 1 .. Len(o) - 1 : p[i] = o[i]
      /\ Len(o) \in Nat \ {0}
  BY <1>1, DropLastType
<1> HIDE DEF p
<1>3. p = <<>> <=> Len(o) = 1
  BY <1>2
<1>4. p # <<>> => p[1] = o[1] /\ Len(o) > 1
  BY <1>2, <1>3
<1>5. QED
  BY <1>2, <1>3, <1>4 DEF p

\* Context d is c after an assignment or a declaration: its stacks are those of
\* c, but for the one scope a declaration outside every block opens.
Settles(d, c, dot) ==
    /\ Keeps(d, c, dot)
    /\ Len(d.scopes) <= Len(c.scopes) \/ Len(d.scopes) = 1
    /\ ~AssignsRoot => d.root = c.root

\* An assignment to a bound variable unbinds nothing.
LEMMA AssignSettles ==
    ASSUME NEW c \in Contexts, NEW v \in Vars, NEW value \in Values, Bound(c, v)
    PROVE  /\ Len(Assign(c, v, value).scopes) = Len(c.scopes)
           /\ Assign(c, v, value).root = c.root
           /\ \A w \in Vars : Bound(c, w) => Bound(Assign(c, v, value), w)
<1>1. c.scopes \in Seq(Scopes)
  BY ContextsType
<1>2. PICK i \in DOMAIN c.scopes : i = CHOOSE k \in DOMAIN c.scopes : Holds(c, v, k)
  BY DEF Bound
<1>3. PICK j \in DOMAIN c.scopes :
           j = (CHOOSE k \in DOMAIN c.scopes : Holds(c, v, k)) /\ Holds(c, v, j)
  BY DEF Bound
<1> DEFINE d == Assign(c, v, value)
           s == [c.scopes EXCEPT ![i][v] = value]
<1>4. d = [c EXCEPT !.scopes[i][v] = value]
  BY <1>2 DEF Assign
<1>5. d = [c EXCEPT !.scopes = s]
  BY <1>4, ContextsType
<1>6. s \in Seq(Scopes) /\ Len(s) = Len(c.scopes)
  BY <1>1, ScopesUpdate
<1>7. Rescoped(d, c, s)
  BY <1>5, <1>6, WithScopes
<1>8. \A k \in DOMAIN c.scopes : \A w \in Vars :
         s[k][w] = IF k = i /\ w = v THEN value ELSE c.scopes[k][w]
  <2> TAKE k \in DOMAIN c.scopes
  <2> TAKE w \in Vars
  <2>1. c.scopes[k] \in [Vars -> Values \cup {Unset}]
    BY <1>1 DEF Scopes
  <2>2. QED
    BY <1>1, <2>1
<1> HIDE DEF s, d
<1>9. d.scopes = s /\ d.root = c.root /\ DOMAIN s = DOMAIN c.scopes
  BY <1>1, <1>6, <1>7 DEF Rescoped
<1>10. value # Unset /\ c.scopes[i][v] # Unset
  BY <1>2, <1>3, ValueAssumption DEF ValueAssumption, Holds
<1>11. ASSUME NEW w \in Vars, NEW k \in DOMAIN c.scopes
       PROVE  s[k][w] = Unset <=> c.scopes[k][w] = Unset
  BY <1>8, <1>10
<1>12. ASSUME NEW w \in Vars, Bound(c, w)
       PROVE  Bound(d, w)
  <2>1. PICK k \in DOMAIN c.scopes : Holds(c, w, k)
    BY <1>12 DEF Bound
  <2>2. Holds(d, w, k)
    BY <1>9, <1>11, <2>1 DEF Holds
  <2>3. QED
    BY <1>9, <2>1, <2>2 DEF Bound
<1>13. QED
  BY <1>6, <1>9, <1>12 DEF d

LEMMA SetVariableSettles ==
    ASSUME NEW c \in Contexts, NEW v \in Vars, NEW value \in Values,
           NEW assignment \in BOOLEAN,
           assignment => Assignable(c, v), v = RootVar => AssignsRoot
    PROVE  Settles(SetVariable(c, v, value, assignment), c, c.dot)
<1>1. c.scopes \in Seq(Scopes)
  BY ContextsType
<1>2. Keeps(SetVariable(c, v, value, assignment), c, c.dot)
  BY SetVariableKeeps
<1> DEFINE d == SetVariable(c, v, value, assignment)
<1>3. CASE ~assignment /\ c.scopes = <<>>
  <2> DEFINE s == <<[EmptyScope EXCEPT ![v] = value]>>
  <2>1. [EmptyScope EXCEPT ![v] = value] \in Scopes
    BY DEF EmptyScope, Scopes
  <2>2. s \in Seq(Scopes) /\ Len(s) = 1
    BY <2>1
  <2>3. d = [c EXCEPT !.scopes = s]
    BY <1>3 DEF SetVariable, Declare
  <2> HIDE DEF s, d
  <2>4. Rescoped(d, c, s)
    BY <2>2, <2>3, WithScopes
  <2>5. QED
    BY <1>2, <2>2, <2>4 DEF Settles, Rescoped, d
<1>4. CASE ~assignment /\ c.scopes # <<>>
  <2> DEFINE s == [c.scopes EXCEPT ![Len(c.scopes)][v] = value]
  <2>1. Len(c.scopes) \in 1 .. Len(c.scopes)
    BY <1>1, <1>4
  <2>2. s \in Seq(Scopes) /\ Len(s) = Len(c.scopes)
    BY <1>1, <2>1, ScopesUpdate
  <2>3. d = [c EXCEPT !.scopes[Len(c.scopes)][v] = value]
    BY <1>4 DEF SetVariable, Declare
  <2>4. d = [c EXCEPT !.scopes = s]
    BY <2>3, ContextsType
  <2> HIDE DEF s, d
  <2>5. Rescoped(d, c, s)
    BY <2>2, <2>4, WithScopes
  <2>6. Len(d.scopes) <= Len(c.scopes) /\ d.root = c.root
    BY <1>1, <2>2, <2>5 DEF Rescoped
  <2>7. QED
    BY <1>2, <2>6 DEF Settles, d
<1>5. CASE assignment /\ Bound(c, v)
  <2>1. d = Assign(c, v, value)
    BY <1>5 DEF SetVariable
  <2>2. /\ Len(Assign(c, v, value).scopes) = Len(c.scopes)
        /\ Assign(c, v, value).root = c.root
    BY <1>5, AssignSettles
  <2> HIDE DEF d
  <2>3. Len(d.scopes) <= Len(c.scopes)
    BY <1>1, <2>1, <2>2
  <2>4. QED
    BY <1>2, <2>1, <2>2, <2>3 DEF Settles, d
<1>6. CASE assignment /\ ~Bound(c, v)
  <2>1. v = RootVar /\ AssignsRoot
    BY <1>6 DEF Assignable
  <2>2. d = [c EXCEPT !.root = value]
    BY <1>6 DEF SetVariable, Assign
  <2>3. d.scopes = c.scopes
    BY <2>2, ContextsType
  <2> HIDE DEF d
  <2>4. Len(d.scopes) <= Len(c.scopes)
    BY <1>1, <2>3
  <2>5. QED
    BY <1>2, <2>1, <2>4 DEF Settles, d
<1>7. QED
  BY <1>3, <1>4, <1>5, <1>6

\* What a pipeline binds, a program binds.
LEMMA BindsRoot ==
    ASSUME NEW p \in Pipes, NEW b \in DOMAIN p.binds, p.binds[b] = RootVar
    PROVE  AssignsRoot
<1>1. PICK n \in Names : \E k \in DOMAIN Prog[n] : p = Prog[n][k].pipe
  BY DEF Pipes
<1>2. QED
  BY <1>1 DEF AssignsRoot

LEMMA BindSettles ==
    ASSUME NEW c \in Contexts, NEW p \in Pipes, NEW value \in Values, CanBind(c, p)
    PROVE  Settles(Bind(c, p, value), c, c.dot)
<1>1. p.binds \in Seq(Vars) /\ p.assign \in BOOLEAN
  BY PipesType
<1>2. CASE p.binds = <<>>
  <2>1. c.scopes \in Seq(Scopes)
    BY ContextsType
  <2>2. Bind(c, p, value) = c
    BY <1>2 DEF Bind
  <2>3. QED
    BY <2>1, <2>2 DEF Settles, Keeps
<1>3. CASE p.binds # <<>>
  <2>1. p.binds[1] \in Vars /\ 1 \in DOMAIN p.binds
    BY <1>1, <1>3
  <2>2. p.assign => Assignable(c, p.binds[1])
    BY <1>3 DEF CanBind
  <2>3. p.binds[1] = RootVar => AssignsRoot
    BY <2>1, BindsRoot
  <2>4. Bind(c, p, value) = SetVariable(c, p.binds[1], value, p.assign)
    BY <1>3 DEF Bind
  <2>5. QED
    BY <1>1, <2>1, <2>2, <2>3, <2>4, SetVariableSettles
<1>4. QED
  BY <1>2, <1>3

LEMMA EnterItemSettles ==
    ASSUME NEW c \in Contexts, NEW p \in Pipes,
           NEW key \in Values, NEW item \in Values, CanBindItem(c, p)
    PROVE  Settles(EnterItem(c, p, key, item), c, item)
<1>1. p.binds \in Seq(Vars) /\ p.assign \in BOOLEAN
  BY PipesType
<1> DEFINE d == [c EXCEPT !.dot = item]
<1>2. /\ d \in Contexts /\ d.dot = item /\ d.root = c.root /\ d.scopes = c.scopes
      /\ d.dots = c.dots /\ d.ranges = c.ranges
  BY ContextsType
<1>3. c.scopes \in Seq(Scopes)
  BY ContextsType
<1>4. EnterItem(c, p, key, item) =
        CASE Len(p.binds) = 1 -> SetVariable(d, p.binds[1], item, p.assign)
          [] Len(p.binds) = 2 ->
                SetVariable(SetVariable(d, p.binds[1], key, p.assign),
                            p.binds[2], item, p.assign)
          [] OTHER -> d
  BY DEF EnterItem
<1> HIDE DEF d
<1>5. \A w \in Vars : /\ Bound(c, w) <=> Bound(d, w)
                      /\ Assignable(c, w) <=> Assignable(d, w)
  BY <1>2 DEF Bound, Holds, Assignable
<1>6. ASSUME NEW e, Settles(e, d, item)
      PROVE  Settles(e, c, item)
  BY <1>2, <1>6 DEF Settles, Keeps
<1>7. CASE Len(p.binds) = 1
  <2>1. p.binds[1] \in Vars /\ 1 \in DOMAIN p.binds
    BY <1>1, <1>7
  <2>2. p.assign => Assignable(d, p.binds[1])
    BY <1>5, <2>1 DEF CanBindItem
  <2>3. p.binds[1] = RootVar => AssignsRoot
    BY <2>1, BindsRoot
  <2>4. Settles(SetVariable(d, p.binds[1], item, p.assign), d, item)
    BY <1>1, <1>2, <2>1, <2>2, <2>3, SetVariableSettles
  <2>5. QED
    BY <1>4, <1>6, <1>7, <2>4
<1>8. CASE Len(p.binds) = 2
  <2> DEFINE v == p.binds[1]
             w == p.binds[2]
             e == SetVariable(d, v, key, p.assign)
             f == SetVariable(e, w, item, p.assign)
  <2>1. v \in Vars /\ w \in Vars /\ 1 \in DOMAIN p.binds /\ 2 \in DOMAIN p.binds
    BY <1>1, <1>8
  <2>2. p.assign => Assignable(d, v) /\ Assignable(d, w)
    BY <1>5, <2>1 DEF CanBindItem
  <2>3. (v = RootVar => AssignsRoot) /\ (w = RootVar => AssignsRoot)
    BY <2>1, BindsRoot
  <2>4. EnterItem(c, p, key, item) = f
    BY <1>4, <1>8
  <2> HIDE DEF v, w
  <2>5. Settles(e, d, item)
    BY <1>1, <1>2, <2>1, <2>2, <2>3, SetVariableSettles
  <2>6. p.assign => Assignable(e, w)
    <3> SUFFICES ASSUME p.assign, w # RootVar PROVE Bound(e, w)
      BY DEF Assignable
    <3>1. Bound(d, w)
      BY <2>2 DEF Assignable
    <3>2. e = Assign(d, v, key)
      BY DEF SetVariable
    <3>3. CASE Bound(d, v)
      BY <1>2, <2>1, <3>1, <3>2, <3>3, AssignSettles
    <3>4. CASE ~Bound(d, v)
      <4>1. e = [d EXCEPT !.root = key]
        BY <3>2, <3>4 DEF Assign
      <4>2. e.scopes = d.scopes
        BY <1>2, <4>1, ContextsType
      <4>3. QED
        BY <3>1, <4>2 DEF Bound, Holds
    <3>5. QED
      BY <3>3, <3>4
  <2>7. e \in Contexts /\ e.dot = item
    BY <2>5 DEF Settles, Keeps
  <2> HIDE DEF e
  <2>8. Settles(f, e, item)
    BY <1>1, <2>1, <2>3, <2>6, <2>7, SetVariableSettles
  <2> HIDE DEF f
  <2>9. Settles(f, d, item)
    <3>1. /\ Len(d.scopes) \in Nat /\ Len(e.scopes) \in Nat /\ Len(f.scopes) \in Nat
          /\ Len(e.scopes) >= Len(d.scopes) /\ Len(f.scopes) >= Len(e.scopes)
      BY <1>2, <2>5, <2>7, <2>8, ContextsType DEF Settles, Keeps
    <3>2. Len(f.scopes) <= Len(d.scopes) \/ Len(f.scopes) = 1
      BY <2>5, <2>8, <3>1 DEF Settles
    <3>3. Keeps(f, d, item)
      BY <2>5, <2>8, <3>1 DEF Settles, Keeps
    <3>4. QED
      BY <2>5, <2>8, <3>2, <3>3 DEF Settles
  <2>10. QED
    BY <1>6, <2>4, <2>9
<1>9. CASE Len(p.binds) \notin {1, 2}
  BY <1>2, <1>3, <1>4, <1>9 DEF Settles, Keeps
<1>10. QED
  BY <1>7, <1>8, <1>9

----------------------------------------------------------------------------
(* Steps of structured programs                                             *)

\* Every program is structured: open tells its blocks, by position.
Nests(open) == \A n \in Names : Structured(Prog[n], Map[n], open[n])

TidyAt(open, n, c, k) == Tidy(c, Map[n][k], open[n][k])

\* The inductive invariant, for the running template and for its callers.
TidyInv(open) ==
    /\ status = "running" => TidyAt(open, prog, ctx, pc)
    /\ \A k \in DOMAIN frames : TidyAt(open, frames[k].prog, frames[k].ctx, frames[k].pc)

\* The structure around the instruction that runs.
LEMMA HereNests ==
    ASSUME Control, NEW open, Nests(open), NEW op, At(op)
    PROVE  LET m == Map[prog][pc]
               o == open[prog][pc]
           IN /\ Counts(m, o)
              /\ op = "EXIT_WITH" => Innermost("with", o)
              /\ op \in {"NEXT_ITERATION", "BREAK_RANGE"} => Innermost("range", o)
              /\ op \notin NoFallThroughOps =>
                    /\ Map[prog][pc + 1] = FallThrough(op, m)
                    /\ open[prog][pc + 1] = OpenNext(op, o)
              /\ op \in JumpOps =>
                    /\ Map[prog][Instr.target] = Jumping(op, m)
                    /\ open[prog][Instr.target] = OpenTarget(op, o)
              /\ op = "NEXT_ITERATION" =>
                    /\ Map[prog][Instr.body] = m
                    /\ open[prog][Instr.body] = o
<1>1. prog \in Names /\ pc \in 1 .. Len(Prog[prog]) /\ Prog[prog][pc] = Instr /\ Instr.op = op
  BY Here DEF Instr
<1>2. Structured(Prog[prog], Map[prog], open[prog])
  BY <1>1 DEF Nests
<1>3. Map[prog] \in [1 .. Len(Prog[prog]) + 1 -> Shapes]
  BY <1>1, InstructionFacts DEF Shapes
<1>4. Len(Prog[prog]) \in Nat
  BY <1>1, ProgramAssumption DEF ProgramAssumption
<1>5. pc \in 1 .. Len(Prog[prog]) + 1
  BY <1>1, <1>4
<1>6. Counts(Map[prog][pc], open[prog][pc])
  <2>1. open[prog] \in [1 .. Len(Prog[prog]) + 1 -> Seq(Kinds)]
    BY <1>2 DEF Structured, Kinds
  <2>2. /\ Map[prog][pc].dots = Occurrences("with", open[prog][pc])
        /\ Map[prog][pc].ranges = Occurrences("range", open[prog][pc])
    BY <1>2, <1>5 DEF Structured
  <2>3. QED
    BY <1>3, <1>5, <2>1, <2>2 DEF Counts
<1>7. QED
  BY <1>1, <1>2, <1>6 DEF Structured

LEMMA HereTidy ==
    ASSUME NEW open, TidyInv(open), NEW op, At(op)
    PROVE  Tidy(ctx, Map[prog][pc], open[prog][pc])
BY DEF TidyInv, TidyAt, At

\* What a step does to tidy stacks: the running template's stay tidy.
MovesTidy(open) ==
    TidyAt(open, prog, ctx', pc') /\ UNCHANGED <<prog, frames, status, cause>>

\* Variables may be set anywhere; dot may be moved inside a block.
LEMMA SettlesTidy ==
    ASSUME NEW c \in Contexts, NEW d, NEW dot, Settles(d, c, dot),
           NEW m \in Shapes, NEW o, Tidy(c, m, o), dot = c.dot \/ o # <<>>
    PROVE  Tidy(d, m, o)
<1>1. Len(c.scopes) \in Nat /\ Len(d.scopes) \in Nat /\ m.scopes \in Nat
  BY ContextsType DEF Settles, Keeps, Shapes
<1>2. Len(d.scopes) <= m.scopes + 1
  <2>1. Len(d.scopes) <= Len(c.scopes) \/ Len(d.scopes) = 1
    BY DEF Settles
  <2>2. Len(c.scopes) <= m.scopes + 1
    BY DEF Tidy
  <2> DEFINE k == Len(c.scopes)
             n == Len(d.scopes)
             b == m.scopes
  <2>3. k \in Nat /\ n \in Nat /\ b \in Nat /\ k <= b + 1 /\ (n <= k \/ n = 1)
    BY <1>1, <2>1, <2>2
  <2> HIDE DEF k, n, b
  <2>4. n <= b + 1
    BY <2>3
  <2>5. QED
    BY <2>4 DEF n, b
<1>3. d.dots = c.dots /\ d.ranges = c.ranges /\ d.dot = dot
  BY DEF Settles, Keeps
<1>4. ~AssignsRoot => DotSaved(d, o)
  BY <1>3 DEF Settles, Tidy, DotSaved
<1>5. QED
  BY <1>2, <1>3, <1>4 DEF Tidy

\* A shape that an operation only copies.
LEMMA EffectFacts ==
    ASSUME NEW m \in Shapes, NEW op \in OpCodes
    PROVE  /\ op \notin {"PUSH_SCOPE", "POP_SCOPE", "ENTER_WITH", "EXIT_WITH", "ITERATE"} =>
                 FallThrough(op, m) = m
           /\ op \notin {"NEXT_ITERATION", "BREAK_RANGE"} => Jumping(op, m) = m
<1>1. m = [scopes |-> m.scopes, dots |-> m.dots, ranges |-> m.ranges]
      /\ m.scopes \in Nat /\ m.dots \in Nat /\ m.ranges \in Nat
  BY DEF Shapes
<1>2. ASSUME op \notin {"PUSH_SCOPE", "POP_SCOPE", "ENTER_WITH", "EXIT_WITH", "ITERATE"}
      PROVE  FallThrough(op, m) = m
  <2>1. FallThrough(op, m) = [scopes |-> m.scopes + 0, dots |-> m.dots + 0, ranges |-> m.ranges + 0]
    BY <1>2 DEF FallThrough
  <2>2. QED
    BY <1>1, <2>1
<1>3. ASSUME op \notin {"NEXT_ITERATION", "BREAK_RANGE"}
      PROVE  Jumping(op, m) = m
  <2>1. Jumping(op, m) = [m EXCEPT !.ranges = m.ranges - 0]
    BY <1>3 DEF Jumping
  <2>2. QED
    BY <1>1, <2>1
<1>4. QED
  BY <1>2, <1>3

\* An instruction that sets variables at most.
LEMMA SettlesNext ==
    ASSUME Control, NEW open, Nests(open), TidyInv(open),
           NEW op \in {"WRITE_TEXT", "WRITE_DOT", "WRITE_PIPELINE", "EVAL_PIPELINE",
                       "JUMP_IF_FALSE", "CALL_TEMPLATE"},
           At(op), NEW c, Settles(c, ctx, ctx.dot)
    PROVE  TidyAt(open, prog, c, pc + 1)
<1>1. /\ Map[prog][pc + 1] = FallThrough(op, Map[prog][pc])
      /\ open[prog][pc + 1] = OpenNext(op, open[prog][pc])
      /\ Map[prog][pc] \in Shapes
  BY HereNests DEF NoFallThroughOps, Counts
<1>2. FallThrough(op, Map[prog][pc]) = Map[prog][pc]
  BY <1>1, EffectFacts DEF OpCodes
<1>3. OpenNext(op, open[prog][pc]) = open[prog][pc]
  BY DEF OpenNext
<1>4. ctx \in Contexts
  BY Here
<1>5. Tidy(c, Map[prog][pc], open[prog][pc])
  BY <1>1, <1>4, HereTidy, SettlesTidy
<1>6. QED
  BY <1>1, <1>2, <1>3, <1>5 DEF TidyAt

\* A jump that leaves the stacks alone.
LEMMA SettlesTarget ==
    ASSUME Control, NEW open, Nests(open), TidyInv(open),
           NEW op \in {"JUMP_IF_FALSE", "ENTER_WITH", "ITERATE", "JUMP"},
           At(op), NEW c, Settles(c, ctx, ctx.dot)
    PROVE  TidyAt(open, prog, c, Instr.target)
<1>1. /\ Map[prog][Instr.target] = Jumping(op, Map[prog][pc])
      /\ open[prog][Instr.target] = OpenTarget(op, open[prog][pc])
      /\ Map[prog][pc] \in Shapes
  BY HereNests DEF JumpOps, Counts
<1>2. Jumping(op, Map[prog][pc]) = Map[prog][pc]
  BY <1>1, EffectFacts DEF OpCodes
<1>3. OpenTarget(op, open[prog][pc]) = open[prog][pc]
  BY DEF OpenTarget
<1>4. ctx \in Contexts
  BY Here
<1>5. Tidy(c, Map[prog][pc], open[prog][pc])
  BY <1>1, <1>4, HereTidy, SettlesTidy
<1>6. QED
  BY <1>1, <1>2, <1>3, <1>5 DEF TidyAt

LEMMA ContextSettles ==
    ASSUME Control
    PROVE  Settles(ctx, ctx, ctx.dot)
<1>1. ctx \in Contexts
  BY DEF Control, TypeOK, FrameOK
<1>2. Len(ctx.scopes) \in Nat
  BY <1>1, ContextsType
<1>3. QED
  BY <1>2, ContextKeeps DEF Settles

LEMMA WriteTidy ==
    ASSUME Control, NEW open, Nests(open), TidyInv(open),
           NEW op \in {"WRITE_TEXT", "WRITE_DOT", "WRITE_PIPELINE"}, At(op),
           NEW n, NEW u, Write(n, u)
    PROVE  Halts \/ MovesTidy(open)
<1>1. TidyAt(open, prog, ctx, pc + 1)
  BY ContextSettles, SettlesNext
<1>2. CASE Within(u.output + n, MaxOutput)
  BY <1>1, <1>2 DEF Write, Halts, MovesTidy, Causes, Proceed, TidyAt
<1>3. CASE ~Within(u.output + n, MaxOutput)
  BY <1>3, FailHalts DEF Write, Causes
<1>4. QED
  BY <1>2, <1>3

LEMMA EvalTidy ==
    ASSUME Control, NEW open, Nests(open), TidyInv(open), EvalPipeline
    PROVE  MovesTidy(open)
<1>1. /\ At("EVAL_PIPELINE") /\ pc' = pc + 1 /\ UNCHANGED <<prog, frames, status, cause>>
      /\ CanBind(ctx, Instr.pipe)
  BY DEF EvalPipeline, Proceed
<1>2. PICK value \in PipelineValues(ctx, Instr.pipe) : ctx' = Bind(ctx, Instr.pipe, value)
  BY DEF EvalPipeline
<1>3. ctx \in Contexts /\ Instr.pipe \in Pipes
  BY <1>1, Here
<1>4. Settles(ctx', ctx, ctx.dot)
  BY <1>1, <1>2, <1>3, BindSettles, PipelineValuesType
<1>5. TidyAt(open, prog, ctx', pc + 1)
  BY <1>1, <1>4, SettlesNext
<1>6. QED
  BY <1>1, <1>5 DEF MovesTidy

LEMMA JumpIfFalseTidy ==
    ASSUME Control, NEW open, Nests(open), TidyInv(open), JumpIfFalse
    PROVE  MovesTidy(open)
<1>1. /\ At("JUMP_IF_FALSE") /\ UNCHANGED <<prog, frames, status, cause>>
      /\ CanBind(ctx, Instr.pipe)
  BY DEF JumpIfFalse, Proceed
<1>2. PICK value \in PipelineValues(ctx, Instr.pipe) :
           ctx' = Bind(ctx, Instr.pipe, value) /\ pc' = AfterTest(value)
  BY DEF JumpIfFalse
<1>3. ctx \in Contexts /\ Instr.pipe \in Pipes
  BY <1>1, Here
<1>4. Settles(ctx', ctx, ctx.dot)
  BY <1>1, <1>2, <1>3, BindSettles, PipelineValuesType
<1>5. TidyAt(open, prog, ctx', pc + 1) /\ TidyAt(open, prog, ctx', Instr.target)
  BY <1>1, <1>4, SettlesNext, SettlesTarget
<1>6. QED
  BY <1>1, <1>2, <1>5 DEF MovesTidy, AfterTest

LEMMA JumpTidy ==
    ASSUME Control, NEW open, Nests(open), TidyInv(open), Jump
    PROVE  MovesTidy(open)
<1>1. At("JUMP") /\ UNCHANGED <<prog, ctx, frames, status, cause>> /\ pc' = Instr.target
  BY DEF Jump, Proceed
<1>2. TidyAt(open, prog, ctx, Instr.target)
  BY <1>1, ContextSettles, SettlesTarget
<1>3. QED
  BY <1>1, <1>2 DEF MovesTidy, TidyAt

\* Pushing or popping a scope moves the one bound on scopes with it.
LEMMA ScopesTidy ==
    ASSUME Control, NEW open, Nests(open), TidyInv(open),
           NEW op \in {"PUSH_SCOPE", "POP_SCOPE"}, At(op),
           NEW s, Len(s) = Len(ctx.scopes) + (IF op = "PUSH_SCOPE" THEN 1 ELSE -1),
           NEW c, Rescoped(c, ctx, s)
    PROVE  TidyAt(open, prog, c, pc + 1)
<1> DEFINE m == Map[prog][pc]
           o == open[prog][pc]
<1>1. /\ Map[prog][pc + 1] = FallThrough(op, m)
      /\ open[prog][pc + 1] = OpenNext(op, o)
      /\ m \in Shapes
  BY HereNests DEF NoFallThroughOps, Counts
<1>2. OpenNext(op, o) = o
  BY DEF OpenNext
<1>3. Tidy(ctx, m, o)
  BY HereTidy
<1>4. ctx \in Contexts
  BY Here
<1> HIDE DEF m, o
<1> DEFINE by == IF op = "PUSH_SCOPE" THEN 1 ELSE -1
<1>5. /\ FallThrough(op, m).scopes = m.scopes + by
      /\ FallThrough(op, m).dots = m.dots /\ FallThrough(op, m).ranges = m.ranges
  BY <1>1 DEF FallThrough, Shapes
<1>6. by \in Int /\ Len(s) = Len(ctx.scopes) + by
  OBVIOUS
<1> HIDE DEF by
<1>7. Len(c.scopes) <= FallThrough(op, m).scopes + 1
  <2>1. Len(ctx.scopes) \in Nat /\ m.scopes \in Nat
    BY <1>1, <1>4, ContextsType DEF Shapes
  <2>2. Len(ctx.scopes) <= m.scopes + 1
    BY <1>3 DEF Tidy
  <2>3. Len(c.scopes) = Len(ctx.scopes) + by
    BY <1>6 DEF Rescoped
  <2>4. QED
    BY <1>5, <1>6, <2>1, <2>2, <2>3
<1>8. c.dots = ctx.dots /\ c.ranges = ctx.ranges /\ c.dot = ctx.dot /\ c.root = ctx.root
  BY DEF Rescoped
<1>9. Tidy(c, FallThrough(op, m), o)
  BY <1>3, <1>5, <1>7, <1>8 DEF Tidy, DotSaved
<1>10. QED
  BY <1>1, <1>2, <1>9 DEF TidyAt, m, o

LEMMA PushScopeTidy ==
    ASSUME Control, NEW open, Nests(open), TidyInv(open), PushScope
    PROVE  MovesTidy(open)
<1>1. /\ At("PUSH_SCOPE") /\ pc' = pc + 1 /\ UNCHANGED <<prog, frames, status, cause>>
      /\ ctx' = [ctx EXCEPT !.scopes = Append(ctx.scopes, EmptyScope)]
  BY DEF PushScope, Proceed
<1>2. ctx \in Contexts
  BY <1>1, Here
<1>3. ctx.scopes \in Seq(Scopes) /\ EmptyScope \in Scopes
  BY <1>2, ContextsType DEF EmptyScope, Scopes
<1>4. Append(ctx.scopes, EmptyScope) \in Seq(Scopes)
      /\ Len(Append(ctx.scopes, EmptyScope)) = Len(ctx.scopes) + 1
  BY <1>3
<1>5. Rescoped(ctx', ctx, Append(ctx.scopes, EmptyScope))
  BY <1>1, <1>2, <1>4, WithScopes
<1>6. TidyAt(open, prog, ctx', pc + 1)
  BY <1>1, <1>4, <1>5, ScopesTidy
<1>7. QED
  BY <1>1, <1>6 DEF MovesTidy

LEMMA PopScopeTidy ==
    ASSUME Control, NEW open, Nests(open), TidyInv(open), PopScope
    PROVE  MovesTidy(open)
<1>1. At("POP_SCOPE") /\ Moves
  BY PopScopeStep DEF PopScope
<1>2. ctx.scopes # <<>>
  BY <1>1 DEF PopScope, Fail, Moves, At
<1>3. /\ pc' = pc + 1 /\ UNCHANGED <<prog, frames, status, cause>>
      /\ ctx' = [ctx EXCEPT !.scopes = DropLast(ctx.scopes)]
  BY <1>2 DEF PopScope, Proceed
<1>4. ctx \in Contexts /\ ctx.scopes \in Seq(Scopes)
  BY <1>1, Here, ContextsType
<1>5. DropLast(ctx.scopes) \in Seq(Scopes) /\ Len(DropLast(ctx.scopes)) = Len(ctx.scopes) - 1
  BY <1>2, <1>4, DropLastType
<1>6. Rescoped(ctx', ctx, DropLast(ctx.scopes))
  BY <1>3, <1>4, <1>5, WithScopes
<1>7. Len(DropLast(ctx.scopes)) = Len(ctx.scopes) + -1
  BY <1>4, <1>5
<1>8. TidyAt(open, prog, ctx', pc + 1)
  BY <1>1, <1>6, <1>7, ScopesTidy
<1>9. QED
  BY <1>3, <1>8 DEF MovesTidy

\* The blocks behind an instruction that opens one, and behind one that closes
\* the innermost.
LEMMA OpenedCounts ==
    ASSUME NEW m, NEW o, Counts(m, o)
    PROVE  /\ m.dots \in Nat /\ m.ranges \in Nat /\ m.scopes \in Nat
           /\ o = <<>> => m.dots = 0 /\ m.ranges = 0
           /\ o # <<>> /\ o[1] = "with" => m.dots >= 1
           /\ o # <<>> /\ o[1] = "range" => m.ranges >= 1
           /\ Len(o) = 1 /\ o[1] = "with" => m.dots = 1
           /\ Len(o) = 1 /\ o[1] = "range" => m.ranges = 1
           /\ Len(o) > 1 /\ o[1] = "with" /\ o[Len(o)] = "with" => m.dots >= 2
           /\ Len(o) > 1 /\ o[1] = "range" /\ o[Len(o)] = "range" => m.ranges >= 2
<1>1. o \in Seq(Kinds) /\ m \in Shapes
  BY DEF Counts
<1>2. m.dots = Occurrences("with", o) /\ m.ranges = Occurrences("range", o)
  BY DEF Counts
<1>3. "with" \in Kinds /\ "range" \in Kinds
  BY DEF Kinds
<1>4. o = <<>> => m.dots = 0 /\ m.ranges = 0
  <2> SUFFICES ASSUME o = <<>> PROVE m.dots = 0 /\ m.ranges = 0
    OBVIOUS
  <2>1. ASSUME NEW kind PROVE Occurrences(kind, o) = 0
    <3>1. {k \in DOMAIN o : o[k] = kind} = {}
      OBVIOUS
    <3>2. QED
      BY <3>1, FS_EmptySet DEF Occurrences
  <2>2. QED
    BY <1>2, <2>1
<1>5. m.dots \in Nat /\ m.ranges \in Nat /\ m.scopes \in Nat
  BY <1>1 DEF Shapes
<1>6. /\ o # <<>> /\ o[1] = "with" => m.dots >= 1
      /\ Len(o) = 1 /\ o[1] = "with" => m.dots = 1
      /\ Len(o) > 1 /\ o[1] = "with" /\ o[Len(o)] = "with" => m.dots >= 2
  BY <1>1, <1>2, <1>3, OccurrenceFacts
<1>7. /\ o # <<>> /\ o[1] = "range" => m.ranges >= 1
      /\ Len(o) = 1 /\ o[1] = "range" => m.ranges = 1
      /\ Len(o) > 1 /\ o[1] = "range" /\ o[Len(o)] = "range" => m.ranges >= 2
  BY <1>1, <1>2, <1>3, OccurrenceFacts
<1>8. QED
  BY <1>4, <1>5, <1>6, <1>7

\* Entering a with saves dot, and the first one to open saves the root.
LEMMA SavesDot ==
    ASSUME NEW c \in Contexts, NEW m, NEW o, Counts(m, o), Tidy(c, m, o),
           NEW d, d.dots = Append(c.dots, c.dot),
           d.scopes = c.scopes, d.ranges = c.ranges, d.root = c.root
    PROVE  Tidy(d, FallThrough("ENTER_WITH", m), OpenNext("ENTER_WITH", o))
<1>1. c.dots \in Seq(Values) /\ c.dot \in Values /\ m \in Shapes /\ o \in Seq(Kinds)
  BY ContextsType DEF Counts
<1>2. /\ FallThrough("ENTER_WITH", m).scopes = m.scopes
      /\ FallThrough("ENTER_WITH", m).dots = m.dots + 1
      /\ FallThrough("ENTER_WITH", m).ranges = m.ranges
  BY <1>1 DEF FallThrough, Shapes
<1>3. Len(d.dots) = Len(c.dots) + 1 /\ Len(c.dots) = m.dots
  BY <1>1 DEF Tidy
<1>4. c.dots = <<>> => d.dots[1] = c.dot
  BY <1>1
<1>5. c.dots # <<>> => d.dots[1] = c.dots[1]
  BY <1>1
<1> DEFINE p == Append(o, "with")
<1>6. p # <<>> /\ p[1] = (IF o = <<>> THEN "with" ELSE o[1])
  BY <1>1, OneOpens DEF Kinds
<1>7. OpenNext("ENTER_WITH", o) = p
  BY DEF OpenNext
<1> HIDE DEF p
<1>8. ASSUME ~AssignsRoot
      PROVE  DotSaved(d, p)
  <2>1. DotSaved(c, o)
    BY <1>8 DEF Tidy
  <2>2. CASE o = <<>>
    <3>1. m.dots = 0
      BY <2>2, OpenedCounts
    <3>2. c.dots = <<>>
      BY <1>1, <1>3, <3>1, EmptySeq
    <3>3. d.dots[1] = d.root
      BY <1>4, <2>1, <2>2, <3>2 DEF DotSaved
    <3>4. QED
      BY <1>6, <2>2, <3>3 DEF DotSaved
  <2>3. CASE o # <<>> /\ o[1] = "with"
    <3>1. m.dots >= 1 /\ m.dots \in Nat
      BY <2>3, OpenedCounts
    <3>2. c.dots # <<>>
      BY <1>1, <1>3, <3>1
    <3>3. d.dots[1] = d.root
      BY <1>5, <2>1, <2>3, <3>2 DEF DotSaved
    <3>4. QED
      BY <1>6, <2>3, <3>3 DEF DotSaved
  <2>4. CASE o # <<>> /\ o[1] # "with"
    BY <1>6, <2>1, <2>4 DEF DotSaved
  <2>5. QED
    BY <2>2, <2>3, <2>4
<1>9. QED
  BY <1>2, <1>3, <1>7, <1>8 DEF Tidy

LEMMA EnterWithTidy ==
    ASSUME Control, NEW open, Nests(open), TidyInv(open), EnterWith
    PROVE  MovesTidy(open)
<1>1. /\ At("ENTER_WITH") /\ UNCHANGED <<prog, frames, status, cause>>
      /\ CanBind(ctx, Instr.pipe)
  BY DEF EnterWith, Proceed
<1>2. PICK value \in PipelineValues(ctx, Instr.pipe) :
           /\ ctx' = (IF value \in Truthy
                      THEN SaveDot(Bind(ctx, Instr.pipe, value), value)
                      ELSE Bind(ctx, Instr.pipe, value))
           /\ pc' = AfterTest(value)
  BY DEF EnterWith
<1> DEFINE c == Bind(ctx, Instr.pipe, value)
           m == Map[prog][pc]
           o == open[prog][pc]
<1>3. ctx \in Contexts /\ Instr.pipe \in Pipes
  BY <1>1, Here
<1>4. value \in Values
  BY <1>3, PipelineValuesType
<1>5. Settles(c, ctx, ctx.dot)
  BY <1>1, <1>3, <1>4, BindSettles
<1>6. ctx' = (IF value \in Truthy THEN SaveDot(c, value) ELSE c)
  BY <1>2
<1>7. Counts(m, o) /\ m \in Shapes
  BY <1>1, HereNests DEF Counts
<1> HIDE DEF c
<1>8. CASE value \in Truthy
  <2>1. Tidy(c, m, o)
    BY <1>1, <1>3, <1>5, <1>7, HereTidy, SettlesTidy
  <2>2. c \in Contexts
    BY <1>5 DEF Settles, Keeps
  <2>3. ctx' = [c EXCEPT !.dots = Append(c.dots, c.dot), !.dot = value]
    BY <1>6, <1>8 DEF SaveDot
  <2>4. /\ ctx'.dots = Append(c.dots, c.dot)
        /\ ctx'.scopes = c.scopes /\ ctx'.ranges = c.ranges /\ ctx'.root = c.root
    BY <2>2, <2>3, ContextsType
  <2>5. Tidy(ctx', FallThrough("ENTER_WITH", m), OpenNext("ENTER_WITH", o))
    BY <1>7, <2>1, <2>2, <2>4, SavesDot
  <2>6. TidyAt(open, prog, ctx', pc + 1)
    BY <1>1, <2>5, HereNests DEF TidyAt, NoFallThroughOps
  <2>7. QED
    BY <1>1, <1>2, <1>8, <2>6 DEF MovesTidy, AfterTest
<1>9. CASE value \notin Truthy
  <2>1. TidyAt(open, prog, c, Instr.target)
    BY <1>1, <1>5, SettlesTarget
  <2>2. QED
    BY <1>1, <1>2, <1>6, <1>9, <2>1 DEF MovesTidy, AfterTest
<1>10. QED
  BY <1>8, <1>9

\* Leaving a with brings back the dot of its entry, and the outermost one the
\* root.
LEMMA RestoresDot ==
    ASSUME NEW c \in Contexts, NEW m, NEW o, Counts(m, o), Tidy(c, m, o),
           Innermost("with", o), NEW d, c.dots # <<>>,
           d.dot = c.dots[Len(c.dots)], d.dots = DropLast(c.dots),
           d.scopes = c.scopes, d.ranges = c.ranges, d.root = c.root
    PROVE  Tidy(d, FallThrough("EXIT_WITH", m), OpenNext("EXIT_WITH", o))
<1>1. c.dots \in Seq(Values) /\ m \in Shapes /\ o \in Seq(Kinds)
  BY ContextsType DEF Counts
<1>2. /\ FallThrough("EXIT_WITH", m).scopes = m.scopes
      /\ FallThrough("EXIT_WITH", m).dots = m.dots - 1
      /\ FallThrough("EXIT_WITH", m).ranges = m.ranges
  BY <1>1 DEF FallThrough, Shapes
<1>3. /\ Len(d.dots) = Len(c.dots) - 1 /\ Len(c.dots) = m.dots
      /\ \A i \in 1 .. Len(c.dots) - 1 : d.dots[i] = c.dots[i]
  BY <1>1, DropLastType DEF Tidy
<1> DEFINE p == SubSeq(o, 1, Len(o) - 1)
<1>4. o # <<>> /\ o[Len(o)] = "with"
  BY DEF Innermost
<1>5. /\ p = <<>> <=> Len(o) = 1
      /\ p # <<>> => p[1] = o[1] /\ Len(o) > 1
  BY <1>1, <1>4, OneCloses
<1>6. OpenNext("EXIT_WITH", o) = p
  BY DEF OpenNext
<1> HIDE DEF p
<1>7. ASSUME ~AssignsRoot
      PROVE  DotSaved(d, p)
  <2>1. DotSaved(c, o)
    BY <1>7 DEF Tidy
  <2>2. CASE p = <<>>
    <3>1. Len(o) = 1 /\ o[1] = "with"
      BY <1>4, <1>5, <2>2
    <3>2. m.dots = 1
      BY <3>1, OpenedCounts
    <3>3. d.dot = d.root
      BY <1>3, <1>4, <2>1, <3>1, <3>2 DEF DotSaved
    <3>4. QED
      BY <2>2, <3>3 DEF DotSaved
  <2>3. CASE p # <<>> /\ p[1] = "with"
    <3>1. m.dots >= 2 /\ m.dots \in Nat
      BY <1>4, <1>5, <2>3, OpenedCounts
    <3>2. d.dots[1] = c.dots[1]
      BY <1>3, <3>1
    <3>3. QED
      BY <1>4, <1>5, <2>1, <2>3, <3>2 DEF DotSaved
  <2>4. CASE p # <<>> /\ p[1] # "with"
    BY <1>4, <1>5, <2>1, <2>4 DEF DotSaved
  <2>5. QED
    BY <2>2, <2>3, <2>4
<1>8. QED
  BY <1>2, <1>3, <1>6, <1>7 DEF Tidy

LEMMA ExitWithTidy ==
    ASSUME Control, NEW open, Nests(open), TidyInv(open), ExitWith
    PROVE  MovesTidy(open)
<1>1. At("EXIT_WITH") /\ Moves
  BY ExitWithStep DEF ExitWith
<1>2. ctx.dots # <<>>
  BY <1>1 DEF ExitWith, Fail, Moves, At
<1>3. /\ pc' = pc + 1 /\ UNCHANGED <<prog, frames, status, cause>>
      /\ ctx' = [ctx EXCEPT !.dot = ctx.dots[Len(ctx.dots)], !.dots = DropLast(ctx.dots)]
  BY <1>2 DEF ExitWith, Proceed
<1>4. ctx \in Contexts
  BY <1>1, Here
<1>5. /\ ctx'.dot = ctx.dots[Len(ctx.dots)] /\ ctx'.dots = DropLast(ctx.dots)
      /\ ctx'.scopes = ctx.scopes /\ ctx'.ranges = ctx.ranges /\ ctx'.root = ctx.root
  BY <1>3, <1>4, ContextsType
<1> DEFINE m == Map[prog][pc]
           o == open[prog][pc]
<1>6. Counts(m, o) /\ Innermost("with", o) /\ Tidy(ctx, m, o)
  BY <1>1, HereNests, HereTidy
<1>7. Tidy(ctx', FallThrough("EXIT_WITH", m), OpenNext("EXIT_WITH", o))
  BY <1>2, <1>4, <1>5, <1>6, RestoresDot
<1>8. TidyAt(open, prog, ctx', pc + 1)
  BY <1>1, <1>7, HereNests DEF TidyAt, NoFallThroughOps
<1>9. QED
  BY <1>3, <1>8 DEF MovesTidy

\* Entering a range saves dot with the iterator.
LEMMA SavesRangeDot ==
    ASSUME NEW c \in Contexts, NEW m, NEW o, Counts(m, o), Tidy(c, m, o), NEW p \in Pipes
    PROVE  Tidy(PushRange(c, p), FallThrough("ITERATE", m), OpenNext("ITERATE", o))
<1> DEFINE r == [dot |-> c.dot, produced |-> 1, pipe |-> p]
           d == PushRange(c, p)
<1>1. c.ranges \in Seq(RangeStates) /\ r \in RangeStates /\ m \in Shapes /\ o \in Seq(Kinds)
  BY ContextsType DEF Counts, RangeStates
<1>2. d = [c EXCEPT !.ranges = Append(c.ranges, r)] /\ r.dot = c.dot
  BY DEF PushRange
<1> HIDE DEF d, r
<1>3. /\ d.ranges = Append(c.ranges, r)
      /\ d.scopes = c.scopes /\ d.dots = c.dots /\ d.root = c.root
  BY <1>2, ContextsType
<1>4. /\ FallThrough("ITERATE", m).scopes = m.scopes
      /\ FallThrough("ITERATE", m).dots = m.dots
      /\ FallThrough("ITERATE", m).ranges = m.ranges + 1
  BY <1>1 DEF FallThrough, Shapes
<1>5. Len(d.ranges) = Len(c.ranges) + 1 /\ Len(c.ranges) = m.ranges
  BY <1>1, <1>3 DEF Tidy
<1>6. c.ranges = <<>> => d.ranges[1] = r
  BY <1>1, <1>3
<1>7. c.ranges # <<>> => d.ranges[1] = c.ranges[1]
  BY <1>1, <1>3
<1> DEFINE q == Append(o, "range")
<1>8. q # <<>> /\ q[1] = (IF o = <<>> THEN "range" ELSE o[1])
  BY <1>1, OneOpens DEF Kinds
<1>9. OpenNext("ITERATE", o) = q
  BY DEF OpenNext
<1> HIDE DEF q
<1>10. ASSUME ~AssignsRoot
       PROVE  DotSaved(d, q)
  <2>1. DotSaved(c, o)
    BY <1>10 DEF Tidy
  <2>2. CASE o = <<>>
    <3>1. m.ranges = 0
      BY <2>2, OpenedCounts
    <3>2. c.ranges = <<>>
      BY <1>1, <1>5, <3>1, EmptySeq
    <3>3. d.ranges[1].dot = d.root
      BY <1>2, <1>3, <1>6, <2>1, <2>2, <3>2 DEF DotSaved
    <3>4. QED
      BY <1>8, <2>2, <3>3 DEF DotSaved
  <2>3. CASE o # <<>> /\ o[1] = "range"
    <3>1. m.ranges >= 1 /\ m.ranges \in Nat
      BY <2>3, OpenedCounts
    <3>2. c.ranges # <<>>
      BY <1>1, <1>5, <3>1
    <3>3. d.ranges[1].dot = d.root
      BY <1>3, <1>7, <2>1, <2>3, <3>2 DEF DotSaved
    <3>4. QED
      BY <1>8, <2>3, <3>3 DEF DotSaved
  <2>4. CASE o # <<>> /\ o[1] # "range"
    BY <1>3, <1>8, <2>1, <2>4 DEF DotSaved
  <2>5. QED
    BY <2>2, <2>3, <2>4
<1>11. Tidy(d, FallThrough("ITERATE", m), q)
  BY <1>3, <1>4, <1>5, <1>10 DEF Tidy
<1>12. QED
  BY <1>9, <1>11 DEF d

\* An item goes to the body of a loop, whose stacks the ready context c has.
LEMMA DeliverTidy ==
    ASSUME Control, NEW open, NEW c \in Contexts, NEW p \in Pipes, NEW u, NEW body,
           Deliver(c, p, u, body),
           Map[prog][body] \in Shapes, open[prog][body] # <<>>,
           TidyAt(open, prog, c, body)
    PROVE  Halts \/ MovesTidy(open)
<1>1. CASE ~Within(u.iterations + 1, MaxIterations) \/ ~CanBindItem(c, p)
  <2>1. Fail("budget") \/ Fail("undefined")
    BY <1>1 DEF Deliver
  <2>2. QED
    BY <2>1, FailHalts DEF Causes
<1>2. CASE Within(u.iterations + 1, MaxIterations) /\ CanBindItem(c, p)
  <2>1. /\ \E key, item \in Values : ctx' = EnterItem(c, p, key, item)
        /\ pc' = body /\ UNCHANGED <<prog, frames, status, cause>>
    BY <1>2 DEF Deliver, Proceed
  <2>2. PICK key \in Values, item \in Values : ctx' = EnterItem(c, p, key, item)
    BY <2>1
  <2>3. Settles(ctx', c, item)
    BY <1>2, <2>2, EnterItemSettles
  <2>4. Tidy(ctx', Map[prog][body], open[prog][body])
    BY <2>3, SettlesTidy DEF TidyAt
  <2>5. QED
    BY <2>1, <2>4 DEF MovesTidy, TidyAt
<1>3. QED
  BY <1>1, <1>2

LEMMA IterateTidy ==
    ASSUME Control, NEW open, Nests(open), TidyInv(open), Iterate
    PROVE  Halts \/ MovesTidy(open)
<1>1. At("ITERATE")
  BY DEF Iterate
<1>2. ctx \in Contexts /\ Instr.pipe \in Pipes
  BY <1>1, Here
<1> DEFINE m == Map[prog][pc]
           o == open[prog][pc]
<1>3. Counts(m, o) /\ Tidy(ctx, m, o) /\ m \in Shapes /\ o \in Seq(Kinds)
  BY <1>1, HereNests, HereTidy DEF Counts
<1>4. /\ Map[prog][pc + 1] = FallThrough("ITERATE", m)
      /\ open[prog][pc + 1] = OpenNext("ITERATE", o)
  BY <1>1, HereNests DEF NoFallThroughOps
<1> HIDE DEF m, o
<1>5. CASE pc' = Instr.target /\ UNCHANGED <<prog, ctx, frames, written>> /\ Proceed
  <2>1. TidyAt(open, prog, ctx, Instr.target)
    BY <1>1, ContextSettles, SettlesTarget
  <2>2. QED
    BY <1>5, <2>1 DEF MovesTidy, TidyAt, Proceed
<1>6. CASE Fail("exec")
  BY <1>6, FailHalts DEF Causes
<1>7. ASSUME NEW u, Deliver(PushRange(ctx, Instr.pipe), Instr.pipe, u, pc + 1)
      PROVE  Halts \/ MovesTidy(open)
  <2>1. PushRange(ctx, Instr.pipe) \in Contexts
    <3> DEFINE r == [dot |-> ctx.dot, produced |-> 1, pipe |-> Instr.pipe]
    <3>1. ctx.ranges \in Seq(RangeStates) /\ r \in RangeStates
      BY <1>2, ContextsType DEF RangeStates
    <3>2. PushRange(ctx, Instr.pipe) = [ctx EXCEPT !.ranges = Append(ctx.ranges, r)]
      BY DEF PushRange
    <3> HIDE DEF r
    <3>3. Append(ctx.ranges, r) \in Seq(RangeStates)
      BY <3>1
    <3>4. QED
      BY <1>2, <3>2, <3>3, ContextsType
  <2>2. TidyAt(open, prog, PushRange(ctx, Instr.pipe), pc + 1)
    BY <1>2, <1>3, <1>4, SavesRangeDot DEF TidyAt
  <2>3. open[prog][pc + 1] # <<>>
    BY <1>3, <1>4, OneOpens DEF OpenNext, Kinds
  <2>4. Map[prog][pc + 1] \in Shapes
    BY <1>3, <1>4 DEF FallThrough, Shapes
  <2>5. QED
    BY <1>2, <1>7, <2>1, <2>2, <2>3, <2>4, DeliverTidy
<1>8. QED
  BY <1>5, <1>6, <1>7 DEF Iterate

\* Leaving a range brings back the dot of its entry.
LEMMA RestoresRangeDot ==
    ASSUME NEW c \in Contexts, NEW m, NEW o, Counts(m, o), Tidy(c, m, o),
           Innermost("range", o), c.ranges # <<>>,
           NEW op \in {"NEXT_ITERATION", "BREAK_RANGE"}
    PROVE  Tidy(LeaveRange(c), Jumping(op, m), OpenTarget(op, o))
<1> DEFINE d == LeaveRange(c)
<1>1. c.ranges \in Seq(RangeStates) /\ m \in Shapes /\ o \in Seq(Kinds)
  BY ContextsType DEF Counts
<1>2. d = [c EXCEPT !.dot = c.ranges[Len(c.ranges)].dot, !.ranges = DropLast(c.ranges)]
  BY DEF LeaveRange
<1> HIDE DEF d
<1>3. /\ d.dot = c.ranges[Len(c.ranges)].dot /\ d.ranges = DropLast(c.ranges)
      /\ d.scopes = c.scopes /\ d.dots = c.dots /\ d.root = c.root
  BY <1>2, ContextsType
<1>4. /\ Jumping(op, m).scopes = m.scopes /\ Jumping(op, m).dots = m.dots
      /\ Jumping(op, m).ranges = m.ranges - 1
  BY <1>1 DEF Jumping, Shapes
<1>5. /\ Len(d.ranges) = Len(c.ranges) - 1 /\ Len(c.ranges) = m.ranges
      /\ \A i \in 1 .. Len(c.ranges) - 1 : d.ranges[i] = c.ranges[i]
  BY <1>1, <1>3, DropLastType DEF Tidy
<1> DEFINE p == SubSeq(o, 1, Len(o) - 1)
<1>6. o # <<>> /\ o[Len(o)] = "range"
  BY DEF Innermost
<1>7. /\ p = <<>> <=> Len(o) = 1
      /\ p # <<>> => p[1] = o[1] /\ Len(o) > 1
  BY <1>1, <1>6, OneCloses
<1>8. OpenTarget(op, o) = p
  BY DEF OpenTarget
<1> HIDE DEF p
<1>9. ASSUME ~AssignsRoot
      PROVE  DotSaved(d, p)
  <2>1. DotSaved(c, o)
    BY <1>9 DEF Tidy
  <2>2. CASE p = <<>>
    <3>1. Len(o) = 1 /\ o[1] = "range"
      BY <1>6, <1>7, <2>2
    <3>2. m.ranges = 1
      BY <3>1, OpenedCounts
    <3>3. d.dot = d.root
      BY <1>3, <1>5, <1>6, <2>1, <3>1, <3>2 DEF DotSaved
    <3>4. QED
      BY <2>2, <3>3 DEF DotSaved
  <2>3. CASE p # <<>> /\ p[1] = "range"
    <3>1. m.ranges >= 2 /\ m.ranges \in Nat
      BY <1>6, <1>7, <2>3, OpenedCounts
    <3>2. d.ranges[1] = c.ranges[1]
      BY <1>5, <3>1
    <3>3. QED
      BY <1>3, <1>6, <1>7, <2>1, <2>3, <3>2 DEF DotSaved
  <2>4. CASE p # <<>> /\ p[1] # "range"
    BY <1>3, <1>6, <1>7, <2>1, <2>4 DEF DotSaved
  <2>5. QED
    BY <2>2, <2>3, <2>4
<1>10. Tidy(d, Jumping(op, m), p)
  BY <1>3, <1>4, <1>5, <1>9 DEF Tidy
<1>11. QED
  BY <1>8, <1>10 DEF d

LEMMA LeaveRangeTidy ==
    ASSUME Control, NEW open, Nests(open), TidyInv(open),
           NEW op \in {"NEXT_ITERATION", "BREAK_RANGE"}, At(op)
    PROVE  TidyAt(open, prog, LeaveRange(ctx), Instr.target)
<1> DEFINE m == Map[prog][pc]
           o == open[prog][pc]
<1>1. Counts(m, o) /\ Innermost("range", o) /\ Tidy(ctx, m, o)
  BY HereNests, HereTidy
<1>2. ctx \in Contexts /\ ctx.ranges # <<>>
  BY Here, RangeActive
<1>3. /\ Map[prog][Instr.target] = Jumping(op, m)
      /\ open[prog][Instr.target] = OpenTarget(op, o)
  BY HereNests DEF JumpOps
<1> HIDE DEF m, o
<1>4. Tidy(LeaveRange(ctx), Jumping(op, m), OpenTarget(op, o))
  BY <1>1, <1>2, RestoresRangeDot
<1>5. QED
  BY <1>3, <1>4 DEF TidyAt

LEMMA BreakRangeTidy ==
    ASSUME Control, NEW open, Nests(open), TidyInv(open), BreakRange
    PROVE  MovesTidy(open)
<1>1. At("BREAK_RANGE")
  BY DEF BreakRange
<1>2. /\ ctx' = LeaveRange(ctx) /\ pc' = Instr.target
      /\ UNCHANGED <<prog, frames, status, cause>>
  BY <1>1, RangeActive DEF BreakRange, Proceed
<1>3. TidyAt(open, prog, LeaveRange(ctx), Instr.target)
  BY <1>1, LeaveRangeTidy
<1>4. QED
  BY <1>2, <1>3 DEF MovesTidy

LEMMA NextIterationTidy ==
    ASSUME Control, NEW open, Nests(open), TidyInv(open), NextIteration
    PROVE  Halts \/ MovesTidy(open)
<1>1. At("NEXT_ITERATION")
  BY DEF NextIteration
<1>2. ctx \in Contexts /\ ctx.ranges # <<>> /\ ctx.ranges \in Seq(RangeStates)
  BY <1>1, Here, RangeActive
<1> DEFINE n == Len(ctx.ranges)
           s == [ctx.ranges EXCEPT ![n] = Produced(@)]
           c == [ctx EXCEPT !.ranges[n] = Produced(@)]
<1>3. n \in 1 .. Len(ctx.ranges) /\ ctx.ranges[n] \in RangeStates
  BY <1>2
<1>4. Produced(ctx.ranges[n]) \in RangeStates /\ Produced(ctx.ranges[n]).dot = ctx.ranges[n].dot
  BY <1>3 DEF Produced, RangeStates
<1>5. /\ s \in Seq(RangeStates) /\ Len(s) = Len(ctx.ranges)
      /\ s[1].dot = ctx.ranges[1].dot
  BY <1>2, <1>3, <1>4
<1>6. c = [ctx EXCEPT !.ranges = s]
  BY <1>2, ContextsType
<1>7. \/ ctx' = LeaveRange(ctx) /\ pc' = Instr.target /\ UNCHANGED <<prog, frames, status, cause>>
      \/ Fail("exec")
      \/ Deliver(c, TopRange.pipe, used, Instr.body)
  BY <1>2 DEF NextIteration, Proceed
<1> HIDE DEF s, c
<1>8. /\ c \in Contexts /\ c.ranges = s /\ c.dot = ctx.dot /\ c.root = ctx.root
      /\ c.scopes = ctx.scopes /\ c.dots = ctx.dots
  BY <1>2, <1>5, <1>6, ContextsType
<1> DEFINE m == Map[prog][pc]
           o == open[prog][pc]
<1>9. Counts(m, o) /\ m \in Shapes /\ Innermost("range", o) /\ Tidy(ctx, m, o)
  BY <1>1, HereNests, HereTidy DEF Counts
<1>10. Map[prog][Instr.body] = m /\ open[prog][Instr.body] = o
  BY <1>1, HereNests
<1> HIDE DEF m, o
<1>11. Tidy(c, m, o) /\ o # <<>>
  BY <1>5, <1>8, <1>9 DEF Tidy, DotSaved, Innermost
<1>12. TopRange.pipe \in Pipes
  BY <1>3 DEF TopRange, RangeStates
<1>13. CASE Deliver(c, TopRange.pipe, used, Instr.body)
  BY <1>8, <1>9, <1>10, <1>11, <1>12, <1>13, DeliverTidy DEF TidyAt
<1>14. CASE ctx' = LeaveRange(ctx) /\ pc' = Instr.target /\ UNCHANGED <<prog, frames, status, cause>>
  BY <1>1, <1>14, LeaveRangeTidy DEF MovesTidy
<1>15. CASE Fail("exec")
  BY <1>15, FailHalts DEF Causes
<1>16. QED
  BY <1>7, <1>13, <1>14, <1>15

\* The caller of a template is as tidy when it is resumed as when it called.
LEMMA CallTidy ==
    ASSUME Control, NEW open, Nests(open), TidyInv(open), CallTemplate
    PROVE  TidyAt(open, prog, ctx, pc + 1)
<1>1. At("CALL_TEMPLATE")
  BY DEF CallTemplate
<1>2. QED
  BY <1>1, ContextSettles, SettlesNext

\* One case per action.
LEMMA StepTidy ==
    ASSUME Control, NEW open, Nests(open), TidyInv(open), Next
    PROVE  Halts \/ MovesTidy(open) \/ (Enters /\ TidyAt(open, prog, ctx, pc + 1)) \/ Resumes
<1>1. CASE WriteText \/ WriteDot \/ WritePipeline
  BY <1>1, WriteTidy DEF WriteText, WriteDot, WritePipeline
<1>2. CASE EvalPipeline \/ PushScope \/ PopScope \/ JumpIfFalse
  BY <1>2, EvalTidy, PushScopeTidy, PopScopeTidy, JumpIfFalseTidy
<1>3. CASE EnterWith \/ ExitWith \/ BreakRange \/ Jump
  BY <1>3, EnterWithTidy, ExitWithTidy, BreakRangeTidy, JumpTidy
<1>4. CASE Iterate \/ NextIteration
  BY <1>4, IterateTidy, NextIterationTidy
<1>5. CASE CallTemplate
  BY <1>5, CallTemplateStep, CallTidy
<1>6. CASE Return
  BY <1>6, ReturnStep
<1>7. CASE PipelineFails \/ BindingFails \/ Stopped
  BY <1>7, OtherSteps
<1>8. QED
  BY <1>1, <1>2, <1>3, <1>4, <1>5, <1>6, <1>7 DEF Next

\* A template starts with nothing open.
LEMMA StartTidy ==
    ASSUME NEW open, Nests(open), NEW name \in Names, NEW dot \in Values
    PROVE  TidyAt(open, name, NewContext(dot), 1)
<1>1. Verified(Prog[name], Map[name]) /\ Structured(Prog[name], Map[name], open[name])
  BY VerifiedAssumption DEF VerifiedAssumption, Nests
<1>2. Prog[name] \in Seq(Instructions)
  BY ProgramAssumption DEF ProgramAssumption
<1>3. 1 \in 1 .. Len(Prog[name]) + 1
  BY <1>2
<1>4. Map[name][1] = Shape(0, 0, 0)
  BY <1>1 DEF Verified
<1>5. Counts(Map[name][1], open[name][1])
  <2>1. open[name][1] \in Seq(Kinds)
    BY <1>1, <1>3 DEF Structured, Kinds
  <2>2. /\ Map[name][1].dots = Occurrences("with", open[name][1])
        /\ Map[name][1].ranges = Occurrences("range", open[name][1])
    BY <1>1, <1>3 DEF Structured
  <2>3. QED
    BY <1>4, <2>1, <2>2 DEF Counts, Shape, Shapes
<1>6. open[name][1] = <<>>
  BY <1>4, <1>5, NothingOpen DEF Shape
<1>7. QED
  BY <1>4, <1>6 DEF TidyAt, Tidy, DotSaved, Shape, NewContext

LEMMA TidyStep ==
    ASSUME Control, NEW open, Nests(open), TidyInv(open), [Next]_vars
    PROVE  TidyInv(open)'
<1>1. CASE UNCHANGED vars
  BY <1>1 DEF vars, TidyInv, TidyAt
<1> SUFFICES ASSUME Next PROVE TidyInv(open)'
  BY <1>1
<1>2. frames \in Seq(FrameRecords)
  BY ControlParts DEF FramesOK
<1>3. CASE Halts
  BY <1>3 DEF Halts, TidyInv, TidyAt
<1>4. CASE MovesTidy(open)
  BY <1>4 DEF MovesTidy, TidyInv, TidyAt
<1>5. CASE Enters /\ TidyAt(open, prog, ctx, pc + 1)
  <2>1. PICK name \in Names, dot \in Values : EnterTemplate(name, dot)
    BY <1>5 DEF Enters
  <2>2. TidyAt(open, prog', ctx', pc')
    BY <2>1, StartTidy DEF EnterTemplate
  <2> DEFINE f == [prog |-> prog, ctx |-> ctx, pc |-> pc + 1]
  <2>3. FrameOK(prog, ctx, pc + 1)
    BY <1>5 DEF Enters, Landing
  <2>4. f \in FrameRecords
    BY <2>3 DEF FrameOK, FrameRecords
  <2>5. /\ f.prog = prog /\ f.ctx = ctx /\ f.pc = pc + 1
        /\ frames' = Append(frames, f)
    BY <2>1 DEF EnterTemplate
  <2> HIDE DEF f
  <2>6. ASSUME NEW k \in DOMAIN frames'
        PROVE  TidyAt(open, frames'[k].prog, frames'[k].ctx, frames'[k].pc)
    <3>1. CASE k \in DOMAIN frames
      <4>1. frames'[k] = frames[k]
        BY <1>2, <2>5, <3>1
      <4>2. QED
        BY <3>1, <4>1 DEF TidyInv
    <3>2. CASE k \notin DOMAIN frames
      <4>1. frames'[k] = f
        BY <1>2, <2>4, <2>5, <3>2
      <4>2. QED
        BY <1>5, <2>5, <4>1
    <3>3. QED
      BY <3>1, <3>2
  <2>7. QED
    BY <2>2, <2>6 DEF TidyInv, TidyAt
<1>6. CASE Resumes
  <2>1. frames # <<>>
    BY <1>6 DEF Resumes
  <2>2. /\ Len(frames') = Len(frames) - 1 /\ frames' \in Seq(FrameRecords)
        /\ \A k \in 1 .. Len(frames) - 1 : frames'[k] = frames[k]
        /\ Len(frames) \in Nat \ {0}
    BY <1>2, <1>6, <2>1, DropLastType DEF Resumes
  <2>3. Len(frames) \in DOMAIN frames
    BY <1>2, <2>2
  <2>4. TidyAt(open, prog', ctx', pc')
    BY <1>6, <2>3 DEF TidyInv, Resumes
  <2>5. ASSUME NEW k \in DOMAIN frames'
        PROVE  frames'[k] = frames[k] /\ k \in DOMAIN frames
    BY <1>2, <2>2
  <2>6. QED
    BY <2>4, <2>5 DEF TidyInv, TidyAt
<1>7. QED
  BY <1>3, <1>4, <1>5, <1>6, StepTidy

\* In a structured program every position finds exactly the stacks of its map,
\* and the outermost open block holds the dot of the call.
THEOREM BlocksAreTidy ==
    ASSUME NEW open, Nests(open)
    PROVE  Spec => []TidyInv(open)
<1>1. Init => TidyInv(open)
  <2> SUFFICES ASSUME Init PROVE TidyInv(open)
    OBVIOUS
  <2>1. RootName \in Names
    BY ProgramAssumption DEF ProgramAssumption
  <2>2. PICK data \in Values : ctx = NewContext(data)
    BY DEF Init
  <2>3. TidyAt(open, prog, ctx, pc)
    BY <2>1, <2>2, StartTidy DEF Init
  <2>4. DOMAIN frames = {}
    BY DEF Init
  <2>5. QED
    BY <2>3, <2>4 DEF TidyInv
<1>2. Control /\ TidyInv(open) /\ [Next]_vars => TidyInv(open)'
  BY TidyStep
<1>3. QED
  BY <1>1, <1>2, ControlInvariant, PTL DEF Spec

\* A scope lives as long as its block, in every structured program: at most one
\* more is there, which a declaration outside every block opened.
THEOREM ScopesAreLexical ==
    ASSUME NEW open, Nests(open)
    PROVE  Spec => []LexicalScopes
<1>1. TidyInv(open) => LexicalScopes
  BY DEF TidyInv, TidyAt, Tidy, LexicalScopes
<1>2. QED
  BY <1>1, BlocksAreTidy, PTL

\* Outside every with and range a structured program finds in dot what it was
\* called with, whatever was entered, left and called before.
THEOREM DotIsRestored ==
    ASSUME NEW open, Nests(open)
    PROVE  Spec => []DotRestored
<1>1. Control /\ TidyInv(open) => DotRestored
  <2> SUFFICES ASSUME Control, TidyInv(open), status = "running",
                      Map[prog][pc].dots = 0, Map[prog][pc].ranges = 0, ~AssignsRoot
               PROVE  ctx.dot = ctx.root
    BY DEF DotRestored
  <2>1. prog \in Names /\ pc \in 1 .. Len(Prog[prog]) + 1
    BY DEF Control, TypeOK, FrameOK
  <2>2. Structured(Prog[prog], Map[prog], open[prog]) /\ Verified(Prog[prog], Map[prog])
    BY <2>1, VerifiedAssumption DEF Nests, VerifiedAssumption
  <2>3. Counts(Map[prog][pc], open[prog][pc])
    <3>1. open[prog] \in [1 .. Len(Prog[prog]) + 1 -> Seq(Kinds)]
      BY <2>2 DEF Structured, Kinds
    <3>2. Map[prog] \in [1 .. Len(Prog[prog]) + 1 -> Shapes]
      BY <2>2 DEF Verified, Shapes
    <3>3. /\ Map[prog][pc].dots = Occurrences("with", open[prog][pc])
          /\ Map[prog][pc].ranges = Occurrences("range", open[prog][pc])
      BY <2>1, <2>2 DEF Structured
    <3>4. QED
      BY <2>1, <3>1, <3>2, <3>3 DEF Counts
  <2>4. open[prog][pc] = <<>>
    BY <2>3, NothingOpen
  <2>5. QED
    BY <2>4 DEF TidyInv, TidyAt, Tidy, DotSaved
<1>2. QED
  BY <1>1, ControlInvariant, BlocksAreTidy, PTL
============================================================================
