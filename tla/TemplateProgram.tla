-------------------------- MODULE TemplateProgram --------------------------
(***************************************************************************)
(* Compiled template programs (gotpl/compile/instructions.py) and the      *)
(* structural facts about them that the virtual machine relies on.         *)
(*                                                                         *)
(* A program is a sequence of instructions; positions are 1-based here and *)
(* 0-based in the code.  A pipeline keeps what control flow and variables  *)
(* depend on: the variables it binds, whether it assigns or declares them, *)
(* where its value comes from, and how many function calls it makes.       *)
(***************************************************************************)
EXTENDS Integers, Sequences, FiniteSets

OpCodes == {"WRITE_TEXT", "WRITE_DOT", "WRITE_PIPELINE", "EVAL_PIPELINE",
            "PUSH_SCOPE", "POP_SCOPE", "JUMP_IF_FALSE", "ENTER_WITH",
            "EXIT_WITH", "ITERATE", "NEXT_ITERATION", "BREAK_RANGE", "JUMP",
            "CALL_TEMPLATE"}

\* src is where the value comes from: "dot", "data" (a lookup or a call: any
\* value, and it may fail), "none" (no pipeline), or else a variable's name.
Pipeline(binds, assign, src, calls) ==
    [binds |-> binds, assign |-> assign, src |-> src, calls |-> calls]

NoPipeline == Pipeline(<<>>, FALSE, "none", 0)

\* One instruction.  target and body are the jump targets of BranchTarget,
\* RangeTarget, RangeNextTarget and of the plain jumps; 0 is the placeholder
\* the compiler patches later.  name is the callee of CALL_TEMPLATE, or says
\* which text WRITE_TEXT writes.
Instruction(op, pipe, target, body, name) ==
    [op |-> op, pipe |-> pipe, target |-> target, body |-> body, name |-> name]

Plain(op) == Instruction(op, NoPipeline, 0, 0, "")

----------------------------------------------------------------------------
(* Stack maps: how many scopes, saved dots and active ranges the program    *)
(* needs on the stacks of the execution context at each position.           *)

Shape(scopes, dots, ranges) ==
    [scopes |-> scopes, dots |-> dots, ranges |-> ranges]

\* Stacks of shape a serve code that was compiled for shape b.  Surplus scopes
\* and saved dots are tolerated; the range stack has to match, because the
\* instructions of a loop find their state on top of it.
Serves(a, b) ==
    /\ a.scopes >= b.scopes
    /\ a.dots >= b.dots
    /\ a.ranges = b.ranges

\* What an instruction takes from the stacks.
HasOperands(op, a) ==
    /\ op = "POP_SCOPE" => a.scopes > 0
    /\ op = "EXIT_WITH" => a.dots > 0
    /\ op \in {"NEXT_ITERATION", "BREAK_RANGE"} => a.ranges > 0

\* The shape on the fall-through edge, and on the edge to target.
FallThrough(op, a) ==
    [scopes |-> a.scopes + (IF op = "PUSH_SCOPE" THEN 1
                            ELSE IF op = "POP_SCOPE" THEN -1 ELSE 0),
     dots   |-> a.dots + (IF op = "ENTER_WITH" THEN 1
                          ELSE IF op = "EXIT_WITH" THEN -1 ELSE 0),
     ranges |-> a.ranges + (IF op = "ITERATE" THEN 1 ELSE 0)]

Jumping(op, a) ==
    [a EXCEPT !.ranges = @ - (IF op \in {"NEXT_ITERATION", "BREAK_RANGE"}
                              THEN 1 ELSE 0)]

JumpOps == {"JUMP_IF_FALSE", "ENTER_WITH", "ITERATE", "NEXT_ITERATION",
            "BREAK_RANGE", "JUMP"}
NoFallThroughOps == {"NEXT_ITERATION", "BREAK_RANGE", "JUMP"}

\* The program is safe to run with this stack map: every edge of its flow
\* graph stays inside the program and serves its destination.
Verified(code, map) ==
    /\ map \in [1 .. Len(code) + 1 -> [scopes : Nat, dots : Nat, ranges : Nat]]
    /\ map[1] = Shape(0, 0, 0)
    /\ \A pc \in 1 .. Len(code) :
          LET i == code[pc] IN
          /\ HasOperands(i.op, map[pc])
          /\ i.op \notin NoFallThroughOps =>
                Serves(FallThrough(i.op, map[pc]), map[pc + 1])
          /\ i.op \in JumpOps =>
                /\ i.target \in 1 .. Len(code) + 1
                /\ Serves(Jumping(i.op, map[pc]), map[i.target])
          /\ i.op = "NEXT_ITERATION" =>
                /\ i.body \in 1 .. Len(code) + 1
                /\ Serves(map[pc], map[i.body])

\* The withs and ranges open behind an instruction, the innermost last: on the
\* fall-through edge, and on the edge to target.
OpenNext(op, open) ==
    IF op = "ENTER_WITH" THEN Append(open, "with")
    ELSE IF op = "ITERATE" THEN Append(open, "range")
    ELSE IF op = "EXIT_WITH" THEN SubSeq(open, 1, Len(open) - 1)
    ELSE open

OpenTarget(op, open) ==
    IF op \in {"NEXT_ITERATION", "BREAK_RANGE"} THEN SubSeq(open, 1, Len(open) - 1)
    ELSE open

Innermost(kind, open) == open # <<>> /\ open[Len(open)] = kind

Occurrences(kind, open) == Cardinality({k \in DOMAIN open : open[k] = kind})

\* A program whose jumps leave nothing behind: all paths to a position bring
\* the same stacks, and its withs and ranges, which both move dot, are nested.
\* A break or a continue out of an if or a with makes a program unstructured:
\* the surplus it leaves is what Serves tolerates.
Structured(code, map, open) ==
    /\ open \in [1 .. Len(code) + 1 -> Seq({"with", "range"})]
    /\ \A pc \in 1 .. Len(code) + 1 :
          /\ map[pc].dots = Occurrences("with", open[pc])
          /\ map[pc].ranges = Occurrences("range", open[pc])
    /\ \A pc \in 1 .. Len(code) :
          LET i == code[pc] IN
          /\ i.op = "EXIT_WITH" => Innermost("with", open[pc])
          /\ i.op \in {"NEXT_ITERATION", "BREAK_RANGE"} => Innermost("range", open[pc])
          /\ i.op \notin NoFallThroughOps =>
                /\ map[pc + 1] = FallThrough(i.op, map[pc])
                /\ open[pc + 1] = OpenNext(i.op, open[pc])
          /\ i.op \in JumpOps =>
                /\ map[i.target] = Jumping(i.op, map[pc])
                /\ open[i.target] = OpenTarget(i.op, open[pc])
          /\ i.op = "NEXT_ITERATION" =>
                /\ map[i.body] = map[pc]
                /\ open[i.body] = open[pc]
============================================================================
