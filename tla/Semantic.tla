------------------------------ MODULE Semantic ------------------------------
(***************************************************************************)
(* gotpl/parse/semantic.py: the check, made on the tree, that variables are*)
(* declared before they are used, and that pipelines declare where they    *)
(* may; against the scopes that the compiled program really pushes.        *)
(*                                                                         *)
(* A scope is the set of the names visible.  A validation is the scope it  *)
(* leaves, or Refused.                                                     *)
(***************************************************************************)
EXTENDS Compiler

Refused == [refused |-> TRUE, names |-> {}]
Visible(names) == [refused |-> FALSE, names |-> names]

UsedBy(pipe) == {pipe.src} \ {"dot", "data", "none"}
BoundBy(pipe) == {pipe.binds[k] : k \in DOMAIN pipe.binds}

(* A mutant: a variable is visible in its own declaration.                 *)
ValidateDeclarationFirst(pipe, scope, max) ==
  LET declared == IF pipe.assign THEN scope ELSE scope \union BoundBy(pipe)
  IN  IF ~(UsedBy(pipe) \subseteq declared) \/ Len(pipe.binds) > max THEN Refused
      ELSE IF pipe.assign /\ ~(BoundBy(pipe) \subseteq scope) THEN Refused
      ELSE Visible(declared)

(* validate_pipeline; no declaration is allowed where max is 0.            *)
ValidatePipeline(pipe, scope, max) ==
  IF ~(UsedBy(pipe) \subseteq scope) \/ Len(pipe.binds) > max THEN Refused
  ELSE IF ~pipe.assign THEN Visible(scope \union BoundBy(pipe))
  ELSE IF BoundBy(pipe) \subseteq scope THEN Visible(scope) ELSE Refused

RECURSIVE ValidateList(_, _)

(* validate_branch and validate_range: the body and the else part share a  *)
(* scope, which the nodes after the branch do not see.                     *)
ValidateParts(node, scope, max) ==
  LET branch == ValidatePipeline(node.pipe, scope, max)
      body   == ValidateList(node.body, branch.names)
  IN  \/ branch.refused
      \/ body.refused
      \/ node.hasElse /\ ValidateList(node.els, body.names).refused

(* A mutant: what a branch declares stays visible.                         *)
ValidateBranchShared(node, scope, max) ==
  LET body == ValidateList(node.body, ValidatePipeline(node.pipe, scope, max).names)
  IN  IF ValidateParts(node, scope, max) THEN Refused ELSE Visible(body.names)

ValidateBranch(node, scope, max) ==
  IF ValidateParts(node, scope, max) THEN Refused ELSE Visible(scope)

ValidateNode(node, scope) ==
  CASE node.k = "action" -> ValidatePipeline(node.pipe, scope, 1)
    [] node.k \in {"if", "with"} -> ValidateBranch(node, scope, 1)
    [] node.k = "range" -> ValidateBranch(node, scope, 2)
    [] node.k \in {"call", "block"} -> ValidatePipeline(node.pipe, scope, 0)
    [] OTHER -> Visible(scope)

ValidateList(nodes, scope) ==
  IF nodes = <<>> THEN Visible(scope)
  ELSE LET first == ValidateNode(Head(nodes), scope)
       IN  IF first.refused THEN Refused ELSE ValidateList(Tail(nodes), first.names)

(* validate_template: the root and every definition, each from "$".        *)
Validates(root, definitions) ==
  /\ ~ValidateList(root, {"$"}).refused
  /\ \A k \in DOMAIN definitions : ~ValidateList(definitions[k].body, {"$"}).refused

(***************************************************************************)
(* The scopes of a run: where the program can be, with the names each scope*)
(* of the stack holds, whatever the data are.  A range delivers at most two*)
(* items.                                                                  *)
(***************************************************************************)
At(pc, scopes, ranges) == [pc |-> pc, scopes |-> scopes, ranges |-> ranges]
Holding(point) == {"$"} \union UNION {point.scopes[k] : k \in DOMAIN point.scopes}

Resolves(point, pipe) == UsedBy(pipe) \subseteq Holding(point)
Assignable(point, pipe) == pipe.assign => BoundBy(pipe) \subseteq Holding(point)

(* set_variable: a declaration goes to the innermost scope.                *)
Bind(scopes, pipe) ==
  IF pipe.assign \/ pipe.binds = <<>> THEN scopes
  ELSE IF scopes = <<>> THEN <<BoundBy(pipe)>>
  ELSE [scopes EXCEPT ![Len(scopes)] = @ \union BoundBy(pipe)]

Shorter(s) == SubSeq(s, 1, Len(s) - 1)
MaxDelivered == 2

(* Where the next instruction may be executed.                             *)
Successors(code, point) ==
  LET i == code[point.pc]
      next == point.pc + 1
      bound == Bind(point.scopes, i.pipe)
      top == point.ranges[Len(point.ranges)]
      delivered == [point.ranges EXCEPT ![Len(point.ranges)].items = @ + 1]
  IN  CASE i.op = "PUSH_SCOPE" -> {At(next, Append(point.scopes, {}), point.ranges)}
        [] i.op = "POP_SCOPE"  -> {At(next, Shorter(point.scopes), point.ranges)}
        [] i.op \in {"JUMP_IF_FALSE", "ENTER_WITH"} ->
             {At(next, bound, point.ranges), At(i.target, bound, point.ranges)}
        [] i.op = "ITERATE" ->
             {At(i.target, point.scopes, point.ranges),
              At(next, bound, Append(point.ranges, [pipe |-> i.pipe, items |-> 1]))}
        [] i.op = "NEXT_ITERATION" ->
             {At(i.target, point.scopes, Shorter(point.ranges))} \union
             (IF top.items = MaxDelivered THEN {}
              ELSE {At(i.body, Bind(point.scopes, top.pipe), delivered)})
        [] i.op = "BREAK_RANGE" -> {At(i.target, point.scopes, Shorter(point.ranges))}
        [] i.op = "JUMP" -> {At(i.target, point.scopes, point.ranges)}
        [] OTHER -> {At(next, bound, point.ranges)}

(* The instructions at which a run can meet a variable that nothing holds: *)
(* it reads no value, and an assignment fails.  An assigning range finds   *)
(* out when an item is delivered.                                          *)
Unresolved(code, point) ==
  point.pc <= Len(code) /\
    LET i == code[point.pc]
    IN  ~Resolves(point, i.pipe) \/ ~Assignable(point, i.pipe)

RECURSIVE Reachable(_, _, _)
Reachable(code, frontier, seen) ==
  IF frontier = {} THEN seen
  ELSE LET next == UNION {Successors(code, p) : p \in {q \in frontier : q.pc <= Len(code) /\ ~Unresolved(code, q)}}
       IN  Reachable(code, next \ (seen \union frontier), seen \union frontier)

MeetsUndefined(nodes) ==
  LET code == Compile(nodes)
  IN  \E point \in Reachable(code, {At(1, <<>>, <<>>)}, {}) : Unresolved(code, point)

(***************************************************************************)
(* What has to hold.  Two things are refused whatever a run does: too many *)
(* declarations, and (Go does the same) declarations in a call.  One is    *)
(* accepted that a run may not find: a variable that the body of a branch, *)
(* or the pipeline of a range, declares, in the else part of that branch.  *)
(***************************************************************************)
RECURSIVE Pipes(_)
Nested(node) == IF node.k \in {"if", "with", "range"} THEN Pipes(node.body) \union Pipes(node.els) ELSE {}
PipesOf(node) ==
  IF node.k \in {"if", "with", "range", "action", "call", "block"}
  THEN {<<node.k, node.pipe>>} \union Nested(node) ELSE {}
Pipes(nodes) == UNION {PipesOf(nodes[k]) : k \in DOMAIN nodes}

MaxDeclarations(k) == CASE k = "range" -> 2 [] k \in {"call", "block"} -> 0 [] OTHER -> 1
OverDeclares(nodes) == \E p \in Pipes(nodes) : Len(p[2].binds) > MaxDeclarations(p[1])

DeclaredBy(nodes) ==
  UNION {BoundBy(nodes[k].pipe) : k \in {j \in DOMAIN nodes : nodes[j].k = "action" /\ ~nodes[j].pipe.assign}}
Mentioned(nodes) == UNION {UsedBy(p[2]) \union BoundBy(p[2]) : p \in Pipes(nodes)}

RECURSIVE ElseSeesBody(_)
ElseSeesBody(nodes) ==
  \E k \in DOMAIN nodes :
    LET node == nodes[k]
    IN  /\ node.k \in {"if", "with", "range"}
        /\ \/ ElseSeesBody(node.body) \/ ElseSeesBody(node.els)
           \/ (DeclaredBy(node.body) \union (IF node.k = "range" THEN BoundBy(node.pipe) ELSE {}))
                \intersect Mentioned(node.els) # {}

(* A tree without code that cannot be reached is accepted just if no run   *)
(* meets an undefined variable.                                            *)
Resolved(nodes) ==
  IF Validates(nodes, <<>>)
  THEN MeetsUndefined(nodes) => ElseSeesBody(nodes)
  ELSE OverDeclares(nodes) \/ MeetsUndefined(nodes)
=============================================================================
