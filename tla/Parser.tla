------------------------------- MODULE Parser -------------------------------
(***************************************************************************)
(* The control structure of gotpl/parse/parser.py: how the recursive       *)
(* descent over {{if}} {{with}} {{range}} {{block}} {{define}} {{else}}    *)
(* {{break}} {{continue}} {{end}} builds lists of nodes, where it counts   *)
(* nesting and range depth, and what it rejects.                           *)
(*                                                                         *)
(* The activations of parse_list are the frames of an explicit stack.  One *)
(* action consumes one delimited item of the source; the source is any     *)
(* sequence of MaxItems items.  Pipelines are those of the constant        *)
(* Pipelines; what is inside them is a matter of its own.                  *)
(***************************************************************************)
EXTENDS TemplateTree, Integers, FiniteSets

CONSTANTS
    MaxNesting,      \* ParserLimits.max_nesting
    MaxItems,        \* bound: length of the source, in items
    Pipelines,       \* the pipelines items may carry
    DefinitionNames  \* the names of blocks and definitions

ASSUME ParserAssumption == MaxNesting \in Nat \ {0} /\ MaxItems \in Nat

VARIABLES
    status,        \* "parsing", "accepted" or "rejected"
    stack,         \* the active constructs, innermost last
    range_depth,   \* _Parser.range_depth
    definitions,   \* _Parser.definitions
    items          \* items consumed so far

vars == <<status, stack, range_depth, definitions, items>>

Branches == {"if", "with", "range"}

\* A construct being parsed: nodes is the list parse_list is building, part is
\* "body" or "else" and body the finished body while part is "else"; depth is
\* the depth its own list is parsed at; chained marks the branch of an
\* {{else if}} or {{else with}}, which shares the {{end}} of its parent.
Frame(kind, name, pipe, depth, chained) ==
    [kind |-> kind, name |-> name, pipe |-> pipe, depth |-> depth,
     chained |-> chained, part |-> "body", body |-> <<>>, nodes |-> <<>>]

NoPipe == CHOOSE p \in Pipelines : TRUE
RootFrame == Frame("root", "", NoPipe, 0, FALSE)

Init ==
    /\ status = "parsing"
    /\ stack = << RootFrame >>
    /\ range_depth = 0
    /\ definitions = <<>>
    /\ items = 0

Top == stack[Len(stack)]
Consume == status = "parsing" /\ items < MaxItems /\ items' = items + 1

Reject == status' = "rejected" /\ UNCHANGED <<stack, range_depth, definitions>>

AddNode(node) ==
    /\ stack' = [stack EXCEPT ![Len(stack)].nodes = Append(@, node)]
    /\ UNCHANGED <<status, range_depth, definitions>>

ParseText == Consume /\ \E node \in {Text, Blank} : AddNode(node)

ParseAction == Consume /\ \E p \in Pipelines : AddNode(Action(p))

ParseTemplateCall ==
    Consume /\ \E n \in DefinitionNames, p \in Pipelines : AddNode(Call(n, p))

ParseLoopControl ==
    /\ Consume
    /\ IF range_depth = 0 THEN Reject
       ELSE \E node \in {Break, Continue} : AddNode(node)

\* Mutant: the limit is off by one.
TooDeepLate == Top.depth > MaxNesting

\* parse_branch and parse_block check the depth of the enclosing list.
TooDeep == Top.depth >= MaxNesting

Open(kind, name, pipe, depth, chained) ==
    /\ stack' = Append(stack, Frame(kind, name, pipe, depth, chained))
    /\ range_depth' = range_depth + (IF kind = "range" THEN 1 ELSE 0)
    /\ UNCHANGED <<status, definitions>>

ParseBranch ==
    /\ Consume
    /\ IF TooDeep THEN Reject
       ELSE \E kind \in Branches, p \in Pipelines :
               Open(kind, "", p, Top.depth + 1, FALSE)

\* range_depth keeps counting the ranges around the block.
ParseBlock ==
    /\ Consume
    /\ IF TooDeep THEN Reject
       ELSE \E n \in DefinitionNames, p \in Pipelines :
               Open("block", n, p, Top.depth + 1, FALSE)

\* A definition is only allowed at the top level.
ParseDefinition ==
    /\ Consume
    /\ IF Len(stack) > 1 THEN Reject
       ELSE \E n \in DefinitionNames : Open("define", n, NoPipe, 1, FALSE)

\* The body of the innermost branch ends; a range is left before its else.
ToElse(frame) ==
    [frame EXCEPT !.part = "else", !.body = frame.nodes, !.nodes = <<>>]

\* Mutant: a range is left once for its body and once more for its else.
RangeDepthAfterAnyPart == range_depth - (IF Top.kind = "range" THEN 1 ELSE 0)

RangeDepthAfterBody ==
    range_depth - (IF Top.kind = "range" /\ Top.part = "body" THEN 1 ELSE 0)

AcceptsElse == Top.kind \in Branches /\ Top.part = "body"

ParseElse ==
    /\ Consume
    /\ IF ~AcceptsElse THEN Reject
       ELSE /\ stack' = [stack EXCEPT ![Len(stack)] = ToElse(@)]
            /\ range_depth' = RangeDepthAfterBody
            /\ UNCHANGED <<status, definitions>>

\* {{else if}} and {{else with}} parse a branch of the same kind as the only
\* node of the else list, at the depth of the branch they continue.
ParseElseBranch ==
    /\ Consume
    /\ \E kind \in {"if", "with"}, p \in Pipelines :
          IF ~(AcceptsElse /\ Top.kind = kind) THEN Reject
          ELSE /\ stack' = Append([stack EXCEPT ![Len(stack)] = ToElse(@)],
                                  Frame(kind, "", p, Top.depth, TRUE))
               /\ UNCHANGED <<status, range_depth, definitions>>

\* The node of a finished branch or block.
NodeOf(f) ==
    IF f.kind = "block" THEN Block(f.name, f.pipe, f.nodes)
    ELSE IF f.part = "else" THEN Branch(f.kind, f.pipe, f.body, TRUE, f.nodes)
    ELSE Branch(f.kind, f.pipe, f.nodes, FALSE, <<>>)

\* The frames an {{end}} closes: the innermost one and, for a chained branch,
\* every parent it continues.  CloseTo(s, k) folds frames k+1 .. into frame k.
Closed(k) ==
    /\ k \in 1 .. Len(stack) - 1
    /\ ~stack[k + 1].chained
    /\ \A j \in k + 2 .. Len(stack) : stack[j].chained

CloseTo(k) ==
    LET node[j \in k .. Len(stack)] ==
            IF j = Len(stack) THEN NodeOf(stack[j])
            ELSE NodeOf([stack[j] EXCEPT !.nodes = Append(@, node[j + 1])])
    IN [SubSeq(stack, 1, k) EXCEPT ![k].nodes = Append(@, node[k + 1])]

\* Mutant: the last definition wins.
AddDefinitionLast(d) ==
    IF \A k \in DOMAIN definitions : definitions[k].name # d.name
    THEN Append(definitions, d)
    ELSE [k \in DOMAIN definitions |->
            IF definitions[k].name = d.name THEN d ELSE definitions[k]]

\* Mutant: an empty definition is always added.
AddDefinitionTwice(d) == Append(definitions, d)

\* add_definition: an empty definition never replaces, an empty one is replaced.
Defined(d) == \E k \in DOMAIN definitions : definitions[k].name = d.name
AddDefinition(d) ==
    IF ~Defined(d) THEN Append(definitions, d)
    ELSE [k \in DOMAIN definitions |->
            IF definitions[k].name = d.name /\ ~IsEmptyList(d.body) THEN d
            ELSE definitions[k]]
Redefines(d) ==
    /\ ~IsEmptyList(d.body)
    /\ \E k \in DOMAIN definitions :
          definitions[k].name = d.name /\ ~IsEmptyList(definitions[k].body)

ParseEnd ==
    /\ Consume
    /\ IF Top.kind = "root" THEN Reject
       ELSE IF Top.kind \in Branches
       THEN /\ \E k \in DOMAIN stack : Closed(k) /\ stack' = CloseTo(k)
            /\ range_depth' = RangeDepthAfterBody
            /\ UNCHANGED <<status, definitions>>
       ELSE LET d == Definition(Top.name, Top.nodes) IN
            IF Redefines(d) THEN Reject
            ELSE /\ definitions' = AddDefinition(d)
                 /\ stack' = IF Top.kind = "define" THEN SubSeq(stack, 1, Len(stack) - 1)
                             ELSE CloseTo(Len(stack) - 1)
                 /\ UNCHANGED <<status, range_depth>>

\* The end of the source, inside a construct or not.
ParseEOF ==
    /\ status = "parsing"
    /\ status' = IF Len(stack) = 1 THEN "accepted" ELSE "rejected"
    /\ UNCHANGED <<stack, range_depth, definitions, items>>

Finished == status # "parsing" /\ UNCHANGED vars

Next ==
    \/ ParseText \/ ParseAction \/ ParseTemplateCall \/ ParseLoopControl
    \/ ParseBranch \/ ParseBlock \/ ParseDefinition
    \/ ParseElse \/ ParseElseBranch \/ ParseEnd \/ ParseEOF
    \/ Finished

Spec == Init /\ [][Next]_vars

----------------------------------------------------------------------------
(* Properties                                                               *)

InRangeBody(f) == f.kind = "range" /\ f.part = "body"

\* The parser's counts are those of the source, whatever mixture of else parts,
\* chains and definitions surrounds them: range_depth counts the ranges whose
\* body is being read, and no source gets deeper than max_nesting constructs
\* that have an {{end}} of their own (parser.py parse_branch_contents,
\* parse_branch).
NestingCounted ==
    /\ status = "parsing" =>
          range_depth = Cardinality({k \in DOMAIN stack : InRangeBody(stack[k])})
    /\ Cardinality({k \in DOMAIN stack : ~stack[k].chained}) <= MaxNesting + 1

\* A definition with a body is final: later definitions and blocks of the same
\* name are refused or ignored, and no name is defined twice (add_definition).
DefinitionsFinal ==
    [][/\ \A k \in DOMAIN definitions :
             /\ k \in DOMAIN definitions'
             /\ definitions'[k].name = definitions[k].name
             /\ ~IsEmptyList(definitions[k].body) =>
                   definitions'[k] = definitions[k]
       /\ \A j, k \in DOMAIN definitions' :
             definitions'[j].name = definitions'[k].name => j = k]_vars
============================================================================
