---------------------------- MODULE TemplateTree ----------------------------
(***************************************************************************)
(* The nodes of a parsed template (gotpl/parse/nodes.py).  A list of nodes *)
(* is a sequence; source offsets are left out.                             *)
(***************************************************************************)
EXTENDS Naturals, Sequences

Literal(text)     == [k |-> "text", text |-> text]   \* text names what is written
Text              == Literal("")
Blank             == [k |-> "blank"]     \* text that is only white space
Action(pipe)      == [k |-> "action", pipe |-> pipe]
Break             == [k |-> "break"]
Continue          == [k |-> "continue"]
Call(name, pipe)  == [k |-> "call", name |-> name, pipe |-> pipe]

\* if, with and range; hasElse tells an absent else from an empty one.
Branch(k, pipe, body, hasElse, els) ==
    [k |-> k, pipe |-> pipe, body |-> body, hasElse |-> hasElse, els |-> els]

Block(name, pipe, body) ==
    [k |-> "block", name |-> name, pipe |-> pipe, body |-> body]

\* _is_empty_list
IsEmptyList(nodes) == \A k \in DOMAIN nodes : nodes[k] = Blank

Definition(name, body) == [name |-> name, body |-> body]
============================================================================
