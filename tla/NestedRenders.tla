--------------------------- MODULE NestedRenders ---------------------------
(***************************************************************************)
(* What nested renders promise, without sessions, caches or identities: a  *)
(* render inside a render belongs to the association around it, a dynamic  *)
(* source extends that association for the renders inside it and for no    *)
(* other, and ending a render changes nothing but itself.                  *)
(***************************************************************************)
EXTENDS Naturals, Sequences

CONSTANTS Tasks, Sources

VARIABLE nest   \* per task, its nested renders: the sources that make up the
                \* association of each, and its active {{template}} calls

AbstractInit == nest = [t \in Tasks |-> <<>>]

Innermost(t) == nest[t][Len(nest[t])]
Association(t) == IF nest[t] = <<>> THEN <<>> ELSE Innermost(t).path

Enter(t, path) ==
    nest' = [nest EXCEPT ![t] = Append(@, [path |-> path, frames |-> 0])]

EnterTemplate(t) == Enter(t, Association(t))
EnterSource(t, s) == Enter(t, Append(Association(t), s))

SetFrames(t, n) ==
    /\ nest[t] # <<>>
    /\ n \in Nat
    /\ nest' = [nest EXCEPT ![t][Len(nest[t])].frames = n]

Leave(t) ==
    /\ nest[t] # <<>>
    /\ nest' = [nest EXCEPT ![t] = SubSeq(@, 1, Len(@) - 1)]

AbstractNext ==
    \E t \in Tasks :
        \/ EnterTemplate(t)
        \/ \E s \in Sources : EnterSource(t, s)
        \/ nest[t] # <<>> /\ SetFrames(t, Innermost(t).frames + 1)
        \/ nest[t] # <<>> /\ SetFrames(t, Innermost(t).frames - 1)
        \/ Leave(t)

AbstractSpec == AbstractInit /\ [][AbstractNext]_nest
============================================================================
