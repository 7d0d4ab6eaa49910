--------------------------- MODULE RenderSession ---------------------------
(***************************************************************************)
(* The session of one top-level render (gotpl/runtime/context.py,          *)
(* RenderSession) and the nested renders that context functions start in   *)
(* it (gotpl/template.py, _render_*_in_session).                           *)
(*                                                                         *)
(* A context function of the root template may run several branches        *)
(* concurrently (asyncio.gather over AsyncRenderContext calls); Tasks are  *)
(* those branches.  A synchronous render, or one that awaits its nested    *)
(* renders one after the other, is the case of a single task.  A step runs *)
(* from one await to the next; the code of a step has no await inside.     *)
(*                                                                         *)
(* Associations are Template objects.  The dynamic cache is keyed by       *)
(* id(association), and an id may be given to a new object once the old    *)
(* one is unreachable; Ids are those identities.                           *)
(***************************************************************************)
EXTENDS Integers, Sequences, FiniteSets

CONSTANTS
    Tasks,              \* concurrent branches of the render
    Ids,                \* identities of Template objects
    Base,               \* the association being rendered
    Sources,            \* dynamic sources (with their names)
    NoLimit,            \* None, as a limit
    MaxTemplateDepth,   \* ExecutionBudget.max_template_depth
    MaxRenders,         \* bound: nested renders started
    CacheLimit          \* 128 in _render_source_in_session

ASSUME SessionAssumption ==
    /\ IsFiniteSet(Tasks)
    /\ Base \in Ids
    /\ NoLimit \notin Nat
    /\ MaxTemplateDepth \in (Nat \ {0}) \cup {NoLimit}
    /\ MaxRenders \in Nat \cup {NoLimit}
    /\ CacheLimit \in Nat

VARIABLES
    depth,          \* RenderSession.depth
    associations,   \* RenderSession._associations
    cache,          \* RenderSession.dynamic_cache
    renders,        \* nested renders asked for so far
    heap,           \* the dynamic sources each Template object is made of
    stack           \* the nested renders each task is inside of

vars == <<depth, associations, cache, renders, heap, stack>>

Keys == Ids \X Sources

\* One nested render: the association whose program runs, the _depth it was
\* given, its active {{template}} renders, and whether its nested() block pushed
\* an association.  trail is the lexical nesting of nested() blocks on the
\* task's own call stack: the associations they pushed, outermost first.
Activations ==
    [obj : Ids, base : Int, frames : Nat, pushed : BOOLEAN, trail : Seq(Ids)]

Within(n, limit) == limit # NoLimit => n <= limit

Init ==
    /\ depth = 0
    /\ associations = <<>>
    /\ cache = [k \in {} |-> Base]
    /\ renders = 0
    /\ heap = [i \in Ids |-> <<>>]
    /\ stack = [t \in Tasks |-> <<>>]

----------------------------------------------------------------------------
Last(s) == s[Len(s)]
DropLast(s) == SubSeq(s, 1, Len(s) - 1)

\* Mutant: the outermost dynamic source stays current.
CurrentOutermost == IF associations = <<>> THEN Base ELSE associations[1]

\* RenderSession.current
Current == IF associations = <<>> THEN Base ELSE Last(associations)

\* What the task's own nested() blocks have pushed, and the association its
\* next nested render belongs to.
Trail(t) == IF stack[t] = <<>> THEN <<>> ELSE Last(stack[t]).trail
Own(trail) == IF trail = <<>> THEN Base ELSE Last(trail)

\* Objects something refers to: the session, its cache, the association stack,
\* the running renders.
Reachable ==
    {Base} \cup {cache[k] : k \in DOMAIN cache}
           \cup {associations[i] : i \in DOMAIN associations}
           \cup UNION {{stack[t][i].obj : i \in DOMAIN stack[t]} : t \in Tasks}

Activation(obj, base, pushed, trail) ==
    [obj |-> obj, base |-> base, frames |-> 0, pushed |-> pushed, trail |-> trail]

Push(t, a) == stack' = [stack EXCEPT ![t] = Append(@, a)]

\* A context function may ask for any number of renders; the bound does not.
CountRender == Within(renders + 1, MaxRenders) /\ renders' = renders + 1

\* nested(): depth grows before the budget is asked, and before the try block
\* whose finally would take it back.
NestedAllowed == Within(depth + 1, MaxTemplateDepth)

----------------------------------------------------------------------------
\* RenderContext.render_template of a name the current association defines.
RenderTemplate(t) ==
    /\ CountRender
    /\ depth' = depth + 1
    /\ IF NestedAllowed
       THEN Push(t, Activation(Current, depth + 1, FALSE, Trail(t)))
       ELSE UNCHANGED stack
    /\ UNCHANGED <<associations, cache, heap>>

\* RenderContext.render_source: find or derive the association, remember it
\* while there is room, and run it.  with_source has no await inside.
RunDerived(t, obj) ==
    /\ depth' = depth + 1
    /\ IF NestedAllowed
       THEN /\ associations' = Append(associations, obj)
            /\ Push(t, Activation(obj, depth + 1, TRUE, Append(Trail(t), obj)))
       ELSE UNCHANGED <<associations, stack>>

RenderCached(t, source) ==
    /\ CountRender
    /\ <<Current, source>> \in DOMAIN cache
    /\ RunDerived(t, cache[<<Current, source>>])
    /\ UNCHANGED <<cache, heap>>

\* Mutant: the key leaves out the association.
RememberBySource(key, obj) ==
    IF Cardinality(DOMAIN cache) < CacheLimit
    THEN [k \in DOMAIN cache \cup {<<Base, key[2]>>} |->
            IF k = <<Base, key[2]>> THEN obj ELSE cache[k]]
    ELSE cache

\* Mutant: a full cache evicts an entry to make room.
RememberEvicting(key, obj) ==
    LET kept == IF Cardinality(DOMAIN cache) < CacheLimit THEN DOMAIN cache
                ELSE DOMAIN cache \ {CHOOSE k \in DOMAIN cache : TRUE}
    IN [k \in kept \cup {key} |-> IF k = key THEN obj ELSE cache[k]]

Remember(key, obj) ==
    IF Cardinality(DOMAIN cache) < CacheLimit
    THEN [k \in DOMAIN cache \cup {key} |-> IF k = key THEN obj ELSE cache[k]]
    ELSE cache

\* with_source: the current association's sources and one more.
RenderFresh(t, source) ==
    /\ CountRender
    /\ <<Current, source>> \notin DOMAIN cache
    /\ \E obj \in Ids \ Reachable :
          /\ heap' = [heap EXCEPT ![obj] = Append(heap[Current], source)]
          /\ cache' = Remember(<<Current, source>>, obj)
          /\ RunDerived(t, obj)

\* Mutant: the limit is compared with the frames active so far.
CallTemplateLate(t) ==
    /\ stack[t] # <<>>
    /\ LET a == Last(stack[t]) IN
       /\ Within(a.base + a.frames, MaxTemplateDepth)
       /\ stack' = [stack EXCEPT ![t] =
                       Append(DropLast(@), [a EXCEPT !.frames = @ + 1])]
    /\ UNCHANGED <<depth, associations, cache, renders, heap>>

\* {{template}} inside a nested render (CALL_TEMPLATE): its depth counts from
\* the _depth the nested render was given.
CallTemplate(t) ==
    /\ stack[t] # <<>>
    /\ LET a == Last(stack[t]) IN
       /\ Within(a.base + a.frames + 1, MaxTemplateDepth)
       /\ stack' = [stack EXCEPT ![t] =
                       Append(DropLast(@), [a EXCEPT !.frames = @ + 1])]
    /\ UNCHANGED <<depth, associations, cache, renders, heap>>

ReturnTemplate(t) ==
    /\ stack[t] # <<>>
    /\ LET a == Last(stack[t]) IN
       /\ a.frames > 0
       /\ stack' = [stack EXCEPT ![t] =
                       Append(DropLast(@), [a EXCEPT !.frames = @ - 1])]
    /\ UNCHANGED <<depth, associations, cache, renders, heap>>

\* Mutant: every nested render pops, whether it pushed or not.
UnwindPopsAlways(t) ==
    /\ stack[t] # <<>>
    /\ stack' = [stack EXCEPT ![t] = DropLast(@)]
    /\ associations' = DropLast(associations)
    /\ depth' = depth - 1
    /\ UNCHANGED <<cache, renders, heap>>

\* Mutant: the association is not popped.
UnwindKeeps(t) ==
    /\ stack[t] # <<>>
    /\ stack' = [stack EXCEPT ![t] = DropLast(@)]
    /\ depth' = depth - 1
    /\ UNCHANGED <<associations, cache, renders, heap>>

\* Mutant: the depth found on entry is put back.
UnwindRestoresDepth(t) ==
    /\ stack[t] # <<>>
    /\ depth' = Last(stack[t]).base - 1
    /\ stack' = [stack EXCEPT ![t] = DropLast(@)]
    /\ associations' = IF Last(stack[t]).pushed THEN DropLast(associations)
                       ELSE associations
    /\ UNCHANGED <<cache, renders, heap>>

\* The finally of nested(): pop whatever is on top, and come up one level.
Unwind(t) ==
    /\ stack[t] # <<>>
    /\ stack' = [stack EXCEPT ![t] = DropLast(@)]
    /\ associations' = IF Last(stack[t]).pushed THEN DropLast(associations)
                       ELSE associations
    /\ depth' = depth - 1
    /\ UNCHANGED <<cache, renders, heap>>

\* A nested render ends when its program does ...
Finish(t) == Unwind(t) /\ Last(stack[t]).frames = 0

\* ... or an exception or a cancellation leaves it, whatever it was doing.  The
\* context function that called it may swallow the exception or let it go on.
Abort(t) == Unwind(t)

Step(t) ==
    \/ RenderTemplate(t)
    \/ \E s \in Sources : RenderCached(t, s) \/ RenderFresh(t, s)
    \/ CallTemplate(t)
    \/ ReturnTemplate(t)
    \/ Finish(t)
    \/ Abort(t)

Next == \E t \in Tasks : Step(t)

Spec == Init /\ [][Next]_vars

----------------------------------------------------------------------------
(* Properties                                                               *)

\* Every variable has its type.
TypeOK ==
    /\ depth \in Int
    /\ associations \in Seq(Ids)
    /\ DOMAIN cache \subseteq Keys
    /\ cache \in [DOMAIN cache -> Ids]
    /\ renders \in Nat
    /\ heap \in [Ids -> Seq(Sources)]
    /\ stack \in [Tasks -> Seq(Activations)]

\* A nested render runs in the association that encloses it on its own call
\* stack: the dynamic source it is part of, or else the rendered template
\* (context.py render_source: "in the current association").
InOwnAssociation ==
    \A t \in Tasks :
        /\ \A i \in DOMAIN stack[t] :
              stack[t][i].obj = Own(stack[t][i].trail)
        /\ Current = Own(Trail(t))    \* and so would the next one

\* The cache holds at most CacheLimit associations, each derived from the
\* association and the source of its key, although keys name associations by
\* identities that Python reuses (template.py cache_key).
CacheCoherent ==
    /\ Cardinality(DOMAIN cache) <= CacheLimit
    /\ \A k \in DOMAIN cache :
          heap[cache[k]] = Append(heap[k[1]], k[2])

\* Every association a key names is still the object it was when the key was
\* made: something keeps it alive, so its identity cannot be reused.
KeysAlive == \A k \in DOMAIN cache : k[1] \in Reachable

\* The nested renders active in the session, and those that pushed.
ActiveNested == UNION {{t} \X DOMAIN stack[t] : t \in Tasks}
Pushing == {e \in ActiveNested : stack[e[1]][e[2]].pushed}

\* Every association on the session belongs to one active nested render, in
\* whatever order the renders of concurrent branches began and ended; none is
\* left once they are over (context.py nested, finally).
AssociationsBalanced == Len(associations) = Cardinality(Pushing)

\* depth never falls below the number of active nested renders, so a session
\* cannot be driven past its depth limit by their order (context.py nested).
DepthCoversNested == depth >= Cardinality(ActiveNested)

\* No VM frame is deeper than the limit counted from its own base.
FrameDepthBounded ==
    \A t \in Tasks : \A i \in DOMAIN stack[t] :
        Within(stack[t][i].base + stack[t][i].frames, MaxTemplateDepth)

\* The session implements lexical nesting: the shared stack, the cache and its
\* identities are invisible to the renders (context.py render_source).
Nesting == INSTANCE NestedRenders
    WITH nest <- [t \in Tasks |-> [i \in DOMAIN stack[t] |->
                    [path |-> heap[stack[t][i].obj], frames |-> stack[t][i].frames]]]

ImplementsNesting == Nesting!AbstractSpec
============================================================================
