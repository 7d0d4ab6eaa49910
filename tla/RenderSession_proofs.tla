----------------------- MODULE RenderSession_proofs -----------------------
(***************************************************************************)
(* Theorems about render sessions, for any set of concurrent branches,     *)
(* any limits and any cache size.                                          *)
(*                                                                         *)
(* A step changes the nested renders of one task in one of three ways: it  *)
(* pushes an activation, it changes the frame count of the innermost one,  *)
(* or it drops that.  The first lemmas say what each does to the stack;    *)
(* every invariant then has one case per way.                              *)
(***************************************************************************)
EXTENDS RenderSession, FiniteSetTheorems, TLAPS

USE SessionAssumption DEF SessionAssumption

----------------------------------------------------------------------------
(* The three ways a step changes the stack                                  *)

SetFrames(t, n) ==
    stack' = [stack EXCEPT ![t] =
                 Append(DropLast(@), [Last(stack[t]) EXCEPT !.frames = n])]

Drop(t) == stack' = [stack EXCEPT ![t] = DropLast(@)]

StackType == stack \in [Tasks -> Seq(Activations)]

\* Pushing keeps every activation where it is and adds one on top.
LEMMA PushEffect ==
    ASSUME StackType, NEW t \in Tasks, NEW a \in Activations, Push(t, a)
    PROVE  /\ StackType'
           /\ \A u \in Tasks : u # t => stack'[u] = stack[u]
           /\ stack'[t] = Append(stack[t], a)
           /\ Len(stack[t]) \in Nat
           /\ DOMAIN stack[t] = 1 .. Len(stack[t])
           /\ DOMAIN stack'[t] = 1 .. Len(stack[t]) + 1
           /\ \A i \in DOMAIN stack[t] : stack'[t][i] = stack[t][i]
           /\ stack'[t][Len(stack[t]) + 1] = a
<1>1. stack[t] \in Seq(Activations)
  BY DEF StackType
<1>2. Append(stack[t], a) \in Seq(Activations)
  BY <1>1
<1>3. /\ stack'[t] = Append(stack[t], a)
      /\ \A u \in Tasks : u # t => stack'[u] = stack[u]
      /\ StackType'
  BY <1>2 DEF StackType, Push
<1>4. QED
  BY <1>1, <1>3

\* Changing the frame count of the innermost activation changes nothing else.
LEMMA SetFramesEffect ==
    ASSUME StackType, NEW t \in Tasks, NEW n \in Nat, stack[t] # <<>>,
           SetFrames(t, n)
    PROVE  /\ StackType'
           /\ \A u \in Tasks : u # t => stack'[u] = stack[u]
           /\ Len(stack[t]) \in Nat \ {0}
           /\ DOMAIN stack[t] = 1 .. Len(stack[t])
           /\ DOMAIN stack'[t] = 1 .. Len(stack[t])
           /\ \A i \in DOMAIN stack[t] :
                 /\ i # Len(stack[t]) => stack'[t][i] = stack[t][i]
                 /\ stack'[t][i].obj = stack[t][i].obj
                 /\ stack'[t][i].base = stack[t][i].base
                 /\ stack'[t][i].pushed = stack[t][i].pushed
                 /\ stack'[t][i].trail = stack[t][i].trail
           /\ stack'[t][Len(stack[t])].frames = n
<1> DEFINE s == stack[t]
           a == [Last(s) EXCEPT !.frames = n]
<1>1. s \in Seq(Activations) /\ Len(s) \in Nat \ {0}
  BY DEF StackType
<1>2. Last(s) \in Activations /\ Last(s) = s[Len(s)]
  BY <1>1 DEF Last
<1>3. /\ a \in Activations
      /\ a.obj = Last(s).obj /\ a.base = Last(s).base
      /\ a.pushed = Last(s).pushed /\ a.trail = Last(s).trail
      /\ a.frames = n
  BY <1>2 DEF Activations
<1>4. /\ DropLast(s) \in Seq(Activations)
      /\ Len(DropLast(s)) = Len(s) - 1
      /\ \A i \in 1 .. Len(s) - 1 : DropLast(s)[i] = s[i]
  BY <1>1 DEF DropLast
<1>5. Append(DropLast(s), a) \in Seq(Activations)
  BY <1>3, <1>4
<1>6. /\ stack'[t] = Append(DropLast(s), a)
      /\ \A u \in Tasks : u # t => stack'[u] = stack[u]
      /\ StackType'
  BY <1>5 DEF StackType, SetFrames
<1>7. /\ DOMAIN s = 1 .. Len(s)
      /\ DOMAIN stack'[t] = 1 .. Len(s)
      /\ \A i \in 1 .. Len(s) - 1 : stack'[t][i] = s[i]
      /\ stack'[t][Len(s)] = a
  BY <1>1, <1>3, <1>4, <1>5, <1>6
<1> HIDE DEF a
<1>8. ASSUME NEW i \in DOMAIN s
      PROVE  /\ i # Len(s) => stack'[t][i] = s[i]
             /\ stack'[t][i].obj = s[i].obj
             /\ stack'[t][i].base = s[i].base
             /\ stack'[t][i].pushed = s[i].pushed
             /\ stack'[t][i].trail = s[i].trail
  <2>1. CASE i = Len(s)
    BY <2>1, <1>2, <1>3, <1>7
  <2>2. CASE i # Len(s)
    <3>1. i \in 1 .. Len(s) - 1
      BY <2>2, <1>1, <1>7
    <3>2. QED
      BY <3>1, <1>7
  <2>3. QED
    BY <2>1, <2>2
<1>9. QED
  BY <1>1, <1>3, <1>6, <1>7, <1>8

\* Dropping the innermost activation keeps the others where they are.
LEMMA DropEffect ==
    ASSUME StackType, NEW t \in Tasks, stack[t] # <<>>, Drop(t)
    PROVE  /\ StackType'
           /\ \A u \in Tasks : u # t => stack'[u] = stack[u]
           /\ Len(stack[t]) \in Nat \ {0}
           /\ DOMAIN stack[t] = 1 .. Len(stack[t])
           /\ DOMAIN stack'[t] = 1 .. Len(stack[t]) - 1
           /\ \A i \in 1 .. Len(stack[t]) - 1 : stack'[t][i] = stack[t][i]
<1>1. stack[t] \in Seq(Activations) /\ Len(stack[t]) \in Nat \ {0}
  BY DEF StackType
<1>2. DropLast(stack[t]) \in Seq(Activations)
  BY <1>1 DEF DropLast
<1>3. /\ stack'[t] = DropLast(stack[t])
      /\ \A u \in Tasks : u # t => stack'[u] = stack[u]
      /\ StackType'
  BY <1>2 DEF StackType, Drop
<1>4. QED
  BY <1>1, <1>2, <1>3 DEF DropLast

----------------------------------------------------------------------------
(* Types                                                                    *)

\* What the helpers of the actions return.
LEMMA HelperTypes ==
    ASSUME TypeOK
    PROVE  /\ Current \in Ids
           /\ DropLast(associations) \in Seq(Ids)
           /\ \A t \in Tasks : Trail(t) \in Seq(Ids)
           /\ \A t \in Tasks : stack[t] # <<>> => Last(stack[t]) \in Activations
<1>1. associations # <<>> => Last(associations) \in Ids
  BY DEF TypeOK, Last
<1>2. \A t \in Tasks : stack[t] # <<>> => Last(stack[t]) \in Activations
  BY DEF TypeOK, Last
<1>3. \A t \in Tasks : Trail(t) \in Seq(Ids)
  BY <1>2 DEF Trail, Activations
<1>4. DropLast(associations) \in Seq(Ids)
  <2>1. CASE associations = <<>>
    BY <2>1 DEF DropLast, TypeOK
  <2>2. CASE associations # <<>>
    BY <2>2 DEF DropLast, TypeOK
  <2>3. QED
    BY <2>1, <2>2
<1>5. QED
  BY <1>1, <1>2, <1>3, <1>4 DEF Current

\* The activations that the actions push.
LEMMA ActivationType ==
    ASSUME TypeOK, NEW obj \in Ids, NEW pushed \in BOOLEAN, NEW trail \in Seq(Ids)
    PROVE  Activation(obj, depth + 1, pushed, trail) \in Activations
BY DEF TypeOK, Activation, Activations

\* What Remember does to the cache.
LEMMA RememberEffect ==
    ASSUME TypeOK, NEW key \in Keys, NEW obj \in Ids,
           cache' = Remember(key, obj)
    PROVE  /\ DOMAIN cache' \subseteq Keys
           /\ cache' \in [DOMAIN cache' -> Ids]
           /\ Cardinality(DOMAIN cache) < CacheLimit =>
                 /\ DOMAIN cache' = DOMAIN cache \cup {key}
                 /\ cache'[key] = obj
                 /\ \A k \in DOMAIN cache : k # key => cache'[k] = cache[k]
           /\ ~(Cardinality(DOMAIN cache) < CacheLimit) => cache' = cache
<1>1. CASE Cardinality(DOMAIN cache) < CacheLimit
  <2>1. cache' = [k \in DOMAIN cache \cup {key} |-> IF k = key THEN obj ELSE cache[k]]
    BY <1>1 DEF Remember
  <2>2. QED
    BY <1>1, <2>1 DEF TypeOK
<1>2. CASE ~(Cardinality(DOMAIN cache) < CacheLimit)
  BY <1>2 DEF Remember, TypeOK
<1>3. QED
  BY <1>1, <1>2

LEMMA TypeInvariant == TypeOK /\ [Next]_vars => TypeOK'
<1> SUFFICES ASSUME TypeOK, [Next]_vars PROVE TypeOK'
  OBVIOUS
<1> USE HelperTypes
<1>0. StackType
  BY DEF TypeOK, StackType
<1>1. CASE UNCHANGED vars
  BY <1>1 DEF TypeOK, vars
<1>3. ASSUME NEW t \in Tasks, RenderTemplate(t) PROVE TypeOK'
  <2>1. Activation(Current, depth + 1, FALSE, Trail(t)) \in Activations
    BY ActivationType
  <2>2. StackType'
    BY <1>0, <1>3, <2>1, PushEffect DEF RenderTemplate, StackType
  <2>3. /\ associations' = associations /\ cache' = cache /\ heap' = heap
        /\ depth' = depth + 1
        /\ renders' = renders + 1
    BY <1>3 DEF RenderTemplate, CountRender
  <2>4. depth' \in Int /\ renders' \in Nat
    BY <2>3 DEF TypeOK
  <2>5. QED
    BY <2>2, <2>3, <2>4 DEF TypeOK, StackType
<1>4. ASSUME NEW t \in Tasks, NEW obj \in Ids, RunDerived(t, obj)
      PROVE  depth' \in Int /\ associations' \in Seq(Ids) /\ StackType'
  <2>1. Append(Trail(t), obj) \in Seq(Ids)
    OBVIOUS
  <2>2. Activation(obj, depth + 1, TRUE, Append(Trail(t), obj)) \in Activations
    BY <2>1, ActivationType
  <2>3. StackType'
    BY <1>0, <1>4, <2>2, PushEffect DEF RunDerived, StackType
  <2>4. depth' \in Int
    BY <1>4 DEF RunDerived, TypeOK
  <2>5. Append(associations, obj) \in Seq(Ids)
    BY DEF TypeOK
  <2>6. associations' \in Seq(Ids)
    BY <1>4, <2>5 DEF RunDerived, TypeOK
  <2>7. QED
    BY <2>3, <2>4, <2>6
<1>5. ASSUME NEW t \in Tasks, NEW s \in Sources, RenderCached(t, s) PROVE TypeOK'
  <2>1. cache[<<Current, s>>] \in Ids
    BY <1>5 DEF RenderCached, TypeOK
  <2>2. depth' \in Int /\ associations' \in Seq(Ids) /\ StackType'
    BY <1>4, <1>5, <2>1 DEF RenderCached
  <2>3. cache' = cache /\ heap' = heap /\ renders' = renders + 1
    BY <1>5 DEF RenderCached, CountRender
  <2>4. renders' \in Nat
    BY <2>3 DEF TypeOK
  <2>5. QED
    BY <2>2, <2>3, <2>4 DEF TypeOK, StackType
<1>6. ASSUME NEW t \in Tasks, NEW s \in Sources, RenderFresh(t, s) PROVE TypeOK'
  <2>1. PICK obj \in Ids \ Reachable :
            /\ heap' = [heap EXCEPT ![obj] = Append(heap[Current], s)]
            /\ cache' = Remember(<<Current, s>>, obj)
            /\ RunDerived(t, obj)
    BY <1>6 DEF RenderFresh
  <2>2. depth' \in Int /\ associations' \in Seq(Ids) /\ StackType'
    BY <1>4, <2>1
  <2>3. <<Current, s>> \in Keys
    BY DEF Keys
  <2>4. DOMAIN cache' \subseteq Keys /\ cache' \in [DOMAIN cache' -> Ids]
    BY <2>1, <2>3, RememberEffect
  <2>5. heap' \in [Ids -> Seq(Sources)]
    <3>1. Append(heap[Current], s) \in Seq(Sources)
      BY DEF TypeOK
    <3>2. QED
      BY <2>1, <3>1 DEF TypeOK
  <2>6. renders' \in Nat
    BY <1>6 DEF RenderFresh, CountRender, TypeOK
  <2>7. QED
    BY <2>2, <2>4, <2>5, <2>6 DEF TypeOK, StackType
<1>7. ASSUME NEW t \in Tasks, CallTemplate(t) PROVE TypeOK'
  <2>1. SetFrames(t, Last(stack[t]).frames + 1)
    BY <1>7 DEF CallTemplate, SetFrames, Activations
  <2>2. Last(stack[t]).frames + 1 \in Nat
    BY <1>7 DEF CallTemplate, Activations
  <2>3. StackType'
    BY <1>0, <1>7, <2>1, <2>2, SetFramesEffect DEF CallTemplate
  <2>4. QED
    BY <1>7, <2>3 DEF TypeOK, StackType, CallTemplate
<1>8. ASSUME NEW t \in Tasks, ReturnTemplate(t) PROVE TypeOK'
  <2>1. SetFrames(t, Last(stack[t]).frames - 1)
    BY <1>8 DEF ReturnTemplate, SetFrames, Activations
  <2>2. Last(stack[t]).frames - 1 \in Nat
    BY <1>8 DEF ReturnTemplate, Activations
  <2>3. StackType'
    BY <1>0, <1>8, <2>1, <2>2, SetFramesEffect DEF ReturnTemplate
  <2>4. QED
    BY <1>8, <2>3 DEF TypeOK, StackType, ReturnTemplate
<1>9. ASSUME NEW t \in Tasks, Unwind(t) PROVE TypeOK'
  <2>1. StackType'
    BY <1>0, <1>9, DropEffect DEF Unwind, Drop
  <2>2. /\ cache' = cache /\ heap' = heap /\ renders' = renders
        /\ depth' = depth - 1
        /\ associations' \in {associations, DropLast(associations)}
    BY <1>9 DEF Unwind
  <2>3. DropLast(associations) \in Seq(Ids)
    <3>1. CASE associations = <<>>
      BY <3>1 DEF DropLast
    <3>2. CASE associations # <<>>
      BY <3>2 DEF DropLast, TypeOK
    <3>3. QED
      BY <3>1, <3>2
  <2>4. depth' \in Int
    BY <2>2 DEF TypeOK
  <2>5. QED
    BY <2>1, <2>2, <2>3, <2>4 DEF TypeOK, StackType
<1>10. QED
  BY <1>1, <1>3, <1>5, <1>6, <1>7, <1>8, <1>9
     DEF Next, Step, Finish, Abort

\* Every variable has its type in every reachable state.
THEOREM TypeCorrect == Spec => []TypeOK
<1>1. Init => TypeOK
  BY DEF Init, TypeOK, Keys
<1>2. QED
  BY <1>1, TypeInvariant, PTL DEF Spec

----------------------------------------------------------------------------
(* Every step as one of four ways to treat the nested renders               *)

\* No nested render starts or ends; one may have been refused.
Stays == UNCHANGED <<stack, associations>> /\ depth' \in {depth, depth + 1}

\* A nested render of obj starts in task t.
Starts(t, obj, pushed, trail) ==
    /\ Push(t, Activation(obj, depth + 1, pushed, trail))
    /\ NestedAllowed
    /\ depth' = depth + 1
    /\ associations' = IF pushed THEN Append(associations, obj) ELSE associations
    /\ IF pushed THEN trail = Append(Trail(t), obj)
                 ELSE obj = Current /\ trail = Trail(t)

\* The innermost render of t now has n active calls.
Counts(t, n) ==
    /\ stack[t] # <<>>
    /\ SetFrames(t, n)
    /\ \/ n <= Last(stack[t]).frames
       \/ Within(Last(stack[t]).base + n, MaxTemplateDepth)
    /\ UNCHANGED <<depth, associations, cache, heap>>

LEMMA StepWays ==
    ASSUME TypeOK, [Next]_vars
    PROVE  \/ Stays
           \/ \E t \in Tasks, obj \in Ids, pushed \in BOOLEAN, trail \in Seq(Ids) :
                 Starts(t, obj, pushed, trail)
           \/ \E t \in Tasks, n \in Nat : Counts(t, n)
           \/ \E t \in Tasks : Unwind(t)
<1> USE HelperTypes
<1>1. CASE UNCHANGED vars
  BY <1>1 DEF vars, Stays
<1>3. ASSUME NEW t \in Tasks, RenderTemplate(t)
      PROVE  \/ Stays
             \/ \E obj \in Ids, trail \in Seq(Ids) : Starts(t, obj, FALSE, trail)
  <2>1. CASE NestedAllowed
    <3>1. Starts(t, Current, FALSE, Trail(t))
      BY <1>3, <2>1 DEF RenderTemplate, Starts
    <3>2. QED
      BY <3>1
  <2>2. CASE ~NestedAllowed
    BY <1>3, <2>2 DEF RenderTemplate, Stays
  <2>3. QED
    BY <2>1, <2>2
<1>4. ASSUME NEW t \in Tasks, NEW obj \in Ids, RunDerived(t, obj)
      PROVE  Stays \/ \E trail \in Seq(Ids) : Starts(t, obj, TRUE, trail)
  <2>1. CASE NestedAllowed
    <3>1. Append(Trail(t), obj) \in Seq(Ids)
      OBVIOUS
    <3>2. Starts(t, obj, TRUE, Append(Trail(t), obj))
      BY <1>4, <2>1 DEF RunDerived, Starts
    <3>3. QED
      BY <3>1, <3>2
  <2>2. CASE ~NestedAllowed
    BY <1>4, <2>2 DEF RunDerived, Stays
  <2>3. QED
    BY <2>1, <2>2
<1>5. ASSUME NEW t \in Tasks, NEW s \in Sources,
             RenderCached(t, s) \/ RenderFresh(t, s)
      PROVE  \E obj \in Ids : RunDerived(t, obj)
  <2>1. CASE RenderCached(t, s)
    <3>1. cache[<<Current, s>>] \in Ids
      BY <2>1 DEF RenderCached, TypeOK
    <3>2. QED
      BY <2>1, <3>1 DEF RenderCached
  <2>2. CASE RenderFresh(t, s)
    BY <2>2 DEF RenderFresh
  <2>3. QED
    BY <1>5, <2>1, <2>2
<1>6. ASSUME NEW t \in Tasks, CallTemplate(t) PROVE \E n \in Nat : Counts(t, n)
  <2>1. Counts(t, Last(stack[t]).frames + 1)
    <3>1. Last(stack[t]) \in Activations
      BY <1>6 DEF CallTemplate
    <3>2. Last(stack[t]).base + Last(stack[t]).frames + 1
            = Last(stack[t]).base + (Last(stack[t]).frames + 1)
      BY <3>1 DEF Activations
    <3>3. SetFrames(t, Last(stack[t]).frames + 1)
      BY <1>6 DEF CallTemplate, SetFrames
    <3>4. QED
      BY <1>6, <3>2, <3>3 DEF CallTemplate, Counts
  <2>2. Last(stack[t]).frames + 1 \in Nat
    BY <1>6 DEF CallTemplate, Activations
  <2>3. QED
    BY <2>1, <2>2
<1>7. ASSUME NEW t \in Tasks, ReturnTemplate(t) PROVE \E n \in Nat : Counts(t, n)
  <2>1. Last(stack[t]).frames - 1 \in Nat
    BY <1>7 DEF ReturnTemplate, Activations
  <2>2. Last(stack[t]).frames - 1 <= Last(stack[t]).frames
    BY <1>7 DEF ReturnTemplate, Activations
  <2>3. SetFrames(t, Last(stack[t]).frames - 1)
    BY <1>7 DEF ReturnTemplate, SetFrames
  <2>4. Counts(t, Last(stack[t]).frames - 1)
    BY <1>7, <2>2, <2>3 DEF ReturnTemplate, Counts
  <2>5. QED
    BY <2>1, <2>4
<1>8. ASSUME NEW t \in Tasks, Step(t)
      PROVE  \/ Stays
             \/ \E obj \in Ids, pushed \in BOOLEAN, trail \in Seq(Ids) :
                   Starts(t, obj, pushed, trail)
             \/ \E n \in Nat : Counts(t, n)
             \/ Unwind(t)
  <2>1. CASE RenderTemplate(t)
    BY <1>3, <2>1
  <2>2. CASE \E s \in Sources : RenderCached(t, s) \/ RenderFresh(t, s)
    BY <1>4, <1>5, <2>2
  <2>3. CASE CallTemplate(t) \/ ReturnTemplate(t)
    BY <1>6, <1>7, <2>3
  <2>4. CASE Finish(t) \/ Abort(t)
    BY <2>4 DEF Finish, Abort
  <2>5. QED
    BY <1>8, <2>1, <2>2, <2>3, <2>4 DEF Step
<1>9. QED
  BY <1>1, <1>8 DEF Next

\* An entered render is at the limit or below, with no calls yet.
LEMMA StartFields ==
    ASSUME TypeOK, NEW obj \in Ids, NEW pushed \in BOOLEAN, NEW trail \in Seq(Ids)
    PROVE  LET a == Activation(obj, depth + 1, pushed, trail) IN
           /\ a \in Activations
           /\ a.obj = obj /\ a.base = depth + 1 /\ a.frames = 0
           /\ a.pushed = pushed /\ a.trail = trail
BY DEF TypeOK, Activation, Activations

----------------------------------------------------------------------------
(* Template depth                                                           *)

LEMMA FrameDepthStep == TypeOK /\ FrameDepthBounded /\ [Next]_vars => FrameDepthBounded'
<1> DEFINE OK(a) == Within(a.base + a.frames, MaxTemplateDepth)
<1> SUFFICES ASSUME TypeOK, FrameDepthBounded, [Next]_vars
             PROVE  \A t \in Tasks : \A i \in DOMAIN stack'[t] : OK(stack'[t][i])
  BY DEF FrameDepthBounded
<1>0. /\ StackType
      /\ \A t \in Tasks : \A i \in DOMAIN stack[t] :
            stack[t][i] \in Activations /\ OK(stack[t][i])
  BY DEF TypeOK, StackType, FrameDepthBounded
<1>1. CASE Stays
  BY <1>0, <1>1 DEF Stays
<1>2. ASSUME NEW t \in Tasks, NEW obj \in Ids, NEW pushed \in BOOLEAN,
             NEW trail \in Seq(Ids), Starts(t, obj, pushed, trail)
      PROVE  \A u \in Tasks : \A i \in DOMAIN stack'[u] : OK(stack'[u][i])
  <2> DEFINE a == Activation(obj, depth + 1, pushed, trail)
  <2>1. a \in Activations /\ a.base = depth + 1 /\ a.frames = 0
    BY StartFields
  <2>2. OK(a)
    BY <1>2, <2>1 DEF Starts, NestedAllowed, TypeOK
  <2>3. Push(t, a)
    BY <1>2 DEF Starts
  <2> HIDE DEF a
  <2>4. QED
    BY <1>0, <2>1, <2>2, <2>3, PushEffect
<1>3. ASSUME NEW t \in Tasks, NEW n \in Nat, Counts(t, n)
      PROVE  \A u \in Tasks : \A i \in DOMAIN stack'[u] : OK(stack'[u][i])
  <2>1. /\ \A u \in Tasks : u # t => stack'[u] = stack[u]
        /\ Len(stack[t]) \in Nat \ {0}
        /\ DOMAIN stack[t] = 1 .. Len(stack[t])
        /\ DOMAIN stack'[t] = 1 .. Len(stack[t])
        /\ \A i \in DOMAIN stack[t] :
              /\ i # Len(stack[t]) => stack'[t][i] = stack[t][i]
              /\ stack'[t][i].base = stack[t][i].base
        /\ stack'[t][Len(stack[t])].frames = n
    BY <1>0, <1>3, SetFramesEffect DEF Counts
  <2>2. OK(stack'[t][Len(stack[t])])
    <3> DEFINE old == stack[t][Len(stack[t])]
    <3>1. old \in Activations /\ OK(old) /\ Last(stack[t]) = old
      BY <1>0, <2>1 DEF Last
    <3>2. old.base \in Int /\ old.frames \in Nat
      BY <3>1 DEF Activations
    <3>3. n <= old.frames \/ Within(old.base + n, MaxTemplateDepth)
      BY <1>3, <3>1 DEF Counts
    <3>4. Within(old.base + n, MaxTemplateDepth)
      BY <3>1, <3>2, <3>3 DEF Within
    <3>5. QED
      BY <2>1, <3>4
  <2>3. QED
    BY <1>0, <2>1, <2>2
<1>4. ASSUME NEW t \in Tasks, Unwind(t)
      PROVE  \A u \in Tasks : \A i \in DOMAIN stack'[u] : OK(stack'[u][i])
  <2>1. Drop(t) /\ stack[t] # <<>>
    BY <1>4 DEF Unwind, Drop
  <2>2. /\ \A u \in Tasks : u # t => stack'[u] = stack[u]
        /\ Len(stack[t]) \in Nat \ {0}
        /\ DOMAIN stack[t] = 1 .. Len(stack[t])
        /\ DOMAIN stack'[t] = 1 .. Len(stack[t]) - 1
        /\ \A i \in 1 .. Len(stack[t]) - 1 : stack'[t][i] = stack[t][i]
    BY <1>0, <2>1, DropEffect
  <2>3. ASSUME NEW i \in DOMAIN stack'[t] PROVE OK(stack'[t][i])
    <3>1. i \in DOMAIN stack[t] /\ stack'[t][i] = stack[t][i]
      BY <2>2
    <3>2. QED
      BY <1>0, <3>1
  <2>4. ASSUME NEW u \in Tasks, u # t, NEW i \in DOMAIN stack'[u]
        PROVE  OK(stack'[u][i])
    BY <1>0, <2>2, <2>4
  <2>5. QED
    BY <2>3, <2>4
<1>5. QED
  BY <1>1, <1>2, <1>3, <1>4, StepWays

\* No template call of a nested render is deeper than the limit, counted from
\* the depth its render was given (context.py nested, sync_vm.py CALL_TEMPLATE).
THEOREM FrameDepthIsBounded == Spec => []FrameDepthBounded
<1>1. Init => FrameDepthBounded
  BY DEF Init, FrameDepthBounded
<1>2. QED
  BY <1>1, FrameDepthStep, TypeCorrect, PTL DEF Spec

----------------------------------------------------------------------------
(* Counting the active renders                                              *)

\* Balance: both counts, and that what they count is finite.
Balance ==
    /\ IsFiniteSet(ActiveNested)
    /\ IsFiniteSet(Pushing)
    /\ DepthCoversNested
    /\ AssociationsBalanced

LEMMA PushCounts ==
    ASSUME StackType, NEW t \in Tasks, NEW a \in Activations, Push(t, a)
    PROVE  LET e == <<t, Len(stack[t]) + 1>> IN
           /\ e \notin ActiveNested
           /\ ActiveNested' = ActiveNested \cup {e}
           /\ e \notin Pushing
           /\ Pushing' = IF a.pushed THEN Pushing \cup {e} ELSE Pushing
<1> DEFINE e == <<t, Len(stack[t]) + 1>>
<1>0. USE PushEffect
<1>1. \A u \in Tasks, i \in Nat :
        /\ <<u, i>> \in ActiveNested <=> i \in DOMAIN stack[u]
        /\ <<u, i>> \in ActiveNested' <=> i \in DOMAIN stack'[u]
  BY DEF ActiveNested
<1>2. ActiveNested \subseteq Tasks \X Nat /\ ActiveNested' \subseteq Tasks \X Nat
  <2>1. \A u \in Tasks : stack[u] \in Seq(Activations) /\ stack'[u] \in Seq(Activations)
    BY DEF StackType
  <2>2. QED
    BY <2>1 DEF ActiveNested
<1>3. e \notin ActiveNested
  BY <1>1
<1>4. ActiveNested' = ActiveNested \cup {e}
  <2>1. \A u \in Tasks, i \in Nat :
           i \in DOMAIN stack'[u] <=> i \in DOMAIN stack[u] \/ <<u, i>> = e
    OBVIOUS
  <2>2. \A u \in Tasks, i \in Nat :
           <<u, i>> \in ActiveNested' <=> <<u, i>> \in ActiveNested \cup {e}
    BY <1>1, <2>1
  <2>3. e \in Tasks \X Nat
    OBVIOUS
  <2>4. QED
    BY <1>2, <2>2, <2>3
<1>5. \A u \in Tasks, i \in Nat : <<u, i>> \in ActiveNested =>
         stack'[u][i].pushed = stack[u][i].pushed
  BY <1>1
<1>6. e \notin Pushing /\ Pushing' = IF a.pushed THEN Pushing \cup {e} ELSE Pushing
  <2>1. \A x \in ActiveNested : stack'[x[1]][x[2]].pushed = stack[x[1]][x[2]].pushed
    BY <1>2, <1>5
  <2>2. stack'[e[1]][e[2]].pushed = a.pushed
    OBVIOUS
  <2> HIDE DEF e
  <2>3. Pushing' = {x \in ActiveNested' : stack'[x[1]][x[2]].pushed}
    BY DEF Pushing
  <2>4. QED
    BY <1>3, <1>4, <2>1, <2>2, <2>3 DEF Pushing
<1>7. QED
  BY <1>3, <1>4, <1>6

LEMMA SetFramesCounts ==
    ASSUME StackType, NEW t \in Tasks, NEW n \in Nat, stack[t] # <<>>,
           SetFrames(t, n)
    PROVE  ActiveNested' = ActiveNested /\ Pushing' = Pushing
<1>0. USE SetFramesEffect
<1>1. \A u \in Tasks : DOMAIN stack'[u] = DOMAIN stack[u]
  OBVIOUS
<1>2. ActiveNested' = ActiveNested
  BY <1>1 DEF ActiveNested
<1>3. \A u \in Tasks : \A i \in DOMAIN stack[u] :
         stack'[u][i].pushed = stack[u][i].pushed
  OBVIOUS
<1>4. Pushing' = Pushing
  BY <1>2, <1>3 DEF Pushing, ActiveNested
<1>5. QED
  BY <1>2, <1>4

LEMMA DropCounts ==
    ASSUME StackType, NEW t \in Tasks, stack[t] # <<>>, Drop(t)
    PROVE  LET e == <<t, Len(stack[t])>> IN
           /\ e \in ActiveNested
           /\ ActiveNested' = ActiveNested \ {e}
           /\ e \in Pushing <=> Last(stack[t]).pushed
           /\ Pushing' = Pushing \ {e}
<1> DEFINE e == <<t, Len(stack[t])>>
<1>0. USE DropEffect
<1>1. \A u \in Tasks, i \in Nat :
        /\ <<u, i>> \in ActiveNested <=> i \in DOMAIN stack[u]
        /\ <<u, i>> \in ActiveNested' <=> i \in DOMAIN stack'[u]
  BY DEF ActiveNested
<1>2. ActiveNested \subseteq Tasks \X Nat /\ ActiveNested' \subseteq Tasks \X Nat
  <2>1. \A u \in Tasks : stack[u] \in Seq(Activations) /\ stack'[u] \in Seq(Activations)
    BY DEF StackType
  <2>2. QED
    BY <2>1 DEF ActiveNested
<1>3. e \in ActiveNested
  BY <1>1
<1>4. ActiveNested' = ActiveNested \ {e}
  <2>1. \A u \in Tasks, i \in Nat :
           i \in DOMAIN stack'[u] <=> i \in DOMAIN stack[u] /\ <<u, i>> # e
    OBVIOUS
  <2>2. \A u \in Tasks, i \in Nat :
           <<u, i>> \in ActiveNested' <=> <<u, i>> \in ActiveNested \ {e}
    BY <1>1, <2>1
  <2>3. QED
    BY <1>2, <2>2
<1>5. \A u \in Tasks, i \in Nat : <<u, i>> \in ActiveNested' =>
         stack'[u][i].pushed = stack[u][i].pushed
  BY <1>1
<1>6. e \in Pushing <=> Last(stack[t]).pushed
  BY <1>3 DEF Pushing, Last
<1>7. Pushing' = Pushing \ {e}
  <2>1. \A x \in ActiveNested' : stack'[x[1]][x[2]].pushed = stack[x[1]][x[2]].pushed
    BY <1>2, <1>5
  <2> HIDE DEF e
  <2>2. Pushing' = {x \in ActiveNested' : stack'[x[1]][x[2]].pushed}
    BY DEF Pushing
  <2>3. QED
    BY <1>4, <2>1, <2>2 DEF Pushing
<1>8. QED
  BY <1>3, <1>4, <1>6, <1>7

LEMMA BalanceStep == TypeOK /\ Balance /\ [Next]_vars => Balance'
<1> SUFFICES ASSUME TypeOK, Balance, [Next]_vars PROVE Balance'
  OBVIOUS
<1>0. /\ StackType
      /\ IsFiniteSet(ActiveNested) /\ Cardinality(ActiveNested) \in Nat
      /\ IsFiniteSet(Pushing) /\ Cardinality(Pushing) \in Nat
      /\ depth \in Int /\ associations \in Seq(Ids)
      /\ depth >= Cardinality(ActiveNested)
      /\ Len(associations) = Cardinality(Pushing)
  BY FS_CardinalityType
     DEF TypeOK, StackType, Balance, DepthCoversNested, AssociationsBalanced
<1>1. CASE Stays
  <2>1. ActiveNested' = ActiveNested /\ Pushing' = Pushing
    BY <1>1 DEF Stays, ActiveNested, Pushing
  <2>2. depth' >= Cardinality(ActiveNested) /\ associations' = associations
    BY <1>0, <1>1 DEF Stays
  <2>3. QED
    BY <1>0, <2>1, <2>2 DEF Balance, DepthCoversNested, AssociationsBalanced
<1>2. ASSUME NEW t \in Tasks, NEW obj \in Ids, NEW pushed \in BOOLEAN,
             NEW trail \in Seq(Ids), Starts(t, obj, pushed, trail)
      PROVE  Balance'
  <2> DEFINE a == Activation(obj, depth + 1, pushed, trail)
             e == <<t, Len(stack[t]) + 1>>
  <2>1. a \in Activations /\ a.pushed = pushed /\ Push(t, a)
    BY <1>2, StartFields DEF Starts
  <2> HIDE DEF a
  <2>2. /\ e \notin ActiveNested
        /\ ActiveNested' = ActiveNested \cup {e}
        /\ e \notin Pushing
        /\ Pushing' = IF pushed THEN Pushing \cup {e} ELSE Pushing
    BY <1>0, <2>1, PushCounts
  <2> HIDE DEF e
  <2>3. /\ IsFiniteSet(ActiveNested')
        /\ Cardinality(ActiveNested') = Cardinality(ActiveNested) + 1
    BY <1>0, <2>2, FS_AddElement
  <2>4. /\ IsFiniteSet(Pushing')
        /\ Cardinality(Pushing') = Cardinality(Pushing) + (IF pushed THEN 1 ELSE 0)
    <3>1. CASE pushed
      <4>1. Pushing' = Pushing \cup {e}
        BY <2>2, <3>1
      <4>2. QED
        BY <1>0, <2>2, <3>1, <4>1, FS_AddElement
    <3>2. CASE ~pushed
      BY <1>0, <2>2, <3>2
    <3>3. QED
      BY <3>1, <3>2
  <2>5. /\ depth' = depth + 1
        /\ Len(associations') = Len(associations) + (IF pushed THEN 1 ELSE 0)
    BY <1>0, <1>2 DEF Starts
  <2>6. QED
    BY <1>0, <2>3, <2>4, <2>5 DEF Balance, DepthCoversNested, AssociationsBalanced
<1>3. ASSUME NEW t \in Tasks, NEW n \in Nat, Counts(t, n) PROVE Balance'
  <2>1. ActiveNested' = ActiveNested /\ Pushing' = Pushing
    BY <1>0, <1>3, SetFramesCounts DEF Counts
  <2>2. QED
    BY <1>0, <1>3, <2>1 DEF Counts, Balance, DepthCoversNested, AssociationsBalanced
<1>4. ASSUME NEW t \in Tasks, Unwind(t) PROVE Balance'
  <2> DEFINE e == <<t, Len(stack[t])>>
             p == Last(stack[t]).pushed
  <2>0. p \in BOOLEAN
    BY <1>4, HelperTypes DEF Unwind, Activations
  <2>1. /\ e \in ActiveNested
        /\ ActiveNested' = ActiveNested \ {e}
        /\ e \in Pushing <=> p
        /\ Pushing' = Pushing \ {e}
    BY <1>0, <1>4, DropCounts DEF Unwind, Drop
  <2>2. /\ depth' = depth - 1
        /\ associations' = IF p THEN DropLast(associations) ELSE associations
    BY <1>4 DEF Unwind
  <2> HIDE DEF e, p
  <2>3. /\ IsFiniteSet(ActiveNested')
        /\ Cardinality(ActiveNested') = Cardinality(ActiveNested) - 1
    BY <1>0, <2>1, FS_RemoveElement
  <2>4. /\ IsFiniteSet(Pushing')
        /\ Cardinality(Pushing') = Cardinality(Pushing) - (IF p THEN 1 ELSE 0)
    BY <1>0, <2>0, <2>1, FS_RemoveElement
  <2>5. Len(associations') = Len(associations) - (IF p THEN 1 ELSE 0)
    <3>1. CASE p
      <4>1. Cardinality(Pushing) # 0
        BY <1>0, <2>1, <3>1, FS_EmptySet
      <4>2. Len(DropLast(associations)) = Len(associations) - 1
        BY <1>0, <4>1 DEF DropLast
      <4>3. QED
        BY <2>2, <3>1, <4>2
    <3>2. CASE ~p
      BY <1>0, <2>2, <3>2
    <3>3. QED
      BY <2>0, <3>1, <3>2
  <2>6. QED
    BY <1>0, <2>0, <2>2, <2>3, <2>4, <2>5
       DEF Balance, DepthCoversNested, AssociationsBalanced
<1>5. QED
  BY <1>1, <1>2, <1>3, <1>4, StepWays

LEMMA BalanceHolds == Spec => []Balance
<1>1. Init => Balance
  <2>1. Init => ActiveNested = {} /\ Pushing = {}
    BY DEF Init, ActiveNested, Pushing
  <2>2. ASSUME Init PROVE depth = 0 /\ Len(associations) = 0
    BY <2>2 DEF Init
  <2>3. ASSUME Init PROVE Balance
    <3>1. ActiveNested = {} /\ Pushing = {}
      BY <2>1, <2>3
    <3>2. Cardinality(ActiveNested) = 0 /\ Cardinality(Pushing) = 0
      BY <3>1, FS_EmptySet
    <3>3. IsFiniteSet(ActiveNested) /\ IsFiniteSet(Pushing)
      BY <3>1, FS_EmptySet
    <3>4. QED
      BY <2>2, <2>3, <3>2, <3>3 DEF Balance, DepthCoversNested, AssociationsBalanced
  <2>4. QED
    BY <2>3
<1>2. QED
  BY <1>1, BalanceStep, TypeCorrect, PTL DEF Spec

\* depth never falls below the number of active nested renders, whatever the
\* order in which concurrent branches start, end and abort them.
THEOREM DepthCovers == Spec => []DepthCoversNested
<1>1. Balance => DepthCoversNested
  BY DEF Balance
<1>2. QED
  BY <1>1, BalanceHolds, PTL

\* Every association on the session belongs to one active render that pushed.
THEOREM AssociationsBalance == Spec => []AssociationsBalanced
<1>1. Balance => AssociationsBalanced
  BY DEF Balance
<1>2. QED
  BY <1>1, BalanceHolds, PTL

----------------------------------------------------------------------------
(***************************************************************************)
(* Three further groups of theorems.                                       *)
(*                                                                         *)
(* The dynamic cache is keyed by object identities, which Python reuses;   *)
(* it is nevertheless right for any number of branches, because what a key *)
(* names is kept alive by the cache itself.                                *)
(*                                                                         *)
(* The association stack follows the call stack of the renders as long as  *)
(* they run one after the other, that is, with a single task.  (With two   *)
(* it does not: run session_gather.)  Such a session implements the        *)
(* abstract specification of nested renders, NestedRenders.                *)
(***************************************************************************)
----------------------------------------------------------------------------
(* The dynamic cache                                                        *)

\* The associations that live as long as the session does.
Kept == {Base} \cup {cache[k] : k \in DOMAIN cache}

\* An association that is current is kept while there is room in the cache:
\* when it was made it was remembered.  So every association a key names is
\* kept, and its identity cannot be taken by another.
CacheInv ==
    /\ IsFiniteSet(DOMAIN cache)
    /\ CacheCoherent
    /\ \A k \in DOMAIN cache : k[1] \in Kept
    /\ Cardinality(DOMAIN cache) < CacheLimit =>
          \A i \in DOMAIN associations : associations[i] \in Kept

LEMMA CurrentKept ==
    ASSUME TypeOK, CacheInv, Cardinality(DOMAIN cache) < CacheLimit
    PROVE  Current \in Kept
<1>1. CASE associations = <<>>
  BY <1>1 DEF Current, Kept
<1>2. CASE associations # <<>>
  <2>1. Len(associations) \in DOMAIN associations
    BY <1>2 DEF TypeOK
  <2>2. QED
    BY <1>2, <2>1 DEF Current, Last, CacheInv
<1>3. QED
  BY <1>1, <1>2

LEMMA CurrentReachable == TypeOK => Current \in Reachable
<1> SUFFICES ASSUME TypeOK PROVE Current \in Reachable
  OBVIOUS
<1>1. CASE associations = <<>>
  BY <1>1 DEF Current, Reachable
<1>2. CASE associations # <<>>
  <2>1. Len(associations) \in DOMAIN associations
    BY <1>2 DEF TypeOK
  <2>2. QED
    BY <1>2, <2>1 DEF Current, Last, Reachable
<1>3. QED
  BY <1>1, <1>2

\* Associations that only shrink or grow by a kept one stay kept.
LEMMA KeptAssociations ==
    ASSUME TypeOK, CacheInv, UNCHANGED <<cache, heap>>,
           \/ associations' = associations
           \/ associations' = DropLast(associations)
           \/ \E obj \in Kept : associations' = Append(associations, obj)
    PROVE  CacheInv'
<1>1. Kept' = Kept /\ CacheCoherent'
  BY DEF Kept, CacheInv, CacheCoherent
<1>2. ASSUME Cardinality(DOMAIN cache) < CacheLimit,
             NEW i \in DOMAIN associations'
      PROVE  associations'[i] \in Kept
  <2>0. associations \in Seq(Ids)
        /\ \A j \in DOMAIN associations : associations[j] \in Kept
    BY <1>2 DEF TypeOK, CacheInv
  <2>1. CASE associations' = associations
    BY <1>2, <2>0, <2>1
  <2>2. CASE associations' = DropLast(associations)
    <3>1. CASE associations = <<>>
      BY <1>2, <2>2, <3>1 DEF DropLast
    <3>2. CASE associations # <<>>
      BY <1>2, <2>0, <2>2, <3>2 DEF DropLast
    <3>3. QED
      BY <3>1, <3>2
  <2>3. CASE \E obj \in Kept : associations' = Append(associations, obj)
    <3>1. PICK obj \in Kept : associations' = Append(associations, obj)
      BY <2>3
    <3>2. CASE i = Len(associations) + 1
      BY <2>0, <3>1, <3>2
    <3>3. CASE i # Len(associations) + 1
      BY <1>2, <2>0, <3>1, <3>3
    <3>4. QED
      BY <3>2, <3>3
  <2>4. QED
    BY <2>1, <2>2, <2>3
<1>3. QED
  BY <1>1, <1>2 DEF CacheInv

LEMMA FreshKeepsCache ==
    ASSUME TypeOK, CacheInv, NEW t \in Tasks, NEW s \in Sources, RenderFresh(t, s)
    PROVE  CacheInv'
<1> DEFINE key == <<Current, s>>
<1>1. PICK obj \in Ids \ Reachable :
          /\ heap' = [heap EXCEPT ![obj] = Append(heap[Current], s)]
          /\ cache' = Remember(key, obj)
          /\ RunDerived(t, obj)
  BY DEF RenderFresh
<1>2. /\ key \notin DOMAIN cache
      /\ key \in Keys
      /\ Current \in Ids /\ Current # obj
      /\ obj \notin Kept
  BY HelperTypes, CurrentReachable DEF RenderFresh, Keys, Kept, Reachable
<1>3. /\ heap'[obj] = Append(heap[Current], s)
      /\ \A j \in Ids : j # obj => heap'[j] = heap[j]
  BY <1>1 DEF TypeOK
<1>4. \A k \in DOMAIN cache :
          /\ cache[k] \in Ids /\ k[1] \in Ids
          /\ cache[k] # obj /\ k[1] # obj
  BY <1>2 DEF TypeOK, CacheInv, Kept, Keys
<1>5. \A k \in DOMAIN cache : heap'[cache[k]] = Append(heap'[k[1]], k[2])
  BY <1>3, <1>4 DEF CacheInv, CacheCoherent
<1>6. CASE ~(Cardinality(DOMAIN cache) < CacheLimit)
  <2>1. cache' = cache
    BY <1>1, <1>6 DEF Remember
  <2>2. QED
    BY <1>5, <1>6, <2>1 DEF CacheInv, CacheCoherent, Kept
<1>7. CASE Cardinality(DOMAIN cache) < CacheLimit
  <2>1. /\ DOMAIN cache' = DOMAIN cache \cup {key}
        /\ cache'[key] = obj
        /\ \A k \in DOMAIN cache : cache'[k] = cache[k]
    BY <1>1, <1>2, <1>7, RememberEffect
  <2>2. /\ IsFiniteSet(DOMAIN cache')
        /\ Cardinality(DOMAIN cache') <= CacheLimit
    <3>1. IsFiniteSet(DOMAIN cache) /\ Cardinality(DOMAIN cache) \in Nat
      BY FS_CardinalityType DEF CacheInv
    <3>2. /\ IsFiniteSet(DOMAIN cache')
          /\ Cardinality(DOMAIN cache') = Cardinality(DOMAIN cache) + 1
      BY <1>2, <2>1, <3>1, FS_AddElement
    <3>3. QED
      BY <1>7, <3>1, <3>2
  <2>3. \A k \in DOMAIN cache' : heap'[cache'[k]] = Append(heap'[k[1]], k[2])
    <3>1. heap'[cache'[key]] = Append(heap'[key[1]], key[2])
      BY <1>2, <1>3, <2>1
    <3>2. QED
      BY <1>5, <2>1, <3>1
  <2>4. Kept \subseteq Kept' /\ obj \in Kept'
    BY <2>1 DEF Kept
  <2>5. \A k \in DOMAIN cache' : k[1] \in Kept'
    BY <1>7, <2>1, <2>4, CurrentKept DEF CacheInv
  <2>6. \A i \in DOMAIN associations' : associations'[i] \in Kept'
    <3>0. associations \in Seq(Ids)
          /\ \A i \in DOMAIN associations : associations[i] \in Kept'
      BY <1>7, <2>4 DEF TypeOK, CacheInv
    <3>1. \/ associations' = associations
          \/ associations' = Append(associations, obj)
      BY <1>1 DEF RunDerived
    <3>2. QED
      BY <2>4, <3>0, <3>1
  <2>7. QED
    BY <2>2, <2>3, <2>5, <2>6 DEF CacheInv, CacheCoherent
<1>8. QED
  BY <1>6, <1>7

LEMMA CacheStep == TypeOK /\ CacheInv /\ [Next]_vars => CacheInv'
<1> SUFFICES ASSUME TypeOK, CacheInv, [Next]_vars PROVE CacheInv'
  OBVIOUS
<1>1. CASE UNCHANGED vars
  BY <1>1, KeptAssociations DEF vars
<1>3. ASSUME NEW t \in Tasks, RenderTemplate(t) PROVE CacheInv'
  BY <1>3, KeptAssociations DEF RenderTemplate
<1>4. ASSUME NEW t \in Tasks, NEW s \in Sources, RenderCached(t, s) PROVE CacheInv'
  <2>1. cache[<<Current, s>>] \in Kept
    BY <1>4 DEF RenderCached, Kept
  <2>2. \/ associations' = associations
        \/ associations' = Append(associations, cache[<<Current, s>>])
    BY <1>4 DEF RenderCached, RunDerived
  <2>3. UNCHANGED <<cache, heap>>
    BY <1>4 DEF RenderCached
  <2>4. QED
    BY <2>1, <2>2, <2>3, KeptAssociations
<1>5. ASSUME NEW t \in Tasks, CallTemplate(t) \/ ReturnTemplate(t) PROVE CacheInv'
  BY <1>5, KeptAssociations DEF CallTemplate, ReturnTemplate
<1>6. ASSUME NEW t \in Tasks, Unwind(t) PROVE CacheInv'
  BY <1>6, KeptAssociations DEF Unwind
<1>7. QED
  BY <1>1, <1>3, <1>4, <1>5, <1>6, FreshKeepsCache
     DEF Next, Step, Finish, Abort

LEMMA CacheInvariant == Spec => []CacheInv
<1>1. Init => CacheInv
  <2>1. ASSUME Init PROVE CacheInv
    <3>1. DOMAIN cache = {} /\ associations = <<>>
      BY <2>1 DEF Init
    <3>2. IsFiniteSet(DOMAIN cache) /\ Cardinality(DOMAIN cache) = 0
      BY <3>1, FS_EmptySet
    <3>3. QED
      BY <3>1, <3>2 DEF CacheInv, CacheCoherent
  <2>2. QED
    BY <2>1
<1>2. QED
  BY <1>1, CacheStep, TypeCorrect, PTL DEF Spec

\* The cache never exceeds its limit, and what it holds under an identity and a
\* source is derived from that association and that source (template.py
\* _render_source_in_session, cache_key).
THEOREM CacheIsCoherent == Spec => []CacheCoherent
<1>1. CacheInv => CacheCoherent
  BY DEF CacheInv
<1>2. QED
  BY <1>1, CacheInvariant, PTL

\* No identity that a cache key names can be given to another object.
THEOREM KeysStayAlive == Spec => []KeysAlive
<1>1. CacheInv => KeysAlive
  BY DEF CacheInv, KeysAlive, Kept, Reachable
<1>2. QED
  BY <1>1, CacheInvariant, PTL

----------------------------------------------------------------------------
(* Renders that run one after the other                                     *)

\* The trail of the render around activation i of task t.
Outer(t, i) == IF i = 1 THEN <<>> ELSE stack[t][i - 1].trail

\* The association stack is the trail of the innermost render, every trail
\* extends the one around it by what its render pushed, and every render runs
\* in the association its trail ends with.
NestInv(t) ==
    /\ associations = Trail(t)
    /\ \A i \in DOMAIN stack[t] :
          LET a == stack[t][i] IN
          /\ a.trail = IF a.pushed THEN Append(Outer(t, i), a.obj) ELSE Outer(t, i)
          /\ a.obj = Own(a.trail)

LEMMA AppendFacts ==
    ASSUME NEW q \in Seq(Ids), NEW o \in Ids
    PROVE  /\ Append(q, o) \in Seq(Ids)
           /\ Own(Append(q, o)) = o
           /\ DropLast(Append(q, o)) = q
<1>1. /\ Append(q, o) \in Seq(Ids) /\ Append(q, o) # <<>>
      /\ Len(Append(q, o)) = Len(q) + 1
      /\ Append(q, o)[Len(q) + 1] = o
      /\ \A i \in 1 .. Len(q) : Append(q, o)[i] = q[i]
  OBVIOUS
<1>2. Own(Append(q, o)) = o
  BY <1>1 DEF Own, Last
<1>3. DropLast(Append(q, o)) = q
  BY <1>1 DEF DropLast
<1>4. QED
  BY <1>1, <1>2, <1>3

LEMMA EmptyStack ==
    ASSUME NEW q \in Seq(Activations), Len(q) = 0
    PROVE  q = <<>>
OBVIOUS

LEMMA OuterType ==
    ASSUME TypeOK, NEW t \in Tasks, NEW i \in DOMAIN stack[t]
    PROVE  Outer(t, i) \in Seq(Ids)
<1>1. stack[t] \in Seq(Activations)
  BY DEF TypeOK
<1>2. CASE i = 1
  BY <1>2 DEF Outer
<1>3. CASE i # 1
  <2>1. stack[t][i - 1] \in Activations
    BY <1>1, <1>3
  <2>2. QED
    BY <1>3, <2>1 DEF Outer, Activations
<1>4. QED
  BY <1>2, <1>3

LEMMA NestStep ==
    ASSUME NEW s, Tasks = {s}
    PROVE  TypeOK /\ NestInv(s) /\ [Next]_vars => NestInv(s)'
<1> SUFFICES ASSUME TypeOK, NestInv(s), [Next]_vars PROVE NestInv(s)'
  OBVIOUS
<1>0. /\ StackType /\ s \in Tasks
      /\ stack[s] \in Seq(Activations)
      /\ associations \in Seq(Ids)
  BY DEF TypeOK, StackType
<1>1. CASE Stays
  BY <1>1 DEF Stays, NestInv, Trail, Outer
<1>2. ASSUME NEW obj \in Ids, NEW pushed \in BOOLEAN, NEW trail \in Seq(Ids),
             Starts(s, obj, pushed, trail)
      PROVE  NestInv(s)'
  <2>0. PICK n \in Nat : n = Len(stack[s])
    BY <1>0
  <2> DEFINE a == Activation(obj, depth + 1, pushed, trail)
  <2>1. /\ a \in Activations /\ Push(s, a)
        /\ a.obj = obj /\ a.pushed = pushed /\ a.trail = trail
    BY <1>2, StartFields DEF Starts
  <2> HIDE DEF a
  <2>2. /\ n \in Nat
        /\ DOMAIN stack[s] = 1 .. n /\ DOMAIN stack'[s] = 1 .. n + 1
        /\ \A i \in 1 .. n : stack'[s][i] = stack[s][i]
        /\ stack'[s][n + 1] = a
        /\ stack'[s] = Append(stack[s], a)
    BY <1>0, <2>0, <2>1, PushEffect
  <2>3. stack'[s] # <<>> /\ Len(stack'[s]) = n + 1
    <3>1. stack'[s] \in Seq(Activations)
      BY <1>0, <2>1, <2>2
    <3>2. QED
      BY <2>2, <3>1
  <2>4. Trail(s)' = trail
    BY <2>1, <2>2, <2>3 DEF Trail, Last
  <2>5. \A i \in 1 .. n : Outer(s, i)' = Outer(s, i)
    BY <2>2 DEF Outer
  <2>6. Outer(s, n + 1)' = Trail(s)
    <3>1. CASE n = 0
      <4>1. stack[s] \in Seq(Activations) /\ Len(stack[s]) = 0
        BY <1>0, <2>0, <3>1
      <4>2. stack[s] = <<>>
        BY <4>1, EmptyStack
      <4>3. n + 1 = 1
        BY <3>1
      <4>4. QED
        BY <4>2, <4>3 DEF Outer, Trail
    <3>2. CASE n # 0
      <4>1. stack[s] # <<>> /\ n \in 1 .. n /\ n + 1 # 1 /\ (n + 1) - 1 = n
        BY <1>0, <2>0, <2>2, <3>2
      <4>2. QED
        BY <2>0, <2>2, <4>1 DEF Outer, Trail, Last
    <3>3. QED
      BY <3>1, <3>2
  <2>7. associations = Trail(s)
    BY DEF NestInv
  <2>8. associations' = trail
    BY <1>2, <2>7 DEF Starts
  <2>9. trail = IF pushed THEN Append(Trail(s), obj) ELSE Trail(s)
    BY <1>2 DEF Starts
  <2>10. obj = Own(trail)
    <3>1. CASE pushed
      BY <1>0, <2>7, <2>9, <3>1, AppendFacts
    <3>2. CASE ~pushed
      BY <1>2, <2>7, <2>9, <3>2 DEF Starts, Current, Own
    <3>3. QED
      BY <3>1, <3>2
  <2>11. ASSUME NEW i \in DOMAIN stack'[s]
         PROVE  LET b == stack'[s][i] IN
                /\ b.trail = IF b.pushed THEN Append(Outer(s, i)', b.obj)
                             ELSE Outer(s, i)'
                /\ b.obj = Own(b.trail)
    <3>1. CASE i = n + 1
      BY <2>1, <2>2, <2>6, <2>9, <2>10, <3>1
    <3>2. CASE i # n + 1
      <4>1. i \in 1 .. n
        BY <2>2, <3>2
      <4>2. QED
        BY <2>2, <2>5, <4>1 DEF NestInv
    <3>3. QED
      BY <3>1, <3>2
  <2>12. QED
    BY <2>4, <2>8, <2>11 DEF NestInv, Own, Last
<1>3. ASSUME NEW n \in Nat, Counts(s, n) PROVE NestInv(s)'
  <2>1. /\ Len(stack[s]) \in Nat \ {0}
        /\ DOMAIN stack[s] = 1 .. Len(stack[s])
        /\ DOMAIN stack'[s] = 1 .. Len(stack[s])
        /\ \A i \in DOMAIN stack[s] :
              /\ stack'[s][i].obj = stack[s][i].obj
              /\ stack'[s][i].pushed = stack[s][i].pushed
              /\ stack'[s][i].trail = stack[s][i].trail
        /\ StackType'
    BY <1>0, <1>3, SetFramesEffect DEF Counts
  <2>2. stack[s] # <<>> /\ stack'[s] # <<>> /\ Len(stack'[s]) = Len(stack[s])
    BY <1>0, <2>1 DEF StackType
  <2>3. Trail(s)' = Trail(s)
    BY <2>1, <2>2 DEF Trail, Last
  <2>4. \A i \in DOMAIN stack[s] : Outer(s, i)' = Outer(s, i)
    BY <2>1 DEF Outer
  <2>5. associations' = associations
    BY <1>3 DEF Counts
  <2>6. QED
    BY <2>1, <2>3, <2>4, <2>5 DEF NestInv, Own, Last
<1>4. CASE Unwind(s)
  <2>0. PICK n \in Nat : n = Len(stack[s])
    BY <1>0
  <2> DEFINE a == stack[s][n]
  <2>1. /\ StackType'
        /\ n \in Nat \ {0}
        /\ DOMAIN stack[s] = 1 .. n /\ DOMAIN stack'[s] = 1 .. n - 1
        /\ \A i \in 1 .. n - 1 : stack'[s][i] = stack[s][i]
    BY <1>0, <1>4, <2>0, DropEffect DEF Unwind, Drop
  <2>2. /\ stack[s] # <<>> /\ a = Last(stack[s]) /\ a \in Activations
        /\ Trail(s) = a.trail
    BY <1>0, <2>0, <2>1 DEF Trail, Last
  <2>3. /\ Len(stack'[s]) = n - 1
        /\ stack'[s] = <<>> <=> n = 1
    <3>1. stack'[s] \in Seq(Activations)
      BY <1>0, <2>1 DEF StackType
    <3>2. QED
      BY <2>1, <3>1
  <2>4. Trail(s)' = Outer(s, n)
    BY <2>1, <2>3 DEF Trail, Outer, Last
  <2>5. \A i \in 1 .. n - 1 : Outer(s, i)' = Outer(s, i)
    BY <2>1 DEF Outer
  <2>6. associations' = Outer(s, n)
    <3>0. /\ associations = a.trail
          /\ a.trail = IF a.pushed THEN Append(Outer(s, n), a.obj) ELSE Outer(s, n)
          /\ associations' = IF a.pushed THEN DropLast(associations) ELSE associations
          /\ a.pushed \in BOOLEAN /\ a.obj \in Ids
      BY <1>4, <2>1, <2>2 DEF NestInv, Unwind, Activations
    <3>1. Outer(s, n) \in Seq(Ids)
      BY <1>0, <2>1, OuterType
    <3>2. QED
      BY <3>0, <3>1, AppendFacts
  <2>7. QED
    BY <2>1, <2>4, <2>5, <2>6 DEF NestInv, Own, Last
<1>5. QED
  BY <1>1, <1>2, <1>3, <1>4, StepWays

\* While nested renders run one after the other, each runs in the association
\* that encloses it on the call stack, and so would the next one (context.py
\* render_source: "in the current association").
THEOREM SequentialNesting ==
    ASSUME NEW s, Tasks = {s}
    PROVE  Spec => []InOwnAssociation
<1>1. Init => NestInv(s)
  BY DEF Init, NestInv, Trail
<1>2. TypeOK /\ NestInv(s) /\ [Next]_vars => NestInv(s)'
  BY NestStep
<1>3. NestInv(s) => InOwnAssociation
  BY DEF NestInv, InOwnAssociation, Current, Own
<1>4. QED
  BY <1>1, <1>2, <1>3, TypeCorrect, PTL DEF Spec

----------------------------------------------------------------------------
(* The session implements lexical nesting                                   *)

\* A task's nested renders as the abstract specification sees them.
Shown(i, t) == [path |-> heap[stack[t][i].obj], frames |-> stack[t][i].frames]
View(t)     == [i \in DOMAIN stack[t] |-> Shown(i, t)]
Renders     == [path : Seq(Sources), frames : Nat]

\* The rendered template is made of no dynamic source.
BaseIsPlain == heap[Base] = <<>>

LEMMA SameSequence ==
    ASSUME NEW S, NEW p \in Seq(S), NEW q \in Seq(S), Len(p) = Len(q),
           \A i \in 1 .. Len(p) : p[i] = q[i]
    PROVE  p = q
OBVIOUS

LEMMA ViewType ==
    ASSUME TypeOK, NEW t \in Tasks
    PROVE  /\ View(t) \in Seq(Renders)
           /\ Len(View(t)) = Len(stack[t]) /\ Len(stack[t]) \in Nat
           /\ DOMAIN stack[t] = 1 .. Len(stack[t])
           /\ \A i \in 1 .. Len(stack[t]) :
                 View(t)[i] = Shown(i, t) /\ stack[t][i] \in Activations
           /\ stack[t] = <<>> <=> View(t) = <<>>
<1>1. stack[t] \in Seq(Activations)
  BY DEF TypeOK
<1>2. /\ Len(stack[t]) \in Nat /\ DOMAIN stack[t] = 1 .. Len(stack[t])
      /\ \A i \in 1 .. Len(stack[t]) : stack[t][i] \in Activations
  BY <1>1
<1>3. \A i \in 1 .. Len(stack[t]) : Shown(i, t) \in Renders
  BY <1>2 DEF Shown, Renders, Activations, TypeOK
<1>4. View(t) = [i \in 1 .. Len(stack[t]) |-> Shown(i, t)]
  BY <1>2 DEF View
<1>5. View(t) \in Seq(Renders) /\ Len(View(t)) = Len(stack[t])
  BY <1>2, <1>3, <1>4
<1>6. stack[t] = <<>> <=> View(t) = <<>>
  BY <1>1, <1>5, EmptyStack
<1>7. QED
  BY <1>2, <1>4, <1>5, <1>6

\* What a task shows when a render starts in it ...
LEMMA ViewPushed ==
    ASSUME TypeOK, TypeOK', NEW t \in Tasks, NEW a \in Activations, Push(t, a),
           \A i \in DOMAIN stack[t] : heap'[stack[t][i].obj] = heap[stack[t][i].obj]
    PROVE  View(t)' = Append(View(t), [path |-> heap'[a.obj], frames |-> a.frames])
<1>0. PICK n \in Nat : n = Len(stack[t])
  BY ViewType
<1> DEFINE e == [path |-> heap'[a.obj], frames |-> a.frames]
<1>1. /\ View(t) \in Seq(Renders) /\ Len(View(t)) = n /\ n \in Nat
      /\ DOMAIN stack[t] = 1 .. n
      /\ \A i \in 1 .. n : View(t)[i] = Shown(i, t)
  BY <1>0, ViewType
<1>2. /\ stack' \in [Tasks -> Seq(Activations)] /\ DOMAIN stack'[t] = 1 .. n + 1
      /\ \A i \in 1 .. n : stack'[t][i] = stack[t][i]
      /\ stack'[t][n + 1] = a
  BY <1>0, PushEffect DEF TypeOK, StackType
<1>3. e \in Renders
  BY DEF TypeOK, Activations, Renders
<1>4. /\ Append(View(t), e) \in Seq(Renders) /\ Len(Append(View(t), e)) = n + 1
      /\ \A i \in 1 .. n : Append(View(t), e)[i] = Shown(i, t)
      /\ Append(View(t), e)[n + 1] = e
  BY <1>1, <1>3
<1>5. View(t)' = [i \in 1 .. n + 1 |-> Shown(i, t)']
  BY <1>2 DEF View
<1>6. \A i \in 1 .. n : Shown(i, t)' = Shown(i, t)
  BY <1>1, <1>2 DEF Shown
<1>7. Shown(n + 1, t)' = e
  BY <1>2 DEF Shown
<1> HIDE DEF e
<1>8. /\ View(t)' \in Seq(Renders) /\ Len(View(t)') = n + 1
  <2>1. \A i \in 1 .. n + 1 : Shown(i, t)' \in Renders
    <3> TAKE i \in 1 .. n + 1
    <3>1. CASE i = n + 1
      BY <1>3, <1>7, <3>1
    <3>2. CASE i # n + 1
      <4>1. i \in 1 .. n
        BY <1>1, <3>2
      <4>2. View(t)[i] \in Renders
        BY <1>1, <4>1
      <4>3. QED
        BY <1>1, <1>6, <4>1, <4>2
    <3>3. QED
      BY <3>1, <3>2
  <2>2. QED
    BY <1>1, <1>5, <2>1
<1>9. \A i \in 1 .. n + 1 : View(t)'[i] = Append(View(t), e)[i]
  BY <1>1, <1>4, <1>5, <1>6, <1>7
<1>10. QED
  BY <1>4, <1>8, <1>9, SameSequence DEF e

\* ... when the innermost one calls a template or returns from it ...
LEMMA ViewCounted ==
    ASSUME TypeOK, TypeOK', NEW t \in Tasks, NEW n \in Nat, stack[t] # <<>>,
           SetFrames(t, n), heap' = heap
    PROVE  View(t)' = [View(t) EXCEPT ![Len(View(t))] = [View(t)[Len(View(t))] EXCEPT !.frames = n]]
<1>0. PICK k \in Nat : k = Len(stack[t])
  BY ViewType
<1>1. /\ View(t) \in Seq(Renders) /\ Len(View(t)) = k
      /\ \A i \in 1 .. k : View(t)[i] = Shown(i, t)
  BY <1>0, ViewType
<1>2. StackType
  BY DEF TypeOK, StackType
<1>3. /\ k \in Nat \ {0} /\ DOMAIN stack[t] = 1 .. k /\ DOMAIN stack'[t] = 1 .. k
      /\ \A i \in 1 .. k :
            /\ i # k => stack'[t][i] = stack[t][i]
            /\ stack'[t][i].obj = stack[t][i].obj
      /\ stack'[t][k].frames = n
  BY <1>0, <1>2, SetFramesEffect
<1>4. View(t)' = [i \in 1 .. k |-> Shown(i, t)']
  BY <1>3 DEF View
<1>5. View(t) = [i \in 1 .. k |-> Shown(i, t)]
  BY <1>3 DEF View
<1>6. \A i \in 1 .. k : i # k => Shown(i, t)' = Shown(i, t)
  BY <1>3 DEF Shown
<1>7. Shown(k, t)' = [Shown(k, t) EXCEPT !.frames = n]
  BY <1>3 DEF Shown
<1>8. View(t)[k] = Shown(k, t)
  BY <1>1, <1>3
<1> DEFINE e == [Shown(k, t) EXCEPT !.frames = n]
           v == View(t)
           w == View(t)'
<1>9. [v EXCEPT ![k] = e] = [i \in 1 .. k |-> IF i = k THEN e ELSE Shown(i, t)]
  BY <1>5
<1> HIDE DEF e
<1>10. w = [i \in 1 .. k |-> IF i = k THEN e ELSE Shown(i, t)]
  BY <1>4, <1>6, <1>7 DEF e
<1> HIDE DEF v, w
<1>11. w = [v EXCEPT ![k] = e]
  BY <1>9, <1>10
<1>12. QED
  BY <1>1, <1>8, <1>11 DEF e, v, w

\* ... and when it ends.
LEMMA ViewDropped ==
    ASSUME TypeOK, TypeOK', NEW t \in Tasks, stack[t] # <<>>, Drop(t), heap' = heap
    PROVE  View(t)' = SubSeq(View(t), 1, Len(View(t)) - 1)
<1>0. PICK k \in Nat : k = Len(stack[t])
  BY ViewType
<1>1. /\ View(t) \in Seq(Renders) /\ Len(View(t)) = k
      /\ \A i \in 1 .. k : View(t)[i] = Shown(i, t)
  BY <1>0, ViewType
<1>2. StackType
  BY DEF TypeOK, StackType
<1>3. /\ k \in Nat \ {0} /\ DOMAIN stack'[t] = 1 .. k - 1
      /\ \A i \in 1 .. k - 1 : stack'[t][i] = stack[t][i]
  BY <1>0, <1>2, DropEffect
<1>4. View(t)' = [i \in 1 .. k - 1 |-> Shown(i, t)']
  BY <1>3 DEF View
<1>5. \A i \in 1 .. k - 1 : Shown(i, t)' = View(t)[i]
  BY <1>1, <1>3 DEF Shown
<1>6. /\ SubSeq(View(t), 1, k - 1) \in Seq(Renders)
      /\ Len(SubSeq(View(t), 1, k - 1)) = k - 1
      /\ \A i \in 1 .. k - 1 : SubSeq(View(t), 1, k - 1)[i] = View(t)[i]
  BY <1>1, <1>3
<1>7. View(t)' \in Seq(Renders) /\ Len(View(t)') = k - 1
  <2>1. \A i \in 1 .. k - 1 : View(t)[i] \in Renders
    BY <1>1, <1>3
  <2>2. QED
    <3>1. View(t)' = [i \in 1 .. k - 1 |-> View(t)[i]]
      BY <1>4, <1>5
    <3>2. k - 1 \in Nat
      BY <1>3
    <3>3. [i \in 1 .. k - 1 |-> View(t)[i]] \in Seq(Renders)
      BY <2>1, <3>2
    <3>4. Len([i \in 1 .. k - 1 |-> View(t)[i]]) = k - 1
      BY <3>2
    <3>5. QED
      BY <3>1, <3>3, <3>4
<1>8. QED
  BY <1>1, <1>4, <1>5, <1>6, <1>7, SameSequence

\* No step touches the sources of an association some render runs in, nor those
\* of the rendered template: a new one takes an identity nothing refers to.
LEMMA PathsKept ==
    ASSUME TypeOK, [Next]_vars
    PROVE  /\ \A t \in Tasks : \A i \in DOMAIN stack[t] :
                 heap'[stack[t][i].obj] = heap[stack[t][i].obj]
           /\ heap'[Base] = heap[Base]
<1>1. CASE heap' = heap
  BY <1>1
<1>2. ASSUME NEW u \in Tasks, NEW c \in Sources, RenderFresh(u, c)
      PROVE  /\ \A t \in Tasks : \A i \in DOMAIN stack[t] :
                   heap'[stack[t][i].obj] = heap[stack[t][i].obj]
             /\ heap'[Base] = heap[Base]
  <2>1. PICK obj \in Ids \ Reachable :
            heap' = [heap EXCEPT ![obj] = Append(heap[Current], c)]
    BY <1>2 DEF RenderFresh
  <2>2. \A o \in Ids : o # obj => heap'[o] = heap[o]
    BY <2>1 DEF TypeOK
  <2>3. Base # obj
    BY <2>1 DEF Reachable
  <2>4. ASSUME NEW t \in Tasks, NEW i \in DOMAIN stack[t]
        PROVE  stack[t][i].obj # obj /\ stack[t][i].obj \in Ids
    <3>1. stack[t][i].obj \in Reachable
      BY DEF Reachable
    <3>2. stack[t][i] \in Activations
      BY ViewType
    <3>3. QED
      BY <2>1, <3>1, <3>2 DEF Activations
  <2>5. QED
    BY <2>2, <2>3, <2>4
<1>3. \/ heap' = heap
      \/ \E u \in Tasks, c \in Sources : RenderFresh(u, c)
  BY DEF Next, Step, vars, RenderTemplate, RenderCached, CallTemplate, ReturnTemplate,
         Finish, Abort, Unwind
<1>4. QED
  BY <1>1, <1>2, <1>3

\* The variable of the abstract specification.
Nest == [t \in Tasks |-> View(t)]

LEMMA NestIs ==
    /\ Nest = [t \in Tasks |-> [i \in DOMAIN stack[t] |->
                  [path |-> heap[stack[t][i].obj], frames |-> stack[t][i].frames]]]
    /\ \A t \in Tasks : Nest[t] = View(t)
BY DEF Nest, View, Shown

\* With a single task, a step that changes what it shows changes Nest so.
LEMMA NestChanges ==
    ASSUME NEW s, Tasks = {s}
    PROVE  Nest' = [Nest EXCEPT ![s] = View(s)']
BY DEF Nest

\* The association the next render belongs to is the one around it.
LEMMA CurrentIsShown ==
    ASSUME NEW s, Tasks = {s}, TypeOK, NestInv(s), BaseIsPlain
    PROVE  heap[Current] = Nesting!Association(s)
<1>1. /\ Len(View(s)) = Len(stack[s]) /\ Len(stack[s]) \in Nat
      /\ DOMAIN stack[s] = 1 .. Len(stack[s])
      /\ \A i \in 1 .. Len(stack[s]) : View(s)[i] = Shown(i, s)
      /\ stack[s] = <<>> <=> View(s) = <<>>
      /\ stack[s] \in Seq(Activations)
  BY ViewType DEF TypeOK
<1>2. Nesting!Association(s) = IF View(s) = <<>> THEN <<>> ELSE View(s)[Len(View(s))].path
  BY NestIs DEF Nesting!Association, Nesting!Innermost, Nest, View, Shown
<1>3. Current = Own(Trail(s))
  BY DEF NestInv, Current, Own
<1>4. CASE stack[s] = <<>>
  BY <1>1, <1>2, <1>3, <1>4 DEF Trail, Own, BaseIsPlain
<1>5. CASE stack[s] # <<>>
  <2>1. Len(stack[s]) \in 1 .. Len(stack[s])
    BY <1>1, <1>5
  <2>2. stack[s][Len(stack[s])].obj = Own(stack[s][Len(stack[s])].trail)
    BY <1>1, <2>1 DEF NestInv
  <2>3. Current = stack[s][Len(stack[s])].obj
    BY <1>3, <1>5, <2>2 DEF Trail, Last
  <2>4. View(s)[Len(View(s))].path = heap[stack[s][Len(stack[s])].obj]
    <3>1. View(s)[Len(View(s))] = Shown(Len(stack[s]), s)
      BY <1>1, <2>1
    <3>2. QED
      BY <3>1 DEF Shown
  <2>5. QED
    BY <1>1, <1>2, <1>5, <2>3, <2>4
<1>6. QED
  BY <1>4, <1>5

\* A render that starts enters what its association is made of.
LEMMA StartEnters ==
    ASSUME NEW s, Tasks = {s}, TypeOK, TypeOK', [Next]_vars,
           NEW obj \in Ids, NEW pushed \in BOOLEAN, NEW trail \in Seq(Ids),
           Push(s, Activation(obj, depth + 1, pushed, trail))
    PROVE  Nest' = [Nest EXCEPT ![s] = Append(Nest[s], [path |-> heap'[obj], frames |-> 0])]
<1> DEFINE a == Activation(obj, depth + 1, pushed, trail)
<1>1. a \in Activations /\ a.obj = obj /\ a.frames = 0
  BY StartFields
<1>2. Push(s, a)
  OBVIOUS
<1> HIDE DEF a
<1>3. \A i \in DOMAIN stack[s] : heap'[stack[s][i].obj] = heap[stack[s][i].obj]
  BY PathsKept
<1>4. View(s)' = Append(View(s), [path |-> heap'[obj], frames |-> 0])
  BY <1>1, <1>2, <1>3, ViewPushed
<1>5. QED
  BY <1>4, NestChanges, NestIs

LEMMA NestStays ==
    ASSUME TypeOK, [Next]_vars, stack' = stack
    PROVE  Nest' = Nest
<1>1. \A t \in Tasks : View(t)' = View(t)
  BY PathsKept DEF View, Shown
<1>2. QED
  BY <1>1 DEF Nest

LEMMA NestingStep ==
    ASSUME NEW s, Tasks = {s}, TypeOK, TypeOK', CacheInv, NestInv(s), BaseIsPlain, [Next]_vars
    PROVE  Nesting!AbstractNext \/ Nest' = Nest
<1>0. s \in Tasks /\ heap[Current] = Nesting!Association(s)
  BY CurrentIsShown
<1>1. CASE UNCHANGED vars
  BY <1>1, NestStays DEF vars
<1>2. CASE RenderTemplate(s)
  <2>1. CASE NestedAllowed
    <3>1. Push(s, Activation(Current, depth + 1, FALSE, Trail(s))) /\ heap' = heap
      BY <1>2, <2>1 DEF RenderTemplate
    <3>2. Current \in Ids /\ Trail(s) \in Seq(Ids)
      BY HelperTypes
    <3>3. Nest' = [Nest EXCEPT ![s] = Append(Nest[s], [path |-> heap'[Current], frames |-> 0])]
      BY <3>1, <3>2, StartEnters
    <3>4. Nest' = [Nest EXCEPT ![s] =
                      Append(Nest[s], [path |-> Nesting!Association(s), frames |-> 0])]
      BY <1>0, <3>1, <3>3
    <3>5. Nesting!EnterTemplate(s)
      BY <3>4 DEF Nesting!EnterTemplate, Nesting!Enter, Nest, View, Shown
    <3>6. QED
      BY <1>0, <3>5 DEF Nesting!AbstractNext
  <2>2. CASE ~NestedAllowed
    BY <1>2, <2>2, NestStays DEF RenderTemplate
  <2>3. QED
    BY <2>1, <2>2
<1>3. ASSUME NEW c \in Sources, NEW obj \in Ids, RunDerived(s, obj),
             heap'[obj] = Append(heap[Current], c)
      PROVE  Nesting!AbstractNext \/ Nest' = Nest
  <2>1. CASE NestedAllowed
    <3>1. Push(s, Activation(obj, depth + 1, TRUE, Append(Trail(s), obj)))
      BY <1>3, <2>1 DEF RunDerived
    <3>2. Append(Trail(s), obj) \in Seq(Ids)
      BY HelperTypes
    <3>3. Nest' = [Nest EXCEPT ![s] = Append(Nest[s], [path |-> heap'[obj], frames |-> 0])]
      BY <3>1, <3>2, StartEnters
    <3>4. Nest' = [Nest EXCEPT ![s] =
                      Append(Nest[s], [path |-> Append(Nesting!Association(s), c), frames |-> 0])]
      BY <1>0, <1>3, <3>3
    <3>5. Nesting!EnterSource(s, c)
      BY <3>4 DEF Nesting!EnterSource, Nesting!Enter, Nest, View, Shown
    <3>6. QED
      BY <1>0, <3>5 DEF Nesting!AbstractNext
  <2>2. CASE ~NestedAllowed
    BY <1>3, <2>2, NestStays DEF RunDerived
  <2>3. QED
    BY <2>1, <2>2
<1>4. ASSUME NEW c \in Sources, RenderCached(s, c)
      PROVE  Nesting!AbstractNext \/ Nest' = Nest
  <2> DEFINE key == <<Current, c>>
  <2>1. key \in DOMAIN cache /\ RunDerived(s, cache[key]) /\ heap' = heap
    BY <1>4 DEF RenderCached
  <2>2. heap[cache[key]] = Append(heap[Current], c) /\ cache[key] \in Ids
    BY <2>1 DEF CacheInv, CacheCoherent, TypeOK
  <2>3. QED
    BY <1>3, <2>1, <2>2
<1>5. ASSUME NEW c \in Sources, RenderFresh(s, c)
      PROVE  Nesting!AbstractNext \/ Nest' = Nest
  <2>1. PICK obj \in Ids : RunDerived(s, obj) /\ heap' = [heap EXCEPT ![obj] = Append(heap[Current], c)]
    BY <1>5 DEF RenderFresh
  <2>2. heap'[obj] = Append(heap[Current], c)
    BY <2>1 DEF TypeOK
  <2>3. QED
    BY <1>3, <2>1, <2>2
<1>6. ASSUME NEW n \in Nat, SetFrames(s, n), stack[s] # <<>>, heap' = heap
      PROVE  Nesting!SetFrames(s, n)
  <2>1. View(s)' = [View(s) EXCEPT ![Len(View(s))] = [View(s)[Len(View(s))] EXCEPT !.frames = n]]
    BY <1>6, ViewCounted
  <2>2. Nest[s] # <<>> /\ Nest[s] = View(s)
    BY <1>0, <1>6, ViewType, NestIs
  <2>3. Nest' = [Nest EXCEPT ![s] =
                    [Nest[s] EXCEPT ![Len(Nest[s])] = [Nest[s][Len(Nest[s])] EXCEPT !.frames = n]]]
    BY <2>1, <2>2, NestChanges
  <2>4. QED
    BY <1>6, <2>2, <2>3 DEF Nesting!SetFrames, Nest, View, Shown
<1>7. ASSUME stack[s] # <<>>
      PROVE  /\ Nest[s] # <<>> /\ Last(stack[s]) \in Activations
             /\ Nesting!Innermost(s).frames = Last(stack[s]).frames
  <2>1. /\ Len(View(s)) = Len(stack[s]) /\ Len(stack[s]) \in 1 .. Len(stack[s])
        /\ \A i \in 1 .. Len(stack[s]) : View(s)[i] = Shown(i, s)
        /\ View(s) # <<>> /\ Nest[s] = View(s)
    <3>1. stack[s] \in Seq(Activations)
      BY <1>0 DEF TypeOK
    <3>2. Len(stack[s]) \in 1 .. Len(stack[s])
      BY <1>7, <3>1
    <3>3. QED
      BY <1>0, <1>7, <3>2, ViewType, NestIs
  <2>2. View(s)[Len(View(s))].frames = Last(stack[s]).frames
    <3>1. View(s)[Len(View(s))] = Shown(Len(stack[s]), s)
      BY <2>1
    <3>2. QED
      BY <3>1 DEF Shown, Last
  <2>3. Nesting!Innermost(s) = Nest[s][Len(Nest[s])]
    BY DEF Nesting!Innermost, Nest, View, Shown
  <2>4. QED
    BY <1>0, <1>7, <2>1, <2>2, <2>3, HelperTypes
<1>8. CASE CallTemplate(s)
  <2>1. /\ stack[s] # <<>> /\ SetFrames(s, Last(stack[s]).frames + 1) /\ heap' = heap
    BY <1>8 DEF CallTemplate, SetFrames
  <2>2. Last(stack[s]).frames + 1 \in Nat
    BY <1>7, <2>1 DEF Activations
  <2>3. Nesting!SetFrames(s, Last(stack[s]).frames + 1)
    <3>1. PICK n \in Nat : n = Last(stack[s]).frames + 1
      BY <2>2
    <3>2. Nesting!SetFrames(s, n)
      BY <1>6, <2>1, <3>1
    <3>3. QED
      BY <3>1, <3>2 DEF Nesting!SetFrames
  <2>4. Nesting!SetFrames(s, Nesting!Innermost(s).frames + 1)
    <3>1. Nesting!Innermost(s).frames + 1 = Last(stack[s]).frames + 1
      BY <1>7, <2>1
    <3>2. QED
      BY <2>3, <3>1 DEF Nesting!SetFrames
  <2>5. Nesting!AbstractNext
    <3>1. Nest[s] # <<>>
      BY <1>7, <2>1
    <3>2. QED
      BY <1>0, <2>4, <3>1 DEF Nesting!AbstractNext, Nesting!SetFrames, Nest, View, Shown
  <2>6. QED
    BY <2>5
<1>9. CASE ReturnTemplate(s)
  <2>1. /\ stack[s] # <<>> /\ Last(stack[s]).frames > 0
        /\ SetFrames(s, Last(stack[s]).frames - 1) /\ heap' = heap
    BY <1>9 DEF ReturnTemplate, SetFrames
  <2>2. Last(stack[s]).frames - 1 \in Nat
    BY <1>7, <2>1 DEF Activations
  <2>3. Nesting!SetFrames(s, Last(stack[s]).frames - 1)
    <3>1. PICK n \in Nat : n = Last(stack[s]).frames - 1
      BY <2>2
    <3>2. Nesting!SetFrames(s, n)
      BY <1>6, <2>1, <3>1
    <3>3. QED
      BY <3>1, <3>2 DEF Nesting!SetFrames
  <2>4. Nesting!SetFrames(s, Nesting!Innermost(s).frames - 1)
    <3>1. Nesting!Innermost(s).frames - 1 = Last(stack[s]).frames - 1
      BY <1>7, <2>1
    <3>2. QED
      BY <2>3, <3>1 DEF Nesting!SetFrames
  <2>5. Nesting!AbstractNext
    <3>1. Nest[s] # <<>>
      BY <1>7, <2>1
    <3>2. QED
      BY <1>0, <2>4, <3>1 DEF Nesting!AbstractNext, Nesting!SetFrames, Nest, View, Shown
  <2>6. QED
    BY <2>5
<1>10. CASE Unwind(s)
  <2>1. stack[s] # <<>> /\ Drop(s) /\ heap' = heap
    BY <1>10 DEF Unwind, Drop
  <2>2. View(s)' = SubSeq(View(s), 1, Len(View(s)) - 1)
    BY <2>1, ViewDropped
  <2>3. Nest' = [Nest EXCEPT ![s] = SubSeq(Nest[s], 1, Len(Nest[s]) - 1)] /\ Nest[s] # <<>>
    <3>1. Nest[s] = View(s) /\ Nest' = [Nest EXCEPT ![s] = View(s)']
      BY <1>0, NestChanges, NestIs
    <3>2. QED
      BY <1>7, <2>1, <2>2, <3>1
  <2>4. Nesting!Leave(s)
    BY <2>3 DEF Nesting!Leave, Nest, View, Shown
  <2>5. QED
    BY <1>0, <2>4 DEF Nesting!AbstractNext
<1>11. QED
  BY <1>1, <1>2, <1>4, <1>5, <1>8, <1>9, <1>10 DEF Next, Step, Finish, Abort

\* The abstract specification is implemented while renders run one after the
\* other: neither the shared association stack nor the cache with its reusable
\* identities can be told from lexical nesting (template.py
\* _render_source_in_session, context.py render_source).
THEOREM NestingIsImplemented ==
    ASSUME NEW s, Tasks = {s}
    PROVE  Spec => ImplementsNesting
<1>1. Init => Nesting!AbstractInit
  BY DEF Init, Nesting!AbstractInit
<1>2. Init => NestInv(s) /\ BaseIsPlain
  BY DEF Init, NestInv, Trail, BaseIsPlain
<1>3. TypeOK /\ NestInv(s) /\ [Next]_vars => NestInv(s)'
  BY NestStep
<1>4. TypeOK /\ BaseIsPlain /\ [Next]_vars => BaseIsPlain'
  BY PathsKept DEF BaseIsPlain
<1>5. TypeOK /\ TypeOK' /\ CacheInv /\ NestInv(s) /\ BaseIsPlain /\ [Next]_vars
        => Nesting!AbstractNext \/ Nest' = Nest
  BY NestingStep
<1>6. Nesting!AbstractNext \/ Nest' = Nest => [Nesting!AbstractNext]_Nest
  OBVIOUS
<1>7. QED
  BY <1>1, <1>2, <1>3, <1>4, <1>5, <1>6, TypeCorrect, CacheInvariant, PTL
     DEF Spec, ImplementsNesting, Nesting!AbstractSpec, Nest, View, Shown
=============================================================================
