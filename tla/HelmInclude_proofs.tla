------------------------- MODULE HelmInclude_proofs -------------------------
(***************************************************************************)
(* Theorems about include and tpl, for any set of templates, any number of *)
(* concurrent branches and any limits: a Helm render is a render session,  *)
(* and its counters are exactly the includes still running.                *)
(*                                                                         *)
(* A step starts a nested render and marks it, ends one and releases its   *)
(* mark, or does neither; so the marks of a task follow its stack.         *)
(***************************************************************************)
EXTENDS HelmInclude, RenderSession_proofs

Marks == Templates \cup {NotIncluded}

(* The marks follow the nested renders, and only counted includes run.     *)
MarksFollow ==
    /\ marks \in [Tasks -> Seq(Marks)]
    /\ \A t \in Tasks : Len(marks[t]) = Len(stack[t])

CountsExact ==
    /\ included \in [Templates -> Nat]
    /\ \A n \in Templates :
          /\ IsFiniteSet(Including(n))
          /\ included[n] = Cardinality(Including(n))
          /\ included[n] <= RecursionLimit + 1

HelmInv == MarksFollow /\ CountsExact

----------------------------------------------------------------------------
(* The session below is the one of RenderSession                            *)

LEMMA HelmStepIsStep == [HelmNext]_helmVars => [Next]_vars
<1> SUFFICES ASSUME [HelmNext]_helmVars PROVE [Next]_vars
  OBVIOUS
<1>1. CASE UNCHANGED helmVars
  BY <1>1 DEF helmVars
<1>2. ASSUME NEW t \in Tasks, NEW n \in Templates, Include(t, n) PROVE Step(t)
  BY <1>2 DEF Include, Step
<1>3. ASSUME NEW t \in Tasks, NEW s \in Sources, Tpl(t, s) PROVE Step(t)
  BY <1>3 DEF Tpl, Step
<1>4. ASSUME NEW t \in Tasks, CallTemplate(t) \/ ReturnTemplate(t) \/ Finish(t) \/ Abort(t)
      PROVE  Step(t)
  BY <1>4 DEF Step
<1> QED
  BY <1>1, <1>2, <1>3, <1>4 DEF HelmNext, Next

\* A render with Helm's functions is a render session, so whatever holds of the
\* session's steps holds while templates include and tpl one another.
THEOREM HelmIsSession == HelmSpec => Spec
<1>1. HelmInit => Init
  BY DEF HelmInit
<1> QED
  BY <1>1, HelmStepIsStep, PTL DEF HelmSpec, Spec

----------------------------------------------------------------------------
(* The three kinds of steps                                                 *)

Unmarked ==
    /\ \A t \in Tasks : Len(stack'[t]) = Len(stack[t])
    /\ UNCHANGED <<marks, included>>

Marked(t, n) ==
    /\ Len(stack'[t]) = Len(stack[t]) + 1
    /\ \A u \in Tasks : u # t => stack'[u] = stack[u]
    /\ Mark(t, n)
    /\ \/ n = NotIncluded /\ included' = included
       \/ n \in Templates /\ MayInclude(n) /\ included' = [included EXCEPT ![n] = @ + 1]

Unmarking(t) ==
    /\ stack[t] # <<>>
    /\ Len(stack'[t]) = Len(stack[t]) - 1
    /\ \A u \in Tasks : u # t => stack'[u] = stack[u]
    /\ Release(t)

\* A nested render starts, or the session refuses it.
LEMMA StartedOrRefused ==
    ASSUME TypeOK, NEW t \in Tasks,
           RenderTemplate(t) \/ \E s \in Sources : RenderCached(t, s) \/ RenderFresh(t, s)
    PROVE  \/ stack' = stack /\ ~Entered(t)
           \/ /\ Entered(t)
              /\ Len(stack'[t]) = Len(stack[t]) + 1
              /\ \A u \in Tasks : u # t => stack'[u] = stack[u]
<1>1. StackType /\ stack[t] \in Seq(Activations) /\ Len(stack[t]) \in Nat
  BY DEF TypeOK, StackType
<1>2. CASE stack' = stack
  BY <1>1, <1>2 DEF Entered
<1>3. ASSUME NEW a \in Activations, Push(t, a)
      PROVE  /\ Entered(t)
             /\ Len(stack'[t]) = Len(stack[t]) + 1
             /\ \A u \in Tasks : u # t => stack'[u] = stack[u]
  <2>1. stack'[t] = Append(stack[t], a) /\ \A u \in Tasks : u # t => stack'[u] = stack[u]
    BY <1>1, <1>3, PushEffect
  <2> QED
    BY <1>1, <2>1 DEF Entered
<1>4. CASE RenderTemplate(t)
  <2>1. Activation(Current, depth + 1, FALSE, Trail(t)) \in Activations
    BY HelperTypes, ActivationType
  <2> QED
    BY <1>2, <1>3, <1>4, <2>1 DEF RenderTemplate
<1>5. ASSUME NEW obj \in Ids, RunDerived(t, obj)
      PROVE  stack' = stack \/ \E a \in Activations : Push(t, a)
  <2>1. Append(Trail(t), obj) \in Seq(Ids)
    BY HelperTypes
  <2>2. Activation(obj, depth + 1, TRUE, Append(Trail(t), obj)) \in Activations
    BY <2>1, ActivationType
  <2> QED
    BY <1>5, <2>2 DEF RunDerived
<1>6. ASSUME NEW s \in Sources, RenderCached(t, s) \/ RenderFresh(t, s)
      PROVE  \E obj \in Ids : RunDerived(t, obj)
  <2>1. CASE RenderCached(t, s)
    <3>1. cache[<<Current, s>>] \in Ids
      BY <2>1 DEF RenderCached, TypeOK
    <3> QED
      BY <2>1, <3>1 DEF RenderCached
  <2>2. CASE RenderFresh(t, s)
    BY <2>2 DEF RenderFresh
  <2> QED
    BY <1>6, <2>1, <2>2
<1> QED
  BY <1>2, <1>3, <1>4, <1>5, <1>6

LEMMA HelmWays ==
    ASSUME TypeOK, [HelmNext]_helmVars
    PROVE  \/ Unmarked
           \/ \E t \in Tasks, n \in Marks : Marked(t, n)
           \/ \E t \in Tasks : Unmarking(t)
<1>0. StackType /\ \A t \in Tasks : stack[t] \in Seq(Activations)
  BY DEF TypeOK, StackType
<1>1. CASE UNCHANGED helmVars
  BY <1>1 DEF helmVars, vars, Unmarked
<1>2. ASSUME NEW t \in Tasks, NEW n \in Templates, Include(t, n)
      PROVE  Unmarked \/ Marked(t, n)
  <2>1. RenderTemplate(t)
    BY <1>2 DEF Include
  <2> QED
    BY <1>2, <2>1, StartedOrRefused DEF Include, Unmarked, Marked
<1>3. ASSUME NEW t \in Tasks, NEW s \in Sources, Tpl(t, s)
      PROVE  Unmarked \/ Marked(t, NotIncluded)
  <2>1. RenderCached(t, s) \/ RenderFresh(t, s)
    BY <1>3 DEF Tpl
  <2> QED
    BY <1>3, <2>1, StartedOrRefused DEF Tpl, Unmarked, Marked
<1>4. ASSUME NEW t \in Tasks, CallTemplate(t) \/ ReturnTemplate(t), UNCHANGED <<included, marks>>
      PROVE  Unmarked
  <2>1. stack[t] # <<>>
    BY <1>4 DEF CallTemplate, ReturnTemplate
  <2>2. Last(stack[t]) \in Activations
    BY <2>1, HelperTypes
  <2>3. PICK n \in Nat : SetFrames(t, n)
    <3>1. Last(stack[t]).frames \in Nat
      BY <2>2 DEF Activations
    <3>2. CASE CallTemplate(t)
      <4>1. SetFrames(t, Last(stack[t]).frames + 1)
        BY <3>2 DEF CallTemplate, SetFrames
      <4> QED
        BY <3>1, <4>1
    <3>3. CASE ReturnTemplate(t)
      <4>1. SetFrames(t, Last(stack[t]).frames - 1) /\ Last(stack[t]).frames > 0
        BY <3>3 DEF ReturnTemplate, SetFrames
      <4> QED
        BY <3>1, <4>1
    <3> QED
      BY <1>4, <3>2, <3>3
  <2>4. /\ StackType' /\ Len(stack[t]) \in Nat \ {0}
        /\ \A u \in Tasks : u # t => stack'[u] = stack[u]
        /\ DOMAIN stack'[t] = 1 .. Len(stack[t])
    BY <1>0, <2>1, <2>3, SetFramesEffect
  <2>5. Len(stack'[t]) = Len(stack[t])
    <3>1. stack'[t] \in Seq(Activations)
      BY <2>4 DEF StackType
    <3> QED
      BY <2>4, <3>1
  <2> QED
    BY <1>4, <2>4, <2>5 DEF Unmarked
<1>5. ASSUME NEW t \in Tasks, Unwind(t), Release(t)
      PROVE  Unmarking(t)
  <2>1. stack[t] # <<>> /\ Drop(t)
    BY <1>5 DEF Unwind, Drop
  <2>2. /\ StackType' /\ Len(stack[t]) \in Nat \ {0}
        /\ \A u \in Tasks : u # t => stack'[u] = stack[u]
        /\ DOMAIN stack'[t] = 1 .. Len(stack[t]) - 1
    BY <1>0, <2>1, DropEffect
  <2>3. Len(stack'[t]) = Len(stack[t]) - 1
    <3>1. stack'[t] \in Seq(Activations)
      BY <2>2 DEF StackType
    <3> QED
      BY <2>2, <3>1
  <2> QED
    BY <1>5, <2>1, <2>2, <2>3 DEF Unmarking
<1> QED
  BY <1>1, <1>2, <1>3, <1>4, <1>5 DEF HelmNext, Marks, Finish, Abort

----------------------------------------------------------------------------
(* What the steps do to the marks, and to the includes they count           *)

LEMMA IncludingMembers ==
    ASSUME MarksFollow, NEW n
    PROVE  /\ Including(n) \subseteq Tasks \X Nat
           /\ \A u \in Tasks, i \in Nat :
                 <<u, i>> \in Including(n) <=> i \in DOMAIN marks[u] /\ marks[u][i] = n
<1>1. \A u \in Tasks : marks[u] \in Seq(Marks)
  BY DEF MarksFollow
<1>2. Including(n) \subseteq Tasks \X Nat
  BY <1>1 DEF Including
<1>3. \A u \in Tasks, i \in Nat :
         <<u, i>> \in Including(n) <=> i \in DOMAIN marks[u] /\ marks[u][i] = n
  BY DEF Including
<1> QED
  BY <1>2, <1>3

LEMMA MarkEffect ==
    ASSUME MarksFollow, NEW t \in Tasks, NEW m \in Marks, Marked(t, m)
    PROVE  /\ MarksFollow'
           /\ LET e == <<t, Len(marks[t]) + 1>> IN
              \A n : /\ e \notin Including(n)
                     /\ Including(n)' = IF n = m THEN Including(n) \cup {e} ELSE Including(n)
<1> DEFINE k == Len(marks[t])
           e == <<t, k + 1>>
<1>1. /\ \A u \in Tasks : marks[u] \in Seq(Marks)
      /\ k \in Nat /\ DOMAIN marks[t] = 1 .. k
  BY DEF MarksFollow
<1>2. /\ marks' = [marks EXCEPT ![t] = Append(marks[t], m)]
      /\ marks'[t] = Append(marks[t], m)
      /\ \A u \in Tasks : u # t => marks'[u] = marks[u]
  BY DEF Marked, Mark, MarksFollow
<1>3. Append(marks[t], m) \in Seq(Marks)
  BY <1>1
<1>4. MarksFollow'
  <2>1. marks' \in [Tasks -> Seq(Marks)]
    BY <1>2, <1>3 DEF MarksFollow
  <2>2. Len(marks'[t]) = k + 1
    BY <1>1, <1>2
  <2>3. \A u \in Tasks : Len(marks'[u]) = Len(stack'[u])
    BY <1>1, <1>2, <2>2 DEF Marked, MarksFollow
  <2> QED
    BY <2>1, <2>3 DEF MarksFollow
<1>5. /\ DOMAIN marks'[t] = 1 .. k + 1 /\ marks'[t][k + 1] = m
      /\ \A i \in 1 .. k : marks'[t][i] = marks[t][i]
  BY <1>1, <1>2
<1> HIDE DEF k
<1>6. ASSUME NEW n
      PROVE  /\ e \notin Including(n)
             /\ Including(n)' = IF n = m THEN Including(n) \cup {e} ELSE Including(n)
  <2>1. e \notin Including(n)
    <3>1. k + 1 \notin DOMAIN marks[t] /\ k + 1 \in Nat
      BY <1>1
    <3> QED
      BY <3>1, IncludingMembers
  <2>2. \A u \in Tasks, i \in Nat :
           i \in DOMAIN marks'[u] /\ marks'[u][i] = n
             <=> (i \in DOMAIN marks[u] /\ marks[u][i] = n) \/ (<<u, i>> = e /\ n = m)
    <3> TAKE u \in Tasks, i \in Nat
    <3>1. CASE u # t
      BY <1>2, <3>1
    <3>2. CASE u = t /\ i = k + 1
      BY <1>1, <1>5, <3>2
    <3>3. CASE u = t /\ i # k + 1
      BY <1>1, <1>5, <3>3
    <3> QED
      BY <3>1, <3>2, <3>3
  <2>3. \A u \in Tasks, i \in Nat :
           <<u, i>> \in Including(n)' <=> <<u, i>> \in Including(n) \/ (<<u, i>> = e /\ n = m)
    <3>1. \A u \in Tasks, i \in Nat :
             <<u, i>> \in Including(n)' <=> i \in DOMAIN marks'[u] /\ marks'[u][i] = n
      BY DEF Including
    <3>2. \A u \in Tasks, i \in Nat :
             <<u, i>> \in Including(n) <=> i \in DOMAIN marks[u] /\ marks[u][i] = n
      BY IncludingMembers
    <3> HIDE DEF e
    <3> QED
      BY <2>2, <3>1, <3>2
  <2>4. Including(n)' \subseteq Tasks \X Nat
    <3>1. \A u \in Tasks : marks'[u] \in Seq(Marks)
      BY <1>4 DEF MarksFollow
    <3> QED
      BY <3>1 DEF Including
  <2>5. Including(n) \subseteq Tasks \X Nat /\ e \in Tasks \X Nat
    BY <1>1, IncludingMembers
  <2> HIDE DEF e
  <2>6. Including(n)' = IF n = m THEN Including(n) \cup {e} ELSE Including(n)
    BY <2>3, <2>4, <2>5
  <2> QED
    BY <2>1, <2>6
<1> QED
  BY <1>4, <1>6 DEF k

LEMMA ReleaseEffect ==
    ASSUME TypeOK, MarksFollow, NEW t \in Tasks, Unmarking(t)
    PROVE  /\ MarksFollow'
           /\ Last(marks[t]) \in Marks
           /\ LET e == <<t, Len(marks[t])>> IN
              \A n : /\ e \in Including(n) <=> n = Last(marks[t])
                     /\ Including(n)' = Including(n) \ {e}
<1> DEFINE k == Len(marks[t])
           e == <<t, k>>
           m == Last(marks[t])
<1>1. /\ \A u \in Tasks : marks[u] \in Seq(Marks)
      /\ k \in Nat \ {0} /\ DOMAIN marks[t] = 1 .. k /\ m = marks[t][k] /\ m \in Marks
  <2>1. stack[t] \in Seq(Activations) /\ stack[t] # <<>>
    BY DEF TypeOK, Unmarking
  <2>2. Len(stack[t]) \in Nat \ {0}
    BY <2>1
  <2> QED
    BY <2>2 DEF MarksFollow, Last
<1>2. /\ marks' = [marks EXCEPT ![t] = DropLast(marks[t])]
      /\ marks'[t] = DropLast(marks[t])
      /\ \A u \in Tasks : u # t => marks'[u] = marks[u]
  BY DEF Unmarking, Release, MarksFollow
<1>3. /\ DropLast(marks[t]) \in Seq(Marks) /\ Len(DropLast(marks[t])) = k - 1
      /\ \A i \in 1 .. k - 1 : DropLast(marks[t])[i] = marks[t][i]
  BY <1>1 DEF DropLast
<1>4. MarksFollow'
  <2>1. marks' \in [Tasks -> Seq(Marks)]
    BY <1>2, <1>3 DEF MarksFollow
  <2>2. \A u \in Tasks : Len(marks'[u]) = Len(stack'[u])
    BY <1>1, <1>2, <1>3 DEF Unmarking, MarksFollow
  <2> QED
    BY <2>1, <2>2 DEF MarksFollow
<1>5. /\ DOMAIN marks'[t] = 1 .. k - 1
      /\ \A i \in 1 .. k - 1 : marks'[t][i] = marks[t][i]
  BY <1>1, <1>2, <1>3
<1> HIDE DEF k, m
<1>6. ASSUME NEW n
      PROVE  /\ e \in Including(n) <=> n = m
             /\ Including(n)' = Including(n) \ {e}
  <2>1. e \in Including(n) <=> n = m
    <3>1. k \in DOMAIN marks[t] /\ k \in Nat
      BY <1>1
    <3> QED
      BY <1>1, <3>1, IncludingMembers
  <2>2. \A u \in Tasks, i \in Nat :
           i \in DOMAIN marks'[u] /\ marks'[u][i] = n
             <=> (i \in DOMAIN marks[u] /\ marks[u][i] = n) /\ <<u, i>> # e
    <3> TAKE u \in Tasks, i \in Nat
    <3>1. CASE u # t
      BY <1>2, <3>1
    <3>2. CASE u = t /\ i = k
      BY <1>1, <1>5, <3>2
    <3>3. CASE u = t /\ i # k
      BY <1>1, <1>5, <3>3
    <3> QED
      BY <3>1, <3>2, <3>3
  <2>3. \A u \in Tasks, i \in Nat :
           <<u, i>> \in Including(n)' <=> <<u, i>> \in Including(n) \ {e}
    <3>1. \A u \in Tasks, i \in Nat :
             <<u, i>> \in Including(n)' <=> i \in DOMAIN marks'[u] /\ marks'[u][i] = n
      BY DEF Including
    <3>2. \A u \in Tasks, i \in Nat :
             <<u, i>> \in Including(n) <=> i \in DOMAIN marks[u] /\ marks[u][i] = n
      BY IncludingMembers
    <3> HIDE DEF e
    <3> QED
      BY <2>2, <3>1, <3>2
  <2>4. Including(n)' \subseteq Tasks \X Nat
    <3>1. \A u \in Tasks : marks'[u] \in Seq(Marks)
      BY <1>4 DEF MarksFollow
    <3> QED
      BY <3>1 DEF Including
  <2>5. Including(n) \subseteq Tasks \X Nat
    BY IncludingMembers
  <2> HIDE DEF e
  <2>6. Including(n)' = Including(n) \ {e}
    BY <2>3, <2>4, <2>5
  <2> QED
    BY <2>1, <2>6
<1> QED
  BY <1>1, <1>4, <1>6 DEF k, m

LEMMA HelmInvStep ==
    ASSUME TypeOK, HelmInv, [HelmNext]_helmVars
    PROVE  HelmInv'
<1>0. /\ MarksFollow /\ included \in [Templates -> Nat]
      /\ \A n \in Templates :
            /\ IsFiniteSet(Including(n)) /\ Cardinality(Including(n)) \in Nat
            /\ included[n] = Cardinality(Including(n))
            /\ included[n] <= RecursionLimit + 1
  BY FS_CardinalityType DEF HelmInv, CountsExact
<1>1. CASE Unmarked
  <2>1. MarksFollow'
    BY <1>0, <1>1 DEF Unmarked, MarksFollow
  <2>2. \A n : Including(n)' = Including(n)
    BY <1>1 DEF Unmarked, Including
  <2> QED
    BY <1>0, <1>1, <2>1, <2>2 DEF Unmarked, HelmInv, CountsExact
<1>2. ASSUME NEW t \in Tasks, NEW m \in Marks, Marked(t, m) PROVE HelmInv'
  <2> DEFINE e == <<t, Len(marks[t]) + 1>>
  <2>1. /\ MarksFollow'
        /\ \A n : /\ e \notin Including(n)
                  /\ Including(n)' = IF n = m THEN Including(n) \cup {e} ELSE Including(n)
    BY <1>0, <1>2, MarkEffect
  <2> HIDE DEF e
  <2>2. CASE m = NotIncluded
    <3>1. \A n \in Templates : n # m
      BY <2>2, HelmAssumption
    <3>2. included' = included
      BY <1>2, <2>2, HelmAssumption DEF Marked
    <3>3. \A n \in Templates : Including(n)' = Including(n)
      BY <2>1, <3>1
    <3> QED
      BY <1>0, <2>1, <3>2, <3>3 DEF HelmInv, CountsExact
  <2>3. CASE m \in Templates
    <3>1. /\ included[m] <= RecursionLimit
          /\ included' = [included EXCEPT ![m] = included[m] + 1]
      BY <1>2, <2>3, HelmAssumption DEF Marked, MayInclude
    <3>2. included' \in [Templates -> Nat] /\ included'[m] = included[m] + 1
          /\ \A n \in Templates : n # m => included'[n] = included[n]
      BY <1>0, <2>3, <3>1
    <3>3. /\ IsFiniteSet(Including(m)')
          /\ Cardinality(Including(m)') = Cardinality(Including(m)) + 1
      <4>1. Including(m)' = Including(m) \cup {e} /\ e \notin Including(m)
        BY <2>1
      <4> QED
        BY <1>0, <2>3, <4>1, FS_AddElement
    <3>4. ASSUME NEW n \in Templates
          PROVE  /\ IsFiniteSet(Including(n)')
                 /\ included'[n] = Cardinality(Including(n)')
                 /\ included'[n] <= RecursionLimit + 1
      <4>1. CASE n = m
        <5>1. included[m] = Cardinality(Including(m)) /\ included[m] \in Nat
          BY <1>0, <2>3
        <5>2. included'[m] = Cardinality(Including(m)') /\ included'[m] <= RecursionLimit + 1
          BY <3>1, <3>2, <3>3, <5>1, HelmAssumption
        <5> QED
          BY <3>3, <4>1, <5>2
      <4>2. CASE n # m
        BY <1>0, <2>1, <3>2, <4>2
      <4> QED
        BY <4>1, <4>2
    <3> QED
      BY <2>1, <3>2, <3>4 DEF HelmInv, CountsExact
  <2> QED
    BY <2>2, <2>3 DEF Marks
<1>3. ASSUME NEW t \in Tasks, Unmarking(t) PROVE HelmInv'
  <2> DEFINE e == <<t, Len(marks[t])>>
  <2>0. PICK m \in Marks : m = Last(marks[t])
    BY <1>0, <1>3, ReleaseEffect
  <2>1. /\ MarksFollow'
        /\ \A n : /\ e \in Including(n) <=> n = m
                  /\ Including(n)' = Including(n) \ {e}
    BY <1>0, <1>3, <2>0, ReleaseEffect
  <2>2. included' = IF m \in Templates THEN [included EXCEPT ![m] = included[m] - 1] ELSE included
    BY <1>3, <2>0 DEF Unmarking, Release
  <2> HIDE DEF e
  <2>3. ASSUME NEW n \in Templates, n # m
        PROVE  Including(n)' = Including(n) /\ included'[n] = included[n]
    <3>1. Including(n)' = Including(n) \ {e} /\ e \notin Including(n)
      BY <2>1, <2>3
    <3>2. Including(n)' = Including(n)
      BY <3>1
    <3>3. included'[n] = included[n]
      BY <1>0, <2>2, <2>3
    <3> QED
      BY <3>2, <3>3
  <2>4. CASE m \in Templates
    <3>1. e \in Including(m) /\ Including(m)' = Including(m) \ {e}
      BY <2>1
    <3>2. /\ IsFiniteSet(Including(m)')
          /\ Cardinality(Including(m)') = Cardinality(Including(m)) - 1
          /\ Cardinality(Including(m)') \in Nat
      BY <1>0, <2>4, <3>1, FS_RemoveElement, FS_CardinalityType
    <3>3. included'[m] = included[m] - 1 /\ included[m] \in Nat
      BY <1>0, <2>2, <2>4
    <3>4. included'[m] = Cardinality(Including(m)') /\ included'[m] <= RecursionLimit + 1
      BY <1>0, <2>4, <3>2, <3>3, HelmAssumption
    <3>5. included' \in [Templates -> Nat]
      <4>1. included[m] - 1 \in Nat
        BY <3>2, <3>3, <3>4
      <4> QED
        BY <1>0, <2>2, <2>4, <4>1
    <3>6. \A n \in Templates :
             /\ IsFiniteSet(Including(n)')
             /\ included'[n] = Cardinality(Including(n)')
             /\ included'[n] <= RecursionLimit + 1
      <4> TAKE n \in Templates
      <4>1. CASE n = m
        BY <3>2, <3>4, <4>1
      <4>2. CASE n # m
        BY <1>0, <2>3, <4>2
      <4> QED
        BY <4>1, <4>2
    <3> QED
      BY <2>1, <3>5, <3>6 DEF HelmInv, CountsExact
  <2>5. CASE m \notin Templates
    <3>1. \A n \in Templates : n # m
      BY <2>5
    <3> QED
      BY <1>0, <2>1, <2>2, <2>3, <2>5, <3>1 DEF HelmInv, CountsExact
  <2> QED
    BY <2>4, <2>5
<1> QED
  BY <1>1, <1>2, <1>3, HelmWays

LEMMA HelmInvStarts ==
    ASSUME HelmInit
    PROVE  HelmInv
<1>1. /\ marks = [t \in Tasks |-> <<>>] /\ stack = [t \in Tasks |-> <<>>]
      /\ included = [n \in Templates |-> 0]
  BY DEF HelmInit, Init
<1>2. MarksFollow
  BY <1>1 DEF MarksFollow
<1>3. \A n \in Templates : Including(n) = {}
  BY <1>1 DEF Including
<1>4. CountsExact
  <2>1. IsFiniteSet({}) /\ Cardinality({}) = 0
    BY FS_EmptySet
  <2>2. included \in [Templates -> Nat] /\ \A n \in Templates : included[n] = 0
    BY <1>1
  <2>3. 0 <= RecursionLimit + 1
    BY HelmAssumption
  <2> QED
    BY <1>3, <2>1, <2>2, <2>3 DEF CountsExact
<1> QED
  BY <1>2, <1>4 DEF HelmInv

\* The counter of a name is the number of its includes still running, whatever
\* branches run beside them and however they end, and none runs more than
\* RecursionLimit + 1 times at once (helm/runtime.py _include).
THEOREM IncludesAreCounted == HelmSpec => []IncludedExact
<1>1. HelmInit => HelmInv
  BY HelmInvStarts
<1>2. TypeOK /\ HelmInv /\ [HelmNext]_helmVars => HelmInv'
  BY HelmInvStep
<1>3. HelmInv => IncludedExact
  BY DEF HelmInv, CountsExact, IncludedExact
<1> QED
  BY <1>1, <1>2, <1>3, HelmIsSession, TypeCorrect, PTL DEF HelmSpec
=============================================================================
