---------------------------- MODULE HelmInclude ----------------------------
(***************************************************************************)
(* The include and tpl functions of gotpl/exts/helm/runtime.py over a      *)
(* render session: the per-name recursion counters of _HelmRenderState.    *)
(*                                                                         *)
(* marks[t] names, for every nested render of task t, the include call     *)
(* that started it; tpl starts renders marked NotIncluded.                 *)
(***************************************************************************)
EXTENDS RenderSession

CONSTANTS
    Templates,       \* names of associated templates
    NotIncluded,     \* marks a render started by tpl
    RecursionLimit   \* _RECURSION_LIMIT

ASSUME HelmAssumption ==
    /\ IsFiniteSet(Templates)
    /\ NotIncluded \notin Templates
    /\ RecursionLimit \in Nat

VARIABLES
    included,   \* _HelmRenderState.included
    marks

helmVars == <<vars, included, marks>>

HelmInit ==
    /\ Init
    /\ included = [n \in Templates |-> 0]
    /\ marks = [t \in Tasks |-> <<>>]

Entered(t) == Len(stack'[t]) > Len(stack[t])
Mark(t, n) == marks' = [marks EXCEPT ![t] = Append(@, n)]

\* Mutant: the check and the count disagree by one more call.
MayIncludeLate(n) == included[n] <= RecursionLimit + 1

\* The check of _include, against the calls already running; "rendering template
\* has a nested reference name" changes nothing.
MayInclude(n) == included[n] <= RecursionLimit

\* _include counts the call around render_template.  A render the depth budget
\* refuses raises at once, and the finally takes the count back.
Include(t, n) ==
    /\ MayInclude(n)
    /\ RenderTemplate(t)
    /\ IF Entered(t)
       THEN included' = [included EXCEPT ![n] = @ + 1] /\ Mark(t, n)
       ELSE UNCHANGED <<included, marks>>

Tpl(t, source) ==
    /\ RenderCached(t, source) \/ RenderFresh(t, source)
    /\ IF Entered(t) THEN Mark(t, NotIncluded) ELSE UNCHANGED marks
    /\ UNCHANGED included

\* Mutant: an include that fails keeps its count.
ReleaseOnSuccess(t) ==
    LET n == Last(marks[t]) IN
    /\ included' = IF n \in Templates /\ Last(stack[t]).frames = 0
                   THEN [included EXCEPT ![n] = @ - 1] ELSE included
    /\ marks' = [marks EXCEPT ![t] = DropLast(@)]

\* The finally of _include runs after that of nested().
Release(t) ==
    LET n == Last(marks[t]) IN
    /\ included' = IF n \in Templates THEN [included EXCEPT ![n] = @ - 1]
                   ELSE included
    /\ marks' = [marks EXCEPT ![t] = DropLast(@)]

HelmNext ==
    \E t \in Tasks :
        \/ \E n \in Templates : Include(t, n)
        \/ \E s \in Sources : Tpl(t, s)
        \/ (CallTemplate(t) \/ ReturnTemplate(t)) /\ UNCHANGED <<included, marks>>
        \/ (Finish(t) \/ Abort(t)) /\ Release(t)

HelmSpec == HelmInit /\ [][HelmNext]_helmVars

----------------------------------------------------------------------------
Including(n) == UNION {{<<t, i>> : i \in {j \in DOMAIN marks[t] : marks[t][j] = n}}
                       : t \in Tasks}

\* A name's counter is the number of its includes that are still running, with
\* branches interleaved and includes aborted or refused (_include, finally).
\* So no name is being included more than RecursionLimit + 1 times.
IncludedExact ==
    \A n \in Templates :
        /\ included[n] = Cardinality(Including(n))
        /\ included[n] <= RecursionLimit + 1
============================================================================
