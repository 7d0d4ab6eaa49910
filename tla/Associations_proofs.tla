------------------------ MODULE Associations_proofs ------------------------
(***************************************************************************)
(* Theorems about chains of derivations, for any sources, registrations,   *)
(* extensions and policies, and chains of any length.                      *)
(*                                                                         *)
(* The model folds over sequences, as the code loops over them.  An        *)
(* instance of FoldTheorems for each operator that is folded says through  *)
(* which values the fold goes; what holds of its result is an induction on *)
(* them.                                                                   *)
(***************************************************************************)
EXTENDS Associations, TLAPS

Redefining == INSTANCE FoldTheorems WITH Op <- Redefine
Naming     == INSTANCE FoldTheorems WITH Op <- Named
Merging    == INSTANCE FoldTheorems WITH Op <- MergeOne
Joining    == INSTANCE FoldTheorems WITH Op <- AddItem
Sequencing == INSTANCE FoldTheorems WITH Op <- Then
Writing    == INSTANCE FoldTheorems WITH Op <- AddWrites

----------------------------------------------------------------------------
(* The folds of the model                                                   *)

LEMMA AddSourceFolds ==
    ASSUME NEW ns, NEW s, NEW name
    PROVE  AddSource(ns, s, name) = Redefining!Folded(Named(ns, Root(s, name)), Definitions(s))
BY Zenon DEF AddSource, FoldLeft, MapThenFoldSet, Max,
             Redefining!Folded, Redefining!Iterated, Redefining!Max

LEMMA FirstNamespaceFolds ==
    ASSUME NEW s, NEW name
    PROVE  FirstNamespace(s, name) = Naming!Folded(<<>>, Definitions(s) \o <<Root(s, name)>>)
BY Zenon DEF FirstNamespace, FoldLeft, MapThenFoldSet, Max,
             Naming!Folded, Naming!Iterated, Naming!Max

LEMMA MergeFolds ==
    ASSUME NEW base, NEW extensions
    PROVE  Merge(base, extensions) = Merging!Folded(Built(base), extensions)
BY Zenon DEF Merge, FoldLeft, MapThenFoldSet, Max,
             Merging!Folded, Merging!Iterated, Merging!Max

LEMMA FromSourcesFolds ==
    ASSUME NEW items, NEW e
    PROVE  FromSources(items, e) =
              Joining!Folded(NewTemplate(items[1].source, items[1].name, e), Tail(items))
BY Zenon DEF FromSources, FoldLeft, MapThenFoldSet, Max,
             Joining!Folded, Joining!Iterated, Joining!Max

StepResults(p, namespace, t, called) ==
    [i \in DOMAIN Steps(p) |->
       IF Steps(p)[i].op # "call" THEN RunStep(Steps(p)[i], p, t)
       ELSE IF Steps(p)[i].arg \notin DOMAIN namespace THEN Undefined("template")
       ELSE called[namespace[Steps(p)[i].arg]]]

LEMMA RunStepsFolds ==
    ASSUME NEW p, NEW namespace, NEW t, NEW called
    PROVE  RunSteps(p, namespace, t, called) =
              Sequencing!Folded(Undefined("none"), StepResults(p, namespace, t, called))
BY Zenon DEF RunSteps, StepResults, FoldLeft, MapThenFoldSet, Max,
             Sequencing!Folded, Sequencing!Iterated, Sequencing!Max

EachResult(t, names, view) == [i \in DOMAIN names |-> RenderTemplate(t, names[i], view)]

LEMMA RenderEachFolds ==
    ASSUME NEW t, NEW names, NEW view
    PROVE  RenderEach(t, names, view) =
              Sequencing!Folded(Undefined("none"), EachResult(t, names, view))
BY Zenon DEF RenderEach, EachResult, FoldLeft, MapThenFoldSet, Max,
             Sequencing!Folded, Sequencing!Iterated, Sequencing!Max

LEMMA WritesFolds ==
    ASSUME NEW items
    PROVE  Writes(items) =
              Writing!Folded(Definitions(items[1].source) \o
                                <<Root(items[1].source, items[1].name)>>, Tail(items))
BY Zenon DEF Writes, FoldLeft, MapThenFoldSet, Max,
             Writing!Folded, Writing!Iterated, Writing!Max

----------------------------------------------------------------------------
(* Programs and namespaces                                                  *)

PartsOf(s) == 1 .. Len(SourceOf(s).parts)

Programs == {p \in [source : Sources, part : Nat, name : STRING] : p.part \in PartsOf(p.source)}

\* The namespaces of programs in P that have the names N.
Namespaces(P, N) == UNION {[D -> P] : D \in {S \in SUBSET STRING : N \subseteq S}}

\* What a source has.
LEMMA SourceTypes ==
    ASSUME NEW s \in Sources
    PROVE  /\ SourceOf(s).parts \in Seq(Parts) /\ Len(SourceOf(s).parts) \in Nat \ {0}
           /\ \A i \in PartsOf(s) : /\ SourceOf(s).parts[i] \in Parts
                                    /\ SourceOf(s).parts[i].name \in STRING
                                    /\ SourceOf(s).parts[i].steps \in Seq(PartSteps)
<1>1. SourceOf(s).parts \in Seq(Parts) /\ Len(SourceOf(s).parts) > 0
  BY AssociationsAssumption DEF AssociationsAssumption
<1>2. \A i \in PartsOf(s) : SourceOf(s).parts[i] \in Parts
  BY <1>1 DEF PartsOf
<1>3. QED
  BY <1>1, <1>2 DEF Parts

\* The body and the definitions of a source are programs.
LEMMA SourcePrograms ==
    ASSUME NEW s \in Sources, NEW name \in STRING
    PROVE  /\ Root(s, name) \in Programs
           /\ Definitions(s) \in Seq(Programs)
           /\ Len(Definitions(s)) = Len(SourceOf(s).parts) - 1
           /\ \A i \in 1..Len(Definitions(s)) :
                /\ Definitions(s)[i].source = s /\ Definitions(s)[i].part = i + 1
                /\ Definitions(s)[i].name = SourceOf(s).parts[i + 1].name
<1>1. Len(SourceOf(s).parts) \in Nat \ {0}
  BY SourceTypes
<1>2. Root(s, name) \in Programs
  BY <1>1 DEF Root, Program, Programs, PartsOf
<1>3. \A i \in 1..(Len(SourceOf(s).parts) - 1) :
        Program(s, i + 1, SourceOf(s).parts[i + 1].name) \in Programs
  <2>1. TAKE i \in 1..(Len(SourceOf(s).parts) - 1)
  <2>2. i + 1 \in PartsOf(s) /\ i + 1 \in Nat
    BY <1>1 DEF PartsOf
  <2>3. SourceOf(s).parts[i + 1].name \in STRING
    BY <2>2, SourceTypes
  <2>4. QED
    BY <2>2, <2>3 DEF Program, Programs
<1>4. Definitions(s) \in Seq(Programs) /\ Len(Definitions(s)) = Len(SourceOf(s).parts) - 1
  BY <1>1, <1>3 DEF Definitions
<1>5. ASSUME NEW i \in 1..Len(Definitions(s))
      PROVE  /\ Definitions(s)[i].source = s /\ Definitions(s)[i].part = i + 1
             /\ Definitions(s)[i].name = SourceOf(s).parts[i + 1].name
  <2>1. Definitions(s)[i] = Program(s, i + 1, SourceOf(s).parts[i + 1].name)
    BY <1>4 DEF Definitions
  <2>2. QED
    BY <2>1 DEF Program
<1>6. QED
  BY <1>2, <1>4, <1>5

\* Writing a program into a namespace keeps it in P and its names.
LEMMA OneWrite ==
    ASSUME NEW P \in SUBSET Programs, NEW N, NEW ns \in Namespaces(P, N), NEW d \in P
    PROVE  /\ Named(ns, d) \in Namespaces(P, N \cup {d.name})
           /\ Named(ns, d) \in Namespaces(P, N)
           /\ DOMAIN Named(ns, d) = DOMAIN ns \cup {d.name}
           /\ \A name \in DOMAIN ns \cup {d.name} :
                Named(ns, d)[name] = IF name = d.name THEN d ELSE ns[name]
<1>1. PICK D \in SUBSET STRING : N \subseteq D /\ ns \in [D -> P]
  BY DEF Namespaces
<1>2. d.name \in STRING /\ DOMAIN ns = D
  BY <1>1 DEF Programs
<1>3. \A name \in D : ns[name] \in P
  BY <1>1
<1>4. Named(ns, d) \in [D \cup {d.name} -> P] /\ D \cup {d.name} \in SUBSET STRING
  BY <1>2, <1>3 DEF Named
<1>5. N \cup {d.name} \subseteq D \cup {d.name} /\ N \subseteq D \cup {d.name}
  BY <1>1
<1>6. Named(ns, d) \in Namespaces(P, N \cup {d.name}) /\ Named(ns, d) \in Namespaces(P, N)
  BY <1>4, <1>5 DEF Namespaces
<1>7. QED
  BY <1>6 DEF Named

LEMMA RedefineKeeps ==
    ASSUME NEW P \in SUBSET Programs, NEW N, NEW ns \in Namespaces(P, N), NEW d \in P
    PROVE  Redefine(ns, d) \in Namespaces(P, N)
BY OneWrite DEF Redefine

LEMMA NamespaceTypes ==
    ASSUME NEW P, NEW N, NEW ns \in Namespaces(P, N)
    PROVE  /\ N \subseteq DOMAIN ns /\ DOMAIN ns \subseteq STRING
           /\ \A name \in DOMAIN ns : ns[name] \in P
           /\ Range(ns) \subseteq P
<1>1. PICK D \in SUBSET STRING : N \subseteq D /\ ns \in [D -> P]
  BY DEF Namespaces
<1>2. QED
  BY <1>1 DEF Range

\* What a source adds to a namespace.
LEMMA AddSourceKeeps ==
    ASSUME NEW P \in SUBSET Programs, NEW N, NEW ns \in Namespaces(P, N),
           NEW s \in Sources, NEW name \in STRING,
           Root(s, name) \in P, Definitions(s) \in Seq(P)
    PROVE  AddSource(ns, s, name) \in Namespaces(P, N \cup {name})
<1> DEFINE V == Namespaces(P, N \cup {name})
           base == Named(ns, Root(s, name))
           ds == Definitions(s)
<1>1. Root(s, name).name = name
  BY DEF Root, Program
<1>2. base \in V
  <2>1. base \in Namespaces(P, N \cup {Root(s, name).name})
    BY OneWrite
  <2>2. QED
    BY <1>1, <2>1
<1>3. Redefining!Closed(V, P)
  BY RedefineKeeps DEF Redefining!Closed
<1>4. ds \in Seq(P)
  OBVIOUS
<1>5. AddSource(ns, s, name) = Redefining!Folded(base, ds)
  BY AddSourceFolds
<1> HIDE DEF V, base, ds
<1>6. Redefining!Folded(base, ds) \in V
  BY <1>2, <1>3, <1>4, Redefining!FoldType
<1>7. QED
  BY <1>5, <1>6 DEF V

LEMMA FirstNamespaceKeeps ==
    ASSUME NEW P \in SUBSET Programs, NEW s \in Sources, NEW name \in STRING,
           Root(s, name) \in P, Definitions(s) \in Seq(P)
    PROVE  FirstNamespace(s, name) \in Namespaces(P, {name})
<1> DEFINE V == Namespaces(P, {})
           root == Root(s, name)
           ws == Definitions(s) \o <<root>>
<1>1. root.name = name /\ root \in P
  BY DEF Root, Program
<1>2. <<>> \in V
  <2>1. <<>> \in [{} -> P]
    OBVIOUS
  <2>2. {} \in SUBSET STRING /\ {} \subseteq {}
    OBVIOUS
  <2>3. QED
    BY <2>1, <2>2 DEF Namespaces
<1>3. Naming!Closed(V, P)
  BY OneWrite DEF Naming!Closed
<1>4. ws \in Seq(P) /\ Len(ws) \in 1..Len(ws) /\ ws[Len(ws)] = root
  BY <1>1
<1>5. FirstNamespace(s, name) = Naming!Folded(<<>>, ws)
  BY FirstNamespaceFolds
<1> HIDE DEF V, ws, root
<1>6. PICK f : Naming!Goes(f, <<>>, ws, V)
  BY <1>2, <1>3, <1>4, Naming!FoldSteps
<1>7. /\ f[Len(ws)] = Naming!Folded(<<>>, ws)
      /\ f[Len(ws) - 1] \in V /\ f[Len(ws)] = Named(f[Len(ws) - 1], root)
  BY <1>4, <1>6 DEF Naming!Goes
<1>8. Named(f[Len(ws) - 1], root) \in Namespaces(P, {} \cup {root.name})
  BY <1>1, <1>7, OneWrite DEF V
<1>9. {} \cup {root.name} = {name}
  BY <1>1
<1>10. QED
  BY <1>5, <1>7, <1>8, <1>9

----------------------------------------------------------------------------
(* Function maps and environments                                           *)

\* Implementations, with the owners that the engine itself adds.
Owned == Implementations \cup
            {[owner |-> o, capabilities |-> {}] : o \in {"builtin", "internal", "python"}}

Identifiers == STRING \cup BuiltinNames \cup InternalNames

Registries == UNION {[D -> Owned] : D \in SUBSET Identifiers}

LEMMA RegistryTypes ==
    ASSUME NEW r \in Registries
    PROVE  DOMAIN r \in SUBSET Identifiers /\ \A f \in DOMAIN r : r[f] \in Owned
BY DEF Registries

LEMMA OverlayKeeps ==
    ASSUME NEW new \in Registries, NEW old \in Registries
    PROVE  /\ Overlay(new, old) \in Registries
           /\ DOMAIN Overlay(new, old) = DOMAIN new \cup DOMAIN old
           /\ \A f \in DOMAIN new : Overlay(new, old)[f] = new[f]
           /\ \A f \in DOMAIN old : f \notin DOMAIN new => Overlay(new, old)[f] = old[f]
<1> DEFINE D == DOMAIN new \cup DOMAIN old
<1>1. D \in SUBSET Identifiers
  BY RegistryTypes
<1>2. Overlay(new, old) \in [D -> Owned]
  BY RegistryTypes DEF Overlay
<1>3. Overlay(new, old) \in Registries
  BY <1>1, <1>2 DEF Registries
<1>4. QED
  BY <1>3 DEF Overlay

LEMMA MapsAreRegistries ==
    /\ \A m \in Registrations : m \in Registries
    /\ \A x \in Extensions : x.functions \in Registries
<1>1. \A m : IsFunctionMap(m) => m \in Registries
  BY DEF IsFunctionMap, Registries, Owned, Identifiers
<1>2. QED
  BY <1>1, AssociationsAssumption DEF AssociationsAssumption

LEMMA NativeTypes ==
    ASSUME NEW python \in SUBSET Categories
    PROVE  /\ FunctionMap(python) \in Registries
           /\ \A f \in DOMAIN FunctionMap(python) :
                /\ FunctionMap(python)[f] = Python(f)
                /\ f # "call" /\ f \notin InternalNames
<1> DEFINE D == UNION {PythonFunctions[c] : c \in python}
<1>1. \A c \in python : PythonFunctions[c] \subseteq STRING \ ({"call"} \cup InternalNames)
  BY AssociationsAssumption DEF AssociationsAssumption, Categories
<1>2. D \in SUBSET STRING /\ \A f \in D : f # "call" /\ f \notin InternalNames
  BY <1>1
<1>3. \A f : Python(f) \in Owned
  BY DEF Python, Owned
<1>4. FunctionMap(python) \in [D -> Owned]
  BY <1>3 DEF FunctionMap
<1>5. FunctionMap(python) \in Registries
  BY <1>2, <1>4 DEF Registries, Identifiers
<1>6. QED
  BY <1>2, <1>5 DEF FunctionMap

\* A merge that succeeds has every extension's functions as they are.
MergeResults == {Error("collision")} \cup {Built(r) : r \in Registries}

HasAll(a, xs, k) ==
    a.ok => \A i \in 1..k : \A f \in DOMAIN xs[i].functions :
              f \in DOMAIN a.v /\ a.v[f] = xs[i].functions[f]

LEMMA MergeOneTypes ==
    ASSUME NEW a \in MergeResults, NEW x \in Extensions
    PROVE  MergeOne(a, x) \in MergeResults
<1>1. x.functions \in Registries
  BY MapsAreRegistries
<1>2. CASE ~a.ok
  BY <1>2 DEF MergeOne
<1>3. CASE a.ok
  <2>1. PICK r \in Registries : a = Built(r)
    BY <1>3 DEF MergeResults, Error
  <2>2. a.v = r
    BY <2>1 DEF Built
  <2>3. Overlay(x.functions, a.v) \in Registries
    BY <1>1, <2>2, OverlayKeeps
  <2>4. QED
    BY <1>3, <2>3 DEF MergeOne, MergeResults
<1>4. QED
  BY <1>2, <1>3

LEMMA MergeIsIntact ==
    ASSUME NEW base \in Registries, NEW xs \in Seq(Extensions)
    PROVE  /\ Merge(base, xs) \in MergeResults
           /\ HasAll(Merge(base, xs), xs, Len(xs))
<1>1. Built(base) \in MergeResults
  BY DEF MergeResults
<1>2. PICK f : Merging!Goes(f, Built(base), xs, MergeResults)
  <2>1. Merging!Closed(MergeResults, Extensions)
    BY MergeOneTypes DEF Merging!Closed
  <2>2. QED
    BY <1>1, <2>1, Merging!FoldSteps
<1>3. /\ f \in [0..Len(xs) -> MergeResults] /\ f[Len(xs)] = Merging!Folded(Built(base), xs)
      /\ \A k \in 1..Len(xs) :
            f[k - 1] \in MergeResults /\ f[k] = MergeOne(f[k - 1], xs[k])
  BY <1>2 DEF Merging!Goes
<1> DEFINE S == {k \in Nat : k <= Len(xs) => HasAll(f[k], xs, k)}
<1>4. 0 \in S
  BY DEF HasAll
<1>5. ASSUME NEW k \in Nat, k \in S
      PROVE  k + 1 \in S
  <2>1. SUFFICES ASSUME k + 1 <= Len(xs)
                 PROVE  HasAll(f[k + 1], xs, k + 1)
    OBVIOUS
  <2>2. k + 1 \in 1..Len(xs) /\ k + 1 - 1 = k /\ HasAll(f[k], xs, k)
    BY <1>5, <2>1
  <2>3. f[k] \in MergeResults /\ f[k + 1] = MergeOne(f[k], xs[k + 1])
    BY <1>3, <2>2
  <2>4. SUFFICES ASSUME f[k + 1].ok
                 PROVE  \A i \in 1..(k + 1) : \A g \in DOMAIN xs[i].functions :
                           g \in DOMAIN f[k + 1].v /\ f[k + 1].v[g] = xs[i].functions[g]
    BY DEF HasAll
  <2>5. /\ f[k].ok /\ DOMAIN f[k].v \cap DOMAIN xs[k + 1].functions = {}
        /\ f[k + 1] = Built(Overlay(xs[k + 1].functions, f[k].v))
    BY <2>3, <2>4 DEF MergeOne, Error
  <2>6. PICK r \in Registries : f[k] = Built(r)
    BY <2>3, <2>5 DEF MergeResults, Error
  <2>7. f[k].v = r
    BY <2>6 DEF Built
  <2>8. xs[k + 1].functions \in Registries
    BY <2>2, MapsAreRegistries
  <2>9. f[k + 1].v = Overlay(xs[k + 1].functions, r)
    BY <2>5, <2>7 DEF Built
  <2>10. /\ DOMAIN f[k + 1].v = DOMAIN xs[k + 1].functions \cup DOMAIN r
         /\ \A g \in DOMAIN xs[k + 1].functions : f[k + 1].v[g] = xs[k + 1].functions[g]
         /\ \A g \in DOMAIN r : g \notin DOMAIN xs[k + 1].functions => f[k + 1].v[g] = r[g]
    <3> DEFINE x == xs[k + 1].functions
    <3> HIDE DEF x
    <3>1. x \in Registries
      BY <2>8 DEF x
    <3>2. /\ DOMAIN Overlay(x, r) = DOMAIN x \cup DOMAIN r
          /\ \A g \in DOMAIN x : Overlay(x, r)[g] = x[g]
          /\ \A g \in DOMAIN r : g \notin DOMAIN x => Overlay(x, r)[g] = r[g]
      BY <3>1, OverlayKeeps
    <3>3. QED
      BY <2>9, <3>2 DEF x
  <2>11. ASSUME NEW i \in 1..(k + 1), NEW g \in DOMAIN xs[i].functions
         PROVE  g \in DOMAIN f[k + 1].v /\ f[k + 1].v[g] = xs[i].functions[g]
    <3>1. CASE i = k + 1
      BY <2>11, <2>10, <3>1
    <3>2. CASE i \in 1..k
      <4>1. g \in DOMAIN r /\ r[g] = xs[i].functions[g]
        BY <2>2, <2>5, <2>7, <2>11, <3>2 DEF HasAll
      <4>2. g \notin DOMAIN xs[k + 1].functions
        BY <2>5, <2>7, <4>1
      <4>3. f[k + 1].v[g] = r[g]
        BY <2>10, <4>1, <4>2
      <4>4. g \in DOMAIN f[k + 1].v
        BY <2>10, <4>1
      <4>5. QED
        BY <4>1, <4>3, <4>4
    <3>3. QED
      BY <3>1, <3>2
  <2>12. QED
    BY <2>11
<1>6. \A k \in Nat : k \in S
  <2> HIDE DEF S
  <2>1. QED
    BY <1>4, <1>5, Merging!Induct
<1>7. HasAll(f[Len(xs)], xs, Len(xs))
  BY <1>6
<1>8. f[Len(xs)] \in MergeResults
  BY <1>3
<1>9. Merge(base, xs) = f[Len(xs)]
  BY <1>3, MergeFolds
<1>10. QED
  BY <1>7, <1>8, <1>9

\* What is known of an environment: it has the functions of all its
\* extensions, and none that its Python categories define.
IsEnvironment(e) ==
    /\ e.base \in Registries /\ e.functions \in Registries
    /\ e.extensions \in Seq(Extensions)
    /\ e.python \in SUBSET Categories /\ e.sandbox \in Policies
    /\ \A i \in 1..Len(e.extensions) : \A f \in DOMAIN e.extensions[i].functions :
         f \in DOMAIN e.functions /\ e.functions[f] = e.extensions[i].functions[f]
    /\ DOMAIN e.functions \cap DOMAIN FunctionMap(e.python) = {}

LEMMA NewEnvironments ==
    ASSUME NEW base \in Registries, NEW xs \in Seq(Extensions),
           NEW python \in SUBSET Categories, NEW policy \in Policies,
           NewEnvironment(base, xs, python, policy).ok
    PROVE  IsEnvironment(NewEnvironment(base, xs, python, policy).v)
<1> DEFINE combined == Merge(base, xs)
           e == [base |-> base, extensions |-> xs, python |-> python,
                 sandbox |-> policy, functions |-> combined.v]
<1>1. combined \in MergeResults /\ HasAll(combined, xs, Len(xs))
  BY MergeIsIntact
<1> HIDE DEF combined
<1>2. /\ combined.ok /\ DOMAIN combined.v \cap DOMAIN FunctionMap(python) = {}
      /\ NewEnvironment(base, xs, python, policy) = Built(e)
  BY DEF NewEnvironment, Error, combined
<1>3. combined.v \in Registries
  <2>1. PICK r \in Registries : combined = Built(r)
    BY <1>1, <1>2 DEF MergeResults, Error
  <2>2. QED
    BY <2>1 DEF Built
<1>4. \A i \in 1..Len(xs) : \A f \in DOMAIN xs[i].functions :
         f \in DOMAIN combined.v /\ combined.v[f] = xs[i].functions[f]
  BY <1>1, <1>2 DEF HasAll
<1>5. IsEnvironment(e)
  BY <1>2, <1>3, <1>4 DEF IsEnvironment
<1>6. QED
  BY <1>2, <1>5 DEF Built

LEMMA DerivedEnvironments ==
    ASSUME NEW e, IsEnvironment(e)
    PROVE  /\ \A x \in Extensions :
                WithExtensions(e, x).ok => IsEnvironment(WithExtensions(e, x).v)
           /\ \A m \in Registrations, replace \in BOOLEAN :
                WithReplacedFunctions(e, m, replace).ok =>
                   IsEnvironment(WithReplacedFunctions(e, m, replace).v)
<1>1. /\ e.base \in Registries /\ e.extensions \in Seq(Extensions)
      /\ e.python \in SUBSET Categories /\ e.sandbox \in Policies
  BY DEF IsEnvironment
<1>2. ASSUME NEW x \in Extensions, WithExtensions(e, x).ok
      PROVE  IsEnvironment(WithExtensions(e, x).v)
  <2>1. Append(e.extensions, x) \in Seq(Extensions)
    BY <1>1
  <2>2. QED
    BY <1>1, <1>2, <2>1, NewEnvironments DEF WithExtensions
<1>3. ASSUME NEW m \in Registrations, NEW replace \in BOOLEAN,
             WithReplacedFunctions(e, m, replace).ok
      PROVE  IsEnvironment(WithReplacedFunctions(e, m, replace).v)
  <2>1. Overlay(m, e.base) \in Registries
    BY <1>1, MapsAreRegistries, OverlayKeeps
  <2>2. WithReplacedFunctions(e, m, replace) =
          NewEnvironment(Overlay(m, e.base), e.extensions, e.python, e.sandbox)
    BY <1>3 DEF WithReplacedFunctions, Error
  <2>3. QED
    BY <1>1, <1>3, <2>1, <2>2, NewEnvironments
<1>4. QED
  BY <1>2, <1>3

----------------------------------------------------------------------------
(* Templates                                                                *)

\* The programs that a template with this registry and sandbox may hold.
Accepted(functions, sandbox) ==
    {p \in Programs : Compiles(p.source, functions) /\ FitsPolicy(sandbox, p.source)}

\* The registries a template may have.
IsLibrary(functions, python, sandbox) ==
    /\ functions \in Registries /\ python \in SUBSET Categories /\ sandbox \in Policies
    /\ Allows(sandbox, functions)
    /\ \A f \in DOMAIN FunctionMap(python) : f \in DOMAIN functions /\ functions[f] = Python(f)

IsText(t) ==
    /\ t = Template(t.program, t.namespace, t, t.functions)
    /\ IsLibrary(t.functions, t.python, t.sandbox)
    /\ t.program \in Accepted(t.functions, t.sandbox)
    /\ t.namespace \in Namespaces(Accepted(t.functions, t.sandbox), {t.program.name})

IsHtml(t) == IsText(t.text) /\ InitializeHtml(t.text) = Built(t)

IsTemplate(t) == \/ t.kind = "text" /\ IsText(t)
                 \/ t.kind = "html" /\ IsHtml(t)

\* A source that compiles is a source of accepted programs.
LEMMA AcceptedSource ==
    ASSUME NEW functions, NEW sandbox, NEW s \in Sources, NEW name \in STRING,
           Compiles(s, functions), FitsPolicy(sandbox, s)
    PROVE  /\ Root(s, name) \in Accepted(functions, sandbox)
           /\ Definitions(s) \in Seq(Accepted(functions, sandbox))
<1> DEFINE ds == Definitions(s)
<1>1. /\ Root(s, name) \in Programs /\ ds \in Seq(Programs)
      /\ \A i \in 1..Len(ds) : ds[i].source = s
  BY SourcePrograms
<1>2. Root(s, name).source = s
  BY DEF Root, Program
<1> HIDE DEF ds
<1>3. \A i \in 1..Len(ds) : ds[i] \in Accepted(functions, sandbox)
  BY <1>1 DEF Accepted
<1>4. ds \in Seq(Accepted(functions, sandbox))
  BY <1>1, <1>3
<1>5. QED
  BY <1>1, <1>2, <1>4 DEF Accepted, ds

\* What a template keeps of what it is made from.
LEMMA TemplateFields ==
    ASSUME NEW program, NEW namespace, NEW e, NEW functions
    PROVE  LET t == Template(program, namespace, e, functions)
           IN  /\ t.kind = "text" /\ t.program = program /\ t.namespace = namespace
               /\ t.python = e.python /\ t.sandbox = e.sandbox /\ t.functions = functions
               /\ t.runtime = ExecutionFunctionRegistry(functions, e.sandbox)
               /\ t.linked.namespace = LinkedNamespace(program, namespace)
               /\ t = Template(program, namespace, t, functions)
<1> DEFINE t == Template(program, namespace, e, functions)
<1>1. t.linked = LinkAssociation(program, namespace, t.runtime, TRUE)
  BY DEF Template
<1>2. t.linked.namespace = LinkedNamespace(program, namespace)
  BY <1>1 DEF LinkAssociation
<1>3. /\ t.kind = "text" /\ t.program = program /\ t.namespace = namespace
      /\ t.python = e.python /\ t.sandbox = e.sandbox /\ t.functions = functions
      /\ t.runtime = ExecutionFunctionRegistry(functions, e.sandbox)
  BY DEF Template
<1>4. t = Template(program, namespace, t, functions)
  BY <1>3 DEF Template
<1> HIDE DEF t
<1>5. QED
  BY <1>2, <1>3, <1>4 DEF t

LEMMA TemplateIsText ==
    ASSUME NEW program, NEW namespace, NEW e, NEW functions,
           IsLibrary(functions, e.python, e.sandbox),
           program \in Accepted(functions, e.sandbox),
           namespace \in Namespaces(Accepted(functions, e.sandbox), {program.name})
    PROVE  /\ IsText(Template(program, namespace, e, functions))
           /\ IsTemplate(Template(program, namespace, e, functions))
<1> DEFINE t == Template(program, namespace, e, functions)
<1>1. /\ t.kind = "text" /\ t.program = program /\ t.namespace = namespace
      /\ t.python = e.python /\ t.sandbox = e.sandbox /\ t.functions = functions
      /\ t = Template(program, namespace, t, functions)
  BY TemplateFields
<1> HIDE DEF t
<1>2. IsText(t)
  BY <1>1 DEF IsText
<1>3. QED
  BY <1>1, <1>2 DEF IsTemplate, t

LEMMA NewTemplates ==
    ASSUME NEW e, IsEnvironment(e), NEW s \in Sources, NEW name \in STRING,
           NewTemplate(s, name, e).ok
    PROVE  LET functions == Overlay(FunctionMap(e.python), e.functions)
           IN  /\ IsLibrary(functions, e.python, e.sandbox)
               /\ Root(s, name) \in Accepted(functions, e.sandbox)
               /\ FirstNamespace(s, name) \in Namespaces(Accepted(functions, e.sandbox), {name})
               /\ NewTemplate(s, name, e) =
                     Built(Template(Root(s, name), FirstNamespace(s, name), e, functions))
<1> DEFINE native == FunctionMap(e.python)
           functions == Overlay(native, e.functions)
           P == Accepted(functions, e.sandbox)
<1>1. /\ FitsPolicy(e.sandbox, s) /\ Allows(e.sandbox, functions) /\ Compiles(s, functions)
      /\ NewTemplate(s, name, e) =
            Built(Template(Root(s, name), FirstNamespace(s, name), e, functions))
  BY DEF NewTemplate, Error
<1>2. e.functions \in Registries /\ e.python \in SUBSET Categories /\ e.sandbox \in Policies
  BY DEF IsEnvironment
<1>3. native \in Registries /\ \A f \in DOMAIN native : native[f] = Python(f)
  BY <1>2, NativeTypes
<1>4. /\ functions \in Registries /\ DOMAIN functions = DOMAIN native \cup DOMAIN e.functions
      /\ \A f \in DOMAIN native : functions[f] = native[f]
  <2> HIDE DEF native
  <2>1. QED
    BY <1>2, <1>3, OverlayKeeps
<1> HIDE DEF functions
<1>5. IsLibrary(functions, e.python, e.sandbox)
  BY <1>1, <1>2, <1>3, <1>4 DEF IsLibrary
<1>6. Root(s, name) \in P /\ Definitions(s) \in Seq(P) /\ P \in SUBSET Programs
  <2>1. P \in SUBSET Programs
    BY DEF Accepted
  <2>2. QED
    BY <1>1, <2>1, AcceptedSource
<1>7. FirstNamespace(s, name) \in Namespaces(P, {name})
  <2> HIDE DEF P
  <2>1. QED
    BY <1>6, FirstNamespaceKeeps
<1>8. QED
  BY <1>1, <1>5, <1>6, <1>7 DEF functions

\* from_sources: what the sources join, and what they may come to.
Library(e) == Overlay(FunctionMap(e.python), e.functions)

Joined(e, root, ns) == Built(Template(root, ns, e, Library(e)))

Joinable(e, root, ok) ==
    {Joined(e, root, ns) :
        ns \in {ns \in Namespaces(Accepted(Library(e), e.sandbox), {root.name}) : ok}}
    \cup {Error(x) : x \in {"sandbox", "syntax", "collision"}}

SourceItems == [source : Sources, name : STRING]

\* a is ns joined with the first source's program, which did not fail.
IsJoined(a, e, root, ok, ns) ==
    /\ ok /\ a = Joined(e, root, ns)
    /\ ns \in Namespaces(Accepted(Library(e), e.sandbox), {root.name})

Joins(a, item, e, root, ok, ns) ==
    /\ IsJoined(a, e, root, ok, ns)
    /\ IsJoined(AddItem(a, item), e, root, ok, AddSource(ns, item.source, item.name))
    /\ Root(item.source, item.name) \in Accepted(Library(e), e.sandbox)
    /\ Definitions(item.source) \in Seq(Accepted(Library(e), e.sandbox))

\* What has not failed has the first source's program and a namespace.
LEMMA JoinedSoFar ==
    ASSUME NEW e, NEW root, NEW ok, NEW a \in Joinable(e, root, ok), a.ok
    PROVE  \E ns : IsJoined(a, e, root, ok, ns)
<1> DEFINE Errors == {Error(x) : x \in {"sandbox", "syntax", "collision"}}
           N == Namespaces(Accepted(Library(e), e.sandbox), {root.name})
           Texts == {Joined(e, root, ns) : ns \in {ns \in N : ok}}
<1>1. \A b \in Errors : ~b.ok
  BY DEF Error
<1>2. \A b \in Texts : \E ns \in N : ok /\ b = Joined(e, root, ns)
  <2> HIDE DEF N
  <2>1. QED
    OBVIOUS
<1>3. a \in Texts \/ a \in Errors
  BY DEF Joinable
<1> HIDE DEF Texts, Errors, N
<1>4. \E ns \in N : ok /\ a = Joined(e, root, ns)
  BY <1>1, <1>2, <1>3
<1>5. QED
  BY <1>4 DEF N, IsJoined

\* A source that joins adds to the namespace, and to nothing else.
LEMMA OneJoin ==
    ASSUME NEW e, NEW root, NEW ok, NEW a \in Joinable(e, root, ok), NEW item \in SourceItems,
           AddItem(a, item).ok
    PROVE  \E ns : Joins(a, item, e, root, ok, ns)
<1> DEFINE functions == Library(e)
           P == Accepted(functions, e.sandbox)
           N == {root.name}
<1>1. a.ok
  BY DEF AddItem
<1>2. PICK ns : IsJoined(a, e, root, ok, ns)
  BY <1>1, JoinedSoFar
<1>3. ok /\ a = Joined(e, root, ns) /\ ns \in Namespaces(P, N)
  BY <1>2 DEF IsJoined
<1> DEFINE t == Template(root, ns, e, functions)
           more == AddSource(ns, item.source, item.name)
<1>4. a.v = t
  BY <1>3 DEF Joined, Built
<1>5. /\ t.program = root /\ t.namespace = ns /\ t.functions = functions
      /\ t.sandbox = e.sandbox /\ t.python = e.python
  BY TemplateFields
<1> HIDE DEF t, functions
<1>6. /\ FitsPolicy(e.sandbox, item.source) /\ Compiles(item.source, functions)
      /\ AddItem(a, item) = Built(Template(root, more, t, functions))
  BY <1>1, <1>4, <1>5 DEF AddItem, Error
<1>7. Template(root, more, t, functions) = Template(root, more, e, functions)
  BY <1>5 DEF Template
<1>8. item.source \in Sources /\ item.name \in STRING
  BY DEF SourceItems
<1>9. Root(item.source, item.name) \in P /\ Definitions(item.source) \in Seq(P)
  BY <1>6, <1>8, AcceptedSource
<1>10. P \in SUBSET Programs
  BY DEF Accepted
<1> HIDE DEF P
<1>11. more \in Namespaces(P, N)
  <2>1. more \in Namespaces(P, N \cup {item.name})
    <3> HIDE DEF N
    <3>1. QED
      BY <1>3, <1>8, <1>9, <1>10, AddSourceKeeps
  <2>2. QED
    BY <2>1 DEF Namespaces
<1>12. AddItem(a, item) = Joined(e, root, more)
  BY <1>6, <1>7 DEF Joined, functions
<1>13. IsJoined(AddItem(a, item), e, root, ok, more)
  BY <1>11, <1>12, <1>3 DEF IsJoined, P, N, functions
<1>14. QED
  BY <1>2, <1>9, <1>13 DEF Joins, P, functions

LEMMA JoiningIsClosed ==
    ASSUME NEW e, NEW root, NEW ok
    PROVE  Joining!Closed(Joinable(e, root, ok), SourceItems)
<1> SUFFICES ASSUME NEW a \in Joinable(e, root, ok), NEW item \in SourceItems
             PROVE  AddItem(a, item) \in Joinable(e, root, ok)
  BY DEF Joining!Closed
<1>1. CASE AddItem(a, item).ok
  <2> DEFINE N == Namespaces(Accepted(Library(e), e.sandbox), {root.name})
  <2>1. PICK ns : Joins(a, item, e, root, ok, ns)
    BY <1>1, OneJoin
  <2> DEFINE more == AddSource(ns, item.source, item.name)
  <2> HIDE DEF more
  <2>2. ok /\ more \in N /\ AddItem(a, item) = Joined(e, root, more)
    BY <2>1 DEF Joins, IsJoined, more
  <2> HIDE DEF N
  <2>3. AddItem(a, item) \in {Joined(e, root, n) : n \in {n \in N : ok}}
    BY <2>2
  <2>4. QED
    BY <2>3 DEF Joinable, N
<1>2. CASE ~AddItem(a, item).ok
  <2>1. AddItem(a, item) = a \/ AddItem(a, item) \in {Error("sandbox"), Error("syntax")}
    BY <1>2 DEF AddItem, Built
  <2>2. {Error("sandbox"), Error("syntax")} \subseteq Joinable(e, root, ok)
    BY DEF Joinable
  <2>3. QED
    BY <2>1, <2>2
<1>3. QED
  BY <1>1, <1>2

\* The values that from_sources goes through.
FirstRoot(items) == Root(items[1].source, items[1].name)

FirstBuilt(items, e) == NewTemplate(items[1].source, items[1].name, e)

LEMMA JoiningGoes ==
    ASSUME NEW e, IsEnvironment(e), NEW items \in Seq(SourceItems), Len(items) > 0
    PROVE  /\ Tail(items) \in Seq(SourceItems) /\ items[1] \in SourceItems
           /\ FirstBuilt(items, e) \in Joinable(e, FirstRoot(items), FirstBuilt(items, e).ok)
           /\ \E f : Joining!Goes(f, FirstBuilt(items, e), Tail(items),
                                  Joinable(e, FirstRoot(items), FirstBuilt(items, e).ok))
           /\ FromSources(items, e) = Joining!Folded(FirstBuilt(items, e), Tail(items))
<1> DEFINE first == FirstBuilt(items, e)
           root == FirstRoot(items)
           V == Joinable(e, root, first.ok)
           more == Tail(items)
<1>1. items[1] \in SourceItems /\ more \in Seq(SourceItems)
  <2>1. items \in Seq(SourceItems) /\ 1 \in 1..Len(items)
    OBVIOUS
  <2>2. items[1] \in SourceItems
    BY <2>1
  <2>3. items # <<>>
    BY <2>1
  <2>4. Tail(items) \in Seq(SourceItems)
    BY <2>1, <2>3
  <2>5. QED
    BY <2>2, <2>4
<1>2. items[1].source \in Sources /\ items[1].name \in STRING /\ root.name = items[1].name
  BY <1>1 DEF FirstRoot, Root, Program, SourceItems
<1>3. first \in V
  <2>1. CASE first.ok
    <3> DEFINE N == Namespaces(Accepted(Library(e), e.sandbox), {root.name})
               ns == FirstNamespace(items[1].source, items[1].name)
    <3>1. ns \in N /\ first = Joined(e, root, ns)
      BY <1>2, <2>1, NewTemplates DEF FirstBuilt, FirstRoot, Library, Joined
    <3> HIDE DEF N, ns, first, root
    <3>2. first \in {Joined(e, root, n) : n \in {n \in N : first.ok}}
      BY <2>1, <3>1
    <3>3. QED
      BY <3>2 DEF Joinable, N
  <2>2. CASE ~first.ok
    <3>1. first \in {Error(x) : x \in {"sandbox", "syntax", "collision"}}
      BY <2>2 DEF FirstBuilt, NewTemplate, Built
    <3>2. QED
      BY <3>1 DEF Joinable
  <2>3. QED
    BY <2>1, <2>2
<1>4. Joining!Closed(V, SourceItems)
  BY JoiningIsClosed
<1>5. FromSources(items, e) = Joining!Folded(first, more)
  BY FromSourcesFolds DEF FirstBuilt
<1> HIDE DEF V, first, more
<1>6. \E f : Joining!Goes(f, first, more, V)
  BY <1>1, <1>3, <1>4, Joining!FoldSteps
<1>7. QED
  BY <1>1, <1>3, <1>5, <1>6 DEF V, first, more

\* A template's own program and names stay while sources join it.
LEMMA JoinedTemplates ==
    ASSUME NEW e, IsEnvironment(e), NEW items \in Seq(SourceItems),
           Len(items) > 0, FromSources(items, e).ok
    PROVE  LET root == FirstRoot(items)
           IN  /\ IsLibrary(Library(e), e.python, e.sandbox)
               /\ root \in Accepted(Library(e), e.sandbox)
               /\ \E ns \in Namespaces(Accepted(Library(e), e.sandbox), {root.name}) :
                    FromSources(items, e) = Joined(e, root, ns)
<1> DEFINE first == FirstBuilt(items, e)
           root == FirstRoot(items)
           V == Joinable(e, root, first.ok)
           more == Tail(items)
<1>1. /\ more \in Seq(SourceItems) /\ items[1] \in SourceItems
      /\ FromSources(items, e) = Joining!Folded(first, more)
      /\ \E f : Joining!Goes(f, first, more, V)
  BY JoiningGoes
<1>2. FromSources(items, e) \in V
  <2> HIDE DEF V, first, more
  <2>1. PICK f : Joining!Goes(f, first, more, V)
    BY <1>1
  <2>2. Len(more) \in 0..Len(more)
    BY <1>1
  <2>3. QED
    BY <1>1, <2>1, <2>2 DEF Joining!Goes
<1>3. PICK ns \in Namespaces(Accepted(Library(e), e.sandbox), {root.name}) :
         first.ok /\ FromSources(items, e) = Joined(e, root, ns)
  <2> DEFINE ok == first.ok
             all == FromSources(items, e)
  <2> HIDE DEF first, root, ok, all
  <2>1. all \in Joinable(e, root, ok) /\ all.ok
    BY <1>2 DEF ok, all
  <2>2. PICK ns : IsJoined(all, e, root, ok, ns)
    BY <2>1, JoinedSoFar
  <2>3. QED
    BY <2>2 DEF IsJoined, ok, all
<1>4. items[1].source \in Sources /\ items[1].name \in STRING
  BY <1>1 DEF SourceItems
<1>5. IsLibrary(Library(e), e.python, e.sandbox) /\ root \in Accepted(Library(e), e.sandbox)
  BY <1>3, <1>4, NewTemplates DEF FirstBuilt, FirstRoot, Library
<1>6. QED
  BY <1>3, <1>5

LEMMA TextFields ==
    ASSUME NEW t, IsText(t)
    PROVE  /\ t.kind = "text" /\ IsLibrary(t.functions, t.python, t.sandbox)
           /\ t.runtime = ExecutionFunctionRegistry(t.functions, t.sandbox)
           /\ t.linked.namespace = LinkedNamespace(t.program, t.namespace)
           /\ t.program \in Accepted(t.functions, t.sandbox)
           /\ t.namespace \in Namespaces(Accepted(t.functions, t.sandbox), {t.program.name})
<1> DEFINE u == Template(t.program, t.namespace, t, t.functions)
<1>1. /\ u.kind = "text" /\ u.runtime = ExecutionFunctionRegistry(t.functions, t.sandbox)
      /\ u.linked.namespace = LinkedNamespace(t.program, t.namespace)
  BY TemplateFields
<1>2. t = u
  BY DEF IsText
<1> HIDE DEF u
<1>3. QED
  BY <1>1, <1>2 DEF IsText

\* with_source: the new source's body is the template's own program.
LEMMA WithSources ==
    ASSUME NEW t, IsText(t), NEW s \in Sources, NEW name \in STRING, WithSource(t, s, name).ok
    PROVE  IsText(WithSource(t, s, name).v)
<1> DEFINE P == Accepted(t.functions, t.sandbox)
           root == Root(s, name)
           more == AddSource(t.namespace, s, name)
<1>1. /\ FitsPolicy(t.sandbox, s) /\ Compiles(s, t.functions)
      /\ WithSource(t, s, name) = Built(Template(root, more, t, t.functions))
  BY DEF WithSource, Error
<1>2. /\ IsLibrary(t.functions, t.python, t.sandbox)
      /\ t.namespace \in Namespaces(P, {t.program.name})
  BY TextFields
<1>3. root \in P /\ Definitions(s) \in Seq(P) /\ root.name = name
  BY <1>1, AcceptedSource DEF Root, Program
<1>4. more \in Namespaces(P, {t.program.name} \cup {name})
  <2> DEFINE N == {t.program.name}
             ns == t.namespace
  <2>1. P \in SUBSET Programs
    BY DEF Accepted
  <2>2. ns \in Namespaces(P, N)
    BY <1>2
  <2> HIDE DEF P, N, ns
  <2>3. AddSource(ns, s, name) \in Namespaces(P, N \cup {name})
    BY <1>3, <2>1, <2>2, AddSourceKeeps
  <2>4. QED
    BY <2>3 DEF N, ns
<1>5. more \in Namespaces(P, {root.name})
  BY <1>3, <1>4 DEF Namespaces
<1>6. IsText(Template(root, more, t, t.functions))
  <2> HIDE DEF root, more
  <2>1. QED
    BY <1>2, <1>3, <1>5, TemplateIsText
<1>7. QED
  BY <1>1, <1>6 DEF Built

\* with_functions: what was accepted still is, for functions are only added.
LEMMA WithMoreFunctions ==
    ASSUME NEW t, IsText(t), NEW m \in Registrations, WithFunctions(t, m).ok
    PROVE  IsText(WithFunctions(t, m).v)
<1> DEFINE registry == Overlay(m, t.functions)
           native == FunctionMap(t.python)
           P == Accepted(t.functions, t.sandbox)
           Q == Accepted(registry, t.sandbox)
<1>1. /\ DOMAIN m \cap DOMAIN native = {} /\ Allows(t.sandbox, registry)
      /\ WithFunctions(t, m) = Built(Template(t.program, t.namespace, t, registry))
  BY DEF WithFunctions, Error
<1>2. /\ IsLibrary(t.functions, t.python, t.sandbox) /\ t.program \in P
      /\ t.namespace \in Namespaces(P, {t.program.name})
  BY TextFields
<1>3. /\ t.functions \in Registries /\ t.python \in SUBSET Categories /\ t.sandbox \in Policies
      /\ \A f \in DOMAIN native : f \in DOMAIN t.functions /\ t.functions[f] = Python(f)
  BY <1>2 DEF IsLibrary
<1>4. /\ registry \in Registries /\ DOMAIN registry = DOMAIN m \cup DOMAIN t.functions
      /\ \A f \in DOMAIN t.functions : f \notin DOMAIN m => registry[f] = t.functions[f]
  BY <1>3, MapsAreRegistries, OverlayKeeps
<1> HIDE DEF registry
<1>5. IsLibrary(registry, t.python, t.sandbox)
  BY <1>1, <1>3, <1>4 DEF IsLibrary
<1>6. P \subseteq Q
  BY <1>4 DEF Accepted, Compiles
<1>7. t.program \in Q /\ t.namespace \in Namespaces(Q, {t.program.name})
  <2>1. PICK D \in SUBSET STRING : {t.program.name} \subseteq D /\ t.namespace \in [D -> P]
    BY <1>2 DEF Namespaces
  <2>2. t.namespace \in [D -> Q]
    BY <1>6, <2>1
  <2>3. QED
    BY <1>2, <1>6, <2>1, <2>2 DEF Namespaces
<1>8. IsText(Template(t.program, t.namespace, t, registry))
  BY <1>5, <1>7, TemplateIsText
<1>9. QED
  BY <1>1, <1>8 DEF Built, registry

\* HTML: what a text template is analyzed into.
LEMMA AnalyzedTexts ==
    ASSUME NEW b, b.ok => IsText(b.v), Analyzed(b).ok
    PROVE  IsTemplate(Analyzed(b).v)
<1> DEFINE h == InitializeHtml(b.v)
<1>1. b.ok /\ Analyzed(b) = h
  BY DEF Analyzed
<1>2. h.ok
  BY <1>1
<1>3. h = Built(h.v) /\ h.v.kind = "html" /\ h.v.text = b.v
  BY <1>2 DEF InitializeHtml, Error, Built
<1> HIDE DEF h
<1>4. h = InitializeHtml(b.v)
  BY DEF h
<1>5. IsHtml(h.v)
  BY <1>1, <1>3, <1>4 DEF IsHtml
<1>6. QED
  BY <1>1, <1>3, <1>5 DEF IsTemplate

LEMMA DerivedTemplates ==
    ASSUME NEW t, IsTemplate(t)
    PROVE  /\ \A s \in Sources, name \in STRING :
                Derived(t, s, name).ok => IsTemplate(Derived(t, s, name).v)
           /\ \A m \in Registrations : Extended(t, m).ok => IsTemplate(Extended(t, m).v)
<1>1. CASE t.kind = "text" /\ IsText(t)
  <2>1. ASSUME NEW s \in Sources, NEW name \in STRING, Derived(t, s, name).ok
        PROVE  IsTemplate(Derived(t, s, name).v)
    <3>1. IsText(Derived(t, s, name).v)
      BY <1>1, <2>1, WithSources DEF Derived
    <3>2. QED
      BY <3>1, TextFields DEF IsTemplate
  <2>2. ASSUME NEW m \in Registrations, Extended(t, m).ok
        PROVE  IsTemplate(Extended(t, m).v)
    <3>1. IsText(Extended(t, m).v)
      BY <1>1, <2>2, WithMoreFunctions DEF Extended
    <3>2. QED
      BY <3>1, TextFields DEF IsTemplate
  <2>3. QED
    BY <2>1, <2>2
<1>2. CASE t.kind = "html" /\ IsHtml(t)
  <2> DEFINE u == t.text
  <2>1. IsText(u)
    BY <1>2 DEF IsHtml
  <2> HIDE DEF u
  <2>2. ASSUME NEW s \in Sources, NEW name \in STRING, Derived(t, s, name).ok
        PROVE  IsTemplate(Derived(t, s, name).v)
    <3> DEFINE b == WithSource(u, s, name)
    <3>1. b.ok => IsText(b.v)
      BY <2>1, WithSources
    <3>2. Derived(t, s, name) = Analyzed(b)
      BY <1>2 DEF Derived, u
    <3> HIDE DEF b
    <3>3. QED
      BY <2>2, <3>1, <3>2, AnalyzedTexts
  <2>3. ASSUME NEW m \in Registrations, Extended(t, m).ok
        PROVE  IsTemplate(Extended(t, m).v)
    <3> DEFINE b == WithFunctions(u, m)
    <3>1. b.ok => IsText(b.v)
      BY <2>1, WithMoreFunctions
    <3>2. Extended(t, m) = Analyzed(b)
      BY <1>2 DEF Extended, u
    <3> HIDE DEF b
    <3>3. QED
      BY <2>3, <3>1, <3>2, AnalyzedTexts
  <2>4. QED
    BY <2>2, <2>3
<1>3. QED
  BY <1>1, <1>2 DEF IsTemplate

\* from_string and from_sources give a text template, analyzed or not.
LEMMA CompiledTexts ==
    ASSUME NEW e, IsEnvironment(e)
    PROVE  /\ \A s \in Sources, name \in STRING :
                NewTemplate(s, name, e).ok => IsText(NewTemplate(s, name, e).v)
           /\ \A items \in Seq(SourceItems) :
                Len(items) > 0 /\ FromSources(items, e).ok => IsText(FromSources(items, e).v)
<1> DEFINE functions == Library(e)
<1>1. ASSUME NEW s \in Sources, NEW name \in STRING, NewTemplate(s, name, e).ok
      PROVE  IsText(NewTemplate(s, name, e).v)
  <2> DEFINE root == Root(s, name)
             first == FirstNamespace(s, name)
  <2>1. root.name = name
    BY DEF Root, Program
  <2>2. /\ IsLibrary(functions, e.python, e.sandbox) /\ root \in Accepted(functions, e.sandbox)
        /\ first \in Namespaces(Accepted(functions, e.sandbox), {root.name})
        /\ NewTemplate(s, name, e) = Built(Template(root, first, e, functions))
    BY <1>1, <2>1, NewTemplates DEF Library
  <2> HIDE DEF functions, root, first
  <2>3. IsText(Template(root, first, e, functions))
    BY <2>2, TemplateIsText
  <2>4. QED
    BY <2>2, <2>3 DEF Built
<1>2. ASSUME NEW items \in Seq(SourceItems), Len(items) > 0, FromSources(items, e).ok
      PROVE  IsText(FromSources(items, e).v)
  <2> DEFINE root == FirstRoot(items)
  <2>1. /\ IsLibrary(functions, e.python, e.sandbox) /\ root \in Accepted(functions, e.sandbox)
        /\ \E ns \in Namespaces(Accepted(functions, e.sandbox), {root.name}) :
             FromSources(items, e) = Built(Template(root, ns, e, functions))
    BY <1>2, JoinedTemplates DEF Joined
  <2> HIDE DEF functions, root
  <2>2. PICK ns \in Namespaces(Accepted(functions, e.sandbox), {root.name}) :
           FromSources(items, e) = Built(Template(root, ns, e, functions))
    BY <2>1
  <2>3. IsText(Template(root, ns, e, functions))
    BY <2>1, <2>2, TemplateIsText
  <2>4. QED
    BY <2>2, <2>3 DEF Built
<1>3. QED
  BY <1>1, <1>2

----------------------------------------------------------------------------
(* What every reachable environment, template and render is                 *)

IsRender(r) ==
    /\ IsTemplate(r.of) /\ r.names \in Seq(STRING) /\ r.async \in BOOLEAN
    /\ r.result = ResultOf(r.of, r.names, r.async)

ChainInv ==
    /\ environment # None => IsEnvironment(environment)
    /\ template # None => IsTemplate(template)
    /\ rendered # None => IsRender(rendered)

LEMMA ResolvedPython ==
    ASSUME NEW selection \in {"none", "common", "all"} \cup Categories
    PROVE  ResolvePython(selection) \in SUBSET Categories
BY DEF ResolvePython

LEMMA ItemTypes ==
    ASSUME NEW items \in Items
    PROVE  items \in Seq(SourceItems) /\ Len(items) > 0
<1>1. PICK n \in 1..MaxSources : items \in [1..n -> [source : Sources, name : Names]]
  BY DEF Items
<1>2. Names \subseteq STRING /\ MaxSources \in Nat
  BY AssociationsAssumption DEF AssociationsAssumption
<1> DEFINE F == [source : Sources, name : Names]
<1>3. F \subseteq SourceItems
  BY <1>2 DEF SourceItems
<1>4. items \in [1..n -> F] /\ n \in Nat \ {0}
  BY <1>1, <1>2
<1> HIDE DEF F
<1>5. items \in [1..n -> SourceItems]
  BY <1>3, <1>4
<1>6. items \in Seq(SourceItems) /\ Len(items) = n
  BY <1>4, <1>5
<1>7. QED
  BY <1>4, <1>6

\* A template's kind of construction keeps it a template.
LEMMA TemplatesOfKind ==
    ASSUME NEW b, b.ok => IsText(b.v), NEW kind \in Kinds, OfKind(kind, b).ok
    PROVE  IsTemplate(OfKind(kind, b).v)
<1>1. CASE kind = "text"
  BY <1>1, TextFields DEF OfKind, IsTemplate
<1>2. CASE kind = "html"
  <2>1. OfKind(kind, b) = Analyzed(b)
    BY <1>2 DEF OfKind, Error
  <2>2. QED
    BY <2>1, AnalyzedTexts
<1>3. QED
  BY <1>1, <1>2 DEF Kinds

LEMMA OneElement ==
    ASSUME NEW S, NEW x \in S
    PROVE  <<x>> \in Seq(S)
OBVIOUS

LEMMA ChainInit ==
    Init => ChainInv
BY DEF Init, ChainInv

\* A construction keeps the invariant when its result is an environment.
LEMMA EnvironsKeep ==
    ASSUME ChainInv, NEW b, b.ok => IsEnvironment(b.v), Environs(b)
    PROVE  ChainInv'
BY DEF ChainInv, Environs, Raises, vars

LEMMA CompiledKeeps ==
    ASSUME ChainInv, NEW b, b.ok => IsTemplate(b.v), NEW items, Compiled(b, items)
    PROVE  ChainInv'
BY DEF ChainInv, Compiled, Raises, vars

LEMMA RendersKeep ==
    ASSUME ChainInv, NEW t, IsTemplate(t), NEW names \in Seq(STRING), NEW async \in BOOLEAN,
           Renders(t, names, async)
    PROVE  ChainInv'
<1>1. IsRender([of |-> t, names |-> names, async |-> async, result |-> ResultOf(t, names, async)])
  BY DEF IsRender
<1>2. QED
  BY <1>1 DEF ChainInv, Renders

LEMMA ChainStep ==
    ChainInv /\ [Next]_vars => ChainInv'
<1> SUFFICES ASSUME ChainInv, [Next]_vars
             PROVE  ChainInv'
  OBVIOUS
<1>1. Names \subseteq STRING
  BY AssociationsAssumption DEF AssociationsAssumption
<1>2. CASE UNCHANGED vars
  BY <1>2 DEF ChainInv, vars
<1>3. CASE Construct
  <2>1. PICK base \in Registrations, selection \in {"none", "common", "all"} \cup Categories,
             policy \in Policies :
               Environs(NewEnvironment(base, <<>>, ResolvePython(selection), policy))
    BY <1>3 DEF Construct
  <2> DEFINE b == NewEnvironment(base, <<>>, ResolvePython(selection), policy)
  <2>2. base \in Registries /\ <<>> \in Seq(Extensions) /\ ResolvePython(selection) \in SUBSET Categories
    BY MapsAreRegistries, ResolvedPython
  <2>3. b.ok => IsEnvironment(b.v)
    BY <2>2, NewEnvironments
  <2> HIDE DEF b
  <2>4. Environs(b)
    BY <2>1 DEF b
  <2>5. QED
    BY <2>3, <2>4, EnvironsKeep
<1>4. CASE EnvironmentWithExtension
  <2>1. PICK x \in Extensions : Environs(WithExtensions(environment, x))
    BY <1>4 DEF EnvironmentWithExtension
  <2>2. WithExtensions(environment, x).ok => IsEnvironment(WithExtensions(environment, x).v)
    BY <1>4, DerivedEnvironments DEF ChainInv, EnvironmentWithExtension, Configuring
  <2>3. QED
    BY <2>1, <2>2, EnvironsKeep
<1>5. CASE EnvironmentWithFunctions
  <2>1. PICK m \in Registrations, replace \in BOOLEAN :
           Environs(WithReplacedFunctions(environment, m, replace))
    BY <1>5 DEF EnvironmentWithFunctions
  <2>2. WithReplacedFunctions(environment, m, replace).ok =>
           IsEnvironment(WithReplacedFunctions(environment, m, replace).v)
    BY <1>5, DerivedEnvironments DEF ChainInv, EnvironmentWithFunctions, Configuring
  <2>3. QED
    BY <2>1, <2>2, EnvironsKeep
<1>6. ASSUME Configuring
      PROVE  IsEnvironment(environment)
  BY <1>6 DEF ChainInv, Configuring
<1>7. ASSUME Ready
      PROVE  IsTemplate(template)
  BY <1>7 DEF ChainInv, Ready
<1>8. CASE RenderString
  <2>1. PICK s \in Sources, name \in Names, async \in BOOLEAN :
           RenderNow(NewTemplate(s, name, environment), async)
    BY <1>8 DEF RenderString
  <2> DEFINE b == NewTemplate(s, name, environment)
  <2>2. b.ok => IsText(b.v)
    BY <1>1, <1>6, <1>8, CompiledTexts DEF RenderString
  <2>3. b.ok => IsTemplate(b.v)
    BY <2>2, TextFields DEF IsTemplate
  <2> HIDE DEF b
  <2>4. RenderNow(b, async)
    BY <2>1 DEF b
  <2>5. CASE Raises(b)
    BY <2>5 DEF ChainInv, Raises, vars
  <2>6. CASE b.ok /\ Renders(b.v, <<>>, async)
    <3>1. <<>> \in Seq(STRING)
      OBVIOUS
    <3>2. QED
      BY <2>3, <2>6, <3>1, RendersKeep
  <2>7. QED
    BY <2>4, <2>5, <2>6 DEF RenderNow
<1>9. CASE RenderHtmlString
  <2>1. PICK s \in Sources, name \in Names, async \in BOOLEAN :
           RenderNow(Analyzed(NewTemplate(s, name, environment)), async)
    BY <1>9 DEF RenderHtmlString
  <2> DEFINE b == NewTemplate(s, name, environment)
             h == Analyzed(b)
  <2>2. b.ok => IsText(b.v)
    BY <1>1, <1>6, <1>9, CompiledTexts DEF RenderHtmlString
  <2>3. RenderNow(h, async)
    BY <2>1
  <2> HIDE DEF b
  <2>4. h.ok => IsTemplate(h.v)
    BY <2>2, AnalyzedTexts
  <2> HIDE DEF h
  <2>5. CASE Raises(h)
    BY <2>5 DEF ChainInv, Raises, vars
  <2>6. CASE h.ok /\ Renders(h.v, <<>>, async)
    <3>1. <<>> \in Seq(STRING)
      OBVIOUS
    <3>2. QED
      BY <2>4, <2>6, <3>1, RendersKeep
  <2>7. QED
    BY <2>3, <2>5, <2>6 DEF RenderNow
<1>10. CASE FromString
  <2>1. PICK kind \in Kinds, s \in Sources, name \in Names :
           Compiled(OfKind(kind, NewTemplate(s, name, environment)),
                    <<[source |-> s, name |-> name]>>)
    BY <1>10 DEF FromString
  <2> DEFINE b == NewTemplate(s, name, environment)
             k == OfKind(kind, b)
  <2>2. b.ok => IsText(b.v)
    BY <1>1, <1>6, <1>10, CompiledTexts DEF FromString
  <2>3. Compiled(k, <<[source |-> s, name |-> name]>>)
    BY <2>1
  <2> HIDE DEF b
  <2>4. k.ok => IsTemplate(k.v)
    BY <2>2, TemplatesOfKind
  <2> HIDE DEF k
  <2>5. QED
    BY <2>3, <2>4, CompiledKeeps
<1>11. CASE FromNamedSources
  <2>1. PICK kind \in Kinds, items \in Items :
           Compiled(OfKind(kind, FromSources(items, environment)), items)
    BY <1>11 DEF FromNamedSources
  <2> DEFINE b == FromSources(items, environment)
             k == OfKind(kind, b)
  <2>2. b.ok => IsText(b.v)
    BY <1>6, <1>11, ItemTypes, CompiledTexts DEF FromNamedSources
  <2>3. Compiled(k, items)
    BY <2>1
  <2> HIDE DEF b
  <2>4. k.ok => IsTemplate(k.v)
    BY <2>2, TemplatesOfKind
  <2> HIDE DEF k
  <2>5. QED
    BY <2>3, <2>4, CompiledKeeps
<1>12. CASE DeriveSource
  <2>1. PICK s \in Sources, name \in Names :
           Compiled(Derived(template, s, name), <<[source |-> s, name |-> name]>>)
    BY <1>12 DEF DeriveSource
  <2>2. Derived(template, s, name).ok => IsTemplate(Derived(template, s, name).v)
    BY <1>1, <1>7, <1>12, DerivedTemplates DEF DeriveSource
  <2>3. QED
    BY <2>1, <2>2, CompiledKeeps
<1>13. CASE DeriveFunctions
  <2>1. PICK m \in Registrations : Compiled(Extended(template, m), <<>>)
    BY <1>13 DEF DeriveFunctions
  <2>2. Extended(template, m).ok => IsTemplate(Extended(template, m).v)
    BY <1>7, <1>13, DerivedTemplates DEF DeriveFunctions
  <2>3. QED
    BY <2>1, <2>2, CompiledKeeps
<1>14. CASE RenderOwn
  <2>1. PICK async \in BOOLEAN : Renders(template, <<>>, async)
    BY <1>14 DEF RenderOwn
  <2>2. IsTemplate(template) /\ <<>> \in Seq(STRING)
    BY <1>7, <1>14 DEF RenderOwn
  <2>3. QED
    BY <2>1, <2>2, RendersKeep
<1>15. CASE RenderNamed
  <2>1. PICK name \in Names, async \in BOOLEAN : Renders(template, <<name>>, async)
    BY <1>15 DEF RenderNamed
  <2>2. IsTemplate(template)
    BY <1>7, <1>15 DEF RenderNamed
  <2>3. <<name>> \in Seq(STRING)
    <3>1. name \in STRING
      BY <1>1
    <3>2. QED
      BY <3>1, OneElement
  <2>4. QED
    BY <2>1, <2>2, <2>3, RendersKeep
<1>16. CASE RenderSource
  <2>1. PICK s \in Sources, name \in Names, async \in BOOLEAN :
           \/ Raises(Derived(template, s, name))
           \/ /\ Derived(template, s, name).ok
              /\ Renders(Derived(template, s, name).v, <<>>, async)
    BY <1>16 DEF RenderSource
  <2> DEFINE b == Derived(template, s, name)
  <2>2. b.ok => IsTemplate(b.v)
    BY <1>1, <1>7, <1>16, DerivedTemplates DEF RenderSource
  <2>3. Raises(b) \/ (b.ok /\ Renders(b.v, <<>>, async))
    BY <2>1
  <2> HIDE DEF b
  <2>4. CASE Raises(b)
    BY <2>4 DEF ChainInv, Raises, vars
  <2>5. CASE b.ok /\ Renders(b.v, <<>>, async)
    <3>1. <<>> \in Seq(STRING)
      OBVIOUS
    <3>2. QED
      BY <2>2, <2>5, <3>1, RendersKeep
  <2>6. QED
    BY <2>3, <2>4, <2>5
<1>17. CASE RenderContexts
  <2>1. PICK first \in Names, second \in Names, async \in BOOLEAN :
           Renders(template, <<first, second>>, async)
    BY <1>17 DEF RenderContexts
  <2>2. IsTemplate(template) /\ <<first, second>> \in Seq(STRING)
    BY <1>1, <1>7, <1>17 DEF RenderContexts
  <2>3. QED
    BY <2>1, <2>2, RendersKeep
<1>18. QED
  BY <1>2, <1>3, <1>4, <1>5, <1>8, <1>9, <1>10, <1>11, <1>12, <1>13, <1>14, <1>15, <1>16, <1>17
     DEF Next

LEMMA ChainIsTyped ==
    Spec => []ChainInv
<1>1. Init => ChainInv
  BY ChainInit
<1>2. ChainInv /\ [Next]_vars => ChainInv'
  BY ChainStep
<1>3. QED
  BY <1>1, <1>2, PTL DEF Spec

----------------------------------------------------------------------------
(* The registry a render resolves names in                                  *)

Withheld(sandbox) == IF sandbox = NoSandbox THEN {} ELSE {"call"}

\* The registry r is that of the functions and the builtins not withheld.
HasBuiltins(r, functions, sandbox) ==
    /\ DOMAIN r = (DOMAIN functions \cup BuiltinNames) \ Withheld(sandbox)
    /\ \A f \in DOMAIN r :
         r[f] = IF f \in DOMAIN functions THEN functions[f] ELSE Builtin(f)

LEMMA RuntimeRegistry ==
    ASSUME NEW functions, NEW sandbox
    PROVE  HasBuiltins(ExecutionFunctionRegistry(functions, sandbox), functions, sandbox)
<1> DEFINE builtins == [name \in BuiltinNames |-> Builtin(name)]
           all == Overlay(functions, builtins)
           r == ExecutionFunctionRegistry(functions, sandbox)
<1>1. /\ DOMAIN all = DOMAIN functions \cup BuiltinNames
      /\ \A f \in DOMAIN all :
           all[f] = IF f \in DOMAIN functions THEN functions[f] ELSE Builtin(f)
  <2>1. DOMAIN builtins = BuiltinNames /\ \A f \in BuiltinNames : builtins[f] = Builtin(f)
    OBVIOUS
  <2> HIDE DEF builtins
  <2>2. QED
    BY <2>1 DEF Overlay
<1>2. r = IF sandbox = NoSandbox THEN all ELSE [f \in DOMAIN all \ {"call"} |-> all[f]]
  BY DEF ExecutionFunctionRegistry
<1> HIDE DEF all, r
<1>3. DOMAIN r = DOMAIN all \ Withheld(sandbox) /\ \A f \in DOMAIN r : r[f] = all[f]
  BY <1>2 DEF Withheld
<1>4. HasBuiltins(r, functions, sandbox)
  BY <1>1, <1>3 DEF HasBuiltins
<1>5. QED
  BY <1>4 DEF r

\* What an analyzed template takes from the text template.
LEMMA HtmlFields ==
    ASSUME NEW t, t.kind = "html", IsHtml(t)
    PROVE  LET u         == t.text
               functions == Overlay([name \in InternalNames |-> Internal(name)], u.functions)
           IN  /\ IsText(u)
               /\ t.program = u.program /\ t.namespace = Named(u.namespace, u.program)
               /\ t.python = u.python /\ t.sandbox = u.sandbox
               /\ t.runtime = ExecutionFunctionRegistry(functions, u.sandbox)
               /\ t.linked.namespace = Named(t.namespace, t.program)
               /\ t.roots = {name \in DOMAIN t.namespace : EndsInText(t.namespace[name])}
<1> DEFINE u == t.text
           functions == Overlay([name \in InternalNames |-> Internal(name)], u.functions)
           runtime == ExecutionFunctionRegistry(functions, u.sandbox)
           namespace == Named(u.namespace, u.program)
           roots == {name \in DOMAIN namespace : EndsInText(namespace[name])}
           linked == LinkAssociation(u.program, namespace, runtime, FALSE)
           h == [kind |-> "html", text |-> u, program |-> u.program, namespace |-> namespace,
                 python |-> u.python, sandbox |-> u.sandbox, functions |-> functions,
                 runtime |-> runtime, linked |-> linked, roots |-> roots]
<1>1. IsText(u) /\ InitializeHtml(u) = Built(t)
  BY DEF IsHtml
<1>2. InitializeHtml(u) = Built(h)
  BY <1>1 DEF InitializeHtml, Error, Built
<1>3. t = h
  <2> HIDE DEF h, u
  <2>1. Built(t) = Built(h)
    BY <1>1, <1>2
  <2>2. Built(t).v = t /\ Built(h).v = h
    BY DEF Built
  <2>3. QED
    BY <2>1, <2>2
<1>4. linked.namespace = Named(namespace, u.program)
  BY DEF LinkAssociation, LinkedNamespace
<1> HIDE DEF functions, runtime, namespace, roots, linked
<1>5. /\ t.program = u.program /\ t.namespace = namespace /\ t.python = u.python
      /\ t.sandbox = u.sandbox /\ t.runtime = runtime /\ t.linked = linked /\ t.roots = roots
  BY <1>3
<1>6. QED
  BY <1>1, <1>4, <1>5 DEF functions, runtime, namespace, roots

\* What the functions of a render are: its template's, with the builtins and,
\* in HTML, the escapers.
Escapers(t) == IF t.kind = "html" THEN InternalNames ELSE {}

Resolves(t, functions) ==
    /\ DOMAIN t.runtime = (DOMAIN functions \cup BuiltinNames \cup Escapers(t)) \ Withheld(t.sandbox)
    /\ \A f \in DOMAIN t.runtime :
         t.runtime[f] = IF f \in Escapers(t) THEN Internal(f)
                        ELSE IF f \in DOMAIN functions THEN functions[f] ELSE Builtin(f)

Holds(t, functions) ==
    /\ IsLibrary(functions, t.python, t.sandbox)
    /\ t.program \in Accepted(functions, t.sandbox)
    /\ t.namespace \in Namespaces(Accepted(functions, t.sandbox), {t.program.name})
    /\ t.linked.namespace = Named(t.namespace, t.program)
    /\ t.kind = "html" =>
         t.roots = {name \in DOMAIN t.namespace : EndsInText(t.namespace[name])}

LEMMA TemplateTypes ==
    ASSUME NEW t, IsTemplate(t)
    PROVE  \E functions : Holds(t, functions) /\ Resolves(t, functions)
<1>1. CASE t.kind = "text" /\ IsText(t)
  <2> DEFINE functions == t.functions
  <2>1. /\ IsLibrary(functions, t.python, t.sandbox)
        /\ t.runtime = ExecutionFunctionRegistry(functions, t.sandbox)
        /\ t.program \in Accepted(functions, t.sandbox)
        /\ t.namespace \in Namespaces(Accepted(functions, t.sandbox), {t.program.name})
        /\ t.linked.namespace = Named(t.namespace, t.program)
    BY <1>1, TextFields DEF LinkedNamespace
  <2> HIDE DEF functions
  <2>2. Holds(t, functions)
    BY <1>1, <2>1 DEF Holds
  <2>3. functions \in Registries
    BY <2>1 DEF IsLibrary
  <2>4. /\ DOMAIN t.runtime = (DOMAIN functions \cup BuiltinNames) \ Withheld(t.sandbox)
        /\ \A f \in DOMAIN t.runtime :
             t.runtime[f] = IF f \in DOMAIN functions THEN functions[f] ELSE Builtin(f)
    <3>1. HasBuiltins(t.runtime, functions, t.sandbox)
      BY <2>1, RuntimeRegistry
    <3>2. QED
      BY <3>1 DEF HasBuiltins
  <2>5. Resolves(t, functions)
    BY <1>1, <2>4 DEF Resolves, Escapers
  <2>6. QED
    BY <2>2, <2>5
<1>2. CASE t.kind = "html" /\ IsHtml(t)
  <2> DEFINE u == t.text
             functions == u.functions
             internal == [name \in InternalNames |-> Internal(name)]
             with == Overlay(internal, functions)
             P == Accepted(functions, t.sandbox)
             N == {t.program.name}
  <2>1. /\ IsText(u)
        /\ t.program = u.program /\ t.namespace = Named(u.namespace, u.program)
        /\ t.python = u.python /\ t.sandbox = u.sandbox
        /\ t.runtime = ExecutionFunctionRegistry(with, t.sandbox)
        /\ t.linked.namespace = Named(t.namespace, t.program)
        /\ t.roots = {name \in DOMAIN t.namespace : EndsInText(t.namespace[name])}
    BY <1>2, HtmlFields
  <2>2. /\ IsLibrary(functions, t.python, t.sandbox)
        /\ t.program \in P /\ u.namespace \in Namespaces(P, N)
    <3> HIDE DEF u, with
    <3>1. /\ IsLibrary(u.functions, u.python, u.sandbox)
          /\ u.program \in Accepted(u.functions, u.sandbox)
          /\ u.namespace \in Namespaces(Accepted(u.functions, u.sandbox), {u.program.name})
      BY <2>1, TextFields
    <3>2. QED
      BY <2>1, <3>1
  <2>3. t.namespace \in Namespaces(P, N)
    <3> DEFINE ns == u.namespace
               p == t.program
    <3>1. P \in SUBSET Programs
      BY DEF Accepted
    <3>2. ns \in Namespaces(P, N) /\ p \in P /\ t.namespace = Named(ns, p)
      BY <2>1, <2>2
    <3> HIDE DEF P, N, ns, p
    <3>3. Named(ns, p) \in Namespaces(P, N)
      BY <3>1, <3>2, OneWrite
    <3>4. QED
      BY <3>2, <3>3 DEF ns, p
  <2>4. internal \in Registries
    <3>1. internal \in [InternalNames -> Owned]
      BY DEF Internal, Owned
    <3>2. InternalNames \in SUBSET Identifiers
      BY DEF Identifiers
    <3>3. QED
      BY <3>1, <3>2 DEF Registries
  <2>5. functions \in Registries
    BY <2>2 DEF IsLibrary
  <2>6. DOMAIN internal = InternalNames /\ \A f \in InternalNames : internal[f] = Internal(f)
    OBVIOUS
  <2> HIDE DEF u, functions, internal
  <2>7. /\ with \in Registries /\ DOMAIN with = InternalNames \cup DOMAIN functions
        /\ \A f \in InternalNames : with[f] = Internal(f)
        /\ \A f \in DOMAIN functions : f \notin InternalNames => with[f] = functions[f]
    BY <2>4, <2>5, <2>6, OverlayKeeps
  <2> HIDE DEF with
  <2>8. /\ DOMAIN t.runtime = (DOMAIN with \cup BuiltinNames) \ Withheld(t.sandbox)
        /\ \A f \in DOMAIN t.runtime :
             t.runtime[f] = IF f \in DOMAIN with THEN with[f] ELSE Builtin(f)
    <3>1. HasBuiltins(t.runtime, with, t.sandbox)
      BY <2>1, RuntimeRegistry
    <3>2. QED
      BY <3>1 DEF HasBuiltins
  <2>9. Resolves(t, functions)
    <3>1. Escapers(t) = InternalNames
      BY <1>2 DEF Escapers
    <3>2. QED
      BY <2>7, <2>8, <3>1 DEF Resolves
  <2>10. Holds(t, functions)
    BY <2>1, <2>2, <2>3 DEF Holds
  <2>11. QED
    BY <2>9, <2>10
<1>3. QED
  BY <1>1, <1>2 DEF IsTemplate

----------------------------------------------------------------------------
(* What a render runs                                                       *)

ErrorNames == {"none", "depth", "template", "function", "context"}

Outputs(t) == {[text |-> p] : p \in Programs} \cup
              {[name |-> f, by |-> t.runtime[f]] : f \in DOMAIN t.runtime}

Results(O) == [out : Seq(O), err : ErrorNames]

LEMMA ThenKeeps ==
    ASSUME NEW O, NEW a \in Results(O), NEW r \in Results(O)
    PROVE  Then(a, r) \in Results(O)
<1>1. a.out \in Seq(O) /\ r.out \in Seq(O) /\ r.err \in ErrorNames
  BY DEF Results
<1>2. a.out \o r.out \in Seq(O)
  BY <1>1
<1>3. [out |-> a.out \o r.out, err |-> r.err] \in Results(O)
  BY <1>1, <1>2 DEF Results
<1>4. QED
  BY <1>3 DEF Then

LEMMA NothingRuns ==
    ASSUME NEW O, NEW e \in ErrorNames
    PROVE  Undefined(e) \in Results(O)
<1>1. <<>> \in Seq(O)
  OBVIOUS
<1>2. QED
  BY <1>1 DEF Undefined, Results

\* A sequence of results ends in one.
LEMMA SequenceRuns ==
    ASSUME NEW O, NEW rs \in Seq(Results(O))
    PROVE  Sequencing!Folded(Undefined("none"), rs) \in Results(O)
<1> DEFINE V == Results(O)
           base == Undefined("none")
<1>1. Sequencing!Closed(V, V)
  BY ThenKeeps DEF Sequencing!Closed
<1>2. base \in V /\ rs \in Seq(V)
  BY NothingRuns DEF ErrorNames
<1> HIDE DEF V, base
<1>3. Sequencing!Folded(base, rs) \in V
  BY <1>1, <1>2, Sequencing!FoldType
<1>4. QED
  BY <1>3 DEF V, base

\* A step other than a call runs a text or functions of the registry.
LEMMA StepRuns ==
    ASSUME NEW t, IsTemplate(t), NEW p \in Programs, NEW step \in PartSteps, step.op # "call"
    PROVE  RunStep(step, p, t) \in Results(Outputs(t))
<1> DEFINE O == Outputs(t)
           escaper == [name |-> "_html_template_htmlescaper",
                       by   |-> t.runtime["_html_template_htmlescaper"]]
           escaped == IF t.kind = "html" THEN <<escaper>> ELSE <<>>
           named == [name |-> step.arg, by |-> t.runtime[step.arg]]
<1>1. PICK functions : Resolves(t, functions)
  BY TemplateTypes
<1>2. t.kind = "html" => "_html_template_htmlescaper" \in DOMAIN t.runtime
  BY <1>1 DEF Resolves, Escapers, InternalNames, Withheld
<1>3. t.kind = "html" => escaper \in O
  BY <1>2 DEF Outputs
<1>4. step.arg \in DOMAIN t.runtime => named \in O
  BY DEF Outputs
<1>5. [text |-> p] \in O
  BY DEF Outputs
<1>6. step.op \in {"text", "field", "use"}
  BY DEF PartSteps
<1>7. RunStep(step, p, t) =
         IF step.op = "text" THEN [out |-> <<[text |-> p]>>, err |-> "none"]
         ELSE IF step.op = "field" THEN [out |-> escaped, err |-> "none"]
         ELSE IF step.arg \notin DOMAIN t.runtime THEN [out |-> <<>>, err |-> "function"]
         ELSE [out |-> <<named>> \o escaped, err |-> "none"]
  BY <1>6 DEF RunStep
<1>8. <<>> \in Seq(O) /\ \A x \in O : <<x>> \in Seq(O)
  <2> HIDE DEF O
  <2>1. QED
    OBVIOUS
<1> DEFINE text == [text |-> p]
<1>9. escaped \in Seq(O)
  <2> HIDE DEF O, escaper
  <2>1. QED
    BY <1>3, <1>8
<1> HIDE DEF O, escaped, named, text
<1>10. <<text>> \in Seq(O)
  BY <1>5, <1>8 DEF text
<1>11. step.arg \in DOMAIN t.runtime => <<named>> \o escaped \in Seq(O)
  BY <1>4, <1>8, <1>9
<1>12. RunStep(step, p, t) \in Results(O)
  BY <1>6, <1>7, <1>8, <1>9, <1>10, <1>11 DEF Results, ErrorNames, text
<1>13. QED
  BY <1>12 DEF O

\* A program runs what its steps and the programs it calls do.
LEMMA ProgramRuns ==
    ASSUME NEW t, IsTemplate(t), NEW p \in Programs, NEW ns \in Namespaces(Programs, {}),
           NEW Q, Range(ns) \subseteq Q, NEW called \in [Q -> Results(Outputs(t))]
    PROVE  RunSteps(p, ns, t, called) \in Results(Outputs(t))
<1> DEFINE rs == StepResults(p, ns, t, called)
           R == Results(Outputs(t))
<1>1. Steps(p) \in Seq(PartSteps)
  <2>1. p.source \in Sources /\ p.part \in PartsOf(p.source)
    BY DEF Programs
  <2>2. QED
    BY <2>1, SourceTypes DEF Steps
<1>2. ASSUME NEW i \in DOMAIN Steps(p)
      PROVE  rs[i] \in R
  <2>1. Steps(p)[i] \in PartSteps
    BY <1>1
  <2>2. CASE Steps(p)[i].op # "call"
    BY <2>1, <2>2, StepRuns DEF StepResults
  <2>3. CASE Steps(p)[i].op = "call"
    <3>1. CASE Steps(p)[i].arg \notin DOMAIN ns
      BY <2>3, <3>1, NothingRuns DEF StepResults, ErrorNames
    <3>2. CASE Steps(p)[i].arg \in DOMAIN ns
      <4>1. ns[Steps(p)[i].arg] \in Q
        BY <3>2 DEF Range
      <4>2. rs[i] = called[ns[Steps(p)[i].arg]]
        BY <2>3, <3>2 DEF StepResults
      <4>3. QED
        BY <4>1, <4>2
    <3>3. QED
      BY <3>1, <3>2
  <2>4. QED
    BY <2>2, <2>3
<1>3. rs \in Seq(R)
  <2>1. rs = [i \in DOMAIN Steps(p) |-> rs[i]] /\ DOMAIN Steps(p) = 1..Len(Steps(p))
    BY <1>1 DEF StepResults
  <2> HIDE DEF rs, R
  <2>2. rs \in [1..Len(Steps(p)) -> R] /\ Len(Steps(p)) \in Nat
    BY <1>1, <1>2, <2>1
  <2>3. QED
    BY <2>2
<1>4. RunSteps(p, ns, t, called) = Sequencing!Folded(Undefined("none"), rs)
  BY RunStepsFolds
<1> HIDE DEF rs
<1>5. QED
  BY <1>3, <1>4, SequenceRuns

\* run is what each program runs, level by level, up to the depth that no render
\* exceeds.
Levels(run, p, ns, t) ==
    /\ run[0] = [q \in {p} \cup Range(ns) |-> Undefined("depth")]
    /\ \A k \in 0..HardDepth :
          run[k + 1] = [q \in {p} \cup Range(ns) |-> RunSteps(q, ns, t, run[k])]
    /\ \A k \in 0..HardDepth + 1 : run[k] \in [{p} \cup Range(ns) -> Results(Outputs(t))]
    /\ Run(p, ns, t) = run[HardDepth + 1][p]

LEMMA RunGoes ==
    ASSUME NEW t, IsTemplate(t), NEW p \in Programs, NEW ns \in Namespaces(Programs, {})
    PROVE  \E run : Levels(run, p, ns, t)
<1> DEFINE Q == {p} \cup Range(ns)
           R == Results(Outputs(t))
           V == [Q -> R]
           base == [q \in Q |-> Undefined("depth")]
           h == [c \in V |-> [q \in Q |-> RunSteps(q, ns, t, c)]]
           n == HardDepth + 1
<1>1. Q \subseteq Programs /\ Range(ns) \subseteq Q /\ p \in Q
  BY NamespaceTypes
<1>2. base \in V
  <2>1. Undefined("depth") \in R
    BY NothingRuns DEF ErrorNames
  <2>2. QED
    BY <2>1
<1>3. h \in [V -> V]
  <2>1. \A c \in V, q \in Q : RunSteps(q, ns, t, c) \in R
    <3> HIDE DEF Q
    <3>1. QED
      BY <1>1, ProgramRuns
  <2>2. QED
    BY <2>1
<1>4. n \in Nat
  BY AssociationsAssumption DEF AssociationsAssumption
<1> HIDE DEF V, h, base, n
<1>5. PICK f : Sequencing!Recurs(f, base, h, n, V)
  BY <1>2, <1>3, <1>4, Sequencing!RecursionExists
<1>6. /\ f = [k \in 0..n |-> IF k = 0 THEN base ELSE h[f[k - 1]]]
      /\ \A k \in 0..n : f[k] \in V
  BY <1>5 DEF Sequencing!Recurs
<1>7. f = [k \in 0..n |-> IF k = 0 THEN [q \in Q |-> Undefined("depth")]
                          ELSE [q \in Q |-> RunSteps(q, ns, t, f[k - 1])]]
  <2>1. ASSUME NEW k \in 0..n
        PROVE  f[k] = IF k = 0 THEN [q \in Q |-> Undefined("depth")]
                      ELSE [q \in Q |-> RunSteps(q, ns, t, f[k - 1])]
    <3>1. CASE k = 0
      BY <1>6, <3>1 DEF base
    <3>2. CASE k # 0
      <4>1. k - 1 \in 0..n
        BY <3>2, <1>4
      <4>2. f[k - 1] \in V /\ f[k] = h[f[k - 1]]
        BY <1>6, <3>2, <4>1
      <4>3. QED
        BY <3>2, <4>2 DEF h
    <3>3. QED
      BY <3>1, <3>2
  <2>2. QED
    BY <1>6, <2>1
<1> DEFINE run == CHOOSE g : g = [k \in 0..n |-> IF k = 0 THEN [q \in Q |-> Undefined("depth")]
                                                 ELSE [q \in Q |-> RunSteps(q, ns, t, g[k - 1])]]
<1>8. run = [k \in 0..n |-> IF k = 0 THEN [q \in Q |-> Undefined("depth")]
                            ELSE [q \in Q |-> RunSteps(q, ns, t, run[k - 1])]]
  BY <1>7, Zenon
<1>9. Run(p, ns, t) = run[n][p]
  BY DEF Run, n
<1> HIDE DEF run
<1>10. run[0] = base
  BY <1>4, <1>8 DEF base
<1>11. ASSUME NEW k \in Nat, k + 1 <= n
       PROVE  run[k + 1] = [q \in Q |-> RunSteps(q, ns, t, run[k])]
  <2>1. k + 1 \in 0..n
    BY <1>4, <1>11
  <2>2. \A j \in 0..n : j # 0 => run[j] = [q \in Q |-> RunSteps(q, ns, t, run[j - 1])]
    BY <1>8
  <2>3. \A j \in 0..n : j = k + 1 => run[j] = [q \in Q |-> RunSteps(q, ns, t, run[k])]
    <3>1. TAKE j \in 0..n
    <3>2. HAVE j = k + 1
    <3>3. j # 0 /\ j - 1 = k
      BY <3>2
    <3>4. QED
      BY <2>2, <3>3
  <2>4. QED
    BY <2>1, <2>3
<1> DEFINE S == {k \in Nat : k <= n => run[k] \in V}
<1>12. 0 \in S
  BY <1>2, <1>10
<1>13. ASSUME NEW k \in Nat, k \in S
       PROVE  k + 1 \in S
  <2>1. SUFFICES ASSUME k + 1 <= n
                 PROVE  run[k + 1] \in V
    OBVIOUS
  <2>2. run[k] \in V
    BY <1>4, <1>13, <2>1
  <2>3. run[k + 1] = [q \in Q |-> RunSteps(q, ns, t, run[k])]
    BY <1>11, <2>1
  <2>4. run[k + 1] = h[run[k]]
    BY <2>2, <2>3 DEF h
  <2>5. QED
    BY <1>3, <2>2, <2>4
<1>14. \A k \in Nat : k \in S
  <2> HIDE DEF S
  <2>1. QED
    BY <1>12, <1>13, Sequencing!Induct
<1>15. \A k \in 0..HardDepth + 1 : run[k] \in V
  BY <1>4, <1>14 DEF n
<1>16. \A k \in 0..HardDepth : run[k + 1] = [q \in Q |-> RunSteps(q, ns, t, run[k])]
  <2>1. TAKE k \in 0..HardDepth
  <2>2. k \in Nat /\ k + 1 <= n
    BY AssociationsAssumption DEF n, AssociationsAssumption
  <2>3. QED
    BY <1>11, <2>2
<1>17. Levels(run, p, ns, t)
  <2>1. run[0] = [q \in Q |-> Undefined("depth")]
    BY <1>10 DEF base
  <2>2. \A k \in 0..HardDepth + 1 : run[k] \in [Q -> R]
    BY <1>15 DEF V
  <2>3. Run(p, ns, t) = run[HardDepth + 1][p]
    BY <1>9 DEF n
  <2>4. QED
    BY <1>16, <2>1, <2>2, <2>3 DEF Levels
<1>18. QED
  BY <1>17

LEMMA RunResults ==
    ASSUME NEW t, IsTemplate(t), NEW p \in Programs, NEW ns \in Namespaces(Programs, {})
    PROVE  Run(p, ns, t) \in Results(Outputs(t))
<1>1. PICK run : Levels(run, p, ns, t)
  BY RunGoes
<1>2. HardDepth + 1 \in 0..HardDepth + 1
  BY AssociationsAssumption DEF AssociationsAssumption
<1>3. run[HardDepth + 1] \in [{p} \cup Range(ns) -> Results(Outputs(t))]
  BY <1>1, <1>2 DEF Levels
<1>4. QED
  BY <1>1, <1>3 DEF Levels

\* Two namespaces in which the programs of R look the same run a program of R alike.
SameFor(R, one, other) ==
    \A q \in R : \A i \in DOMAIN Steps(q) :
      Steps(q)[i].op = "call" =>
        \/ Steps(q)[i].arg \notin DOMAIN one /\ Steps(q)[i].arg \notin DOMAIN other
        \/ /\ Steps(q)[i].arg \in DOMAIN one /\ Steps(q)[i].arg \in DOMAIN other
           /\ one[Steps(q)[i].arg] = other[Steps(q)[i].arg] /\ one[Steps(q)[i].arg] \in R

LEMMA RunsAlike ==
    ASSUME NEW t, IsTemplate(t), NEW R, NEW p \in Programs, p \in R,
           NEW one \in Namespaces(Programs, {}), NEW other \in Namespaces(Programs, {}),
           SameFor(R, one, other)
    PROVE  Run(p, one, t) = Run(p, other, t)
<1> DEFINE Q == R \cap ({p} \cup Range(one)) \cap ({p} \cup Range(other))
           n == HardDepth + 1
<1>1. PICK f : Levels(f, p, one, t)
  BY RunGoes
<1>2. PICK g : Levels(g, p, other, t)
  BY RunGoes
<1>3. n \in Nat /\ HardDepth \in Nat
  BY AssociationsAssumption DEF AssociationsAssumption
<1> DEFINE S == {k \in Nat : k <= n => \A q \in Q : f[k][q] = g[k][q]}
<1>4. 0 \in S
  BY <1>1, <1>2 DEF Levels
<1>5. ASSUME NEW k \in Nat, k \in S
      PROVE  k + 1 \in S
  <2>1. SUFFICES ASSUME k + 1 <= n, NEW q \in Q
                 PROVE  f[k + 1][q] = g[k + 1][q]
    OBVIOUS
  <2>2. \A c \in Q : f[k][c] = g[k][c]
    BY <1>3, <1>5, <2>1
  <2>3. k \in 0..HardDepth
    BY <1>3, <2>1
  <2>4. f[k + 1][q] = RunSteps(q, one, t, f[k]) /\ g[k + 1][q] = RunSteps(q, other, t, g[k])
    <3>1. /\ f[k + 1] = [c \in {p} \cup Range(one) |-> RunSteps(c, one, t, f[k])]
          /\ g[k + 1] = [c \in {p} \cup Range(other) |-> RunSteps(c, other, t, g[k])]
      <4>1. \A j \in 0..HardDepth :
              f[j + 1] = [c \in {p} \cup Range(one) |-> RunSteps(c, one, t, f[j])]
        BY <1>1 DEF Levels
      <4>2. \A j \in 0..HardDepth :
              g[j + 1] = [c \in {p} \cup Range(other) |-> RunSteps(c, other, t, g[j])]
        BY <1>2 DEF Levels
      <4>3. QED
        BY <2>3, <4>1, <4>2
    <3>2. q \in {p} \cup Range(one) /\ q \in {p} \cup Range(other)
      OBVIOUS
    <3>3. QED
      BY <3>1, <3>2, Zenon
  <2>5. ASSUME NEW i \in DOMAIN Steps(q), Steps(q)[i].op = "call",
               Steps(q)[i].arg \in DOMAIN one
        PROVE  f[k][one[Steps(q)[i].arg]] = g[k][other[Steps(q)[i].arg]]
    <3> DEFINE arg == Steps(q)[i].arg
    <3>1. arg \in DOMAIN other /\ one[arg] = other[arg] /\ one[arg] \in R
      BY <2>5 DEF SameFor
    <3>2. one[arg] \in Range(one) /\ other[arg] \in Range(other)
      BY <2>5, <3>1 DEF Range
    <3>3. one[arg] \in Q
      BY <3>1, <3>2
    <3>4. QED
      BY <2>2, <3>1, <3>3
  <2>6. ASSUME NEW i \in DOMAIN Steps(q), Steps(q)[i].op = "call"
        PROVE  Steps(q)[i].arg \in DOMAIN one <=> Steps(q)[i].arg \in DOMAIN other
    BY <2>6 DEF SameFor
  <2>7. StepResults(q, one, t, f[k]) = StepResults(q, other, t, g[k])
    BY <2>5, <2>6, Zenon DEF StepResults
  <2>8. QED
    BY <2>4, <2>7, RunStepsFolds
<1>6. \A k \in Nat : k \in S
  <2> HIDE DEF S
  <2>1. QED
    BY <1>4, <1>5, Sequencing!Induct
<1>7. p \in Q /\ f[n][p] = g[n][p]
  BY <1>3, <1>6
<1>8. QED
  BY <1>1, <1>2, <1>7 DEF Levels

\* The two views a render may resolve names in.
LEMMA Views ==
    ASSUME NEW t, IsTemplate(t), NEW async
    PROVE  /\ View(t, async) \in Namespaces(Programs, {})
           /\ DOMAIN View(t, async) = DOMAIN t.namespace
           /\ t.program \in Programs
<1> DEFINE p == t.program
           ns == t.namespace
<1>1. PICK functions : Holds(t, functions)
  BY TemplateTypes
<1>2. /\ p \in Accepted(functions, t.sandbox)
      /\ ns \in Namespaces(Accepted(functions, t.sandbox), {p.name})
      /\ t.linked.namespace = Named(ns, p)
  BY <1>1 DEF Holds
<1>3. p \in Programs /\ ns \in Namespaces(Programs, {}) /\ p.name \in DOMAIN ns
  <2>1. PICK D \in SUBSET STRING :
           {p.name} \subseteq D /\ ns \in [D -> Accepted(functions, t.sandbox)]
    BY <1>2 DEF Namespaces
  <2>2. ns \in [D -> Programs] /\ p \in Programs
    BY <1>2, <2>1 DEF Accepted
  <2>3. QED
    BY <2>1, <2>2 DEF Namespaces
<1> HIDE DEF p, ns
<1>4. Named(ns, p) \in Namespaces(Programs, {}) /\ DOMAIN Named(ns, p) = DOMAIN ns \cup {p.name}
  <2>1. Programs \in SUBSET Programs
    OBVIOUS
  <2>2. Named(ns, p) \in Namespaces(Programs, {})
    BY <1>3, <2>1, OneWrite
  <2>3. DOMAIN Named(ns, p) = DOMAIN ns \cup {p.name}
    BY DEF Named
  <2>4. QED
    BY <2>2, <2>3
<1>5. View(t, async) = ns \/ View(t, async) = Named(ns, p)
  BY <1>2 DEF View, ns
<1>6. QED
  BY <1>3, <1>4, <1>5 DEF p, ns

LEMMA RenderTypes ==
    ASSUME NEW t, IsTemplate(t), NEW names \in Seq(STRING), NEW async
    PROVE  ResultOf(t, names, async) \in Results(Outputs(t))
<1> DEFINE view == View(t, async)
           R == Results(Outputs(t))
           rs == EachResult(t, names, view)
<1>1. /\ view \in Namespaces(Programs, {}) /\ DOMAIN view = DOMAIN t.namespace
      /\ t.program \in Programs
  BY Views
<1>2. Run(t.program, view, t) \in R
  <2> HIDE DEF view
  <2>1. QED
    BY <1>1, RunResults
<1>3. ASSUME NEW name \in STRING
      PROVE  RenderTemplate(t, name, view) \in R
  <2> HIDE DEF view
  <2>1. CASE Unavailable(t, name) # "none"
    <3>1. Unavailable(t, name) \in ErrorNames
      BY DEF Unavailable, ErrorNames
    <3>2. QED
      BY <2>1, <3>1, NothingRuns DEF RenderTemplate
  <2>2. CASE Unavailable(t, name) = "none"
    <3>1. name \in DOMAIN view
      BY <1>1, <2>2 DEF Unavailable
    <3>2. view[name] \in Programs
      BY <1>1, <3>1, NamespaceTypes
    <3>3. Run(view[name], view, t) \in R
      BY <1>1, <3>2, RunResults
    <3>4. QED
      BY <2>2, <3>3 DEF RenderTemplate
  <2>3. QED
    BY <2>1, <2>2
<1>4. rs \in Seq(R)
  <2>1. rs = [i \in 1..Len(names) |-> rs[i]]
    BY DEF EachResult
  <2>2. ASSUME NEW i \in 1..Len(names)
        PROVE  rs[i] \in R
    <3>1. rs[i] = RenderTemplate(t, names[i], view) /\ names[i] \in STRING
      BY DEF EachResult
    <3> HIDE DEF rs, R, view
    <3>2. QED
      BY <1>3, <3>1
  <2> HIDE DEF rs, R
  <2>3. rs \in [1..Len(names) -> R] /\ Len(names) \in Nat
    BY <2>1, <2>2
  <2>4. QED
    BY <2>3
<1>5. RenderEach(t, names, view) = Sequencing!Folded(Undefined("none"), rs)
  BY RenderEachFolds
<1> HIDE DEF rs
<1>6. RenderEach(t, names, view) \in R
  BY <1>4, <1>5, SequenceRuns
<1>7. QED
  BY <1>2, <1>6 DEF ResultOf

----------------------------------------------------------------------------
(* The theorems                                                             *)

\* In every reachable state a function of a runtime extension is in the environment
\* as its owner defined it, and so are in a template those of a selected Python
\* category and the escapers (environment.py __init__ and with_functions,
\* template.py with_functions, html/template.py _initialize).
LEMMA TypedIsIntact ==
    ChainInv => ExtensionsIntact
<1> SUFFICES ASSUME ChainInv
             PROVE  ExtensionsIntact
  OBVIOUS
<1>1. ASSUME environment # None
      PROVE  /\ \A x \in Range(environment.extensions) : \A f \in DOMAIN x.functions :
                  environment.functions[f] = x.functions[f]
             /\ DOMAIN environment.functions \cap DOMAIN FunctionMap(environment.python) = {}
  <2>1. IsEnvironment(environment)
    BY <1>1 DEF ChainInv
  <2>2. \A x \in Range(environment.extensions) :
           \E i \in 1..Len(environment.extensions) : x = environment.extensions[i]
    BY <2>1 DEF IsEnvironment, Range
  <2>3. QED
    BY <2>1, <2>2 DEF IsEnvironment
<1>2. ASSUME template # None
      PROVE  /\ \A f \in DOMAIN FunctionMap(template.python) : template.runtime[f] = Python(f)
             /\ template.kind = "html" =>
                  \A f \in InternalNames : template.runtime[f] = Internal(f)
  <2>1. IsTemplate(template)
    BY <1>2 DEF ChainInv
  <2>2. PICK functions : Holds(template, functions) /\ Resolves(template, functions)
    BY <2>1, TemplateTypes
  <2>3. /\ template.python \in SUBSET Categories
        /\ \A f \in DOMAIN FunctionMap(template.python) :
             f \in DOMAIN functions /\ functions[f] = Python(f)
    BY <2>2 DEF Holds, IsLibrary
  <2>4. \A f \in DOMAIN FunctionMap(template.python) : f # "call" /\ f \notin InternalNames
    BY <2>3, NativeTypes
  <2>5. \A f \in DOMAIN FunctionMap(template.python) : template.runtime[f] = Python(f)
    BY <2>2, <2>3, <2>4 DEF Resolves, Escapers, Withheld
  <2>6. template.kind = "html" => \A f \in InternalNames : template.runtime[f] = Internal(f)
    BY <2>2 DEF Resolves, Escapers, Withheld, InternalNames
  <2>7. QED
    BY <2>5, <2>6
<1>3. QED
  BY <1>1, <1>2 DEF ExtensionsIntact

\* No chain of derivations replaces a runtime extension's function in the
\* environment, nor a Python-native function or an HTML template's escaper in the
\* template.  Of a runtime extension's function in a template it says nothing:
\* Template.with_functions may replace it (environment.py __init__, template.py
\* with_functions).
THEOREM ExtensionsStayIntact ==
    Spec => []ExtensionsIntact
<1>1. QED
  BY ChainIsTyped, TypedIsIntact, PTL

\* Every function a held program names is in the registry its renders use,
\* except call under a sandbox (template.py with_source, with_functions).
LEMMA TypedIsResolved ==
    ChainInv => NothingUnresolved
<1> SUFFICES ASSUME ChainInv, template # None,
                    NEW p \in Range(template.namespace) \cup {template.program},
                    NEW step \in Range(Steps(p)), step.op = "use",
                    ~ (step.arg = "call" /\ template.sandbox # NoSandbox)
             PROVE  step.arg \in DOMAIN template.runtime
  BY DEF NothingUnresolved
<1>1. PICK functions : Holds(template, functions) /\ Resolves(template, functions)
  BY TemplateTypes DEF ChainInv
<1>2. p \in Accepted(functions, template.sandbox)
  <2>1. /\ template.program \in Accepted(functions, template.sandbox)
        /\ template.namespace \in
              Namespaces(Accepted(functions, template.sandbox), {template.program.name})
    BY <1>1 DEF Holds
  <2>2. QED
    BY <2>1, NamespaceTypes
<1>3. p.source \in Sources /\ p.part \in PartsOf(p.source) /\ Compiles(p.source, functions)
  BY <1>2 DEF Accepted, Programs
<1>4. step.arg \in DOMAIN functions \cup BuiltinNames
  BY <1>3 DEF Compiles, PartsOf, Steps
<1>5. QED
  BY <1>1, <1>4 DEF Resolves, Withheld

\* A program never meets a registry that lacks one of its functions, but for the
\* call builtin under a sandbox (template.py with_source, with_functions).
THEOREM NothingStaysUnresolved ==
    Spec => []NothingUnresolved
<1>1. QED
  BY ChainIsTyped, TypedIsResolved, PTL

\* The linked view gives every name but the template's own to the program that
\* the namespace gives it.
LEMMA LinkedNames ==
    ASSUME NEW t, IsTemplate(t)
    PROVE  /\ t.namespace \in Namespaces(Programs, {t.program.name})
           /\ t.linked.namespace = Named(t.namespace, t.program)
           /\ t.linked.namespace \in Namespaces(Programs, {})
           /\ t.namespace \in Namespaces(Programs, {})
           /\ DOMAIN t.linked.namespace = DOMAIN t.namespace
           /\ \A name \in DOMAIN t.namespace :
                name # t.program.name => t.linked.namespace[name] = t.namespace[name]
<1> DEFINE p == t.program
           ns == t.namespace
<1>1. PICK functions : Holds(t, functions)
  BY TemplateTypes
<1>2. /\ p \in Accepted(functions, t.sandbox)
      /\ ns \in Namespaces(Accepted(functions, t.sandbox), {p.name})
      /\ t.linked.namespace = Named(ns, p)
  BY <1>1 DEF Holds
<1>3. PICK D \in SUBSET STRING :
         {p.name} \subseteq D /\ ns \in [D -> Accepted(functions, t.sandbox)]
  BY <1>2 DEF Namespaces
<1>4. ns \in [D -> Programs] /\ p \in Programs
  BY <1>2, <1>3 DEF Accepted
<1>5. /\ ns \in Namespaces(Programs, {p.name}) /\ ns \in Namespaces(Programs, {})
      /\ p.name \in DOMAIN ns
  BY <1>3, <1>4 DEF Namespaces
<1> HIDE DEF p, ns
<1>6. Named(ns, p) \in Namespaces(Programs, {})
  <2>1. Programs \in SUBSET Programs
    OBVIOUS
  <2>2. QED
    BY <1>4, <1>5, <2>1, OneWrite
<1>7. /\ DOMAIN Named(ns, p) = DOMAIN ns
      /\ \A name \in DOMAIN ns : name # p.name => Named(ns, p)[name] = ns[name]
  BY <1>5 DEF Named
<1>8. QED
  BY <1>2, <1>5, <1>6, <1>7 DEF p, ns

\* With its own name for its own program the view is the namespace.
LEMMA ViewsAreOne ==
    ASSUME NEW t, IsTemplate(t), t.namespace[t.program.name] = t.program, NEW async
    PROVE  View(t, async) = t.namespace
<1> DEFINE p == t.program
           ns == t.namespace
<1>1. /\ ns \in Namespaces(Programs, {p.name}) /\ ns[p.name] = p
      /\ t.linked.namespace = Named(ns, p)
  BY LinkedNames
<1>2. p.name \in DOMAIN ns /\ ns = [name \in DOMAIN ns |-> ns[name]]
  BY <1>1 DEF Namespaces
<1>3. Named(ns, p) = ns
  <2> HIDE DEF ns, p
  <2>1. QED
    BY <1>1, <1>2 DEF Named
<1>4. QED
  BY <1>1, <1>3 DEF View

\* Programs that never call the template's own name run alike in both views.
LEMMA SparedRuns ==
    ASSUME NEW t, IsTemplate(t), NEW names \in Seq(STRING), NEW R, Suffices(R, t, names),
           NEW p \in Programs, p \in R
    PROVE  Run(p, t.linked.namespace, t) = Run(p, t.namespace, t)
<1> DEFINE ns == t.namespace
           view == t.linked.namespace
<1>1. /\ view \in Namespaces(Programs, {}) /\ ns \in Namespaces(Programs, {})
      /\ DOMAIN view = DOMAIN ns
      /\ \A name \in DOMAIN ns : name # t.program.name => view[name] = ns[name]
  BY LinkedNames
<1>2. SameFor(R, view, ns)
  <2>1. SUFFICES ASSUME NEW q \in R, NEW i \in DOMAIN Steps(q), Steps(q)[i].op = "call"
                 PROVE  \/ Steps(q)[i].arg \notin DOMAIN view /\ Steps(q)[i].arg \notin DOMAIN ns
                        \/ /\ Steps(q)[i].arg \in DOMAIN view /\ Steps(q)[i].arg \in DOMAIN ns
                           /\ view[Steps(q)[i].arg] = ns[Steps(q)[i].arg]
                           /\ view[Steps(q)[i].arg] \in R
    BY DEF SameFor
  <2>2. Steps(q)[i] \in Range(Steps(q))
    BY DEF Range
  <2>3. /\ Steps(q)[i].arg # t.program.name
        /\ Steps(q)[i].arg \in DOMAIN ns => ns[Steps(q)[i].arg] \in R
    BY <2>1, <2>2 DEF Suffices
  <2>4. QED
    BY <1>1, <2>3
<1> HIDE DEF ns, view
<1>3. Run(p, view, t) = Run(p, ns, t)
  BY <1>1, <1>2, RunsAlike
<1>4. QED
  BY <1>3 DEF ns, view

\* A render that cannot look up the template's own name is the same in both views.
LEMMA SparedRenders ==
    ASSUME NEW t, IsTemplate(t), NEW names \in Seq(STRING), ~LooksUpOwn(t, names), NEW async
    PROVE  ResultOf(t, names, async) = ResultOf(t, names, TRUE)
<1> DEFINE ns == t.namespace
           view == t.linked.namespace
<1>1. PICK R : Suffices(R, t, names) /\ t.program.name \notin Range(names)
  BY DEF LooksUpOwn
<1>2. View(t, TRUE) = ns /\ (View(t, async) = ns \/ View(t, async) = view)
  BY DEF View
<1>3. SUFFICES ASSUME View(t, async) = view
               PROVE  ResultOf(t, names, async) = ResultOf(t, names, TRUE)
  BY <1>2 DEF ResultOf
<1>4. /\ ns \in Namespaces(Programs, {})
      /\ \A name \in DOMAIN ns : name # t.program.name => view[name] = ns[name]
  BY LinkedNames
<1>5. t.program \in Programs
  BY Views
<1>6. CASE names = <<>>
  <2>1. t.program \in R
    BY <1>1, <1>6 DEF Suffices, Begun
  <2>2. Run(t.program, view, t) = Run(t.program, ns, t)
    BY <1>1, <1>5, <2>1, SparedRuns
  <2>3. QED
    BY <1>2, <1>3, <1>6, <2>2 DEF ResultOf
<1>7. CASE names # <<>>
  <2>1. ASSUME NEW i \in DOMAIN names
        PROVE  RenderTemplate(t, names[i], view) = RenderTemplate(t, names[i], ns)
    <3>1. names[i] \in Range(names) /\ names[i] # t.program.name
      BY <1>1, <2>1 DEF Range
    <3>2. CASE Unavailable(t, names[i]) # "none"
      BY <3>2 DEF RenderTemplate
    <3>3. CASE Unavailable(t, names[i]) = "none"
      <4>1. names[i] \in DOMAIN ns
        BY <3>3 DEF Unavailable
      <4>2. view[names[i]] = ns[names[i]]
        BY <1>4, <3>1, <4>1
      <4>3. ns[names[i]] \in Programs
        BY <1>4, <4>1, NamespaceTypes
      <4>4. ns[names[i]] \in R
        BY <1>1, <1>7, <3>1, <4>1 DEF Suffices, Begun
      <4>5. Run(ns[names[i]], view, t) = Run(ns[names[i]], ns, t)
        BY <1>1, <4>3, <4>4, SparedRuns
      <4>6. QED
        BY <4>2, <4>5 DEF RenderTemplate
    <3>4. QED
      BY <3>2, <3>3
  <2>2. EachResult(t, names, view) = EachResult(t, names, ns)
    BY <2>1 DEF EachResult
  <2>3. RenderEach(t, names, view) = RenderEach(t, names, ns)
    BY <2>2, RenderEachFolds
  <2>4. QED
    BY <1>2, <1>3, <1>7, <2>3 DEF ResultOf
<1>8. QED
  BY <1>6, <1>7

\* render and render_async agree, unless a definition took the name of the
\* template's own program and the render can look it up (template.py render,
\* render_async, _link_association).
LEMMA TypedAgrees ==
    ChainInv => RendersAgree
<1> SUFFICES ASSUME ChainInv, rendered # None,
                    \/ rendered.of.namespace[rendered.of.program.name] = rendered.of.program
                    \/ ~LooksUpOwn(rendered.of, rendered.names)
             PROVE  rendered.result = ResultOf(rendered.of, rendered.names, ~rendered.async)
  BY DEF RendersAgree
<1> DEFINE t == rendered.of
           names == rendered.names
<1>1. /\ IsTemplate(t) /\ names \in Seq(STRING)
      /\ rendered.result = ResultOf(t, names, rendered.async)
  BY DEF ChainInv, IsRender
<1>2. CASE t.namespace[t.program.name] = t.program
  <2>1. \A async : View(t, async) = t.namespace
    BY <1>1, <1>2, ViewsAreOne
  <2>2. \A a, b : ResultOf(t, names, a) = ResultOf(t, names, b)
    BY <2>1 DEF ResultOf
  <2>3. QED
    BY <1>1, <2>2
<1>3. CASE ~LooksUpOwn(t, names)
  <2>1. \A async : ResultOf(t, names, async) = ResultOf(t, names, TRUE)
    BY <1>1, <1>3, SparedRenders
  <2>2. QED
    BY <1>1, <2>1
<1>4. QED
  BY <1>2, <1>3

\* A synchronous render runs what an asynchronous one runs, linked or not, in every
\* chain: but where a definition took the name of the template's own program, only
\* a render that can never look that name up (template.py _link_association,
\* render, render_async).
THEOREM RendersOfBothKindsAgree ==
    Spec => []RendersAgree
<1>1. QED
  BY ChainIsTyped, TypedAgrees, PTL

\* Under a sandbox every function a render runs is an escaper, a builtin
\* other than call or one the policy permits, and every source it may reach
\* is within the policy's limit (runtime/policy.py, template.py).
LEMMA TypedIsKept ==
    ChainInv => SandboxKept
<1> SUFFICES ASSUME ChainInv, rendered # None, rendered.of.sandbox # NoSandbox
             PROVE  /\ \A o \in Range(rendered.result.out) : "by" \in DOMAIN o =>
                         LET policy == rendered.of.sandbox
                         IN  \/ o.by.owner = "internal"
                             \/ o.by.owner = "builtin" /\ o.name # "call"
                             \/ /\ o.name \in policy.functions
                                /\ o.by.capabilities \subseteq policy.capabilities
                    /\ \A p \in Range(rendered.of.namespace) :
                         FitsPolicy(rendered.of.sandbox, p.source)
  BY DEF SandboxKept
<1> DEFINE t == rendered.of
           policy == t.sandbox
           out == rendered.result.out
<1>1. /\ IsTemplate(t) /\ rendered.names \in Seq(STRING)
      /\ rendered.result = ResultOf(t, rendered.names, rendered.async)
  BY DEF ChainInv, IsRender
<1>2. PICK functions : Holds(t, functions) /\ Resolves(t, functions)
  BY <1>1, TemplateTypes
<1>3. out \in Seq(Outputs(t))
  <2>1. rendered.result \in Results(Outputs(t))
    BY <1>1, RenderTypes
  <2>2. QED
    BY <2>1 DEF Results
<1>4. /\ DOMAIN functions \subseteq policy.functions
      /\ \A f \in DOMAIN functions : functions[f].capabilities \subseteq policy.capabilities
  BY <1>2 DEF Holds, IsLibrary, Allows, ValidatesFunctions, ValidatesCapabilities
<1>5. ASSUME NEW f \in DOMAIN t.runtime
      PROVE  \/ t.runtime[f].owner = "internal"
             \/ t.runtime[f].owner = "builtin" /\ f # "call"
             \/ f \in policy.functions /\ t.runtime[f].capabilities \subseteq policy.capabilities
  <2>1. f # "call"
    BY <1>2 DEF Resolves, Withheld
  <2>2. CASE f \in Escapers(t)
    BY <1>2, <2>2 DEF Resolves, Internal
  <2>3. CASE f \notin Escapers(t) /\ f \in DOMAIN functions
    BY <1>2, <1>4, <2>3 DEF Resolves
  <2>4. CASE f \notin Escapers(t) /\ f \notin DOMAIN functions
    BY <1>2, <2>1, <2>4 DEF Resolves, Builtin
  <2>5. QED
    BY <2>2, <2>3, <2>4
<1>6. ASSUME NEW o \in Range(out), "by" \in DOMAIN o
      PROVE  \E f \in DOMAIN t.runtime : o.name = f /\ o.by = t.runtime[f]
  <2>1. o \in Outputs(t)
    BY <1>3 DEF Range
  <2>2. \A p \in Programs : o # [text |-> p]
    BY <1>6
  <2>3. QED
    BY <2>1, <2>2 DEF Outputs
<1>7. ASSUME NEW p \in Range(t.namespace)
      PROVE  FitsPolicy(policy, p.source)
  <2>1. t.namespace \in Namespaces(Accepted(functions, policy), {t.program.name})
    BY <1>2 DEF Holds
  <2>2. p \in Accepted(functions, policy)
    BY <2>1, NamespaceTypes
  <2>3. QED
    BY <2>2 DEF Accepted
<1>8. QED
  BY <1>5, <1>6, <1>7

\* Whatever the chain, a render under a policy runs only permitted functions and
\* every program it can reach came from a source within the policy's limit
\* (runtime/policy.py, template.py with_source).
THEOREM SandboxIsKept ==
    Spec => []SandboxKept
<1>1. QED
  BY ChainIsTyped, TypedIsKept, PTL

----------------------------------------------------------------------------
(* The namespace of a history                                               *)

\* The first n writes of w that give the name, and those of them that count.
Mine(w, n, name) == {i \in 1..n : w[i].name = name}

Kept(w, n, name) ==
    {i \in Mine(w, n, name) :
       w[i].part = 1 \/ ~IsEmpty(w[i]) \/ \A j \in Mine(w, n, name) : j >= i}

IsLast(w, n, name, i) == i \in Kept(w, n, name) /\ \A j \in Kept(w, n, name) : j <= i

\* ns is what the first n writes leave.
IsLatest(ns, w, n) ==
    /\ DOMAIN ns = {w[i].name : i \in 1..n}
    /\ \A name \in DOMAIN ns : \E i \in 1..n : IsLast(w, n, name, i) /\ ns[name] = w[i]

\* What one write more changes: only its own name, and only if it counts.
LEMMA OneWriteMore ==
    ASSUME NEW w, NEW n \in Nat, NEW name
    PROVE  /\ w[n + 1].name # name => Kept(w, n + 1, name) = Kept(w, n, name)
           /\ w[n + 1].name = name =>
                Kept(w, n + 1, name) =
                   Kept(w, n, name) \cup
                      (IF \/ w[n + 1].part = 1 \/ ~IsEmpty(w[n + 1])
                          \/ Mine(w, n, name) = {}
                       THEN {n + 1} ELSE {})
<1> DEFINE m == n + 1
<1>1. m \in Nat /\ 1..m = 1..n \cup {m} /\ \A j \in 1..n : j \in Nat /\ m > j
  OBVIOUS
<1> HIDE DEF m
<1>2. Mine(w, m, name) = Mine(w, n, name) \cup (IF w[m].name = name THEN {m} ELSE {})
  BY <1>1 DEF Mine
<1>3. \A i \in Mine(w, n, name) :
         (\A j \in Mine(w, m, name) : j >= i) <=> (\A j \in Mine(w, n, name) : j >= i)
  <2>1. \A i \in Mine(w, n, name) : i \in 1..n
    BY DEF Mine
  <2>2. \A i \in Mine(w, n, name) : m >= i
    BY <1>1, <2>1
  <2>3. QED
    BY <1>2, <2>2
<1>4. ASSUME w[m].name = name
      PROVE  (\A j \in Mine(w, m, name) : j >= m) <=> Mine(w, n, name) = {}
  <2>1. \A j \in Mine(w, n, name) : ~ (j >= m)
    BY <1>1 DEF Mine
  <2>2. m >= m
    BY <1>1
  <2>3. QED
    BY <1>2, <1>4, <2>1, <2>2
<1>5. CASE w[m].name # name
  <2>1. Mine(w, m, name) = Mine(w, n, name)
    BY <1>2, <1>5
  <2>2. Kept(w, m, name) = Kept(w, n, name)
    BY <2>1 DEF Kept
  <2>3. QED
    BY <1>5, <2>2 DEF m
<1>6. CASE w[m].name = name
  <2>1. Mine(w, m, name) = Mine(w, n, name) \cup {m}
    BY <1>2, <1>6
  <2>2. Kept(w, m, name) =
           Kept(w, n, name) \cup
              (IF w[m].part = 1 \/ ~IsEmpty(w[m]) \/ Mine(w, n, name) = {} THEN {m} ELSE {})
    BY <1>3, <1>4, <1>6, <2>1 DEF Kept
  <2>3. QED
    BY <1>6, <2>2 DEF m
<1>7. QED
  BY <1>5, <1>6

\* A write that counts.
LEMMA Wrote ==
    ASSUME NEW ns, NEW w, NEW n \in Nat, IsLatest(ns, w, n),
           \/ w[n + 1].part = 1 \/ ~IsEmpty(w[n + 1]) \/ w[n + 1].name \notin DOMAIN ns
    PROVE  IsLatest(Named(ns, w[n + 1]), w, n + 1)
<1> DEFINE m == n + 1
           d == w[m]
           more == Named(ns, d)
<1>1. m \in Nat /\ 1..m = 1..n \cup {m} /\ m \in 1..m /\ \A j \in 1..n : j \in 1..m /\ j <= m
  OBVIOUS
<1>2. /\ DOMAIN more = DOMAIN ns \cup {d.name} /\ more[d.name] = d
      /\ \A name \in DOMAIN ns : name # d.name => more[name] = ns[name]
  BY DEF Named
<1>3. DOMAIN more = {w[i].name : i \in 1..m}
  <2> HIDE DEF m
  <2>1. DOMAIN ns = {w[i].name : i \in 1..n}
    BY DEF IsLatest
  <2>2. QED
    BY <1>1, <1>2, <2>1
<1>4. d.name \notin DOMAIN ns => Mine(w, n, d.name) = {}
  BY DEF IsLatest, Mine
<1>5. m \in Kept(w, m, d.name)
  <2>1. d.part = 1 \/ ~IsEmpty(d) \/ Mine(w, n, d.name) = {}
    BY <1>4
  <2>2. Kept(w, m, d.name) =
           Kept(w, n, d.name) \cup
              (IF d.part = 1 \/ ~IsEmpty(d) \/ Mine(w, n, d.name) = {} THEN {m} ELSE {})
    BY OneWriteMore
  <2>3. QED
    BY <2>1, <2>2
<1>6. IsLast(w, m, d.name, m)
  <2>1. \A j \in Kept(w, m, d.name) : j \in 1..m
    BY DEF Kept, Mine
  <2> HIDE DEF m, d
  <2>2. QED
    BY <1>1, <1>5, <2>1 DEF IsLast
<1>7. ASSUME NEW name \in DOMAIN ns, name # d.name
      PROVE  \E i \in 1..m : IsLast(w, m, name, i) /\ more[name] = w[i]
  <2>1. PICK i \in 1..n : IsLast(w, n, name, i) /\ ns[name] = w[i]
    BY DEF IsLatest
  <2>2. Kept(w, m, name) = Kept(w, n, name)
    BY <1>7, OneWriteMore
  <2> HIDE DEF m, d, more
  <2>3. IsLast(w, m, name, i)
    BY <2>1, <2>2 DEF IsLast
  <2>4. QED
    BY <1>1, <1>2, <1>7, <2>1, <2>3
<1> HIDE DEF m, d, more
<1>8. \A name \in DOMAIN more : \E i \in 1..m : IsLast(w, m, name, i) /\ more[name] = w[i]
  <2>1. \E i \in 1..m : IsLast(w, m, d.name, i) /\ more[d.name] = w[i]
    BY <1>1, <1>2, <1>6 DEF d
  <2>2. QED
    BY <1>2, <1>7, <2>1
<1>9. IsLatest(more, w, m)
  BY <1>3, <1>8 DEF IsLatest
<1>10. QED
  BY <1>9 DEF more, d, m

\* An empty definition of a name that has a program does not count.
LEMMA Skipped ==
    ASSUME NEW ns, NEW w, NEW n \in Nat, IsLatest(ns, w, n),
           w[n + 1].part # 1, IsEmpty(w[n + 1]), w[n + 1].name \in DOMAIN ns
    PROVE  IsLatest(ns, w, n + 1)
<1> DEFINE m == n + 1
           d == w[m]
<1>1. 1..m = 1..n \cup {m}
  OBVIOUS
<1>2. DOMAIN ns = {w[i].name : i \in 1..n}
  BY DEF IsLatest
<1>3. DOMAIN ns = {w[i].name : i \in 1..m}
  <2>1. d.name \in DOMAIN ns
    OBVIOUS
  <2> HIDE DEF m
  <2>2. QED
    BY <1>1, <1>2, <2>1
<1>4. Mine(w, n, d.name) # {}
  <2>1. PICK i \in 1..n : d.name = w[i].name
    BY <1>2
  <2>2. i \in Mine(w, n, d.name)
    BY <2>1 DEF Mine
  <2>3. QED
    BY <2>2
<1>5. \A name : Kept(w, m, name) = Kept(w, n, name)
  <2>1. TAKE name
  <2>2. CASE d.name # name
    BY <2>2, OneWriteMore
  <2>3. CASE d.name = name
    <3>1. Kept(w, m, name) =
             Kept(w, n, name) \cup
                (IF d.part = 1 \/ ~IsEmpty(d) \/ Mine(w, n, name) = {} THEN {m} ELSE {})
      BY <2>3, OneWriteMore
    <3>2. d.part # 1 /\ IsEmpty(d) /\ Mine(w, n, name) # {}
      BY <1>4, <2>3
    <3> HIDE DEF d
    <3>3. QED
      BY <3>1, <3>2
  <2>4. QED
    BY <2>2, <2>3
<1> HIDE DEF m, d
<1>6. ASSUME NEW name \in DOMAIN ns
      PROVE  \E i \in 1..m : IsLast(w, m, name, i) /\ ns[name] = w[i]
  <2>1. PICK i \in 1..n : IsLast(w, n, name, i) /\ ns[name] = w[i]
    BY DEF IsLatest
  <2>2. IsLast(w, m, name, i)
    BY <1>5, <2>1 DEF IsLast
  <2>3. QED
    BY <1>1, <2>1, <2>2
<1>7. IsLatest(ns, w, m)
  BY <1>3, <1>6 DEF IsLatest
<1>8. QED
  BY <1>7 DEF m

LEMMA RedefineIsLatest ==
    ASSUME NEW ns, NEW w, NEW n \in Nat, IsLatest(ns, w, n), w[n + 1].part # 1
    PROVE  IsLatest(Redefine(ns, w[n + 1]), w, n + 1)
<1> DEFINE d == w[n + 1]
<1>1. CASE ~IsEmpty(d) \/ d.name \notin DOMAIN ns
  <2>1. IsLatest(Named(ns, d), w, n + 1)
    BY <1>1, Wrote
  <2>2. Redefine(ns, d) = Named(ns, d)
    BY <1>1 DEF Redefine
  <2>3. QED
    BY <2>1, <2>2
<1>2. CASE ~ (~IsEmpty(d) \/ d.name \notin DOMAIN ns)
  <2>1. IsLatest(ns, w, n + 1)
    BY <1>2, Skipped
  <2>2. Redefine(ns, d) = ns
    BY <1>2 DEF Redefine
  <2>3. QED
    BY <2>1, <2>2
<1>3. QED
  BY <1>1, <1>2

\* Only the writes themselves matter.
LEMMA SameWrites ==
    ASSUME NEW ns, NEW w, NEW v, NEW n \in Nat, IsLatest(ns, w, n), \A i \in 1..n : v[i] = w[i]
    PROVE  IsLatest(ns, v, n)
<1>1. \A name : Mine(v, n, name) = Mine(w, n, name)
  BY DEF Mine
<1>2. \A name : Kept(v, n, name) = Kept(w, n, name)
  <2>1. \A name : \A i \in Mine(w, n, name) : v[i] = w[i]
    BY DEF Mine
  <2>2. QED
    BY <1>1, <2>1 DEF Kept
<1>3. \A name, i : IsLast(v, n, name, i) <=> IsLast(w, n, name, i)
  BY <1>2 DEF IsLast
<1>4. DOMAIN ns = {v[i].name : i \in 1..n}
  BY DEF IsLatest
<1>5. QED
  BY <1>3, <1>4 DEF IsLatest

\* A source's definitions are written after its body.
LEMMA AddSourceIsLatest ==
    ASSUME NEW P \in SUBSET Programs, NEW N, NEW ns \in Namespaces(P, N), NEW w \in Seq(Programs),
           IsLatest(ns, w, Len(w)), NEW s \in Sources, NEW name \in STRING,
           Root(s, name) \in P, Definitions(s) \in Seq(P)
    PROVE  LET v == w \o <<Root(s, name)>> \o Definitions(s)
           IN  IsLatest(AddSource(ns, s, name), v, Len(v))
<1> DEFINE root == Root(s, name)
           ds == Definitions(s)
           base == Named(ns, root)
           v == w \o <<root>> \o ds
           n == Len(w)
           V == Namespaces(P, N)
<1>1. n \in Nat /\ ds \in Seq(P) /\ \A k \in 1..Len(ds) : ds[k].part # 1
  <2>1. \A k \in 1..Len(ds) : ds[k].part = k + 1
    BY SourcePrograms
  <2>2. \A k \in 1..Len(ds) : k + 1 # 1
    OBVIOUS
  <2>3. QED
    BY <2>1, <2>2
<1>2. root \in P /\ root.part = 1
  BY DEF Root, Program
<1>3. AddSource(ns, s, name) = Redefining!Folded(base, ds)
  BY AddSourceFolds
<1>4. base \in V
  <2> HIDE DEF root
  <2>1. QED
    BY <1>2, OneWrite
<1>5. Redefining!Closed(V, P)
  BY RedefineKeeps DEF Redefining!Closed
<1> HIDE DEF V, ds, root
<1>6. /\ Len(v) = n + 1 + Len(ds) /\ v[n + 1] = root
      /\ \A i \in 1..n : v[i] = w[i]
      /\ \A k \in 1..Len(ds) : v[n + 1 + k] = ds[k]
  BY <1>1, <1>2
<1> HIDE DEF v, n
<1>7. IsLatest(base, v, n + 1)
  <2>1. IsLatest(ns, v, n)
    BY <1>1, <1>6, SameWrites DEF n
  <2>2. IsLatest(Named(ns, v[n + 1]), v, n + 1)
    BY <1>1, <1>2, <1>6, <2>1, Wrote
  <2>3. QED
    BY <1>6, <2>2
<1> HIDE DEF base
<1>8. PICK f : Redefining!Goes(f, base, ds, V)
  BY <1>1, <1>4, <1>5, Redefining!FoldSteps
<1>9. /\ f[0] = base /\ f[Len(ds)] = Redefining!Folded(base, ds)
      /\ \A k \in 1..Len(ds) : f[k] = Redefine(f[k - 1], ds[k])
  BY <1>8 DEF Redefining!Goes
<1> DEFINE S == {k \in Nat : k <= Len(ds) => IsLatest(f[k], v, n + 1 + k)}
<1>10. 0 \in S
  <2>1. n + 1 + 0 = n + 1
    BY <1>1
  <2>2. QED
    BY <1>7, <1>9, <2>1
<1>11. ASSUME NEW k \in Nat, k \in S
       PROVE  k + 1 \in S
  <2>1. SUFFICES ASSUME k + 1 <= Len(ds)
                 PROVE  IsLatest(f[k + 1], v, n + 1 + (k + 1))
    OBVIOUS
  <2> DEFINE m == n + 1 + k
             j == k + 1
  <2>2. Len(ds) \in Nat
    BY <1>1
  <2>3. /\ m \in Nat /\ n + 1 + (k + 1) = m + 1 /\ n + 1 + j = m + 1
        /\ j \in 1..Len(ds) /\ j - 1 = k
    BY <1>1, <2>1, <2>2
  <2>4. IsLatest(f[k], v, m)
    BY <1>11, <2>1, <2>2
  <2> HIDE DEF m, j
  <2>5. v[m + 1] = ds[j] /\ ds[j].part # 1
    BY <1>1, <1>6, <2>3
  <2>6. IsLatest(Redefine(f[k], v[m + 1]), v, m + 1)
    BY <2>3, <2>4, <2>5, RedefineIsLatest
  <2>7. f[j] = Redefine(f[j - 1], ds[j])
    BY <1>9, <2>3
  <2>8. f[j] = Redefine(f[k], v[m + 1])
    BY <2>3, <2>5, <2>7
  <2>9. IsLatest(f[j], v, m + 1)
    BY <2>6, <2>8
  <2>10. QED
    BY <2>3, <2>9 DEF j
<1>12. \A k \in Nat : k \in S
  <2> HIDE DEF S
  <2>1. QED
    BY <1>10, <1>11, Redefining!Induct
<1>13. IsLatest(f[Len(ds)], v, n + 1 + Len(ds))
  BY <1>1, <1>12
<1>14. IsLatest(AddSource(ns, s, name), v, Len(v))
  BY <1>3, <1>6, <1>9, <1>13
<1>15. QED
  BY <1>14 DEF v, root, ds

\* The first source's definitions have names of their own, and its body is
\* written last.
LEMMA FirstIsLatest ==
    ASSUME NEW s \in Sources, NEW name \in STRING
    PROVE  LET v == Definitions(s) \o <<Root(s, name)>>
           IN  IsLatest(FirstNamespace(s, name), v, Len(v))
<1> DEFINE root == Root(s, name)
           ds == Definitions(s)
           v == ds \o <<root>>
           V == Namespaces(Programs, {})
           n == Len(ds)
<1>1. /\ n \in Nat /\ ds \in Seq(Programs) /\ root \in Programs
      /\ \A i, j \in 1..n : ds[i].name = ds[j].name => i = j
  <2>1. /\ ds \in Seq(Programs) /\ root \in Programs /\ n = Len(SourceOf(s).parts) - 1
        /\ \A i \in 1..n : ds[i].name = SourceOf(s).parts[i + 1].name
    BY SourcePrograms
  <2>2. /\ Len(SourceOf(s).parts) \in Nat
        /\ \A i, j \in 2..Len(SourceOf(s).parts) :
             SourceOf(s).parts[i].name = SourceOf(s).parts[j].name => i = j
    BY AssociationsAssumption DEF AssociationsAssumption
  <2>3. ASSUME NEW i \in 1..n, NEW j \in 1..n, ds[i].name = ds[j].name
        PROVE  i = j
    <3>1. i + 1 \in 2..Len(SourceOf(s).parts) /\ j + 1 \in 2..Len(SourceOf(s).parts)
      BY <2>1, <2>2
    <3>2. i + 1 = j + 1
      BY <2>1, <2>2, <2>3, <3>1
    <3>3. QED
      BY <3>2
  <2>4. n \in Nat
    BY <2>1
  <2>5. QED
    BY <2>1, <2>3, <2>4
<1>2. root.part = 1
  BY DEF Root, Program
<1>3. FirstNamespace(s, name) = Naming!Folded(<<>>, v)
  BY FirstNamespaceFolds
<1>4. <<>> \in V
  <2>1. <<>> \in [{} -> Programs]
    OBVIOUS
  <2>2. QED
    BY <2>1 DEF Namespaces
<1>5. Naming!Closed(V, Programs)
  <2>1. Programs \in SUBSET Programs
    OBVIOUS
  <2>2. ASSUME NEW ns \in V, NEW d \in Programs
        PROVE  Named(ns, d) \in V
    BY <2>1, OneWrite
  <2>3. QED
    BY <2>2 DEF Naming!Closed
<1> HIDE DEF V, ds, root
<1>6. /\ v \in Seq(Programs) /\ Len(v) = n + 1 /\ v[n + 1] = root
      /\ \A k \in 1..n : v[k] = ds[k]
  BY <1>1
<1> HIDE DEF v, n
<1>7. PICK f : Naming!Goes(f, <<>>, v, V)
  BY <1>4, <1>5, <1>6, Naming!FoldSteps
<1>8. /\ f[0] = <<>> /\ f[n + 1] = Naming!Folded(<<>>, v)
      /\ \A k \in 1..(n + 1) : f[k] = Named(f[k - 1], v[k])
  BY <1>6, <1>7 DEF Naming!Goes
<1> DEFINE S == {k \in Nat : k <= n + 1 => IsLatest(f[k], v, k)}
<1>9. 0 \in S
  <2>1. 1..0 = {} /\ DOMAIN <<>> = {}
    OBVIOUS
  <2>2. IsLatest(<<>>, v, 0)
    BY <2>1 DEF IsLatest
  <2>3. QED
    BY <1>8, <2>2
<1>10. ASSUME NEW k \in Nat, k \in S
       PROVE  k + 1 \in S
  <2>1. SUFFICES ASSUME k + 1 <= n + 1
                 PROVE  IsLatest(f[k + 1], v, k + 1)
    OBVIOUS
  <2> DEFINE j == k + 1
  <2>2. j \in 1..(n + 1) /\ j - 1 = k
    BY <1>1, <2>1
  <2>3. IsLatest(f[k], v, k)
    BY <1>1, <1>10, <2>1
  <2>4. f[j] = Named(f[k], v[j])
    <3> HIDE DEF j
    <3>1. f[j] = Named(f[j - 1], v[j])
      BY <1>8, <2>2
    <3>2. QED
      BY <2>2, <3>1
  <2>5. v[j].part = 1 \/ v[j].name \notin DOMAIN f[k]
    <3>1. CASE j = n + 1
      BY <1>2, <1>6, <3>1
    <3>2. CASE j # n + 1
      <4>1. j \in 1..n /\ \A i \in 1..k : i \in 1..n /\ i # j
        BY <1>1, <2>2, <3>2
      <4> HIDE DEF j
      <4>2. \A i \in 1..k : v[i] = ds[i] /\ v[j] = ds[j]
        BY <1>6, <4>1
      <4>3. \A i \in 1..k : v[i].name # v[j].name
        BY <1>1, <4>1, <4>2
      <4>4. DOMAIN f[k] = {v[i].name : i \in 1..k}
        BY <2>3 DEF IsLatest
      <4>5. QED
        BY <4>3, <4>4
    <3>3. QED
      BY <3>1, <3>2
  <2>6. IsLatest(Named(f[k], v[j]), v, j)
    BY <2>3, <2>5, Wrote
  <2>7. QED
    BY <2>4, <2>6
<1>11. \A k \in Nat : k \in S
  <2> HIDE DEF S
  <2>1. QED
    BY <1>9, <1>10, Naming!Induct
<1>12. IsLatest(f[n + 1], v, n + 1)
  <2>1. n + 1 \in Nat /\ n + 1 <= n + 1
    BY <1>1
  <2>2. QED
    BY <1>11, <2>1
<1>13. IsLatest(FirstNamespace(s, name), v, Len(v))
  BY <1>3, <1>6, <1>8, <1>12
<1>14. QED
  BY <1>13 DEF v, root, ds

LEMMA WritingIsClosed ==
    Writing!Closed(Seq(Programs), SourceItems)
<1> SUFFICES ASSUME NEW w \in Seq(Programs), NEW item \in SourceItems
             PROVE  AddWrites(w, item) \in Seq(Programs)
  BY DEF Writing!Closed
<1> DEFINE root == Root(item.source, item.name)
           ds == Definitions(item.source)
<1>1. root \in Programs /\ ds \in Seq(Programs)
  BY SourcePrograms DEF SourceItems
<1> HIDE DEF root, ds
<1>2. w \o <<root>> \o ds \in Seq(Programs)
  BY <1>1
<1>3. QED
  BY <1>2 DEF AddWrites, root, ds

FirstWrites(items) == Definitions(items[1].source) \o <<FirstRoot(items)>>

\* The writes of one source, and of one source more.
LEMMA WritesGrow ==
    ASSUME NEW items \in Seq(SourceItems), Len(items) > 0
    PROVE  /\ FirstWrites(items) \in Seq(Programs)
           /\ Writes(items) = Writing!Folded(FirstWrites(items), Tail(items))
           /\ Tail(items) \in Seq(SourceItems)
           /\ Writes(items) \in Seq(Programs)
<1> DEFINE w == FirstWrites(items)
           more == Tail(items)
<1>1. items[1] \in SourceItems /\ more \in Seq(SourceItems)
  <2>1. items \in Seq(SourceItems) /\ 1 \in 1..Len(items)
    OBVIOUS
  <2>2. items[1] \in SourceItems
    BY <2>1
  <2>3. items # <<>>
    BY <2>1
  <2>4. Tail(items) \in Seq(SourceItems)
    BY <2>1, <2>3
  <2>5. QED
    BY <2>2, <2>4
<1>2. w \in Seq(Programs)
  <2> DEFINE root == FirstRoot(items)
             ds == Definitions(items[1].source)
  <2>1. root \in Programs /\ ds \in Seq(Programs)
    BY <1>1, SourcePrograms DEF SourceItems, FirstRoot
  <2> HIDE DEF root, ds
  <2>2. ds \o <<root>> \in Seq(Programs)
    BY <2>1
  <2>3. QED
    BY <2>2 DEF FirstWrites, root, ds
<1>3. Writes(items) = Writing!Folded(w, more)
  BY WritesFolds DEF FirstWrites, FirstRoot
<1> HIDE DEF w, more
<1>4. Writing!Folded(w, more) \in Seq(Programs)
  <2> DEFINE V == Seq(Programs)
  <2>1. w \in V /\ Writing!Closed(V, SourceItems)
    BY <1>2, WritingIsClosed
  <2> HIDE DEF V
  <2>2. Writing!Folded(w, more) \in V
    BY <1>1, <2>1, Writing!FoldType
  <2>3. QED
    BY <2>2 DEF V
<1>5. QED
  BY <1>1, <1>2, <1>3, <1>4 DEF w, more

LEMMA WritesOfOne ==
    ASSUME NEW item \in SourceItems
    PROVE  Writes(<<item>>) = Definitions(item.source) \o <<Root(item.source, item.name)>>
<1> DEFINE items == <<item>>
           V == Seq(Programs)
           w == FirstWrites(items)
<1>1. items \in Seq(SourceItems) /\ Len(items) = 1 /\ items[1] = item /\ Tail(items) = <<>>
  OBVIOUS
<1> HIDE DEF items
<1>2. w \in V /\ Writes(items) = Writing!Folded(w, Tail(items))
  <2>1. Len(items) > 0
    BY <1>1
  <2>2. w \in V
    BY <1>1, <2>1, WritesGrow
  <2>3. Writes(items) = Writing!Folded(w, Tail(items))
    BY <1>1, <2>1, WritesGrow
  <2>4. QED
    BY <2>2, <2>3
<1>3. Writing!Closed(V, SourceItems)
  BY WritingIsClosed
<1> HIDE DEF V, w
<1>4. Writing!Folded(w, <<>>) = w
  BY <1>2, <1>3, Writing!FoldNothing
<1>5. Writes(items) = w
  BY <1>1, <1>2, <1>4
<1>6. w = Definitions(item.source) \o <<Root(item.source, item.name)>>
  BY <1>1 DEF w, FirstWrites, FirstRoot
<1>7. QED
  BY <1>5, <1>6 DEF items

LEMMA WritesOfMore ==
    ASSUME NEW items \in Seq(SourceItems), Len(items) > 0, NEW item \in SourceItems
    PROVE  Writes(items \o <<item>>) = AddWrites(Writes(items), item)
<1> DEFINE longer == items \o <<item>>
           V == Seq(Programs)
           w == FirstWrites(items)
           more == Tail(items)
<1>1. longer \in Seq(SourceItems) /\ Len(longer) > 0 /\ longer[1] = items[1]
  OBVIOUS
<1>2. Tail(longer) = Append(more, item)
  <2>1. /\ Len(longer) = Len(items) + 1 /\ longer[Len(items) + 1] = item
        /\ \A i \in 1..Len(items) : longer[i] = items[i]
    OBVIOUS
  <2>2. Tail(longer) = [i \in 1..Len(items) |-> longer[i + 1]]
    BY <1>1, <2>1
  <2>3. /\ Append(more, item) = [i \in 1..Len(items) |-> Append(more, item)[i]]
        /\ \A i \in 1..(Len(items) - 1) : Append(more, item)[i] = items[i + 1]
        /\ Append(more, item)[Len(items)] = item
    <3>1. /\ more \in Seq(SourceItems) /\ Len(more) = Len(items) - 1
          /\ \A i \in 1..(Len(items) - 1) : more[i] = items[i + 1]
      <4>1. items # <<>>
        OBVIOUS
      <4>2. QED
        BY <4>1
    <3> HIDE DEF more
    <3>2. /\ Append(more, item) \in Seq(SourceItems) /\ Len(Append(more, item)) = Len(items)
          /\ Append(more, item)[Len(items)] = item
          /\ \A i \in 1..(Len(items) - 1) : Append(more, item)[i] = more[i]
      BY <3>1
    <3> DEFINE s == Append(more, item)
    <3>3. s = [i \in 1..Len(items) |-> s[i]]
      <4> HIDE DEF s
      <4>1. s \in Seq(SourceItems) /\ Len(s) = Len(items)
        BY <3>2 DEF s
      <4>2. QED
        BY <4>1
    <3>4. \A i \in 1..(Len(items) - 1) : s[i] = items[i + 1]
      BY <3>1, <3>2
    <3>5. QED
      BY <3>2, <3>3, <3>4
  <2> HIDE DEF longer, more
  <2>4. \A i \in 1..Len(items) : longer[i + 1] = Append(more, item)[i]
    <3>1. TAKE i \in 1..Len(items)
    <3>2. CASE i = Len(items)
      BY <2>1, <2>3, <3>2
    <3>3. CASE i # Len(items)
      <4>1. i \in 1..(Len(items) - 1) /\ i + 1 \in 1..Len(items)
        BY <3>3
      <4>2. QED
        BY <2>1, <2>3, <4>1
    <3>4. QED
      BY <3>2, <3>3
  <2>5. QED
    BY <2>2, <2>3, <2>4
<1> HIDE DEF longer
<1>3. /\ w \in V /\ more \in Seq(SourceItems)
      /\ Writes(items) = Writing!Folded(w, more)
  BY WritesGrow
<1>4. FirstWrites(longer) = w /\ Writes(longer) = Writing!Folded(w, Tail(longer))
  BY <1>1, WritesGrow DEF FirstWrites, FirstRoot
<1>5. Writing!Closed(V, SourceItems)
  BY WritingIsClosed
<1> HIDE DEF V, w, more
<1>6. Writing!Folded(w, Append(more, item)) = AddWrites(Writing!Folded(w, more), item)
  BY <1>3, <1>5, Writing!FoldAppends
<1>7. Writes(longer) = AddWrites(Writes(items), item)
  BY <1>2, <1>3, <1>4, <1>6
<1>8. QED
  BY <1>7 DEF longer

\* A namespace that is what the writes of a history leave.
IsOf(ns, items) == IsLatest(ns, Writes(items), Len(Writes(items)))

\* from_sources joins sources and writes alike.
LEMMA JoinedIsLatest ==
    ASSUME NEW e, IsEnvironment(e), NEW items \in Seq(SourceItems), Len(items) > 0,
           FromSources(items, e).ok
    PROVE  IsOf(FromSources(items, e).v.namespace, items)
<1> DEFINE first == FirstBuilt(items, e)
           root == FirstRoot(items)
           ok == first.ok
           V == Joinable(e, root, ok)
           W == Seq(Programs)
           more == Tail(items)
           w == FirstWrites(items)
           n == Len(more)
<1>1. /\ more \in Seq(SourceItems) /\ items[1] \in SourceItems
      /\ \E f : Joining!Goes(f, first, more, V)
      /\ FromSources(items, e) = Joining!Folded(first, more)
  BY JoiningGoes
<1>2. w \in W /\ Writes(items) = Writing!Folded(w, more)
  BY WritesGrow
<1>3. first.ok => IsLatest(first.v.namespace, w, Len(w))
  <2>1. items[1].source \in Sources /\ items[1].name \in STRING
    BY <1>1 DEF SourceItems
  <2>2. IsLatest(FirstNamespace(items[1].source, items[1].name), w, Len(w))
    BY <2>1, FirstIsLatest DEF FirstWrites, FirstRoot
  <2>3. first.ok => first.v.namespace = FirstNamespace(items[1].source, items[1].name)
    <3> DEFINE s == items[1].source
               name == items[1].name
    <3> HIDE DEF s, name
    <3>1. NewTemplate(s, name, e).ok =>
            NewTemplate(s, name, e) =
               Built(Template(Root(s, name), FirstNamespace(s, name), e, Library(e)))
      BY <2>1, NewTemplates DEF s, name, Library
    <3>2. Template(Root(s, name), FirstNamespace(s, name), e, Library(e)).namespace =
             FirstNamespace(s, name)
      BY TemplateFields
    <3>3. QED
      BY <3>1, <3>2 DEF FirstBuilt, Built, s, name
  <2>4. QED
    BY <2>2, <2>3
<1> HIDE DEF first, root, ok, V, more, w
<1>4. PICK f : Joining!Goes(f, first, more, V)
  BY <1>1
<1>5. PICK g : Writing!Goes(g, w, more, W)
  <2>1. Writing!Closed(W, SourceItems)
    BY WritingIsClosed
  <2> HIDE DEF W
  <2>2. QED
    BY <1>1, <1>2, <2>1, Writing!FoldSteps
<1>6. /\ f[0] = first /\ f[n] = FromSources(items, e)
      /\ \A k \in 1..n : f[k - 1] \in V /\ f[k] = AddItem(f[k - 1], more[k])
  BY <1>1, <1>4 DEF Joining!Goes
<1>7. /\ g[0] = w /\ g[n] = Writes(items)
      /\ \A k \in 1..n : g[k - 1] \in W /\ g[k] = AddWrites(g[k - 1], more[k])
  BY <1>2, <1>5 DEF Writing!Goes
<1> DEFINE Follows(k) == f[k].ok => IsLatest(f[k].v.namespace, g[k], Len(g[k]))
           S == {k \in Nat : k <= n => Follows(k)}
<1>8. 0 \in S
  BY <1>3, <1>6, <1>7
<1>9. n \in Nat /\ \A k \in 1..n : more[k] \in SourceItems
  BY <1>1
<1> HIDE DEF n
<1>10. ASSUME NEW k \in Nat, k \in S
       PROVE  k + 1 \in S
  <2> DEFINE j == k + 1
  <2>1. SUFFICES ASSUME j <= n, f[j].ok
                 PROVE  IsLatest(f[j].v.namespace, g[j], Len(g[j]))
    OBVIOUS
  <2>2. j \in 1..n /\ j - 1 = k /\ k <= n
    BY <1>9, <2>1
  <2> HIDE DEF j
  <2> DEFINE item == more[j]
             a == f[k]
             v == g[k]
  <2>3. /\ f[j - 1] \in V /\ f[j] = AddItem(f[j - 1], item) /\ item \in SourceItems
        /\ g[j - 1] \in W /\ g[j] = AddWrites(g[j - 1], item)
    BY <1>6, <1>7, <1>9, <2>2
  <2>4. a \in V /\ f[j] = AddItem(a, item) /\ v \in W /\ g[j] = AddWrites(v, item)
    BY <2>2, <2>3
  <2> HIDE DEF item
  <2>5. PICK ns : Joins(a, item, e, root, ok, ns)
    <3> HIDE DEF a
    <3>1. AddItem(a, item).ok
      BY <2>1, <2>4
    <3>2. QED
      BY <2>3, <2>4, <3>1, OneJoin DEF V
  <2> DEFINE P == Accepted(Library(e), e.sandbox)
             N == {root.name}
             added == AddSource(ns, item.source, item.name)
  <2>6. /\ a = Joined(e, root, ns) /\ ns \in Namespaces(P, N)
        /\ f[j] = Joined(e, root, added)
        /\ Root(item.source, item.name) \in P /\ Definitions(item.source) \in Seq(P)
    BY <2>4, <2>5 DEF Joins, IsJoined
  <2>7. \A m : Joined(e, root, m).ok /\ Joined(e, root, m).v.namespace = m
    BY TemplateFields DEF Joined, Built
  <2>8. IsLatest(ns, v, Len(v))
    <3>1. a.ok /\ a.v.namespace = ns
      BY <2>6, <2>7
    <3>2. Follows(k)
      BY <1>10, <2>2
    <3>3. QED
      BY <3>1, <3>2
  <2>9. P \in SUBSET Programs /\ item.source \in Sources /\ item.name \in STRING
    BY <2>3 DEF Accepted, SourceItems
  <2> HIDE DEF P, N, v, a
  <2>10. IsLatest(added, AddWrites(v, item), Len(AddWrites(v, item)))
    BY <2>4, <2>6, <2>8, <2>9, AddSourceIsLatest DEF AddWrites
  <2>11. f[j].v.namespace = added
    BY <2>6, <2>7
  <2>12. QED
    BY <2>4, <2>10, <2>11
<1>11. \A k \in Nat : k \in S
  <2> HIDE DEF S
  <2>1. QED
    BY <1>8, <1>10, Joining!Induct
<1>12. Follows(n)
  BY <1>9, <1>11
<1>13. QED
  BY <1>6, <1>7, <1>12 DEF IsOf

----------------------------------------------------------------------------
(* The namespace of every reachable template                                *)

TextOf(t) == IF t.kind = "text" THEN t ELSE t.text

LatestInv ==
    /\ template = None => history = <<>>
    /\ template # None => /\ history \in Seq(SourceItems) /\ Len(history) > 0
                          /\ IsOf(TextOf(template).namespace, history)

LEMMA TemplateIsSome ==
    ASSUME NEW t, IsTemplate(t)
    PROVE  t # None /\ IsText(TextOf(t))
<1>1. CASE t.kind = "text" /\ IsText(t)
  <2> DEFINE runtime == ExecutionFunctionRegistry(t.functions, t.sandbox)
             linked == LinkAssociation(t.program, t.namespace, runtime, TRUE)
  <2>1. t = Template(t.program, t.namespace, t, t.functions)
    BY <1>1 DEF IsText
  <2> HIDE DEF runtime, linked
  <2>2. t = [kind |-> "text", program |-> t.program, namespace |-> t.namespace,
             python |-> t.python, sandbox |-> t.sandbox, functions |-> t.functions,
             runtime |-> runtime, linked |-> linked]
    BY <2>1 DEF Template, runtime, linked
  <2>3. "kind" \in DOMAIN t
    BY <2>2
  <2>4. QED
    BY <1>1, <2>3 DEF None, TextOf
<1>2. CASE t.kind = "html" /\ IsHtml(t)
  <2> DEFINE u == t.text
             h == InitializeHtml(u)
  <2>1. IsText(u) /\ h = Built(t)
    BY <1>2 DEF IsHtml
  <2>2. h.ok
    BY <2>1 DEF Built
  <2>3. "kind" \in DOMAIN h.v
    BY <2>2 DEF InitializeHtml, Error, Built
  <2> HIDE DEF h
  <2>4. h.v = t
    BY <2>1 DEF Built
  <2>5. "kind" \in DOMAIN t
    BY <2>3, <2>4
  <2>6. QED
    BY <1>2, <2>1, <2>5 DEF None, TextOf
<1>3. QED
  BY <1>1, <1>2 DEF IsTemplate

\* Analysis keeps the text template it is made from.
LEMMA AnalyzedText ==
    ASSUME NEW b, Analyzed(b).ok
    PROVE  b.ok /\ TextOf(Analyzed(b).v) = b.v
<1> DEFINE h == InitializeHtml(b.v)
<1>1. b.ok /\ Analyzed(b) = h
  BY DEF Analyzed
<1>2. h.ok
  BY <1>1
<1>3. h.v.kind = "html" /\ h.v.text = b.v
  BY <1>2 DEF InitializeHtml, Error, Built
<1> HIDE DEF h
<1>4. QED
  BY <1>1, <1>3 DEF TextOf

LEMMA TextOfKind ==
    ASSUME NEW b, b.ok => IsText(b.v), NEW kind \in Kinds, OfKind(kind, b).ok
    PROVE  b.ok /\ TextOf(OfKind(kind, b).v) = b.v
<1>1. CASE kind = "text"
  <2>1. OfKind(kind, b) = b
    BY <1>1 DEF OfKind
  <2>2. QED
    BY <2>1, TextFields DEF TextOf
<1>2. CASE kind = "html"
  <2>1. OfKind(kind, b) = Analyzed(b)
    BY <1>2 DEF OfKind, Error
  <2>2. QED
    BY <2>1, AnalyzedText
<1>3. QED
  BY <1>1, <1>2 DEF Kinds

\* A source that a text template is given is written after its history.
LEMMA WithSourceIsLatest ==
    ASSUME NEW t, IsText(t), NEW items \in Seq(SourceItems), Len(items) > 0,
           IsOf(t.namespace, items), NEW s \in Sources, NEW name \in STRING,
           WithSource(t, s, name).ok
    PROVE  IsOf(WithSource(t, s, name).v.namespace, items \o <<[source |-> s, name |-> name]>>)
<1> DEFINE P == Accepted(t.functions, t.sandbox)
           N == {t.program.name}
           ns == t.namespace
           item == [source |-> s, name |-> name]
           more == AddSource(ns, s, name)
           w == Writes(items)
<1>1. /\ FitsPolicy(t.sandbox, s) /\ Compiles(s, t.functions)
      /\ WithSource(t, s, name) = Built(Template(Root(s, name), more, t, t.functions))
  BY DEF WithSource, Error
<1>2. WithSource(t, s, name).v.namespace = more
  BY <1>1, TemplateFields DEF Built
<1>3. ns \in Namespaces(P, N)
  BY TextFields
<1>4. Root(s, name) \in P /\ Definitions(s) \in Seq(P) /\ P \in SUBSET Programs
  <2>1. P \in SUBSET Programs
    BY DEF Accepted
  <2>2. QED
    BY <1>1, <2>1, AcceptedSource
<1>5. item \in SourceItems /\ item.source = s /\ item.name = name
  BY DEF SourceItems
<1>6. w \in Seq(Programs) /\ IsLatest(ns, w, Len(w))
  BY WritesGrow DEF IsOf
<1> HIDE DEF P, N, ns, item, w
<1>7. AddWrites(w, item) = w \o <<Root(s, name)>> \o Definitions(s)
  BY <1>5 DEF AddWrites
<1>8. IsLatest(AddSource(ns, s, name), AddWrites(w, item), Len(AddWrites(w, item)))
  BY <1>3, <1>4, <1>6, <1>7, AddSourceIsLatest
<1>9. Writes(items \o <<item>>) = AddWrites(w, item)
  BY <1>5, WritesOfMore DEF w
<1>10. IsOf(more, items \o <<item>>)
  BY <1>8, <1>9 DEF IsOf
<1>11. QED
  BY <1>2, <1>10 DEF item

LEMMA DerivedIsLatest ==
    ASSUME NEW t, IsTemplate(t), NEW items \in Seq(SourceItems), Len(items) > 0,
           IsOf(TextOf(t).namespace, items)
    PROVE  /\ \A s \in Sources, name \in STRING : Derived(t, s, name).ok =>
                IsOf(TextOf(Derived(t, s, name).v).namespace,
                     items \o <<[source |-> s, name |-> name]>>)
           /\ \A m \in Registrations : Extended(t, m).ok =>
                IsOf(TextOf(Extended(t, m).v).namespace, items)
<1> DEFINE u == TextOf(t)
<1>1. IsText(u) /\ (t.kind = "text" \/ t.kind = "html")
  BY TemplateIsSome DEF IsTemplate
<1>2. ASSUME NEW s \in Sources, NEW name \in STRING, Derived(t, s, name).ok
      PROVE  IsOf(TextOf(Derived(t, s, name).v).namespace,
                  items \o <<[source |-> s, name |-> name]>>)
  <2> DEFINE b == WithSource(u, s, name)
             d == Derived(t, s, name)
  <2>1. b.ok /\ TextOf(d.v) = b.v
    <3>1. CASE t.kind = "text"
      <4>1. d = b /\ d.ok
        BY <1>2, <3>1 DEF Derived, TextOf
      <4>2. b.v.kind = "text"
        BY <1>1, <4>1, WithSources, TextFields
      <4>3. QED
        BY <4>1, <4>2 DEF TextOf
    <3>2. CASE t.kind = "html"
      <4>1. d = Analyzed(b) /\ d.ok
        BY <1>2, <3>2 DEF Derived, TextOf
      <4> HIDE DEF b, d
      <4>2. QED
        BY <4>1, AnalyzedText
    <3>3. QED
      BY <1>1, <3>1, <3>2
  <2> HIDE DEF u
  <2>2. IsOf(b.v.namespace, items \o <<[source |-> s, name |-> name]>>)
    BY <1>1, <2>1, WithSourceIsLatest DEF u
  <2>3. QED
    BY <2>1, <2>2
<1>3. ASSUME NEW m \in Registrations, Extended(t, m).ok
      PROVE  IsOf(TextOf(Extended(t, m).v).namespace, items)
  <2> DEFINE b == WithFunctions(u, m)
             d == Extended(t, m)
  <2>1. b.ok /\ TextOf(d.v) = b.v
    <3>1. CASE t.kind = "text"
      <4>1. d = b /\ d.ok
        BY <1>3, <3>1 DEF Extended, TextOf
      <4>2. b.v.kind = "text"
        BY <1>1, <4>1, WithMoreFunctions, TextFields
      <4>3. QED
        BY <4>1, <4>2 DEF TextOf
    <3>2. CASE t.kind = "html"
      <4>1. d = Analyzed(b) /\ d.ok
        BY <1>3, <3>2 DEF Extended, TextOf
      <4> HIDE DEF b, d
      <4>2. QED
        BY <4>1, AnalyzedText
    <3>3. QED
      BY <1>1, <3>1, <3>2
  <2> DEFINE registry == Overlay(m, u.functions)
  <2>2. b = Built(Template(u.program, u.namespace, u, registry))
    BY <2>1 DEF WithFunctions, Error
  <2>3. b.v.namespace = u.namespace
    BY <2>2, TemplateFields DEF Built
  <2>4. QED
    BY <2>1, <2>3
<1>4. QED
  BY <1>2, <1>3

LEMMA CompiledIsLatest ==
    ASSUME LatestInv, NEW b, NEW items, Compiled(b, items),
           b.ok => /\ IsTemplate(b.v) /\ history \o items \in Seq(SourceItems)
                   /\ Len(history \o items) > 0
                   /\ IsOf(TextOf(b.v).namespace, history \o items)
    PROVE  LatestInv'
<1>1. CASE Raises(b)
  BY <1>1 DEF LatestInv, Raises, vars
<1>2. CASE b.ok /\ template' = b.v /\ history' = history \o items
  <2>1. template' # None
    BY <1>2, TemplateIsSome
  <2>2. QED
    BY <1>2, <2>1 DEF LatestInv
<1>3. QED
  BY <1>1, <1>2 DEF Compiled

LEMMA LatestStep ==
    ChainInv /\ LatestInv /\ [Next]_vars => LatestInv'
<1> SUFFICES ASSUME ChainInv, LatestInv, [Next]_vars
             PROVE  LatestInv'
  OBVIOUS
<1>1. Names \subseteq STRING
  BY AssociationsAssumption DEF AssociationsAssumption
<1>2. ASSUME UNCHANGED <<template, history>>
      PROVE  LatestInv'
  BY <1>2 DEF LatestInv
<1>3. CASE UNCHANGED vars
  BY <1>2, <1>3 DEF vars
<1>4. CASE \/ Construct \/ EnvironmentWithExtension \/ EnvironmentWithFunctions
  <2>1. UNCHANGED <<template, history>>
    BY <1>4 DEF Construct, EnvironmentWithExtension, EnvironmentWithFunctions, Environs, Raises, vars
  <2>2. QED
    BY <1>2, <2>1
<1>5. CASE \/ RenderString \/ RenderHtmlString \/ RenderOwn \/ RenderNamed \/ RenderSource
           \/ RenderContexts
  <2>1. UNCHANGED <<template, history>>
    BY <1>5 DEF RenderString, RenderHtmlString, RenderNow, RenderOwn, RenderNamed, RenderSource,
                RenderContexts, Renders, Raises, vars
  <2>2. QED
    BY <1>2, <2>1
<1>6. ASSUME Configuring
      PROVE  IsEnvironment(environment) /\ history = <<>>
  BY <1>6 DEF ChainInv, LatestInv, Configuring
<1>7. ASSUME Ready
      PROVE  /\ IsTemplate(template) /\ history \in Seq(SourceItems) /\ Len(history) > 0
             /\ IsOf(TextOf(template).namespace, history)
  BY <1>7 DEF ChainInv, LatestInv, Ready
<1>8. CASE FromString
  <2>1. PICK kind \in Kinds, s \in Sources, name \in Names :
           Compiled(OfKind(kind, NewTemplate(s, name, environment)),
                    <<[source |-> s, name |-> name]>>)
    BY <1>8 DEF FromString
  <2> DEFINE item == [source |-> s, name |-> name]
             b == NewTemplate(s, name, environment)
             k == OfKind(kind, b)
  <2>2. IsEnvironment(environment) /\ history = <<>> /\ name \in STRING
    BY <1>1, <1>6, <1>8 DEF FromString
  <2>3. item \in SourceItems /\ item.source = s /\ item.name = name
    BY <2>2 DEF SourceItems
  <2>4. b.ok => IsText(b.v) /\ IsOf(b.v.namespace, <<item>>)
    <3>1. SUFFICES ASSUME b.ok
                   PROVE  IsText(b.v) /\ IsOf(b.v.namespace, <<item>>)
      OBVIOUS
    <3>2. IsText(b.v)
      BY <2>2, <3>1, CompiledTexts
    <3> DEFINE w == Definitions(s) \o <<Root(s, name)>>
               first == FirstNamespace(s, name)
    <3>3. b = Built(Template(Root(s, name), first, environment, Library(environment)))
      BY <2>2, <3>1, NewTemplates DEF Library
    <3>4. b.v.namespace = first
      BY <3>3, TemplateFields DEF Built
    <3>5. IsLatest(first, w, Len(w))
      BY <2>2, FirstIsLatest
    <3> HIDE DEF item
    <3>6. Writes(<<item>>) = w
      BY <2>3, WritesOfOne
    <3> HIDE DEF w, first, b
    <3>7. QED
      BY <3>2, <3>4, <3>5, <3>6 DEF IsOf
  <2>5. Compiled(k, <<item>>)
    BY <2>1
  <2>6. <<item>> \in Seq(SourceItems) /\ Len(<<item>>) > 0 /\ history \o <<item>> = <<item>>
    <3> HIDE DEF item
    <3>1. QED
      BY <2>2, <2>3
  <2> HIDE DEF b, item
  <2>7. k.ok => IsTemplate(k.v) /\ TextOf(k.v) = b.v /\ b.ok
    BY <2>4, TemplatesOfKind, TextOfKind
  <2> HIDE DEF k
  <2>8. k.ok => /\ IsTemplate(k.v) /\ history \o <<item>> \in Seq(SourceItems)
                /\ Len(history \o <<item>>) > 0
                /\ IsOf(TextOf(k.v).namespace, history \o <<item>>)
    BY <2>4, <2>6, <2>7
  <2>9. QED
    BY <2>5, <2>8, CompiledIsLatest
<1>9. CASE FromNamedSources
  <2>1. PICK kind \in Kinds, items \in Items :
           Compiled(OfKind(kind, FromSources(items, environment)), items)
    BY <1>9 DEF FromNamedSources
  <2> DEFINE b == FromSources(items, environment)
             k == OfKind(kind, b)
  <2>2. IsEnvironment(environment) /\ history = <<>>
    BY <1>6, <1>9 DEF FromNamedSources
  <2>3. items \in Seq(SourceItems) /\ Len(items) > 0 /\ history \o items = items
    <3>1. items \in Seq(SourceItems) /\ Len(items) > 0
      BY ItemTypes
    <3>2. QED
      BY <2>2, <3>1
  <2>4. b.ok => IsText(b.v) /\ IsOf(b.v.namespace, items)
    BY <2>2, <2>3, CompiledTexts, JoinedIsLatest
  <2>5. Compiled(k, items)
    BY <2>1
  <2> HIDE DEF b
  <2>6. k.ok => IsTemplate(k.v) /\ TextOf(k.v) = b.v /\ b.ok
    BY <2>4, TemplatesOfKind, TextOfKind
  <2> HIDE DEF k
  <2>7. k.ok => /\ IsTemplate(k.v) /\ history \o items \in Seq(SourceItems)
                /\ Len(history \o items) > 0
                /\ IsOf(TextOf(k.v).namespace, history \o items)
    BY <2>3, <2>4, <2>6
  <2>8. QED
    BY <2>5, <2>7, CompiledIsLatest
<1>10. CASE DeriveSource
  <2>1. PICK s \in Sources, name \in Names :
           Compiled(Derived(template, s, name), <<[source |-> s, name |-> name]>>)
    BY <1>10 DEF DeriveSource
  <2> DEFINE item == [source |-> s, name |-> name]
             d == Derived(template, s, name)
  <2>2. /\ IsTemplate(template) /\ history \in Seq(SourceItems) /\ Len(history) > 0
        /\ IsOf(TextOf(template).namespace, history) /\ name \in STRING
    BY <1>1, <1>7, <1>10 DEF DeriveSource
  <2>3. item \in SourceItems
    BY <2>2 DEF SourceItems
  <2>4. d.ok => IsTemplate(d.v) /\ IsOf(TextOf(d.v).namespace, history \o <<item>>)
    BY <2>2, DerivedTemplates, DerivedIsLatest
  <2>5. Compiled(d, <<item>>)
    BY <2>1
  <2> HIDE DEF d, item
  <2>6. history \o <<item>> \in Seq(SourceItems) /\ Len(history \o <<item>>) > 0
    BY <2>2, <2>3
  <2>7. QED
    BY <2>4, <2>5, <2>6, CompiledIsLatest
<1>11. CASE DeriveFunctions
  <2>1. PICK m \in Registrations : Compiled(Extended(template, m), <<>>)
    BY <1>11 DEF DeriveFunctions
  <2> DEFINE d == Extended(template, m)
  <2>2. /\ IsTemplate(template) /\ history \in Seq(SourceItems) /\ Len(history) > 0
        /\ IsOf(TextOf(template).namespace, history)
    BY <1>7, <1>11 DEF DeriveFunctions
  <2>3. history \o <<>> = history
    BY <2>2
  <2>4. d.ok => IsTemplate(d.v) /\ IsOf(TextOf(d.v).namespace, history)
    BY <2>2, DerivedTemplates, DerivedIsLatest
  <2>5. Compiled(d, <<>>)
    BY <2>1
  <2> HIDE DEF d
  <2>6. QED
    BY <2>2, <2>3, <2>4, <2>5, CompiledIsLatest
<1>12. QED
  BY <1>3, <1>4, <1>5, <1>8, <1>9, <1>10, <1>11 DEF Next

\* After any chain of derivations every name means the last source that gave
\* it a body, in HTML the template's own program under its own name
\* (template.py from_sources and with_source, html/template.py _initialize).
LEMMA LatestIsExact ==
    ChainInv /\ LatestInv => NamespaceIsLatest
<1> SUFFICES ASSUME ChainInv, LatestInv, template # None
             PROVE  /\ DOMAIN template.namespace = {w.name : w \in Range(Writes(history))}
                    /\ \A name \in DOMAIN template.namespace :
                         \/ template.namespace[name] = Latest(history, name)
                         \/ template.kind = "html" /\ template.namespace[name] = template.program
  BY DEF NamespaceIsLatest
<1> DEFINE u == TextOf(template)
           w == Writes(history)
           n == Len(w)
<1>1. /\ history \in Seq(SourceItems) /\ Len(history) > 0 /\ IsLatest(u.namespace, w, n)
      /\ IsTemplate(template)
  BY DEF LatestInv, ChainInv, IsOf
<1>2. w \in Seq(Programs)
  BY <1>1, WritesGrow
<1>3. DOMAIN u.namespace = {x.name : x \in Range(w)}
  <2> HIDE DEF w, u
  <2>1. DOMAIN u.namespace = {w[i].name : i \in 1..n}
    BY <1>1 DEF IsLatest
  <2>2. Range(w) = {w[i] : i \in 1..n}
    BY <1>2 DEF Range
  <2>3. QED
    BY <2>1, <2>2
<1>4. ASSUME NEW name \in DOMAIN u.namespace
      PROVE  u.namespace[name] = Latest(history, name)
  <2> DEFINE kept == Kept(w, n, name)
  <2>1. PICK i \in 1..n : IsLast(w, n, name, i) /\ u.namespace[name] = w[i]
    BY <1>1 DEF IsLatest
  <2>2. kept \subseteq 1..n /\ i \in kept /\ \A j \in kept : j <= i
    BY <2>1 DEF IsLast, Kept, Mine
  <2>3. Latest(history, name) = w[CHOOSE k \in kept : \A j \in kept : j <= k]
    BY Zenon DEF Latest, Kept, Mine
  <2> HIDE DEF kept
  <2>4. \A k \in kept : (\A j \in kept : j <= k) => k = i
    BY <2>2
  <2>5. (CHOOSE k \in kept : \A j \in kept : j <= k) = i
    BY <2>2, <2>4
  <2>6. QED
    BY <2>1, <2>3, <2>5
<1> HIDE DEF w
<1>5. CASE template.kind = "text"
  <2>1. u = template
    BY <1>5 DEF TextOf
  <2>2. QED
    BY <1>3, <1>4, <2>1 DEF w
<1>6. CASE template.kind = "html" /\ IsHtml(template)
  <2>1. u = template.text
    BY <1>6 DEF TextOf
  <2>2. IsText(u) /\ template.program = u.program /\ template.namespace = Named(u.namespace, u.program)
    <3>1. /\ IsText(template.text) /\ template.program = template.text.program
          /\ template.namespace = Named(template.text.namespace, template.text.program)
      BY <1>6, HtmlFields, Zenon
    <3>2. QED
      BY <2>1, <3>1, Zenon
  <2>3. u.program.name \in DOMAIN u.namespace
    <3> DEFINE P == Accepted(u.functions, u.sandbox)
               N == {u.program.name}
    <3>1. u.namespace \in Namespaces(P, N)
      BY <2>2, TextFields
    <3>2. u.program.name \in N
      OBVIOUS
    <3> HIDE DEF P, N, u
    <3>3. N \subseteq DOMAIN u.namespace
      BY <3>1, NamespaceTypes
    <3>4. QED
      BY <3>2, <3>3
  <2> HIDE DEF u
  <2>4. /\ DOMAIN template.namespace = DOMAIN u.namespace
        /\ \A name \in DOMAIN u.namespace :
             \/ template.namespace[name] = u.namespace[name]
             \/ template.namespace[name] = template.program
    BY <2>2, <2>3 DEF Named
  <2>5. QED
    BY <1>3, <1>4, <1>6, <2>4 DEF w
<1>7. QED
  BY <1>1, <1>5, <1>6 DEF IsTemplate

\* In every chain a name means the last source that gave it a body (template.py
\* with_source).
THEOREM NamespaceIsTheLatest ==
    Spec => []NamespaceIsLatest
<1>1. Init => ChainInv /\ LatestInv
  BY ChainInit DEF Init, LatestInv
<1>2. ChainInv /\ LatestInv /\ [Next]_vars => (ChainInv /\ LatestInv)'
  BY ChainStep, LatestStep
<1>3. QED
  BY <1>1, <1>2, LatestIsExact, PTL DEF Spec
=============================================================================
