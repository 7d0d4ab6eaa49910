---------------------------- MODULE Associations ----------------------------
(***************************************************************************)
(* How templates are constructed and derived: environment.Environment,     *)
(* runtime/engine.TemplateEngine, template.Template, html.HTMLTemplate,    *)
(* and the part of runtime/policy.SandboxPolicy they consult.              *)
(*                                                                         *)
(* Every object is immutable.  An environment is constructed and derived   *)
(* with more functions or extensions, a template is compiled with it from  *)
(* one source or several, and the template is derived with more sources or *)
(* functions: each derivation keeps the compiled programs it inherits and  *)
(* builds a new namespace, registry and linked view around them.  Nothing  *)
(* is parsed again, so what a later render runs depends on the whole chain *)
(* of derivations.  Because nothing is shared but immutable values, one    *)
(* chain is enough: the variables hold its last environment and template.  *)
(***************************************************************************)
EXTENDS Integers, Sequences, FiniteSets, TLC, SequencesExt

CONSTANTS Sources,            \* the names of the template sources
          SourceOf(_),        \* their parts: the body, then the definitions
          Names,              \* the template names
          Registrations,      \* the function maps a caller passes
          ValidNames,         \* the names _valid_function_name accepts
          Extensions,         \* the runtime extensions
          PythonFunctions,    \* [category -> the names it defines]
          Policies,           \* the sandboxes, NoSandbox among them
          NoSandbox,
          MaxExtensions,      \* bound: extensions of one environment
          MaxSources,         \* bound: sources compiled into one association
          HardDepth           \* the template depth no render exceeds

None == [none |-> TRUE]

(* A dictionary updated with another, {**old, **new}.                      *)
Overlay(new, old) ==
  [key \in DOMAIN new \cup DOMAIN old |-> IF key \in DOMAIN new THEN new[key] ELSE old[key]]

(* A function says who implements it and the capabilities it asks for.     *)
Builtin(name)  == [owner |-> "builtin", capabilities |-> {}]
Internal(name) == [owner |-> "internal", capabilities |-> {}]
Python(name)   == [owner |-> "python", capabilities |-> {}]

BuiltinNames  == {"call", "print"}
InternalNames == {"_html_template_htmlescaper"}

(* A part of a source: its name, what it runs, and whether it ends in text *)
(* of HTML.  No source defines a name twice: the parser refuses it.        *)
PartSteps == [op : {"text", "field"}] \cup [op : {"use", "call"}, arg : STRING]
Parts     == [name : STRING, steps : Seq(PartSteps), text : BOOLEAN]

Implementations == [owner : STRING, capabilities : SUBSET STRING]

IsFunctionMap(m) == DOMAIN m \subseteq STRING /\ m \in [DOMAIN m -> Implementations]

ASSUME AssociationsAssumption ==
  /\ NoSandbox \in Policies
  /\ MaxExtensions \in Nat /\ MaxSources \in Nat \ {0} /\ HardDepth \in Nat \ {0}
  /\ Names \subseteq STRING
  /\ \A s \in Sources : LET parts == SourceOf(s).parts
                       IN  /\ parts \in Seq(Parts) /\ Len(parts) > 0
                           /\ \A i, j \in 2..Len(parts) :
                                parts[i].name = parts[j].name => i = j
  /\ \A m \in Registrations : IsFunctionMap(m)
  /\ \A x \in Extensions : IsFunctionMap(x.functions)
  /\ \A c \in DOMAIN PythonFunctions :
       PythonFunctions[c] \subseteq STRING \ ({"call"} \cup InternalNames)

(***************************************************************************)
(* Selections of Python-native functions.  The "common" profile is every   *)
(* category but the backtracking regular expressions.                      *)
(***************************************************************************)
Categories == DOMAIN PythonFunctions

ResolvePython(selection) ==
  IF selection = "none" THEN {}
  ELSE IF selection = "common" THEN Categories \ {"regex"}
  ELSE IF selection = "all" THEN Categories
  ELSE {selection}

FunctionMap(categories) ==
  [name \in UNION {PythonFunctions[c] : c \in categories} |-> Python(name)]

(***************************************************************************)
(* SandboxPolicy.                                                          *)
(***************************************************************************)
ValidatesFunctions(policy, names) == policy = NoSandbox \/ names \subseteq policy.functions

ValidatesCapabilities(policy, registry) ==
  \/ policy = NoSandbox
  \/ \A name \in DOMAIN registry : registry[name].capabilities \subseteq policy.capabilities

Allows(policy, registry) ==
  ValidatesFunctions(policy, DOMAIN registry) /\ ValidatesCapabilities(policy, registry)

FitsPolicy(policy, s) == policy = NoSandbox \/ SourceOf(s).chars <= policy.chars

ExecutionFunctionRegistry(registry, policy) ==
  LET all == Overlay(registry, [name \in BuiltinNames |-> Builtin(name)])
  IN  IF policy = NoSandbox THEN all
      ELSE [name \in DOMAIN all \ {"call"} |-> all[name]]

(* A construction that fails leaves only its error.                        *)
Error(e) == [ok |-> FALSE, err |-> e]
Built(v) == [ok |-> TRUE, v |-> v]

(***************************************************************************)
(* Environments.                                                           *)
(***************************************************************************)
(* Changed: a later extension replaces what an earlier one defined.        *)
MergeLast(base, extensions) ==
  Built(FoldLeft(LAMBDA a, x : Overlay(x.functions, a), base, extensions))

(* No extension may define a name twice, or one of the base.               *)
MergeOne(a, x) ==
  IF ~a.ok THEN a
  ELSE IF DOMAIN a.v \cap DOMAIN x.functions # {} THEN Error("collision")
  ELSE Built(Overlay(x.functions, a.v))

Merge(base, extensions) == FoldLeft(MergeOne, Built(base), extensions)

NewEnvironment(base, extensions, python, policy) ==
  LET combined == Merge(base, extensions)
      native   == FunctionMap(python)
  IN  IF ~(DOMAIN base \subseteq ValidNames) THEN Error("name")
      ELSE IF ~combined.ok THEN combined
      ELSE IF DOMAIN combined.v \cap DOMAIN native # {} THEN Error("collision")
      ELSE IF ~(DOMAIN combined.v \subseteq ValidNames) THEN Error("name")
      ELSE IF ~ValidatesFunctions(policy, DOMAIN combined.v \cup DOMAIN native)
              \/ ~ValidatesCapabilities(policy, combined.v) THEN Error("sandbox")
      ELSE Built([base |-> base, extensions |-> extensions, python |-> python,
                  sandbox |-> policy, functions |-> combined.v])

WithExtensions(e, x) == NewEnvironment(e.base, Append(e.extensions, x), e.python, e.sandbox)

WithReplacedFunctions(e, functions, replace) ==
  LET extended == UNION {DOMAIN x.functions : x \in Range(e.extensions)}
  IN  IF extended \cap DOMAIN functions # {} THEN Error("collision")
      ELSE IF ~replace /\ DOMAIN e.base \cap DOMAIN functions # {} THEN Error("collision")
      ELSE NewEnvironment(Overlay(functions, e.base), e.extensions, e.python, e.sandbox)

SupportsHtml(e) == \A x \in Range(e.extensions) : "html" \in x.kinds

(***************************************************************************)
(* Compiled programs.  A program is named by its source and the index of   *)
(* its part: 1 is the body, which takes the name the source is given, the  *)
(* others are the definitions.                                             *)
(***************************************************************************)
Program(s, i, name) == [source |-> s, part |-> i, name |-> name]

Root(s, name) == Program(s, 1, name)

Definitions(s) == [i \in 1..(Len(SourceOf(s).parts) - 1) |->
                     Program(s, i + 1, SourceOf(s).parts[i + 1].name)]

(* A namespace with a program under its name.                              *)
Named(namespace, p) ==
  [name \in DOMAIN namespace \cup {p.name} |-> IF name = p.name THEN p ELSE namespace[name]]

Steps(p)   == SourceOf(p.source).parts[p.part].steps
IsEmpty(p) == Steps(p) = <<>>

(* A source compiles when every function it names is registered.           *)
Compiles(s, registry) ==
  \A i \in 1..Len(SourceOf(s).parts) : \A step \in Range(SourceOf(s).parts[i].steps) :
    step.op = "use" => step.arg \in DOMAIN registry \cup BuiltinNames

(* Changed: an empty definition replaces too.                              *)
RedefineAlways(namespace, d) == Named(namespace, d)

(* The body and then the definitions; an empty one replaces nothing.       *)
Redefine(namespace, d) ==
  IF ~IsEmpty(d) \/ d.name \notin DOMAIN namespace THEN Named(namespace, d)
  ELSE namespace

AddSource(namespace, s, name) ==
  FoldLeft(Redefine, Named(namespace, Root(s, name)), Definitions(s))

(* A template's own source is different: its body takes its name last.     *)
FirstNamespace(s, name) ==
  FoldLeft(Named, <<>>, Definitions(s) \o <<Root(s, name)>>)

(***************************************************************************)
(* The linked view: the namespace with the template's own program under    *)
(* its name.  It is used when enough pipelines were linked.  The counts of *)
(* an associated text program include those of the definitions compiled    *)
(* with it, which an analyzed one no longer carries; the template's own    *)
(* program is counted by itself, its definitions being the association.    *)
(***************************************************************************)
(* Changed: the view is that of the template's own source, as before the   *)
(* other sources joined it.                                                *)
LinkedAlone(program, namespace) ==
  FoldLeft(Named, Named(<<>>, program),
           SelectSeq(Definitions(program.source), LAMBDA d : d.name # program.name))

LinkedNamespace(program, namespace) == Named(namespace, program)

Family(p) == IF p.part # 1 THEN Steps(p)
             ELSE FoldLeft(LAMBDA a, d : a \o Steps(d), Steps(p), Definitions(p.source))

EnoughLinked(program, view, runtime, inFamily) ==
  LET Counted(p)   == IF inFamily /\ p # program THEN Family(p) ELSE Steps(p)
      Linked(step) == step.op = "field" \/ (step.op = "use" /\ step.arg \in DOMAIN runtime)
      Call(step)   == step.op = "call"
      Total(Test(_)) == MapThenSumSet(LAMBDA name : Len(SelectSeq(Counted(view[name]), Test)),
                                      DOMAIN view)
  IN  Total(Linked) > Total(Call)

LinkAssociation(program, namespace, runtime, inFamily) ==
  LET view == LinkedNamespace(program, namespace)
  IN  [namespace |-> view, used |-> EnoughLinked(program, view, runtime, inFamily)]

(***************************************************************************)
(* Text templates.                                                         *)
(***************************************************************************)
Template(program, namespace, e, functions) ==
  LET runtime == ExecutionFunctionRegistry(functions, e.sandbox)
  IN  [kind |-> "text", program |-> program, namespace |-> namespace,
       python |-> e.python, sandbox |-> e.sandbox, functions |-> functions,
       runtime |-> runtime, linked |-> LinkAssociation(program, namespace, runtime, TRUE)]

NewTemplate(s, name, e) ==
  LET native    == FunctionMap(e.python)
      functions == Overlay(native, e.functions)
  IN  IF ~FitsPolicy(e.sandbox, s) THEN Error("sandbox")
      ELSE IF DOMAIN e.functions \cap DOMAIN native # {} THEN Error("collision")
      ELSE IF ~Allows(e.sandbox, functions) THEN Error("sandbox")
      ELSE IF ~Compiles(s, functions) THEN Error("syntax")
      ELSE Built(Template(Root(s, name), FirstNamespace(s, name), e, functions))

(* from_sources: the first source makes the template, the others join it.  *)
AddItem(a, item) ==
  IF ~a.ok THEN a
  ELSE IF ~FitsPolicy(a.v.sandbox, item.source) THEN Error("sandbox")
  ELSE IF ~Compiles(item.source, a.v.functions) THEN Error("syntax")
  ELSE Built(Template(a.v.program, AddSource(a.v.namespace, item.source, item.name),
                      a.v, a.v.functions))

FromSources(items, e) ==
  FoldLeft(AddItem, NewTemplate(items[1].source, items[1].name, e), Tail(items))

WithSource(t, s, name) ==
  IF ~FitsPolicy(t.sandbox, s) THEN Error("sandbox")
  ELSE IF ~Compiles(s, t.functions) THEN Error("syntax")
  ELSE Built(Template(Root(s, name), AddSource(t.namespace, s, name), t, t.functions))

(* Changed: the new functions replace the registry.                        *)
WithFunctionsOnly(t, functions) ==
  IF ~(DOMAIN functions \subseteq ValidNames) \/ ~Allows(t.sandbox, functions)
     \/ DOMAIN functions \cap DOMAIN FunctionMap(t.python) # {} THEN Error("refused")
  ELSE Built(Template(t.program, t.namespace, t, Overlay(FunctionMap(t.python), functions)))

(* Changed: the policy is not asked about the new functions.               *)
WithFunctionsUnchecked(t, functions) ==
  IF DOMAIN functions \cap DOMAIN FunctionMap(t.python) # {} THEN Error("collision")
  ELSE IF ~(DOMAIN functions \subseteq ValidNames) THEN Error("name")
  ELSE Built(Template(t.program, t.namespace, t, Overlay(functions, t.functions)))

WithFunctions(t, functions) ==
  LET registry == Overlay(functions, t.functions)
  IN  IF DOMAIN functions \cap DOMAIN FunctionMap(t.python) # {} THEN Error("collision")
      ELSE IF ~(DOMAIN registry \subseteq ValidNames) THEN Error("name")
      ELSE IF ~Allows(t.sandbox, registry) THEN Error("sandbox")
      ELSE Built(Template(t.program, t.namespace, t, registry))

(***************************************************************************)
(* HTML templates: a text template analyzed.  Its body takes its name in   *)
(* the namespace, every pipeline ends in an internal escaper, and only the *)
(* names whose program ends in text may be rendered.                       *)
(***************************************************************************)
EndsInText(p) == SourceOf(p.source).parts[p.part].text

InitializeHtml(t) ==
  LET namespace == Named(t.namespace, t.program)
      functions == Overlay([name \in InternalNames |-> Internal(name)], t.functions)
      runtime   == ExecutionFunctionRegistry(functions, t.sandbox)
  IN  IF ~EndsInText(t.program) THEN Error("context")
      ELSE Built([kind |-> "html", text |-> t, program |-> t.program, namespace |-> namespace,
                  python |-> t.python, sandbox |-> t.sandbox, functions |-> functions,
                  runtime |-> runtime,
                  linked |-> LinkAssociation(t.program, namespace, runtime, FALSE),
                  roots |-> {name \in DOMAIN namespace : EndsInText(namespace[name])}])

Analyzed(built) == IF built.ok THEN InitializeHtml(built.v) ELSE built

Derived(t, s, name) ==
  IF t.kind = "text" THEN WithSource(t, s, name) ELSE Analyzed(WithSource(t.text, s, name))

Extended(t, functions) ==
  IF t.kind = "text" THEN WithFunctions(t, functions)
  ELSE Analyzed(WithFunctions(t.text, functions))

(***************************************************************************)
(* Renders.  What one runs is the sequence of its texts, fields and        *)
(* functions, with the error that ended it, if any.                        *)
(***************************************************************************)
RunStep(step, p, t) ==
  LET escaped == IF t.kind = "html"
                 THEN <<[name |-> "_html_template_htmlescaper",
                         by   |-> t.runtime["_html_template_htmlescaper"]]>>
                 ELSE <<>>
  IN  CASE step.op = "text"  -> [out |-> <<[text |-> p]>>, err |-> "none"]
        [] step.op = "field" -> [out |-> escaped, err |-> "none"]
        [] step.op = "use"   ->
             IF step.arg \notin DOMAIN t.runtime THEN [out |-> <<>>, err |-> "function"]
             ELSE [out |-> <<[name |-> step.arg, by |-> t.runtime[step.arg]]>> \o escaped,
                   err |-> "none"]

Undefined(e) == [out |-> <<>>, err |-> e]

(* What follows an error does not happen.                                  *)
Then(a, r) == IF a.err # "none" THEN a ELSE [out |-> a.out \o r.out, err |-> r.err]

(* One program, calling others by what they run in turn.                   *)
RunSteps(p, namespace, t, called) ==
  LET Ran(step) == IF step.op # "call" THEN RunStep(step, p, t)
                   ELSE IF step.arg \notin DOMAIN namespace THEN Undefined("template")
                   ELSE called[namespace[step.arg]]
  IN  FoldLeft(Then, Undefined("none"), [i \in DOMAIN Steps(p) |-> Ran(Steps(p)[i])])

(* run[n] is what each program runs when n levels of calls are left.       *)
Run(p, namespace, t) ==
  LET run[n \in 0..HardDepth + 1] ==
        IF n = 0 THEN [q \in {p} \cup Range(namespace) |-> Undefined("depth")]
        ELSE [q \in {p} \cup Range(namespace) |-> RunSteps(q, namespace, t, run[n - 1])]
  IN  run[HardDepth + 1][p]

(* _associated_program, before anything runs.                              *)
Unavailable(t, name) ==
  IF name \notin DOMAIN t.namespace THEN "template"
  ELSE IF t.kind = "html" /\ name \notin t.roots THEN "context"
  ELSE "none"

(* render and render_to run the linked view when it is used.               *)
View(t, async) == IF async \/ ~t.linked.used THEN t.namespace ELSE t.linked.namespace

RenderTemplate(t, name, view) ==
  IF Unavailable(t, name) # "none" THEN Undefined(Unavailable(t, name))
  ELSE Run(view[name], view, t)

(* TemplateEngine.render: each name in order, up to the first that fails.  *)
RenderEach(t, names, view) ==
  FoldLeft(Then, Undefined("none"), [i \in DOMAIN names |-> RenderTemplate(t, names[i], view)])

(***************************************************************************)
(* The chain of derivations.                                               *)
(***************************************************************************)
VARIABLES environment,  \* the environment, None before one is constructed
          template,     \* the template, None before one is compiled
          history,      \* the sources compiled into it, with their names
          rendered      \* the last render: what, how and what it ran

vars == <<environment, template, history, rendered>>

Init == /\ environment = None /\ template = None /\ rendered = None
        /\ history = <<>>

(* A call that raises changes nothing.                                     *)
Raises(built) == ~built.ok /\ UNCHANGED vars

Environs(built) ==
  \/ Raises(built)
  \/ /\ built.ok /\ environment' = built.v
     /\ UNCHANGED <<template, history, rendered>>

Construct == /\ environment = None /\ template = None
             /\ \E base \in Registrations, selection \in {"none", "common", "all"} \cup Categories,
                   policy \in Policies :
                  Environs(NewEnvironment(base, <<>>, ResolvePython(selection), policy))

Configuring == environment # None /\ template = None /\ rendered = None

EnvironmentWithExtension ==
  /\ Configuring /\ Len(environment.extensions) < MaxExtensions
  /\ \E x \in Extensions : Environs(WithExtensions(environment, x))

EnvironmentWithFunctions ==
  /\ Configuring
  /\ \E functions \in Registrations, replace \in BOOLEAN :
       Environs(WithReplacedFunctions(environment, functions, replace))

(* A template keeps all it takes from the environment, which is dropped.   *)
Compiled(built, items) ==
  \/ Raises(built)
  \/ /\ built.ok /\ template' = built.v /\ history' = history \o items
     /\ rendered' = None /\ environment' = None

(* from_string, from_sources and their HTML counterparts, which check the  *)
(* extensions first.                                                       *)
OfKind(kind, built) == IF kind = "text" THEN built
                       ELSE IF ~SupportsHtml(environment) THEN Error("extension")
                       ELSE Analyzed(built)

Kinds == {"text", "html"}

Items == UNION {{items \in [1..n -> [source : Sources, name : Names]] :
                   \A i, j \in 1..n : items[i].name = items[j].name => i = j} : n \in 1..MaxSources}

FromString ==
  /\ Configuring
  /\ \E kind \in Kinds, s \in Sources, name \in Names :
       Compiled(OfKind(kind, NewTemplate(s, name, environment)), <<[source |-> s, name |-> name]>>)

FromNamedSources ==
  /\ Configuring
  /\ \E kind \in Kinds, items \in Items :
       Compiled(OfKind(kind, FromSources(items, environment)), items)

(* A render leaves nothing behind, so a chain ends with its first.         *)
Ready == template # None /\ rendered = None

DeriveSource ==
  /\ Ready /\ Len(history) < MaxSources
  /\ \E s \in Sources, name \in Names :
       Compiled(Derived(template, s, name), <<[source |-> s, name |-> name]>>)

DeriveFunctions ==
  /\ Ready
  /\ \E functions \in Registrations : Compiled(Extended(template, functions), <<>>)

(* No name stands for the template's own program.                          *)
ResultOf(t, names, async) == IF names = <<>> THEN Run(t.program, View(t, async), t)
                             ELSE RenderEach(t, names, View(t, async))

Renders(t, names, async) ==
  /\ rendered' = [of |-> t, names |-> names, async |-> async, result |-> ResultOf(t, names, async)]
  /\ UNCHANGED <<environment, template, history>>

RenderOwn ==
  /\ Ready /\ \E async \in BOOLEAN : Renders(template, <<>>, async)

RenderNamed ==
  /\ Ready
  /\ \E name \in Names, async \in BOOLEAN : Renders(template, <<name>>, async)

(* render_source derives a template for one render and drops it.           *)
RenderSource ==
  /\ Ready /\ Len(history) < MaxSources
  /\ \E s \in Sources, name \in Names, async \in BOOLEAN :
       LET built == Derived(template, s, name)
       IN  \/ Raises(built)
           \/ built.ok /\ Renders(built.v, <<>>, async)

(* The module functions compile a source and render it at once; they take  *)
(* no runtime extensions.                                                  *)
RenderNow(built, async) ==
  /\ environment.extensions = <<>>
  /\ \/ Raises(built)
     \/ built.ok /\ Renders(built.v, <<>>, async)

RenderString ==
  Configuring /\ \E s \in Sources, name \in Names, async \in BOOLEAN :
    RenderNow(NewTemplate(s, name, environment), async)

RenderHtmlString ==
  Configuring /\ \E s \in Sources, name \in Names, async \in BOOLEAN :
    RenderNow(Analyzed(NewTemplate(s, name, environment)), async)

RenderContexts ==
  /\ Ready /\ template.kind = "text"
  /\ \E first, second \in Names, async \in BOOLEAN :
       first # second /\ Renders(template, <<first, second>>, async)

Next == \/ Construct \/ EnvironmentWithExtension \/ EnvironmentWithFunctions
        \/ RenderString \/ RenderHtmlString
        \/ FromString \/ FromNamedSources \/ DeriveSource \/ DeriveFunctions
        \/ RenderOwn \/ RenderNamed \/ RenderSource \/ RenderContexts

Spec == Init /\ [][Next]_vars

(***************************************************************************)
(* Properties.                                                             *)
(***************************************************************************)
(* The writes of a history: a body always takes its name, a definition of  *)
(* the first source is written before it, one of another source after.     *)
AddWrites(w, item) == w \o <<Root(item.source, item.name)>> \o Definitions(item.source)

Writes(items) ==
  FoldLeft(AddWrites, Definitions(items[1].source) \o <<Root(items[1].source, items[1].name)>>,
           Tail(items))

Latest(items, name) ==
  LET w    == Writes(items)
      mine == {i \in 1..Len(w) : w[i].name = name}
      kept == {i \in mine : w[i].part = 1 \/ ~IsEmpty(w[i]) \/ \A j \in mine : j >= i}
  IN  w[CHOOSE i \in kept : \A j \in kept : j <= i]

(* After any chain of derivations (template.py Template.from_sources and   *)
(* with_source, html/template.py _initialize) a name means the last source *)
(* that gave it a body: an empty definition never hides an inherited one,  *)
(* and no program of an earlier source is lost.  Only the name of an HTML  *)
(* template's own program may mean that program instead: _initialize puts  *)
(* it there, over a definition that took the name.                         *)
NamespaceIsLatest ==
  template # None =>
    /\ DOMAIN template.namespace = {w.name : w \in Range(Writes(history))}
    /\ \A name \in DOMAIN template.namespace :
         \/ template.namespace[name] = Latest(history, name)
         \/ template.kind = "html" /\ template.namespace[name] = template.program

(* The programs a render begins with.                                      *)
Begun(t, names) ==
  IF names = <<>> THEN {t.program}
  ELSE {t.namespace[name] : name \in Range(names) \cap DOMAIN t.namespace}

(* A set of programs that are enough for a render: none of them calls one  *)
(* outside the set, nor the name of the template's own program.            *)
Suffices(R, t, names) ==
  /\ Begun(t, names) \subseteq R
  /\ \A q \in R : \A step \in Range(Steps(q)) :
       step.op = "call" => /\ step.arg # t.program.name
                           /\ step.arg \in DOMAIN t.namespace => t.namespace[step.arg] \in R

(* Whether a render can come to look up the name of the template's own.    *)
LooksUpOwn(t, names) ==
  \/ t.program.name \in Range(names)
  \/ \A R \in SUBSET (Range(t.namespace) \cup {t.program}) : ~Suffices(R, t, names)

(* render, which may take the linked view, and render_async run the same   *)
(* programs with the same functions and end alike, after any derivations   *)
(* (template.py render, render_async, _link_association): every derivation *)
(* has to link the namespace it built.  They may differ in one case only:  *)
(* a definition took the name of the template's own program, which the     *)
(* linked view still gives to that program, and the render can look it up. *)
RendersAgree ==
  rendered # None =>
    LET t == rendered.of
        taken == t.namespace[t.program.name] # t.program
    IN  \/ taken /\ LooksUpOwn(t, rendered.names)
        \/ rendered.result = ResultOf(t, rendered.names, ~rendered.async)

(* A program compiled against one registry never meets one that lacks its  *)
(* functions: derivations only add (template.py with_functions), and only  *)
(* the call builtin, which a sandbox removes after compilation, is missed. *)
NothingUnresolved ==
  template # None =>
    \A p \in Range(template.namespace) \cup {template.program} : \A step \in Range(Steps(p)) :
      step.op = "use" => \/ step.arg \in DOMAIN template.runtime
                         \/ step.arg = "call" /\ template.sandbox # NoSandbox

(* Whatever the chain of derivations, under a sandbox a render runs only   *)
(* builtins other than call, escapers, and functions the policy names with *)
(* capabilities it grants, and only sources within its limit are compiled  *)
(* (template.py with_source, with_functions; runtime/policy.py).           *)
SandboxKept ==
  LET Permitted(f, policy) ==
        \/ f.by.owner = "internal"
        \/ f.by.owner = "builtin" /\ f.name # "call"
        \/ f.name \in policy.functions /\ f.by.capabilities \subseteq policy.capabilities
  IN  rendered # None /\ rendered.of.sandbox # NoSandbox =>
        /\ \A o \in Range(rendered.result.out) :
             "by" \in DOMAIN o => Permitted(o, rendered.of.sandbox)
        /\ \A p \in Range(rendered.of.namespace) : FitsPolicy(rendered.of.sandbox, p.source)

(* In an environment no other function has the name of an extension's,     *)
(* whether a runtime extension's or a Python one; in a template that is    *)
(* kept up for the Python ones and for an HTML template's escapers.  A     *)
(* runtime extension's function a template may replace like any other:     *)
(* with_functions compares with the Python ones only (environment.py       *)
(* __init__ and with_functions, template.py with_functions, html/          *)
(* template.py _initialize).                                               *)
ExtensionsIntact ==
  /\ environment # None =>
       /\ \A x \in Range(environment.extensions) : \A f \in DOMAIN x.functions :
            environment.functions[f] = x.functions[f]
       /\ DOMAIN environment.functions \cap DOMAIN FunctionMap(environment.python) = {}
  /\ template # None =>
       /\ \A f \in DOMAIN FunctionMap(template.python) : template.runtime[f] = Python(f)
       /\ template.kind = "html" =>
            \A f \in InternalNames : template.runtime[f] = Internal(f)
=============================================================================
