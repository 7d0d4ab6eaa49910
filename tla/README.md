# A TLA+ model of gotpl

gotpl is a Go-compatible template engine in Python: a template source is lexed,
parsed, compiled to a small instruction set and rendered by a virtual machine,
synchronously or with awaits; context functions may start further renders inside
a render, and an HTML variant chooses escapers by the place a value is written to.
Templates compute with libraries of the same repository: printf, regular expressions,
durations, times.
This directory models that engine in TLA+, checks the models with TLC and proves
the central invariants with TLAPS. Paths below are relative to the repository
(`src/gotpl/...`).

- [Inventory](#inventory): the components, their state, what is hard about them
- [Modules](#modules): how they correspond to the code
- [Runs](#runs): what is checked, with which bounds
- [Where code and documentation disagree](#where-code-and-documentation-disagree)
- [Proofs](#proofs)
- [Not modelled](#not-modelled)
- [Plan](#plan)

## Inventory

| Component | State it keeps | Operations | Hard behaviour | What makes it correct |
|---|---|---|---|---|
| Lexer `parse/lexer.py` | position, mode (text or action), paren depth | one token at a time | trim markers, comments, delimiters that are prefixes of other tokens | every character is in exactly one token or trimmed |
| Parser `parse/parser.py` | token cursor, `depth`, `range_depth`, definitions | recursive descent, one handler per keyword | counters raised and lowered along the recursion, with `else` chains, definitions and blocks inside | loops, definitions and limits are exact; every accepted source compiles |
| Semantic pass `parse/semantic.py` | scopes of variable names | walk of the tree | has to agree with the scopes the machine keeps at run time | a variable that is accepted is bound whenever it is read |
| Compiler `compile/` | instructions, placeholder jumps, open loops | one emitter per node | forward jumps patched after the fact; `break` and `continue` leave blocks in the middle | every path through the code is balanced |
| Virtual machine `runtime/sync_vm.py`, `async_vm.py` | program, position, scopes, dot stack, range stack, caller frames | one branch per opcode | long opcode sequences, early failures, recursion without end, iterators without end | stacks serve the code ahead, scopes and dot are lexical, limits hold, a render ends |
| Linked programs `runtime/linked.py` | specialized instructions beside the generic ones | fused lookups and calls | a second implementation of the same language | observable behaviour equals that of the generic program |
| Execution budget `runtime/policy.py` | output, iterations, calls | charge before doing | off-by-one at each limit; failure after a charge | nothing happens that was not charged; limits are never passed |
| Sessions `runtime/context.py`, `template.py` | depth, association stack, dynamic cache | nested renders, started and ended by context functions | concurrent branches on one stack; errors between increment and `try`; cache keyed by `id()` | each nested render belongs to its own association and depth |
| Helm include/tpl `exts/helm/` | recursion counters per name | `include`, `tpl`, `required`, `fail` | counters shared by concurrent branches; failures in the middle | counters equal the running includes |
| Associations `template.py`, `environment.py`, `runtime/engine.py` | immutable name tables | `with_source`, `with_functions`, `from_sources`, loaders | redefinition while old programs run | a render sees one consistent association |
| HTML `html/` | a 13-field lexical context; variants of every template | advance by text, choose escapers, join branches, fixed point | contexts that depend on callers and on recursion; text rewritten while it is read | every value is escaped for the place where it is really written |
| Values, callables, results `runtime/` | none | lookups, conversions, call preparation | type dispatch | Go's rules for truth, comparison and printing |
| Function libraries `funcs/`, `pythonic/` | none | some hundreds of pure functions | overflow, odd inputs | equality with the libraries they imitate |
| `_compat/` gofmt, goregexp; `packages/` goduration, gotime | none | formatting, matching, int64 and calendar arithmetic | integer width, boundaries, backtracking order | equality with Go |

How they interact: the parser drives the lexer and calls the semantic pass at
the end; `Template` compiles the tree once and keeps it for ever; `HTMLTemplate`
passes the compiled association through the analyzer; a render runs one program
in one machine with one budget; a function of the root template may be given the
render's context, through which it starts nested renders that share the session,
the budget and the dynamic cache. Helm's functions are such functions. Only
nested asynchronous renders run concurrently, on one event loop: an interleaving
can happen at an `await` and nowhere else.

`PROJECT.json` lists, under "hazards", each place where this goes wrong easily
and is hard to test, with the properties below that would notice.

## Modules

| Module | Models | State and actions |
|---|---|---|
| `TemplateProgram` | `compile/instructions.py` | instruction records; `Verified(code, map)`, the stack discipline of a program as a static check |
| `TemplateTree` | `parse/nodes.py` | nodes of the control structure; a pipeline only by what it binds, reads and calls |
| `Compiler` | `compile/compiler.py` | `Compile(tree)`, one operator per emitter, with the jump patching; `NodesWithin[d]`, the trees of at most `d` levels, on which `EmitWithin[d]` is `emit_node` |
| `Parser` | `parse/parser.py` | `stack` is the recursion of `parse_list`, `parse_branch` and `parse_else` (a frame per active construct), `range_depth` and `definitions` are the fields of `_Parser`; one action per keyword |
| `Lexer` | `parse/lexer.py` | `Lex(source)`: the tokens with their byte offsets, from characters; the modes of the lexer are the operators that read a text, a comment, an action, a quote |
| `PipelineParser` | `parse/parser.py`, the insides of an action | functions from a token's index to a node and the index after it, or a rejection; the `Written...` operators are its inverse, stated from the grammar |
| `Semantic` | `parse/semantic.py` | `Validates(tree, definitions)`, the scopes of the validator; `Reachable`, the points of the compiled code with the scopes really pushed there |
| `FrontEnd` | `template.py` construction | parser and compiler together, over every source of a bounded length |
| `TemplateVM` | `runtime/sync_vm.py` `_render_program_to`, `policy.py` | an action per opcode; `ctx` is `_ExecutionContext`, `frames` the caller stack, `used` the `ExecutionBudgetState`, `written` what the writer accepted |
| `Values` | `runtime/values.py`, the builtins of `sync_vm.py` | lookup by mapping, sequence, attribute and custom method, under a policy or none; truth, comparison, `index`, `slice`, `len` |
| `Callables` | `runtime/callables.py`, `results.py`, `awaitables.py` | binding of arguments by signature, choice of the implementation, unwrapping of what a call returns |
| `Evaluation` | `sync_vm.py`, `async_vm.py`, `runtime/linked.py`: pipelines | one template rendered twice, by `render()` (linked or generic pipelines) and by `render_async()`; an instruction a step, each render with its own variables, charges and trace of calls |
| `NestedRenders` | (abstract) | what nested renders promise: plain lexical nesting per branch |
| `RenderSession` | `runtime/context.py`, `template.py` `_render_*_in_session` | `depth`, `associations`, `cache` are the session's fields; `heap` says what each Template object is made of, an identity being reusable once the object is unreachable; `stack` is the nested renders each branch is inside of |
| `HelmInclude` | `exts/helm/runtime.py` | extends `RenderSession` by `included`, the recursion counters |
| `Associations` | `environment.py`, `template.py`, `html/template.py`, `runtime/engine.py`, the grants of `policy.py` | an action per construction or derivation (`Environment`, `with_functions`, `from_string`, `from_sources`, `with_source`, HTML wrapping, render); the state is the environment, the template with its namespace, registry, sandbox and linked view, the `history` of sources it was made from, and the last render |
| `HtmlContext` | `html/context.py` | the context record with the fields of `Context`; `Consume(c, text)` and `EscapeKinds(c)`, pure operators over tokens |
| `HtmlAnalyzer` | `html/analyzer.py` | the variants, rounds and worklist of the fixed point, then a render of the accepted result |
| `Escapers` | `html/escapers.py`, `_ensure_pipeline_contains` | one operator per escaper, from code points to code points; what the analyzer adds to a pipeline |
| `EscapedText` | (reference) | what a browser reads back: readers of HTML, JavaScript, CSS and URL text, and the law of each escaper |
| `GoFormat` | `_compat/gofmt/_core.py` | `Sprintf(format, values)`: directives, flags, indexes, padding, quoting, default and syntax forms |
| `FormattedText` | (reference) | formats as they are meant, the text each must give, and readers of Go's literals |
| `Numerals` | (what both take from Python) | texts, numerals, shortest floats, UTF-8 |
| `GoRegexp` | `_compat/goregexp` | the translation of flags, the parser, the compiler to an ordered automaton; `current`, `cursor` and `candidate` are the threads, the position and the best match of a search that a step takes one character ahead |
| `RegexpMeaning` | (reference) | the matches of an expression in order of preference, as a backtracking reader finds them; `find` and `split` stated over them |
| `GoDuration` | `packages/goduration` | both duration classes: arithmetic that wraps or refuses, rounding, writing and reading |
| `GoTime` | `packages/gotime` `go.py`, `python.py`, `_tzfile.py`, `_calendar.py` | civil dates, zones and their transitions, instants, comparison, wire forms |
| `TimeLayout` | `gotime/_layout.py`, `_layout_parse.py` | layouts as sequences of named parts, written and read |
| `GoTimers` | `gotime/_go_schedule.py`, `_python_schedule.py`, the asynchronous ones | one timer or ticker, every callback ever armed (`handles`) with its state, and the events its user sees |
| `TemplateVM_proofs`, `FrontEnd_proofs`, `RenderSession_proofs`, `HelmInclude_proofs`, `HtmlAnalyzer_proofs`, `Associations_proofs`, `GoTimers_proofs` | | theorems about the module each is named after; `FrontEnd_proofs` has those about `Parser` and `Compiler` |
| `FoldTheorems` | | lemmas about loops over sequences, for any operator folded |
| `MC...` | | instances for TLC; `MCLibraries` extends the libraries and `MCText`, the samples of the two text modules |

Composition: `FrontEnd` runs `Parser` into `Compiler`; `TemplateVM` executes
programs that pass `Verified`, and `FrontEnd` shows that every accepted source
compiles to such programs (`CompiledVerified`, a theorem of `FrontEnd_proofs`), so
that assumption of the machine is a result of the front end. `HelmInclude` is a client of `RenderSession`;
`RenderSession` refines `NestedRenders`. `HtmlAnalyzer` uses `HtmlContext` and
the same compiled programs as the machine. `MCFrontEnd` puts `Lexer`,
`PipelineParser` and `Semantic` beside the front end: the items the parser reads are
what the lexer and the pipeline parser make of characters, and the trees that
`Semantic` validates are those `Compiler` lowers. `Evaluation` is the inside of the
machine's calls, over `Callables` and `Values`; `Associations` is what a session's
renders find when they resolve a name.

### What is abstracted

Data. A value is a truth value, "invalid" or an arbitrary one; a pipeline names
the variables it binds, its source and the number of registered calls it makes,
and evaluating it may fail at any point. The length of a formatted value is drawn
from `ValueSizes`. A text is a length for the machine and a sequence of tokens for
the HTML context. Control is not abstracted: each handler's guards, early returns,
charges and the order of its steps are those of the code, with the failures a step
can meet after the first of its effects (a charge before a write that fails,
variables bound before a binding that fails).

`async_vm.py` repeats the loop of `sync_vm.py` with awaits at calls and writes.
A render owns all the state of its loop, so within one render the awaits add no
interleaving; what concurrent renders share (session, cache, Helm counters) is
modelled in `RenderSession` and `HelmInclude`, where a step runs from one await
to the next.

`HtmlContext` reads tokens where the code reads characters: a token is the longest
piece the code looks at in one step, and its spelling (`Spelling`) is used by the
states that do not know it as a whole. One name in a tag is one token, and the
blank that replaces a JavaScript block comment that is split over several texts may
be a newline where the code writes a space, both being white space. Elements and
attributes stand for their classes (`href` for every URL attribute).

`Lexer` reads characters; delimiters are one character each, as they may be. The
names of the escape sequences of quoted texts are a table. `Evaluation` has straight
templates, without control flow, which `TemplateVM` has without the insides of
pipelines. `Associations` sees of a program what depends on the association: the
names it calls, the functions it uses, and how many of its pipelines can be linked.

The value libraries keep their arithmetic and change its scale. The ratios between
units, the width of the integers and the digits of a fraction are constants of
`GoDuration` and `GoTime`, 16 bits in the run, so that all durations near zero, near
both ends and around each multiple of a unit are tried; an overflow happens there as
often as it should. A float is the decimal number of its shortest digits. Texts of
the escapers and of printf are code points; the words of printf (`true`, `<nil>`,
`%!`, `EXTRA`) are one private character each. Left out of printf: complex numbers,
`%b` and `%x` of floats, the Python mode, and maps of mixed key types whose keys
need escapes.

### Kinds of property

`TemplateVM`: `StackDiscipline` relates the three stacks of the running context
and of every suspended caller to the code ahead of them; `NoInternalError` says
none of the loop's "invalid compiled" errors can be reached; `LexicalScopes` and
`DotRestored` say what blocks leave behind; `WithinBudget`, over the counters and
the depth, holds on failing paths too; `Terminates` is the liveness property.

Front end: `NestingCounted` (loop depth, nesting limit), `DefinitionsFinal`,
`CompiledVerified`; `VariablesResolve`, a tree's variables are accepted just if no
run of the compiled code meets an undefined one; `SourcesRead`, written items come
back from lexer and pipeline parser, with their offsets, and any sequence of
characters is rejected or means what it is written as.

`Evaluation`: `MatchesUnlessMissing`, the two renders have the same output, error,
calls and charges unless a missing value is piped on; `ChargedBeforeCalled`;
`OperandsInvoked`, methods are called wherever they are found, once, with their
arguments in order; `MissingKeyStops`; `ReadsAreGranted`, nothing a policy refuses is
read, called or handed on.

`RenderSession`, `HelmInclude`: `InOwnAssociation`, `AssociationsBalanced`,
`DepthCoversNested`, `FrameDepthBounded`, `CacheCoherent`, `KeysAlive`,
`IncludedExact`, and the refinement `ImplementsNesting`.

`Associations`: `NamespaceIsLatest`; `RendersAgree`, both modes of a render run the
same programs with the same functions and end alike, unless the render can look up a
root's own name that a definition took; `NothingUnresolved`, what was accepted finds
its functions; `SandboxKept`, no derivation permits more; `ExtensionsIntact`, no
environment gives an extension's name to another function and no template replaces a
Python-native function or an escaper.

`HtmlAnalyzer`: the run of an accepted association is followed with a second context,
computed from the output as a whole; `EscapersFit` compares the two at every value,
`OutputReadable` at the end and in between, and it says of the contexts themselves that
delimiter, attribute kind, kept value and closing-tag mark are set only where they
belong. It is silent on the fields the code does leave over, listed
[below](#where-code-and-documentation-disagree). `WorklistClosed` says of every state of the
propagation that what is not in the worklist has passed its context on, whatever joins
have done to it since; `AnalysisEnds` that the analysis stops on every input.

Libraries: `RegexpCorrect`, `TimesExact` (durations and times), `EscapersExact` and
`FormatsExact` compare the code with a definition written from the meaning, or with
the readers of what is written. `RegexpCorrect` holds the automaton to the order in
which Go prefers matches, captures included, except for the endless repetitions that
`OrderKept` names, where it asks that the first match begins where Go's does.
`OneEventPerArm` says of each arming of a timer how and by which callback it may end,
and with the liveness property `ArmedFires` is about callbacks that race stops and
resets.

## Runs

All runs are exhaustive.

| Run | Shows | Bounds, and why they are enough |
|---|---|---|
| `vm_structured` | types, budgets, scopes, dot and termination for a program without `break` and `continue` | two templates, one of them recursive without end; iterators of any length up to the iteration budget; every limit small enough to be hit before, at and after each charge, in `with`, in its `else` part, in `range` and inside the callee. Every structured opcode sequence of depth three occurs |
| `vm_jumps` | the stacks serve the code ahead although `break` and `continue` leave blocks in the middle | loops with jumps out of nested `if`, `with` and `range`, five iterations: surplus scopes and dots from several rounds pile up |
| `front_sources` | the parser's counters, definitions and balanced code; variables; lexer and pipelines | every source of up to six items with two definition names and nesting limit two: the limit is met, chains of `else`, loops in definitions in loops, and a definition given twice all occur. Samples beside them: small trees of branches and loops over two variables; items of every kind written with every spacing and trim marker; every sequence of up to three fragments that mean something to the lexer, and of four from an opening delimiter |
| `session_sync` | sequential nested renders | one branch, five renders, four identities, cache of two entries (so it fills and refuses), depth limit three: identities are reused while keys exist |
| `session_async` | the shared counters, stacks and cache under concurrency | two branches, four renders, recursion limit one: every order of starts, ends, failures and refusals. A third branch adds no new pair of conflicting steps |
| `html_contexts` | escaping on every path of accepted associations | some 2,000 associations: four shapes (branches with `with`; a loop with `break` and `else`; two calls of a recursive template; code behind a `break`) in sixteen kinds of places, each with texts that change the place; three active calls; eight rounds instead of 256, which every analysis that stabilizes needs fewer of |
| `eval_pipelines` | evaluation of pipelines, three times over | one to three commands out of all operand kinds, in six uses (printed, declared, tested, ranged over, assigned, handed to a template), in six worlds: plain, a budget of one call, missing keys as errors and as zero values, a sandbox, and a registry that redefines a builtin. A fourth command adds no new pair of neighbours |
| `associations` | derivations | two names, five sources, at most two sources to an association and two extensions, one sandbox: every name can be defined, redefined, called before it exists and overridden by the root |
| `libraries` | the value libraries | patterns of up to twenty tokens over four characters, with every operator nested in every other; 16-bit durations; two zones, one with a gap and an overlap, and fixed offsets of every size, some longer than a day, with instants around each transition and at the ends of what `datetime` holds; some 12,000 texts, values and trees for the escapers and 109,000 formats with their values; timers with delays up to two and two resets, which is enough for a stale callback of each arming |
| `vm_dotleak`, `session_gather`, `eval_missing` | a disagreement each, see below | the smallest instance that has it |

`CHECK_DEADLOCK FALSE` stands where the system really stops: a session when its
renders are over or `MaxRenders` is used up, an analysis when it is refused or its
run has ended, a render of `Evaluation` with its last instruction, a chain of
derivations with its render, a conversion when it is done, a timer when it is spent
or stopped. The machine and the parser
stutter explicitly when they are finished.

Every property has a mutant, a small plausible error in a modelled definition, that
TLC refutes under the same configuration. Mutants stand beside the definition they
replace, marked `Mutant` or `Changed`; nothing else uses them.

Fairness. `FairSpec` of `TemplateVM` is weak fairness of the whole next-state
relation: one thread runs the loop and nothing can hold it up, so it takes its next
step as long as there is one. It says nothing about which step: termination comes
from the budgets and limits and from finite data. `FairSpec` of `HtmlAnalyzer` is
weak fairness of the analysis for the same reason (construction runs in the thread
that asked for it), written out because the analysis is enabled exactly in the
phase "analyzing". `TimersFairness` is weak fairness of time passing, of a due callback being claimed
by its thread or loop, and of the callback claimed running on: the operating system
schedules the threads and the loop runs its callbacks; users owe nothing. Sessions
have no liveness property: a context function may leave a render waiting.

## Where code and documentation disagree

Three have a run that TLC refutes; the details and quotations are in `PROJECT.json`.

- `vm_dotleak`: `break` inside `with` jumps over `EXIT_WITH`, so the saved dot stays
  on the dot stack, and the `EXIT_WITH` of an enclosing `with` restores the wrong
  one. The same jump leaves scopes behind: after a `continue` inside an `if` that
  declared `$x` the inner `$x` stays visible after the loop.
- `session_gather`: concurrent `render_source` calls of one context function can run
  a nested render in the association of the other branch.
- `eval_missing`: a linked lookup hands a missing value on to a function
  (`runtime/linked.py:285`), where the generic pipelines of `render_async` pass
  nothing: `{{ .missing | not }}` prints `true` in one mode and fails in the other.

The others were met while modelling. The models have the code's behaviour, and the
properties are stated so that they hold with it.

Front end:

- `{{range .}}{{block "x" .}}{{break}}{{end}}{{end}}` is accepted and then raises
  `IndexError` (`compile/compiler.py:197`; `docs/api.md:104`). `NestingCounted`
  follows the parser's own count.
- `{{range $v := .L}}{{else}}[{{$v}}]{{end}}` prints `[<no value>]`; assigning such a
  variable in `else` is accepted and fails as undefined. `VariablesResolve` leaves
  those trees out (`ElseSeesBody`).
- `{{$x := 1}}{{range .M}}{{$x}}{{if true}}{{$x := 2}}{{continue}}{{end}}{{end}}`
  prints `12`: the scopes left behind by `vm_dotleak`'s jump.
- `{{.x|}}` is accepted.
- Chains of `else if` are not counted by `max_nesting`: `parse_else` parses the branch
  at the depth of the one it continues.

Sessions:

- A nested render refused by the depth budget leaves the depth one too high
  (`runtime/context.py:125`; `docs/architecture.md:189-190`); `DepthCoversNested` says
  that depth is never too low.
- Frames around a nested render are not counted against the budget inside it:
  `FrameDepthBounded` is stated from the base each render was given.
- A definition that takes the root's own name: `render_async` sees it, the linked
  `render` keeps the root (`template.py:820`). `RendersAgree` leaves out the renders of
  such a template that can come to look that name up, and no others. Which mode is linked
  depends on `_should_use_linked`, which in that case counts the root's own steps.

HTML:

- Branches that both end in HTML text are refused when left-over fields of the
  context differ, as after `{{if .X}}<br/>{{end}}`, `<input disabled>` or
  `<meta charset=x>` (`html/analyzer.py:342`; `docs/html.md:36-37`).
- Contexts are not finite (brace depths, attribute names): a recursive template inside
  an open script brace needs a new variant in every round, until the analysis gives up
  after 256 (`html/analyzer.py:119`).
- A call visited first in one context and then, when its loop or branch has raised that
  context, in another leaves a variant behind that nothing calls. If the last round made
  it, it has no program yet and construction ends in the code's own `assert
  variant.program is not None` (`html/analyzer.py:136`): so does
  `<a href="{{template "a" .}}{{range .}}{{template "b" .}}?x{{end}}">` with `a` giving
  `x` and `b` giving `y`. `AssertionFails` is that end, phase "crashed".
- A context keeps fields of places it has left: the element and the attribute's name
  after the tag, the brace depth and the expression state after `</script>`
  (`html/context.py:534`), the part of the URL after a CSS `url` or string has ended
  (`html/context.py:802`), so that the next one begins in it. `OutputReadable` claims
  nothing of these; the code reads the output as a whole with the same left-over
  fields, so `EscapersFit` does not object to them either.
- A trusted `JSStr` with an escaped quote, `a\"b`, becomes `a\\u0022b`, as in Go.

printf (`docs/builtin-functions.md:85` promises Go's): `%08.1f` of -1.5 gives
`0000-1.5`, `%+08.1f` puts its zeros before the sign, `%08v` of -5 gives `000000-5`,
`%06.2f` of +Inf `00+Inf`, `%+g` of -0.0 `+-0`; `%5%` takes a value; `%U` of -1 gives
`U+-001`, `%c` of -1 raises `ValueError`.

Regular expressions (`docs/reports/m7-goregexp-extraction.md:22` claims Go's matching):
an unescaped `}` is rejected; a lazy bounded repetition inside a match is flattened
(`^(a|ab|b){0,2}?$` on "ab"); splitting "" gives no part where Go gives one, and
`PiecesRejoin` asks only other texts for a part. `(|a)+` on "aa" finds "a" where Go
prefers to find nothing: `_Compiler` (`goregexp/_engine.py:344`) copies the body for
each mandatory pass and goes on with one more copy, where Go goes back to the last. The
same happens with `x{n,}` and with lazy bodies that may match nothing. `OrderKept`
excludes these from the claim about order; they are still sampled, for where the first
match begins. It also excludes lazy bodies of `x*` that may match nothing, whose order
in Go is that of the automaton and not the one `RegexpMeaning` states.

Timers (`docs/reports/m7-gotime-extraction.md:31`): a callback claimed before a
`reset` fires the newly armed timer at once (`_go_schedule.py:61`), and leaves a ticker
with two chains; `Timer.reset` does not clear an unread event; cancelling one waiter of
`AsyncTimer.wait` cancels the result the others wait for, and no `stop` reports that
end; `AsyncTicker.stop` does not interrupt a sleeping iterator. `OneEventPerArm` allows
just these: an arming fired by a callback that was claimed before the reset that made
it, and an `AsyncTimer` abandoned with its waiter.

Times: equal instants in different locations compare `t1 <= t2` false and `t1 >= t2`
true; comparison that mixes monotonic and wall readings is not transitive; arithmetic
of `python.Time`, `wait_until` and `timeout_at` counts wall clock time within one
location; `Location.from_tzdata` with an installed key uses the installed metadata
before the first transition; layouts that mix `.0` and `.9` fractions format and parse
differently; an offset under a minute prints as `+00:00` and as `Z` the second time;
a 12-hour clock accepts no hour 0 and ignores `PM` beside a 24-hour hour; the text form
loses the seconds of an offset; transition bounds are not found beyond 370 days. Near
the ends of `datetime` operations raise that need none of it: every look-up of an
eastern zone in the last hours of the year 9999 (`_civil.py:97`, `OverflowError`), so
`from_components` up to an offset earlier and `zone_bounds` up to 370 days earlier.
`python.Time.from_go` raises `ValueError` for fixed offsets of a day or more and,
outside its `try`, `OverflowError` when the local time leaves the range
(`python.py:67-83`); `python.Time.add` raises `OverflowError` past it. The models
return these errors and the properties allow them only there (`NearEnd`). A zone may
have a name that a layout writes and the parser refuses, such as `+0330`, as in Go:
`LayoutReads` asks for the names of `ReadableNames`.

## Proofs

### The machine

`TemplateVM_proofs` proves, for every association, all data and all limits allowed by
the assumptions of `TemplateVM`:

| Theorem | Statement |
|---|---|
| `TypeCorrect` | `Spec => []TypeOK` |
| `StacksSuffice` | `Spec => []StackDiscipline` |
| `NoInvalidProgram` | `Spec => []NoInternalError` |
| `BudgetsHold` | `Spec => []WithinBudget` |
| `DepthIsBounded` | `Spec => []DepthBounded` |
| `ScopesAreLexical` | `Spec => []LexicalScopes`, of structured programs |
| `DotIsRestored` | `Spec => []DotRestored`, of structured programs |

The argument. `Control`, the conjunction of types, `StackDiscipline` and
`NoInternalError`, is inductive. `NoInternalError` is not so alone: it needs the
stacks to be deep enough, and `StackDiscipline` needs the types, the position above
all, to look up the stack map. The
lemmas `...Keeps` say that setting a variable leaves the context's type and its
stacks (a declaration outside every block may open a scope); `LandsNext`,
`LandsTarget` and `LandsBody` turn an edge of the verified program into a position
the context can be in. With them `StepEffect` has one case per action and four
outcomes: the render halts, moves within the program, enters a template or resumes
its caller. `ControlStep` and `DepthStep` are then cases on the outcome, `BudgetStep`
on the action. `WithinBudget` is the counters' part of `BudgetStep` and
`DepthIsBounded` together.

`LexicalScopes` and `DotRestored` are not facts about all verified programs: a break
out of a with leaves a saved dot behind, and the run `vm_dotleak` shows what an
enclosing with then restores. They hold of the programs in which all paths to a
position bring the same stacks and the withs and ranges are nested, `Structured` of
`TemplateProgram`; the two theorems have that as their hypothesis, with the blocks
`open` behind each position as the witness, and `StructuredNests` of `MCTemplateVM`
has TLC evaluate it for the compiled program of the run `vm_structured`. The
inductive invariant, `TidyInv` (`BlocksAreTidy`), says for the running template and
for every caller that dots and ranges are exactly those of the map, that there is at
most one scope more, and where the dot of the call is: in `dot` when nothing is open,
else saved by the outermost block, at the bottom of the dots or of the ranges
(`DotSaved`). `LexicalScopes` needs the exact map, `DotRestored` the bottom of the
stacks, which no other action can reach while a block inside is open:
`SavesDot`, `RestoresDot`, `SavesRangeDot` and `RestoresRangeDot` are the four steps
that move it. `SettlesTidy` covers the assignments, whose care is the root: an
assignment to a variable that is bound stays in the scopes (`AssignSettles`).

The assumption that carries the result is `VerifiedAssumption`: the programs are
those the static check accepts. `CodeIsVerified` proves that the compiler's are
([the compiler](#the-compiler)), so the theorems above hold of every template the
parser accepts. The other assumptions give the constants their
types, keep variable names apart from the tags of other value sources, and
`Unset` apart from the values.

### Sessions

`RenderSession_proofs` proves, for any number of branches,
sources, identities, renders and any limits allowed by `SessionAssumption`:

| Theorem | Statement |
|---|---|
| `TypeCorrect` | `Spec => []TypeOK` |
| `FrameDepthIsBounded` | `Spec => []FrameDepthBounded` |
| `DepthCovers` | `Spec => []DepthCoversNested` |
| `AssociationsBalance` | `Spec => []AssociationsBalanced` |
| `CacheIsCoherent` | `Spec => []CacheCoherent` |
| `KeysStayAlive` | `Spec => []KeysAlive` |
| `SequentialNesting` | with a single branch, `Spec => []InOwnAssociation` |
| `NestingIsImplemented` | with a single branch, `Spec => ImplementsNesting` |

The argument. `StepWays` shows that every step of a session is one of four: a nested
render starts, one is unwound, the innermost render of a branch gains or loses a
call, or the nested renders stay as they are (one may have been refused, which
raises `depth`). The counting theorems follow from `Balance`: the association stack
is as long as the set of pushing renders, depth covers the active ones, and both sets
are finite. `PushCounts`, `SetFramesCounts` and `DropCounts` say how the sets and
their cardinalities move with a branch's stack.

For the cache, `CacheInv` strengthens `CacheCoherent`. `Kept` are the associations
that live as long as the session: the base and the cached ones. `CacheInv` says that
every key's association is kept and that, while the cache has room, every association
on the session's stack is. The second part is what makes the first inductive: a new
key names the current association, and it is added only while there is room. Then
`FreshKeepsCache` follows: an identity given to a new object is not reachable, so it is
no key and no entry of the cache, and the facts about the heap survive the assignment.

`SequentialNesting` is false for several branches (run `session_gather`). With one
branch the shared stack is the branch's own trail (`NestInv`), so its top is the
association that encloses the render.

`NestingIsImplemented` is the refinement of `NestedRenders`, step by step. The mapping
shows a nested render as the path of sources its template was derived with and its
frames. A start maps to an abstract start: by `NestInv` the code derives from the
association that the abstract specification calls the enclosing one, and by `CacheInv`
a cached entry was derived with the same path as a new one would be (`StartEnters`).
Everything else maps to an end, a call, a return or a stutter. Paths of active renders
do not change under them, although identities are given to new objects, because what is
on the stack is reachable (`PathsKept`). A single branch is needed, since with two the
refinement is false.

`HelmInclude_proofs` adds, under the assumptions of sessions and a natural recursion
limit:

| Theorem | Statement |
|---|---|
| `HelmIsSession` | `HelmSpec => Spec`: all of the above holds while templates include one another |
| `IncludesAreCounted` | `HelmSpec => []IncludedExact` |

`IncludedExact` is inductive only together with the fact that marks follow the nested
renders (`MarksFollow`): a step starts a nested render and marks it, ends one and
releases its mark, or does neither. `CountsExact` then is a statement about the
cardinality of a set of pairs of branch and position that gains or loses one element.

The assumption of these theorems is `SessionAssumption` alone: finitely many branches,
a base identity, natural limits.

### The parser

`FrontEnd_proofs`, for every nesting limit, every set of pipelines and names and token
sequences of any length:

| Theorem | Statement |
|---|---|
| `StackIsCounted` | `Spec => []ParserInv` |
| `NestingIsCounted` | `Spec => []NestingCounted` |
| `DefinitionsAreFinal` | `Spec => DefinitionsFinal`, an action property |

`ParserInv` has three parts. `StackInv` says of every prefix of the stack that the
constructs in it with an `end` of their own are as many as the depth of its last list;
a statement about the whole stack would not survive an `end`, which goes back to an
earlier prefix. The second part is `range_depth`, the cardinality of the ranges whose
body is open; the third, unique names of definitions. `DefinitionsFinal` follows from
one lemma on `add_definition` (`DefinitionsKept`), of which the third part is one half.

### The compiler

The same module, for every nesting limit, every set of names and pipelines and
sources of every length up to `MaxItems`, which may be any number:

| Theorem | Statement |
|---|---|
| `TreesAreBounded` | `Spec => []TreeInv` |
| `CodeIsVerified` | `Spec => []CompiledVerified` |

The recursion of `emit_node` is a recursive function over the levels of constructs in a
tree, `EmitWithin[d]`, so what holds of it is proved by induction on `d`
(`LevelsLowered`, with the set of levels for which the claim holds as the induction
hypothesis); `emit_list` is a fold over the nodes of a list. `TreeInv` connects the two
modules: the lists the parser is building hold no more levels of constructs than items
were read, less the constructs still open, so an accepted source of `items` items is in
the compiler's domain. An `end` moves levels from the stack to the list below it
(`ClosedFits`, over a chain of `else if` of any length).

Verification of code is not an invariant of emission: unpatched jumps go nowhere, and a
`break` has no target until its range is over. What each emitter keeps is therefore a
statement about a part of the code and its open promises, `Grown`: what was there stays
as it was; over the new part, a `Segment`, the stacks never fall below where they began
and end there; each of its jumps stays inside it, or waits to be patched and is recorded
with the innermost loop (`Collected`), with exactly the ranges open that this loop has
(`Waits`). From such a place the exit of the loop is sound, whatever scopes and withs
the jump leaves behind, since the machine needs at least what the map says.
`BranchGrown` (if, with) and `RangeGrown` patch the promised targets and show the patched
instruction verified; everything between is untouched by a patch because a site is
patched by the construct that emitted it and by no other (`SitesApart`). At the end no
loop is open, no promise is left, and the code is verified (`ListVerified`).
`CodeIsVerified` applies this to the root and to every definition (`TemplateVerified`).

Its assumption is `FrontEndAssumption`, the types of the constants that parser and
compiler share; `MaxLevels`, the deepest tree `EmitWithin` is asked for, is not less than
the length of a source.

### The HTML analyzer

`HtmlAnalyzer_proofs`, for any association of programs whose jumps stay inside them, any
texts, and any limit of rounds and of active calls:

| Theorem | Statement |
|---|---|
| `WorklistIsClosed` | `Spec => []WorklistClosed` |
| `AnalysisIsSolved` | `Spec => []AnalysisSolved` |
| `RunsAreAnalyzed` | `Spec => []RunsAnalyzed` |

The analysis guesses: a variant not analyzed yet is taken to leave the context as it
finds it, and what was joined under that guess is thrown away in the next round.
`AnalysisSolved` says that no guess is left in what is accepted: contexts `at` exist for
the program of each variant, the first covering the context the variant is for, each
covering what the positions before it pass on, through the outputs the called variants
have in the end, and its code and its output are those that `at` calls for (`Solves`).
`RunsAnalyzed` follows a render: every instruction it executes has such a context, so
the start context that `_rewrite_program` takes for the others never decides about a
value, no value is written with the escapers of a place the analysis refused, and a call
enters the variant made for the caller's context.

`Inv` has five parts. `TypeInv` keeps variants apart by name and context. `WorklistInv`
says that each position outside the worklist is `Settled`: it has passed its context on,
and the variant it calls exists. The second half is what makes the first survive: the
next visit may append a variant, and the effect of a call stays the same only if its
callee was already there (`StaysSettled`). `RoundInv` says that while a round has changed
nothing, the variants it has been through are `Solved`; the round ends with the worklist
empty and the last result equal to what was stored, so all are, among them those made in
this round, or the analysis ends in the failed assertion. `FinishedInv` keeps that
afterwards and `FramesInv` says that each frame of the run is at a position of such a
solution.

What a visit may do to other positions rests on the joins (`JoinCovers`): a join covers
both its sides, and what was covered before stays covered. That is no plain order: two
contexts that differ are joined again after `_nudge_context` has moved both forward, so
`Covers(m, c)` lets `c` be covered as it is or nudged. It is transitive because nudging
twice is nudging once (`NudgedTwice`) and because nudging keeps contexts under one
another (`UnderNudged`). All this needs the contexts to be contexts: the first third of
the module types every step of `context.py` from one token to the next (`ConsumeType`,
`AfterActionType`), over a finite set of words for the fields that hold names.

`AssociationAssumption` says that texts are sequences of tokens, that there are finitely
many templates, and that jumps lead into their program or just behind it, as
`CodeIsVerified` shows of compiled code.

### Timers

`GoTimers_proofs` proves `ArmsEndOnce`, `TimersSpec => []OneEventPerArm`, for every
longest delay and number of resets: each arming ends once, in one of the ways it may,
and by a callback that may end it. Three variables that the program does not have
remember, for each arming, how it ended, which callback fired it, and which callbacks
threads had already claimed when it was made. `TimersInv` says why they agree with the
timer: the last task carries the generation of its timer and all others an older one
(`LastTaskDecides`), so no task fires an arming that is not its own; a claimed thread
older than the current arming was claimed before the reset that made it, since a reset
cancels the one that is pending (`LateWereClaimed`); while a flag is up the last
callback is still to come (`CallbackComing`); and all armings but an active timer's last
have ended (`ArmsEnded`).

### Associations

`Associations_proofs`, for any sources, names, registrations, extensions and policies,
chains of any length and calls of any depth:

| Theorem | Statement |
|---|---|
| `NamespaceIsTheLatest` | `Spec => []NamespaceIsLatest` |
| `RendersOfBothKindsAgree` | `Spec => []RendersAgree` |
| `NothingStaysUnresolved` | `Spec => []NothingUnresolved` |
| `SandboxIsKept` | `Spec => []SandboxKept` |
| `ExtensionsStayIntact` | `Spec => []ExtensionsIntact` |

`ChainInv` is the inductive invariant: an environment is one that `Environment` could
have built from its own parts (`IsEnvironment`), a template is made of programs that its
own registry and policy accept (`IsTemplate`: its namespace maps names to `Accepted`
programs and its registry is an `IsLibrary`), and what was rendered is what rendering
that template gives (`IsRender`). The properties say less than that about each state and
are not inductive alone: that a program finds its functions after `with_functions`
rests on the registry having grown, that an extension's function survives, on no other
registry ever having had its name.

The linked namespace and the other one differ at most at the name of the template's own
program, and only if a definition took it. A render that cannot look that name up runs
within a set of programs that `Suffices`: none of them calls one outside the set, or the
name. `RunsAlike` then compares the two runs level by level of call depth: both levels
give every program of the set the same result, since each call in it finds the same
program of the set in both namespaces, or none in either.

`NamespaceIsLatest` has an invariant of its own, `LatestInv`, over the history. It says
of every prefix of the writes that the namespace has, for each name, the last write
that counts; which writes count depends on what came before them, so one more write may
only be compared with the prefix before it (`OneWriteMore`).

Sources are joined, definitions added, extensions merged and templates run in loops,
folds in the model. `FoldTheorems` says once, for any operator `Op`, that the function
a fold iterates exists, that the fold passes through one value per element
(`FoldRuns`), and that it stays in a set that `Op` keeps (`FoldType`). The induction
is over a set of natural numbers (`Induct`), so no theorem takes a predicate as its
parameter; `Associations_proofs` instantiates the module for each of its six loops.
`RecursionExists` does the same for the levels of calls in `Run`.

`AssociationsAssumption` gives the constants their types and says two things the code
sees to elsewhere: the definitions of one source have different names (the parser's
`DefinitionsAreFinal`), and no Python-native function is called `call` or has the
name of an internal escaper (`pythonic/registry.py`).

### Model-checked only

- That compiled programs without a break or continue out of a block are `Structured`:
  TLC evaluates it for the program of one run.
- Liveness under fairness: `Terminates`, `AnalysisEnds`, `ArmedFires`.
- Whatever is stated in a module with recursive operators, which the SMT backend does
  not accept: `VariablesResolve`, `SourcesRead` (the lexer, the pipeline parser and the
  semantic pass), the five properties of
  `Evaluation`, and `RegexpCorrect`, `TimesExact`, `EscapersExact`, `FormatsExact`.
- `EscapersFit` and `OutputReadable`. `EscapersFit` is no theorem for every choice of
  texts: where a path with the beginning of an attribute name joins one without it, the
  analysis goes on as in the middle of a name (`_nudge_context`, as Go does), and the
  rest of the name that follows is not looked up by itself. The texts of the run split
  no name over a join; within that family the property is checked, not proved.
  `OutputReadable` is none either: after `<script onclick="</script>">`, which the run does
  not sample, the context keeps the delimiter and the kind of an attribute it has left. What is proved for all texts is the analyzer's
  own part, that each value gets the escapers of the context computed for its place.

## Not modelled

- Errors: exception classes, the layout of their messages and their positions, on
  which nothing but the wording depends; the models say which kind of error is raised.
- Function libraries (`funcs/`, `pythonic/`): some hundreds of independent functions
  without state, most of them a call into Python's own libraries, each with its tests.
- The `js` builtin, which maps single characters; the entry points of the machine that
  only build its first context.
- Compilation of operands, one instruction part for one node.
- Loaders and the engine's reading of files; the constructors of `SandboxPolicy`, which
  check their arguments; the forwarding methods of the context objects.
- `RenderContext.state`: a dictionary of extension objects, created once per render;
  `HelmInclude` has the one such object as its counters.
- goregexp: replacement templates, and the tables of Unicode classes, which are data.
- gofmt: what [the abstractions](#what-is-abstracted) list.
- gotime: reading the bytes of zone files beyond what transitions need, and the fake
  clock of its tests.

## Plan

Done: the front end from characters to code, the machine, the evaluation of pipelines
in three forms, associations, sessions with Helm's functions, the HTML analyzer and
escapers, printf, regular expressions, durations, times and timers; the proofs of the
machine, of the parser and of the code compiled from what it accepts, of sessions, their
cache and their refinement, of Helm's counters, of the analysis of HTML contexts, timers
and associations.

1. The texts for which `EscapersFit` is a theorem: those that split no attribute name
   over a join. The contexts of `at` and the context of the output would then be related
   along a run, over the solution that `RunsAreAnalyzed` provides.
2. Proofs about pure definitions without recursion: wrapping and rounding of
   `GoDuration`, the calendar of `GoTime`.
3. The fake clock, replacement templates of regular expressions.
