---------------------------- MODULE HtmlAnalyzer ----------------------------
(***************************************************************************)
(* gotpl/html/analyzer.py: the contextual rewriting of an association.     *)
(* Every template is analyzed once for each context it is called in (a     *)
(* variant), by propagating contexts through its program; since a call's   *)
(* effect is the output of another variant, all are analyzed in rounds     *)
(* until nothing changes.  An accepted association is then run: the module *)
(* follows what a render writes, and reads that output from its start, to  *)
(* compare the context a value really lands in with the one it was escaped *)
(* for.                                                                    *)
(***************************************************************************)
EXTENDS HtmlContext, TemplateProgram, FiniteSets, TLC

CONSTANTS
    Associations,   \* what may be analyzed: functions from names to programs
    RootName,       \* the root template of each
    Texts,          \* the text that each name of a WRITE_TEXT stands for
    MaxRounds,      \* 256 in the code
    MaxFrames       \* bound: template calls active in a run

\* Jumps stay inside a program, as they do in compiled code.
JumpsInside(i, code) ==
    /\ i.op \in JumpOps => i.target \in 1 .. Len(code) + 1
    /\ i.op = "NEXT_ITERATION" => i.body \in 1 .. Len(code) + 1

ASSUME AssociationAssumption ==
    /\ MaxRounds \in Nat \ {0} /\ MaxFrames \in Nat \ {0}
    /\ \A t \in DOMAIN Texts : Texts[t] \in Seq(STRING \ {Nothing})
    /\ \A a \in Associations :
          /\ RootName \in DOMAIN a /\ IsFiniteSet(DOMAIN a)
          /\ \A n \in DOMAIN a :
                /\ a[n] \in Seq(Range(a[n]))
                /\ \A pc \in DOMAIN a[n] :
                      /\ JumpsInside(a[n][pc], a[n])
                      /\ a[n][pc].op = "WRITE_TEXT" => a[n][pc].name \in DOMAIN Texts

VARIABLES
    sources,    \* the association
    phase,      \* "analyzing"; "refused", "crashed" or "accepted"; "running";
                \* "stopped" or "ended"
    why,        \* why it was refused
    variants,   \* self.variants, in the order of their creation
    round, changed,     \* the round and whether it changed a variant
    turn, count,        \* the variant being rewritten, of those the round began with
    incoming,   \* the contexts propagated so far; the position after the last
                \* instruction holds the output
    pending,    \* the worklist of positions
    frames,     \* the run: variants entered and positions in them
    seen        \* the context after the output of the run, read as a whole

analysis == <<variants, round, changed, turn, count, incoming, pending>>
vars == <<sources, phase, why, analysis, frames, seen>>

Variant(name, start) ==
    [name |-> name, start |-> start, output |-> start, code |-> <<>>, done |-> FALSE]

Has(vs, name, c) == \E k \in DOMAIN vs : vs[k].name = name /\ vs[k].start = c

\* _ensure_variant: a new variant is taken to leave the context as it finds it.
EnsureVariant(vs, name, c) ==
    IF Has(vs, name, c) THEN vs ELSE Append(vs, Variant(name, c))

IndexOf(vs, name, c) == CHOOSE k \in DOMAIN vs : vs[k].name = name /\ vs[k].start = c

----------------------------------------------------------------------------
(* Joining the contexts of two paths                                        *)

\* A name may follow, whatever kind the name before it had; and an unquoted
\* value may begin.
Nudge(c) ==
    CASE c.kind \in {"TAG", "AFTER_NAME"} ->
            [c EXCEPT !.kind = "ATTR_NAME", !.attribute = "PLAIN",
                      !.attribute_name = <<>>, !.url_part = "NONE"]
      [] c.kind = "ATTR_NAME" -> [c EXCEPT !.attribute_name = <<>>]
      [] c.kind = "BEFORE_VALUE" -> AfterAction(c)
      [] OTHER -> c

Differing(l, r) == {f \in DOMAIN l : l[f] # r[f]}

\* Mutant: contexts that differ in any one field go together.
MergeAnyField(l, r) ==
    IF Cardinality(Differing(l, r)) < 2 THEN l ELSE Error(l)

\* Contexts that differ in one of two ways have a common name for it.
Merge(l, r) ==
    CASE l = r -> l
      [] Differing(l, r) = {"url_part"} -> [l EXCEPT !.url_part = "UNKNOWN"]
      [] Differing(l, r) = {"js_context"} -> [l EXCEPT !.js_context = "UNKNOWN"]
      [] OTHER -> Error(l)

Join(l, r) ==
    LET m == Merge(l, r) IN
    IF m.kind = "ERROR" /\ (Nudge(l) # l \/ Nudge(r) # r)
    THEN Merge(Nudge(l), Nudge(r)) ELSE m

----------------------------------------------------------------------------
(* Propagation through one program                                          *)

Current == variants[turn]
Code == sources[Current.name]

Successors(pc, i) ==
    CASE i.op \in {"JUMP", "BREAK_RANGE"} -> <<i.target>>
      [] i.op \in {"JUMP_IF_FALSE", "ENTER_WITH", "ITERATE"} -> <<pc + 1, i.target>>
      [] i.op = "NEXT_ITERATION" -> <<i.body, i.target>>
      [] OTHER -> <<pc + 1>>

Writes(i) == i.op \in {"WRITE_DOT", "WRITE_PIPELINE"}
Calls(i) == i.op = "CALL_TEMPLATE" /\ i.name \in DOMAIN sources

\* Mutant: a call leaves the context of its caller as it was.
TransferIgnoringCalls(vs, i, c) ==
    CASE i.op = "WRITE_TEXT" -> Consume(c, Texts[i.name]).ctx
      [] Writes(i) -> Act(c)
      [] OTHER -> c

\* The context after an instruction; the callee's variant is in vs.
Transfer(vs, i, c) ==
    CASE i.op = "WRITE_TEXT" -> Consume(c, Texts[i.name]).ctx
      [] Writes(i) -> Act(c)
      [] Calls(i)  -> vs[IndexOf(vs, i.name, c)].output
      [] OTHER -> c

Assigned(at, next, c) ==
    [pc \in DOMAIN at \cup {next} |-> IF pc = next THEN c ELSE at[pc]]

\* Mutant: a position is visited again although nothing new reached it.
ReachAgain(w, next, c) ==
    LET known == next \in DOMAIN w.incoming
        merged == IF known THEN Join(w.incoming[next], c) ELSE c
    IN IF w.why # <<>> THEN w
       ELSE IF known /\ merged.kind = "ERROR"
       THEN [w EXCEPT !.why = <<"branches", w.incoming[next].kind, c.kind>>]
       ELSE [w EXCEPT !.incoming = Assigned(@, next, merged),
                      !.pending = IF next > Len(Code) THEN @ ELSE Append(@, next)]

\* Mutant: a known position is not visited again when its context changes.
ReachOnce(w, next, c) ==
    LET known == next \in DOMAIN w.incoming
        merged == IF known THEN Join(w.incoming[next], c) ELSE c
    IN IF w.why # <<>> THEN w
       ELSE IF known /\ merged.kind = "ERROR"
       THEN [w EXCEPT !.why = <<"branches", w.incoming[next].kind, c.kind>>]
       ELSE [w EXCEPT !.incoming = Assigned(@, next, merged),
                      !.pending = IF next > Len(Code) \/ known THEN @ ELSE Append(@, next)]

\* Context c reaches position next of the worklist state w.
Reach(w, next, c) ==
    LET known == next \in DOMAIN w.incoming
        merged == IF known THEN Join(w.incoming[next], c) ELSE c
    IN IF w.why # <<>> THEN w
       ELSE IF known /\ merged.kind = "ERROR"
       THEN [w EXCEPT !.why = <<"branches", w.incoming[next].kind, c.kind>>]
       ELSE IF known /\ merged = w.incoming[next] THEN w
       ELSE [w EXCEPT !.incoming = Assigned(@, next, merged),
                      !.pending = IF next > Len(Code) THEN @ ELSE Append(@, next)]

\* An instruction has one or two successors.
ReachEach(w, nexts, c) ==
    LET first == Reach(w, nexts[1], c)
    IN IF Len(nexts) = 1 THEN first ELSE Reach(first, nexts[2], c)

Refuse(reason) ==
    /\ phase' = "refused" /\ why' = reason
    /\ UNCHANGED <<sources, analysis, frames, seen>>

\* One step of _propagate_contexts.
Visit ==
    /\ phase = "analyzing" /\ pending # <<>>
    /\ LET pc == Head(pending)
           i == Code[pc]
           c == incoming[pc]
           vs == IF Calls(i) THEN EnsureVariant(variants, i.name, c) ELSE variants
           out == Transfer(vs, i, c)
           w == ReachEach([incoming |-> incoming, pending |-> Tail(pending), why |-> <<>>],
                          Successors(pc, i), out)
       IN IF out.kind = "ERROR" THEN Refuse(<<"context">>)
          ELSE IF w.why # <<>> THEN Refuse(w.why)
          ELSE /\ incoming' = w.incoming
               /\ pending' = w.pending
               /\ variants' = vs
               /\ UNCHANGED <<sources, phase, why, round, changed, turn, count,
                              frames, seen>>

----------------------------------------------------------------------------
(* Rounds                                                                   *)

\* Where a position was not reached the code assumes the variant's start, and
\* leaves the name of a template it calls.
ContextAt(pc) == IF pc \in DOMAIN incoming THEN incoming[pc] ELSE Current.start

CallContextAt(pc) == IF pc \in DOMAIN incoming THEN incoming[pc] ELSE TextContext

\* _rewrite_program: what an instruction becomes in context c.
RewrittenIn(vs, i, c) ==
    [out    |-> CASE i.op = "WRITE_TEXT" -> Consume(c, Texts[i.name]).out
                  [] Writes(i) -> EscapeKinds(c)
                  [] OTHER -> <<>>,
     callee |-> IF Calls(i) THEN IndexOf(vs, i.name, c) ELSE 0]

Rewritten(pc) ==
    RewrittenIn(variants, Code[pc],
                IF Calls(Code[pc]) THEN CallContextAt(pc) ELSE ContextAt(pc))

Fails(i, c) ==
    \/ i.op = "WRITE_TEXT" /\ Consume(c, Texts[i.name]).ctx.kind = "ERROR"
    \/ Writes(i) /\ EscapeKinds(c) = <<"ERROR">>

\* Code that no path reaches can make the analysis fail.
FailsToRewrite(pc) == Fails(Code[pc], ContextAt(pc))

Result ==
    [Current EXCEPT !.output = ContextAt(Len(Code) + 1),
                    !.code = [pc \in DOMAIN Code |-> Rewritten(pc)],
                    !.done = TRUE]

\* The worklist at the beginning of variant k of vs.
Begin(vs, k) ==
    /\ turn' = k
    /\ incoming' = [pc \in {1} |-> vs[k].start]
    /\ pending' = IF sources[vs[k].name] = <<>> THEN <<>> ELSE <<1>>

Rewriting == phase = "analyzing" /\ pending = <<>>
Rewrites == Rewriting /\ ~ \E pc \in DOMAIN Code : FailsToRewrite(pc)

RewriteFails ==
    /\ Rewriting
    /\ \E pc \in DOMAIN Code : FailsToRewrite(pc)
    /\ Refuse(<<"context">>)

Changed == changed \/ Result # Current
Stored == [variants EXCEPT ![turn] = Result]

NextVariant ==
    /\ Rewrites /\ turn < count
    /\ variants' = Stored /\ changed' = Changed
    /\ Begin(Stored, turn + 1)
    /\ UNCHANGED <<sources, phase, why, round, count, frames, seen>>

NextRound ==
    /\ Rewrites /\ turn = count /\ Changed /\ round < MaxRounds
    /\ variants' = Stored /\ changed' = FALSE
    /\ round' = round + 1 /\ count' = Len(Stored)
    /\ Begin(Stored, 1)
    /\ UNCHANGED <<sources, phase, why, frames, seen>>

Diverge ==
    /\ Rewrites /\ turn = count /\ Changed /\ round = MaxRounds
    /\ Refuse(<<"diverged">>)

Stable == Rewrites /\ turn = count /\ ~Changed
AllRewritten == \A k \in DOMAIN variants : variants[k].done

Conclude ==
    /\ Stable
    /\ \/ /\ variants[1].output.kind # "TEXT"
          /\ Refuse(<<"nontext">>)
       \/ /\ variants[1].output.kind = "TEXT" /\ AllRewritten
          /\ phase' = "accepted"
          /\ UNCHANGED <<sources, why, analysis, frames, seen>>

\* The last round may have made a variant, for a context that a later visit of
\* the same position replaced: it changes nothing and nothing calls it, but it
\* has no program yet, and the code asserts that each has one.
AssertionFails ==
    /\ Stable
    /\ variants[1].output.kind = "TEXT" /\ ~AllRewritten
    /\ phase' = "crashed"
    /\ UNCHANGED <<sources, why, analysis, frames, seen>>

\* The root, then every definition, in the default context.
FirstVariants(a) ==
    << Variant(RootName, TextContext) >>
      \o SetToSeq({Variant(n, TextContext) : n \in DOMAIN a \ {RootName}})

Init ==
    /\ sources \in Associations
    /\ phase = "analyzing" /\ why = <<>>
    /\ variants = FirstVariants(sources)
    /\ round = 1 /\ changed = FALSE
    /\ turn = 1 /\ count = Len(variants)
    /\ incoming = [pc \in {1} |-> TextContext]
    /\ pending = IF sources[RootName] = <<>> THEN <<>> ELSE <<1>>
    /\ frames = <<>> /\ seen = TextContext

----------------------------------------------------------------------------
(* Running what was accepted                                                *)

\* text_root_names: the templates that may be rendered directly.
TextRoots ==
    {k \in DOMAIN variants : variants[k].start = TextContext
                               /\ variants[k].output.kind = "TEXT"}

Run ==
    /\ phase = "accepted"
    /\ \E k \in TextRoots : frames' = << [v |-> k, pc |-> 1] >>
    /\ phase' = "running"
    /\ UNCHANGED <<sources, why, analysis, seen>>

Top == frames[Len(frames)]
Source == sources[variants[Top.v].name]
Instr == Source[Top.pc]
Emits == variants[Top.v].code[Top.pc].out
Active == phase = "running" /\ Top.pc \in DOMAIN Source
GoTo(pc) == frames' = [frames EXCEPT ![Len(frames)].pc = pc]

\* An action escaped for a comment writes nothing.
AfterOutput ==
    CASE Instr.op = "WRITE_TEXT" -> Consume(seen, Emits).ctx
      [] Writes(Instr) /\ Emits[1] # "COMMENT" -> Act(seen)
      [] OTHER -> seen

\* Any path through the program can be taken.
Execute ==
    /\ Active /\ Instr.op # "CALL_TEMPLATE"
    /\ \E k \in DOMAIN Successors(Top.pc, Instr) : GoTo(Successors(Top.pc, Instr)[k])
    /\ seen' = AfterOutput
    /\ UNCHANGED <<sources, phase, why, analysis>>

CallTemplate ==
    /\ Active /\ Instr.op = "CALL_TEMPLATE"
    /\ IF Calls(Instr) /\ Len(frames) < MaxFrames
       THEN /\ frames' = Append([frames EXCEPT ![Len(frames)].pc = @ + 1],
                                [v |-> variants[Top.v].code[Top.pc].callee, pc |-> 1])
            /\ UNCHANGED phase
       ELSE phase' = "stopped" /\ UNCHANGED frames     \* undefined, or too deep
    /\ UNCHANGED <<sources, why, analysis, seen>>

Return ==
    /\ phase = "running" /\ Top.pc \notin DOMAIN Source
    /\ frames' = SubSeq(frames, 1, Len(frames) - 1)
    /\ phase' = IF Len(frames) = 1 THEN "ended" ELSE "running"
    /\ UNCHANGED <<sources, why, analysis, seen>>

Analyze == Visit \/ RewriteFails \/ NextVariant \/ NextRound \/ Diverge \/ Conclude \/ AssertionFails
Next == Analyze \/ Run \/ Execute \/ CallTemplate \/ Return

Spec == Init /\ [][Next]_vars

\* Construction runs to its end in the thread that started it: WF_vars(Analyze),
\* written out since Analyze is enabled as long as the phase is "analyzing".
FairSpec == Spec /\ ([]<>(phase # "analyzing") \/ []<><<TRUE>>_vars)

----------------------------------------------------------------------------
(* Properties                                                               *)

\* m stands for c, as one of the contexts joined into it.
Covers(m, c) ==
    \E b \in {c, Nudge(c)} :
        /\ \A f \in DOMAIN m \ {"url_part", "js_context"} : m[f] = b[f]
        /\ m.url_part \in {b.url_part, "UNKNOWN"}
        /\ m.js_context \in {b.js_context, "UNKNOWN"}

\* The context at pc was passed on to every successor, through the output that
\* the variant called there has now.
PassedOn(vs, code, at, pc) ==
    \A k \in DOMAIN Successors(pc, code[pc]) :
        LET next == Successors(pc, code[pc])[k] IN
        /\ next \in DOMAIN at
        /\ Covers(at[next], Transfer(vs, code[pc], at[pc]))

\* Whatever the order of the visits, only positions of the worklist still have
\* something to pass on (analyzer.py _propagate_contexts: a position returns to
\* the worklist just if its context changed, and joins forget nothing).
WorklistClosed ==
    phase = "analyzing" =>
        /\ Covers(incoming[1], Current.start)
        /\ \A pc \in DOMAIN incoming :
              pc \in DOMAIN Code \ Range(pending) => PassedOn(variants, Code, incoming, pc)

Contexts == {variants[k].start : k \in DOMAIN variants}
              \cup {variants[k].output : k \in DOMAIN variants}
              \cup {incoming[pc] : pc \in DOMAIN incoming} \cup {seen}

\* A delimiter belongs to a value, an attribute's kind and its kept value to the
\* attribute, a closing tag to a tag, and no text ends inside a character class.
WellFormed(c) ==
    /\ c.delimiter # Nothing =>
          c.kind \in {"ATTR", "SRCSET"} \cup JSStates \cup CSSStates
    /\ c.attribute # "PLAIN" => c.kind \notin {"TEXT", "COMMENT", "RCDATA", "TAG"}
    /\ c.attribute_value # <<>> => c.kind = "ATTR"
    /\ c.closing_tag => c.kind \notin {"TEXT", "COMMENT", "RCDATA"}
    /\ ~OpenCharset(c) /\ c.kind # "ERROR"

\* Every value is escaped for exactly the place of the output it lands in, on
\* every path of every call, or for a comment that was taken out (html.md:
\* "apply an escaper chosen for each HTML, attribute, URL, CSS, JavaScript,
\* RCDATA, or srcset context"; analyzer.py _rewrite_program).
EscapersFit ==
    Active /\ Writes(Instr) => Emits[1] = "COMMENT" \/ Emits = EscapeKinds(seen)

\* Reading the output never fails where the analysis of its parts did not, and a
\* render of an accepted template ends in HTML text: nothing it opened is left
\* open (analyzer.py "template ends in a non-text context").  No context the
\* analysis computes has a delimiter, an attribute's kind, a kept value or the
\* mark of a closing tag outside the place they belong to (context.py
\* _finish_attribute, _element_content_kind).  Nothing is said of the other
\* fields: element, attribute_name, url_part, js_brace_depth, js_context,
\* meta_refresh and the two flags of comments and classes may be left over.
OutputReadable ==
    /\ seen.kind # "ERROR" /\ \A c \in Contexts : WellFormed(c)
    /\ phase = "ended" => seen.kind = "TEXT"

\* The analysis ends, for recursive templates and loops as well: its worklist
\* runs empty in every round (analyzer.py _propagate_contexts).
AnalysisEnds == <>(phase # "analyzing")
============================================================================
