------------------------------ MODULE GoRegexp ------------------------------
(***************************************************************************)
(* _compat/goregexp: the Go regular expressions of the function libraries. *)
(*                                                                         *)
(* A pattern in Go's syntax is rewritten to the flag-scoped syntax that    *)
(* _parser.py reads (go.py), parsed, compiled to a program of an ordered   *)
(* Thompson automaton, and the program is stepped over the text one        *)
(* character at a time with a list of threads in order of preference       *)
(* (_engine.py).  The variables hold one search for every match of a text. *)
(*                                                                         *)
(* A pattern is a sequence of tokens.  Escapes, octal and hexadecimal      *)
(* codes, quoted literals, POSIX classes and Unicode properties all arrive *)
(* as the character or the set of characters they stand for.               *)
(***************************************************************************)
EXTENDS Integers, Sequences, FiniteSets, TLC, SequencesExt

CONSTANTS Alphabet,           \* the characters
          Lower(_), Upper(_), \* a letter's other cases
          WordCharacters,     \* the characters \w stands for
          Searches,           \* the calls: [pattern, text, count]
          MaxPatternLength, MaxRepeatCount, MaxProgramInstructions, MaxCaptures

ASSUME GoRegexpAssumption ==
  /\ WordCharacters \subseteq Alphabet
  /\ \A c \in Alphabet : Lower(c) \in Alphabet /\ Upper(c) \in Alphabet
  /\ {MaxPatternLength, MaxRepeatCount, MaxProgramInstructions, MaxCaptures} \subseteq Nat \ {0}

Newline   == "nl"
Unbounded == -1                     \* MAXREPEAT, and an empty upper bound
Unset     == -1                     \* None, in a list of captures

Failed(result) == "error" \in DOMAIN result
Error(message) == [error |-> message]

(***************************************************************************)
(* Tokens.  "(" opens a group: "capture", "plain" or "flags"; "flags" sets *)
(* them for the rest of the enclosing group.                               *)
(***************************************************************************)
Open(kind, on, off) == [t |-> "open", kind |-> kind, on |-> on, off |-> off]
Plain == Open("plain", {}, {})
Close == [t |-> "close"]
Bar   == [t |-> "bar"]
At(assertion) == [t |-> "at", assertion |-> assertion]
Class(negated, members) == [t |-> "class", negated |-> negated, members |-> members]

(***************************************************************************)
(* Translation: _translate_flag_scopes.                                    *)
(***************************************************************************)
UpdatedFlags(active, token) == (active \union token.on) \ token.off

PythonFlagScope(token, body) ==
  LET on  == token.on \ {"U"}
      off == token.off \ {"U"}
  IN  <<IF on = {} /\ off = {} THEN Plain ELSE Open("flags", on, off)>> \o body \o <<Close>>

DepthAt(body, i) ==
  Cardinality({j \in 1..i : body[j].t = "open"}) - Cardinality({j \in 1..i : body[j].t = "close"})

RECURSIVE SplitAlternatives(_, _, _)
SplitAlternatives(body, from, i) ==
  IF i > Len(body) THEN <<SubSeq(body, from, Len(body))>>
  ELSE IF body[i].t = "bar" /\ DepthAt(body, i) = 0
       THEN <<SubSeq(body, from, i - 1)>> \o SplitAlternatives(body, i + 1, i + 1)
       ELSE SplitAlternatives(body, from, i + 1)

SplitTopLevelAlternatives(body) == SplitAlternatives(body, 1, 1)

RECURSIVE Joined(_)
Joined(parts) == IF Len(parts) = 1 THEN parts[1] ELSE parts[1] \o <<Bar>> \o Joined(Tail(parts))

PythonFlagRemainder(token, body) ==
  IF token.on = {"U"} /\ token.off = {} THEN body
  ELSE LET alternatives == SplitTopLevelAlternatives(body)
       IN  Joined([i \in DOMAIN alternatives |-> PythonFlagScope(token, alternatives[i])])

(* One token that is neither a group nor its end.                          *)
TranslateToken(token, active) ==
  IF token.t = "at" /\ token.assertion = "end" /\ "m" \notin active THEN At("end_string")
  ELSE IF token.t = "repeat" THEN [token EXCEPT !.lazy = ("U" \in active) /= token.lazy]
  ELSE token

RECURSIVE TranslateFlagSequence(_, _, _, _)
TranslateFlagSequence(pattern, position, active, stopAtClose) ==
  LET Then(output, next) ==         \* the rest of the sequence, after output
        LET rest == TranslateFlagSequence(pattern, next, active, stopAtClose)
        IN  IF Failed(rest) THEN rest ELSE [rest EXCEPT !.output = output \o rest.output]
      token == pattern[position]
  IN  IF position > Len(pattern)
      THEN IF stopAtClose THEN Error("missing closing parenthesis")
           ELSE [output |-> <<>>, end |-> position]
      ELSE IF token.t = "close"
      THEN [output |-> <<>>, end |-> position + (IF stopAtClose THEN 1 ELSE 0)]
      ELSE IF token.t = "open" \/ token.t = "flags"
      THEN LET updated == IF token.t = "flags" \/ token.kind = "flags"
                          THEN UpdatedFlags(active, token) ELSE active
               body == TranslateFlagSequence(pattern, position + 1, updated, token.t = "open")
           IN  IF Failed(body) THEN body
               ELSE Then(IF token.t = "flags" THEN PythonFlagRemainder(token, body.output)
                         ELSE IF token.kind = "flags" THEN PythonFlagScope(token, body.output)
                         ELSE <<token>> \o body.output \o <<Close>>, body.end)
      ELSE Then(<<TranslateToken(token, active)>>, position + 1)

TranslateFlagScopes(pattern) ==
  LET translated == TranslateFlagSequence(pattern, 1, {}, FALSE)
  IN  IF Failed(translated) THEN translated
      ELSE IF translated.end # Len(pattern) + 1 THEN Error("unexpected closing parenthesis")
      ELSE translated

ValidateRepeatCounts(pattern, maximum) ==
  \A i \in DOMAIN pattern :
    pattern[i].t = "repeat" => pattern[i].low <= maximum /\ pattern[i].high <= maximum

(***************************************************************************)
(* Parsing: _Parser.  A parse is the nodes read, the next position and the *)
(* number of groups counted so far, group zero included.                   *)
(***************************************************************************)
Node(op, fields) == [op |-> op] @@ fields

Atom(token) ==
  CASE token.t = "literal" -> Node("literal", [char |-> token.char])
    [] token.t = "any"     -> Node("any", <<>>)
    [] token.t = "at"      -> Node("at", [assertion |-> token.assertion])
    [] token.t = "class"   -> IF ~token.negated /\ token.members = {} THEN Node("failure", <<>>)
                              ELSE Node("in", [negated |-> token.negated, members |-> token.members])

Quantified(node, token) ==
  Node(IF token.lazy THEN "min_repeat" ELSE "max_repeat",
       [low |-> token.low, high |-> token.high, body |-> <<node>>])

InvalidRepeat(token) == token.high # Unbounded /\ token.high < token.low

RECURSIVE Expression(_, _, _, _), ParseSequence(_, _, _, _)
ParseSequence(tokens, position, groups, stopAtClose) ==
  LET token == tokens[position]
      group == IF token.kind = "capture" THEN groups ELSE 0
      inner == Expression(tokens, position + 1, groups + (IF token.kind = "capture" THEN 1 ELSE 0), TRUE)
      Continue(node, next, counted) ==
        LET quantifier == next <= Len(tokens) /\ tokens[next].t = "repeat"
            rest == ParseSequence(tokens, IF quantifier THEN next + 1 ELSE next, counted, stopAtClose)
        IN  IF quantifier /\ InvalidRepeat(tokens[next]) THEN Error("invalid repeat count")
            ELSE IF Failed(rest) THEN rest
            ELSE [rest EXCEPT !.nodes =
                    <<IF quantifier THEN Quantified(node, tokens[next]) ELSE node>> \o rest.nodes]
  IN  IF position > Len(tokens) \/ token.t = "bar"
      THEN [nodes |-> <<>>, position |-> position, groups |-> groups]
      ELSE IF token.t = "close"
      THEN IF stopAtClose THEN [nodes |-> <<>>, position |-> position, groups |-> groups]
           ELSE Error("unexpected closing parenthesis")
      ELSE IF token.t = "repeat" THEN Error("missing argument to repetition operator")
      ELSE IF token.t = "open"
      THEN IF Failed(inner) THEN inner
           ELSE IF inner.position > Len(tokens) THEN Error("missing closing parenthesis")
           ELSE Continue(Node("subpattern", [group |-> group, added |-> token.on,
                                             removed |-> token.off, body |-> inner.nodes]),
                         inner.position + 1, inner.groups)
      ELSE Continue(Atom(token), position + 1, groups)

RECURSIVE Alternatives(_, _, _, _)
Alternatives(tokens, position, groups, stopAtClose) ==
  LET first == ParseSequence(tokens, position, groups, stopAtClose)
      rest  == Alternatives(tokens, first.position + 1, first.groups, stopAtClose)
  IN  IF Failed(first) THEN first
      ELSE IF first.position > Len(tokens) \/ tokens[first.position].t # "bar"
      THEN [first EXCEPT !.nodes = <<first.nodes>>]
      ELSE IF Failed(rest) THEN rest
      ELSE [rest EXCEPT !.nodes = <<first.nodes>> \o rest.nodes]

Expression(tokens, position, groups, stopAtClose) ==
  LET Branched(parsed) ==
        IF Failed(parsed) THEN parsed
        ELSE [parsed EXCEPT !.nodes = IF Len(parsed.nodes) = 1 THEN parsed.nodes[1]
                                      ELSE <<Node("branch", [branches |-> parsed.nodes])>>]
  IN  Branched(Alternatives(tokens, position, groups, stopAtClose))

Parse(tokens) == Expression(tokens, 1, 1, FALSE)

Consuming == {"literal", "any", "in"}

RECURSIVE Nullable(_)
Nullable(nodes) ==
  \A i \in DOMAIN nodes :
    LET node == nodes[i]
    IN  \/ node.op = "at"
        \/ node.op = "subpattern" /\ Nullable(node.body)
        \/ node.op = "branch" /\ \E b \in DOMAIN node.branches : Nullable(node.branches[b])
        \/ node.op \in {"max_repeat", "min_repeat"} /\ (node.low = 0 \/ Nullable(node.body))

(***************************************************************************)
(* Compilation: _Compiler.  A fragment is the program so far, the first    *)
(* instruction of a piece of it, and the exits still to be patched.        *)
(***************************************************************************)
Dangling == 0
Instruction(operation, argument) ==
  [operation |-> operation, argument |-> argument, out |-> Dangling, out1 |-> Dangling]

Emit(program, operation, argument) == Append(program, Instruction(operation, argument))

Patch(program, outs, target) ==
  [i \in DOMAIN program |->
     [program[i] EXCEPT !.out  = IF <<i, 0>> \in outs THEN target ELSE @,
                        !.out1 = IF <<i, 1>> \in outs THEN target ELSE @]]

Fragment(program, start, outs) == [start |-> start, outs |-> outs, program |-> program]

Single(program, operation, argument) ==
  LET emitted == Emit(program, operation, argument)
  IN  Fragment(emitted, Len(emitted), {<<Len(emitted), 0>>})

(* A split whose preferred side is the body when greedy, the exit if lazy. *)
SplitTo(program, body, greedy) ==
  LET emitted == Emit(program, "split", <<>>)
      here    == Len(emitted)
  IN  Fragment(IF greedy THEN [emitted EXCEPT ![here].out = body] ELSE [emitted EXCEPT ![here].out1 = body],
               here, {<<here, IF greedy THEN 1 ELSE 0>>})

RECURSIVE CompileSequence(_, _, _), CompileOperation(_, _, _), CompileAll(_, _, _), Copies(_, _, _, _)

CompileSequence(program, nodes, flags) ==
  IF nodes = <<>> THEN Single(program, "jump", <<>>)
  ELSE LET first == CompileOperation(program, nodes[1], flags)
           rest  == CompileSequence(first.program, Tail(nodes), flags)
       IN  IF Len(nodes) = 1 THEN first
           ELSE Fragment(Patch(rest.program, first.outs, rest.start), first.start, rest.outs)

CompileAll(program, branches, flags) ==      \* the fragments of a branch
  IF branches = <<>> THEN <<>>
  ELSE LET first == CompileSequence(program, branches[1], flags)
       IN  <<first>> \o CompileAll(first.program, Tail(branches), flags)

RECURSIVE Chain(_, _, _)
Chain(program, fragments, result) ==         \* the splits that try them in order
  IF fragments = <<>> THEN result
  ELSE LET last    == fragments[Len(fragments)]
           emitted == Emit(program, "split", <<>>)
           split   == Len(emitted)
           chained == [emitted EXCEPT ![split].out = last.start, ![split].out1 = result.start]
       IN  Chain(chained, Front(fragments), Fragment(chained, split, last.outs \union result.outs))

CompileBranch(program, branches, flags) ==
  LET fragments == CompileAll(program, branches, flags)
      last == fragments[Len(fragments)]
  IN  Chain(last.program, Front(fragments), last)

Copies(result, count, body, flags) ==        \* count mandatory copies after result
  LET before == Copies(result, count - 1, body, flags)
      copy   == CompileSequence(before.program, body, flags)
  IN  IF count = 0 THEN result
      ELSE Fragment(Patch(copy.program, before.outs, copy.start), before.start, copy.outs)

RECURSIVE Optionals(_, _, _, _, _)
Optionals(result, count, body, flags, greedy) ==
  LET before == Optionals(result, count - 1, body, flags, greedy)
      copy   == CompileSequence(before.program, body, flags)
      split  == SplitTo(copy.program, copy.start, greedy)
  IN  IF count = 0 THEN result
      ELSE Fragment(Patch(split.program, before.outs, split.start), before.start, copy.outs \union split.outs)

(* A mutant: x* with the loop of an x that always takes a character.       *)
NullableLoop(program, body, flags, greedy) ==
  LET copy == CompileSequence(program, body, flags)
      loop == SplitTo(copy.program, copy.start, greedy)
  IN  Fragment(Patch(loop.program, copy.outs, loop.start), loop.start, loop.outs)

(* x* with an x that may match nothing: one optional pass, then the loop.  *)
NullableStar(program, body, flags, greedy) ==
  LET copy     == CompileSequence(program, body, flags)
      loop     == SplitTo(copy.program, copy.start, greedy)
      optional == SplitTo(Patch(loop.program, copy.outs, loop.start), copy.start, greedy)
  IN  Fragment(optional.program, optional.start, loop.outs \union optional.outs)

Repeat(program, node, flags) ==
  LET greedy == node.op = "max_repeat"
      required == Copies(Single(program, "jump", <<>>), node.low, node.body, flags)
      copy == CompileSequence(required.program, node.body, flags)
      loop == SplitTo(copy.program, copy.start, greedy)
  IN  IF node.high = Unbounded /\ node.low = 0 /\ Nullable(node.body)
      THEN NullableStar(program, node.body, flags, greedy)
      ELSE IF node.high = Unbounded
      THEN Fragment(Patch(Patch(loop.program, copy.outs, loop.start), required.outs, loop.start),
                    required.start, loop.outs)
      ELSE Optionals(required, node.high - node.low, node.body, flags, greedy)

CompileOperation(program, node, flags) ==
  CASE node.op \in Consuming -> Single(program, "rune", [node |-> node, flags |-> flags])
    [] node.op = "at"        -> Single(program, "assert", [assertion |-> node.assertion, flags |-> flags])
    [] node.op = "failure"   -> Fragment(Emit(program, "fail", <<>>), Len(program) + 1, {})
    [] node.op = "branch"    -> CompileBranch(program, node.branches, flags)
    [] node.op \in {"max_repeat", "min_repeat"} -> Repeat(program, node, flags)
    [] node.op = "subpattern" ->
         LET body  == CompileSequence(program, node.body, (flags \union node.added) \ node.removed)
             saves == Emit(Emit(body.program, "save", 2 * node.group), "save", 2 * node.group + 1)
             end   == Len(saves)
         IN  IF node.group = 0 THEN body
             ELSE Fragment(Patch([saves EXCEPT ![end - 1].out = body.start], body.outs, end),
                           end - 1, {<<end, 0>>})

(* LinearPattern.__init__.                                                 *)
Whole(body, groups) ==
  LET whole == Emit(Emit(Emit(body.program, "save", 0), "save", 1), "match", <<>>)
      match == Len(whole)
  IN  [program |-> Patch([whole EXCEPT ![match - 2].out = body.start, ![match - 1].out = match],
                         body.outs, match - 1),
       start |-> match - 2, groups |-> groups]
LinearPattern(parsed) == Whole(CompileSequence(<<>>, parsed.nodes, {}), parsed.groups)

IsAtomicLinear(parsed) ==
  /\ parsed.groups = 1 /\ Len(parsed.nodes) = 1
  /\ LET node == parsed.nodes[1]
     IN  \/ node.op \in Consuming
         \/ node.op = "max_repeat" /\ Len(node.body) = 1 /\ node.body[1].op \in Consuming

(* Pattern.__post_init__, with the limits a pattern is compiled under.     *)
Limited(linear) ==
  IF Len(linear.program) > MaxProgramInstructions THEN Error("pattern exceeds max_program_instructions")
  ELSE IF linear.groups - 1 > MaxCaptures THEN Error("pattern exceeds max_captures")
  ELSE linear
CompileParsed(parsed) ==
  IF Failed(parsed) THEN parsed
  ELSE IF IsAtomicLinear(parsed) THEN [atomic |-> parsed.nodes[1]]
  ELSE Limited(LinearPattern(parsed))
CompilePattern(pattern) ==
  LET Translated(result) == IF Failed(result) THEN result ELSE CompileParsed(Parse(result.output))
  IN  IF Len(pattern) > MaxPatternLength THEN Error("pattern exceeds max_pattern_length")
      ELSE IF ~ValidateRepeatCounts(pattern, MaxRepeatCount) THEN Error("pattern exceeds max_repeat_count")
      ELSE Translated(TranslateFlagScopes(pattern))

(***************************************************************************)
(* Matching one character or one position.                                 *)
(***************************************************************************)
CaseVariants(char, flags) ==
  IF "i" \in flags THEN {char, Lower(char), Upper(char)} ELSE {char}

MatchesRune(argument, char) ==
  LET node == argument.node
      variants == CaseVariants(char, argument.flags)
  IN  IF node.op = "any" THEN "s" \in argument.flags \/ char # Newline
      ELSE IF node.op = "literal" THEN node.char \in variants
      ELSE (node.members \intersect variants # {}) /= node.negated

IsWordAt(text, i) == i \in DOMAIN text /\ text[i] \in WordCharacters

(* A position counts the characters before it.                             *)
MatchesAssertion(argument, text, position) ==
  LET boundary  == IsWordAt(text, position) /= IsWordAt(text, position + 1)
      multiline == "m" \in argument.flags
  IN  CASE argument.assertion = "beginning_string" -> position = 0
        [] argument.assertion = "beginning" ->
             position = 0 \/ (multiline /\ text[position] = Newline)
        [] argument.assertion = "end_string" -> position = Len(text)
        [] argument.assertion = "end" ->
             position = Len(text) \/ (multiline /\ text[position + 1] = Newline)
        [] argument.assertion = "boundary" -> boundary
        [] argument.assertion = "non_boundary" -> ~boundary

(***************************************************************************)
(* The threads: _add_thread explores the empty transitions with a stack,   *)
(* each instruction at most once, and appends the consuming ones in order. *)
(***************************************************************************)
Thread(instruction, captures) == [instruction |-> instruction, captures |-> captures]

(* The threads a thread goes on as without taking a character, the last    *)
(* one first in order.                                                     *)
Transitions(here, thread, text, position) ==
  CASE here.operation = "jump"  -> <<Thread(here.out, thread.captures)>>
    [] here.operation = "split" -> <<Thread(here.out1, thread.captures), Thread(here.out, thread.captures)>>
    [] here.operation = "save"  ->
         <<Thread(here.out, [thread.captures EXCEPT ![here.argument + 1] = position])>>
    [] here.operation = "assert" ->
         IF MatchesAssertion(here.argument, text, position) THEN <<Thread(here.out, thread.captures)>> ELSE <<>>
    [] OTHER -> <<>>

Visit(found, here, thread) ==
  [visited |-> found.visited \union {thread.instruction},
   threads |-> IF here.operation \in {"rune", "match"} THEN Append(found.threads, thread) ELSE found.threads]

RECURSIVE Explore(_, _, _, _, _)
Explore(program, found, pending, text, position) ==
  LET top  == pending[Len(pending)]
      here == program[top.instruction]
  IN  IF pending = <<>> THEN found
      ELSE IF top.instruction \in found.visited
      THEN Explore(program, found, Front(pending), text, position)
      ELSE Explore(program, Visit(found, here, top), Front(pending) \o Transitions(here, top, text, position),
                   text, position)

AddThread(program, found, thread, text, position) ==
  Explore(program, found, <<thread>>, text, position)

RECURSIVE Advance(_, _, _, _, _)
Advance(program, threads, following, text, cursor) ==
  IF threads = <<>> THEN following.threads
  ELSE LET thread == threads[1]
           here   == program[thread.instruction]
       IN  Advance(program, Tail(threads),
                   IF here.operation = "rune" /\ MatchesRune(here.argument, text[cursor + 1])
                   THEN AddThread(program, following, Thread(here.out, thread.captures), text, cursor + 1)
                   ELSE following,
                   text, cursor)

NoThreads == [threads |-> <<>>, visited |-> {}]

(***************************************************************************)
(* The stdlib path of a pattern that is one consuming atom, once or        *)
(* repeated greedily: the longest run it may take at the first position.   *)
(***************************************************************************)
Run(node, text, start) ==
  LET atom == IF node.op = "max_repeat" THEN node.body[1] ELSE node
      low  == IF node.op = "max_repeat" THEN node.low ELSE 1
      high == IF node.op = "max_repeat" THEN node.high ELSE 1
      Fits(n) == \A i \in start + 1..start + n : MatchesRune([node |-> atom, flags |-> {}], text[i])
  IN  {n \in low..(Len(text) - start) : Fits(n) /\ (high = Unbounded \/ n <= high)}

AtomicSearch(node, text, position) ==
  LET starts == {i \in position..Len(text) : Run(node, text, i) # {}}
      start  == CHOOSE i \in starts : \A j \in starts : i <= j
      runs   == Run(node, text, start)
  IN  IF starts = {} THEN <<>>
      ELSE <<start, start + (CHOOSE n \in runs : \A m \in runs : m <= n)>>

(***************************************************************************)
(* What the callers make of the matches.  A match is its captures.         *)
(***************************************************************************)
Start(match)   == match[1]
End(match)     == match[2]
Sub(text, from, to) == SubSeq(text, from + 1, to)

(* LinearMatch.group, "" for a group that is unset or does not exist.      *)
Group(text, match, n) ==
  IF 2 * n + 2 > Len(match) THEN <<>>
  ELSE IF match[2 * n + 1] = Unset \/ match[2 * n + 2] = Unset THEN <<>>
  ELSE Sub(text, match[2 * n + 1], match[2 * n + 2])

MatchGroups(text, match) == [n \in 1..(Len(match) \div 2) |-> Group(text, match, n - 1)]

(* _go_matches: an empty match that touches the previous one is no match.  *)
GoMatches(found, count) ==
  LET Touches(i) == i > 1 /\ Start(found[i]) = End(found[i]) /\ Start(found[i]) = End(found[i - 1])
      kept == SelectSeq([i \in DOMAIN found |-> i], LAMBDA i : ~Touches(i))
      taken == IF count >= 0 /\ Len(kept) > count THEN SubSeq(kept, 1, count) ELSE kept
  IN  [k \in DOMAIN taken |-> found[taken[k]]]

(* _expand_replacement: the characters and the groups of a template.       *)
ExpandReplacement(text, match, template) ==
  FlattenSeq([i \in DOMAIN template |->
    IF "group" \in DOMAIN template[i] THEN Group(text, match, template[i].group)
    ELSE <<template[i].char>>])

ReplaceMatches(text, found, template) ==
  LET matches == GoMatches(found, -1)
      From(i) == IF i = 1 THEN 0 ELSE End(matches[i - 1])
  IN  FlattenSeq([i \in DOMAIN matches |->
                    Sub(text, From(i), Start(matches[i])) \o ExpandReplacement(text, matches[i], template)])
      \o Sub(text, From(Len(matches) + 1), Len(text))

(* The loop of _split: the pieces, where the next begins, the last start.  *)
SplitStep(text, count, state, match) ==
  IF count > 0 /\ Len(state.pieces) >= count - 1 THEN state
  ELSE [pieces |-> IF End(match) = 0 THEN state.pieces
                   ELSE Append(state.pieces, Sub(text, state.beginning, Start(match))),
        beginning |-> End(match), end |-> Start(match)]

Split(text, found, count) ==
  LET split == FoldLeft(LAMBDA state, match : SplitStep(text, count, state, match),
                        [pieces |-> <<>>, beginning |-> 0, end |-> 0], GoMatches(found, count))
  IN  IF count = 0 THEN <<>>
      ELSE IF count = 1 THEN <<text>>
      ELSE IF split.end = Len(text) THEN split.pieces
      ELSE Append(split.pieces, Sub(text, split.beginning, Len(text)))

(***************************************************************************)
(* One call: finditer searches again and again, each search steps its      *)
(* cursor to the end of the text or until no thread is left.               *)
(***************************************************************************)
VARIABLES call, phase, compiled, cursor, current, candidate, matches

regexpVars == <<call, phase, compiled, cursor, current, candidate, matches>>

RegexpInit ==
  /\ call \in Searches
  /\ phase = "compile"
  /\ compiled = <<>> /\ cursor = 0 /\ current = <<>> /\ candidate = <<>> /\ matches = <<>>

Compile ==
  /\ phase = "compile"
  /\ \E pattern \in {CompilePattern(call.pattern)} :
       /\ compiled' = pattern
       /\ phase' = IF Failed(pattern) THEN "rejected" ELSE "search"
  /\ UNCHANGED <<call, cursor, current, candidate, matches>>

(* finditer, once a search has returned.                                   *)
NextPosition(match) == IF End(match) > Start(match) THEN End(match) ELSE Start(match) + 1

Found(match) ==
  /\ current' = <<>> /\ candidate' = <<>>
  /\ matches' = IF match = <<>> THEN matches ELSE Append(matches, match)
  /\ IF match = <<>> \/ NextPosition(match) > Len(call.text)
     THEN phase' = "done" /\ cursor' = 0
     ELSE phase' = "search" /\ cursor' = NextPosition(match)

SearchAtomic ==
  /\ phase = "search" /\ "atomic" \in DOMAIN compiled
  /\ Found(AtomicSearch(compiled.atomic, call.text, cursor))
  /\ UNCHANGED <<call, compiled>>

(* The threads at the cursor: a new one, unless there is a match already.  *)
Seeded ==
  IF candidate = <<>>
  THEN AddThread(compiled.program, [NoThreads EXCEPT !.threads = current],
                 Thread(compiled.start, [i \in 1..2 * compiled.groups |-> Unset]), call.text, cursor).threads
  ELSE current

(* A thread that matches is preferred to those behind it, which are cut.   *)
FirstMatch(threads) ==
  LET matching == {i \in DOMAIN threads : compiled.program[threads[i].instruction].operation = "match"}
  IN  IF matching = {} THEN 0 ELSE CHOOSE i \in matching : \A j \in matching : i <= j

Kept(threads) == IF FirstMatch(threads) = 0 THEN threads ELSE SubSeq(threads, 1, FirstMatch(threads) - 1)

SearchStep ==
  /\ phase = "search" /\ "program" \in DOMAIN compiled
  /\ LET threads == Seeded
         best == IF FirstMatch(threads) = 0 THEN candidate ELSE threads[FirstMatch(threads)].captures
         kept == Kept(threads)
         following == Advance(compiled.program, kept, NoThreads, call.text, cursor)
     IN  IF (best # <<>> /\ kept = <<>>) \/ cursor = Len(call.text) THEN Found(best)
         ELSE IF best # <<>> /\ following = <<>> THEN Found(best)
         ELSE /\ current' = following /\ candidate' = best /\ cursor' = cursor + 1
              /\ UNCHANGED <<phase, matches>>
  /\ UNCHANGED <<call, compiled>>

RegexpNext == Compile \/ SearchAtomic \/ SearchStep
=============================================================================
