--------------------------- MODULE RegexpMeaning ---------------------------
(***************************************************************************)
(* What a regular expression means, stated without an automaton: the       *)
(* matches at a position in order of preference, as a backtracking reader  *)
(* finds them.  An expression is a tree; Written is its pattern.           *)
(*                                                                         *)
(* Flags are read as Go reads them: a flag group sets them until the       *)
(* enclosing group ends, across alternatives.  A repetition that may go on *)
(* for ever prefers, or defers if lazy, another pass.  Its last mandatory  *)
(* pass, or the first of x*, ends it if it matches nothing (Go compiles x+ *)
(* as one x with a way back, and x* as (x+)?); the passes after consume.   *)
(***************************************************************************)
EXTENDS GoRegexp

Token(token)         == [k |-> "token", token |-> token]
Both(first, second)  == [k |-> "both", first |-> first, second |-> second]
Either(first, second) == [k |-> "either", first |-> first, second |-> second]
Repeated(body, token) == [k |-> "repeated", body |-> body, token |-> token]
Grouped(open, body)  == [k |-> "grouped", open |-> open, body |-> body]

RECURSIVE Written(_)
Written(tree) ==
  CASE tree.k = "token"    -> <<tree.token>>
    [] tree.k = "both"     -> Written(tree.first) \o Written(tree.second)
    [] tree.k = "either"   -> Written(tree.first) \o <<Bar>> \o Written(tree.second)
    [] tree.k = "repeated" -> Written(tree.body) \o <<tree.token>>
    [] tree.k = "grouped"  -> <<tree.open>> \o Written(tree.body) \o <<Close>>

(* The flags in force after a tree, and the number of its capture groups.  *)
RECURSIVE FlagsAfter(_, _), CaptureCount(_)
FlagsAfter(tree, flags) ==
  CASE tree.k = "token" -> IF tree.token.t = "flags" THEN UpdatedFlags(flags, tree.token) ELSE flags
    [] tree.k \in {"both", "either"} -> FlagsAfter(tree.second, FlagsAfter(tree.first, flags))
    [] OTHER -> flags

CaptureCount(tree) ==
  CASE tree.k = "token" -> 0
    [] tree.k \in {"both", "either"} -> CaptureCount(tree.first) + CaptureCount(tree.second)
    [] tree.k = "repeated" -> CaptureCount(tree.body)
    [] tree.k = "grouped" -> CaptureCount(tree.body) + (IF tree.open.kind = "capture" THEN 1 ELSE 0)

Newlines(text) == {i \in DOMAIN text : text[i] = Newline}
WordAt(text) == {i \in DOMAIN text : text[i] \in WordCharacters}

(* Whether a token accepts a character, or a position.                     *)
Accepts(token, flags, char) ==
  LET folded == IF "i" \in flags THEN {c \in Alphabet : Lower(c) = Lower(char)} ELSE {char}
  IN  CASE token.t = "literal" -> token.char \in folded
        [] token.t = "any"     -> char # Newline \/ "s" \in flags
        [] token.t = "class"   -> token.negated <=> token.members \intersect folded = {}

Holds(token, flags, text, p) ==
  CASE token.assertion = "beginning" -> p = 0 \/ ("m" \in flags /\ p \in Newlines(text))
    [] token.assertion = "end" -> p = Len(text) \/ ("m" \in flags /\ p + 1 \in Newlines(text))
    [] token.assertion = "beginning_string" -> p = 0
    [] token.assertion = "end_string" -> p = Len(text)
    [] token.assertion = "boundary" -> (p \in WordAt(text)) # (p + 1 \in WordAt(text))
    [] token.assertion = "non_boundary" -> (p \in WordAt(text)) = (p + 1 \in WordAt(text))

(* A way to match ends at p with the captures c.                           *)
Way(p, c) == [p |-> p, c |-> c]

TokenWays(token, flags, text, way) ==
  CASE token.t = "flags" -> <<way>>
    [] token.t = "at" -> IF Holds(token, flags, text, way.p) THEN <<way>> ELSE <<>>
    [] OTHER -> IF way.p < Len(text) /\ Accepts(token, flags, text[way.p + 1])
                THEN <<Way(way.p + 1, way.c)>> ELSE <<>>

RECURSIVE Ways(_, _, _, _, _), Passes(_, _, _, _, _, _, _, _)
Ways(tree, group, flags, text, way) ==
  CASE tree.k = "token" -> TokenWays(tree.token, flags, text, way)
    [] tree.k = "both" ->
         LET firsts == Ways(tree.first, group, flags, text, way)
         IN  FlattenSeq([i \in DOMAIN firsts |->
               Ways(tree.second, group + CaptureCount(tree.first), FlagsAfter(tree.first, flags),
                    text, firsts[i])])
    [] tree.k = "either" ->
         Ways(tree.first, group, flags, text, way)
           \o Ways(tree.second, group + CaptureCount(tree.first), FlagsAfter(tree.first, flags), text, way)
    [] tree.k = "grouped" ->
         LET captures == tree.open.kind = "capture"
             inside == IF tree.open.kind = "flags" THEN UpdatedFlags(flags, tree.open) ELSE flags
             ways == Ways(tree.body, IF captures THEN group + 1 ELSE group, inside, text, way)
         IN  [i \in DOMAIN ways |->
               IF captures THEN [ways[i] EXCEPT !.c[2 * group + 1] = way.p, !.c[2 * group + 2] = ways[i].p]
               ELSE ways[i]]
    [] tree.k = "repeated" ->
         LET token == tree.token
             ungreedy == ("U" \in flags) # token.lazy
             starred == token.low = 0 /\ token.high = Unbounded
         IN  Passes(tree, group, flags, text, way, [token EXCEPT !.lazy = ungreedy], token.low, starred)

(* The ways to make low more passes, and then as many as are allowed.      *)
Passes(tree, group, flags, text, way, token, low, starred) ==
  LET bodies == Ways(tree.body, group, flags, text, way)
      Then(next) ==
        IF low <= 1 /\ token.high = Unbounded /\ next.p = way.p
        THEN IF low = 1 \/ starred THEN <<next>> ELSE <<>>
        ELSE Passes(tree, group, flags, text, next,
                    [token EXCEPT !.high = IF @ = Unbounded THEN @ ELSE @ - 1],
                    IF low = 0 THEN 0 ELSE low - 1, FALSE)
      more == FlattenSeq([i \in DOMAIN bodies |-> Then(bodies[i])])
  IN  IF low > 0 THEN more
      ELSE IF token.high = 0 THEN <<way>>
      ELSE IF token.lazy THEN <<way>> \o more ELSE more \o <<way>>

(* The first match at or after a position: leftmost, then preferred.       *)
Preferred(tree, text, from) ==
  LET blank == [i \in 1..2 * (CaptureCount(tree) + 1) |-> Unset]
      WaysAt(p) == Ways(tree, 1, {}, text, Way(p, blank))
      starts == {p \in from..Len(text) : WaysAt(p) # <<>>}
      start == CHOOSE p \in starts : \A q \in starts : p <= q
      first == WaysAt(start)[1]
  IN  IF starts = {} THEN <<>> ELSE [first.c EXCEPT ![1] = start, ![2] = first.p]

RECURSIVE AllPreferred(_, _, _)
AllPreferred(tree, text, from) ==
  LET match == IF from > Len(text) THEN <<>> ELSE Preferred(tree, text, from)
  IN  IF match = <<>> THEN <<>>
      ELSE <<match>> \o AllPreferred(tree, text, IF match[2] > match[1] THEN match[2] ELSE match[1] + 1)

(***************************************************************************)
(* Where the automaton is not held to this order: in an endless repetition *)
(* of what may match nothing, if the body defers its matches with a lazy   *)
(* repetition (threads share the places inside it, so that there Go's own  *)
(* order is not this one), or if passes are mandatory and the body has an  *)
(* alternative that may match nothing before its last (the automaton makes *)
(* a copy of the body for each mandatory pass and goes on with another, so *)
(* (|a)+ finds an a where Go finds nothing).                               *)
(***************************************************************************)
RECURSIVE MayBeEmpty(_), Defers(_, _), EmptyFirst(_), OrderKept(_, _)
MayBeEmpty(tree) ==
  CASE tree.k = "token"    -> tree.token.t \in {"at", "flags"}
    [] tree.k = "both"     -> MayBeEmpty(tree.first) /\ MayBeEmpty(tree.second)
    [] tree.k = "either"   -> MayBeEmpty(tree.first) \/ MayBeEmpty(tree.second)
    [] tree.k = "repeated" -> tree.token.low = 0 \/ MayBeEmpty(tree.body)
    [] tree.k = "grouped"  -> MayBeEmpty(tree.body)

FlagsInside(tree, flags) == IF tree.open.kind = "flags" THEN UpdatedFlags(flags, tree.open) ELSE flags

Defers(tree, flags) ==
  CASE tree.k = "token"    -> FALSE
    [] tree.k \in {"both", "either"} ->
         Defers(tree.first, flags) \/ Defers(tree.second, FlagsAfter(tree.first, flags))
    [] tree.k = "repeated" -> ("U" \in flags) # tree.token.lazy \/ Defers(tree.body, flags)
    [] tree.k = "grouped"  -> Defers(tree.body, FlagsInside(tree, flags))

EmptyFirst(tree) ==
  CASE tree.k = "token"  -> FALSE
    [] tree.k = "both"   -> EmptyFirst(tree.first) \/ EmptyFirst(tree.second)
    [] tree.k = "either" -> MayBeEmpty(tree.first) \/ EmptyFirst(tree.first) \/ EmptyFirst(tree.second)
    [] OTHER             -> EmptyFirst(tree.body)

OrderKept(tree, flags) ==
  CASE tree.k = "token"    -> TRUE
    [] tree.k \in {"both", "either"} ->
         OrderKept(tree.first, flags) /\ OrderKept(tree.second, FlagsAfter(tree.first, flags))
    [] tree.k = "repeated" ->
         /\ OrderKept(tree.body, flags)
         /\ tree.token.high = Unbounded /\ MayBeEmpty(tree.body) =>
              ~Defers(tree.body, flags) /\ (EmptyFirst(tree.body) => tree.token.low = 0)
    [] tree.k = "grouped"  -> OrderKept(tree.body, FlagsInside(tree, flags))

(***************************************************************************)
(* Every match the automaton reports, with its captures, is the leftmost   *)
(* and then the preferred one of the expression, whatever nests in it:     *)
(* alternatives, greedy and lazy repetitions, empty passes, flag groups    *)
(* and their scopes (Pattern, LinearPattern.search and finditer).  Where   *)
(* the order is not kept, the first match begins where it should, and      *)
(* there is none only if the expression has none.                          *)
(***************************************************************************)
FindsPreferred ==
  phase = "done" =>
    LET preferred == AllPreferred(call.tree, call.text, 0)
    IN  IF OrderKept(call.tree, {}) THEN matches = preferred
        ELSE IF preferred = <<>> THEN matches = <<>>
        ELSE matches # <<>> /\ Start(matches[1]) = Start(preferred[1])

(* Only an expression that repeats too often, or whose program would be too*)
(* large, is rejected, and no such program is ever run: the copies of its  *)
(* characters alone are within the limit (compile, LinearPattern).         *)
RECURSIVE CharacterCopies(_)
CharacterCopies(tree) ==
  CASE tree.k = "token"   -> 1
    [] tree.k \in {"both", "either"} -> CharacterCopies(tree.first) + CharacterCopies(tree.second)
    [] tree.k = "grouped" -> CharacterCopies(tree.body)
    [] tree.k = "repeated" ->
         CharacterCopies(tree.body) * (IF tree.token.high > 1 THEN tree.token.high
                                       ELSE IF tree.token.low > 1 THEN tree.token.low ELSE 1)

CountsAbove(pattern, limit) ==
  \E i \in DOMAIN pattern : pattern[i].t = "repeat" /\ (pattern[i].low > limit \/ pattern[i].high > limit)

RejectsExcess ==
  LET excessive == CountsAbove(call.pattern, MaxRepeatCount) \/ Len(call.pattern) > MaxPatternLength
      copies == CharacterCopies(call.tree)
  IN  /\ phase = "done" => (~excessive /\ copies <= MaxProgramInstructions)
      /\ phase = "rejected" => (excessive \/ 5 * copies + 10 > MaxProgramInstructions)

(***************************************************************************)
(* Cutting a text at its matches loses nothing: replacing every match by   *)
(* itself gives the text back, and so do the pieces of a split with the    *)
(* matches between them; a positive count bounds the pieces                *)
(* (Pattern.replace_all, Pattern.split).  Only the empty text may leave no *)
(* piece, where Go always gives one; a count of zero asks for none.        *)
(***************************************************************************)
Interleaved(pieces, separators) ==
  FlattenSeq([i \in DOMAIN pieces |->
                pieces[i] \o (IF i \in DOMAIN separators THEN separators[i] ELSE <<>>)])

PiecesRejoin ==
  phase = "done" =>
    LET text == call.text
        pieces == Split(text, matches, call.count)
        between == SelectSeq(GoMatches(matches, -1), LAMBDA match : End(match) # 0)
        separators == [i \in DOMAIN between |-> Group(text, between[i], 0)]
        used == IF Len(separators) < Len(pieces) THEN separators ELSE SubSeq(separators, 1, Len(pieces))
    IN  /\ pieces = <<>> => text = <<>> \/ call.count = 0
        /\ ReplaceMatches(text, matches, <<[group |-> 0]>>) = text
        /\ call.count > 0 => Len(pieces) <= call.count
        /\ call.count # 0 =>
             Interleaved(pieces, IF Len(used) = Len(pieces) /\ call.count > 0 THEN Front(used) ELSE used) = text

(***************************************************************************)
(* The three together, of what the regular expressions of the function     *)
(* libraries find, refuse and cut: the matches are the ones Go prefers but *)
(* for the repetitions that OrderKept names, where they only begin where   *)
(* Go's do; the limits refuse what is too large; cutting loses nothing.    *)
(***************************************************************************)
RegexpCorrect == FindsPreferred /\ RejectsExcess /\ PiecesRejoin
=============================================================================
