------------------------------- MODULE Lexer -------------------------------
(***************************************************************************)
(* gotpl/parse/lexer.py: the tokens of a template source.                  *)
(*                                                                         *)
(* A source is a sequence of characters; a position counts the characters  *)
(* before it.  The delimiters are one character each, as left_delimiter    *)
(* and right_delimiter may be; "nl" is a line feed, "raw" the quote of raw *)
(* strings and "esc" the backslash.                                        *)
(***************************************************************************)
EXTENDS Integers, Sequences, SequencesExt

CONSTANTS LeftDelimiter, RightDelimiter,
          Letters,
          DigitValue,         \* from the digits to 0..9
          Unprintable,        \* the characters no token has outside of a literal
          Keyword,            \* from words to the kinds of _KEYWORDS, and "BOOL"
          LoopFunctions,      \* break and continue, if functions have these names
          ByteLength          \* from characters to the bytes of their UTF-8 form

ASSUME LexerAssumption ==
  /\ LeftDelimiter # RightDelimiter
  /\ \A c \in DOMAIN ByteLength : ByteLength[c] \in 1..4
  /\ LoopFunctions \subseteq DOMAIN Keyword

DigitCharacters == DOMAIN DigitValue
SpaceCharacters == {" ", "nl", "cr"}
IsSpace(c) == c \in SpaceCharacters
Alphanumeric == Letters \union DigitCharacters

Rejected(message) == [rejected |-> message]
IsRejected(result) == "rejected" \in DOMAIN result

(* source.startswith(word, position), for words of one or two characters.  *)
StartsWith(source, position, word) ==
  /\ position + Len(word) <= Len(source)
  /\ SubSeq(source, position + 1, position + Len(word)) = word
CharacterAt(source, position) == IF position < Len(source) THEN source[position + 1] ELSE "end"

(* The first position from which a character is not in the set.            *)
RECURSIVE PastAll(_, _, _)
PastAll(source, position, set) ==
  IF CharacterAt(source, position) \in set THEN PastAll(source, position + 1, set) ELSE position
SkipSpace(source, position) == PastAll(source, position, SpaceCharacters)

(* source.find(word, position); the length of the source if there is none. *)
RECURSIVE Find(_, _, _)
Find(source, position, word) ==
  IF position >= Len(source) \/ StartsWith(source, position, word) THEN position
  ELSE Find(source, position + 1, word)

(***************************************************************************)
(* _SourceMap: offsets in bytes, and lines.                                *)
(***************************************************************************)
RECURSIVE ByteOffset(_, _)
ByteOffset(source, position) ==
  IF position = 0 THEN 0 ELSE ByteOffset(source, position - 1) + ByteLength[source[position]]
Line(source, position) == 1 + Len(SelectSeq(SubSeq(source, 1, position), LAMBDA c : c = "nl"))

(* A mutant: the offsets of a token are those of its characters.           *)
TokenByCharacters(source, kind, from, to) ==
  [kind |-> kind, value |-> SubSeq(source, from + 1, to), start |-> from, end |-> to, line |-> Line(source, from)]

SourceToken(source, kind, from, to) ==
  [kind |-> kind, value |-> SubSeq(source, from + 1, to),
   start |-> ByteOffset(source, from), end |-> ByteOffset(source, to), line |-> Line(source, from)]

(***************************************************************************)
(* Numbers and quoted literals.                                            *)
(***************************************************************************)
IsDigit(c) == c \in DigitCharacters
StartsSignedNumber(source, position) ==
  /\ CharacterAt(source, position) \in {"+", "-"}
  /\ LET next == CharacterAt(source, position + 1) IN IsDigit(next) \/ next = "."

ScanNumber(source, position) == PastAll(source, position, Alphanumeric \union {".", "+", "-"})

(* _ATOM, of integers (octal after a zero) and fractions without exponent; *)
(* "i" ends an imaginary number.                                           *)
IsLegacyOctal(word) == Len(word) > 1 /\ DigitValue[word[1]] = 0
IsInteger(word) ==
  /\ word # <<>> /\ \A k \in DOMAIN word : IsDigit(word[k])
  /\ IsLegacyOctal(word) => \A k \in DOMAIN word : DigitValue[word[k]] < 8
IsFraction(word) ==
  /\ \E k \in DOMAIN word : IsDigit(word[k])
  /\ \E k \in DOMAIN word : word[k] = "." /\ \A j \in DOMAIN word : j # k => IsDigit(word[j])
IsNumeral(word) == IsInteger(word) \/ IsFraction(word)
Unsigned(word) == IF word # <<>> /\ word[1] \in {"+", "-"} THEN Tail(word) ELSE word
IsNumberWord(word) ==
  LET magnitude == Unsigned(word)
  IN  IsNumeral(magnitude) \/ (magnitude # <<>> /\ Last(magnitude) = "i" /\ IsNumeral(Front(magnitude)))
IsComplexWord(word) ==
  LET magnitude == Unsigned(word)
  IN  \E k \in 2..Len(magnitude) :
        /\ IsNumeral(SubSeq(magnitude, 1, k - 1)) /\ magnitude[k] \in {"+", "-"}
        /\ Last(magnitude) = "i" /\ IsNumeral(SubSeq(magnitude, k + 1, Len(magnitude) - 1))

NumberKind(word) == IF IsComplexWord(word) THEN "COMPLEX" ELSE "NUMBER"

(* _scan_quoted: the end of the literal, or 0.                             *)
RECURSIVE ScanEscaped(_, _, _)
ScanEscaped(source, position, quote) ==
  LET c == CharacterAt(source, position)
  IN  IF c = quote THEN position + 1
      ELSE IF c \in {"end", "nl"} THEN 0
      ELSE ScanEscaped(source, position + (IF c = "esc" THEN 2 ELSE 1), quote)

QuoteKinds == [c \in {"dq", "sq", "raw"} |->
                 CASE c = "dq" -> "STRING" [] c = "sq" -> "CHAR_CONSTANT" [] c = "raw" -> "RAW_STRING"]
ScanQuoted(source, position, quote) ==
  LET closing == Find(source, position + 1, <<"raw">>)
  IN  IF quote # "raw" THEN ScanEscaped(source, position + 1, quote)
      ELSE IF closing = Len(source) THEN 0 ELSE closing + 1

WordKind(word) ==
  IF word \in DOMAIN Keyword /\ word \notin LoopFunctions THEN Keyword[word] ELSE "IDENTIFIER"

(***************************************************************************)
(* _lex_action: the tokens of an action after its left delimiter, and the  *)
(* position after its right one.                                           *)
(***************************************************************************)
RightTrim(source, position) == StartsWith(source, position, <<"-", RightDelimiter>>)

(* A mutant: a minus before the delimiter trims without a space before it. *)
TrimsAnywhere(source, position, depth) ==
  RightTrim(source, SkipSpace(source, position)) /\ depth = 0

TrimsRight(source, position, depth) ==
  LET end == SkipSpace(source, position)
  IN  depth = 0 /\ end > position /\ RightTrim(source, end)

RECURSIVE LexAction(_, _, _, _)
LexAction(source, position, depth, tokens) ==
  LET c == CharacterAt(source, position)
      Add(kind, to) == Append(tokens, SourceToken(source, kind, position, to))
      Take(kind, to) == LexAction(source, to, depth, Add(kind, to))
      number == ScanNumber(source, position)
      word   == SubSeq(source, position + 1, number)
      quoted == ScanQuoted(source, position, c)
      name   == PastAll(source, position + 1, Alphanumeric)
      closing == SkipSpace(source, position) + 1
  IN  IF c = "end" THEN Rejected("unclosed action")
      ELSE IF c = RightDelimiter
      THEN IF depth > 0 THEN Rejected("unclosed left paren")
           ELSE [tokens |-> Add("RIGHT_DELIMITER", position + 1), cursor |-> position + 1]
      ELSE IF TrimsRight(source, position, depth)
      THEN [tokens |-> Append(tokens, SourceToken(source, "RIGHT_DELIMITER", closing, closing + 1)),
            cursor |-> SkipSpace(source, closing + 1)]
      ELSE IF IsSpace(c) THEN Take("SPACE", SkipSpace(source, position))
      ELSE IF \/ IsDigit(c) \/ StartsSignedNumber(source, position)
              \/ c = "." /\ IsDigit(CharacterAt(source, position + 1))
      THEN IF IsNumberWord(word) \/ IsComplexWord(word) THEN Take(NumberKind(word), number)
           ELSE Rejected("bad number syntax")
      ELSE IF c = "." THEN Take(IF name = position + 1 THEN "DOT" ELSE "FIELD", name)
      ELSE IF c = "$" THEN Take("VARIABLE", name)
      ELSE IF c \in DOMAIN QuoteKinds
      THEN IF quoted = 0 THEN Rejected("unterminated literal") ELSE Take(QuoteKinds[c], quoted)
      ELSE IF c \in Letters THEN Take(WordKind(SubSeq(source, position + 1, name)), name)
      ELSE IF StartsWith(source, position, <<":", "=">>) THEN Take("DECLARE", position + 2)
      ELSE IF c = "=" THEN Take("ASSIGN", position + 1)
      ELSE IF c = "|" THEN Take("PIPE", position + 1)
      ELSE IF c = "(" THEN LexAction(source, position + 1, depth + 1, Add("LEFT_PAREN", position + 1))
      ELSE IF c = ")"
      THEN IF depth = 0 THEN Rejected("unexpected right paren")
           ELSE LexAction(source, position + 1, depth - 1, Add("RIGHT_PAREN", position + 1))
      ELSE IF c \in Unprintable THEN Rejected("unrecognized character")
      ELSE Take("CHAR", position + 1)

(***************************************************************************)
(* lex: text, comments and actions.                                        *)
(***************************************************************************)
HasLeftTrim(source, position) ==
  CharacterAt(source, position) = "-" /\ IsSpace(CharacterAt(source, position + 1))

(* The end of a text, without the white space that a marker takes.         *)
RECURSIVE TrimmedEnd(_, _, _)
TrimmedEnd(source, from, to) ==
  IF to > from /\ IsSpace(source[to]) THEN TrimmedEnd(source, from, to - 1) ELSE to

AddText(source, tokens, from, to) ==
  IF to > from THEN Append(tokens, SourceToken(source, "TEXT", from, to)) ELSE tokens

(* _lex_comment: the position after a comment; no token is emitted.        *)
LexComment(source, position) ==
  LET closing == Find(source, position + 2, <<"*", "/">>)
      end == closing + 2
      trimmed == IsSpace(CharacterAt(source, end)) /\ RightTrim(source, end + 1)
  IN  IF closing >= Len(source) THEN Rejected("unclosed comment")
      ELSE IF CharacterAt(source, end) = RightDelimiter THEN [cursor |-> end + 1]
      ELSE IF trimmed THEN [cursor |-> SkipSpace(source, end + 3)]
      ELSE Rejected("comment ends before closing delimiter")

RECURSIVE LexFrom(_, _, _)
LexDelimited(source, action, content, read) ==
  LET AfterComment(comment) == IF IsRejected(comment) THEN comment ELSE LexFrom(source, comment.cursor, read)
      AfterAction(lexed) == IF IsRejected(lexed) THEN lexed ELSE LexFrom(source, lexed.cursor, lexed.tokens)
  IN  IF StartsWith(source, content, <<"/", "*">>) THEN AfterComment(LexComment(source, content))
      ELSE AfterAction(LexAction(source, content, 0,
                                 Append(read, SourceToken(source, "LEFT_DELIMITER", action, action + 1))))
LexFrom(source, cursor, tokens) ==
  LET action == Find(source, cursor, <<LeftDelimiter>>)
      trim   == HasLeftTrim(source, action + 1)
      end    == IF trim THEN TrimmedEnd(source, cursor, action) ELSE action
  IN  IF action >= Len(source)
      THEN [tokens |-> Append(AddText(source, tokens, cursor, Len(source)),
                              SourceToken(source, "EOF", Len(source), Len(source)))]
      ELSE LexDelimited(source, action, action + (IF trim THEN 3 ELSE 1), AddText(source, tokens, cursor, end))

Lex(source) == LexFrom(source, 0, <<>>)

(***************************************************************************)
(* What has to hold.  A source written from pieces is [p |-> "text", chars]*)
(* or an action or a comment [p, left, right, words], left and right its   *)
(* trim markers, words what it holds: a sequence of <<kind, characters>>.  *)
(***************************************************************************)
IsAction(piece) == piece.p # "text"
Characters(words) == FlattenSeq([k \in DOMAIN words |-> words[k][2]])
Marker(there, marker) == IF there THEN marker ELSE <<>>
Written(piece) ==
  IF piece.p = "text" THEN piece.chars
  ELSE <<LeftDelimiter>> \o Marker(piece.left, <<"-", " ">>) \o Characters(piece.words)
         \o Marker(piece.right, <<" ", "-">>) \o <<RightDelimiter>>
WrittenSource(pieces) == FlattenSeq([k \in DOMAIN pieces |-> Written(pieces[k])])

(* The text between two pieces, as their markers leave it.                 *)
Between(pieces, k) ==
  LET chars == pieces[k].chars
      from == IF k > 1 /\ pieces[k - 1].right THEN SkipSpace(chars, 0) ELSE 0
      to == IF k < Len(pieces) /\ pieces[k + 1].left THEN TrimmedEnd(chars, from, Len(chars)) ELSE Len(chars)
  IN  SubSeq(chars, from + 1, to)

ExpectedOf(pieces, k) ==
  IF pieces[k].p = "comment" THEN <<>>
  ELSE IF pieces[k].p = "text" THEN IF Between(pieces, k) = <<>> THEN <<>> ELSE <<<<"TEXT", Between(pieces, k)>>>>
  ELSE <<<<"LEFT_DELIMITER", <<LeftDelimiter>>>>>> \o pieces[k].words \o <<<<"RIGHT_DELIMITER", <<RightDelimiter>>>>>>
Expected(pieces) == FlattenSeq([k \in DOMAIN pieces |-> ExpectedOf(pieces, k)]) \o <<<<"EOF", <<>>>>>>

ReadsWritten(pieces) ==
  LET Holds(lexed) ==
        /\ ~IsRejected(lexed)
        /\ [k \in DOMAIN lexed.tokens |-> <<lexed.tokens[k].kind, lexed.tokens[k].value>>] = Expected(pieces)
  IN  Holds(Lex(WrittenSource(pieces)))

(* Of any source that is not rejected: a token's offsets delimit its value *)
(* in the encoded source, in order; what no token holds is white space,    *)
(* markers and comments; every token after a text begins an action, every  *)
(* action ends before the next begins, and its parentheses match, which is *)
(* what the parser's look-ahead relies on.                                 *)
Bytes(source) == FlattenSeq([k \in DOMAIN source |-> [b \in 1..ByteLength[source[k]] |-> <<source[k], b>>]])
DepthAfter(tokens, k) ==
  LET Of(kind) == Len(SelectSeq(SubSeq(tokens, 1, k), LAMBDA token : token.kind = kind))
  IN  Of("LEFT_PAREN") - Of("RIGHT_PAREN")
InsideAction(tokens, k) ==
  \E i \in 1..k : tokens[i].kind = "LEFT_DELIMITER" /\ \A j \in i..k : tokens[j].kind # "RIGHT_DELIMITER"

Accounted(tokens, bytes) ==
  LET Gap(k) == SubSeq(bytes, (IF k = 1 THEN 0 ELSE tokens[k - 1].end) + 1, tokens[k].start)
      IsComment(gap) == \E i \in DOMAIN gap : i < Len(gap) /\ gap[i][1] = "/" /\ gap[i + 1][1] = "*"
      Space(gap, i) == i \in DOMAIN gap /\ gap[i][1] \in SpaceCharacters
      IsTrimmed(gap) ==       \* white space, a marker has some next to it
        \A i \in DOMAIN gap : Space(gap, i) \/ (gap[i][1] = "-" /\ (Space(gap, i - 1) \/ Space(gap, i + 1)))
  IN  /\ tokens[Len(tokens)].kind = "EOF"
      /\ \A k \in DOMAIN tokens :
           LET token == tokens[k]
           IN  /\ SubSeq(bytes, token.start + 1, token.end) = Bytes(token.value)
               /\ k > 1 => tokens[k - 1].end <= token.start
               /\ IsComment(Gap(k)) \/ IsTrimmed(Gap(k))
               /\ token.kind \in {"TEXT", "EOF", "LEFT_DELIMITER"} <=> ~InsideAction(SubSeq(tokens, 1, k - 1), k - 1)
               /\ token.kind = "RIGHT_DELIMITER" => DepthAfter(tokens, k) = 0
               /\ DepthAfter(tokens, k) >= 0
               /\ token.line = 1 + Len(SelectSeq(SubSeq(bytes, 1, token.start), LAMBDA b : b[1] = "nl"))
=============================================================================
