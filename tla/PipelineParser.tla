--------------------------- MODULE PipelineParser ---------------------------
(***************************************************************************)
(* The insides of an action, gotpl/parse/parser.py: declarations, commands,*)
(* operands and literals, read from the tokens of Lexer.  A parse takes the*)
(* index of a token and is [rejected], or its result and the index after.  *)
(* The control structure around the actions is in Parser.                  *)
(***************************************************************************)
EXTENDS Lexer

CONSTANTS MaxExpressionNesting,   \* ParserLimits.max_nesting, of parentheses
          Escapes,                \* from the characters after a backslash
          CharacterOf(_),         \* the character of a code point
          MinInteger, MaxInteger  \* -(1 << 63) and (1 << 64) - 1

ASSUME PipelineParserAssumption ==
  /\ MaxExpressionNesting \in Nat \ {0}
  /\ {"esc", "dq", "sq"} \intersect DOMAIN Escapes = {"esc"}

Kind(tokens, at) == tokens[at].kind

RECURSIVE SkipSpaces(_, _)
SkipSpaces(tokens, at) == IF Kind(tokens, at) = "SPACE" THEN SkipSpaces(tokens, at + 1) ELSE at

(***************************************************************************)
(* Literals: unquote_go, unquote and validate_number.                      *)
(***************************************************************************)
Number(digits, base) == FoldLeft(LAMBDA sum, digit : base * sum + DigitValue[digit], 0, digits)

(* One escape of a literal, after its backslash: a character and how many  *)
(* were read, none if it is no escape.                                     *)
Escape(inner, quote) ==
  LET octal == Number(SubSeq(inner, 1, 3), 8)
      first == Head(inner)
  IN  IF first \in DOMAIN Escapes THEN [char |-> Escapes[first], length |-> 1]
      ELSE IF first = quote THEN [char |-> quote, length |-> 1]
      ELSE IF /\ Len(inner) >= 3 /\ \A k \in 1..3 : IsDigit(inner[k]) /\ DigitValue[inner[k]] < 8
              /\ octal <= 255
      THEN [char |-> CharacterOf(octal), length |-> 3]
      ELSE [char |-> "end", length |-> 0]

RECURSIVE UnquoteGo(_, _, _)
AfterEscape(inner, escape, quote, decoded) ==
  IF escape.length = 0 THEN Rejected("invalid quoted literal")
  ELSE UnquoteGo(SubSeq(inner, 2 + escape.length, Len(inner)), quote, Append(decoded, escape.char))
UnquoteGo(inner, quote, decoded) ==
  IF inner = <<>> THEN [value |-> decoded]
  ELSE IF Head(inner) # "esc" THEN UnquoteGo(Tail(inner), quote, Append(decoded, Head(inner)))
  ELSE AfterEscape(inner, Escape(Tail(inner), quote), quote, decoded)

Unquote(token) ==
  LET inner == SubSeq(token.value, 2, Len(token.value) - 1)
  IN  IF token.kind = "RAW_STRING" THEN [value |-> SelectSeq(inner, LAMBDA c : c # "cr")]
      ELSE UnquoteGo(inner, token.value[1], <<>>)

(* A mutant: a number after a zero is decimal.                             *)
DecimalInteger(word) ==
  LET magnitude == Number(Unsigned(word), 10)
  IN  IF word[1] = "-" THEN -magnitude ELSE magnitude

ParseInteger(word) ==
  LET digits == Unsigned(word)
      magnitude == Number(digits, IF IsLegacyOctal(digits) THEN 8 ELSE 10)
  IN  IF word[1] = "-" THEN -magnitude ELSE magnitude

(* Fractions, imaginary and complex numbers of a few digits are finite.    *)
IsValidNumber(word) ==
  IsInteger(Unsigned(word)) => ParseInteger(word) \in MinInteger..MaxInteger

(***************************************************************************)
(* Declarations.                                                           *)
(***************************************************************************)
NoDeclarations(at) == [declared |-> <<>>, assigns |-> FALSE, at |-> at]

RECURSIVE DeclarationsFrom(_, _, _, _)
DeclarationsFrom(tokens, at, checkpoint, declared) ==
  LET variables == Append(declared, tokens[at].value)
      after == SkipSpaces(tokens, at + 1)
      next  == SkipSpaces(tokens, after + 1)
  IN  IF Kind(tokens, after) = "CHAR" /\ tokens[after].value = <<",">>
      THEN IF Kind(tokens, next) # "VARIABLE" THEN Rejected("expected variable after comma")
           ELSE DeclarationsFrom(tokens, next, checkpoint, variables)
      ELSE IF Kind(tokens, after) \in {"DECLARE", "ASSIGN"}
      THEN [declared |-> variables, assigns |-> Kind(tokens, after) = "ASSIGN", at |-> after + 1]
      ELSE NoDeclarations(checkpoint)

(* A mutant: variables that are not declared are not read again.           *)
DeclarationsKept(tokens, at) ==
  LET read == DeclarationsFrom(tokens, at, SkipSpaces(tokens, at + 1), <<>>)
  IN  IF Kind(tokens, at) # "VARIABLE" THEN NoDeclarations(at) ELSE read

ParseDeclarations(tokens, at) ==
  IF Kind(tokens, at) # "VARIABLE" THEN NoDeclarations(at) ELSE DeclarationsFrom(tokens, at, at, <<>>)

(***************************************************************************)
(* Operands, commands and pipelines.                                       *)
(***************************************************************************)
Operand(t, value)        == [t |-> t, value |-> value]
Chain(t, value, fields)  == [t |-> t, value |-> value, fields |-> fields]
Parenthesized(pipe, fields) == [t |-> "paren", pipe |-> pipe, fields |-> fields]
Piping(declared, assigns, commands) == [declared |-> declared, assigns |-> assigns, commands |-> commands]

RECURSIVE CollectFields(_, _, _)
CollectFields(tokens, at, fields) ==
  IF Kind(tokens, at) # "FIELD" THEN [fields |-> fields, at |-> at]
  ELSE CollectFields(tokens, at + 1, Append(fields, Tail(tokens[at].value)))

Literals == [kind \in {"DOT", "NIL", "BOOL", "NUMBER", "COMPLEX", "IDENTIFIER"} |->
               CASE kind = "DOT" -> "dot" [] kind = "NIL" -> "nil" [] kind = "BOOL" -> "bool"
                 [] kind = "NUMBER" -> "number" [] kind = "COMPLEX" -> "complex" [] kind = "IDENTIFIER" -> "identifier"]
NonExecutable == {"dot", "nil", "bool", "number", "complex", "string", "char"}

RECURSIVE ParsePipeline(_, _, _, _)

CloseParenthesis(tokens, inner, right) ==
  LET read == CollectFields(tokens, right + 1, <<>>)
  IN  IF Kind(tokens, right) # "RIGHT_PAREN" THEN Rejected("unexpected token")
      ELSE [term |-> Parenthesized(inner.pipe, read.fields), at |-> read.at]
ParseParenthesized(tokens, at, depth) ==
  LET Close(inner) == IF IsRejected(inner) THEN inner ELSE CloseParenthesis(tokens, inner, SkipSpaces(tokens, inner.at))
  IN  IF depth >= MaxExpressionNesting THEN Rejected("template nesting limit exceeded")
      ELSE Close(ParsePipeline(tokens, SkipSpaces(tokens, at + 1), {"RIGHT_PAREN"}, depth + 1))

TextTerm(token, text, at) ==
  IF IsRejected(text) THEN text
  ELSE IF token.kind # "CHAR_CONSTANT" THEN [term |-> Operand("string", text.value), at |-> at + 1]
  ELSE IF Len(text.value) # 1 THEN Rejected("invalid character constant")
  ELSE [term |-> Operand("char", text.value), at |-> at + 1]

ParseTerm(tokens, at, depth) ==
  LET token == tokens[at]
      Chained(t, value, read) == [term |-> Chain(t, value, read.fields), at |-> read.at]
  IN  CASE token.kind \in DOMAIN Literals ->
             IF token.kind = "NUMBER" /\ ~IsValidNumber(token.value) THEN Rejected("invalid numeric literal")
             ELSE [term |-> Operand(Literals[token.kind], token.value), at |-> at + 1]
        [] token.kind \in {"STRING", "RAW_STRING", "CHAR_CONSTANT"} -> TextTerm(token, Unquote(token), at)
        [] token.kind = "FIELD"      -> Chained("field", <<>>, CollectFields(tokens, at, <<>>))
        [] token.kind = "VARIABLE"   -> Chained("variable", token.value, CollectFields(tokens, at + 1, <<>>))
        [] token.kind = "LEFT_PAREN" -> ParseParenthesized(tokens, at, depth)
        [] OTHER -> Rejected("unexpected token")

RECURSIVE ParseCommand(_, _, _, _, _, _)
AfterTerm(tokens, read, next, stop, depth, arguments) ==
  IF IsRejected(read) THEN read
  ELSE ParseCommand(tokens, next, stop, depth, Append(arguments, read.term), next # read.at)
ParseCommand(tokens, at, stop, depth, arguments, separated) ==
  LET Continue(read) == AfterTerm(tokens, read, SkipSpaces(tokens, read.at), stop, depth, arguments)
  IN  IF Kind(tokens, at) \in stop THEN [arguments |-> arguments, at |-> at]
      ELSE IF arguments # <<>> /\ ~separated THEN Rejected("unexpected token")
      ELSE Continue(ParseTerm(tokens, at, depth))

RECURSIVE ParseCommands(_, _, _, _, _)
AfterCommand(tokens, read, stop, depth, all) ==
  LET next == SkipSpaces(tokens, read.at + 1)
  IN  IF Kind(tokens, read.at) # "PIPE" THEN [commands |-> all, at |-> read.at]
      ELSE IF Kind(tokens, next) = "PIPE" THEN Rejected("empty command after pipe")
      ELSE IF Kind(tokens, next) \in stop THEN [commands |-> all, at |-> next]
      ELSE ParseCommands(tokens, next, stop, depth, all)
ParseCommands(tokens, at, stop, depth, commands) ==
  LET first == SkipSpaces(tokens, at)
      ends  == stop \union {"PIPE"}
      Continue(read) ==
        IF IsRejected(read) THEN read ELSE AfterCommand(tokens, read, stop, depth, Append(commands, read.arguments))
  IN  IF Kind(tokens, first) \in ends THEN Rejected("missing value for command")
      ELSE Continue(ParseCommand(tokens, first, ends, depth, <<>>, TRUE))

IsExecutable(commands) == \A k \in 2..Len(commands) : commands[k][1].t \notin NonExecutable

Piped(declarations, read) ==
  IF IsRejected(read) THEN read
  ELSE IF ~IsExecutable(read.commands) THEN Rejected("non executable command in pipeline")
  ELSE [pipe |-> Piping(declarations.declared, declarations.assigns, read.commands), at |-> read.at]
ParsePipeline(tokens, at, stop, depth) ==
  LET Continue(read) ==
        IF IsRejected(read) THEN read ELSE Piped(read, ParseCommands(tokens, read.at, stop, depth, <<>>))
  IN  Continue(ParseDeclarations(tokens, SkipSpaces(tokens, at)))

(***************************************************************************)
(* The delimited items that Parser consumes.                               *)
(***************************************************************************)
NoPiping == Piping(<<>>, FALSE, <<>>)
Item(k, name, pipe) == [k |-> k, name |-> name, pipe |-> pipe]

Keywords == {"IF", "WITH", "RANGE", "BREAK", "CONTINUE", "DEFINE", "TEMPLATE", "BLOCK", "ELSE", "END"}
ActionKeyword(tokens, at) ==
  LET kind == Kind(tokens, SkipSpaces(tokens, at + 1)) IN IF kind \in Keywords THEN kind ELSE "action"

CloseItem(tokens, at, item) ==
  LET right == SkipSpaces(tokens, at)
  IN  IF Kind(tokens, right) # "RIGHT_DELIMITER" THEN Rejected("unexpected token")
      ELSE [item |-> item, at |-> right + 1]

ReadPipeline(tokens, at, k, name) ==
  LET Close(read) == IF IsRejected(read) THEN read ELSE CloseItem(tokens, read.at, Item(k, name, read.pipe))
  IN  Close(ParsePipeline(tokens, SkipSpaces(tokens, at), {"RIGHT_DELIMITER"}, 0))

(* parse_template_name, and what follows the name of a call or a block.    *)
AfterName(tokens, text, next, k) ==
  LET bare == k = "DEFINE" \/ (k = "TEMPLATE" /\ Kind(tokens, next) = "RIGHT_DELIMITER")
  IN  IF IsRejected(text) THEN text
      ELSE IF bare THEN CloseItem(tokens, next, Item(k, text.value, NoPiping))
      ELSE ReadPipeline(tokens, next, k, text.value)
ReadNamed(tokens, at, k) ==
  IF Kind(tokens, at) \notin {"STRING", "RAW_STRING"} THEN Rejected("expected quoted template name")
  ELSE AfterName(tokens, Unquote(tokens[at]), SkipSpaces(tokens, at + 1), k)

ReadItem(tokens, at) ==
  LET keyword == ActionKeyword(tokens, at)
      after   == SkipSpaces(tokens, SkipSpaces(tokens, at + 1) + 1)
  IN  CASE keyword = "action" -> ReadPipeline(tokens, at + 1, "action", <<>>)
        [] keyword \in {"IF", "WITH", "RANGE"} -> ReadPipeline(tokens, after, keyword, <<>>)
        [] keyword \in {"DEFINE", "TEMPLATE", "BLOCK"} -> ReadNamed(tokens, after, keyword)
        [] keyword = "ELSE" /\ Kind(tokens, after) = "IF" -> ReadPipeline(tokens, after + 1, "ELSE IF", <<>>)
        [] keyword = "ELSE" /\ Kind(tokens, after) = "WITH" -> ReadPipeline(tokens, after + 1, "ELSE WITH", <<>>)
        [] keyword \in {"BREAK", "CONTINUE", "END"} \/ (keyword = "ELSE" /\ Kind(tokens, after) \notin {"IF", "WITH"}) ->
             CloseItem(tokens, after, Item(keyword, <<>>, NoPiping))

(***************************************************************************)
(* What has to hold: an item written with a style, which is what stands    *)
(* where white space may and whether strings are raw, is read back, unless *)
(* the rules of the language refuse it.                                    *)
(***************************************************************************)
Joined(seq, between) ==
  FlattenSeq([k \in DOMAIN seq |-> (IF k = 1 THEN <<>> ELSE between) \o seq[k]])

EscapedForm(c) ==
  IF c \in {"esc", "dq"} THEN <<"esc", c>>
  ELSE IF \E e \in DOMAIN Escapes : Escapes[e] = c
  THEN <<"esc", CHOOSE e \in DOMAIN Escapes : Escapes[e] = c>> ELSE <<c>>
WrittenString(value, style) ==
  IF style.raw THEN <<"raw">> \o value \o <<"raw">>
  ELSE <<"dq">> \o FlattenSeq([k \in DOMAIN value |-> EscapedForm(value[k])]) \o <<"dq">>

WrittenFields(fields) == FlattenSeq([k \in DOMAIN fields |-> <<".">> \o fields[k]])

RECURSIVE WrittenPipe(_, _)
WrittenTerm(term, style) ==
  CASE term.t = "string"   -> WrittenString(term.value, style)
    [] term.t = "char"     -> <<"sq">> \o FlattenSeq([k \in DOMAIN term.value |-> EscapedForm(term.value[k])]) \o <<"sq">>
    [] term.t = "field"    -> WrittenFields(term.fields)
    [] term.t = "variable" -> term.value \o WrittenFields(term.fields)
    [] term.t = "paren"    -> <<"(">> \o style.space \o WrittenPipe(term.pipe, style) \o style.space
                              \o <<")">> \o WrittenFields(term.fields)
    [] OTHER -> term.value
WrittenCommand(command, style) ==
  Joined([k \in DOMAIN command |-> WrittenTerm(command[k], style)], style.space \o <<" ">>)
WrittenPipe(pipe, style) ==
  (IF pipe.declared = <<>> THEN <<>>
   ELSE Joined(pipe.declared, style.space \o <<",">> \o style.space) \o style.space
        \o (IF pipe.assigns THEN <<"=">> ELSE <<":", "=">>) \o style.space)
  \o Joined([k \in DOMAIN pipe.commands |-> WrittenCommand(pipe.commands[k], style)],
            style.space \o <<"|">> \o style.space)

WordOf(kind) == IF kind = "action" THEN <<>> ELSE CHOOSE word \in DOMAIN Keyword : Keyword[word] = kind
WordsOf(k) ==
  CASE k = "ELSE IF"   -> WordOf("ELSE") \o <<" ">> \o WordOf("IF")
    [] k = "ELSE WITH" -> WordOf("ELSE") \o <<" ">> \o WordOf("WITH")
    [] OTHER -> WordOf(k)
WrittenItem(item, style) ==
  <<LeftDelimiter>> \o style.space \o WordsOf(item.k)
  \o (IF item.k = "action" THEN <<>> ELSE <<" ">>)
  \o (IF item.k \in {"DEFINE", "TEMPLATE", "BLOCK"} THEN WrittenString(item.name, style) ELSE <<>>)
  \o style.space \o WrittenPipe(item.pipe, style) \o style.space \o <<RightDelimiter>>

RECURSIVE IsAllowed(_, _)
IsAllowed(pipe, depth) ==
  /\ depth <= MaxExpressionNesting
  /\ \A k \in DOMAIN pipe.commands : k > 1 => pipe.commands[k][1].t \notin NonExecutable
  /\ \A k \in DOMAIN pipe.commands : \A j \in DOMAIN pipe.commands[k] :
       LET term == pipe.commands[k][j]
       IN  /\ term.t = "paren" => IsAllowed(term.pipe, depth + 1)
           /\ term.t = "number" => IsValidNumber(term.value)

IsReadAs(item, tokens, read) ==
  IF IsAllowed(item.pipe, 0) THEN ~IsRejected(read) /\ read.item = item /\ Kind(tokens, read.at) = "EOF"
  ELSE IsRejected(read)
ItemReads(item, style) ==
  LET Holds(lexed) == ~IsRejected(lexed) /\ IsReadAs(item, lexed.tokens, ReadItem(lexed.tokens, 1))
  IN  Holds(Lex(WrittenItem(item, style)))

(* Of any source: an action is refused, or read to its own end.            *)
EndsAction(tokens, k, read) ==
  IsRejected(read) \/
    /\ tokens[read.at - 1].kind = "RIGHT_DELIMITER"
    /\ \A j \in k + 1..read.at - 2 : tokens[j].kind \notin {"LEFT_DELIMITER", "RIGHT_DELIMITER"}
ActionsEnd(tokens) ==
  \A k \in DOMAIN tokens : tokens[k].kind = "LEFT_DELIMITER" => EndsAction(tokens, k, ReadItem(tokens, k))

(* An integer is lexed whole and means what its digits denote.             *)
NumberReads(word, value) ==
  LET Holds(lexed) == ~IsRejected(lexed) /\ lexed.tokens[2].value = word /\ lexed.tokens[2].kind = "NUMBER"
  IN  Holds(Lex(<<LeftDelimiter>> \o word \o <<RightDelimiter>>)) /\ ParseInteger(word) = value
=============================================================================
