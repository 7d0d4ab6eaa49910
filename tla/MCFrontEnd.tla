----------------------------- MODULE MCFrontEnd -----------------------------
(***************************************************************************)
(* Instances of the front end: every source of a few items, for the control*)
(* structure; and samples of trees, for the variables, and of written      *)
(* items and character sequences, for the lexer and the pipelines.         *)
(***************************************************************************)
EXTENDS FrontEnd, Semantic, PipelineParser

VARIABLE sample

(* A single pipeline is enough: control flow does not look inside it.      *)
OnePipeline == {Pipeline(<<>>, FALSE, "data", 0)}

(***************************************************************************)
(* Trees: one branch, with every use of a variable x in, before and after  *)
(* it; and ranges whose body holds a branch that ends in a jump.           *)
(***************************************************************************)
Dot       == Pipeline(<<>>, FALSE, "dot", 0)
ReadX     == Pipeline(<<>>, FALSE, "x", 0)
DeclareX  == Pipeline(<<"x">>, FALSE, "dot", 0)
Redeclare == Pipeline(<<"x">>, FALSE, "x", 0)
AssignX   == Pipeline(<<"x">>, TRUE, "dot", 0)
Pair      == Pipeline(<<"y", "x">>, FALSE, "data", 0)

Leaf == {Action(p) : p \in {ReadX, DeclareX, AssignX}}
Optional(nodes) == {<<>>} \union {<<n>> : n \in nodes}
Lists == Optional(Leaf) \union {<<a, b>> : a \in Leaf, b \in Leaf}
Parts(k, pipes, bodies, others) ==
  {Branch(k, p, b, FALSE, <<>>) : p \in pipes, b \in bodies}
    \union {Branch(k, p, b, TRUE, e) : p \in pipes, b \in bodies, e \in others}
Single ==
  UNION {Parts(k, {Dot, DeclareX, AssignX}, Lists, Optional(Leaf)) : k \in {"if", "range"}}
    \union Parts("with", {ReadX, Redeclare}, Lists, Optional(Leaf))
    \union Parts("range", {Pair, Redeclare}, Optional(Leaf), Optional(Leaf))
    \union {Call("b", p) : p \in {ReadX, DeclareX}}
    \union {Block("b", p, <<Action(ReadX)>>) : p \in {ReadX, AssignX, Dot}}
    \union {Action(Pair), Action(Redeclare)}
Ending ==
  UNION {Parts(k, {Dot, DeclareX}, {<<a, jump>> : a \in Leaf, jump \in {Break, Continue}}, Optional(Leaf)) :
           k \in {"if", "with"}}
Looping ==
  UNION {Parts("range", {Dot, DeclareX, AssignX},
               {p \o <<node>> \o q : p \in Optional({Action(ReadX), Action(AssignX)}), q \in Optional({Action(ReadX)})},
               {<<Action(ReadX)>>}) : node \in Ending}
Trees ==
  {a \o <<node>> \o b : a \in Optional({Action(DeclareX), Action(ReadX)}), node \in Single, b \in Optional({Action(ReadX)})}
    \union {<<node>> \o b : node \in Looping, b \in Optional({Action(ReadX)})}

(***************************************************************************)
(* Characters.                                                             *)
(***************************************************************************)
MCKeyword ==
  <<"i", "f">> :> "IF" @@ <<"w", "i", "t", "h">> :> "WITH" @@ <<"r", "a", "n", "g", "e">> :> "RANGE"
    @@ <<"e", "l", "s", "e">> :> "ELSE" @@ <<"e", "n", "d">> :> "END" @@ <<"b", "r", "e", "a", "k">> :> "BREAK"
    @@ <<"c", "o", "n", "t", "i", "n", "u", "e">> :> "CONTINUE" @@ <<"b", "l", "o", "c", "k">> :> "BLOCK"
    @@ <<"d", "e", "f", "i", "n", "e">> :> "DEFINE" @@ <<"t", "e", "m", "p", "l", "a", "t", "e">> :> "TEMPLATE"
    @@ <<"n", "i", "l">> :> "NIL" @@ <<"t", "r", "u", "e">> :> "BOOL"
MCLetters == UNION {{word[k] : k \in DOMAIN word} : word \in DOMAIN MCKeyword} \union {"_"}
MCDigitValue == "0" :> 0 @@ "1" :> 1 @@ "7" :> 7 @@ "8" :> 8
Marks == {"{", "}", "-", "+", " ", "nl", "cr", "(", ")", "/", "*", ".", "$", "dq", "sq", "raw", "esc",
          ":", "=", "|", ",", "bell", "wide"}
MCByteLength ==
  [c \in MCLetters \union DOMAIN MCDigitValue \union Marks |-> IF c = "wide" THEN 3 ELSE 1]
MCEscapes == "n" :> "nl" @@ "r" :> "cr" @@ "esc" :> "esc" @@ "a" :> "bell"
MCCharacterOf(code) == IF code = 57 THEN "o" ELSE "other"
MCMinInteger == -128

(***************************************************************************)
(* Written items.                                                          *)
(***************************************************************************)
DotOperand == Operand("dot", <<".">>)
Word(kind) == Operand(kind, CHOOSE word \in DOMAIN MCKeyword : MCKeyword[word] = (IF kind = "nil" THEN "NIL" ELSE "BOOL"))
Function == Operand("identifier", <<"i", "f", "_">>)
NumberOperand(word) == Operand("number", word)
Operands ==
  {DotOperand, Word("nil"), Word("bool"), Function,
   NumberOperand(<<"-", "1">>), NumberOperand(<<"8", "8", "8">>), NumberOperand(<<".", "7">>),
   Operand("complex", <<"1", "+", "8", ".", "i">>),
   Operand("string", <<"a", "dq", "nl", "esc", " ", "}">>), Operand("string", <<>>), Operand("char", <<"nl">>),
   Chain("field", <<>>, <<<<"a">>>>), Chain("field", <<>>, <<<<"a", "1">>, <<"i", "f">>>>),
   Chain("variable", <<"$">>, <<>>), Chain("variable", <<"$", "a">>, <<<<"b">>>>)}
Commands == {<<x>> : x \in Operands} \union {<<x, y>> : x \in Operands, y \in Operands}

Bare(commands) == Piping(<<>>, FALSE, commands)
Shallow ==
  {Bare(<<x>>) : x \in Commands}
    \union {Bare(<<head, <<x>>>>) : head \in {<<DotOperand>>, <<Function, NumberOperand(<<"0", "1">>)>>}, x \in Operands}
InParentheses == {Bare(<<<<Parenthesized(p, fields)>>>>) : p \in Shallow, fields \in {<<>>, <<<<"a">>>>}}
InTwo == {Bare(<<<<DotOperand>>, <<Function, Parenthesized(Bare(<<<<Parenthesized(p, <<>>)>>>>), <<>>)>>>>) : p \in Shallow}
InThree == {Bare(<<<<Parenthesized(p, <<>>)>>>>) : p \in {q \in InTwo : Len(q.commands[2][2].pipe.commands[1][1].pipe.commands) = 2}}
Declaring ==
  {Piping(names, assigns, <<<<x>>>>) :
     names \in {<<<<"$", "a">>>>, <<<<"$">>, <<"$", "b">>>>}, assigns \in BOOLEAN, x \in Operands}
Small == Declaring \union {Bare(<<<<x>>>>) : x \in Operands}
Items ==
  {Item("action", <<>>, p) : p \in Shallow \union InParentheses \union InTwo \union InThree \union Declaring}
    \union {Item(k, <<>>, p) : k \in {"IF", "WITH", "RANGE", "ELSE IF", "ELSE WITH"}, p \in Small}
    \union {Item(k, <<"a", "dq">>, p) : k \in {"TEMPLATE", "BLOCK"}, p \in Small}
    \union {Item(k, <<"a", "nl">>, NoPiping) : k \in {"TEMPLATE", "DEFINE"}}
    \union {Item(k, <<>>, NoPiping) : k \in {"END", "ELSE", "BREAK", "CONTINUE"}}
RawItems ==
  {Item("action", <<>>, Bare(<<<<Operand("string", value)>>>>)) : value \in {<<>>, <<"dq", "nl", "esc">>, <<"}", "a">>}}

(***************************************************************************)
(* Written pieces, and sequences of fragments.                             *)
(***************************************************************************)
Wordings ==
  {<<<<"DOT", <<".">>>>>>,
   <<<<"SPACE", <<" ">>>>, <<"NUMBER", <<"1">>>>>>,
   <<<<"LEFT_PAREN", <<"(">>>>, <<"SPACE", <<" ", "nl">>>>, <<"FIELD", <<".", "a">>>>, <<"RIGHT_PAREN", <<")">>>>>>,
   <<<<"STRING", <<"dq", "}", "esc", "dq", "dq">>>>, <<"PIPE", <<"|">>>>, <<"RAW_STRING", <<"raw", "nl", "raw">>>>>>,
   <<<<"CHAR", <<"-">>>>, <<"DECLARE", <<":", "=">>>>, <<"ASSIGN", <<"=">>>>>>}
CommentWordings ==
  {<<<<"COMMENT", <<"/", "*", "{", "-", " ", "*", "/">>>>>>, <<<<"COMMENT", <<"/", "*", "*", "/">>>>>>}
TextPieces == [p : {"text"}, chars : {<<>>, <<" ", "a", "nl">>, <<"nl", " ">>, <<"}", "wide", "-">>}]
ActionPieces ==
  [p : {"action"}, left : BOOLEAN, right : BOOLEAN, words : Wordings]
    \union [p : {"comment"}, left : BOOLEAN, right : BOOLEAN, words : CommentWordings]
Pieces ==
  {<<t, a, u, b, t>> : t \in TextPieces, u \in TextPieces, a \in ActionPieces,
                       b \in {x \in ActionPieces : x.words = <<<<"DOT", <<".">>>>>>}}

Fragments ==
  {<<"{">>, <<"{", "-", " ">>, <<"}">>, <<" ", "-", "}">>, <<"-">>, <<" ">>, <<"nl">>, <<"(">>, <<")">>,
   <<"/", "*">>, <<"*", "/">>, <<"wide">>, <<"dq">>, <<"raw">>, <<".">>, <<"1">>}
Sequences ==
  UNION {[1..n -> Fragments] : n \in 0..3} \union {s \in [1..4 -> Fragments] : s[1] = <<"{">>}

Integer == {<<<<"0", "1", "7">>, 15>>, <<<<"-", "1", "8">>, -18>>, <<<<"0">>, 0>>, <<<<"+", "8", "0">>, 80>>}

Samples ==
  [k : {"tree"}, nodes : Trees]
    \union [k : {"item"}, item : Items, style : [space : {<<>>, <<"nl", " ">>}, raw : {FALSE}]]
    \union [k : {"item"}, item : RawItems, style : [space : {<<" ">>}, raw : {TRUE}]]
    \union [k : {"pieces"}, pieces : Pieces]
    \union [k : {"source"}, fragments : Sequences]
    \union {[k |-> "number", word |-> n[1], value |-> n[2]] : n \in Integer}

(***************************************************************************)
(* What a source says is what is read: written items are read back, with   *)
(* any white space the language allows, and every token has its place.     *)
(***************************************************************************)
SourceReads(source) ==
  LET Holds(lexed) == IsRejected(lexed) \/ (Accounted(lexed.tokens, Bytes(source)) /\ ActionsEnd(lexed.tokens))
  IN  Holds(Lex(source))
SourcesRead ==
  CASE sample.k = "item"   -> ItemReads(sample.item, sample.style)
    [] sample.k = "pieces" -> ReadsWritten(sample.pieces)
    [] sample.k = "source" -> SourceReads(FlattenSeq(sample.fragments))
    [] sample.k = "number" -> NumberReads(sample.word, sample.value)
    [] OTHER -> TRUE

(***************************************************************************)
(* The check of variables on the tree agrees with the scopes that the      *)
(* compiled program pushes, jumps included (semantic.py against compiler.py*)
(* and sync_vm.py).                                                        *)
(***************************************************************************)
VariablesResolve == sample.k = "tree" => Resolved(sample.nodes)

(***************************************************************************)
(* The control structure is explored, or a sample is taken.                *)
(***************************************************************************)
Unused == [k |-> "unused"]
Undecided == [k |-> "undecided"]
ParserOff ==
  /\ status = "off" /\ stack = <<>> /\ range_depth = 0 /\ definitions = <<>> /\ items = 0

FrontEndInit ==
  \/ Init /\ sample = Unused
  \/ ParserOff /\ sample = Undecided
FrontEndNext ==
  \/ Next /\ UNCHANGED sample
  \/ sample = Undecided /\ sample' \in Samples /\ UNCHANGED vars
FrontEndSpec == FrontEndInit /\ [][FrontEndNext]_<<vars, sample>>
=============================================================================
