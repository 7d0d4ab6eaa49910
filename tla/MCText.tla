------------------------------- MODULE MCText -------------------------------
(* Instances of the escapers and of printf: texts, values and formats to    *)
(* write and to read back.                                                  *)
EXTENDS EscapedText, FormattedText

(***************************************************************************)
(* Escapers.  One allowed scheme, one CSS name with active content and one *)
(* refused attribute stand for the tables of such names.                   *)
(***************************************************************************)
MCSafeSchemes      == {<<104, 116, 116, 112>>}    \* http
MCActiveStyles     == {<<101, 120>>}              \* ex
MCUnsafeAttributes == {<<97, 97>>}                \* aa

(* NUL, tab, space, " % & ' + / 4 : < = \ a x, an accent, a line separator  *)
(* and a character outside the basic plane.                                 *)
Characters == {0, 9, 32, 34, 37, 38, 39, 43, 47, 52, 58, 60, 61, 92, 97, 120, 233, 8232, 128512}
Bold   == <<60, 98, 62, 97, 60, 47, 98, 62, 38, 97, 109, 112, 59>>                    \* <b>a</b>&amp;
ScriptText == <<60>> \o Script \o <<62, 97, 60, 98, 62, 60, 47>> \o Script \o <<62, 98, 60, 99>>
Texts == {<<>>} \union {<<c, d>> : c \in Characters, d \in Characters} \union
  {Bold, ScriptText, <<38, 97, 109, 112, 59>>, <<38, 35, 51, 52, 59>>, <<37, 50, 102, 37, 50>>, <<104, 116, 116, 112, 58, 47>>,
   <<104, 58>>, <<47, 58>>, <<92, 50, 50, 32, 97>>, <<92, 52, 97, 32, 48>>, <<45, 45>>, <<111, 110, 120>>, <<69, 88>>,
   <<36, 123, 125, 96>>, <<10, 13, 8, 11>>, <<92, 117, 48, 48>>}

(* The chains of escapers the analyzer asks for.                            *)
Chains ==
  {<<"HTML">>, <<"RCDATA">>, <<"ATTR">>, <<"NOSPACE">>, <<"COMMENT">>, <<"COMMENT", "ATTR">>, <<"HTML_NAME">>,
   <<"URL_FILTER", "URL_NORMALIZER", "ATTR">>, <<"URL_NORMALIZER", "NOSPACE">>, <<"URL_ESCAPER", "ATTR">>,
   <<"URL_FILTER", "NOSPACE">>, <<"URL_FILTER", "URL_NORMALIZER">>,
   <<"JS_STRING">>, <<"JS_STRING", "ATTR">>, <<"JS_STRING", "NOSPACE">>, <<"JS_TEMPLATE">>, <<"JS_TEMPLATE", "ATTR">>,
   <<"JS_REGEXP">>, <<"JS_REGEXP", "ATTR">>, <<"CSS_VALUE">>, <<"CSS_VALUE", "ATTR">>,
   <<"URL_FILTER", "CSS_STRING">>, <<"URL_FILTER", "CSS_STRING", "ATTR">>, <<"CSS_STRING", "NOSPACE">>}

Trusted ==
  {Content(kind, text) : kind \in {"CSS", "URL", "HTML_ATTR"}, text \in {Bold, ScriptText, <<37, 50, 102, 37>>, <<97, 58>>, <<97, 44, 98>>}}
    \union {Content("JS_STRING", text) : text \in {<<92, 117, 48, 48, 101, 57>>, <<97, 34>>, <<92, 110>>}}
TrustedHtml == {Content("HTML", text) : text \in {Bold, ScriptText, <<97, 58>>}}

(* A heap: a list that shares its items, maps, a value json cannot write,   *)
(* and lists that hold each other.                                          *)
Heap ==
  <<[j |-> "null"], [j |-> "int", n |-> -10], [j |-> "text", text |-> <<34, 92, 60, 9>>], [j |-> "list", items |-> <<1, 2, 2, 3>>],
    [j |-> "map", keys |-> <<[j |-> "text", text |-> <<98>>], [j |-> "int", n |-> 12], [j |-> "text", text |-> <<97, 38>>]>>,
     items |-> <<4, 4, 6>>],
    [j |-> "list", items |-> <<>>], [j |-> "list", items |-> <<8, 1>>],
    [j |-> "map", keys |-> <<[j |-> "text", text |-> <<>>]>>, items |-> <<7>>], [j |-> "other"], [j |-> "list", items |-> <<9>>],
    [j |-> "map", keys |-> <<[j |-> "other", text |-> <<>>]>>, items |-> <<1>>], [j |-> "true"], [j |-> "list", items |-> <<5, 5, 12>>]>>
Data(heap, at, message) == [kind |-> "DATA", heap |-> heap, at |-> at, message |-> message]
Floats ==
  {Float(negative, digits, exponent) :
     negative \in BOOLEAN, digits \in {<<1>>, <<1, 2>>, <<9, 0, 5>>}, exponent \in {-7, -6, -5, -4, -1, 0, 1, 2, 15, 16, 20, 21, 300}}
    \union {Float(negative, <<0>>, 0) : negative \in BOOLEAN}
Documents ==
  {Data(Heap, at, message) : at \in DOMAIN Heap, message \in {<<42, 42, 47, 60, 33, 45, 45>>, <<60, 47, 83>> \o Tail(Script)}}
    \union {Data(<<[j |-> "float", float |-> f]>>, 1, <<>>) : f \in Floats}

Argument(text, string) == [kind |-> "PLAIN", text |-> text, string |-> string]
Commands ==
  {Command(name, <<Argument(<<c, d>>, TRUE)>>) :
     name \in Predefined, c \in {38, 60, 32, 37, 233, 43}, d \in {34, 97, 47}}
    \union {Command(name, <<Argument(<<49>>, string), Argument(<<38>>, FALSE), Argument(<<60>>, string)>>) :
              name \in Predefined, string \in BOOLEAN}
Sources ==
  {PlainText(x \o y \o z) : x \in {<<97>>, <<104, 58>>, <<32, 47, 37>>, <<>>},
     y \in {<<44>>, <<32, 50, 120, 44>>, <<32, 45>>}, z \in {<<98, 233>>, <<44>>}}
    \union {Content("URL", <<97, 44, 98, 37, 50>>)}

HtmlSamples ==
  [k : {"escaped"}, v : {PlainText(text) : text \in Texts} \union Trusted, kinds : Chains]
    \union [k : {"escaped"}, v : TrustedHtml, kinds : {<<"HTML">>, <<"ATTR">>, <<"NOSPACE">>}]
    \union [k : {"style"}, v : {PlainText(text) : text \in Texts}, rest : {<<97>>, <<32, 97>>, <<>>, <<10>>, <<120>>}]
    \union [k : {"command"}, command : Commands, kinds : Chains]
    \union [k : {"data"}, v : Documents]
    \union [k : {"srcset"}, v : Sources]

HtmlReads(sample) ==
  CASE sample.k = "escaped" -> EscapedReads(sample.v, sample.kinds) /\ NormalizesOnce(sample.v)
    [] sample.k = "style"   -> StyleGoesOn(sample.v, sample.rest)
    [] sample.k = "command" -> UserEscapes(sample.command, sample.kinds)
    [] sample.k = "data"    -> DataReads(sample.v)
    [] sample.k = "srcset"  -> CandidatesKept(sample.v)
    [] OTHER -> TRUE

(***************************************************************************)
(* Formats.  The private characters are those of Words.                    *)
(***************************************************************************)
MCPrintable == (32..126) \union {233, 8364, 128512} \union (57344..57370)

FilledDirective(flags, width, precision, verb) == [flags |-> flags, width |-> width, precision |-> precision, verb |-> verb]
IntegerValue(n) == [t |-> "int", n |-> n]
TextValue(text) == [t |-> "text", text |-> text]
Values ==
  {IntegerValue(-3), IntegerValue(7), TextValue(<<97, 34>>), [t |-> "nil"], [t |-> "float", float |-> Float(TRUE, <<1, 5>>, 0)],
   [t |-> "list", items |-> <<IntegerValue(1), [t |-> "nil"]>>],
   [t |-> "map", keys |-> <<TextValue(<<98>>), TextValue(<<97>>)>>, items |-> <<[t |-> "bool", b |-> TRUE], [t |-> "bytes", bytes |-> <<1, 255>>]>>]}
ValueLists == {<<>>} \union [1..1 -> Values] \union [1..3 -> {IntegerValue(-3), IntegerValue(2), TextValue(<<97, 34>>)}]
DirectivePart(before, flags, width, precision, index, verb) ==
  [before |-> before, flags |-> flags, width |-> width, precision |-> precision, index |-> index, verb |-> verb]
Parts ==
  {DirectivePart(before, flags, width, precision, 0, verb) :
     before \in {<<>>, <<"a", "b">>}, flags \in {<<>>, <<"-">>, <<"#", "+">>}, width \in {-2, -1, 5}, precision \in {-2, -1, 1},
     verb \in {"v", "d", "q"}}
    \union {DirectivePart(<<>>, <<"+">>, width, precision, index, verb) :
              width \in {-1, 5}, precision \in {-1, 1}, index \in 1..4, verb \in {"v", "d", "T"}}
Second == {DirectivePart(<<"a">>, <<>>, width, -1, index, "v") : width \in {-2, 5}, index \in {0}}
            \union {DirectivePart(<<>>, <<>>, -1, 1, index, "d") : index \in 0..2}
FormatLists == {<<part>> : part \in Parts} \union {<<part, other>> : part \in Parts, other \in Second}
Flags == {{}, {"-"}, {"0"}, {"+"}, {" "}, {"#"}, {"+", "0"}, {"#", "0"}, {"+", "#"}, {"-", "0", " "}}

FormatSamples ==
  [k : {"format"}, parts : FormatLists, values : ValueLists]
    \union {[k |-> "integer", n |-> n, d |-> FilledDirective(flags, width, precision, verb)] :
              n \in {0, 7, -8, 65, -255, 999, 128512}, flags \in Flags, width \in {-1, 0, 4, 9}, precision \in {-1, 1, 6},
              verb \in {"d", "b", "o", "O", "x", "X"}}
    \union {[k |-> "float", f |-> f, d |-> FilledDirective(flags, width, precision, verb)] :
              f \in {Float(negative, digits, exponent) : negative \in BOOLEAN, digits \in {<<1>>, <<2, 5>>, <<9, 9, 5>>},
                                                              exponent \in {-6, -2, 0, 1, 5, 6}},
              flags \in Flags, width \in {-1, 9}, precision \in {-1, 0, 2}, verb \in {"e", "f", "g", "G"}}
    \union {[k |-> "quoted", text |-> text, d |-> FilledDirective(flags, width, precision, verb)] :
              text \in [1..2 -> {1, 7, 9, 34, 39, 92, 96, 97, 127, 233, 8364, 57400, 128512}] \union {<<>>},
              flags \in Flags, width \in {-1, 7}, precision \in {-1, 0, 1}, verb \in {"s", "q", "x", "X", "v"}}

FormatReads(sample) ==
  CASE sample.k = "format"  -> ValuesAccounted(sample.parts, sample.values)
    [] sample.k = "integer" -> IntegerReads(sample.n, sample.d)
    [] sample.k = "float"   -> FloatReads(sample.f, sample.d)
    [] sample.k = "quoted"  -> TextReads(sample.text, sample.d)
    [] OTHER -> TRUE
=============================================================================
