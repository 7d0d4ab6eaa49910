---------------------------- MODULE EscapedText ----------------------------
(***************************************************************************)
(* What a browser reads back where Escapers wrote a value.  The readers    *)
(* are those of HTML, JavaScript, CSS and URLs, as far as the escapers     *)
(* rely on them.                                                           *)
(***************************************************************************)
EXTENDS Escapers, FiniteSets

(***************************************************************************)
(* The readers.                                                            *)
(***************************************************************************)
NamedReferences == {38, 60, 62}
RECURSIVE UnreferenceFrom(_, _)
UnreferenceFrom(text, i) ==
  IF i > Len(text) THEN <<>>
  ELSE LET named == {c \in NamedReferences : BeginsAt(text, i, Named(c))}
           hex == BeginsAt(text, i, <<38, 35, 120>>)
           from == i + (IF hex THEN 3 ELSE 2)
           digits == IF hex THEN 48..57 \union 97..102 ELSE 48..57
           end == PastWhile(text, from, digits)
           numeric == BeginsAt(text, i, <<38, 35>>) /\ end > from /\ BeginsAt(text, end, <<59>>) IN
    IF named # {} THEN LET c == CHOOSE c \in named : TRUE IN <<c>> \o UnreferenceFrom(text, i + Len(Named(c)))
    ELSE IF numeric
      THEN <<ValueOf(SubSeq(text, from, end - 1), IF hex THEN 16 ELSE 10)>> \o UnreferenceFrom(text, end + 1)
    ELSE <<text[i]>> \o UnreferenceFrom(text, i + 1)
Unreference(text) == UnreferenceFrom(text, 1)

JsEscaped(c) == CASE c = 98 -> 8 [] c = 116 -> 9 [] c = 110 -> 10 [] c = 102 -> 12 [] c = 114 -> 13 [] OTHER -> c
RECURSIVE JsReadFrom(_, _)
JsReadFrom(text, i) ==
  IF i > Len(text) THEN <<>>
  ELSE IF text[i] # 92 \/ i = Len(text) THEN <<text[i]>> \o JsReadFrom(text, i + 1)
  ELSE IF text[i + 1] = 117 THEN <<ValueOf(SubSeq(text, i + 2, i + 5), 16)>> \o JsReadFrom(text, i + 6)
  ELSE <<JsEscaped(text[i + 1])>> \o JsReadFrom(text, i + 2)
JsRead(text) == JsReadFrom(text, 1)

RECURSIVE PercentDecodeFrom(_, _)
PercentDecodeFrom(data, i) ==
  IF i > Len(data) THEN <<>>
  ELSE IF data[i] = 37 /\ i + 2 <= Len(data) /\ IsHexDigit(data[i + 1]) /\ IsHexDigit(data[i + 2])
    THEN <<ValueOf(SubSeq(data, i + 1, i + 2), 16)>> \o PercentDecodeFrom(data, i + 3)
  ELSE <<data[i]>> \o PercentDecodeFrom(data, i + 1)
PercentDecode(data) == PercentDecodeFrom(data, 1)
PlusDecode(data) == PercentDecode([i \in DOMAIN data |-> IF data[i] = 43 THEN 32 ELSE data[i]])

(* JSON values as trees; every number as a float.                          *)
NumberNode(f) == [j |-> "float", float |-> f]
Between(text, i, j) == SubSeq(text, i, j - 1)
RECURSIVE EndOfString(_, _), ReadJson(_, _), ReadItems(_, _, _)
EndOfString(text, i) == IF text[i] = 34 THEN i ELSE EndOfString(text, i + (IF text[i] = 92 THEN 2 ELSE 1))
ReadJson(text, i) ==
  IF text[i] = 34 THEN [node |-> [j |-> "text", text |-> JsRead(Between(text, i + 1, EndOfString(text, i + 1)))],
                        past |-> EndOfString(text, i + 1) + 1]
  ELSE IF text[i] \in {91, 123} THEN
    LET read == ReadItems(text, i + 1, text[i] = 123) IN
      [node |-> IF text[i] = 91 THEN [j |-> "list", items |-> read.items]
                ELSE [j |-> "map", keys |-> read.keys, items |-> read.items], past |-> read.past]
  ELSE IF \E name \in {"null", "true", "false"} : BeginsAt(text, i, Word(name)) THEN
    LET name == CHOOSE name \in {"null", "true", "false"} : BeginsAt(text, i, Word(name)) IN
      [node |-> [j |-> name], past |-> i + Len(Word(name))]
  ELSE LET end == PastWhile(text, i, (48..57) \union {43, 45, 46, 101}) IN
      [node |-> NumberNode(ReadFloat(Between(text, i, end))), past |-> end]
ReadItems(text, i, keyed) ==
  IF text[i] \in {93, 125} THEN [keys |-> <<>>, items |-> <<>>, past |-> i + 1]
  ELSE IF text[i] = 44 THEN ReadItems(text, i + 1, keyed)
  ELSE LET key == IF keyed THEN ReadJson(text, i) ELSE [node |-> [text |-> <<>>], past |-> i - 1]
           item == ReadJson(text, key.past + 1)
           rest == ReadItems(text, item.past, keyed) IN
    [keys |-> <<key.node.text>> \o rest.keys, items |-> <<item.node>> \o rest.items, past |-> rest.past]

(* The tree below a place, and what keeps it from being one.               *)
NumberRead(n) == ReadFloat(Integral(n))
RECURSIVE Tree(_, _)
Tree(heap, at) ==
  LET v == heap[at]
      entries == ByKey([i \in DOMAIN v.items |-> [key |-> EncodedKey(v.keys[i]), item |-> Tree(heap, v.items[i])]]) IN
    CASE v.j \in {"null", "true", "false"} -> [j |-> v.j]
      [] v.j = "int"   -> NumberNode(NumberRead(v.n))
      [] v.j = "float" -> NumberNode(IF IsZeroFloat(v.float) THEN Float(v.float.negative, <<0>>, 0) ELSE v.float)
      [] v.j = "text"  -> [j |-> "text", text |-> v.text]
      [] v.j = "list"  -> [j |-> "list", items |-> [i \in DOMAIN v.items |-> Tree(heap, v.items[i])]]
      [] v.j = "map"   -> [j |-> "map", keys |-> [i \in DOMAIN entries |-> entries[i].key],
                           items |-> [i \in DOMAIN entries |-> entries[i].item]]
Children(heap, at) == IF heap[at].j \in {"list", "map"} THEN {heap[at].items[i] : i \in DOMAIN heap[at].items} ELSE {}
RECURSIVE Below(_, _, _)
Below(heap, found, n) ==
  IF n = 0 THEN found ELSE Below(heap, found \union UNION {Children(heap, x) : x \in found}, n - 1)
IsWritable(heap, at) ==
  \A x \in Below(heap, {at}, Cardinality(DOMAIN heap)) :
    /\ heap[x].j # "other"
    /\ x \notin Below(heap, Children(heap, x), Cardinality(DOMAIN heap))
    /\ heap[x].j = "map" => \A i \in DOMAIN heap[x].keys : heap[x].keys[i].j # "other"

Trimmed(text) ==
  LET from == PastWhile(text, 1, {32})
      ends == {i \in from..Len(text) : text[i] # 32} IN
    IF ends = {} THEN <<>> ELSE SubSeq(text, from, CHOOSE i \in ends : \A k \in ends : k <= i)

(* What is read from the text at a place that an escaper writes to.        *)
Reading(kind, text) ==
  CASE kind \in {"HTML", "RCDATA", "ATTR", "NOSPACE"} -> Unreference(text)
    [] kind \in {"URL_NORMALIZER", "URL_ESCAPER"} -> PercentDecode(text)
    [] kind \in {"JS_STRING", "JS_TEMPLATE"} -> JsRead(text)
    [] kind = "JS_REGEXP" -> IF text = <<40, 63, 58, 41>> THEN <<>> ELSE JsRead(text)
    [] kind = "CSS_STRING" -> DecodeCss(text)
    [] OTHER -> text
RECURSIVE ReadAll(_, _)
ReadAll(kinds, text) ==
  IF kinds = <<>> THEN text
  ELSE ReadAll(SubSeq(kinds, 1, Len(kinds) - 1), Reading(kinds[Len(kinds)], text))

(* The characters that would end the place, or begin another one in it.    *)
Ends(kind) ==
  CASE kind \in {"HTML", "RCDATA", "ATTR"} -> {0, 34, 39, 60, 62}
    [] kind = "NOSPACE" -> {0, 9, 10, 12, 13, 32, 34, 39, 60, 61, 62, 96}
    [] kind \in {"URL_NORMALIZER", "URL_ESCAPER"} -> {9, 10, 13, 32, 34, 39, 40, 41, 60, 62, 92}
    [] kind = "JS_STRING" -> {10, 13, 34, 39, 60, 62, 96, 8232, 8233}
    [] kind = "JS_TEMPLATE" -> {34, 36, 39, 60, 62, 96, 123, 125}
    [] kind = "JS_REGEXP" -> {10, 13, 34, 39, 60, 62, 8232, 8233}
    [] kind = "JS_VALUE" -> {38, 60, 62, 8232, 8233}
    [] kind = "CSS_STRING" -> {0, 10, 12, 13, 34, 39, 40, 41, 47, 60, 62, 123, 125}
    [] kind = "CSS_VALUE" -> CssForbidden
    [] OTHER -> {}

(***************************************************************************)
(* The laws.                                                               *)
(***************************************************************************)
Has(kinds, kind) == \E i \in DOMAIN kinds : kinds[i] = kind
ShownText(text) == [i \in DOMAIN text |-> IF text[i] = 0 THEN 65533 ELSE text[i]]
PassesThrough(kinds, v) ==
  /\ Has(kinds, "URL_FILTER") => UrlFilter(v) = v.text
  /\ Has(kinds, "CSS_VALUE") => CssValueFilter(v) # FailSafe
  /\ Has(kinds, "HTML_NAME") => HtmlNameFilter(v) # FailSafe
  /\ Has(kinds, "NOSPACE") => v.text # <<>> \/ Has(kinds, "JS_REGEXP")
Meaning(kinds, v) ==
  CASE Has(kinds, "COMMENT") -> <<>>
    [] Has(kinds, "URL_NORMALIZER") \/ (Has(kinds, "URL_ESCAPER") /\ v.kind = "URL") -> PercentDecode(Encoded(v.text))
    [] Has(kinds, "URL_ESCAPER") -> Encoded(v.text)
    [] Has(kinds, "CSS_VALUE") /\ v.kind # "CSS" -> DecodeCss(v.text)
    [] Has(kinds, "JS_STRING") /\ v.kind = "JS_STRING" -> JsRead(v.text)
    [] Has(kinds, "HTML_NAME") /\ v.kind # "HTML_ATTR" -> LowerCase(v.text)
    [] kinds \in {<<"ATTR">>, <<"NOSPACE">>} /\ v.kind = "HTML" -> ShownText(Unreference(StripTags(v.text)))
    [] kinds \in {<<"HTML">>, <<"RCDATA">>} /\ v.kind = "HTML" -> ShownText(Unreference(v.text))
    [] \A i \in DOMAIN kinds : kinds[i] \in {"HTML", "RCDATA", "ATTR", "NOSPACE", "URL_FILTER"} -> ShownText(v.text)
    [] OTHER -> v.text
Refusal(kinds, v) == IF Has(kinds, "URL_FILTER") /\ UrlFilter(v) # v.text THEN FailSafeUrl ELSE FailSafe

Contained(kinds, out) ==
  \A k \in DOMAIN kinds :
    LET text == ReadAll(SubSeq(kinds, k + 1, Len(kinds)), out) IN
      \A i \in DOMAIN text : text[i] \notin Ends(kinds[k])

(* A value is read as itself through all the places it was written into,   *)
(* and ends none of them; a value a filter refuses as the fail-safe text.  *)
EscapedReads(v, kinds) ==
  LET Holds(out, passes) ==
        /\ ReadAll(kinds, out) = IF passes THEN Meaning(kinds, v) ELSE Refusal(kinds, v)
        /\ v.kind = "PLAIN" /\ passes => Contained(kinds, out) IN
    Holds(Output(EnsureContains(<<Command("none", <<v>>)>>, kinds)), PassesThrough(kinds, v))

(* An escaper the template names itself is not applied a second time.      *)
UserEscapes(command, kinds) ==
  LET args == command.arguments
      v == PlainText(EvalArgs(args))
      commands == IF Len(args) = 1 THEN <<Command("none", <<v>>), Command(command.name, <<>>)>> ELSE <<command>>
      merged == \E i \in DOMAIN kinds : Normalize(kinds[i]) = command.name
      Holds(given, out) ==
        ~Disallowed(commands, kinds) /\ PassesThrough(kinds, given) =>
          IF merged /\ command.name = "urlquery"
          THEN PlusDecode(ReadAll([i \in DOMAIN kinds |-> IF Normalize(kinds[i]) = "urlquery" THEN "URL_FILTER" ELSE kinds[i]], out)) = Encoded(v.text)
          ELSE ReadAll(kinds, out) = Meaning(kinds, given) IN
    Holds(IF merged THEN v ELSE PlainText(EscapeWith(command.name, v)), Output(EnsureContains(commands, kinds)))

(* A string of a style sheet goes on behind the value as it was written.   *)
StyleGoesOn(v, rest) == DecodeCss(CssEscaper(v) \o rest) = v.text \o DecodeCss(rest)

(* Data is an expression of its own: it reads back, touches no identifier  *)
(* next to it, and what cannot be written leaves a comment and null.       *)
DataReads(v) ==
  LET out == JsValueEscaper(v)
      comment == SubSeq(out, 4, Len(out) - 8) IN
    IF IsWritable(v.heap, v.at)
    THEN /\ ReadJson(Trimmed(out), 1).node = Tree(v.heap, v.at)
         /\ ~IsJsIdentifierPart(out[1]) /\ ~IsJsIdentifierPart(out[Len(out)])
         /\ \A i \in DOMAIN out : out[i] \notin Ends("JS_VALUE")
    ELSE /\ out = JsComment(v.message)
         /\ ~HasWord(comment, <<42, 47>>) /\ ~HasWord(comment, <<60, 33>>) /\ ~HasWord(LowerCase(comment), <<60>> \o Script)

(* Every candidate of a srcset stays one, and keeps its URL or is refused. *)
CandidatesKept(v) ==
  LET given == IF v.kind = "URL" THEN <<v.text>> ELSE SplitCandidates(v.text)
      kept == SplitCandidates(SrcsetEscaper(v)) IN
    /\ Len(kept) = Len(given)
    /\ \A i \in DOMAIN given : PercentDecode(kept[i]) = PercentDecode(Encoded(given[i])) \/ (v.kind = "PLAIN" /\ kept[i] = FailSafeUrl)
NormalizesOnce(v) == UrlNormalizer(PlainText(UrlNormalizer(v))) = UrlNormalizer(v)
=============================================================================
