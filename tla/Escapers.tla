----------------------------- MODULE Escapers -----------------------------
(***************************************************************************)
(* gotpl/html/escapers.py: the functions the analyzer adds to the          *)
(* pipelines of an HTML template, and the analyzer's choice of what is     *)
(* left to add (html/analyzer.py).                                         *)
(*                                                                         *)
(* A value is a text and its kind of content, html/content.py: "PLAIN" for *)
(* whatever format_value writes.  Code points are written as numbers; 38   *)
(* is &, 60 <, 62 >, 34 and 39 the quotes, 92 the backslash.               *)
(***************************************************************************)
EXTENDS Numerals, Functions, TLC

CONSTANTS SafeSchemes,        \* http, https and mailto
          ActiveStyles,       \* expression and mozbinding
          UnsafeAttributes    \* the names _attribute_name_is_active lists

Content(kind, text) == [kind |-> kind, text |-> text]
PlainText(text) == Content("PLAIN", text)

FailSafe    == <<90, 103, 111, 116, 109, 112, 108, 90>>             \* ZgotmplZ
FailSafeUrl == <<35>> \o FailSafe

(***************************************************************************)
(* Replacements one after the other, the ampersand first.                  *)
(***************************************************************************)
Named(c) == CASE c = 38 -> <<38, 97, 109, 112, 59>> [] c = 60 -> <<38, 108, 116, 59>> [] c = 62 -> <<38, 103, 116, 59>>
Reference(c) == IF c \in {38, 60, 62} THEN Named(c) ELSE <<38, 35>> \o Numeral(c, 10) \o <<59>>

HtmlReplaced    == <<0, 34, 38, 39, 43, 60, 62>>
NospaceReplaced == <<0, 9, 10, 11, 12, 13, 32, 34, 38, 39, 43, 60, 61, 62, 96>>
Normal(replaced) == SelectSeq(replaced, LAMBDA c : c # 38)
HtmlReplacements    == [c \in Range(HtmlReplaced) |-> IF c = 0 THEN <<65533>> ELSE Reference(c)]
NospaceReplacements ==
  [c \in Range(NospaceReplaced) |-> IF c = 0 THEN <<38, 35, 120, 102, 102, 102, 100, 59>> ELSE Reference(c)]

Replace(text, replaced, replacements) ==
  LET in(order) == LET after[i \in 0..Len(order)] ==
                         IF i = 0 THEN text
                         ELSE Translated(after[i - 1], LAMBDA c : IF c = order[i] THEN replacements[c] ELSE <<c>>)
                   IN  after[Len(order)]
  IN  in(SelectSeq(replaced, LAMBDA c : c = 38) \o Normal(replaced))

(***************************************************************************)
(* The text of an HTML fragment without its tags.  HTMLParser is Python's: *)
(* it takes < and a letter or a slash to the next > for a tag, and reads   *)
(* no tags in a script or a style but the one that ends it.                *)
(***************************************************************************)
Script == <<115, 99, 114, 105, 112, 116>>
Style  == <<115, 116, 121, 108, 101>>
TagAt(html, i) ==
  LET closing == BeginsAt(html, i, <<60, 47>>)
      from == i + (IF closing THEN 2 ELSE 1)
      end == PastWhile(html, from, 97..122) IN
    [is |-> html[i] = 60 /\ end > from /\ BeginsAt(html, end, <<62>>), closing |-> closing,
     name |-> SubSeq(html, from, end - 1), end |-> end + 1]

RECURSIVE Strip(_, _, _)
Strip(html, i, within) ==
  IF i > Len(html) THEN <<>>
  ELSE LET tag == TagAt(html, i) IN
    IF tag.is /\ within = <<>> THEN
      Strip(html, tag.end, IF ~tag.closing /\ tag.name \in {Script, Style} THEN tag.name ELSE <<>>)
    ELSE IF tag.is /\ tag.closing /\ tag.name = within THEN Strip(html, tag.end, <<>>)
    ELSE (IF within = <<>> THEN <<html[i]>> ELSE <<>>) \o Strip(html, i + 1, within)
StripTags(html) == Strip(html, 1, <<>>)

(***************************************************************************)
(* HTML.                                                                   *)
(***************************************************************************)
HtmlEscaper(v) == IF v.kind = "HTML" THEN v.text ELSE Replace(v.text, HtmlReplaced, HtmlReplacements)
RcdataEscaper(v) ==
  Replace(v.text, IF v.kind = "HTML" THEN Normal(HtmlReplaced) ELSE HtmlReplaced, HtmlReplacements)
AttrEscaper(v) ==
  IF v.kind = "HTML" THEN Replace(StripTags(v.text), Normal(HtmlReplaced), HtmlReplacements)
  ELSE Replace(v.text, HtmlReplaced, HtmlReplacements)
NospaceEscaper(v) ==
  IF v.text = <<>> THEN FailSafe
  ELSE IF v.kind = "HTML" THEN Replace(StripTags(v.text), Normal(NospaceReplaced), NospaceReplacements)
  ELSE Replace(v.text, NospaceReplaced, NospaceReplacements)
CommentEscaper(v) == <<>>

IsActiveAttribute(name) ==
  LET base == IF BeginsAt(name, 1, <<100, 97, 116, 97, 45>>) THEN SubSeq(name, 6, Len(name)) ELSE name  \* data-
  IN  \/ base \in UnsafeAttributes
      \/ BeginsAt(base, 1, <<111, 110>>)                                                               \* on
      \/ \E word \in {<<115, 114, 99>>, <<117, 114, 105>>, <<117, 114, 108>>} : HasWord(base, word)   \* src uri url
(* Names with a prefix are refused for their colon either way.             *)
HtmlNameFilter(v) ==
  LET lowered == LowerCase(v.text) IN
    IF v.kind = "HTML_ATTR" THEN v.text
    ELSE IF lowered = <<>> \/ IsActiveAttribute(lowered) \/ \E i \in DOMAIN lowered : ~IsAlnum(lowered[i]) THEN FailSafe
    ELSE lowered

(***************************************************************************)
(* JavaScript strings.                                                     *)
(***************************************************************************)
UnicodeEscape(c) == <<92, 117>> \o Filled(Numeral(c, 16), 4, 48)
JsStringReplaced   == {34, 38, 39, 43, 47, 60, 62, 92, 96}
JsTemplateReplaced == JsStringReplaced \union {36, 123, 125}
RegexpOperators    == {36, 40, 41, 42, 45, 46, 63, 91, 93, 94, 123, 124, 125}
JsControl(c) == CASE c = 8 -> <<92, 98>> [] c = 9 -> <<92, 116>> [] c = 10 -> <<92, 110>>
                  [] c = 12 -> <<92, 102>> [] c = 13 -> <<92, 114>> [] OTHER -> UnicodeEscape(c)

JsReplace(text, replaced, escaped) ==
  Translated(text, LAMBDA c : IF c \in escaped THEN <<92, c>>
                              ELSE IF c \in replaced THEN UnicodeEscape(c)
                              ELSE IF c < 32 \/ c \in {8232, 8233} THEN JsControl(c)
                              ELSE <<c>>)

JsStringEscaper(v) ==
  IF v.kind = "JS_STRING" THEN JsReplace(v.text, JsStringReplaced \ {92}, {47}) ELSE JsReplace(v.text, JsStringReplaced, {47, 92})
JsTemplateEscaper(v) == JsReplace(v.text, JsTemplateReplaced, {47, 92})
JsRegexpEscaper(v) ==
  IF v.text = <<>> THEN <<40, 63, 58, 41>> ELSE JsReplace(v.text, JsStringReplaced, RegexpOperators \union {47, 92})

(***************************************************************************)
(* CSS.                                                                    *)
(***************************************************************************)
CssReplaced == {0, 9, 10, 12, 13, 34, 38, 39, 40, 41, 43, 47, 58, 59, 60, 62, 92, 123, 125}
CssSpaces   == {9, 10, 12, 13, 32}

(* A mutant: only a digit that follows in the text asks for the space.     *)
CssEscaperInside(v) ==
  Concatenated(Len(v.text), LAMBDA i :
    LET c == v.text[i] IN
      IF c \notin CssReplaced THEN <<c>>
      ELSE IF c = 92 THEN <<92, 92>>
      ELSE <<92>> \o Numeral(c, 16) \o (IF i < Len(v.text) /\ IsHexDigit(v.text[i + 1]) THEN <<32>> ELSE <<>>))

(* A space ends an escape that the next character could continue.          *)
CssEscaper(v) ==
  Concatenated(Len(v.text), LAMBDA i :
    LET c == v.text[i] IN
      IF c \notin CssReplaced THEN <<c>>
      ELSE IF c = 92 THEN <<92, 92>>
      ELSE <<92>> \o Numeral(c, 16)
             \o (IF i = Len(v.text) \/ IsHexDigit(v.text[i + 1]) \/ v.text[i + 1] \in CssSpaces THEN <<32>> ELSE <<>>))
(* The characters an escape at position i stands for, and where it ends.   *)
CssEscape(text, i) ==
  LET digits == CHOOSE n \in 0..6 : /\ i + n <= Len(text)
                                    /\ \A k \in 1..n : IsHexDigit(text[i + k])
                                    /\ n < 6 /\ i + n < Len(text) => ~IsHexDigit(text[i + n + 1])
      large == ValueOf(SubSeq(text, i + 1, i + digits), 16) > 1114111
      end == i + digits + (IF large THEN 0 ELSE 1)
      code == ValueOf(SubSeq(text, i + 1, end - 1), 16)
      past == CASE BeginsAt(text, end, <<13, 10>>) -> end + 2
                [] end <= Len(text) /\ text[end] \in CssSpaces -> end + 1
                [] OTHER -> end IN
    IF i = Len(text) THEN [text |-> <<>>, past |-> i + 1]
    ELSE IF digits = 0 THEN [text |-> <<text[i + 1]>>, past |-> i + 2]
    ELSE [text |-> <<IF code \in 55296..57343 THEN 65533 ELSE code>>, past |-> past]

RECURSIVE DecodeFrom(_, _)
DecodeFrom(text, i) ==
  IF i > Len(text) THEN <<>>
  ELSE IF text[i] # 92 THEN <<text[i]>> \o DecodeFrom(text, i + 1)
  ELSE LET escape == CssEscape(text, i) IN escape.text \o DecodeFrom(text, escape.past)
DecodeCss(text) == DecodeFrom(text, 1)

CssForbidden == {0, 34, 39, 40, 41, 47, 59, 64, 91, 92, 93, 96, 123, 125, 60, 62}
IsCssNameCharacter(c) == IsAlnum(c) \/ c \in {45, 95} \/ c \in 128..55295 \/ c \in 57344..65533 \/ c >= 65536
CssValueFilter(v) ==
  LET decoded == DecodeCss(v.text)
      name == LowerCase(SelectSeq(decoded, LAMBDA c : c # 45 /\ IsCssNameCharacter(c))) IN
    IF v.kind = "CSS" THEN v.text
    ELSE IF \/ \E i \in DOMAIN decoded : decoded[i] \in CssForbidden
            \/ HasWord(decoded, <<45, 45>>)
            \/ \E word \in ActiveStyles : HasWord(name, word)
         THEN FailSafe
    ELSE decoded

(***************************************************************************)
(* URLs: the bytes of the text, most of them as %xx.                       *)
(***************************************************************************)
UrlUnreserved     == {45, 46, 95, 126}
UrlNormalizedSafe == {33, 35, 36, 38, 42, 43, 44, 45, 46, 47, 58, 59, 61, 63, 64, 91, 93}
PercentByte(b) == <<37>> \o Filled(Numeral(b, 16), 2, 48)
UrlProcessor(text, normalize) ==
  LET data == Encoded(text)
      kept(b) == IsAlnum(b) \/ b \in UrlUnreserved \/ (normalize /\ b \in UrlNormalizedSafe)
      isEscape(i) == data[i] = 37 /\ i + 2 <= Len(data) /\ IsHexDigit(data[i + 1]) /\ IsHexDigit(data[i + 2]) IN
    Concatenated(Len(data), LAMBDA i :
      IF (normalize /\ isEscape(i)) \/ kept(data[i]) THEN <<data[i]>> ELSE PercentByte(data[i]))
UrlNormalizer(v) == UrlProcessor(v.text, TRUE)
UrlEscaper(v)    == UrlProcessor(v.text, v.kind = "URL")
UrlFilter(v) ==
  LET colons == {i \in DOMAIN v.text : v.text[i] = 58}
      first == CHOOSE i \in colons : \A j \in colons : i <= j
      protocol == SubSeq(v.text, 1, first - 1) IN
    IF /\ v.kind # "URL" /\ colons # {}
       /\ ~HasWord(protocol, <<47>>) /\ LowerCase(protocol) \notin SafeSchemes
    THEN FailSafeUrl ELSE v.text

FilterSrcsetCandidate(text) ==
  LET start == PastWhile(text, 1, CssSpaces)
      ends == {i \in start..Len(text) : text[i] \in CssSpaces}
      end == IF ends = {} THEN Len(text) + 1 ELSE CHOOSE i \in ends : \A j \in ends : i <= j
      url == SubSeq(text, start, end - 1)
      metadata == SubSeq(text, end, Len(text)) IN
    IF UrlFilter(PlainText(url)) = url /\ \A i \in DOMAIN metadata : metadata[i] \in CssSpaces \/ IsAlnum(metadata[i])
    THEN SubSeq(text, 1, start - 1) \o UrlNormalizer(PlainText(url)) \o metadata
    ELSE FailSafeUrl
RECURSIVE SplitCandidates(_)
SplitCandidates(text) ==
  LET commas == {i \in DOMAIN text : text[i] = 44}
      first == CHOOSE i \in commas : \A j \in commas : i <= j IN
    IF commas = {} THEN <<text>>
    ELSE <<SubSeq(text, 1, first - 1)>> \o SplitCandidates(SubSeq(text, first + 1, Len(text)))
SrcsetEscaper(v) ==
  LET candidates == SplitCandidates(v.text) IN
    CASE v.kind = "SRCSET" -> v.text
      [] v.kind = "URL" -> Translated(UrlNormalizer(v), LAMBDA c : IF c = 44 THEN <<37, 50, 99>> ELSE <<c>>)
      [] OTHER -> Concatenated(Len(candidates), LAMBDA i :
                    (IF i = 1 THEN <<>> ELSE <<44>>) \o FilterSrcsetCandidate(candidates[i]))

(***************************************************************************)
(* Values as JavaScript expressions.  A value is a place of a heap, so     *)
(* that lists and maps may hold themselves; the keys of a map are texts,   *)
(* numbers, or of a type JSON has not.                                     *)
(***************************************************************************)
JsonString(text) ==
  <<34>> \o Translated(text, LAMBDA c : IF c \in {34, 92} THEN <<92, c>>
                                        ELSE IF c < 32 THEN JsControl(c)
                                        ELSE IF c \in {38, 60, 62, 8232, 8233} THEN UnicodeEscape(c)
                                        ELSE <<c>>) \o <<34>>
JsonFloat(f) ==
  SignOf(f.negative) \o (IF ~IsZeroFloat(f) /\ (f.exponent < -6 \/ f.exponent >= 21)
                         THEN Mantissa(f) \o ExponentPart(f.exponent, 1) ELSE Positional(f))

Unsupported == <<>>
Word(name) == CASE name = "null"  -> <<110, 117, 108, 108>>
                [] name = "true"  -> <<116, 114, 117, 101>>
                [] name = "false" -> <<102, 97, 108, 115, 101>>
EncodedKey(key) == IF key.j = "int" THEN Integral(key.n) ELSE key.text
CommaSeparated(texts) == Concatenated(Len(texts), LAMBDA i : (IF i = 1 THEN <<>> ELSE <<44>>) \o texts[i])
ByKey(entries) == SortSeq(entries, LAMBDA x, y : Precedes(x.key, y.key))

RECURSIVE JsonEncode(_, _, _)
JsonEncode(heap, at, seen) ==
  LET v == heap[at]
      inner(i) == JsonEncode(heap, v.items[i], seen \union {at})
      entries == ByKey([i \in DOMAIN v.items |-> [key |-> EncodedKey(v.keys[i]), item |-> inner(i)]])
  IN CASE v.j \in {"null", "true", "false"} -> Word(v.j)
       [] v.j = "int"   -> Integral(v.n)
       [] v.j = "float" -> JsonFloat(v.float)
       [] v.j = "text"  -> JsonString(v.text)
       [] v.j = "other" -> Unsupported
       [] v.j \in {"list", "map"} /\ at \in seen -> Unsupported
       [] v.j = "map" /\ \E i \in DOMAIN v.items : v.keys[i].j = "other" -> Unsupported
       [] v.j \in {"list", "map"} /\ (\E i \in DOMAIN v.items : inner(i) = Unsupported) -> Unsupported
       [] v.j = "list" -> <<91>> \o CommaSeparated([i \in DOMAIN v.items |-> inner(i)]) \o <<93>>
       [] v.j = "map"  -> <<123>> \o CommaSeparated([i \in DOMAIN entries |->
                                                  JsonString(entries[i].key) \o <<58>> \o entries[i].item]) \o <<125>>

IsJsIdentifierPart(c) == c \in {36, 95} \/ IsAlnum(c)
SpacePadded(text) ==
  IF IsJsIdentifierPart(text[1]) \/ IsJsIdentifierPart(text[Len(text)]) THEN <<32>> \o text \o <<32>> ELSE text

(* The message of an error, inside of a comment.                           *)
RECURSIVE Substitute(_, _, _, _)
Substitute(text, i, word, by) ==
  IF i > Len(text) THEN <<>>
  ELSE IF BeginsAt(text, i, word) THEN by \o Substitute(text, i + Len(word), word, by)
  ELSE <<text[i]>> \o Substitute(text, i + 1, word, by)
EscapedLess == <<92, 120, 51, 67>>
EscapeScriptNames(text) ==
  Concatenated(Len(text), LAMBDA i : IF \/ BeginsAt(LowerCase(text), i, <<60>> \o Script)
                                        \/ BeginsAt(LowerCase(text), i, <<60, 47>> \o Script)
                                     THEN EscapedLess ELSE <<text[i]>>)
JsComment(message) ==
  <<32, 47, 42, 32>>
    \o EscapeScriptNames(Substitute(Substitute(message, 1, <<42, 47>>, <<42, 32, 47>>), 1, <<60, 33, 45, 45>>, EscapedLess \o <<33, 45, 45>>))
    \o <<32, 42, 47>> \o Word("null") \o <<32>>

JsValueEscaper(v) ==
  LET encoded == IF v.kind = "DATA" THEN JsonEncode(v.heap, v.at, {}) ELSE JsonString(v.text) IN
    CASE v.kind = "JS"        -> v.text
      [] v.kind = "JS_STRING" -> <<34>> \o v.text \o <<34>>
      [] encoded = Unsupported -> JsComment(v.message)
      [] OTHER -> SpacePadded(encoded)

(***************************************************************************)
(* The builtins html and urlquery, which a template may have used already. *)
(***************************************************************************)
HtmlBuiltin(text) ==
  Translated(text, LAMBDA c : IF c \in {0, 34, 38, 39, 60, 62} THEN HtmlReplacements[c] ELSE <<c>>)
UrlQuery(text) ==
  Translated(Encoded(text), LAMBDA b : IF b = 32 THEN <<43>>
                                       ELSE IF IsAlnum(b) \/ b \in UrlUnreserved THEN <<b>> ELSE UpperCase(PercentByte(b)))
(* print's text of several values: spaces between two that are no strings. *)
EvalArgs(values) ==
  Concatenated(Len(values), LAMBDA i :
    (IF i > 1 /\ ~values[i - 1].string /\ ~values[i].string THEN <<32>> ELSE <<>>) \o values[i].text)

EscapeWith(name, v) ==
  CASE name = "HTML" -> HtmlEscaper(v)                  [] name = "RCDATA" -> RcdataEscaper(v)
    [] name = "ATTR" -> AttrEscaper(v)                  [] name = "NOSPACE" -> NospaceEscaper(v)
    [] name = "COMMENT" -> CommentEscaper(v)            [] name = "HTML_NAME" -> HtmlNameFilter(v)
    [] name = "URL_FILTER" -> UrlFilter(v)              [] name = "URL_NORMALIZER" -> UrlNormalizer(v)
    [] name = "URL_ESCAPER" -> UrlEscaper(v)            [] name = "SRCSET" -> SrcsetEscaper(v)
    [] name = "JS_VALUE" -> JsValueEscaper(v)           [] name = "JS_STRING" -> JsStringEscaper(v)
    [] name = "JS_TEMPLATE" -> JsTemplateEscaper(v)     [] name = "JS_REGEXP" -> JsRegexpEscaper(v)
    [] name = "CSS_VALUE" -> CssValueFilter(v)          [] name = "CSS_STRING" -> CssEscaper(v)
    [] name = "html" -> HtmlBuiltin(v.text)             [] name = "urlquery" -> UrlQuery(v.text)

(***************************************************************************)
(* The escapers of a context added to a pipeline.  A command is a name     *)
(* and the values written after it, "none" if it begins with no function.  *)
(***************************************************************************)
Command(name, arguments) == [name |-> name, arguments |-> arguments]
Predefined == {"html", "urlquery"}
Normalize(name) == CASE name \in {"HTML", "RCDATA", "ATTR"} -> "html"
                     [] name \in {"URL_ESCAPER", "URL_NORMALIZER"} -> "urlquery"
                     [] OTHER -> name
Redundant(previous) ==
  CASE previous = "COMMENT" -> {"ATTR", "HTML"}
    [] previous \in {"CSS_STRING", "JS_REGEXP", "JS_STRING", "JS_TEMPLATE"} -> {"ATTR"}
    [] previous = "URL_ESCAPER" -> {"URL_NORMALIZER"}
    [] OTHER -> {}
LastName(commands) == commands[Len(commands)].name

RECURSIVE AddEscapers(_, _)
AddEscapers(commands, desired) ==
  IF desired = <<>> THEN commands
  ELSE LET name == Head(desired)
           inserted == {Normalize(commands[i].name) : i \in DOMAIN commands}
           skipped == Normalize(name) \in inserted \/ name \in Redundant(LastName(commands)) IN
         AddEscapers(IF skipped THEN commands ELSE Append(commands, Command(name, <<>>)), Tail(desired))

Disallowed(commands, kinds) ==
  \E i \in DOMAIN commands :
    /\ commands[i].name \in Predefined
    /\ i # Len(commands) \/ (commands[i].name = "html" /\ kinds = <<"NOSPACE">>)

(* A mutant: the template's own escaper stays where it was written.        *)
EnsureContainsInPlace(commands, kinds) ==
  LET last == LastName(commands)
      spread == IF last \in Predefined /\ Len(commands) = 1 /\ commands[1].arguments # <<>>
                THEN <<Command("eval_args", commands[1].arguments), Command(last, <<>>)>> ELSE commands
  IN  AddEscapers(spread, kinds)

EnsureContains(commands, kinds) ==
  LET last == LastName(commands)
      spread == IF last \in Predefined /\ Len(commands) = 1 /\ commands[1].arguments # <<>>
                THEN <<Command("eval_args", commands[1].arguments), Command(last, <<>>)>> ELSE commands
      duplicate == last \in Predefined /\ \E i \in DOMAIN kinds : Normalize(kinds[i]) = last
      desired == [i \in DOMAIN kinds |-> IF duplicate /\ Normalize(kinds[i]) = last THEN last ELSE kinds[i]]
  IN  AddEscapers(IF duplicate THEN SubSeq(spread, 1, Len(spread) - 1) ELSE spread, desired)
(* What a pipeline writes: its first command is the value or values.       *)
RECURSIVE Piped(_, _)
Piped(commands, v) ==
  IF commands = <<>> THEN v.text
  ELSE Piped(Tail(commands), PlainText(EscapeWith(Head(commands).name, v)))
Output(commands) ==
  LET first == commands[1] IN
    Piped(IF first.name \in {"none", "eval_args"} THEN Tail(commands) ELSE commands,
          IF first.name = "none" THEN first.arguments[1] ELSE PlainText(EvalArgs(first.arguments)))
=============================================================================
