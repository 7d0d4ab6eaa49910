---------------------------- MODULE HtmlContext ----------------------------
(***************************************************************************)
(* The lexical context of HTML output (gotpl/html/context.py): how literal *)
(* text moves it, which escapers an action needs in it, and what becomes   *)
(* of the text itself.                                                     *)
(*                                                                         *)
(* Text is a sequence of tokens.  A token is the longest piece the code    *)
(* looks at in one step ("<script", "//", "url(", one attribute name); a   *)
(* state that has no use for the whole reads its spelling.  "x" is any     *)
(* other word, "nl" a newline, "\\x" a backslash and what it escapes.      *)
(* Within a tag one name is one token, and "url('" stands in style sheets  *)
(* only.                                                                   *)
(***************************************************************************)
EXTENDS Naturals, Sequences, SequencesExt

Nothing == ""     \* no name, no delimiter, no token
DQ == "\""
SQ == "'"
Quotes == {DQ, SQ}
Spaces == {" ", "nl"}
Opening == {"<p", "<meta", "<script", "<style", "<title"}
Closing == {"</p", "</script", "</style", "</title"}
Angles == Opening \cup Closing \cup {"<!--"}     \* begin with "<"

JSStates == {"JS", "JS_DQ_STRING", "JS_SQ_STRING", "JS_TEMPLATE", "JS_REGEXP",
             "JS_BLOCK_COMMENT", "JS_LINE_COMMENT"}
CSSStates == {"CSS", "CSS_DQ_STRING", "CSS_SQ_STRING", "CSS_DQ_URL", "CSS_SQ_URL",
              "CSS_URL", "CSS_BLOCK_COMMENT", "CSS_LINE_COMMENT"}
TagStates == {"TAG", "ATTR_NAME", "AFTER_NAME", "BEFORE_VALUE", "ATTR"}

\* The default Context; "ERROR" is the kind after a TemplateSyntaxError.
TextContext ==
    [kind |-> "TEXT", delimiter |-> Nothing, element |-> Nothing, closing_tag |-> FALSE,
     attribute |-> "PLAIN", url_part |-> "NONE", js_context |-> "REGEXP",
     js_brace_depth |-> <<>>, js_regexp_charset |-> FALSE,
     comment_has_newline |-> FALSE, attribute_value |-> <<>>,
     attribute_name |-> <<>>, meta_refresh |-> FALSE]

Error(c) == [c EXCEPT !.kind = "ERROR"]

ElementOf(t) ==
    CASE t = "<meta" -> "meta" [] t = "<script" -> "script"
      [] t = "<style" -> "style" [] t = "<title" -> "title" [] OTHER -> Nothing

\* _find_special_tag_end, _is_script_end, _is_style_end: the end tag of the
\* element, followed by a character that cannot continue its name.
EndsElement(element, t, next) ==
    /\ \/ element = "script" /\ t = "</script"
       \/ element = "style" /\ t = "</style"
       \/ element = "title" /\ t = "</title"
    /\ next \in Spaces \cup {">", "/", "//", "/*"}

AttributeKind(name) ==
    CASE name \in {"href", "url"} -> "URL" [] name = "onclick" -> "JS"
      [] name = "style" -> "CSS" [] name = "srcset" -> "SRCSET" [] OTHER -> "PLAIN"

----------------------------------------------------------------------------
(* Tags and attributes                                                      *)

ConsumeTagStart(c, t) ==
    [c EXCEPT !.kind = "TAG", !.closing_tag = t \in Closing, !.element = ElementOf(t),
              !.meta_refresh = FALSE, !.attribute = "PLAIN", !.url_part = "NONE"]

ElementContentKind(c) ==
    CASE c.closing_tag -> [c EXCEPT !.kind = "TEXT", !.closing_tag = FALSE]
      [] c.element = "title"  -> [c EXCEPT !.kind = "RCDATA"]
      [] c.element = "script" -> [c EXCEPT !.kind = "JS", !.js_context = "REGEXP"]
      [] c.element = "style"  -> [c EXCEPT !.kind = "CSS"]
      [] OTHER -> [c EXCEPT !.kind = "TEXT"]

IsJsType(value) == value \in {<<>>, <<"module">>}

\* Mutant: the attribute's kind outlives its value.
FinishAttributeKeepsKind(c, tagEnd) ==
    [(IF tagEnd THEN ElementContentKind(c) ELSE [c EXCEPT !.kind = "TAG"])
       EXCEPT !.delimiter = Nothing, !.url_part = "NONE", !.attribute_value = <<>>,
              !.attribute_name = <<>>]

FinishAttribute(c, tagEnd) ==
    LET typed == IF c.attribute = "JS_TYPE" /\ ~IsJsType(c.attribute_value)
                 THEN [c EXCEPT !.element = Nothing] ELSE c
        meta == IF typed.element = "meta" /\ c.attribute_name = <<"http-equiv">>
                THEN [typed EXCEPT !.meta_refresh = c.attribute_value = <<"refresh">>]
                ELSE typed
    IN [(IF tagEnd THEN ElementContentKind(meta) ELSE [meta EXCEPT !.kind = "TAG"])
          EXCEPT !.delimiter = Nothing, !.attribute = "PLAIN", !.url_part = "NONE",
                 !.attribute_value = <<>>, !.attribute_name = <<>>]

InvalidInName(t) == t \in Quotes \cup Angles
EndsName(t) == t \in Spaces \cup {"=", ">"}

InTag(c, t, next) ==
    CASE t \in Spaces -> c
      [] t = ">" -> ElementContentKind(c)
      [] t = "=" \/ InvalidInName(t) -> Error(c)
      [] OTHER ->
            [c EXCEPT !.attribute_name = <<t>>,
                      !.attribute =
                          CASE c.element = "script" /\ t = "type" -> "JS_TYPE"
                            [] c.element = "meta" /\ t = "content" /\ c.meta_refresh
                                 -> "META_CONTENT"
                            [] OTHER -> AttributeKind(t),
                      !.attribute_value = <<>>, !.url_part = "NONE",
                      !.kind = IF EndsName(next) THEN "AFTER_NAME" ELSE "ATTR_NAME"]

AfterName(c, t, next) ==
    CASE t \in Spaces -> c
      [] t = "=" -> [c EXCEPT !.kind = "BEFORE_VALUE"]
      [] OTHER -> InTag([c EXCEPT !.kind = "TAG", !.attribute = "PLAIN",
                                  !.url_part = "NONE"], t, next)

InName(c, t, next) ==
    CASE EndsName(t) -> AfterName([c EXCEPT !.kind = "AFTER_NAME"], t, next)
      [] InvalidInName(t) -> Error(c)
      [] OTHER -> [c EXCEPT !.attribute_name = Append(@, t),
                            !.kind = IF EndsName(next) THEN "AFTER_NAME" ELSE @]

\* What an unquoted value must not contain.
InvalidUnquoted(t) == t \in Quotes \cup Angles \cup {"=", "tick"}

EndsValue(c, t) ==
    IF c.delimiter # Nothing THEN t = c.delimiter ELSE t \in Spaces \cup {">"}

ValueKind(c) ==
    IF c.attribute \in {"JS", "CSS", "SRCSET"} THEN c.attribute ELSE "ATTR"

AdvanceUrl(c, t) ==
    CASE t = "?" -> [c EXCEPT !.url_part = "QUERY_OR_FRAGMENT"]
      [] c.url_part = "NONE" /\ t \notin Spaces -> [c EXCEPT !.url_part = "PRE_QUERY"]
      [] OTHER -> c

KeepsValue(c) ==
    \/ c.attribute \in {"JS_TYPE", "META_CONTENT"}
    \/ c.element = "meta" /\ c.attribute_name = <<"http-equiv">>

InAttr(c, t) ==
    LET kept == IF KeepsValue(c) THEN [c EXCEPT !.attribute_value = Append(@, t)] ELSE c
    IN IF c.attribute = "URL" THEN AdvanceUrl(kept, t) ELSE kept

----------------------------------------------------------------------------
(* JavaScript                                                               *)

\* The atoms of a token for a state that does not read it as a whole.
Spelling(t) ==
    CASE t = "//" -> <<"/", "/">> [] t = "/*" -> <<"/", "*">>
      [] t = "*/" -> <<"*", "/">> [] t = "${" -> <<"x", "{">>
      [] t \in Closing -> <<"<", "/", "x">>
      [] t \in Opening -> <<"<", "x">>
      [] t \in {"url(", "url('"} -> <<"x", "(">>
      [] OTHER -> <<t>>

\* html.unescape, on the text of an attribute.
Unescape(t) == IF t = "&quot;" THEN DQ ELSE t

\* _next_js_context, for one word or operator after another.
NextJSContext(a, preceding) ==
    CASE a \in Spaces \cup {"<", "-->", "<!--"} -> preceding
      [] a \in {"return", "=", "*", "(", "[", ";", "?", ">", "{", "}", "&quot;"} -> "REGEXP"
      [] OTHER -> "DIVISION"

Reads(c, a) == [c EXCEPT !.js_context = NextJSContext(a, @)]

Slash(c) ==
    CASE c.js_context = "UNKNOWN" -> Error(c)
      [] c.js_context = "REGEXP" -> [c EXCEPT !.kind = "JS_REGEXP",
                                              !.js_regexp_charset = FALSE]
      [] OTHER -> [c EXCEPT !.js_context = "REGEXP"]

\* Braces inside a ${ } of a template literal are counted, to find its end.
Brace(c, a) ==
    LET d == Len(c.js_brace_depth) IN
    IF d = 0 THEN Reads(c, a)
    ELSE CASE a = "{" -> [Reads(c, a) EXCEPT !.js_brace_depth[d] = @ + 1]
           [] a # "{" /\ c.js_brace_depth[d] = 0 ->
                 [c EXCEPT !.kind = "JS_TEMPLATE", !.js_brace_depth = SubSeq(@, 1, d - 1)]
           [] OTHER -> [Reads(c, a) EXCEPT !.js_brace_depth[d] = @ - 1]

JSAtom(c, a) ==
    CASE c.kind = "JS_REGEXP" /\ a = "[" -> [c EXCEPT !.js_regexp_charset = TRUE]
      [] c.kind = "JS_REGEXP" /\ a = "]" -> [c EXCEPT !.js_regexp_charset = FALSE]
      [] c.kind = "JS_REGEXP" /\ a = "/" /\ ~c.js_regexp_charset ->
            [c EXCEPT !.kind = "JS", !.js_context = "DIVISION"]
      [] c.kind = "JS" /\ a = "/" -> Slash(c)
      [] c.kind = "JS" /\ a \in {"{", "}"} -> Brace(c, a)
      [] c.kind = "JS" -> Reads(c, a)
      [] OTHER -> c

JSAtoms(c, t) == FoldLeft(JSAtom, c, Spelling(t))

JSCode(c, t, next) ==
    CASE EndsElement(c.element, t, next) /\ c.element = "script" ->
            [c EXCEPT !.kind = "TAG", !.element = Nothing, !.closing_tag = TRUE]
      [] t = DQ  -> [c EXCEPT !.kind = "JS_DQ_STRING"]
      [] t = SQ  -> [c EXCEPT !.kind = "JS_SQ_STRING"]
      [] t = "tick" -> [c EXCEPT !.kind = "JS_TEMPLATE"]
      [] t \in {"//", "<!--", "-->"} -> [c EXCEPT !.kind = "JS_LINE_COMMENT"]
      [] t = "/*" -> [c EXCEPT !.kind = "JS_BLOCK_COMMENT", !.comment_has_newline = FALSE]
      [] OTHER -> JSAtoms(c, t)

LiteralEnd(kind) ==
    CASE kind = "JS_DQ_STRING" -> DQ [] kind = "JS_SQ_STRING" -> SQ [] OTHER -> "tick"

JSLiteral(c, t) ==
    CASE t = LiteralEnd(c.kind) -> [c EXCEPT !.kind = "JS", !.js_context = "DIVISION"]
      [] c.kind = "JS_TEMPLATE" /\ t = "${" ->
            [c EXCEPT !.kind = "JS", !.js_context = "REGEXP",
                      !.js_brace_depth = Append(@, 0)]
      [] OTHER -> c

JSComment(c, t) ==
    CASE t = "nl" /\ c.kind = "JS_LINE_COMMENT" -> [c EXCEPT !.kind = "JS"]
      [] t = "nl" -> [c EXCEPT !.comment_has_newline = TRUE]
      [] t = "*/" /\ c.kind = "JS_BLOCK_COMMENT" ->
            [c EXCEPT !.kind = "JS", !.comment_has_newline = FALSE]
      [] OTHER -> c

\* _special_script_prefix: never taken for markup inside a literal.
SpecialPrefix(t) == t \in {"</script", "<script", "<!--"}

JSStep(c, t, next) ==
    CASE c.kind \in {"JS_BLOCK_COMMENT", "JS_LINE_COMMENT"} -> JSComment(c, t)
      [] c.kind = "JS" -> JSCode(c, t, next)
      [] SpecialPrefix(t) -> c
      [] c.kind = "JS_REGEXP" -> JSAtoms(c, t)
      [] OTHER -> JSLiteral(c, t)

----------------------------------------------------------------------------
(* CSS                                                                      *)

CSSCode(c, t) ==
    CASE t = "url("  -> [c EXCEPT !.kind = "CSS_URL"]
      [] t = "url('" -> [c EXCEPT !.kind = "CSS_SQ_URL"]
      [] t = "/*" -> [c EXCEPT !.kind = "CSS_BLOCK_COMMENT"]
      [] t = "//" -> [c EXCEPT !.kind = "CSS_LINE_COMMENT"]
      [] t = DQ   -> [c EXCEPT !.kind = "CSS_DQ_STRING"]
      [] t = SQ   -> [c EXCEPT !.kind = "CSS_SQ_STRING"]
      [] OTHER -> c

CSSString(c, t) ==
    LET ends == CASE c.kind \in {"CSS_DQ_STRING", "CSS_DQ_URL"} -> {DQ}
                  [] c.kind \in {"CSS_SQ_STRING", "CSS_SQ_URL"} -> {SQ}
                  [] OTHER -> Spaces \cup {")"}
    IN IF t \in ends THEN [c EXCEPT !.kind = "CSS"] ELSE AdvanceUrl(c, t)

CSSComments == {"CSS_BLOCK_COMMENT", "CSS_LINE_COMMENT"}

CSSComment(c, t) ==
    IF t = (IF c.kind = "CSS_LINE_COMMENT" THEN "nl" ELSE "*/")
    THEN [c EXCEPT !.kind = "CSS"] ELSE c

CSSStep(c, t, next) ==
    CASE c.element = "style" /\ EndsElement(c.element, t, next) ->
            [c EXCEPT !.kind = "TAG", !.element = Nothing, !.closing_tag = TRUE]
      [] c.kind \in CSSComments -> CSSComment(c, t)
      [] c.kind = "CSS" -> CSSCode(c, t)
      [] OTHER -> CSSString(c, t)

----------------------------------------------------------------------------
(* One token, with the token after it in the same text, or Nothing          *)

OpenCharset(c) == c.kind = "JS_REGEXP" /\ c.js_regexp_charset

\* The script or style sheet in an attribute value; its text is unescaped.
InValue(c, t, next) ==
    CASE c.delimiter = Nothing /\ InvalidUnquoted(t) -> Error(c)
      [] EndsValue(c, t) -> IF OpenCharset(c) THEN Error(c) ELSE FinishAttribute(c, t = ">")
      [] c.kind \in JSStates  -> JSStep(c, Unescape(t), next)
      [] c.kind \in CSSStates -> CSSStep(c, Unescape(t), next)
      [] c.kind = "ATTR" -> InAttr(c, t)
      [] OTHER -> c                              \* srcset

BeforeValue(c, t, next) ==
    CASE t \in Spaces -> c
      [] t \in Quotes -> [c EXCEPT !.kind = ValueKind(c), !.delimiter = t]
      [] OTHER -> InValue([c EXCEPT !.kind = ValueKind(c), !.delimiter = Nothing], t, next)

InText(c, t) ==
    CASE t = "<!--" -> [c EXCEPT !.kind = "COMMENT"]
      [] t \in Opening \cup Closing -> ConsumeTagStart(c, t)
      [] OTHER -> c

Step(c, t, next) ==
    CASE c.kind = "ERROR" -> c
      [] c.kind = "COMMENT" -> IF t = "-->" THEN [c EXCEPT !.kind = "TEXT"] ELSE c
      [] c.kind = "TEXT" -> InText(c, t)
      [] c.kind = "RCDATA" ->
            IF EndsElement(c.element, t, next)
            THEN [c EXCEPT !.kind = "TAG", !.closing_tag = TRUE, !.element = Nothing] ELSE c
      [] c.kind = "TAG" -> InTag(c, t, next)
      [] c.kind = "AFTER_NAME" -> AfterName(c, t, next)
      [] c.kind = "ATTR_NAME" -> InName(c, t, next)
      [] c.kind = "BEFORE_VALUE" -> BeforeValue(c, t, next)
      [] c.kind \in {"ATTR", "SRCSET"} \/ c.attribute \in {"JS", "CSS"} -> InValue(c, t, next)
      [] c.kind \in JSStates -> JSStep(c, t, next)
      [] OTHER -> CSSStep(c, t, next)

LineComments == {"JS_LINE_COMMENT", "CSS_LINE_COMMENT"}
BlockComments == {"JS_BLOCK_COMMENT", "CSS_BLOCK_COMMENT"}
JSLiterals == {"JS_DQ_STRING", "JS_SQ_STRING", "JS_TEMPLATE", "JS_REGEXP"}

\* Mutant: a line comment is dropped together with the newline that ends it.
EmittedWithoutNewline(c, t, next) ==
    CASE c.kind = "COMMENT" \/ (c.kind = "TEXT" /\ t = "<!--") -> <<>>
      [] c.kind \in LineComments /\ c.attribute = "PLAIN" -> <<>>
      [] c.kind = "JS" /\ c.attribute = "PLAIN" /\ t = "//" -> <<>>
      [] OTHER -> <<t>>

\* What the token becomes in the rewritten text: comments go, except where an
\* attribute holds the script, and "<" is escaped in RCDATA and in literals.
Emitted(c, t, next) ==
    LET d == Step(c, t, next)
        blank == IF c.comment_has_newline \/ t = "nl" THEN <<"nl">> ELSE <<" ">> IN
    CASE c.kind = "COMMENT" \/ (c.kind = "TEXT" /\ t = "<!--") -> <<>>
      [] c.kind = "RCDATA" /\ t \in Angles /\ d = c -> <<"x">>
      [] c.kind \in JSLiterals /\ SpecialPrefix(t) -> <<"x">>
      [] c.attribute \in {"JS", "CSS"} -> <<t>>
      [] c.kind \in LineComments -> IF d.kind = c.kind THEN <<>> ELSE <<t>>
      [] c.kind \in BlockComments /\ d.kind # c.kind -> IF t = "*/" THEN blank ELSE <<t>>
      [] c.kind \in BlockComments -> IF next = Nothing THEN blank ELSE <<>>
      [] d.kind \in LineComments \cup BlockComments -> <<>>
      [] OTHER -> <<t>>

\* Each token with the one that follows, if any.
Neighbours(text) ==
    [k \in 1 .. Len(text) |-> << text[k], IF k = Len(text) THEN Nothing ELSE text[k + 1] >>]

\* A comment of a style sheet is searched for its end in one piece: an end tag
\* is recognized only where a search starts.
Following(r, next) ==
    IF next # Nothing /\ r.ctx.kind \in CSSComments /\ r.searching THEN "x" ELSE next

\* One round of consume's loop, for a token t = e[1] in front of e[2].
Read(r, e) ==
    LET next == Following(r, e[2])
        d == Step(r.ctx, e[1], next)
    IN [ctx |-> d, out |-> r.out \o Emitted(r.ctx, e[1], next),
        searching |-> d.kind = r.ctx.kind]

\* consume: the context after a text, and the text that replaces it.
Consume(c, text) ==
    LET done == FoldLeft(Read, [ctx |-> c, out |-> <<>>, searching |-> FALSE],
                         Neighbours(text))
    IN [done EXCEPT !.ctx = IF OpenCharset(@) THEN Error(@) ELSE @]

----------------------------------------------------------------------------
(* Actions                                                                  *)

\* escape_kinds changes the context: the action stands for a name or a value.
AfterAction(c) ==
    CASE c.kind \in {"TAG", "AFTER_NAME"} ->
            [c EXCEPT !.kind = "ATTR_NAME", !.attribute = "PLAIN", !.attribute_name = <<>>]
      [] c.kind = "JS" -> [c EXCEPT !.js_context = "DIVISION"]
      [] c.kind = "BEFORE_VALUE" /\ c.attribute = "JS" ->
            [c EXCEPT !.kind = "JS", !.delimiter = Nothing, !.js_context = "DIVISION"]
      [] c.kind = "BEFORE_VALUE" /\ c.attribute # "JS" ->
            [c EXCEPT !.kind = ValueKind(c), !.delimiter = Nothing]
      [] OTHER -> c

AttributeTerminal(c) == IF c.delimiter \in Quotes THEN <<"ATTR">> ELSE <<"NOSPACE">>

WithAttributeTerminal(c, kinds) ==
    IF c.attribute \in {"JS", "CSS", "SRCSET"} THEN kinds \o AttributeTerminal(c)
    ELSE kinds

\* url, =, and only spaces after it, at the start or after a separator.
MetaContentUrlActive(value) ==
    \E k \in DOMAIN value :
        /\ value[k] = "url" /\ (k = 1 \/ value[k - 1] \in Spaces \cup {";"})
        /\ \E e \in k + 1 .. Len(value) :
              /\ value[e] = "="
              /\ \A s \in (k + 1 .. Len(value)) \ {e} : value[s] \in Spaces

UrlEscapers(c, filter, normalizer) ==
    CASE c.url_part = "NONE" -> filter \o normalizer
      [] c.url_part = "PRE_QUERY" -> normalizer
      [] OTHER -> <<"URL_ESCAPER">>

AttrEscapers(c) ==
    CASE c.attribute = "META_CONTENT" /\ MetaContentUrlActive(c.attribute_value) ->
            <<"URL_FILTER">> \o AttributeTerminal(c)
      [] c.attribute = "URL" ->
            UrlEscapers(c, <<"URL_FILTER">>, <<"URL_NORMALIZER">>) \o AttributeTerminal(c)
      [] OTHER -> AttributeTerminal(c)

\* An action is refused where its meaning is not known.
Ambiguous(c) ==
    \/ OpenCharset(c)
    \/ /\ c.url_part = "UNKNOWN"
       /\ \/ c.kind = "ATTR" /\ c.attribute = "URL"
          \/ c.kind \in CSSStates \ {"CSS", "CSS_BLOCK_COMMENT", "CSS_LINE_COMMENT"}

\* The escapers of an action in context c, in order.
EscapeKinds(c) ==
    LET d == AfterAction(c)
        with(kinds) == WithAttributeTerminal(d, kinds) IN
    CASE d.kind = "ERROR" \/ Ambiguous(d) -> <<"ERROR">>
      [] d.kind = "COMMENT" -> <<"COMMENT">>
      [] d.kind = "ATTR_NAME" -> <<"HTML_NAME">>
      [] d.kind = "RCDATA" -> <<"RCDATA">>
      [] d.kind \in {"JS_BLOCK_COMMENT", "JS_LINE_COMMENT",
                     "CSS_BLOCK_COMMENT", "CSS_LINE_COMMENT"} -> with(<<"COMMENT">>)
      [] d.kind = "JS" -> with(<<"JS_VALUE">>)
      [] d.kind \in {"JS_DQ_STRING", "JS_SQ_STRING"} -> with(<<"JS_STRING">>)
      [] d.kind \in {"JS_TEMPLATE", "JS_REGEXP"} -> with(<<d.kind>>)
      [] d.kind = "CSS" -> with(<<"CSS_VALUE">>)
      [] d.kind \in {"CSS_DQ_STRING", "CSS_SQ_STRING"} ->
            with(UrlEscapers(d, <<"URL_FILTER">>, <<"CSS_STRING">>))
      [] d.kind \in {"CSS_DQ_URL", "CSS_SQ_URL", "CSS_URL"} ->
            with(UrlEscapers(d, <<"URL_FILTER">>, <<"URL_NORMALIZER">>))
      [] d.kind = "SRCSET" -> with(<<"SRCSET">>)
      [] d.kind = "ATTR" -> AttrEscapers(d)
      [] OTHER -> <<"HTML">>

\* The context after an action.
Act(c) == IF EscapeKinds(c) = <<"ERROR">> THEN Error(c) ELSE AfterAction(c)
============================================================================
