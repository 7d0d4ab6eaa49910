------------------------ MODULE HtmlAnalyzer_proofs ------------------------
(***************************************************************************)
(* Theorems about the analysis of an association, for any programs, texts  *)
(* and limits.                                                             *)
(***************************************************************************)
EXTENDS HtmlAnalyzer, SequenceTheorems, FiniteSetTheorems, TLAPS

Scanning == INSTANCE FoldTheorems WITH Op <- JSAtom
Reading  == INSTANCE FoldTheorems WITH Op <- Read

----------------------------------------------------------------------------
(* The fields of a context                                                  *)

\* The values of the fields that hold a name.
Words ==
    {Nothing, "TEXT", "COMMENT", "RCDATA", "SRCSET", "ERROR", "TAG", "ATTR_NAME", "AFTER_NAME",
     "BEFORE_VALUE", "ATTR", "meta", "script", "style", "title", "PLAIN", "URL", "JS", "CSS",
     "JS_TYPE", "META_CONTENT", "NONE", "PRE_QUERY", "QUERY_OR_FRAGMENT", "UNKNOWN",
     "REGEXP", "DIVISION", "JS_DQ_STRING", "JS_SQ_STRING", "JS_TEMPLATE", "JS_REGEXP",
     "JS_BLOCK_COMMENT", "JS_LINE_COMMENT", "CSS_DQ_STRING", "CSS_SQ_STRING", "CSS_DQ_URL",
     "CSS_SQ_URL", "CSS_URL", "CSS_BLOCK_COMMENT", "CSS_LINE_COMMENT"} \cup Quotes

ContextRecords ==
    [kind : Words, delimiter : Words, element : Words, closing_tag : BOOLEAN,
     attribute : Words, url_part : Words, js_context : Words,
     js_brace_depth : Seq(Int), js_regexp_charset : BOOLEAN,
     comment_has_newline : BOOLEAN, attribute_value : Seq(STRING),
     attribute_name : Seq(STRING), meta_refresh : BOOLEAN]

LEMMA WordsHold ==
    /\ {"TEXT", "COMMENT", "RCDATA", "ERROR", "TAG", "ATTR_NAME", "AFTER_NAME", "BEFORE_VALUE",
        "ATTR"} \subseteq Words
    /\ {Nothing, "meta", "script", "style", "title"} \cup Quotes \subseteq Words
    /\ {"PLAIN", "URL", "JS", "CSS", "SRCSET", "JS_TYPE", "META_CONTENT"} \subseteq Words
    /\ {"NONE", "PRE_QUERY", "QUERY_OR_FRAGMENT", "UNKNOWN", "REGEXP", "DIVISION"} \subseteq Words
    /\ {"JS_DQ_STRING", "JS_SQ_STRING", "JS_TEMPLATE", "JS_REGEXP", "JS_BLOCK_COMMENT",
        "JS_LINE_COMMENT"} \subseteq Words
    /\ {"CSS_DQ_STRING", "CSS_SQ_STRING", "CSS_SQ_URL", "CSS_URL", "CSS_BLOCK_COMMENT",
        "CSS_LINE_COMMENT"} \subseteq Words
BY DEF Words

LEMMA SingletonType ==
    ASSUME NEW S, NEW e \in S
    PROVE  <<e>> \in Seq(S) /\ <<>> \in Seq(S)
OBVIOUS

LEMMA TextContextType == TextContext \in ContextRecords
BY WordsHold DEF TextContext, ContextRecords

LEMMA FieldTypes ==
    ASSUME NEW c \in ContextRecords
    PROVE  /\ c.kind \in Words /\ c.delimiter \in Words /\ c.element \in Words
           /\ c.attribute \in Words /\ c.url_part \in Words /\ c.js_context \in Words
           /\ c.closing_tag \in BOOLEAN /\ c.js_brace_depth \in Seq(Int)
           /\ c.attribute_value \in Seq(STRING) /\ c.attribute_name \in Seq(STRING)
BY DEF ContextRecords

\* A change of one field.
LEMMA UpdateTypes ==
    ASSUME NEW c \in ContextRecords
    PROVE  /\ \A w \in Words : /\ [c EXCEPT !.kind = w] \in ContextRecords
                               /\ [c EXCEPT !.element = w] \in ContextRecords
                               /\ [c EXCEPT !.url_part = w] \in ContextRecords
                               /\ [c EXCEPT !.js_context = w] \in ContextRecords
           /\ \A b \in BOOLEAN : /\ [c EXCEPT !.js_regexp_charset = b] \in ContextRecords
                                 /\ [c EXCEPT !.comment_has_newline = b] \in ContextRecords
                                 /\ [c EXCEPT !.meta_refresh = b] \in ContextRecords
           /\ \A v \in Seq(STRING) : /\ [c EXCEPT !.attribute_name = v] \in ContextRecords
                                     /\ [c EXCEPT !.attribute_value = v] \in ContextRecords
BY DEF ContextRecords

\* A change of kind and of one other field.
LEMMA KindUpdateTypes ==
    ASSUME NEW c \in ContextRecords, NEW k \in Words
    PROVE  /\ \A w \in Words : /\ [c EXCEPT !.kind = k, !.js_context = w] \in ContextRecords
                               /\ [c EXCEPT !.kind = k, !.delimiter = w] \in ContextRecords
           /\ \A b \in BOOLEAN : /\ [c EXCEPT !.kind = k, !.closing_tag = b] \in ContextRecords
                                 /\ [c EXCEPT !.kind = k, !.js_regexp_charset = b] \in ContextRecords
                                 /\ [c EXCEPT !.kind = k, !.comment_has_newline = b] \in ContextRecords
           /\ \A w \in Words, b \in BOOLEAN :
                 /\ [c EXCEPT !.kind = k, !.element = w, !.closing_tag = b] \in ContextRecords
                 /\ [c EXCEPT !.kind = k, !.closing_tag = b, !.element = w] \in ContextRecords
           /\ \A v \in Seq(STRING) : [c EXCEPT !.attribute_name = v, !.kind = k] \in ContextRecords
           /\ \A d \in Seq(Int) : [c EXCEPT !.kind = k, !.js_brace_depth = d] \in ContextRecords
           /\ \A w \in Words, d \in Seq(Int) :
                 [c EXCEPT !.kind = k, !.js_context = w, !.js_brace_depth = d] \in ContextRecords
BY DEF ContextRecords

LEMMA ErrorType ==
    ASSUME NEW c \in ContextRecords
    PROVE  Error(c) \in ContextRecords
BY WordsHold, UpdateTypes DEF Error

LEMMA TagTypes ==
    ASSUME NEW c \in ContextRecords, NEW t
    PROVE  ConsumeTagStart(c, t) \in ContextRecords
<1>1. ElementOf(t) \in Words
  BY WordsHold DEF ElementOf
<1>2. \A k \in Words, b \in BOOLEAN, e \in Words, a \in Words, u \in Words :
         [c EXCEPT !.kind = k, !.closing_tag = b, !.element = e, !.meta_refresh = FALSE,
                   !.attribute = a, !.url_part = u] \in ContextRecords
  BY DEF ContextRecords
<1>3. (t \in Closing) \in BOOLEAN
  OBVIOUS
<1>4. QED
  BY <1>1, <1>2, <1>3, WordsHold DEF ConsumeTagStart

LEMMA ContentType ==
    ASSUME NEW c \in ContextRecords
    PROVE  ElementContentKind(c) \in ContextRecords
BY WordsHold, UpdateTypes, KindUpdateTypes DEF ElementContentKind

LEMMA FinishType ==
    ASSUME NEW c \in ContextRecords, NEW tagEnd \in BOOLEAN
    PROVE  FinishAttribute(c, tagEnd) \in ContextRecords
<1> DEFINE typed == IF c.attribute = "JS_TYPE" /\ ~IsJsType(c.attribute_value)
                    THEN [c EXCEPT !.element = Nothing] ELSE c
           meta == IF typed.element = "meta" /\ c.attribute_name = <<"http-equiv">>
                   THEN [typed EXCEPT !.meta_refresh = c.attribute_value = <<"refresh">>]
                   ELSE typed
           left == IF tagEnd THEN ElementContentKind(meta) ELSE [meta EXCEPT !.kind = "TAG"]
<1>1. typed \in ContextRecords
  BY WordsHold, UpdateTypes
<1> HIDE DEF typed
<1>2. meta \in ContextRecords
  BY <1>1 DEF ContextRecords
<1> HIDE DEF meta
<1>3. [meta EXCEPT !.kind = "TAG"] \in ContextRecords
  BY <1>2, WordsHold, UpdateTypes
<1>4. left \in ContextRecords
  BY <1>2, <1>3, ContentType
<1> HIDE DEF left
<1>5. \A d \in Words, a \in Words, u \in Words, v \in Seq(STRING), e \in Seq(STRING) :
         [left EXCEPT !.delimiter = d, !.attribute = a, !.url_part = u,
                      !.attribute_value = v, !.attribute_name = e] \in ContextRecords
  BY <1>4 DEF ContextRecords
<1>6. <<>> \in Seq(STRING)
  OBVIOUS
<1>7. [left EXCEPT !.delimiter = Nothing, !.attribute = "PLAIN", !.url_part = "NONE",
                   !.attribute_value = <<>>, !.attribute_name = <<>>] \in ContextRecords
  BY <1>5, <1>6, WordsHold
<1>8. QED
  BY <1>7, Zenon DEF FinishAttribute, left, meta, typed

LEMMA InTagType ==
    ASSUME NEW c \in ContextRecords, NEW t \in STRING, NEW next
    PROVE  InTag(c, t, next) \in ContextRecords
<1> DEFINE a == CASE c.element = "script" /\ t = "type" -> "JS_TYPE"
                  [] c.element = "meta" /\ t = "content" /\ c.meta_refresh -> "META_CONTENT"
                  [] OTHER -> AttributeKind(t)
           k == IF EndsName(next) THEN "AFTER_NAME" ELSE "ATTR_NAME"
<1>1. AttributeKind(t) \in Words
  BY WordsHold DEF AttributeKind
<1>2. a \in Words /\ k \in Words
  BY <1>1, WordsHold
<1> HIDE DEF a, k
<1>3. \A u \in Words, v \in Seq(STRING), e \in Seq(STRING) :
         [c EXCEPT !.attribute_name = v, !.attribute = a, !.attribute_value = e,
                   !.url_part = u, !.kind = k] \in ContextRecords
  BY <1>2 DEF ContextRecords
<1>4. <<t>> \in Seq(STRING) /\ <<>> \in Seq(STRING)
  BY SingletonType
<1>5. [c EXCEPT !.attribute_name = <<t>>, !.attribute = a, !.attribute_value = <<>>,
                !.url_part = "NONE", !.kind = k] \in ContextRecords
  BY <1>3, <1>4, WordsHold
<1>6. QED
  BY <1>5, ErrorType, ContentType, Zenon DEF InTag, a, k

LEMMA AfterNameType ==
    ASSUME NEW c \in ContextRecords, NEW t \in STRING, NEW next
    PROVE  AfterName(c, t, next) \in ContextRecords
<1>1. [c EXCEPT !.kind = "BEFORE_VALUE"] \in ContextRecords
  BY WordsHold, UpdateTypes
<1>2. \A k \in Words, a \in Words, u \in Words :
         [c EXCEPT !.kind = k, !.attribute = a, !.url_part = u] \in ContextRecords
  BY DEF ContextRecords
<1>3. [c EXCEPT !.kind = "TAG", !.attribute = "PLAIN", !.url_part = "NONE"] \in ContextRecords
  BY <1>2, WordsHold
<1>4. QED
  BY <1>1, <1>3, InTagType, Zenon DEF AfterName

LEMMA InNameType ==
    ASSUME NEW c \in ContextRecords, NEW t \in STRING, NEW next
    PROVE  InName(c, t, next) \in ContextRecords
<1>1. [c EXCEPT !.kind = "AFTER_NAME"] \in ContextRecords
  BY WordsHold, UpdateTypes
<1> DEFINE k == IF EndsName(next) THEN "AFTER_NAME" ELSE c.kind
<1>2. k \in Words
  BY WordsHold, FieldTypes
<1> HIDE DEF k
<1>3. Append(c.attribute_name, t) \in Seq(STRING)
  BY FieldTypes
<1>4. [c EXCEPT !.attribute_name = Append(@, t), !.kind = k] \in ContextRecords
  BY <1>2, <1>3, KindUpdateTypes
<1>5. QED
  BY <1>1, <1>4, AfterNameType, ErrorType, Zenon DEF InName, k

LEMMA ValueKindType ==
    ASSUME NEW c \in ContextRecords
    PROVE  ValueKind(c) \in Words
BY WordsHold, FieldTypes DEF ValueKind

LEMMA UrlType ==
    ASSUME NEW c \in ContextRecords, NEW t
    PROVE  AdvanceUrl(c, t) \in ContextRecords
BY WordsHold, UpdateTypes DEF AdvanceUrl

LEMMA InAttrType ==
    ASSUME NEW c \in ContextRecords, NEW t \in STRING
    PROVE  InAttr(c, t) \in ContextRecords
<1>1. Append(c.attribute_value, t) \in Seq(STRING)
  BY FieldTypes
<1>2. [c EXCEPT !.attribute_value = Append(@, t)] \in ContextRecords
  BY <1>1, UpdateTypes
<1>3. QED
  BY <1>2, UrlType DEF InAttr

----------------------------------------------------------------------------
(* Scripts and style sheets keep the fields                                 *)

LEMMA ReadsType ==
    ASSUME NEW c \in ContextRecords, NEW a
    PROVE  Reads(c, a) \in ContextRecords
<1>1. NextJSContext(a, c.js_context) \in Words
  BY WordsHold, FieldTypes DEF NextJSContext
<1>2. QED
  BY <1>1, UpdateTypes DEF Reads

LEMMA SlashType ==
    ASSUME NEW c \in ContextRecords
    PROVE  Slash(c) \in ContextRecords
BY WordsHold, UpdateTypes, KindUpdateTypes, ErrorType DEF Slash

LEMMA DepthTypes ==
    ASSUME NEW s \in Seq(Int), NEW d, d = Len(s), d # 0
    PROVE  /\ [s EXCEPT ![d] = @ + 1] \in Seq(Int) /\ [s EXCEPT ![d] = @ - 1] \in Seq(Int)
           /\ SubSeq(s, 1, d - 1) \in Seq(Int) /\ Append(s, 0) \in Seq(Int)
OBVIOUS

LEMMA BraceType ==
    ASSUME NEW c \in ContextRecords, NEW a
    PROVE  Brace(c, a) \in ContextRecords
<1> DEFINE s == c.js_brace_depth
           d == Len(s)
           r == Reads(c, a)
<1>1. s \in Seq(Int) /\ d \in Nat
  BY FieldTypes
<1>2. r \in ContextRecords /\ r.js_brace_depth = s
  <2>1. r.js_brace_depth = s
    BY DEF Reads, ContextRecords
  <2>2. QED
    BY <2>1, ReadsType
<1>3. CASE d = 0
  BY <1>2, <1>3, Zenon DEF Brace
<1>4. CASE d # 0
  <2>1. /\ [s EXCEPT ![d] = @ + 1] \in Seq(Int) /\ [s EXCEPT ![d] = @ - 1] \in Seq(Int)
        /\ SubSeq(s, 1, d - 1) \in Seq(Int)
    BY <1>1, <1>4, DepthTypes
  <2>2. \A e \in Seq(Int) : [r EXCEPT !.js_brace_depth = e] \in ContextRecords
    BY <1>2 DEF ContextRecords
  <2>3. [c EXCEPT !.kind = "JS_TEMPLATE", !.js_brace_depth = SubSeq(s, 1, d - 1)] \in ContextRecords
    BY <2>1, KindUpdateTypes, WordsHold
  <2>4. /\ [r EXCEPT !.js_brace_depth = [s EXCEPT ![d] = @ + 1]] \in ContextRecords
        /\ [r EXCEPT !.js_brace_depth = [s EXCEPT ![d] = @ - 1]] \in ContextRecords
    BY <2>1, <2>2
  <2>5. /\ [r EXCEPT !.js_brace_depth[d] = @ + 1] = [r EXCEPT !.js_brace_depth = [s EXCEPT ![d] = @ + 1]]
        /\ [r EXCEPT !.js_brace_depth[d] = @ - 1] = [r EXCEPT !.js_brace_depth = [s EXCEPT ![d] = @ - 1]]
    BY <1>2
  <2>6. QED
    BY <1>2, <1>4, <2>3, <2>4, <2>5, Zenon DEF Brace
<1>5. QED
  BY <1>3, <1>4

LEMMA AtomType ==
    ASSUME NEW c \in ContextRecords, NEW a
    PROVE  JSAtom(c, a) \in ContextRecords
BY WordsHold, UpdateTypes, KindUpdateTypes, SlashType, BraceType, ReadsType DEF JSAtom

LEMMA AtomsType ==
    ASSUME NEW c \in ContextRecords, NEW t
    PROVE  JSAtoms(c, t) \in ContextRecords
<1> DEFINE s == Spelling(t)
           E == {t, "/", "*", "x", "{", "<", "("}
<1>1. s \in Seq(E)
  <2>1. /\ <<t>> \in Seq(E) /\ <<"/", "/">> \in Seq(E) /\ <<"/", "*">> \in Seq(E)
        /\ <<"*", "/">> \in Seq(E) /\ <<"x", "{">> \in Seq(E) /\ <<"<", "/", "x">> \in Seq(E)
        /\ <<"<", "x">> \in Seq(E) /\ <<"x", "(">> \in Seq(E)
    OBVIOUS
  <2>2. QED
    BY <2>1, Zenon DEF Spelling
<1>2. Scanning!Closed(ContextRecords, E)
  BY AtomType DEF Scanning!Closed
<1> HIDE DEF s, E
<1>3. Scanning!Folded(c, s) \in ContextRecords
  BY <1>1, <1>2, Scanning!FoldType
<1>4. FoldLeft(JSAtom, c, s) = Scanning!Folded(c, s)
  BY Zenon DEF FoldLeft, MapThenFoldSet, Max, Scanning!Folded, Scanning!Iterated, Scanning!Max
<1>5. QED
  BY <1>3, <1>4 DEF JSAtoms, s

LEMMA CodeType ==
    ASSUME NEW c \in ContextRecords, NEW t, NEW next
    PROVE  JSCode(c, t, next) \in ContextRecords
BY WordsHold, UpdateTypes, KindUpdateTypes, AtomsType DEF JSCode

LEMMA LiteralType ==
    ASSUME NEW c \in ContextRecords, NEW t
    PROVE  JSLiteral(c, t) \in ContextRecords
<1>1. Append(c.js_brace_depth, 0) \in Seq(Int)
  BY FieldTypes
<1>2. [c EXCEPT !.kind = "JS", !.js_context = "REGEXP", !.js_brace_depth = Append(@, 0)]
         \in ContextRecords
  BY <1>1, KindUpdateTypes, WordsHold
<1>3. [c EXCEPT !.kind = "JS", !.js_context = "DIVISION"] \in ContextRecords
  BY KindUpdateTypes, WordsHold
<1>4. QED
  BY <1>2, <1>3, Zenon DEF JSLiteral

LEMMA CommentType ==
    ASSUME NEW c \in ContextRecords, NEW t
    PROVE  JSComment(c, t) \in ContextRecords
BY WordsHold, UpdateTypes, KindUpdateTypes DEF JSComment

LEMMA ScriptType ==
    ASSUME NEW c \in ContextRecords, NEW t, NEW next
    PROVE  JSStep(c, t, next) \in ContextRecords
BY CommentType, CodeType, AtomsType, LiteralType, Zenon DEF JSStep

LEMMA StyleType ==
    ASSUME NEW c \in ContextRecords, NEW t, NEW next
    PROVE  CSSStep(c, t, next) \in ContextRecords
<1>1. CSSCode(c, t) \in ContextRecords
  BY WordsHold, UpdateTypes DEF CSSCode
<1>2. CSSString(c, t) \in ContextRecords
  BY WordsHold, UpdateTypes, UrlType DEF CSSString
<1>3. CSSComment(c, t) \in ContextRecords
  BY WordsHold, UpdateTypes DEF CSSComment
<1>4. [c EXCEPT !.kind = "TAG", !.element = Nothing, !.closing_tag = TRUE] \in ContextRecords
  BY WordsHold, KindUpdateTypes
<1>5. QED
  BY <1>1, <1>2, <1>3, <1>4, Zenon DEF CSSStep

----------------------------------------------------------------------------
(* Texts and actions keep the fields                                        *)

LEMMA InValueType ==
    ASSUME NEW c \in ContextRecords, NEW t \in STRING, NEW next
    PROVE  InValue(c, t, next) \in ContextRecords
<1>1. (t = ">") \in BOOLEAN
  OBVIOUS
<1>2. FinishAttribute(c, t = ">") \in ContextRecords
  BY <1>1, FinishType
<1>3. QED
  BY <1>2, ErrorType, ScriptType, StyleType, InAttrType, Zenon DEF InValue

LEMMA BeforeValueType ==
    ASSUME NEW c \in ContextRecords, NEW t \in STRING, NEW next
    PROVE  BeforeValue(c, t, next) \in ContextRecords
<1>1. \A w \in Words : [c EXCEPT !.kind = ValueKind(c), !.delimiter = w] \in ContextRecords
  BY ValueKindType, KindUpdateTypes
<1>2. [c EXCEPT !.kind = ValueKind(c), !.delimiter = Nothing] \in ContextRecords
  BY <1>1, WordsHold
<1>3. t \in Quotes => [c EXCEPT !.kind = ValueKind(c), !.delimiter = t] \in ContextRecords
  BY <1>1, WordsHold
<1>4. QED
  BY <1>2, <1>3, InValueType, Zenon DEF BeforeValue

LEMMA StepType ==
    ASSUME NEW c \in ContextRecords, NEW t \in STRING, NEW next
    PROVE  Step(c, t, next) \in ContextRecords
<1>1. [c EXCEPT !.kind = "COMMENT"] \in ContextRecords /\ [c EXCEPT !.kind = "TEXT"] \in ContextRecords
  BY WordsHold, UpdateTypes
<1>2. [c EXCEPT !.kind = "TAG", !.closing_tag = TRUE, !.element = Nothing] \in ContextRecords
  BY WordsHold, KindUpdateTypes
<1>3. InText(c, t) \in ContextRecords
  BY <1>1, TagTypes, Zenon DEF InText
<1>4. QED
  BY <1>1, <1>2, <1>3, InTagType, AfterNameType, InNameType, BeforeValueType, InValueType,
     ScriptType, StyleType, Zenon DEF Step

\* The tokens of a rewritten text.
Tokens == STRING \cup {"x", "nl", " "}

LEMMA EmittedType ==
    ASSUME NEW c, NEW t \in STRING, NEW next
    PROVE  Emitted(c, t, next) \in Seq(Tokens)
<1>1. t \in Tokens /\ "x" \in Tokens /\ "nl" \in Tokens /\ " " \in Tokens
  BY DEF Tokens
<1>2. /\ <<t>> \in Seq(Tokens) /\ <<"x">> \in Seq(Tokens) /\ <<"nl">> \in Seq(Tokens)
      /\ <<" ">> \in Seq(Tokens) /\ <<>> \in Seq(Tokens)
  BY <1>1, SingletonType
<1>3. QED
  BY <1>2, Zenon DEF Emitted

\* What consume's loop goes through.
Readings == [ctx : ContextRecords, out : Seq(Tokens), searching : BOOLEAN]

LEMMA ReadType ==
    ASSUME NEW r \in Readings, NEW t \in STRING, NEW n
    PROVE  Read(r, <<t, n>>) \in Readings
<1> DEFINE next == Following(r, n)
           d == Step(r.ctx, t, next)
           o == Emitted(r.ctx, t, next)
<1>1. r.ctx \in ContextRecords /\ r.out \in Seq(Tokens)
  BY DEF Readings
<1>2. d \in ContextRecords /\ o \in Seq(Tokens)
  BY <1>1, StepType, EmittedType
<1>3. Read(r, <<t, n>>) = [ctx |-> d, out |-> r.out \o o, searching |-> d.kind = r.ctx.kind]
  BY DEF Read
<1> HIDE DEF next, d, o
<1>4. r.out \o o \in Seq(Tokens) /\ (d.kind = r.ctx.kind) \in BOOLEAN
  BY <1>1, <1>2
<1> DEFINE b == d.kind = r.ctx.kind
           e == r.out \o o
<1>5. b \in BOOLEAN /\ e \in Seq(Tokens) /\ Read(r, <<t, n>>) = [ctx |-> d, out |-> e, searching |-> b]
  BY <1>3, <1>4
<1> HIDE DEF b, e
<1>6. QED
  BY <1>2, <1>5 DEF Readings

LEMMA ConsumeType ==
    ASSUME NEW c \in ContextRecords, NEW text \in Seq(STRING)
    PROVE  Consume(c, text).ctx \in ContextRecords
<1> DEFINE s == Neighbours(text)
           next(k) == IF k = Len(text) THEN Nothing ELSE text[k + 1]
           N == {next(k) : k \in 1 .. Len(text)}
           E == STRING \X N
           base == [ctx |-> c, out |-> <<>>, searching |-> FALSE]
           done == FoldLeft(Read, base, s)
<1>1. s \in Seq(E)
  <2>1. \A k \in 1 .. Len(text) : <<text[k], next(k)>> \in E
    OBVIOUS
  <2>2. s = [k \in 1 .. Len(text) |-> <<text[k], next(k)>>]
    BY DEF Neighbours
  <2>3. Len(text) \in Nat
    OBVIOUS
  <2> HIDE DEF E, next, s
  <2>4. QED
    BY <2>1, <2>2, <2>3
<1>2. Reading!Closed(Readings, E)
  <2>1. ASSUME NEW r \in Readings, NEW e \in E
        PROVE  Read(r, e) \in Readings
    <3> HIDE DEF N
    <3>1. e[1] \in STRING /\ e = <<e[1], e[2]>>
      OBVIOUS
    <3>2. QED
      BY <3>1, ReadType
  <2>2. QED
    BY <2>1 DEF Reading!Closed
<1>3. base \in Readings
  <2>1. <<>> \in Seq(Tokens)
    OBVIOUS
  <2>2. QED
    BY <2>1 DEF Readings
<1> HIDE DEF s, E, base
<1>4. Reading!Folded(base, s) \in Readings
  BY <1>1, <1>2, <1>3, Reading!FoldType
<1>5. done = Reading!Folded(base, s)
  BY Zenon DEF FoldLeft, MapThenFoldSet, Max, Reading!Folded, Reading!Iterated, Reading!Max
<1>6. done \in Readings
  BY <1>4, <1>5
<1> HIDE DEF done
<1>7. done.ctx \in ContextRecords
  BY <1>6 DEF Readings
<1>8. Consume(c, text) = [done EXCEPT !.ctx = IF OpenCharset(@) THEN Error(@) ELSE @]
  BY DEF Consume, done, base, s
<1>9. Consume(c, text).ctx = IF OpenCharset(done.ctx) THEN Error(done.ctx) ELSE done.ctx
  BY <1>6, <1>8 DEF Readings
<1>10. QED
  BY <1>7, <1>9, ErrorType

LEMMA AfterActionType ==
    ASSUME NEW c \in ContextRecords
    PROVE  AfterAction(c) \in ContextRecords
<1>1. /\ \A k \in Words, a \in Words, v \in Seq(STRING) :
            [c EXCEPT !.kind = k, !.attribute = a, !.attribute_name = v] \in ContextRecords
      /\ \A k \in Words, d \in Words, j \in Words :
            [c EXCEPT !.kind = k, !.delimiter = d, !.js_context = j] \in ContextRecords
  BY DEF ContextRecords
<1>2. <<>> \in Seq(STRING)
  OBVIOUS
<1>3. [c EXCEPT !.kind = "ATTR_NAME", !.attribute = "PLAIN", !.attribute_name = <<>>] \in ContextRecords
  BY <1>1, <1>2, WordsHold
<1>4. [c EXCEPT !.kind = "JS", !.delimiter = Nothing, !.js_context = "DIVISION"] \in ContextRecords
  BY <1>1, WordsHold
<1>5. [c EXCEPT !.js_context = "DIVISION"] \in ContextRecords
  BY UpdateTypes, WordsHold
<1>6. [c EXCEPT !.kind = ValueKind(c), !.delimiter = Nothing] \in ContextRecords
  BY ValueKindType, KindUpdateTypes, WordsHold
<1>7. QED
  BY <1>3, <1>4, <1>5, <1>6, Zenon DEF AfterAction

LEMMA NudgeType ==
    ASSUME NEW c \in ContextRecords
    PROVE  Nudge(c) \in ContextRecords
<1>1. \A k \in Words, a \in Words, v \in Seq(STRING), u \in Words :
         [c EXCEPT !.kind = k, !.attribute = a, !.attribute_name = v, !.url_part = u] \in ContextRecords
  BY DEF ContextRecords
<1>2. <<>> \in Seq(STRING)
  OBVIOUS
<1>3. [c EXCEPT !.kind = "ATTR_NAME", !.attribute = "PLAIN", !.attribute_name = <<>>,
                !.url_part = "NONE"] \in ContextRecords
  BY <1>1, <1>2, WordsHold
<1>4. [c EXCEPT !.attribute_name = <<>>] \in ContextRecords
  BY <1>2, UpdateTypes
<1>5. QED
  BY <1>3, <1>4, AfterActionType, Zenon DEF Nudge

LEMMA JoinType ==
    ASSUME NEW l \in ContextRecords, NEW r \in ContextRecords
    PROVE  Join(l, r) \in ContextRecords
<1>1. ASSUME NEW x \in ContextRecords, NEW y
      PROVE  Merge(x, y) \in ContextRecords
  <2>1. [x EXCEPT !.url_part = "UNKNOWN"] \in ContextRecords
    BY UpdateTypes, WordsHold
  <2>2. [x EXCEPT !.js_context = "UNKNOWN"] \in ContextRecords
    BY UpdateTypes, WordsHold
  <2>3. QED
    BY <2>1, <2>2, ErrorType, Zenon DEF Merge
<1>2. QED
  BY <1>1, NudgeType, Zenon DEF Join

----------------------------------------------------------------------------
(* Joins forget nothing                                                     *)

\* m stands for b itself.
Under(m, b) ==
    /\ \A f \in DOMAIN m \ {"url_part", "js_context"} : m[f] = b[f]
    /\ m.url_part \in {b.url_part, "UNKNOWN"}
    /\ m.js_context \in {b.js_context, "UNKNOWN"}

LEMMA CoversUnder ==
    ASSUME NEW m, NEW c
    PROVE  Covers(m, c) <=> Under(m, c) \/ Under(m, Nudge(c))
BY DEF Covers, Under

\* The fields that m and b have in common.
SameRest(m, b) ==
    /\ m.kind = b.kind /\ m.delimiter = b.delimiter /\ m.element = b.element
    /\ m.closing_tag = b.closing_tag /\ m.attribute = b.attribute
    /\ m.js_brace_depth = b.js_brace_depth /\ m.js_regexp_charset = b.js_regexp_charset
    /\ m.comment_has_newline = b.comment_has_newline
    /\ m.attribute_value = b.attribute_value /\ m.attribute_name = b.attribute_name
    /\ m.meta_refresh = b.meta_refresh

LEMMA UnderFields ==
    ASSUME NEW m \in ContextRecords, NEW b
    PROVE  Under(m, b) <=> /\ SameRest(m, b)
                           /\ m.url_part \in {b.url_part, "UNKNOWN"}
                           /\ m.js_context \in {b.js_context, "UNKNOWN"}
<1>1. DOMAIN m = {"kind", "delimiter", "element", "closing_tag", "attribute", "url_part",
                  "js_context", "js_brace_depth", "js_regexp_charset", "comment_has_newline",
                  "attribute_value", "attribute_name", "meta_refresh"}
  BY DEF ContextRecords
<1>2. QED
  BY <1>1 DEF Under, SameRest

LEMMA UnderItself ==
    ASSUME NEW c \in ContextRecords
    PROVE  Under(c, c)
BY DEF Under

LEMMA UnderTransitive ==
    ASSUME NEW m \in ContextRecords, NEW l \in ContextRecords, NEW b \in ContextRecords,
           Under(m, l), Under(l, b)
    PROVE  Under(m, b)
BY UnderFields DEF SameRest

\* What a context becomes when a name may follow or a value begins.
LEMMA NudgedFields ==
    ASSUME NEW c \in ContextRecords
    PROVE  /\ c.kind \in {"TAG", "AFTER_NAME"} =>
                 Nudge(c) = [c EXCEPT !.kind = "ATTR_NAME", !.attribute = "PLAIN",
                                      !.attribute_name = <<>>, !.url_part = "NONE"]
           /\ c.kind = "ATTR_NAME" => Nudge(c) = [c EXCEPT !.attribute_name = <<>>]
           /\ c.kind = "BEFORE_VALUE" /\ c.attribute = "JS" =>
                 Nudge(c) = [c EXCEPT !.kind = "JS", !.delimiter = Nothing, !.js_context = "DIVISION"]
           /\ c.kind = "BEFORE_VALUE" /\ c.attribute # "JS" =>
                 Nudge(c) = [c EXCEPT !.kind = ValueKind(c), !.delimiter = Nothing]
           /\ c.kind \notin {"TAG", "AFTER_NAME", "ATTR_NAME", "BEFORE_VALUE"} => Nudge(c) = c
<1>1. CASE c.kind \in {"TAG", "AFTER_NAME"}
  BY <1>1 DEF Nudge
<1>2. CASE c.kind = "ATTR_NAME"
  BY <1>2 DEF Nudge
<1>3. CASE c.kind = "BEFORE_VALUE"
  <2>1. Nudge(c) = AfterAction(c)
    BY <1>3 DEF Nudge
  <2>2. c.attribute = "JS" =>
           AfterAction(c) = [c EXCEPT !.kind = "JS", !.delimiter = Nothing, !.js_context = "DIVISION"]
    BY <1>3, Zenon DEF AfterAction
  <2>3. c.attribute # "JS" => AfterAction(c) = [c EXCEPT !.kind = ValueKind(c), !.delimiter = Nothing]
    BY <1>3, Zenon DEF AfterAction
  <2>4. QED
    BY <1>3, <2>1, <2>2, <2>3
<1>4. CASE c.kind \notin {"TAG", "AFTER_NAME", "ATTR_NAME", "BEFORE_VALUE"}
  BY <1>4 DEF Nudge
<1>5. QED
  BY <1>1, <1>2, <1>3, <1>4

LEMMA NudgedTwice ==
    ASSUME NEW c \in ContextRecords
    PROVE  Nudge(Nudge(c)) = Nudge(c)
<1> DEFINE n == Nudge(c)
<1>1. n \in ContextRecords
  BY NudgeType
<1>2. CASE c.kind \in {"TAG", "AFTER_NAME", "ATTR_NAME"}
  <2>1. n.kind = "ATTR_NAME" /\ n.attribute_name = <<>>
    BY <1>2, NudgedFields DEF ContextRecords
  <2>2. Nudge(n) = [n EXCEPT !.attribute_name = <<>>]
    BY <1>1, <2>1, NudgedFields
  <2> HIDE DEF n
  <2>3. [n EXCEPT !.attribute_name = <<>>] = n
    BY <1>1, <2>1 DEF ContextRecords
  <2>4. QED
    BY <2>2, <2>3 DEF n
<1>3. CASE c.kind = "BEFORE_VALUE"
  <2>1. n.kind \in {"JS", "CSS", "SRCSET", "ATTR"}
    BY <1>3, NudgedFields DEF ValueKind, ContextRecords
  <2>2. n.kind \notin {"TAG", "AFTER_NAME", "ATTR_NAME", "BEFORE_VALUE"}
    BY <2>1
  <2>3. QED
    BY <1>1, <2>2, NudgedFields
<1>4. CASE c.kind \notin {"TAG", "AFTER_NAME", "ATTR_NAME", "BEFORE_VALUE"}
  BY <1>4, NudgedFields
<1>5. QED
  BY <1>2, <1>3, <1>4

LEMMA UnderNudged ==
    ASSUME NEW l \in ContextRecords, NEW b \in ContextRecords, Under(l, b)
    PROVE  Under(Nudge(l), Nudge(b))
<1> DEFINE x == Nudge(l)
           y == Nudge(b)
<1>1. x \in ContextRecords /\ y \in ContextRecords
  BY NudgeType
<1>2. /\ SameRest(l, b) /\ l.url_part \in {b.url_part, "UNKNOWN"}
      /\ l.js_context \in {b.js_context, "UNKNOWN"}
  BY UnderFields
<1>3. l.kind = b.kind /\ l.attribute = b.attribute
  BY <1>2 DEF SameRest
<1>4. SUFFICES /\ SameRest(x, y) /\ x.url_part \in {y.url_part, "UNKNOWN"}
               /\ x.js_context \in {y.js_context, "UNKNOWN"}
  BY <1>1, UnderFields
<1> DEFINE Goal == /\ SameRest(x, y) /\ x.url_part \in {y.url_part, "UNKNOWN"}
                   /\ x.js_context \in {y.js_context, "UNKNOWN"}
<1>5. CASE l.kind \in {"TAG", "AFTER_NAME"}
  <2>1. x = [l EXCEPT !.kind = "ATTR_NAME", !.attribute = "PLAIN", !.attribute_name = <<>>,
                      !.url_part = "NONE"]
    BY <1>5, NudgedFields
  <2>2. y = [b EXCEPT !.kind = "ATTR_NAME", !.attribute = "PLAIN", !.attribute_name = <<>>,
                      !.url_part = "NONE"]
    BY <1>3, <1>5, NudgedFields
  <2> HIDE DEF x, y
  <2>3. QED
    BY <1>2, <2>1, <2>2 DEF SameRest, ContextRecords
<1>6. CASE l.kind = "ATTR_NAME"
  <2>1. x = [l EXCEPT !.attribute_name = <<>>] /\ y = [b EXCEPT !.attribute_name = <<>>]
    BY <1>3, <1>6, NudgedFields
  <2> HIDE DEF x, y
  <2>2. QED
    BY <1>2, <2>1 DEF SameRest, ContextRecords
<1>7. CASE l.kind = "BEFORE_VALUE" /\ l.attribute = "JS"
  <2>1. x = [l EXCEPT !.kind = "JS", !.delimiter = Nothing, !.js_context = "DIVISION"]
    BY <1>7, NudgedFields
  <2>2. y = [b EXCEPT !.kind = "JS", !.delimiter = Nothing, !.js_context = "DIVISION"]
    BY <1>3, <1>7, NudgedFields
  <2> HIDE DEF x, y
  <2>3. QED
    BY <1>2, <2>1, <2>2 DEF SameRest, ContextRecords
<1>8. CASE l.kind = "BEFORE_VALUE" /\ l.attribute # "JS"
  <2>1. x = [l EXCEPT !.kind = ValueKind(l), !.delimiter = Nothing]
    BY <1>8, NudgedFields
  <2>2. y = [b EXCEPT !.kind = ValueKind(b), !.delimiter = Nothing]
    BY <1>3, <1>8, NudgedFields
  <2>3. ValueKind(l) = ValueKind(b)
    BY <1>3 DEF ValueKind
  <2> HIDE DEF x, y
  <2>4. QED
    BY <1>2, <2>1, <2>2, <2>3 DEF SameRest, ContextRecords
<1>9. CASE l.kind \notin {"TAG", "AFTER_NAME", "ATTR_NAME", "BEFORE_VALUE"}
  <2>1. x = l /\ y = b
    BY <1>3, <1>9, NudgedFields
  <2> HIDE DEF x, y
  <2>2. QED
    BY <1>2, <2>1
<1>10. QED
  BY <1>5, <1>6, <1>7, <1>8, <1>9

LEMMA MergeUnder ==
    ASSUME NEW l \in ContextRecords, NEW r \in ContextRecords, Merge(l, r).kind # "ERROR"
    PROVE  Under(Merge(l, r), l) /\ Under(Merge(l, r), r)
<1> DEFINE m == Merge(l, r)
<1>1. Error(l).kind = "ERROR"
  BY DEF Error, ContextRecords
<1>2. CASE l = r
  <2>1. Differing(l, r) = {}
    BY <1>2 DEF Differing
  <2>2. m = l
    BY <1>2, <2>1, Zenon DEF Merge
  <2>3. QED
    BY <1>2, <2>2, UnderItself
<1>3. CASE Differing(l, r) = {"url_part"}
  <2>1. l # r
    BY <1>3 DEF Differing
  <2>2. m = [l EXCEPT !.url_part = "UNKNOWN"]
    BY <1>3, <2>1 DEF Merge
  <2>3. m \in ContextRecords
    <3>1. [l EXCEPT !.url_part = "UNKNOWN"] \in ContextRecords
      BY UpdateTypes, WordsHold
    <3>2. QED
      BY <2>2, <3>1
  <2>4. \A f \in DOMAIN l : f # "url_part" => l[f] = r[f]
    BY <1>3 DEF Differing
  <2>5. SameRest(l, r) /\ l.js_context = r.js_context
    BY <2>4 DEF SameRest, ContextRecords
  <2> HIDE DEF m
  <2>6. SameRest(m, l) /\ m.js_context = l.js_context /\ m.url_part = "UNKNOWN"
    BY <2>2 DEF SameRest, ContextRecords
  <2>7. SameRest(m, r)
    BY <2>5, <2>6 DEF SameRest
  <2>8. Under(m, l) /\ Under(m, r)
    BY <2>3, <2>5, <2>6, <2>7, UnderFields
  <2>9. QED
    BY <2>8 DEF m
<1>4. CASE Differing(l, r) = {"js_context"}
  <2>1. l # r
    BY <1>4 DEF Differing
  <2>2. m = [l EXCEPT !.js_context = "UNKNOWN"]
    BY <1>4, <2>1 DEF Merge
  <2>3. m \in ContextRecords
    <3>1. [l EXCEPT !.js_context = "UNKNOWN"] \in ContextRecords
      BY UpdateTypes, WordsHold
    <3>2. QED
      BY <2>2, <3>1
  <2>4. \A f \in DOMAIN l : f # "js_context" => l[f] = r[f]
    BY <1>4 DEF Differing
  <2>5. SameRest(l, r) /\ l.url_part = r.url_part
    BY <2>4 DEF SameRest, ContextRecords
  <2> HIDE DEF m
  <2>6. SameRest(m, l) /\ m.url_part = l.url_part /\ m.js_context = "UNKNOWN"
    BY <2>2 DEF SameRest, ContextRecords
  <2>7. SameRest(m, r)
    BY <2>5, <2>6 DEF SameRest
  <2>8. Under(m, l) /\ Under(m, r)
    BY <2>3, <2>5, <2>6, <2>7, UnderFields
  <2>9. QED
    BY <2>8 DEF m
<1>5. CASE l # r /\ Differing(l, r) # {"url_part"} /\ Differing(l, r) # {"js_context"}
  <2>1. m = Error(l)
    BY <1>5, Zenon DEF Merge
  <2>2. QED
    BY <1>1, <2>1
<1>6. QED
  BY <1>2, <1>3, <1>4, <1>5

\* A join that succeeds stands for the new context, and for every context that
\* the old one stood for.
LEMMA JoinCovers ==
    ASSUME NEW l \in ContextRecords, NEW r \in ContextRecords, Join(l, r).kind # "ERROR"
    PROVE  /\ Covers(Join(l, r), r)
           /\ \A c \in ContextRecords : Covers(l, c) => Covers(Join(l, r), c)
<1> DEFINE j == Join(l, r)
<1>1. j \in ContextRecords /\ Nudge(l) \in ContextRecords /\ Nudge(r) \in ContextRecords
  BY JoinType, NudgeType
<1>2. CASE j = Merge(l, r)
  <2>1. Under(j, l) /\ Under(j, r)
    BY <1>2, MergeUnder
  <2>2. ASSUME NEW c \in ContextRecords, Covers(l, c)
        PROVE  Covers(j, c)
    <3>1. Nudge(c) \in ContextRecords
      BY NudgeType
    <3>2. Under(l, c) \/ Under(l, Nudge(c))
      BY <2>2, CoversUnder
    <3> HIDE DEF j
    <3>3. Under(j, c) \/ Under(j, Nudge(c))
      BY <1>1, <2>1, <3>1, <3>2, UnderTransitive
    <3>4. QED
      BY <3>3, CoversUnder
  <2>3. QED
    BY <2>1, <2>2, CoversUnder
<1>3. CASE j = Merge(Nudge(l), Nudge(r))
  <2>1. Under(j, Nudge(l)) /\ Under(j, Nudge(r))
    BY <1>1, <1>3, MergeUnder
  <2>2. ASSUME NEW c \in ContextRecords, Covers(l, c)
        PROVE  Covers(j, c)
    <3>1. Nudge(c) \in ContextRecords
      BY NudgeType
    <3>2. Under(l, c) \/ Under(l, Nudge(c))
      BY <2>2, CoversUnder
    <3>3. Under(Nudge(l), Nudge(c))
      BY <3>1, <3>2, UnderNudged, NudgedTwice
    <3> HIDE DEF j
    <3>4. Under(j, Nudge(c))
      BY <1>1, <2>1, <3>1, <3>3, UnderTransitive
    <3>5. QED
      BY <3>4, CoversUnder
  <2>3. QED
    BY <2>1, <2>2, CoversUnder
<1>4. QED
  BY <1>2, <1>3, Zenon DEF Join

----------------------------------------------------------------------------
(* Variants                                                                 *)

IsSequence(s) == s \in Seq(Range(s))

LEMMA SequenceFacts ==
    ASSUME NEW s, IsSequence(s)
    PROVE  Len(s) \in Nat /\ DOMAIN s = 1 .. Len(s)
BY LenProperties DEF IsSequence

LEMMA Appended ==
    ASSUME NEW s, IsSequence(s), NEW e
    PROVE  /\ IsSequence(Append(s, e)) /\ Len(Append(s, e)) = Len(s) + 1
           /\ \A i \in 1 .. Len(s) : Append(s, e)[i] = s[i]
           /\ Append(s, e)[Len(s) + 1] = e
<1> DEFINE S == Range(s) \union {e}
<1>1. s \in Seq(S) /\ e \in S
  BY SeqMonotonic DEF IsSequence
<1> HIDE DEF S
<1>2. Append(s, e) \in Seq(S)
  BY <1>1, AppendProperties
<1>3. Append(s, e) \in Seq(Range(Append(s, e)))
  BY <1>2, SeqOfRange
<1>4. /\ Len(Append(s, e)) = Len(s) + 1
      /\ \A i \in 1 .. Len(s) : Append(s, e)[i] = s[i]
      /\ Append(s, e)[Len(s) + 1] = e
  BY <1>1, AppendProperties
<1>5. QED
  BY <1>3, <1>4 DEF IsSequence

LEMMA Replaced ==
    ASSUME NEW s, IsSequence(s), NEW k \in 1 .. Len(s), NEW e
    PROVE  /\ IsSequence([s EXCEPT ![k] = e]) /\ Len([s EXCEPT ![k] = e]) = Len(s)
           /\ \A i \in 1 .. Len(s) : [s EXCEPT ![k] = e][i] = IF i = k THEN e ELSE s[i]
<1> DEFINE S == Range(s) \union {e}
<1>1. s \in Seq(S) /\ e \in S
  BY SeqMonotonic DEF IsSequence
<1> HIDE DEF S
<1>2. /\ [s EXCEPT ![k] = e] \in Seq(S) /\ Len([s EXCEPT ![k] = e]) = Len(s)
      /\ \A i \in 1 .. Len(s) : [s EXCEPT ![k] = e][i] = IF i = k THEN e ELSE s[i]
  BY <1>1, ExceptSeq
<1>3. QED
  BY <1>2, SeqOfRange DEF IsSequence

IsVariant(v) ==
    /\ v = [name |-> v.name, start |-> v.start, output |-> v.output, code |-> v.code,
            done |-> v.done]
    /\ v.name \in DOMAIN sources /\ v.start \in ContextRecords /\ v.output \in ContextRecords
    /\ v.done \in BOOLEAN

\* There is one variant of a template for a context.
KeysDiffer(vs) ==
    \A j, k \in 1 .. Len(vs) : vs[j].name = vs[k].name /\ vs[j].start = vs[k].start => j = k

VariantsInv(vs) ==
    /\ IsSequence(vs) /\ Len(vs) # 0
    /\ \A k \in 1 .. Len(vs) : IsVariant(vs[k])
    /\ KeysDiffer(vs)

\* ws has the variants of vs, and perhaps more.
Continues(vs, ws) ==
    /\ VariantsInv(vs) /\ VariantsInv(ws) /\ Len(vs) <= Len(ws)
    /\ \A k \in 1 .. Len(vs) : ws[k] = vs[k]

LEMMA NewVariant ==
    ASSUME NEW n \in DOMAIN sources, NEW c \in ContextRecords
    PROVE  /\ IsVariant(Variant(n, c)) /\ Variant(n, c).name = n /\ Variant(n, c).start = c
           /\ ~Variant(n, c).done
BY DEF IsVariant, Variant

\* The variant that was made for a name and a context.
LEMMA Indexed ==
    ASSUME NEW vs, VariantsInv(vs), NEW n, NEW c, Has(vs, n, c)
    PROVE  /\ IndexOf(vs, n, c) \in 1 .. Len(vs)
           /\ vs[IndexOf(vs, n, c)].name = n /\ vs[IndexOf(vs, n, c)].start = c
           /\ \A k \in 1 .. Len(vs) :
                 vs[k].name = n /\ vs[k].start = c => k = IndexOf(vs, n, c)
<1>1. DOMAIN vs = 1 .. Len(vs)
  BY SequenceFacts DEF VariantsInv
<1>2. \E k \in DOMAIN vs : vs[k].name = n /\ vs[k].start = c
  BY DEF Has
<1>3. /\ IndexOf(vs, n, c) \in DOMAIN vs
      /\ vs[IndexOf(vs, n, c)].name = n /\ vs[IndexOf(vs, n, c)].start = c
  BY <1>2, Zenon DEF IndexOf
<1>4. QED
  BY <1>1, <1>3 DEF VariantsInv, KeysDiffer

LEMMA SameIndex ==
    ASSUME NEW vs, NEW ws, Continues(vs, ws), NEW n, NEW c, Has(vs, n, c)
    PROVE  /\ Has(ws, n, c) /\ IndexOf(ws, n, c) = IndexOf(vs, n, c)
           /\ ws[IndexOf(ws, n, c)] = vs[IndexOf(vs, n, c)]
<1> DEFINE k == IndexOf(vs, n, c)
<1>1. k \in 1 .. Len(vs) /\ vs[k].name = n /\ vs[k].start = c
  BY Indexed DEF Continues
<1>2. Len(vs) \in Nat /\ Len(ws) \in Nat /\ DOMAIN ws = 1 .. Len(ws)
  BY SequenceFacts DEF Continues, VariantsInv
<1> HIDE DEF k
<1>3. k \in 1 .. Len(ws) /\ ws[k] = vs[k]
  BY <1>1, <1>2 DEF Continues
<1>4. Has(ws, n, c)
  BY <1>1, <1>2, <1>3 DEF Has
<1>5. k = IndexOf(ws, n, c)
  BY <1>1, <1>3, <1>4, Indexed DEF Continues
<1>6. QED
  BY <1>3, <1>4, <1>5 DEF k

LEMMA Ensured ==
    ASSUME NEW vs, VariantsInv(vs), NEW n \in DOMAIN sources, NEW c \in ContextRecords
    PROVE  /\ Continues(vs, EnsureVariant(vs, n, c)) /\ Has(EnsureVariant(vs, n, c), n, c)
           /\ \A k \in 1 .. Len(EnsureVariant(vs, n, c)) :
                 k > Len(vs) => ~EnsureVariant(vs, n, c)[k].done
<1>1. Len(vs) \in Nat /\ DOMAIN vs = 1 .. Len(vs)
  BY SequenceFacts DEF VariantsInv
<1>2. CASE Has(vs, n, c)
  <2>1. EnsureVariant(vs, n, c) = vs
    BY <1>2 DEF EnsureVariant
  <2>2. Continues(vs, vs) /\ \A k \in 1 .. Len(vs) : ~(k > Len(vs))
    BY <1>1 DEF Continues
  <2>3. QED
    BY <1>2, <2>1, <2>2
<1>3. CASE ~Has(vs, n, c)
  <2> DEFINE v == Variant(n, c)
             ws == Append(vs, v)
  <2>1. EnsureVariant(vs, n, c) = ws
    BY <1>3 DEF EnsureVariant
  <2>2. IsVariant(v) /\ v.name = n /\ v.start = c /\ ~v.done
    BY NewVariant
  <2>3. IsSequence(vs)
    BY DEF VariantsInv
  <2> HIDE DEF v
  <2>4. /\ IsSequence(ws) /\ Len(ws) = Len(vs) + 1 /\ ws[Len(vs) + 1] = v
        /\ \A i \in 1 .. Len(vs) : ws[i] = vs[i]
    BY <2>3, Appended
  <2> HIDE DEF ws
  <2>5. \A k \in 1 .. Len(ws) : k \in 1 .. Len(vs) \/ k = Len(vs) + 1
    BY <1>1, <2>4
  <2>6. \A k \in 1 .. Len(ws) : IsVariant(ws[k])
    BY <2>2, <2>4, <2>5 DEF VariantsInv
  <2>7. \A k \in 1 .. Len(vs) : ~(vs[k].name = n /\ vs[k].start = c)
    BY <1>1, <1>3 DEF Has
  <2>8. KeysDiffer(ws)
    <3>1. SUFFICES ASSUME NEW j \in 1 .. Len(ws), NEW k \in 1 .. Len(ws),
                          ws[j].name = ws[k].name, ws[j].start = ws[k].start
                   PROVE  j = k
      BY DEF KeysDiffer
    <3>2. CASE j \in 1 .. Len(vs) /\ k \in 1 .. Len(vs)
      BY <2>4, <3>1, <3>2 DEF VariantsInv, KeysDiffer
    <3>3. CASE j \in 1 .. Len(vs) /\ k = Len(vs) + 1
      BY <2>2, <2>4, <2>7, <3>1, <3>3
    <3>4. CASE j = Len(vs) + 1 /\ k \in 1 .. Len(vs)
      BY <2>2, <2>4, <2>7, <3>1, <3>4
    <3>5. QED
      BY <2>5, <3>2, <3>3, <3>4
  <2>9. VariantsInv(ws) /\ Len(vs) <= Len(ws)
    BY <1>1, <2>4, <2>6, <2>8 DEF VariantsInv
  <2>10. Continues(vs, ws)
    BY <2>4, <2>9 DEF Continues
  <2>11. Has(ws, n, c)
    <3>1. Len(vs) + 1 \in DOMAIN ws
      BY <1>1, <2>4, SequenceFacts
    <3>2. QED
      BY <2>2, <2>4, <3>1 DEF Has
  <2>12. \A k \in 1 .. Len(ws) : k > Len(vs) => ~ws[k].done
    BY <1>1, <2>2, <2>4, <2>5
  <2>13. QED
    BY <2>1, <2>10, <2>11, <2>12
<1>4. QED
  BY <1>2, <1>3

----------------------------------------------------------------------------
(* Programs and what their instructions do                                  *)

LEMMA ProgramFacts ==
    ASSUME sources \in Associations, NEW n \in DOMAIN sources
    PROVE  /\ IsSequence(sources[n]) /\ Len(sources[n]) \in Nat
           /\ DOMAIN sources[n] = 1 .. Len(sources[n])
           /\ \A pc \in DOMAIN sources[n] :
                 /\ JumpsInside(sources[n][pc], sources[n])
                 /\ sources[n][pc].op = "WRITE_TEXT" => sources[n][pc].name \in DOMAIN Texts
<1>1. IsSequence(sources[n])
  BY AssociationAssumption DEF IsSequence
<1>2. QED
  BY <1>1, AssociationAssumption, SequenceFacts

\* The instruction has successors, all of them in the program or behind it.
LEMMA SuccessorFacts ==
    ASSUME NEW code, Len(code) \in Nat, NEW pc \in 1 .. Len(code), JumpsInside(code[pc], code)
    PROVE  LET nexts == Successors(pc, code[pc]) IN
           /\ Len(nexts) \in {1, 2} /\ DOMAIN nexts = 1 .. Len(nexts)
           /\ \A k \in DOMAIN nexts : nexts[k] \in 1 .. Len(code) + 1
<1> DEFINE i == code[pc]
           nexts == Successors(pc, i)
<1>1. i.op \in JumpOps => i.target \in 1 .. Len(code) + 1
  BY DEF JumpsInside
<1>2. i.op = "NEXT_ITERATION" => i.body \in 1 .. Len(code) + 1
  BY DEF JumpsInside
<1>3. pc + 1 \in 1 .. Len(code) + 1
  OBVIOUS
<1> HIDE DEF i
<1>4. CASE i.op \in {"JUMP", "BREAK_RANGE"}
  <2>1. nexts = <<i.target>> /\ i.op \in JumpOps
    BY <1>4 DEF Successors, JumpOps
  <2>2. QED
    BY <1>1, <2>1 DEF i
<1>5. CASE i.op \in {"JUMP_IF_FALSE", "ENTER_WITH", "ITERATE"}
  <2>1. nexts = <<pc + 1, i.target>> /\ i.op \in JumpOps
    BY <1>5 DEF Successors, JumpOps
  <2>2. QED
    BY <1>1, <1>3, <2>1 DEF i
<1>6. CASE i.op = "NEXT_ITERATION"
  <2>1. nexts = <<i.body, i.target>> /\ i.op \in JumpOps
    BY <1>6 DEF Successors, JumpOps
  <2>2. QED
    BY <1>1, <1>2, <1>6, <2>1 DEF i
<1>7. CASE i.op \notin {"JUMP", "BREAK_RANGE", "JUMP_IF_FALSE", "ENTER_WITH", "ITERATE",
                        "NEXT_ITERATION"}
  <2>1. nexts = <<pc + 1>>
    BY <1>7 DEF Successors
  <2>2. QED
    BY <1>3, <2>1 DEF i
<1>8. QED
  BY <1>4, <1>5, <1>6, <1>7

LEMMA ActType ==
    ASSUME NEW c \in ContextRecords
    PROVE  Act(c) \in ContextRecords
BY ErrorType, AfterActionType DEF Act

LEMMA TransferType ==
    ASSUME NEW vs, VariantsInv(vs), NEW i, NEW c \in ContextRecords,
           Calls(i) => Has(vs, i.name, c), i.op = "WRITE_TEXT" => i.name \in DOMAIN Texts
    PROVE  Transfer(vs, i, c) \in ContextRecords
<1>1. CASE i.op = "WRITE_TEXT"
  <2>1. \A t \in DOMAIN Texts : Texts[t] \in Seq(STRING)
    <3>1. \A s \in Seq(STRING \ {Nothing}) : s \in Seq(STRING)
      OBVIOUS
    <3>2. QED
      BY <3>1, AssociationAssumption
  <2>2. Consume(c, Texts[i.name]).ctx \in ContextRecords
    BY <1>1, <2>1, ConsumeType
  <2>3. Transfer(vs, i, c) = Consume(c, Texts[i.name]).ctx
    BY <1>1, Zenon DEF Transfer, Writes, Calls
  <2>4. QED
    BY <2>2, <2>3
<1>2. CASE Calls(i)
  <2>1. Transfer(vs, i, c) = vs[IndexOf(vs, i.name, c)].output
    BY <1>2, Zenon DEF Transfer, Writes, Calls
  <2>2. IndexOf(vs, i.name, c) \in 1 .. Len(vs)
    BY <1>2, Indexed
  <2>3. QED
    BY <2>1, <2>2 DEF VariantsInv, IsVariant
<1>3. CASE i.op # "WRITE_TEXT" /\ ~Calls(i)
  <2>1. Transfer(vs, i, c) = Act(c) \/ Transfer(vs, i, c) = c
    BY <1>3, Zenon DEF Transfer
  <2>2. QED
    BY <2>1, ActType
<1>4. QED
  BY <1>1, <1>2, <1>3

\* More variants change nothing for an instruction whose callee has one.
LEMMA SameEffect ==
    ASSUME NEW vs, NEW ws, Continues(vs, ws), NEW i, NEW c, Calls(i) => Has(vs, i.name, c)
    PROVE  /\ Transfer(ws, i, c) = Transfer(vs, i, c)
           /\ RewrittenIn(ws, i, c) = RewrittenIn(vs, i, c)
<1>1. CASE Calls(i)
  <2>1. IndexOf(ws, i.name, c) = IndexOf(vs, i.name, c)
    BY <1>1, SameIndex
  <2>2. ws[IndexOf(ws, i.name, c)] = vs[IndexOf(vs, i.name, c)]
    BY <1>1, SameIndex
  <2>3. QED
    BY <2>1, <2>2, Zenon DEF Transfer, RewrittenIn
<1>2. CASE ~Calls(i)
  <2>1. RewrittenIn(ws, i, c) = RewrittenIn(vs, i, c)
    BY <1>2 DEF RewrittenIn
  <2>2. CASE i.op = "WRITE_TEXT"
    BY <2>1, <2>2, Zenon DEF Transfer, Writes, Calls
  <2>3. CASE Writes(i)
    BY <2>1, <2>3, Zenon DEF Transfer, Writes, Calls
  <2>4. CASE i.op # "WRITE_TEXT" /\ ~Writes(i)
    BY <1>2, <2>1, <2>4, Zenon DEF Transfer
  <2>5. QED
    BY <2>2, <2>3, <2>4
<1>3. QED
  BY <1>1, <1>2

\* The position pc has passed its context on, in the variants vs.
Settled(vs, code, at, pc) ==
    PassedOn(vs, code, at, pc) /\ (Calls(code[pc]) => Has(vs, code[pc].name, at[pc]))

LEMMA StaysSettled ==
    ASSUME NEW vs, NEW ws, Continues(vs, ws), NEW code, NEW at, NEW pc, Settled(vs, code, at, pc)
    PROVE  Settled(ws, code, at, pc)
<1>1. Calls(code[pc]) => Has(vs, code[pc].name, at[pc])
  BY DEF Settled
<1>2. Transfer(ws, code[pc], at[pc]) = Transfer(vs, code[pc], at[pc])
  BY <1>1, SameEffect
<1>3. Calls(code[pc]) => Has(ws, code[pc].name, at[pc])
  BY <1>1, SameIndex
<1>4. PassedOn(ws, code, at, pc)
  BY <1>2 DEF Settled, PassedOn
<1>5. QED
  BY <1>3, <1>4 DEF Settled

----------------------------------------------------------------------------
(* The worklist                                                             *)

LEMMA AppendedRange ==
    ASSUME NEW S, NEW s \in Seq(S), NEW e
    PROVE  Range(Append(s, e)) = Range(s) \cup {e}
<1>1. DOMAIN Append(s, e) = 1 .. Len(s) + 1 /\ DOMAIN s = 1 .. Len(s) /\ Len(s) \in Nat
  OBVIOUS
<1>2. \A k \in 1 .. Len(s) : Append(s, e)[k] = s[k]
  OBVIOUS
<1>3. Append(s, e)[Len(s) + 1] = e
  OBVIOUS
<1>4. QED
  BY <1>1, <1>2, <1>3 DEF Range

LEMMA HeadAndTail ==
    ASSUME NEW S, NEW s \in Seq(S), s # <<>>
    PROVE  /\ Head(s) \in S /\ Tail(s) \in Seq(S)
           /\ Range(s) = {Head(s)} \cup Range(Tail(s))
<1>1. Len(s) \in Nat /\ Len(s) # 0 /\ DOMAIN s = 1 .. Len(s)
  OBVIOUS
<1>2. Head(s) = s[1] /\ Tail(s) \in Seq(S) /\ DOMAIN Tail(s) = 1 .. Len(s) - 1
  BY <1>1
<1>3. \A k \in 1 .. Len(s) - 1 : Tail(s)[k] = s[k + 1]
  BY <1>1
<1>4. Range(s) \subseteq {Head(s)} \cup Range(Tail(s))
  <2>1. SUFFICES ASSUME NEW k \in 1 .. Len(s), k # 1
                 PROVE  s[k] \in Range(Tail(s))
    BY <1>1, <1>2 DEF Range
  <2>2. k - 1 \in 1 .. Len(s) - 1 /\ k - 1 + 1 = k
    BY <1>1, <2>1
  <2>3. Tail(s)[k - 1] = s[k]
    BY <1>3, <2>2
  <2>4. QED
    BY <1>2, <2>2, <2>3 DEF Range
<1>5. Range(Tail(s)) \subseteq Range(s)
  <2>1. SUFFICES ASSUME NEW k \in 1 .. Len(s) - 1
                 PROVE  Tail(s)[k] \in Range(s)
    BY <1>2 DEF Range
  <2>2. k + 1 \in 1 .. Len(s) /\ Tail(s)[k] = s[k + 1]
    BY <1>1, <1>3
  <2>3. QED
    BY <1>1, <2>2 DEF Range
<1>6. Head(s) \in Range(s)
  BY <1>1, <1>2 DEF Range
<1>7. QED
  BY <1>1, <1>2, <1>4, <1>5, <1>6

\* at holds contexts at positions of a program of n instructions.
IsMap(at, n) ==
    /\ DOMAIN at \subseteq 1 .. n + 1
    /\ \A pc \in DOMAIN at : at[pc] \in ContextRecords

\* A state of the worklist, with n instructions.
WorkState(w, n) ==
    /\ w = [incoming |-> w.incoming, pending |-> w.pending, why |-> w.why]
    /\ IsMap(w.incoming, n)
    /\ w.pending \in Seq(1 .. n) /\ Range(w.pending) \subseteq DOMAIN w.incoming

\* What was known stays known, and what changed is pending.
Raises(w, r, n) ==
    /\ \A pc \in DOMAIN w.incoming :
          /\ pc \in DOMAIN r.incoming
          /\ \A c \in ContextRecords : Covers(w.incoming[pc], c) => Covers(r.incoming[pc], c)
    /\ Range(w.pending) \subseteq Range(r.pending)
    /\ \A pc \in DOMAIN r.incoming \cap (1 .. n) :
          pc \notin Range(r.pending) => pc \in DOMAIN w.incoming /\ r.incoming[pc] = w.incoming[pc]

LEMMA ReachRaises ==
    ASSUME Len(Code) \in Nat, NEW w, WorkState(w, Len(Code)),
           NEW next \in 1 .. Len(Code) + 1, NEW c \in ContextRecords,
           Reach(w, next, c).why = <<>>
    PROVE  /\ w.why = <<>> /\ WorkState(Reach(w, next, c), Len(Code))
           /\ Raises(w, Reach(w, next, c), Len(Code))
           /\ next \in DOMAIN Reach(w, next, c).incoming
           /\ Covers(Reach(w, next, c).incoming[next], c)
<1> DEFINE n == Len(Code)
           known == next \in DOMAIN w.incoming
           merged == IF known THEN Join(w.incoming[next], c) ELSE c
           branches == <<"branches", w.incoming[next].kind, c.kind>>
           p == IF next > n THEN w.pending ELSE Append(w.pending, next)
           at == Assigned(w.incoming, next, merged)
           r == Reach(w, next, c)
<1>1. /\ w = [incoming |-> w.incoming, pending |-> w.pending, why |-> w.why]
      /\ IsMap(w.incoming, n)
      /\ w.pending \in Seq(1 .. n) /\ Range(w.pending) \subseteq DOMAIN w.incoming
  BY DEF WorkState
<1>2. /\ [w EXCEPT !.why = branches] = [incoming |-> w.incoming, pending |-> w.pending, why |-> branches]
      /\ [w EXCEPT !.incoming = at, !.pending = p] = [incoming |-> at, pending |-> p, why |-> w.why]
  <2> HIDE DEF branches, at, p
  <2>1. \A y : [w EXCEPT !.why = y] = [incoming |-> w.incoming, pending |-> w.pending, why |-> y]
    BY <1>1
  <2> DEFINE v == [w EXCEPT !.incoming = at]
  <2>2. v = [incoming |-> at, pending |-> w.pending, why |-> w.why]
    BY <1>1
  <2>3. [w EXCEPT !.incoming = at, !.pending = p] = [v EXCEPT !.pending = p]
    OBVIOUS
  <2> HIDE DEF v
  <2>4. [v EXCEPT !.pending = p] = [incoming |-> at, pending |-> p, why |-> w.why]
    BY <2>2
  <2>5. QED
    BY <2>1, <2>3, <2>4
<1>3. branches # <<>>
  OBVIOUS
<1>4. r = IF w.why # <<>> THEN w
          ELSE IF known /\ merged.kind = "ERROR" THEN [w EXCEPT !.why = branches]
          ELSE IF known /\ merged = w.incoming[next] THEN w
          ELSE [w EXCEPT !.incoming = at, !.pending = p]
  BY Zenon DEF Reach
<1>5. merged \in ContextRecords
  BY <1>1, JoinType DEF IsMap
<1> HIDE DEF branches, at, p, merged, r, n, known
<1>5a. r.why = <<>>
  BY DEF r
<1>6. w.why = <<>>
  BY <1>4, <1>5a
<1>7. ~(known /\ merged.kind = "ERROR")
  BY <1>2, <1>3, <1>4, <1>5a, <1>6
<1>8. known => /\ Covers(merged, c)
               /\ \A d \in ContextRecords : Covers(w.incoming[next], d) => Covers(merged, d)
  BY <1>1, <1>7, JoinCovers DEF known, merged, IsMap
<1>9. Covers(merged, c)
  <2>1. ~known => merged = c
    BY DEF merged
  <2>2. QED
    BY <1>8, <2>1, CoversUnder, UnderItself
<1>10. CASE known /\ merged = w.incoming[next]
  <2>1. r = w
    BY <1>4, <1>6, <1>7, <1>10
  <2>2. Raises(w, w, n)
    BY DEF Raises
  <2>3. QED
    BY <1>6, <1>9, <1>10, <2>1, <2>2 DEF r, n, known
<1>11. CASE ~(known /\ merged = w.incoming[next])
  <2>1. r = [incoming |-> at, pending |-> p, why |-> w.why]
    BY <1>2, <1>4, <1>6, <1>7, <1>11
  <2>2. /\ DOMAIN at = {next} \cup DOMAIN w.incoming /\ at[next] = merged
        /\ \A pc \in DOMAIN w.incoming : pc # next => at[pc] = w.incoming[pc]
    BY DEF at, Assigned
  <2>3. IsMap(at, n)
    BY <1>1, <1>5, <2>2 DEF IsMap, n
  <2>4. p \in Seq(1 .. n) /\ Range(p) = Range(w.pending) \cup (IF next > n THEN {} ELSE {next})
    <3>1. CASE next > n
      BY <1>1, <3>1 DEF p
    <3>2. CASE ~(next > n)
      <4>1. next \in 1 .. n /\ p = Append(w.pending, next)
        BY <3>2 DEF p, n
      <4>2. QED
        BY <1>1, <3>2, <4>1, AppendedRange
    <3>3. QED
      BY <3>1, <3>2
  <2>5. WorkState(r, n)
    BY <1>1, <2>1, <2>2, <2>3, <2>4 DEF WorkState
  <2>6. ASSUME NEW pc \in DOMAIN w.incoming, NEW d \in ContextRecords, Covers(w.incoming[pc], d)
        PROVE  Covers(at[pc], d)
    BY <1>8, <2>2, <2>6 DEF known
  <2>7. ASSUME NEW pc \in DOMAIN at \cap (1 .. n), pc \notin Range(p)
        PROVE  pc \in DOMAIN w.incoming /\ at[pc] = w.incoming[pc]
    BY <2>2, <2>4, <2>7 DEF n
  <2>8. Raises(w, r, n)
    BY <2>1, <2>2, <2>4, <2>6, <2>7 DEF Raises
  <2>9. QED
    BY <1>6, <1>9, <2>1, <2>2, <2>5, <2>8 DEF r, n
<1>12. QED
  BY <1>10, <1>11

LEMMA RaisesMore ==
    ASSUME NEW w, NEW f, NEW r, NEW n, Raises(w, f, n), Raises(f, r, n)
    PROVE  Raises(w, r, n)
<1>1. \A pc \in DOMAIN w.incoming :
         /\ pc \in DOMAIN r.incoming
         /\ \A c \in ContextRecords : Covers(w.incoming[pc], c) => Covers(r.incoming[pc], c)
  BY DEF Raises
<1>2. Range(w.pending) \subseteq Range(f.pending) /\ Range(f.pending) \subseteq Range(r.pending)
  BY DEF Raises
<1>3. ASSUME NEW pc \in DOMAIN r.incoming \cap (1 .. n), pc \notin Range(r.pending)
      PROVE  pc \in DOMAIN w.incoming /\ r.incoming[pc] = w.incoming[pc]
  <2>1. pc \in DOMAIN f.incoming /\ r.incoming[pc] = f.incoming[pc]
    BY <1>3 DEF Raises
  <2>2. pc \notin Range(f.pending)
    BY <1>2, <1>3
  <2>3. QED
    BY <2>1, <2>2 DEF Raises
<1>4. QED
  BY <1>1, <1>2, <1>3 DEF Raises

\* The positions that follow one in a program of n instructions.
Targets(nexts, n) ==
    /\ Len(nexts) \in {1, 2} /\ DOMAIN nexts = 1 .. Len(nexts)
    /\ \A k \in DOMAIN nexts : nexts[k] \in 1 .. n + 1

\* The context c has reached them.
Reached(at, nexts, c) ==
    \A k \in DOMAIN nexts : nexts[k] \in DOMAIN at /\ Covers(at[nexts[k]], c)

LEMMA EachRaises ==
    ASSUME Len(Code) \in Nat, NEW w, WorkState(w, Len(Code)), NEW nexts,
           Targets(nexts, Len(Code)),
           NEW c \in ContextRecords, ReachEach(w, nexts, c).why = <<>>
    PROVE  /\ WorkState(ReachEach(w, nexts, c), Len(Code))
           /\ Raises(w, ReachEach(w, nexts, c), Len(Code))
           /\ Reached(ReachEach(w, nexts, c).incoming, nexts, c)
<1> DEFINE n == Len(Code)
           first == Reach(w, nexts[1], c)
           r == ReachEach(w, nexts, c)
<1>0. /\ Len(nexts) \in {1, 2} /\ DOMAIN nexts = 1 .. Len(nexts)
      /\ \A k \in DOMAIN nexts : nexts[k] \in 1 .. n + 1
  BY DEF Targets
<1>1. nexts[1] \in 1 .. n + 1
  BY <1>0
<1>2. CASE Len(nexts) = 1
  <2>1. r = first
    BY <1>2 DEF ReachEach
  <2>2. /\ WorkState(first, n) /\ Raises(w, first, n)
        /\ nexts[1] \in DOMAIN first.incoming /\ Covers(first.incoming[nexts[1]], c)
    BY <1>1, <2>1, ReachRaises
  <2>3. QED
    BY <1>0, <1>2, <2>1, <2>2 DEF Reached
<1>3. CASE Len(nexts) = 2
  <2> DEFINE second == Reach(first, nexts[2], c)
  <2>1. r = second
    BY <1>3 DEF ReachEach
  <2>2. nexts[2] \in 1 .. n + 1 /\ second.why = <<>>
    BY <1>0, <1>3, <2>1
  <2>3. first.why = <<>> /\ WorkState(first, n)
    <3>1. ASSUME first.why # <<>>
          PROVE  FALSE
      <4>1. second = first
        BY <3>1 DEF Reach
      <4>2. QED
        BY <2>2, <3>1, <4>1
    <3>2. QED
      BY <1>1, <3>1, ReachRaises
  <2>4. /\ Raises(w, first, n)
        /\ nexts[1] \in DOMAIN first.incoming /\ Covers(first.incoming[nexts[1]], c)
    BY <1>1, <2>3, ReachRaises
  <2> HIDE DEF first
  <2>5. /\ WorkState(second, n) /\ Raises(first, second, n)
        /\ nexts[2] \in DOMAIN second.incoming /\ Covers(second.incoming[nexts[2]], c)
    BY <2>2, <2>3, ReachRaises
  <2> HIDE DEF second, r
  <2>6. nexts[1] \in DOMAIN second.incoming /\ Covers(second.incoming[nexts[1]], c)
    BY <2>4, <2>5 DEF Raises
  <2>7. Raises(w, second, n)
    BY <2>4, <2>5, RaisesMore
  <2>8. QED
    BY <1>0, <1>3, <2>1, <2>5, <2>6, <2>7 DEF r, Reached
<1>4. QED
  BY <1>0, <1>2, <1>3

----------------------------------------------------------------------------
(* The invariant                                                            *)

\* at solves variant k of vs: it begins with the variant's context, each of its
\* positions passed its context on, and the code and the output of the variant
\* are those that these contexts call for.
Solves(vs, k, at) ==
    LET v == vs[k]
        code == sources[v.name] IN
    /\ v.done
    /\ DOMAIN at \subseteq 1 .. Len(code) + 1
    /\ 1 \in DOMAIN at /\ Covers(at[1], v.start)
    /\ v.output = IF Len(code) + 1 \in DOMAIN at THEN at[Len(code) + 1] ELSE v.start
    /\ DOMAIN v.code = DOMAIN code
    /\ \A pc \in DOMAIN at \cap DOMAIN code :
          /\ Settled(vs, code, at, pc)
          /\ ~Fails(code[pc], at[pc])
          /\ v.code[pc] = RewrittenIn(vs, code[pc], at[pc])

Solved(vs, k) == \E at : Solves(vs, k, at)

TypeInv ==
    /\ sources \in Associations /\ changed \in BOOLEAN
    /\ VariantsInv(variants)

WorklistInv ==
    phase = "analyzing" =>
        /\ count \in 1 .. Len(variants) /\ turn \in 1 .. count
        /\ \A k \in 1 .. Len(variants) : k > count => ~variants[k].done
        /\ IsMap(incoming, Len(Code)) /\ 1 \in DOMAIN incoming
        /\ pending \in Seq(1 .. Len(Code)) /\ Range(pending) \subseteq DOMAIN incoming
        /\ Covers(incoming[1], Current.start)
        /\ \A pc \in DOMAIN incoming :
              pc \in DOMAIN Code \ Range(pending) => Settled(variants, Code, incoming, pc)

\* A round that has changed nothing so far found these variants solved.
RoundInv ==
    phase = "analyzing" /\ ~changed => \A k \in 1 .. turn - 1 : Solved(variants, k)

Finished == {"accepted", "running", "stopped", "ended"}

FinishedInv == phase \in Finished => \A k \in 1 .. Len(variants) : Solved(variants, k)

\* A frame is at a position whose context is known.
Located(f) ==
    /\ f = [v |-> f.v, pc |-> f.pc] /\ f.v \in 1 .. Len(variants)
    /\ \E at : Solves(variants, f.v, at) /\ f.pc \in DOMAIN at

FramesInv ==
    phase = "running" =>
        /\ IsSequence(frames) /\ Len(frames) # 0
        /\ \A j \in 1 .. Len(frames) : Located(frames[j])

Inv == TypeInv /\ WorklistInv /\ RoundInv /\ FinishedInv /\ FramesInv

----------------------------------------------------------------------------
(* More variants, and the next state                                        *)

LEMMA StaysSolved ==
    ASSUME NEW vs, NEW ws, Continues(vs, ws), NEW k \in 1 .. Len(vs), Solved(vs, k)
    PROVE  Solved(ws, k)
<1>1. PICK at : Solves(vs, k, at)
  BY DEF Solved
<1>2. ws[k] = vs[k]
  BY DEF Continues
<1> DEFINE code == sources[vs[k].name]
<1>3. \A pc \in DOMAIN at \cap DOMAIN code :
         /\ Settled(vs, code, at, pc) /\ ~Fails(code[pc], at[pc])
         /\ vs[k].code[pc] = RewrittenIn(vs, code[pc], at[pc])
  BY <1>1 DEF Solves
<1>4. ASSUME NEW pc \in DOMAIN at \cap DOMAIN code
      PROVE  /\ Settled(ws, code, at, pc) /\ ~Fails(code[pc], at[pc])
             /\ vs[k].code[pc] = RewrittenIn(ws, code[pc], at[pc])
  <2> HIDE DEF code
  <2>1. Settled(ws, code, at, pc)
    BY <1>3, StaysSettled
  <2>2. Calls(code[pc]) => Has(vs, code[pc].name, at[pc])
    BY <1>3 DEF Settled
  <2>3. RewrittenIn(ws, code[pc], at[pc]) = RewrittenIn(vs, code[pc], at[pc])
    BY <2>2, SameEffect
  <2>4. QED
    BY <1>3, <2>1, <2>3
<1>5. Solves(ws, k, at)
  BY <1>1, <1>2, <1>4 DEF Solves
<1>6. QED
  BY <1>5 DEF Solved

LEMMA NextAssociation ==
    ASSUME sources' = sources
    PROVE  /\ \A vs : VariantsInv(vs)' <=> VariantsInv(vs)
           /\ \A vs, code, at, pc : Settled(vs, code, at, pc)' <=> Settled(vs, code, at, pc)
           /\ \A vs, k, at : Solves(vs, k, at)' <=> Solves(vs, k, at)
           /\ \A vs, k : Solved(vs, k)' <=> Solved(vs, k)
<1>1. \A i : Calls(i)' <=> Calls(i)
  BY DEF Calls
<1>2. \A vs, i, c : Transfer(vs, i, c)' = Transfer(vs, i, c)
  BY <1>1, Zenon DEF Transfer
<1>3. \A vs, i, c : RewrittenIn(vs, i, c)' = RewrittenIn(vs, i, c)
  BY <1>1, Zenon DEF RewrittenIn
<1>4. \A vs, code, at, pc : PassedOn(vs, code, at, pc)' <=> PassedOn(vs, code, at, pc)
  BY <1>2 DEF PassedOn
<1>5. \A vs, code, at, pc : Settled(vs, code, at, pc)' <=> Settled(vs, code, at, pc)
  BY <1>1, <1>4 DEF Settled
<1>6. \A vs, k, at : Solves(vs, k, at)' <=> Solves(vs, k, at)
  BY <1>3, <1>5 DEF Solves
<1>7. \A vs, k : Solved(vs, k)' <=> Solved(vs, k)
  BY <1>6 DEF Solved
<1>8. \A v : IsVariant(v)' <=> IsVariant(v)
  BY DEF IsVariant
<1>9. \A vs : VariantsInv(vs)' <=> VariantsInv(vs)
  BY <1>8 DEF VariantsInv
<1>10. QED
  BY <1>5, <1>6, <1>7, <1>9

\* After the end of the analysis only the variants matter.
LEMMA Stopped ==
    ASSUME Inv, phase' \notin {"analyzing"} \cup Finished, UNCHANGED <<sources, changed, variants>>
    PROVE  Inv'
<1>1. VariantsInv(variants)'
  BY NextAssociation DEF Inv, TypeInv
<1>2. TypeInv'
  BY <1>1 DEF Inv, TypeInv
<1>3. phase' # "analyzing" /\ phase' # "running" /\ phase' \notin Finished
  BY DEF Finished
<1>4. WorklistInv' /\ RoundInv'
  BY <1>3 DEF WorklistInv, RoundInv
<1>5. FinishedInv' /\ FramesInv'
  BY <1>3 DEF FinishedInv, FramesInv, Finished
<1>6. QED
  BY <1>2, <1>4, <1>5 DEF Inv

LEMMA RefuseStep ==
    ASSUME Inv, NEW reason, Refuse(reason)
    PROVE  Inv'
BY Stopped DEF Refuse, analysis, Finished

\* The program of the variant whose turn it is.
LEMMA CodeFacts ==
    ASSUME Inv, phase = "analyzing"
    PROVE  /\ Len(variants) \in Nat /\ DOMAIN variants = 1 .. Len(variants)
           /\ turn \in 1 .. Len(variants) /\ IsVariant(Current) /\ Code = sources[Current.name]
           /\ Len(Code) \in Nat /\ DOMAIN Code = 1 .. Len(Code)
           /\ \A pc \in DOMAIN Code :
                 /\ JumpsInside(Code[pc], Code)
                 /\ Code[pc].op = "WRITE_TEXT" => Code[pc].name \in DOMAIN Texts
<1>1. Len(variants) \in Nat /\ DOMAIN variants = 1 .. Len(variants)
  BY SequenceFacts DEF Inv, TypeInv, VariantsInv
<1>2. turn \in 1 .. Len(variants)
  BY <1>1 DEF Inv, WorklistInv
<1>3. IsVariant(Current)
  BY <1>2 DEF Inv, TypeInv, VariantsInv, Current
<1>4. Code = sources[Current.name] /\ Current.name \in DOMAIN sources
  BY <1>3 DEF Code, IsVariant
<1>5. QED
  BY <1>1, <1>2, <1>3, <1>4, ProgramFacts DEF Inv, TypeInv

\* A position keeps its place when contexts only rise.
LEMMA SettledAfterRaise ==
    ASSUME NEW vs, VariantsInv(vs), NEW code, NEW at, NEW new, NEW pc, Settled(vs, code, at, pc),
           new[pc] = at[pc], at[pc] \in ContextRecords,
           code[pc].op = "WRITE_TEXT" => code[pc].name \in DOMAIN Texts,
           \A q \in DOMAIN at :
              /\ q \in DOMAIN new
              /\ \A c \in ContextRecords : Covers(at[q], c) => Covers(new[q], c)
    PROVE  Settled(vs, code, new, pc)
<1> DEFINE out == Transfer(vs, code[pc], at[pc])
<1>1. Calls(code[pc]) => Has(vs, code[pc].name, at[pc])
  BY DEF Settled
<1>2. out \in ContextRecords
  BY <1>1, TransferType
<1>3. \A k \in DOMAIN Successors(pc, code[pc]) :
         /\ Successors(pc, code[pc])[k] \in DOMAIN at
         /\ Covers(at[Successors(pc, code[pc])[k]], out)
  BY DEF Settled, PassedOn
<1> HIDE DEF out
<1>4. \A k \in DOMAIN Successors(pc, code[pc]) :
         /\ Successors(pc, code[pc])[k] \in DOMAIN new
         /\ Covers(new[Successors(pc, code[pc])[k]], out)
  BY <1>2, <1>3
<1>5. PassedOn(vs, code, new, pc)
  BY <1>4 DEF PassedOn, out
<1>6. QED
  BY <1>1, <1>5 DEF Settled

LEMMA VisitStep ==
    ASSUME Inv, Visit
    PROVE  Inv'
<1> DEFINE pc == Head(pending)
           i == Code[pc]
           c == incoming[pc]
           n == Len(Code)
           vs == IF Calls(i) THEN EnsureVariant(variants, i.name, c) ELSE variants
           out == Transfer(vs, i, c)
           nexts == Successors(pc, i)
           w == [incoming |-> incoming, pending |-> Tail(pending), why |-> <<>>]
           r == ReachEach(w, nexts, out)
<1>1. phase = "analyzing" /\ pending # <<>>
  BY DEF Visit
<1>2. CASE out.kind = "ERROR" \/ r.why # <<>>
  <2>1. Refuse(<<"context">>) \/ Refuse(r.why)
    BY <1>2 DEF Visit
  <2>2. QED
    BY <2>1, RefuseStep
<1>3. CASE out.kind # "ERROR" /\ r.why = <<>>
  <2>1. /\ incoming' = r.incoming /\ pending' = r.pending /\ variants' = vs
        /\ UNCHANGED <<sources, phase, changed, turn, count>>
    BY <1>3 DEF Visit
  <2>2. /\ n \in Nat /\ DOMAIN Code = 1 .. n /\ turn \in 1 .. Len(variants)
        /\ \A q \in DOMAIN Code :
              /\ JumpsInside(Code[q], Code)
              /\ Code[q].op = "WRITE_TEXT" => Code[q].name \in DOMAIN Texts
    BY <1>1, CodeFacts
  <2>3. /\ count \in 1 .. Len(variants) /\ turn \in 1 .. count
        /\ \A k \in 1 .. Len(variants) : k > count => ~variants[k].done
        /\ IsMap(incoming, n) /\ 1 \in DOMAIN incoming
        /\ pending \in Seq(1 .. n) /\ Range(pending) \subseteq DOMAIN incoming
        /\ Covers(incoming[1], Current.start)
        /\ \A q \in DOMAIN incoming :
              q \in DOMAIN Code \ Range(pending) => Settled(variants, Code, incoming, q)
    BY <1>1 DEF Inv, WorklistInv
  <2>4. /\ pc \in 1 .. n /\ Tail(pending) \in Seq(1 .. n)
        /\ Range(pending) = {pc} \cup Range(Tail(pending))
    BY <1>1, <2>3, HeadAndTail
  <2>5. pc \in DOMAIN incoming /\ c \in ContextRecords
    BY <2>3, <2>4 DEF IsMap
  <2>6. VariantsInv(variants) /\ sources \in Associations /\ changed \in BOOLEAN
    BY DEF Inv, TypeInv
  <2>7. /\ Continues(variants, vs) /\ (Calls(i) => Has(vs, i.name, c))
        /\ \A k \in 1 .. Len(vs) : k > Len(variants) => ~vs[k].done
    <3>1. CASE Calls(i)
      <4>1. i.name \in DOMAIN sources
        BY <3>1 DEF Calls
      <4>2. QED
        BY <2>5, <2>6, <3>1, <4>1, Ensured
    <3>2. CASE ~Calls(i)
      <4>1. Len(variants) \in Nat
        BY <1>1, CodeFacts
      <4>2. QED
        BY <2>6, <3>2, <4>1 DEF Continues
    <3>3. QED
      BY <3>1, <3>2
  <2>8. JumpsInside(i, Code) /\ (i.op = "WRITE_TEXT" => i.name \in DOMAIN Texts)
    BY <2>2, <2>4
  <2>9. Targets(nexts, n)
    BY <2>2, <2>4, <2>8, SuccessorFacts DEF Targets
  <2> HIDE DEF pc, vs, nexts, i
  <2>10. VariantsInv(vs)
    BY <2>7 DEF Continues
  <2>11. out \in ContextRecords
    BY <2>5, <2>7, <2>8, <2>10, TransferType
  <2> HIDE DEF out, c
  <2>12. WorkState(w, n)
    <3>1. Range(Tail(pending)) \subseteq DOMAIN incoming
      BY <2>3, <2>4
    <3>2. QED
      BY <2>3, <2>4, <3>1 DEF WorkState
  <2>13. w.incoming = incoming /\ w.pending = Tail(pending)
    OBVIOUS
  <2> HIDE DEF w
  <2>14. /\ WorkState(r, n) /\ Raises(w, r, n)
         /\ Reached(r.incoming, nexts, out)
    <3>1. ReachEach(w, nexts, out).why = <<>>
      BY <1>3
    <3>2. QED
      BY <2>2, <2>9, <2>11, <2>12, <3>1, EachRaises
  <2> HIDE DEF r
  <2>15. /\ \A q \in DOMAIN incoming :
               /\ q \in DOMAIN r.incoming
               /\ \A d \in ContextRecords : Covers(incoming[q], d) => Covers(r.incoming[q], d)
         /\ Range(Tail(pending)) \subseteq Range(r.pending)
         /\ \A q \in DOMAIN r.incoming \cap (1 .. n) :
               q \notin Range(r.pending) => q \in DOMAIN incoming /\ r.incoming[q] = incoming[q]
    BY <2>13, <2>14 DEF Raises
  <2>16. vs[turn] = variants[turn] /\ Len(variants) <= Len(vs) /\ Len(vs) \in Nat
    BY <2>2, <2>7, <2>10, SequenceFacts DEF Continues, VariantsInv
  <2>17. Current' = Current /\ Code' = Code
    BY <2>1, <2>16 DEF Current, Code
  <2>18. ASSUME NEW q \in DOMAIN r.incoming, q \in DOMAIN Code \ Range(r.pending)
         PROVE  Settled(vs, Code, r.incoming, q)
    <3>1. q \in DOMAIN incoming /\ r.incoming[q] = incoming[q]
      BY <2>2, <2>15, <2>18
    <3>2. CASE q = pc
      <4>1. Code[q] = i /\ r.incoming[q] = c
        BY <3>1, <3>2 DEF i, c
      <4>2. PassedOn(vs, Code, r.incoming, q)
        BY <2>14, <3>2, <4>1 DEF PassedOn, Reached, nexts, out
      <4>3. QED
        BY <2>7, <4>1, <4>2 DEF Settled
    <3>3. CASE q # pc
      <4>1. q \in DOMAIN Code \ Range(pending)
        BY <2>4, <2>15, <2>18, <3>3
      <4>2. Settled(variants, Code, incoming, q)
        BY <2>3, <3>1, <4>1
      <4>3. Settled(vs, Code, incoming, q)
        BY <2>7, <4>2, StaysSettled
      <4>4. incoming[q] \in ContextRecords
        BY <2>3, <3>1 DEF IsMap
      <4>5. Code[q].op = "WRITE_TEXT" => Code[q].name \in DOMAIN Texts
        BY <2>2, <2>18
      <4>6. QED
        BY <2>10, <2>15, <3>1, <4>3, <4>4, <4>5, SettledAfterRaise
    <3>4. QED
      BY <3>2, <3>3
  <2>19. TypeInv'
    BY <2>1, <2>6, <2>10, NextAssociation DEF TypeInv
  <2>20. WorklistInv'
    <3>1. count' \in 1 .. Len(variants') /\ turn' \in 1 .. count'
      BY <2>1, <2>3, <2>16
    <3>2. \A k \in 1 .. Len(variants') : k > count' => ~variants'[k].done
      BY <2>1, <2>2, <2>3, <2>7, <2>16 DEF Continues
    <3>3. /\ IsMap(incoming', Len(Code')) /\ pending' \in Seq(1 .. Len(Code'))
          /\ Range(pending') \subseteq DOMAIN incoming'
      BY <2>1, <2>14, <2>17 DEF WorkState
    <3>4. Current.start \in ContextRecords
      BY <1>1, CodeFacts DEF IsVariant
    <3>5. 1 \in DOMAIN incoming' /\ Covers(incoming'[1], Current'.start)
      BY <2>1, <2>3, <2>15, <2>17, <3>4
    <3>6. \A q \in DOMAIN incoming' :
             q \in DOMAIN Code' \ Range(pending') => Settled(variants', Code', incoming', q)
      BY <2>1, <2>17, <2>18
    <3>7. \A q \in DOMAIN incoming' :
             q \in DOMAIN Code' \ Range(pending') => Settled(variants, Code, incoming, q)'
      BY <2>1, <3>6, NextAssociation
    <3>8. QED
      BY <3>1, <3>2, <3>3, <3>5, <3>7 DEF WorklistInv
  <2>21. RoundInv'
    <3>1. SUFFICES ASSUME ~changed, NEW k \in 1 .. turn - 1
                   PROVE  Solved(vs, k)
      BY <1>1, <2>1, NextAssociation DEF RoundInv
    <3>2. Solved(variants, k) /\ k \in 1 .. Len(variants)
      BY <1>1, <2>2, <3>1 DEF Inv, RoundInv
    <3>3. QED
      BY <2>7, <3>2, StaysSolved
  <2>22. FinishedInv' /\ FramesInv'
    BY <1>1, <2>1 DEF FinishedInv, FramesInv, Finished
  <2>23. QED
    BY <2>19, <2>20, <2>21, <2>22 DEF Inv
<1>4. QED
  BY <1>2, <1>3

----------------------------------------------------------------------------
(* Rounds                                                                   *)

LEMMA ResultFacts ==
    ASSUME Inv, phase = "analyzing"
    PROVE  Result = [name |-> Current.name, start |-> Current.start,
                     output |-> ContextAt(Len(Code) + 1),
                     code |-> [pc \in DOMAIN Code |-> Rewritten(pc)], done |-> TRUE]
<1> DEFINE out == ContextAt(Len(Code) + 1)
           code == [pc \in DOMAIN Code |-> Rewritten(pc)]
           v == Current
           a == [v EXCEPT !.output = out]
           b == [a EXCEPT !.code = code]
<1>1. v = [name |-> v.name, start |-> v.start, output |-> v.output, code |-> v.code, done |-> v.done]
  BY CodeFacts DEF IsVariant
<1>2. Result = [b EXCEPT !.done = TRUE]
  BY DEF Result
<1> HIDE DEF out, code, v
<1>3. a = [name |-> v.name, start |-> v.start, output |-> out, code |-> v.code, done |-> v.done]
  BY <1>1
<1> HIDE DEF a
<1>4. b = [name |-> v.name, start |-> v.start, output |-> out, code |-> code, done |-> v.done]
  BY <1>3
<1> HIDE DEF b
<1>5. [b EXCEPT !.done = TRUE] =
         [name |-> v.name, start |-> v.start, output |-> out, code |-> code, done |-> TRUE]
  <2> DEFINE y == TRUE
  <2> HIDE DEF y
  <2>1. [b EXCEPT !.done = y] =
           [name |-> v.name, start |-> v.start, output |-> out, code |-> code, done |-> y]
    BY <1>4
  <2>2. QED
    BY <2>1, Zenon DEF y
<1>6. QED
  BY <1>2, <1>5 DEF out, code, v

LEMMA ContextAtType ==
    ASSUME Inv, phase = "analyzing", NEW pc
    PROVE  ContextAt(pc) \in ContextRecords
<1>1. Current.start \in ContextRecords
  BY CodeFacts DEF IsVariant
<1>2. pc \in DOMAIN incoming => incoming[pc] \in ContextRecords
  BY DEF Inv, WorklistInv, IsMap
<1>3. QED
  BY <1>1, <1>2 DEF ContextAt

\* A round replaces variants and keeps their names and contexts.
LEMMA StoredFacts ==
    ASSUME Inv, phase = "analyzing"
    PROVE  /\ VariantsInv(Stored) /\ Len(Stored) = Len(variants)
           /\ \A k \in 1 .. Len(variants) : Stored[k] = IF k = turn THEN Result ELSE variants[k]
<1>1. /\ Len(variants) \in Nat /\ turn \in 1 .. Len(variants) /\ IsVariant(Current)
  BY CodeFacts
<1>2. IsSequence(variants) /\ (\A k \in 1 .. Len(variants) : IsVariant(variants[k])) /\ KeysDiffer(variants)
  BY DEF Inv, TypeInv, VariantsInv
<1>3. /\ IsSequence(Stored) /\ Len(Stored) = Len(variants)
      /\ \A k \in 1 .. Len(variants) : Stored[k] = IF k = turn THEN Result ELSE variants[k]
  BY <1>1, <1>2, Replaced DEF Stored
<1>4. IsVariant(Result) /\ Result.name = Current.name /\ Result.start = Current.start
  <2>1. ContextAt(Len(Code) + 1) \in ContextRecords
    BY ContextAtType
  <2> DEFINE code == [pc \in DOMAIN Code |-> Rewritten(pc)]
             out == ContextAt(Len(Code) + 1)
  <2>2. Result = [name |-> Current.name, start |-> Current.start, output |-> out, code |-> code,
                  done |-> TRUE]
    BY ResultFacts
  <2> HIDE DEF code
  <2>3. QED
    BY <1>1, <2>1, <2>2 DEF IsVariant
<1>5. \A k \in 1 .. Len(variants) :
         Stored[k].name = variants[k].name /\ Stored[k].start = variants[k].start
  BY <1>3, <1>4 DEF Current
<1>6. \A k \in 1 .. Len(variants) : IsVariant(Stored[k])
  BY <1>2, <1>3, <1>4
<1>7. KeysDiffer(Stored)
  BY <1>2, <1>3, <1>5 DEF KeysDiffer
<1>8. QED
  BY <1>1, <1>3, <1>6, <1>7 DEF VariantsInv

\* Where a turn ends with the variant it began with, its worklist solves it.
LEMMA ResultSolves ==
    ASSUME Inv, Rewrites, Result = Current
    PROVE  Solves(variants, turn, incoming)
<1> DEFINE v == variants[turn]
           out == ContextAt(Len(Code) + 1)
           code == [pc \in DOMAIN Code |-> Rewritten(pc)]
<1>1. phase = "analyzing" /\ pending = <<>> /\ \A pc \in DOMAIN Code : ~FailsToRewrite(pc)
  BY DEF Rewrites, Rewriting
<1>2. /\ IsMap(incoming, Len(Code)) /\ 1 \in DOMAIN incoming /\ Covers(incoming[1], Current.start)
      /\ \A pc \in DOMAIN incoming :
            pc \in DOMAIN Code \ Range(pending) => Settled(variants, Code, incoming, pc)
  BY <1>1 DEF Inv, WorklistInv
<1>3. Range(pending) = {}
  BY <1>1 DEF Range
<1>4. v = Current /\ Code = sources[v.name]
  BY DEF Current, Code
<1>5. Result = [name |-> Current.name, start |-> Current.start, output |-> out, code |-> code,
                done |-> TRUE]
  BY <1>1, ResultFacts
<1> HIDE DEF v, code, out
<1>6. v.done /\ v.output = out /\ v.code = code
  BY <1>4, <1>5
<1>7. v.output = IF Len(Code) + 1 \in DOMAIN incoming THEN incoming[Len(Code) + 1] ELSE v.start
  BY <1>4, <1>6 DEF out, ContextAt
<1>8. DOMAIN v.code = DOMAIN Code /\ \A pc \in DOMAIN Code : v.code[pc] = Rewritten(pc)
  BY <1>6 DEF code
<1>9. ASSUME NEW pc \in DOMAIN incoming \cap DOMAIN Code
      PROVE  /\ Settled(variants, Code, incoming, pc) /\ ~Fails(Code[pc], incoming[pc])
             /\ v.code[pc] = RewrittenIn(variants, Code[pc], incoming[pc])
  <2>1. ContextAt(pc) = incoming[pc] /\ CallContextAt(pc) = incoming[pc]
    BY <1>9 DEF ContextAt, CallContextAt
  <2>2. ~Fails(Code[pc], incoming[pc])
    BY <1>1, <2>1 DEF FailsToRewrite
  <2>3. Rewritten(pc) = RewrittenIn(variants, Code[pc], incoming[pc])
    BY <2>1 DEF Rewritten
  <2>4. QED
    BY <1>2, <1>3, <1>8, <2>2, <2>3
<1>10. QED
  BY <1>2, <1>4, <1>6, <1>7, <1>8, <1>9 DEF Solves, IsMap, v

\* A turn that begins has everything in front of it.
LEMMA TurnBegins ==
    ASSUME Inv, phase = "analyzing", phase' = phase, sources' = sources, variants' = Stored,
           changed' \in BOOLEAN, NEW k \in 1 .. Len(Stored), Begin(Stored, k), k \in 1 .. count',
           count' \in 1 .. Len(Stored),
           \A j \in 1 .. Len(Stored) : j > count' => ~Stored[j].done
    PROVE  TypeInv' /\ WorklistInv' /\ FinishedInv' /\ FramesInv'
<1>1. VariantsInv(Stored)
  BY StoredFacts
<1>2. TypeInv'
  BY <1>1, NextAssociation DEF Inv, TypeInv
<1>3. IsVariant(Stored[k]) /\ Stored[k].name \in DOMAIN sources /\ Stored[k].start \in ContextRecords
  BY <1>1 DEF VariantsInv, IsVariant
<1> DEFINE code == sources[Stored[k].name]
           start == Stored[k].start
<1>4. Len(code) \in Nat /\ DOMAIN code = 1 .. Len(code)
  BY <1>3, ProgramFacts DEF Inv, TypeInv
<1>5. turn' = k /\ Current' = Stored[k] /\ Code' = code
  BY DEF Begin, Current, Code
<1>6. incoming' = [pc \in {1} |-> start] /\ pending' = IF code = <<>> THEN <<>> ELSE <<1>>
  BY DEF Begin
<1> HIDE DEF code, start
<1>7. DOMAIN incoming' = {1} /\ incoming'[1] = start /\ start \in ContextRecords
  BY <1>3, <1>6 DEF start
<1>8. IsMap(incoming', Len(code))
  BY <1>4, <1>7 DEF IsMap
<1>9. Covers(incoming'[1], Current'.start)
  BY <1>5, <1>7, UnderItself, CoversUnder DEF start
<1>10. /\ pending' \in Seq(1 .. Len(code)) /\ Range(pending') \subseteq {1}
       /\ DOMAIN code \cap {1} \subseteq Range(pending')
  <2>1. CASE code = <<>>
    <3>1. pending' = <<>> /\ DOMAIN code = {}
      BY <1>6, <2>1
    <3>2. QED
      BY <3>1 DEF Range
  <2>2. CASE code # <<>>
    <3>1. pending' = <<1>>
      BY <1>6, <2>2
    <3>2. Len(code) # 0
      BY <1>4, <2>2, ProgramFacts, <1>3, EmptySeq DEF code, IsSequence, Inv, TypeInv
    <3>3. 1 \in 1 .. Len(code) /\ Range(<<1>>) = {1}
      BY <1>4, <3>2 DEF Range
    <3>4. QED
      BY <3>1, <3>3
  <2>3. QED
    BY <2>1, <2>2
<1>11. \A pc \in DOMAIN incoming' : ~(pc \in DOMAIN Code' \ Range(pending'))
  BY <1>5, <1>7, <1>10
<1>12. WorklistInv'
  BY <1>5, <1>7, <1>8, <1>9, <1>10, <1>11 DEF WorklistInv
<1>13. FinishedInv' /\ FramesInv'
  BY DEF FinishedInv, FramesInv, Finished
<1>14. QED
  BY <1>2, <1>12, <1>13

LEMMA VariantStep ==
    ASSUME Inv, NextVariant
    PROVE  Inv'
<1>1. /\ phase = "analyzing" /\ Rewrites /\ turn < count /\ variants' = Stored /\ changed' = Changed
      /\ Begin(Stored, turn + 1) /\ UNCHANGED <<sources, phase, count>>
  BY DEF NextVariant, Rewrites, Rewriting
<1>2. /\ Len(variants) \in Nat /\ count \in 1 .. Len(variants) /\ turn \in 1 .. count
      /\ \A k \in 1 .. Len(variants) : k > count => ~variants[k].done
  BY <1>1, CodeFacts DEF Inv, WorklistInv
<1>3. /\ VariantsInv(Stored) /\ Len(Stored) = Len(variants)
      /\ \A k \in 1 .. Len(variants) : Stored[k] = IF k = turn THEN Result ELSE variants[k]
  BY <1>1, StoredFacts
<1>4. Changed \in BOOLEAN
  BY DEF Inv, TypeInv, Changed
<1>5. turn + 1 \in 1 .. count /\ turn + 1 \in 1 .. Len(Stored)
  BY <1>1, <1>2, <1>3
<1>6. \A j \in 1 .. Len(Stored) : j > count => ~Stored[j].done
  BY <1>2, <1>3
<1> DEFINE k == turn + 1
<1>7. k \in 1 .. Len(Stored) /\ Begin(Stored, k) /\ k \in 1 .. count'
  BY <1>1, <1>5
<1> HIDE DEF k
<1>8. TypeInv' /\ WorklistInv' /\ FinishedInv' /\ FramesInv'
  BY <1>1, <1>2, <1>3, <1>4, <1>6, <1>7, TurnBegins
<1>9. RoundInv'
  <2>1. SUFFICES ASSUME ~Changed
                 PROVE  \A j \in 1 .. turn : Solved(variants', j)
    BY <1>1, <1>2, NextAssociation DEF RoundInv, Begin
  <2>2. ~changed /\ Result = Current
    BY <2>1 DEF Changed
  <2>3. variants' = variants
    <3>1. Stored = variants
      <4>1. Stored = [variants EXCEPT ![turn] = variants[turn]]
        BY <2>2 DEF Stored, Current
      <4>2. IsSequence(variants)
        BY DEF Inv, TypeInv, VariantsInv
      <4>3. QED
        BY <4>1, <4>2 DEF IsSequence
    <3>2. QED
      BY <1>1, <3>1
  <2>4. Solved(variants, turn)
    BY <1>1, <2>2, ResultSolves DEF Solved
  <2>5. \A j \in 1 .. turn - 1 : Solved(variants, j)
    BY <1>1, <2>2 DEF Inv, RoundInv
  <2>6. QED
    BY <1>2, <2>3, <2>4, <2>5
<1>10. QED
  BY <1>8, <1>9 DEF Inv

LEMMA RoundStep ==
    ASSUME Inv, NextRound
    PROVE  Inv'
<1>1. /\ phase = "analyzing" /\ variants' = Stored /\ changed' = FALSE
      /\ count' = Len(Stored) /\ Begin(Stored, 1) /\ UNCHANGED <<sources, phase>>
  BY DEF NextRound, Rewrites, Rewriting
<1>2. Len(variants) \in Nat /\ turn \in 1 .. Len(variants) /\ Len(Stored) = Len(variants)
  BY <1>1, CodeFacts, StoredFacts
<1>3. /\ 1 \in 1 .. Len(Stored) /\ 1 \in 1 .. count' /\ count' \in 1 .. Len(Stored)
      /\ \A j \in 1 .. Len(Stored) : ~(j > count')
  BY <1>1, <1>2
<1> DEFINE k == 1
<1>4. k \in 1 .. Len(Stored) /\ Begin(Stored, k) /\ k \in 1 .. count'
  BY <1>1, <1>3
<1> HIDE DEF k
<1>5. TypeInv' /\ WorklistInv' /\ FinishedInv' /\ FramesInv'
  BY <1>1, <1>3, <1>4, TurnBegins
<1>6. RoundInv'
  BY <1>1 DEF RoundInv, Begin
<1>7. QED
  BY <1>5, <1>6 DEF Inv

LEMMA ConcludeStep ==
    ASSUME Inv, Conclude
    PROVE  Inv'
<1>1. CASE Refuse(<<"nontext">>)
  BY <1>1, RefuseStep
<1>2. CASE ~Refuse(<<"nontext">>)
  <2>1. /\ AllRewritten /\ phase' = "accepted" /\ UNCHANGED <<sources, variants, changed>>
        /\ phase = "analyzing" /\ Rewrites /\ turn = count /\ ~Changed
    BY <1>2 DEF Conclude, Stable, Rewrites, Rewriting, analysis
  <2>2. /\ Len(variants) \in Nat /\ DOMAIN variants = 1 .. Len(variants)
        /\ count \in 1 .. Len(variants)
        /\ \A k \in 1 .. Len(variants) : k > count => ~variants[k].done
    BY <2>1, CodeFacts DEF Inv, WorklistInv
  <2>3. \A k \in 1 .. Len(variants) : variants[k].done
    BY <2>1, <2>2 DEF AllRewritten
  <2>4. turn = Len(variants)
    <3>1. ASSUME count # Len(variants)
          PROVE  FALSE
      <4> DEFINE n == Len(variants)
      <4>1. n \in Nat /\ count \in 1 .. n /\ count # n
        BY <2>2, <3>1
      <4>2. (\A k \in 1 .. n : variants[k].done) /\ \A k \in 1 .. n : k > count => ~variants[k].done
        BY <2>2, <2>3
      <4> HIDE DEF n
      <4>3. n > count /\ n \in 1 .. n
        BY <4>1
      <4>4. QED
        BY <4>2, <4>3, Zenon
    <3>2. QED
      BY <2>1, <3>1
  <2>5. ~changed /\ Result = Current
    BY <2>1 DEF Changed
  <2>6. Solved(variants, turn)
    BY <2>1, <2>5, ResultSolves DEF Solved
  <2>7. \A k \in 1 .. turn - 1 : Solved(variants, k)
    BY <2>1, <2>5 DEF Inv, RoundInv
  <2>8. \A k \in 1 .. Len(variants) : Solved(variants, k)
    BY <2>2, <2>4, <2>6, <2>7
  <2>9. FinishedInv'
    BY <2>1, <2>8, NextAssociation DEF FinishedInv
  <2>10. TypeInv'
    BY <2>1, NextAssociation DEF Inv, TypeInv
  <2>11. WorklistInv' /\ RoundInv' /\ FramesInv'
    BY <2>1 DEF WorklistInv, RoundInv, FramesInv
  <2>12. QED
    BY <2>9, <2>10, <2>11 DEF Inv
<1>3. QED
  BY <1>1, <1>2
----------------------------------------------------------------------------
(* The beginning                                                            *)

LEMMA Enumerated ==
    ASSUME NEW S, IsFiniteSet(S)
    PROVE  /\ SetToSeq(S) \in Seq(S)
           /\ \A j, k \in 1 .. Len(SetToSeq(S)) : SetToSeq(S)[j] = SetToSeq(S)[k] => j = k
<1> DEFINE n == Cardinality(S)
<1>1. n \in Nat /\ \E f : f \in Bijection(1 .. n, S)
  BY FS_CardinalityType DEF ExistsBijection
<1>2. \E f \in [1 .. n -> S] : IsInjective(f)
  BY <1>1, Zenon DEF Bijection, Injection
<1>3. SetToSeq(S) \in [1 .. n -> S] /\ IsInjective(SetToSeq(S))
  BY <1>2, Zenon DEF SetToSeq
<1> DEFINE s == SetToSeq(S)
<1> HIDE DEF n, s
<1>4. s \in Seq(S) /\ Len(s) = n
  BY <1>1, <1>3 DEF s
<1>5. QED
  BY <1>3, <1>4 DEF IsInjective, s

LEMMA FirstVariantsInv ==
    ASSUME sources \in Associations
    PROVE  /\ VariantsInv(FirstVariants(sources)) /\ FirstVariants(sources)[1] = Variant(RootName, TextContext)
           /\ \A k \in 1 .. Len(FirstVariants(sources)) : ~FirstVariants(sources)[k].done
<1> DEFINE names == DOMAIN sources \ {RootName}
           defined == {Variant(n, TextContext) : n \in names}
           root == Variant(RootName, TextContext)
           rest == SetToSeq(defined)
           vs == FirstVariants(sources)
<1>1. RootName \in DOMAIN sources /\ IsFiniteSet(DOMAIN sources)
  BY AssociationAssumption
<1>2. IsFiniteSet(defined)
  <2>1. IsFiniteSet(names)
    BY <1>1, FS_RemoveElement
  <2> DEFINE g == [n \in names |-> Variant(n, TextContext)]
  <2>2. g \in Surjection(names, defined)
    BY DEF Surjection
  <2> HIDE DEF names, defined, g
  <2>3. QED
    BY <2>1, <2>2, FS_Surjection
<1>3. /\ rest \in Seq(defined)
      /\ \A j, k \in 1 .. Len(rest) : rest[j] = rest[k] => j = k
  BY <1>2, Enumerated
<1>4. \A n \in DOMAIN sources :
         /\ IsVariant(Variant(n, TextContext)) /\ Variant(n, TextContext).name = n
         /\ Variant(n, TextContext).start = TextContext /\ ~Variant(n, TextContext).done
  BY TextContextType, NewVariant
<1>5. /\ IsVariant(root) /\ root.name = RootName /\ root.start = TextContext /\ ~root.done
  BY <1>1, <1>4
<1>6. \A v \in defined : /\ IsVariant(v) /\ v.name \in names /\ ~v.done
                         /\ v = Variant(v.name, TextContext) /\ v.start = TextContext
  BY <1>4
<1>7. vs = <<root>> \o rest
  BY DEF FirstVariants
<1> DEFINE S == {root} \cup defined
<1> HIDE DEF defined, root, rest, vs
<1>8. <<root>> \in Seq(S) /\ rest \in Seq(S) /\ Len(<<root>>) = 1 /\ <<root>>[1] = root
  BY <1>3, SeqMonotonic
<1>9. Len(rest) \in Nat /\ \A k \in 1 .. Len(rest) : rest[k] \in defined
  BY <1>3
<1> HIDE DEF S
<1>10. /\ vs \in Seq(S) /\ Len(vs) = 1 + Len(rest)
       /\ \A k \in 1 .. 1 + Len(rest) : vs[k] = IF k <= 1 THEN <<root>>[k] ELSE rest[k - 1]
  BY <1>7, <1>8, ConcatProperties
<1>11. vs[1] = root
  BY <1>8, <1>9, <1>10
<1>12. ASSUME NEW k \in 1 .. Len(vs), k # 1
       PROVE  k - 1 \in 1 .. Len(rest) /\ vs[k] = rest[k - 1] /\ vs[k] \in defined
  BY <1>9, <1>10, <1>12
<1>13. \A k \in 1 .. Len(vs) : IsVariant(vs[k]) /\ ~vs[k].done
  BY <1>5, <1>6, <1>11, <1>12
<1>14. KeysDiffer(vs)
  <2>1. SUFFICES ASSUME NEW j \in 1 .. Len(vs), NEW k \in 1 .. Len(vs), vs[j].name = vs[k].name
                 PROVE  j = k
    BY DEF KeysDiffer
  <2>2. CASE j = 1 /\ k = 1
    BY <2>2
  <2>3. CASE j = 1 /\ k # 1
    BY <1>5, <1>6, <1>11, <1>12, <2>1, <2>3
  <2>4. CASE j # 1 /\ k = 1
    BY <1>5, <1>6, <1>11, <1>12, <2>1, <2>4
  <2>5. CASE j # 1 /\ k # 1
    <3>1. vs[j] = vs[k]
      BY <1>6, <1>12, <2>1, <2>5
    <3>2. j - 1 = k - 1
      BY <1>3, <1>12, <2>5, <3>1
    <3>3. QED
      BY <3>2
  <2>6. QED
    BY <2>2, <2>3, <2>4, <2>5
<1>15. IsSequence(vs) /\ Len(vs) # 0
  BY <1>9, <1>10, SeqOfRange DEF IsSequence
<1>16. QED
  BY <1>11, <1>13, <1>14, <1>15 DEF VariantsInv, vs, root

LEMMA InitInv == Init => Inv
<1> SUFFICES ASSUME Init
             PROVE  Inv
  OBVIOUS
<1>1. /\ sources \in Associations /\ phase = "analyzing" /\ variants = FirstVariants(sources)
      /\ changed = FALSE /\ turn = 1 /\ count = Len(variants)
      /\ incoming = [pc \in {1} |-> TextContext]
      /\ pending = IF sources[RootName] = <<>> THEN <<>> ELSE <<1>>
  BY DEF Init
<1>2. /\ VariantsInv(variants) /\ variants[1] = Variant(RootName, TextContext)
      /\ \A k \in 1 .. Len(variants) : ~variants[k].done
  BY <1>1, FirstVariantsInv
<1>3. RootName \in DOMAIN sources
  BY <1>1, AssociationAssumption
<1>4. Variant(RootName, TextContext).name = RootName /\ Variant(RootName, TextContext).start = TextContext
  BY DEF Variant
<1> DEFINE code == sources[RootName]
<1>5. Current = Variant(RootName, TextContext) /\ Code = code
  BY <1>1, <1>2, <1>4 DEF Current, Code
<1>6. IsSequence(code) /\ Len(code) \in Nat /\ DOMAIN code = 1 .. Len(code)
  BY <1>1, <1>3, ProgramFacts
<1>7. pending = IF code = <<>> THEN <<>> ELSE <<1>>
  BY <1>1
<1> HIDE DEF code
<1>8. Len(variants) \in Nat /\ Len(variants) # 0
  BY <1>2, SequenceFacts DEF VariantsInv
<1>9. DOMAIN incoming = {1} /\ incoming[1] = TextContext
  BY <1>1
<1>10. Covers(incoming[1], Current.start)
  BY <1>4, <1>5, <1>9, TextContextType, UnderItself, CoversUnder
<1>11. /\ pending \in Seq(1 .. Len(code)) /\ Range(pending) \subseteq {1}
       /\ DOMAIN code \cap {1} \subseteq Range(pending)
  <2>1. CASE code = <<>>
    <3>1. pending = <<>> /\ DOMAIN code = {}
      BY <1>7, <2>1
    <3>2. QED
      BY <3>1 DEF Range
  <2>2. CASE code # <<>>
    <3>1. pending = <<1>>
      BY <1>7, <2>2
    <3>2. Len(code) # 0
      BY <1>6, <2>2, EmptySeq DEF IsSequence
    <3>3. 1 \in 1 .. Len(code) /\ Range(<<1>>) = {1}
      BY <1>6, <3>2 DEF Range
    <3>4. QED
      BY <3>1, <3>3
  <2>3. QED
    BY <2>1, <2>2
<1>12. IsMap(incoming, Len(code))
  BY <1>6, <1>9, TextContextType DEF IsMap
<1>13. \A pc \in DOMAIN incoming : ~(pc \in DOMAIN Code \ Range(pending))
  BY <1>5, <1>9, <1>11
<1>14. /\ count \in 1 .. Len(variants) /\ turn \in 1 .. count
       /\ \A k \in 1 .. Len(variants) : k > count => ~variants[k].done
  BY <1>1, <1>2, <1>8
<1>15. WorklistInv
  BY <1>5, <1>9, <1>10, <1>11, <1>12, <1>13, <1>14 DEF WorklistInv
<1>16. TypeInv
  BY <1>1, <1>2 DEF TypeInv
<1>17. RoundInv
  BY <1>1 DEF RoundInv
<1>18. FinishedInv /\ FramesInv
  BY <1>1 DEF FinishedInv, FramesInv, Finished
<1>19. QED
  BY <1>15, <1>16, <1>17, <1>18 DEF Inv
----------------------------------------------------------------------------
(* The run                                                                  *)

\* The phases after the analysis keep the variants, and their solutions.
LEMMA RunKeeps ==
    ASSUME Inv, phase \in Finished, phase' \in Finished \ {"accepted"},
           UNCHANGED <<sources, changed, variants>>,
           phase' = "running" =>
              /\ IsSequence(frames') /\ Len(frames') # 0
              /\ \A j \in 1 .. Len(frames') : Located(frames'[j])
    PROVE  Inv'
<1>1. TypeInv'
  BY NextAssociation DEF Inv, TypeInv
<1>2. phase' # "analyzing"
  BY DEF Finished
<1>3. WorklistInv' /\ RoundInv'
  BY <1>2 DEF WorklistInv, RoundInv
<1>4. FinishedInv'
  BY NextAssociation DEF Inv, FinishedInv
<1>5. \A f : Located(f)' <=> Located(f)
  BY NextAssociation DEF Located
<1>6. FramesInv'
  BY <1>5 DEF FramesInv
<1>7. QED
  BY <1>1, <1>3, <1>4, <1>6 DEF Inv

LEMMA RunStep ==
    ASSUME Inv, Run
    PROVE  Inv'
<1>1. /\ phase = "accepted" /\ phase' = "running" /\ UNCHANGED <<sources, changed, variants>>
  BY DEF Run, analysis
<1>2. PICK k \in TextRoots : frames' = << [v |-> k, pc |-> 1] >>
  BY DEF Run
<1> DEFINE f == [v |-> k, pc |-> 1]
<1>3. k \in 1 .. Len(variants)
  BY SequenceFacts DEF TextRoots, Inv, TypeInv, VariantsInv
<1>4. Solved(variants, k)
  BY <1>1, <1>3 DEF Inv, FinishedInv, Finished
<1>5. f = [v |-> f.v, pc |-> f.pc] /\ f.v = k /\ f.pc = 1
  OBVIOUS
<1>6. frames' = <<f>>
  BY <1>2
<1> HIDE DEF f
<1>7. Located(f)
  BY <1>3, <1>4, <1>5 DEF Located, Solved, Solves
<1>8. IsSequence(frames') /\ Len(frames') = 1 /\ frames'[1] = f
  <2>1. <<f>> \in Seq({f})
    OBVIOUS
  <2>2. QED
    BY <1>6, <2>1, SeqOfRange DEF IsSequence
<1>9. \A j \in 1 .. Len(frames') : Located(frames'[j])
  BY <1>7, <1>8
<1>10. QED
  BY <1>1, <1>8, <1>9, RunKeeps DEF Finished

\* What the innermost frame knows: its contexts, its instruction, and where it
\* may go from there.
LEMMA TopFacts ==
    ASSUME Inv, phase = "running"
    PROVE  /\ IsSequence(frames) /\ Len(frames) \in Nat \ {0}
           /\ \A j \in 1 .. Len(frames) : Located(frames[j])
           /\ Len(frames) \in 1 .. Len(frames) /\ Located(Top) /\ frames[Len(frames)] = Top
<1>1. IsSequence(frames) /\ Len(frames) # 0 /\ \A j \in 1 .. Len(frames) : Located(frames[j])
  BY DEF Inv, FramesInv
<1>2. Len(frames) \in Nat
  BY <1>1, SequenceFacts
<1>3. QED
  BY <1>1, <1>2 DEF Top

\* The top frame moved to pc is at a position with a known context.
LEMMA Moved ==
    ASSUME Inv, phase = "running", NEW at, Solves(variants, Top.v, at), NEW pc \in DOMAIN at
    PROVE  LET moved == [frames EXCEPT ![Len(frames)].pc = pc] IN
           /\ IsSequence(moved) /\ Len(moved) = Len(frames)
           /\ \A j \in 1 .. Len(moved) : Located(moved[j])
<1> DEFINE n == Len(frames)
           f == [frames[n] EXCEPT !.pc = pc]
           moved == [frames EXCEPT ![n].pc = pc]
<1>1. /\ IsSequence(frames) /\ n \in 1 .. Len(frames)
      /\ \A j \in 1 .. Len(frames) : Located(frames[j])
      /\ frames[n] = Top
  BY TopFacts
<1>2. Top = [v |-> Top.v, pc |-> Top.pc] /\ Top.v \in 1 .. Len(variants)
  BY <1>1 DEF Located
<1>3. f = [v |-> Top.v, pc |-> pc]
  BY <1>1, <1>2
<1>4. moved = [frames EXCEPT ![n] = f]
  OBVIOUS
<1> HIDE DEF f, moved
<1>5. f = [v |-> f.v, pc |-> f.pc] /\ f.v = Top.v /\ f.pc = pc
  BY <1>3
<1>6. Located(f)
  BY <1>2, <1>5 DEF Located
<1> HIDE DEF n
<1>7. /\ IsSequence(moved) /\ Len(moved) = Len(frames)
      /\ \A j \in 1 .. Len(frames) : moved[j] = IF j = n THEN f ELSE frames[j]
  <2>1. IsSequence(frames) /\ Len(frames) \in Nat /\ n \in 1 .. Len(frames)
    BY <1>1, SequenceFacts
  <2>2. IsSequence([frames EXCEPT ![n] = f])
    BY <2>1, Replaced
  <2>3. Len([frames EXCEPT ![n] = f]) = Len(frames)
    BY <2>1, Replaced
  <2>4. \A j \in 1 .. Len(frames) : [frames EXCEPT ![n] = f][j] = IF j = n THEN f ELSE frames[j]
    BY <2>1, Replaced
  <2>5. QED
    BY <1>4, <2>2, <2>3, <2>4, Zenon
<1>8. \A j \in 1 .. Len(moved) : Located(moved[j])
  BY <1>1, <1>6, <1>7
<1>9. QED
  BY <1>7, <1>8 DEF moved, n

\* The contexts of the top frame, and what they say of its instruction.
LEMMA TopSolved ==
    ASSUME Inv, Active
    PROVE  \E at : /\ Solves(variants, Top.v, at) /\ Top.pc \in DOMAIN at
                   /\ Settled(variants, Source, at, Top.pc)
                   /\ ~Fails(Instr, at[Top.pc])
                   /\ variants[Top.v].code[Top.pc] = RewrittenIn(variants, Instr, at[Top.pc])
<1>1. phase = "running" /\ Top.pc \in DOMAIN Source
  BY DEF Active
<1>2. PICK at : Solves(variants, Top.v, at) /\ Top.pc \in DOMAIN at
  BY <1>1, TopFacts DEF Located
<1>3. QED
  BY <1>1, <1>2 DEF Solves, Source, Instr

LEMMA ExecuteStep ==
    ASSUME Inv, Execute
    PROVE  Inv'
<1>1. /\ Active /\ phase = "running" /\ UNCHANGED <<sources, phase, changed, variants>>
  BY DEF Execute, Active, analysis
<1>2. PICK k \in DOMAIN Successors(Top.pc, Instr) : GoTo(Successors(Top.pc, Instr)[k])
  BY DEF Execute
<1>3. PICK at : /\ Solves(variants, Top.v, at) /\ Settled(variants, Source, at, Top.pc)
  BY <1>1, TopSolved
<1> DEFINE next == Successors(Top.pc, Instr)[k]
<1>4. next \in DOMAIN at
  BY <1>2, <1>3 DEF Settled, PassedOn, Instr
<1>5. frames' = [frames EXCEPT ![Len(frames)].pc = next]
  BY <1>2 DEF GoTo
<1> HIDE DEF next
<1>6. /\ IsSequence(frames') /\ Len(frames') = Len(frames)
      /\ \A j \in 1 .. Len(frames') : Located(frames'[j])
  BY <1>1, <1>3, <1>4, <1>5, Moved
<1>7. Len(frames) # 0
  BY <1>1, TopFacts
<1>8. QED
  BY <1>1, <1>6, <1>7, RunKeeps DEF Finished

LEMMA CallStep ==
    ASSUME Inv, CallTemplate
    PROVE  Inv'
<1>1. /\ Active /\ phase = "running" /\ Instr.op = "CALL_TEMPLATE"
      /\ UNCHANGED <<sources, changed, variants>>
  BY DEF CallTemplate, Active, analysis
<1>2. CASE ~(Calls(Instr) /\ Len(frames) < MaxFrames)
  <2>1. phase' = "stopped"
    BY <1>2 DEF CallTemplate
  <2>2. QED
    BY <1>1, <2>1, RunKeeps DEF Finished
<1>3. CASE Calls(Instr) /\ Len(frames) < MaxFrames
  <2> DEFINE callee == variants[Top.v].code[Top.pc].callee
             g == [v |-> callee, pc |-> 1]
             next == Top.pc + 1
             moved == [frames EXCEPT ![Len(frames)].pc = next]
  <2>1. frames' = Append([frames EXCEPT ![Len(frames)].pc = @ + 1], g) /\ phase' = phase
    BY <1>3 DEF CallTemplate
  <2>2. [frames EXCEPT ![Len(frames)].pc = @ + 1] = moved
    BY DEF Top
  <2>3. PICK at : /\ Solves(variants, Top.v, at) /\ Top.pc \in DOMAIN at
                  /\ Settled(variants, Source, at, Top.pc)
                  /\ variants[Top.v].code[Top.pc] = RewrittenIn(variants, Instr, at[Top.pc])
    BY <1>1, TopSolved
  <2>4. Has(variants, Instr.name, at[Top.pc])
    BY <1>3, <2>3 DEF Settled, Instr
  <2>5. callee = IndexOf(variants, Instr.name, at[Top.pc])
    BY <1>3, <2>3 DEF RewrittenIn
  <2>6. callee \in 1 .. Len(variants)
    BY <2>4, <2>5, Indexed DEF Inv, TypeInv
  <2>7. Successors(Top.pc, Instr) = <<next>>
    BY <1>1 DEF Successors
  <2>8. next \in DOMAIN at
    BY <2>3, <2>7 DEF Settled, PassedOn, Instr
  <2>9. Solved(variants, callee)
    BY <1>1, <2>6 DEF Inv, FinishedInv, Finished
  <2> HIDE DEF callee, next
  <2>10. g = [v |-> g.v, pc |-> g.pc] /\ g.v = callee /\ g.pc = 1
    OBVIOUS
  <2> HIDE DEF g
  <2>11. Located(g)
    BY <2>6, <2>9, <2>10 DEF Located, Solved, Solves
  <2>12. /\ IsSequence(moved) /\ Len(moved) = Len(frames)
         /\ \A j \in 1 .. Len(moved) : Located(moved[j])
    BY <1>1, <2>3, <2>8, Moved
  <2> HIDE DEF moved
  <2>13. /\ IsSequence(frames') /\ Len(frames') = Len(moved) + 1 /\ frames'[Len(moved) + 1] = g
         /\ \A j \in 1 .. Len(moved) : frames'[j] = moved[j]
    <3>1. frames' = Append(moved, g)
      BY <2>1, <2>2
    <3>2. IsSequence(moved)
      BY <2>12
    <3>3. QED
      BY <3>1, <3>2, Appended
  <2>14. Len(moved) \in Nat
    BY <1>1, <2>12, TopFacts
  <2>15. \A j \in 1 .. Len(frames') : Located(frames'[j])
    <3>1. \A j \in 1 .. Len(moved) + 1 : j \in 1 .. Len(moved) \/ j = Len(moved) + 1
      BY <2>14
    <3>2. QED
      BY <2>11, <2>12, <2>13, <3>1
  <2>16. Len(frames') # 0
    BY <2>13, <2>14
  <2>17. QED
    BY <1>1, <2>1, <2>13, <2>15, <2>16, RunKeeps DEF Finished
<1>4. QED
  BY <1>2, <1>3

LEMMA ReturnStep ==
    ASSUME Inv, Return
    PROVE  Inv'
<1>1. /\ phase = "running" /\ UNCHANGED <<sources, changed, variants>>
      /\ frames' = SubSeq(frames, 1, Len(frames) - 1)
      /\ phase' = IF Len(frames) = 1 THEN "ended" ELSE "running"
  BY DEF Return, analysis
<1>2. /\ IsSequence(frames) /\ Len(frames) \in Nat \ {0}
      /\ \A j \in 1 .. Len(frames) : Located(frames[j])
  BY <1>1, TopFacts
<1>3. CASE Len(frames) = 1
  BY <1>1, <1>3, RunKeeps DEF Finished
<1>4. CASE Len(frames) # 1
  <2> DEFINE n == Len(frames) - 1
             s == SubSeq(frames, 1, n)
  <2>1. n \in Nat /\ n # 0 /\ n <= Len(frames) /\ frames \in Seq(Range(frames))
    BY <1>2, <1>4 DEF IsSequence
  <2>2. s \in Seq(Range(frames)) /\ Len(s) = n /\ \A j \in 1 .. n : s[j] = frames[j]
    <3> HIDE DEF n
    <3>1. QED
      BY <2>1
  <2>3. IsSequence(s)
    BY <2>2, SeqOfRange DEF IsSequence
  <2> HIDE DEF s
  <2>4. \A j \in 1 .. Len(s) : Located(s[j])
    BY <1>2, <2>1, <2>2
  <2>5. frames' = s /\ phase' = "running" /\ Len(s) # 0
    BY <1>1, <1>4, <2>1, <2>2 DEF s
  <2>6. QED
    BY <1>1, <2>3, <2>4, <2>5, RunKeeps DEF Finished
<1>5. QED
  BY <1>3, <1>4
----------------------------------------------------------------------------
(* Theorems                                                                 *)

LEMMA NextInv == Inv /\ [Next]_vars => Inv'
<1> SUFFICES ASSUME Inv, [Next]_vars
             PROVE  Inv'
  OBVIOUS
<1>1. CASE Visit
  BY <1>1, VisitStep
<1>2. CASE RewriteFails \/ Diverge
  BY <1>2, RefuseStep DEF RewriteFails, Diverge
<1>3. CASE NextVariant
  BY <1>3, VariantStep
<1>4. CASE NextRound
  BY <1>4, RoundStep
<1>5. CASE Conclude
  BY <1>5, ConcludeStep
<1>6. CASE AssertionFails
  BY <1>6, Stopped DEF AssertionFails, analysis, Finished
<1>7. CASE Run
  BY <1>7, RunStep
<1>8. CASE Execute
  BY <1>8, ExecuteStep
<1>9. CASE CallTemplate
  BY <1>9, CallStep
<1>10. CASE Return
  BY <1>10, ReturnStep
<1>11. CASE UNCHANGED vars
  <2>1. UNCHANGED <<sources, phase, variants, changed, turn, count, incoming, pending, frames>>
    BY <1>11 DEF vars, analysis
  <2>2. TypeInv'
    BY <2>1, NextAssociation DEF Inv, TypeInv
  <2>3. Current' = Current /\ Code' = Code
    BY <2>1 DEF Current, Code
  <2>4. WorklistInv'
    BY <2>1, <2>3, NextAssociation DEF Inv, WorklistInv
  <2>5. RoundInv' /\ FinishedInv'
    BY <2>1, NextAssociation DEF Inv, RoundInv, FinishedInv
  <2>6. FramesInv'
    <3>1. \A f : Located(f)' <=> Located(f)
      BY <2>1, NextAssociation DEF Located
    <3>2. QED
      BY <2>1, <3>1 DEF Inv, FramesInv
  <2>7. QED
    BY <2>2, <2>4, <2>5, <2>6 DEF Inv
<1>12. QED
  BY <1>1, <1>2, <1>3, <1>4, <1>5, <1>6, <1>7, <1>8, <1>9, <1>10, <1>11 DEF Next, Analyze

THEOREM Invariance == Spec => []Inv
<1>1. Init => Inv
  BY InitInv
<1>2. Inv /\ [Next]_vars => Inv'
  BY NextInv
<1>3. QED
  BY <1>1, <1>2, PTL DEF Spec

\* Of every worklist state of analyzer.py _propagate_contexts, only the positions
\* that are still in the worklist have something to pass on, for any programs:
\* jumps backwards, calls that recurse, and joins in any order included.
THEOREM WorklistIsClosed == Spec => []WorklistClosed
<1>1. Inv => WorklistClosed
  BY DEF Inv, WorklistInv, WorklistClosed, Settled
<1>2. QED
  BY <1>1, Invariance, PTL

\* The variants an accepted association is rendered with were all rewritten, and
\* solve their data-flow equations together: for each there are contexts at its
\* positions, the first of them that of the variant, such that each covers what
\* the positions before it pass on, through the outputs that the variants called
\* there have in the end; none of them fails, the output of the variant is the
\* context behind its last instruction, and every instruction was rewritten for
\* the context at it (analyzer.py _analyze: a round that changes nothing).
AnalysisSolved == phase \in Finished => \A k \in DOMAIN variants : Solved(variants, k)

THEOREM AnalysisIsSolved == Spec => []AnalysisSolved
<1>1. Inv => AnalysisSolved
  <2> SUFFICES ASSUME Inv, phase \in Finished
               PROVE  \A k \in DOMAIN variants : Solved(variants, k)
    BY DEF AnalysisSolved
  <2>1. DOMAIN variants = 1 .. Len(variants)
    BY SequenceFacts DEF Inv, TypeInv, VariantsInv
  <2>2. QED
    BY <2>1 DEF Inv, FinishedInv
<1>2. QED
  BY <1>1, Invariance, PTL

\* A render never comes to an instruction the analysis did not reach: wherever
\* it writes a value, the value gets the escapers that are called for by the
\* context which the contexts of its variant have there, never those of the
\* start that _rewrite_program takes for a position without one; and a text is
\* written as it reads from that context.  A call enters the variant of its name
\* that was analyzed for the caller's context (analyzer.py _rewrite_program).
Callee == variants[Top.v].code[Top.pc].callee

RunsAnalyzed ==
    Active => \E at :
        /\ Solves(variants, Top.v, at) /\ Top.pc \in DOMAIN at
        /\ Writes(Instr) => Emits = EscapeKinds(at[Top.pc]) /\ Emits # <<"ERROR">>
        /\ Instr.op = "WRITE_TEXT" => Emits = Consume(at[Top.pc], Texts[Instr.name]).out
        /\ Calls(Instr) => /\ variants[Callee].name = Instr.name
                           /\ variants[Callee].start = at[Top.pc]

THEOREM RunsAreAnalyzed == Spec => []RunsAnalyzed
<1>1. Inv => RunsAnalyzed
  <2> SUFFICES ASSUME Inv, Active
               PROVE  \E at :
                        /\ Solves(variants, Top.v, at) /\ Top.pc \in DOMAIN at
                        /\ Writes(Instr) => Emits = EscapeKinds(at[Top.pc]) /\ Emits # <<"ERROR">>
                        /\ Instr.op = "WRITE_TEXT" => Emits = Consume(at[Top.pc], Texts[Instr.name]).out
                        /\ Calls(Instr) => /\ variants[Callee].name = Instr.name
                                           /\ variants[Callee].start = at[Top.pc]
    BY DEF RunsAnalyzed
  <2>1. PICK at : /\ Solves(variants, Top.v, at) /\ Top.pc \in DOMAIN at
                  /\ Settled(variants, Source, at, Top.pc)
                  /\ ~Fails(Instr, at[Top.pc])
                  /\ variants[Top.v].code[Top.pc] = RewrittenIn(variants, Instr, at[Top.pc])
    BY TopSolved
  <2>2. Emits = RewrittenIn(variants, Instr, at[Top.pc]).out
    BY <2>1 DEF Emits
  <2>3. ASSUME Writes(Instr)
        PROVE  Emits = EscapeKinds(at[Top.pc]) /\ Emits # <<"ERROR">>
    <3>1. Instr.op # "WRITE_TEXT"
      BY <2>3 DEF Writes
    <3>2. Emits = EscapeKinds(at[Top.pc])
      BY <2>2, <2>3, <3>1 DEF RewrittenIn
    <3>3. QED
      BY <2>1, <2>3, <3>2 DEF Fails
  <2>4. ASSUME Instr.op = "WRITE_TEXT"
        PROVE  Emits = Consume(at[Top.pc], Texts[Instr.name]).out
    BY <2>2, <2>4 DEF RewrittenIn, Writes
  <2>5. ASSUME Calls(Instr)
        PROVE  variants[Callee].name = Instr.name /\ variants[Callee].start = at[Top.pc]
    <3>1. Has(variants, Instr.name, at[Top.pc])
      BY <2>1, <2>5 DEF Settled, Instr
    <3>2. Callee = IndexOf(variants, Instr.name, at[Top.pc])
      BY <2>1, <2>5 DEF Callee, RewrittenIn
    <3>3. QED
      BY <3>1, <3>2, Indexed DEF Inv, TypeInv
  <2>6. QED
    BY <2>1, <2>3, <2>4, <2>5
<1>2. QED
  BY <1>1, Invariance, PTL
============================================================================
