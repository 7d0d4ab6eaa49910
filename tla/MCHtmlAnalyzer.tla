--------------------------- MODULE MCHtmlAnalyzer ---------------------------
(* Instances of HtmlAnalyzer: associations compiled from small trees, one    *)
(* family of texts for each kind of place a value can be written to.         *)
EXTENDS HtmlAnalyzer, Compiler

Lit(n) == IF n = "" THEN <<>> ELSE << Literal(n) >>
Data == Pipeline(<<>>, FALSE, "data", 0)
Put == << Action(Pipeline(<<>>, FALSE, "dot", 0)) >>
PutData == << Action(Data) >>
If(body) == << Branch("if", Data, body, FALSE, <<>>) >>
IfElse(body, els) == << Branch("if", Data, body, TRUE, els) >>
With(body, els) == << Branch("with", Data, body, TRUE, els) >>
Loop(body, els) == << Branch("range", Data, body, TRUE, els) >>
CallB == << Call("b", Data) >>

AllTexts ==
    ( "x" :> <<"x">> @@ "sp" :> <<" ">> @@ "?" :> <<"?", "x">> @@ "nl" :> <<"nl">> @@ DQ :> <<DQ>>
   @@ "tick" :> <<"tick">> @@ "//" :> <<"//">> @@ "/*" :> <<"/*", "x">> @@ "*/" :> <<"*/">>
   @@ "re" :> <<"return", " ">> @@ "/" :> <<"/", "x">> @@ "[" :> <<"[">> @@ "${" :> <<"${">> @@ "}" :> <<"}">> @@ "{" :> <<"{">>
   @@ "q" :> <<"&quot;">> @@ "url" :> <<"url(">> @@ ")" :> <<")">> @@ "=" :> <<"=">> @@ "id" :> <<" ", "id">>
   @@ "url=" :> <<"x", ";", "url", "=">>
   @@ "p" :> <<"<p", ">">> @@ "b" :> <<"</p", ">">> @@ "br" :> <<"<p", "/", ">">>
   @@ "</s" :> <<"</script">> @@ "bad" :> <<"<p", " ", "=">>
   @@ "<p" :> <<"<p">> @@ ">" :> <<">">> @@ "c>" :> <<DQ, ">">>
   @@ "href" :> <<"<p", " ", "href", "=", DQ>> @@ "hrefu" :> <<"<p", " ", "href", "=">>
   @@ "click" :> <<"<p", " ", "onclick", "=", DQ>> @@ "style" :> <<"<p", " ", "style", "=", DQ>>
   @@ "set" :> <<"<p", " ", "srcset", "=", DQ>>
   @@ "js" :> <<"<script", ">">> @@ "js${" :> <<"<script", ">", "tick", "${">>
   @@ "js>" :> <<"</script", ">">>
   @@ "json" :> <<"<script", " ", "type", "=", DQ, "x", DQ, ">">>
   @@ "css" :> <<"<style", ">">> @@ "css>" :> <<"</style", ">">>
   @@ "title" :> <<"<title", ">">> @@ "title>" :> <<"</title", ">">>
   @@ "<!--" :> <<"<!--">> @@ "-->" :> <<"-->">>
   @@ "meta" :> <<"<meta", " ", "http-equiv", "=", DQ, "refresh", DQ, " ", "content", "=", DQ>> )

Family(open, close, mids) == [open |-> open, close |-> close, mids |-> mids]

Families ==
    { Family("x", "x", {"", "p", "br"}), Family("x", "x", {"", "bad"}),
      Family("<p", ">", {"", "id", "=", "sp"}),
      Family("href", "c>", {"", "x", "?"}),
      Family("hrefu", ">", {"x", "?", "sp"}),
      Family("click", "c>", {"x", "q", "/", "tick"}),
      Family("style", "c>", {"x", "q", "url", ")"}),
      Family("set", "c>", {"", "x"}),
      Family("js", "js>", {"re", "/", "//", "nl"}),
      Family("js", "js>", {"/*", "*/", "tick", "${"}),
      Family("js", "js>", {DQ, "</s", "{", "}"}),
      Family("css", "css>", {"url", ")", "?", DQ}),
      Family("css", "css>", {"/*", "*/", "//", "nl"}),
      Family("title", "title>", {"x", "p", "js"}),
      Family("<!--", "-->", {"", "x", "p"}),
      Family("meta", "c>", {"x", "url="}) }

Association(f, body, b) ==
    [main |-> Compile(Lit(f.open) \o body \o Lit(f.close)), b |-> Compile(b)]

\* The bodies: branches, a loop that can be left, a call that recurses, and
\* code behind a break.
Branching(m) ==
    PutData \o IfElse(Lit(m[1]) \o Put, Lit(m[2])) \o Put \o Lit(m[3]) \o With(Put, <<>>)
Looping(m) ==
    Loop(Lit(m[1]) \o Put \o If(<<Break>>) \o Lit(m[2]), Lit(m[3])) \o Put
Calling(m) == CallB \o Lit(m[1]) \o Put \o CallB \o PutData
Callee(m) == Lit(m[2]) \o If(CallB) \o Lit(m[3]) \o Put
Dropped(m) == Loop(<<Break>> \o Lit(m[1]) \o Put, Lit(m[2]))

Associate(f, m) ==
    { Association(f, Branching(m), <<>>), Association(f, Looping(m), <<>>),
      Association(f, Calling(m), Callee(m)), Association(f, Dropped(m), <<>>) }

AssociationsOf(families) ==
    UNION { UNION { Associate(f, m) : m \in f.mids \X f.mids \X f.mids } : f \in families }

\* <a href="{{template "a" .}}{{range .}}{{template "b" .}}?x{{end}}">: b is
\* first reached in front of the ?, then before and after it.
Transient ==
    [main |-> Compile(Lit("href") \o << Call("a", Data) >>
                        \o Loop(CallB \o Lit("?"), <<>>) \o Lit("c>")),
     a |-> Compile(Lit("x")), b |-> Compile(Lit("x"))]

SmallAssociations == AssociationsOf(Families) \cup {Transient}
============================================================================
