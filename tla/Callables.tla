------------------------------ MODULE Callables -----------------------------
(***************************************************************************)
(* Python callables as template functions: runtime/callables.py,           *)
(* runtime/results.py and runtime/awaitables.py.                           *)
(*                                                                         *)
(* A function is a record: ctx says that it takes a render context, sigs   *)
(* gives the signature of each implementation ("sync", "async"), body and  *)
(* result what calling it does.  A signature is [known, min, max, ann,     *)
(* vann, keywords]: known is FALSE when Python cannot inspect it, max is   *)
(* Variadic for *args, ann lists the annotations of the parameters.        *)
(***************************************************************************)
EXTENDS Values

Variadic == 9

NoSpec == [known |-> FALSE, min |-> 0, max |-> Variadic, ann |-> <<>>, vann |-> "", keywords |-> FALSE]

Enforceable(annotation) == annotation \notin {"", "any"}

Matches(v, annotation) ==
  CASE annotation \in {"int", "float", "complex", "bool", "str"} -> v.k = annotation
    [] annotation = "int|str" -> v.k \in {"int", "str"}
    [] OTHER -> TRUE

ChecksTypes(spec) ==
  \E a \in {spec.ann[i] : i \in DOMAIN spec.ann} \cup {spec.vann} : Enforceable(a)

RequiresValidation(spec) ==
  spec.known /\ (spec.min # 0 \/ spec.max # Variadic \/ ChecksTypes(spec))

ArityFits(spec, count) == count >= spec.min /\ (spec.max = Variadic \/ count <= spec.max)

TypesFit(spec, args) ==
  \A i \in DOMAIN args :
    Matches(args[i], IF i <= Len(spec.ann) THEN spec.ann[i] ELSE spec.vann)

(* The signature a template sees: without the injected render context.     *)
VisibleSpec(sig) ==
  IF ~sig.known THEN sig
  ELSE [sig EXCEPT !.min = IF @ > 0 THEN @ - 1 ELSE 0,
                   !.max = IF @ = Variadic THEN @ ELSE @ - 1,
                   !.ann = IF @ = <<>> THEN @ ELSE Tail(@)]

SpecOf(fn, implementation) ==
  IF fn.ctx THEN VisibleSpec(fn.sigs[implementation]) ELSE fn.sigs[implementation]

CallSpec(fn) == SpecOf(fn, CHOOSE i \in DOMAIN fn.sigs : TRUE)

(* Registering a function inspects it once, and refuses what a template    *)
(* could not call.                                                         *)
PrepareFunction(fn) ==
  /\ \A i \in DOMAIN fn.sigs : ~fn.sigs[i].keywords /\ (fn.ctx => fn.sigs[i].max # 0)
  /\ \A i, j \in DOMAIN fn.sigs : SpecOf(fn, i) = SpecOf(fn, j)

Signature(min, max, ann) ==
  [known |-> TRUE, min |-> min, max |-> max, ann |-> ann, vann |-> "", keywords |-> FALSE]

Function(sig, body, result) ==
  [ctx |-> FALSE, sigs |-> [i \in {"sync"} |-> sig], body |-> body, result |-> result]

ContextFunction(sigs, body, result) == [ctx |-> TRUE, sigs |-> sigs, body |-> body, result |-> result]

(* A bound method taking n arguments, as the function it is.               *)
MethodFunction(method) ==
  Function(Signature(method.n, method.n, <<>>), method.s[1].class, method.s[1].val)

(***************************************************************************)
(* The body of a function: [how, v].  A function of the user either keeps  *)
(* what it was called with ("term"), returns a constant ("result"), raises *)
(* an exception of its own ("raise") or of the template ("template"), or   *)
(* returns an awaitable that does one of these.  A FunctionResult with an  *)
(* error raises it once it is unwrapped.                                   *)
(***************************************************************************)
Term(name, args) ==
  Value("object", 1, name, [i \in DOMAIN args |-> [key |-> Number(i), class |-> "argument", val |-> args[i]]])

Outcome(r) == [how |-> IF r.ok THEN "value" ELSE "raise", v |-> r.v]

BodyOf(name, fn, args) ==
  CASE fn.body = "term"     -> [how |-> "value", v |-> Term(name, args)]
    [] fn.body \in {"result", "method"} -> [how |-> "value", v |-> fn.result]
    [] fn.body = "failure"  -> [how |-> "raise", v |-> INVALID]
    [] fn.body \in {"raise", "template", "await", "awaitraise"} -> [how |-> fn.body, v |-> fn.result]
    [] fn.body = "eq"       -> Outcome(Equal(args))
    [] fn.body = "ne"       -> Outcome(NotEqual(args))
    [] fn.body \in {"lt", "le", "gt", "ge"} -> Outcome(OrderCompare(args[1], args[2], fn.body))
    [] fn.body = "not"      -> Outcome(Ok(Bool(~IsTrue(args[1]))))
    [] fn.body = "len"      -> Outcome(Length(args[1]))
    [] fn.body = "index"    -> Outcome(Index(args))
    [] fn.body = "slice"    -> Outcome(Slice(args))
    [] fn.body = "print"    -> Outcome(Ok(JoinPrint(args, Text("<nil>", 5))))
    [] fn.body = "println"  -> Outcome(Ok(JoinPrintln(args)))
    [] fn.body \in {"html", "js", "urlquery"} ->
         Outcome(Ok(JoinPrint(args, Text("<no value>", 10))))

(* call checks the signature of the callable it is given.                  *)
Body(name, fn, args) ==
  LET calls  == fn.body = "call"
      target == MethodFunction(args[1])
  IN IF calls /\ ~(IsCallable(args[1]) /\ ArityFits(CallSpec(target), Len(args) - 1))
     THEN [how |-> "raise", v |-> INVALID]
     ELSE BodyOf(IF calls THEN "call target" ELSE name, IF calls THEN target ELSE fn,
                 IF calls THEN Tail(args) ELSE args)

(* The functions every template has.  and, or are not functions: the       *)
(* evaluators short-circuit them unless the user replaced them.            *)
Builtins ==
  [name \in {"eq", "ne", "lt", "le", "gt", "ge", "not", "len", "index", "slice",
             "print", "println", "html", "js", "urlquery", "call"} |->
     Function(CASE name \in {"not", "len"} -> Signature(1, 1, <<"any">>)
                [] name \in {"ne", "lt", "le", "gt", "ge"} -> Signature(2, 2, <<"any", "any">>)
                [] name \in {"eq", "index", "slice", "call"} -> Signature(1, Variadic, <<"any">>)
                [] OTHER -> Signature(0, Variadic, <<>>),
              name, INVALID)]

LogicalNames == {"and", "or"}

ExecutionRegistry(functions, sandboxed) ==
  LET all == functions @@ Builtins
  IN [name \in IF sandboxed THEN DOMAIN all \ {"call"} ELSE DOMAIN all |-> all[name]]

LogicalBuiltins(functions)   == LogicalNames \ DOMAIN functions
=============================================================================
