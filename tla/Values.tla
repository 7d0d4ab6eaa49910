------------------------------- MODULE Values -------------------------------
(***************************************************************************)
(* The values a template computes with, and what the builtin functions do  *)
(* with them: runtime/values.py and the builtins of runtime/sync_vm.py.    *)
(*                                                                         *)
(* A value is a record: its kind k, a number n (a truth value, a number,   *)
(* the length of a text, an address), a name t (the text, the identity of  *)
(* an object or a method) and its entries s, a sequence of                 *)
(* [key, class, val].  Texts are words over one letter, so that the order  *)
(* of texts is the order of their lengths.                                 *)
(***************************************************************************)
EXTENDS Integers, Sequences, FiniteSets, SequencesExt

Value(k, n, t, s) == [k |-> k, n |-> n, t |-> t, s |-> s]

INVALID     == Value("invalid", 0, "", <<>>)
UNTYPED_NIL == Value("nil", 0, "", <<>>)
None        == Value("none", 0, "", <<>>)
Bool(b)     == Value("bool", IF b THEN 1 ELSE 0, "", <<>>)
Number(i)      == Value("int", i, "", <<>>)
Text(t, n)  == Value("str", n, t, <<>>)
List(vs)    == Value("list", 0, "",
                     [i \in 1..Len(vs) |-> [key |-> Number(i - 1), class |-> "item", val |-> vs[i]]])
Method(name, result) == Value("method", 0, name, <<[key |-> None, class |-> "result", val |-> result]>>)

(* What an evaluation step yields: a value, or the class of the exception. *)
Ok(v)    == [ok |-> TRUE, err |-> "", v |-> v]
Raise(e) == [ok |-> FALSE, err |-> e, v |-> INVALID]

IsNil(v)         == v.k \in {"invalid", "nil", "none"}
IsMapping(v)     == v.k \in {"map", "typedmap"}
IsText(v)        == v.k = "str"
IsSequence(v)    == v.k \in {"list", "str", "bytes"}
IsBoundMethod(v) == v.k = "method"

(* isinstance tests name the classes they accept: a mapping that is not a  *)
(* dict (a TypedMap) and an object are true even when they hold nothing.   *)
IsTrue(v) ==
  CASE IsNil(v) -> FALSE
    [] v.k \in {"bool", "int", "float", "complex", "str", "bytes", "pointer"} -> v.n # 0
    [] v.k \in {"list", "map"} -> v.s # <<>>
    [] OTHER -> TRUE

KeysOf(v)       == {v.s[i].key.t : i \in DOMAIN v.s}
EntryOf(v, key) == v.s[CHOOSE i \in DOMAIN v.s : v.s[i].key.t = key]

(***************************************************************************)
(* Lookup of one field.  options.missing is the missing-key mode and       *)
(* options.sandbox the policy, a record with active = FALSE when the       *)
(* template has none.                                                      *)
(***************************************************************************)
MissingKeyOnly(v, options) ==
  CASE options.missing = "error" /\ IsMapping(v) -> Raise("missing")
    [] options.missing = "zero" -> Ok(None)
    [] OTHER -> Ok(INVALID)

Missing(v, options) ==
  CASE options.missing = "error" -> Raise("missing")
    [] options.missing = "zero" -> Ok(IF v.k = "typedmap" THEN EntryOf(v, "zero").val ELSE None)
    [] OTHER -> Ok(INVALID)

(* getattr: a failing property raises, an attribute that is only declared  *)
(* is an AttributeError, and so counts as missing.                         *)
GetAttribute(v, field, options) ==
  IF field \notin KeysOf(v) THEN Missing(INVALID, options)
  ELSE CASE EntryOf(v, field).class = "failing"  -> Raise("attribute")
         [] EntryOf(v, field).class = "declared" -> Missing(INVALID, options)
         [] OTHER -> Ok(EntryOf(v, field).val)

CustomLookup(v, field, options) ==
  IF field \in KeysOf(v) THEN Ok(EntryOf(v, field).val) ELSE Missing(INVALID, options)

IsPrivate(field) == field \in {"_private"}

(* The policy is asked twice: about what the class declares, before the    *)
(* attribute is read, and about a callable that reading it produced.       *)
Allowed(v, field, policy) ==
  LET static == field \in KeysOf(v) /\ EntryOf(v, field).class # "dynamic"
      class  == IF static THEN EntryOf(v, field).class ELSE "dynamic"
  IN CASE class \in {"property", "failing"} -> field \in policy.properties
       [] class = "method" -> field \in policy.methods
       [] OTHER -> field \in policy.attributes

SandboxedByClass(v, field, options) ==
  IF v.k # "custom" /\ ~IsPrivate(field) /\ Allowed(v, field, options.sandbox)
  THEN GetAttribute(v, field, options) ELSE Raise("sandbox")

SandboxedLookup(v, field, options) ==
  LET policy == options.sandbox
  IN CASE v.k = "custom" ->
            IF policy.custom THEN CustomLookup(v, field, options) ELSE Raise("sandbox")
       [] v.k # "custom" /\ (IsPrivate(field) \/ ~Allowed(v, field, policy)) -> Raise("sandbox")
       [] OTHER ->
            LET Granted(read) == IF read.ok /\ IsBoundMethod(read.v) /\ field \notin policy.methods
                                 THEN Raise("sandbox") ELSE read
            IN Granted(GetAttribute(v, field, options))

Lookup(v, field, options) ==
  CASE v = INVALID -> Missing(INVALID, options)
    [] v # INVALID /\ options.sandbox.active /\ ~IsMapping(v) -> SandboxedLookup(v, field, options)
    [] IsMapping(v) -> IF field \in KeysOf(v) \ {"zero"} THEN Ok(EntryOf(v, field).val)
                       ELSE Missing(v, options)
    [] v.k = "custom" /\ ~options.sandbox.active -> CustomLookup(v, field, options)
    [] OTHER -> IF IsPrivate(field) THEN Missing(INVALID, options)
                ELSE GetAttribute(v, field, options)

(***************************************************************************)
(* Comparison.                                                             *)
(***************************************************************************)
ComparisonKind(v) ==
  CASE IsNil(v) -> "nil"
    [] v.k \in {"bool", "int", "float", "complex", "str", "pointer"} -> v.k
    [] OTHER -> "other"

NonComparable(v) == v.k \in {"map", "typedmap", "list", "bytes"}
IsCallable(v)    == v.k \in {"method", "function"}

EqualPair(a, b) ==
  LET kinds  == {ComparisonKind(a), ComparisonKind(b)}
      nonnil == IF IsNil(a) THEN b ELSE a
  IN IF kinds = {"nil"} THEN Ok(Bool(TRUE))
     ELSE IF "nil" \in kinds
     THEN IF nonnil.k = "pointer" THEN Ok(Bool(nonnil.n = 0))
          ELSE IF NonComparable(nonnil) \/ IsCallable(nonnil) THEN Ok(Bool(FALSE))
          ELSE Raise("incompatible")
     ELSE IF \/ Cardinality(kinds) = 2
             \/ NonComparable(a) \/ NonComparable(b)
             \/ kinds = {"pointer"} /\ a.t # b.t
     THEN Raise("incompatible")
     ELSE Ok(Bool(IF kinds = {"pointer"} THEN a.n = b.n ELSE a = b))

(* any(): the pairs are compared from the left, up to the first equal one. *)
Equal(args) ==
  LET Fold(r, other) == IF ~r.ok \/ r.v = Bool(TRUE) THEN r ELSE EqualPair(args[1], other)
  IN IF Len(args) < 2 THEN Raise("few") ELSE FoldLeft(Fold, Ok(Bool(FALSE)), Tail(args))

NotEqual(args) ==
  LET Negation(r) == IF r.ok THEN Ok(Bool(r.v = Bool(FALSE))) ELSE r
  IN Negation(EqualPair(args[1], args[2]))

OrderCompare(a, b, operation) ==
  CASE ComparisonKind(a) # ComparisonKind(b) \/ ComparisonKind(a) \notin {"int", "float", "str"} ->
         Raise("incompatible")
    [] OTHER -> Ok(Bool(CASE operation = "lt" -> a.n < b.n
                          [] operation = "le" -> a.n <= b.n
                          [] operation = "gt" -> a.n > b.n
                          [] OTHER -> a.n >= b.n))

(***************************************************************************)
(* Sizes, elements and slices.                                             *)
(***************************************************************************)
Length(v) ==
  CASE v.k \in {"str", "bytes"} -> Ok(Number(v.n))
    [] v.k \in {"list", "map"} -> Ok(Number(Len(v.s)))
    [] v.k = "typedmap" -> Ok(Number(Len(v.s) - 1))
    [] OTHER -> Raise("sized")

IndexOne(v, index) ==
  CASE IsMapping(v) ->
         CASE index.t \in KeysOf(v) \ {"zero"} -> Ok(EntryOf(v, index.t).val)
           [] v.k = "typedmap" /\ index.t \notin KeysOf(v) \ {"zero"} -> Ok(EntryOf(v, "zero").val)
           [] OTHER -> Ok(INVALID)
    [] IsSequence(v) ->
         CASE index.k # "int" -> Raise("integer")
           [] index.k = "int" /\ index.n \notin 0..(Length(v).v.n - 1) -> Raise("range")
           [] OTHER -> Ok(IF v.k = "list" THEN v.s[index.n + 1].val ELSE Number(97))
    [] OTHER -> Raise("indexable")

Index(args) ==
  FoldLeft(LAMBDA r, index : IF r.ok THEN IndexOne(r.v, index) ELSE r, Ok(args[1]), Tail(args))

SliceWithin(v, start, stop, capacity, length) ==
  IF ~(0 <= start /\ start <= stop /\ stop <= capacity /\ capacity <= length) THEN Raise("range")
  ELSE Ok(IF v.k = "list" THEN List([i \in 1..(stop - start) |-> v.s[start + i].val])
          ELSE Value(v.k, stop - start, "slice", <<>>))

Slice(args) ==
  LET v       == args[1]
      indexes == Tail(args)
      length  == Length(v).v.n
      At(n, otherwise) == IF n <= Len(indexes) THEN indexes[n].n ELSE otherwise
  IN IF ~IsSequence(v) THEN Raise("sliceable")
     ELSE IF \/ Len(indexes) > 3 \/ \E i \in DOMAIN indexes : indexes[i].k # "int"
             \/ IsText(v) /\ Len(indexes) = 3
     THEN Raise("integer")
     ELSE SliceWithin(v, At(1, 0), At(2, length), IF Len(indexes) = 3 THEN indexes[3].n ELSE length, length)

(***************************************************************************)
(* What a range visits: pairs of a key and an item.                        *)
(***************************************************************************)
SortedEntries(v) == SetToSortSeq({v.s[i] : i \in {j \in DOMAIN v.s : v.s[j].key.t # "zero"}},
                                 LAMBDA a, b : a.key.n < b.key.n)

RangeEntries(v, bindings) ==
  CASE IsNil(v) -> [ok |-> TRUE, entries |-> <<>>]
    [] IsMapping(v) -> [ok |-> TRUE, entries |-> SortedEntries(v)]
    [] v.k = "list" -> [ok |-> TRUE, entries |-> v.s]
    [] v.k \in {"int", "goseq"} /\ bindings > 1 -> [ok |-> FALSE, entries |-> <<>>]
    [] v.k = "int" /\ bindings <= 1 ->
         [ok |-> TRUE,
          entries |-> [i \in 1..v.n |-> [key |-> Number(i - 1), class |-> "item", val |-> Number(i - 1)]]]
    [] v.k = "goseq" /\ bindings <= 1 ->
         [ok |-> TRUE, entries |-> [i \in DOMAIN v.s |-> [v.s[i] EXCEPT !.key = INVALID]]]
    [] v.k = "goseq2" ->
         [ok |-> TRUE,
          entries |-> IF bindings > 1 THEN v.s
                      ELSE [i \in DOMAIN v.s |-> [v.s[i] EXCEPT !.key = INVALID, !.val = v.s[i].key]]]
    [] OTHER -> [ok |-> FALSE, entries |-> <<>>]

(***************************************************************************)
(* Text.  The pieces of a text that a call builds are kept as its entries. *)
(* print puts a space between two values neither of which is a text, and   *)
(* its first piece never follows one because INVALID marks the start: so a *)
(* missing value is not followed by a space either.                        *)
(***************************************************************************)
Piece(v)  == [key |-> None, class |-> "piece", val |-> v]
Space     == Piece(Text("space", 1))
Printed(v, nilText) == Piece(IF v = UNTYPED_NIL THEN nilText ELSE v)

JoinPrint(values, nilText) ==
  Value("str", Len(values), "joined",
        FlattenSeq([i \in DOMAIN values |->
          IF i > 1 /\ values[i - 1] # INVALID /\ ~IsText(values[i - 1]) /\ ~IsText(values[i])
          THEN <<Space, Printed(values[i], nilText)>> ELSE <<Printed(values[i], nilText)>>]))

JoinPrintln(values) ==
  Value("str", 1, "line",
        FlattenSeq([i \in DOMAIN values |->
          (IF i > 1 THEN <<Space>> ELSE <<>>) \o <<Printed(values[i], Text("<nil>", 5))>>]))

(* format_value, at the end of an action. *)
Format(v) == IF v = UNTYPED_NIL THEN Raise("nil command")
             ELSE Ok(IF v \in {INVALID, None} THEN Text("<no value>", 10) ELSE v)
=============================================================================
