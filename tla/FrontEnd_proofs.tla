-------------------------- MODULE FrontEnd_proofs --------------------------
(***************************************************************************)
(* Theorems about the parser and the compiler, for every source, every set *)
(* of pipelines and names and every nesting limit.                         *)
(*                                                                         *)
(* First the parser by itself: the counts of the recursive descent are     *)
(* those of the constructs it is in, and definitions are final.            *)
(*                                                                         *)
(* Then the code compiled from what it accepts, which passes the stack     *)
(* verification that the virtual machine relies on, in three layers.       *)
(* Facts about code: the stack map of a piece of code that is put together *)
(* from verified pieces.  The compiler: what emit_node adds to the code is *)
(* such a piece, by induction on the levels of the tree.  The parser: its  *)
(* trees have no more levels than the source has items.                    *)
(***************************************************************************)
EXTENDS FrontEnd, SequenceTheorems, FiniteSetTheorems, TLAPS

IsSequence(s) == s \in Seq(Range(s))

(***************************************************************************)
(* The stack of activations.  Nodes and pipelines may be anything.         *)
(***************************************************************************)
FrameKinds == Branches \union {"root", "block", "define"}

IsFrame(f) ==
    /\ f = [kind |-> f.kind, name |-> f.name, pipe |-> f.pipe, depth |-> f.depth,
            chained |-> f.chained, part |-> f.part, body |-> f.body, nodes |-> f.nodes]
    /\ f.kind \in FrameKinds
    /\ f.depth \in 0 .. MaxNesting
    /\ f.chained \in BOOLEAN
    /\ f.part \in {"body", "else"}

(* Everything about a frame but its nodes.                                 *)
SameConstruct(f, g) ==
    f.kind = g.kind /\ f.depth = g.depth /\ f.chained = g.chained /\ f.part = g.part

OwnEnds(s, k)     == {j \in 1 .. k : ~s[j].chained}
RangeBodies(s, k) == {j \in 1 .. k : InRangeBody(s[j])}

(* A chained branch continues an else of its parent and is no range.       *)
ChainsContinue(s) ==
    \A j \in 1 .. Len(s) : s[j].chained =>
        j > 1 /\ s[j].kind \in {"if", "with"} /\ s[j - 1].part = "else"

(* The depth of a list counts the constructs with an end of their own.     *)
DepthsCount(s) == \A k \in 1 .. Len(s) : Cardinality(OwnEnds(s, k)) = s[k].depth + 1

StackInv(s) ==
    /\ IsSequence(s) /\ s # <<>>
    /\ \A k \in 1 .. Len(s) : IsFrame(s[k])
    /\ s[1].kind = "root"
    /\ ChainsContinue(s)
    /\ DepthsCount(s)

(* Names of definitions are unique.                                        *)
DefinitionsInv ==
    /\ IsSequence(definitions)
    /\ \A j, k \in DOMAIN definitions : definitions[j].name = definitions[k].name => j = k

ParserInv ==
    /\ StackInv(stack)
    /\ range_depth = Cardinality(RangeBodies(stack, Len(stack)))
    /\ DefinitionsInv

----------------------------------------------------------------------------
(***************************************************************************)
(* Sequences of anything.                                                  *)
(***************************************************************************)
LEMMA SequenceFacts ==
    ASSUME NEW s, IsSequence(s)
    PROVE  /\ Len(s) \in Nat /\ DOMAIN s = 1 .. Len(s)
           /\ s # <<>> => Len(s) \in Nat \ {0}
<1>1. s \in Seq(Range(s))
  BY DEF IsSequence
<1> QED
  BY <1>1, LenProperties, EmptySeq

LEMMA Appended ==
    ASSUME NEW s, IsSequence(s), NEW e
    PROVE  /\ IsSequence(Append(s, e)) /\ Append(s, e) # <<>>
           /\ Len(Append(s, e)) = Len(s) + 1
           /\ \A i \in 1 .. Len(s) : Append(s, e)[i] = s[i]
           /\ Append(s, e)[Len(s) + 1] = e
<1> DEFINE S == Range(s) \union {e}
<1>1. s \in Seq(S) /\ e \in S
  BY SeqMonotonic DEF IsSequence
<1> HIDE DEF S
<1>2. Append(s, e) \in Seq(S)
  BY <1>1, AppendProperties
<1>3. Append(s, e) \in Seq(Range(Append(s, e)))
  BY <1>2, SeqOfRange
<1>4. /\ Append(s, e) # <<>> /\ Len(Append(s, e)) = Len(s) + 1
      /\ \A i \in 1 .. Len(s) : Append(s, e)[i] = s[i]
      /\ Append(s, e)[Len(s) + 1] = e
  BY <1>1, AppendProperties
<1> QED
  BY <1>3, <1>4 DEF IsSequence

LEMMA Replaced ==
    ASSUME NEW s, IsSequence(s), NEW k \in 1 .. Len(s), NEW e
    PROVE  /\ IsSequence([s EXCEPT ![k] = e]) /\ [s EXCEPT ![k] = e] # <<>>
           /\ Len([s EXCEPT ![k] = e]) = Len(s)
           /\ \A i \in 1 .. Len(s) : [s EXCEPT ![k] = e][i] = IF i = k THEN e ELSE s[i]
<1> DEFINE S == Range(s) \union {e}
<1>1. s \in Seq(S) /\ e \in S
  BY SeqMonotonic DEF IsSequence
<1> HIDE DEF S
<1>2. /\ [s EXCEPT ![k] = e] \in Seq(S) /\ Len([s EXCEPT ![k] = e]) = Len(s)
      /\ \A i \in 1 .. Len(s) : [s EXCEPT ![k] = e][i] = IF i = k THEN e ELSE s[i]
  BY <1>1, ExceptSeq
<1>3. Len(s) \in Nat /\ Len(s) # 0
  BY SequenceFacts
<1>4. [s EXCEPT ![k] = e] # <<>>
  BY <1>2, <1>3, EmptySeq
<1> QED
  BY <1>2, <1>4, SeqOfRange DEF IsSequence

LEMMA Shortened ==
    ASSUME NEW s, IsSequence(s), NEW k \in 1 .. Len(s)
    PROVE  /\ IsSequence(SubSeq(s, 1, k)) /\ SubSeq(s, 1, k) # <<>>
           /\ Len(SubSeq(s, 1, k)) = k
           /\ \A i \in 1 .. k : SubSeq(s, 1, k)[i] = s[i]
<1>1. Len(s) \in Nat /\ k \in Int
  BY SequenceFacts
<1>2. \A i \in 1 .. k : s[i] \in Range(s)
  BY <1>1, SequenceFacts DEF Range
<1>3. /\ SubSeq(s, 1, k) \in Seq(Range(s)) /\ Len(SubSeq(s, 1, k)) = k
      /\ \A i \in 1 .. k : SubSeq(s, 1, k)[i] = s[i]
  BY <1>1, <1>2, SubSeqProperties
<1>4. SubSeq(s, 1, k) \in Seq(Range(SubSeq(s, 1, k)))
  BY <1>3, SeqOfRange
<1>5. SubSeq(s, 1, k) # <<>>
  BY <1>1, <1>3, EmptySeq
<1> QED
  BY <1>3, <1>4, <1>5 DEF IsSequence

(***************************************************************************)
(* Counting over the frames.                                               *)
(***************************************************************************)
LEMMA CountsAreFinite ==
    ASSUME NEW s, NEW k \in Nat
    PROVE  /\ IsFiniteSet(OwnEnds(s, k)) /\ Cardinality(OwnEnds(s, k)) \in Nat
           /\ IsFiniteSet(RangeBodies(s, k)) /\ Cardinality(RangeBodies(s, k)) \in Nat
<1>1. IsFiniteSet(1 .. k)
  BY FS_Interval
<1>2. OwnEnds(s, k) \subseteq 1 .. k /\ RangeBodies(s, k) \subseteq 1 .. k
  BY DEF OwnEnds, RangeBodies
<1> QED
  BY <1>1, <1>2, FS_Subset, FS_CardinalityType

LEMMA CountOneMore ==
    ASSUME NEW s, NEW k \in Nat
    PROVE  /\ Cardinality(OwnEnds(s, k + 1)) =
                 Cardinality(OwnEnds(s, k)) + (IF s[k + 1].chained THEN 0 ELSE 1)
           /\ Cardinality(RangeBodies(s, k + 1)) =
                 Cardinality(RangeBodies(s, k)) + (IF InRangeBody(s[k + 1]) THEN 1 ELSE 0)
<1>1. OwnEnds(s, k + 1) = IF s[k + 1].chained THEN OwnEnds(s, k) ELSE OwnEnds(s, k) \union {k + 1}
  BY DEF OwnEnds
<1>2. RangeBodies(s, k + 1) =
        IF InRangeBody(s[k + 1]) THEN RangeBodies(s, k) \union {k + 1} ELSE RangeBodies(s, k)
  BY DEF RangeBodies
<1>3. k + 1 \notin OwnEnds(s, k) /\ k + 1 \notin RangeBodies(s, k)
  BY DEF OwnEnds, RangeBodies
<1> QED
  BY <1>1, <1>2, <1>3, CountsAreFinite, FS_AddElement

LEMMA CountsAgree ==
    ASSUME NEW s, NEW t, NEW k \in Nat, \A j \in 1 .. k : SameConstruct(s[j], t[j])
    PROVE  OwnEnds(s, k) = OwnEnds(t, k) /\ RangeBodies(s, k) = RangeBodies(t, k)
BY DEF OwnEnds, RangeBodies, SameConstruct, InRangeBody

(***************************************************************************)
(* What the operations do to the stack.                                    *)
(***************************************************************************)
LEMMA NodesChanged ==
    ASSUME NEW f, IsFrame(f), NEW list
    PROVE  IsFrame([f EXCEPT !.nodes = list]) /\ SameConstruct([f EXCEPT !.nodes = list], f)
<1> DEFINE g == [f EXCEPT !.nodes = list]
<1>1. f = [kind |-> f.kind, name |-> f.name, pipe |-> f.pipe, depth |-> f.depth,
           chained |-> f.chained, part |-> f.part, body |-> f.body, nodes |-> f.nodes]
  BY DEF IsFrame
<1>2. g = [kind |-> f.kind, name |-> f.name, pipe |-> f.pipe, depth |-> f.depth,
           chained |-> f.chained, part |-> f.part, body |-> f.body, nodes |-> list]
  BY <1>1
<1> HIDE DEF g
<1> QED
  BY <1>2 DEF IsFrame, SameConstruct, g

LEMMA ElseBegun ==
    ASSUME NEW f, IsFrame(f)
    PROVE  /\ IsFrame(ToElse(f)) /\ ToElse(f).part = "else" /\ ToElse(f).kind = f.kind
           /\ ToElse(f).depth = f.depth /\ ToElse(f).chained = f.chained
<1>1. f = [kind |-> f.kind, name |-> f.name, pipe |-> f.pipe, depth |-> f.depth,
           chained |-> f.chained, part |-> f.part, body |-> f.body, nodes |-> f.nodes]
  BY DEF IsFrame
<1>2. ToElse(f) = [kind |-> f.kind, name |-> f.name, pipe |-> f.pipe, depth |-> f.depth,
                   chained |-> f.chained, part |-> "else", body |-> f.nodes, nodes |-> <<>>]
  <2> DEFINE e == [f EXCEPT !.part = "else"]
             list == f.nodes
  <2>1. e =
          [kind |-> f.kind, name |-> f.name, pipe |-> f.pipe, depth |-> f.depth,
           chained |-> f.chained, part |-> "else", body |-> f.body, nodes |-> f.nodes]
    BY <1>1
  <2>2. ToElse(f) = [[e EXCEPT !.body = list] EXCEPT !.nodes = <<>>]
    BY DEF ToElse
  <2> HIDE DEF e, list
  <2>3. [e EXCEPT !.body = list] =
          [kind |-> f.kind, name |-> f.name, pipe |-> f.pipe, depth |-> f.depth,
           chained |-> f.chained, part |-> "else", body |-> list, nodes |-> f.nodes]
    BY <2>1
  <2>4. ToElse(f) =
          [kind |-> f.kind, name |-> f.name, pipe |-> f.pipe, depth |-> f.depth,
           chained |-> f.chained, part |-> "else", body |-> list, nodes |-> <<>>]
    BY <2>2, <2>3
  <2> QED
    BY <2>4 DEF list
<1> QED
  BY <1>2 DEF IsFrame

(* A construct is entered.                                                 *)
LEMMA Pushed ==
    ASSUME NEW s, StackInv(s), NEW f, IsFrame(f), f.kind # "root",
           f.chained => f.kind \in {"if", "with"} /\ s[Len(s)].part = "else",
           f.depth = s[Len(s)].depth + (IF f.chained THEN 0 ELSE 1)
    PROVE  /\ StackInv(Append(s, f)) /\ Len(Append(s, f)) = Len(s) + 1
           /\ Cardinality(RangeBodies(Append(s, f), Len(s) + 1)) =
                 Cardinality(RangeBodies(s, Len(s))) + (IF InRangeBody(f) THEN 1 ELSE 0)
<1> DEFINE t == Append(s, f)
           n == Len(s)
<1>1. n \in Nat \ {0}
  BY SequenceFacts DEF StackInv
<1>2. /\ IsSequence(t) /\ t # <<>> /\ Len(t) = n + 1
      /\ \A i \in 1 .. n : t[i] = s[i]
      /\ t[n + 1] = f
  BY Appended DEF StackInv
<1> HIDE DEF t, n
<1>3. \A k \in 1 .. n : OwnEnds(t, k) = OwnEnds(s, k) /\ RangeBodies(t, k) = RangeBodies(s, k)
  BY <1>1, <1>2, CountsAgree DEF SameConstruct
<1>4. \A k \in 1 .. n + 1 : IsFrame(t[k])
  BY <1>1, <1>2 DEF StackInv, n
<1>5. t[1].kind = "root"
  BY <1>1, <1>2 DEF StackInv
<1>6. ChainsContinue(t)
  BY <1>1, <1>2 DEF StackInv, ChainsContinue, n
<1>7. DepthsCount(t)
  <2> SUFFICES ASSUME NEW k \in 1 .. n + 1 PROVE Cardinality(OwnEnds(t, k)) = t[k].depth + 1
    BY <1>2 DEF DepthsCount
  <2>1. CASE k \in 1 .. n
    BY <1>2, <1>3, <2>1 DEF StackInv, DepthsCount, n
  <2>2. CASE k = n + 1
    <3>1. Cardinality(OwnEnds(t, n + 1)) = Cardinality(OwnEnds(s, n)) + (IF f.chained THEN 0 ELSE 1)
      <4>1. Cardinality(OwnEnds(t, n + 1)) = Cardinality(OwnEnds(t, n)) + (IF t[n + 1].chained THEN 0 ELSE 1)
        BY <1>1, CountOneMore
      <4>2. OwnEnds(t, n) = OwnEnds(s, n)
        BY <1>1, <1>3
      <4> QED
        BY <1>2, <4>1, <4>2
    <3>2. Cardinality(OwnEnds(s, n)) = s[n].depth + 1 /\ s[n].depth \in Nat
      <4>1. n \in 1 .. n /\ s[n].depth \in 0 .. MaxNesting
        <5>1. n \in 1 .. n
          BY <1>1
        <5>2. IsFrame(s[n])
          BY <5>1 DEF StackInv, n
        <5> QED
          BY <5>1, <5>2 DEF IsFrame
      <4>2. Cardinality(OwnEnds(s, n)) = s[n].depth + 1
        BY <4>1 DEF StackInv, DepthsCount, n
      <4> QED
        BY <4>1, <4>2, ParserAssumption
    <3> QED
      BY <1>2, <2>2, <3>1, <3>2 DEF n
  <2> QED
    BY <1>1, <2>1, <2>2
<1>8. Cardinality(RangeBodies(t, n + 1)) = Cardinality(RangeBodies(s, n)) + (IF InRangeBody(f) THEN 1 ELSE 0)
  <2>1. n \in Nat /\ n \in 1 .. n
    BY <1>1
  <2>2. Cardinality(RangeBodies(t, n + 1)) =
           Cardinality(RangeBodies(t, n)) + (IF InRangeBody(t[n + 1]) THEN 1 ELSE 0)
    BY <2>1, CountOneMore
  <2>3. RangeBodies(t, n) = RangeBodies(s, n)
    BY <1>3, <2>1
  <2>4. t[n + 1] = f
    BY <1>2
  <2> QED
    BY <2>2, <2>3, <2>4
<1>9. StackInv(t)
  BY <1>2, <1>4, <1>5, <1>6, <1>7 DEF StackInv
<1> QED
  BY <1>2, <1>8, <1>9 DEF t, n

(* The innermost construct goes on, with another node or in its else.      *)
LEMMA TopReplaced ==
    ASSUME NEW s, StackInv(s), NEW f, IsFrame(f),
           f.kind = s[Len(s)].kind, f.depth = s[Len(s)].depth, f.chained = s[Len(s)].chained
    PROVE  LET t == [s EXCEPT ![Len(s)] = f] IN
           /\ StackInv(t) /\ Len(t) = Len(s) /\ t[Len(s)] = f
           /\ Cardinality(RangeBodies(t, Len(s))) =
                 Cardinality(RangeBodies(s, Len(s)))
                   + (IF InRangeBody(f) THEN 1 ELSE 0) - (IF InRangeBody(s[Len(s)]) THEN 1 ELSE 0)
<1> DEFINE n == Len(s)
           t == [s EXCEPT ![n] = f]
<1>1. n \in Nat \ {0}
  BY SequenceFacts DEF StackInv
<1>2. /\ IsSequence(t) /\ t # <<>> /\ Len(t) = n
      /\ \A i \in 1 .. n : t[i] = IF i = n THEN f ELSE s[i]
  BY <1>1, Replaced DEF StackInv
<1> HIDE DEF t, n
<1>3. \A k \in 1 .. n : OwnEnds(t, k) = OwnEnds(s, k)
  BY <1>1, <1>2 DEF OwnEnds, n
<1>4. \A k \in 1 .. n : IsFrame(t[k])
  BY <1>1, <1>2 DEF StackInv, n
<1>5. t[1].kind = "root"
  BY <1>1, <1>2 DEF StackInv, n
<1>6. ChainsContinue(t)
  BY <1>1, <1>2 DEF StackInv, ChainsContinue, n
<1>7. DepthsCount(t)
  BY <1>1, <1>2, <1>3 DEF StackInv, DepthsCount, n
<1>8. RangeBodies(t, n - 1) = RangeBodies(s, n - 1)
  BY <1>1, <1>2 DEF RangeBodies
<1>9. /\ Cardinality(RangeBodies(t, n)) = Cardinality(RangeBodies(t, n - 1)) + (IF InRangeBody(t[n]) THEN 1 ELSE 0)
      /\ Cardinality(RangeBodies(s, n)) = Cardinality(RangeBodies(s, n - 1)) + (IF InRangeBody(s[n]) THEN 1 ELSE 0)
      /\ Cardinality(RangeBodies(s, n - 1)) \in Nat
  <2>1. n - 1 \in Nat /\ (n - 1) + 1 = n
    BY <1>1
  <2> QED
    BY <2>1, CountOneMore, CountsAreFinite
<1>10. StackInv(t) /\ t[n] = f
  BY <1>1, <1>2, <1>4, <1>5, <1>6, <1>7 DEF StackInv
<1>11. Cardinality(RangeBodies(t, n)) =
         Cardinality(RangeBodies(s, n)) + (IF InRangeBody(f) THEN 1 ELSE 0) - (IF InRangeBody(s[n]) THEN 1 ELSE 0)
  BY <1>8, <1>9, <1>10
<1> QED
  BY <1>2, <1>10, <1>11 DEF t, n

(* Constructs end, and the one around them gets a node.                    *)
LEMMA Popped ==
    ASSUME NEW s, StackInv(s), NEW k \in 1 .. Len(s) - 1, NEW f, IsFrame(f), SameConstruct(f, s[k])
    PROVE  LET t == [SubSeq(s, 1, k) EXCEPT ![k] = f] IN
           StackInv(t) /\ Len(t) = k /\ RangeBodies(t, k) = RangeBodies(s, k)
<1> DEFINE r == SubSeq(s, 1, k)
           t == [r EXCEPT ![k] = f]
<1>1. Len(s) \in Nat /\ k \in 1 .. Len(s) /\ k \in Nat
  BY SequenceFacts DEF StackInv
<1>2. IsSequence(r) /\ Len(r) = k /\ \A i \in 1 .. k : r[i] = s[i]
  BY <1>1, Shortened DEF StackInv
<1> HIDE DEF r
<1>3. /\ IsSequence(t) /\ t # <<>> /\ Len(t) = k
      /\ \A i \in 1 .. k : t[i] = IF i = k THEN f ELSE r[i]
  <2>1. IsSequence(r) /\ k \in 1 .. Len(r)
    BY <1>1, <1>2
  <2>2. /\ IsSequence(t) /\ t # <<>> /\ Len(t) = Len(r)
        /\ \A i \in 1 .. Len(r) : t[i] = IF i = k THEN f ELSE r[i]
    BY <2>1, Replaced
  <2> QED
    BY <1>2, <2>2
<1>4. \A i \in 1 .. k : SameConstruct(t[i], s[i]) /\ IsFrame(t[i])
  BY <1>1, <1>2, <1>3 DEF StackInv, SameConstruct
<1> HIDE DEF t
<1>5. \A i \in 1 .. k : OwnEnds(t, i) = OwnEnds(s, i) /\ RangeBodies(t, i) = RangeBodies(s, i)
  <2> TAKE i \in 1 .. k
  <2>1. i \in Nat /\ \A j \in 1 .. i : SameConstruct(t[j], s[j])
    BY <1>1, <1>4
  <2> QED
    BY <2>1, CountsAgree
<1>6. t[1].kind = "root"
  BY <1>1, <1>4 DEF StackInv, SameConstruct
<1>7. ChainsContinue(t)
  BY <1>1, <1>3, <1>4 DEF StackInv, ChainsContinue, SameConstruct
<1>8. DepthsCount(t)
  BY <1>1, <1>3, <1>4, <1>5 DEF StackInv, DepthsCount, SameConstruct
<1>9. StackInv(t)
  BY <1>3, <1>4, <1>6, <1>7, <1>8 DEF StackInv
<1> QED
  BY <1>1, <1>3, <1>5, <1>9 DEF t, r

LEMMA ClosedTo ==
    ASSUME StackInv(stack), NEW k \in 1 .. Len(stack) - 1
    PROVE  /\ StackInv(CloseTo(k)) /\ Len(CloseTo(k)) = k
           /\ RangeBodies(CloseTo(k), k) = RangeBodies(stack, k)
<1> DEFINE r == SubSeq(stack, 1, k)
<1>1. Len(stack) \in Nat /\ k \in 1 .. Len(stack) /\ k \in Nat
  BY SequenceFacts DEF StackInv
<1>2. IsSequence(r) /\ Len(r) = k /\ \A i \in 1 .. k : r[i] = stack[i]
  BY <1>1, Shortened DEF StackInv
<1>3. DOMAIN r = 1 .. k /\ k \in DOMAIN r /\ r[k] = stack[k]
  BY <1>1, <1>2, SequenceFacts
<1>4. PICK node : CloseTo(k) = [r EXCEPT ![k].nodes = Append(@, node)]
  BY DEF CloseTo
<1> HIDE DEF r
<1>5. CloseTo(k) = [r EXCEPT ![k] = [stack[k] EXCEPT !.nodes = Append(stack[k].nodes, node)]]
  BY <1>3, <1>4
<1>6. IsFrame(stack[k])
  BY <1>1 DEF StackInv
<1> DEFINE f == [stack[k] EXCEPT !.nodes = Append(stack[k].nodes, node)]
<1>7. IsFrame(f) /\ SameConstruct(f, stack[k])
  BY <1>6, NodesChanged
<1> HIDE DEF f
<1>8. LET u == [SubSeq(stack, 1, k) EXCEPT ![k] = f] IN
        StackInv(u) /\ Len(u) = k /\ RangeBodies(u, k) = RangeBodies(stack, k)
  BY <1>7, Popped
<1> QED
  BY <1>5, <1>8 DEF f, r

LEMMA DefinitionAdded ==
    ASSUME DefinitionsInv, NEW d, ~Redefines(d)
    PROVE  LET new == AddDefinition(d) IN
           /\ IsSequence(new)
           /\ \A j, k \in DOMAIN new : new[j].name = new[k].name => j = k
           /\ \A k \in DOMAIN definitions :
                 /\ k \in DOMAIN new
                 /\ new[k].name = definitions[k].name
                 /\ ~IsEmptyList(definitions[k].body) => new[k] = definitions[k]
<1> DEFINE new == AddDefinition(d)
           n   == Len(definitions)
<1>1. IsSequence(definitions) /\ n \in Nat /\ DOMAIN definitions = 1 .. n
  BY SequenceFacts DEF DefinitionsInv
<1>2. \A j, k \in 1 .. n : definitions[j].name = definitions[k].name => j = k
  BY <1>1 DEF DefinitionsInv
<1>3. CASE ~Defined(d)
  <2>1. new = Append(definitions, d)
    BY <1>3 DEF AddDefinition
  <2> HIDE DEF new, n
  <2>2. /\ IsSequence(new) /\ Len(new) = n + 1
        /\ \A i \in 1 .. n : new[i] = definitions[i]
        /\ new[n + 1] = d
    BY <1>1, <2>1, Appended DEF n
  <2>3. DOMAIN new = 1 .. n + 1
    BY <2>2, SequenceFacts
  <2>4. \A k \in 1 .. n : definitions[k].name # d.name
    BY <1>1, <1>3 DEF Defined
  <2>5. \A j, k \in 1 .. n + 1 : new[j].name = new[k].name => j = k
    BY <1>1, <1>2, <2>2, <2>4
  <2> QED
    BY <1>1, <2>2, <2>3, <2>5 DEF new
<1>4. CASE Defined(d)
  <2>1. new = [k \in 1 .. n |-> IF definitions[k].name = d.name /\ ~IsEmptyList(d.body) THEN d
                                ELSE definitions[k]]
    BY <1>1, <1>4 DEF AddDefinition
  <2> HIDE DEF new, n
  <2>2. DOMAIN new = 1 .. n /\ \A k \in 1 .. n : new[k].name = definitions[k].name
    BY <2>1
  <2>3. IsSequence(new)
    <3>1. new \in [1 .. n -> Range(new)]
      BY <2>1, <2>2 DEF Range
    <3> QED
      BY <1>1, <3>1, SeqDef DEF IsSequence
  <2>4. \A k \in 1 .. n : ~IsEmptyList(definitions[k].body) => new[k] = definitions[k]
    BY <1>1, <2>1 DEF Redefines
  <2> QED
    BY <1>1, <1>2, <2>2, <2>3, <2>4 DEF new
<1> QED
  BY <1>3, <1>4 DEF new, n

----------------------------------------------------------------------------
(***************************************************************************)
(* ParserInv is an invariant.                                              *)
(***************************************************************************)
LEMMA StartInv ==
    ASSUME Init
    PROVE  ParserInv
<1>1. /\ stack = << RootFrame >> /\ range_depth = 0 /\ definitions = <<>>
  BY DEF Init
<1>2. /\ IsFrame(RootFrame) /\ RootFrame.kind = "root" /\ RootFrame.depth = 0
      /\ RootFrame.chained = FALSE /\ RootFrame.part = "body"
  <2>1. "root" \in FrameKinds /\ 0 \in 0 .. MaxNesting /\ FALSE \in BOOLEAN
    BY ParserAssumption DEF FrameKinds
  <2> QED
    BY <2>1 DEF RootFrame, Frame, IsFrame
<1> HIDE DEF RootFrame
<1>3. Len(stack) = 1 /\ stack[1] = RootFrame /\ stack # <<>>
  BY <1>1
<1>4. IsSequence(stack)
  <2>1. stack \in Seq({RootFrame})
    BY <1>1
  <2> QED
    BY <2>1, SeqOfRange DEF IsSequence
<1>5. OwnEnds(stack, 1) = {1} /\ RangeBodies(stack, 1) = {}
  BY <1>2, <1>3 DEF OwnEnds, RangeBodies, InRangeBody
<1>6. Cardinality(OwnEnds(stack, 1)) = 1 /\ Cardinality(RangeBodies(stack, 1)) = 0
  BY <1>5, FS_Singleton, FS_EmptySet
<1>7. StackInv(stack)
  BY <1>2, <1>3, <1>4, <1>6 DEF StackInv, ChainsContinue, DepthsCount
<1>8. DefinitionsInv
  <2>1. definitions \in Seq({})
    BY <1>1
  <2>2. IsSequence(definitions)
    BY <2>1, SeqOfRange DEF IsSequence
  <2> QED
    BY <1>1, <2>2 DEF DefinitionsInv
<1> QED
  BY <1>1, <1>3, <1>6, <1>7, <1>8 DEF ParserInv

(* What is known of the innermost construct.                               *)
LEMMA TopFacts ==
    ASSUME ParserInv
    PROVE  /\ Len(stack) \in Nat \ {0} /\ Top = stack[Len(stack)] /\ IsFrame(Top)
           /\ Top.kind # "root" => Len(stack) > 1
           /\ range_depth \in Nat
<1>1. Len(stack) \in Nat \ {0} /\ StackInv(stack)
  BY SequenceFacts DEF ParserInv, StackInv
<1>2. Top = stack[Len(stack)]
  BY DEF Top
<1>3. IsFrame(Top)
  BY <1>1, <1>2 DEF StackInv
<1>4. Top.kind # "root" => Len(stack) > 1
  BY <1>1, <1>2 DEF StackInv
<1> QED
  BY <1>1, <1>2, <1>3, <1>4, CountsAreFinite DEF ParserInv

(* The stack and the count of ranges, as ParserInv relates them.           *)
Counted(s, depth) == StackInv(s) /\ depth = Cardinality(RangeBodies(s, Len(s)))

LEMMA NodeAdded ==
    ASSUME ParserInv, NEW node, AddNode(node)
    PROVE  Counted(stack', range_depth') /\ definitions' = definitions
<1> DEFINE n == Len(stack)
           f == [Top EXCEPT !.nodes = Append(Top.nodes, node)]
<1>1. /\ n \in Nat \ {0} /\ Top = stack[n] /\ IsFrame(Top) /\ StackInv(stack)
      /\ range_depth = Cardinality(RangeBodies(stack, n)) /\ range_depth \in Nat
  BY TopFacts DEF ParserInv
<1>2. IsFrame(f) /\ SameConstruct(f, Top)
  BY <1>1, NodesChanged
<1>3. stack' = [stack EXCEPT ![n] = f] /\ range_depth' = range_depth /\ definitions' = definitions
  <2>1. stack' = [stack EXCEPT ![n].nodes = Append(@, node)]
    BY DEF AddNode
  <2>2. n \in DOMAIN stack
    BY <1>1, SequenceFacts DEF StackInv
  <2> QED
    BY <1>1, <2>1, <2>2 DEF AddNode
<1> HIDE DEF f
<1>4. f.kind = Top.kind /\ f.depth = Top.depth /\ f.chained = Top.chained /\ f.part = Top.part
  BY <1>2 DEF SameConstruct
<1>5. /\ StackInv(stack') /\ Len(stack') = n
      /\ Cardinality(RangeBodies(stack', n)) =
           Cardinality(RangeBodies(stack, n))
             + (IF InRangeBody(f) THEN 1 ELSE 0) - (IF InRangeBody(stack[n]) THEN 1 ELSE 0)
  BY <1>1, <1>2, <1>3, <1>4, TopReplaced
<1>6. InRangeBody(f) <=> InRangeBody(stack[n])
  BY <1>1, <1>4 DEF InRangeBody
<1> QED
  BY <1>1, <1>3, <1>5, <1>6 DEF Counted

LEMMA ConstructOpened ==
    ASSUME ParserInv, NEW kind \in FrameKinds \ {"root"}, NEW name, NEW pipe,
           Top.depth < MaxNesting, Open(kind, name, pipe, Top.depth + 1, FALSE)
    PROVE  Counted(stack', range_depth') /\ definitions' = definitions
<1> DEFINE n == Len(stack)
           f == Frame(kind, name, pipe, Top.depth + 1, FALSE)
<1>1. /\ n \in Nat \ {0} /\ Top = stack[n] /\ IsFrame(Top) /\ StackInv(stack)
      /\ range_depth = Cardinality(RangeBodies(stack, n)) /\ range_depth \in Nat
  BY TopFacts DEF ParserInv
<1>2. Top.depth \in Nat /\ Top.depth + 1 \in 0 .. MaxNesting
  BY <1>1, ParserAssumption DEF IsFrame
<1>3. /\ stack' = Append(stack, f) /\ definitions' = definitions
      /\ range_depth' = range_depth + (IF kind = "range" THEN 1 ELSE 0)
  BY DEF Open
<1>4. IsFrame(f) /\ f.kind = kind /\ f.depth = Top.depth + 1 /\ f.chained = FALSE /\ f.part = "body"
  <2>1. kind \in FrameKinds /\ FALSE \in BOOLEAN
    OBVIOUS
  <2> QED
    BY <1>2, <2>1 DEF Frame, IsFrame
<1> HIDE DEF f
<1>5. /\ StackInv(stack') /\ Len(stack') = n + 1
      /\ Cardinality(RangeBodies(stack', n + 1)) =
           Cardinality(RangeBodies(stack, n)) + (IF InRangeBody(f) THEN 1 ELSE 0)
  BY <1>1, <1>3, <1>4, Pushed
<1>6. InRangeBody(f) <=> kind = "range"
  BY <1>4 DEF InRangeBody
<1> QED
  BY <1>1, <1>3, <1>5, <1>6 DEF Counted

(* A definition is read from the top level, at depth 1.                    *)
LEMMA RootDepth ==
    ASSUME ParserInv, Len(stack) = 1
    PROVE  Top.depth = 0
<1>1. stack[1].kind = "root" /\ 1 \in 1 .. Len(stack)
  BY DEF ParserInv, StackInv
<1>2. ~stack[1].chained
  <2>1. IsFrame(stack[1]) /\ (stack[1].chained => 1 > 1)
    BY <1>1 DEF ParserInv, StackInv, ChainsContinue
  <2> QED
    BY <2>1
<1>3. OwnEnds(stack, 1) = {1}
  BY <1>2 DEF OwnEnds
<1>4. Cardinality(OwnEnds(stack, 1)) = stack[1].depth + 1 /\ stack[1].depth \in 0 .. MaxNesting
  BY <1>1 DEF ParserInv, StackInv, DepthsCount, IsFrame
<1>5. 1 = stack[1].depth + 1
  BY <1>3, <1>4, FS_Singleton
<1> QED
  BY <1>4, <1>5, ParserAssumption DEF Top

LEMMA ElseRead ==
    ASSUME ParserInv, AcceptsElse
    PROVE  LET t == [stack EXCEPT ![Len(stack)] = ToElse(@)] IN
           /\ Counted(t, RangeDepthAfterBody) /\ Len(t) = Len(stack)
           /\ t[Len(stack)] = ToElse(Top)
<1> DEFINE n == Len(stack)
           t == [stack EXCEPT ![n] = ToElse(@)]
<1>1. /\ n \in Nat \ {0} /\ Top = stack[n] /\ IsFrame(Top) /\ StackInv(stack)
      /\ range_depth = Cardinality(RangeBodies(stack, n)) /\ range_depth \in Nat
  BY TopFacts DEF ParserInv
<1>2. n \in DOMAIN stack
  BY <1>1, SequenceFacts DEF StackInv
<1> HIDE DEF n
<1>3. t = [stack EXCEPT ![n] = ToElse(Top)]
  BY <1>1, <1>2
<1> HIDE DEF t
<1>4. /\ IsFrame(ToElse(Top)) /\ ToElse(Top).part = "else" /\ ToElse(Top).kind = Top.kind
      /\ ToElse(Top).depth = Top.depth /\ ToElse(Top).chained = Top.chained
  BY <1>1, ElseBegun
<1>5. /\ StackInv(t) /\ Len(t) = n /\ t[n] = ToElse(Top)
      /\ Cardinality(RangeBodies(t, n)) =
           Cardinality(RangeBodies(stack, n))
             + (IF InRangeBody(ToElse(Top)) THEN 1 ELSE 0) - (IF InRangeBody(stack[n]) THEN 1 ELSE 0)
  BY <1>1, <1>3, <1>4, TopReplaced DEF n
<1>6. ~InRangeBody(ToElse(Top)) /\ (InRangeBody(stack[n]) <=> Top.kind = "range" /\ Top.part = "body")
  BY <1>1, <1>4 DEF InRangeBody
<1>7. RangeDepthAfterBody = Cardinality(RangeBodies(t, n))
  BY <1>1, <1>5, <1>6 DEF RangeDepthAfterBody
<1> QED
  BY <1>5, <1>7 DEF Counted, t, n

LEMMA ElseBranchRead ==
    ASSUME ParserInv, ParseElseBranch
    PROVE  Counted(stack', range_depth') /\ definitions' = definitions
<1>1. CASE UNCHANGED <<stack, range_depth, definitions>>
  BY <1>1 DEF ParserInv, Counted
<1>2. CASE ~ UNCHANGED <<stack, range_depth, definitions>>
  <2> DEFINE n == Len(stack)
             t == [stack EXCEPT ![n] = ToElse(@)]
  <2>1. PICK kind \in {"if", "with"}, p \in Pipelines :
          /\ AcceptsElse /\ Top.kind = kind
          /\ stack' = Append(t, Frame(kind, "", p, Top.depth, TRUE))
          /\ range_depth' = range_depth /\ definitions' = definitions
    BY <1>2 DEF ParseElseBranch, Reject
  <2> DEFINE f == Frame(kind, "", p, Top.depth, TRUE)
  <2>2. n \in Nat \ {0} /\ Top = stack[n] /\ IsFrame(Top) /\ range_depth \in Nat
    BY TopFacts
  <2>3. Counted(t, RangeDepthAfterBody) /\ Len(t) = n /\ t[n] = ToElse(Top)
    BY <2>1, ElseRead
  <2>4. RangeDepthAfterBody = range_depth
    <3>1. Top.kind # "range"
      BY <2>1
    <3> QED
      BY <2>2, <3>1 DEF RangeDepthAfterBody
  <2>5. ToElse(Top).part = "else" /\ ToElse(Top).depth = Top.depth
    BY <2>2, ElseBegun
  <2>6. IsFrame(f) /\ f.kind = kind /\ f.depth = Top.depth /\ f.chained = TRUE /\ f.part = "body"
    <3>1. kind \in FrameKinds /\ TRUE \in BOOLEAN /\ Top.depth \in 0 .. MaxNesting
      BY <2>2 DEF FrameKinds, Branches, IsFrame
    <3> QED
      BY <3>1 DEF Frame, IsFrame
  <2> HIDE DEF f, t
  <2>7. Top.depth \in Nat
    BY <2>2, ParserAssumption DEF IsFrame
  <2>8. /\ f.kind # "root" /\ (f.chained => f.kind \in {"if", "with"} /\ t[Len(t)].part = "else")
        /\ f.depth = t[Len(t)].depth + (IF f.chained THEN 0 ELSE 1)
    BY <2>3, <2>5, <2>6, <2>7
  <2>9. /\ StackInv(Append(t, f)) /\ Len(Append(t, f)) = Len(t) + 1
        /\ Cardinality(RangeBodies(Append(t, f), Len(t) + 1)) =
             Cardinality(RangeBodies(t, Len(t))) + (IF InRangeBody(f) THEN 1 ELSE 0)
    BY <2>3, <2>6, <2>8, Pushed DEF Counted
  <2>10. ~InRangeBody(f)
    BY <2>6 DEF InRangeBody
  <2>11. stack' = Append(t, f)
    BY <2>1 DEF f, t
  <2> QED
    <3>1. Cardinality(RangeBodies(t, Len(t))) = range_depth
      BY <2>3, <2>4 DEF Counted
    <3>2. Cardinality(RangeBodies(stack', Len(stack'))) = range_depth
      BY <2>2, <2>9, <2>10, <2>11, <3>1
    <3> QED
      BY <2>1, <2>9, <2>11, <3>2 DEF Counted
<1> QED
  BY <1>1, <1>2

LEMMA EndRead ==
    ASSUME ParserInv, ParseEnd
    PROVE  Counted(stack', range_depth')
<1> DEFINE n == Len(stack)
<1>1. /\ n \in Nat \ {0} /\ Top = stack[n] /\ IsFrame(Top) /\ StackInv(stack)
      /\ (Top.kind # "root" => n > 1)
      /\ range_depth = Cardinality(RangeBodies(stack, n)) /\ range_depth \in Nat
  BY TopFacts DEF ParserInv
<1>2. n - 1 \in Nat /\ (n - 1) + 1 = n
  BY <1>1
<1>3. Cardinality(RangeBodies(stack, n)) =
        Cardinality(RangeBodies(stack, n - 1)) + (IF InRangeBody(Top) THEN 1 ELSE 0)
  BY <1>1, <1>2, CountOneMore
<1>4. Cardinality(RangeBodies(stack, n - 1)) \in Nat
  BY <1>2, CountsAreFinite
<1>5. CASE UNCHANGED <<stack, range_depth>>
  BY <1>1, <1>5 DEF Counted
(* A branch: the frames between k and the innermost one are in their else. *)
<1>6. ASSUME Top.kind \in Branches, NEW k \in DOMAIN stack, Closed(k), stack' = CloseTo(k),
             range_depth' = RangeDepthAfterBody
      PROVE  Counted(stack', range_depth')
  <2>1. k \in 1 .. n - 1 /\ k \in Nat /\ \A j \in k + 2 .. n : stack[j].chained
    BY <1>1, <1>6 DEF Closed
  <2>2. \A j \in k + 1 .. n - 1 : ~InRangeBody(stack[j])
    <3> TAKE j \in k + 1 .. n - 1
    <3>1. j + 1 \in k + 2 .. n /\ j + 1 \in 1 .. n /\ (j + 1) - 1 = j
      BY <1>1, <2>1
    <3>2. stack[j + 1].chained
      BY <2>1, <3>1
    <3>3. stack[j].part = "else"
      BY <1>1, <3>1, <3>2 DEF StackInv, ChainsContinue
    <3> QED
      BY <3>3 DEF InRangeBody
  <2>3. RangeBodies(stack, n - 1) = RangeBodies(stack, k)
    BY <1>1, <2>1, <2>2 DEF RangeBodies
  <2>4. /\ StackInv(stack') /\ Len(stack') = k
        /\ RangeBodies(stack', k) = RangeBodies(stack, k)
    BY <1>1, <1>6, <2>1, ClosedTo
  <2>5. RangeDepthAfterBody = range_depth - (IF InRangeBody(Top) THEN 1 ELSE 0)
    BY DEF RangeDepthAfterBody, InRangeBody
  <2>6. RangeDepthAfterBody = Cardinality(RangeBodies(stack, k))
    BY <1>1, <1>3, <1>4, <2>3, <2>5
  <2> QED
    BY <1>6, <2>4, <2>6 DEF Counted
(* A block or a definition is no range.                                    *)
<1>7. ASSUME Top.kind \in {"block", "define"}, range_depth' = range_depth,
             \/ stack' = SubSeq(stack, 1, n - 1)
             \/ stack' = CloseTo(n - 1)
      PROVE  Counted(stack', range_depth')
  <2>1. n - 1 \in 1 .. n - 1 /\ n - 1 \in 1 .. n
    BY <1>1, <1>7
  <2>2. range_depth = Cardinality(RangeBodies(stack, n - 1))
    BY <1>1, <1>3, <1>4, <1>7 DEF InRangeBody
  <2>3. CASE stack' = CloseTo(n - 1)
    <3>1. /\ StackInv(stack') /\ Len(stack') = n - 1
          /\ RangeBodies(stack', n - 1) = RangeBodies(stack, n - 1)
      BY <1>1, <2>1, <2>3, ClosedTo
    <3> QED
      BY <1>7, <2>2, <3>1 DEF Counted
  <2>4. CASE stack' = SubSeq(stack, 1, n - 1)
    <3> DEFINE r == SubSeq(stack, 1, n - 1)
               f == stack[n - 1]
    <3>1. IsSequence(r) /\ Len(r) = n - 1 /\ \A i \in 1 .. n - 1 : r[i] = stack[i]
      BY <1>1, <2>1, Shortened DEF StackInv
    <3>2. DOMAIN r = 1 .. n - 1
      BY <3>1, SequenceFacts
    <3>3. IsFrame(f) /\ SameConstruct(f, f)
      BY <1>1, <2>1 DEF StackInv, SameConstruct
    <3>4. LET t == [SubSeq(stack, 1, n - 1) EXCEPT ![n - 1] = f] IN
            StackInv(t) /\ Len(t) = n - 1 /\ RangeBodies(t, n - 1) = RangeBodies(stack, n - 1)
      BY <1>1, <2>1, <3>3, Popped
    <3>5. [r EXCEPT ![n - 1] = f] = r
      <4> HIDE DEF r
      <4>1. r = [i \in 1 .. n - 1 |-> r[i]] /\ r[n - 1] = f
        BY <2>1, <3>1, <3>2 DEF IsSequence
      <4> QED
        BY <4>1
    <3> QED
      BY <1>7, <2>2, <2>4, <3>4, <3>5 DEF Counted
  <2> QED
    BY <1>7, <2>3, <2>4
<1>8. \/ UNCHANGED <<stack, range_depth>>
      \/ /\ Top.kind \in Branches /\ range_depth' = RangeDepthAfterBody
         /\ \E k \in DOMAIN stack : Closed(k) /\ stack' = CloseTo(k)
      \/ /\ Top.kind \in {"block", "define"} /\ range_depth' = range_depth
         /\ stack' = SubSeq(stack, 1, n - 1) \/ stack' = CloseTo(n - 1)
  <2>1. Top.kind \in FrameKinds
    BY <1>1 DEF IsFrame
  <2> QED
    BY <2>1 DEF ParseEnd, Reject, FrameKinds
<1> QED
  BY <1>5, <1>6, <1>7, <1>8

LEMMA StackKept ==
    ASSUME ParserInv, [Next]_vars
    PROVE  Counted(stack', range_depth')
<1>1. CASE UNCHANGED <<stack, range_depth>>
  BY <1>1 DEF ParserInv, Counted
<1>2. CASE ParseText
  BY <1>2, NodeAdded DEF ParseText
<1>3. CASE ParseAction
  BY <1>3, NodeAdded DEF ParseAction
<1>4. CASE ParseTemplateCall
  BY <1>4, NodeAdded DEF ParseTemplateCall
<1>5. CASE ParseLoopControl
  BY <1>1, <1>5, NodeAdded DEF ParseLoopControl, Reject
<1>6. Top.depth \in Nat
  BY TopFacts, ParserAssumption DEF IsFrame
<1>7. ~TooDeep => Top.depth < MaxNesting
  BY <1>6, ParserAssumption DEF TooDeep
<1>8. CASE ParseBranch
  <2>1. SUFFICES ASSUME ~TooDeep, NEW kind \in Branches, NEW p, Open(kind, "", p, Top.depth + 1, FALSE)
                 PROVE  Counted(stack', range_depth')
    BY <1>1, <1>8 DEF ParseBranch, Reject
  <2>2. kind \in FrameKinds \ {"root"}
    BY DEF FrameKinds, Branches
  <2> QED
    BY <1>7, <2>1, <2>2, ConstructOpened
<1>9. CASE ParseBlock
  <2>1. SUFFICES ASSUME ~TooDeep, NEW m, NEW p, Open("block", m, p, Top.depth + 1, FALSE)
                 PROVE  Counted(stack', range_depth')
    BY <1>1, <1>9 DEF ParseBlock, Reject
  <2>2. "block" \in FrameKinds \ {"root"}
    BY DEF FrameKinds
  <2> QED
    BY <1>7, <2>1, <2>2, ConstructOpened
<1>10. CASE ParseDefinition
  <2>1. SUFFICES ASSUME ~(Len(stack) > 1), NEW m, Open("define", m, NoPipe, 1, FALSE)
                 PROVE  Counted(stack', range_depth')
    BY <1>1, <1>10 DEF ParseDefinition, Reject
  <2>2. Len(stack) = 1
    BY <2>1, TopFacts
  <2>3. Top.depth = 0 /\ Top.depth + 1 = 1 /\ Top.depth < MaxNesting
    BY <2>2, RootDepth, ParserAssumption
  <2>4. Open("define", m, NoPipe, Top.depth + 1, FALSE)
    BY <2>1, <2>3
  <2>5. "define" \in FrameKinds \ {"root"}
    BY DEF FrameKinds
  <2> QED
    BY <2>3, <2>4, <2>5, ConstructOpened
<1>11. CASE ParseElse
  <2>1. SUFFICES ASSUME AcceptsElse, stack' = [stack EXCEPT ![Len(stack)] = ToElse(@)],
                        range_depth' = RangeDepthAfterBody
                 PROVE  Counted(stack', range_depth')
    BY <1>1, <1>11 DEF ParseElse, Reject
  <2> QED
    BY <2>1, ElseRead
<1>12. CASE ParseElseBranch
  BY <1>12, ElseBranchRead
<1>13. CASE ParseEnd
  BY <1>13, EndRead
<1>14. CASE ParseEOF
  BY <1>1, <1>14 DEF ParseEOF
<1>15. CASE Finished \/ UNCHANGED vars
  BY <1>1, <1>15 DEF Finished, vars
<1> QED
  BY <1>2, <1>3, <1>4, <1>5, <1>8, <1>9, <1>10, <1>11, <1>12, <1>13, <1>14, <1>15 DEF Next

(* What a step may do to the definitions.                                  *)
KeptDefinitions(old, new) ==
    /\ \A k \in DOMAIN old :
          /\ k \in DOMAIN new
          /\ new[k].name = old[k].name
          /\ ~IsEmptyList(old[k].body) => new[k] = old[k]
    /\ \A j, k \in DOMAIN new : new[j].name = new[k].name => j = k

LEMMA DefinitionsKept ==
    ASSUME ParserInv, [Next]_vars
    PROVE  IsSequence(definitions') /\ KeptDefinitions(definitions, definitions')
<1>1. CASE definitions' = definitions
  BY <1>1 DEF ParserInv, DefinitionsInv, KeptDefinitions
<1>2. ASSUME NEW d, ~Redefines(d), definitions' = AddDefinition(d)
      PROVE  IsSequence(definitions') /\ KeptDefinitions(definitions, definitions')
  BY <1>2, DefinitionAdded DEF ParserInv, KeptDefinitions
<1>3. ASSUME NEW node, AddNode(node)
      PROVE  definitions' = definitions
  BY <1>3 DEF AddNode
<1>4. CASE ParseText \/ ParseAction \/ ParseTemplateCall \/ ParseLoopControl
  BY <1>1, <1>3, <1>4 DEF ParseText, ParseAction, ParseTemplateCall, ParseLoopControl, Reject
<1>5. CASE ParseBranch \/ ParseBlock \/ ParseDefinition
  BY <1>1, <1>5 DEF ParseBranch, ParseBlock, ParseDefinition, Open, Reject
<1>6. CASE ParseElse \/ ParseElseBranch
  BY <1>1, <1>6 DEF ParseElse, ParseElseBranch, Reject
<1>7. CASE ParseEnd
  <2>1. \/ definitions' = definitions
        \/ \E d : ~Redefines(d) /\ definitions' = AddDefinition(d)
    BY <1>7 DEF ParseEnd, Reject
  <2> QED
    BY <1>1, <1>2, <2>1
<1>8. CASE ParseEOF \/ Finished \/ UNCHANGED vars
  BY <1>1, <1>8 DEF ParseEOF, Finished, vars
<1> QED
  BY <1>4, <1>5, <1>6, <1>7, <1>8 DEF Next

LEMMA StepInv ==
    ASSUME ParserInv, [Next]_vars
    PROVE  ParserInv'
<1>1. StackInv(stack') /\ range_depth' = Cardinality(RangeBodies(stack', Len(stack')))
  BY StackKept DEF Counted
<1>2. DefinitionsInv'
  BY DefinitionsKept DEF KeptDefinitions, DefinitionsInv
<1> QED
  BY <1>1, <1>2 DEF ParserInv

\* The constructs open in the parser are what the counters and the tree being
\* built say (parser.py parse_list, parse_branch), in every reachable state.
THEOREM StackIsCounted == Spec => []ParserInv
<1>1. Init => ParserInv
  BY StartInv
<1>2. ParserInv /\ [Next]_vars => ParserInv'
  BY StepInv
<1> QED
  BY <1>1, <1>2, PTL DEF Spec

(* range_depth is the number of ranges whose body is being read, and no    *)
(* source gets deeper than max_nesting constructs with an end of their own.*)
THEOREM NestingIsCounted == Spec => []NestingCounted
<1>1. ParserInv => NestingCounted
  <2> SUFFICES ASSUME ParserInv PROVE NestingCounted
    OBVIOUS
  <2> DEFINE n == Len(stack)
  <2>1. n \in Nat \ {0} /\ DOMAIN stack = 1 .. n /\ IsFrame(stack[n])
    BY TopFacts, SequenceFacts DEF ParserInv, StackInv
  <2>2. {k \in DOMAIN stack : InRangeBody(stack[k])} = RangeBodies(stack, n)
    BY <2>1 DEF RangeBodies
  <2>3. {k \in DOMAIN stack : ~stack[k].chained} = OwnEnds(stack, n)
    BY <2>1 DEF OwnEnds
  <2>4. Cardinality(OwnEnds(stack, n)) = stack[n].depth + 1
    <3>1. n \in 1 .. n
      BY <2>1
    <3> QED
      BY <3>1 DEF ParserInv, StackInv, DepthsCount
  <2>5. stack[n].depth \in 0 .. MaxNesting
    BY <2>1 DEF IsFrame
  <2>6. Cardinality(OwnEnds(stack, n)) <= MaxNesting + 1
    BY <2>4, <2>5, ParserAssumption
  <2>7. range_depth = Cardinality(RangeBodies(stack, n))
    BY DEF ParserInv
  <2> HIDE DEF n
  <2> QED
    BY <2>2, <2>3, <2>6, <2>7 DEF NestingCounted
<1> QED
  BY <1>1, StackIsCounted, PTL

(* A definition with a body is never changed and no name is defined twice. *)
THEOREM DefinitionsAreFinal == Spec => DefinitionsFinal
<1> DEFINE Kept == /\ \A k \in DOMAIN definitions :
                         /\ k \in DOMAIN definitions'
                         /\ definitions'[k].name = definitions[k].name
                         /\ ~IsEmptyList(definitions[k].body) =>
                               definitions'[k] = definitions[k]
                   /\ \A j, k \in DOMAIN definitions' :
                         definitions'[j].name = definitions'[k].name => j = k
<1>1. ParserInv /\ [Next]_vars => [Kept]_vars
  BY DefinitionsKept DEF KeptDefinitions
<1>2. [][ParserInv /\ [Next]_vars]_vars => [][Kept]_vars
  BY <1>1, PTL
<1>3. DefinitionsFinal <=> [][Kept]_vars
  BY DEF DefinitionsFinal
<1> QED
  BY <1>2, <1>3, StackIsCounted, PTL DEF Spec

----------------------------------------------------------------------------
(* Compiled code                                                           *)

\* The recursion of the compiler and of its domain.
DeeperNodes(nodes, d) == LeafNodes \cup ConstructNodes(Seq(nodes))
DeeperEmit(emit, d) == 
    [n \in NodesWithin[d] |-> [st \in CompilerStates |-> EmitNode(emit, n, st)]]

Deepening == INSTANCE FoldTheorems WITH Op <- DeeperNodes
Lowering  == INSTANCE FoldTheorems WITH Op <- DeeperEmit

----------------------------------------------------------------------------
(* The stack map, one instruction at a time.                               *)

Shapes == [scopes : Int, dots : Int, ranges : Int]

Stacks(c, p) ==
    Shape(Opened(c, "PUSH_SCOPE", "POP_SCOPE", p),
          Opened(c, "ENTER_WITH", "EXIT_WITH", p),
          Opened(c, "ITERATE", "NEXT_ITERATION", p))

Change(op, open, close) == IF op = open THEN 1 ELSE IF op = close THEN -1 ELSE 0

\* b is a, changed by an instruction op.
Raised(op, a, b) ==
    /\ b.scopes = a.scopes + Change(op, "PUSH_SCOPE", "POP_SCOPE")
    /\ b.dots = a.dots + Change(op, "ENTER_WITH", "EXIT_WITH")
    /\ b.ranges = a.ranges + Change(op, "ITERATE", "NEXT_ITERATION")

Uses(c, op, p) == {i \in 1 .. p - 1 : c[i].op = op}

LEMMA UseCounted ==
    ASSUME NEW c, NEW op, NEW p \in Nat \ {0}
    PROVE  /\ Cardinality(Uses(c, op, p)) \in Nat
           /\ Cardinality(Uses(c, op, p + 1)) =
                Cardinality(Uses(c, op, p)) + (IF c[p].op = op THEN 1 ELSE 0)
<1>1. IsFiniteSet(1 .. p - 1)
  BY FS_Interval
<1>2. Uses(c, op, p) \subseteq 1 .. p - 1
  BY DEF Uses
<1>3. IsFiniteSet(Uses(c, op, p))
  BY <1>1, <1>2, FS_Subset
<1>4. Cardinality(Uses(c, op, p)) \in Nat
  BY <1>3, FS_CardinalityType
<1>5. CASE c[p].op = op
  <2>1. Uses(c, op, p + 1) = Uses(c, op, p) \union {p} /\ p \notin Uses(c, op, p)
    BY <1>5 DEF Uses
  <2>2. Cardinality(Uses(c, op, p) \union {p}) = Cardinality(Uses(c, op, p)) + 1
    BY <1>3, <2>1, FS_AddElement
  <2> QED
    BY <1>4, <1>5, <2>1, <2>2
<1>6. CASE c[p].op # op
  <2>1. Uses(c, op, p + 1) = Uses(c, op, p)
    BY <1>6 DEF Uses
  <2> QED
    BY <1>4, <1>6, <2>1
<1> QED
  BY <1>4, <1>5, <1>6

LEMMA OpenedStep ==
    ASSUME NEW c, NEW open, NEW close, open # close, NEW p \in Nat \ {0}
    PROVE  /\ Opened(c, open, close, p) \in Int
           /\ Opened(c, open, close, p + 1) =
                Opened(c, open, close, p) + Change(c[p].op, open, close)
<1> DEFINE a == Cardinality(Uses(c, open, p))
           b == Cardinality(Uses(c, close, p))
           a1 == Cardinality(Uses(c, open, p + 1))
           b1 == Cardinality(Uses(c, close, p + 1))
<1>1. a \in Nat /\ a1 = a + (IF c[p].op = open THEN 1 ELSE 0)
  BY UseCounted
<1>2. b \in Nat /\ b1 = b + (IF c[p].op = close THEN 1 ELSE 0)
  BY UseCounted
<1>3. Opened(c, open, close, p) = a - b /\ Opened(c, open, close, p + 1) = a1 - b1
  BY DEF Opened, Uses
<1> HIDE DEF a, b, a1, b1
<1> QED
  BY <1>1, <1>2, <1>3 DEF Change

LEMMA StacksStep ==
    ASSUME NEW c, NEW p \in Nat \ {0}
    PROVE  Stacks(c, p) \in Shapes /\ Raised(c[p].op, Stacks(c, p), Stacks(c, p + 1))
<1> DEFINE s(q) == Opened(c, "PUSH_SCOPE", "POP_SCOPE", q)
           d(q) == Opened(c, "ENTER_WITH", "EXIT_WITH", q)
           r(q) == Opened(c, "ITERATE", "NEXT_ITERATION", q)
<1>1. /\ s(p) \in Int /\ s(p + 1) = s(p) + Change(c[p].op, "PUSH_SCOPE", "POP_SCOPE")
      /\ d(p) \in Int /\ d(p + 1) = d(p) + Change(c[p].op, "ENTER_WITH", "EXIT_WITH")
      /\ r(p) \in Int /\ r(p + 1) = r(p) + Change(c[p].op, "ITERATE", "NEXT_ITERATION")
  BY OpenedStep
<1>2. \A q : Stacks(c, q) = [scopes |-> s(q), dots |-> d(q), ranges |-> r(q)]
  BY DEF Stacks, Shape
<1> HIDE DEF s, d, r
<1> QED
  BY <1>1, <1>2 DEF Shapes, Raised

LEMMA StacksStart ==
    ASSUME NEW c
    PROVE  Stacks(c, 1) = Shape(0, 0, 0)
<1>1. \A op : {i \in 1 .. 1 - 1 : c[i].op = op} = {}
  OBVIOUS
<1>2. Cardinality({}) = 0
  BY FS_EmptySet
<1>3. \A open, close : Opened(c, open, close, 1) = 0
  BY <1>1, <1>2 DEF Opened
<1> QED
  BY <1>3 DEF Stacks

SameOps(c, d, n) == \A i \in 1 .. n : c[i].op = d[i].op

LEMMA StacksAgree ==
    ASSUME NEW c, NEW d, NEW n \in Nat, SameOps(c, d, n), NEW p \in 1 .. n + 1
    PROVE  Stacks(c, p) = Stacks(d, p)
<1>1. \A i \in 1 .. p - 1 : c[i].op = d[i].op
  BY DEF SameOps
<1>2. \A op : {i \in 1 .. p - 1 : c[i].op = op} = {i \in 1 .. p - 1 : d[i].op = op}
  BY <1>1
<1> QED
  BY <1>2 DEF Stacks, Opened

LEMMA ShapesEqual ==
    ASSUME NEW a \in Shapes, NEW b \in Shapes,
           a.scopes = b.scopes, a.dots = b.dots, a.ranges = b.ranges
    PROVE  a = b
BY DEF Shapes

----------------------------------------------------------------------------
(* Parts of code.  lo .. hi are the positions its jumps may go to, and base *)
(* is a shape its stacks never go below.  The jumps of breaks and continues *)
(* are not patched before the loop around them is complete: brk and cnt are *)
(* the sites that still wait for it.                                        *)

Above(a, b) == a.scopes >= b.scopes /\ a.dots >= b.dots /\ a.ranges >= b.ranges
Natural(a) == a.scopes >= 0 /\ a.dots >= 0 /\ a.ranges >= 0

EdgesFit(c, p, lo, hi) ==
    /\ HasOperands(c[p].op, Stacks(c, p))
    /\ c[p].op \in JumpOps =>
          /\ c[p].target \in lo .. hi
          /\ Serves(Jumping(c[p].op, Stacks(c, p)), Stacks(c, c[p].target))
    /\ c[p].op = "NEXT_ITERATION" =>
          /\ c[p].body \in lo .. hi
          /\ Serves(Stacks(c, p), Stacks(c, c[p].body))

Waits(c, p, base, brk, cnt) ==
    /\ Stacks(c, p).ranges = base.ranges
    /\ p \in brk => c[p].op = "BREAK_RANGE"
    /\ p \in cnt => c[p].op = "JUMP"

Part(c, a, b, base, lo, hi, brk, cnt) ==
    /\ brk \subseteq a .. b - 1
    /\ cnt \subseteq a .. b - 1
    /\ \A p \in a .. b - 1 :
          /\ Above(Stacks(c, p), base)
          /\ IF p \in brk \union cnt THEN Waits(c, p, base, brk, cnt)
             ELSE EdgesFit(c, p, lo, hi)

\* A part that leaves the stacks as it found them, and only jumps inside.
Segment(c, a, b, brk, cnt) ==
    /\ a \in Nat \ {0} /\ b \in Nat /\ a <= b
    /\ Stacks(c, b) = Stacks(c, a)
    /\ Part(c, a, b, Stacks(c, a), a, b, brk, cnt)

LEMMA PartJoined ==
    ASSUME NEW c, NEW a \in Nat, NEW m \in Nat, NEW b \in Nat, a <= m, m <= b,
           NEW base, NEW lo, NEW hi, NEW k1, NEW n1, NEW k2, NEW n2,
           Part(c, a, m, base, lo, hi, k1, n1), Part(c, m, b, base, lo, hi, k2, n2)
    PROVE  Part(c, a, b, base, lo, hi, k1 \union k2, n1 \union n2)
<1>1. k1 \subseteq a .. m - 1 /\ n1 \subseteq a .. m - 1 /\ k2 \subseteq m .. b - 1 /\ n2 \subseteq m .. b - 1
  BY DEF Part
<1>2. k1 \union k2 \subseteq a .. b - 1 /\ n1 \union n2 \subseteq a .. b - 1
  BY <1>1
<1>3. ASSUME NEW p \in a .. b - 1
      PROVE  /\ Above(Stacks(c, p), base)
             /\ IF p \in (k1 \union k2) \union (n1 \union n2)
                THEN Waits(c, p, base, k1 \union k2, n1 \union n2)
                ELSE EdgesFit(c, p, lo, hi)
  <2>1. CASE p \in a .. m - 1
    <3>1. p \notin k2 /\ p \notin n2
      BY <1>1, <2>1
    <3>2. /\ Above(Stacks(c, p), base)
          /\ IF p \in k1 \union n1 THEN Waits(c, p, base, k1, n1) ELSE EdgesFit(c, p, lo, hi)
      BY <2>1 DEF Part
    <3> QED
      BY <3>1, <3>2 DEF Waits
  <2>2. CASE p \in m .. b - 1
    <3>1. p \notin k1 /\ p \notin n1
      BY <1>1, <2>2
    <3>2. /\ Above(Stacks(c, p), base)
          /\ IF p \in k2 \union n2 THEN Waits(c, p, base, k2, n2) ELSE EdgesFit(c, p, lo, hi)
      BY <2>2 DEF Part
    <3> QED
      BY <3>1, <3>2 DEF Waits
  <2> QED
    BY <2>1, <2>2
<1> QED
  BY <1>2, <1>3 DEF Part

LEMMA EdgesWiden ==
    ASSUME NEW c, NEW p, NEW lo \in Int, NEW hi \in Int, EdgesFit(c, p, lo, hi),
           NEW lo2 \in Int, NEW hi2 \in Int, lo2 <= lo, hi <= hi2
    PROVE  EdgesFit(c, p, lo2, hi2)
<1>1. \A t \in lo .. hi : t \in lo2 .. hi2
  OBVIOUS
<1> QED
  BY <1>1 DEF EdgesFit

LEMMA PartWidened ==
    ASSUME NEW c, NEW a \in Nat \ {0}, NEW b \in Nat, NEW base \in Shapes,
           NEW lo \in Int, NEW hi \in Int, NEW brk, NEW cnt,
           Part(c, a, b, base, lo, hi, brk, cnt),
           NEW base2 \in Shapes, Above(base, base2), base.ranges = base2.ranges,
           NEW lo2 \in Int, NEW hi2 \in Int, lo2 <= lo, hi <= hi2
    PROVE  Part(c, a, b, base2, lo2, hi2, brk, cnt)
<1>1. ASSUME NEW p \in a .. b - 1
      PROVE  /\ Above(Stacks(c, p), base2)
             /\ IF p \in brk \union cnt THEN Waits(c, p, base2, brk, cnt) ELSE EdgesFit(c, p, lo2, hi2)
  <2>1. /\ Above(Stacks(c, p), base)
        /\ IF p \in brk \union cnt THEN Waits(c, p, base, brk, cnt) ELSE EdgesFit(c, p, lo, hi)
    BY DEF Part
  <2>2. Stacks(c, p) \in Shapes
    BY StacksStep
  <2>3. Above(Stacks(c, p), base2)
    BY <2>1, <2>2 DEF Above, Shapes
  <2>4. CASE p \in brk \union cnt
    BY <2>1, <2>3, <2>4 DEF Waits
  <2>5. CASE p \notin brk \union cnt
    BY <2>1, <2>3, <2>5, EdgesWiden
  <2> QED
    BY <2>4, <2>5
<1> QED
  BY <1>1 DEF Part

LEMMA OnePart ==
    ASSUME NEW c, NEW p \in Nat, NEW base, NEW lo, NEW hi,
           Above(Stacks(c, p), base), EdgesFit(c, p, lo, hi)
    PROVE  Part(c, p, p + 1, base, lo, hi, {}, {})
<1>1. \A q \in p .. (p + 1) - 1 : q = p
  OBVIOUS
<1> QED
  BY <1>1 DEF Part

LEMMA EdgesCopied ==
    ASSUME NEW c, NEW d, NEW n \in Nat, SameOps(c, d, n),
           NEW p \in 1 .. n, d[p] = c[p],
           NEW lo \in Nat \ {0}, NEW hi \in Nat, hi <= n + 1, EdgesFit(c, p, lo, hi)
    PROVE  EdgesFit(d, p, lo, hi)
<1>1. \A t \in 1 .. n + 1 : Stacks(c, t) = Stacks(d, t)
  BY StacksAgree
<1>2. p \in 1 .. n + 1 /\ \A t \in lo .. hi : t \in 1 .. n + 1
  OBVIOUS
<1> QED
  BY <1>1, <1>2 DEF EdgesFit

LEMMA PartCopied ==
    ASSUME NEW c, NEW d, NEW n \in Nat, SameOps(c, d, n),
           NEW a \in Nat \ {0}, NEW b \in Nat, b <= n + 1,
           NEW base, NEW lo \in Nat \ {0}, NEW hi \in Nat, hi <= n + 1, NEW brk, NEW cnt,
           Part(c, a, b, base, lo, hi, brk, cnt),
           \A p \in a .. b - 1 : p \notin brk \union cnt => d[p] = c[p]
    PROVE  Part(d, a, b, base, lo, hi, brk, cnt)
<1>1. ASSUME NEW p \in a .. b - 1
      PROVE  /\ Above(Stacks(d, p), base)
             /\ IF p \in brk \union cnt THEN Waits(d, p, base, brk, cnt) ELSE EdgesFit(d, p, lo, hi)
  <2>1. p \in 1 .. n /\ p \in 1 .. n + 1
    OBVIOUS
  <2>2. Stacks(c, p) = Stacks(d, p) /\ c[p].op = d[p].op
    BY <2>1, StacksAgree DEF SameOps
  <2>3. /\ Above(Stacks(c, p), base)
        /\ IF p \in brk \union cnt THEN Waits(c, p, base, brk, cnt) ELSE EdgesFit(c, p, lo, hi)
    BY DEF Part
  <2>4. CASE p \in brk \union cnt
    BY <2>2, <2>3, <2>4 DEF Waits
  <2>5. CASE p \notin brk \union cnt
    BY <2>1, <2>2, <2>3, <2>5, EdgesCopied
  <2> QED
    BY <2>4, <2>5
<1> QED
  BY <1>1 DEF Part

\* The waiting jumps of a part are patched.
LEMMA PartPatched ==
    ASSUME NEW c, NEW a, NEW b, NEW base, NEW lo, NEW hi, NEW brk, NEW cnt,
           Part(c, a, b, base, lo, hi, brk, cnt),
           \A p \in brk \union cnt : EdgesFit(c, p, lo, hi)
    PROVE  Part(c, a, b, base, lo, hi, {}, {})
BY DEF Part

----------------------------------------------------------------------------
(* Segments.                                                               *)

LEMMA SegmentCopied ==
    ASSUME NEW c, NEW d, NEW n \in Nat, SameOps(c, d, n), NEW a, NEW b, NEW brk, NEW cnt,
           Segment(c, a, b, brk, cnt), b <= n + 1,
           \A p \in a .. b - 1 : p \notin brk \union cnt => d[p] = c[p]
    PROVE  Segment(d, a, b, brk, cnt)
<1>1. a \in Nat \ {0} /\ b \in Nat /\ a <= b
  BY DEF Segment
<1>2. Stacks(c, a) = Stacks(d, a) /\ Stacks(c, b) = Stacks(d, b)
  BY <1>1, StacksAgree
<1>3. Part(c, a, b, Stacks(c, a), a, b, brk, cnt)
  BY DEF Segment
<1>4. Part(d, a, b, Stacks(c, a), a, b, brk, cnt)
  BY <1>1, <1>3, PartCopied
<1> QED
  BY <1>1, <1>2, <1>4 DEF Segment

\* A segment is a part of what it is inside of.
LEMMA SegmentInside ==
    ASSUME NEW c, NEW a, NEW b, NEW brk, NEW cnt, Segment(c, a, b, brk, cnt),
           NEW base \in Shapes, Above(Stacks(c, a), base), Stacks(c, a).ranges = base.ranges,
           NEW lo \in Int, NEW hi \in Int, lo <= a, b <= hi
    PROVE  Part(c, a, b, base, lo, hi, brk, cnt)
<1>1. a \in Nat \ {0} /\ b \in Nat /\ Stacks(c, a) \in Shapes
  BY StacksStep DEF Segment
<1>2. Part(c, a, b, Stacks(c, a), a, b, brk, cnt)
  BY DEF Segment
<1> QED
  BY <1>1, <1>2, PartWidened

LEMMA SegmentJoined ==
    ASSUME NEW c, NEW a, NEW m, NEW b, NEW k1, NEW n1, NEW k2, NEW n2,
           Segment(c, a, m, k1, n1), Segment(c, m, b, k2, n2)
    PROVE  Segment(c, a, b, k1 \union k2, n1 \union n2)
<1>1. /\ a \in Nat \ {0} /\ m \in Nat \ {0} /\ b \in Nat /\ a <= m /\ m <= b
      /\ Stacks(c, m) = Stacks(c, a) /\ Stacks(c, b) = Stacks(c, m)
  BY DEF Segment
<1>2. Stacks(c, a) \in Shapes /\ Above(Stacks(c, a), Stacks(c, a))
  BY <1>1, StacksStep DEF Above, Shapes
<1>3. Part(c, a, m, Stacks(c, a), a, b, k1, n1)
  BY <1>1, <1>2, SegmentInside
<1>4. Part(c, m, b, Stacks(c, a), a, b, k2, n2)
  BY <1>1, <1>2, SegmentInside
<1>5. Part(c, a, b, Stacks(c, a), a, b, k1 \union k2, n1 \union n2)
  BY <1>1, <1>3, <1>4, PartJoined
<1> QED
  BY <1>1, <1>5 DEF Segment

LEMMA EmptySegment ==
    ASSUME NEW c, NEW a \in Nat \ {0}
    PROVE  Segment(c, a, a, {}, {})
<1>1. a .. a - 1 = {}
  OBVIOUS
<1> QED
  BY <1>1 DEF Segment, Part

StackOps == {"PUSH_SCOPE", "POP_SCOPE", "ENTER_WITH", "EXIT_WITH", "ITERATE", "NEXT_ITERATION"}

\* An instruction that leaves the stacks alone.
LEMMA Unmoved ==
    ASSUME NEW c, NEW a \in Nat \ {0}, c[a].op \notin StackOps
    PROVE  Stacks(c, a + 1) = Stacks(c, a)
<1>1. /\ Stacks(c, a) \in Shapes /\ Stacks(c, a + 1) \in Shapes
      /\ Raised(c[a].op, Stacks(c, a), Stacks(c, a + 1))
  BY StacksStep
<1> QED
  BY <1>1, ShapesEqual DEF Raised, Change, StackOps, Shapes

LEMMA PlainSegment ==
    ASSUME NEW c, NEW a \in Nat \ {0}, c[a].op \notin StackOps \union JumpOps
    PROVE  Segment(c, a, a + 1, {}, {})
<1>1. Stacks(c, a + 1) = Stacks(c, a) /\ Stacks(c, a) \in Shapes
  BY Unmoved, StacksStep
<1>2. Above(Stacks(c, a), Stacks(c, a)) /\ EdgesFit(c, a, a, a + 1)
  BY <1>1 DEF Above, Shapes, EdgesFit, HasOperands, StackOps, JumpOps
<1>3. Part(c, a, a + 1, Stacks(c, a), a, a + 1, {}, {})
  BY <1>2, OnePart
<1> QED
  BY <1>1, <1>3 DEF Segment

LEMMA WaitingSegment ==
    ASSUME NEW c, NEW a \in Nat \ {0}, NEW brk, NEW cnt,
           \/ c[a].op = "BREAK_RANGE" /\ brk = {a} /\ cnt = {}
           \/ c[a].op = "JUMP" /\ brk = {} /\ cnt = {a}
    PROVE  Segment(c, a, a + 1, brk, cnt)
<1>1. Stacks(c, a + 1) = Stacks(c, a) /\ Stacks(c, a) \in Shapes
  BY Unmoved, StacksStep DEF StackOps
<1>2. Above(Stacks(c, a), Stacks(c, a)) /\ Waits(c, a, Stacks(c, a), brk, cnt)
  BY <1>1 DEF Above, Shapes, Waits
<1>3. brk \union cnt = {a} /\ \A p \in a .. (a + 1) - 1 : p = a
  OBVIOUS
<1>4. Part(c, a, a + 1, Stacks(c, a), a, a + 1, brk, cnt)
  BY <1>2, <1>3 DEF Part
<1> QED
  BY <1>1, <1>4 DEF Segment

----------------------------------------------------------------------------
(* if and with.                                                            *)

\* Inside a construct, there is one more scope.
Inner(a, b) == b.scopes = a.scopes + 1 /\ b.dots = a.dots /\ b.ranges = a.ranges

\* The code from a to j: the scope, the test and the body that is taken.
TakenBranch(c, a, b, j, brk, cnt) ==
    /\ a \in Nat \ {0}
    /\ Natural(Stacks(c, a))
    /\ c[a].op = "PUSH_SCOPE"
    /\ Segment(c, a + 2, b, brk, cnt)
    /\ \/ c[a + 1].op = "JUMP_IF_FALSE" /\ j = b
       \/ c[a + 1].op = "ENTER_WITH" /\ c[b].op = "EXIT_WITH" /\ j = b + 1

LEMMA InnerAlike ==
    ASSUME NEW c, NEW a \in Nat \ {0}, NEW p \in Nat \ {0}, NEW q \in Nat \ {0},
           Inner(Stacks(c, a), Stacks(c, p)), Inner(Stacks(c, a), Stacks(c, q))
    PROVE  Stacks(c, p) = Stacks(c, q)
<1>1. Stacks(c, p) \in Shapes /\ Stacks(c, q) \in Shapes
  BY StacksStep
<1> QED
  BY <1>1, ShapesEqual DEF Inner

LEMMA TakenStacks ==
    ASSUME NEW c, NEW a, NEW b, NEW j, NEW brk, NEW cnt, TakenBranch(c, a, b, j, brk, cnt)
    PROVE  /\ a \in Nat \ {0} /\ b \in Nat /\ j \in Nat /\ a + 2 <= b /\ b <= j
           /\ Inner(Stacks(c, a), Stacks(c, a + 1))
           /\ Inner(Stacks(c, a), Stacks(c, j))
           /\ Above(Stacks(c, a + 2), Stacks(c, a))
           /\ Stacks(c, a + 2).ranges = Stacks(c, a).ranges
           /\ j # b => Above(Stacks(c, b), Stacks(c, a)) /\ Stacks(c, b).dots > 0
<1>1. a \in Nat \ {0} /\ b \in Nat /\ a + 2 <= b /\ Stacks(c, b) = Stacks(c, a + 2)
  BY DEF TakenBranch, Segment
<1> DEFINE s0 == Stacks(c, a)
           s1 == Stacks(c, a + 1)
           s2 == Stacks(c, a + 2)
           s3 == Stacks(c, b + 1)
<1>2. a + 1 \in Nat \ {0} /\ (a + 1) + 1 = a + 2 /\ b \in Nat \ {0}
  BY <1>1
<1>3. s0 \in Shapes /\ s1 \in Shapes /\ s2 \in Shapes
  BY <1>1, <1>2, StacksStep
<1>4. Raised(c[a].op, s0, s1)
  BY <1>1, StacksStep
<1>5. Raised(c[a + 1].op, s1, s2)
  BY <1>2, StacksStep
<1>6. Raised(c[b].op, s2, s3)
  BY <1>1, <1>2, StacksStep
<1>7. c[a].op = "PUSH_SCOPE" /\ Natural(s0)
  BY DEF TakenBranch
<1> HIDE DEF s0, s1, s2, s3
<1>8. Inner(s0, s1)
  BY <1>3, <1>4, <1>7 DEF Raised, Change, Inner, Shapes
<1>9. CASE c[a + 1].op = "JUMP_IF_FALSE" /\ j = b
  <2>1. s2 = s1
    <3>1. s2.scopes = s1.scopes /\ s2.dots = s1.dots /\ s2.ranges = s1.ranges
      BY <1>3, <1>5, <1>9 DEF Raised, Change, Shapes
    <3> QED
      BY <1>3, <3>1, ShapesEqual
  <2>2. Inner(s0, s2) /\ Above(s2, s0) /\ s2.ranges = s0.ranges
    BY <1>3, <1>8, <2>1 DEF Inner, Above, Shapes
  <2> QED
    BY <1>1, <1>8, <1>9, <2>2 DEF s0, s1, s2
<1>10. CASE c[a + 1].op = "ENTER_WITH" /\ c[b].op = "EXIT_WITH" /\ j = b + 1
  <2>1. s2.scopes = s0.scopes + 1 /\ s2.dots = s0.dots + 1 /\ s2.ranges = s0.ranges
    BY <1>3, <1>5, <1>8, <1>10 DEF Raised, Change, Shapes, Inner
  <2>2. s0.scopes \in Int /\ s0.dots \in Int /\ s0.ranges \in Int
    BY <1>3 DEF Shapes
  <2>3. Above(s2, s0) /\ s2.dots > 0
    BY <1>7, <2>1, <2>2 DEF Above, Natural
  <2>4. Inner(s0, s3)
    BY <1>6, <1>10, <2>1, <2>2 DEF Raised, Change, Inner
  <2> QED
    BY <1>1, <1>8, <1>10, <2>1, <2>3, <2>4 DEF s0, s1, s2, s3
<1> QED
  BY <1>9, <1>10 DEF TakenBranch

\* The test jumps to where the construct has left its body.
LEMMA TakenPart ==
    ASSUME NEW c, NEW a, NEW b, NEW j, NEW brk, NEW cnt, TakenBranch(c, a, b, j, brk, cnt),
           NEW hi \in Nat, j <= hi, c[a + 1].target \in a + 1 .. hi,
           Inner(Stacks(c, a), Stacks(c, c[a + 1].target))
    PROVE  Part(c, a, j, Stacks(c, a), a, hi, brk, cnt)
<1> DEFINE s0 == Stacks(c, a)
           t  == c[a + 1].target
<1>1. /\ a \in Nat \ {0} /\ b \in Nat /\ j \in Nat /\ a + 2 <= b /\ b <= j
      /\ Inner(s0, Stacks(c, a + 1))
      /\ Above(Stacks(c, a + 2), s0) /\ Stacks(c, a + 2).ranges = s0.ranges
      /\ j # b => Above(Stacks(c, b), s0) /\ Stacks(c, b).dots > 0
  BY TakenStacks
<1>2. /\ c[a].op = "PUSH_SCOPE" /\ c[a + 1].op \in {"JUMP_IF_FALSE", "ENTER_WITH"}
      /\ Segment(c, a + 2, b, brk, cnt)
      /\ j = b \/ (c[b].op = "EXIT_WITH" /\ j = b + 1 /\ j # b)
  BY <1>1 DEF TakenBranch
<1>3. /\ a + 1 \in Nat \ {0} /\ t \in Nat \ {0} /\ t \in a .. hi
      /\ s0 \in Shapes /\ Stacks(c, a + 1) \in Shapes /\ b <= hi
  BY <1>1, StacksStep
<1>4. Stacks(c, t) = Stacks(c, a + 1)
  BY <1>1, <1>3, InnerAlike
<1>5. Part(c, a, a + 1, s0, a, hi, {}, {})
  <2>1. Above(s0, s0) /\ EdgesFit(c, a, a, hi)
    BY <1>2, <1>3 DEF Above, Shapes, EdgesFit, HasOperands, JumpOps
  <2> QED
    BY <1>1, <2>1, OnePart
<1>6. Part(c, a + 1, a + 2, s0, a, hi, {}, {})
  <2>1. Above(Stacks(c, a + 1), s0)
    BY <1>1, <1>3 DEF Inner, Above, Shapes
  <2>2. Serves(Jumping(c[a + 1].op, Stacks(c, a + 1)), Stacks(c, t))
    BY <1>2, <1>3, <1>4 DEF Serves, Jumping, Shapes
  <2>3. EdgesFit(c, a + 1, a, hi)
    BY <1>2, <1>3, <2>2 DEF EdgesFit, HasOperands
  <2>4. Part(c, a + 1, (a + 1) + 1, s0, a, hi, {}, {})
    BY <1>1, <2>1, <2>3, OnePart
  <2> QED
    BY <1>1, <2>4
<1>7. Part(c, a + 2, b, s0, a, hi, brk, cnt)
  BY <1>1, <1>2, <1>3, SegmentInside
<1>8. Part(c, a, b, s0, a, hi, brk, cnt)
  <2>1. Part(c, a, a + 2, s0, a, hi, {} \union {}, {} \union {})
    BY <1>1, <1>5, <1>6, PartJoined
  <2>2. Part(c, a, b, s0, a, hi, ({} \union {}) \union brk, ({} \union {}) \union cnt)
    BY <1>1, <1>7, <2>1, PartJoined
  <2> QED
    BY <2>2
<1>9. CASE j = b
  BY <1>8, <1>9
<1>10. CASE j # b
  <2>1. EdgesFit(c, b, a, hi)
    BY <1>1, <1>2, <1>10 DEF EdgesFit, HasOperands, JumpOps
  <2>2. Part(c, b, b + 1, s0, a, hi, {}, {})
    BY <1>1, <1>10, <2>1, OnePart
  <2>3. Part(c, a, b + 1, s0, a, hi, brk \union {}, cnt \union {})
    BY <1>1, <1>8, <2>2, PartJoined
  <2> QED
    BY <1>2, <1>10, <2>3
<1> QED
  BY <1>9, <1>10

\* The last instruction of a construct, which closes its scope.
LEMMA ScopeClosed ==
    ASSUME NEW c, NEW a \in Nat \ {0}, NEW z \in Nat, a <= z, Natural(Stacks(c, a)),
           Inner(Stacks(c, a), Stacks(c, z)), c[z].op = "POP_SCOPE",
           NEW brk, NEW cnt, Part(c, a, z, Stacks(c, a), a, z + 1, brk, cnt)
    PROVE  Segment(c, a, z + 1, brk, cnt)
<1>1. /\ Stacks(c, a) \in Shapes /\ Stacks(c, z) \in Shapes /\ Stacks(c, z + 1) \in Shapes
      /\ Raised(c[z].op, Stacks(c, z), Stacks(c, z + 1))
  BY StacksStep
<1>2. Stacks(c, z + 1) = Stacks(c, a)
  BY <1>1, ShapesEqual DEF Raised, Change, Inner, Shapes
<1>3. Above(Stacks(c, z), Stacks(c, a))
  BY <1>1 DEF Inner, Above, Shapes
<1>4. EdgesFit(c, z, a, z + 1)
  BY <1>1 DEF EdgesFit, HasOperands, JumpOps, Inner, Natural, Shapes
<1>5. Part(c, z, z + 1, Stacks(c, a), a, z + 1, {}, {})
  BY <1>3, <1>4, OnePart
<1>6. Part(c, a, z + 1, Stacks(c, a), a, z + 1, brk \union {}, cnt \union {})
  BY <1>5, PartJoined
<1> QED
  BY <1>2, <1>6 DEF Segment

LEMMA BranchSegment ==
    ASSUME NEW c, NEW a, NEW b, NEW j, NEW brk, NEW cnt, TakenBranch(c, a, b, j, brk, cnt),
           c[a + 1].target = j, c[j].op = "POP_SCOPE"
    PROVE  Segment(c, a, j + 1, brk, cnt)
<1>1. /\ a \in Nat \ {0} /\ b \in Nat /\ j \in Nat /\ a + 2 <= b /\ b <= j
      /\ Inner(Stacks(c, a), Stacks(c, j)) /\ Natural(Stacks(c, a))
  BY TakenStacks DEF TakenBranch
<1>2. j + 1 \in Nat /\ j \in a + 1 .. j + 1 /\ j <= j + 1 /\ a <= j
  BY <1>1
<1>3. Part(c, a, j, Stacks(c, a), a, j + 1, brk, cnt)
  BY <1>1, <1>2, TakenPart
<1> QED
  BY <1>1, <1>2, <1>3, ScopeClosed

LEMMA BranchElseSegment ==
    ASSUME NEW c, NEW a, NEW b, NEW j, NEW z, NEW k1, NEW n1, NEW k2, NEW n2,
           TakenBranch(c, a, b, j, k1, n1), c[a + 1].target = j + 1,
           c[j].op = "JUMP", c[j].target = z,
           Segment(c, j + 1, z, k2, n2), c[z].op = "POP_SCOPE"
    PROVE  Segment(c, a, z + 1, k1 \union k2, n1 \union n2)
<1>1. /\ a \in Nat \ {0} /\ b \in Nat /\ j \in Nat \ {0} /\ a + 2 <= b /\ b <= j
      /\ Inner(Stacks(c, a), Stacks(c, j)) /\ Natural(Stacks(c, a))
  <2>1. /\ a \in Nat \ {0} /\ b \in Nat /\ j \in Nat /\ a + 2 <= b /\ b <= j
        /\ Inner(Stacks(c, a), Stacks(c, j))
    BY TakenStacks
  <2>2. Natural(Stacks(c, a))
    BY DEF TakenBranch
  <2> QED
    BY <2>1, <2>2
<1>2. z \in Nat /\ j + 1 <= z /\ Stacks(c, z) = Stacks(c, j + 1)
  BY DEF Segment
<1>3. Stacks(c, j + 1) = Stacks(c, j)
  BY <1>1, Unmoved DEF StackOps
<1>4. z + 1 \in Nat /\ j + 1 \in a + 1 .. z + 1 /\ j <= z + 1 /\ a <= j /\ a <= z /\ z \in a .. z + 1
  BY <1>1, <1>2
<1>5. Inner(Stacks(c, a), Stacks(c, j + 1)) /\ Inner(Stacks(c, a), Stacks(c, z))
  BY <1>1, <1>2, <1>3
<1>6. Part(c, a, j, Stacks(c, a), a, z + 1, k1, n1)
  BY <1>1, <1>4, <1>5, TakenPart
<1>7. Stacks(c, a) \in Shapes /\ Stacks(c, j) \in Shapes
  BY <1>1, StacksStep
<1>8. Above(Stacks(c, j), Stacks(c, a)) /\ Stacks(c, j).ranges = Stacks(c, a).ranges
  BY <1>1, <1>7 DEF Inner, Above, Shapes
<1>9. Part(c, j, j + 1, Stacks(c, a), a, z + 1, {}, {})
  <2>1. Serves(Jumping(c[j].op, Stacks(c, j)), Stacks(c, z))
    BY <1>2, <1>3, <1>7 DEF Serves, Jumping, Shapes
  <2>2. EdgesFit(c, j, a, z + 1)
    BY <1>4, <2>1 DEF EdgesFit, HasOperands
  <2> QED
    BY <1>1, <1>8, <2>2, OnePart
<1>10. Part(c, j + 1, z, Stacks(c, a), a, z + 1, k2, n2)
  BY <1>1, <1>2, <1>3, <1>4, <1>7, <1>8, SegmentInside
<1>11. Part(c, a, j + 1, Stacks(c, a), a, z + 1, k1 \union {}, n1 \union {})
  BY <1>1, <1>4, <1>6, <1>9, PartJoined
<1>12. Part(c, a, z, Stacks(c, a), a, z + 1, (k1 \union {}) \union k2, (n1 \union {}) \union n2)
  BY <1>1, <1>2, <1>4, <1>10, <1>11, PartJoined
<1>13. Part(c, a, z, Stacks(c, a), a, z + 1, k1 \union k2, n1 \union n2)
  BY <1>12
<1> QED
  BY <1>1, <1>2, <1>4, <1>5, <1>13, ScopeClosed

----------------------------------------------------------------------------
(* range.                                                                  *)

\* Nothing waits any more.
LEMMA PartRebased ==
    ASSUME NEW c, NEW a \in Nat \ {0}, NEW b \in Nat, NEW base \in Shapes, NEW lo, NEW hi,
           Part(c, a, b, base, lo, hi, {}, {}), NEW base2 \in Shapes, Above(base, base2)
    PROVE  Part(c, a, b, base2, lo, hi, {}, {})
<1>1. ASSUME NEW p \in a .. b - 1
      PROVE  Above(Stacks(c, p), base2) /\ EdgesFit(c, p, lo, hi)
  <2>1. Above(Stacks(c, p), base) /\ EdgesFit(c, p, lo, hi)
    BY DEF Part
  <2>2. Stacks(c, p) \in Shapes
    BY StacksStep
  <2> QED
    BY <2>1, <2>2 DEF Above, Shapes
<1> QED
  BY <1>1 DEF Part

\* The code from a to the instruction at n that ends an iteration; once it is
\* patched, z is where the loop and its breaks go on.
Looping(c, a, n, brk, cnt) ==
    /\ a \in Nat \ {0}
    /\ Natural(Stacks(c, a))
    /\ c[a].op = "PUSH_SCOPE" /\ c[a + 1].op = "ITERATE"
    /\ Segment(c, a + 2, n, brk, cnt)
    /\ c[n].op = "NEXT_ITERATION" /\ c[n].body = a + 2

Iteration(c, a, n, z, brk, cnt) ==
    /\ Looping(c, a, n, brk, cnt)
    /\ c[a + 1].target = n + 1
    /\ \A p \in brk : c[p].target = z
    /\ \A p \in cnt : c[p].target = n
    /\ c[n].target = z

\* Inside an iteration there is one more range.
InLoop(a, b) == b.scopes = a.scopes + 1 /\ b.dots = a.dots /\ b.ranges = a.ranges + 1

LEMMA LoopingStacks ==
    ASSUME NEW c, NEW a, NEW n, NEW brk, NEW cnt, Looping(c, a, n, brk, cnt)
    PROVE  /\ a \in Nat \ {0} /\ n \in Nat \ {0} /\ a + 2 <= n
           /\ Inner(Stacks(c, a), Stacks(c, a + 1))
           /\ InLoop(Stacks(c, a), Stacks(c, a + 2))
           /\ Stacks(c, n) = Stacks(c, a + 2)
           /\ Inner(Stacks(c, a), Stacks(c, n + 1))
<1>1. a \in Nat \ {0} /\ n \in Nat /\ a + 2 <= n /\ Stacks(c, n) = Stacks(c, a + 2)
  BY DEF Looping, Segment
<1> DEFINE s0 == Stacks(c, a)
           s1 == Stacks(c, a + 1)
           s2 == Stacks(c, a + 2)
           s3 == Stacks(c, n + 1)
<1>2. a + 1 \in Nat \ {0} /\ (a + 1) + 1 = a + 2 /\ n \in Nat \ {0}
  BY <1>1
<1>3. s0 \in Shapes /\ s1 \in Shapes /\ s2 \in Shapes
  BY <1>1, <1>2, StacksStep
<1>4. Raised(c[a].op, s0, s1)
  BY <1>1, StacksStep
<1>5. Raised(c[a + 1].op, s1, s2)
  BY <1>2, StacksStep
<1>6. Raised(c[n].op, s2, s3)
  BY <1>1, <1>2, StacksStep
<1>7. c[a].op = "PUSH_SCOPE" /\ c[a + 1].op = "ITERATE" /\ c[n].op = "NEXT_ITERATION"
  BY DEF Looping
<1> HIDE DEF s0, s1, s2, s3
<1>8. Inner(s0, s1)
  BY <1>3, <1>4, <1>7 DEF Raised, Change, Inner, Shapes
<1>9. InLoop(s0, s2)
  BY <1>3, <1>5, <1>7, <1>8 DEF Raised, Change, Inner, InLoop, Shapes
<1>10. Inner(s0, s3)
  BY <1>3, <1>6, <1>7, <1>9 DEF Raised, Change, Inner, InLoop, Shapes
<1> QED
  BY <1>1, <1>2, <1>8, <1>9, <1>10 DEF s0, s1, s2, s3

\* A break and a continue fit once their jumps are patched.
LEMMA SiteFits ==
    ASSUME NEW c, NEW a, NEW n, NEW z \in Nat, NEW brk, NEW cnt, Iteration(c, a, n, z, brk, cnt),
           n + 1 <= z, Inner(Stacks(c, a), Stacks(c, z)), NEW p \in brk \union cnt
    PROVE  EdgesFit(c, p, a, z + 1)
<1>1. /\ a \in Nat \ {0} /\ n \in Nat \ {0} /\ a + 2 <= n
      /\ InLoop(Stacks(c, a), Stacks(c, a + 2)) /\ Stacks(c, n) = Stacks(c, a + 2)
  BY LoopingStacks DEF Iteration
<1>2. Part(c, a + 2, n, Stacks(c, a + 2), a + 2, n, brk, cnt)
  BY DEF Iteration, Looping, Segment
<1>3. p \in a + 2 .. n - 1
  BY <1>2 DEF Part
<1>4. Above(Stacks(c, p), Stacks(c, a + 2)) /\ Waits(c, p, Stacks(c, a + 2), brk, cnt)
  BY <1>2, <1>3 DEF Part
<1>5. Stacks(c, p) \in Shapes /\ Stacks(c, a) \in Shapes /\ Natural(Stacks(c, a))
  BY <1>1, <1>3, StacksStep DEF Iteration, Looping
<1>6. CASE p \in brk
  <2>1. c[p].op = "BREAK_RANGE" /\ c[p].target = z /\ z \in a .. z + 1
    BY <1>1, <1>4, <1>6 DEF Waits, Iteration, Looping
  <2>2. Stacks(c, p).ranges = Stacks(c, a).ranges + 1 /\ Stacks(c, p).ranges > 0
    BY <1>1, <1>4, <1>5 DEF Waits, InLoop, Natural, Shapes
  <2>3. Serves(Jumping("BREAK_RANGE", Stacks(c, p)), Stacks(c, z))
    BY <1>1, <1>4, <1>5, <2>2 DEF Serves, Jumping, Above, Inner, InLoop, Shapes
  <2> QED
    BY <2>1, <2>2, <2>3 DEF EdgesFit, HasOperands
<1>7. CASE p \in cnt
  <2>1. c[p].op = "JUMP" /\ c[p].target = n /\ n \in a .. z + 1
    BY <1>1, <1>4, <1>7 DEF Waits, Iteration, Looping
  <2>2. Serves(Jumping("JUMP", Stacks(c, p)), Stacks(c, n))
    BY <1>1, <1>4, <1>5 DEF Serves, Jumping, Above, Waits, Shapes
  <2> QED
    BY <2>1, <2>2 DEF EdgesFit, HasOperands
<1> QED
  BY <1>6, <1>7

LEMMA IterationPart ==
    ASSUME NEW c, NEW a, NEW n, NEW z \in Nat, NEW brk, NEW cnt, Iteration(c, a, n, z, brk, cnt),
           n + 1 <= z, Inner(Stacks(c, a), Stacks(c, z))
    PROVE  Part(c, a, n + 1, Stacks(c, a), a, z + 1, {}, {})
<1> DEFINE s0 == Stacks(c, a)
           s2 == Stacks(c, a + 2)
<1>1. /\ a \in Nat \ {0} /\ n \in Nat \ {0} /\ a + 2 <= n
      /\ Inner(s0, Stacks(c, a + 1))
      /\ InLoop(s0, s2) /\ Stacks(c, n) = s2
      /\ Inner(s0, Stacks(c, n + 1))
  BY LoopingStacks DEF Iteration
<1>2. /\ c[a].op = "PUSH_SCOPE" /\ c[a + 1].op = "ITERATE" /\ c[a + 1].target = n + 1
      /\ Segment(c, a + 2, n, brk, cnt)
      /\ c[n].op = "NEXT_ITERATION" /\ c[n].body = a + 2 /\ c[n].target = z
      /\ Natural(s0)
  BY DEF Iteration, Looping
<1>3. /\ a + 1 \in Nat \ {0} /\ a + 2 \in Nat \ {0} /\ n + 1 \in Nat \ {0} /\ z \in Nat \ {0}
      /\ n + 1 \in a .. z + 1 /\ z \in a .. z + 1 /\ a + 2 \in a .. z + 1
  BY <1>1
<1>4. s0 \in Shapes /\ Stacks(c, a + 1) \in Shapes /\ s2 \in Shapes
  BY <1>1, <1>3, StacksStep
<1>5. Stacks(c, n + 1) = Stacks(c, a + 1)
  BY <1>1, <1>3, InnerAlike
<1>6. Part(c, a, a + 1, s0, a, z + 1, {}, {})
  <2>1. Above(s0, s0) /\ EdgesFit(c, a, a, z + 1)
    BY <1>2, <1>4 DEF Above, Shapes, EdgesFit, HasOperands, JumpOps
  <2> QED
    BY <1>1, <2>1, OnePart
<1>7. Part(c, a + 1, a + 2, s0, a, z + 1, {}, {})
  <2>1. Above(Stacks(c, a + 1), s0)
    BY <1>1, <1>4 DEF Inner, Above, Shapes
  <2>2. Serves(Jumping("ITERATE", Stacks(c, a + 1)), Stacks(c, n + 1))
    BY <1>4, <1>5 DEF Serves, Jumping, Shapes
  <2>3. EdgesFit(c, a + 1, a, z + 1)
    BY <1>2, <1>3, <2>2 DEF EdgesFit, HasOperands
  <2>4. Part(c, a + 1, (a + 1) + 1, s0, a, z + 1, {}, {})
    BY <1>1, <2>1, <2>3, OnePart
  <2> QED
    BY <1>1, <2>4
<1>8. Part(c, a + 2, n, s0, a, z + 1, {}, {})
  <2>1. Above(s2, s2) /\ Above(s2, s0)
    BY <1>1, <1>4 DEF Above, InLoop, Shapes
  <2>2. Part(c, a + 2, n, s2, a, z + 1, brk, cnt)
    BY <1>1, <1>2, <1>4, <2>1, SegmentInside
  <2>3. Part(c, a + 2, n, s2, a, z + 1, {}, {})
    BY <2>2, SiteFits, PartPatched
  <2> QED
    BY <1>1, <1>3, <1>4, <2>1, <2>3, PartRebased
<1>9. Part(c, n, n + 1, s0, a, z + 1, {}, {})
  <2>1. Above(Stacks(c, n), s0) /\ s2.ranges > 0
    BY <1>1, <1>2, <1>4 DEF Above, InLoop, Natural, Shapes
  <2>2. Serves(Jumping("NEXT_ITERATION", s2), Stacks(c, z)) /\ Serves(s2, s2)
    BY <1>1, <1>4 DEF Serves, Jumping, Inner, InLoop, Shapes
  <2>3. EdgesFit(c, n, a, z + 1)
    BY <1>1, <1>2, <1>3, <2>1, <2>2 DEF EdgesFit, HasOperands
  <2> QED
    BY <1>1, <2>1, <2>3, OnePart
<1>10. Part(c, a, a + 2, s0, a, z + 1, {} \union {}, {} \union {})
  BY <1>1, <1>6, <1>7, PartJoined
<1>11. Part(c, a, a + 2, s0, a, z + 1, {}, {})
  BY <1>10
<1>12. Part(c, a, n, s0, a, z + 1, {} \union {}, {} \union {})
  BY <1>1, <1>8, <1>11, PartJoined
<1>13. Part(c, a, n, s0, a, z + 1, {}, {})
  BY <1>12
<1>14. Part(c, a, n + 1, s0, a, z + 1, {} \union {}, {} \union {})
  BY <1>1, <1>9, <1>13, PartJoined
<1> QED
  BY <1>14

LEMMA RangeSegment ==
    ASSUME NEW c, NEW a, NEW n, NEW z, NEW brk, NEW cnt, Iteration(c, a, n, z, brk, cnt),
           NEW k2, NEW n2, Segment(c, n + 1, z, k2, n2), c[z].op = "POP_SCOPE"
    PROVE  Segment(c, a, z + 1, k2, n2)
<1>1. /\ a \in Nat \ {0} /\ n \in Nat \ {0} /\ a + 2 <= n /\ Inner(Stacks(c, a), Stacks(c, n + 1))
  BY LoopingStacks DEF Iteration
<1>2. z \in Nat /\ n + 1 <= z /\ Stacks(c, z) = Stacks(c, n + 1) /\ Natural(Stacks(c, a))
  BY DEF Segment, Iteration, Looping
<1>3. Inner(Stacks(c, a), Stacks(c, z))
  BY <1>1, <1>2
<1>4. Part(c, a, n + 1, Stacks(c, a), a, z + 1, {}, {})
  BY <1>2, <1>3, IterationPart
<1>5. Stacks(c, a) \in Shapes /\ Stacks(c, n + 1) \in Shapes
  BY <1>1, StacksStep
<1>6. Above(Stacks(c, n + 1), Stacks(c, a)) /\ Stacks(c, n + 1).ranges = Stacks(c, a).ranges
  BY <1>1, <1>5 DEF Inner, Above, Shapes
<1>7. Part(c, n + 1, z, Stacks(c, a), a, z + 1, k2, n2)
  BY <1>1, <1>2, <1>5, <1>6, SegmentInside
<1>8. Part(c, a, z, Stacks(c, a), a, z + 1, {} \union k2, {} \union n2)
  BY <1>1, <1>2, <1>4, <1>7, PartJoined
<1>9. Part(c, a, z, Stacks(c, a), a, z + 1, k2, n2)
  BY <1>8
<1> QED
  BY <1>1, <1>2, <1>3, <1>9, ScopeClosed

\* A program that is one segment passes the verification.
LEMMA SegmentVerified ==
    ASSUME NEW c, Len(c) \in Nat, Segment(c, 1, Len(c) + 1, {}, {})
    PROVE  Verified(c, StackMap(c))
<1> DEFINE n   == Len(c)
           map == StackMap(c)
<1> HIDE DEF n
<1>1. map = [p \in 1 .. n + 1 |-> Stacks(c, p)]
  BY DEF StackMap, Stacks, n
<1> HIDE DEF map
<1>2. n \in Nat /\ \A p \in 1 .. n + 1 : map[p] = Stacks(c, p)
  BY <1>1 DEF n
<1>3. Stacks(c, 1) = Shape(0, 0, 0) /\ Stacks(c, n + 1) = Shape(0, 0, 0)
  BY StacksStart DEF Segment, n
<1>4. \A p \in 1 .. n : Above(Stacks(c, p), Shape(0, 0, 0)) /\ EdgesFit(c, p, 1, n + 1)
  <2>1. Part(c, 1, n + 1, Shape(0, 0, 0), 1, n + 1, {}, {})
    BY <1>3 DEF Segment, n
  <2>2. \A p \in 1 .. n : p \in 1 .. (n + 1) - 1
    BY <1>2
  <2> QED
    BY <2>1, <2>2 DEF Part
<1>5. ASSUME NEW p \in 1 .. n + 1
      PROVE  Stacks(c, p) \in [scopes : Nat, dots : Nat, ranges : Nat]
  <2>1. CASE p = n + 1
    BY <1>3, <2>1 DEF Shape
  <2>2. CASE p \in 1 .. n
    <3>1. Stacks(c, p) \in Shapes
      BY <2>2, StacksStep
    <3>2. Stacks(c, p).scopes >= 0 /\ Stacks(c, p).dots >= 0 /\ Stacks(c, p).ranges >= 0
      BY <1>4, <2>2 DEF Above, Shape
    <3> QED
      BY <3>1, <3>2 DEF Shapes
  <2> QED
    BY <1>2, <2>1, <2>2
<1>6. map \in [1 .. n + 1 -> [scopes : Nat, dots : Nat, ranges : Nat]]
  BY <1>1, <1>5
<1>7. map[1] = Shape(0, 0, 0)
  BY <1>2, <1>3
<1>8. ASSUME NEW p \in 1 .. n
      PROVE  LET i == c[p] IN
             /\ HasOperands(i.op, map[p])
             /\ i.op \notin NoFallThroughOps => Serves(FallThrough(i.op, map[p]), map[p + 1])
             /\ i.op \in JumpOps =>
                   /\ i.target \in 1 .. n + 1
                   /\ Serves(Jumping(i.op, map[p]), map[i.target])
             /\ i.op = "NEXT_ITERATION" =>
                   /\ i.body \in 1 .. n + 1
                   /\ Serves(map[p], map[i.body])
  <2>1. p \in Nat \ {0} /\ p \in 1 .. n + 1 /\ p + 1 \in 1 .. n + 1
    BY <1>2
  <2>2. map[p] = Stacks(c, p) /\ map[p + 1] = Stacks(c, p + 1)
    BY <1>2, <2>1
  <2>3. EdgesFit(c, p, 1, n + 1)
    BY <1>4
  <2>4. /\ HasOperands(c[p].op, map[p])
        /\ c[p].op \in JumpOps =>
              c[p].target \in 1 .. n + 1 /\ Serves(Jumping(c[p].op, map[p]), map[c[p].target])
        /\ c[p].op = "NEXT_ITERATION" =>
              c[p].body \in 1 .. n + 1 /\ Serves(map[p], map[c[p].body])
    BY <1>2, <2>2, <2>3 DEF EdgesFit
  <2>5. Stacks(c, p) \in Shapes /\ Raised(c[p].op, Stacks(c, p), Stacks(c, p + 1))
    BY <2>1, StacksStep
  <2>6. c[p].op \notin NoFallThroughOps => Serves(FallThrough(c[p].op, map[p]), map[p + 1])
    <3> DEFINE op == c[p].op
               x == Stacks(c, p)
               y == Stacks(c, p + 1)
    <3>1. x \in Shapes /\ Raised(op, x, y)
      BY <2>5
    <3> HIDE DEF op, x, y
    <3>2. op \notin NoFallThroughOps => Serves(FallThrough(op, x), y)
      BY <3>1 DEF Raised, Change, Serves, FallThrough, NoFallThroughOps, Shapes
    <3> QED
      BY <2>2, <3>2 DEF op, x, y
  <2> QED
    BY <2>4, <2>6
<1> QED
  BY <1>2, <1>6, <1>7, <1>8 DEF Verified, n, map

----------------------------------------------------------------------------
(* The steps of the compiler.                                              *)

Contexts == [breaks : SUBSET Nat, continues : SUBSET Nat]

\* t is s with an instruction more.
Emits(s, t, i) ==
    /\ t \in CompilerStates
    /\ t.loops = s.loops /\ t.failed = s.failed
    /\ Len(s.code) \in Nat /\ Len(t.code) = Len(s.code) + 1
    /\ \A k \in 1 .. Len(s.code) : t.code[k] = s.code[k]
    /\ t.code[Len(s.code) + 1] = i

\* t is s with its jumps at sites going to position z.
Patches(s, t, sites, z) ==
    /\ t \in CompilerStates
    /\ t.loops = s.loops /\ t.failed = s.failed
    /\ Len(s.code) \in Nat /\ Len(t.code) = Len(s.code)
    /\ \A k \in 1 .. Len(s.code) :
          /\ t.code[k].op = s.code[k].op /\ t.code[k].body = s.code[k].body
          /\ k \in sites => t.code[k].target = z
          /\ k \notin sites => t.code[k] = s.code[k]

LEMMA CodeTyped ==
    ASSUME NEW s \in CompilerStates
    PROVE  /\ s.code \in Seq(CompiledInstructions) /\ Len(s.code) \in Nat
           /\ DOMAIN s.code = 1 .. Len(s.code)
           /\ s.loops \in Seq(Contexts) /\ Len(s.loops) \in Nat /\ s.failed \in BOOLEAN
           /\ \A k \in 1 .. Len(s.code) : s.code[k] \in CompiledInstructions
           /\ s = [code |-> s.code, loops |-> s.loops, failed |-> s.failed]
<1>1. /\ s.code \in Seq(CompiledInstructions) /\ s.loops \in Seq(Contexts) /\ s.failed \in BOOLEAN
      /\ s = [code |-> s.code, loops |-> s.loops, failed |-> s.failed]
  BY DEF CompilerStates, Contexts
<1> DEFINE c == s.code
           l == s.loops
<1>2. c \in Seq(CompiledInstructions) /\ l \in Seq(Contexts)
  BY <1>1
<1> HIDE DEF c, l
<1>3. Len(c) \in Nat /\ DOMAIN c = 1 .. Len(c) /\ Len(l) \in Nat
  BY <1>2, LenProperties
<1>4. \A k \in 1 .. Len(c) : c[k] \in CompiledInstructions
  BY <1>2, ElementOfSeq
<1> QED
  BY <1>1, <1>3, <1>4 DEF c, l

LEMMA StateTyped ==
    ASSUME NEW c \in Seq(CompiledInstructions), NEW l \in Seq(Contexts), NEW f \in BOOLEAN
    PROVE  [code |-> c, loops |-> l, failed |-> f] \in CompilerStates
BY DEF CompilerStates, Contexts

LEMMA NoPipelineTyped == NoPipeline \in CompiledPipelines
<1>1. <<>> \in Seq(Strings) /\ "none" \in Strings
  BY DEF Strings
<1> QED
  BY <1>1 DEF NoPipeline, Pipeline, CompiledPipelines

LEMMA InstructionTyped ==
    ASSUME NEW op \in OpCodes, NEW pipe \in CompiledPipelines, NEW t \in Nat, NEW b \in Nat,
           NEW name \in Strings
    PROVE  /\ Instruction(op, pipe, t, b, name) \in CompiledInstructions
           /\ Instruction(op, pipe, t, b, name).op = op
           /\ Instruction(op, pipe, t, b, name).target = t
           /\ Instruction(op, pipe, t, b, name).body = b
BY DEF Instruction, CompiledInstructions

LEMMA PlainTyped ==
    ASSUME NEW op \in OpCodes
    PROVE  Plain(op) \in CompiledInstructions /\ Plain(op).op = op
<1> DEFINE name == ""
<1>1. name \in Strings
  BY DEF Strings
<1>2. Plain(op) = Instruction(op, NoPipeline, 0, 0, name)
  BY DEF Plain
<1> HIDE DEF name
<1>3. /\ Instruction(op, NoPipeline, 0, 0, name) \in CompiledInstructions
      /\ Instruction(op, NoPipeline, 0, 0, name).op = op
  BY <1>1, NoPipelineTyped, InstructionTyped
<1> QED
  BY <1>2, <1>3

LEMMA StateChanged ==
    ASSUME NEW s, NEW c, NEW l, NEW f, s = [code |-> c, loops |-> l, failed |-> f]
    PROVE  /\ \A i : Emit(s, i) = [code |-> Append(c, i), loops |-> l, failed |-> f]
           /\ \A sites, z : Patch(s, sites, z) =
                [code |-> [k \in DOMAIN c |-> IF k \in sites THEN [c[k] EXCEPT !.target = z] ELSE c[k]],
                 loops |-> l, failed |-> f]
           /\ \A e : [s EXCEPT !.code = e] = [code |-> e, loops |-> l, failed |-> f]
           /\ \A e : [s EXCEPT !.loops = e] = [code |-> c, loops |-> e, failed |-> f]
           /\ \A e : [s EXCEPT !.failed = e] = [code |-> c, loops |-> l, failed |-> e]
BY DEF Emit, Patch

LEMMA Emitted ==
    ASSUME NEW s \in CompilerStates, NEW i \in CompiledInstructions
    PROVE  Emits(s, Emit(s, i), i)
<1> DEFINE c == s.code
           e == Append(c, i)
           t == Emit(s, i)
<1>1. /\ c \in Seq(CompiledInstructions) /\ Len(c) \in Nat /\ s.loops \in Seq(Contexts) /\ s.failed \in BOOLEAN
      /\ s = [code |-> c, loops |-> s.loops, failed |-> s.failed]
  BY CodeTyped
<1> HIDE DEF c
<1>2. t = [code |-> e, loops |-> s.loops, failed |-> s.failed]
  BY <1>1, StateChanged
<1>3. /\ e \in Seq(CompiledInstructions) /\ Len(e) = Len(c) + 1
      /\ \A k \in 1 .. Len(c) : e[k] = c[k]
      /\ e[Len(c) + 1] = i
  BY <1>1, AppendProperties
<1> HIDE DEF e, t
<1>4. t \in CompilerStates
  BY <1>1, <1>2, <1>3, StateTyped
<1>5. t.code = e /\ t.loops = s.loops /\ t.failed = s.failed
  BY <1>2
<1> QED
  BY <1>1, <1>3, <1>4, <1>5 DEF Emits, c, t

LEMMA Patched ==
    ASSUME NEW s \in CompilerStates, NEW sites, NEW z \in Nat
    PROVE  Patches(s, Patch(s, sites, z), sites, z)
<1> DEFINE c == s.code
           e == [k \in 1 .. Len(c) |-> IF k \in sites THEN [c[k] EXCEPT !.target = z] ELSE c[k]]
           t == Patch(s, sites, z)
<1>1. /\ c \in Seq(CompiledInstructions) /\ Len(c) \in Nat /\ DOMAIN c = 1 .. Len(c)
      /\ s.loops \in Seq(Contexts) /\ s.failed \in BOOLEAN
      /\ \A k \in 1 .. Len(c) : c[k] \in CompiledInstructions
      /\ s = [code |-> c, loops |-> s.loops, failed |-> s.failed]
  BY CodeTyped
<1> HIDE DEF c
<1>2. t = [code |-> e, loops |-> s.loops, failed |-> s.failed]
  BY <1>1, StateChanged
<1> HIDE DEF t
<1>3. ASSUME NEW x \in CompiledInstructions
      PROVE  /\ [x EXCEPT !.target = z] \in CompiledInstructions
             /\ [x EXCEPT !.target = z].op = x.op /\ [x EXCEPT !.target = z].body = x.body
             /\ [x EXCEPT !.target = z].target = z
  BY DEF CompiledInstructions
<1>4. \A k \in 1 .. Len(c) :
        /\ e[k] \in CompiledInstructions
        /\ e[k].op = c[k].op /\ e[k].body = c[k].body
        /\ k \in sites => e[k].target = z
        /\ k \notin sites => e[k] = c[k]
  BY <1>1, <1>3
<1>5. e \in [1 .. Len(c) -> CompiledInstructions]
  BY <1>4
<1> HIDE DEF e
<1>6. e \in Seq(CompiledInstructions) /\ Len(e) = Len(c)
  <2>1. e \in Seq(CompiledInstructions)
    BY <1>1, <1>5, SeqDef
  <2>2. DOMAIN e = 1 .. Len(c)
    BY <1>5
  <2> QED
    BY <1>1, <2>1, <2>2, LenProperties
<1>7. t \in CompilerStates
  BY <1>1, <1>2, <1>6, StateTyped
<1>8. t.code = e /\ t.loops = s.loops /\ t.failed = s.failed
  BY <1>2
<1> QED
  BY <1>1, <1>4, <1>6, <1>7, <1>8 DEF Patches, c, t

----------------------------------------------------------------------------
(* What emitting a node does to the compiler: the code grows by a segment   *)
(* whose sites are recorded in the innermost loop.                          *)

Collected(old, new, brk, cnt) ==
    LET d == Len(old) IN
    /\ d = 0 => brk = {} /\ cnt = {}
    /\ \A i \in 1 .. d - 1 : new[i] = old[i]
    /\ d > 0 => /\ new[d].breaks = old[d].breaks \union brk
                /\ new[d].continues = old[d].continues \union cnt

Advances(s, r, brk, cnt) ==
    /\ Len(s.code) <= Len(r.code)
    /\ \A k \in 1 .. Len(s.code) : r.code[k] = s.code[k]
    /\ Segment(r.code, Len(s.code) + 1, Len(r.code) + 1, brk, cnt)
    /\ Collected(s.loops, r.loops, brk, cnt)

Grown(s, r) ==
    /\ r \in CompilerStates
    /\ Len(r.loops) = Len(s.loops)
    /\ ~r.failed => \E brk, cnt : Advances(s, r, brk, cnt)

\* A state in which the compiler may go on.
Ready(s) ==
    /\ s \in CompilerStates
    /\ ~s.failed
    /\ Natural(Stacks(s.code, Len(s.code) + 1))

\* emit does so for the nodes in N.
Lowers(emit, N) == \A n \in N, s \in CompilerStates : Ready(s) => Grown(s, emit[n][s])

LEMMA SegmentSites ==
    ASSUME NEW c, NEW a, NEW b, NEW brk, NEW cnt, Segment(c, a, b, brk, cnt)
    PROVE  /\ brk \subseteq a .. b - 1 /\ cnt \subseteq a .. b - 1
           /\ a \in Nat \ {0} /\ b \in Nat /\ a <= b
BY DEF Segment, Part

LEMMA GrownReady ==
    ASSUME NEW s, Ready(s), NEW r, Grown(s, r), ~r.failed
    PROVE  Ready(r)
<1>1. PICK brk, cnt : Advances(s, r, brk, cnt)
  BY DEF Grown
<1> DEFINE n == Len(s.code)
<1>2. n \in Nat /\ r \in CompilerStates
  BY CodeTyped DEF Ready, Grown
<1>3. Stacks(r.code, Len(r.code) + 1) = Stacks(r.code, n + 1)
  BY <1>1 DEF Advances, Segment
<1>4. SameOps(s.code, r.code, n)
  BY <1>1 DEF Advances, SameOps
<1>5. Stacks(s.code, n + 1) = Stacks(r.code, n + 1)
  BY <1>2, <1>4, StacksAgree
<1>6. Natural(Stacks(s.code, n + 1))
  BY DEF Ready
<1> QED
  BY <1>2, <1>3, <1>5, <1>6 DEF Ready

LEMMA CollectedOn ==
    ASSUME NEW l, NEW m, NEW n, Len(l) \in Nat, Len(m) = Len(l), Len(n) = Len(l),
           NEW k1, NEW n1, NEW k2, NEW n2, Collected(l, m, k1, n1), Collected(m, n, k2, n2)
    PROVE  Collected(l, n, k1 \union k2, n1 \union n2)
<1> DEFINE d == Len(l)
<1>1. /\ d = 0 => k1 = {} /\ n1 = {} /\ k2 = {} /\ n2 = {}
      /\ \A i \in 1 .. d - 1 : n[i] = l[i]
  BY DEF Collected
<1>2. d > 0 => /\ n[d].breaks = (l[d].breaks \union k1) \union k2
               /\ n[d].continues = (l[d].continues \union n1) \union n2
  BY DEF Collected
<1> QED
  BY <1>1, <1>2 DEF Collected

LEMMA GrownOn ==
    ASSUME NEW s, Ready(s), NEW r, Grown(s, r), ~r.failed, NEW t, Grown(r, t)
    PROVE  Grown(s, t)
<1>1. t \in CompilerStates /\ Len(t.loops) = Len(s.loops) /\ r \in CompilerStates /\ s \in CompilerStates
  BY DEF Grown, Ready
<1>2. SUFFICES ASSUME ~t.failed
               PROVE  \E brk, cnt : Advances(s, t, brk, cnt)
  BY <1>1 DEF Grown
<1>3. PICK k1, n1 : Advances(s, r, k1, n1)
  BY DEF Grown
<1>4. PICK k2, n2 : Advances(r, t, k2, n2)
  BY <1>2 DEF Grown
<1> DEFINE l == Len(s.code)
           m == Len(r.code)
           n == Len(t.code)
<1>5. l \in Nat /\ m \in Nat /\ n \in Nat /\ l <= m /\ m <= n
  BY <1>1, <1>3, <1>4, CodeTyped DEF Advances
<1>6. \A k \in 1 .. l : t.code[k] = s.code[k]
  <2>1. (\A k \in 1 .. l : r.code[k] = s.code[k]) /\ (\A k \in 1 .. m : t.code[k] = r.code[k])
    BY <1>3, <1>4 DEF Advances
  <2> HIDE DEF l, m, n
  <2> QED
    BY <1>5, <2>1
<1>7. Segment(t.code, l + 1, m + 1, k1, n1)
  <2>1. Segment(r.code, l + 1, m + 1, k1, n1) /\ \A k \in 1 .. m : t.code[k] = r.code[k]
    BY <1>3, <1>4 DEF Advances
  <2> HIDE DEF l, m, n
  <2>2. SameOps(r.code, t.code, m) /\ \A p \in l + 1 .. (m + 1) - 1 : t.code[p] = r.code[p]
    BY <1>5, <2>1 DEF SameOps
  <2> QED
    BY <1>5, <2>1, <2>2, SegmentCopied
<1>8. Segment(t.code, l + 1, n + 1, k1 \union k2, n1 \union n2)
  BY <1>4, <1>7, SegmentJoined DEF Advances
<1>9. Collected(s.loops, t.loops, k1 \union k2, n1 \union n2)
  <2>1. Len(s.loops) \in Nat /\ Len(r.loops) = Len(s.loops)
    BY <1>1, CodeTyped DEF Grown
  <2> QED
    BY <1>1, <1>3, <1>4, <2>1, CollectedOn DEF Advances
<1>10. l <= n
  BY <1>5
<1>11. Advances(s, t, k1 \union k2, n1 \union n2)
  BY <1>6, <1>8, <1>9, <1>10 DEF Advances
<1> QED
  BY <1>11

LEMMA GrownNothing ==
    ASSUME NEW s, Ready(s)
    PROVE  Grown(s, s)
<1>1. s \in CompilerStates /\ Len(s.code) \in Nat
  BY CodeTyped DEF Ready
<1>2. Segment(s.code, Len(s.code) + 1, Len(s.code) + 1, {}, {})
  BY <1>1, EmptySegment
<1>3. Collected(s.loops, s.loops, {}, {})
  BY DEF Collected
<1>4. Advances(s, s, {}, {})
  BY <1>1, <1>2, <1>3 DEF Advances
<1> QED
  BY <1>1, <1>4 DEF Grown

\* The loop over a list stays in any set that its steps stay in.
LEMMA ListStays ==
    ASSUME NEW emit, NEW nodes, Len(nodes) \in Nat, NEW V, NEW st \in V,
           \A x \in V, k \in 1 .. Len(nodes) : ~x.failed => emit[nodes[k]][x] \in V
    PROVE  EmitList(emit, nodes, st) \in V
<1> DEFINE n == Len(nodes)
           step(k, x) == IF x.failed THEN x ELSE emit[nodes[k]][x]
           g == [k \in 1 .. n |-> [x \in V |-> step(k, x)]]
<1>1. \A x \in V, k \in 1 .. n : step(k, x) \in V
  OBVIOUS
<1> HIDE DEF step
<1>2. g \in [1 .. n -> [V -> V]]
  BY <1>1
<1>3. n \in Nat /\ Deepening!Operates(g, n, V)
  BY <1>2 DEF Deepening!Operates
<1>4. \A k \in 1 .. n, x \in V : g[k][x] = step(k, x)
  OBVIOUS
<1> HIDE DEF g, n
<1>5. PICK f : Deepening!Climbs(f, st, g, n) /\ f \in [0 .. n -> V]
  BY <1>3, Deepening!StepsExist
<1>6. f = [k \in 0 .. n |-> IF k = 0 THEN st ELSE g[k][f[k - 1]]]
  BY <1>5 DEF Deepening!Climbs
<1>7. f = [k \in 0 .. n |-> IF k = 0 THEN st ELSE step(k, f[k - 1])]
  <2>1. ASSUME NEW k \in 0 .. n
        PROVE  f[k] = IF k = 0 THEN st ELSE step(k, f[k - 1])
    <3>1. CASE k = 0
      BY <1>6, <3>1
    <3>2. CASE k # 0
      <4>1. k - 1 \in 0 .. n /\ k \in 1 .. n
        BY <1>3, <3>2
      <4>2. f[k - 1] \in V /\ f[k] = g[k][f[k - 1]]
        BY <1>5, <1>6, <3>2, <4>1
      <4> QED
        BY <1>4, <3>2, <4>1, <4>2
    <3> QED
      BY <3>1, <3>2
  <2> QED
    BY <1>6, <2>1
<1> DEFINE after == CHOOSE h : h = [k \in 0 .. n |-> IF k = 0 THEN st ELSE step(k, h[k - 1])]
<1>8. after = [k \in 0 .. n |-> IF k = 0 THEN st ELSE step(k, after[k - 1])]
  BY <1>7, Zenon
<1>9. EmitList(emit, nodes, st) = after[n]
  BY DEF EmitList, n, step
<1> HIDE DEF after
<1> DEFINE S == {k \in Nat : k <= n => after[k] \in V}
<1>10. 0 \in S
  BY <1>3, <1>8
<1>11. ASSUME NEW k \in Nat, k \in S
       PROVE  k + 1 \in S
  <2>1. SUFFICES ASSUME k + 1 <= n
                 PROVE  after[k + 1] \in V
    OBVIOUS
  <2>2. after[k] \in V /\ k + 1 \in 0 .. n /\ k + 1 \in 1 .. n /\ k + 1 # 0 /\ (k + 1) - 1 = k
    BY <1>3, <1>11, <2>1
  <2>3. after[k + 1] = step(k + 1, after[k])
    BY <1>8, <2>2
  <2> QED
    BY <1>1, <2>2, <2>3 DEF n
<1> HIDE DEF S
<1>12. \A k \in Nat : k \in S
  BY <1>10, <1>11, Deepening!Induct
<1> QED
  BY <1>3, <1>9, <1>12 DEF S

\* After the exception of emit_loop_jump nothing is emitted.
LEMMA ListFailed ==
    ASSUME NEW emit, NEW nodes, Len(nodes) \in Nat, NEW st, st.failed
    PROVE  EmitList(emit, nodes, st) = st
<1>1. st \in {st} /\ \A x \in {st} : x.failed
  OBVIOUS
<1>2. EmitList(emit, nodes, st) \in {st}
  BY <1>1, ListStays
<1> QED
  BY <1>2

LEMMA ListGrown ==
    ASSUME NEW emit, NEW N, Lowers(emit, N), NEW nodes \in Seq(N), NEW s, Ready(s)
    PROVE  Grown(s, EmitList(emit, nodes, s))
<1> DEFINE V == {x \in CompilerStates : Grown(s, x)}
<1>1. s \in V
  BY GrownNothing DEF Ready
<1>2. Len(nodes) \in Nat /\ \A k \in 1 .. Len(nodes) : nodes[k] \in N
  BY LenProperties, ElementOfSeq
<1>3. ASSUME NEW x \in V, NEW k \in 1 .. Len(nodes), ~x.failed
      PROVE  emit[nodes[k]][x] \in V
  <2>1. Grown(s, x) /\ x \in CompilerStates
    OBVIOUS
  <2>2. Ready(x)
    BY <1>3, <2>1, GrownReady
  <2>3. Grown(x, emit[nodes[k]][x])
    BY <1>2, <2>1, <2>2 DEF Lowers
  <2>4. Grown(s, emit[nodes[k]][x])
    BY <1>3, <2>1, <2>3, GrownOn
  <2>5. emit[nodes[k]][x] \in CompilerStates
    BY <2>3 DEF Grown
  <2> QED
    BY <2>4, <2>5
<1> HIDE DEF V
<1>4. EmitList(emit, nodes, s) \in V
  BY <1>1, <1>2, <1>3, ListStays
<1> QED
  BY <1>4 DEF V

----------------------------------------------------------------------------
(* Nodes without nodes inside.                                             *)

\* The first n instructions stay, but for the targets at sites.
Same(c, d, n, sites) ==
    \A k \in 1 .. n :
        /\ d[k].op = c[k].op /\ d[k].body = c[k].body
        /\ k \notin sites => d[k] = c[k]

LEMMA SameOn ==
    ASSUME NEW c, NEW d, NEW e, NEW m \in Nat, NEW n \in Nat, m <= n, NEW S, NEW T,
           Same(c, d, m, S), Same(d, e, n, T)
    PROVE  Same(c, e, m, S \union T)
<1>1. \A k \in 1 .. m : k \in 1 .. n
  OBVIOUS
<1> QED
  BY <1>1 DEF Same

LEMMA EmitsSame ==
    ASSUME NEW s, NEW t, NEW i, Emits(s, t, i)
    PROVE  Same(s.code, t.code, Len(s.code), {})
BY DEF Emits, Same

LEMMA PatchesSame ==
    ASSUME NEW s, NEW t, NEW sites, NEW z, Patches(s, t, sites, z)
    PROVE  Same(s.code, t.code, Len(s.code), sites)
BY DEF Patches, Same

\* Whatever does not take from the stacks leaves the compiler ready.
LEMMA EmitsReady ==
    ASSUME NEW s, Ready(s), NEW t, NEW i, Emits(s, t, i),
           i.op \notin {"POP_SCOPE", "EXIT_WITH", "NEXT_ITERATION"}
    PROVE  Ready(t)
<1> DEFINE n == Len(s.code)
           c == s.code
           d == t.code
<1>1. /\ t \in CompilerStates /\ t.failed = s.failed /\ n \in Nat /\ Len(d) = n + 1
      /\ \A k \in 1 .. n : d[k] = c[k]
      /\ d[n + 1] = i
  BY DEF Emits
<1>2. ~s.failed /\ Natural(Stacks(c, n + 1))
  BY DEF Ready
<1> HIDE DEF n, c, d
<1>3. SameOps(c, d, n)
  BY <1>1 DEF SameOps
<1>4. Stacks(c, n + 1) = Stacks(d, n + 1)
  BY <1>1, <1>3, StacksAgree
<1>5. Stacks(d, n + 1) \in Shapes /\ Raised(i.op, Stacks(d, n + 1), Stacks(d, n + 1 + 1))
  BY <1>1, StacksStep
<1>6. Natural(Stacks(d, n + 1 + 1))
  BY <1>2, <1>4, <1>5 DEF Natural, Raised, Change, Shapes
<1>7. Natural(Stacks(d, Len(d) + 1))
  BY <1>1, <1>6
<1> QED
  BY <1>1, <1>2, <1>7 DEF Ready, d

LEMMA PlainGrown ==
    ASSUME NEW s, Ready(s), NEW i \in CompiledInstructions, i.op \notin StackOps \union JumpOps
    PROVE  Grown(s, Emit(s, i))
<1> DEFINE t == Emit(s, i)
           n == Len(s.code)
<1>1. Emits(s, t, i)
  BY Emitted DEF Ready
<1> HIDE DEF t
<1>2. /\ t \in CompilerStates /\ t.loops = s.loops
      /\ n \in Nat /\ Len(t.code) = n + 1 /\ n + 1 \in Nat \ {0} /\ n <= Len(t.code)
      /\ \A k \in 1 .. n : t.code[k] = s.code[k]
      /\ t.code[n + 1] = i
  BY <1>1 DEF Emits
<1>3. Segment(t.code, n + 1, n + 1 + 1, {}, {})
  BY <1>2, PlainSegment
<1>4. Collected(s.loops, t.loops, {}, {})
  BY <1>2 DEF Collected
<1>5. Advances(s, t, {}, {})
  BY <1>2, <1>3, <1>4 DEF Advances
<1> QED
  BY <1>2, <1>5 DEF Grown, t

\* The site of a break or a continue goes to the innermost loop.
LEMMA SiteRecorded ==
    ASSUME NEW l \in Seq(Contexts), Len(l) # 0, NEW x \in Nat
    PROVE  LET b == [l EXCEPT ![Len(l)].breaks = @ \cup {x}]
               c == [l EXCEPT ![Len(l)].continues = @ \cup {x}]
           IN /\ b \in Seq(Contexts) /\ Len(b) = Len(l) /\ Collected(l, b, {x}, {})
              /\ c \in Seq(Contexts) /\ Len(c) = Len(l) /\ Collected(l, c, {}, {x})
<1> DEFINE d == Len(l)
           u == [l[d] EXCEPT !.breaks = l[d].breaks \cup {x}]
           v == [l[d] EXCEPT !.continues = l[d].continues \cup {x}]
<1>1. d \in Nat \ {0} /\ d \in 1 .. d /\ DOMAIN l = 1 .. d
  BY LenProperties
<1>2. l[d] \in Contexts
  BY <1>1, ElementOfSeq
<1>3. /\ u \in Contexts /\ u.breaks = l[d].breaks \cup {x} /\ u.continues = l[d].continues \cup {}
      /\ v \in Contexts /\ v.breaks = l[d].breaks \cup {} /\ v.continues = l[d].continues \cup {x}
  BY <1>2 DEF Contexts
<1>4. /\ [l EXCEPT ![d].breaks = @ \cup {x}] = [l EXCEPT ![d] = u]
      /\ [l EXCEPT ![d].continues = @ \cup {x}] = [l EXCEPT ![d] = v]
  BY <1>1
<1> HIDE DEF u, v
<1>5. \A w \in Contexts :
        /\ [l EXCEPT ![d] = w] \in Seq(Contexts) /\ Len([l EXCEPT ![d] = w]) = d
        /\ \A i \in 1 .. d : [l EXCEPT ![d] = w][i] = IF i = d THEN w ELSE l[i]
  BY <1>1, ExceptSeq
<1> DEFINE b == [l EXCEPT ![d] = u]
           c == [l EXCEPT ![d] = v]
<1>6. /\ b \in Seq(Contexts) /\ Len(b) = d /\ b[d] = u /\ \A i \in 1 .. d - 1 : b[i] = l[i]
      /\ c \in Seq(Contexts) /\ Len(c) = d /\ c[d] = v /\ \A i \in 1 .. d - 1 : c[i] = l[i]
  <2> HIDE DEF d
  <2>1. /\ b \in Seq(Contexts) /\ Len(b) = d
        /\ \A i \in 1 .. d : b[i] = IF i = d THEN u ELSE l[i]
    BY <1>3, <1>5
  <2>2. /\ c \in Seq(Contexts) /\ Len(c) = d
        /\ \A i \in 1 .. d : c[i] = IF i = d THEN v ELSE l[i]
    BY <1>3, <1>5
  <2>3. d \in 1 .. d /\ \A i \in 1 .. d - 1 : i \in 1 .. d /\ i # d
    BY <1>1
  <2> HIDE DEF b, c
  <2> QED
    BY <2>1, <2>2, <2>3
<1> HIDE DEF b, c
<1>7. Collected(l, b, {x}, {})
  BY <1>1, <1>3, <1>6 DEF Collected
<1>8. Collected(l, c, {}, {x})
  BY <1>1, <1>3, <1>6 DEF Collected
<1> QED
  BY <1>4, <1>6, <1>7, <1>8 DEF b, c

LEMMA LoopJumpGrown ==
    ASSUME NEW s, Ready(s), NEW isBreak \in BOOLEAN
    PROVE  Grown(s, EmitLoopJump(s, isBreak))
<1> DEFINE i == Plain(IF isBreak THEN "BREAK_RANGE" ELSE "JUMP")
           t == Emit(s, i)
           n == Len(s.code)
           r == EmitLoopJump(s, isBreak)
           l == s.loops
<1>1. i \in CompiledInstructions /\ i.op = (IF isBreak THEN "BREAK_RANGE" ELSE "JUMP")
  BY PlainTyped DEF OpCodes
<1>2. Emits(s, t, i)
  BY <1>1, Emitted DEF Ready
<1>3. r = IF Len(l) = 0 THEN [t EXCEPT !.failed = TRUE]
          ELSE IF isBreak THEN [t EXCEPT !.loops[Len(l)].breaks = @ \cup {Len(t.code)}]
          ELSE [t EXCEPT !.loops[Len(l)].continues = @ \cup {Len(t.code)}]
  BY DEF EmitLoopJump
<1> HIDE DEF t, i, r
<1> DEFINE c == t.code
           f == t.failed
           d == Len(l)
           x == {Len(t.code)}
<1>4. /\ t \in CompilerStates /\ t.loops = l /\ ~f
      /\ n \in Nat /\ Len(c) = n + 1 /\ n + 1 \in Nat \ {0} /\ n <= Len(c)
      /\ \A k \in 1 .. n : c[k] = s.code[k]
      /\ c[n + 1] = i
      /\ x = {n + 1}
  BY <1>2 DEF Emits, Ready
<1>5. /\ c \in Seq(CompiledInstructions) /\ l \in Seq(Contexts) /\ d \in Nat
      /\ f \in BOOLEAN /\ t = [code |-> c, loops |-> l, failed |-> f]
  BY <1>4, CodeTyped
<1> DEFINE b == [l EXCEPT ![d].breaks = @ \cup x]
           e == [l EXCEPT ![d].continues = @ \cup x]
<1> HIDE DEF c, l, f, d, x
<1>8. /\ [t EXCEPT !.failed = TRUE] = [code |-> c, loops |-> l, failed |-> TRUE]
      /\ [t EXCEPT !.loops[d].breaks = @ \cup x] = [code |-> c, loops |-> b, failed |-> f]
      /\ [t EXCEPT !.loops[d].continues = @ \cup x] = [code |-> c, loops |-> e, failed |-> f]
  <2>1. f \in BOOLEAN /\ t = [code |-> c, loops |-> l, failed |-> f]
    BY <1>5
  <2>2. [t EXCEPT !.failed = TRUE] = [code |-> c, loops |-> l, failed |-> TRUE]
    <3> DEFINE y == TRUE
    <3>1. y = TRUE
      OBVIOUS
    <3> HIDE DEF y
    <3>2. [t EXCEPT !.failed = y] = [code |-> c, loops |-> l, failed |-> y]
      BY <2>1
    <3> QED
      BY <3>1, <3>2, Zenon
  <2>3. (\A y : [t EXCEPT !.loops = y] = [code |-> c, loops |-> y, failed |-> f]) /\ t.loops = l
    BY <2>1
  <2>4. [t EXCEPT !.loops[d].breaks = @ \cup x]
          = [t EXCEPT !.loops = [t.loops EXCEPT ![d].breaks = @ \cup x]]
    OBVIOUS
  <2>5. [t EXCEPT !.loops[d].continues = @ \cup x]
          = [t EXCEPT !.loops = [t.loops EXCEPT ![d].continues = @ \cup x]]
    OBVIOUS
  <2>6. [t EXCEPT !.loops[d].breaks = @ \cup x] = [code |-> c, loops |-> b, failed |-> f]
    BY <2>3, <2>4
  <2>7. [t EXCEPT !.loops[d].continues = @ \cup x] = [code |-> c, loops |-> e, failed |-> f]
    BY <2>3, <2>5
  <2> QED
    BY <2>2, <2>6, <2>7
<1>9. r = IF d = 0 THEN [t EXCEPT !.failed = TRUE]
          ELSE IF isBreak THEN [t EXCEPT !.loops[d].breaks = @ \cup x]
          ELSE [t EXCEPT !.loops[d].continues = @ \cup x]
  BY <1>3 DEF d, x
<1>10. r = IF d = 0 THEN [code |-> c, loops |-> l, failed |-> TRUE]
           ELSE IF isBreak THEN [code |-> c, loops |-> b, failed |-> f]
           ELSE [code |-> c, loops |-> e, failed |-> f]
  BY <1>8, <1>9, Zenon
<1>6. CASE d = 0
  <2>1. r = [code |-> c, loops |-> l, failed |-> TRUE]
    BY <1>6, <1>10
  <2>2. r \in CompilerStates
    BY <1>5, <2>1, StateTyped
  <2> QED
    BY <2>1, <2>2 DEF Grown, r, l, d
<1>7. CASE d # 0
  <2>1. PICK m, brk, cnt :
          /\ r = [code |-> c, loops |-> m, failed |-> f]
          /\ m \in Seq(Contexts) /\ Len(m) = d /\ Collected(l, m, brk, cnt)
          /\ \/ i.op = "BREAK_RANGE" /\ brk = {n + 1} /\ cnt = {}
             \/ i.op = "JUMP" /\ brk = {} /\ cnt = {n + 1}
    <3>1. /\ b \in Seq(Contexts) /\ Len(b) = d /\ Collected(l, b, x, {})
          /\ e \in Seq(Contexts) /\ Len(e) = d /\ Collected(l, e, {}, x)
      BY <1>4, <1>5, <1>7, SiteRecorded DEF d
    <3> HIDE DEF b, e
    <3>2. CASE isBreak
      <4>1. r = [code |-> c, loops |-> b, failed |-> f] /\ i.op = "BREAK_RANGE"
        BY <1>1, <1>7, <1>10, <3>2
      <4> QED
        BY <1>4, <3>1, <4>1
    <3>3. CASE ~isBreak
      <4>1. r = [code |-> c, loops |-> e, failed |-> f] /\ i.op = "JUMP"
        BY <1>1, <1>7, <1>10, <3>3
      <4> QED
        BY <1>4, <3>1, <4>1
    <3> QED
      BY <3>2, <3>3
  <2>3. r \in CompilerStates /\ r.code = c /\ r.loops = m
    BY <1>5, <2>1, StateTyped
  <2>4. Segment(c, n + 1, n + 1 + 1, brk, cnt)
    BY <1>4, <2>1, WaitingSegment
  <2>5. Advances(s, r, brk, cnt)
    BY <1>4, <2>1, <2>3, <2>4 DEF Advances, l, c
  <2> QED
    BY <2>1, <2>3, <2>5 DEF Grown, r, l, d
<1> QED
  BY <1>6, <1>7

----------------------------------------------------------------------------
(* if and with, as they are emitted.                                       *)

\* The scope and the test of a construct have been emitted.
Started(s, t, op) ==
    /\ Ready(t)
    /\ t.loops = s.loops
    /\ Len(s.code) \in Nat /\ Len(t.code) = Len(s.code) + 2
    /\ \A k \in 1 .. Len(s.code) : t.code[k] = s.code[k]
    /\ t.code[Len(s.code) + 1].op = "PUSH_SCOPE"
    /\ t.code[Len(s.code) + 2].op = op

LEMMA ConstructStarted ==
    ASSUME NEW s, Ready(s), NEW op \in {"JUMP_IF_FALSE", "ENTER_WITH", "ITERATE"},
           NEW pipe \in CompiledPipelines
    PROVE  Started(s, Emit(Emit(s, Plain("PUSH_SCOPE")), Instruction(op, pipe, 0, 0, "")), op)
<1> DEFINE x == Plain("PUSH_SCOPE")
           y == Instruction(op, pipe, 0, 0, "")
           t == Emit(s, x)
           u == Emit(t, y)
           n == Len(s.code)
<1>1. x \in CompiledInstructions /\ x.op = "PUSH_SCOPE"
  BY PlainTyped DEF OpCodes
<1>2. y \in CompiledInstructions /\ y.op = op
  <2> DEFINE name == ""
  <2>1. name \in Strings /\ op \in OpCodes
    BY DEF Strings, OpCodes
  <2>2. y = Instruction(op, pipe, 0, 0, name)
    OBVIOUS
  <2> HIDE DEF name, y
  <2> QED
    BY <2>1, <2>2, InstructionTyped
<1>3. Emits(s, t, x)
  BY <1>1, Emitted DEF Ready
<1> HIDE DEF x, y, t
<1>4. Ready(t)
  BY <1>1, <1>3, EmitsReady
<1>5. Emits(t, u, y)
  BY <1>2, <1>4, Emitted DEF Ready
<1> HIDE DEF u
<1>6. Ready(u)
  BY <1>2, <1>4, <1>5, EmitsReady
<1>7. /\ t.loops = s.loops /\ n \in Nat /\ Len(t.code) = n + 1
      /\ \A k \in 1 .. n : t.code[k] = s.code[k]
      /\ t.code[n + 1] = x
  BY <1>3 DEF Emits
<1> HIDE DEF n
<1>8. /\ u.loops = s.loops /\ Len(u.code) = n + 2
      /\ \A k \in 1 .. n + 1 : u.code[k] = t.code[k]
      /\ u.code[n + 2] = y
  <2>1. n + 1 + 1 = n + 2
    BY <1>7
  <2> QED
    BY <1>5, <1>7, <2>1 DEF Emits
<1>9. (\A k \in 1 .. n : k \in 1 .. n + 1) /\ n + 1 \in 1 .. n + 1
  BY <1>7
<1>10. (\A k \in 1 .. n : u.code[k] = s.code[k]) /\ u.code[n + 1] = x
  BY <1>7, <1>8, <1>9
<1> QED
  BY <1>1, <1>2, <1>6, <1>7, <1>8, <1>10 DEF Started, n, u, t, x, y

\* The taken body has been emitted, and left.
Taken(s, t, b, j, brk, cnt) ==
    /\ t \in CompilerStates
    /\ Len(t.code) + 1 = j
    /\ \A k \in 1 .. Len(s.code) : t.code[k] = s.code[k]
    /\ TakenBranch(t.code, Len(s.code) + 1, b, j, brk, cnt)
    /\ Collected(s.loops, t.loops, brk, cnt)

LEMMA TakenSame ==
    ASSUME NEW c, NEW d, NEW a, NEW b, NEW j, NEW brk, NEW cnt, TakenBranch(c, a, b, j, brk, cnt),
           NEW S, Same(c, d, j - 1, S), \A p \in S : p < a + 2 \/ p >= j
    PROVE  TakenBranch(d, a, b, j, brk, cnt)
<1>1. a \in Nat \ {0} /\ b \in Nat /\ j \in Nat /\ a + 2 <= b /\ b <= j
  BY TakenStacks
<1> DEFINE n == j - 1
<1>2. n \in Nat /\ a \in 1 .. n /\ a + 1 \in 1 .. n /\ b <= n + 1
  BY <1>1
<1>3. SameOps(c, d, n) /\ \A k \in 1 .. n : k \notin S => d[k] = c[k]
  BY DEF Same, SameOps
<1>4. \A p \in a + 2 .. b - 1 : p \in 1 .. n /\ p \notin S
  BY <1>1
<1> HIDE DEF n
<1>5. Segment(c, a + 2, b, brk, cnt)
  BY DEF TakenBranch
<1>6. Segment(d, a + 2, b, brk, cnt)
  BY <1>2, <1>3, <1>4, <1>5, SegmentCopied
<1>7. Stacks(d, a) = Stacks(c, a)
  BY <1>2, <1>3, StacksAgree
<1>8. d[a].op = c[a].op /\ d[a + 1].op = c[a + 1].op
  BY <1>2, <1>3 DEF SameOps
<1>9. j = b + 1 => d[b].op = c[b].op
  <2>1. j = b + 1 => b \in 1 .. n
    BY <1>1 DEF n
  <2> QED
    BY <1>3, <2>1 DEF SameOps
<1> QED
  BY <1>6, <1>7, <1>8, <1>9 DEF TakenBranch

LEMMA BranchTaken ==
    ASSUME NEW s, Ready(s), NEW op, NEW t, Started(s, t, op), NEW u, Grown(t, u), ~u.failed,
           NEW v, NEW i,
           \/ op = "JUMP_IF_FALSE" /\ v = u
           \/ op = "ENTER_WITH" /\ Emits(u, v, i) /\ i.op = "EXIT_WITH"
    PROVE  \E b, j, brk, cnt : Taken(s, v, b, j, brk, cnt)
<1> DEFINE n == Len(s.code)
           a == n + 1
           m == Len(u.code)
           b == m + 1
           j == Len(v.code) + 1
<1>1. PICK brk, cnt : Advances(t, u, brk, cnt)
  BY DEF Grown
<1>2. /\ n \in Nat /\ Len(t.code) = n + 2 /\ t.loops = s.loops
      /\ \A k \in 1 .. n : t.code[k] = s.code[k]
      /\ t.code[n + 1].op = "PUSH_SCOPE" /\ t.code[n + 2].op = op
  BY DEF Started
<1>3. u \in CompilerStates /\ m \in Nat /\ n + 2 <= m /\ s \in CompilerStates
  BY <1>1, <1>2, CodeTyped DEF Grown, Advances, Ready
<1>4. /\ \A k \in 1 .. n + 2 : u.code[k] = t.code[k]
      /\ Segment(u.code, n + 2 + 1, m + 1, brk, cnt)
      /\ Collected(s.loops, u.loops, brk, cnt)
  BY <1>1, <1>2 DEF Advances
<1>5. /\ v \in CompilerStates /\ v.loops = u.loops
      /\ \A k \in 1 .. m : v.code[k] = u.code[k]
      /\ \/ op = "JUMP_IF_FALSE" /\ j = b
         \/ op = "ENTER_WITH" /\ v.code[b].op = "EXIT_WITH" /\ j = b + 1
  <2>1. CASE op = "JUMP_IF_FALSE" /\ v = u
    BY <1>3, <2>1
  <2>2. CASE op = "ENTER_WITH" /\ Emits(u, v, i) /\ i.op = "EXIT_WITH"
    BY <1>3, <2>2 DEF Emits
  <2> QED
    BY <2>1, <2>2
<1>6. Natural(Stacks(s.code, n + 1))
  BY DEF Ready
<1> DEFINE c == v.code
<1> HIDE DEF n, m, j
<1>7. /\ \A k \in 1 .. n : c[k] = s.code[k]
      /\ c[a].op = "PUSH_SCOPE" /\ c[a + 1].op = op
  <2>1. \A k \in 1 .. n + 2 : k \in 1 .. m /\ c[k] = t.code[k]
    BY <1>2, <1>3, <1>4, <1>5
  <2>2. (\A k \in 1 .. n : k \in 1 .. n + 2) /\ n + 1 \in 1 .. n + 2 /\ n + 2 \in 1 .. n + 2 /\ a + 1 = n + 2
    BY <1>2
  <2> QED
    BY <1>2, <2>1, <2>2
<1>8. SameOps(u.code, c, m) /\ \A p \in n + 2 + 1 .. b - 1 : c[p] = u.code[p]
  BY <1>2, <1>3, <1>5 DEF SameOps
<1>9. Segment(c, a + 2, b, brk, cnt)
  <2>1. a + 2 = n + 2 + 1 /\ m + 1 <= m + 1
    BY <1>2, <1>3
  <2> QED
    BY <1>3, <1>4, <1>8, <2>1, SegmentCopied
<1>10. Stacks(c, a) = Stacks(s.code, a)
  <2>1. SameOps(s.code, c, n) /\ a \in 1 .. n + 1
    BY <1>2, <1>7 DEF SameOps
  <2> QED
    BY <1>2, <2>1, StacksAgree
<1>11. TakenBranch(c, a, b, j, brk, cnt)
  <2>1. a \in Nat \ {0}
    BY <1>2
  <2> HIDE DEF a, b
  <2> QED
    BY <1>5, <1>6, <1>7, <1>9, <1>10, <2>1 DEF TakenBranch, a
<1>12. Taken(s, v, b, j, brk, cnt)
  BY <1>4, <1>5, <1>7, <1>11 DEF Taken, n, j
<1> QED
  BY <1>12

LEMMA BranchClosed ==
    ASSUME NEW s, Ready(s), NEW v, NEW b, NEW j, NEW brk, NEW cnt, Taken(s, v, b, j, brk, cnt),
           NEW p, Patches(v, p, {Len(s.code) + 2}, j),
           NEW r, NEW i, Emits(p, r, i), i.op = "POP_SCOPE"
    PROVE  Advances(s, r, brk, cnt)
<1> DEFINE n == Len(s.code)
           a == n + 1
           c == r.code
<1>1. /\ v \in CompilerStates /\ Len(v.code) + 1 = j
      /\ \A k \in 1 .. n : v.code[k] = s.code[k]
      /\ TakenBranch(v.code, a, b, j, brk, cnt)
      /\ Collected(s.loops, v.loops, brk, cnt)
  BY DEF Taken
<1>2. n \in Nat /\ b \in Nat /\ j \in Nat /\ a + 2 <= b /\ b <= j
  BY <1>1, TakenStacks, CodeTyped DEF Ready
<1>3. /\ Len(v.code) = j - 1 /\ Len(p.code) = j - 1 /\ Len(c) = j /\ c[j] = i
      /\ r.loops = v.loops
  <2>1. Len(v.code) = j - 1
    BY <1>1, <1>2, CodeTyped
  <2>2. Len(p.code) = j - 1 /\ p.loops = v.loops
    BY <2>1 DEF Patches
  <2>3. j - 1 + 1 = j
    BY <1>2
  <2> QED
    BY <2>1, <2>2, <2>3 DEF Emits
<1>4. Same(v.code, p.code, j - 1, {n + 2}) /\ Same(p.code, c, j - 1, {})
  BY <1>3, PatchesSame, EmitsSame
<1> HIDE DEF n, c
<1>5. Same(v.code, c, j - 1, {n + 2})
  <2>1. j - 1 \in Nat /\ j - 1 <= j - 1 /\ {n + 2} \union {} = {n + 2}
    BY <1>2
  <2> QED
    BY <1>4, <2>1, SameOn
<1>6. TakenBranch(c, a, b, j, brk, cnt)
  <2>1. \A q \in {n + 2} : q < a + 2 \/ q >= j
    BY <1>2
  <2> QED
    BY <1>1, <1>5, <2>1, TakenSame
<1>7. c[a + 1].target = j
  <2>1. n + 2 \in 1 .. j - 1 /\ a + 1 = n + 2
    BY <1>2
  <2>2. p.code[n + 2].target = j
    BY <1>3, <2>1 DEF Patches, n
  <2>3. c[n + 2] = p.code[n + 2]
    BY <1>4, <2>1 DEF Same
  <2> QED
    BY <2>1, <2>2, <2>3
<1>8. Segment(c, a, j + 1, brk, cnt)
  BY <1>3, <1>6, <1>7, BranchSegment
<1>9. \A k \in 1 .. n : c[k] = s.code[k]
  <2>1. \A k \in 1 .. n : k \in 1 .. j - 1 /\ k \notin {n + 2}
    BY <1>2
  <2> QED
    BY <1>1, <1>5, <2>1 DEF Same
<1> QED
  BY <1>1, <1>2, <1>3, <1>8, <1>9 DEF Advances, n, c

\* The instruction that jumps over the else part leaves the compiler ready.
LEMMA ElseStarted ==
    ASSUME NEW s, Ready(s), NEW v, ~v.failed,
           NEW b, NEW j, NEW brk, NEW cnt, Taken(s, v, b, j, brk, cnt),
           NEW w, NEW i, Emits(v, w, i), i.op = "JUMP",
           NEW p, Patches(w, p, {Len(s.code) + 2}, j + 1)
    PROVE  Ready(p)
<1> DEFINE n == Len(s.code)
           a == n + 1
           c == p.code
<1>1. /\ v \in CompilerStates /\ Len(v.code) + 1 = j /\ TakenBranch(v.code, a, b, j, brk, cnt)
  BY DEF Taken
<1>2. n \in Nat /\ j \in Nat \ {0} /\ a + 2 <= j /\ Len(v.code) = j - 1
  <2>1. b \in Nat /\ j \in Nat /\ a + 2 <= b /\ b <= j
    BY <1>1, TakenStacks
  <2>2. n \in Nat /\ Len(v.code) \in Nat
    BY <1>1, CodeTyped DEF Ready
  <2> QED
    BY <1>1, <2>1, <2>2
<1>3. Len(w.code) = j /\ w.code[j] = i /\ w.failed = v.failed
  <2>1. j - 1 + 1 = j
    BY <1>2
  <2> QED
    BY <1>2, <2>1 DEF Emits
<1>4. Same(v.code, w.code, j - 1, {}) /\ Same(w.code, c, j, {n + 2})
  BY <1>2, <1>3, EmitsSame, PatchesSame
<1>5. p \in CompilerStates /\ ~p.failed /\ Len(c) = j
  BY <1>3 DEF Patches
<1> HIDE DEF n, c
<1>6. Same(v.code, c, j - 1, {n + 2})
  <2>1. j - 1 \in Nat /\ j \in Nat /\ j - 1 <= j /\ {} \union {n + 2} = {n + 2}
    BY <1>2
  <2> QED
    BY <1>4, <2>1, SameOn
<1>7. TakenBranch(c, a, b, j, brk, cnt)
  <2>1. \A q \in {n + 2} : q < a + 2 \/ q >= j
    BY <1>2
  <2> QED
    BY <1>1, <1>6, <2>1, TakenSame
<1>8. Inner(Stacks(c, a), Stacks(c, j)) /\ Natural(Stacks(c, a))
  <2>1. Natural(Stacks(c, a))
    BY <1>7 DEF TakenBranch
  <2> QED
    BY <1>7, <2>1, TakenStacks
<1>9. c[j].op = "JUMP"
  BY <1>2, <1>3, <1>4 DEF Same
<1>10. Stacks(c, j + 1) = Stacks(c, j)
  BY <1>2, <1>9, Unmoved DEF StackOps
<1>11. Stacks(c, a) \in Shapes
  BY <1>2, StacksStep
<1>12. Natural(Stacks(c, Len(c) + 1))
  BY <1>5, <1>8, <1>10, <1>11 DEF Natural, Inner, Shapes
<1> QED
  BY <1>5, <1>12 DEF Ready, c

LEMMA ElseClosed ==
    ASSUME NEW s, Ready(s), NEW v, ~v.failed,
           NEW b, NEW j, NEW k1, NEW n1, Taken(s, v, b, j, k1, n1), Len(v.loops) = Len(s.loops),
           NEW w, NEW i, Emits(v, w, i), i.op = "JUMP",
           NEW p, Patches(w, p, {Len(s.code) + 2}, j + 1),
           NEW u, Grown(p, u), ~u.failed,
           NEW q, Patches(u, q, {j}, Len(u.code) + 1),
           NEW r, NEW x, Emits(q, r, x), x.op = "POP_SCOPE"
    PROVE  \E brk, cnt : Advances(s, r, brk, cnt)
<1> DEFINE n == Len(s.code)
           a == n + 1
           z == Len(u.code) + 1
           c == r.code
<1>1. /\ v \in CompilerStates /\ Len(v.code) + 1 = j
      /\ \A k \in 1 .. n : v.code[k] = s.code[k]
      /\ TakenBranch(v.code, a, b, j, k1, n1)
      /\ Collected(s.loops, v.loops, k1, n1)
  BY DEF Taken
<1>2. PICK k2, n2 : Advances(p, u, k2, n2)
  BY DEF Grown
<1>3. n \in Nat /\ j \in Nat \ {0} /\ b \in Nat /\ a + 2 <= b /\ b <= j /\ Len(v.code) = j - 1
  <2>1. b \in Nat /\ j \in Nat /\ a + 2 <= b /\ b <= j
    BY <1>1, TakenStacks
  <2>2. n \in Nat /\ Len(v.code) \in Nat
    BY <1>1, CodeTyped DEF Ready
  <2> QED
    BY <1>1, <2>1, <2>2
<1>4. Len(w.code) = j /\ w.code[j] = i /\ w.loops = v.loops
  <2>1. j - 1 + 1 = j
    BY <1>3
  <2> QED
    BY <1>3, <2>1 DEF Emits
<1>5. Len(p.code) = j /\ p.loops = v.loops
  BY <1>4 DEF Patches
<1>6. /\ z \in Nat \ {0} /\ j + 1 <= z /\ Len(u.code) = z - 1
      /\ \A k \in 1 .. j : u.code[k] = p.code[k]
      /\ Segment(u.code, j + 1, z, k2, n2)
      /\ Collected(v.loops, u.loops, k2, n2) /\ Len(u.loops) = Len(v.loops)
  <2>1. u \in CompilerStates /\ Len(u.loops) = Len(v.loops)
    BY <1>5 DEF Grown
  <2>2. Len(u.code) \in Nat
    BY <2>1, CodeTyped
  <2>3. /\ j <= Len(u.code) /\ \A k \in 1 .. j : u.code[k] = p.code[k]
        /\ Segment(u.code, j + 1, z, k2, n2) /\ Collected(v.loops, u.loops, k2, n2)
    BY <1>2, <1>5 DEF Advances
  <2> QED
    BY <1>3, <2>1, <2>2, <2>3
<1>7. /\ Len(q.code) = z - 1 /\ Len(c) = z /\ c[z] = x /\ r.loops = u.loops
  <2>1. Len(q.code) = z - 1 /\ q.loops = u.loops
    BY <1>6 DEF Patches
  <2>2. z - 1 + 1 = z
    BY <1>6
  <2> QED
    BY <2>1, <2>2 DEF Emits
<1>8. /\ Same(v.code, w.code, j - 1, {})
      /\ Same(w.code, p.code, j, {n + 2})
      /\ Same(u.code, q.code, z - 1, {j})
      /\ Same(q.code, c, z - 1, {})
  BY <1>3, <1>4, <1>6, <1>7, EmitsSame, PatchesSame
<1>9. Same(p.code, u.code, j, {})
  BY <1>6 DEF Same
<1> HIDE DEF n, z, c
<1>10. Same(u.code, c, z - 1, {j})
  <2>1. z - 1 \in Nat /\ z - 1 <= z - 1 /\ {j} \union {} = {j}
    BY <1>6
  <2> QED
    BY <1>8, <2>1, SameOn
<1>11. Same(v.code, p.code, j - 1, {n + 2})
  <2>1. j - 1 \in Nat /\ j \in Nat /\ j - 1 <= j /\ {} \union {n + 2} = {n + 2}
    BY <1>3
  <2> QED
    BY <1>8, <2>1, SameOn
<1>12. Same(p.code, c, j, {j})
  <2>1. j \in Nat /\ z - 1 \in Nat /\ j <= z - 1 /\ {} \union {j} = {j}
    BY <1>3, <1>6
  <2> QED
    BY <1>9, <1>10, <2>1, SameOn
<1>13. Same(v.code, c, j - 1, {n + 2, j})
  <2>1. j - 1 \in Nat /\ j \in Nat /\ j - 1 <= j /\ {n + 2} \union {j} = {n + 2, j}
    BY <1>3
  <2> QED
    BY <1>11, <1>12, <2>1, SameOn
<1>14. TakenBranch(c, a, b, j, k1, n1)
  <2>1. \A y \in {n + 2, j} : y < a + 2 \/ y >= j
    BY <1>3
  <2> QED
    BY <1>1, <1>13, <2>1, TakenSame
<1>15. c[a + 1].target = j + 1
  <2>1. n + 2 \in 1 .. j /\ n + 2 # j /\ a + 1 = n + 2
    BY <1>3
  <2>2. p.code[n + 2].target = j + 1
    BY <1>4, <2>1 DEF Patches, n
  <2>3. c[n + 2] = p.code[n + 2]
    BY <1>12, <2>1 DEF Same
  <2> QED
    BY <2>1, <2>2, <2>3
<1>16. c[j].op = "JUMP" /\ c[j].target = z
  <2>1. j \in 1 .. j /\ j \in 1 .. z - 1
    BY <1>3, <1>6
  <2>2. c[j].op = w.code[j].op
    BY <1>8, <1>12, <2>1 DEF Same
  <2>3. q.code[j].target = z
    BY <1>6, <2>1 DEF Patches, z
  <2>4. c[j] = q.code[j]
    BY <1>8, <2>1 DEF Same
  <2> QED
    BY <1>4, <2>2, <2>3, <2>4
<1>17. Segment(c, j + 1, z, k2, n2)
  <2>1. SameOps(u.code, c, z - 1) /\ \A y \in j + 1 .. z - 1 : c[y] = u.code[y]
    <3>1. \A y \in j + 1 .. z - 1 : y \in 1 .. z - 1 /\ y \notin {j}
      BY <1>3
    <3> QED
      BY <1>10, <3>1 DEF Same, SameOps
  <2>2. z - 1 \in Nat /\ z <= z - 1 + 1
    BY <1>6
  <2> QED
    BY <1>6, <2>1, <2>2, SegmentCopied
<1>18. Segment(c, a, z + 1, k1 \union k2, n1 \union n2)
  BY <1>7, <1>14, <1>15, <1>16, <1>17, BranchElseSegment
<1>19. \A k \in 1 .. n : c[k] = s.code[k]
  <2>1. \A k \in 1 .. n : k \in 1 .. j - 1 /\ k \notin {n + 2, j}
    BY <1>3
  <2> QED
    BY <1>1, <1>13, <2>1 DEF Same
<1>20. Collected(s.loops, r.loops, k1 \union k2, n1 \union n2)
  <2>1. Len(s.loops) \in Nat
    BY CodeTyped DEF Ready
  <2> QED
    BY <1>1, <1>6, <1>7, <2>1, CollectedOn
<1>21. n <= z
  BY <1>3, <1>6
<1>22. Advances(s, r, k1 \union k2, n1 \union n2)
  BY <1>7, <1>18, <1>19, <1>20, <1>21 DEF Advances, n, c
<1> QED
  BY <1>22

\* How the taken body is left.
Leaves(op, leave) ==
    \/ op = "JUMP_IF_FALSE" /\ leave = <<>>
    \/ op = "ENTER_WITH" /\ leave = <<Plain("EXIT_WITH")>>

LEMMA BodyLeft ==
    ASSUME NEW u \in CompilerStates, NEW op, NEW leave, Leaves(op, leave)
    PROVE  LET v == [u EXCEPT !.code = @ \o leave] IN
           \/ op = "JUMP_IF_FALSE" /\ v = u
           \/ op = "ENTER_WITH" /\ Emits(u, v, Plain("EXIT_WITH"))
<1> DEFINE c == u.code
           l == u.loops
           f == u.failed
           v == [u EXCEPT !.code = @ \o leave]
           i == Plain("EXIT_WITH")
<1>1. c \in Seq(CompiledInstructions) /\ u = [code |-> c, loops |-> l, failed |-> f]
  BY CodeTyped
<1>2. i \in CompiledInstructions
  BY PlainTyped DEF OpCodes
<1>3. Emits(u, Emit(u, i), i)
  BY <1>2, Emitted
<1>4. v = [u EXCEPT !.code = c \o leave]
  OBVIOUS
<1> HIDE DEF c, l, f, v, i
<1>5. v = [code |-> c \o leave, loops |-> l, failed |-> f]
  BY <1>1, <1>4, StateChanged
<1>6. CASE op = "JUMP_IF_FALSE" /\ leave = <<>>
  <2>1. c \o leave = c
    BY <1>1, <1>6, ConcatEmptySeq
  <2> QED
    BY <1>1, <1>5, <1>6, <2>1 DEF v
<1>7. CASE op = "ENTER_WITH" /\ leave = <<i>>
  <2>1. c \o leave = Append(c, i)
    BY <1>1, <1>2, <1>7, AppendIsConcat
  <2>2. Emit(u, i) = [code |-> Append(c, i), loops |-> l, failed |-> f]
    BY <1>1, StateChanged
  <2> QED
    BY <1>3, <1>5, <1>7, <2>1, <2>2 DEF v, i
<1> QED
  BY <1>6, <1>7 DEF Leaves, i

LEMMA BranchGrown ==
    ASSUME NEW emit, NEW N, Lowers(emit, N), NEW s, Ready(s), NEW op, NEW leave, Leaves(op, leave),
           NEW n, n.pipe \in CompiledPipelines, n.body \in Seq(N), n.els \in Seq(N)
    PROVE  Grown(s, EmitBranch(emit, n, op, leave, s))
<1> DEFINE t == Emit(Emit(s, Plain("PUSH_SCOPE")), Instruction(op, n.pipe, 0, 0, ""))
           u == EmitList(emit, n.body, t)
           v == [u EXCEPT !.code = @ \o leave]
           pop == Plain("POP_SCOPE")
           jump == Plain("JUMP")
           p1 == Patch(v, {Len(t.code)}, Here(v))
           r1 == Emit(p1, pop)
           w == Emit(v, jump)
           p2 == Patch(w, {Len(t.code)}, Here(w))
           x == EmitList(emit, n.els, p2)
           q == Patch(x, {Len(w.code)}, Here(x))
           r2 == Emit(q, pop)
<1>1. EmitBranch(emit, n, op, leave, s) = IF ~n.hasElse THEN r1 ELSE r2
  BY DEF EmitBranch
<1>2. /\ pop \in CompiledInstructions /\ pop.op = "POP_SCOPE"
      /\ jump \in CompiledInstructions /\ jump.op = "JUMP"
      /\ Plain("EXIT_WITH").op = "EXIT_WITH"
  BY PlainTyped DEF OpCodes
<1>3. Started(s, t, op)
  <2>1. op \in {"JUMP_IF_FALSE", "ENTER_WITH", "ITERATE"}
    BY DEF Leaves
  <2> QED
    BY <2>1, ConstructStarted
<1> HIDE DEF t, pop, jump
<1>4. Ready(t) /\ t.loops = s.loops /\ Len(t.code) = Len(s.code) + 2
  BY <1>3 DEF Started
<1>5. Grown(t, u)
  BY <1>4, ListGrown
<1> HIDE DEF u
<1>6. u \in CompilerStates /\ Len(u.loops) = Len(s.loops)
  BY <1>4, <1>5 DEF Grown
<1>7. \/ op = "JUMP_IF_FALSE" /\ v = u
      \/ op = "ENTER_WITH" /\ Emits(u, v, Plain("EXIT_WITH"))
  BY <1>6, BodyLeft
<1> HIDE DEF v
<1>8. v \in CompilerStates /\ v.loops = u.loops /\ v.failed = u.failed
  BY <1>6, <1>7 DEF Emits
<1>9. ~u.failed => \E b, j, brk, cnt : Taken(s, v, b, j, brk, cnt)
  BY <1>2, <1>3, <1>5, <1>7, BranchTaken
<1>10. Grown(s, r1)
  <2>1. Len(v.code) \in Nat /\ Here(v) = Len(v.code) + 1 /\ Here(v) \in Nat
    BY <1>8, CodeTyped DEF Here
  <2>2. Patches(v, p1, {Len(t.code)}, Here(v))
    BY <1>8, <2>1, Patched
  <2> HIDE DEF p1
  <2>3. p1 \in CompilerStates /\ p1.loops = v.loops /\ p1.failed = v.failed
    BY <2>2 DEF Patches
  <2>4. Emits(p1, r1, pop)
    BY <1>2, <2>3, Emitted
  <2> HIDE DEF r1
  <2>5. r1 \in CompilerStates /\ Len(r1.loops) = Len(s.loops) /\ r1.failed = u.failed
    BY <1>6, <1>8, <2>3, <2>4 DEF Emits
  <2>6. ASSUME ~u.failed
        PROVE  \E brk, cnt : Advances(s, r1, brk, cnt)
    <3>1. PICK b, j, brk, cnt : Taken(s, v, b, j, brk, cnt)
      BY <1>9, <2>6
    <3>2. Here(v) = j
      BY <2>1, <3>1 DEF Taken
    <3>3. Advances(s, r1, brk, cnt)
      BY <1>2, <1>4, <2>2, <2>4, <3>1, <3>2, BranchClosed
    <3> QED
      BY <3>3
  <2> QED
    BY <2>5, <2>6 DEF Grown
<1>11. Grown(s, r2)
  <2>1. Emits(v, w, jump)
    BY <1>2, <1>8, Emitted
  <2> HIDE DEF w
  <2>2. w \in CompilerStates /\ w.loops = v.loops /\ w.failed = v.failed /\ Len(w.code) = Len(v.code) + 1
    BY <2>1 DEF Emits
  <2>3. Len(w.code) \in Nat /\ Here(w) = Len(w.code) + 1 /\ Here(w) \in Nat
    BY <2>2, CodeTyped DEF Here
  <2>4. Patches(w, p2, {Len(t.code)}, Here(w))
    BY <2>2, <2>3, Patched
  <2> HIDE DEF p2
  <2>5. p2 \in CompilerStates /\ p2.loops = v.loops /\ p2.failed = u.failed
    BY <1>8, <2>2, <2>4 DEF Patches
  <2>6. ASSUME NEW b, NEW j, NEW brk, NEW cnt, Taken(s, v, b, j, brk, cnt)
        PROVE  Len(w.code) = j /\ Here(w) = j + 1
    BY <2>2, <2>3, <2>6 DEF Taken
  <2>7. ~u.failed => Ready(p2)
    <3>1. SUFFICES ASSUME ~u.failed
                   PROVE  Ready(p2)
      OBVIOUS
    <3>2. PICK b, j, brk, cnt : Taken(s, v, b, j, brk, cnt)
      BY <1>9, <3>1
    <3>3. Here(w) = j + 1
      BY <2>6, <3>2
    <3> QED
      BY <1>2, <1>4, <1>8, <2>1, <2>4, <3>1, <3>2, <3>3, ElseStarted
  <2>8. /\ ~u.failed => Grown(p2, x)
        /\ u.failed => x = p2
    <3>1. Len(n.els) \in Nat
      BY LenProperties
    <3> QED
      BY <2>5, <2>7, <3>1, ListGrown, ListFailed
  <2> HIDE DEF x
  <2>9. x \in CompilerStates /\ Len(x.loops) = Len(s.loops) /\ (u.failed => x.failed)
    BY <1>6, <1>8, <2>5, <2>8 DEF Grown
  <2>10. Len(x.code) \in Nat /\ Here(x) = Len(x.code) + 1 /\ Here(x) \in Nat
    BY <2>9, CodeTyped DEF Here
  <2>11. Patches(x, q, {Len(w.code)}, Here(x))
    BY <2>9, <2>10, Patched
  <2> HIDE DEF q
  <2>12. q \in CompilerStates /\ q.loops = x.loops /\ q.failed = x.failed
    BY <2>11 DEF Patches
  <2>13. Emits(q, r2, pop)
    BY <1>2, <2>12, Emitted
  <2> HIDE DEF r2
  <2>14. r2 \in CompilerStates /\ Len(r2.loops) = Len(s.loops) /\ r2.failed = x.failed
    BY <2>9, <2>12, <2>13 DEF Emits
  <2>15. ASSUME ~x.failed
         PROVE  \E brk, cnt : Advances(s, r2, brk, cnt)
    <3>1. ~u.failed /\ ~v.failed
      BY <1>8, <2>9, <2>15
    <3>2. PICK b, j, k1, n1 : Taken(s, v, b, j, k1, n1)
      BY <1>9, <3>1
    <3>3. Len(w.code) = j /\ Here(w) = j + 1
      BY <2>6, <3>2
    <3>4. Patches(w, p2, {Len(s.code) + 2}, j + 1) /\ Patches(x, q, {j}, Len(x.code) + 1)
      BY <1>4, <2>4, <2>10, <2>11, <3>3
    <3>5. Grown(p2, x) /\ Len(v.loops) = Len(s.loops)
      BY <1>6, <1>8, <2>8, <3>1
    <3> QED
      BY <1>2, <2>1, <2>13, <2>15, <3>1, <3>2, <3>4, <3>5, ElseClosed
  <2> QED
    BY <2>14, <2>15 DEF Grown
<1> QED
  BY <1>1, <1>10, <1>11

----------------------------------------------------------------------------
(* range, as it is emitted.                                                *)

NoSites == [breaks |-> {}, continues |-> {}]

\* A sequence without its last element.
LEMMA LastDropped ==
    ASSUME NEW S, NEW s \in Seq(S), Len(s) > 0
    PROVE  LET r == SubSeq(s, 1, Len(s) - 1) IN
           /\ r \in Seq(S) /\ Len(r) = Len(s) - 1
           /\ \A i \in 1 .. Len(s) - 1 : r[i] = s[i]
<1> DEFINE n == Len(s) - 1
<1>1. n \in Nat /\ Len(s) \in Nat /\ \A i \in 1 .. n : s[i] \in S
  BY LenProperties, ElementOfSeq
<1> HIDE DEF n
<1>2. /\ SubSeq(s, 1, n) \in Seq(S)
      /\ Len(SubSeq(s, 1, n)) = IF 1 <= n THEN n - 1 + 1 ELSE 0
      /\ \A i \in 1 .. n - 1 + 1 : SubSeq(s, 1, n)[i] = s[1 + i - 1]
  BY <1>1, SubSeqProperties
<1>3. n - 1 + 1 = n /\ \A i \in 1 .. n : 1 + i - 1 = i
  BY <1>1
<1>4. Len(SubSeq(s, 1, n)) = n /\ \A i \in 1 .. n : SubSeq(s, 1, n)[i] = s[i]
  BY <1>1, <1>2, <1>3
<1> QED
  BY <1>2, <1>4 DEF n

LEMMA ContextsChanged ==
    ASSUME NEW l \in Seq(Contexts)
    PROVE  /\ Append(l, NoSites) \in Seq(Contexts) /\ Len(Append(l, NoSites)) = Len(l) + 1
           /\ Len(l) > 0 => /\ SubSeq(l, 1, Len(l) - 1) \in Seq(Contexts)
                            /\ Len(SubSeq(l, 1, Len(l) - 1)) = Len(l) - 1
<1>1. NoSites \in Contexts /\ Len(l) \in Nat
  BY LenProperties DEF NoSites, Contexts
<1>2. Append(l, NoSites) \in Seq(Contexts) /\ Len(Append(l, NoSites)) = Len(l) + 1
  BY <1>1, AppendProperties
<1>3. ASSUME Len(l) > 0
      PROVE  /\ SubSeq(l, 1, Len(l) - 1) \in Seq(Contexts)
             /\ Len(SubSeq(l, 1, Len(l) - 1)) = Len(l) - 1
  BY <1>3, LastDropped
<1> QED
  BY <1>2, <1>3

\* The context of a loop is made for its body and then dropped: the contexts
\* around it are as they were, and its own has the sites of the body.
LEMMA ContextDropped ==
    ASSUME NEW l \in Seq(Contexts), NEW m \in Seq(Contexts), Len(m) = Len(l) + 1,
           NEW brk, NEW cnt, Collected(Append(l, NoSites), m, brk, cnt)
    PROVE  /\ m[Len(m)].breaks = brk /\ m[Len(m)].continues = cnt
           /\ SubSeq(m, 1, Len(m) - 1) = l
<1> DEFINE d == Len(l)
           o == Append(l, NoSites)
           r == SubSeq(m, 1, Len(m) - 1)
<1>1. d \in Nat /\ NoSites \in Contexts
  BY LenProperties DEF NoSites, Contexts
<1>2. Len(o) = d + 1 /\ o[d + 1] = NoSites /\ \A i \in 1 .. d : o[i] = l[i]
  BY <1>1, AppendProperties
<1>3. Len(m) = d + 1
  OBVIOUS
<1>4. /\ \A i \in 1 .. d : m[i] = l[i]
      /\ m[d + 1].breaks = NoSites.breaks \union brk
      /\ m[d + 1].continues = NoSites.continues \union cnt
  <2>1. d + 1 > 0 /\ (d + 1) - 1 = d
    BY <1>1
  <2>2. /\ \A i \in 1 .. Len(o) - 1 : m[i] = o[i]
        /\ Len(o) > 0 => /\ m[Len(o)].breaks = o[Len(o)].breaks \union brk
                         /\ m[Len(o)].continues = o[Len(o)].continues \union cnt
    BY DEF Collected
  <2> HIDE DEF d, o
  <2> QED
    BY <1>2, <2>1, <2>2
<1>5. r \in Seq(Contexts) /\ Len(r) = d /\ \A i \in 1 .. d : r[i] = m[i]
  <2>1. Len(m) - 1 = d
    BY <1>1, <1>3
  <2> QED
    BY <1>1, <1>3, <2>1, LastDropped
<1> HIDE DEF o, r, d
<1>6. r = l
  <2>1. l \in Seq(Contexts) /\ Len(l) = d /\ Len(r) = Len(l) /\ \A i \in 1 .. Len(l) : r[i] = l[i]
    BY <1>4, <1>5 DEF d
  <2> QED
    BY <1>5, <2>1, SeqEqual
<1> QED
  BY <1>3, <1>4, <1>6 DEF r, NoSites

\* The body of a range and the end of its iterations have been emitted.
Looped(s, t, m, brk, cnt) ==
    /\ t \in CompilerStates
    /\ Len(t.code) = m
    /\ \A k \in 1 .. Len(s.code) : t.code[k] = s.code[k]
    /\ Looping(t.code, Len(s.code) + 1, m, brk, cnt)

\* A break does not wait where a continue does.
LEMMA SitesApart ==
    ASSUME NEW c, NEW a, NEW b, NEW brk, NEW cnt, Segment(c, a, b, brk, cnt)
    PROVE  \A p \in brk : p \notin cnt
BY DEF Segment, Part, Waits

LEMMA LoopingSame ==
    ASSUME NEW c, NEW d, NEW a, NEW m, NEW brk, NEW cnt, Looping(c, a, m, brk, cnt),
           NEW S, Same(c, d, m, S), \A p \in S : p < a + 2 \/ p >= m \/ p \in brk \union cnt
    PROVE  Looping(d, a, m, brk, cnt)
<1>1. a \in Nat \ {0} /\ m \in Nat \ {0} /\ a + 2 <= m
  BY LoopingStacks
<1>2. a \in 1 .. m /\ a + 1 \in 1 .. m /\ m \in 1 .. m /\ a \in 1 .. m + 1 /\ m <= m + 1
  BY <1>1
<1>3. SameOps(c, d, m) /\ \A k \in 1 .. m : k \notin S => d[k] = c[k]
  BY DEF Same, SameOps
<1>4. \A p \in a + 2 .. m - 1 : p \notin brk \union cnt => d[p] = c[p]
  <2>1. \A p \in a + 2 .. m - 1 : p \in 1 .. m /\ ~(p < a + 2) /\ ~(p >= m)
    BY <1>1
  <2> QED
    BY <1>3, <2>1
<1>5. Segment(c, a + 2, m, brk, cnt)
  BY DEF Looping
<1>6. Segment(d, a + 2, m, brk, cnt)
  BY <1>1, <1>2, <1>3, <1>4, <1>5, SegmentCopied
<1>7. Stacks(d, a) = Stacks(c, a)
  BY <1>1, <1>2, <1>3, StacksAgree
<1>8. /\ d[a].op = c[a].op /\ d[a + 1].op = c[a + 1].op
      /\ d[m].op = c[m].op /\ d[m].body = c[m].body
  BY <1>2 DEF Same
<1> QED
  BY <1>6, <1>7, <1>8 DEF Looping

LEMMA LoopTaken ==
    ASSUME NEW s, Ready(s), NEW t, Started(s, t, "ITERATE"),
           NEW e, Ready(e), e.code = t.code, NEW u, NEW brk, NEW cnt, Advances(e, u, brk, cnt),
           NEW w, w.code = u.code, NEW v, NEW i, Emits(w, v, i),
           i.op = "NEXT_ITERATION", i.body = Len(t.code) + 1
    PROVE  Looped(s, v, Len(v.code), brk, cnt)
<1> DEFINE n == Len(s.code)
           a == n + 1
           m == Len(v.code)
           c == v.code
<1>1. /\ n \in Nat /\ Len(t.code) = n + 2
      /\ \A k \in 1 .. n : t.code[k] = s.code[k]
      /\ t.code[n + 1].op = "PUSH_SCOPE" /\ t.code[n + 2].op = "ITERATE"
  BY DEF Started
<1>2. /\ n + 2 <= Len(u.code) /\ \A k \in 1 .. n + 2 : u.code[k] = t.code[k]
      /\ Segment(u.code, n + 2 + 1, Len(u.code) + 1, brk, cnt)
  BY <1>1 DEF Advances
<1>3. /\ v \in CompilerStates
      /\ Len(u.code) \in Nat /\ m = Len(u.code) + 1 /\ c[m] = i
      /\ \A k \in 1 .. Len(u.code) : c[k] = u.code[k]
  BY DEF Emits
<1>4. Natural(Stacks(s.code, n + 1))
  BY DEF Ready
<1> DEFINE l == Len(u.code)
<1> HIDE DEF n, m, c, l
<1>5. l \in Nat /\ m = l + 1 /\ n + 2 <= l
  BY <1>2, <1>3 DEF l
<1>6. \A k \in 1 .. n + 2 : c[k] = t.code[k]
  <2>1. \A k \in 1 .. n + 2 : k \in 1 .. l
    BY <1>1, <1>5
  <2> QED
    BY <1>2, <1>3, <2>1 DEF l
<1>7. /\ \A k \in 1 .. n : c[k] = s.code[k]
      /\ c[a].op = "PUSH_SCOPE" /\ c[a + 1].op = "ITERATE"
  <2>1. (\A k \in 1 .. n : k \in 1 .. n + 2) /\ n + 1 \in 1 .. n + 2 /\ n + 2 \in 1 .. n + 2 /\ a + 1 = n + 2
    BY <1>1
  <2> QED
    BY <1>1, <1>6, <2>1
<1>8. Segment(c, a + 2, m, brk, cnt)
  <2>1. SameOps(u.code, c, l) /\ \A p \in n + 2 + 1 .. m - 1 : c[p] = u.code[p]
    <3>1. \A p \in n + 2 + 1 .. m - 1 : p \in 1 .. l
      BY <1>1, <1>5
    <3> QED
      BY <1>3, <3>1 DEF SameOps, l
  <2>2. a + 2 = n + 2 + 1 /\ m <= l + 1
    BY <1>1, <1>5
  <2>3. Segment(u.code, n + 2 + 1, m, brk, cnt)
    BY <1>2, <1>5 DEF l
  <2> QED
    BY <1>5, <2>1, <2>2, <2>3, SegmentCopied
<1>9. Stacks(c, a) = Stacks(s.code, a)
  <2>1. SameOps(s.code, c, n) /\ a \in 1 .. n + 1
    BY <1>1, <1>7 DEF SameOps
  <2> QED
    BY <1>1, <2>1, StacksAgree
<1>10. i.body = a + 2
  BY <1>1
<1>11. Looping(c, a, m, brk, cnt)
  <2>1. a \in Nat \ {0}
    BY <1>1
  <2> QED
    BY <1>3, <1>4, <1>7, <1>8, <1>9, <1>10, <2>1 DEF Looping
<1> QED
  BY <1>3, <1>7, <1>11 DEF Looped, n, m, c

\* And the continues and the end of the range know where to go.
Ended(s, t, m, brk, cnt) ==
    /\ Looped(s, t, m, brk, cnt)
    /\ t.code[Len(s.code) + 2].target = m + 1
    /\ \A k \in cnt : t.code[k].target = m

\* Behind the iterations the compiler is ready for the else part.
LEMMA LoopReady ==
    ASSUME NEW s, Ready(s), NEW v, ~v.failed, NEW m, NEW brk, NEW cnt, Looped(s, v, m, brk, cnt),
           NEW p, Patches(v, p, cnt, m), NEW q, Patches(p, q, {Len(s.code) + 2}, m + 1)
    PROVE  Ready(q) /\ Ended(s, q, m, brk, cnt)
<1> DEFINE n == Len(s.code)
           a == n + 1
           c == q.code
<1>1. /\ v \in CompilerStates /\ Len(v.code) = m
      /\ \A k \in 1 .. n : v.code[k] = s.code[k]
      /\ Looping(v.code, a, m, brk, cnt)
  BY DEF Looped
<1>2. a \in Nat \ {0} /\ m \in Nat \ {0} /\ a + 2 <= m /\ n \in Nat
  BY <1>1, LoopingStacks, CodeTyped DEF Ready
<1>3. /\ Len(p.code) = m /\ p.failed = v.failed
      /\ q \in CompilerStates /\ Len(c) = m /\ q.failed = v.failed
  BY <1>1 DEF Patches
<1>4. Same(v.code, p.code, m, cnt) /\ Same(p.code, c, m, {n + 2})
  BY <1>1, <1>3, PatchesSame
<1> HIDE DEF n, c
<1>5. Same(v.code, c, m, cnt \union {n + 2})
  <2>1. m \in Nat /\ m <= m
    BY <1>2
  <2> QED
    BY <1>4, <2>1, SameOn
<1>6. Looping(c, a, m, brk, cnt)
  <2>1. \A k \in cnt \union {n + 2} : k < a + 2 \/ k >= m \/ k \in brk \union cnt
    BY <1>2
  <2> QED
    BY <1>1, <1>5, <2>1, LoopingSame
<1>7. Inner(Stacks(c, a), Stacks(c, m + 1)) /\ Natural(Stacks(c, a))
  BY <1>6, LoopingStacks DEF Looping
<1>8. Stacks(c, a) \in Shapes /\ Stacks(c, m + 1) \in Shapes
  BY <1>2, StacksStep
<1>9. Natural(Stacks(c, m + 1))
  BY <1>7, <1>8 DEF Inner, Natural, Shapes
<1>10. Segment(v.code, a + 2, m, brk, cnt)
  BY <1>1 DEF Looping
<1>11. brk \subseteq a + 2 .. m - 1 /\ cnt \subseteq a + 2 .. m - 1
  BY <1>10, SegmentSites
<1>12. \A k \in 1 .. n : c[k] = s.code[k]
  <2>1. \A k \in 1 .. n : k \in 1 .. m /\ k \notin cnt \union {n + 2}
    BY <1>2, <1>11
  <2> QED
    BY <1>1, <1>5, <2>1 DEF Same
<1>13. c[n + 2].target = m + 1
  <2>1. n + 2 \in 1 .. m
    BY <1>2
  <2> QED
    BY <1>3, <2>1 DEF Patches, n, c
<1>14. \A k \in cnt : c[k].target = m
  <2>1. \A k \in cnt : k \in 1 .. m /\ k \notin {n + 2}
    BY <1>2, <1>11
  <2>2. \A k \in cnt : p.code[k].target = m
    BY <1>1, <2>1 DEF Patches
  <2> QED
    BY <1>4, <2>1, <2>2 DEF Same
<1>15. Ready(q)
  BY <1>3, <1>9 DEF Ready, c
<1>16. Looped(s, q, m, brk, cnt)
  BY <1>3, <1>6, <1>12 DEF Looped, n, c
<1> QED
  BY <1>13, <1>14, <1>15, <1>16 DEF Ended, n, c

LEMMA LoopClosed ==
    ASSUME NEW s, Ready(s), NEW q, NEW m, NEW brk, NEW cnt, Ended(s, q, m, brk, cnt),
           q.loops = s.loops,
           NEW u, NEW k2, NEW n2, Advances(q, u, k2, n2), u \in CompilerStates,
           NEW w, NEW x, Emits(u, w, x), x.op = "POP_SCOPE",
           NEW r, Patches(w, r, {m} \union brk, Len(u.code) + 1)
    PROVE  Advances(s, r, k2, n2)
<1> DEFINE n == Len(s.code)
           a == n + 1
           z == Len(u.code) + 1
           c == r.code
           S == {m} \union brk
<1>1. /\ q \in CompilerStates /\ Len(q.code) = m
      /\ \A k \in 1 .. n : q.code[k] = s.code[k]
      /\ Looping(q.code, a, m, brk, cnt)
  BY DEF Ended, Looped
<1>2. a \in Nat \ {0} /\ m \in Nat \ {0} /\ a + 2 <= m /\ n \in Nat
  BY <1>1, LoopingStacks, CodeTyped DEF Ready
<1>3. Segment(q.code, a + 2, m, brk, cnt)
  BY <1>1 DEF Looping
<1>4. /\ brk \subseteq a + 2 .. m - 1 /\ cnt \subseteq a + 2 .. m - 1
      /\ \A p \in brk : p \notin cnt
  BY <1>3, SegmentSites, SitesApart
<1>5. /\ z \in Nat \ {0} /\ m + 1 <= z /\ Len(u.code) = z - 1
      /\ \A k \in 1 .. m : u.code[k] = q.code[k]
      /\ Segment(u.code, m + 1, z, k2, n2)
      /\ Collected(s.loops, u.loops, k2, n2)
  <2>1. Len(u.code) \in Nat
    BY CodeTyped
  <2>2. /\ m <= Len(u.code) /\ \A k \in 1 .. m : u.code[k] = q.code[k]
        /\ Segment(u.code, m + 1, z, k2, n2) /\ Collected(s.loops, u.loops, k2, n2)
    BY <1>1 DEF Advances
  <2> QED
    BY <1>2, <2>1, <2>2
<1>6. Len(w.code) = z /\ w.code[z] = x /\ w.loops = u.loops
  <2>1. z - 1 + 1 = z
    BY <1>5
  <2> QED
    BY <1>5, <2>1 DEF Emits
<1>7. Len(c) = z /\ r.loops = u.loops
  BY <1>6 DEF Patches
<1>8. Same(u.code, w.code, z - 1, {}) /\ Same(w.code, c, z, S)
  BY <1>5, <1>6, EmitsSame, PatchesSame
<1>9. Same(q.code, u.code, m, {})
  BY <1>5 DEF Same
<1> HIDE DEF n, z, c, S
<1>10. Same(u.code, c, z - 1, S)
  <2>1. z - 1 \in Nat /\ z \in Nat /\ z - 1 <= z /\ {} \union S = S
    BY <1>5
  <2> QED
    BY <1>8, <2>1, SameOn
<1>11. Same(q.code, c, m, S)
  <2>1. m \in Nat /\ z - 1 \in Nat /\ m <= z - 1 /\ {} \union S = S
    BY <1>2, <1>5
  <2> QED
    BY <1>9, <1>10, <2>1, SameOn
<1>12. Looping(c, a, m, brk, cnt)
  <2>1. \A k \in S : k < a + 2 \/ k >= m \/ k \in brk \union cnt
    BY <1>2 DEF S
  <2> QED
    BY <1>1, <1>11, <2>1, LoopingSame
<1>13. \A k \in 1 .. m : k \notin S => c[k] = q.code[k]
  BY <1>11 DEF Same
<1>14. \A k \in S : c[k].target = z
  <2>1. \A k \in S : k \in 1 .. z
    BY <1>2, <1>4, <1>5 DEF S
  <2> QED
    BY <1>6, <2>1 DEF Patches, c, S, z
<1>15. c[a + 1].target = m + 1
  <2>1. a + 1 \in 1 .. m /\ a + 1 \notin S /\ a + 1 = n + 2
    BY <1>2, <1>4 DEF S
  <2>2. q.code[n + 2].target = m + 1
    BY DEF Ended, n
  <2> QED
    BY <1>13, <2>1, <2>2
<1>16. \A k \in cnt : c[k].target = m
  <2>1. \A k \in cnt : k \in 1 .. m /\ k \notin S /\ q.code[k].target = m
    BY <1>2, <1>4 DEF Ended, S
  <2> QED
    BY <1>13, <2>1
<1>17. Iteration(c, a, m, z, brk, cnt)
  BY <1>12, <1>14, <1>15, <1>16 DEF Iteration, S
<1>18. Segment(c, m + 1, z, k2, n2)
  <2>1. SameOps(u.code, c, z - 1) /\ \A y \in m + 1 .. z - 1 : c[y] = u.code[y]
    <3>1. \A y \in m + 1 .. z - 1 : y \in 1 .. z - 1 /\ y \notin S
      BY <1>2, <1>4 DEF S
    <3> QED
      BY <1>10, <3>1 DEF Same, SameOps
  <2>2. z - 1 \in Nat /\ z <= z - 1 + 1
    BY <1>5
  <2> QED
    BY <1>5, <2>1, <2>2, SegmentCopied
<1>19. c[z].op = "POP_SCOPE"
  <2>1. z \in 1 .. z
    BY <1>5
  <2> QED
    BY <1>6, <1>8, <2>1 DEF Same
<1>20. Segment(c, a, z + 1, k2, n2)
  BY <1>17, <1>18, <1>19, RangeSegment
<1>21. \A k \in 1 .. n : c[k] = s.code[k]
  <2>1. \A k \in 1 .. n : k \in 1 .. m /\ k \notin S
    BY <1>2, <1>4 DEF S
  <2> QED
    BY <1>1, <1>13, <2>1 DEF n
<1>22. n <= z
  BY <1>2, <1>5
<1> QED
  BY <1>5, <1>7, <1>20, <1>21, <1>22 DEF Advances, n, c

\* The states in which the body of a range starts and ends.
LEMMA LoopsChanged ==
    ASSUME NEW s \in CompilerStates, NEW l \in Seq(Contexts)
    PROVE  LET t == [s EXCEPT !.loops = l] IN
           t \in CompilerStates /\ t.code = s.code /\ t.failed = s.failed /\ t.loops = l
<1> DEFINE c == s.code
           f == s.failed
           t == [s EXCEPT !.loops = l]
<1>1. c \in Seq(CompiledInstructions) /\ f \in BOOLEAN /\ s = [code |-> c, loops |-> s.loops, failed |-> f]
  BY CodeTyped
<1> HIDE DEF c, f
<1>2. t = [code |-> c, loops |-> l, failed |-> f]
  BY <1>1, StateChanged
<1> HIDE DEF t
<1>3. t \in CompilerStates
  BY <1>1, <1>2, StateTyped
<1> QED
  BY <1>2, <1>3 DEF c, f, t

LEMMA RangeGrown ==
    ASSUME NEW emit, NEW N, Lowers(emit, N), NEW s, Ready(s),
           NEW n, n.pipe \in CompiledPipelines, n.body \in Seq(N), n.els \in Seq(N)
    PROVE  Grown(s, EmitRange(emit, n, s))
<1> DEFINE t == Emit(Emit(s, Plain("PUSH_SCOPE")), Instruction("ITERATE", n.pipe, 0, 0, ""))
           e == [t EXCEPT !.loops = Append(@, [breaks |-> {}, continues |-> {}])]
           u == EmitList(emit, n.body, e)
           loop == u.loops[Len(u.loops)]
           d == [u EXCEPT !.loops = SubSeq(@, 1, Len(@) - 1)]
           i == Instruction("NEXT_ITERATION", NoPipeline, 0, Here(t), "")
           v == Emit(d, i)
           p == Patch(v, loop.continues, Len(v.code))
           q == Patch(p, {Len(t.code)}, Here(v))
           x == IF n.hasElse THEN EmitList(emit, n.els, q) ELSE q
           pop == Plain("POP_SCOPE")
           w == Emit(x, pop)
           r == Patch(w, {Len(v.code)} \cup loop.breaks, Len(w.code))
<1>1. EmitRange(emit, n, s) = r
  BY DEF EmitRange
<1>2. pop \in CompiledInstructions /\ pop.op = "POP_SCOPE"
  BY PlainTyped DEF OpCodes
<1>3. Started(s, t, "ITERATE")
  BY ConstructStarted
<1>4. e = [t EXCEPT !.loops = Append(t.loops, NoSites)]
  BY DEF NoSites
<1> HIDE DEF t, pop, e
<1>5. Ready(t) /\ t \in CompilerStates /\ t.loops = s.loops /\ Len(t.code) = Len(s.code) + 2
  BY <1>3 DEF Started, Ready
<1> DEFINE l == s.loops
<1>6. l \in Seq(Contexts) /\ Len(l) \in Nat /\ Len(t.code) \in Nat
  BY <1>5, CodeTyped DEF Ready
<1>7. Append(l, NoSites) \in Seq(Contexts) /\ Len(Append(l, NoSites)) = Len(l) + 1
  BY <1>6, ContextsChanged
<1>8. e \in CompilerStates /\ e.code = t.code /\ e.failed = t.failed /\ e.loops = Append(l, NoSites)
  BY <1>4, <1>5, <1>7, LoopsChanged
<1>9. Ready(e)
  BY <1>5, <1>8 DEF Ready
<1>10. Grown(e, u)
  BY <1>9, ListGrown
<1> HIDE DEF u
<1> DEFINE m == u.loops
<1>11. u \in CompilerStates /\ m \in Seq(Contexts) /\ Len(m) = Len(l) + 1
  BY <1>7, <1>8, <1>10, CodeTyped DEF Grown
<1>12. SubSeq(m, 1, Len(m) - 1) \in Seq(Contexts) /\ Len(SubSeq(m, 1, Len(m) - 1)) = Len(l)
  BY <1>6, <1>11, ContextsChanged
<1>13. d = [u EXCEPT !.loops = SubSeq(m, 1, Len(m) - 1)]
  OBVIOUS
<1> HIDE DEF d
<1>14. /\ d \in CompilerStates /\ d.code = u.code /\ d.failed = u.failed
       /\ d.loops = SubSeq(m, 1, Len(m) - 1)
  BY <1>11, <1>12, <1>13, LoopsChanged
<1>15. i \in CompiledInstructions /\ i.op = "NEXT_ITERATION" /\ i.body = Len(t.code) + 1
  <2> DEFINE name == ""
  <2>1. name \in Strings /\ "NEXT_ITERATION" \in OpCodes
    BY DEF Strings, OpCodes
  <2>2. i = Instruction("NEXT_ITERATION", NoPipeline, 0, Here(t), name)
    OBVIOUS
  <2>3. Here(t) \in Nat /\ Here(t) = Len(t.code) + 1
    BY <1>6 DEF Here
  <2> HIDE DEF name, i
  <2> QED
    BY <2>1, <2>2, <2>3, NoPipelineTyped, InstructionTyped
<1> HIDE DEF i
<1>16. Emits(d, v, i)
  BY <1>14, <1>15, Emitted
<1> HIDE DEF v
<1>17. /\ v \in CompilerStates /\ v.loops = d.loops /\ v.failed = u.failed
       /\ Len(v.code) \in Nat /\ Here(v) = Len(v.code) + 1 /\ Here(v) \in Nat
  BY <1>14, <1>16, CodeTyped DEF Emits, Here
<1>18. Patches(v, p, loop.continues, Len(v.code))
  BY <1>17, Patched
<1> HIDE DEF p
<1>19. p \in CompilerStates /\ p.loops = v.loops /\ p.failed = u.failed
  BY <1>17, <1>18 DEF Patches
<1>20. Patches(p, q, {Len(t.code)}, Here(v))
  BY <1>17, <1>19, Patched
<1> HIDE DEF q
<1>21. q \in CompilerStates /\ q.loops = v.loops /\ q.failed = u.failed
  BY <1>19, <1>20 DEF Patches
<1>22. ASSUME ~u.failed
       PROVE  \E brk, cnt : /\ Ended(s, q, Len(v.code), brk, cnt) /\ Ready(q)
                            /\ q.loops = s.loops /\ loop.breaks = brk
  <2>1. PICK brk, cnt : Advances(e, u, brk, cnt)
    BY <1>10, <1>22 DEF Grown
  <2>2. Collected(Append(l, NoSites), m, brk, cnt)
    BY <1>8, <2>1 DEF Advances
  <2>3. loop.breaks = brk /\ loop.continues = cnt /\ SubSeq(m, 1, Len(m) - 1) = l
    BY <1>6, <1>11, <2>2, ContextDropped
  <2> HIDE DEF loop
  <2>4. Looped(s, v, Len(v.code), brk, cnt)
    BY <1>3, <1>8, <1>9, <1>14, <1>15, <1>16, <2>1, LoopTaken
  <2>5. Patches(v, p, cnt, Len(v.code)) /\ Patches(p, q, {Len(s.code) + 2}, Len(v.code) + 1)
    BY <1>5, <1>17, <1>18, <1>20, <2>3
  <2>6. Ready(q) /\ Ended(s, q, Len(v.code), brk, cnt)
    BY <1>17, <1>22, <2>4, <2>5, LoopReady
  <2>7. q.loops = s.loops
    BY <1>14, <1>17, <1>21, <2>3
  <2> QED
    BY <2>3, <2>6, <2>7
<1>23. /\ ~u.failed => Grown(q, x)
       /\ u.failed => x = q
  <2>1. ~u.failed => Ready(q)
    BY <1>22
  <2>2. Len(n.els) \in Nat
    BY LenProperties
  <2>3. /\ ~u.failed => Grown(q, EmitList(emit, n.els, q)) /\ Grown(q, q)
        /\ u.failed => EmitList(emit, n.els, q) = q
    BY <1>21, <2>1, <2>2, ListGrown, ListFailed, GrownNothing
  <2> QED
    BY <2>3
<1> HIDE DEF x, loop
<1>24. x \in CompilerStates /\ Len(x.loops) = Len(s.loops) /\ (u.failed => x.failed)
  BY <1>12, <1>14, <1>17, <1>21, <1>23 DEF Grown
<1>25. Emits(x, w, pop)
  BY <1>2, <1>24, Emitted
<1> HIDE DEF w
<1>26. /\ w \in CompilerStates /\ w.loops = x.loops /\ w.failed = x.failed
       /\ Len(w.code) = Len(x.code) + 1 /\ Len(w.code) \in Nat
  BY <1>25, CodeTyped DEF Emits
<1>27. Patches(w, r, {Len(v.code)} \union loop.breaks, Len(w.code))
  BY <1>26, Patched
<1> HIDE DEF r
<1>28. r \in CompilerStates /\ Len(r.loops) = Len(s.loops) /\ r.failed = x.failed
  BY <1>24, <1>26, <1>27 DEF Patches
<1>29. ASSUME ~x.failed
       PROVE  \E brk, cnt : Advances(s, r, brk, cnt)
  <2>1. ~u.failed /\ Grown(q, x)
    BY <1>23, <1>24, <1>29
  <2>2. PICK brk, cnt : /\ Ended(s, q, Len(v.code), brk, cnt)
                        /\ q.loops = s.loops /\ loop.breaks = brk
    BY <1>22, <2>1
  <2>3. PICK k2, n2 : Advances(q, x, k2, n2)
    BY <1>29, <2>1 DEF Grown
  <2>4. Patches(w, r, {Len(v.code)} \union brk, Len(x.code) + 1)
    BY <1>26, <1>27, <2>2
  <2>5. Advances(s, r, k2, n2)
    BY <1>2, <1>24, <1>25, <2>2, <2>3, <2>4, LoopClosed
  <2> QED
    BY <2>5
<1>30. Grown(s, r)
  BY <1>28, <1>29 DEF Grown
<1> QED
  BY <1>1, <1>30

----------------------------------------------------------------------------
(* Every node.                                                             *)

LEMMA NodeKinds ==
    ASSUME NEW S, NEW n \in LeafNodes \union ConstructNodes(S)
    PROVE  \/ n.k \in {"blank", "break", "continue"}
           \/ n.k = "text" /\ n.text \in Strings
           \/ n.k = "action" /\ n.pipe \in CompiledPipelines
           \/ n.k \in {"call", "block"} /\ n.name \in Strings /\ n.pipe \in CompiledPipelines
           \/ n.k \in {"if", "with", "range"} /\ n.pipe \in CompiledPipelines /\ n.body \in S /\ n.els \in S
<1>1. CASE n \in {Blank, Break, Continue}
  BY <1>1 DEF Blank, Break, Continue
<1>2. CASE n \in [k : {"text"}, text : Strings]
  BY <1>2
<1>3. CASE n \in [k : {"action"}, pipe : CompiledPipelines]
  BY <1>3
<1>4. CASE n \in [k : {"call"}, name : Strings, pipe : CompiledPipelines]
  BY <1>4
<1>5. CASE n \in [k : {"if", "with", "range"}, pipe : CompiledPipelines,
                  body : S, hasElse : BOOLEAN, els : S]
  BY <1>5
<1>6. CASE n \in [k : {"block"}, name : Strings, pipe : CompiledPipelines, body : S]
  BY <1>6
<1> QED
  BY <1>1, <1>2, <1>3, <1>4, <1>5, <1>6 DEF LeafNodes, ConstructNodes

\* An instruction that writes, evaluates or calls.
LEMMA WrittenGrown ==
    ASSUME NEW s, Ready(s), NEW op \in {"WRITE_TEXT", "WRITE_DOT", "WRITE_PIPELINE", "EVAL_PIPELINE", "CALL_TEMPLATE"},
           NEW pipe \in CompiledPipelines, NEW name \in Strings
    PROVE  Grown(s, Emit(s, Instruction(op, pipe, 0, 0, name)))
<1> DEFINE i == Instruction(op, pipe, 0, 0, name)
<1>1. op \in OpCodes /\ op \notin StackOps \union JumpOps
  BY DEF OpCodes, StackOps, JumpOps
<1>2. i \in CompiledInstructions /\ i.op = op
  BY <1>1, InstructionTyped
<1> HIDE DEF i
<1>3. Grown(s, Emit(s, i))
  BY <1>1, <1>2, PlainGrown
<1> QED
  BY <1>3 DEF i

LEMMA NodeGrown ==
    ASSUME NEW emit, NEW N, Lowers(emit, N), NEW n \in LeafNodes \union ConstructNodes(Seq(N)),
           NEW s, Ready(s)
    PROVE  Grown(s, EmitNode(emit, n, s))
<1> DEFINE none == ""
<1>1. none \in Strings /\ NoPipeline \in CompiledPipelines
  BY NoPipelineTyped DEF Strings
<1>2. \A op : Plain(op) = Instruction(op, NoPipeline, 0, 0, none)
  BY DEF Plain
<1> HIDE DEF none
<1>3. CASE n.k = "blank"
  <2>1. EmitNode(emit, n, s) = Emit(s, Instruction("WRITE_TEXT", NoPipeline, 0, 0, none))
    BY <1>2, <1>3 DEF EmitNode
  <2> QED
    BY <1>1, <2>1, WrittenGrown
<1>4. CASE n.k = "text" /\ n.text \in Strings
  <2>1. EmitNode(emit, n, s) = Emit(s, Instruction("WRITE_TEXT", NoPipeline, 0, 0, n.text))
    BY <1>4 DEF EmitNode
  <2> QED
    BY <1>1, <1>4, <2>1, WrittenGrown
<1>5. CASE n.k = "action" /\ n.pipe \in CompiledPipelines
  <2>1. EmitNode(emit, n, s) = EmitAction(n, s)
    BY <1>5 DEF EmitNode
  <2>2. PICK op \in {"WRITE_DOT", "WRITE_PIPELINE", "EVAL_PIPELINE"}, pipe \in CompiledPipelines :
           EmitAction(n, s) = Emit(s, Instruction(op, pipe, 0, 0, none))
    BY <1>1, <1>2, <1>5 DEF EmitAction, none
  <2> QED
    BY <1>1, <2>1, <2>2, WrittenGrown
<1>6. CASE n.k \in {"call", "block"} /\ n.name \in Strings /\ n.pipe \in CompiledPipelines
  <2>1. EmitNode(emit, n, s) = Emit(s, Instruction("CALL_TEMPLATE", n.pipe, 0, 0, n.name))
    BY <1>6 DEF EmitNode
  <2> QED
    BY <1>6, <2>1, WrittenGrown
<1>7. CASE n.k \in {"break", "continue"}
  <2>1. \E b \in BOOLEAN : EmitNode(emit, n, s) = EmitLoopJump(s, b)
    BY <1>7 DEF EmitNode
  <2> QED
    BY <2>1, LoopJumpGrown
<1>8. CASE /\ n.k \in {"if", "with", "range"} /\ n.pipe \in CompiledPipelines
           /\ n.body \in Seq(N) /\ n.els \in Seq(N)
  <2>1. CASE n.k = "range"
    <3>1. EmitNode(emit, n, s) = EmitRange(emit, n, s)
      BY <2>1 DEF EmitNode
    <3> QED
      BY <1>8, <3>1, RangeGrown
  <2>2. CASE n.k = "if"
    <3>1. EmitNode(emit, n, s) = EmitBranch(emit, n, "JUMP_IF_FALSE", <<>>, s)
      BY <2>2 DEF EmitNode, EmitIf
    <3>2. Leaves("JUMP_IF_FALSE", <<>>)
      BY DEF Leaves
    <3> QED
      BY <1>8, <3>1, <3>2, BranchGrown
  <2>3. CASE n.k = "with"
    <3>1. EmitNode(emit, n, s) = EmitBranch(emit, n, "ENTER_WITH", <<Plain("EXIT_WITH")>>, s)
      BY <2>3 DEF EmitNode, EmitWith
    <3>2. Leaves("ENTER_WITH", <<Plain("EXIT_WITH")>>)
      BY DEF Leaves
    <3> QED
      BY <1>8, <3>1, <3>2, BranchGrown
  <2> QED
    BY <1>8, <2>1, <2>2, <2>3
<1> QED
  BY <1>3, <1>4, <1>5, <1>6, <1>7, <1>8, NodeKinds

----------------------------------------------------------------------------
(* The levels of a tree.                                                   *)

LEMMA NodesDefined ==
    /\ NodesWithin[0] = LeafNodes
    /\ \A d \in Nat : NodesWithin[d + 1] = LeafNodes \union ConstructNodes(Seq(NodesWithin[d]))
<1>1. PICK f : Deepening!Descends(f, LeafNodes)
  BY Deepening!RecursionDefined
<1>2. f = [d \in Nat |-> IF d = 0 THEN LeafNodes
                         ELSE LeafNodes \union ConstructNodes(Seq(f[d - 1]))]
  BY <1>1 DEF Deepening!Descends, DeeperNodes
<1>3. NodesWithin = [d \in Nat |-> IF d = 0 THEN LeafNodes
                                   ELSE LeafNodes \union ConstructNodes(Seq(NodesWithin[d - 1]))]
  BY <1>2, Zenon DEF NodesWithin
<1>4. \A d \in Nat : d + 1 \in Nat /\ d + 1 # 0 /\ (d + 1) - 1 = d
  OBVIOUS
<1> QED
  BY <1>3, <1>4

LEMMA EmitDefined ==
    /\ \A n \in NodesWithin[0], s \in CompilerStates : EmitWithin[0][n][s] = EmitNode(<<>>, n, s)
    /\ \A d \in Nat : \A n \in NodesWithin[d + 1], s \in CompilerStates :
          EmitWithin[d + 1][n][s] = EmitNode(EmitWithin[d], n, s)
<1> DEFINE base == DeeperEmit(<<>>, 0)
           within(f, d) == [n \in NodesWithin[d] |-> [st \in CompilerStates |->
                               EmitNode(IF d = 0 THEN <<>> ELSE f[d - 1], n, st)]]
<1>1. PICK f : Lowering!Descends(f, base)
  BY Lowering!RecursionDefined
<1>2. f = [d \in Nat |-> IF d = 0 THEN base ELSE DeeperEmit(f[d - 1], d)]
  BY <1>1 DEF Lowering!Descends
<1>3. ASSUME NEW d \in Nat
      PROVE  f[d] = within(f, d)
  <2>1. CASE d = 0
    <3>1. within(f, d) = DeeperEmit(<<>>, 0)
      BY <2>1 DEF DeeperEmit
    <3> QED
      BY <1>2, <2>1, <3>1
  <2>2. CASE d # 0
    <3>1. within(f, d) = DeeperEmit(f[d - 1], d)
      BY <2>2 DEF DeeperEmit
    <3> QED
      BY <1>2, <2>2, <3>1
  <2> QED
    BY <2>1, <2>2
<1> HIDE DEF within
<1>4. f = [d \in Nat |-> within(f, d)]
  BY <1>2, <1>3
<1>5. EmitWithin = [d \in Nat |-> within(EmitWithin, d)]
  BY <1>4, Zenon DEF EmitWithin, within
<1>6. ASSUME NEW d \in Nat, NEW n \in NodesWithin[d], NEW s \in CompilerStates
      PROVE  EmitWithin[d][n][s] = EmitNode(IF d = 0 THEN <<>> ELSE EmitWithin[d - 1], n, s)
  <2>1. EmitWithin[d] = within(EmitWithin, d)
    BY <1>5
  <2> QED
    BY <2>1 DEF within
<1>7. \A d \in Nat : d + 1 \in Nat /\ d + 1 # 0 /\ (d + 1) - 1 = d
  OBVIOUS
<1> QED
  BY <1>6, <1>7

LEMMA SeqWidened ==
    ASSUME NEW S, NEW T, S \subseteq T
    PROVE  Seq(S) \subseteq Seq(T)
<1>1. ASSUME NEW q \in Seq(S)
      PROVE  q \in Seq(T)
  <2>1. Len(q) \in Nat /\ q \in [1 .. Len(q) -> S]
    BY LenProperties
  <2>2. q \in [1 .. Len(q) -> T]
    BY <2>1
  <2> QED
    BY <2>1, <2>2, SeqDef
<1> QED
  BY <1>1

LEMMA ConstructsWidened ==
    ASSUME NEW S, NEW T, S \subseteq T
    PROVE  ConstructNodes(S) \subseteq ConstructNodes(T)
BY DEF ConstructNodes

\* The lists of a tree with more levels include those with less.
LEMMA MoreLevels ==
    \A d \in Nat : NodesWithin[d] \subseteq NodesWithin[d + 1]
<1> DEFINE T == {d \in Nat : NodesWithin[d] \subseteq NodesWithin[d + 1]}
<1>1. 0 \in T
  BY NodesDefined
<1>2. ASSUME NEW d \in Nat, d \in T
      PROVE  d + 1 \in T
  <2>1. NodesWithin[d] \subseteq NodesWithin[d + 1]
    BY <1>2
  <2>2. Seq(NodesWithin[d]) \subseteq Seq(NodesWithin[d + 1])
    BY <2>1, SeqWidened
  <2>3. ConstructNodes(Seq(NodesWithin[d])) \subseteq ConstructNodes(Seq(NodesWithin[d + 1]))
    BY <2>2, ConstructsWidened
  <2>4. d + 1 \in Nat /\ NodesWithin[d + 1] = LeafNodes \union ConstructNodes(Seq(NodesWithin[d]))
        /\ NodesWithin[d + 1 + 1] = LeafNodes \union ConstructNodes(Seq(NodesWithin[d + 1]))
    BY NodesDefined
  <2> QED
    BY <2>3, <2>4
<1> HIDE DEF T
<1>3. \A d \in Nat : d \in T
  BY <1>1, <1>2, Deepening!Induct
<1> QED
  BY <1>3 DEF T

LEMMA LevelsNested ==
    ASSUME NEW d \in Nat, NEW e \in Nat, d <= e
    PROVE  NodesWithin[d] \subseteq NodesWithin[e] /\ Seq(NodesWithin[d]) \subseteq Seq(NodesWithin[e])
<1> DEFINE T == {k \in Nat : NodesWithin[d] \subseteq NodesWithin[d + k]}
<1>1. 0 \in T
  <2>1. d + 0 = d
    OBVIOUS
  <2> QED
    BY <2>1
<1>2. ASSUME NEW k \in Nat, k \in T
      PROVE  k + 1 \in T
  <2>1. NodesWithin[d + k] \subseteq NodesWithin[d + k + 1] /\ d + k + 1 = d + (k + 1)
    BY MoreLevels
  <2> QED
    BY <1>2, <2>1
<1> HIDE DEF T
<1>3. \A k \in Nat : k \in T
  BY <1>1, <1>2, Deepening!Induct
<1>4. e - d \in Nat /\ d + (e - d) = e
  OBVIOUS
<1>5. NodesWithin[d] \subseteq NodesWithin[e]
  BY <1>3, <1>4 DEF T
<1> QED
  BY <1>5, SeqWidened

\* A node of any level is lowered to a segment.
LEMMA LevelsLowered ==
    \A d \in Nat : Lowers(EmitWithin[d], NodesWithin[d])
<1> DEFINE T == {d \in Nat : Lowers(EmitWithin[d], NodesWithin[d])}
<1>1. 0 \in T
  <2>1. Lowers(<<>>, {})
    BY DEF Lowers
  <2>2. ASSUME NEW n \in NodesWithin[0], NEW s \in CompilerStates, Ready(s)
        PROVE  Grown(s, EmitWithin[0][n][s])
    <3>1. n \in LeafNodes \union ConstructNodes(Seq({}))
      BY NodesDefined
    <3>2. Grown(s, EmitNode(<<>>, n, s))
      BY <2>1, <2>2, <3>1, NodeGrown
    <3> QED
      BY <3>2, EmitDefined
  <2>3. Lowers(EmitWithin[0], NodesWithin[0])
    BY <2>2 DEF Lowers
  <2> QED
    BY <2>3
<1>2. ASSUME NEW d \in Nat, d \in T
      PROVE  d + 1 \in T
  <2>1. Lowers(EmitWithin[d], NodesWithin[d])
    BY <1>2
  <2>2. ASSUME NEW n \in NodesWithin[d + 1], NEW s \in CompilerStates, Ready(s)
        PROVE  Grown(s, EmitWithin[d + 1][n][s])
    <3>1. n \in LeafNodes \union ConstructNodes(Seq(NodesWithin[d]))
      BY NodesDefined
    <3>2. Grown(s, EmitNode(EmitWithin[d], n, s))
      BY <2>1, <2>2, <3>1, NodeGrown
    <3> QED
      BY <3>2, EmitDefined
  <2>3. Lowers(EmitWithin[d + 1], NodesWithin[d + 1])
    BY <2>2 DEF Lowers
  <2> QED
    BY <2>3
<1> HIDE DEF T
<1>3. \A d \in Nat : d \in T
  BY <1>1, <1>2, Deepening!Induct
<1> QED
  BY <1>3 DEF T

\* What a list of nodes compiles to passes the verification, unless the
\* compilation is abandoned.
LEMMA ListVerified ==
    ASSUME NEW root \in Seq(NodesWithin[MaxLevels])
    PROVE  /\ CompileList(root) \in CompilerStates
           /\ ~CompileList(root).failed =>
                 Verified(CompileList(root).code, StackMap(CompileList(root).code))
<1> DEFINE emit == EmitWithin[MaxLevels]
           N == NodesWithin[MaxLevels]
           f == FALSE
           s == [code |-> <<>>, loops |-> <<>>, failed |-> f]
           r == CompileList(root)
<1>1. Lowers(emit, N)
  BY LevelsLowered, CompilerAssumption
<1>2. s \in CompilerStates
  <2>1. <<>> \in Seq(CompiledInstructions) /\ <<>> \in Seq(Contexts) /\ f \in BOOLEAN
    OBVIOUS
  <2> HIDE DEF f
  <2> QED
    BY <2>1, StateTyped
<1>3. s.code = <<>> /\ s.loops = <<>> /\ ~s.failed /\ Len(s.code) = 0 /\ Len(s.loops) = 0
  OBVIOUS
<1>4. r = EmitList(emit, root, s)
  BY DEF CompileList
<1> HIDE DEF emit, N, f, s, r
<1>5. Ready(s)
  <2>1. Stacks(s.code, 0 + 1) = Shape(0, 0, 0)
    BY StacksStart
  <2>2. Natural(Shape(0, 0, 0))
    BY DEF Natural, Shape
  <2> QED
    BY <1>2, <1>3, <2>1, <2>2 DEF Ready
<1>6. Grown(s, r)
  BY <1>1, <1>4, <1>5, ListGrown DEF N
<1>7. ASSUME ~r.failed
      PROVE  Verified(r.code, StackMap(r.code))
  <2>1. PICK brk, cnt : Advances(s, r, brk, cnt)
    BY <1>6, <1>7 DEF Grown
  <2>2. brk = {} /\ cnt = {}
    BY <1>3, <2>1 DEF Advances, Collected
  <2>3. Segment(r.code, 1, Len(r.code) + 1, {}, {})
    <3>1. Segment(r.code, 0 + 1, Len(r.code) + 1, brk, cnt)
      BY <1>3, <2>1 DEF Advances
    <3> QED
      BY <2>2, <3>1
  <2>4. Len(r.code) \in Nat
    BY <1>6, CodeTyped DEF Grown
  <2> QED
    BY <2>3, <2>4, SegmentVerified
<1>8. r \in CompilerStates
  BY <1>6 DEF Grown
<1> QED
  BY <1>7, <1>8 DEF r

----------------------------------------------------------------------------
(* The trees of the parser.  Every item of the source opens one level at   *)
(* most, so the levels of what is complete and the constructs that are     *)
(* still open are no more than the items consumed.                         *)

\* What a frame has read so far has at most d levels.
FrameFits(f, d) ==
    /\ f.nodes \in Seq(NodesWithin[d])
    /\ f.body \in Seq(NodesWithin[d])
    /\ f.kind \in Branches \union {"block"} => f.pipe \in CompiledPipelines
    /\ f.kind = "block" => f.name \in Strings
    /\ f.part = "else" => f.kind \in Branches

StackFits(s, d) == d \in Nat /\ \A k \in 1 .. Len(s) : FrameFits(s[k], d)

TreeInv ==
    /\ items \in Nat /\ items <= MaxItems
    /\ StackFits(stack, items + 1 - Len(stack))
    /\ \A k \in DOMAIN definitions : definitions[k].body \in Seq(NodesWithin[items])

LEMMA FitsMore ==
    ASSUME NEW f, NEW d \in Nat, FrameFits(f, d), NEW e \in Nat, d <= e
    PROVE  FrameFits(f, e)
BY LevelsNested DEF FrameFits

LEMMA StackFitsMore ==
    ASSUME NEW s, NEW d, StackFits(s, d), NEW e \in Nat, d <= e
    PROVE  StackFits(s, e)
BY FitsMore DEF StackFits

LEMMA NodesPut ==
    ASSUME NEW f, IsFrame(f), NEW list
    PROVE  LET g == [f EXCEPT !.nodes = list] IN
           /\ IsFrame(g) /\ g.nodes = list /\ g.body = f.body /\ g.kind = f.kind
           /\ g.pipe = f.pipe /\ g.name = f.name /\ g.part = f.part
<1> DEFINE g == [f EXCEPT !.nodes = list]
<1>1. f = [kind |-> f.kind, name |-> f.name, pipe |-> f.pipe, depth |-> f.depth,
           chained |-> f.chained, part |-> f.part, body |-> f.body, nodes |-> f.nodes]
  BY DEF IsFrame
<1>2. g = [kind |-> f.kind, name |-> f.name, pipe |-> f.pipe, depth |-> f.depth,
           chained |-> f.chained, part |-> f.part, body |-> f.body, nodes |-> list]
  BY <1>1
<1>3. IsFrame(g)
  BY NodesChanged
<1> HIDE DEF g
<1> QED
  BY <1>2, <1>3 DEF g

\* A node joins the list that a frame is reading.
LEMMA NodeJoins ==
    ASSUME NEW f, IsFrame(f), NEW d \in Nat, FrameFits(f, d), NEW node \in NodesWithin[d]
    PROVE  LET g == [f EXCEPT !.nodes = Append(f.nodes, node)] IN
           IsFrame(g) /\ FrameFits(g, d) /\ g.kind = f.kind
<1> DEFINE list == Append(f.nodes, node)
           g == [f EXCEPT !.nodes = list]
<1>1. list \in Seq(NodesWithin[d])
  BY AppendProperties DEF FrameFits
<1> HIDE DEF list
<1>2. /\ IsFrame(g) /\ g.nodes = list /\ g.body = f.body /\ g.kind = f.kind
      /\ g.pipe = f.pipe /\ g.name = f.name /\ g.part = f.part
  BY NodesPut
<1> HIDE DEF g
<1>3. FrameFits(g, d)
  BY <1>1, <1>2 DEF FrameFits
<1> QED
  BY <1>2, <1>3 DEF g, list

\* A construct has one level more than what is inside.
LEMMA NodeFits ==
    ASSUME NEW f, IsFrame(f), f.kind \in Branches \union {"block"}, NEW d \in Nat, FrameFits(f, d)
    PROVE  NodeOf(f) \in NodesWithin[d + 1]
<1> DEFINE S == Seq(NodesWithin[d])
<1>1. NodesWithin[d + 1] = LeafNodes \union ConstructNodes(S)
  BY NodesDefined
<1>2. /\ f.nodes \in S /\ f.body \in S /\ f.pipe \in CompiledPipelines /\ <<>> \in S
      /\ f.kind = "block" => f.name \in Strings
  BY DEF FrameFits
<1> HIDE DEF S
<1>3. CASE f.kind = "block"
  <2>1. NodeOf(f) = Block(f.name, f.pipe, f.nodes)
    BY <1>3 DEF NodeOf
  <2>2. Block(f.name, f.pipe, f.nodes) \in [k : {"block"}, name : Strings, pipe : CompiledPipelines, body : S]
    BY <1>2, <1>3 DEF Block
  <2> QED
    BY <1>1, <2>1, <2>2 DEF ConstructNodes
<1>4. CASE f.kind \in Branches
  <2>1. \E b \in S, h \in BOOLEAN, e \in S : NodeOf(f) = Branch(f.kind, f.pipe, b, h, e)
    BY <1>2, <1>4 DEF NodeOf, Branches
  <2>2. NodeOf(f) \in [k : {"if", "with", "range"}, pipe : CompiledPipelines,
                       body : S, hasElse : BOOLEAN, els : S]
    BY <1>2, <1>4, <2>1 DEF Branch, Branches
  <2> QED
    BY <1>1, <2>2 DEF ConstructNodes
<1> QED
  BY <1>3, <1>4

\* The nodes that an {{end}} makes, from the innermost frame outwards.
ClosedNode(node, i) == NodeOf([stack[Len(stack) - i] EXCEPT !.nodes = Append(@, node)])
Closing == INSTANCE FoldTheorems WITH Op <- ClosedNode

LEMMA NodesClosed ==
    ASSUME Len(stack) \in Nat, NEW k \in 1 .. Len(stack) - 1
    PROVE  \E node :
             /\ CloseTo(k) = [SubSeq(stack, 1, k) EXCEPT ![k].nodes = Append(@, node[k + 1])]
             /\ node[Len(stack)] = NodeOf(stack[Len(stack)])
             /\ \A j \in k .. Len(stack) - 1 :
                   node[j] = NodeOf([stack[j] EXCEPT !.nodes = Append(@, node[j + 1])])
<1> DEFINE n == Len(stack)
           base == NodeOf(stack[n])
           step(j, x) == NodeOf([stack[j] EXCEPT !.nodes = Append(@, x)])
<1>1. n \in Nat /\ k \in Nat \ {0} /\ k < n /\ n - k \in Nat
  OBVIOUS
<1>2. PICK f : Closing!DescendsTo(f, base, n - k)
  BY <1>1, Closing!DescendsToEach
<1>3. f = [i \in 0 .. n - k |-> IF i = 0 THEN base ELSE step(n - i, f[i - 1])]
  BY <1>2 DEF Closing!DescendsTo, ClosedNode
<1> DEFINE last(j) == NodeOf(stack[j])
<1>4. last(n) = base
  OBVIOUS
<1> HIDE DEF step, base, n, last
<1> DEFINE e == [j \in k .. n |-> f[n - j]]
<1>5. ASSUME NEW j \in k .. n
      PROVE  e[j] = IF j = n THEN last(j) ELSE step(j, e[j + 1])
  <2>1. CASE j = n
    <3>1. n - j = 0 /\ 0 \in 0 .. n - k
      BY <1>1, <2>1
    <3>2. e[j] = base
      BY <1>3, <3>1
    <3> QED
      BY <1>4, <2>1, <3>2
  <2>2. CASE j # n
    <3>1. /\ n - j \in 0 .. n - k /\ n - j # 0 /\ n - (n - j) = j
          /\ j + 1 \in k .. n /\ (n - j) - 1 = n - (j + 1)
      BY <1>1, <2>2
    <3>2. f[n - j] = step(j, f[n - (j + 1)])
      BY <1>3, <3>1
    <3> QED
      BY <2>2, <3>1, <3>2
  <2> QED
    BY <2>1, <2>2
<1>6. e = [j \in k .. n |-> e[j]]
  OBVIOUS
<1> HIDE DEF e
<1>7. e = [j \in k .. n |-> IF j = n THEN last(j) ELSE step(j, e[j + 1])]
  BY <1>5, <1>6
<1> DEFINE node == CHOOSE g : g = [j \in k .. n |-> IF j = n THEN last(j) ELSE step(j, g[j + 1])]
<1>8. node = [j \in k .. n |-> IF j = n THEN last(j) ELSE step(j, node[j + 1])]
  BY <1>7, Zenon
<1>9. CloseTo(k) = [SubSeq(stack, 1, k) EXCEPT ![k].nodes = Append(@, node[k + 1])]
  BY DEF CloseTo, n, last, step
<1> HIDE DEF node
<1>10. node[n] = base
  BY <1>1, <1>4, <1>8
<1>11. ASSUME NEW j \in k .. n - 1
       PROVE  node[j] = step(j, node[j + 1])
  <2>1. j \in k .. n /\ j # n
    BY <1>1
  <2> QED
    BY <1>8, <2>1
<1> QED
  BY <1>9, <1>10, <1>11 DEF n, base, step

LEMMA ClosedFits ==
    ASSUME StackInv(stack), NEW d, StackFits(stack, d), NEW k \in 1 .. Len(stack) - 1,
           \A j \in k + 1 .. Len(stack) : stack[j].kind \in Branches \union {"block"}
    PROVE  StackFits(CloseTo(k), d + Len(stack) - k) /\ Len(CloseTo(k)) = k
<1> DEFINE n == Len(stack)
<1>1. n \in Nat /\ k \in Nat \ {0} /\ k < n /\ d \in Nat
  BY SequenceFacts DEF StackInv, StackFits
<1>2. \A j \in 1 .. n : IsFrame(stack[j]) /\ FrameFits(stack[j], d)
  BY DEF StackInv, StackFits
<1>3. PICK node :
        /\ CloseTo(k) = [SubSeq(stack, 1, k) EXCEPT ![k].nodes = Append(@, node[k + 1])]
        /\ node[n] = NodeOf(stack[n])
        /\ \A j \in k .. n - 1 : node[j] = NodeOf([stack[j] EXCEPT !.nodes = Append(@, node[j + 1])])
  BY <1>1, NodesClosed
<1> DEFINE T == {i \in Nat : i < n - k => node[n - i] \in NodesWithin[d + i + 1]}
<1>4. 0 \in T
  <2>1. n \in 1 .. n /\ n \in k + 1 .. n /\ n - 0 = n /\ d + 0 + 1 = d + 1
    BY <1>1
  <2>2. NodeOf(stack[n]) \in NodesWithin[d + 1]
    BY <1>1, <1>2, <2>1, NodeFits
  <2> QED
    BY <1>3, <2>1, <2>2
<1>5. ASSUME NEW i \in Nat, i \in T
      PROVE  i + 1 \in T
  <2> DEFINE j == n - (i + 1)
             e == d + i + 1
  <2>1. SUFFICES ASSUME i + 1 < n - k
                 PROVE  node[j] \in NodesWithin[d + (i + 1) + 1]
    OBVIOUS
  <2>2. /\ j \in 1 .. n /\ j \in k .. n - 1 /\ j \in k + 1 .. n /\ j + 1 = n - i
        /\ e \in Nat /\ d <= e /\ e + 1 = d + (i + 1) + 1 /\ i < n - k
    BY <1>1, <2>1
  <2>3. node[j + 1] \in NodesWithin[e]
    BY <1>5, <2>2
  <2> HIDE DEF j, e
  <2> DEFINE f == stack[j]
             g == [f EXCEPT !.nodes = Append(f.nodes, node[j + 1])]
  <2>4. IsFrame(f) /\ FrameFits(f, e) /\ f.kind \in Branches \union {"block"}
    BY <1>1, <1>2, <2>2, FitsMore
  <2>5. IsFrame(g) /\ FrameFits(g, e) /\ g.kind = f.kind
    BY <2>2, <2>3, <2>4, NodeJoins
  <2>6. node[j] = NodeOf(g)
    BY <1>3, <2>2
  <2> HIDE DEF g
  <2>7. NodeOf(g) \in NodesWithin[e + 1]
    BY <2>2, <2>4, <2>5, NodeFits
  <2> QED
    BY <2>2, <2>6, <2>7
<1> HIDE DEF T
<1>6. \A i \in Nat : i \in T
  BY <1>4, <1>5, Deepening!Induct
<1> DEFINE r == SubSeq(stack, 1, k)
           h == d + n - k
<1>7. node[k + 1] \in NodesWithin[h] /\ h \in Nat /\ d <= h
  <2>1. n - k - 1 \in Nat /\ n - k - 1 < n - k /\ n - (n - k - 1) = k + 1 /\ d + (n - k - 1) + 1 = h
    BY <1>1
  <2>2. n - k - 1 \in T
    BY <1>6, <2>1
  <2>3. h \in Nat /\ d <= h
    BY <1>1
  <2> QED
    BY <2>1, <2>2, <2>3 DEF T
<1>8. /\ IsSequence(r) /\ Len(r) = k /\ DOMAIN r = 1 .. k /\ k \in 1 .. k /\ k \in 1 .. n
      /\ \A i \in 1 .. k : i \in 1 .. n /\ r[i] = stack[i]
  BY <1>1, Shortened, SequenceFacts DEF StackInv
<1> HIDE DEF r, h, n
<1> DEFINE x == [stack[k] EXCEPT !.nodes = Append(stack[k].nodes, node[k + 1])]
<1>9. CloseTo(k) = [r EXCEPT ![k] = x]
  BY <1>3, <1>8 DEF r
<1>10. FrameFits(x, h)
  <2>1. IsFrame(stack[k]) /\ FrameFits(stack[k], h)
    BY <1>1, <1>2, <1>7, <1>8, FitsMore
  <2> QED
    BY <1>7, <2>1, NodeJoins
<1> HIDE DEF x
<1>11. Len([r EXCEPT ![k] = x]) = k /\ \A i \in 1 .. k : [r EXCEPT ![k] = x][i] = IF i = k THEN x ELSE r[i]
  BY <1>8, Replaced
<1>12. \A i \in 1 .. k : FrameFits(stack[i], h)
  BY <1>1, <1>2, <1>7, <1>8, FitsMore
<1>13. StackFits(CloseTo(k), h) /\ Len(CloseTo(k)) = k
  BY <1>7, <1>8, <1>9, <1>10, <1>11, <1>12 DEF StackFits
<1> QED
  BY <1>13 DEF h, n

\* What the parser's steps do to the stack and the definitions.
LEMMA TopFits ==
    ASSUME ParserInv, TreeInv
    PROVE  LET n == Len(stack)
               d == items + 1 - n
           IN /\ n \in Nat \ {0} /\ d \in Nat /\ d + n = items + 1 /\ items \in Nat
              /\ StackFits(stack, d)
              /\ Top = stack[n] /\ IsFrame(Top) /\ FrameFits(Top, d)
<1>1. /\ Len(stack) \in Nat \ {0} /\ Top = stack[Len(stack)] /\ IsFrame(Top)
  BY TopFacts
<1>2. StackFits(stack, items + 1 - Len(stack)) /\ items \in Nat
  BY DEF TreeInv
<1>3. Len(stack) \in 1 .. Len(stack)
  BY <1>1
<1> QED
  BY <1>1, <1>2, <1>3 DEF StackFits

LEMMA TopChanged ==
    ASSUME ParserInv, NEW d, StackFits(stack, d), NEW f, FrameFits(f, d)
    PROVE  LET t == [stack EXCEPT ![Len(stack)] = f] IN
           StackFits(t, d) /\ Len(t) = Len(stack) /\ IsSequence(t)
<1> DEFINE n == Len(stack)
<1>1. n \in Nat \ {0} /\ n \in 1 .. n /\ IsSequence(stack)
  BY SequenceFacts DEF ParserInv, StackInv
<1>2. /\ IsSequence([stack EXCEPT ![n] = f]) /\ Len([stack EXCEPT ![n] = f]) = n
      /\ \A i \in 1 .. n : [stack EXCEPT ![n] = f][i] = IF i = n THEN f ELSE stack[i]
  BY <1>1, Replaced
<1> DEFINE t == [stack EXCEPT ![n] = f]
<1> HIDE DEF t
<1>3. IsSequence(t) /\ Len(t) = n /\ \A i \in 1 .. n : t[i] = IF i = n THEN f ELSE stack[i]
  BY <1>2 DEF t
<1>4. StackFits(t, d)
  BY <1>3 DEF StackFits
<1> QED
  BY <1>3, <1>4 DEF t

LEMMA FramePushed ==
    ASSUME NEW s, IsSequence(s), NEW d, StackFits(s, d), NEW f, FrameFits(f, d)
    PROVE  StackFits(Append(s, f), d) /\ Len(Append(s, f)) = Len(s) + 1
<1> DEFINE t == Append(s, f)
           n == Len(s)
<1>1. /\ n \in Nat /\ Len(t) = n + 1 /\ t[n + 1] = f
      /\ \A i \in 1 .. n : t[i] = s[i]
  BY Appended, SequenceFacts
<1> HIDE DEF t
<1>2. \A i \in 1 .. n + 1 : i = n + 1 \/ i \in 1 .. n
  BY <1>1
<1>3. \A i \in 1 .. n : FrameFits(s[i], d)
  BY DEF StackFits
<1>4. \A i \in 1 .. n + 1 : FrameFits(t[i], d)
  BY <1>1, <1>2, <1>3
<1> QED
  BY <1>1, <1>4 DEF StackFits, t

LEMMA FrameStarts ==
    ASSUME NEW kind, NEW name, NEW pipe, NEW depth, NEW chained, NEW d,
           kind \in Branches \union {"block"} => pipe \in CompiledPipelines,
           kind = "block" => name \in Strings
    PROVE  FrameFits(Frame(kind, name, pipe, depth, chained), d)
<1> DEFINE f == Frame(kind, name, pipe, depth, chained)
<1>1. /\ f.kind = kind /\ f.name = name /\ f.pipe = pipe /\ f.part = "body"
      /\ f.body = <<>> /\ f.nodes = <<>>
  BY DEF Frame
<1> HIDE DEF f
<1>2. <<>> \in Seq(NodesWithin[d])
  OBVIOUS
<1> QED
  BY <1>1, <1>2 DEF FrameFits, f

LEMMA ElseFits ==
    ASSUME NEW f, IsFrame(f), f.kind \in Branches, NEW d, FrameFits(f, d)
    PROVE  FrameFits(ToElse(f), d)
<1> DEFINE e == ToElse(f)
           list == f.nodes
<1>1. f = [kind |-> f.kind, name |-> f.name, pipe |-> f.pipe, depth |-> f.depth,
           chained |-> f.chained, part |-> f.part, body |-> f.body, nodes |-> list]
  BY DEF IsFrame
<1>2. list \in Seq(NodesWithin[d]) /\ <<>> \in Seq(NodesWithin[d]) /\ f.pipe \in CompiledPipelines
  BY DEF FrameFits
<1>3. e = [[[f EXCEPT !.part = "else"] EXCEPT !.body = list] EXCEPT !.nodes = <<>>]
  BY DEF ToElse
<1> HIDE DEF e, list
<1>4. e.body = list /\ e.nodes = <<>> /\ e.kind = f.kind /\ e.pipe = f.pipe
  BY <1>1, <1>3
<1>5. f.kind # "block"
  BY DEF Branches
<1> QED
  BY <1>2, <1>4, <1>5 DEF FrameFits, e

LEMMA DefinitionFits ==
    ASSUME DefinitionsInv, NEW S, \A k \in DOMAIN definitions : definitions[k].body \in S,
           NEW d, d.body \in S
    PROVE  \A k \in DOMAIN AddDefinition(d) : AddDefinition(d)[k].body \in S
<1> DEFINE n == Len(definitions)
           new == AddDefinition(d)
<1>1. IsSequence(definitions) /\ n \in Nat /\ DOMAIN definitions = 1 .. n
  BY SequenceFacts DEF DefinitionsInv
<1>2. CASE ~Defined(d)
  <2>1. new = Append(definitions, d)
    BY <1>2 DEF AddDefinition
  <2> HIDE DEF new
  <2>2. /\ IsSequence(new) /\ Len(new) = n + 1
        /\ \A i \in 1 .. n : new[i] = definitions[i]
        /\ new[n + 1] = d
    BY <1>1, <2>1, Appended
  <2>3. DOMAIN new = 1 .. n + 1 /\ \A i \in 1 .. n + 1 : i = n + 1 \/ i \in 1 .. n
    BY <1>1, <2>2, SequenceFacts
  <2> QED
    BY <1>1, <2>2, <2>3 DEF new
<1>3. CASE Defined(d)
  <2>1. new = [k \in DOMAIN definitions |->
                 IF definitions[k].name = d.name /\ ~IsEmptyList(d.body) THEN d ELSE definitions[k]]
    BY <1>3 DEF AddDefinition
  <2> HIDE DEF new
  <2> QED
    BY <2>1 DEF new
<1> QED
  BY <1>2, <1>3

----------------------------------------------------------------------------
(* TreeInv is an invariant.                                                *)

LEMMA TreeStart ==
    ASSUME Init
    PROVE  TreeInv
<1>1. stack = << RootFrame >> /\ definitions = <<>> /\ items = 0
  BY DEF Init
<1>2. FrameFits(RootFrame, 0)
  <2>1. "root" \notin Branches \union {"block"} /\ "root" # "block"
    BY DEF Branches
  <2> QED
    BY <2>1, FrameStarts DEF RootFrame
<1> HIDE DEF RootFrame
<1>3. Len(stack) = 1 /\ stack[1] = RootFrame /\ items + 1 - Len(stack) = 0
  BY <1>1
<1>4. \A k \in 1 .. 1 : k = 1
  OBVIOUS
<1>5. StackFits(stack, 0)
  BY <1>2, <1>3, <1>4 DEF StackFits
<1>6. DOMAIN definitions = {}
  BY <1>1
<1> QED
  BY <1>1, <1>3, <1>5, <1>6, ParserAssumption DEF TreeInv

LEMMA MoreItems ==
    ASSUME TreeInv
    PROVE  \A k \in DOMAIN definitions : definitions[k].body \in Seq(NodesWithin[items + 1])
<1>1. Seq(NodesWithin[items]) \subseteq Seq(NodesWithin[items + 1])
  BY LevelsNested DEF TreeInv
<1> QED
  BY <1>1 DEF TreeInv

LEMMA Consumed ==
    ASSUME TreeInv, Consume, StackFits(stack', items + 2 - Len(stack')),
           \A k \in DOMAIN definitions' : definitions'[k].body \in Seq(NodesWithin[items + 1])
    PROVE  TreeInv'
<1>1. items \in Nat /\ items < MaxItems /\ items' = items + 1 /\ (items + 1) + 1 = items + 2
  BY DEF TreeInv, Consume
<1>2. items + 1 \in Nat /\ items + 1 <= MaxItems
  BY <1>1, ParserAssumption
<1>3. StackFits(stack', (items + 1) + 1 - Len(stack'))
  BY <1>1
<1> QED
  BY <1>1, <1>2, <1>3 DEF TreeInv

\* The rejected sources keep what was read.
LEMMA StackStays ==
    ASSUME ParserInv, TreeInv, Consume, stack' = stack, definitions' = definitions
    PROVE  TreeInv'
<1> DEFINE n == Len(stack)
           d == items + 1 - n
<1>1. n \in Nat \ {0} /\ d \in Nat /\ d + n = items + 1 /\ items \in Nat /\ StackFits(stack, d)
  BY TopFits
<1>2. d + 1 = items + 2 - n /\ d + 1 \in Nat /\ d <= d + 1
  BY <1>1
<1>3. StackFits(stack, d + 1)
  BY <1>1, <1>2, StackFitsMore
<1> QED
  BY <1>2, <1>3, MoreItems, Consumed

LEMMA LeafJoins ==
    ASSUME ParserInv, TreeInv, Consume, NEW node \in LeafNodes, AddNode(node)
    PROVE  TreeInv'
<1> DEFINE n == Len(stack)
           d == items + 1 - n
           f == [Top EXCEPT !.nodes = Append(Top.nodes, node)]
<1>1. /\ n \in Nat \ {0} /\ d \in Nat /\ d + n = items + 1 /\ items \in Nat
      /\ StackFits(stack, d) /\ Top = stack[n] /\ IsFrame(Top) /\ FrameFits(Top, d)
  BY TopFits
<1>2. node \in NodesWithin[d]
  <2>1. d \in Nat /\ 0 \in Nat /\ 0 <= d
    BY <1>1
  <2> HIDE DEF d
  <2>2. NodesWithin[0] \subseteq NodesWithin[d]
    BY <2>1, LevelsNested
  <2> QED
    BY <2>2, NodesDefined
<1>3. stack' = [stack EXCEPT ![n] = f] /\ definitions' = definitions
  <2>1. stack' = [stack EXCEPT ![n].nodes = Append(@, node)]
    BY DEF AddNode
  <2>2. n \in DOMAIN stack
    BY <1>1, SequenceFacts DEF ParserInv, StackInv
  <2> QED
    BY <1>1, <2>1, <2>2 DEF AddNode
<1> HIDE DEF n, d
<1>4. FrameFits(f, d)
  BY <1>1, <1>2, NodeJoins
<1> HIDE DEF f
<1>5. StackFits(stack', d) /\ Len(stack') = n
  BY <1>1, <1>3, <1>4, TopChanged DEF n
<1>6. d + 1 = items + 2 - n /\ d + 1 \in Nat /\ d <= d + 1
  BY <1>1
<1>7. StackFits(stack', d + 1)
  BY <1>1, <1>5, <1>6, StackFitsMore
<1> QED
  BY <1>3, <1>5, <1>6, <1>7, MoreItems, Consumed

LEMMA ConstructPushed ==
    ASSUME ParserInv, TreeInv, Consume, NEW f, definitions' = definitions,
           NEW s, IsSequence(s), Len(s) = Len(stack), StackFits(s, items + 1 - Len(stack)),
           FrameFits(f, items + 1 - Len(stack)), stack' = Append(s, f)
    PROVE  TreeInv'
<1> DEFINE n == Len(stack)
           d == items + 1 - n
<1>1. n \in Nat \ {0} /\ d \in Nat /\ d + n = items + 1 /\ items \in Nat
  BY TopFits
<1>2. StackFits(stack', d) /\ Len(stack') = n + 1
  BY FramePushed
<1>3. d = items + 2 - (n + 1)
  BY <1>1
<1> QED
  BY <1>2, <1>3, MoreItems, Consumed

LEMMA ConstructStarts ==
    ASSUME ParserInv, TreeInv, Consume, NEW kind, NEW name, NEW pipe, NEW depth, NEW chained,
           kind \in Branches \union {"block"} => pipe \in Pipelines,
           kind = "block" => name \in DefinitionNames,
           Open(kind, name, pipe, depth, chained)
    PROVE  TreeInv'
<1> DEFINE f == Frame(kind, name, pipe, depth, chained)
           d == items + 1 - Len(stack)
<1>1. stack' = Append(stack, f) /\ definitions' = definitions
  BY DEF Open
<1>2. StackFits(stack, d) /\ IsSequence(stack)
  BY TopFits DEF ParserInv, StackInv
<1>3. FrameFits(f, d)
  BY FrameStarts, FrontEndAssumption
<1> HIDE DEF f, d
<1> QED
  BY <1>1, <1>2, <1>3, ConstructPushed DEF d

LEMMA ElseReadFits ==
    ASSUME ParserInv, TreeInv, AcceptsElse
    PROVE  LET t == [stack EXCEPT ![Len(stack)] = ToElse(@)] IN
           StackFits(t, items + 1 - Len(stack)) /\ Len(t) = Len(stack) /\ IsSequence(t)
<1> DEFINE n == Len(stack)
           d == items + 1 - n
           t == [stack EXCEPT ![n] = ToElse(@)]
<1>1. /\ n \in Nat \ {0} /\ StackFits(stack, d)
      /\ Top = stack[n] /\ IsFrame(Top) /\ FrameFits(Top, d)
  BY TopFits
<1>2. FrameFits(ToElse(Top), d)
  BY <1>1, ElseFits DEF AcceptsElse
<1>3. n \in DOMAIN stack
  BY <1>1, SequenceFacts DEF ParserInv, StackInv
<1> HIDE DEF d
<1>4. t = [stack EXCEPT ![n] = ToElse(Top)]
  BY <1>1, <1>3
<1>5. LET u == [stack EXCEPT ![n] = ToElse(Top)] IN
      StackFits(u, d) /\ Len(u) = n /\ IsSequence(u)
  BY <1>1, <1>2, TopChanged
<1> HIDE DEF t
<1>6. StackFits(t, d) /\ Len(t) = n /\ IsSequence(t)
  BY <1>4, <1>5
<1> QED
  BY <1>6 DEF t, d, n

LEMMA ElseStep ==
    ASSUME ParserInv, TreeInv, ParseElse
    PROVE  TreeInv'
<1>1. CASE Reject
  BY <1>1, StackStays DEF Reject, ParseElse
<1>2. CASE ~Reject
  <2> DEFINE n == Len(stack)
             d == items + 1 - n
  <2>1. /\ AcceptsElse /\ stack' = [stack EXCEPT ![n] = ToElse(@)]
        /\ definitions' = definitions /\ Consume
    BY <1>2 DEF ParseElse
  <2>2. n \in Nat \ {0} /\ d \in Nat /\ d + n = items + 1 /\ items \in Nat
    BY TopFits
  <2>3. StackFits(stack', d) /\ Len(stack') = n
    BY <2>1, ElseReadFits
  <2>4. d + 1 = items + 2 - n /\ d + 1 \in Nat /\ d <= d + 1
    BY <2>2
  <2>5. StackFits(stack', d + 1)
    BY <2>2, <2>3, <2>4, StackFitsMore
  <2> QED
    BY <2>1, <2>3, <2>4, <2>5, MoreItems, Consumed
<1> QED
  BY <1>1, <1>2

LEMMA ElseBranchStep ==
    ASSUME ParserInv, TreeInv, ParseElseBranch
    PROVE  TreeInv'
<1>0. Consume
  BY DEF ParseElseBranch
<1>1. CASE Reject
  BY <1>0, <1>1, StackStays DEF Reject
<1>2. CASE ~Reject
  <2> DEFINE n == Len(stack)
             d == items + 1 - n
             t == [stack EXCEPT ![n] = ToElse(@)]
  <2>1. PICK kind \in {"if", "with"}, p \in Pipelines :
          /\ AcceptsElse /\ stack' = Append(t, Frame(kind, "", p, Top.depth, TRUE))
          /\ definitions' = definitions
    BY <1>2 DEF ParseElseBranch
  <2>2. StackFits(t, d) /\ Len(t) = n /\ IsSequence(t)
    BY <2>1, ElseReadFits
  <2> DEFINE f == Frame(kind, "", p, Top.depth, TRUE)
  <2>3. FrameFits(f, d)
    <3>1. kind # "block" /\ p \in CompiledPipelines
      BY FrontEndAssumption
    <3> QED
      BY <3>1, FrameStarts
  <2>4. stack' = Append(t, f)
    BY <2>1
  <2> HIDE DEF f, t
  <2> QED
    BY <1>0, <2>1, <2>2, <2>3, <2>4, ConstructPushed
<1> QED
  BY <1>1, <1>2

(* The frames an {{end}} closes with the innermost one are in their else,  *)
(* so they are branches.                                                   *)
LEMMA ChainIsBranches ==
    ASSUME ParserInv, TreeInv, Top.kind \in Branches \union {"block"}, NEW k, Closed(k)
    PROVE  \A j \in k + 1 .. Len(stack) : stack[j].kind \in Branches \union {"block"}
<1> DEFINE n == Len(stack)
           d == items + 1 - n
<1>1. /\ n \in Nat \ {0} /\ StackFits(stack, d) /\ Top = stack[n] /\ StackInv(stack)
  BY TopFits DEF ParserInv
<1>2. k \in 1 .. n - 1 /\ \A j \in k + 2 .. n : stack[j].chained
  BY DEF Closed
<1> TAKE j \in k + 1 .. Len(stack)
<1> HIDE DEF n, d
<1>3. CASE j = n
  BY <1>1, <1>3
<1>4. CASE j # n
  <2>1. j + 1 \in k + 2 .. n /\ j + 1 \in 1 .. n /\ (j + 1) - 1 = j /\ j \in 1 .. n
    BY <1>1, <1>2, <1>4 DEF n
  <2>2. stack[j].part = "else"
    BY <1>1, <1>2, <2>1 DEF StackInv, ChainsContinue, n
  <2>3. FrameFits(stack[j], d)
    BY <1>1, <2>1 DEF StackFits, n
  <2> QED
    BY <2>2, <2>3 DEF FrameFits
<1> QED
  BY <1>3, <1>4

(* Closing down to frame k leaves the levels of what is now inside it.     *)
LEMMA ConstructsClosed ==
    ASSUME ParserInv, TreeInv, Consume, NEW k \in 1 .. Len(stack) - 1, stack' = CloseTo(k),
           \A j \in k + 1 .. Len(stack) : stack[j].kind \in Branches \union {"block"},
           \A j \in DOMAIN definitions' : definitions'[j].body \in Seq(NodesWithin[items + 1])
    PROVE  TreeInv'
<1> DEFINE n == Len(stack)
           d == items + 1 - n
           e == items + 2 - k
<1>1. n \in Nat \ {0} /\ d \in Nat /\ d + n = items + 1 /\ items \in Nat /\ StackFits(stack, d)
  BY TopFits
<1>2. d + n - k \in Nat /\ e \in Nat /\ d + n - k <= e
  BY <1>1
<1>3. StackFits(CloseTo(k), d + n - k) /\ Len(CloseTo(k)) = k
  BY <1>1, ClosedFits DEF ParserInv
<1> HIDE DEF n, d
<1>4. StackFits(stack', e)
  BY <1>2, <1>3, StackFitsMore
<1> QED
  BY <1>3, <1>4, Consumed

(* What a block or a definition defines has no more levels than were read. *)
LEMMA DefinedFits ==
    ASSUME ParserInv, TreeInv, definitions' = AddDefinition(Definition(Top.name, Top.nodes))
    PROVE  \A j \in DOMAIN definitions' : definitions'[j].body \in Seq(NodesWithin[items + 1])
<1> DEFINE n == Len(stack)
           d == items + 1 - n
           f == Definition(Top.name, Top.nodes)
           S == Seq(NodesWithin[items + 1])
<1>1. n \in Nat \ {0} /\ d \in Nat /\ d + n = items + 1 /\ items \in Nat /\ FrameFits(Top, d)
  BY TopFits
<1>2. d \in Nat /\ items + 1 \in Nat /\ d <= items + 1
  BY <1>1
<1> HIDE DEF n, d
<1>3. f.body \in S
  <2>1. f.body = Top.nodes
    BY DEF Definition
  <2>2. Seq(NodesWithin[d]) \subseteq S
    BY <1>2, LevelsNested
  <2> QED
    BY <1>1, <2>1, <2>2 DEF FrameFits
<1>4. \A j \in DOMAIN definitions : definitions[j].body \in S
  BY MoreItems
<1> HIDE DEF f, S
<1>5. \A j \in DOMAIN AddDefinition(f) : AddDefinition(f)[j].body \in S
  BY <1>3, <1>4, DefinitionFits DEF ParserInv
<1> QED
  BY <1>5 DEF f, S

(* The end of a definition leaves the frames around it as they are.        *)
LEMMA DefinitionClosed ==
    ASSUME ParserInv, TreeInv, Consume, Len(stack) > 1,
           stack' = SubSeq(stack, 1, Len(stack) - 1),
           \A j \in DOMAIN definitions' : definitions'[j].body \in Seq(NodesWithin[items + 1])
    PROVE  TreeInv'
<1> DEFINE n == Len(stack)
           d == items + 1 - n
           e == items + 2 - (n - 1)
<1>1. n \in Nat \ {0} /\ d \in Nat /\ d + n = items + 1 /\ items \in Nat /\ StackFits(stack, d)
  BY TopFits
<1>2. n - 1 \in 1 .. n /\ e \in Nat /\ d <= e
  BY <1>1
<1>3. Len(stack') = n - 1 /\ \A i \in 1 .. n - 1 : stack'[i] = stack[i]
  BY <1>2, Shortened DEF ParserInv, StackInv
<1>4. \A i \in 1 .. n - 1 : i \in 1 .. n
  BY <1>1
<1> HIDE DEF n, d
<1>5. StackFits(stack', d)
  BY <1>1, <1>3, <1>4 DEF StackFits, n
<1> HIDE DEF e
<1>6. StackFits(stack', e)
  BY <1>2, <1>5, StackFitsMore
<1> QED
  BY <1>3, <1>6, Consumed DEF e

LEMMA EndStep ==
    ASSUME ParserInv, TreeInv, ParseEnd
    PROVE  TreeInv'
<1> DEFINE n == Len(stack)
<1>0. Consume
  BY DEF ParseEnd
<1>1. CASE Reject
  BY <1>0, <1>1, StackStays DEF Reject
<1>2. /\ n \in Nat \ {0} /\ Top = stack[n] /\ IsFrame(Top)
      /\ (Top.kind # "root" => n > 1)
  BY TopFacts
<1>3. ASSUME Top.kind \in Branches, NEW k \in DOMAIN stack, Closed(k), stack' = CloseTo(k),
             definitions' = definitions
      PROVE  TreeInv'
  <2>1. \A j \in k + 1 .. n : stack[j].kind \in Branches \union {"block"}
    BY <1>3, ChainIsBranches
  <2>2. k \in 1 .. n - 1
    BY <1>3 DEF Closed
  <2>3. \A j \in DOMAIN definitions' : definitions'[j].body \in Seq(NodesWithin[items + 1])
    BY <1>3, MoreItems
  <2> QED
    BY <1>0, <1>3, <2>1, <2>2, <2>3, ConstructsClosed
<1>4. ASSUME Top.kind = "block", stack' = CloseTo(n - 1),
             definitions' = AddDefinition(Definition(Top.name, Top.nodes))
      PROVE  TreeInv'
  <2>1. n - 1 \in 1 .. n - 1 /\ \A j \in (n - 1) + 1 .. n : j = n
    BY <1>2, <1>4
  <2>2. \A j \in (n - 1) + 1 .. n : stack[j].kind \in Branches \union {"block"}
    BY <1>2, <1>4, <2>1
  <2>3. \A j \in DOMAIN definitions' : definitions'[j].body \in Seq(NodesWithin[items + 1])
    BY <1>4, DefinedFits
  <2> QED
    BY <1>0, <1>4, <2>1, <2>2, <2>3, ConstructsClosed
<1>5. ASSUME Top.kind = "define", stack' = SubSeq(stack, 1, n - 1),
             definitions' = AddDefinition(Definition(Top.name, Top.nodes))
      PROVE  TreeInv'
  <2>1. \A j \in DOMAIN definitions' : definitions'[j].body \in Seq(NodesWithin[items + 1])
    BY <1>5, DefinedFits
  <2> QED
    BY <1>0, <1>2, <1>5, <2>1, DefinitionClosed
<1>6. \/ Reject
      \/ /\ Top.kind \in Branches /\ definitions' = definitions
         /\ \E k \in DOMAIN stack : Closed(k) /\ stack' = CloseTo(k)
      \/ /\ Top.kind = "block" /\ stack' = CloseTo(n - 1)
         /\ definitions' = AddDefinition(Definition(Top.name, Top.nodes))
      \/ /\ Top.kind = "define" /\ stack' = SubSeq(stack, 1, n - 1)
         /\ definitions' = AddDefinition(Definition(Top.name, Top.nodes))
  <2>1. Top.kind \in FrameKinds
    BY <1>2 DEF IsFrame
  <2> QED
    BY <2>1 DEF ParseEnd, FrameKinds
<1> QED
  BY <1>1, <1>3, <1>4, <1>5, <1>6

LEMMA ReadStep ==
    ASSUME ParserInv, TreeInv, ParseText \/ ParseAction \/ ParseTemplateCall \/ ParseLoopControl
    PROVE  TreeInv'
<1>1. Consume
  BY DEF ParseText, ParseAction, ParseTemplateCall, ParseLoopControl
<1>2. CASE Reject
  BY <1>1, <1>2, StackStays DEF Reject
<1>3. ASSUME NEW node \in LeafNodes, AddNode(node)
      PROVE  TreeInv'
  BY <1>1, <1>3, LeafJoins
<1>4. CASE ParseText
  <2>1. Text \in LeafNodes /\ Blank \in LeafNodes
    <3>1. "" \in Strings
      BY DEF Strings
    <3> QED
      BY <3>1 DEF Text, Literal, LeafNodes
  <2> QED
    BY <1>3, <1>4, <2>1 DEF ParseText
<1>5. CASE ParseAction
  <2>1. \A p \in Pipelines : Action(p) \in LeafNodes
    BY FrontEndAssumption DEF Action, LeafNodes
  <2> QED
    BY <1>3, <1>5, <2>1 DEF ParseAction
<1>6. CASE ParseTemplateCall
  <2>1. \A m \in DefinitionNames, p \in Pipelines : Call(m, p) \in LeafNodes
    BY FrontEndAssumption DEF Call, LeafNodes
  <2> QED
    BY <1>3, <1>6, <2>1 DEF ParseTemplateCall
<1>7. CASE ParseLoopControl
  <2>1. Break \in LeafNodes /\ Continue \in LeafNodes
    BY DEF LeafNodes
  <2> QED
    BY <1>2, <1>3, <1>7, <2>1 DEF ParseLoopControl
<1> QED
  BY <1>4, <1>5, <1>6, <1>7

LEMMA OpenStep ==
    ASSUME ParserInv, TreeInv, ParseBranch \/ ParseBlock \/ ParseDefinition
    PROVE  TreeInv'
<1>1. Consume
  BY DEF ParseBranch, ParseBlock, ParseDefinition
<1>2. CASE Reject
  BY <1>1, <1>2, StackStays DEF Reject
<1>3. CASE ParseBranch
  <2>1. SUFFICES ASSUME NEW kind \in Branches, NEW p \in Pipelines,
                        Open(kind, "", p, Top.depth + 1, FALSE)
                 PROVE  TreeInv'
    BY <1>2, <1>3 DEF ParseBranch
  <2>2. kind # "block"
    BY DEF Branches
  <2> QED
    BY <1>1, <2>1, <2>2, ConstructStarts
<1>4. CASE ParseBlock
  <2>1. SUFFICES ASSUME NEW m \in DefinitionNames, NEW p \in Pipelines,
                        Open("block", m, p, Top.depth + 1, FALSE)
                 PROVE  TreeInv'
    BY <1>2, <1>4 DEF ParseBlock
  <2> QED
    BY <1>1, <2>1, ConstructStarts
<1>5. CASE ParseDefinition
  <2>1. SUFFICES ASSUME NEW m \in DefinitionNames, Open("define", m, NoPipe, 1, FALSE)
                 PROVE  TreeInv'
    BY <1>2, <1>5 DEF ParseDefinition
  <2>2. "define" \notin Branches \union {"block"} /\ "define" # "block"
    BY DEF Branches
  <2> QED
    BY <1>1, <2>1, <2>2, ConstructStarts
<1> QED
  BY <1>3, <1>4, <1>5

LEMMA TreeStep ==
    ASSUME ParserInv, TreeInv, [Next]_vars
    PROVE  TreeInv'
<1>1. CASE UNCHANGED <<stack, definitions, items>>
  BY <1>1 DEF TreeInv
<1>2. CASE ParseEOF \/ Finished \/ UNCHANGED vars
  BY <1>1, <1>2 DEF ParseEOF, Finished, vars
<1> QED
  BY <1>2, ReadStep, OpenStep, ElseStep, ElseBranchStep, EndStep DEF Next

\* The lists the parser is building and those it has finished are lists of
\* nodes with no more levels than items were read, whatever is open (parser.py
\* parse_list, parse_branch, parse_block, add_definition).
THEOREM TreesAreBounded == Spec => []TreeInv
<1>1. Init => TreeInv
  BY TreeStart
<1>2. ParserInv /\ TreeInv /\ [Next]_vars => TreeInv'
  BY TreeStep
<1> QED
  BY <1>1, <1>2, StackIsCounted, PTL DEF Spec

LEMMA TemplateVerified ==
    ASSUME NEW root \in Seq(NodesWithin[MaxLevels]), NEW list, IsSequence(list),
           \A k \in DOMAIN list : list[k].body \in Seq(NodesWithin[MaxLevels]),
           ~CompileTemplate(root, list).failed,
           NEW code \in CompileTemplate(root, list).codes
    PROVE  Verified(code, StackMap(code))
<1> DEFINE N == Len(list)
           first == [j \in DOMAIN list |-> CompileList(list[j].body)]
           last == << CompileList(root) >>
           programs == first \o last
<1>1. N \in Nat /\ DOMAIN list = 1 .. N
  BY SequenceFacts
<1>2. first \in Seq(CompilerStates) /\ Len(first) = N
  <2>1. \A j \in 1 .. N : CompileList(list[j].body) \in CompilerStates
    BY <1>1, ListVerified
  <2>2. first \in [1 .. N -> CompilerStates]
    BY <1>1, <2>1
  <2> HIDE DEF first, N
  <2> QED
    BY <1>1, <2>2
<1>3. last \in Seq(CompilerStates) /\ Len(last) = 1 /\ last[1] = CompileList(root)
  <2>1. CompileList(root) \in CompilerStates
    BY ListVerified
  <2> QED
    BY <2>1
<1>4. /\ CompileTemplate(root, list).codes = {programs[k].code : k \in DOMAIN programs}
      /\ CompileTemplate(root, list).failed = \E k \in DOMAIN programs : programs[k].failed
  BY DEF CompileTemplate
<1>5. PICK k \in DOMAIN programs : code = programs[k].code
  BY <1>4
<1>6. ~programs[k].failed
  BY <1>4
<1>7. \A j \in 1 .. N : first[j] = CompileList(list[j].body)
  BY <1>1
<1> HIDE DEF first, last, N
<1>8. /\ programs \in Seq(CompilerStates) /\ Len(programs) = N + 1
      /\ \A j \in 1 .. N + 1 : programs[j] = IF j <= N THEN first[j] ELSE last[j - N]
  <2>1. /\ programs \in Seq(CompilerStates) /\ Len(programs) = Len(first) + Len(last)
        /\ \A j \in 1 .. Len(first) + Len(last) :
              programs[j] = IF j <= Len(first) THEN first[j] ELSE last[j - Len(first)]
    BY <1>2, <1>3, ConcatProperties
  <2> HIDE DEF programs
  <2> QED
    BY <1>2, <1>3, <2>1
<1>9. k \in 1 .. N + 1
  BY <1>8
<1>10. PICK t \in Seq(NodesWithin[MaxLevels]) : programs[k] = CompileList(t)
  <2>1. CASE k <= N
    <3>1. k \in 1 .. N /\ k \in DOMAIN list
      BY <1>1, <1>9, <2>1
    <3>2. programs[k] = CompileList(list[k].body)
      BY <1>7, <1>8, <1>9, <2>1, <3>1
    <3> QED
      BY <3>1, <3>2
  <2>2. CASE ~(k <= N)
    <3>1. k - N = 1
      BY <1>1, <1>9, <2>2
    <3>2. programs[k] = CompileList(root)
      BY <1>3, <1>8, <1>9, <2>2, <3>1
    <3> QED
      BY <3>2
  <2> QED
    BY <2>1, <2>2
<1> QED
  BY <1>5, <1>6, <1>10, ListVerified

\* The code compiled from what the parser accepts passes the stack verification,
\* for every source, nesting limit and set of pipelines and names: every branch
\* is patched to the instruction it was left for (compiler.py patch_branch,
\* patch_jump, patch_range), and no path comes to a POP_SCOPE, EXIT_WITH,
\* NEXT_ITERATION or BREAK_RANGE without its operand.
THEOREM CodeIsVerified == Spec => []CompiledVerified
<1>1. ParserInv /\ TreeInv => CompiledVerified
  <2> SUFFICES ASSUME ParserInv, TreeInv, ~Result.failed, NEW code \in Result.codes
               PROVE  Verified(code, StackMap(code))
    BY DEF CompiledVerified
  <2>1. items \in Nat /\ MaxLevels \in Nat /\ items <= MaxLevels
    BY FrontEndAssumption, ParserAssumption, CompilerAssumption DEF TreeInv
  <2>2. Seq(NodesWithin[items]) \subseteq Seq(NodesWithin[MaxLevels])
    BY <2>1, LevelsNested
  <2>3. Top.nodes \in Seq(NodesWithin[MaxLevels])
    <3> DEFINE d == items + 1 - Len(stack)
    <3>1. d \in Nat /\ d <= items /\ FrameFits(Top, d)
      BY TopFits
    <3>2. d \in Nat /\ d <= MaxLevels
      BY <2>1, <3>1
    <3> HIDE DEF d
    <3>3. Seq(NodesWithin[d]) \subseteq Seq(NodesWithin[MaxLevels])
      BY <2>1, <3>2, LevelsNested
    <3> QED
      BY <3>1, <3>3 DEF FrameFits
  <2>4. \A k \in DOMAIN definitions : definitions[k].body \in Seq(NodesWithin[MaxLevels])
    BY <2>2 DEF TreeInv
  <2>5. IsSequence(definitions)
    BY DEF ParserInv, DefinitionsInv
  <2> QED
    BY <2>3, <2>4, <2>5, TemplateVerified DEF Result
<1> QED
  BY <1>1, StackIsCounted, TreesAreBounded, PTL
============================================================================
