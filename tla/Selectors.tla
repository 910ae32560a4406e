------------------------------ MODULE Selectors ------------------------------
(***************************************************************************)
(* Selectors of the css crate: how the text of a selector becomes a chain   *)
(* of compounds, how a chain is matched against an element, and what it     *)
(* weighs. There is no state here: the operators take the document.         *)
(*                                                                          *)
(* A document d is a record. d.nodes is a set of positive integers numbered *)
(* in document order; d.parent gives the parent of each, Doc for the root   *)
(* and NoParent for an element nobody attached; d.kind says "element",      *)
(* "text" or "comment"; d.tag and d.attrs describe the elements, and        *)
(* d.blank the texts that are empty. A name is a value; the text of an      *)
(* attribute is a sequence of letters, among them Space and Dash.           *)
(***************************************************************************)
EXTENDS Matching, SequencesExt

Bad == [kind |-> "bad"]       \* the None of the parsers
Space == "space"
Dash == "dash"

-----------------------------------------------------------------------------
(* Reading. A compound is given as the sequence of its parts: what stands   *)
(* between two of '.', '#', '[' and ':', with brackets kept whole.          *)

Pseudos == {"first-child", "last-child", "only-child", "first-of-type", "last-of-type",
            "root", "empty", "link", "hover", "focus"}
Operators == {"exists", "equals", "includes", "dash", "prefix", "suffix", "substring"}

(* The two halves of "an+b", or "odd" or "even" for the whole. A half that is not a number  *)
(* of Rust, as the "+" of "+n", is a word other than "", "-" and "none" (no n at all).      *)
ParseNth(raw) ==
  LET a == CASE raw.n = "" -> 1 [] raw.n = "-" -> -1 [] raw.n = "none" -> 0 [] OTHER -> raw.a
  IN  CASE raw.n = "odd"  -> [a |-> 2, b |-> 1]
        [] raw.n = "even" -> [a |-> 2, b |-> 0]
        [] raw.n = "+" \/ raw.junk -> Bad
        [] OTHER -> [a |-> a, b |-> raw.b]

RECURSIVE ParseCompound(_)
ParsePart(part, first) ==
  CASE part.kind \in {"tag", "universal"} -> IF first THEN part ELSE Bad
    [] part.kind \in {"class", "id"} -> IF part.name = <<>> THEN Bad ELSE part
    [] part.kind = "attribute" -> IF part.name = "" THEN Bad ELSE part
    [] part.kind = "pseudo" -> IF part.name \in Pseudos THEN part ELSE Bad
    [] part.kind = "nth-child" \/ part.kind = "nth-of-type" ->
         IF ParseNth(part.arg) = Bad THEN Bad ELSE [kind |-> part.kind, expr |-> ParseNth(part.arg)]
    [] part.kind = "not" ->
         IF ParseCompound(part.arg) = Bad THEN Bad ELSE [kind |-> "not", inner |-> ParseCompound(part.arg)]
    [] OTHER -> Bad                    \* a pseudo-element, another function, a stray character

ParseCompound(parts) ==
  LET simple == [i \in DOMAIN parts |-> ParsePart(parts[i], i = 1)]
  IN  IF parts = <<>> \/ Bad \in ToSet(simple) THEN Bad ELSE [kind |-> "compound", simple |-> simple]

Combinators == {"child", "next", "later"}

(* Commas split a list, and the pieces that do not parse are left out. A token is one of *)
(* Combinators or the parts of a compound; whitespace alone joins as "descendant". Of    *)
(* two combinators in a row the last counts, and one at the end counts for nothing.      *)
ParseSelector(tokens) ==
  LET Read(s, t) ==
        CASE t.kind = "combinator" -> [s EXCEPT !.pending = t.name]
          [] t.kind = "parts" ->
               [chain |-> Append(s.chain, [combinator |-> s.pending, compound |-> ParseCompound(t.parts)]),
                pending |-> "descendant"]
      read == FoldLeft(Read, [chain |-> <<>>, pending |-> "none"], tokens)
  IN  IF \/ tokens = <<>> \/ tokens[1].kind # "parts"
         \/ \E i \in DOMAIN read.chain : read.chain[i].compound = Bad
      THEN Bad
      ELSE [kind |-> "selector", chain |-> read.chain]

ParseSelectorList(pieces) == SelectSeq([i \in DOMAIN pieces |-> ParseSelector(pieces[i])],
                                       LAMBDA s : s # Bad)

-----------------------------------------------------------------------------
(* Weight: a triple compared from the left, the ids first                   *)

Weight(simple) ==
  CASE simple.kind = "universal" -> <<0, 0, 0>>
    [] simple.kind = "tag" -> <<0, 0, 1>>
    [] simple.kind = "id" -> <<1, 0, 0>>
    [] OTHER -> <<0, 1, 0>>

Plus(v, w) == [i \in 1 .. 3 |-> v[i] + w[i]]

RECURSIVE CompoundSpecificity(_)
CompoundSpecificity(compound) ==       \* :not() counts for its argument
  LET Of(s) == IF s.kind = "not" THEN CompoundSpecificity(s.inner) ELSE Weight(s)
  IN  FoldLeft(Plus, <<0, 0, 0>>, [i \in DOMAIN compound.simple |-> Of(compound.simple[i])])

Specificity(selector) ==
  FoldLeft(Plus, <<0, 0, 0>>,
           [i \in DOMAIN selector.chain |-> CompoundSpecificity(selector.chain[i].compound)])

-----------------------------------------------------------------------------
(* The element and its relatives                                            *)

Position(S, n) == Cardinality({s \in S : s <= n})        \* of n among S, counted from 1
SameType(d, n) == {s \in ElementSiblings(d, n) : d.tag[s] = d.tag[n]}

Words(text) ==
  {SubSeq(text, i, j) : <<i, j>> \in {<<i, j>> \in (1 .. Len(text)) \X (1 .. Len(text)) :
     /\ i <= j /\ \A k \in i .. j : text[k] # Space
     /\ i > 1 => text[i - 1] = Space
     /\ j < Len(text) => text[j + 1] = Space}}

AttributeMatches(d, n, op, name, v) ==
  /\ name \in DOMAIN d.attrs[n]
  /\ LET value == d.attrs[n][name]
     IN  CASE op = "exists" -> TRUE
           [] op = "equals" -> value = v
           [] op = "includes" -> v \in Words(value)
           [] op = "dash" -> value = v \/ IsPrefix(Append(v, Dash), value)
           [] op = "prefix" -> v # <<>> /\ IsPrefix(v, value)
           [] op = "suffix" -> v # <<>> /\ IsSuffix(v, value)
           [] op = "substring" -> v # <<>> /\ \E k \in 0 .. Len(value) - Len(v) : SubSeq(value, k + 1, k + Len(v)) = v

-----------------------------------------------------------------------------
(* Matching                                                                 *)

AbsInt(x) == IF x < 0 THEN -x ELSE x

(* position = a*n + b for some n >= 0, by Rust's truncating division and remainder.      *)
NthMatches(expr, position) ==
  IF expr.a = 0
  THEN position = expr.b
  ELSE LET diff == position - expr.b
       IN  AbsInt(diff) % AbsInt(expr.a) = 0 /\ diff * expr.a >= 0

RECURSIVE CompoundMatches(_, _, _)
PseudoMatches(d, n, pseudo) ==
  LET siblings == ElementSiblings(d, n)
  IN  CASE pseudo.kind = "not" -> ~CompoundMatches(d, n, pseudo.inner)
        [] pseudo.kind = "nth-child" -> n \in siblings /\ NthMatches(pseudo.expr, Position(siblings, n))
        [] pseudo.kind = "nth-of-type" -> n \in siblings /\ NthMatches(pseudo.expr, Position(SameType(d, n), n))
        [] pseudo.kind = "pseudo" ->
             CASE pseudo.name = "root" -> d.parent[n] = Doc
               [] pseudo.name = "empty" -> \A c \in ChildrenOf(d, n) :
                                             \/ d.kind[c] = "comment"
                                             \/ d.kind[c] = "text" /\ c \in d.blank
               [] pseudo.name = "link" -> d.tag[n] \in {"a", "area"} /\ "href" \in DOMAIN d.attrs[n]
               [] pseudo.name \in {"hover", "focus"} -> FALSE
               [] pseudo.name = "first-child" -> n \in siblings /\ n = Min(siblings)
               [] pseudo.name = "last-child" -> n \in siblings /\ n = Max(siblings)
               [] pseudo.name = "only-child" -> Cardinality(siblings) = 1
               [] pseudo.name = "first-of-type" -> n \in siblings /\ n = Min(SameType(d, n))
               [] pseudo.name = "last-of-type" -> n \in siblings /\ n = Max(SameType(d, n))

SimpleMatches(d, n, simple) ==
  CASE simple.kind = "universal" -> TRUE
    [] simple.kind = "tag" -> d.tag[n] = simple.name
    [] simple.kind = "id" -> AttributeMatches(d, n, "equals", "id", simple.name)
    [] simple.kind = "class" -> AttributeMatches(d, n, "includes", "class", simple.name)
    [] simple.kind = "attribute" -> AttributeMatches(d, n, simple.op, simple.name, simple.value)
    [] OTHER -> PseudoMatches(d, n, simple)

CompoundMatches(d, n, compound) ==
  n \in Elements(d) /\ \A i \in DOMAIN compound.simple : SimpleMatches(d, n, compound.simple[i])

SelectorMatches(d, n, selector) ==
  LET chain == selector.chain
      Suits(i) == {m \in d.nodes : CompoundMatches(d, m, chain[i].compound)}
  IN  ChainMatches(d, [i \in DOMAIN chain |-> chain[i].combinator], [i \in DOMAIN chain |-> Suits(i)], n)

Matches(d, n, pieces) == \E s \in ToSet(ParseSelectorList(pieces)) : SelectorMatches(d, n, s)
=============================================================================
