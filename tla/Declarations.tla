---------------------------- MODULE Declarations ----------------------------
(***************************************************************************)
(* Which declaration of a property counts (css crate, compute_style). A     *)
(* rule has a sequence of declarations, each a property and a value; weight *)
(* gives the rules whose selectors match what these weigh: a triple,        *)
(* compared from the left. A style maps the properties that have a value to *)
(* it; what the style attribute declares comes after all rules.             *)
(***************************************************************************)
EXTENDS Integers, Sequences, FiniteSets

NoStyle == [p \in {} |-> <<>>]
Set(style, p, v) == [q \in DOMAIN style \cup {p} |-> IF q = p THEN v ELSE style[q]]
SetAll(style, declarations) ==
  LET after[k \in 0 .. Len(declarations)] ==
        IF k = 0 THEN style ELSE Set(after[k - 1], declarations[k].property, declarations[k].value)
  IN  after[Len(declarations)]

Lighter(v, w) == \E i \in 1 .. 3 : v[i] < w[i] /\ \A j \in 1 .. i - 1 : v[j] = w[j]

Sorted(S, Before(_, _)) == [i \in 1 .. Cardinality(S) |-> CHOOSE x \in S : Cardinality({y \in S : Before(y, x)}) = i - 1]

(* The declarations of the rules that match, each known by its rule and its place in it;  *)
(* lighter ones are applied first, those of equal weight in their order.                  *)
Pushed(rules, weight) == UNION {{i} \X DOMAIN rules[i].declarations : i \in DOMAIN weight}

InOrder(x, y) == x[1] < y[1] \/ (x[1] = y[1] /\ x[2] < y[2])
Earlier(weight, x, y) == \/ Lighter(weight[x[1]], weight[y[1]])
                         \/ weight[x[1]] = weight[y[1]] /\ InOrder(x, y)

Declaration(rules, x) == rules[x[1]].declarations[x[2]]

DeclaredInOrder(rules, weight) ==      \* variant: the weights forgotten
  LET order == Sorted(Pushed(rules, weight), InOrder)
  IN  [k \in DOMAIN order |-> Declaration(rules, order[k])]

Declared(rules, weight) ==
  LET Before(x, y) == Earlier(weight, x, y)
      order == Sorted(Pushed(rules, weight), Before)
  IN  [k \in DOMAIN order |-> Declaration(rules, order[k])]

Specified(rules, weight, inline) == SetAll(SetAll(NoStyle, Declared(rules, weight)), inline)

-----------------------------------------------------------------------------
(* What the language says: of a property, the last declaration of the style attribute      *)
(* counts, and failing that the one nothing outweighs.                                     *)

Final(p, declarations) ==
  {j \in DOMAIN declarations : /\ declarations[j].property = p
                               /\ \A k \in DOMAIN declarations : declarations[k].property = p => k <= j}

Heaviest(p, rules, weight) ==
  {x \in Pushed(rules, weight) :
     /\ Declaration(rules, x).property = p
     /\ \A y \in Pushed(rules, weight) : Declaration(rules, y).property = p => y = x \/ Earlier(weight, y, x)}

SpecifiedWell(rules, weight, inline, style) ==
  /\ DOMAIN style = {Declaration(rules, x).property : x \in Pushed(rules, weight)}
                      \cup {inline[j].property : j \in DOMAIN inline}
  /\ \A p \in DOMAIN style :
       IF Final(p, inline) # {} THEN \E j \in Final(p, inline) : style[p] = inline[j].value
       ELSE \E x \in Heaviest(p, rules, weight) : style[p] = Declaration(rules, x).value
=============================================================================
