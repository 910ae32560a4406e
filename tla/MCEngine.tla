-------------------------------- MODULE MCEngine --------------------------------
(***************************************************************************)
(* Style and layout on bounded inputs: a behaviour picks one input, works    *)
(* out its styles or its page, and stops; the invariants compare the output   *)
(* with what the stylesheet language, or the picture, asks for. Or the        *)
(* browser's bars, on a canvas too narrow for the buttons, one too low for    *)
(* the tools, and one with room for both. Or the document of a page, as its   *)
(* scripts change it: the three share no state.                             *)
(***************************************************************************)
EXTENDS Painting, Bars, Dom

VARIABLES
  input,
  output   \* an option: of a sheet, its rules and every element's style; of a page, its boxes
vars == <<input, output>>

Pick(what) == input' = what /\ UNCHANGED output
Work(kinds) == input.kind \in kinds /\ output = {} /\ UNCHANGED input

-----------------------------------------------------------------------------
(* Documents *)

El(parent, tag) == [parent |-> parent, kind |-> "element", tag |-> tag, style |-> <<>>, words |-> <<>>, class |-> FALSE]
Styled(parent, tag, style) == [El(parent, tag) EXCEPT !.style = style]
Text(parent, words) == [El(parent, "") EXCEPT !.kind = "text", !.words = words]

Document(rows) ==
  [nodes |-> DOMAIN rows, parent |-> [n \in DOMAIN rows |-> rows[n].parent],
   kind |-> [n \in DOMAIN rows |-> rows[n].kind], tag |-> [n \in DOMAIN rows |-> rows[n].tag],
   attrs |-> [n \in DOMAIN rows |-> IF rows[n].class THEN [a \in {"class"} |-> <<"k">>] ELSE [a \in {} |-> <<>>]],
   blank |-> {n \in DOMAIN rows : rows[n].kind = "text" /\ rows[n].words = <<>>},
   words |-> [n \in DOMAIN rows |-> rows[n].words], inline |-> [n \in DOMAIN rows |-> rows[n].style],
   media |-> [n \in {n \in DOMAIN rows : rows[n].tag = "video"} |->
                [poster |-> 40, controls |-> TRUE, video |-> TRUE, duration |-> rows[n].parent]],
   images |-> [n \in {n \in DOMAIN rows : rows[n].tag = "img"} |-> [w |-> 20, h |-> 30]],
   inputs |-> [n \in {} |-> <<>>], checks |-> [n \in {} |-> FALSE],
   styles |-> {}, links |-> {}, css |-> [n \in {} |-> <<>>]]

D(p, v) == Decl(p, v)

-----------------------------------------------------------------------------
(* Selectors: a root, and four nodes below it in any shape.                 *)

UpFrom(shape, n) ==                    \* n and everything above it, down to the root
  LET Up[m \in 0 .. 5] == IF m = 0 THEN {} ELSE {m} \cup Up[IF m = 1 THEN 0 ELSE shape[m]] IN Up[n]
Shapes == {p \in [2 .. 5 -> 1 .. 4] : \A n \in 2 .. 5 : p[n] < n /\ p[n] \in UpFrom(p, n - 1)}
Nodes == <<El(0, "a"), El(0, "b"), [El(0, "a") EXCEPT !.class = TRUE], Text(0, <<1>>)>>
Picks == {p \in [2 .. 5 -> 1 .. 4] : p[2] = 1 /\ p[3] # 2 /\ p[4] # 3 /\ p[5] \in {1, 2}}
MatchingDocs ==
  {Document([n \in 1 .. 5 |-> IF n = 1 THEN El(0, "html") ELSE [Nodes[x[2][n]] EXCEPT !.parent = x[1][n]]]) :
     x \in {x \in Shapes \X Picks : \A n \in 2 .. 5 : x[1][n] > 1 => x[2][x[1][n]] # 4}}

Tag(t) == [kind |-> "parts", parts |-> <<TagPart(t)>>]
Anything == [kind |-> "parts", parts |-> <<[kind |-> "universal"]>>]
Klass == [kind |-> "parts", parts |-> <<[kind |-> "class", name |-> <<"k">>]>>]
Nth(n, a, b) == [kind |-> "parts", parts |-> <<[kind |-> "nth-child", arg |-> [n |-> n, a |-> a, b |-> b, junk |-> FALSE]]>>]
Not(t) == [kind |-> "parts", parts |-> <<TagPart("a"), [kind |-> "not", arg |-> t.parts]>>]
Comb(c) == IF c = "descendant" THEN <<>> ELSE <<[kind |-> "combinator", name |-> c]>>
Relations == {"descendant", "child", "next", "later"}

Chains ==
  {<<c>> : c \in {Anything, Klass, Not(Klass), Nth("odd", 0, 0), Nth("-", 0, 2), Nth("n", 2, -1), Nth("n", 3, 2), Nth("none", 0, 2)}}
  \cup {<<x>> \o Comb(c) \o <<y>> : x \in {Tag("a"), Klass, Nth("even", 0, 0)}, c \in Relations, y \in {Tag("b"), Anything}}
  \cup {<<Tag("a")>> \o Comb(c) \o <<x>> \o Comb(e) \o <<Anything>> : c \in Relations, x \in {Tag("b"), Anything}, e \in Relations}

\* What the language says of one compound, and of a chain of them.
Satisfies(d, n, part) ==
  LET place == Cardinality({s \in Elements(d) : d.parent[s] = d.parent[n] /\ s <= n})
      Steps(a, b) == \E k \in 0 .. 5 : place = a * k + b
      arg == part.arg
  IN  CASE part.kind = "tag" -> d.tag[n] = part.name
        [] part.kind = "universal" -> TRUE
        [] part.kind = "class" -> "class" \in DOMAIN d.attrs[n]
        [] part.kind = "not" -> "class" \notin DOMAIN d.attrs[n]
        [] part.kind = "nth-child" -> CASE arg.n = "odd" -> Steps(2, 1) [] arg.n = "even" -> Steps(2, 0)
                                        [] arg.n = "-" -> Steps(-1, arg.b) [] arg.n = "none" -> place = arg.b
                                        [] arg.n = "n" -> Steps(arg.a, arg.b)

Searched(d, n, chain) ==
  LET compounds == SelectSeq(chain, LAMBDA t : t.kind = "parts")
      k == Len(compounds)
      at == [i \in 1 .. k |-> CHOOSE j \in DOMAIN chain :
               /\ chain[j].kind = "parts" /\ Cardinality({x \in 1 .. j : chain[x].kind = "parts"}) = i]
      How(i) == CASE i = 1 -> "none" [] at[i] = at[i - 1] + 1 -> "descendant" [] OTHER -> chain[at[i - 1] + 1].name
      Suits(i) == {m \in Elements(d) : \A j \in DOMAIN compounds[i].parts : Satisfies(d, m, compounds[i].parts[j])}
  IN  Assigned(d, [i \in 1 .. k |-> How(i)], [i \in 1 .. k |-> Suits(i)], n)

(* A selector matches exactly the elements for which there is some way to give each of    *)
(* its compounds an element: trying ancestors and earlier siblings one by one, from the   *)
(* right, misses none and lets texts between two elements count for nothing.              *)
MatchingIsSearch ==
  input.kind = "matching" =>
    \A chain \in Chains, n \in Elements(input.doc) :
      SelectorMatches(input.doc, n, ParseSelector(chain)) <=> Searched(input.doc, n, chain)

ASSUME DocumentsAndChains ==           \* as the theorem about Matching takes them
  /\ \A d \in MatchingDocs : IsDocument(d)
  /\ \A chain \in Chains : LET c == ParseSelector(chain).chain IN \A i \in 2 .. Len(c) : c[i].combinator \in Joins

PickMatching == \E d \in MatchingDocs : Pick([kind |-> "matching", doc |-> d])

-----------------------------------------------------------------------------
(* Styles: <html><a class=k><b>, up to three blocks and two style attributes. *)

StyleDoc(inner, outer) ==
  Document(<<El(0, "html"), [Styled(1, "a", outer) EXCEPT !.class = TRUE], Styled(2, "b", inner)>>)

Marks == {<<D("color", W("red"))>>, <<D("color", W("blue")), D("width", Px(1))>>, <<D("font-size", <<Num(150, "%")>>)>>,
          <<D("width", Px(2)), D("font-size", Px(10)), D("width", Px(3))>>}
Targets == {<<<<Tag("a")>>>>, <<<<Tag("b")>>>>, <<<<Klass>>, <<Klass, Tag("b")>>>>, <<<<Anything>>>>}
Attributes == {<<>>, <<D("color", W("red")), D("font-size", <<Num(200, "em")>>)>>}
Sheets == UNION {[1 .. k -> {Block(t, m) : t \in Targets, m \in Marks}] : k \in 1 .. 2}
          \cup {<<Block(t, m)>> \o s : t \in {<<<<Klass>>>>}, m \in {<<D("color", W("red"))>>},
                s \in [1 .. 2 -> {Block(t, m) : t \in {<<<<Tag("a")>>>>, <<<<Anything>>>>}, m \in Marks}]}

RECURSIVE StyleOf(_, _, _)
StyleOf(d, n, rules) == ComputeStyle(d, n, rules, IF d.parent[n] = Doc THEN NoStyle ELSE StyleOf(d, d.parent[n], rules))

\* All that anybody declares for p of n, each with what it weighs.
Claims(d, n, p, rules) ==
  LET Weighs(selector) == LET parts == UNION {ToSet(c.compound.simple) : c \in ToSet(selector.chain)}
                          IN  10 * Cardinality({x \in parts : x.kind = "class"})
                                + Cardinality({x \in parts : x.kind = "tag"})
      Of(declarations, weight, i) ==
        {[weight |-> <<weight, i, j>>, value |-> declarations[j].value] :
           j \in {j \in DOMAIN declarations : declarations[j].property = p}}
  IN  Of(d.inline[n], 1000, 0)
        \cup UNION {Of(rules[i].declarations, Weighs(rules[i].selector), i) :
                      i \in {i \in DOMAIN rules : SelectorMatches(d, n, rules[i].selector)}}

Winner(claims) ==
  LET Beats(v, w) == \E i \in 1 .. 3 : v[i] > w[i] /\ \A j \in 1 .. i - 1 : v[j] = w[j]
  IN  {c.value : c \in {c \in claims : \A e \in claims : e = c \/ Beats(c.weight, e.weight)}}

RECURSIVE Expected(_, _, _, _)
Expected(d, n, p, rules) ==
  LET Given(own) == IF own = {} /\ p \in Inherited /\ d.parent[n] # Doc THEN Expected(d, d.parent[n], p, rules) ELSE own
  IN  Given(Winner(Claims(d, n, p, rules)))

RECURSIVE ExpectedSize(_, _, _)
ExpectedSize(d, n, rules) ==
  LET above == IF d.parent[n] = Doc THEN DefaultFontSize ELSE ExpectedSize(d, d.parent[n], rules)
      Means(t) == IF t.unit = "px" THEN t.n ELSE (above * t.n) \div 100
  IN  OrElse({Means(v[1]) : v \in Winner(Claims(d, n, "font-size", rules))}, above)

WellSpecified(d, n, rules) ==          \* with weights as the theorem about Declarations takes them
  LET weight == Weights(d, n, rules)
  IN  /\ \A i \in DOMAIN weight : weight[i] \in [1 .. 3 -> Nat]
      /\ SpecifiedWell(rules, weight, Inline(d, n), Specified(rules, weight, Inline(d, n)))

(* Each property has the value of the heaviest claim to it: the style attribute, then the  *)
(* more specific selector, then the later rule, then the later declaration; failing that   *)
(* the parent's value if it is inherited. A relative font size is of the parent's result.   *)
HeaviestWins ==
  input.kind = "style" =>
    \A o \in output : \A n \in Elements(input.doc) :
      /\ \A p \in {"color", "width"} : Raw(o.styles[n], p) = Expected(input.doc, n, p, o.rules)
      /\ FontSize(o.styles[n]) = ExpectedSize(input.doc, n, o.rules)
      /\ WellSpecified(input.doc, n, o.rules)

PickStyle ==
  \E sheet \in Sheets, inner \in Attributes, outer \in Attributes :
    Pick([kind |-> "style", sheet |-> sheet, doc |-> StyleDoc(inner, outer)])

Styles(d, rules) == [rules |-> rules, styles |-> [n \in Elements(d) |-> StyleOf(d, n, rules)]]
WorkOutStyles == Work({"style"}) /\ output' = {Styles(input.doc, ParseStylesheet(input.sheet))}

-----------------------------------------------------------------------------
(* Flow: a container and up to three things in it.                          *)

Rules == ParseStylesheet(UserAgentBlocks(W("blue"), W("red")))
TreeOf(doc) == OrElse(BuildTree(doc, 1, Rules, RootStyle(W("red"))), 0)
Pages == {"flow", "items", "positions", "media"}
LayOut == Work(Pages) /\ output' = {LayoutWithFocus(TreeOf(input.doc), input.width, {})}

\* A piece is a few rows; parent 0 is the container, k the k-th row of the piece.
WithPieces(container, pieces) ==
  LET Add(rows, piece) ==
        rows \o [i \in DOMAIN piece |-> [piece[i] EXCEPT !.parent = IF @ = 0 THEN 1 ELSE @ + Len(rows)]]
  IN  FoldLeft(Add, <<container>>, pieces)

Div(style, words) == <<Styled(0, "div", style), Text(1, words)>>
FlowPieces ==
  {<<Text(0, <<20, 30>>)>>, <<Text(0, <<>>)>>, <<El(0, "img")>>,
   <<El(0, "span"), Text(1, <<30>>), Text(1, <<20, 20>>)>>,
   Div(<<D("margin-top", Px(10)), D("margin-bottom", Px(6))>>, <<25>>),
   Div(<<D("clear", W("left"))>>, <<40, 40>>),
   <<El(0, "div"), Styled(1, "div", <<D("margin", Px(8))>>), Text(2, <<15>>)>>,
   Div(<<D("float", W("left")), D("width", Px(30))>>, <<20>>),
   Div(<<D("float", W("right")), D("width", Px(20)), D("height", Px(50))>>, <<10>>)}
Flows == UNION {[1 .. k -> FlowPieces] : k \in 1 .. 3}

Overlap(r, s) == r.x < s.x + s.w /\ s.x < r.x + r.w /\ r.y < s.y + s.h /\ s.y < r.y + r.h
Within(r, s) == s.x <= r.x /\ r.x + r.w <= s.x + s.w /\ s.y <= r.y /\ r.y + r.h <= s.y + s.h

\* The areas of the container's own inline content: every line, and every image.
OwnInline(b) ==
  LET all == {c \in ToSet(b.children) : IsInline(c)}
      inner == all \cup UNION {ToSet(c.children) : c \in all}
      LineRect(c, l) == Rect(l.x, l.y, TextWidth(l.words, c.size), LineHeight(c.size))
  IN  UNION {{LineRect(c, c.lines[i]) : i \in DOMAIN c.lines} : c \in inner}
        \cup {c.rect : c \in {c \in inner : c.image # {}}}

FloatsOf(b) == {c \in ToSet(b.children) : FloatOf(c.style) # "none"}

(* Words and images of a container neither cover one another nor a float beside them, nor  *)
(* leave it; every word is on one line, in its order; a block is below what came before    *)
(* it, adjoining blocks by the larger of their margins; and the container holds them all.   *)
FlowKeepsApart ==
  input.kind = "flow" => \A b \in output :
    LET blocks == [i \in DOMAIN b.children |-> b.children[i]]
        inFlow == {i \in DOMAIN blocks : blocks[i] \notin FloatsOf(b) /\ blocks[i].rect # NoRect}
        inlines == OwnInline(b)
        floats == {c.rect : c \in FloatsOf(b)}
        room == Rect(b.rect.x, b.rect.y, b.rect.w, b.rect.h)
    IN  /\ \A r \in inlines \cup floats : Within(r, room)
        /\ \A r \in inlines, s \in inlines \cup floats : r # s => ~ Overlap(r, s)
        /\ \A r \in floats, s \in floats : r # s => ~ Overlap(r, s)
        /\ \A c \in ToSet(AllBoxes(b)) :
             IsText(c) => FlattenSeq([i \in DOMAIN c.lines |-> c.lines[i].words]) = OrElse(c.text, <<>>)
        /\ \A i, j \in inFlow : i < j /\ ~ (IsInline(blocks[i]) /\ IsInline(blocks[j]))
             => Bottom(blocks[i]) <= blocks[j].rect.y
        /\ \A i \in DOMAIN blocks :
             {i, i + 1} \subseteq inFlow /\ ~ IsInline(blocks[i]) /\ ~ IsInline(blocks[i + 1])
               /\ ClearOf(blocks[i + 1].style) = "none"
             => blocks[i + 1].rect.y - Bottom(blocks[i]) = Most(BottomMargin(blocks[i]), TopMargin(blocks[i + 1]))
        /\ \A i \in inFlow : Bottom(blocks[i]) <= Bottom(b)

PickFlow ==
  \E pieces \in Flows, width \in {100, 140} :
    Pick([kind |-> "flow", doc |-> Document(WithPieces(El(0, "div"), pieces)), width |-> width])

-----------------------------------------------------------------------------
(* Items of a grid, or of a flex row.                                       *)

Item(declarations, w) == <<Styled(0, "div", declarations), Text(1, <<w>>)>>
SpanOf(p, n) == IF n = 1 THEN <<>> ELSE <<D(p, <<Word("span"), Num(n, "")>>)>>
GridItems ==
  {Item(SpanOf("grid-column", c) \o SpanOf("grid-row", r), 10) : c \in 1 .. 2, r \in 1 .. 2}
  \cup {Item(<<D("grid-area", W("nav"))>>, 20)}
Fr(n) == Num(n, "fr")
Areas == <<[kind |-> "areas", names |-> <<"head", "head", ".">>], [kind |-> "areas", names |-> <<".", "nav", ".">>]>>
Grids ==
  {<<D("display", W("grid")), D("grid-template-columns", columns), D("gap", gap)>> \o areas :
     columns \in {<<Fr(1), Fr(1), Fr(2)>>, <<Num(30, "px"), Fr(1)>>}, gap \in {Px(0), Px(4) \o Px(6)},
     areas \in {<<>>, <<D("grid-template-areas", Areas)>>}}
NamedOnce(pieces) == Cardinality({k \in DOMAIN pieces : pieces[k] = Item(<<D("grid-area", W("nav"))>>, 20)}) <= 1

FlexItems == {Item(<<D("flex-basis", Px(basis)), D("flex-grow", <<Num(grow, "")>>)>>, 10) :
                basis \in {30, 60}, grow \in 0 .. 1}
Flexes ==
  {<<D("display", W("flex")), D("flex-wrap", W(wrap)), D("justify-content", W(justify)), D("gap", Px(6))>> :
     wrap \in {"wrap", "nowrap"}, justify \in {"flex-start", "center", "space-between"}}

BasisOf(c) == OrElse(FlexBasis(c.style), 0)
GrowOf(c) == FactorOf(c.style, "flex-grow", 0)

GridIsPlaced(b) ==                    \* with items and areas as the theorem about Placement takes them
  LET columns == Len(GridColumns(b.style))
      items == [i \in DOMAIN b.children |-> GridItem(b.children[i].style, columns)]
      named == NamedAreas(GridAreas(b.style))
  IN  /\ \A i \in DOMAIN items : items[i].rows >= 1 /\ items[i].cols \in 1 .. columns
      /\ \A a \in DOMAIN named : \A f \in {"row", "col", "rows", "cols"} : named[a][f] >= 1
      /\ PlacedWell(items, columns, named, PlaceItems(items, columns, named))

(* Items never cover one another. In a grid, each has the area it names, or is at the first *)
(* place that fits it, after those before it. In a flex row that has one line, what is left *)
(* of the container goes to those that ask for it, equally; and what is missing is taken    *)
(* from all in proportion to their size, to a pixel an item, and nobody leaves it.          *)
ItemsKeepApart ==
  input.kind = "items" => \A b \in output :
    LET items == b.children
        gaps == 6 * (Len(items) - 1)
        bases == SumOf([i \in DOMAIN items |-> BasisOf(items[i])])
        widths == SumOf([i \in DOMAIN items |-> items[i].rect.w])
        free == b.rect.w - bases - gaps
        oneLine == \A i \in DOMAIN items : items[i].rect.y = items[1].rect.y
        Change(i) == items[i].rect.w - BasisOf(items[i])
        Near(x, y, slack) == AbsInt(x - y) <= slack
    IN  /\ \A i, j \in DOMAIN items : i # j => ~ Overlap(items[i].rect, items[j].rect)
        /\ \A i \in DOMAIN items : items[i].rect.x >= b.rect.x
                                      /\ items[i].rect.x + items[i].rect.w < b.rect.x + b.rect.w + Len(items)
        /\ DisplayOf(b.style) = "grid" => GridIsPlaced(b)
        /\ DisplayOf(b.style) = "flex" /\ oneLine =>
             /\ free > 0 /\ (\E i \in DOMAIN items : GrowOf(items[i]) > 0)
                  => /\ Near(widths + gaps, b.rect.w, Len(items))
                     /\ \A i, j \in DOMAIN items : GrowOf(items[i]) = GrowOf(items[j]) => Change(i) = Change(j)
             /\ free < 0 => /\ Near(widths + gaps, b.rect.w, Len(items))
                            /\ \A i, j \in DOMAIN items : Near(Change(i) * BasisOf(items[j]), Change(j) * BasisOf(items[i]), 60)
             /\ free = 0 => \A i \in DOMAIN items : Change(i) = 0

(* grid.rs 326-329 says that every item gets its final position in the second pass; what an *)
(* item contains should then be in it, at least where no item spans rows.                  *)
ContentsMoveAlong ==
  input.kind = "items" => \A b \in output :
    LET items == b.children
    IN  (\A i \in DOMAIN items : GridSpan(items[i].style, "grid-row") = 1) =>
        \A i \in DOMAIN items : \A c \in ToSet(AllBoxes(items[i])) : \A k \in DOMAIN c.lines :
          /\ items[i].rect.y <= c.lines[k].y
          /\ c.lines[k].y < Bottom(items[i])

PickItems ==
  \E width \in {120, 200} :
    \/ \E style \in Grids, k \in 1 .. 4 : \E pieces \in [1 .. k -> GridItems] :
         /\ NamedOnce(pieces) /\ (k = 4 => pieces[1] = pieces[3])
         /\ Pick([kind |-> "items", width |-> width, doc |-> Document(WithPieces(Styled(0, "div", style), pieces))])
    \/ \E style \in Flexes, k \in 1 .. 3 : \E pieces \in [1 .. k -> FlexItems] :
         Pick([kind |-> "items", width |-> width, doc |-> Document(WithPieces(Styled(0, "div", style), pieces))])

-----------------------------------------------------------------------------
(* Positions: boxes in boxes.                                               *)

Offsets == {<<>>, <<D("left", Px(10)), D("top", Px(20))>>, <<D("right", Px(10)), D("bottom", Px(10))>>}
Placings == {<<D("position", W(how))>> \o o : how \in {"static", "relative", "absolute"}, o \in Offsets}
Boxed(w, h) == <<D("width", Px(w)), D("height", Px(h)), D("background-color", W("red"))>>
Nest(a, b, c) ==
  Document(<<Styled(0, "div", Boxed(200, 200)), Styled(1, "div", Boxed(120, 120) \o a),
             Styled(2, "div", Boxed(60, 80) \o <<D("border", <<Num(2, "px"), Word("blue")>>), D("padding", Px(4))>> \o b),
             Text(3, <<20>>), Styled(3, "div", Boxed(30, 20) \o c)>>)

RECURSIVE ParentsIn(_)
ParentsIn(b) == [c \in {x.id : x \in ToSet(b.children)} |-> b]
                  @@ FoldLeft(LAMBDA f, g : f @@ g, [c \in {} |-> b], [i \in DOMAIN b.children |-> ParentsIn(b.children[i])])

\* Where a box is, along one axis: n from its near edge, or from its far one.
AnchoredAt(style, near, far, from, to, own, at) ==
  /\ \A n \in LengthOf(style, near) : at = from + n
  /\ LengthOf(style, near) = {} => \A n \in LengthOf(style, far) : at + own = to - n

(* Media: a video in a box, with room for its bar and its two buttons.                    *)
Video(w, h, style) == Document(<<El(0, "div"), Styled(1, "video", <<D("width", Px(w)), D("height", Px(h))>> \o style)>>)
MediaPages == {Video(w, h, style) : w \in {64, 110, 180}, h \in {32, 50, 90},
                 style \in {<<>>, <<D("float", W("right"))>>, <<D("position", W("relative")), D("top", Px(15))>>}}

(* The bottom bar of a medium is one control beside the other, and a click on the place     *)
(* where one is painted is a click on that one.                                           *)
ControlsAreWherePainted(page) ==
  LET controls == {"play", "track", "mute"}
      areas == SelectSeq(PaintWithFind(page, <<>>), LAMBDA a : a.shows \in controls)
  IN  \A x \in {k * 6 + 1 : k \in 0 .. 49}, y \in {5, 20, 40, 70, 100} :
        HitTestMedia(page, x, y) = {[id |-> a.id, control |-> a.shows] : a \in Seen(areas, x, y)}

(* An absolute box is where its offsets say it is in the padding box of the nearest         *)
(* ancestor that is positioned - where that ancestor is in the end - or in the page; what   *)
(* is in a box moves with it; and where nothing sticks out, a click goes to the element     *)
(* whose background, or the control that, is seen there.                                  *)
PositionsAgree ==
  /\ input.kind = "media" => \A page \in output : ControlsAreWherePainted(page)
  /\ input.kind = "positions" => \A page \in output :
       LET above == ParentsIn(page)
           Around[n \in DOMAIN above \cup {1}] ==
             IF n = 1 THEN page.rect
             ELSE IF PositionOf(above[n].style) # "static" THEN PaddingBox(above[n]) ELSE Around[above[n].id]
           boxes == ToSet(AllBoxes(page))
           tucked == \A n \in DOMAIN above : \A b \in boxes : b.id = n => Within(b.rect, above[n].rect)
           areas == SelectSeq(PaintWithFind(page, <<>>), LAMBDA a : a.shows = "background")
       IN  /\ \A b \in boxes : b.id # 1 /\ PositionOf(b.style) = "absolute" =>
                LET c == Around[b.id]
                IN  /\ AnchoredAt(b.style, "left", "right", c.x, c.x + c.w, b.rect.w, b.rect.x)
                    /\ AnchoredAt(b.style, "top", "bottom", c.y, c.y + c.h, b.rect.h, b.rect.y)
           /\ \A b \in boxes : IsText(b) =>
                /\ b.rect.x = above[b.id].rect.x + 6 /\ b.rect.y = above[b.id].rect.y + 6
                /\ \A i \in DOMAIN b.lines : b.lines[i].x = b.rect.x /\ b.lines[i].y = b.rect.y
           /\ tucked => \A x \in {1, 45, 55, 100, 125, 199}, y \in {1, 25, 45, 77, 101, 199} :
                          HitTestNode(page, x, y) = {a.id : a \in Seen(areas, x, y)}

PickPositions ==
  \/ \E a, b, c \in Placings : Pick([kind |-> "positions", doc |-> Nest(a, b, c), width |-> 300])
  \/ \E d \in MediaPages : Pick([kind |-> "media", doc |-> d, width |-> 300])

PickInput == input.kind = "start" /\ (PickMatching \/ PickStyle \/ PickFlow \/ PickItems \/ PickPositions)

MCCanvases == {<<24, 90>>, <<54, 50>>, <<76, 100>>}
BarsRest   == BarsInit /\ wide = 24 /\ count = Min(TabCounts) /\ tall = Min(Talls)

EngineRests == input.kind = "start" /\ output = {}
DocumentRests == DomInit

InEngine   == BarsRest /\ DocumentRests /\ (PickInput \/ WorkOutStyles \/ LayOut) /\ UNCHANGED <<barVars, domVars>>
InBars     == EngineRests /\ DocumentRests /\ BarsNext /\ UNCHANGED <<vars, domVars>>
InDocument == EngineRests /\ BarsRest /\ DomNext /\ UNCHANGED <<vars, barVars>>

Init == input = [kind |-> "start"] /\ output = {} /\ BarsInit /\ DomInit
Next == InEngine \/ InBars \/ InDocument
Spec == Init /\ [][Next]_<<vars, barVars, domVars>>
=============================================================================
