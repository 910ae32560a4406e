-------------------------------- MODULE Boxes --------------------------------
(***************************************************************************)
(* Layout: from a styled document to boxes with a place on the page, and    *)
(* from a point on the page back to what is there (crates layout and text,   *)
(* box_model.rs included). Text is a sequence of word widths at the default *)
(* font size. A box is a record whose children are boxes, and laying it out *)
(* returns it with its rectangle, its lines and its children filled in, as   *)
(* the code fills them in in place. Layout has the pass that does this.  *)
(***************************************************************************)
EXTENDS Cascade, Placement

CONSTANTS
  SpaceAt,          \* the width of a space at the default font size
  BoxLineHeight,    \* DEFAULT_LINE_HEIGHT, of a box with nothing in it
  PosterlessWidth   \* of a medium without a poster

Edges(t, r, b, l) == [top |-> t, right |-> r, bottom |-> b, left |-> l]
NoEdges == Edges(0, 0, 0, 0)
Across(e) == e.left + e.right
Along(e) == e.top + e.bottom
Rect(x, y, w, h) == [x |-> x, y |-> y, w |-> w, h |-> h]

WordWidth(w, size) == (w * size) \div DefaultFontSize
SpaceWidth(size) == WordWidth(SpaceAt, size)
LineHeight(size) == (size * BoxLineHeight) \div DefaultFontSize
TextWidth(words, size) ==
  SumOf([i \in DOMAIN words |-> WordWidth(words[i], size)]) + Most(0, Len(words) - 1) * SpaceWidth(size)

-----------------------------------------------------------------------------
(* Box model. A shorthand of one to four lengths, then the longhands.       *)

EdgeLength(t) == OrElse(TokenLength(t), 0)
Shorthand(v) ==
  LET n == [i \in DOMAIN v |-> EdgeLength(v[i])]
  IN  CASE Len(v) = 1 -> Edges(n[1], n[1], n[1], n[1])
        [] Len(v) = 2 -> Edges(n[1], n[2], n[1], n[2])
        [] Len(v) = 3 -> Edges(n[1], n[2], n[3], n[2])
        [] Len(v) = 4 -> Edges(n[1], n[2], n[3], n[4])
        [] OTHER -> NoEdges

ResolveEdges(style, prefix) ==
  LET short == Shorthand(OrElse(Raw(style, prefix), <<>>))
      Side(p, default) == IF p \in DOMAIN style THEN OrElse(Length(style[p]), 0) ELSE default
  IN  Edges(Side(prefix \o "-top", short.top), Side(prefix \o "-right", short.right),
            Side(prefix \o "-bottom", short.bottom), Side(prefix \o "-left", short.left))

ResolveBorder(style) ==                \* one width for the four sides
  LET pxs == SelectSeq(OrElse(Raw(style, "border"), <<>>), LAMBDA t : t.kind = "number" /\ t.unit = "px")
      short == IF pxs = <<>> THEN 0 ELSE pxs[Len(pxs)].n
      width == IF "border-width" \in DOMAIN style THEN OrElse(LengthOf(style, "border-width"), 0) ELSE short
  IN  Edges(width, width, width, width)

\* Widths may be percentages of what the container offers; heights may not.
Sized(style, p, basis) ==
  LET S == {v[1] : v \in {v \in Raw(style, p) : Len(v) = 1 /\ v[1].kind = "number"}}
  IN  {t.n : t \in {t \in S : t.unit \in {"px", ""}}}
      \cup {(basis * t.n) \div 100 : t \in {t \in S : t.unit = "%"}}

Clamp(style, lo, hi, n, basis) == Max({Min({n} \cup Sized(style, hi, basis))} \cup Sized(style, lo, basis))

ContentHeight(style, natural) ==
  LET height == OrElse(LengthOf(style, "height"), natural)
  IN  Max({Min({height} \cup LengthOf(style, "max-height"))} \cup LengthOf(style, "min-height"))

-----------------------------------------------------------------------------
(* The tree of boxes                                                        *)

NoRect == Rect(0, 0, 0, 0)
RootStyle(fg) == Set(NoStyle, "color", fg)

(* Controls that lay out by their own size; a medium is as wide as its poster.            *)
Replaced(b) == b.image # {} \/ b.media # {}
Control(b) == Replaced(b) \/ b.input # {} \/ b.check # {}

NoField == [x |-> 0, y |-> 0, cursor |-> {}]   \* where the text of an input is painted

RECURSIVE BuildTree(_, _, _, _)
BuildTree(d, n, rules, parent) ==      \* an option: nothing for what is not displayed
  LET element == n \in Elements(d)
      text == n # Doc /\ d.kind[n] = "text"
      Get(f) == IF n \in DOMAIN f THEN {f[n]} ELSE {}
      Edged(edges) == IF text THEN NoEdges ELSE edges
      Below(order, style) == FlattenSeq([i \in DOMAIN order |-> SetToSeq(BuildTree(d, order[i], rules, style))])
      Box(style) ==
        IF element /\ DisplayOf(style) = "none" THEN {}
        ELSE {[id |-> n, element |-> element, style |-> style, children |-> Below(Sorted(ChildrenOf(d, n), <), style),
               text |-> IF text THEN {d.words[n]} ELSE {}, empty |-> text /\ n \in d.blank, size |-> FontSize(style),
               margin |-> Edged(ResolveEdges(style, "margin")), padding |-> Edged(ResolveEdges(style, "padding")),
               border |-> Edged(ResolveBorder(style)),
               image |-> Get(d.images), media |-> Get(d.media), input |-> Get(d.inputs), check |-> Get(d.checks),
               rect |-> NoRect, lines |-> <<>>, field |-> NoField, focused |-> FALSE]}
  IN  Box(ComputeStyle(d, n, rules, parent))

IsText(b) == b.text # {}
IsBlankText(b) == b.text = {<<>>}      \* nothing, or nothing but whitespace
IsInline(b) == FloatOf(b.style) = "none" /\ (IsText(b) \/ DisplayOf(b.style) = "inline")
IsOutOfFlow(b) == PositionOf(b.style) \in {"absolute", "fixed"}

(* How wide a box would be on one endless line: its border box.                           *)
RECURSIVE IntrinsicWidth(_)
IntrinsicWidth(b) ==
  CASE b.image # {} -> OrElse(b.image, 0).w
    [] b.image = {} /\ b.media # {} -> OrElse({m.poster : m \in {m \in b.media : m.poster > 0}}, PosterlessWidth)
    [] ~Replaced(b) /\ IsText(b) -> TextWidth(OrElse(b.text, <<>>), b.size)
    [] OTHER -> SumOf([i \in DOMAIN b.children |-> IntrinsicWidth(b.children[i]) + Across(b.children[i].margin)])
                  + Across(b.border) + Across(b.padding)

(* Margins of a box and of its first (last) child meet where no border, padding or inline *)
(* content is between them.                                                               *)
RECURSIVE TopMargin(_)
TopMargin(b) ==
  IF IsText(b) THEN 0
  ELSE IF b.border.top # 0 \/ b.padding.top # 0 \/ b.children = <<>> \/ IsInline(Head(b.children))
       THEN b.margin.top
       ELSE Most(b.margin.top, TopMargin(Head(b.children)))

RECURSIVE BottomMargin(_)
BottomMargin(b) ==
  IF IsText(b) THEN 0
  ELSE IF b.border.bottom # 0 \/ b.padding.bottom # 0 \/ b.children = <<>> \/ IsInline(Last(b.children))
       THEN b.margin.bottom
       ELSE Most(b.margin.bottom, BottomMargin(Last(b.children)))

RECURSIVE Shift(_, _, _)
Shift(b, dx, dy) ==                    \* the text of an input stays where it was
  LET Moved(r) == [r EXCEPT !.x = @ + dx, !.y = @ + dy]
  IN  [b EXCEPT !.rect = Moved(@), !.lines = [i \in DOMAIN @ |-> Moved(@[i])],
                !.children = [i \in DOMAIN @ |-> Shift(@[i], dx, dy)]]

-----------------------------------------------------------------------------
(* Floats: where a line may run at y, and where the next float goes         *)

Bottom(f) == f.rect.y + f.rect.h
LineBoundsLastFloat(floats, x, width, y) ==   \* the last float alone, not the widest
  LET beside == SelectSeq(floats, LAMBDA f : f.rect.y <= y /\ y < Bottom(f))
      last == IF beside = <<>> THEN {} ELSE {Last(beside)}
      left == OrElse({f.rect.x + f.rect.w : f \in {f \in last : f.side = "left"}}, x)
  IN  [left |-> left, right |-> Most(left, OrElse({f.rect.x : f \in {f \in last : f.side = "right"}}, x + width))]

LineBounds(floats, x, width, y) ==
  LET beside == {f \in ToSet(floats) : f.rect.y <= y /\ y < Bottom(f)}
      left == Max({x} \cup {f.rect.x + f.rect.w : f \in {f \in beside : f.side = "left"}})
      right == Min({x + width} \cup {f.rect.x : f \in {f \in beside : f.side = "right"}})
  IN  [left |-> left, right |-> Most(right, left)]

FloatAt(b, side, x, width, y, floats) ==      \* b is laid out; below the others of its side
  LET top == Max({y} \cup {Bottom(f) : f \in {f \in ToSet(floats) : f.side = side}})
      left == IF side = "right" THEN x + width - b.rect.w ELSE x
  IN  Shift(b, left - b.rect.x, top - b.rect.y)

-----------------------------------------------------------------------------
(* Flex rows and grids, apart from the boxes in them                        *)

(* Which items share a line: a new one starts when the next would not fit.                *)
FlexLines(items, outer, width, gap, wraps) ==
  LET Add(s, i) ==
        LET used == s.used + outer[i] + IF Last(s.lines) = <<>> THEN 0 ELSE gap
        IN  IF wraps /\ used > width /\ Last(s.lines) # <<>>
            THEN [lines |-> Append(s.lines, <<i>>), used |-> outer[i]]
            ELSE [lines |-> Front(s.lines) \o <<Append(Last(s.lines), i)>>, used |-> used]
  IN  FoldLeft(Add, [lines |-> <<<<>>>>, used |-> 0], items).lines

(* Main sizes: what is left over is shared by flex-grow, what is missing by flex-shrink    *)
(* times the size, as long as anybody takes part.                                         *)
FlexMain(basis, grow, shrink, free) ==
  LET growing == SumOf(grow)
      weights == [i \in DOMAIN basis |-> shrink[i] * basis[i]]
      weight == SumOf(weights)
  IN  [i \in DOMAIN basis |->
         IF free > 0 /\ growing > 0 THEN basis[i] + (free * grow[i]) \div growing
         ELSE IF free < 0 /\ weight > 0 THEN Most(0, basis[i] - (-free * weights[i]) \div weight)
         ELSE basis[i]]

Justify(how, leftover, n) ==           \* before the first item, and between two
  CASE how = "flex-end" -> <<leftover, 0>>
    [] how = "center" -> <<leftover \div 2, 0>>
    [] how = "space-between" /\ n > 1 -> <<0, leftover \div (n - 1)>>
    [] how = "space-around" -> <<leftover \div (n + 1), leftover \div (n + 1)>>
    [] OTHER -> <<0, 0>>

Tracks(tracks, width, gap) ==
  LET Total(kind) == SumOf([i \in DOMAIN tracks |-> IF tracks[i].kind = kind THEN tracks[i].n ELSE 0])
      left == Most(0, width - gap * Most(0, Len(tracks) - 1) - Total("fixed"))
  IN  [i \in DOMAIN tracks |-> CASE tracks[i].kind = "fixed" -> tracks[i].n
                                 [] Total("fraction") = 0 -> 0
                                 [] OTHER -> (left * tracks[i].n) \div Total("fraction")]

(* The rectangle around the cells that bear a name. Rows and columns count from 1.        *)
NamedAreas(areas) ==
  LET cells(name) == {<<r, c>> \in (1 .. Len(areas)) \X (1 .. Max({Len(areas[r]) : r \in DOMAIN areas})) :
                        c <= Len(areas[r]) /\ areas[r][c] = name}
      Span(name) == LET rows == {x[1] : x \in cells(name)}  cols == {x[2] : x \in cells(name)}
                    IN  [row |-> Min(rows), col |-> Min(cols),
                         rows |-> Max(rows) - Min(rows) + 1, cols |-> Max(cols) - Min(cols) + 1]
  IN  [name \in UNION {ToSet(areas[r]) : r \in DOMAIN areas} \ {"."} |-> Span(name)]

GridItem(style, columns) == [area |-> GridArea(style), rows |-> GridSpan(style, "grid-row"),
                             cols |-> Least(columns, GridSpan(style, "grid-column"))]
=============================================================================
