--------------------------------- MODULE Layout ---------------------------------
(***************************************************************************)
(* The layout pass itself (layout crate: lib.rs, flex.rs, grid.rs): blocks   *)
(* with collapsing margins and floats, lines of inline content, flex rows    *)
(* and columns, grids, then relative and absolute positions; and what a     *)
(* point on the page hits. LayoutBox returns the box it is given with its   *)
(* rectangle and its descendants' filled in, where the code fills them in   *)
(* in place. "focus" is an option of the node with the keyboard and its      *)
(* cursor. What lays out a container is given the layouts of what is in it:   *)
(* lay[path, x, y, width, item], by path of child indices, at a place and in *)
(* a width, and whether as an item of a flex row, a flex column or a grid.    *)
(***************************************************************************)
EXTENDS Boxes

-----------------------------------------------------------------------------
(* A run of inline children as items: words, whole boxes, and the spaces    *)
(* between elements. An item remembers the path of child indices to it.     *)

RECURSIVE InlineItems(_, _, _, _)
InlineItems(children, path, from, width) ==   \* the children from the one after "from"
  LET Items(i) ==
        LET c == children[i]  p == Append(path, from + i)
            Item(kind, w) == [kind |-> kind, path |-> p, width |-> w, word |-> w, size |-> c.size]
        IN  CASE IsText(c) ->
                   LET words == OrElse(c.text, <<>>)
                   IN  IF words = <<>> THEN IF c.empty THEN <<>> ELSE <<Item("space", 0)>>
                       ELSE [k \in DOMAIN words |->
                               [Item("word", WordWidth(words[k], c.size)) EXCEPT !.word = words[k]]]
              [] ~IsText(c) /\ DisplayOf(c.style) = "inline" /\ c.children # <<>> -> InlineItems(c.children, p, 0, width)
              [] OTHER -> <<Item("box", Least(width, IntrinsicWidth(c) + Across(c.margin)))>>
  IN  FlattenSeq([i \in DOMAIN children |-> Items(i)])

Put(f, k, v) == [j \in DOMAIN f \cup {k} |-> IF j = k THEN v ELSE f[j]]
Empty == [k \in {} |-> 0]

(* The text run in progress becomes a line of its text box.                               *)
Flush(s) ==
  LET line == [x |-> s.start, y |-> s.y, words |-> s.words]
      had == IF s.path \in DOMAIN s.lines THEN s.lines[s.path] ELSE <<>>
  IN  [s EXCEPT !.lines = IF s.path # <<>> /\ s.words # <<>> THEN Put(@, s.path, Append(had, line)) ELSE @,
                !.words = IF s.path # <<>> THEN <<>> ELSE @,
                !.path = <<>>]

Grow(bounds, path, x0, y0, x1, y1) ==  \* every inline element around the item covers it
  LET around == {SubSeq(path, 1, k) : k \in 1 .. Len(path) - 1}
      Was(p) == IF p \in DOMAIN bounds THEN bounds[p] ELSE [x0 |-> x0, y0 |-> y0, x1 |-> x1, y1 |-> y1]
  IN  [p \in DOMAIN bounds \cup around |->
         IF p \notin around THEN bounds[p]
         ELSE [x0 |-> Least(Was(p).x0, x0), y0 |-> Least(Was(p).y0, y0),
               x1 |-> Most(Was(p).x1, x1), y1 |-> Most(Was(p).y1, y1)]]

NextLine(s, floats, x, width) ==
  [s EXCEPT !.y = @ + s.row, !.row = 0, !.x = LineBounds(floats, x, width, s.y + s.row).left]

\* A word joins the text run before it, with a space, or starts one; it wraps if it does not fit.
TakeWord(s, item, floats, x, width) ==
  LET joins == s.path = item.path /\ s.words # <<>>
      extra == item.width + IF joins THEN SpaceWidth(DefaultFontSize) ELSE 0
      wraps == s.content /\ extra > LineBounds(floats, x, width, s.y).right - s.x
      height == LineHeight(item.size)
      Begun(t) == IF t.path # item.path THEN [t EXCEPT !.path = item.path, !.start = t.x, !.words = <<>>] ELSE t
      Joined(t, from) ==
        [t EXCEPT !.words = Append(@, item.word), !.x = from + item.width, !.content = TRUE,
                  !.row = Most(@, height),
                  !.bounds = Grow(@, item.path, from, t.y, from + item.width, t.y + height)]
      Spaced(t) == Joined(t, t.x + IF t.words = <<>> THEN 0 ELSE SpaceWidth(DefaultFontSize))
  IN  Spaced(Begun(IF wraps THEN NextLine(Flush(s), floats, x, width)
                   ELSE IF s.path # item.path THEN Flush(s) ELSE s))

TakeSpace(s) == [Flush(s) EXCEPT !.x = @ + IF s.content THEN SpaceWidth(DefaultFontSize) ELSE 0]

(* A box that does not fit on the line starts the next; it gets what is left of its line.  *)
TakeBox(lay, s, item, floats, x, width) ==
  LET Right(t) == LineBounds(floats, x, width, t.y).right
      Fit(t) == IF t.content /\ item.width > Right(t) - t.x THEN NextLine(t, floats, x, width) ELSE t
      Placed(t, used, laid) ==
        [t EXCEPT !.placed = Put(@, item.path, laid), !.x = @ + used, !.content = TRUE,
                  !.row = Most(@, laid.rect.h + Along(laid.margin)),
                  !.bounds = Grow(@, item.path, t.x, t.y, t.x + used, Bottom(laid) + laid.margin.bottom)]
      Given(t, room) == Placed(t, Most(0, Least(item.width, room)), lay[item.path, t.x, t.y, room, FALSE])
      Beside(t) == Given(t, Right(t) - t.x)
  IN  Beside(Fit(Flush(s)))

HasFocus(focus, b) == \E f \in focus : f.node = b.id

(* What the run found out, written back to the boxes it came from.                        *)
RECURSIVE Written(_, _, _, _)
Written(b, path, s, focus) ==
  IF path \in DOMAIN s.placed THEN s.placed[path]
  ELSE IF path \in DOMAIN s.lines
  THEN LET lines == s.lines[path]
       IN  [b EXCEPT !.lines = lines,
              !.rect = Rect(lines[1].x, lines[1].y, Max({TextWidth(lines[i].words, b.size) : i \in DOMAIN lines}),
                            Len(lines) * LineHeight(b.size))]
  ELSE LET inner == [b EXCEPT !.children = [i \in DOMAIN @ |-> Written(@[i], Append(path, i), s, focus)]]
       IN  IF path \notin DOMAIN s.bounds THEN inner
           ELSE LET r == s.bounds[path]
                IN  [inner EXCEPT !.rect = Rect(r.x0, r.y0, r.x1 - r.x0, Most(0, r.y1 - r.y0)),
                                  !.focused = HasFocus(focus, b)]

InlineRun(lay, children, from, x, y, width, floats, focus) ==
  LET Start(left) == [x |-> left, y |-> y, content |-> FALSE, row |-> 0, path |-> <<>>, words |-> <<>>,
                      start |-> left, lines |-> Empty, bounds |-> Empty, placed |-> Empty]
      Take(s, item) == CASE item.kind = "word"  -> TakeWord(s, item, floats, x, width)
                         [] item.kind = "space" -> TakeSpace(s)
                         [] item.kind = "box"   -> TakeBox(lay, s, item, floats, x, width)
      Result(end) ==
        [children |-> [i \in DOMAIN children |-> Written(children[i], <<from + i>>, end, focus)],
         height |-> end.y - y + IF end.content THEN end.row ELSE 0]
  IN  Result(Flush(FoldLeft(Take, Start(LineBounds(floats, x, width, y).left),
                            InlineItems(children, <<>>, from, width))))

-----------------------------------------------------------------------------
(* Block children below one another. Boxes out of the flow take no room; a  *)
(* float only narrows the lines after it.                                   *)

FlowBlock(lay, s, b, i) ==             \* b: the container, with its content box in s
  LET c == b.children[i]
      side == FloatOf(c.style)
      Laid(y) == lay[<<i>>, s.x, y, s.width, FALSE]
      float == FloatAt(Laid(s.y), side, s.x, s.width, s.y, s.floats)
      cleared == Max({s.y} \cup {Bottom(f) : f \in {f \in ToSet(s.floats) : ClearOf(c.style) \in {f.side, "both"}}})
      escapes == s.first /\ ~ s.root /\ b.border.top = 0 /\ b.padding.top = 0
      gap == IF escapes THEN 0 ELSE Most(s.pending, TopMargin(c))
      block == Laid(cleared - c.margin.top + gap)
  IN  IF IsOutOfFlow(c) THEN [s EXCEPT !.done = Append(@, Laid(s.y))]
      ELSE IF side # "none"
      THEN [s EXCEPT !.done = Append(@, float), !.floats = Append(@, [side |-> side, rect |-> float.rect])]
      ELSE [s EXCEPT !.done = Append(@, block), !.y = Bottom(block), !.pending = BottomMargin(c), !.first = FALSE]

\* The children's indices in order, neighbouring inline ones together.
Runs(children) ==
  LET Add(runs, i) ==
        IF i > 1 /\ IsInline(children[i]) /\ IsInline(children[i - 1])
        THEN Front(runs) \o <<Append(Last(runs), i)>> ELSE Append(runs, <<i>>)
  IN  FoldLeft(Add, <<>>, [i \in DOMAIN children |-> i])

FlowChildren(lay, b, x, y, width, root, focus) ==
  LET closed == root \/ b.border.bottom # 0 \/ b.padding.bottom # 0
      Line(s, line) == [s EXCEPT !.done = @ \o line.children, !.y = @ + s.pending + line.height,
                                 !.pending = 0, !.first = FALSE]
      Advance(s, run) ==
        IF IsInline(b.children[run[1]])
        THEN Line(s, InlineRun(lay, [k \in DOMAIN run |-> b.children[run[k]]], run[1] - 1,
                               s.x, s.y + s.pending, s.width, s.floats, focus))
        ELSE FlowBlock(lay, s, b, run[1])
      Result(end) ==
        [children |-> end.done,
         height |-> Max({end.y + IF closed THEN end.pending ELSE 0} \cup {Bottom(f) : f \in ToSet(end.floats)}) - y]
  IN  Result(FoldLeft(Advance, [x |-> x, y |-> y, width |-> width, root |-> root, pending |-> 0, first |-> TRUE,
                             floats |-> <<>>, done |-> <<>>], Runs(b.children)))

-----------------------------------------------------------------------------
(* Flex containers. Text that is all blank is no item.                      *)

Items(children) == SelectSeq([i \in DOMAIN children |-> i], LAMBDA i : ~ IsBlankText(children[i]))

(* One line of a row: main sizes, then places, then each item's top and height against the *)
(* tallest - of the item alone, its contents are where they were.                         *)
FlexLine(lay, b, line, basis, x, y, width, gap) ==
  LET item(k) == b.children[line[k]]
      margins == [k \in DOMAIN line |-> Across(item(k).margin)]
      sizes == [k \in DOMAIN line |-> basis[line[k]]]
      gaps == gap * Most(0, Len(line) - 1)
      main == FlexMain(sizes, [k \in DOMAIN line |-> FactorOf(item(k).style, "flex-grow", 0)],
                       [k \in DOMAIN line |-> FactorOf(item(k).style, "flex-shrink", 1)],
                       width - SumOf(sizes) - SumOf(margins) - gaps)
      apart == Justify(JustifyOf(b.style), Most(0, width - SumOf(main) - gaps), Len(line))
      X(k) == x + apart[1] + SumOf([j \in 1 .. k - 1 |-> main[j] + margins[j] + gap + apart[2]])
      Outer(box) == box.rect.h + Along(box.margin)
      Aligned(box, height) ==
        LET how == AlignOf(b.style)
            down == CASE how = "flex-end" -> height - Outer(box)
                      [] how = "center" -> (height - Outer(box)) \div 2
                      [] OTHER -> 0
        IN  [box EXCEPT !.rect.y = y + box.margin.top + down,
                        !.rect.h = IF how = "stretch" THEN Most(0, height - Along(box.margin)) ELSE @]
      Result(laid, height) ==
        [items |-> [i \in ToSet(line) |-> Aligned(laid[CHOOSE k \in DOMAIN line : line[k] = i], height)],
         height |-> height]
      Leveled(laid) == Result(laid, Max({0} \cup {Outer(laid[k]) : k \in DOMAIN line}))
  IN  Leveled([k \in DOMAIN line |-> lay[<<line[k]>>, X(k), y, main[k] + margins[k], TRUE]])

FlexRow(lay, b, x, y, width) ==
  LET c == b.children
      gap == GapOf(b.style, "column-gap")
      below == GapOf(b.style, "row-gap")
      basis == [i \in DOMAIN c |-> OrElse(FlexBasis(c[i].style), IntrinsicWidth(c[i]))]
      outer == [i \in DOMAIN c |-> basis[i] + Across(c[i].margin)]
      Added(s, row) == [y |-> s.y + row.height + below, done |-> row.items @@ s.done]
      Line(s, line) == Added(s, FlexLine(lay, b, line, basis, x, s.y, width, gap))
      Result(end) == [children |-> end.done, height |-> IF c = <<>> THEN 0 ELSE end.y - below - y]
  IN  Result(FoldLeft(Line, [y |-> y, done |-> c], FlexLines(Items(c), outer, width, gap, Wraps(b.style))))

(* One below the other; an item that is not stretched gets its own width when the contents *)
(* have already been laid out in the container's.                                         *)
FlexColumn(lay, b, x, y, width) ==
  LET c == b.children
      how == AlignOf(b.style)
      items == Items(c)
      Add(s, i) ==
        LET top == s.y + IF i = Head(items) THEN 0 ELSE GapOf(b.style, "row-gap")
            laid == lay[<<i>>, x, top, width, TRUE]
            natural == IF how = "stretch" THEN width ELSE Least(IntrinsicWidth(c[i]), width)
            left == Most(0, width - natural - Across(c[i].margin))
            aside == CASE how = "flex-end" -> left [] how = "center" -> left \div 2 [] OTHER -> 0
            item == [laid EXCEPT !.rect.x = x + c[i].margin.left + aside,
                                 !.rect.w = IF how = "stretch" THEN @ ELSE natural]
        IN  [y |-> Bottom(item), done |-> [s.done EXCEPT ![i] = item]]
      end == FoldLeft(Add, [y |-> y, done |-> c], items)
  IN  [children |-> end.done, height |-> end.y - y]

-----------------------------------------------------------------------------
(* Grids                                                                    *)

GridColumns(style) ==                  \* as many as the template or the areas ask for
  LET tracks == GridTemplate(style, "grid-template-columns")
      areas == GridAreas(style)
      n == Max({1, Len(tracks)} \cup {Len(areas[r]) : r \in DOMAIN areas})
  IN  [c \in 1 .. n |-> IF c \in DOMAIN tracks THEN tracks[c] ELSE [kind |-> "fraction", n |-> 1]]

Starts(from, sizes, gap) == [k \in DOMAIN sizes |-> from + SumOf(SubSeq(sizes, 1, k - 1)) + (k - 1) * gap]
Spanned(sizes, from, n, gap) == SumOf(SubSeq(sizes, from, from + n - 1)) + (n - 1) * gap

(* Items of one row are laid out at the top of the grid, which tells the heights of the    *)
(* rows; then every item's own rectangle gets the top and the height of its cells.         *)
Grid(lay, b, x, y, width) ==
  LET c == b.children
      items == Items(c)
      across == GapOf(b.style, "column-gap")
      down == GapOf(b.style, "row-gap")
      fixed == GridTemplate(b.style, "grid-template-rows")
      Areas(columns, areas) ==         \* the items' places, the columns' widths, the rows named
        [places |-> PlaceItems([k \in DOMAIN items |-> GridItem(c[items[k]].style, Len(columns))],
                               Len(columns), NamedAreas(areas)),
         widths |-> Tracks(columns, width, across), named |-> Len(areas)]
      Laid(k, g, p, top) ==
        lay[<<items[k]>>, Starts(x, g.widths, across)[p.col], top,
            Spanned(g.widths, p.col, p.cols, across) + Across(c[items[k]].margin), TRUE]
      Heights(g, first) ==
        [r \in 1 .. Max({g.named} \cup {p.row + p.rows - 1 : p \in ToSet(g.places)}) |->
           IF r \in DOMAIN fixed /\ fixed[r].kind = "fixed" THEN fixed[r].n
           ELSE Max({0} \cup {first[k].rect.h + Along(c[items[k]].margin) :
                                k \in {k \in DOMAIN items : g.places[k].rows = 1 /\ g.places[k].row = r}})]
      Moved(box, p, heights, top) ==
        [box EXCEPT !.rect.y = top + box.margin.top,
                    !.rect.h = Most(0, Spanned(heights, p.row, p.rows, down) - Along(box.margin))]
      Cell(k, g, p, first, heights, top) ==
        Moved(IF p.rows = 1 THEN first[k] ELSE Laid(k, g, p, top), p, heights, top)
      Item(k, g, p, first, heights) == Cell(k, g, p, first, heights, Starts(y, heights, down)[p.row])
      Result(g, first, heights) ==
        [children |-> [i \in ToSet(items) |->
                         LET k == CHOOSE k \in DOMAIN items : items[k] = i IN Item(k, g, g.places[k], first, heights)] @@ c,
         height |-> SumOf(heights) + down * Most(0, Len(heights) - 1)]
      Rows(g, first) == Result(g, first, Heights(g, first))
      Columns(g) == Rows(g, [k \in DOMAIN items |-> Laid(k, g, g.places[k], y)])
  IN  IF items = <<>> THEN [children |-> c, height |-> 0]
      ELSE Columns(Areas(GridColumns(b.style), GridAreas(b.style)))

-----------------------------------------------------------------------------
(* Any box                                                                  *)

\* Lines of words of a text that is an item of its own; a word too wide has a line alone.
WrapText(words, size, width) ==
  LET Add(s, w) ==
        LET wide == WordWidth(w, size)
            used == wide + IF Last(s.lines) = <<>> THEN 0 ELSE s.used + SpaceWidth(size)
        IN  IF Last(s.lines) # <<>> /\ used > width
            THEN [lines |-> Append(s.lines, <<w>>), used |-> wide]
            ELSE [lines |-> Front(s.lines) \o <<Append(Last(s.lines), w)>>, used |-> used]
  IN  FoldLeft(Add, [lines |-> <<<<>>>>, used |-> 0], words).lines

ContentOf(b) ==                        \* what gives the box its height, in the order it is asked
  CASE b.image # {} -> "image"
    [] b.image = {} /\ b.input # {} -> "field"
    [] b.image = {} /\ b.input = {} /\ IsText(b) -> "text"
    [] OTHER -> CASE DisplayOf(b.style) = "flex" -> IF IsColumn(b.style) THEN "column" ELSE "row"
                  [] DisplayOf(b.style) = "grid" -> "grid"
                  [] OTHER -> IF b.children = <<>> THEN "empty" ELSE "flow"

\* width and its limits are for what is not simply inline; a width may stick out.
BoxWidth(b, fill) ==
  LET edges == Across(b.border) + Across(b.padding)
      inline == ~ IsText(b) /\ DisplayOf(b.style) = "inline"
      natural == Most(0, (IF Control(b) \/ inline THEN Least(IntrinsicWidth(b), fill) ELSE fill) - edges)
  IN  edges + IF inline /\ ~ Control(b) THEN natural
              ELSE Clamp(b.style, "min-width", "max-width", OrElse(Sized(b.style, "width", fill), natural), fill)

Tall(b, natural) == [b EXCEPT !.rect.h = ContentHeight(b.style, natural) + Along(b.border) + Along(b.padding)]
Filled(b, content) == Tall([b EXCEPT !.children = content.children], content.height)

LayoutContent(lay, b, cx, cy, width, root, focus) ==   \* b has its width; its content is at cx, cy
  LET image == OrElse(b.image, NoRect)
      prefix(f) == SumOf([i \in 1 .. f.at |-> WordWidth(OrElse(b.input, <<>>)[i], b.size)])
      field == [x |-> cx, y |-> cy, cursor |-> {cx + prefix(f) : f \in {f \in focus : f.node = b.id}}]
      Wrapped(lines) ==
        [b EXCEPT !.lines = [i \in DOMAIN lines |-> [x |-> cx, y |-> cy + (i - 1) * LineHeight(b.size), words |-> lines[i]]],
                  !.rect.h = Len(lines) * LineHeight(b.size)]
  IN  CASE ContentOf(b) = "image"  -> Tall(b, IF image.w > 0 THEN (width * image.h) \div image.w ELSE 0)
        [] ContentOf(b) = "field"  -> Tall([b EXCEPT !.field = field], LineHeight(b.size))
        [] ContentOf(b) = "text"   -> Wrapped(WrapText(OrElse(b.text, <<>>), b.size, Most(1, width)))
        [] ContentOf(b) = "column" -> Filled(b, FlexColumn(lay, b, cx, cy, width))
        [] ContentOf(b) = "row"    -> Filled(b, FlexRow(lay, b, cx, cy, width))
        [] ContentOf(b) = "grid"   -> Filled(b, Grid(lay, b, cx, cy, width))
        [] ContentOf(b) = "empty"  -> Tall(b, BoxLineHeight)
        [] ContentOf(b) = "flow"   -> Filled(b, FlowChildren(lay, b, cx, cy, width, root, focus))

RECURSIVE At(_, _)
At(children, path) == IF Len(path) = 1 THEN children[path[1]] ELSE At(children[path[1]].children, Tail(path))

(* An item is laid out as if it were the page, and whoever has the focus in it is forgotten. *)
RECURSIVE LayoutBox(_, _, _, _, _, _)
LayoutBox(b, x, y, available, root, focus) ==
  LET From(here) ==
        LayoutContent([path \in Seq(Nat), cx \in Int, cy \in Int, width \in Int, item \in BOOLEAN |->
                         LayoutBox(At(here.children, path), cx, cy, width, item, IF item THEN {} ELSE focus)],
                      here, here.rect.x + b.border.left + b.padding.left, here.rect.y + b.border.top + b.padding.top,
                      Most(0, here.rect.w - Across(b.border) - Across(b.padding)), root, focus)
  IN  From([b EXCEPT !.rect = Rect(x + b.margin.left, y + b.margin.top,
                                   BoxWidth(b, Most(0, available - Across(b.margin))), 0),
                     !.focused = HasFocus(focus, b)])

-----------------------------------------------------------------------------
(* Positions, once the flow is done                                         *)

PaddingBox(b) == Rect(b.rect.x + b.border.left, b.rect.y + b.border.top,
                      Most(0, b.rect.w - Across(b.border)), Most(0, b.rect.h - Along(b.border)))

\* Along one axis: the near offset counts before the far one.
Relative(style, near, far) == OrElse(LengthOf(style, near), -OrElse(LengthOf(style, far), 0))
Anchored(style, near, far, from, extent, own, was) ==
  OrElse({from + n : n \in LengthOf(style, near)},
         OrElse({from + extent - own - n : n \in LengthOf(style, far)}, was))

Destination(b, block, viewport) ==
  LET how == PositionOf(b.style)
      r == b.rect
      c == IF how = "fixed" THEN viewport ELSE block
  IN  CASE how = "static" -> <<r.x, r.y>>
        [] how = "relative" -> <<r.x + Relative(b.style, "left", "right"), r.y + Relative(b.style, "top", "bottom")>>
        [] OTHER -> <<Anchored(b.style, "left", "right", c.x, c.w, r.w, r.x),
                      Anchored(b.style, "top", "bottom", c.y, c.h, r.h, r.y)>>

RECURSIVE ApplyPositioningLate(_, _, _)
ApplyPositioningLate(b, block, viewport) ==   \* the block taken before the box has moved
  LET to == Destination(b, block, viewport)
      inner == IF PositionOf(b.style) = "static" THEN block ELSE PaddingBox(b)
      moved == Shift(b, to[1] - b.rect.x, to[2] - b.rect.y)
  IN  [moved EXCEPT !.children = [i \in DOMAIN @ |-> ApplyPositioningLate(@[i], inner, viewport)]]

RECURSIVE ApplyPositioning(_, _, _)
ApplyPositioning(b, block, viewport) ==
  LET to == Destination(b, block, viewport)
      moved == Shift(b, to[1] - b.rect.x, to[2] - b.rect.y)
      inner == IF PositionOf(b.style) = "static" THEN block ELSE PaddingBox(moved)
  IN  [moved EXCEPT !.children = [i \in DOMAIN @ |-> ApplyPositioning(@[i], inner, viewport)]]

LayoutWithFocus(tree, width, focus) ==
  LET Positioned(root) == ApplyPositioning(root, root.rect, Rect(0, 0, width, root.rect.h))
  IN  Positioned(LayoutBox(tree, 0, 0, width, TRUE, focus))

-----------------------------------------------------------------------------
(* From a point, or a node, to a box                                        *)

Covers(r, x, y) == r.x <= x /\ x <= r.x + r.w /\ r.y <= y /\ y <= r.y + r.h

RECURSIVE AllBoxes(_)
AllBoxes(b) == <<b>> \o FlattenSeq([i \in DOMAIN b.children |-> AllBoxes(b.children[i])])

RECURSIVE Hits(_, _, _)                \* a box that is missed hides what it contains
Hits(b, x, y) ==
  IF Covers(b.rect, x, y)
  THEN (IF b.element THEN <<b.id>> ELSE <<>>) \o FlattenSeq([i \in DOMAIN b.children |-> Hits(b.children[i], x, y)])
  ELSE <<>>

LastOf(s) == IF s = <<>> THEN {} ELSE {Last(s)}
HitTestNode(tree, x, y) == LastOf(Hits(tree, x, y))
HitTestLink(d, tree, x, y) ==
  LastOf(SelectSeq(Hits(tree, x, y), LAMBDA n : d.tag[n] = "a" /\ "href" \in DOMAIN d.attrs[n]))

FindBox(tree, id) == First(SelectSeq(AllBoxes(tree), LAMBDA b : b.id = id))
FindFocused(tree) == First(SelectSeq(AllBoxes(tree), LAMBDA b : b.focused))
=================================================================================
