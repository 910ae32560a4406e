-------------------------------- MODULE Painting --------------------------------
(***************************************************************************)
(* What a laid-out tree looks like (render crate): the list of the areas    *)
(* that are filled, in order, so that the last one over a point is what is  *)
(* seen there; the control bar of a medium, painted in one crate and hit in *)
(* another; the matches of find in page. An area says which node it is for  *)
(* and what it shows of it.                                                 *)
(***************************************************************************)
EXTENDS Layout

CONSTANTS
  BarHeight,     \* MEDIA_CONTROL_BAR_HEIGHT
  ButtonWidth,   \* MEDIA_PLAY_BUTTON_WIDTH and MEDIA_MUTE_BUTTON_WIDTH
  TimeWidth,     \* MEDIA_TIME_TEXT_WIDTH
  RingWidth,     \* FOCUS_RING_THICKNESS
  Colors         \* the words parse_color understands

Color(v) == {t.word : t \in {t \in ToSet(v) : Len(v) = 1 /\ t.kind = "word" /\ t.word \in Colors}}

Area(b, shows, rect) == <<[id |-> b.id, shows |-> shows, rect |-> rect]>>
Frame(b, shows, r, top, right, bottom, left) ==  \* four strips along the edges of r
  LET Strip(w, s) == IF w > 0 THEN Area(b, shows, s) ELSE <<>>
  IN  Strip(top, Rect(r.x, r.y, r.w, top)) \o Strip(bottom, Rect(r.x, r.y + r.h - bottom, r.w, bottom))
        \o Strip(left, Rect(r.x, r.y, left, r.h)) \o Strip(right, Rect(r.x + r.w - right, r.y, right, r.h))

BorderColor(style) ==                  \* "border-color", or the last color in "border"
  LET own == OrElse(Raw(style, "border-color"), <<>>)
      short == SelectSeq(OrElse(Raw(style, "border"), <<>>), LAMBDA t : t.kind = "word" /\ t.word \in Colors)
  IN  IF "border-color" \in DOMAIN style THEN Color(own) ELSE {t.word : t \in LastOf(short)}

PaintBorder(b) ==
  IF BorderColor(b.style) = {} THEN <<>>
  ELSE Frame(b, "border", b.rect, b.border.top, b.border.right, b.border.bottom, b.border.left)

PaintFocusRing(b) ==                   \* outside the box
  LET r == Rect(b.rect.x - RingWidth, b.rect.y - RingWidth, b.rect.w + 2 * RingWidth, b.rect.h + 2 * RingWidth)
  IN  IF b.focused THEN Frame(b, "ring", r, RingWidth, RingWidth, RingWidth, RingWidth) ELSE <<>>

PaintField(b) ==                       \* the value where layout put it, and a bar for the cursor
  LET tall == LineHeight(b.size)
      wide == SumOf([i \in DOMAIN OrElse(b.input, <<>>) |-> WordWidth(OrElse(b.input, <<>>)[i], b.size)])
  IN  Area(b, "value", Rect(b.field.x, b.field.y, wide, tall))
        \o FlattenSeq([c \in 1 .. Cardinality(b.field.cursor) |->
                         Area(b, "cursor", Rect(OrElse(b.field.cursor, 0), b.field.y, 1, tall))])

-----------------------------------------------------------------------------
(* The controls of a medium: a play button, a track, the time, a mute       *)
(* button. Painting starts the bar where the picture ends, a click counts   *)
(* it from the bottom of the box.                                           *)

TrackEnd(r) == Most(r.x + r.w - ButtonWidth - TimeWidth, r.x + ButtonWidth)

PaintedBar(b) == LET above == Most(0, b.rect.h - BarHeight)
                 IN  Rect(b.rect.x, b.rect.y + above, b.rect.w, BarHeight)

PaintMedia(b, m) ==
  LET r == b.rect
      picture == IF m.controls THEN Most(0, r.h - BarHeight) ELSE r.h
      bar == PaintedBar(b)
      Part(shows, x0, x1) == Area(b, shows, Rect(x0, bar.y, x1 - x0, bar.h))
  IN  (IF m.video THEN Area(b, "picture", Rect(r.x, r.y, r.w, picture)) ELSE <<>>)
        \o (IF ~ m.controls THEN <<>>
            ELSE Area(b, "bar", bar) \o Part("play", bar.x, bar.x + ButtonWidth)
                   \o Part("track", bar.x + ButtonWidth, TrackEnd(bar)) \o Part("time", TrackEnd(bar), TrackEnd(bar) + TimeWidth)
                   \o Part("mute", bar.x + bar.w - ButtonWidth, bar.x + bar.w))

ControlBar(b) == Rect(b.rect.x, b.rect.y + b.rect.h - BarHeight, b.rect.w, BarHeight)

HitWithinControlBar(b, x, y) ==        \* an option: which control
  LET bar == ControlBar(b)
  IN  IF ~ Covers(bar, x, y) THEN {}
      ELSE CASE x < bar.x + ButtonWidth -> {"play"}
             [] x >= bar.x + ButtonWidth /\ x >= bar.x + bar.w - ButtonWidth -> {"mute"}
             [] OTHER -> IF x < TrackEnd(bar) THEN {"track"} ELSE {}

HitTestMedia(tree, x, y) ==            \* wherever in the tree: the boxes around it do not matter
  LET Of(b) == {[id |-> b.id, control |-> c] : c \in
                  UNION {HitWithinControlBar(b, x, y) : m \in {m \in b.media : m.controls /\ m.duration > 0}}}
      all == AllBoxes(tree)
      hits == FlattenSeq([i \in DOMAIN all |-> SetToSeq(Of(all[i]))])
  IN  LastOf(hits)

-----------------------------------------------------------------------------
(* Find in page: a query is a sequence of words to be found in one line,    *)
(* from its start, matches not overlapping.                                 *)

FindAllMatches(words, query) ==        \* where the matches start
  LET Next(s, i) ==
        IF i >= s.free /\ i + Len(query) - 1 <= Len(words) /\ SubSeq(words, i, i + Len(query) - 1) = query
        THEN [at |-> Append(s.at, i), free |-> i + Len(query)] ELSE s
  IN  IF query = <<>> THEN <<>>
      ELSE FoldLeft(Next, [at |-> <<>>, free |-> 1], [i \in DOMAIN words |-> i]).at

LineMatches(b, line, query) ==
  LET at == FindAllMatches(line.words, query)
      From(i) == TextWidth(SubSeq(line.words, 1, i - 1), b.size) + IF i = 1 THEN 0 ELSE SpaceWidth(b.size)
  IN  [k \in DOMAIN at |-> Rect(line.x + From(at[k]), line.y, TextWidth(query, b.size), LineHeight(b.size))]

MatchesOf(b, query) == FlattenSeq([i \in DOMAIN b.lines |-> LineMatches(b, b.lines[i], query)])

FindMatchesInTree(tree, query) ==
  LET all == AllBoxes(tree) IN FlattenSeq([i \in DOMAIN all |-> MatchesOf(all[i], query)])

-----------------------------------------------------------------------------
(* The whole picture: a box, then its children.                             *)

PaintText(b, query) ==                 \* the highlights of a line under its words
  LET Line(l) ==
        LET found == LineMatches(b, l, query)
        IN  FlattenSeq([k \in DOMAIN found |-> Area(b, "match", found[k])])
              \o Area(b, "text", Rect(l.x, l.y, TextWidth(l.words, b.size), LineHeight(b.size)))
  IN  FlattenSeq([i \in DOMAIN b.lines |-> Line(b.lines[i])])

PaintCheck(b) ==                       \* a checked box is filled but for an inset
  LET Inner(n) == Most(0, n - 6)
      w == Inner(b.rect.w)
      h == Inner(b.rect.h)
  IN  Area(b, "mark", Rect(b.rect.x + (b.rect.w - w) \div 2, b.rect.y + (b.rect.h - h) \div 2, w, h))

PaintOne(b, query) ==
  LET background == IF "background-color" \in DOMAIN b.style /\ Color(b.style["background-color"]) # {}
                    THEN Area(b, "background", b.rect) ELSE <<>>
      content == Rect(b.rect.x + b.border.left + b.padding.left, b.rect.y + b.border.top + b.padding.top,
                      b.rect.w - Across(b.border) - Across(b.padding), b.rect.h - Along(b.border) - Along(b.padding))
  IN  background \o PaintBorder(b) \o PaintFocusRing(b)
        \o (IF IsText(b) THEN PaintText(b, query) ELSE <<>>)
        \o (IF b.image # {} THEN Area(b, "image", content) ELSE <<>>)
        \o (IF b.input # {} THEN PaintField(b) ELSE <<>>)
        \o (IF b.check = {TRUE} THEN PaintCheck(b) ELSE <<>>)
        \o FlattenSeq([m \in 1 .. Cardinality(b.media) |-> PaintMedia(b, OrElse(b.media, NoRect))])

PaintWithFind(tree, query) ==
  LET all == AllBoxes(tree) IN FlattenSeq([i \in DOMAIN all |-> PaintOne(all[i], query)])

\* fill_rect: the pixels from the whole part of the one edge to that of the other.
Seen(areas, x, y) ==                   \* what is on top at a pixel
  LastOf(SelectSeq(areas, LAMBDA a : /\ a.rect.x <= x /\ x < a.rect.x + a.rect.w
                                     /\ a.rect.y <= y /\ y < a.rect.y + a.rect.h))
=============================================================================
