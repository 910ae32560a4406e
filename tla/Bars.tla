--------------------------------- MODULE Bars ---------------------------------
(***************************************************************************)
(* Where the browser's own controls are: what is painted over what, and what *)
(* a click at each place does. The two are written apart in the code, one     *)
(* function per bar on either side, and agree only by their arithmetic.       *)
(* A unit of length is four pixels, and a place is a whole number of units.   *)
(***************************************************************************)
EXTENDS Integers, Sequences, FiniteSetsExt

CONSTANTS
  Canvases,  \* widths and heights the canvas may have
  TabCounts, \* how many tabs there may be
  Trees,     \* how many rows a snapshot of the document may have, 0 for none
  Talls,     \* heights pages may have
  Logs       \* how many messages the console may have

ASSUME BarsAssumption ==
  /\ Canvases \subseteq Nat \X Nat /\ TabCounts \subseteq Nat \ {0}
  /\ Trees \subseteq Nat /\ Talls \subseteq Nat /\ Logs \subseteq Nat

VARIABLES
  wide, high, \* of the canvas
  count,      \* of the tabs
  finding, tall, scroll,     \* the find bar is shown; the page's height and place
  open, elements,            \* the developer tools, and which of their two views
  nodes, treeRow, log, logRow, \* rows of each view and the first one shown
  signals                    \* the page runs scripts, or has affiliate links

barVars == <<wide, high, count, finding, tall, scroll, open, elements, nodes, treeRow, log, logRow, signals>>

TabBar       == 7
Address      == 8
Top          == TabBar + Address
Button       == 6
Margin       == 1
MinTab       == 20
MaxTab       == 50
CloseZone    == 5
PanelHeight  == 65
ToolsBar     == 6
RowHeight    == 4
InputHeight  == 5
Label        == 20
Action       == 15
FindWidth    == 65
FindHeight   == 8
FindMargin   == 2
Scrollbar    == 2
MinThumb     == 6
BadgeMargin  == 3

\* How wide the longest badge is drawn here; the code measures its text.
BadgeWidth   == 12

-----------------------------------------------------------------------------
(* Measures                                                                *)

Reserved == IF open THEN PanelHeight ELSE 0

Viewport == Max({0, high - Top - Reserved})

MaxOffset == Max({0, tall - Viewport})

PanelTop == high - PanelHeight

\* The width of a tab, times the number of tabs.
TabWidths ==
  LET room == Max({0, wide - TabBar})
  IN Max({MinTab * count, Min({MaxTab * count, room})})

\* The first place at or after the start of the i-th tab, counted from 0.
TabStart(i) == (i * TabWidths + count - 1) \div count

AccountX  == wide - Margin - Button
BookmarkX == AccountX - Margin - Button
BackX     == Margin
ForwardX  == BackX + Button + Margin
ReloadX   == ForwardX + Button + Margin

\* Rows of the console, and of the document's tree, that fit in full.
LogRows  == (PanelHeight - ToolsBar - InputHeight) \div RowHeight
TreeRows == (PanelHeight - ToolsBar) \div RowHeight

MaxLogRow  == Max({0, log - LogRows})
MaxTreeRow == Max({0, nodes - TreeRows})

\* As far down as there will ever be rows: usize::MAX.
Pinned == Max(Logs) + 1

-----------------------------------------------------------------------------
(* What is painted: later regions over earlier ones                        *)

One(name) == <<name, 0>>

Region(what, x, y, w, h) == [what |-> what, x |-> x, y |-> y, w |-> w, h |-> h]

\* The element selected in the tools is shaded where it is in the page, within what
\* is seen of the page: here the root, which is as tall as the page.
Highlight ==
  LET upper == Max({Top - scroll, Top})
      lower == Min({Top - scroll + tall, high - Reserved})
  IN IF ~ open \/ nodes = 0 \/ lower <= upper THEN <<>> ELSE <<Region(One("page"), 0, upper, wide, lower - upper)>>

PageArea ==
  <<Region(One("page"), 0, Top, wide, high - Top)>>
    \o (IF MaxOffset = 0 \/ Viewport = 0 THEN <<>>
        ELSE <<Region(One("scrollbar"), wide - Scrollbar, Top, Scrollbar, Viewport)>>)

TabStrip ==
  LET tab(i)   == Region(<<"tab", i>>, TabStart(i - 1), 0, TabStart(i) - TabStart(i - 1), TabBar)
      close(i) == LET x == TabStart(i) - CloseZone
                  IN Region(<<"close", i>>, x, 0, TabStart(i) - x, TabBar)
  IN <<Region(One("tabs"), 0, 0, wide, TabBar)>>
       \o [i \in 1 .. count |-> tab(i)]
       \o (IF count > 1 THEN [i \in 1 .. count |-> close(i)] ELSE <<>>)
       \o <<Region(One("new"), TabStart(count), 0, TabBar, TabBar)>>

Square(what, x) == Region(what, x, TabBar + 1, Button, Button)

\* Left of the bookmark's button, and over whatever else is there.
Badge ==
  IF ~ signals THEN <<>>
  ELSE <<Region(One("address"), Max({0, BookmarkX - Margin - BadgeMargin - BadgeWidth}), TabBar, BadgeWidth, Address)>>

AddressBar ==
  <<Region(One("address"), 0, TabBar, wide, Address),
    Square(One("back"), BackX), Square(One("forward"), ForwardX), Square(One("reload"), ReloadX),
    Square(One("bookmark"), BookmarkX), Square(One("account"), AccountX)>> \o Badge

FindBar ==
  IF ~ finding THEN <<>>
  ELSE <<Region(One("find"), Max({0, wide - FindWidth - FindMargin}), Top + FindMargin, FindWidth, FindHeight)>>

ToolsLabels ==
  <<Region(One("toolbar"), 0, PanelTop, wide, ToolsBar),
    Region(One("console"), 0, PanelTop, Label, ToolsBar), Region(One("elements"), Label, PanelTop, Label, ToolsBar)>>
    \o (IF ~ elements THEN <<>>
        ELSE <<Region(One("pick"), wide - 2 * Action, PanelTop, Action, ToolsBar),
               Region(One("refresh"), wide - Action, PanelTop, Action, ToolsBar)>>)

Console ==
  LET top == PanelTop + ToolsBar
  IN <<Region(One("log"), 0, top, wide, PanelHeight - ToolsBar - InputHeight),
       Region(One("input"), 0, PanelTop + PanelHeight - InputHeight, wide, InputHeight)>>

\* The rows painted of the tree, from which row of it on.
TreeFrom == Min({treeRow, MaxTreeRow})

Row(r) == Region(<<"node", TreeFrom + r>>, 0, PanelTop + ToolsBar + (r - 1) * RowHeight, wide \div 2, RowHeight)

\* The box model of the selected element: a square with a band for each edge.
Diagram(x, y, room) == Region(One("details"), x, y, Max({15, Min({35, room - 3})}), Max({15, Min({35, room - 3})}))

Tree ==
  LET top == PanelTop + ToolsBar
  IN <<Region(One("tree"), 0, top, wide \div 2, PanelHeight - ToolsBar),
       Region(One("details"), wide \div 2, top, wide - wide \div 2, PanelHeight - ToolsBar)>>
       \o [r \in 1 .. Min({TreeRows, nodes - TreeFrom}) |-> Row(r)]
       \o <<Diagram(wide \div 2 + 2, top, wide - wide \div 2 - 2)>>

ToolsPanel == IF ~ open THEN <<>> ELSE ToolsLabels \o (IF elements THEN Tree ELSE Console)

Repaint == PageArea \o TabStrip \o AddressBar \o FindBar \o Highlight \o ToolsPanel

Spans(r, x, y) == r.x <= x /\ x < r.x + r.w /\ r.y <= y /\ y < r.y + r.h

OnCanvas(x, y) == x \in 0 .. wide - 1 /\ y \in 0 .. high - 1

\* What a user sees at a place.
Atop(painted, x, y) == painted[Max({i \in DOMAIN painted : Spans(painted[i], x, y)})].what

-----------------------------------------------------------------------------
(* What a click does                                                       *)

HitTabBar(x) ==
  LET start   == TabStart(count)
      i       == (x * count) \div TabWidths
      closing == count > 1 /\ x >= TabStart(i + 1) - CloseZone
  IN CASE x >= start /\ x < start + TabBar -> One("new")
       [] x >= start + TabBar              -> One("tabs")
       [] x < start /\ closing             -> <<"close", i + 1>>
       [] x < start /\ ~ closing           -> <<"tab", i + 1>>

HitAddressBar(x, y) ==
  LET at == <<BackX, ForwardX, ReloadX, BookmarkX, AccountX>>
      hit == {i \in DOMAIN at : at[i] <= x /\ x < at[i] + Button}
  IN IF hit = {} THEN One("address") ELSE One(<<"back", "forward", "reload", "bookmark", "account">>[Min(hit)])

HitToolsBar(x) ==
  CASE x < Label                    -> One("console")
    [] x >= Label /\ x < 2 * Label  -> One("elements")
    [] x >= 2 * Label /\ elements /\ x >= wide - Action -> One("refresh")
    [] x >= 2 * Label /\ elements /\ x < wide - Action /\ x >= wide - 2 * Action -> One("pick")
    [] OTHER                        -> One("toolbar")

HitTree(x, y) ==
  LET row == y \div RowHeight + treeRow + 1
  IN CASE x >= wide \div 2                  -> One("details")
       [] x < wide \div 2 /\ row <= nodes   -> <<"node", row>>
       [] x < wide \div 2 /\ row > nodes    -> One("tree")

HitTools(x, y) ==
  LET below == y - ToolsBar IN
  CASE below < 0                -> HitToolsBar(x)
    [] below >= 0 /\ elements   -> HitTree(x, below)
    [] below >= 0 /\ ~ elements -> IF below >= PanelHeight - ToolsBar - InputHeight THEN One("input") ELSE One("log")

Hit(x, y) ==
  CASE y < TabBar                                   -> HitTabBar(x)
    [] y >= TabBar /\ y < Top                       -> HitAddressBar(x, y)
    [] y >= Top /\ open /\ y >= PanelTop            -> HitTools(x, y - PanelTop)
    [] y >= Top /\ ~ (open /\ y >= PanelTop)        -> One("page")

-----------------------------------------------------------------------------
(* Events that move any of it                                              *)

Clamped(offset, page, rows, panel) ==
  Min({Max({0, offset}), Max({0, page - Max({0, rows - Top - panel})})})

BarsInit ==
  /\ \E c \in Canvases : wide = c[1] /\ high = c[2]
  /\ count \in TabCounts
  /\ finding = FALSE /\ open = FALSE /\ elements = FALSE
  /\ tall \in Talls /\ scroll = 0
  /\ nodes = 0 /\ treeRow = 0 /\ log = 0 /\ logRow = 0 /\ signals = FALSE

CanvasResized ==
  /\ \E c \in Canvases : wide' = c[1] /\ high' = c[2]
  /\ scroll' = Clamped(scroll, tall, high', Reserved)
  /\ UNCHANGED <<count, finding, tall, open, elements, nodes, treeRow, log, logRow, signals>>

\* Variant: the view keeps the row it was scrolled to.
KeepsRow == nodes' \in Trees /\ UNCHANGED treeRow

RefreshTree == nodes' \in Trees /\ treeRow' = 0

\* The console starts from the row it is pinned to.
Wheel(rows) ==
  /\ IF ~ open
     THEN /\ scroll' = Clamped(scroll + rows * RowHeight, tall, high, Reserved)
          /\ UNCHANGED <<treeRow, logRow>>
     ELSE IF elements
     THEN /\ treeRow' = Max({0, Min({MaxTreeRow, Min({treeRow, MaxTreeRow}) + rows})})
          /\ UNCHANGED <<scroll, logRow>>
     ELSE /\ logRow' = Max({0, Min({MaxLogRow, Min({logRow, MaxLogRow}) + rows})})
          /\ UNCHANGED <<scroll, treeRow>>
  /\ UNCHANGED <<wide, high, count, finding, tall, open, elements, nodes, log, signals>>

ToggleTools ==
  /\ open' = ~ open
  /\ IF ~ open /\ elements THEN RefreshTree ELSE UNCHANGED <<nodes, treeRow>>
  /\ scroll' = Clamped(scroll, tall, high, IF open THEN 0 ELSE PanelHeight)
  /\ UNCHANGED <<wide, high, count, finding, tall, elements, log, logRow, signals>>

\* The other clicks in the panel choose a node, or who gets what is typed.
PressTools ==
  /\ open
  /\ \/ elements' = FALSE /\ UNCHANGED <<nodes, treeRow>>
     \/ elements' = TRUE /\ RefreshTree
  /\ UNCHANGED <<wide, high, count, finding, tall, scroll, open, log, logRow, signals>>

\* A session's answer: a page of another height, messages for the console.
PageAnswers ==
  /\ tall' \in Talls /\ signals' \in BOOLEAN
  /\ \/ log' \in {l \in Logs : l > log} /\ logRow' = Pinned
     \/ UNCHANGED <<log, logRow>>
  /\ scroll' = Clamped(scroll, tall', high, Reserved)
  /\ UNCHANGED <<wide, high, count, finding, open, elements, nodes, treeRow>>

TurnFinding ==
  /\ finding' = ~ finding
  /\ UNCHANGED <<wide, high, count, tall, scroll, open, elements, nodes, treeRow, log, logRow, signals>>

BarsNext ==
  \/ CanvasResized
  \/ \E rows \in {-8, 8} : Wheel(rows)
  \/ ToggleTools
  \/ PressTools
  \/ PageAnswers
  \/ TurnFinding

BarsSpec == BarsInit /\ [][BarsNext]_barVars

-----------------------------------------------------------------------------
(* Properties                                                              *)

\* The canvas has room for every control: below, buttons and the badge lie on one
\* another and the tools on the address bar.
Roomy == wide >= 52 /\ (open => high >= Top + PanelHeight /\ wide >= 70)

Corners(r) == {r.x, r.x + r.w - 1} \X {r.y, r.y + r.h - 1}

ThingsAgree(passive) ==
  LET painted == Repaint
      points  == UNION {Corners(painted[i]) : i \in DOMAIN painted}
  IN Roomy => \A p \in points :
       OnCanvas(p[1], p[2]) =>
         LET seen == Atop(painted, p[1], p[2])
         IN seen[1] \in passive \/ seen = Hit(p[1], p[2])

\* At each corner of each thing painted a click does what the thing seen there is for:
\* buttons, tabs and their crosses, the tools' labels, and rows of a tree scrolled
\* and replaced since.
ControlsAnswer == ThingsAgree({"scrollbar", "find", "tree"})

\* The scrollbar's thumb is in its track, at the top and at the bottom when the
\* page is, after any change of the page, the window and the tools.
ThumbTellsPlace ==
  LET thumb == Min({Viewport, Max({MinThumb, (Viewport * Viewport) \div Max({1, tall})})})
      at    == ((Viewport - thumb) * scroll) \div Max({1, MaxOffset})
  IN /\ scroll \in 0 .. MaxOffset
     /\ at >= 0 /\ at + thumb <= Viewport
     /\ MaxOffset > 0 /\ scroll = MaxOffset => at + thumb = Viewport

\* After any change of the page, the window and the tools, what the bars show is
\* what they do, and where the page is (Browser::repaint, handle_click).
BarsTellTruth == ControlsAnswer /\ ThumbTellsPlace

\* Every click does what is seen (a run shows that it does not: the find bar and the
\* scrollbar let clicks through to the page, and the strip below the last whole row
\* of the tree chooses a row that is not shown).
SeenIsHit == ThingsAgree({})
=============================================================================
