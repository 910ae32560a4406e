------------------------------- MODULE Cascade -------------------------------
(***************************************************************************)
(* Computed style (css crate): which declarations apply to a node, which of *)
(* them wins, what a node inherits, and what the values mean to layout. A   *)
(* stylesheet is a sequence of rules, each a parsed selector and the        *)
(* declarations of its block; a style maps the properties that have a value *)
(* to it. A value is the sequence of its tokens: words, numbers with a unit, *)
(* repeat() and the quoted rows of grid-template-areas. An optional result   *)
(* is a set of at most one element. Sizes are whole pixels.                  *)
(***************************************************************************)
EXTENDS Selectors, Declarations

CONSTANT DefaultFontSize    \* DEFAULT_FONT_SIZE_PX

Word(w) == [kind |-> "word", word |-> w]
Num(n, unit) == [kind |-> "number", n |-> n, unit |-> unit]
W(w) == <<Word(w)>>
Px(n) == <<Num(n, "px")>>

OrElse(option, default) == IF option = {} THEN default ELSE CHOOSE x \in option : TRUE
SumOf(s) == FoldLeft(LAMBDA a, b : a + b, 0, s)
Least(a, b) == IF a < b THEN a ELSE b
Most(a, b) == IF a > b THEN a ELSE b
First(s) == IF s = <<>> THEN {} ELSE {s[1]}

Raw(style, p) == IF p \in DOMAIN style THEN {style[p]} ELSE {}

-----------------------------------------------------------------------------
(* Reading a value. Anything unexpected is as if nothing was said.          *)

TokenLength(t) == IF t.kind = "number" /\ t.unit \in {"px", ""} THEN {t.n} ELSE {}
Length(v) == IF Len(v) = 1 THEN TokenLength(v[1]) ELSE {}
LengthOf(style, p) == UNION {Length(v) : v \in Raw(style, p)}

Keyword(style, p, words, default) ==
  OrElse({v[1].word : v \in {v \in Raw(style, p) : Len(v) = 1 /\ v[1].kind = "word" /\ v[1].word \in words}},
         default)

DisplayOf(style)  == Keyword(style, "display", {"none", "inline", "flex", "grid"}, "block")
PositionOf(style) == Keyword(style, "position", {"relative", "absolute", "fixed"}, "static")
FloatOf(style)    == Keyword(style, "float", {"left", "right"}, "none")
ClearOf(style)    == Keyword(style, "clear", {"left", "right", "both"}, "none")
IsColumn(style)   == Keyword(style, "flex-direction", {"column", "column-reverse"}, "row") # "row"
Wraps(style)      == Keyword(style, "flex-wrap", {"wrap", "wrap-reverse"}, "nowrap") # "nowrap"
JustifyOf(style)  == Keyword(style, "justify-content",
                             {"flex-end", "center", "space-between", "space-around"}, "flex-start")
AlignOf(style)    == Keyword(style, "align-items", {"flex-start", "flex-end", "center"}, "stretch")

\* flex-grow and flex-shrink: a bare number, never below 0.
FactorOf(style, p, default) ==
  Most(0, OrElse({v[1].n : v \in {v \in Raw(style, p) : Len(v) = 1 /\ v[1].kind = "number" /\ v[1].unit = ""}},
                 default))

FlexBasis(style) == LengthOf(style, "flex-basis")

\* The longhand, or that side of "gap: row column", where one length serves for both.
GapOf(style, p) ==
  LET lengths == FoldLeft(LAMBDA s, t : s \o SetToSeq(TokenLength(t)), <<>>, OrElse(Raw(style, "gap"), <<>>))
      Short(n) == IF n = <<>> THEN 0 ELSE IF p = "column-gap" /\ Len(n) > 1 THEN n[2] ELSE n[1]
  IN  OrElse(LengthOf(style, p), Short(lengths))

RECURSIVE GridTracks(_)
GridTracks(v) ==
  LET Tracks(t) ==
        CASE t.kind = "repeat" -> FlattenSeq([i \in 1 .. t.count |-> GridTracks(t.pattern)])
          [] t.kind = "number" /\ t.unit = "fr" -> <<[kind |-> "fraction", n |-> t.n]>>
          [] OTHER -> [i \in 1 .. Cardinality(TokenLength(t)) |-> [kind |-> "fixed", n |-> t.n]]
  IN  FlattenSeq([i \in DOMAIN v |-> Tracks(v[i])])

GridTemplate(style, p) == GridTracks(OrElse(Raw(style, p), <<>>))
GridAreas(style) == [i \in DOMAIN OrElse(Raw(style, "grid-template-areas"), <<>>) |->
                       OrElse(Raw(style, "grid-template-areas"), <<>>)[i].names]
GridArea(style) == {v[1].word : v \in {v \in Raw(style, "grid-area") : Len(v) = 1 /\ v[1].kind = "word"}}
GridSpan(style, p) ==                  \* "span n" with n above 0; anything else spans 1
  OrElse({v[2].n : v \in {v \in Raw(style, p) : /\ Len(v) = 2 /\ v[1] = Word("span")
                                                /\ v[2].kind = "number" /\ v[2].unit = "" /\ v[2].n > 0}}, 1)

-----------------------------------------------------------------------------
(* The cascade                                                              *)

Inherited == {"color", "font-family", "font-weight", "font-style", "line-height", "text-align",
              "visibility", "cursor", "letter-spacing", "white-space"}

FontSize(style) == OrElse(LengthOf(style, "font-size"), DefaultFontSize)

(* Relative sizes are of the parent's; sizes nobody understands are the parent's. Numbers *)
(* with "em" and "%" are hundredths.                                                      *)
ResolveFontSize(specified, parentPx) ==
  IF Len(specified) # 1 THEN parentPx
  ELSE LET t == specified[1]
           Scaled(percent) == (DefaultFontSize * percent) \div 100
       IN  CASE t.kind = "number" /\ t.unit \in {"%", "em"} -> (parentPx * t.n) \div 100
             [] t.kind = "number" /\ t.unit \in {"px", ""} -> t.n
             [] t = Word("smaller") -> (parentPx * 10) \div 12
             [] t = Word("larger") -> (parentPx * 12) \div 10
             [] t = Word("xx-small") -> Scaled(60)
             [] t = Word("x-small") -> Scaled(75)
             [] t = Word("small") -> Scaled(89)
             [] t = Word("medium") -> Scaled(100)
             [] t = Word("large") -> Scaled(120)
             [] t = Word("x-large") -> Scaled(150)
             [] t = Word("xx-large") -> Scaled(200)
             [] OTHER -> parentPx

(* What the selectors of the rules that match weigh, and what the style attribute declares. *)
Weights(d, n, rules) == LET matching == {i \in DOMAIN rules : SelectorMatches(d, n, rules[i].selector)}
                        IN  [i \in matching |-> Specificity(rules[i].selector)]
Inline(d, n) == IF n \in Elements(d) THEN d.inline[n] ELSE <<>>

(* The rules' declarations, over them the style attribute, under both what the parent     *)
(* computed; the font size always ends up as pixels, for the children to refer to.         *)
ComputeStyle(d, n, rules, parent) ==
  LET own == Specified(rules, Weights(d, n, rules), Inline(d, n))
      passed == [p \in Inherited \cap DOMAIN parent |-> parent[p]]
      Sized(style) ==
        Set(style, "font-size", Px(ResolveFontSize(OrElse(Raw(style, "font-size"), <<>>), FontSize(parent))))
  IN  Sized(own @@ passed)

-----------------------------------------------------------------------------
(* Where rules come from. Each block of a sheet has a list of selectors; a  *)
(* selector that does not parse is left out and the others keep the block.  *)

ParseStylesheet(blocks) ==
  LET Rules(list, b) == [i \in DOMAIN list |-> [selector |-> list[i], declarations |-> b.declarations]]
  IN  FlattenSeq([i \in DOMAIN blocks |-> Rules(ParseSelectorList(blocks[i].selectors), blocks[i])])

(* In document order: the text of every <style>, and of every stylesheet <link> that has   *)
(* arrived. What is inside either is not looked at.                                        *)
Inside(d, n) == LET Up[m \in {NoParent, Doc} \cup d.nodes] ==
                      m \in d.nodes /\ (m \in d.styles \cup d.links \/ Up[d.parent[m]])
                IN  Up[d.parent[n]]
AuthorRules(d, external) ==
  LET sources == {n \in d.nodes : ~ Inside(d, n) /\ (n \in d.styles \/ n \in d.links \cap DOMAIN external)}
      Text(n) == IF n \in d.styles THEN d.css[n] ELSE external[n]
      order == Sorted(sources, <)
  IN  FlattenSeq([i \in DOMAIN order |-> ParseStylesheet(Text(order[i]))])

NeverRendered == <<"head", "title", "meta", "link", "script", "style", "noscript", "template">>
InlineTags == <<"a", "span", "b", "i", "em", "strong", "small", "code", "label", "abbr", "sub", "sup", "u",
                "s", "mark", "img", "input", "video", "audio", "button">>

TagPart(t) == [kind |-> "tag", name |-> t]
Parts(parts) == <<[kind |-> "parts", parts |-> parts]>>
HasType(t) == [kind |-> "attribute", op |-> "equals", name |-> "type", value |-> <<t>>]
Decl(p, v) == [property |-> p, value |-> v]
Block(selectors, declarations) == [selectors |-> selectors, declarations |-> declarations]

(* The blocks the browser starts from, in the order of the source; the author's follow.    *)
UserAgentBlocks(bg, fg) ==
  LET Tags(tags, v) == [i \in DOMAIN tags |-> Block(<<Parts(<<TagPart(tags[i])>>)>>, v)]
      Typed(t) == Parts(<<TagPart("input"), HasType(t)>>)
      Control(more) == <<Decl("border", <<Num(1, "px"), Word("solid")>>), Decl("color", fg)>> \o more
      Box(w, h) == <<Decl("width", w), Decl("height", h)>>
      Heading(t, em) == Block(<<Parts(<<TagPart(t)>>)>>, <<Decl("font-size", <<Num(em, "em")>>)>>)
  IN  <<Block(<<Parts(<<TagPart("html")>>)>>, <<Decl("background-color", bg), Decl("color", fg)>>),
        Block(<<Parts(<<TagPart("body")>>)>>, <<Decl("background-color", bg)>>)>>
      \o Tags(NeverRendered, <<Decl("display", W("none"))>>)
      \o Tags(InlineTags, <<Decl("display", W("inline"))>>)
      \o <<Block(<<Parts(<<TagPart("input")>>)>>,
                 Control(Box(Px(150), Px(22)) \o <<Decl("padding", Px(2) \o Px(4))>>)),
           Block(<<Typed("checkbox"), Typed("radio")>>, Box(Px(16), Px(16)) \o <<Decl("padding", Px(0))>>),
           Block(<<Parts(<<TagPart("button")>>), Typed("submit"), Typed("button"), Typed("reset")>>,
                 Control(Box(W("auto"), W("auto")) \o <<Decl("padding", Px(4) \o Px(10))>>)),
           Block(<<Parts(<<TagPart("audio")>>)>>, <<Decl("display", W("none"))>>),
           Block(<<Parts(<<TagPart("audio"), [kind |-> "attribute", op |-> "exists", name |-> "controls", value |-> <<>>]>>)>>,
                 <<Decl("display", W("inline"))>> \o Box(Px(300), Px(32))),
           Block(<<Parts(<<TagPart("video")>>)>>, <<Decl("display", W("inline"))>> \o Box(Px(300), Px(150))),
           Heading("h1", 200), Heading("h2", 150), Heading("h3", 117),
           Heading("h4", 100), Heading("h5", 83), Heading("h6", 67)>>
=============================================================================
