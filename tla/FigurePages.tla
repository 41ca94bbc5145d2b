---------------------------- MODULE FigurePages -----------------------------
(***************************************************************************)
(* tools/figures/checks.mjs: figures in Markdown pages, where a fence or a  *)
(* pair of markers names them, and in the HTML a site generator made of     *)
(* them.                                                                    *)
(***************************************************************************)
EXTENDS Text, Integers

CONSTANTS MaxFigures, Known(_), Html(_)   \* MAX_FIGURES, the figures that have a JSON, and its lines

(***************************************************************************)
(* A line of a page: a fence of `long` characters `mark` with an info       *)
(* string ("" for none), or text with the slug it names, both after some    *)
(* indent.  The page ends with an empty line when its text ends with "\n".  *)
(***************************************************************************)
Bounded(page) == IF page # <<>> /\ Last(page).is = "end" THEN Front(page) ELSE page

\* fenceBlocks: a closer has the opener's mark, is as long, and has no info string.
Closes(line, opener) == line.mark = opener.mark /\ line.long >= opener.long /\ line.info = ""
FenceBlocks(page) ==
  LET lines == Bounded(page)
      block(start, end) == [start |-> start, end |-> end, indent |-> lines[start].indent, info |-> lines[start].info,
                            body |-> SubSeq(lines, start + 1, IF end > Len(lines) THEN Len(lines) ELSE end - 1)]
      read(state, index) ==
        CASE lines[index].is # "fence" -> state
          [] state.opener = 0 -> [state EXCEPT !.opener = index]
          [] Closes(lines[index], lines[state.opener]) ->
               [blocks |-> Append(state.blocks, block(state.opener, index)), opener |-> 0]
          [] OTHER -> state
      last == FoldLeft(read, [blocks |-> <<>>, opener |-> 0], [i \in DOMAIN lines |-> i])
  IN IF last.opener = 0 THEN last.blocks ELSE Append(last.blocks, block(last.opener, Len(lines) + 1))

\* figureSlug: the first line of a fence that is not blank.
FigureSlug(body) ==
  LET named == SelectSeq(body, LAMBDA line : line.is # "blank")
  IN IF named = <<>> THEN "" ELSE Head(named).slug
FigureBlocks(page) == SelectSeq(FenceBlocks(page), LAMBDA block : block.info = "figure")
FigureSlugs(page) == [i \in DOMAIN FigureBlocks(page) |-> FigureSlug(FigureBlocks(page)[i].body)]

LastLine(page, block) == IF block.end > Len(Bounded(page)) THEN Len(Bounded(page)) ELSE block.end
Indented(indent, lines) == [i \in DOMAIN lines |-> [is |-> "html", indent |-> indent, text |-> lines[i]]]

ExpandMutForward(page) ==
  LET replace(state, block) ==
        LET slug == FigureSlug(block.body)
        IN IF ~Known(slug) THEN [state EXCEPT !.errors = Append(@, slug)]
           ELSE [state EXCEPT !.lines = SubSeq(@, 1, block.start - 1) \o Indented(block.indent, Html(slug))
                                        \o SubSeq(@, LastLine(page, block) + 1, Len(@))]
  IN FoldLeft(replace, [lines |-> page, errors |-> <<>>], FigureBlocks(page))

\* expand: from the last fence to the first, so that the line numbers of the others stay right.
Expand(page) ==
  LET replace(state, block) ==
        LET slug == FigureSlug(block.body)
        IN IF ~Known(slug) THEN [state EXCEPT !.errors = Append(@, slug)]
           ELSE [state EXCEPT !.lines = SubSeq(@, 1, block.start - 1) \o Indented(block.indent, Html(slug))
                                        \o SubSeq(@, LastLine(page, block) + 1, Len(@))]
      last == FoldLeft(replace, [lines |-> page, errors |-> <<>>], Reverse(FigureBlocks(page)))
  IN [lines |-> last.lines, errors |-> Reverse(last.errors)]

(***************************************************************************)
(* A README: markers that open and close a figure block, and other lines.   *)
(* MARKER takes an opening one up to the next closing one, whatever is      *)
(* between.                                                                 *)
(***************************************************************************)
CloseAfter(text, at) == Find(text, at + 1, LAMBDA line : line.is = "close")
RefreshBlockMutClose(text, at, slug) ==
  <<text[at]>> \o [i \in DOMAIN Html(slug) |-> [is |-> "html", slug |-> Html(slug)[i]]]
RefreshBlock(text, at, slug) ==
  <<text[at]>> \o [i \in DOMAIN Html(slug) |-> [is |-> "html", slug |-> Html(slug)[i]]] \o <<[is |-> "close", slug |-> ""]>>
RECURSIVE RefreshFrom(_, _, _)
RefreshFrom(text, at, count) ==
  LET close == CloseAfter(text, at)
      rest(next) == RefreshFrom(text, next, count + 1)
      slug == text[at].slug
  IN CASE at > Len(text) -> [text |-> <<>>, errors |-> <<>>]
       [] text[at].is # "open" \/ close > Len(text) ->
            LET after == RefreshFrom(text, at + 1, count) IN [after EXCEPT !.text = <<text[at]>> \o @]
       [] count >= MaxFigures -> [rest(close + 1) EXCEPT !.text = SubSeq(text, at, close) \o @]
       [] ~Known(slug) -> [text |-> SubSeq(text, at, close) \o rest(close + 1).text, errors |-> <<slug>> \o rest(close + 1).errors]
       [] OTHER -> [rest(close + 1) EXCEPT !.text = RefreshBlock(text, at, slug) \o @]

\* refreshMarkers
RefreshMarkers(text) == RefreshFrom(text, 1, 0)

(***************************************************************************)
(* What these must achieve.                                                *)
(***************************************************************************)
\* The line a fence opened at `start` ends on: its first closer, or the last line of the page.
EndOf(lines, start) ==
  Find(lines, start + 1, LAMBDA line : line.is = "fence" /\ line.mark = lines[start].mark
                                       /\ line.long >= lines[start].long /\ line.info = "")

\* The lines a page shows, from line `at` on: fence by fence, each figure's markup in the place of
\* its fence, all else as it stands.
RECURSIVE Shown(_, _, _)
Shown(page, lines, at) ==
  LET end == EndOf(lines, at)
      body == SelectSeq(SubSeq(lines, at + 1, end - 1), LAMBDA line : line.is # "blank")
      slug == IF body = <<>> THEN "" ELSE body[1].slug
      next == IF end > Len(lines) THEN end ELSE end + 1
  IN CASE at > Len(lines) -> [lines |-> SubSeq(page, at, Len(page)), errors |-> <<>>]
       [] lines[at].is # "fence" ->
            [Shown(page, lines, at + 1) EXCEPT !.lines = <<lines[at]>> \o @]
       [] lines[at].info = "figure" /\ Known(slug) ->
            [Shown(page, lines, next) EXCEPT !.lines = Indented(lines[at].indent, Html(slug)) \o @]
       [] OTHER -> LET rest == Shown(page, lines, next)
                   IN [lines |-> SubSeq(lines, at, next - 1) \o rest.lines,
                       errors |-> (IF lines[at].info = "figure" THEN <<slug>> ELSE <<>>) \o rest.errors]
FencesAgree(page) == Expand(page) = Shown(page, Bounded(page), 1)

\* Refreshing twice is refreshing once, so `sources` finds nothing after `portable --write`; a
\* line outside every block stays, and what is refreshed within the bound shows its figure.
MarkersAgree(text) ==
  LET refreshed == RefreshMarkers(text)
      blocks(lines) == {i \in DOMAIN lines : lines[i].is = "open" /\ CloseAfter(lines, i) <= Len(lines)}
      inside(lines, i) == \E b \in blocks(lines) : b < i /\ i < CloseAfter(lines, b)
      outside(lines) == SelectAt(lines, LAMBDA i : ~inside(lines, i))
      first(lines) == {b \in blocks(lines) : ~inside(lines, b)}
  IN /\ RefreshMarkers(refreshed.text) = refreshed
     /\ outside(refreshed.text) = outside(text)
     /\ \A b \in first(refreshed.text) :
          Known(refreshed.text[b].slug) /\ Cardinality({a \in first(refreshed.text) : a < b}) < MaxFigures =>
            SubSeq(refreshed.text, b + 1, CloseAfter(refreshed.text, b) - 1)
              = [i \in DOMAIN Html(refreshed.text[b].slug) |-> [is |-> "html", slug |-> Html(refreshed.text[b].slug)[i]]]
     /\ Len(refreshed.errors) <= Cardinality(first(text))
=============================================================================
