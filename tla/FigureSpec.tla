----------------------------- MODULE FigureSpec -----------------------------
(***************************************************************************)
(* tools/figures/core.mjs: what makes a figure spec valid, the text that    *)
(* describes it, and the markup and SVG that carry it.                      *)
(*                                                                          *)
(* A layout is a sequence of items in source order: a box, a group or an    *)
(* entry that is no object, each in the group `parent` (0 for the layout    *)
(* itself, item 1).  "none" stands for an absent id or label.               *)
(***************************************************************************)
EXTENDS Text, Integers

CONSTANTS MaxBoxes, MaxGroups, MaxDepth, MaxEdges, MaxSteps, MaxBeats, MaxHops, MaxRows   \* LIMITS

Children(items, i) == Positions(Len(items), LAMBDA j : items[j].parent = i)

WalkStepMutOrder(items, state) ==
  LET top == Last(state.stack)
      item == items[top.item]
      rest == Front(state.stack)
      pushed == [k \in DOMAIN Children(items, top.item) |->
                  [item |-> Children(items, top.item)[k], ancestors |-> Append(top.ancestors, top.item)]]
  IN CASE item.is = "other" -> [state EXCEPT !.stack = rest, !.errors = @ \cup {"entry"}]
       [] item.is = "box" -> [state EXCEPT !.stack = rest, !.boxes = Append(@, top)]
       [] Len(top.ancestors) >= MaxDepth -> [state EXCEPT !.stack = rest, !.errors = @ \cup {"depth"}]
       [] OTHER -> [state EXCEPT !.stack = rest \o pushed, !.groups = Append(@, top)]

\* One turn of walkLayout's loop.  The depth of an entry is the number of its ancestors.
WalkStep(items, state) ==
  LET top == Last(state.stack)
      item == items[top.item]
      rest == Front(state.stack)
      pushed == [k \in DOMAIN Children(items, top.item) |->
                  [item |-> Reverse(Children(items, top.item))[k], ancestors |-> Append(top.ancestors, top.item)]]
  IN CASE item.is = "other" -> [state EXCEPT !.stack = rest, !.errors = @ \cup {"entry"}]
       [] item.is = "box" -> [state EXCEPT !.stack = rest, !.boxes = Append(@, top)]
       [] Len(top.ancestors) >= MaxDepth -> [state EXCEPT !.stack = rest, !.errors = @ \cup {"depth"}]
       [] OTHER -> [state EXCEPT !.stack = rest \o pushed, !.groups = Append(@, top)]

RECURSIVE Walk(_, _, _)
Walk(items, state, seen) ==
  CASE state.stack = <<>> -> state
    [] seen >= MaxBoxes + MaxGroups + 1 -> [state EXCEPT !.errors = @ \cup {"size"}]
    [] OTHER -> Walk(items, WalkStep(items, state), seen + 1)

\* walkLayout: the boxes and groups, each with the groups it sits in, outermost first.
WalkLayout(items) ==
  Walk(items, [stack |-> <<[item |-> 1, ancestors |-> <<>>]>>, boxes |-> <<>>, groups |-> <<>>, errors |-> {}], 0)

\* boxIds of a group: the boxes that have it as an ancestor.
BoxesIn(walked, group) == SelectSeq(walked.boxes, LAMBDA b : group \in Range(b.ancestors))

Claim(items, state, entry, required) ==
  LET id == items[entry.item].id
  IN CASE id = "none" /\ ~required -> state
       [] id \in {"none", ""} -> [state EXCEPT !.errors = @ \cup {"id"}]
       [] id \in state.ids -> [state EXCEPT !.errors = @ \cup {"duplicate"}]
       [] OTHER -> [state EXCEPT !.ids = @ \cup {id}]

\* validateLayout: every box needs an id of its own, a group may have one.
ValidateLayout(items, walked) ==
  LET start == [ids |-> {},
                errors |-> walked.errors \cup (IF Len(walked.boxes) > MaxBoxes THEN {"boxes"} ELSE {})
                                         \cup (IF Len(walked.groups) > MaxGroups THEN {"groups"} ELSE {})]
      boxes == FoldLeft(LAMBDA state, box : Claim(items, state, box, TRUE), start, walked.boxes)
  IN FoldLeft(LAMBDA state, group : Claim(items, state, group, FALSE), boxes, walked.groups)

EdgeIdOf(edge) == IF edge.id = <<>> THEN <<edge.from, "->", edge.to>> ELSE edge.id

\* validateEdges: the first MaxEdges edges have an id of their own and join two known ids.
ValidateEdges(edges, ids) ==
  LET shown == SubSeq(edges, 1, IF Len(edges) > MaxEdges THEN MaxEdges ELSE Len(edges))
      check(state, edge) ==
        [ids |-> state.ids \cup {EdgeIdOf(edge)},
         errors |-> state.errors \cup (IF EdgeIdOf(edge) \in state.ids THEN {"duplicate edge"} ELSE {})
                                 \cup (IF {edge.from, edge.to} \subseteq ids THEN {} ELSE {"end"})]
  IN FoldLeft(check, [ids |-> {}, errors |-> IF Len(edges) > MaxEdges THEN {"edges"} ELSE {}], shown)

\* validateContent: a string (zero rows here) or a bounded list of rows.
ValidateContent(rows) == IF rows > MaxRows THEN {"rows"} ELSE {}

\* validateBeat: hops name edges; what a beat shows or lights is a box, never a group.
ValidateBeat(beat, boxIds, edgeIds) ==
  (IF Len(beat.hops) > MaxHops THEN {"hops"} ELSE {})
  \cup (IF \E i \in DOMAIN beat.hops : i <= MaxHops /\ beat.hops[i] \notin edgeIds THEN {"hop"} ELSE {})
  \cup (IF beat.show \cup beat.light \subseteq boxIds THEN {} ELSE {"box"})
  \cup (IF beat.show # {} THEN ValidateContent(beat.rows) ELSE {})

\* validateSteps: a step that lists too many beats is not read further.
ValidateSteps(steps, boxIds, edgeIds) ==
  (IF Len(steps) > MaxSteps THEN {"steps"} ELSE {})
  \cup UNION {IF Len(steps[s].flow) > MaxBeats THEN {"flow"}
              ELSE UNION {ValidateBeat(steps[s].flow[b], boxIds, edgeIds) : b \in DOMAIN steps[s].flow}
                   \cup (IF steps[s].nodes \subseteq boxIds THEN {} ELSE {"box"})
              : s \in {n \in DOMAIN steps : n <= MaxSteps}}

\* validate, for a figure with a title, alt text, evidence and a layout (validateTop).
Validate(figure) ==
  LET walked == WalkLayout(figure.items)
      layout == ValidateLayout(figure.items, walked)
      edges == ValidateEdges(figure.edges, layout.ids)
      boxIds == {figure.items[walked.boxes[b].item].id : b \in DOMAIN walked.boxes}
  IN layout.errors \cup edges.errors \cup ValidateSteps(figure.steps, boxIds, edges.ids)

(***************************************************************************)
(* The description.  A line is a sequence of words.                        *)
(***************************************************************************)
\* labeller: a box's label, a group's label, or the id itself; boxes last.
Labeller(items, walked, id) ==
  LET named(entries) == SelectSeq(entries, LAMBDA e : items[e.item].id = id)
      group == named(walked.groups)
      box == named(walked.boxes)
  IN CASE box # <<>> -> items[Last(box).item].label
       [] group # <<>> /\ items[Last(group).item].label # "none" -> items[Last(group).item].label
       [] OTHER -> id

\* describeLayout: boxes by the innermost group that has a label, the rest last.
Home(items, box) ==
  LET labelled == SelectSeq(box.ancestors, LAMBDA a : items[a].label # "none")
  IN IF labelled = <<>> THEN 0 ELSE Last(labelled)
DescribeLayout(items, walked) ==
  LET in(home) == SelectSeq(walked.boxes, LAMBDA b : Home(items, b) = home)
      line(head, boxes) == <<head>> \o [i \in DOMAIN boxes |-> items[boxes[i].item].label]
      homes == SelectSeq(walked.groups, LAMBDA g : in(g.item) # <<>>)
  IN [i \in DOMAIN homes |-> line(items[homes[i].item].label, in(homes[i].item))]
     \o (IF in(0) = <<>> THEN <<>> ELSE <<line("Boxes", in(0))>>)

\* describeEdges: an edge that starts where the previous one ended continues its line.
DescribeEdges(edges, name) ==
  LET step(state, edge) ==
        IF state.chain # <<>> /\ edge.from = state.end
        THEN [state EXCEPT !.chain = Append(@, name[edge.to]), !.end = edge.to]
        ELSE [lines |-> IF state.chain = <<>> THEN state.lines ELSE Append(state.lines, state.chain),
              chain |-> <<name[edge.from], name[edge.to]>>, end |-> edge.to]
      last == FoldLeft(step, [lines |-> <<>>, chain |-> <<>>, end |-> "none"], edges)
  IN IF last.chain = <<>> THEN last.lines ELSE Append(last.lines, last.chain)

\* normalizedEdges: an edge to a group becomes one edge per box inside it.
NormalizedEdges(figure) ==
  LET walked == WalkLayout(figure.items)
      label(entry) == figure.items[entry.item].label
      ends(id) == LET groups == SelectSeq(walked.groups, LAMBDA g : figure.items[g.item].id = id)
                      boxes == IF groups # <<>> THEN BoxesIn(walked, Last(groups).item)
                               ELSE SelectSeq(walked.boxes, LAMBDA b : figure.items[b.item].id = id)
                  IN [i \in DOMAIN boxes |-> label(boxes[i])]
      pairs(edge) == FlattenSeq([f \in DOMAIN ends(edge.from) |->
                       [t \in DOMAIN ends(edge.to) |-> <<ends(edge.from)[f], ends(edge.to)[t]>>]])
  IN FlattenSeq([e \in DOMAIN figure.edges |-> pairs(figure.edges[e])])

\* capLines over the lengths of the lines: whole lines, and the note when anything was dropped.
JoinedLength(lines) == FoldLeft(LAMBDA sum, n : sum + n, 0, lines) + (IF lines = <<>> THEN 0 ELSE Len(lines) - 1)
CapLinesMutNote(lines, note, limit) ==
  LET keep(state, length) ==
        IF state.done \/ state.used + length + 1 > limit THEN [state EXCEPT !.done = TRUE]
        ELSE [state EXCEPT !.kept = Append(@, length), !.used = @ + length + 1]
  IN IF JoinedLength(lines) <= limit THEN lines
     ELSE Append(FoldLeft(keep, [kept |-> <<>>, used |-> 0, done |-> FALSE], lines).kept, note)

CapLines(lines, note, limit) ==
  LET keep(state, length) ==
        IF state.done \/ state.used + length + 1 > limit THEN [state EXCEPT !.done = TRUE]
        ELSE [state EXCEPT !.kept = Append(@, length), !.used = @ + length + 1]
  IN IF JoinedLength(lines) <= limit THEN lines
     ELSE Append(FoldLeft(keep, [kept |-> <<>>, used |-> note, done |-> FALSE], lines).kept, note)

(***************************************************************************)
(* Markup.  An entity is three characters: "&", its name, ";".             *)
(***************************************************************************)
Entities ==
  [c \in {"&", "<", ">", "\"", "'"} |->
     CASE c = "&" -> "amp" [] c = "<" -> "lt" [] c = ">" -> "gt" [] c = "\"" -> "quot" [] c = "'" -> "#x27"]
EscapeHtmlMutBrace(text) ==
  FlattenSeq([i \in DOMAIN text |-> IF text[i] \in DOMAIN Entities THEN <<"&", Entities[text[i]], ";">> ELSE <<text[i]>>])

\* escapeHtml; a brace that another brace follows is escaped too.
EscapeHtml(text) ==
  LET escaped == FlattenSeq([i \in DOMAIN text |->
                   IF text[i] \in DOMAIN Entities THEN <<"&", Entities[text[i]], ";">> ELSE <<text[i]>>])
  IN FlattenSeq([i \in DOMAIN escaped |->
       IF escaped[i] = "{" /\ At(escaped, i + 1) = "{" THEN <<"&", "#123", ";">> ELSE <<escaped[i]>>])

BaseSlot == <<"{", "{", "base", "}", "}">>
LinkSlot == <<"{", "{", "link", "}", "}">>

\* markup: the lines with slots or text in them.
Markup(title, alt) ==
  JoinWith(<<<<"<", "source ">> \o BaseSlot \o <<">">>,
             <<"<", "img ">> \o BaseSlot \o <<" alt=", "\"">> \o EscapeHtml(alt) \o <<"\"", ">">>,
             <<"<", "figcaption", ">">> \o EscapeHtml(title) \o <<"<", "/figcaption", ">">>,
             <<"<", "a ">> \o LinkSlot \o <<">">>>>, <<"\n">>)

\* fillSlots: one pass over the template; without a link the line that holds its slot is dropped.
RECURSIVE ReplaceSlots(_, _, _, _)
ReplaceSlots(template, base, link, at) ==
  CASE at > Len(template) -> <<>>
    [] StartsAt(template, BaseSlot, at) -> base \o ReplaceSlots(template, base, link, at + Len(BaseSlot))
    [] StartsAt(template, LinkSlot, at) -> EscapeHtml(link) \o ReplaceSlots(template, base, link, at + Len(LinkSlot))
    [] OTHER -> <<template[at]>> \o ReplaceSlots(template, base, link, at + 1)
FillSlots(html, base, link) ==
  LET lines == SelectSeq(Split(html, "\n"), LAMBDA line : ~Includes(line, LinkSlot))
  IN ReplaceSlots(IF link = <<>> THEN JoinWith(lines, <<"\n">>) ELSE html, base, link, 1)

\* JSON.stringify and JSON.parse of a text, and the escape that keeps "]]>" out of it.
JSONText(text) ==
  FlattenSeq([i \in DOMAIN text |-> CASE text[i] \in {"\\", "\""} -> <<"\\", text[i]>>
                                      [] text[i] = "\n" -> <<"\\", "n">>
                                      [] OTHER -> <<text[i]>>])
RECURSIVE JSONParse(_, _)
JSONParse(json, at) ==
  CASE at > Len(json) -> <<>>
    [] json[at] = "\\" -> <<CASE At(json, at + 1) = "u003e" -> ">" [] At(json, at + 1) = "n" -> "\n"
                              [] OTHER -> At(json, at + 1)>> \o JSONParse(json, at + 2)
    [] OTHER -> <<json[at]>> \o JSONParse(json, at + 1)
SpecText(text) ==
  LET json == JSONText(text)
  IN FlattenSeq([i \in DOMAIN json |->
       IF i > 2 /\ json[i] = ">" /\ json[i - 1] = "]" /\ json[i - 2] = "]" THEN <<"\\", "u003e">> ELSE <<json[i]>>])
SpecOpen == <<"<", "metadata", ">", "<", "!", "[">>
SpecClose == <<"]", "]", ">", "<", "/metadata", ">">>

\* decorate: title, description and the embedded spec after the opening tag of the SVG.
Decorate(title, alt, spec) ==
  <<"<", "svg", ">", "<", "title", ">">> \o EscapeHtml(title) \o <<"<", "desc", ">">> \o EscapeHtml(alt)
    \o <<"<", "!--", ">">> \o SpecOpen \o SpecText(spec) \o SpecClose \o <<"<", "/svg", ">">>

\* svgSpecError reads the spec back: what is between the first opening mark and the next closing one.
EmbeddedSpec(svg) ==
  LET start == IndexOf(svg, SpecOpen, 1) + Len(SpecOpen)
      end == IndexOf(svg, SpecClose, start)
  IN IF start = Len(SpecOpen) \/ end = Absent THEN [ok |-> FALSE, spec |-> <<>>]
     ELSE [ok |-> TRUE, spec |-> JSONParse(Slice(svg, start, end - 1), 1)]

(***************************************************************************)
(* What these must achieve.                                                *)
(***************************************************************************)
RECURSIVE Under(_, _, _)
Under(items, i, group) == i # 0 /\ (items[i].parent = group \/ Under(items, items[i].parent, group))
RECURSIVE DepthOf(_, _)
DepthOf(items, i) == IF items[i].parent = 0 THEN 0 ELSE 1 + DepthOf(items, items[i].parent)

\* An item comes before another in the source when its path of child numbers does.
RECURSIVE PreOrder(_, _)
PreOrder(items, i) == <<i>> \o FlattenSeq([k \in DOMAIN Children(items, i) |-> PreOrder(items, Children(items, i)[k])])

\* A figure within its bounds, in which every id names one box or group and every reference names
\* what it must, is valid; no other figure is.
WellFormed(figure) ==
  LET items == figure.items
      boxes == {i \in DOMAIN items : items[i].is = "box"}
      groups == {i \in DOMAIN items : items[i].is = "group"}
      named == {i \in boxes \cup groups : items[i].id # "none"}
      edges == figure.edges
      ids == {EdgeIdOf(edges[e]) : e \in DOMAIN edges}
      boxIds == {items[i].id : i \in boxes}
      beats == UNION {Range(figure.steps[s].flow) : s \in DOMAIN figure.steps}
  IN /\ boxes \cup groups = DOMAIN items /\ boxes \subseteq named
     /\ Cardinality(boxes) <= MaxBoxes /\ Cardinality(groups) <= MaxGroups
     /\ \A i \in groups : DepthOf(items, i) < MaxDepth
     /\ \A i, j \in named : items[i].id # "" /\ (items[i].id = items[j].id => i = j)
     /\ Len(edges) <= MaxEdges /\ Cardinality(ids) = Len(edges)
     /\ \A e \in DOMAIN edges : {edges[e].from, edges[e].to} \subseteq {items[i].id : i \in named}
     /\ Len(figure.steps) <= MaxSteps
     /\ \A s \in DOMAIN figure.steps : Len(figure.steps[s].flow) <= MaxBeats /\ figure.steps[s].nodes \subseteq boxIds
     /\ \A beat \in beats : /\ Len(beat.hops) <= MaxHops /\ Range(beat.hops) \subseteq ids
                            /\ beat.show \cup beat.light \subseteq boxIds
                            /\ beat.show # {} => beat.rows <= MaxRows

\* The description of a valid figure names every box once, in source order within its line, and
\* every edge in order; its recorded edges are those between the boxes at both ends.
Described(figure) ==
  LET items == figure.items
      walked == WalkLayout(items)
      order == SelectSeq(PreOrder(items, 1), LAMBDA i : items[i].is = "box")
      ids == {items[i].id : i \in DOMAIN items}
      at(id) == CHOOSE i \in DOMAIN items : items[i].id = id
      inside(id) == SelectSeq(order, LAMBDA b : b = at(id) \/ Under(items, b, at(id)))
      name == [id \in ids |-> Labeller(items, walked, id)]
      lines == DescribeEdges(figure.edges, name)
      hops(line) == [k \in 1..(Len(line) - 1) |-> <<line[k], line[k + 1]>>]
      joins == {e \in 2..Len(figure.edges) : figure.edges[e].from = figure.edges[e - 1].to}
      product(edge) == {<<items[f].label, items[t].label>> : f \in Range(inside(edge.from)), t \in Range(inside(edge.to))}
      layout == DescribeLayout(items, walked)
  IN /\ [k \in DOMAIN walked.boxes |-> walked.boxes[k].item] = order
     /\ FlattenSeq([k \in DOMAIN lines |-> hops(lines[k])]) = [e \in DOMAIN figure.edges |-> <<name[figure.edges[e].from], name[figure.edges[e].to]>>]
     /\ Len(lines) = Len(figure.edges) - Cardinality(joins)
     /\ FoldLeft(LAMBDA sum, line : sum + Len(line) - 1, 0, layout) = Len(order)
     /\ Range(NormalizedEdges(figure)) = UNION {product(figure.edges[e]) : e \in DOMAIN figure.edges}
     /\ Len(NormalizedEdges(figure)) = FoldLeft(LAMBDA sum, e : sum + Len(inside(e.from)) * Len(inside(e.to)), 0, figure.edges)

FigureAgrees(figure) ==
  /\ Validate(figure) = {} <=> WellFormed(figure)
  /\ WellFormed(figure) => Described(figure)

\* The text fits unless the note alone does not, drops lines from the end only, and no more than
\* it must.
CapAgrees(lines, note, limit) ==
  LET capped == CapLines(lines, note, limit)
      kept == Front(capped)
  IN IF JoinedLength(lines) <= limit THEN capped = lines
     ELSE /\ Last(capped) = note /\ IsPrefix(kept, lines) /\ Len(kept) < Len(lines)
          /\ JoinedLength(capped) <= limit \/ capped = <<note>>
          /\ JoinedLength(Append(Append(kept, lines[Len(kept) + 1]), note)) > limit

\* What a browser shows for escaped text.
RECURSIVE Unescape(_, _)
Unescape(text, at) ==
  CASE at > Len(text) -> <<>>
    [] text[at] = "&" /\ At(text, at + 1) = "#123" -> <<"{">> \o Unescape(text, at + 3)
    [] text[at] = "&" /\ At(text, at + 1) \in Range(Entities) ->
         <<CHOOSE c \in DOMAIN Entities : Entities[c] = text[at + 1]>> \o Unescape(text, at + 3)
    [] OTHER -> <<text[at]>> \o Unescape(text, at + 1)

\* Text of a figure is shown as it is, whatever slots, tags or marks it spells: in the page the
\* slots of the template alone are filled, each once, and in the SVG the spec is read back.
MarkupAgrees(text, base, link) ==
  LET filled == FillSlots(Markup(text, text), base, link)
      shown == EscapeHtml(text)
      lines == <<<<"<", "source ">> \o base \o <<">">>,
                 <<"<", "img ">> \o base \o <<" alt=", "\"">> \o shown \o <<"\"", ">">>,
                 <<"<", "figcaption", ">">> \o shown \o <<"<", "/figcaption", ">">>>>
               \o (IF link = <<>> THEN <<>> ELSE <<<<"<", "a ">> \o EscapeHtml(link) \o <<">">>>>)
  IN /\ filled = JoinWith(lines, <<"\n">>)
     /\ Unescape(shown, 1) = text /\ \A i \in DOMAIN shown : shown[i] \notin {"<", ">", "\"", "'"}
     /\ EmbeddedSpec(Decorate(text, text, text)) = [ok |-> TRUE, spec |-> text]
=============================================================================
