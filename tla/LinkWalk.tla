------------------------------ MODULE LinkWalk ------------------------------
(***************************************************************************)
(* tools/markdownlint/no-private-scratch-links.mjs: the walks that collect  *)
(* the destinations of a file: over the HTML tree of a fragment and its     *)
(* srcdoc documents, over an MDX syntax tree, over snippet lines, and over  *)
(* the Markdown parser's tokens.                                            *)
(***************************************************************************)
EXTENDS LinkResolution

CONSTANTS MaxHTMLNodes, MaxHTMLDepth, MaxESTreeNodes, MaxESTreeDepth, MaxESTreeProperties,
          MaxEventsPerByte, MaxFindings

Failed(acc) == [acc EXCEPT !.ok = FALSE]
RowLine(startLine, row) == startLine + row - 1
IsExpression(value) == At(value, SkipHTMLSpace(value, 1)) = "{"

(***************************************************************************)
(* HTML.  A document is a sequence of nodes in source order; a node has a   *)
(* parent (0 for none) and a slot of it: child, template content, or the    *)
(* document of the parent's srcdoc attribute, which holds at least a node.   *)
(***************************************************************************)
Slot(document, parent, slot) ==
  Positions(Len(document), LAMBDA i : document[i].parent = parent /\ document[i].slot = slot)

\* nodeAttribute: the value of the first attribute of that name, <<>> for none.
NodeAttribute(node, name) == SelectSeq(node.attrs, LAMBDA a : a.name = name)

\* collectHTMLAttributes: a JSX expression is left to the MDX tokens, and refused in plain HTML.
CollectHTMLAttributes(acc, node, startLine, mdxJSX) ==
  FoldLeft(LAMBDA result, attr :
             IF attr.name \notin URLAttributes \cup SrcsetAttributes \cup CSSAttributes THEN result
             ELSE IF IsExpression(attr.value) THEN (IF mdxJSX THEN result ELSE Failed(result))
             ELSE AppendValue(result, attr.name, attr.value, RowLine(startLine, attr.row)),
           acc, node.attrs)

\* collectMetaRefresh; "e" is http-equiv, "t" content and the value "r" refresh.
CollectMetaRefresh(acc, node, startLine) ==
  LET equiv == NodeAttribute(node, <<"e">>)
      content == NodeAttribute(node, <<"t">>)
      destination == MetaRefreshDestination(Head(content).value)
  IN IF \/ node.tag # "meta" \/ equiv = <<>> \/ content = <<>>
     THEN acc
     ELSE IF TrimSet(Head(equiv).value, Blank) # <<"r">> \/ destination = <<>> THEN acc
     ELSE AppendHTMLDestinations(acc, <<destination>>, RowLine(startLine, Head(content).row), "html")

\* collectStyleElement: the texts inside <style>, where @import counts.
CollectStyleElement(acc, node, startLine) ==
  IF node.tag # "style" THEN acc
  ELSE FoldLeft(LAMBDA result, text :
                  LET css == CSSDestinations(text.value, TRUE, result.spent)
                      added == AppendHTMLDestinations(result, css.found, RowLine(startLine, text.row), "html")
                  IN [added EXCEPT !.ok = @ /\ css.ok, !.spent = css.spent],
                acc, node.texts)

NodeDestinations(acc, node, startLine, mdxJSX) ==
  CollectStyleElement(CollectMetaRefresh(CollectHTMLAttributes(acc, node, startLine, mdxJSX), node, startLine), node, startLine)

Frame(pending, startLine, depth) == [pending |-> pending, startLine |-> startLine, depth |-> depth]

CollectHTMLNodeMutNested(document, state, mdxJSX) ==
  LET frame == Last(state.frames)
      id == Last(frame.pending)
      nested == Slot(document, id, "srcdoc")
      rest == [frame EXCEPT !.pending = Front(@) \o Slot(document, id, "child") \o Slot(document, id, "content")]
      opened == Frame(nested, RowLine(frame.startLine, document[id].row), frame.depth + 1)
  IN IF state.nodes >= MaxHTMLNodes \/ (nested # <<>> /\ opened.depth > MaxHTMLDepth)
     THEN [state EXCEPT !.acc = Failed(@)]
     ELSE [acc |-> NodeDestinations(state.acc, document[id], frame.startLine, mdxJSX), nodes |-> state.nodes + 1,
           frames |-> Front(state.frames) \o (IF nested = <<>> THEN <<rest>> ELSE <<opened, rest>>)]

\* collectHTMLNode: the frame's last node, its children queued, and the frame of its srcdoc on top.
CollectHTMLNode(document, state, mdxJSX) ==
  LET frame == Last(state.frames)
      id == Last(frame.pending)
      node == document[id]
      nested == Slot(document, id, "srcdoc")
      rest == Append(Front(state.frames),
                     [frame EXCEPT !.pending = Front(@) \o Slot(document, id, "child") \o Slot(document, id, "content")])
      opened == Frame(nested, RowLine(frame.startLine, node.row), frame.depth + 1)
      acc == NodeDestinations(state.acc, node, frame.startLine, mdxJSX)
  IN IF state.nodes >= MaxHTMLNodes \/ (nested # <<>> /\ opened.depth > MaxHTMLDepth)
     THEN [state EXCEPT !.acc = Failed(@)]
     ELSE [acc |-> acc, nodes |-> state.nodes + 1, frames |-> IF nested = <<>> THEN rest ELSE Append(rest, opened)]

\* collectHTML: frames on an explicit stack.
RECURSIVE CollectHTML(_, _, _)
CollectHTML(document, state, mdxJSX) ==
  CASE ~state.acc.ok \/ state.frames = <<>> -> state
    [] state.frames # <<>> /\ Last(state.frames).pending = <<>> ->
         CollectHTML(document, [state EXCEPT !.frames = Front(@)], mdxJSX)
    [] OTHER -> CollectHTML(document, CollectHTMLNode(document, state, mdxJSX), mdxJSX)

\* htmlDestinations: a fragment that starts on a line, with the file's node and token counts.
HTMLDestinations(acc, document, startLine, nodes, mdxJSX) ==
  CollectHTML(document, [acc |-> acc, nodes |-> nodes, frames |-> <<Frame(Slot(document, 0, "child"), startLine, 0)>>], mdxJSX)

(***************************************************************************)
(* MDX syntax trees: a graph of nodes, each with a type, its children and   *)
(* the number of its properties.                                            *)
(***************************************************************************)
ESTreeStep(tree, state) ==
  LET top == Last(state.pending)
      node == tree[top.node]
      rest == Front(state.pending)
      queued == rest \o [i \in DOMAIN node.children |-> [node |-> node.children[i], depth |-> top.depth + 1]]
      source == [destination |-> node.source, line |-> 1, context |-> "html"]
  IN IF top.node \in state.seen THEN [state EXCEPT !.pending = rest]
     ELSE [pending |-> queued, seen |-> state.seen \cup {top.node},
           found |-> IF node.type \in {"import", "dynamic"} THEN Append(state.found, source) ELSE state.found,
           ok |-> /\ top.depth <= MaxESTreeDepth /\ node.type # "computed"
                  /\ node.properties <= MaxESTreeProperties /\ Len(queued) <= MaxESTreeNodes]

\* collectMDXESTree: at most MaxESTreeNodes pops; an import of a computed name is refused.
RECURSIVE ESTreeWalk(_, _, _)
ESTreeWalk(tree, state, visited) ==
  CASE ~state.ok \/ state.pending = <<>> -> state
    [] visited >= MaxESTreeNodes -> [state EXCEPT !.ok = FALSE]
    [] OTHER -> ESTreeWalk(tree, ESTreeStep(tree, state), visited + 1)
CollectMDXESTree(tree) ==
  ESTreeWalk(tree, [pending |-> <<[node |-> 1, depth |-> 0]>>, seen |-> {}, found |-> <<>>, ok |-> TRUE], 0)

(***************************************************************************)
(* Snippet lines: a comment, a marker alone, a marker with a quoted or a    *)
(* bare argument, another text, or nothing.                                 *)
(***************************************************************************)
SnippetStepMutComment(state, line) ==
  LET adding(path) == [state EXCEPT !.line = @ + 1, !.found = Append(@, [destination |-> path, line |-> state.line, context |-> "snippet"])]
  IN CASE line.is = "marker" -> [state EXCEPT !.line = @ + 1, !.inBlock = ~@]
       [] state.inBlock /\ line.is # "blank" -> adding(line.listed)
       [] ~state.inBlock /\ line.is = "include" -> adding(line.named)
       [] OTHER -> [state EXCEPT !.line = @ + 1]
SnippetStep(state, line) ==
  LET adding(path) == [state EXCEPT !.line = @ + 1, !.found = Append(@, [destination |-> path, line |-> state.line, context |-> "snippet"])]
  IN CASE line.is = "marker" -> [state EXCEPT !.line = @ + 1, !.inBlock = ~@]
       [] state.inBlock /\ line.is \notin {"blank", "comment"} -> adding(line.listed)
       [] ~state.inBlock /\ line.is = "include" -> adding(line.named)
       [] OTHER -> [state EXCEPT !.line = @ + 1]
SnippetDestinations(lines, maxLines) ==
  LET found == FoldLeft(SnippetStep, [found |-> <<>>, inBlock |-> FALSE, line |-> 1], lines).found
  IN [Nothing EXCEPT !.found = found, !.ok = Len(lines) <= maxLines /\ Len(found) <= MaxEvents]

(***************************************************************************)
(* The tokens of a file.  The scan keeps the destinations, the HTML nodes   *)
(* read, and by offset the JSX attributes whose expression is still to come.*)
(***************************************************************************)
IsURLAttributeName(name) == name \in URLAttributes \cup SrcsetAttributes \cup CSSAttributes
IsMDXExpressionURLProperty(name) == IsURLAttributeName(name) \/ name = <<"path">>

AppendMDXPropertyValue(acc, name, value, line) ==
  CASE IsURLAttributeName(name) -> AppendValue(acc, name, value, line)
    [] value = <<>> -> acc
    [] OTHER -> AppendHTMLDestinations(acc, <<value>>, line, "mdx-property")

\* collectMDXJSXAttribute, by the form of the value: none, an expression, quoted, or another.
CollectMDXJSXAttribute(scan, token) ==
  LET value == MarkdownDestinationString(token.value, FALSE)
  IN CASE token.form = "none" -> scan
       [] token.form = "expression" ->
            [scan EXCEPT !.expressions = {e \in @ : e.offset # token.offset} \cup
                           {[offset |-> token.offset, name |-> token.name, line |-> token.line]},
                         !.acc.ok = @ /\ Cardinality(scan.expressions) < MaxEvents]
       [] IsURLAttributeName(token.name) -> scan
       [] token.form = "quoted" /\ value # <<>> ->
            [scan EXCEPT !.acc = AppendHTMLDestinations(@, <<value>>, token.line, "mdx-property")]
       [] OTHER -> [scan EXCEPT !.acc.ok = @ /\ token.form = "quoted"]

\* collectMDXPropertyExpression: a string's value, or a refusal when a URL is computed.
CollectMDXPropertyExpression(acc, token, property) ==
  IF token.static THEN AppendMDXPropertyValue(acc, property.name, token.value, property.line)
  ELSE [acc EXCEPT !.ok = @ /\ ~IsMDXExpressionURLProperty(property.name)]

EmbeddedHTML(scan, token, mdxJSX) ==
  LET walked == HTMLDestinations(scan.acc, token.document, token.line, scan.nodes, mdxJSX)
  IN [scan EXCEPT !.acc = walked.acc, !.nodes = walked.nodes]

\* A syntax tree: first the attribute that waits for it, then the imports in it.
SyntaxTree(scan, token) ==
  LET waiting == {e \in scan.expressions : e.offset = token.offset}
      acc == IF waiting = {} THEN scan.acc ELSE CollectMDXPropertyExpression(scan.acc, token, CHOOSE e \in waiting : TRUE)
      walked == CollectMDXESTree(token.tree)
  IN [scan EXCEPT !.expressions = @ \ waiting,
                  !.acc = [acc EXCEPT !.found = @ \o walked.found,
                                      !.ok = @ /\ walked.ok /\ Len(acc.found) + Len(walked.found) <= MaxEvents]]

CollectTokenDestinations(scan, token) ==
  CASE ~scan.acc.ok -> scan
    [] token.type = "link" -> [scan EXCEPT !.acc = AppendHTMLDestinations(@, <<token.value>>, token.line, "markdown")]
    [] token.type = "html" -> EmbeddedHTML(scan, token, FALSE)
    [] token.type = "jsx" -> EmbeddedHTML(scan, token, TRUE)
    [] token.type = "attribute" -> CollectMDXJSXAttribute(scan, token)
    [] token.type = "spread" -> [scan EXCEPT !.acc = Failed(@)]
    [] token.type = "estree" -> SyntaxTree(scan, token)
    [] token.type = "data" ->
         [scan EXCEPT !.acc = CollectAttributeLists(@, token.value, 1, Len(token.value) + 1, token.line)]

\* parseEventLimit
ParseEventLimit(bytes) == Max({MaxEvents, bytes * MaxEventsPerByte})

\* findPrivateScratchLinks: a file is its lines, the tokens that can hold a destination, its size and
\* the number of all the parser's events.  Snippets come first, then every token; an attribute whose
\* tree never came is refused.
FindPrivateScratchLinks(sourceDir, file, limit) ==
  LET eventLimit == ParseEventLimit(file.bytes)
      start == [acc |-> SnippetDestinations(file.lines, eventLimit), nodes |-> 0, expressions |-> {}]
      scan == FoldLeft(CollectTokenDestinations, start, file.tokens)
  IN IF limit \notin 1..(MaxFindings + 1) \/ file.events > eventLimit \/ ~scan.acc.ok \/ scan.expressions # {}
     THEN [ok |-> FALSE, findings |-> <<>>]
     ELSE [ok |-> TRUE, findings |-> ForbiddenFindings(sourceDir, scan.acc.found, limit)]

(***************************************************************************)
(* What the walks must collect.                                            *)
(***************************************************************************)
\* The recursive walk collectHTML's comment names: siblings last to first, a node before its srcdoc
\* document, that before its content and children.
RECURSIVE TreeWalk(_, _, _, _)
TreeWalk(document, siblings, startLine, mdxJSX) ==
  IF siblings = <<>> THEN <<>>
  ELSE LET id == Last(siblings)
           node == document[id]
       IN NodeDestinations(Nothing, node, startLine, mdxJSX).found
          \o TreeWalk(document, Slot(document, id, "srcdoc"), RowLine(startLine, node.row), mdxJSX)
          \o TreeWalk(document, Slot(document, id, "child") \o Slot(document, id, "content"), startLine, mdxJSX)
          \o TreeWalk(document, Front(siblings), startLine, mdxJSX)

RECURSIVE DocumentDepth(_, _)
DocumentDepth(document, id) ==
  IF id = 0 THEN 0
  ELSE DocumentDepth(document, document[id].parent) + (IF document[id].slot = "srcdoc" THEN 1 ELSE 0)

\* The stack of frames collects what the recursive walk would, in its order, or refuses a document
\* past its bounds or with an expression in plain HTML.
HTMLAgrees(document, mdxJSX) ==
  LET walked == HTMLDestinations(Nothing, document, 1, 0, mdxJSX).acc
      expected == TreeWalk(document, Slot(document, 0, "child"), 1, mdxJSX)
      refused == \/ Len(document) > MaxHTMLNodes \/ Len(expected) > MaxEvents
                 \/ \E i \in DOMAIN document : \/ DocumentDepth(document, i) > MaxHTMLDepth
                                              \/ ~NodeDestinations(Nothing, document[i], 1, mdxJSX).ok
  IN IF refused THEN ~walked.ok ELSE walked.ok => walked.found = expected

\* Every import reachable in a syntax tree is collected once; a refusal has a cause: a computed
\* import, a node with too many properties, a path deeper than the bound, or more edges than the bound.
ESTreeAgrees(tree) ==
  LET step(set) == set \cup UNION {Range(tree[n].children) : n \in set}
      reached == FoldLeft(LAMBDA set, i : step(set), {1}, tree)
      edges == FoldLeft(LAMBDA sum, n : IF n \in reached THEN sum + Len(tree[n].children) ELSE sum, 0, [n \in DOMAIN tree |-> n])
      deeper == FoldLeft(LAMBDA set, i : UNION {Range(tree[n].children) : n \in set}, {1}, [i \in 1..(MaxESTreeDepth + 1) |-> i]) # {}
      walked == CollectMDXESTree(tree)
      sources == {n \in reached : tree[n].type \in {"import", "dynamic"}}
      unreadable == \E n \in reached : tree[n].type = "computed" \/ tree[n].properties > MaxESTreeProperties
  IN /\ walked.ok => /\ ~unreadable /\ edges + 1 <= MaxESTreeNodes
                     /\ Len(walked.found) = Cardinality(sources)
                     /\ {walked.found[i].destination : i \in DOMAIN walked.found} = {tree[n].source : n \in sources}
     /\ ~walked.ok => unreadable \/ deeper \/ edges + 1 > MaxESTreeNodes

\* A line is inside a snippet block when an odd number of bare markers precede it.
SnippetsExpected(lines) ==
  LET inBlock(k) == Cardinality({j \in 1..(k - 1) : lines[j].is = "marker"}) % 2 = 1
      named(k) == lines[k].is = "include" \/ (inBlock(k) /\ lines[k].is = "text")
      at == Positions(Len(lines), named)
  IN [i \in DOMAIN at |-> [destination |-> IF inBlock(at[i]) THEN lines[at[i]].listed ELSE lines[at[i]].named,
                           line |-> at[i], context |-> "snippet"]]

\* The attribute whose expression is the tree at k: the last one at its offset, with no tree between.
Waiting(tokens, k) ==
  {j \in 1..(k - 1) : /\ tokens[j].type = "attribute" /\ tokens[j].form = "expression"
                      /\ tokens[j].offset = tokens[k].offset
                      /\ \A i \in (j + 1)..(k - 1) : tokens[i].type \in {"attribute", "estree"} /\ tokens[i].form # "quoted" =>
                                                  tokens[i].offset # tokens[k].offset}

\* What one token contributes; a token of the instance lists in found what its own text holds.
TokenExpected(tokens, k) ==
  LET token == tokens[k]
      waits == Waiting(tokens, k)
  IN CASE token.type = "estree" ->
            (IF waits # {} /\ token.static
             THEN <<[destination |-> token.value, line |-> tokens[Max(waits)].line,
                     context |-> IF IsURLAttributeName(tokens[Max(waits)].name) THEN "html" ELSE "mdx-property"]>>
             ELSE <<>>) \o token.found
       [] OTHER -> token.found

TokensRefused(tokens) ==
  \/ \E k \in DOMAIN tokens : tokens[k].refused
  \/ FoldLeft(LAMBDA sum, token : sum + Len(token.document), 0, tokens) > MaxHTMLNodes
  \/ \E k \in DOMAIN tokens : /\ tokens[k].type = "estree" /\ ~tokens[k].static /\ Waiting(tokens, k) # {}
                              /\ IsMDXExpressionURLProperty(tokens[Max(Waiting(tokens, k))].name)
  \/ \E j \in DOMAIN tokens : /\ tokens[j].type = "attribute" /\ tokens[j].form = "expression"
                              /\ \A k \in (j + 1)..Len(tokens) : tokens[k].type = "estree" => tokens[k].offset # tokens[j].offset

\* A file's findings are the destinations of its snippets and tokens that lead into scratch, in
\* order; a file that may hide a destination the scan cannot read is refused, and one with more
\* lines, events or destinations than its size allows.
FileAgrees(file, limit) ==
  LET result == FindPrivateScratchLinks(<<>>, file, limit)
      all == SnippetsExpected(file.lines) \o FlattenSeq([k \in DOMAIN file.tokens |-> TokenExpected(file.tokens, k)])
      leads == SelectSeq(all, LAMBDA d : \E reading \in Reads(d.destination, d.context) : LeadsIntoScratch(<<>>, reading))
      crowded(n) == n > MaxEvents /\ n > file.bytes * MaxEventsPerByte
  IN IF \/ limit = 0 \/ limit > MaxFindings + 1 \/ crowded(Len(file.lines)) \/ crowded(file.events)
        \/ TokensRefused(file.tokens) \/ Len(all) > MaxEvents
     THEN ~result.ok
     ELSE result = [ok |-> TRUE, findings |-> SubSeq(leads, 1, Min({limit, Len(leads)}))]
=============================================================================
