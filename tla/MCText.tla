------------------------------- MODULE MCText -------------------------------
(***************************************************************************)
(* The text algorithms, each on every input put together from a few pieces; *)
(* one state is one input.                                                  *)
(***************************************************************************)
EXTENDS MCFigureText

CONSTANTS MaxBraceAlternatives, MaxCSSTokens, MaxCSSDepth, MaxSrcsetCandidates, MaxEvents,
          MaxTrackedEntries, MaxTrackedSymlinks, MaxSymlinkTargetBytes,
          MaxHTMLNodes, MaxHTMLDepth, MaxESTreeNodes, MaxESTreeDepth,
          MaxESTreeProperties, MaxEventsPerByte, MaxFindings

VARIABLES kind, input

MCOrder == <<"*", "+", ",", "-", ".", "/", "?", "[", "]", "^", "a", "b", "c", "{", "}">>
MCLetters == {"a", "b", "c"}
Globs == INSTANCE StyleExclusion WITH Order <- MCOrder, Letters <- MCLetters

MCCodePoint(digits) == IF \A i \in DOMAIN digits : digits[i] = "0" THEN "?"
                       ELSE IF Last(digits) = "7" THEN "u" ELSE "b"
Walks == INSTANCE LinkWalk WITH CodePoint <- MCCodePoint
Links == INSTANCE GateInputs WITH CodePoint <- MCCodePoint

CSSText(text) == Links!CSSPiece(text, "none", "none", <<>>, <<>>, <<>>)
CSSUrl(text, url) == [CSSText(text) EXCEPT !.url = url]
CSSPieces == {
  CSSUrl(<<"u", "(", "a", ")">>, <<"a">>),
  CSSUrl(<<"\\", "7", " ", "/", "*", "*", "/", "(", " ", "'", "a", ")", "'", "/", "*", "'", "*", "/", ")">>, <<"a", ")">>),
  [CSSText(<<"'", "\\", "0", "7", "\\", "\n", "\\", "'", "'">>) EXCEPT !.string = <<"u", "'">>],
  CSSText(<<"'", "a", "\n">>),
  CSSText(<<"/", "*", "u", "(", "a", ")", "*", "/">>),
  [CSSText(<<"i", "(">>) EXCEPT !.opens = "i"],
  [CSSText(<<"b", "(">>) EXCEPT !.opens = "f"],
  [CSSText(<<"{">>) EXCEPT !.opens = "curly"],
  [CSSText(<<")">>) EXCEPT !.closes = ")"],
  [CSSText(<<"}">>) EXCEPT !.closes = "}"],
  [CSSText(<<"@", "m", "/", "*", "*", "/", "\"", "a", "\"", " ">>) EXCEPT !.import = <<"a">>]}

Listed(text, found) == [text |-> text, found |-> found]
ListPieces == {
  Listed(<<"a", "\n">>, <<>>),
  Listed(<<"{", "h", "=", "a", "}">>, <<<<"a">>>>),
  Listed(<<"{", ":", " ", "h", " ", "=", "\n", "'", "a", "}", "b", "'", "p", "=", "a", " ", "}">>, <<<<"a", "}", "b">>, <<"a">>>>),
  Listed(<<"{", "#", "a", " ", ".", "b", "\n", "p", "=", "\"", "a", " ", "b", "\"", "}">>, <<<<"a">>, <<"b">>>>),
  Listed(<<"{", "c", "=", "'", "u", "(", "a", "&", ")", "'", " ", "b", "}">>, <<<<"a", "/">>>>),
  Listed(<<"\\", "{", "h", "=", "a", "}">>, <<>>),
  Listed(<<"\\", "\\">>, <<>>)}
SrcsetPieces == {
  Listed(<<",">>, <<>>), Listed(<<"a", ",">>, <<<<"a">>>>), Listed(<<" ", "b", " ", "1", "x", ",">>, <<<<"b">>>>),
  Listed(<<"D", ",", "a", " ", ",">>, <<<<"D", ",", "a">>>>)}

RefreshPieces == <<
  {Listed(t, <<>>) : t \in {<<>>, <<"0">>, <<" ", "7", ".", "0">>, <<".">>}},
  {Listed(t, <<>>) : t \in {<<>>, <<";">>, <<" ">>, <<",", " ">>, <<"\n", ";", " ">>}},
  {Listed(t, <<>>) : t \in {<<>>, <<"u", "r", "l", "=">>, <<"u", "r", "l", " ", "=", " ">>}},
  {Listed(<<"a">>, <<"a">>), Listed(<<"'", "a", " ", "b", "'", "x">>, <<"a", " ", "b">>), Listed(<<"\"", "a">>, <<"a">>),
   Listed(<<"u", "r">>, <<"u", "r">>), Listed(<<"u", "r", "l">>, <<"u", "r", "l">>)}>>

Contexts == {"html", "markdown", "snippet"}
SourceDirs == {<<>>, <<<<"a">>>>, <<<<"a">>, <<"a">>>>}

\* Destinations, with the schemes, drives and hosts that lead out of the site.
LinkPieces == {<<c>> : c \in {"/", "\\", ".", "E", "F", "s", "S", "G", "a", "\t", "#"}}
  \cup {<<".", ".">>, <<"a", "/">>, <<"/", "s">>, <<"/", "G">>, <<"E", "E">>}
  \cup {<<"f", ":">>, <<"w", ":">>, <<"a", ":">>, <<"/", "/", "a", "/">>, <<"\\", "\\", "a", "\\">>}

Target(oid, text) == [mode |-> "120000", oid |-> oid, target |-> text]
TargetPieces == {
  [Target("none", <<>>) EXCEPT !.mode = "100644"], [Target("none", <<>>) EXCEPT !.mode = "malformed"],
  Target("p", <<"s">>), Target("q", <<"a">>), Target("r", <<"a", "\\", "S">>), Target("t", <<"s", "/", ".", ".">>),
  Target("u", <<".", ".", "/", "s">>), Target("v", <<"q", "1", "\n">>), Target("w", <<"bad">>),
  Target("x", <<"a", "/", "/", "a">>), Target("y", <<"a", "a", "a", "a", "a">>)}

Block(is, files, lint, exclude) ==
  [is |-> is, unknown |-> FALSE, max_files |-> files, lint_timeout_seconds |-> lint, style_exclude |-> exclude]
Blocks == {<<>>, <<Block("null", <<>>, <<>>, <<>>)>>, <<Block("list", <<>>, <<>>, <<>>)>>,
           <<[Block("map", <<>>, <<>>, <<>>) EXCEPT !.unknown = TRUE]>>}
  \cup {<<Block("map", files, lint, exclude)>> :
           files \in {<<>>} \cup {<<n>> : n \in 0..4}, lint \in {<<>>} \cup {<<n>> : n \in 0..4},
           exclude \in {<<>>, <<<<"a">>>>, <<<<"a">>, <<"a">>>>, <<<<"*">>>>, <<<<"a", "/", "*", "*">>>>}}
Documents == {[valid |-> FALSE, list |-> <<>>], [valid |-> TRUE, list |-> <<>>]}
  \cup {[valid |-> TRUE, list |-> <<[is |-> is, documentation |-> block]>>] :
           <<is, block>> \in ({"map"} \X Blocks) \cup ({"null", "scalar"} \X {<<>>})}
  \cup {[valid |-> TRUE, list |-> <<[is |-> "map", documentation |-> <<>>], [is |-> "null", documentation |-> <<>>]>>]}
Manifests == {[entry |-> e, oversized |-> o, documents |-> d] :
                e \in {"none", "dangling", "link", "directory", "file"}, o \in BOOLEAN, d \in Documents}

Finding(file, line, rule) == [file |-> file, line |-> line, rule |-> rule, order |-> 0]
Identified(findings) ==
  [k \in DOMAIN findings |-> [file |-> findings[k].file, line |-> findings[k].line, rule |-> findings[k].rule,
                              order |-> 0, id |-> k]]
NamedPieces == {<<<<"a">>>>, <<<<"b">>, <<"a">>>>, <<<<"b">>, <<".", ".">>, <<"a">>>>, <<<<".">>, <<"a">>>>, <<<<".", ".">>, <<"a">>>>}
Styled == {<<<<"a">>>>, <<<<"b">>, <<"a">>>>}

\* HTML nodes, each under an earlier node; the document of a srcdoc starts on the row of the node.
Attr(name, value, row) == [name |-> <<name>>, value |-> value, row |-> row]
Element(tag, row, attrs, texts) == [tag |-> tag, row |-> row, attrs |-> attrs, texts |-> texts]
Elements == {
  Element("a", 2, <<Attr("k", <<"s">>, 1), Attr("h", <<"a">>, 2)>>, <<>>),
  Element("meta", 1, <<Attr("e", <<" ", "r">>, 1), Attr("t", <<"0", ";", "b">>, 1)>>, <<>>),
  Element("style", 1, <<>>, <<[value |-> <<"@", "m", "'", "i", "'">>, row |-> 2]>>),
  Element("a", 1, <<Attr("h", <<" ", "{", "a", "}">>, 1)>>, <<>>)}
Node(element, parent, slot) ==
  [tag |-> element.tag, row |-> element.row, attrs |-> element.attrs, texts |-> element.texts, parent |-> parent, slot |-> slot]
NodePieces(n) == {Node(element, 0, "child") : element \in Elements}
  \cup {Node(element, parent, slot) : element \in Elements, parent \in 1..(n - 1), slot \in {"child", "content", "srcdoc"}}

\* Syntax trees by their edges; node 4 imports a computed name, and a wide node has a property too many.
TreeTypes == <<"program", "import", "dynamic", "computed">>
EdgePieces == {<<from, to>> \in (1..3) \X (2..4) : from # to}
Tree(edges, wide) == [i \in 1..4 |-> [type |-> TreeTypes[i], source |-> <<TreeTypes[i]>>,
                                properties |-> MaxESTreeProperties + IF i = wide THEN 1 ELSE 0,
                                children |-> [k \in DOMAIN SelectSeq(edges, LAMBDA e : e[1] = i) |->
                                                SelectSeq(edges, LAMBDA e : e[1] = i)[k][2]]]]

SnippetLine(is, named, listed) == [is |-> is, named |-> named, listed |-> listed]
LinePieces == {SnippetLine("comment", <<"s">>, <<"s">>), SnippetLine("marker", <<>>, <<>>), SnippetLine("blank", <<>>, <<>>),
               SnippetLine("include", <<"s">>, <<"a", "'", "s", "'">>), SnippetLine("text", <<>>, <<"s">>)}

Destination(text, line, context) == [destination |-> text, line |-> line, context |-> context]
Token(type) == [type |-> type, line |-> 1, value |-> <<>>, offset |-> 0, name |-> <<>>, form |-> "none", static |-> FALSE,
                tree |-> Tree(<<>>, 0), document |-> <<>>, found |-> <<>>, refused |-> FALSE]
TokenPieces == {
  [Token("link") EXCEPT !.value = <<"\\", ".", "/", "S">>, !.found = <<Destination(<<"\\", ".", "/", "S">>, 1, "markdown")>>],
  [Token("jsx") EXCEPT !.document = <<Node(Element("a", 1, <<Attr("h", <<"{">>, 1), Attr("h", <<"s">>, 2)>>, <<>>), 0, "child")>>,
                       !.found = <<Destination(<<"s">>, 2, "html")>>],
  [Token("html") EXCEPT !.document = <<Node(Element("a", 1, <<Attr("h", <<"{">>, 1)>>, <<>>), 0, "child")>>, !.refused = TRUE],
  [Token("attribute") EXCEPT !.form = "expression", !.offset = 1, !.name = <<"h">>],
  [Token("attribute") EXCEPT !.form = "expression", !.offset = 2, !.name = <<"k">>, !.line = 2],
  [Token("attribute") EXCEPT !.form = "quoted", !.name = <<"k">>, !.value = <<"s">>, !.found = <<Destination(<<"s">>, 1, "mdx-property")>>],
  [Token("spread") EXCEPT !.refused = TRUE],
  [Token("estree") EXCEPT !.offset = 1, !.static = TRUE, !.value = <<"s">>],
  [Token("estree") EXCEPT !.offset = 2, !.tree = Tree(<<<<1, 2>>>>, 0), !.found = <<Destination(<<"import">>, 1, "html")>>],
  [Token("data") EXCEPT !.value = <<"{", "h", "=", "s", "}">>, !.found = <<Destination(<<"s">>, 1, "html")>>]}

\* A file of snippet lines, of the least size such lines have: with blank lines alone it has a line
\* more than bytes.  A file of tokens, with few events, as many as its size allows, and one more.
LineBytes == [comment |-> 1, marker |-> 4, blank |-> 0, include |-> 8, text |-> 1]
SnippetFile(lines) ==
  [lines |-> lines, tokens |-> <<>>, events |-> 0,
   bytes |-> FoldLeft(LAMBDA sum, line : sum + 1 + LineBytes[line.is], 0, lines) - Min({Len(lines), 1})]
TokenFiles(tokens) ==
  {[lines |-> <<>>, tokens |-> tokens, bytes |-> 4 * Len(tokens), events |-> n] :
     n \in {2 * Len(tokens), Max({MaxEvents, 4 * Len(tokens)}), Max({MaxEvents, 4 * Len(tokens)}) + 1}}
Limits == 0..(MaxFindings + 2)

\* The pieces of each kind of input, by position where they differ, and how many at most.
Singles(alphabet) == {<<c>> : c \in alphabet}
Pieces == [
  glob     |-> Singles({"a", "b", "*", "?", "/"}) \cup {<<"/", "*", "*">>, <<"*", "*", "/">>},
  brace    |-> Singles({"a", "{", "}", ",", "]", "^"}) \cup {<<"{", "a", ",">>, <<"b", "}">>, <<"[", "a">>},
  manifest |-> Manifests,
  css      |-> CSSPieces,
  list     |-> ListPieces,
  srcset   |-> SrcsetPieces,
  link     |-> LinkPieces,
  output   |-> Singles({"a", "e", "\n"}),
  target   |-> TargetPieces,
  ref      |-> Singles({"a", ".", "/", "-", "lock"}),
  named    |-> NamedPieces,
  estree   |-> EdgePieces,
  snippet  |-> LinePieces,
  token    |-> TokenPieces,
  figure   |-> FigurePieces,
  markup   |-> MarkupPieces,
  cap      |-> 0..4,
  fence    |-> FencePieces,
  marker   |-> MarkerPieces,
  html     |-> TagPieces,
  url      |-> UrlPieces,
  class    |-> ClassPieces,
  pattern  |-> PatternPieces,
  tree     |-> EntryPieces,
  yaml     |-> YamlPieces,
  download |-> AnswerPieces,
  archive  |-> MemberPieces,
  lint     |-> {Finding(file, line, rule) : file, line, rule \in 1..2}]
Bound == [glob |-> 4, brace |-> 4, manifest |-> 1, css |-> 4, list |-> 4, srcset |-> 5, refresh |-> 4,
          link |-> 3, output |-> 6, target |-> 3, ref |-> 5, named |-> 3, lint |-> 4,
          node |-> 3, estree |-> 4, snippet |-> 5, token |-> 4, figure |-> 3, markup |-> 3, cap |-> 4,
          fence |-> 5, marker |-> 6, html |-> 4, url |-> 4, class |-> 4, pattern |-> 4, tree |-> 4, yaml |-> 4,
          download |-> 3, archive |-> 4]
PiecesAt(k, n) == CASE k = "refresh" -> RefreshPieces[n]
                    [] k = "node" -> NodePieces(n)
                    [] OTHER -> Pieces[k]

\* An input grows by a piece, or is handed to its algorithm as it is.
Grows == /\ kind \in DOMAIN Bound /\ Len(input) < Bound[kind]
         /\ \E piece \in PiecesAt(kind, Len(input) + 1) : input' = Append(input, piece)
         /\ UNCHANGED kind
HandedOver == kind \in DOMAIN Bound /\ kind' = "answered" /\ input' = <<>>
TextNext == Grows \/ HandedOver

GlobPaths == Words({"a", "b", "/"}, 3) \ {<<>>}
BracketPaths == (Words({"a", "b", "[", "]"}, 2) \ {<<>>}) \cup [1..3 -> {"a", "b"}]

\* styleExclusionMatcher (verify.mjs) leaves a file unstyled exactly when the path is the pattern or the glob
\* spells it, `**` over whole segments and `*`, `?`, classes and braces within one.
GlobMatcher == /\ kind = "glob" => Globs!MatcherAgrees(FlattenSeq(input), GlobPaths)
               /\ kind = "brace" => Globs!MatcherAgrees(FlattenSeq(input), BracketPaths)

\* expandBraces accepts exactly the segments whose braces and classes close in order, spells every
\* alternative once, and none beyond the limit.
GlobBraces == kind = "brace" => Globs!BracesAgree(FlattenSeq(input))

\* A manifest never lowers the inventory limit, sets a time budget outside 1..ceiling or excludes
\* what is no path; repositorySettings answers the defaults exactly when nothing is declared.
SettingsBounded == kind = "manifest" /\ input # <<>> => Globs!SettingsAgree(input[1])

\* cssDestinations finds every url(), image-set string and import of nested CSS in order, through
\* escapes and comments, and refuses only past its token and depth limits.
CSSFound == kind = "css" => \A allowImport \in BOOLEAN : Links!CSSAgrees(input, allowImport)

\* The scanners of Markdown attribute lists, srcset and meta refresh find every destination with the
\* line its list opens on, or refuse past their limits; a list is never dropped silently.
AttributesFound == /\ kind = "list" => Links!AttributeListsAgree(input)
                   /\ kind = "srcset" => Links!SrcsetAgrees(input)
                   /\ kind = "refresh" => Links!RefreshAgrees(input)

\* forbiddenResolution reports a destination exactly when some reading of it, escaped or percent-encoded,
\* relative to the source or to the root, as a file URL, a drive or a share, leads through a scratch
\* directory; one that begins with a single backslash is not reported, although it names the site's root.
LinksResolved ==
  kind = "link" => \A dir \in SourceDirs, context \in Contexts : Links!ResolutionAgrees(dir, FlattenSeq(input), context)

\* Every spelling of a private scratch destination is a finding, as selfTestBlocked says.
EverySpellingFound ==
  kind = "link" => \A dir \in SourceDirs, context \in Contexts : Links!SpellingFound(dir, FlattenSeq(input), context)

\* boundedOutput keeps the longest run of whole lines within the byte and the line budget that the
\* children of one run share, and says so whenever it cut.
OutputBounded ==
  kind = "output" => \A maxBytes \in 0..5, maxLines \in 0..3 : Links!OutputAgrees(FlattenSeq(input), maxBytes, maxLines)

\* auditTrackedSymlinkTargets passes exactly when no tracked link leads through scratch and all are
\* readable; an answer of git cat-file cut anywhere, or with bytes after it, never passes.
SymlinkAudit == kind = "target" => Links!SymlinksAgree(input)

\* A ref validChangedSinceRef accepts cannot be read by git as an option or as another range, and
\* namedStyleFiles lints each file named after --only once, however it is spelled.
CommandLine == /\ kind = "ref" => Links!RefAgrees(FlattenSeq(input))
               /\ kind = "named" => \A cwd \in {<<>>, <<<<"b">>>>} : Links!OnlyAgrees(Styled, input, cwd)

\* lintChild prints file by file, by line and rule, ties in the library's order, and where the batch
\* is cut changes no file's report.
FindingsOrdered == kind = "lint" => Links!LintAgrees(<<2, 1>>, Identified(input))

\* The explicit stacks of collectHTML and collectMDXESTree collect what the recursive walk would, in
\* its order and each node once, documents in srcdoc included, or refuse with a cause.
TreesWalked == /\ kind = "node" => \A mdxJSX \in BOOLEAN : Walks!HTMLAgrees(input, mdxJSX)
               /\ kind = "estree" => \A wide \in 0..4 : Walks!ESTreeAgrees(Tree(input, wide))

\* findPrivateScratchLinks reports the destinations of a file's snippets and tokens that lead into
\* scratch, in order and up to the limit, and refuses a file whose URL expression it cannot read or
\* that has more lines or events than its size allows.
FilesScanned ==
  /\ kind = "snippet" => \A limit \in Limits : Walks!FileAgrees(SnippetFile(input), limit)
  /\ kind = "token" => \A limit \in Limits, file \in TokenFiles(input) : Walks!FileAgrees(file, limit)

\* validate (core.mjs) accepts exactly the figures whose ids are unique, whose edges and beats name
\* boxes and whose sizes are within the limits, and describes each box and edge of those once.
FigureValid == kind = "figure" => Figures!FigureAgrees(Figure(input))

\* capLines ends a description that is too long with its note, within the limit unless the note alone
\* exceeds it, and drops no more lines than it must.
DescriptionCapped == kind = "cap" => \A limit \in 0..12 : Figures!CapAgrees(input, 3, limit)

\* A figure's text reaches the page and the SVG as it is, even when it spells a slot, a tag or the
\* mark that closes the embedded spec: fillSlots fills only the template's slots.
TextShown ==
  kind = "markup" => \A base \in MarkupBases, link \in MarkupLinks : Figures!MarkupAgrees(FlattenSeq(input), base, link)

\* expand replaces exactly the figure fences of a page whose slug is known, keeps every other line,
\* and reports the others, although it edits lines by the numbers found beforehand.
FencesExpanded == kind = "fence" => \A end \in PageEnds : Pages!FencesAgree(input \o end)

\* refreshMarkers is idempotent, touches no line outside a closed block and shows the figure in every
\* block within the limit, whatever blocks are unclosed or nested.
MarkersStable == kind = "marker" => Pages!MarkersAgree(input)

\* scanPage sees in a built page the figures, images, diagrams and scripts that html.parser does, whose
\* rules it follows, and none inside a comment, a title, a script or another figure.
PageScanned == kind = "html" => Sites!ScanAgrees(input)

\* A URL that resolves accepts is answered by locate (serve.mjs) with the same file: the site check
\* and the server agree under every base path, except on a URL with a percent sign, which only the
\* server decodes.
AcceptedIsServed ==
  kind = "url" => \A output \in Outputs, rooted \in BOOLEAN, base \in SiteBases :
                    Sites!UrlAgrees(output, Built(rooted, base), base, FlattenSeq(input))

\* patternMatches leaves a page out exactly when a prefix of its path is what the exclude_docs pattern
\* names, with ranges of a class merged or dropped on the way to a regular expression.
PatternsExclude == /\ kind = "class" => \A open \in ClassStarts : Docs!PatternsAgree(open \o FlattenSeq(input) \o <<"]">>, ClassNames)
                   /\ kind = "pattern" /\ input # <<>> => Docs!PatternsAgree(FlattenSeq(input), PatternPages)

\* markdownPages and starlightPages list exactly the pages of the tree, and the directories named like
\* one, in order of their parts, and refuse a tree only past a limit or for a pattern; an excluded page
\* never counts towards the limit.
PagesListed == kind = "tree" => \A patterns \in ExcludeLists : Docs!PagesAgree(DocsTree(input), patterns)

\* enabledKinds and excludedPatterns read mkdocs.yml as declared, whatever blank lines, comments and
\* other blocks surround the fence, the hook and the patterns.
KindsEnabled == kind = "yaml" => Docs!ConfigAgrees(FlattenSeq(input))

\* downloadPlayerArchive requests allowed locations only, stops within MAX_REDIRECTS and returns the
\* whole body or nothing; only a network failure, never a refusal, lets the build go on.
PlayerDownloaded == kind = "download" => Archives!DownloadAgrees(input)

\* extractPlayerArchive writes all the expected files with their own bytes, or none: members of a
\* whole number of blocks, empty data blocks and a truncated end included.
ArchiveExtracted ==
  kind = "archive" => \A bytes \in {5, 6}, rest \in {0, 1}, end \in ArchiveEnds : Archives!ArchiveAgrees(bytes, input \o end, rest)

-----------------------------------------------------------------------------
\* The properties the run checks, one for each part of the tooling: on every input handed to an
\* algorithm, its answer agrees with the reference.

\* verify.mjs leaves unstyled exactly the files a repository's style_exclude spells, and no manifest
\* moves a limit out of its range.
StyleSelected == [][HandedOver => GlobMatcher /\ GlobBraces /\ SettingsBounded]_<<kind, input>>

\* verify.mjs never passes what git, its own children or its command line leave unread: a tracked
\* link, a ref, a named file, a finding or a line of output.
InputsGuarded == [][HandedOver => SymlinkAudit /\ CommandLine /\ FindingsOrdered /\ OutputBounded]_<<kind, input>>

\* no-private-scratch-links.mjs reports exactly the destinations of a file, in CSS, HTML, JSX,
\* attribute lists, snippets and tokens, that some reading leads into a scratch directory, except the
\* one spelling EverySpellingFound is about: a single backslash for the site's root.
ScratchLinksFound == [][HandedOver => CSSFound /\ AttributesFound /\ TreesWalked /\ FilesScanned /\ LinksResolved]_<<kind, input>>

\* core.mjs and checks.mjs describe every valid figure whole and show its text as it is.
FiguresDescribed == [][HandedOver => FigureValid /\ DescriptionCapped /\ TextShown]_<<kind, input>>

\* The pages carry the figures their sources name: fences and markers are replaced in place, the
\* built page is read as html.parser reads it, and what the site check accepts without a percent sign
\* the server serves.
PagesBuilt == [][HandedOver => FencesExpanded /\ MarkersStable /\ PageScanned /\ AcceptedIsServed]_<<kind, input>>

\* checks.mjs checks every page MkDocs or Starlight would publish, as mkdocs.yml declares them, and
\* nothing else but directories whose names end in a page's suffix, which it takes for pages.
DocsSelected == [][HandedOver => PatternsExclude /\ PagesListed /\ KindsEnabled]_<<kind, input>>

\* astro.mjs installs the player it asked for, whole, or none.
PlayerInstalled == [][HandedOver => PlayerDownloaded /\ ArchiveExtracted]_<<kind, input>>
=============================================================================
