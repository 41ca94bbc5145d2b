---------------------------- MODULE MCFigureText ----------------------------
(***************************************************************************)
(* The pieces figure specs, figure text and documentation pages are put     *)
(* together from in MCText.                                                 *)
(***************************************************************************)
EXTENDS Text, Integers

CONSTANTS MaxBoxes, MaxGroups, MaxDepth, MaxEdges, MaxSteps, MaxBeats, MaxHops, MaxRows,
          MaxFigures, MaxPageFigures, MaxEntries, MaxPages,
          MaxRedirects, MaxArchiveBytes, MaxPlayerFiles, BlockBytes

Figures == INSTANCE FigureSpec
MCKnown(slug) == slug = "k"
MCHtml(slug) == <<"1", "2">>
Pages == INSTANCE FigurePages WITH Known <- MCKnown, Html <- MCHtml
Sites == INSTANCE BuiltPages
MCOrdered == <<"!", "*", "-", ".", "/", "?", "[", "]", "^", "_", "a", "b", "c", "m", "t">>
MCExpectedFiles == <<"T", "l", "p">>
Archives == INSTANCE PlayerArchive WITH ExpectedFiles <- MCExpectedFiles
Docs == INSTANCE DocsPages WITH Ordered <- MCOrdered

Item(is, id, label, parent) == [is |-> is, id |-> id, label |-> label, parent |-> parent]
Edge(from, to, id) == [from |-> from, to |-> to, id |-> id]
Beat(hops, show, light, rows) == [hops |-> hops, show |-> show, light |-> light, rows |-> rows]

\* Figures grow from a small one by items, placed in the layout or in its last group, by edges and
\* by beats of one step.
LabelOf(id) == IF id = "b" THEN "A" ELSE "L"
ItemPieces == {Item("box", id, LabelOf(id), where) : id \in {"none", "a", "c"}, where \in {"top", "last"}}
  \cup {Item("group", id, label, where) : id \in {"none", "c"}, label \in {"none", "G"}, where \in {"top", "last"}}
  \cup {Item("group", "", "none", "top"), Item("other", "none", "none", "top")}
FigureEdges == {Edge(from, to, <<>>) : from, to \in {"a", "b", "g", "c"}} \cup {Edge("b", "a", <<"a", "->", "g">>)}
FigureBeats == {Beat(<<<<"a", "->", "g">>>>, {}, {}, 0), Beat(<<>>, {"b"}, {}, 2), Beat(<<>>, {"a"}, {"g"}, 1), Beat(<<>>, {}, {"c"}, 0),
                Beat(<<<<"b", "->", "a">>, <<"b", "->", "a">>>>, {"a"}, {}, 1)}
Piece(add, value) == [add |-> add, value |-> <<value>>]
FigurePieces == {Piece("item", item) : item \in ItemPieces} \cup {Piece("edge", edge) : edge \in FigureEdges}
                \cup {Piece("beat", beat) : beat \in FigureBeats}

Placed(items, item) ==
  LET groups == {i \in DOMAIN items : items[i].is = "group"}
  IN Append(items, [item EXCEPT !.parent = IF @ = "top" THEN 1 ELSE Max(groups)])
Base == [items |-> <<Item("group", "none", "none", 0), Item("box", "b", "A", 1), Item("group", "g", "G", 1), Item("box", "a", "L", 3)>>,
         edges |-> <<Edge("a", "g", <<>>)>>, steps |-> <<[flow |-> <<>>, nodes |-> {}]>>]
Figure(pieces) ==
  FoldLeft(LAMBDA figure, piece :
             CASE piece.add = "item" -> [figure EXCEPT !.items = Placed(@, Head(piece.value))]
               [] piece.add = "edge" -> [figure EXCEPT !.edges = Append(@, Head(piece.value))]
               [] OTHER -> [figure EXCEPT !.steps[1].flow = Append(@, Head(piece.value)), !.steps[1].nodes = {"b"}],
           Base, pieces)

\* Text that spells slots, tags, entities, and the marks of the embedded spec.
MarkupPieces == {<<"{">>, <<"{", "link", "}", "}">>, <<"<">>, <<"&">>, <<"amp", ";">>, <<"\\">>, <<"u003e">>, <<"]">>, <<">">>, <<"\"">>, <<"'", "&">>,
                 <<"\n">>, Figures!BaseSlot, Figures!SpecOpen, Figures!SpecClose}
MarkupBases == {<<"base">>, Figures!LinkSlot}
MarkupLinks == {<<>>, Figures!BaseSlot \o <<"&">>}

\* Lines of a Markdown page, and of a README with figure markers.
Line(is, slug) == [is |-> is, mark |-> "", long |-> 0, info |-> "", indent |-> "", slug |-> slug]
Fence(mark, long, info, indent) == [is |-> "fence", mark |-> mark, long |-> long, info |-> info, indent |-> indent, slug |-> "fence"]
FencePieces == {Fence("tick", 3, "figure", ""), Fence("tick", 3, "figure", " "), Fence("tick", 3, "", ""), Fence("tick", 4, "", ""),
                Fence("tilde", 3, "figure", ""), Line("text", "k"), Line("text", "u"), Line("blank", "")}
PageEnds == {<<>>, <<Line("end", "")>>}
MarkerPieces == {[is |-> "open", slug |-> "k"], [is |-> "open", slug |-> "u"], [is |-> "close", slug |-> ""],
                 [is |-> "text", slug |-> ""], [is |-> "html", slug |-> "1"]}

\* Tokens of a built page.
Tag(is, tag) == [is |-> is, tag |-> tag, class |-> "", slug |-> "", url |-> "", self |-> FALSE]
FigureTag == [Tag("start", "figure") EXCEPT !.class = "praetor-figure", !.slug = "k"]
TagPieces == {FigureTag, [FigureTag EXCEPT !.self = TRUE], Tag("start", "figure"), Tag("end", "figure"),
              [Tag("start", "img") EXCEPT !.url = "i"], [Tag("start", "pre") EXCEPT !.class = "mermaid"],
              [Tag("start", "script") EXCEPT !.url = "s"], Tag("start", "script"), [Tag("start", "script") EXCEPT !.self = TRUE],
              [Tag("import", "") EXCEPT !.url = "m"], Tag("end", "script"), Tag("start", "title"), Tag("start", "plaintext"),
              Tag("comment", ""), Tag("close", ""), Tag("cut", "")}

\* Files of two built sites in /w, beside others, with a link /w/l that leaves the site; two names hold a percent sign.
Names(text) == [i \in DOMAIN text |-> <<text[i]>>]
SiteFiles == {Names(f) : f \in {<<"a">>, <<"p", "a">>, <<"o", "a">>, <<"w", "a">>, <<"w", "d", "a">>, <<"w", "p", "a">>,
                                <<"w", "A">>, <<"w", "%">>,
                                <<"w", "index">>, <<"w", "d", "index">>}}
Built(rooted, base) == [dir |-> Names(<<"w">>), rooted |-> rooted, base |-> base, files |-> SiteFiles,
                        dirs |-> {Names(d) : d \in {<<"w">>, <<"w", "d">>, <<"w", "p">>}},
                        link |-> [from |-> Names(<<"w", "l">>), to |-> Names(<<"o">>)]]
Outputs == {Names(<<"w", "index">>), Names(<<"w", "d", "index">>)}
SiteBases == {<<>>, <<"p">>}
UrlPieces == {<<"/">>, <<".", ".">>, <<".">>, <<"a">>, <<"p">>, <<"/", "a">>, <<"l", "/">>, <<"d">>, <<"#">>, <<"?">>, <<"data">>, <<":">>,
              <<"A">>, <<"%">>, <<".", ".", "/">>, <<"/", "p", "/">>}

\* Classes of a glob, and patterns for the pages of a small tree.  Inside a class there is no "[^",
\* which CARET_BRACKET rewrites there too, and no "!", which negates, in fnmatch as here, once the
\* empty range before it is dropped.
ClassPieces == {<<c>> : c \in {"a", "b", "c", "-", "]"}} \cup {<<"-", "b">>}
ClassStarts == {<<"[">>, <<"[", "!">>, <<"[", "^">>}
ClassNames == {<<<<c>>>> : c \in {"a", "b", "c", "-", "!", "]"}} \cup {<<<<c, "]">>>> : c \in {"a", "-", "!"}}
PatternPieces == {<<c>> : c \in {"a", "b", "*", "?", "/"}} \cup {<<"[", "!", "a", "]">>, <<"[", "^", "b", "]">>}
PatternPages == LET names == {<<"a">>, <<"b">>, <<"a", "b">>} IN UNION {[1..n -> names] : n \in 1..2} \cup [1..3 -> {<<"a">>, <<"b">>}]

\* Files and directories, at the top or in the last directory; a path is listed once.
Entry(name, where, dir) == [name |-> name, where |-> where, dir |-> dir]
EntryPieces == {Entry(name, where, FALSE) : name \in {<<"m">>, <<"a", "m">>, <<"_", "m">>, <<".", "m">>}, where \in {"top", "last"}}
  \cup {Entry(name, where, TRUE) : name \in {<<"a">>, <<"t">>, <<"a", "m">>}, where \in {"top", "last"}}
DocsTree(pieces) ==
  FoldLeft(LAMBDA tree, piece :
             LET dirs == SelectSeq(tree, LAMBDA entry : entry.dir)
                 parent == IF piece.where = "top" \/ dirs = <<>> THEN <<>> ELSE Last(dirs).parts
                 path == Append(parent, piece.name)
             IN IF path \in {tree[i].parts : i \in DOMAIN tree} THEN tree ELSE Append(tree, [parts |-> path, dir |-> piece.dir]),
           <<>>, pieces)
ExcludeLists == {<<>>, <<<<"a", "*">>>>, <<<<"/", "a", "/">>, <<"!", "m">>>>, <<<<"m">>, <<"\\", "m">>>>}

\* Lines of an mkdocs.yml.
Yaml(is, indent, key, value) == [is |-> is, indent |-> indent, key |-> key, value |-> value]
YamlPieces == {
  <<Yaml("superfences", 2, "", "")>>, <<Yaml("superfences", 0, "", "")>>,
  <<Yaml("dash", 4, "name", "mermaid"), Yaml("key", 4, "class", "mermaid")>>, <<Yaml("key", 4, "format", "code")>>,
  <<Yaml("dash", 4, "format", "other")>>, <<Yaml("key", 2, "name", "other")>>,
  <<Yaml("comment", 0, "", "")>>, <<Yaml("blank", 0, "", "")>>, <<Yaml("text", 0, "", "")>>,
  <<Yaml("hooks", 0, "", "")>>, <<Yaml("item", 2, "", "hook")>>, <<Yaml("flow", 0, "", "hook")>>,
  <<Yaml("exclude", 0, "", "")>>, <<Yaml("excludeline", 0, "", "p")>>, <<Yaml("excludeline", 0, "", "")>>}

\* Answers to the requests for the player: redirects, failures and bodies.
Location(trusted, parts) == [trusted |-> trusted, parts |-> parts]
Answer(is, location, declared, chunks) == [is |-> is, location |-> location, declared |-> declared, chunks |-> chunks]
Bytes(n) == [i \in 1..n |-> "x"]
AnswerPieces ==
  {Answer("redirect", location, 0, <<>>) :
     location \in {Location(TRUE, <<"a">>), Location(TRUE, <<"b", "a">>), Location(TRUE, <<"a", "..">>), Location(FALSE, <<"a">>)}}
  \cup {Answer("failure", Location(FALSE, <<>>), 0, <<>>)}
  \cup {Answer("body", Location(FALSE, <<>>), declared, chunks) :
          declared \in {0, 6}, chunks \in {<<>>, <<Bytes(6)>>, <<Bytes(5)>>, <<Bytes(2), Bytes(3), Bytes(1)>>, <<Bytes(2), <<"lost">>>>,
                                           [i \in 1..5 |-> Bytes(1)], [i \in 1..6 |-> Bytes(0)]}}

\* Members of an archive, with their blocks; data may be a block of zeros.
Header(name, size) == [zero |-> FALSE, name |-> name, prefix |-> FALSE, regular |-> TRUE, size |-> size]
Data(zero) == [zero |-> zero, name |-> "", prefix |-> FALSE, regular |-> FALSE, size |-> 0 - 1]
Member(is, blocks) == [is |-> is, blocks |-> blocks]
MemberPieces == {
  Member("file", <<Header("T", 0)>>), Member("file", <<Header("T", 1), Data(TRUE)>>), Member("file", <<Header("l", 2), Data(FALSE)>>),
  Member("file", <<Header("l", 3), Data(TRUE), Data(FALSE)>>), Member("file", <<Header("p", 5), Data(FALSE), Data(TRUE), Data(FALSE)>>),
  Member("file", <<Header("p", 4), Data(FALSE), Data(TRUE)>>),
  Member("refused", <<Header("p", 6), Data(FALSE), Data(FALSE), Data(FALSE)>>), Member("refused", <<Header("x", 0)>>),
  Member("refused", <<[Header("l", 0) EXCEPT !.prefix = TRUE]>>), Member("refused", <<[Header("p", 0) EXCEPT !.regular = FALSE]>>),
  Member("refused", <<Data(FALSE)>>), Member("zero", <<Data(TRUE)>>)}
ArchiveEnds == {<<>>, <<Member("zero", <<Data(TRUE)>>), Member("zero", <<Data(TRUE)>>)>>, <<Member("refused", <<Header("p", 1)>>)>>}
=============================================================================
