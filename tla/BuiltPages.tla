----------------------------- MODULE BuiltPages -----------------------------
(***************************************************************************)
(* tools/figures/checks.mjs reads the HTML of a built page, and decides     *)
(* whether the URLs of its figures name files of the site; serve.mjs        *)
(* answers requests for them.                                               *)
(***************************************************************************)
EXTENDS Text, Integers

CONSTANTS MaxPageFigures   \* MAX_FIGURES

(***************************************************************************)
(* A page is a sequence of tokens: start tags, end tags, the two ends of a  *)
(* comment, import calls, and "cut", a tag or declaration that never ends.  *)
(***************************************************************************)
RawText == {"script", "title", "plaintext"}
NoScan == [mermaid |-> 0, figures |-> <<>>, scripts |-> <<>>, depth |-> 0, inline |-> FALSE]

\* figureStart: inside a figure only the nesting counts.
FigureStart(scan, token) ==
  CASE scan.depth > 0 -> [scan EXCEPT !.depth = @ + 1]
    [] token.class = "praetor-figure" /\ token.slug # "" /\ Len(scan.figures) < MaxPageFigures ->
         [scan EXCEPT !.figures = Append(@, [slug |-> token.slug, urls |-> <<>>]), !.depth = 1]
    [] OTHER -> scan

HandleStart(scan, token) ==
  CASE token.tag = "pre" /\ token.class = "mermaid" -> [scan EXCEPT !.mermaid = @ + 1]
    [] token.tag = "script" /\ token.url # "" -> [scan EXCEPT !.scripts = Append(@, token.url)]
    [] token.tag = "script" -> [scan EXCEPT !.inline = TRUE]
    [] token.tag = "figure" -> FigureStart(scan, token)
    [] scan.depth > 0 /\ token.tag = "img" -> [scan EXCEPT !.figures[Len(scan.figures)].urls = Append(@, token.url)]
    [] OTHER -> scan

HandleEnd(scan, token) == IF token.tag = "figure" /\ scan.depth > 0 THEN [scan EXCEPT !.depth = @ - 1] ELSE scan

\* startTag: a self-closing tag also ends, and opens no raw text.
StartTag(scan, token) ==
  LET started == HandleStart(scan, token)
  IN [scan |-> IF token.self THEN HandleEnd(started, token) ELSE started,
      raw |-> IF ~token.self /\ token.tag \in RawText THEN token.tag ELSE ""]

NextMarkupMutRaw(page, from, raw) == Find(page, from, LAMBDA token : token.is \in {"start", "end", "comment", "cut"})

\* nextMarkup: in raw text only its own end tag; <plaintext> has none.
NextMarkup(page, from, raw) ==
  Find(page, from, LAMBDA token : IF raw = "" THEN token.is \in {"start", "end", "comment", "cut"}
                                  ELSE raw # "plaintext" /\ token.is = "end" /\ token.tag = raw)

\* inlineImports: the modules an inline script imports, up to its end tag.
InlineImports(page, from, scan) ==
  LET imports == SelectSeq(SubSeq(page, from, NextMarkup(page, from, "script") - 1), LAMBDA token : token.is = "import")
      urls == [i \in DOMAIN imports |-> imports[i].url]
  IN [scan EXCEPT !.scripts = @ \o SubSeq(urls, 1, IF Len(urls) > MaxPageFigures THEN MaxPageFigures ELSE Len(urls))]

\* markupAt: what the markup does to the scan, where scanning resumes (0: the page ends inside it).
MarkupAt(page, at, scan) ==
  LET token == page[at]
      close == Find(page, at + 1, LAMBDA t : t.is = "close")
  IN CASE token.is = "start" -> [next |-> at + 1, raw |-> StartTag(scan, token).raw, scan |-> StartTag(scan, token).scan]
       [] token.is = "end" -> [next |-> at + 1, raw |-> "", scan |-> HandleEnd(scan, token)]
       [] token.is = "comment" -> [next |-> IF close > Len(page) THEN 0 ELSE close + 1, raw |-> "", scan |-> scan]
       [] token.is = "cut" -> [next |-> 0, raw |-> "", scan |-> scan]

RECURSIVE ScanFrom(_, _, _, _)
ScanFrom(page, at, raw, scan) ==
  LET start == NextMarkup(page, at, raw)
      step == MarkupAt(page, start, scan)
      read == IF step.raw = "script" /\ step.scan.inline THEN InlineImports(page, step.next, step.scan) ELSE step.scan
  IN IF start > Len(page) THEN scan
     ELSE IF step.next = 0 THEN step.scan
     ELSE ScanFrom(page, step.next, step.raw, [read EXCEPT !.inline = FALSE])

\* scanPage
ScanPage(page) ==
  LET scan == ScanFrom(page, 1, "", NoScan)
  IN [mermaid |-> scan.mermaid, figures |-> scan.figures, scripts |-> scan.scripts]

(***************************************************************************)
(* URLs and files.  A path is a sequence of names from the root.           *)
(***************************************************************************)
\* path.resolve: dots, empty names and ".." are taken out.
Resolve(dir, names) ==
  FoldLeft(LAMBDA path, name : CASE name \in {<<>>, <<".">>} -> path
                                 [] name = <<".", ".">> -> IF path = <<>> THEN <<>> ELSE Front(path)
                                 [] OTHER -> Append(path, name), dir, names)

\* basePath: "/", or the name between two slashes.
BasePath(base) == IF base = <<>> THEN <<"/">> ELSE <<"/">> \o base \o <<"/">>

\* The files of a site: `dir`, what exists under the root, and one symbolic link.
RealOrResolved(built, path) ==
  IF IsPrefix(built.link.from, path) THEN built.link.to \o SubSeq(path, Len(built.link.from) + 1, Len(path)) ELSE path
IsFile(built, path) == RealOrResolved(built, path) \in built.files

Before(text, mark) == LET at == IndexOf(text, <<mark>>, 1) IN IF at = Absent THEN text ELSE SubSeq(text, 1, at - 1)

\* urlTarget: a relative URL from the page's directory, a root-absolute one from the site's.
UrlTarget(output, built, url) ==
  LET path == Before(Before(url, "#"), "?")
      base == IF built.rooted THEN BasePath(built.base) ELSE <<>>
  IN RealOrResolved(built,
       CASE built.rooted /\ StartsWith(path, base) -> Resolve(built.dir, Split(From(path, Len(base) + 1), "/"))
         [] StartsWith(path, <<"/">>) -> Resolve(<<>>, Split(path, "/"))
         [] OTHER -> Resolve(Front(output), Split(path, "/")))

ResolvesMutHost(output, built, url) ==
  /\ url # <<>> /\ ~Includes(url, <<":", "/", "/">>) /\ ~StartsWith(url, <<"data", ":">>)
  /\ StartsWith(url, <<"/">>) => built.rooted /\ StartsWith(url, BasePath(built.base))
  /\ UrlTarget(output, built, url) \in built.files
  /\ IsPrefix(RealOrResolved(built, built.dir), UrlTarget(output, built, url))

\* resolves
Resolves(output, built, url) ==
  /\ url # <<>> /\ ~Includes(url, <<":", "/", "/">>) /\ ~StartsWith(url, <<"/", "/">>) /\ ~StartsWith(url, <<"data", ":">>)
  /\ StartsWith(url, <<"/">>) => built.rooted /\ StartsWith(url, BasePath(built.base))
  /\ UrlTarget(output, built, url) \in built.files
  /\ IsPrefix(RealOrResolved(built, built.dir), UrlTarget(output, built, url))

\* decodeURIComponent: "A" is the percent triplet of "a", and "%" one that begins no triplet.
Malformed(text) == Includes(text, <<"%">>)
Decode(text) == [i \in DOMAIN text |-> IF text[i] = "A" THEN "a" ELSE text[i]]

\* locate, for one mount of the whole site (serve): 0 when the base does not claim the request.
Locate(built, base, pathname) ==
  LET decoded == Decode(pathname)
      root == BasePath(base)
      file == Resolve(built.dir, Split(From(decoded, Len(root) + 1), "/"))
      index == Append(file, <<"index">>)
      shown == IF file \in built.dirs THEN index ELSE file
  IN CASE Malformed(pathname) -> [status |-> 400, file |-> <<>>]
       [] ~StartsWith(decoded, root) -> [status |-> 0, file |-> <<>>]
       [] ~IsPrefix(built.dir, file) -> [status |-> 403, file |-> <<>>]
       [] IsFile(built, shown) -> [status |-> 200, file |-> RealOrResolved(built, shown)]
       [] OTHER -> [status |-> 404, file |-> <<>>]

(***************************************************************************)
(* What these must achieve.                                                *)
(***************************************************************************)
\* How Python's html.parser reads a token, by the ones before it: as markup, inside a comment, inside
\* raw text, or not at all once the page has ended inside a tag or a comment.  A tag that ends in "/>"
\* is empty there; a browser would open <script/> and <figure/> all the same.
Modes(page) ==
  LET after(mode, token) ==
        CASE mode = "data" /\ token.is = "start" /\ ~token.self /\ token.tag \in RawText -> token.tag
          [] mode = "data" /\ token.is = "comment" -> "comment"
          [] mode = "data" /\ token.is = "cut" -> "over"
          [] mode = "comment" /\ token.is = "close" -> "data"
          [] mode \in RawText \ {"plaintext"} /\ token.is = "end" /\ token.tag = mode -> "data"
          [] OTHER -> mode
  IN FoldLeft(LAMBDA modes, token : Append(modes, after(Last(modes), token)), <<"data">>, page)

\* The page's diagrams are those html.parser finds in it: figures by their outermost element and every
\* image inside, Mermaid blocks, and scripts, none of them read inside a comment, a title or a script.
ScanAgrees(page) ==
  LET modes == Modes(page)
      seen(i) == modes[i] = "data" \/ (page[i].is = "end" /\ page[i].tag = modes[i] /\ modes[i] # "plaintext")
      start(i, tag) == seen(i) /\ page[i].is = "start" /\ page[i].tag = tag
      opens(i) == start(i, "figure") /\ ~page[i].self
      balance(from, to) == Cardinality({i \in from..to : opens(i)})
                           - Cardinality({i \in from..to : seen(i) /\ page[i].is = "end" /\ page[i].tag = "figure"})
      closed(from) == LET ends == {i \in from..Len(page) : balance(from, i) = 0} IN IF ends = {} THEN Len(page) + 1 ELSE Min(ends)
      marked == {i \in DOMAIN page : start(i, "figure") /\ page[i].class = "praetor-figure" /\ page[i].slug # ""}
      within(i, f) == f < i /\ ~page[f].self /\ i < closed(f)
      taken == FoldLeft(LAMBDA set, i : IF i \in marked /\ Cardinality(set) < MaxPageFigures /\ \A f \in set : ~within(i, f)
                                        THEN set \cup {i} ELSE set, {}, [i \in DOMAIN page |-> i])
      figures == Positions(Len(page), LAMBDA i : i \in taken)
      images(f) == SelectAt(page, LAMBDA i : start(i, "img") /\ within(i, f))
      scanned == ScanPage(page)
      inline(i) == modes[i] = "script" /\ page[i].is = "import"
                   /\ page[Max({j \in 1..i : modes[j] = "data"})].url = ""
      scripts == {page[i].url : i \in {j \in DOMAIN page : (start(j, "script") /\ page[j].url # "") \/ inline(j)}}
  IN /\ scanned.figures = [k \in DOMAIN figures |-> [slug |-> page[figures[k]].slug,
                             urls |-> [n \in DOMAIN images(figures[k]) |-> images(figures[k])[n].url]]]
     /\ scanned.mermaid = Cardinality({i \in DOMAIN page : start(i, "pre") /\ page[i].class = "mermaid"})
     /\ Range(scanned.scripts) \subseteq scripts
     /\ Cardinality({i \in DOMAIN page : inline(i)}) <= MaxPageFigures => Range(scanned.scripts) = scripts

\* What a browser at the URL of the page asks this host for: relative to the page or from the root,
\* never above it; nothing when the URL names another host.
Requested(built, base, output, url) ==
  LET path == Before(Before(url, "#"), "?")
      here == Resolve(<<>>, Split(base, "/")) \o SubSeq(Front(output), Len(built.dir) + 1, Len(output) - 1)
      names == IF StartsWith(path, <<"/">>) THEN Resolve(<<>>, Split(path, "/")) ELSE Resolve(here, Split(path, "/"))
  IN IF StartsWith(url, <<"/", "/">>) \/ Includes(url, <<":", "/", "/">>) THEN <<>>
     ELSE <<"/">> \o JoinWith(IF names = <<>> THEN <<<<>>>> ELSE names, <<"/">>)

\* A URL the site check accepts is one the site's server answers with that file, whatever base path a
\* site with relative URLs is served under: exactly when the request holds no percent sign, which the
\* server decodes and the check takes as part of a file's name.
UrlAgrees(output, built, base, url) ==
  LET request == Requested(built, base, output, url)
      served == [status |-> 200, file |-> UrlTarget(output, built, url)]
  IN Resolves(output, built, url) =>
       (Locate(built, base, request) = served <=> ~Malformed(request) /\ Decode(request) = request)
=============================================================================
