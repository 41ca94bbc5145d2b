----------------------------- MODULE DocsPages ------------------------------
(***************************************************************************)
(* tools/figures/checks.mjs: the pages a site is built from, which patterns *)
(* leave pages out, and which diagrams a configuration enables.             *)
(***************************************************************************)
EXTENDS Text, Integers

CONSTANTS Ordered,      \* the characters in their order
          MaxEntries, MaxPages

Rank(c) == CHOOSE i \in DOMAIN Ordered : Ordered[i] = c
Interval(from, to) == {c \in Range(Ordered) : Rank(from) <= Rank(c) /\ Rank(c) <= Rank(to)}

(***************************************************************************)
(* Globs, as fnmatch.translate reads them.                                 *)
(***************************************************************************)
\* bracketBody cuts the members at the hyphens that make a range ...
RECURSIVE ChunksFrom(_, _, _)
ChunksFrom(stuff, from, k) ==
  LET at == IndexOf(stuff, <<"-">>, k)
  IN IF at = Absent THEN <<From(stuff, from)>> ELSE <<Slice(stuff, from, at - 1)>> \o ChunksFrom(stuff, at + 1, at + 3)

\* ... and joins the two around an empty range, from the last one down.
RECURSIVE MergeFromMutEqual(_, _)
MergeFromMutEqual(chunks, i) ==
  LET left == chunks[i - 1]
      right == chunks[i]
  IN CASE i < 2 -> chunks
       [] left # <<>> /\ right # <<>> /\ Rank(Last(left)) >= Rank(Head(right)) ->
            MergeFromMutEqual(SubSeq(chunks, 1, i - 2) \o <<Front(left) \o Tail(right)>> \o SubSeq(chunks, i + 1, Len(chunks)), i - 1)
       [] OTHER -> MergeFromMutEqual(chunks, i - 1)

RECURSIVE MergeFrom(_, _)
MergeFrom(chunks, i) ==
  LET left == chunks[i - 1]
      right == chunks[i]
  IN CASE i < 2 -> chunks
       [] left # <<>> /\ right # <<>> /\ Rank(Last(left)) > Rank(Head(right)) ->
            MergeFrom(SubSeq(chunks, 1, i - 2) \o <<Front(left) \o Tail(right)>> \o SubSeq(chunks, i + 1, Len(chunks)), i - 1)
       [] OTHER -> MergeFrom(chunks, i - 1)

BracketBody(stuff) ==
  LET cut == ChunksFrom(stuff, 1, IF At(stuff, 1) = "!" THEN 3 ELSE 2)
      chunks == IF Len(cut) > 1 /\ Last(cut) = <<>> THEN SubSeq(cut, 1, Len(cut) - 2) \o <<Append(cut[Len(cut) - 1], "-")>> ELSE cut
  IN MergeFrom(chunks, Len(chunks))

\* The members of a class: the characters of its chunks, and the ranges between them.
Members(chunks) ==
  UNION {Range(chunks[i]) : i \in DOMAIN chunks}
    \cup UNION {Interval(Last(chunks[i]), Head(chunks[i + 1])) : i \in 1..(Len(chunks) - 1)}

\* bracket: the class that starts after the "[", and where it ends.
Bracket(pattern, start) ==
  LET bang == IF At(pattern, start) = "!" THEN start + 1 ELSE start
      end == IndexOf(pattern, <<"]">>, IF At(pattern, bang) = "]" THEN bang + 1 ELSE bang)
      chunks == BracketBody(Slice(pattern, start, end - 1))
      token(is, set) == [token |-> [is |-> is, set |-> set], next |-> end + 1]
  IN CASE end = Absent -> [token |-> [is |-> "in", set |-> {"["}], next |-> start]
       [] chunks = <<<<>>>> -> token("in", {})
       [] chunks = <<<<"!">>>> -> token("not", {})
       [] Head(Head(chunks)) = "!" -> token("not", Members(<<Tail(Head(chunks))>> \o Tail(chunks)))
       [] OTHER -> token("in", Members(chunks))

\* globRegExp, and what the regular expression matches.
RECURSIVE GlobTokens(_, _)
GlobTokens(pattern, i) ==
  LET part == Bracket(pattern, i + 1)
  IN CASE i > Len(pattern) -> <<>>
       [] pattern[i] = "*" -> <<[is |-> "many", set |-> {}]>> \o GlobTokens(pattern, i + 1)
       [] pattern[i] = "?" -> <<[is |-> "not", set |-> {}]>> \o GlobTokens(pattern, i + 1)
       [] pattern[i] = "[" -> <<part.token>> \o GlobTokens(pattern, part.next)
       [] OTHER -> <<[is |-> "in", set |-> {pattern[i]}]>> \o GlobTokens(pattern, i + 1)
RECURSIVE RegExpTest(_, _)
RegExpTest(tokens, name) ==
  CASE tokens = <<>> -> name = <<>>
    [] Head(tokens).is = "many" -> \E k \in 1..(Len(name) + 1) : RegExpTest(Tail(tokens), From(name, k))
    [] name = <<>> -> FALSE
    [] OTHER -> (Head(tokens).is = "in" <=> Head(name) \in Head(tokens).set) /\ RegExpTest(Tail(tokens), Tail(name))
GlobMatches(name, glob) == RegExpTest(GlobTokens(glob, 1), name)

\* glob.replace(CARET_BRACKET, '[!')
CaretBracket(glob) == [i \in DOMAIN glob |-> IF i > 1 /\ glob[i] = "^" /\ glob[i - 1] = "[" THEN "!" ELSE glob[i]]

\* patternMatches: component by component, anchored when a slash starts or divides the pattern.
PatternMatches(parts, pattern) ==
  LET directory == EndsWith(pattern, <<"/">>)
      body == IF directory THEN Front(pattern) ELSE pattern
      split == Split(IF StartsWith(body, <<"/">>) THEN Tail(body) ELSE body, "/")
      globs == [i \in DOMAIN split |-> CaretBracket(split[i])]
      names == IF directory THEN Front(parts) ELSE parts
  IN CASE globs = <<<<>>>> -> FALSE
       [] ~Includes(body, <<"/">>) -> \E i \in DOMAIN names : GlobMatches(names[i], globs[1])
       [] OTHER -> Len(globs) <= Len(names) /\ \A i \in DOMAIN globs : GlobMatches(names[i], globs[i])

\* isExcluded: the first pattern that matches decides, unless one before it is refused.
Unsupported(pattern) == StartsWith(pattern, <<"!">>) \/ Includes(pattern, <<"*", "*">>) \/ Includes(pattern, <<"\\">>)
DefaultExclude == <<<<".", "*">>, <<"/", "t", "/">>>>
IsExcluded(parts, patterns) ==
  LET all == DefaultExclude \o patterns
      at == Find(all, 1, LAMBDA pattern : Unsupported(pattern) \/ PatternMatches(parts, pattern))
  IN CASE at > Len(all) -> "kept"
       [] Unsupported(all[at]) -> "refused"
       [] OTHER -> "excluded"

(***************************************************************************)
(* Pages.  A tree is a set of entries, each with its path.                 *)
(***************************************************************************)
RECURSIVE Less(_, _)
Less(x, y) == y # <<>> /\ (x = <<>> \/ Rank(Head(x)) < Rank(Head(y)) \/ (Head(x) = Head(y) /\ Less(Tail(x), Tail(y))))

\* compareParts: by the first component that differs, then the shorter path first.
RECURSIVE CompareParts(_, _)
CompareParts(a, b) ==
  b # <<>> /\ (a = <<>> \/ Less(Head(a), Head(b)) \/ (Head(a) = Head(b) /\ CompareParts(Tail(a), Tail(b))))

Listed(tree, parts) == SelectSeq(tree, LAMBDA entry : Front(entry.parts) = parts)

\* markdownParts: directories on a stack; the walk stops past MaxEntries.
RECURSIVE WalkPages(_, _, _)
WalkPages(tree, state, visited) ==
  LET parts == Last(state.stack)
      listed == Listed(tree, parts)
      seen == state.seen + Len(listed)
      found == SelectSeq(listed, LAMBDA entry : EndsWith(Last(entry.parts), <<"m">>))
      dirs == SelectSeq(listed, LAMBDA entry : entry.dir)
      paths(entries) == [i \in DOMAIN entries |-> entries[i].parts]
  IN CASE state.stack = <<>> \/ visited >= MaxEntries -> state
       [] seen > MaxEntries -> [state EXCEPT !.seen = seen, !.stack = Front(@)]
       [] OTHER -> WalkPages(tree, [stack |-> Front(state.stack) \o paths(dirs), seen |-> seen, found |-> state.found \o paths(found)],
                             visited + 1)
MarkdownParts(tree) ==
  LET last == WalkPages(tree, [stack |-> <<<<>>>>, seen |-> 0, found |-> <<>>], 0)
  IN IF last.stack # <<>> \/ last.seen > MaxEntries THEN [ok |-> FALSE, found |-> <<>>]
     ELSE [ok |-> TRUE, found |-> SortSeq(last.found, CompareParts)]

PagesUnderMutLimit(tree, verdict) ==
  LET parts == MarkdownParts(tree)
      pages == SelectSeq(parts.found, LAMBDA page : verdict[page] = "kept")
      ok == parts.ok /\ Len(parts.found) <= MaxPages /\ \A page \in Range(parts.found) : verdict[page] # "refused"
  IN [ok |-> ok, pages |-> IF ok THEN pages ELSE <<>>]

\* pagesUnder: the pages that skip keeps, at most MaxPages of them.
PagesUnder(tree, verdict) ==
  LET parts == MarkdownParts(tree)
      pages == SelectSeq(parts.found, LAMBDA page : verdict[page] = "kept")
      ok == parts.ok /\ Len(pages) <= MaxPages /\ \A page \in Range(parts.found) : verdict[page] # "refused"
  IN [ok |-> ok, pages |-> IF ok THEN pages ELSE <<>>]
Paths(tree) == {tree[i].parts : i \in DOMAIN tree}
MarkdownPages(tree, patterns) == PagesUnder(tree, [page \in Paths(tree) |-> IsExcluded(page, patterns)])

\* starlightPages: no dot-file or dot-directory, no file whose name starts with an underscore.
StarlightPages(tree) ==
  PagesUnder(tree, [page \in Paths(tree) |->
    IF (\E i \in DOMAIN page : Head(page[i]) = ".") \/ Head(Last(page)) = "_" THEN "excluded" ELSE "kept"])

(***************************************************************************)
(* mkdocs.yml: lines with an indent and what they are.                     *)
(***************************************************************************)
Significant(line) == line.is \notin {"blank", "comment"}

SuperfencesBodyMutComment(lines) ==
  LET at == Find(lines, 1, LAMBDA line : line.is = "superfences")
      end == Find(lines, at + 1, LAMBDA line : line.is # "blank" /\ line.indent <= lines[at].indent)
  IN SubSeq(lines, at + 1, end - 1)

\* superfencesBody: the lines nested under the first superfences entry.
SuperfencesBody(lines) ==
  LET at == Find(lines, 1, LAMBDA line : line.is = "superfences")
      end == Find(lines, at + 1, LAMBDA line : Significant(line) /\ line.indent <= lines[at].indent)
  IN SubSeq(lines, at + 1, end - 1)

\* declaredFences: a key after a dash starts the next fence; a later value of a key wins.
DeclaredFences(lines) ==
  FoldLeft(LAMBDA declared, line :
             LET open == IF line.is = "dash" \/ declared = <<>> THEN Append(declared, {}) ELSE declared
                 fence == {pair \in Last(open) : pair[1] # line.key} \cup {<<line.key, line.value>>}
             IN IF line.is \in {"key", "dash"} THEN Append(Front(open), fence) ELSE declared,
           <<>>, SuperfencesBody(lines))

ExpectedFence == {<<"name", "mermaid">>, <<"class", "mermaid">>, <<"format", "code">>}
ConfigError(lines) == ~\E i \in DOMAIN DeclaredFences(lines) : DeclaredFences(lines)[i] = ExpectedFence

\* blockHooks: the list items that follow, comments and blank lines between them.
IsItem(line) == line.is \in {"item", "dash", "superfences"} /\ line.indent > 0
BlockHooks(following) ==
  LET end == Find(following, 1, LAMBDA line : ~IsItem(line) /\ Significant(line))
  IN {line.value : line \in {l \in Range(SubSeq(following, 1, end - 1)) : IsItem(l)}}

\* declaredHooks: of the first hooks key, in block or flow style.
DeclaredHooks(lines) ==
  LET at == Find(lines, 1, LAMBDA line : line.is \in {"hooks", "flow"})
  IN CASE at > Len(lines) -> {}
       [] lines[at].is = "flow" -> {lines[at].value}
       [] OTHER -> BlockHooks(From(lines, at + 1))

\* excludedPatterns and blockScalarLines: one plain value, or the indented lines that follow the key.
ExcludedPatterns(lines) ==
  LET at == Find(lines, 1, LAMBDA line : line.is \in {"exclude", "excludeline"})
      end == Find(lines, at + 1, LAMBDA line : line.is # "blank" /\ line.indent = 0)
      value(entries) == [i \in DOMAIN entries |-> entries[i].value]
  IN CASE at > Len(lines) -> <<>>
       [] lines[at].is = "excludeline" -> value(SelectSeq(<<lines[at]>>, LAMBDA line : line.value # ""))
       [] OTHER -> value(SelectSeq(SubSeq(lines, at + 1, end - 1), Significant))

EnabledKinds(lines) ==
  (IF ConfigError(lines) THEN {} ELSE {"mermaid"}) \cup (IF "hook" \in DeclaredHooks(lines) THEN {"figure"} ELSE {})

(***************************************************************************)
(* Reference definitions.                                                  *)
(***************************************************************************)
\* A class read from left to right: a range wherever a hyphen has a character on both sides.
RECURSIVE InClass(_, _)
InClass(body, c) ==
  CASE body = <<>> -> FALSE
    [] Len(body) >= 3 /\ At(body, 2) = "-" -> c \in Interval(body[1], body[3]) \/ InClass(From(body, 4), c)
    [] OTHER -> c = Head(body) \/ InClass(Tail(body), c)
RECURSIVE Glob(_, _)
Glob(glob, name) ==
  LET negated == At(glob, 2) \in {"!", "^"}
      first == IF negated THEN 3 ELSE 2
      close == IndexOf(glob, <<"]">>, first + 1)
      one(matches, rest) == name # <<>> /\ matches /\ Glob(rest, Tail(name))
  IN CASE glob = <<>> -> name = <<>>
       [] Head(glob) = "*" -> \E k \in 0..Len(name) : Glob(Tail(glob), From(name, k + 1))
       [] Head(glob) = "?" -> one(TRUE, Tail(glob))
       [] Head(glob) = "[" /\ close # Absent -> one(negated # InClass(Slice(glob, first, close - 1), Head(name)), From(glob, close + 1))
       [] OTHER -> one(Head(glob) = Head(name), Tail(glob))

\* A pattern leaves a page out when it names the page or a directory above it.
Components(pattern) ==
  LET open == IF StartsWith(pattern, <<"/">>) /\ Len(pattern) > 1 THEN Tail(pattern) ELSE pattern
  IN Split(IF EndsWith(open, <<"/">>) THEN Front(open) ELSE open, "/")
Names(pattern, path) ==
  LET globs == Components(pattern)
      anchored == Len(globs) > 1 \/ StartsWith(pattern, <<"/">>)
      named == IF anchored THEN path ELSE <<Last(path)>>
  IN globs # <<<<>>>> /\ Len(named) = Len(globs) /\ \A i \in DOMAIN globs : Glob(globs[i], named[i])
LeavesOut(pattern, page) ==
  \E n \in 1..Len(page) : (n < Len(page) \/ ~EndsWith(pattern, <<"/">>)) /\ Names(pattern, SubSeq(page, 1, n))
PatternsAgree(pattern, pages) ==
  Unsupported(pattern) \/ \A page \in pages : PatternMatches(page, pattern) <=> LeavesOut(pattern, page)

\* Paths in order: the ranks of their characters, each component ended by a 0.
Key(path) == FlattenSeq([i \in DOMAIN path |-> [k \in DOMAIN path[i] |-> Rank(path[i][k])] \o <<0>>])
Precedes(u, v) ==
  \E k \in DOMAIN v : (\A i \in 1..(k - 1) : i \in DOMAIN u /\ u[i] = v[i]) /\ (k > Len(u) \/ u[k] < v[k])

\* A page is a file whose name ends in the suffix.  markdownParts does not ask whether an entry is a
\* file, so it takes a directory of such a name for a page as well.
Pages(tree) == {tree[i].parts : i \in {n \in DOMAIN tree : ~tree[n].dir /\ Last(Last(tree[n].parts)) = "m"}}
Lookalikes(tree) == {tree[i].parts : i \in {n \in DOMAIN tree : tree[n].dir /\ Last(Last(tree[n].parts)) = "m"}}

\* All the pages and the directories that look like one, nothing else, in order, unless a limit or a
\* pattern refuses the tree.
Lists(result, expected, tree, refused) ==
  /\ result.ok <=> /\ Len(tree) <= MaxEntries
                   /\ Cardinality({i \in DOMAIN tree : tree[i].dir}) < MaxEntries
                   /\ Cardinality(expected) <= MaxPages
                   /\ ~refused
  /\ result.ok => /\ Range(result.pages) = expected
                  /\ \A i \in 2..Len(result.pages) : Precedes(Key(result.pages[i - 1]), Key(result.pages[i]))
PagesAgree(tree, patterns) ==
  LET all == Pages(tree) \cup Lookalikes(tree)
      hidden(path) == \E i \in DOMAIN path : Head(path[i]) = "."
      usual == {path \in all : ~hidden(path) /\ ~(Len(path) > 1 /\ path[1] = <<"t">>)}
      refuses(path, i) == Unsupported(patterns[i]) /\ \A k \in 1..(i - 1) : ~LeavesOut(patterns[k], path)
      out(path) == \E i \in DOMAIN patterns : LeavesOut(patterns[i], path)
  IN /\ Lists(MarkdownPages(tree, patterns), {path \in usual : ~out(path)}, tree,
              \E path \in usual, i \in DOMAIN patterns : refuses(path, i))
     /\ Lists(StarlightPages(tree), {path \in all : ~hidden(path) /\ Head(Last(path)) # "_"}, tree, FALSE)

\* A fence is the lines from a dash, or from the first key, up to the next dash; the hook is in the
\* unbroken list below the key; the patterns are the indented lines below theirs.
First(lines, kinds) == Min({i \in DOMAIN lines : lines[i].is \in kinds} \cup {Len(lines) + 1})
DeclaresMermaid(lines) ==
  LET s == First(lines, {"superfences"})
      keys == {j \in (s + 1)..Len(lines) :
                 /\ lines[j].is \in {"key", "dash"}
                 /\ \A q \in (s + 1)..j : Significant(lines[q]) => lines[q].indent > lines[s].indent}
      starts == {j \in keys : lines[j].is = "dash" \/ j = Min(keys)}
      of(start, key) == {j \in keys : lines[j].key = key /\ Max({t \in starts : t <= j}) = start}
  IN \E start \in starts : \A pair \in ExpectedFence :
       of(start, pair[1]) # {} /\ lines[Max(of(start, pair[1]))].value = pair[2]
ListsHook(lines) ==
  LET h == First(lines, {"hooks", "flow"})
  IN \E j \in h..Len(lines) :
       /\ lines[j].value = "hook" /\ (j = h \/ IsItem(lines[j]))
       /\ lines[h].is = "flow" => j = h
       /\ \A q \in (h + 1)..j : IsItem(lines[q]) \/ ~Significant(lines[q])
Scalar(lines) ==
  LET e == First(lines, {"exclude", "excludeline"})
      inside(j) == j > e /\ lines[e].is = "exclude" /\ Significant(lines[j])
                   /\ \A q \in (e + 1)..j : lines[q].is = "blank" \/ lines[q].indent > 0
      plain(j) == j = e /\ lines[e].is = "excludeline" /\ lines[e].value # ""
      at == Positions(Len(lines), LAMBDA j : plain(j) \/ inside(j))
  IN [k \in DOMAIN at |-> lines[at[k]].value]
ConfigAgrees(lines) ==
  /\ "mermaid" \in EnabledKinds(lines) <=> DeclaresMermaid(lines)
  /\ "figure" \in EnabledKinds(lines) <=> ListsHook(lines)
  /\ ExcludedPatterns(lines) = Scalar(lines)
=============================================================================
