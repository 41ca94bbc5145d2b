--------------------------- MODULE LinkResolution ---------------------------
(***************************************************************************)
(* tools/markdownlint/no-private-scratch-links.mjs: where a destination     *)
(* leads, and whether that is a private scratch directory.  One character   *)
(* of the model stands for a path name or a percent triplet: "s" and "S"    *)
(* are .workingdir in two cases, "a" another name and a drive letter, "f"   *)
(* and "w" the schemes file and one that is neither file nor https, "E",    *)
(* "F" and "G" the triplets of ".", "/" and of a letter of "s".             *)
(***************************************************************************)
EXTENDS LinkScanner

Controls == {" ", "\t", "\n"}
ScratchRoots == {<<"s">>}
Repository == <<"R">>              \* SYNTHETIC_REPOSITORY_PATH, one segment
None == [hit |-> FALSE, resolved |-> <<>>]
Lower(c) == IF c = "S" THEN "s" ELSE c
Portable(text) == [i \in DOMAIN text |-> IF text[i] = "\\" THEN "/" ELSE text[i]]

\* preprocessURLInput: trims blanks and drops tabs and line breaks.
PreprocessURLInput(value) == SelectSeq(TrimSet(value, Controls), LAMBDA c : c \notin {"\t", "\n"})

DecodeASCIITriplets(value) ==
  LET triplet == [E |-> ".", F |-> "/", G |-> "s"]
  IN [i \in DOMAIN value |-> IF value[i] \in DOMAIN triplet THEN triplet[value[i]] ELSE value[i]]

Dot == {<<".">>, <<"E">>}
DotDot == {<<x, y>> : x, y \in {".", "E"}}

\* The URL parser's path: segments walked from a base; ".." drops one, and none at the root.
URLPath(base, segments) ==
  FoldLeft(LAMBDA path, segment : IF segment \in DotDot THEN (IF path = <<>> THEN <<>> ELSE Front(path))
                                  ELSE IF segment \in Dot THEN path ELSE Append(path, segment),
           base, segments)

\* A scheme is a letter, then letters and dots, up to a colon.
Letters == {"a", "f", "w"}
Scheme(text) ==
  LET colon == Find(text, 1, LAMBDA c : c = ":")
      before == SubSeq(text, 1, colon - 1)
  IN IF colon <= Len(text) /\ At(text, 1) \in Letters /\ Range(before) \subseteq Letters \cup {".", "s", "S"} THEN before ELSE <<>>

\* new URL(candidate, sourceURL(source)); sourceDir are the segments of the source's directory.
URL(candidate, sourceDir) ==
  LET cut == Find(candidate, 1, LAMBDA c : c \in {"#", "?"})
      text == Portable(Slice(candidate, 1, cut - 1))
      segments == Split(text, "/")
      afterHost == IF StartsAt(text, <<"/", "/">>, 3) THEN Find(text, 5, LAMBDA c : c = "/") ELSE 3
      result(origin, path) == [origin |-> origin, path |-> path]
  IN CASE Scheme(text) = <<"f">> -> result("file", URLPath(<<>>, Split(From(text, afterHost), "/")))
       [] Scheme(text) # <<>> \/ StartsWith(text, <<"/", "/">>) -> result("other", <<>>)
       [] StartsWith(text, <<"/">>) -> result("repository", URLPath(<<>>, Tail(segments)))
       [] text = <<>> -> result("repository", <<Repository>> \o sourceDir \o <<<<"a">>>>)
       [] OTHER -> result("repository", URLPath(<<Repository>> \o sourceDir, segments))

\* path.posix.normalize, as the segments that remain; a relative path keeps its leading "..".
Normalize(segments) ==
  FoldLeft(LAMBDA path, segment :
             CASE segment \in {<<>>, <<".">>} -> path
               [] segment = <<".", ".">> /\ path # <<>> /\ Last(path) # <<".", ".">> -> Front(path)
               [] OTHER -> Append(path, segment), <<>>, segments)

JoinSlash(segments) == JoinWith(segments, <<"/">>)

\* scratchResolution: the path's first segment, or any segment, is a scratch root.
ScratchResolution(segments, anywhere) ==
  LET parts == Normalize(Split(Portable(DecodeASCIITriplets(JoinSlash(segments))), "/"))
      candidates == IF anywhere \/ parts = <<>> THEN parts ELSE <<Head(parts)>>
      root(part) == [i \in DOMAIN part |-> Lower(part[i])] \in ScratchRoots
  IN IF \E i \in DOMAIN candidates : root(candidates[i]) THEN [hit |-> TRUE, resolved |-> parts] ELSE None

\* A mutant: the path is taken from the URL as it is, without decoding it first.
ResolveURLDestinationMutRaw(sourceDir, value) ==
  LET candidate == PreprocessURLInput(value)
      url == URL(candidate, sourceDir)
  IN IF candidate # <<>> /\ url.origin = "repository" /\ url.path # <<>> /\ Head(url.path) = Repository
        /\ Len(url.path) > 1 /\ url.path[2] \in ScratchRoots
     THEN [hit |-> TRUE, resolved |-> Tail(url.path)] ELSE None

\* resolveURLDestination: a UNC or drive path is a file URL; other origins lead nowhere private.
ResolveURLDestination(sourceDir, value) ==
  LET plain == PreprocessURLInput(value)
      candidate == CASE StartsWith(plain, <<"\\", "\\">>) -> <<"f", ":">> \o Portable(plain)
                     [] At(plain, 1) = "a" /\ At(plain, 2) = ":" /\ At(plain, 3) \in {"/", "\\"} ->
                          <<"f", ":", "/", "/", "/">> \o Portable(plain)
                     [] OTHER -> plain
      url == URL(candidate, sourceDir)
      path == IF url.path = <<>> THEN <<>>
              ELSE Split(Portable(DecodeASCIITriplets(JoinSlash(url.path))), "/")
  IN CASE candidate = <<>> \/ url.origin = "other" -> None
       [] url.origin = "file" -> ScratchResolution(url.path, TRUE)
       [] path # <<>> /\ Head(path) = Repository -> ScratchResolution(Tail(path), FALSE)
       [] OTHER -> IF At(candidate, 1) = "/" THEN ScratchResolution(path, TRUE) ELSE None

\* forbiddenResolution: a Markdown destination is read with and without its escapes; a snippet or
\* MDX property also from the repository's root.
ForbiddenResolution(sourceDir, destination, context) ==
  LET candidates == IF context = "markdown"
                    THEN <<MarkdownDestinationString(destination, TRUE), MarkdownDestinationString(destination, FALSE)>>
                    ELSE <<destination>>
      bases == IF context \in {"snippet", "mdx-property"} THEN <<sourceDir, <<>> >> ELSE <<sourceDir>>
      results == FlattenSeq([c \in DOMAIN candidates |-> [b \in DOMAIN bases |-> ResolveURLDestination(bases[b], candidates[c])]])
      hits == SelectSeq(results, LAMBDA r : r.hit)
  IN IF hits = <<>> THEN None ELSE Head(hits)

\* forbiddenFindings: the destinations that lead to a scratch root, at most limit of them.
ForbiddenFindings(sourceDir, destinations, limit) ==
  LET findings == SelectSeq(destinations, LAMBDA d : ForbiddenResolution(sourceDir, d.destination, d.context).hit)
  IN SubSeq(findings, 1, IF Len(findings) > limit THEN limit ELSE Len(findings))

(***************************************************************************)
(* Where a destination leads, read as a walk over names.                   *)
(***************************************************************************)
\* The names of a text: triplets of letters and dots are read, those of slashes are not yet.
Names(text) ==
  Split([i \in DOMAIN text |-> CASE text[i] = "\\" -> "/" [] text[i] = "E" -> "." [] text[i] \in {"G", "S"} -> "s" [] OTHER -> text[i]], "/")
Trimmed(destination) == SelectSeq(TrimSet(destination, Controls), LAMBDA c : c \notin {"\t", "\n"})

\* What a browser makes of a destination: another origin, a path of the file system or of the site,
\* or one from the source's directory.
Place(destination) ==
  LET trimmed == Trimmed(destination)
      text == SubSeq(trimmed, 1, Find(trimmed, 1, LAMBDA c : c \in {"#", "?"}) - 1)
      names == Names(text)
      hosted(list) == Len(list) > 2 /\ list[1] = <<>> /\ list[2] = <<>>
      after(list) == IF hosted(list) THEN From(list, 4) ELSE list
      place(from, walk) == [from |-> from, walk |-> walk]
  IN CASE Len(names) > 1 /\ names[1] = <<"a", ":">> -> place("file", Tail(names))
       [] Scheme(text) = <<"f">> -> place("file", after(Names(From(text, 3))))
       [] StartsWith(text, <<"\\", "\\">>) -> place("file", after(names))
       [] Scheme(text) # <<>> \/ hosted(names) -> place("other", <<>>)
       [] Len(names) > 1 /\ names[1] = <<>> -> place("site", Tail(names))
       [] OTHER -> place("source", names)

\* A name stays on the path unless a later ".." takes it back.
Height(names, i, j) ==
  LET ups == {k \in i..j : names[k] = <<".", ".">>}
      downs == {k \in i..j : names[k] \notin {<<".">>, <<".", ".">>}}
  IN Cardinality(downs) - Cardinality(ups)
Stays(names, i) ==
  names[i] \notin {<<".">>, <<".", ".">>} /\ \A j \in i..Len(names) : Height(names, i, j) > 0
Leaves(names) == \E j \in DOMAIN names : Height(names, 1, j) < 0

\* The names that stay, with the slashes inside them read at last.
Decoded(names) ==
  LET kept == SelectAt(names, LAMBDA i : Stays(names, i))
  IN SelectSeq(FlattenSeq([i \in DOMAIN kept |-> Split(kept[i], "F")]), LAMBDA name : name # <<>>)

\* A destination of the file system or of the site leads into scratch when any name that stays is a
\* scratch root; a relative one when the first is, and the walk never leaves the repository.
LeadsIntoScratch(sourceDir, destination) ==
  LET place == Place(destination)
      walk == IF place.from = "source" THEN sourceDir \o place.walk ELSE place.walk
      read == Decoded(walk)
      stay == {i \in DOMAIN read : Stays(read, i)}
  IN CASE place.from = "other" -> FALSE
       [] place.from = "source" -> ~Leaves(walk) /\ ~Leaves(read) /\ stay # {} /\ read[Min(stay)] \in ScratchRoots
       [] OTHER -> \E i \in stay : read[i] \in ScratchRoots

\* The readings and bases a context gives a destination.
Reads(destination, context) ==
  IF context = "markdown" THEN {MarkdownDestinationString(destination, e) : e \in BOOLEAN} ELSE {destination}
Bases(sourceDir, context) == {sourceDir} \cup (IF context \in {"snippet", "mdx-property"} THEN {<<>>} ELSE {})

\* A destination is reported when one of its readings leads into scratch ...
Reported(sourceDir, destination, context) == ForbiddenResolution(sourceDir, destination, context).hit
SpellingFound(sourceDir, destination, context) ==
  (\E d \in Reads(destination, context), b \in Bases(sourceDir, context) : LeadsIntoScratch(b, d))
    => Reported(sourceDir, destination, context)

\* ... and only then, except for one spelling of the site's root, a single backslash, which
\* resolveURLDestination does not look at.
BackslashRoot(destination) == At(Trimmed(destination), 1) = "\\" /\ At(Trimmed(destination), 2) # "\\"
ResolutionAgrees(sourceDir, destination, context) ==
  Reported(sourceDir, destination, context)
    <=> \E d \in Reads(destination, context), b \in Bases(sourceDir, context) : LeadsIntoScratch(b, d) /\ ~BackslashRoot(d)
=============================================================================
