--------------------------- MODULE StyleExclusion ---------------------------
(***************************************************************************)
(* tools/markdownlint/verify.mjs: the documentation settings of             *)
(* .standards.yaml and the globs that exclude files from the style run.     *)
(* A glob is parsed to segments of token lists and matched by a table over  *)
(* the path's segments; every shape outside the grammar is refused.         *)
(* Each refusal is the record Refused; its wording is left out.             *)
(***************************************************************************)
EXTENDS Text

CONSTANTS Order,                 \* the characters of the instance, by code
          Letters,               \* those in \p{L} or \p{N}
          MaxBraceAlternatives   \* MAX_BRACE_ALTERNATIVES

Codes == [c \in Range(Order) |-> CHOOSE i \in DOMAIN Order : Order[i] = c]
Code(c) == Codes[c]
Ok(value) == [ok |-> TRUE, value |-> value]
Refused == [ok |-> FALSE, value |-> <<>>]

Globstar == <<"*", "*">>
NamesAPath(text) == \E i \in DOMAIN text : text[i] \in Letters

\* styleExclusionProblem: not a repository-relative path pattern that names something.
StyleExclusionProblem(pattern) ==
  \/ pattern = <<>>
  \/ Includes(pattern, <<"\\">>)
  \/ pattern[1] \in {"/", "!"} \/ (pattern[1] \in Letters /\ At(pattern, 2) = ":")
  \/ \E i \in DOMAIN Split(pattern, "/") : Split(pattern, "/")[i] \in {<<>>, <<".">>, <<".", ".">>}
  \/ ~NamesAPath(pattern)

\* characterProblem: a character outside the allow-list.
CharacterProblem(pattern) == \E i \in DOMAIN pattern : pattern[i] \in {"\"", "(", "|", ")"}

(***************************************************************************)
(* Brace lists.                                                            *)
(***************************************************************************)
\* classEnd: the ] that closes the class opened at i.
ClassEnd(segment, i) ==
  LET end == IndexOf(segment, <<"]">>, i + 1)
  IN IF end = Absent \/ Includes(Slice(segment, i + 1, end - 1), <<"[">>) \/ At(segment, end + 1) = "+"
     THEN Absent ELSE end

\* A brace alternative with each class replaced by one character.
RECURSIVE WithoutClasses(_)
WithoutClasses(text) ==
  LET open == IndexOf(text, <<"[">>, 1)
      close == IndexOf(text, <<"]">>, open)
  IN IF open = Absent \/ close = Absent THEN text
     ELSE Slice(text, 1, open - 1) \o <<"c">> \o WithoutClasses(From(text, close + 1))

\* closedListProblem: ranges, .* inside a list, one alternative, a repeat.
ClosedListProblemMutSingle(list, next) ==
  next = "+" \/ \E i \in DOMAIN list : Includes(list[i], <<".", ".">>) \/ Includes(WithoutClasses(list[i]), <<".", "*">>)
ClosedListProblem(list, next) ==
  \/ \E i \in DOMAIN list : Includes(list[i], <<".", ".">>) \/ Includes(WithoutClasses(list[i]), <<".", "*">>)
  \/ Len(list) < 2
  \/ next = "+"

\* braceDelimiter: one {, } or list comma changes the parts, the literal text and the open list.
BraceDelimiter(state, character, next) ==
  IF character = "{"
  THEN IF state.open \/ next = "+" THEN Refused
       ELSE Ok([parts |-> Append(state.parts, <<state.literal>>), literal |-> <<>>, open |-> TRUE, list |-> <<>>])
  ELSE IF ~state.open THEN Refused
  ELSE LET list == Append(state.list, state.literal)
       IN IF character = "," THEN Ok([state EXCEPT !.list = list, !.literal = <<>>])
          ELSE IF ClosedListProblem(list, next) THEN Refused
          ELSE Ok([parts |-> Append(state.parts, list), literal |-> <<>>, open |-> FALSE, list |-> <<>>])

\* braceParts: the segment as a sequence of lists to choose from, a literal being a list of one.
RECURSIVE BraceScan(_, _, _)
BraceScan(segment, i, state) ==
  IF i > Len(segment)
  THEN IF state.open THEN Refused ELSE Ok(Append(state.parts, <<state.literal>>))
  ELSE LET c == segment[i]
           delimited == BraceDelimiter(state, c, At(segment, i + 1))
           end == ClassEnd(segment, i)
       IN CASE c = "]" -> Refused
            [] c \in {"{", "}"} \/ (c = "," /\ state.open) ->
                 IF delimited.ok THEN BraceScan(segment, i + 1, delimited.value) ELSE Refused
            [] c = "[" ->
                 IF end = Absent THEN Refused
                 ELSE BraceScan(segment, end + 1, [state EXCEPT !.literal = @ \o Slice(segment, i, end)])
            [] OTHER -> BraceScan(segment, i + 1, [state EXCEPT !.literal = Append(@, c)])
BraceParts(segment) == BraceScan(segment, 1, [parts |-> <<>>, literal |-> <<>>, open |-> FALSE, list |-> <<>>])

\* Every way of taking one choice from each group, earlier groups varying slowest; refused once
\* there are more than the bound.
RECURSIVE Product(_, _)
Product(groups, prefixes) ==
  IF groups = <<>> THEN Ok(prefixes)
  ELSE IF Len(prefixes) * Len(Head(groups)) > MaxBraceAlternatives THEN Refused
  ELSE Product(Tail(groups),
         FlattenSeq([i \in DOMAIN prefixes |-> [j \in DOMAIN Head(groups) |-> prefixes[i] \o Head(groups)[j]]]))

\* expandBraces: the alternatives a segment spells, without repetitions.
ExpandBraces(segment) ==
  LET parts == BraceParts(segment)
      all == IF parts.ok THEN Product(parts.value, <<<<>>>>) ELSE Refused
  IN [all EXCEPT !.value = Distinct(@)]

(***************************************************************************)
(* Tokens of one alternative.                                              *)
(***************************************************************************)
Star == [type |-> "star"]
AnyToken == [type |-> "any"]
Literal(c) == [type |-> "literal", code |-> Code(c)]

\* classRanges: characters and a-z ranges as pairs of codes.
RECURSIVE ClassRanges(_, _)
ClassRanges(body, i) ==
  IF i > Len(body) THEN <<>>
  ELSE IF At(body, i + 1) = "-" /\ i + 2 <= Len(body)
  THEN <<<<Code(body[i]), Code(body[i + 2])>>>> \o ClassRanges(body, i + 3)
  ELSE <<<<Code(body[i]), Code(body[i])>>>> \o ClassRanges(body, i + 1)

\* classToken: a class with no character picomatch treats specially also matches its own text.
RegexChars == {"-", "*", "+", "?", ".", "^", "$", "{", "}", "(", "|", ")", "[", "]"}
ClassToken(body) ==
  LET negated == At(body, 1) = "^"
      ranges == ClassRanges(body, IF negated THEN 2 ELSE 1)
      spansSlash(r) == r[1] <= Code("/") /\ Code("/") <= r[2]
  IN IF \/ At(body, 1) = "!" \/ ranges = <<>>
        \/ \E i \in DOMAIN ranges : ranges[i][2] < ranges[i][1] \/ (~negated /\ spansSlash(ranges[i]))
     THEN Refused
     ELSE Ok([type |-> "class", negated |-> negated, ranges |-> ranges,
              literal |-> IF \E i \in DOMAIN body : body[i] \in RegexChars THEN <<>> ELSE <<"[">> \o body \o <<"]">>])

\* segmentTokens: literals, one star for a run of them, ? and classes.
RECURSIVE SegmentScan(_, _, _)
SegmentScan(text, i, tokens) ==
  IF i > Len(text) THEN Ok(tokens)
  ELSE LET end == IndexOf(text, <<"]">>, i + 1)
           class == ClassToken(Slice(text, i + 1, end - 1))
       IN CASE text[i] = "*" -> SegmentScan(text, i + 1,
                                  IF tokens # <<>> /\ Last(tokens) = Star THEN tokens ELSE Append(tokens, Star))
            [] text[i] = "?" -> SegmentScan(text, i + 1, Append(tokens, AnyToken))
            [] text[i] = "[" -> IF class.ok THEN SegmentScan(text, end + 1, Append(tokens, class.value)) ELSE Refused
            [] OTHER -> SegmentScan(text, i + 1, Append(tokens, Literal(text[i])))
SegmentTokens(text) == SegmentScan(text, 1, <<>>)

LiteralTokens(text) == [i \in DOMAIN text |-> Literal(text[i])]

\* bracketVariants: each class that also matches its own text is read either way.
BracketVariants(tokens) ==
  Product([i \in DOMAIN tokens |->
             IF tokens[i].type = "class" /\ tokens[i].literal # <<>>
             THEN <<<<tokens[i]>>, LiteralTokens(tokens[i].literal)>> ELSE <<<<tokens[i]>>>>], <<<<>>>>)

\* alternativeProblem: an alternative that leaves no segment, or is * alone.
AlternativeProblem(alternative, segment) ==
  \/ alternative \in {<<>>, <<".">>, <<".", ".">>}
  \/ alternative # segment /\ \A i \in DOMAIN alternative : alternative[i] = "*"

\* compileSegment: a globstar, or the token lists of every alternative and variant.
CompileSegment(segment) ==
  LET expanded == ExpandBraces(segment)
      tokens == [i \in DOMAIN expanded.value |-> SegmentTokens(expanded.value[i])]
      variants == [i \in DOMAIN tokens |-> IF tokens[i].ok THEN BracketVariants(tokens[i].value) ELSE Refused]
      all == FlattenSeq([i \in DOMAIN variants |-> variants[i].value])
  IN IF segment = Globstar THEN Ok([globstar |-> TRUE, wildcard |-> TRUE, alternatives |-> <<>>])
     ELSE IF \/ Includes(segment, Globstar) \/ ~expanded.ok
             \/ \E i \in DOMAIN variants : AlternativeProblem(expanded.value[i], segment) \/ ~variants[i].ok
             \/ Len(all) > MaxBraceAlternatives
     THEN Refused
     ELSE Ok([globstar |-> FALSE, wildcard |-> \E i \in DOMAIN expanded.value : ~NamesAPath(expanded.value[i]),
              alternatives |-> all])

\* parseStyleExclusion: consecutive globstars count as one, and /** after a segment that ends in
\* * needs one more segment.
AnySegment == [globstar |-> FALSE, wildcard |-> TRUE, alternatives |-> <<<<Star>>>>]
OneSegmentRun(pattern) ==
  ~Includes(pattern, <<"/">>) /\ \E c \in {"+", "$", "^"} : Includes(pattern, <<c, c>>)
ParseStyleExclusion(pattern) ==
  LET split == Split(pattern, "/")
      raw == SelectAt(split, LAMBDA i : ~(split[i] = Globstar /\ i > 1 /\ split[i - 1] = Globstar))
      n == Len(raw)
      compiled == [i \in 1..n |-> CompileSegment(raw[i])]
      segments == [i \in 1..n |-> compiled[i].value]
  IN IF \/ CharacterProblem(pattern) \/ OneSegmentRun(pattern)
        \/ \E i \in 1..n : ~compiled[i].ok
        \/ \A i \in 1..n : segments[i].wildcard
     THEN Refused
     ELSE IF n > 1 /\ raw[n] = Globstar /\ EndsWith(raw[n - 1], <<"*">>)
     THEN Ok(InsertAt(segments, n, AnySegment)) ELSE Ok(segments)

(***************************************************************************)
(* Matching.                                                               *)
(***************************************************************************)
TokenMatches(token, code) ==
  CASE token.type = "any" -> TRUE
    [] token.type = "literal" -> token.code = code
    [] token.type = "class" -> (\E i \in DOMAIN token.ranges : code \in token.ranges[i][1]..token.ranges[i][2]) # token.negated

\* tokensMatch: one pass that falls back to the last star.
RECURSIVE TokensStep(_, _, _, _, _, _)
TokensStep(tokens, text, token, position, star, starPosition) ==
  LET more == token <= Len(tokens)
  IN IF position > Len(text) THEN \A i \in token..Len(tokens) : tokens[i] = Star
     ELSE IF more /\ tokens[token].type = "star"
     THEN TokensStep(tokens, text, token + 1, position, token, position)
     ELSE IF more /\ TokenMatches(tokens[token], Code(text[position]))
     THEN TokensStep(tokens, text, token + 1, position + 1, star, starPosition)
     ELSE IF star > 0
     THEN TokensStep(tokens, text, star + 1, starPosition + 1, star, starPosition + 1)
     ELSE FALSE
TokensMatch(tokens, text) == TokensStep(tokens, text, 1, 1, 0, 0)

\* segmentsMatch: after each path segment, the pattern prefixes that match the path so far.
MatchesSegment(segment, part) == \E i \in DOMAIN segment.alternatives : TokensMatch(segment.alternatives[i], part)
SegmentsMatchFrom(segments, parts, start) ==
  LET n == Len(segments)
      step(reached, part, k) == IF segments[k].globstar THEN k \in reached
                                ELSE k - 1 \in reached /\ MatchesSegment(segments[k], part)
      row(reached, part) == {k \in 1..n : \E j \in 1..k : step(reached, part, j) /\ \A i \in (j + 1)..k : segments[i].globstar}
  IN n \in FoldLeft(row, start, parts)
SegmentsMatchMutOne(segments, parts) == SegmentsMatchFrom(segments, parts, {0})
SegmentsMatch(segments, parts) ==
  SegmentsMatchFrom(segments, parts, {k \in 0..Len(segments) : \A i \in 1..k : segments[i].globstar})

\* styleExclusionMatcher: a path spelled as the glob matches it too; on Windows a backslash
\* separates segments, and before a glob character it is not part of that spelling.
GlobChars == {"*", "+", "?", "^", "$", "{", "}", "(", "|", ")", "[", "]"}
StyleExclusionMatcher(pattern, segments, windows, path) ==
  LET slash(keep(_)) == [i \in DOMAIN path |-> IF windows /\ path[i] = "\\" /\ ~keep(i) THEN "/" ELSE path[i]]
      spelled == slash(LAMBDA i : At(path, i + 1) \in GlobChars)
      parts == Split(slash(LAMBDA i : FALSE), "/")
  IN spelled = pattern \/ SegmentsMatch(segments, parts)

(***************************************************************************)
(* Settings.                                                               *)
(***************************************************************************)
\* A glob that styleExclusions accepts.
Accepted(pattern) == ~StyleExclusionProblem(pattern) /\ ParseStyleExclusion(pattern).ok

\* styleExclusions: at most the bound, every glob accepted, none repeated.
StyleExclusions(globs, bound) ==
  /\ Len(globs) <= bound
  /\ \A i \in DOMAIN globs : Accepted(globs[i]) /\ \A j \in 1..(i - 1) : globs[j] # globs[i]

\* boundedSetting: an absent key (<<>>) keeps the default; a value that is no integer is below
\* every minimum.
BoundedSettingMutDefault(value, default, ceiling, minimum) ==
  IF value = <<>> THEN Ok(default)
  ELSE IF Head(value) > ceiling THEN Refused ELSE Ok(Head(value))
BoundedSetting(value, default, ceiling, minimum) ==
  IF value = <<>> THEN Ok(default)
  ELSE IF Head(value) < minimum \/ Head(value) > ceiling THEN Refused ELSE Ok(Head(value))

Defaults == [declared |-> FALSE, maxFiles |-> 2, lintTimeoutSeconds |-> 2, styleExclude |-> <<>>]
Ceiling == 3

\* isMapping, on what a YAML document or value is: "map", "list", "scalar" or "null".
IsMapping(value) == value.is = "map"

\* readManifestText: "none" when there is no entry; only a regular file within the bound is read.
ReadManifestText(manifest) ==
  CASE manifest.entry = "none" -> Ok(<<>>)
    [] manifest.entry = "file" /\ ~manifest.oversized -> Ok(<<manifest.documents>>)
    [] OTHER -> Refused

\* documentationBlock: at most one document, a mapping or nothing; <<>> for no block.
DocumentationBlock(documents) ==
  CASE ~documents.valid \/ Len(documents.list) > 1 -> Refused
    [] documents.list = <<>> \/ Head(documents.list).is = "null" -> Ok(<<>>)
    [] ~IsMapping(Head(documents.list)) -> Refused
    [] OTHER -> Ok(Head(documents.list).documentation)

\* documentationSettings: every key known and every value within its bounds.
DocumentationSettings(block) ==
  LET b == Head(block)
      files == BoundedSetting(b.max_files, Defaults.maxFiles, Ceiling, Defaults.maxFiles)
      lint == BoundedSetting(b.lint_timeout_seconds, Defaults.lintTimeoutSeconds, Ceiling, 1)
  IN CASE block = <<>> \/ b.is = "null" -> Ok(Defaults)
       [] \/ ~IsMapping(b) \/ b.unknown \/ ~files.ok \/ ~lint.ok
          \/ ~StyleExclusions(b.style_exclude, MaxBraceAlternatives) -> Refused
       [] OTHER -> Ok([declared |-> TRUE, maxFiles |-> files.value, lintTimeoutSeconds |-> lint.value,
                       styleExclude |-> b.style_exclude])

RepositorySettings(manifest) ==
  LET text == ReadManifestText(manifest)
      block == DocumentationBlock(Head(text.value))
  IN CASE ~text.ok -> Refused
       [] text.value = <<>> -> Ok(Defaults)
       [] ~block.ok -> Refused
       [] OTHER -> DocumentationSettings(block.value)

(***************************************************************************)
(* The language of a glob, as the comment on the grammar words it.         *)
(***************************************************************************)
\* The brace-free spellings of a segment: the first list replaced by each of its alternatives.
RECURSIVE Spellings(_)
Spellings(text) ==
  LET inClass(i) == \E o \in 1..(i - 1) : text[o] = "[" /\ \A j \in o..i : text[j] # "]"
      open == {i \in DOMAIN text : text[i] = "{" /\ ~inClass(i)}
      close(i) == Min({j \in i..Len(text) : text[j] = "}" /\ ~inClass(j)})
      commas(i) == {j \in i..close(i) : text[j] \in {"{", ",", "}"} /\ ~inClass(j)}
  IN IF open = {} THEN {text}
     ELSE LET i == Min(open)
          IN UNION {Spellings(SubSeq(text, 1, i - 1) \o SubSeq(text, a + 1, b - 1) \o From(text, close(i) + 1)) :
                      <<a, b>> \in {<<a, b>> \in commas(i) \X commas(i) : a < b /\ \A c \in commas(i) : c <= a \/ c >= b}}

\* One brace-free segment matches a path segment, by cases on the first symbol.
RECURSIVE SegmentSpells(_, _)
SegmentSpells(glob, text) ==
  LET close == IndexOf(glob, <<"]">>, 2)
      body == SubSeq(glob, 2, close - 1)
      set == IF body[1] = "^" THEN Tail(body) ELSE body
      inSet(c) == \E i \in DOMAIN set : \/ set[i] = c
                                        \/ /\ i + 2 <= Len(set) /\ set[i + 1] = "-"
                                           /\ Code(set[i]) <= Code(c) /\ Code(c) <= Code(set[i + 2])
  IN IF glob = <<>> THEN text = <<>>
     ELSE CASE Head(glob) = "*" -> \E k \in 0..Len(text) : SegmentSpells(Tail(glob), From(text, k + 1))
            [] Head(glob) = "?" -> text # <<>> /\ SegmentSpells(Tail(glob), Tail(text))
            [] Head(glob) = "[" ->
                 \/ /\ text # <<>> /\ inSet(Head(text)) # (body[1] = "^")
                    /\ SegmentSpells(From(glob, close + 1), Tail(text))
                 \/ /\ \A i \in DOMAIN body : body[i] \notin RegexChars
                    /\ StartsWith(text, SubSeq(glob, 1, close))
                    /\ SegmentSpells(From(glob, close + 1), From(text, close + 1))
            [] OTHER -> text # <<>> /\ Head(text) = Head(glob) /\ SegmentSpells(Tail(glob), Tail(text))

\* Segments match a path: ** takes none or one segment and stays, except that at the end a run of
\* ** after a segment ending in * must take one.
RECURSIVE PathSpells(_, _, _)
PathSpells(segments, parts, afterStar) ==
  IF segments = <<>> THEN parts = <<>>
  ELSE IF Head(segments) = Globstar
  THEN \/ ~(afterStar /\ Len(segments) = 1) /\ PathSpells(Tail(segments), parts, afterStar)
       \/ parts # <<>> /\ PathSpells(segments, Tail(parts), FALSE)
  ELSE /\ parts # <<>>
       /\ \E spelling \in Spellings(Head(segments)) : SegmentSpells(spelling, Head(parts))
       /\ PathSpells(Tail(segments), Tail(parts), EndsWith(Head(segments), <<"*">>))

\* The braces of a segment are in order: every class and every list is closed, lists do not nest
\* and hold a comma.
WellFormed(text) ==
  LET inClass(i) == \E o \in 1..(i - 1) : text[o] = "[" /\ \A j \in o..i : text[j] # "]"
      braces == SelectSeq([i \in DOMAIN text |-> IF inClass(i) THEN "class" ELSE text[i]], LAMBDA c : c \in {"{", "}"})
      inList(i) == \E o \in 1..(i - 1) : text[o] = "{" /\ ~inClass(o) /\ (\A j \in o..i : text[j] # "}" \/ inClass(j))
  IN /\ \A i \in DOMAIN text : text[i] = "]" => At(text, i - 1) = "[" \/ (i > 1 /\ inClass(i - 1))
     /\ \A i \in DOMAIN text : text[i] = "[" => ~inClass(i) /\ \E j \in i..Len(text) : text[j] = "]"
     /\ Len(braces) % 2 = 0 /\ \A i \in DOMAIN braces : braces[i] = IF i % 2 = 1 THEN "{" ELSE "}"
     /\ \A i \in DOMAIN text : text[i] = "}" /\ ~inClass(i) =>
          \E c \in 1..(i - 1) : text[c] = "," /\ ~inClass(c) /\ inList(c) /\ (\A j \in c..(i - 1) : text[j] # "}" \/ inClass(j))

(***************************************************************************)
(* Properties of one glob.                                                 *)
(***************************************************************************)
\* The table over segments and the one-pass star matcher accept exactly the paths the glob spells.
MatcherAgrees(pattern, paths) ==
  ~StyleExclusionProblem(pattern) =>
    LET parsed == ParseStyleExclusion(pattern)
    IN parsed.ok => \A path \in paths : StyleExclusionMatcher(pattern, parsed.value, FALSE, path) <=>
                      (path = pattern \/ PathSpells(Split(pattern, "/"), Split(path, "/"), FALSE))

\* Brace expansion refuses a segment out of order or too large, and spells each alternative once.
BracesAgree(segment) ==
  LET expanded == ExpandBraces(segment)
      parts == BraceParts(segment)
  IN /\ parts.ok <=> WellFormed(segment)
     /\ expanded.ok => /\ Range(expanded.value) = Spellings(segment)
                       /\ Cardinality(Range(expanded.value)) = Len(expanded.value)
                       /\ Len(expanded.value) <= MaxBraceAlternatives

\* A manifest changes what the gate enforces only within the bounds: the inventory bound is never
\* lowered, no time budget leaves 1..ceiling, every exclusion names a path, and a manifest that
\* declares nothing, and only such a one, leaves the defaults.
SettingsAgree(manifest) ==
  LET settings == RepositorySettings(manifest)
      declares == /\ manifest.documents.list # <<>> /\ Head(manifest.documents.list).is = "map"
                  /\ Head(manifest.documents.list).documentation # <<>>
                  /\ Head(Head(manifest.documents.list).documentation).is # "null"
  IN settings.ok =>
       /\ settings.value.maxFiles \in Defaults.maxFiles..Ceiling
       /\ settings.value.lintTimeoutSeconds \in 1..Ceiling
       /\ \A i \in DOMAIN settings.value.styleExclude : NamesAPath(settings.value.styleExclude[i])
       /\ settings.value = Defaults <=> manifest.entry = "none" \/ ~declares
=============================================================================
