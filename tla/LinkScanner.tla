---------------------------- MODULE LinkScanner -----------------------------
(***************************************************************************)
(* tools/markdownlint/no-private-scratch-links.mjs: the scanners that read  *)
(* link destinations out of embedded text: CSS (url(), image-set() strings  *)
(* and @import), srcset, space-separated lists, meta refresh and Markdown    *)
(* attribute lists.  A token name such as url or href is one character of   *)
(* the model.  An exception of the code is a result with ok = FALSE.        *)
(***************************************************************************)
EXTENDS Text, Integers

CONSTANTS CodePoint(_),            \* the character of a run of hex digits, "?" for none
          MaxCSSTokens,            \* MAX_CSS_TOKENS
          MaxCSSDepth,             \* MAX_CSS_DEPTH
          MaxSrcsetCandidates,     \* MAX_SRCSET_CANDIDATES
          MaxEvents                \* MAX_EVENTS, the destinations of one file

Blank == {" ", "\n"}
Quotes == {"'", "\""}
Digits == {"0", "7"}
NameChars == Digits \cup {"a", "b", "i", "m", "u", "r", "l"}
URLAttributes == {<<"h">>, <<"p">>}      \* HTML_URL_ATTRIBUTES: href, ping
SrcsetAttributes == {<<"s">>}            \* HTML_SRCSET_ATTRIBUTES
ListAttributes == {<<"p">>}              \* HTML_SPACE_SEPARATED_URL_ATTRIBUTES
CSSAttributes == {<<"c">>}               \* style and HTML_CSS_URL_ATTRIBUTES

IsHTMLSpace(c) == c \in Blank
IsCSSHex(c) == c \in Digits
IsCSSName(c) == c \in NameChars
SkipHTMLSpace(value, i) == Find(value, i, LAMBDA c : c \notin Blank)

(***************************************************************************)
(* CSS tokens.  Each reader returns where it stopped and, in spent, the     *)
(* tokens it charged to the budget.                                         *)
(***************************************************************************)
\* consumeCSSEscape: a line continuation, a literal character, or one to six hex digits and a blank.
ConsumeCSSEscape(value, i) ==
  LET c == At(value, i + 1)
      stop == Find(value, i + 1, LAMBDA d : ~IsCSSHex(d))
      end == IF stop > i + 7 THEN i + 7 ELSE stop
  IN CASE c = "end" -> [decoded |-> <<"?">>, position |-> i + 1]
       [] c = "\n" -> [decoded |-> <<>>, position |-> i + 2]
       [] IsCSSHex(c) -> [decoded |-> <<CodePoint(Slice(value, i + 1, end - 1))>>,
                          position |-> IF IsHTMLSpace(At(value, end)) THEN end + 1 ELSE end]
       [] OTHER -> [decoded |-> <<c>>, position |-> i + 2]

\* The characters and escapes from i on, up to the first character of the set.
RECURSIVE Escaped(_, _, _, _)
Escaped(value, i, decoded, stops) ==
  LET escape == ConsumeCSSEscape(value, i)
  IN CASE At(value, i) = "\\" -> Escaped(value, escape.position, decoded \o escape.decoded, stops)
       [] At(value, i) \in stops \cup {"end"} -> [decoded |-> decoded, position |-> i]
       [] OTHER -> Escaped(value, i + 1, Append(decoded, value[i]), stops)

ConsumeCSSName(value, i) == Escaped(value, i, <<>>, Range(value) \ NameChars)

ConsumeCSSComment(value, i) ==
  LET close == IndexOf(value, <<"*", "/">>, i + 2)
  IN IF close = Absent THEN Len(value) + 1 ELSE close + 2

\* consumeCSSString: valid when the closing quote comes before a line break.
ConsumeCSSString(value, i) ==
  LET body == Escaped(value, i + 1, <<>>, {value[i], "\n"})
      closed == At(value, body.position) = value[i]
  IN [decoded |-> body.decoded, valid |-> closed, position |-> IF closed THEN body.position + 1 ELSE body.position]

OpensComment(value, i) == StartsAt(value, <<"/", "*">>, i)

RECURSIVE SkipCSSSpaceAndComments(_, _, _)
SkipCSSSpaceAndComments(value, i, spent) ==
  CASE IsHTMLSpace(At(value, i)) -> SkipCSSSpaceAndComments(value, i + 1, spent)
    [] OpensComment(value, i) -> SkipCSSSpaceAndComments(value, ConsumeCSSComment(value, i), spent + 1)
    [] OTHER -> [position |-> i, spent |-> spent]

\* The body of an unquoted url(); comments inside it are dropped.
RECURSIVE BareURL(_, _, _, _)
BareURL(value, i, decoded, spent) ==
  LET escape == ConsumeCSSEscape(value, i)
      rest == SkipCSSSpaceAndComments(value, i, spent)
      c == At(value, i)
  IN CASE c \in Blank \cup {")", "end"} ->
            [destination |-> decoded, spent |-> rest.spent,
             position |-> IF At(value, rest.position) = ")" THEN rest.position + 1 ELSE rest.position]
       [] c \in Quotes \cup {"("} -> [destination |-> <<>>, spent |-> spent, position |-> i + 1]
       [] OpensComment(value, i) -> BareURL(value, ConsumeCSSComment(value, i), decoded, spent + 1)
       [] c = "\\" -> BareURL(value, escape.position, decoded \o escape.decoded, spent)
       [] OTHER -> BareURL(value, i + 1, Append(decoded, c), spent)

\* consumeCSSURL: the argument of url( ), quoted or bare; <<>> for none.
ConsumeCSSURL(value, i) ==
  LET start == SkipCSSSpaceAndComments(value, i, 0)
      quoted == ConsumeCSSString(value, start.position)
      end == SkipCSSSpaceAndComments(value, quoted.position, start.spent)
  IN IF At(value, start.position) \notin Quotes THEN BareURL(value, start.position, <<>>, start.spent)
     ELSE [destination |-> IF quoted.valid THEN quoted.decoded ELSE <<>>, spent |-> end.spent,
           position |-> IF At(value, end.position) = ")" THEN end.position + 1 ELSE end.position]

(***************************************************************************)
(* The CSS scan: the destinations found, the open nesting depth, the depths *)
(* an image-set() opened, the tokens spent, and whether it still goes on.   *)
(***************************************************************************)
Adding(scan, destination) == IF destination = <<>> THEN scan ELSE [scan EXCEPT !.found = Append(@, destination)]
Spending(scan, n) == [scan EXCEPT !.spent = @ + n, !.ok = @ /\ scan.spent + n <= MaxCSSTokens]
Moved(scan, i) == [scan EXCEPT !.position = i]

CSSQuotedDestination(scan, value, i) ==
  LET quoted == ConsumeCSSString(value, i)
      inSet == quoted.valid /\ scan.depth \in scan.imageSetDepths
  IN Moved(Spending(IF inSet THEN Adding(scan, quoted.decoded) ELSE scan, 1), quoted.position)

\* cssImportDestination: the string of an @import at the top level.
CSSImportDestination(scan, value, i) ==
  LET name == ConsumeCSSName(value, i + 1)
      next == SkipCSSSpaceAndComments(value, name.position, 1)
      imported == ConsumeCSSString(value, next.position)
  IN IF name.decoded = <<"m">> /\ At(value, next.position) \in Quotes
     THEN Moved(Spending(IF imported.valid THEN Adding(scan, imported.decoded) ELSE scan, next.spent + 1), imported.position)
     ELSE Moved(Spending(scan, next.spent), next.position)

RECURSIVE AfterComments(_, _, _)
AfterComments(value, i, spent) ==
  IF OpensComment(value, i) THEN AfterComments(value, ConsumeCSSComment(value, i), spent + 1)
  ELSE [position |-> i, spent |-> spent]

\* cssNamedToken: an identifier, and the function a parenthesis after it opens.
CSSNamedToken(scan, value, i) ==
  LET name == ConsumeCSSName(value, i)
      after == AfterComments(value, name.position, 1)
      paid == Spending(scan, after.spent)
      url == ConsumeCSSURL(value, after.position + 1)
      depth == scan.depth + 1
  IN CASE At(value, after.position) # "(" -> Moved(paid, after.position)
       [] depth > MaxCSSDepth -> [paid EXCEPT !.ok = FALSE]
       [] name.decoded = <<"u">> -> Moved(Spending(Adding(paid, url.destination), url.spent), url.position)
       [] OTHER -> Moved([paid EXCEPT !.depth = depth,
                            !.imageSetDepths = IF name.decoded = <<"i">> THEN @ \cup {depth} ELSE @], after.position + 1)

CSSBracketMutKeepsSet(scan, c) ==
  CASE c \in {"(", "[", "{"} -> [scan EXCEPT !.depth = @ + 1, !.ok = @ /\ scan.depth + 1 <= MaxCSSDepth]
    [] c \in {")", "]", "}"} /\ scan.depth > 0 -> [scan EXCEPT !.depth = @ - 1]
    [] OTHER -> scan

\* cssBracket: only a round bracket ends an image-set().
CSSBracket(scan, c) ==
  CASE c \in {"(", "[", "{"} -> [scan EXCEPT !.depth = @ + 1, !.ok = @ /\ scan.depth + 1 <= MaxCSSDepth]
    [] c \in {")", "]", "}"} /\ scan.depth > 0 ->
         [scan EXCEPT !.depth = @ - 1, !.imageSetDepths = IF c = ")" THEN @ \ {scan.depth} ELSE @]
    [] OTHER -> scan

CSSStep(scan, value, i, allowImport) ==
  LET c == value[i]
      named(n) == IsCSSName(At(value, n)) \/ At(value, n) = "\\"
  IN CASE IsHTMLSpace(c) -> Moved(scan, i + 1)
       [] OpensComment(value, i) -> Moved(Spending(scan, 1), ConsumeCSSComment(value, i))
       [] c \in Quotes -> CSSQuotedDestination(scan, value, i)
       [] c = "@" /\ allowImport /\ scan.depth = 0 /\ named(i + 1) -> CSSImportDestination(scan, value, i)
       [] named(i) -> CSSNamedToken(scan, value, i)
       [] OTHER -> Moved(CSSBracket(Spending(scan, 1), c), i + 1)

RECURSIVE CSSScan(_, _, _)
CSSScan(scan, value, allowImport) ==
  IF ~scan.ok \/ scan.position > Len(value) THEN scan
  ELSE CSSScan(CSSStep(scan, value, scan.position, allowImport), value, allowImport)

CSSDestinations(value, allowImport, spent) ==
  CSSScan([found |-> <<>>, imageSetDepths |-> {}, depth |-> 0, spent |-> spent, position |-> 1, ok |-> TRUE], value, allowImport)

(***************************************************************************)
(* Attribute values that list destinations.                                *)
(***************************************************************************)
\* srcsetDestinations: a comma ends a candidate, but not inside a data: URL ("D"); the rest of a
\* candidate up to the next comma is its descriptor.
RECURSIVE SrcsetScan(_, _, _)
SrcsetScan(value, i, found) ==
  LET start == Find(value, i, LAMBDA c : c \notin Blank \cup {","})
      data == At(value, start) = "D"
      end == Find(value, start, LAMBDA c : c \in Blank \/ (~data /\ c = ","))
      next == Find(value, end, LAMBDA c : c = ",")
      more == IF end > start THEN Append(found, Slice(value, start, end - 1)) ELSE found
  IN IF i > Len(value) \/ Len(found) > MaxSrcsetCandidates THEN found
     ELSE SrcsetScan(value, IF At(value, end) = "," THEN end + 1 ELSE next, more)
SrcsetDestinations(value) ==
  LET found == SrcsetScan(value, 1, <<>>) IN [ok |-> Len(found) <= MaxSrcsetCandidates, found |-> found]

RECURSIVE SpaceScan(_, _, _, _)
SpaceScan(value, i, limit, found) ==
  LET start == SkipHTMLSpace(value, i)
      end == Find(value, start, IsHTMLSpace)
  IN IF i > Len(value) \/ Len(found) > limit THEN found
     ELSE SpaceScan(value, end, limit, IF end > start THEN Append(found, Slice(value, start, end - 1)) ELSE found)
SpaceSeparatedDestinations(value, limit) ==
  LET found == SpaceScan(value, 1, limit, <<>>) IN [ok |-> Len(found) <= limit, found |-> found]

HTMLAttributeDestinations(name, value, limit) ==
  CASE name \in SrcsetAttributes -> SrcsetDestinations(value)
    [] name \in ListAttributes -> SpaceSeparatedDestinations(value, limit)
    [] OTHER -> [ok |-> TRUE, found |-> <<value>>]

\* The target of a refresh, up to the closing quote if it opens one.
Unquoted(value, i) ==
  LET close == IndexOf(value, <<value[i]>>, i + 1)
  IN IF At(value, i) \notin Quotes THEN From(value, i)
     ELSE IF close = Absent THEN From(value, i + 1) ELSE Slice(value, i + 1, close - 1)

\* metaRefreshDestination: a time, a separator, then url= and a quote, each optional.
MetaRefreshDestination(value) ==
  LET time == SkipHTMLSpace(value, 1)
      afterTime == Find(value, time, LAMBDA c : c \notin Digits \cup {"."})
      separator == SkipHTMLSpace(value, afterTime)
      start == SkipHTMLSpace(value, IF At(value, separator) \in {";", ","} THEN separator + 1 ELSE separator)
      equals == SkipHTMLSpace(value, start + 3)
      target == SkipHTMLSpace(value, equals + 1)
  IN CASE \/ At(value, time) \notin Digits \cup {"."}
          \/ At(value, afterTime) \notin Blank \cup {";", ","}
          \/ start > Len(value) -> <<>>
       [] At(value, start) # "u" -> Unquoted(value, start)
       [] ~StartsAt(value, <<"u", "r", "l">>, start) \/ At(value, equals) # "=" -> From(value, start)
       [] OTHER -> Unquoted(value, target)

(***************************************************************************)
(* The destinations of a file: an accumulator of what was found with line   *)
(* and context, and of the CSS tokens spent so far.                         *)
(***************************************************************************)
Nothing == [ok |-> TRUE, found |-> <<>>, spent |-> 0]

\* appendHTMLDestination, for each destination of a list.
AppendHTMLDestinations(acc, destinations, line, context) ==
  [acc EXCEPT !.found = @ \o [i \in DOMAIN destinations |->
                                [destination |-> destinations[i], line |-> line, context |-> context]],
              !.ok = @ /\ Len(acc.found) + Len(destinations) <= MaxEvents]

\* The value of an attribute that holds URLs or CSS.
AppendValue(acc, name, value, line) ==
  LET list == HTMLAttributeDestinations(name, value, MaxEvents - Len(acc.found))
      css == CSSDestinations(value, FALSE, acc.spent)
      appended == AppendHTMLDestinations(acc, IF name \in CSSAttributes THEN css.found ELSE list.found, line, "html")
  IN CASE name \in URLAttributes \cup SrcsetAttributes -> [appended EXCEPT !.ok = @ /\ list.ok]
       [] name \in CSSAttributes -> [appended EXCEPT !.ok = @ /\ css.ok, !.spent = css.spent]
       [] OTHER -> acc

\* markdownDestinationString: backslash escapes of punctuation when asked for, then character
\* references; "&" stands for the reference to a slash.  "s" and the triplets begin with punctuation.
Punctuation == {"'", "\"", "\\", "{", "}", "(", ")", "/", "&", ".", "=", ":", "#", "?", ",", ";", "s", "S", "E", "F", "G"}
MarkdownDestinationString(value, markdownEscapes) ==
  LET drops(i) == /\ markdownEscapes /\ value[i] = "\\" /\ At(value, i + 1) \in Punctuation
                  /\ ~\E n \in 1..(i - 1) : n % 2 = 1 /\ \A k \in (i - n)..(i - 1) : value[k] = "\\"
                                          /\ (i - n = 1 \/ value[i - n - 1] # "\\")
      kept == SelectAt(value, LAMBDA i : ~drops(i))
  IN [k \in DOMAIN kept |-> IF kept[k] = "&" THEN "/" ELSE kept[k]]

(***************************************************************************)
(* Markdown attribute lists: { #id .class name=value name="value" }.        *)
(***************************************************************************)
IsEscaped(value, i) ==
  \E n \in 1..(i - 1) : /\ n % 2 = 1 /\ \A k \in (i - n)..(i - 1) : value[k] = "\\"
                       /\ At(value, i - n - 1) # "\\"

\* attributeListEnd: the first brace outside quotes, before end.
RECURSIVE AttributeListEnd(_, _, _, _)
AttributeListEnd(value, i, end, quote) ==
  CASE i >= end -> Absent
    [] quote # "none" -> AttributeListEnd(value, i + 1, end, IF value[i] = quote /\ ~IsEscaped(value, i) THEN "none" ELSE quote)
    [] value[i] \in Quotes -> AttributeListEnd(value, i + 1, end, value[i])
    [] value[i] = "}" -> i
    [] OTHER -> AttributeListEnd(value, i + 1, end, "none")

AppendAttributeValue(acc, name, value, line) == AppendValue(acc, name, MarkdownDestinationString(value, TRUE), line)

\* collectAttributeListBody: the attributes between i and end.  A word without = also takes the
\* word after it.
RECURSIVE CollectAttributeListBody(_, _, _, _, _)
CollectAttributeListBody(acc, value, i, end, line) ==
  LET upTo(n) == IF n > end THEN end ELSE n
      skip(n) == upTo(SkipHTMLSpace(value, n))
      word(n) == upTo(Find(value, n, IsHTMLSpace))
      start == skip(i)
      nameEnd == upTo(Find(value, start, LAMBDA c : c \in Blank \cup {"="}))
      equals == skip(nameEnd)
      open == skip(equals + 1)
      quoted == value[open] \in Quotes
      first == IF quoted THEN open + 1 ELSE open
      last == IF quoted THEN upTo(Find(value, first, LAMBDA c : c = value[open])) ELSE word(first)
      valued == AppendAttributeValue(acc, Slice(value, start, nameEnd - 1), Slice(value, first, last - 1), line)
  IN CASE i >= end -> acc
       [] value[start] \in {"#", "."} -> CollectAttributeListBody(acc, value, word(start), end, line)
       [] value[equals] # "=" -> CollectAttributeListBody(acc, value, word(equals), end, line)
       [] OTHER -> CollectAttributeListBody(valued, value, IF quoted THEN upTo(last + 1) ELSE last, end, line)

NewlinesMutList(text, first, last) ==
  IF At(text, first) = "{" THEN 0 ELSE Cardinality({i \in first..last : text[i] = "\n"})
Newlines(text, first, last) == Cardinality({i \in first..last : text[i] = "\n"})

\* collectAttributeLists: every list of a text that is closed and not escaped, with its line.
RECURSIVE CollectAttributeLists(_, _, _, _, _)
CollectAttributeLists(acc, markdown, i, end, line) ==
  LET open == IndexOf(markdown, <<"{">>, i)
      here == line + Newlines(markdown, i, open - 1)
      close == IF IsEscaped(markdown, open) THEN Absent ELSE AttributeListEnd(markdown, open + 1, end, "none")
      body == IF markdown[open + 1] = ":" THEN open + 2 ELSE open + 1
  IN IF open = Absent \/ open >= end THEN acc
     ELSE IF close = Absent THEN CollectAttributeLists(acc, markdown, open + 1, end, here)
     ELSE CollectAttributeLists(CollectAttributeListBody(acc, markdown, body, close, here), markdown,
                                close + 1, end, here + Newlines(markdown, open, close))

(***************************************************************************)
(* What the scanners must find, by construction of the text: a text is put  *)
(* together from pieces whose destinations are known.                       *)
(***************************************************************************)
Texts(pieces) == FlattenSeq([i \in DOMAIN pieces |-> pieces[i].text])

\* A piece of CSS: the bracket it opens or closes, a url() or @import destination, a string.
CSSPiece(text, opens, closes, url, string, import) ==
  [text |-> text, opens |-> opens, closes |-> closes, url |-> url, string |-> string, import |-> import]
Opening == [i |-> ")", f |-> ")", round |-> ")", curly |-> "}"]

\* The brackets open before piece k, innermost last.
OpenBefore(pieces, k) ==
  FoldLeft(LAMBDA open, piece : IF piece.opens # "none" THEN Append(open, piece.opens)
                                ELSE IF piece.closes # "none" /\ open # <<>> THEN Front(open) ELSE open,
           <<>>, SubSeq(pieces, 1, k - 1))
Nested(pieces) ==
  \A k \in DOMAIN pieces : pieces[k].closes # "none" =>
    OpenBefore(pieces, k) # <<>> /\ Opening[Last(OpenBefore(pieces, k))] = pieces[k].closes
TooDeep(pieces) ==
  \E k \in DOMAIN pieces : Len(OpenBefore(pieces, k)) >= MaxCSSDepth /\ (pieces[k].opens # "none" \/ pieces[k].url # <<>>)

\* A url() is a destination anywhere, a string directly inside image-set(), and the string of
\* @import outside every bracket.
PieceDestinations(pieces, k, allowImport) ==
  LET open == OpenBefore(pieces, k)
      inImageSet == open # <<>> /\ Last(open) = "i"
  IN SelectSeq(<<pieces[k].url, IF inImageSet THEN pieces[k].string ELSE <<>>,
                 IF inImageSet \/ (allowImport /\ open = <<>>) THEN pieces[k].import ELSE <<>> >>, LAMBDA d : d # <<>>)

\* The CSS scan finds exactly those, whatever their spelling, or refuses a text past its bounds.
CSSAgrees(pieces, allowImport) ==
  LET scan == CSSDestinations(Texts(pieces), allowImport, 0)
  IN Nested(pieces) =>
       /\ scan.ok => scan.found = FlattenSeq([k \in DOMAIN pieces |-> PieceDestinations(pieces, k, allowImport)])
       /\ TooDeep(pieces) \/ Len(pieces) > MaxCSSTokens => ~scan.ok
       /\ ~scan.ok => TooDeep(pieces) \/ scan.spent > MaxCSSTokens

\* The destinations of attribute lists, each with the line its list opens on; a piece is a text and
\* the destinations of the list it opens with.
AttributeListsAgree(pieces) ==
  LET text == Texts(pieces)
      scan == CollectAttributeLists(Nothing, text, 1, Len(text) + 1, 1)
      line(k) == LET before == Texts(SubSeq(pieces, 1, k - 1)) IN 1 + Cardinality({i \in DOMAIN before : before[i] = "\n"})
      expected == FlattenSeq([k \in DOMAIN pieces |-> [i \in DOMAIN pieces[k].found |->
                    [destination |-> pieces[k].found[i], line |-> line(k), context |-> "html"]]])
  IN IF Len(expected) <= MaxEvents THEN scan.ok => scan.found = expected ELSE ~scan.ok

\* The URLs of srcset candidates, or a refusal when there are more than the bound.
SrcsetAgrees(pieces) ==
  LET found == FlattenSeq([k \in DOMAIN pieces |-> pieces[k].found])
  IN SrcsetDestinations(Texts(pieces)) =
       [ok |-> Len(found) <= MaxSrcsetCandidates, found |-> SubSeq(found, 1, IF Len(found) > MaxSrcsetCandidates
                                                                            THEN MaxSrcsetCandidates + 1 ELSE Len(found))]

\* The target of a refresh is read whatever the spaces, the separator and the quotes around it; the
\* pieces are a time, a separator, url= and a target.
RefreshAgrees(pieces) ==
  Len(pieces) = 4 =>
    MetaRefreshDestination(Texts(pieces)) =
      IF pieces[1].text = <<>> \/ pieces[2].text = <<>> THEN <<>> ELSE pieces[4].found
=============================================================================
