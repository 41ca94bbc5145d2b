-------------------------------- MODULE Text --------------------------------
(***************************************************************************)
(* Text as a sequence of characters, and the JavaScript string methods the  *)
(* modelled functions use.  Positions count from 1.                         *)
(***************************************************************************)
EXTENDS Naturals, Sequences, FiniteSets, SequencesExt

Absent == 0     \* indexOf's -1

\* text.slice, by position of the first and the last character.
Slice(text, first, last) == SubSeq(text, first, last)
From(text, first) == SubSeq(text, first, Len(text))
At(text, i) == IF i \in DOMAIN text THEN text[i] ELSE "end"

StartsAt(text, part, i) == i + Len(part) - 1 <= Len(text) /\ SubSeq(text, i, i + Len(part) - 1) = part
StartsWith(text, part) == StartsAt(text, part, 1)
EndsWith(text, part) == Len(part) <= Len(text) /\ StartsAt(text, part, Len(text) - Len(part) + 1)

\* text.indexOf(part, from)
IndexOf(text, part, from) ==
  LET at == {i \in from..(Len(text) - Len(part) + 1) : StartsAt(text, part, i)}
  IN IF at = {} THEN Absent ELSE Min(at)
Includes(text, part) == IndexOf(text, part, 1) # Absent

\* The first position from `from` on whose character satisfies the test, Len(text) + 1 if none does.
Find(text, from, test(_)) ==
  LET at == {i \in from..Len(text) : test(text[i])}
  IN IF at = {} THEN Len(text) + 1 ELSE Min(at)

\* The positions 1..n that satisfy a test, in order, and the elements there.
Positions(n, test(_)) == SelectSeq([i \in 1..n |-> i], test)
SelectAt(seq, test(_)) == LET at == Positions(Len(seq), test) IN [k \in DOMAIN at |-> seq[at[k]]]

\* The elements of a sequence, each where it comes first: [...new Set(seq)].
Distinct(seq) == SelectAt(seq, LAMBDA i : \A j \in 1..(i - 1) : seq[j] # seq[i])

\* text.split(separator), for one separating character.
Split(text, separator) ==
  LET cuts == Positions(Len(text), LAMBDA i : text[i] = separator)
      bounds == <<0>> \o cuts \o <<Len(text) + 1>>
  IN [i \in 1..(Len(cuts) + 1) |-> SubSeq(text, bounds[i] + 1, bounds[i + 1] - 1)]

\* parts.join(separator)
JoinWith(parts, separator) ==
  FoldLeft(LAMBDA text, part : IF text = <<"start">> THEN part ELSE text \o separator \o part, <<"start">>, parts)

\* text without the leading and trailing characters of a set.
TrimSet(text, set) ==
  LET kept == {i \in DOMAIN text : text[i] \notin set}
  IN IF kept = {} THEN <<>> ELSE SubSeq(text, Min(kept), Max(kept))

\* The words over an alphabet of at most n characters.
Words(alphabet, n) == UNION {[1..k -> alphabet] : k \in 0..n}
=============================================================================
