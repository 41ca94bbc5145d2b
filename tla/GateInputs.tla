----------------------------- MODULE GateInputs -----------------------------
(***************************************************************************)
(* tools/markdownlint/verify.mjs: what the Markdown gate reads from git and *)
(* from its command line, and how it prints diagnostics.  Bytes are          *)
(* characters, except that "e" is two; an object name is one character.     *)
(***************************************************************************)
EXTENDS LinkResolution

CONSTANTS MaxTrackedEntries, MaxTrackedSymlinks, MaxSymlinkTargetBytes

Bytes(text) == Len(text) + Cardinality({i \in DOMAIN text : text[i] = "e"})

(***************************************************************************)
(* Bounded output.                                                         *)
(***************************************************************************)
\* boundedOutput: whole lines while they fit both bounds.
RECURSIVE OutputScan(_, _, _, _, _, _)
OutputScan(value, cursor, bytes, lines, maxBytes, maxLines) ==
  LET newline == IndexOf(value, <<"\n">>, cursor)
      end == IF newline = Absent THEN Len(value) ELSE newline
      segment == Bytes(Slice(value, cursor, end))
  IN IF cursor > Len(value) \/ lines >= maxLines \/ bytes >= maxBytes \/ bytes + segment > maxBytes
     THEN [output |-> Slice(value, 1, cursor - 1), bytes |-> bytes, lines |-> lines, truncated |-> cursor <= Len(value)]
     ELSE OutputScan(value, end + 1, bytes + segment, lines + 1, maxBytes, maxLines)
BoundedOutputMutLate(value, maxBytes, maxLines) ==
  OutputScan(value, 1, 0, 0, maxBytes + 1, maxLines)
BoundedOutput(value, maxBytes, maxLines) == OutputScan(value, 1, 0, 0, maxBytes, maxLines)

(***************************************************************************)
(* The symlink audit: git ls-files --stage names the links, git cat-file    *)
(* --batch prints their targets, one framed object after another.           *)
(***************************************************************************)
\* parseTrackedSymlinkRecords: a record is well formed or not, and a link or not.
ParseTrackedSymlinkRecords(records) ==
  LET links == SelectSeq(records, LAMBDA r : r.mode = "120000")
  IN [ok |-> /\ Len(records) <= MaxTrackedEntries /\ Len(links) <= MaxTrackedSymlinks
             /\ \A i \in DOMAIN records : records[i].mode # "malformed",
      symlinks |-> links]

Sizes == <<"0", "1", "2", "3", "4", "5">>
SizeOf == [d \in Range(Sizes) |-> CHOOSE n \in 0..5 : Sizes[n + 1] = d]
Unreadable == [ok |-> FALSE, targets |-> <<>>]

\* readSymlinkTargets on the bytes git printed: a header names the object and its size, the content
\* ends with a line feed, and nothing follows the last object.
RECURSIVE TargetScan(_, _, _, _)
TargetScan(stdout, objectIDs, cursor, targets) ==
  LET headerEnd == IndexOf(stdout, <<"\n">>, cursor)
      header == Slice(stdout, cursor, headerEnd - 1)
      size == SizeOf[header[2]]
      end == headerEnd + 1 + size
      bytes == Slice(stdout, headerEnd + 1, end - 1)
  IN CASE objectIDs = <<>> -> [ok |-> cursor = Len(stdout) + 1, targets |-> targets]
       [] headerEnd = Absent -> Unreadable
       [] Len(header) # 2 \/ header[1] # Head(objectIDs) \/ At(header, 2) \notin DOMAIN SizeOf -> Unreadable
       [] size > MaxSymlinkTargetBytes \/ At(stdout, end) # "\n" \/ Includes(bytes, <<"bad">>) -> Unreadable
       [] OTHER -> TargetScan(stdout, Tail(objectIDs), end + 1, Append(targets, bytes))

ReadSymlinkTargets(stdout, objectIDs) ==
  IF objectIDs = <<>> THEN [ok |-> TRUE, targets |-> <<>>] ELSE TargetScan(stdout, objectIDs, 1, <<>>)

\* privateScratchRoot: no line break, and no name left after normalising is a scratch root.
UnsafeTarget(target) == Len(target) > MaxSymlinkTargetBytes \/ Includes(target, <<"\n">>)
PrivateScratchRootMutFirst(target) ==
  LET parts == Normalize(Split(Portable(target), "/"))
  IN parts # <<>> /\ [k \in DOMAIN parts[1] |-> Lower(parts[1][k])] \in ScratchRoots
PrivateScratchRoot(target) ==
  LET parts == Normalize(Split(Portable(target), "/"))
  IN \E i \in DOMAIN parts : [k \in DOMAIN parts[i] |-> Lower(parts[i][k])] \in ScratchRoots

\* The objects the links name, each once, in order; git stores equal targets as one object.
ObjectIDs(symlinks) == Distinct([i \in DOMAIN symlinks |-> symlinks[i].oid])

\* auditTrackedSymlinkTargets: TRUE when the inventory goes on.
AuditTrackedSymlinkTargets(records, stdout) ==
  LET parsed == ParseTrackedSymlinkRecords(records)
      ids == ObjectIDs(parsed.symlinks)
      read == ReadSymlinkTargets(stdout, ids)
  IN parsed.ok /\ read.ok /\ \A i \in DOMAIN read.targets : ~UnsafeTarget(read.targets[i]) /\ ~PrivateScratchRoot(read.targets[i])

(***************************************************************************)
(* The command line.                                                       *)
(***************************************************************************)
\* validChangedSinceRef
RefStart == {"a", "0"}
RefChars == RefStart \cup {".", "/", "^", "-", "lock"}
ValidChangedSinceRefMutEnd(ref) ==
  /\ ref # <<>> /\ ref[1] \in RefStart /\ Range(ref) \subseteq RefChars
  /\ \A part \in {<<".", ".">>, <<"/", "/">>, <<"/", ".">>} : ~Includes(ref, part)
ValidChangedSinceRef(ref) ==
  /\ ref # <<>> /\ ref[1] \in RefStart /\ Range(ref) \subseteq RefChars
  /\ \A part \in {<<".", ".">>, <<"/", "/">>, <<"/", ".">>} : ~Includes(ref, part)
  /\ Last(ref) \notin {"/", "."} /\ ~EndsWith(ref, <<".", "lock">>)

\* gateMode: the words after the script's name; "ref" and "file" stand for other words.
GateMode(args, validRef) ==
  CASE args = <<>> -> "gate"
    [] args = <<"--self-test">> -> "--self-test"
    [] Len(args) = 2 /\ args[1] = "--changed-since" /\ validRef -> "--changed-since"
    [] Len(args) > 1 /\ args[1] = "--only" -> "--only"
    [] OTHER -> "usage"

\* namedStyleFiles: each name, from the working directory, is a styled file; repeats count once.
NamedStyleFiles(styled, named, cwd) ==
  LET relative == [i \in DOMAIN named |-> Normalize(cwd \o named[i])]
  IN IF \A i \in DOMAIN named : relative[i] \in styled
     THEN [ok |-> TRUE, files |-> Distinct(relative)]
     ELSE [ok |-> FALSE, files |-> <<>>]

(***************************************************************************)
(* Lint findings.  A finding has a file, by its place in locale order, a    *)
(* line, a rule and the order the library reported it in.                   *)
(***************************************************************************)
CompareFindingsMutLine(l, r) ==
  \/ l.line < r.line
  \/ l.line = r.line /\ (l.file < r.file \/ (l.file = r.file /\ l.order < r.order))
CompareFindings(l, r) ==
  \/ l.file < r.file
  \/ l.file = r.file /\ l.line < r.line
  \/ l.file = r.file /\ l.line = r.line /\ l.rule < r.rule
  \/ l.file = r.file /\ l.line = r.line /\ l.rule = r.rule /\ l.order < r.order

\* lintChild: the files of one batch, one after the other, then one sort of all findings.
LintChild(files, findings) ==
  LET found == FlattenSeq([i \in DOMAIN files |-> SelectSeq(findings, LAMBDA f : f.file = files[i])])
  IN SortSeq([k \in DOMAIN found |-> [found[k] EXCEPT !.order = k]], CompareFindings)

(***************************************************************************)
(* What these functions must compute.                                      *)
(***************************************************************************)
\* The output kept is the longest run of whole lines within both bounds.
OutputAgrees(value, maxBytes, maxLines) ==
  LET ends == {0, Len(value)} \cup {i \in DOMAIN value : value[i] = "\n"}
      lines(end) == Cardinality({e \in ends : 0 < e /\ e <= end})
      kept == Max({e \in ends : Bytes(SubSeq(value, 1, e)) <= maxBytes /\ lines(e) <= maxLines})
      result == BoundedOutput(value, maxBytes, maxLines)
  IN result = [output |-> SubSeq(value, 1, kept), bytes |-> Bytes(SubSeq(value, 1, kept)), lines |-> lines(kept),
               truncated |-> kept < Len(value)]

\* What git prints for the links of an index: each distinct target once, framed.
CatFile(symlinks) ==
  LET ids == ObjectIDs(symlinks)
      target(id) == symlinks[CHOOSE i \in DOMAIN symlinks : symlinks[i].oid = id].target
  IN FlattenSeq([k \in DOMAIN ids |-> <<ids[k], Sizes[Len(target(ids[k])) + 1], "\n">> \o target(ids[k]) \o <<"\n">>])

\* The audit passes exactly when no tracked link leads through a scratch directory and every target
\* is readable; an answer of git cut short or with bytes after it never passes.
SymlinksAgree(records) ==
  LET links == SelectSeq(records, LAMBDA r : r.mode = "120000")
      stdout == CatFile(links)
      names(target) == SelectSeq(Split([i \in DOMAIN target |-> IF target[i] = "\\" THEN "/" ELSE Lower(target[i])], "/"),
                                 LAMBDA name : name # <<>>)
      safe(target) == /\ Len(target) <= MaxSymlinkTargetBytes /\ Range(target) \cap {"\n", "bad"} = {}
                      /\ \A i \in DOMAIN names(target) : names(target)[i] \in ScratchRoots => ~Stays(names(target), i)
  IN /\ AuditTrackedSymlinkTargets(records, stdout) <=>
          /\ Len(records) <= MaxTrackedEntries /\ Len(links) <= MaxTrackedSymlinks
          /\ \A i \in DOMAIN records : records[i].mode # "malformed"
          /\ \A i \in DOMAIN links : safe(links[i].target)
     /\ links # <<>> =>
          /\ \A n \in 0..(Len(stdout) - 1) : ~AuditTrackedSymlinkTargets(records, SubSeq(stdout, 1, n))
          /\ \A c \in {"a", "\n"} : ~AuditTrackedSymlinkTargets(records, Append(stdout, c))

\* A ref the gate accepts is no option, and ref...HEAD has the one separator git looks for.
RefAgrees(ref) ==
  GateMode(<<"--changed-since", "ref">>, ValidChangedSinceRef(ref)) = "--changed-since" =>
    LET range == ref \o <<".", ".", ".", "H">>
    IN ref[1] # "-" /\ IndexOf(range, <<".", ".">>, 1) = Len(ref) + 1

\* Each batch prints its files' findings file by file, by line and rule, ties in the library's
\* order, and cutting the files into two batches changes no file's report.
LintAgrees(files, findings) ==
  LET before(j, k) == \/ findings[j].line < findings[k].line
                      \/ findings[j].line = findings[k].line /\ findings[j].rule < findings[k].rule
                      \/ findings[j].line = findings[k].line /\ findings[j].rule = findings[k].rule /\ j < k
      report(f) == SortSeq(Positions(Len(findings), LAMBDA k : findings[k].file = f), before)
      printed(cut) == LintChild(SubSeq(files, 1, cut), findings) \o LintChild(SubSeq(files, cut + 1, Len(files)), findings)
      of(lines, f) == SelectSeq(lines, LAMBDA l : l.file = f)
  IN \A cut \in 0..Len(files), i \in DOMAIN files :
       /\ [k \in DOMAIN of(printed(cut), files[i]) |-> of(printed(cut), files[i])[k].id] = report(files[i])
       /\ \A j, k, l \in DOMAIN printed(cut) :
            j < k /\ k < l /\ printed(cut)[j].file = printed(cut)[l].file => printed(cut)[k].file = printed(cut)[j].file

\* --only lints each named file once and only styled ones, however a name is spelled.
OnlyAgrees(styled, named, cwd) ==
  LET walk(i) == LET all == cwd \o named[i]
                 IN IF Leaves(all) THEN <<<<".", ".">>>> ELSE SelectAt(all, LAMBDA k : Stays(all, k))
      result == NamedStyleFiles(styled, named, cwd)
  IN /\ result.ok <=> \A i \in DOMAIN named : walk(i) \in styled
     /\ result.ok => /\ Range(result.files) = {walk(i) : i \in DOMAIN named}
                     /\ Cardinality(Range(result.files)) = Len(result.files)
=============================================================================
