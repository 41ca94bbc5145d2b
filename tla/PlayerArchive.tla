--------------------------- MODULE PlayerArchive ----------------------------
(***************************************************************************)
(* tools/figures/astro.mjs: the player archive, from the first request to   *)
(* the files written.  A CheckError ("refused") fails the build; any other  *)
(* error ("failed") leaves the site with static figures.                    *)
(***************************************************************************)
EXTENDS Text, Integers

CONSTANTS MaxRedirects, MaxArchiveBytes, MaxPlayerFiles,
          BlockBytes,       \* 512
          ExpectedFiles     \* sorted

Outcome(is, chunks) == [is |-> is, chunks |-> chunks]

(***************************************************************************)
(* The download.  An answer is a redirect with its location, a body in      *)
(* chunks of some sizes, the last of which may be the connection's end, or a *)
(* failure.                                                                 *)
(***************************************************************************)
RECURSIVE ReadChunksMutShort(_, _, _, _)
ReadChunksMutShort(chunks, read, total, step) ==
  CASE step >= MaxArchiveBytes -> Outcome("refused", <<>>)
    [] read = Len(chunks) -> Outcome("body", chunks)
    [] chunks[read + 1] = <<"lost">> -> Outcome("failed", <<>>)
    [] total + Len(chunks[read + 1]) > MaxArchiveBytes -> Outcome("refused", <<>>)
    [] OTHER -> ReadChunksMutShort(chunks, read + 1, total + Len(chunks[read + 1]), step + 1)

\* readBoundedResponse: at most MaxArchiveBytes + 1 reads, the one that says done among them.
RECURSIVE ReadChunks(_, _, _, _)
ReadChunks(chunks, read, total, step) ==
  CASE step > MaxArchiveBytes -> Outcome("refused", <<>>)
    [] read = Len(chunks) -> Outcome("body", chunks)
    [] chunks[read + 1] = <<"lost">> -> Outcome("failed", <<>>)
    [] total + Len(chunks[read + 1]) > MaxArchiveBytes -> Outcome("refused", <<>>)
    [] OTHER -> ReadChunks(chunks, read + 1, total + Len(chunks[read + 1]), step + 1)
ReadBoundedResponse(answer) ==
  IF answer.declared > MaxArchiveBytes THEN Outcome("refused", <<>>) ELSE ReadChunks(answer.chunks, 0, 0, 0)

\* releaseRedirectUrl: https on an allowed host, every decoded segment of the path a plain one.
ReleaseRedirectUrl(location) == location.trusted /\ \A i \in DOMAIN location.parts : location.parts[i] \notin {"", ".", ".."}

\* downloadPlayerArchive, and the locations it requests after the first.
RECURSIVE DownloadFrom(_, _, _)
DownloadFrom(answers, hop, requested) ==
  LET answer == answers[hop + 1]
      ends(outcome) == [outcome |-> outcome, requested |-> requested]
  IN CASE hop >= Len(answers) \/ answer.is = "failure" -> ends(Outcome("failed", <<>>))
       [] answer.is = "body" -> ends(ReadBoundedResponse(answer))
       [] ~ReleaseRedirectUrl(answer.location) \/ hop = MaxRedirects -> ends(Outcome("refused", <<>>))
       [] OTHER -> DownloadFrom(answers, hop + 1, Append(requested, answer.location))
DownloadPlayerArchive(answers) == DownloadFrom(answers, 0, <<>>)

(***************************************************************************)
(* The archive: a tar file as a sequence of blocks.                        *)
(***************************************************************************)
Malformed == 0 - 1      \* the size of a block that is no header

\* A name in two fields is a path; a member is a regular file, expected, new and of a bounded size.
IsUnsafeMemberName(header) == header.prefix \/ header.name \in {"", ".", ".."}
ValidateArchiveMember(header, seen) ==
  /\ ~IsUnsafeMemberName(header)
  /\ header.regular
  /\ header.name \in Range(ExpectedFiles) \ seen
  /\ header.size <= MaxArchiveBytes

BlocksMutFloor(size) == size \div BlockBytes
Blocks(size) == (size + BlockBytes - 1) \div BlockBytes

\* readTarMembers: up to the first block of zeros where a header is due.
RECURSIVE TarFrom(_, _, _)
TarFrom(tar, at, extracted) ==
  LET header == tar[at]
      data == at + 1
  IN CASE at > Len(tar) \/ header.zero -> [ok |-> TRUE, members |-> extracted]
       [] \/ Len(extracted) >= MaxPlayerFiles
          \/ header.size = Malformed
          \/ BlockBytes * at + header.size > BlockBytes * Len(tar)
          \/ ~ValidateArchiveMember(header, {extracted[i].name : i \in DOMAIN extracted}) -> [ok |-> FALSE, members |-> <<>>]
       [] OTHER -> TarFrom(tar, data + Blocks(header.size),
                           Append(extracted, [name |-> header.name, size |-> header.size,
                                              data |-> SubSeq(tar, data, at + Blocks(header.size))]))
ReadTarMembers(tar, rest) ==
  IF tar = <<>> \/ rest # 0 THEN [ok |-> FALSE, members |-> <<>>] ELSE TarFrom(tar, 1, <<>>)

\* extractPlayerArchive: nothing is written unless the members are the expected files.
ExtractPlayerArchive(bytes, tar, rest) ==
  LET read == ReadTarMembers(tar, rest)
      fits == bytes <= MaxArchiveBytes /\ BlockBytes * Len(tar) + rest <= MaxArchiveBytes * MaxPlayerFiles
  IN IF fits /\ read.ok /\ {read.members[i].name : i \in DOMAIN read.members} = Range(ExpectedFiles)
     THEN {read.members[i] : i \in DOMAIN read.members} ELSE {}

(***************************************************************************)
(* Reference definitions.                                                  *)
(***************************************************************************)
\* The body of the first answer that is no redirect, if it is near enough, reached through allowed
\* locations only, and within the limits however it is cut into chunks; a build goes on without the
\* player only when the network failed and nothing was refused.
TotalBytes(chunks) == FoldLeft(LAMBDA total, chunk : total + Len(chunk), 0, chunks)
DownloadAgrees(answers) ==
  LET hops == Find(answers, 1, LAMBDA answer : answer.is # "redirect") - 1
      allowed == {i \in 1..hops : answers[i].location.trusted /\ ".." \notin Range(answers[i].location.parts)}
      download == DownloadPlayerArchive(answers)
      last == answers[hops + 1]
      sent == SelectSeq(last.chunks, LAMBDA chunk : chunk # <<"lost">>)
      reached == allowed = 1..hops /\ hops <= MaxRedirects
      silent == hops = Len(answers) \/ last.is = "failure"
      bounded == last.declared <= MaxArchiveBytes /\ TotalBytes(sent) <= MaxArchiveBytes /\ Len(sent) <= MaxArchiveBytes
  IN /\ Len(download.requested) <= MaxRedirects
     /\ \A i \in DOMAIN download.requested : i \in allowed /\ download.requested[i] = answers[i].location
     /\ download.outcome.is = "body" <=> reached /\ ~silent /\ bounded /\ sent = last.chunks
     /\ download.outcome.is = "body" => download.outcome.chunks = last.chunks
     /\ download.outcome.is = "failed" <=> reached /\ (silent \/ (bounded /\ sent # last.chunks))

\* The members before the end of the archive are the expected files, each once, or nothing is written.
ArchiveAgrees(bytes, members, rest) ==
  LET tar == FlattenSeq([i \in DOMAIN members |-> members[i].blocks])
      end == Find(members, 1, LAMBDA member : member.is = "zero") - 1
      extracted == ExtractPlayerArchive(bytes, tar, rest)
      good == /\ tar # <<>> /\ rest = 0 /\ bytes <= MaxArchiveBytes
              /\ BlockBytes * Len(tar) <= MaxArchiveBytes * MaxPlayerFiles
              /\ end = Len(ExpectedFiles)
              /\ \A i \in 1..end : members[i].is = "file"
              /\ {Head(members[i].blocks).name : i \in 1..end} = Range(ExpectedFiles)
  IN extracted = IF good THEN {[name |-> Head(members[i].blocks).name, size |-> Head(members[i].blocks).size,
                               data |-> Tail(members[i].blocks)] : i \in 1..end} ELSE {}
=============================================================================
