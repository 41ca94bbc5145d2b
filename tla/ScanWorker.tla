----------------------------- MODULE ScanWorker -----------------------------
(***************************************************************************)
(* The private-link rule of tools/markdownlint/no-private-scratch-links.mjs *)
(* run over an inventory: the main thread asks one worker thread for one    *)
(* file at a time (class ScanWorker, reportFindings) and the worker answers,*)
(* dies, or misses the deadline.                                            *)
(*                                                                          *)
(* One main-thread action is one event-loop callback together with the      *)
(* promise continuations it releases: nothing runs between a settled scan   *)
(* and the next scan() or close() call.  Events of the worker reach the     *)
(* main thread in the order they were posted, 'exit' last.                  *)
(***************************************************************************)
EXTENDS Naturals, Sequences

CONSTANTS Files,          \* repository paths
          MAX_FINDINGS,   \* diagnostics one run may print
          MAX_FILES       \* entries an inventory may have

ASSUME ScanConstants == MAX_FINDINGS \in Nat \ {0} /\ MAX_FILES \in Nat

VARIABLES
  files,        \* the inventory, a sequence of paths
  found,        \* the forbidden destinations each path's text holds
  main,         \* where the main thread waits
  pending,      \* #pending: the inventory position in flight, 0 for null
  retired,      \* #retired
  stopFailure,  \* #stopFailure: "null", "pending" or "error"
  stopping,     \* worker.terminate() was called
  gone,         \* the worker's 'exit' event was delivered
  emitted,      \* reportFindings: diagnostics printed so far
  shown,        \* history: diagnostics printed for each inventory position
  verdict,      \* what reportFindings returned: 0, 1, 2, 3 when it threw, 4 before
  exitCode,     \* the process's exit status; 3 while it runs
  request,      \* messages to the worker
  worker,       \* "starting", "idle", "scanning" or "dead"
  job,          \* the request the worker last took
  events,       \* messages, errors and the exit on their way to the main thread
  blame         \* history: <<position an event settled, position it is about>>

scanVars == <<files, found, main, pending, retired, stopFailure, stopping, gone, emitted,
              shown, verdict, exitCode, request, worker, job, events, blame>>
mainVars == <<files, found, main, pending, retired, stopFailure, stopping, gone, emitted,
              shown, verdict, exitCode, request, blame>>

THREW == 3
OPEN == 4
NoJob == [source |-> 0, limit |-> 0]
AtMost(n, bound) == IF n <= bound THEN n ELSE bound

(***************************************************************************)
(* Main thread: the ends of withScanWorker.                                *)
(***************************************************************************)
\* The process ends: a thrown error and a worker that would not stop are status 2.
ExitStatus(v, failure) == IF v = THREW \/ failure = "error" THEN 2 ELSE v

TerminateMutNoCall(v, isGone, failure) ==
  IF isGone
  THEN main' = "exited" /\ exitCode' = ExitStatus(v, failure) /\ UNCHANGED stopping
  ELSE main' = "terminating" /\ UNCHANGED <<stopping, exitCode>>
\* The second half of close(): the awaited terminate().  A worker whose exit was delivered
\* resolves it at once; otherwise close() waits for the exit.
Terminate(v, isGone, failure) ==
  IF isGone
  THEN main' = "exited" /\ exitCode' = ExitStatus(v, failure) /\ UNCHANGED stopping
  ELSE main' = "terminating" /\ stopping' = TRUE /\ UNCHANGED exitCode

\* close() when no deadline stop is outstanding.
Close(v, isGone) == verdict' = v /\ Terminate(v, isGone, "null") /\ UNCHANGED stopFailure

\* scan(): one request, with its timer, in flight.  Its refusals of a retired worker and of a
\* second request never fire: reportFindings scans again only from a reply, and leaves on a failure.
Scan(i, limit) ==
  /\ main' = "await"
  /\ pending' = i
  /\ request' = Append(request, [source |-> i, limit |-> limit])
  /\ UNCHANGED <<verdict, exitCode, stopping, stopFailure>>

NextFileMutNoSpare(i, n) ==
  IF i > Len(files)
  THEN Close(IF n = 0 THEN 0 ELSE 1, FALSE) /\ pending' = 0 /\ UNCHANGED request
  ELSE Scan(i, MAX_FINDINGS - n)
\* The head of reportFindings' loop at index i after n diagnostics.
NextFile(i, n) ==
  IF i > Len(files)
  THEN Close(IF n = 0 THEN 0 ELSE 1, FALSE) /\ pending' = 0 /\ UNCHANGED request
  ELSE Scan(i, MAX_FINDINGS - n + 1)

\* A rejected scan leaves reportFindings, and close() runs.
Reject(isGone) == pending' = 0 /\ Close(THREW, isGone) /\ UNCHANGED <<request, emitted, shown>>

\* capFindings and the loop body for a file with count findings.
Report(count) ==
  LET remaining == MAX_FINDINGS - emitted
      n == AtMost(count, remaining)
  IN /\ emitted' = emitted + n
     /\ shown' = [shown EXCEPT ![pending] = n]
     /\ IF count > remaining
        THEN pending' = 0 /\ Close(2, FALSE) /\ UNCHANGED request
        ELSE NextFile(pending + 1, emitted + n)

(***************************************************************************)
(* Main thread: its callbacks.                                             *)
(***************************************************************************)
\* runFileList, validateFileList and the first turn of withScanWorker.
Start ==
  /\ main = "start"
  /\ IF Len(files) > MAX_FILES
     THEN main' = "exited" /\ exitCode' = 2 /\ verdict' = THREW /\ worker' = "dead"
          /\ UNCHANGED <<pending, request, stopping, stopFailure>>
     ELSE NextFile(1, 0) /\ UNCHANGED worker
  /\ UNCHANGED <<files, found, retired, gone, emitted, shown, job, events, blame>>

\* The 'message' listener; #settle drops a reply nobody waits for.
OnMessage ==
  /\ events # <<>> /\ Head(events).kind = "message"
  /\ events' = Tail(events)
  /\ IF pending = 0
     THEN UNCHANGED <<main, pending, request, stopping, stopFailure, emitted, shown, verdict, exitCode, blame>>
     ELSE /\ blame' = blame \cup {<<pending, Head(events).source>>}
          /\ IF Head(events).ok THEN Report(Head(events).count) ELSE Reject(FALSE)
  /\ UNCHANGED <<files, found, retired, gone, worker, job>>

\* The 'error' listener: the worker threw or ran out of heap.
OnError ==
  /\ events # <<>> /\ Head(events).kind = "error"
  /\ events' = Tail(events)
  /\ IF pending = 0
     THEN UNCHANGED <<main, pending, request, stopping, stopFailure, emitted, shown, verdict, exitCode, blame>>
     ELSE blame' = blame \cup {<<pending, Head(events).source>>} /\ Reject(FALSE)
  /\ UNCHANGED <<files, found, retired, gone, worker, job>>

\* The 'exit' listener, and the terminate() promises the exit resolves.
OnExit ==
  /\ events # <<>> /\ Head(events).kind = "exit"
  /\ events' = Tail(events)
  /\ retired' = TRUE /\ gone' = TRUE
  /\ IF pending # 0
     THEN blame' = blame \cup {<<pending, Head(events).source>>} /\ Reject(TRUE)
     ELSE /\ IF main \in {"stopping", "terminating"}
             THEN main' = "exited" /\ exitCode' = ExitStatus(verdict, stopFailure)
             ELSE UNCHANGED <<main, exitCode>>
          /\ stopFailure' = IF stopFailure = "pending" THEN "null" ELSE stopFailure
          /\ UNCHANGED <<pending, request, stopping, emitted, shown, verdict, blame>>
  /\ UNCHANGED <<files, found, worker, job>>

ExpireMutRetries ==
  /\ pending # 0
  /\ NextFile(pending, emitted)
  /\ UNCHANGED <<files, found, retired, gone, emitted, shown, worker, job, events, blame>>
ExpireMutFirstOnly ==
  /\ pending = 1
  /\ retired' = TRUE
  /\ pending' = 0
  /\ stopFailure' = "pending" /\ stopping' = TRUE
  /\ verdict' = THREW /\ main' = "stopping"
  /\ UNCHANGED <<files, found, gone, emitted, shown, exitCode, request, worker, job, events, blame>>
\* #expire: the scan's timer fires, and close() waits for the stop it started.
Expire ==
  /\ pending # 0
  /\ retired' = TRUE
  /\ pending' = 0
  /\ stopFailure' = "pending" /\ stopping' = TRUE
  /\ verdict' = THREW /\ main' = "stopping"
  /\ UNCHANGED <<files, found, gone, emitted, shown, exitCode, request, worker, job, events, blame>>

\* The terminate() of #expire rejects: close() keeps the failure and calls terminate() again.
StopRejects ==
  /\ main = "stopping" /\ stopFailure = "pending"
  /\ stopFailure' = "error"
  /\ Terminate(verdict, gone, "error")
  /\ UNCHANGED <<files, found, pending, retired, gone, emitted, shown, verdict, request, worker, job, events, blame>>

(***************************************************************************)
(* Worker thread (serveScans), and the runtime that can end it.            *)
(***************************************************************************)
\* main() in the worker: the modules load and serveScans listens.
WorkerStarts ==
  /\ worker = "starting" /\ main # "start"
  /\ worker' = "idle"
  /\ UNCHANGED <<job, events, mainVars>>

WorkerTakes ==
  /\ worker = "idle" /\ request # <<>>
  /\ worker' = "scanning" /\ job' = Head(request) /\ request' = Tail(request)
  /\ UNCHANGED <<files, found, main, pending, retired, stopFailure, stopping, gone, emitted,
                 shown, verdict, exitCode, events, blame>>

Post(ok, count) ==
  /\ worker = "scanning"
  /\ worker' = "idle"
  /\ events' = Append(events, [kind |-> "message", source |-> job.source, ok |-> ok, count |-> count])
  /\ UNCHANGED <<job, mainVars>>

\* findPrivateScratchLinks stops at the limit (forbiddenFindings).
WorkerReplies == Post(TRUE, AtMost(found[files[job.source]], job.limit))
\* readBoundedSource or a parser bound throws.
WorkerReplyError == Post(FALSE, 0)

Died(kind) == [kind |-> kind, source |-> job.source, ok |-> FALSE, count |-> 0]

\* The worker fails while it loads, or exhausts its heap in a scan.
WorkerDies ==
  /\ worker \in {"starting", "scanning"} /\ main # "start"
  /\ worker' = "dead"
  /\ events' = events \o <<Died("error"), Died("exit")>>
  /\ UNCHANGED <<job, mainVars>>

\* terminate() ends it wherever it is.
WorkerStops ==
  /\ stopping /\ worker # "dead"
  /\ worker' = "dead"
  /\ events' = Append(events, Died("exit"))
  /\ UNCHANGED <<job, mainVars>>

(***************************************************************************)
(* Specification.                                                          *)
(***************************************************************************)
ScanIdle(fs, fnd) ==
  /\ files = fs /\ found = fnd
  /\ pending = 0 /\ retired = FALSE /\ stopFailure = "null" /\ stopping = FALSE /\ gone = FALSE
  /\ emitted = 0 /\ shown = [i \in 1..Len(fs) |-> 0]
  /\ verdict = OPEN /\ exitCode = 3 /\ request = <<>>
  /\ worker = "starting" /\ job = NoJob /\ events = <<>> /\ blame = {}

ScanInit == \E fs \in Seq(Files), fnd \in [Files -> Nat] : main = "start" /\ ScanIdle(fs, fnd)

MainStep == Start \/ OnMessage \/ OnError \/ OnExit \/ Expire \/ StopRejects
WorkerStep == WorkerStarts \/ WorkerTakes \/ WorkerReplies \/ WorkerReplyError \/ WorkerDies \/ WorkerStops
ScanNext == MainStep \/ WorkerStep

ScanSpec == ScanInit /\ [][ScanNext]_scanVars

(***************************************************************************)
(* Properties.                                                             *)
(***************************************************************************)
Event == [kind : {"message", "error", "exit"}, source : Nat, ok : BOOLEAN, count : Nat]

\* The rule's variables keep their types; no run prints more than MAX_FINDINGS diagnostics.
ScanTypeOK ==
  /\ files \in Seq(Files) /\ found \in [Files -> Nat]
  /\ main \in {"absent", "start", "await", "stopping", "terminating", "exited"}
  /\ pending \in 0..Len(files)
  /\ stopFailure \in {"null", "pending", "error"}
  /\ <<retired, stopping, gone>> \in BOOLEAN \X BOOLEAN \X BOOLEAN
  /\ emitted \in 0..MAX_FINDINGS /\ shown \in [1..Len(files) -> 0..MAX_FINDINGS]
  /\ verdict \in 0..OPEN /\ exitCode \in 0..3
  /\ request \in Seq([source : 1..Len(files), limit : Nat])
  /\ job \in [source : Nat, limit : Nat]
  /\ worker \in {"starting", "idle", "scanning", "dead"}
  /\ worker = "scanning" => job.source \in 1..Len(files)
  /\ events \in Seq(Event) /\ blame \subseteq Nat \X Nat

\* An answer, a death or an exit settles the scan of the file the worker was scanning, never
\* another one (a worker that never loaded was scanning nothing): the one request in flight of
\* class ScanWorker, and #settle dropping the late reply of an expired scan.
BlameIsRight == \A b \in blame : b[2] \in {b[1], 0}

\* Exit status 0 or 1 is earned: every inventory file was scanned and all of its findings were
\* printed, and the status is 0 exactly when there were none.  A death, a deadline, an
\* unreadable file or a cut-off list of findings never reads as either (reportFindings, main).
ExitIsEarned ==
  exitCode \in {0, 1} =>
    /\ \A i \in 1..Len(files) : shown[i] = found[files[i]]
    /\ exitCode = 0 <=> \A i \in 1..Len(files) : found[files[i]] = 0
=============================================================================
