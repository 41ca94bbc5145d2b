------------------------- MODULE MarkdownGateProofs -------------------------
(***************************************************************************)
(* The documentation gate, for any tree, contents, settings, limits and     *)
(* deadline: the findings and failures of the private-link rule belong to   *)
(* the file it names and its exit status is earned, on its own and inside   *)
(* the gate that starts it; the gate ends in time and its verdict is        *)
(* complete.                                                                *)
(***************************************************************************)
EXTENDS MarkdownGate, FiniteSetTheorems, TLAPS

(***************************************************************************)
(*                        The private-link rule.                           *)
(***************************************************************************)
\* Nothing is in flight before the first scan, and nothing is awaited outside "await".
Phases ==
  /\ main = "start" => /\ pending = 0 /\ verdict = OPEN /\ request = <<>> /\ events = <<>>
                       /\ worker = "starting" /\ ~stopping /\ ~gone /\ emitted = 0
                       /\ stopFailure = "null" /\ shown = [i \in 1..Len(files) |-> 0]
  /\ pending # 0 <=> main = "await"
  /\ pending # 0 => verdict = OPEN /\ ~stopping /\ ~gone /\ stopFailure = "null"
  /\ worker = "starting" => job = NoJob
  /\ verdict = OPEN => exitCode = 3 /\ main \in {"absent", "start", "await"}
  /\ exitCode # 3 => exitCode = 2 \/ exitCode = verdict

\* Where the one request in flight is: posted, being scanned, answered, or lost with the worker.
Posted ==
  /\ worker \in {"starting", "idle"} /\ events = <<>>
  /\ request = <<[source |-> pending, limit |-> MAX_FINDINGS - emitted + 1]>>
InWorker ==
  /\ worker = "scanning" /\ events = <<>> /\ request = <<>>
  /\ job = [source |-> pending, limit |-> MAX_FINDINGS - emitted + 1]
Answered ==
  /\ worker = "idle" /\ request = <<>>
  /\ \E e \in Event :
       /\ events = <<e>> /\ e.kind = "message" /\ e.source = pending
       /\ e.ok => e.count = AtMost(found[files[pending]], MAX_FINDINGS - emitted + 1)
Lost ==
  /\ worker = "dead"
  /\ \E e, x \in Event :
       /\ events = <<e, x>> /\ e.kind = "error" /\ e.source \in {pending, 0} /\ x.kind = "exit"
Flight == pending # 0 => Posted \/ InWorker \/ Answered \/ Lost

\* The files before the one in flight were reported in full.
Earned(n) ==
  /\ \A i \in 1..n : shown[i] = found[files[i]]
  /\ emitted = 0 <=> \A i \in 1..n : found[files[i]] = 0
Progress ==
  /\ pending # 0 => Earned(pending - 1)
  /\ verdict \in {0, 1} => Earned(Len(files)) /\ (verdict = 0 <=> emitted = 0)

IInv == ScanTypeOK /\ Phases /\ Flight /\ BlameIsRight /\ Progress

(***************************************************************************)
(* Facts about short sequences.                                            *)
(***************************************************************************)
LEMMA One == ASSUME NEW e PROVE <<e>> # <<>> /\ Head(<<e>>) = e /\ Tail(<<e>>) = <<>> /\ Append(<<>>, e) = <<e>>
  BY SMTT(30)

LEMMA Two == ASSUME NEW e, NEW x
             PROVE <<e, x>> # <<>> /\ Head(<<e, x>>) = e /\ Tail(<<e, x>>) = <<x>> /\ <<>> \o <<e, x>> = <<e, x>>
  BY SMTT(30)

LEMMA TailType == ASSUME NEW S, NEW s \in Seq(S), s # <<>> PROVE Tail(s) \in Seq(S) /\ Head(s) \in S
  BY SMTT(30)

LEMMA AppendType == ASSUME NEW S, NEW s \in Seq(S), NEW e \in S PROVE Append(s, e) \in Seq(S)
  BY SMTT(30)

LEMMA AppendTwo == ASSUME NEW S, NEW s \in Seq(S), NEW e \in S, NEW x \in S PROVE s \o <<e, x>> \in Seq(S)
  BY SMTT(30)

LEMMA AtMostType == ASSUME NEW n \in Nat, NEW m \in Nat PROVE AtMost(n, m) \in Nat /\ AtMost(n, m) <= m /\ AtMost(n, m) <= n
  BY SMTT(30) DEF AtMost

LEMMA DiedType == ASSUME ScanTypeOK, NEW k \in {"message", "error", "exit"} PROVE Died(k) \in Event
  BY DEF ScanTypeOK, Died, Event

(***************************************************************************)
(* Each step preserves the invariant: first the worker's.                  *)
(***************************************************************************)
LEMMA InitIInv == ScanInit => IInv
<1> SUFFICES ASSUME NEW fs \in Seq(Files), NEW fnd \in [Files -> Nat], main = "start", ScanIdle(fs, fnd)
             PROVE IInv
  BY DEF ScanInit
<1>1. /\ files \in Seq(Files) /\ found \in [Files -> Nat] /\ pending = 0 /\ Len(files) \in Nat
      /\ emitted = 0 /\ shown = [i \in 1..Len(files) |-> 0] /\ 0 \in 0..MAX_FINDINGS
  BY ScanConstants, SMTT(30) DEF ScanIdle
<1>2. request \in Seq([source : 1..Len(files), limit : Nat]) /\ events \in Seq(Event)
  BY SMTT(30) DEF ScanIdle
<1>3. job \in [source : Nat, limit : Nat]
  BY DEF ScanIdle, NoJob
<1>4. <<retired, stopping, gone>> \in BOOLEAN \X BOOLEAN \X BOOLEAN
  BY Zenon DEF ScanIdle
<1>5. ScanTypeOK
  BY <1>1, <1>2, <1>3, <1>4, SMTT(30) DEF ScanIdle, ScanTypeOK, OPEN
<1>6. Phases /\ Flight /\ BlameIsRight /\ Progress
  BY <1>1, SMTT(30) DEF ScanIdle, Phases, Flight, BlameIsRight, Progress, OPEN
<1> QED BY <1>5, <1>6 DEF IInv

LEMMA WorkerStartsStep == IInv /\ WorkerStarts => IInv'
  BY SMTT(30) DEF WorkerStarts, mainVars, IInv, ScanTypeOK, Phases, Flight, Posted, InWorker, Answered, Lost,
     BlameIsRight, Progress, Earned

LEMMA WorkerTakesStep == IInv /\ WorkerTakes => IInv'
<1> SUFFICES ASSUME IInv, WorkerTakes PROVE IInv'
  OBVIOUS
<1>1. ScanTypeOK'
  <2>1. /\ Head(request) \in [source : 1..Len(files), limit : Nat]
        /\ Tail(request) \in Seq([source : 1..Len(files), limit : Nat])
    BY TailType, Zenon DEF WorkerTakes, IInv, ScanTypeOK
  <2>2. job' \in [source : 1..Len(files), limit : Nat] /\ Len(files) \in Nat
    <3>1. job' \in [source : 1..Len(files), limit : Nat]
      BY <2>1 DEF WorkerTakes
    <3>2. files \in Seq(Files)
      BY DEF IInv, ScanTypeOK
    <3> QED BY <3>1, <3>2, SMTT(30)
  <2>3. job' \in [source : Nat, limit : Nat] /\ job'.source \in 1..Len(files)
    BY <2>2, SMTT(30)
  <2> QED BY <2>1, <2>3, Zenon DEF WorkerTakes, IInv, ScanTypeOK
<1>2. Phases'
  BY DEF WorkerTakes, IInv, Phases
<1>3. Flight'
  <2> SUFFICES ASSUME pending # 0 PROVE InWorker'
    BY DEF Flight, WorkerTakes
  <2>1. Posted
    BY DEF IInv, Flight, WorkerTakes, Posted, InWorker, Answered, Lost
  <2> QED BY <2>1, One DEF Posted, InWorker, WorkerTakes
<1>4. BlameIsRight' /\ Progress'
  BY DEF WorkerTakes, IInv, BlameIsRight, Progress, Earned
<1> QED BY <1>1, <1>2, <1>3, <1>4 DEF IInv

\* A reply, right or wrong, answers the scan in flight.
LEMMA PostStep ==
    ASSUME IInv, NEW ok \in BOOLEAN, NEW count \in Nat, Post(ok, count),
           ok /\ pending # 0 => count = AtMost(found[files[pending]], MAX_FINDINGS - emitted + 1)
    PROVE  IInv'
<1> DEFINE e == [kind |-> "message", source |-> job.source, ok |-> ok, count |-> count]
<1>0. e \in Event
  BY DEF IInv, ScanTypeOK, Event
<1>1. ScanTypeOK'
  <2>1. events' \in Seq(Event)
    BY <1>0, AppendType DEF Post, IInv, ScanTypeOK
  <2> QED BY <2>1, Zenon DEF Post, mainVars, IInv, ScanTypeOK
<1>2. Phases'
  BY Zenon DEF Post, mainVars, IInv, Phases
<1>3. Flight'
  <2> SUFFICES ASSUME pending # 0 PROVE Answered'
    BY DEF Flight, Post, mainVars
  <2>1. InWorker
    BY DEF IInv, Flight, Post, Posted, InWorker, Answered, Lost
  <2>2. events' = <<e>> /\ e.kind = "message" /\ e.source = pending
    BY <2>1, One DEF InWorker, Post
  <2>3. e.ok => e.count = AtMost(found[files[pending]], MAX_FINDINGS - emitted + 1)
    OBVIOUS
  <2>4. worker' = "idle" /\ request' = <<>> /\ UNCHANGED <<pending, found, files, emitted>>
    BY <2>1, Zenon DEF InWorker, Post, mainVars
  <2> HIDE DEF e
  <2> QED BY <1>0, <2>2, <2>3, <2>4 DEF Answered
<1>4. BlameIsRight' /\ Progress'
  BY Zenon DEF Post, mainVars, IInv, BlameIsRight, Progress, Earned
<1> QED BY <1>1, <1>2, <1>3, <1>4 DEF IInv

LEMMA WorkerRepliesStep == IInv /\ WorkerReplies => IInv'
<1> SUFFICES ASSUME IInv, WorkerReplies PROVE IInv'
  OBVIOUS
<1> DEFINE n == AtMost(found[files[job.source]], job.limit)
<1>1. pending # 0 => n = AtMost(found[files[pending]], MAX_FINDINGS - emitted + 1)
  BY SMTT(30) DEF IInv, Flight, WorkerReplies, Post, Posted, InWorker, Answered, Lost
<1>2. n \in Nat
  <2>1. job.source \in 1..Len(files) /\ files \in Seq(Files) /\ found \in [Files -> Nat] /\ job.limit \in Nat
    BY DEF IInv, ScanTypeOK, WorkerReplies, Post
  <2>2. files[job.source] \in Files
    BY <2>1, SMTT(30)
  <2>3. found[files[job.source]] \in Nat
    BY <2>1, <2>2
  <2> QED BY <2>1, <2>3, AtMostType, Zenon
<1> QED BY <1>1, <1>2, PostStep, Zenon DEF WorkerReplies

LEMMA WorkerReplyErrorStep == IInv /\ WorkerReplyError => IInv'
  BY PostStep, Zenon DEF WorkerReplyError

LEMMA WorkerDiesStep == IInv /\ WorkerDies => IInv'
<1> SUFFICES ASSUME IInv, WorkerDies PROVE IInv'
  OBVIOUS
<1>0. Died("error") \in Event /\ Died("exit") \in Event
  BY DiedType DEF IInv
<1>1. ScanTypeOK'
  <2>1. events' \in Seq(Event)
    BY <1>0, AppendTwo DEF WorkerDies, IInv, ScanTypeOK
  <2> QED BY <2>1, Zenon DEF WorkerDies, mainVars, IInv, ScanTypeOK
<1>2. Phases'
  BY DEF WorkerDies, mainVars, IInv, Phases
<1>3. Flight'
  <2> SUFFICES ASSUME pending # 0 PROVE Lost'
    BY DEF Flight, WorkerDies, mainVars
  <2>1. events = <<>> /\ job.source \in {pending, 0}
    BY SMTT(30) DEF IInv, Flight, Phases, WorkerDies, Posted, InWorker, Answered, Lost, NoJob
  <2>2. events' = <<Died("error"), Died("exit")>>
    BY <2>1, Two DEF WorkerDies
  <2>3. Died("error").kind = "error" /\ Died("exit").kind = "exit" /\ Died("error").source = job.source
    BY DEF Died
  <2> QED BY <1>0, <2>1, <2>2, <2>3 DEF Lost, WorkerDies, mainVars
<1>4. BlameIsRight' /\ Progress'
  BY Zenon DEF WorkerDies, mainVars, IInv, BlameIsRight, Progress, Earned
<1> QED BY <1>1, <1>2, <1>3, <1>4 DEF IInv

LEMMA WorkerStopsStep == IInv /\ WorkerStops => IInv'
<1> SUFFICES ASSUME IInv, WorkerStops PROVE IInv'
  OBVIOUS
<1>1. ScanTypeOK'
  <2>1. events' \in Seq(Event)
    BY DiedType, AppendType, Zenon DEF WorkerStops, IInv, ScanTypeOK
  <2> QED BY <2>1, Zenon DEF WorkerStops, mainVars, IInv, ScanTypeOK
<1>2. Phases' /\ Flight' /\ BlameIsRight' /\ Progress'
  BY Zenon DEF WorkerStops, mainVars, IInv, Phases, Flight, BlameIsRight, Progress, Earned
<1> QED BY <1>1, <1>2 DEF IInv

(***************************************************************************)
(* The main thread's steps.  The loop of reportFindings goes on to the next *)
(* file when nothing is in flight any more.                                 *)
(***************************************************************************)
Quiet ==
  /\ verdict = OPEN /\ exitCode = 3 /\ ~stopping /\ ~gone /\ stopFailure = "null"
  /\ request = <<>> /\ events' = <<>> /\ worker \in {"starting", "idle"}
  /\ UNCHANGED <<files, found, retired, gone, worker, job>>

LEMMA NextFileStep ==
    ASSUME IInv, Quiet, NEW i \in 1..(Len(files) + 1), NEW n \in 0..MAX_FINDINGS, NextFile(i, n),
           emitted' = n, shown' \in [1..Len(files) -> 0..MAX_FINDINGS], Earned(i - 1)',
           blame' \subseteq Nat \X Nat, BlameIsRight'
    PROVE  IInv'
<1>0. /\ files \in Seq(Files) /\ Len(files) \in Nat /\ i \in Nat /\ n \in Nat
      /\ MAX_FINDINGS - n + 1 \in Nat
  BY ScanConstants, SMTT(30) DEF IInv, ScanTypeOK
<1>1. CASE i > Len(files)
  <2>1. /\ pending' = 0 /\ request' = <<>> /\ verdict' = (IF n = 0 THEN 0 ELSE 1) /\ main' = "terminating"
        /\ stopping' = TRUE /\ exitCode' = 3 /\ stopFailure' = "null"
    BY <1>1 DEF NextFile, Close, Terminate, Quiet
  <2>2. ScanTypeOK'
    <3>1. <<retired, stopping, gone>>' \in BOOLEAN \X BOOLEAN \X BOOLEAN
      BY <2>1, Zenon DEF Quiet, IInv, ScanTypeOK
    <3>2. request' \in Seq([source : 1..Len(files), limit : Nat]) /\ events' \in Seq(Event)
      BY <2>1, SMTT(30) DEF Quiet
    <3>3. 0 \in 0..OPEN /\ 1 \in 0..OPEN /\ 3 \in 0..3 /\ 0 \in 0..Len(files)
      BY <1>0, SMTT(30) DEF OPEN
    <3> QED BY <2>1, <1>0, <3>1, <3>2, <3>3, ZenonT(30) DEF Quiet, IInv, ScanTypeOK
  <2>3. Phases'
    BY <2>1, SMTT(30) DEF Quiet, IInv, Phases, OPEN
  <2>4. Flight'
    BY <2>1 DEF Flight
  <2>5. Progress'
    <3>1. i - 1 = Len(files)
      BY <1>0, <1>1, SMTT(30)
    <3>2. Earned(Len(files))'
      BY <3>1 DEF Quiet, Earned
    <3> QED BY <2>1, <3>2, SMTT(30) DEF Progress
  <2> QED BY <2>2, <2>3, <2>4, <2>5 DEF IInv
<1>2. CASE ~(i > Len(files))
  <2> DEFINE r == [source |-> i, limit |-> MAX_FINDINGS - n + 1]
  <2>1. /\ pending' = i /\ request' = <<r>> /\ main' = "await"
        /\ UNCHANGED <<verdict, exitCode, stopping, stopFailure>>
    BY <1>2, One DEF NextFile, Scan, Quiet
  <2>2. i \in 1..Len(files) /\ i # 0
    BY <1>0, <1>2, SMTT(30)
  <2>3. r \in [source : 1..Len(files), limit : Nat]
    BY <1>0, <2>2
  <2>4. request' \in Seq([source : 1..Len(files), limit : Nat])
    BY <2>1, <2>3, SMTT(30)
  <2>5. ScanTypeOK'
    <3>1. i \in 0..Len(files)
      BY <1>0, <2>2, SMTT(30)
    <3>2. <<retired, stopping, gone>>' \in BOOLEAN \X BOOLEAN \X BOOLEAN
      BY <2>1, Zenon DEF Quiet, IInv, ScanTypeOK
    <3>3. /\ UNCHANGED <<files, found, worker, job, stopFailure, verdict, exitCode>>
          /\ events' \in Seq(Event) /\ worker # "scanning"
      BY <2>1 DEF Quiet
    <3> HIDE DEF r
    <3> QED BY <2>1, <2>4, <3>1, <3>2, <3>3, Zenon DEF IInv, ScanTypeOK
  <2>6. Phases'
    BY <2>1, <2>2, Zenon DEF Quiet, IInv, Phases
  <2>7. Posted'
    BY <2>1 DEF Quiet, Posted
  <2>8. Progress'
    <3>1. Earned(pending - 1)'
      BY <2>1, Zenon DEF Earned
    <3> QED BY <2>1, <3>1, SMTT(30) DEF Progress, Quiet, OPEN
  <2> QED BY <2>5, <2>6, <2>7, <2>8 DEF IInv, Flight
<1> QED BY <1>1, <1>2

\* A scan that is rejected, or a list of findings cut off, leaves reportFindings.
LEMMA LeaveStep ==
    ASSUME IInv, NEW v \in {2, THREW}, NEW isGone \in BOOLEAN, Close(v, isGone), pending' = 0,
           exitCode = 3, emitted' \in 0..MAX_FINDINGS, shown' \in [1..Len(files) -> 0..MAX_FINDINGS],
           blame' \subseteq Nat \X Nat, BlameIsRight', events' \in Seq(Event),
           retired' \in BOOLEAN, gone' \in BOOLEAN, main # "start",
           UNCHANGED <<files, found, request, worker, job>>
    PROVE  IInv'
<1>1. /\ verdict' = v /\ stopFailure' = stopFailure
      /\ \/ main' = "exited" /\ exitCode' = 2 /\ stopping' = stopping
         \/ main' = "terminating" /\ exitCode' = 3 /\ stopping' = TRUE
  BY DEF Close, Terminate, ExitStatus, THREW
<1>2. <<retired, stopping, gone>>' \in BOOLEAN \X BOOLEAN \X BOOLEAN
  <2>1. stopping' \in BOOLEAN
    BY <1>1, Zenon DEF IInv, ScanTypeOK
  <2> QED BY <2>1
<1>3. ScanTypeOK'
  <2>1. v \in 0..OPEN /\ 2 \in 0..3 /\ 3 \in 0..3 /\ Len(files) \in Nat /\ 0 \in 0..Len(files)
    BY SMTT(30) DEF IInv, ScanTypeOK, OPEN, THREW
  <2> QED BY <1>1, <1>2, <2>1, Zenon DEF IInv, ScanTypeOK
<1>4. Phases' /\ Flight' /\ Progress'
  BY <1>1, SMTT(30) DEF IInv, Phases, Flight, Progress, OPEN, THREW
<1> QED BY <1>3, <1>4 DEF IInv

\* What an event that settles the scan in flight adds to the history.
LEMMA BlameStep ==
    ASSUME IInv, NEW s \in {pending, 0}, blame' = blame \cup {<<pending, s>>}
    PROVE  blame' \subseteq Nat \X Nat /\ BlameIsRight'
<1>1. pending \in Nat /\ s \in Nat
  BY SMTT(30) DEF IInv, ScanTypeOK
<1>2. blame' \subseteq Nat \X Nat
  BY <1>1, SMTT(30) DEF IInv, ScanTypeOK
<1>3. \A b \in blame' : b[2] \in {b[1], 0}
  BY SMTT(30) DEF IInv, BlameIsRight
<1> QED BY <1>2, <1>3 DEF BlameIsRight

LEMMA StartStep == IInv /\ Start => IInv'
<1> SUFFICES ASSUME IInv, Start PROVE IInv'
  OBVIOUS
<1>0. /\ files \in Seq(Files) /\ Len(files) \in Nat /\ emitted = 0 /\ 0 \in 0..MAX_FINDINGS
      /\ shown = [i \in 1..Len(files) |-> 0] /\ verdict = OPEN /\ exitCode = 3 /\ ~stopping /\ ~gone
      /\ stopFailure = "null" /\ request = <<>> /\ events = <<>> /\ worker = "starting" /\ pending = 0
  BY ScanConstants, SMTT(30) DEF Start, IInv, ScanTypeOK, Phases
<1>1. CASE Len(files) > MAX_FILES
  <2>1. /\ main' = "exited" /\ exitCode' = 2 /\ verdict' = THREW /\ worker' = "dead"
        /\ UNCHANGED <<pending, request, stopping, stopFailure, files, found, retired, gone, emitted,
                       shown, job, events, blame>>
    BY <1>1 DEF Start
  <2>2. ScanTypeOK'
    BY <2>1, SMTT(30) DEF IInv, ScanTypeOK, THREW, OPEN
  <2>3. Phases' /\ Flight' /\ Progress' /\ BlameIsRight'
    BY <1>0, <2>1, SMTT(30) DEF IInv, Phases, Flight, Progress, BlameIsRight, THREW, OPEN
  <2> QED BY <2>2, <2>3 DEF IInv
<1>2. CASE ~(Len(files) > MAX_FILES)
  <2>1. Quiet /\ NextFile(1, 0) /\ emitted' = 0 /\ UNCHANGED <<shown, blame>>
    BY <1>0, <1>2 DEF Start, Quiet
  <2>2. Earned(0)'
    BY <2>1, SMTT(30) DEF Earned
  <2>3. 1 \in 1..(Len(files) + 1) /\ Earned(1 - 1)'
    BY <1>0, <2>2, SMTT(30)
  <2>4. shown' \in [1..Len(files) -> 0..MAX_FINDINGS] /\ blame' \subseteq Nat \X Nat /\ BlameIsRight'
    BY <2>1, Zenon DEF IInv, ScanTypeOK, BlameIsRight
  <2> QED BY <1>0, <2>1, <2>3, <2>4, NextFileStep, ZenonT(30)
<1> QED BY <1>1, <1>2

\* An event nobody waits for leaves everything but the queue.
LEMMA DroppedStep ==
    ASSUME IInv, pending = 0, events # <<>>, events' = Tail(events), UNCHANGED <<mainVars, worker, job>>
    PROVE  IInv'
<1>1. events' \in Seq(Event)
  BY TailType DEF IInv, ScanTypeOK
<1>2. ScanTypeOK'
  BY <1>1, Zenon DEF mainVars, IInv, ScanTypeOK
<1>3. Phases' /\ Flight' /\ Progress' /\ BlameIsRight'
  BY Zenon DEF mainVars, IInv, Phases, Flight, Progress, Earned, BlameIsRight
<1> QED BY <1>2, <1>3 DEF IInv

LEMMA OnMessageStep == IInv /\ OnMessage => IInv'
<1> SUFFICES ASSUME IInv, OnMessage PROVE IInv'
  OBVIOUS
<1>1. CASE pending = 0
  <2>1. events # <<>> /\ events' = Tail(events) /\ UNCHANGED <<mainVars, worker, job>>
    BY <1>1 DEF OnMessage, mainVars
  <2> QED BY <1>1, <2>1, DroppedStep
<1>2. CASE pending # 0
  <2>1. Answered
    BY <1>2, Two, SMTT(30) DEF IInv, Flight, OnMessage, Posted, InWorker, Lost
  <2>2. PICK e \in Event :
          /\ events = <<e>> /\ e.kind = "message" /\ e.source = pending
          /\ e.ok => e.count = AtMost(found[files[pending]], MAX_FINDINGS - emitted + 1)
    BY <2>1 DEF Answered
  <2>3. Head(events) = e /\ events' = <<>> /\ events' \in Seq(Event)
    <3>1. events' = Tail(events)
      BY Zenon DEF OnMessage
    <3> QED BY <2>2, <3>1, One, SMTT(30)
  <2>4. blame' = blame \cup {<<pending, pending>>} /\ (IF e.ok THEN Report(e.count) ELSE Reject(FALSE))
        /\ UNCHANGED <<files, found, retired, gone, worker, job>>
    BY <1>2, <2>2, <2>3, Zenon DEF OnMessage
  <2>5. blame' \subseteq Nat \X Nat /\ BlameIsRight'
    BY <2>4, BlameStep
  <2>6. /\ verdict = OPEN /\ exitCode = 3 /\ ~stopping /\ ~gone /\ stopFailure = "null" /\ main = "await"
        /\ request = <<>> /\ worker = "idle"
    BY <1>2, <2>1, Zenon DEF IInv, Phases, Answered
  <2>7. retired' \in BOOLEAN /\ gone' \in BOOLEAN
    BY <2>4, Zenon DEF IInv, ScanTypeOK
  <2>8. CASE ~e.ok
    <3>1. pending' = 0 /\ Close(THREW, FALSE) /\ UNCHANGED <<request, emitted, shown>>
      BY <2>4, <2>8, Zenon DEF Reject
    <3>2. emitted' \in 0..MAX_FINDINGS /\ shown' \in [1..Len(files) -> 0..MAX_FINDINGS]
      BY <3>1 DEF IInv, ScanTypeOK
    <3> QED BY <2>3, <2>4, <2>5, <2>6, <2>7, <3>1, <3>2, LeaveStep, Zenon
  <2>9. CASE e.ok
    <3> DEFINE remaining == MAX_FINDINGS - emitted
               n == AtMost(e.count, remaining)
    <3>1. /\ pending \in 1..Len(files) /\ files \in Seq(Files) /\ Len(files) \in Nat /\ emitted \in Nat
          /\ remaining \in Nat /\ e.count \in Nat /\ found \in [Files -> Nat] /\ MAX_FINDINGS \in Nat
          /\ shown \in [1..Len(files) -> 0..MAX_FINDINGS]
      BY <1>2, ScanConstants, SMTT(30) DEF IInv, ScanTypeOK, Event
    <3>2. found[files[pending]] \in Nat
      <4>1. files[pending] \in Files
        BY <3>1, SMTT(30)
      <4> QED BY <3>1, <4>1
    <3>3. n \in Nat /\ n <= remaining /\ n <= e.count
      BY <3>1, AtMostType, Zenon
    <3>4. emitted + n \in 0..MAX_FINDINGS /\ n \in 0..MAX_FINDINGS
      BY <3>1, <3>3, SMTT(30)
    <3>5. emitted' = emitted + n /\ shown' = [shown EXCEPT ![pending] = n]
      BY <2>4, <2>9, Zenon DEF Report
    <3>6. shown' \in [1..Len(files) -> 0..MAX_FINDINGS]
      BY <3>1, <3>4, <3>5, Zenon
    <3>7. CASE e.count > remaining
      <4>1. pending' = 0 /\ Close(2, FALSE) /\ UNCHANGED request
        BY <2>4, <2>9, <3>7, Zenon DEF Report
      <4> QED BY <2>3, <2>4, <2>5, <2>6, <2>7, <3>4, <3>5, <3>6, <4>1, LeaveStep, Zenon
    <3>8. CASE ~(e.count > remaining)
      <4>1. NextFile(pending + 1, emitted + n)
        BY <2>4, <2>9, <3>8, Zenon DEF Report
      <4>2. n = found[files[pending]]
        BY <2>2, <2>9, <3>1, <3>2, <3>8, SMTT(30) DEF AtMost
      <4>3. Quiet
        BY <2>3, <2>4, <2>6 DEF Quiet
      <4>4. Earned(pending - 1)
        BY <1>2 DEF IInv, Progress
      <4>5. PICK p \in 1..Len(files), m \in Nat, k \in 0..MAX_FINDINGS :
              p = pending /\ m = n /\ k = emitted + n
        BY <3>1, <3>3, <3>4, Zenon
      <4>6. Earned(p)'
        <5>0. UNCHANGED <<files, found>> /\ p \in Nat
          BY <2>4, <3>1, SMTT(30)
        <5>1. \A i \in 1..p : shown'[i] = found[files[i]]
          <6> TAKE i \in 1..p
          <6>1. CASE i = p
            BY <6>1, <3>1, <3>5, <4>2, <4>5, Zenon
          <6>2. CASE i # p
            <7>1. i \in 1..(pending - 1)
              BY <6>2, <3>1, <4>5, SMTT(30)
            <7>2. shown[i] = found[files[i]]
              BY <7>1, <4>4, Zenon DEF Earned
            <7> QED BY <7>1, <7>2, <3>1, <3>5, SMTT(30)
          <6> QED BY <6>1, <6>2
        <5>2. (emitted' = 0) <=> (emitted = 0 /\ m = 0)
          <6>1. emitted' = emitted + m /\ emitted \in Nat
            BY <3>1, <3>5, <4>5, ZenonT(30)
          <6> QED BY <6>1, SMTT(30)
        <5>3. (\A i \in 1..p : found[files[i]] = 0)
              <=> (\A i \in 1..(pending - 1) : found[files[i]] = 0) /\ found[files[pending]] = 0
          <6>1. 1..p = 1..(pending - 1) \cup {pending}
            BY <3>1, <4>5, SMTT(30)
          <6> QED BY <6>1, Zenon
        <5>4. emitted' = 0 <=> \A i \in 1..p : found[files[i]] = 0
          BY <5>2, <5>3, <4>2, <4>4, <4>5, Zenon DEF Earned
        <5> QED BY <5>0, <5>1, <5>4, Zenon DEF Earned
      <4>7. p + 1 \in 1..(Len(files) + 1) /\ (p + 1) - 1 = p
        BY <3>1, SMTT(30)
      <4>8. Earned((p + 1) - 1)'
        BY <4>6, <4>7
      <4>9. NextFile(p + 1, k) /\ emitted' = k
        BY <3>5, <4>1, <4>5
      <4> QED BY <2>5, <3>6, <4>3, <4>7, <4>8, <4>9, NextFileStep, Zenon
    <3> QED BY <3>7, <3>8
  <2> QED BY <2>8, <2>9
<1> QED BY <1>1, <1>2

LEMMA OnErrorStep == IInv /\ OnError => IInv'
<1> SUFFICES ASSUME IInv, OnError PROVE IInv'
  OBVIOUS
<1>1. CASE pending = 0
  <2>1. events # <<>> /\ events' = Tail(events) /\ UNCHANGED <<mainVars, worker, job>>
    BY <1>1 DEF OnError, mainVars
  <2> QED BY <1>1, <2>1, DroppedStep
<1>2. CASE pending # 0
  <2>1. Lost
    BY <1>2, One, Zenon DEF IInv, Flight, OnError, Posted, InWorker, Answered
  <2>2. Head(events).source \in {pending, 0}
    BY <2>1, Two DEF Lost
  <2>3. /\ blame' = blame \cup {<<pending, Head(events).source>>}
        /\ pending' = 0 /\ Close(THREW, FALSE) /\ UNCHANGED <<request, emitted, shown>>
        /\ UNCHANGED <<files, found, retired, gone, worker, job>>
    BY <1>2, Zenon DEF OnError, Reject
  <2>4. blame' \subseteq Nat \X Nat /\ BlameIsRight'
    BY <2>2, <2>3, BlameStep
  <2>5. events' \in Seq(Event)
    BY TailType, Zenon DEF OnError, IInv, ScanTypeOK
  <2>6. exitCode = 3 /\ main = "await"
    BY <1>2 DEF IInv, Phases
  <2>7. retired' \in BOOLEAN /\ gone' \in BOOLEAN
    BY <2>3, ZenonT(30) DEF IInv, ScanTypeOK
  <2>8. emitted' \in 0..MAX_FINDINGS /\ shown' \in [1..Len(files) -> 0..MAX_FINDINGS]
    BY <2>3 DEF IInv, ScanTypeOK
  <2> QED BY <2>3, <2>4, <2>5, <2>6, <2>7, <2>8, LeaveStep, Zenon
<1> QED BY <1>1, <1>2

LEMMA OnExitStep == IInv /\ OnExit => IInv'
<1> SUFFICES ASSUME IInv, OnExit PROVE IInv'
  OBVIOUS
<1>1. pending = 0
  BY One, Two, Zenon DEF OnExit, IInv, Flight, Posted, InWorker, Answered, Lost
<1>2. /\ retired' = TRUE /\ gone' = TRUE /\ events' = Tail(events)
      /\ \/ main' = "exited" /\ exitCode' = ExitStatus(verdict, stopFailure) /\ main \in {"stopping", "terminating"}
         \/ UNCHANGED <<main, exitCode>> /\ main \notin {"stopping", "terminating"}
      /\ stopFailure' \in {"null", "pending", "error"}
      /\ UNCHANGED <<pending, request, stopping, emitted, shown, verdict, blame, files, found, worker, job>>
  BY <1>1, Zenon DEF OnExit, IInv, ScanTypeOK
<1>3. events' \in Seq(Event) /\ main # "start"
  BY TailType, Zenon DEF OnExit, IInv, ScanTypeOK, Phases
<1>4. <<retired, stopping, gone>>' \in BOOLEAN \X BOOLEAN \X BOOLEAN
  <2>1. stopping' \in BOOLEAN
    BY <1>2, Zenon DEF IInv, ScanTypeOK
  <2> QED BY <1>2, <2>1, Zenon
<1>5. exitCode' \in 0..3 /\ (exitCode' # 3 => exitCode' = 2 \/ exitCode' = verdict)
  <2>1. CASE UNCHANGED exitCode
    BY <2>1, Zenon DEF IInv, ScanTypeOK, Phases
  <2>2. CASE exitCode' = ExitStatus(verdict, stopFailure) /\ main \in {"stopping", "terminating"}
    <3>1. verdict # OPEN /\ verdict \in 0..OPEN
      BY <2>2, Zenon DEF IInv, ScanTypeOK, Phases
    <3> QED BY <2>2, <3>1, SMTT(30) DEF ExitStatus, OPEN, THREW
  <2> QED BY <1>2, <2>1, <2>2
<1>6. ScanTypeOK'
  BY <1>2, <1>3, <1>4, <1>5, Zenon DEF IInv, ScanTypeOK
<1>7. Phases'
  BY <1>1, <1>2, <1>3, <1>5, Zenon DEF IInv, Phases
<1>8. Flight' /\ Progress' /\ BlameIsRight'
  BY <1>1, <1>2, Zenon DEF IInv, Flight, Progress, Earned, BlameIsRight
<1> QED BY <1>6, <1>7, <1>8 DEF IInv

LEMMA ExpireStep == IInv /\ Expire => IInv'
<1> SUFFICES ASSUME IInv, Expire PROVE IInv'
  OBVIOUS
<1>1. <<retired, stopping, gone>>' \in BOOLEAN \X BOOLEAN \X BOOLEAN
  BY Zenon DEF Expire, IInv, ScanTypeOK
<1>2. ScanTypeOK'
  <2>1. THREW \in 0..OPEN /\ 2 \in 0..3 /\ Len(files) \in Nat /\ 0 \in 0..Len(files)
    BY SMTT(30) DEF IInv, ScanTypeOK, OPEN, THREW
  <2> QED BY <1>1, <2>1, Zenon DEF Expire, IInv, ScanTypeOK
<1>3. THREW # OPEN /\ THREW \notin {0, 1}
  BY DEF OPEN, THREW
<1>4. exitCode = 3 /\ main = "await"
  BY Zenon DEF Expire, IInv, Phases
<1>5. Phases'
  BY <1>3, <1>4, Zenon DEF Expire, IInv, Phases
<1>6. Flight' /\ Progress' /\ BlameIsRight'
  BY <1>3, Zenon DEF Expire, IInv, Flight, Progress, BlameIsRight
<1> QED BY <1>2, <1>5, <1>6 DEF IInv

LEMMA StopRejectsStep == IInv /\ StopRejects => IInv'
<1> SUFFICES ASSUME IInv, StopRejects PROVE IInv'
  OBVIOUS
<1>1. /\ stopFailure' = "error" /\ pending = 0 /\ verdict # OPEN
      /\ \/ main' = "exited" /\ exitCode' = 2 /\ UNCHANGED stopping
         \/ main' = "terminating" /\ stopping' = TRUE /\ UNCHANGED exitCode
      /\ UNCHANGED <<files, found, pending, retired, gone, emitted, shown, verdict, request, worker, job, events, blame>>
  BY Zenon DEF StopRejects, Terminate, ExitStatus, IInv, Phases
<1>2. <<retired, stopping, gone>>' \in BOOLEAN \X BOOLEAN \X BOOLEAN
  BY <1>1, Zenon DEF IInv, ScanTypeOK
<1>3. ScanTypeOK'
  <2>1. 2 \in 0..3
    OBVIOUS
  <2> QED BY <1>1, <1>2, <2>1, Zenon DEF IInv, ScanTypeOK
<1>4. Phases' /\ Flight' /\ Progress' /\ BlameIsRight'
  BY <1>1, Zenon DEF IInv, Phases, Flight, Progress, Earned, BlameIsRight
<1> QED BY <1>3, <1>4 DEF IInv

(***************************************************************************)
(* Theorems.                                                               *)
(***************************************************************************)
LEMMA NextIInv == IInv /\ [ScanNext]_scanVars => IInv'
<1> SUFFICES ASSUME IInv, [ScanNext]_scanVars PROVE IInv'
  OBVIOUS
<1>1. CASE MainStep
  BY <1>1, StartStep, OnMessageStep, OnErrorStep, OnExitStep, ExpireStep, StopRejectsStep DEF MainStep
<1>2. CASE WorkerStep
  BY <1>2, WorkerStartsStep, WorkerTakesStep, WorkerRepliesStep, WorkerReplyErrorStep, WorkerDiesStep,
     WorkerStopsStep DEF WorkerStep
<1>3. CASE UNCHANGED scanVars
  <2>1. ScanTypeOK'
    BY <1>3, Zenon DEF scanVars, IInv, ScanTypeOK
  <2>2. Phases'
    BY <1>3, Zenon DEF scanVars, IInv, Phases
  <2>3. Flight'
    BY <1>3, Zenon DEF scanVars, IInv, Flight, Posted, InWorker, Answered, Lost
  <2>4. BlameIsRight' /\ Progress'
    BY <1>3, Zenon DEF scanVars, IInv, BlameIsRight, Progress, Earned
  <2> QED BY <2>1, <2>2, <2>3, <2>4 DEF IInv
<1> QED BY <1>1, <1>2, <1>3 DEF ScanNext

\* The rule's variables keep their types, so that no run prints more than MAX_FINDINGS diagnostics.
THEOREM ScanTypes == ScanSpec => []ScanTypeOK
<1>1. IInv => ScanTypeOK
  BY DEF IInv
<1> QED BY <1>1, InitIInv, NextIInv, PTL DEF ScanSpec

\* However the replies, deaths, exits and deadlines of class ScanWorker fall, a finding or failure
\* is attributed to the file the worker was scanning.
THEOREM ScanBlame == ScanSpec => []BlameIsRight
<1>1. IInv => BlameIsRight
  BY DEF IInv
<1> QED BY <1>1, InitIInv, NextIInv, PTL DEF ScanSpec

LEMMA EarnedExit == IInv => ExitIsEarned
<1> SUFFICES ASSUME IInv, exitCode \in {0, 1} PROVE Earned(Len(files)) /\ (exitCode = 0 <=> emitted = 0)
  BY DEF ExitIsEarned, Earned
<1>1. verdict = exitCode
  BY SMTT(30) DEF IInv, Phases
<1> QED BY <1>1 DEF IInv, Progress

\* Status 0 or 1 of no-private-scratch-links.mjs means that every file of the inventory was scanned
\* and every finding printed, and 0 that there was none.
THEOREM ScanEarned == ScanSpec => []ExitIsEarned
  BY EarnedExit, InitIInv, NextIInv, PTL DEF ScanSpec

-----------------------------------------------------------------------------
(***************************************************************************)
(*                                The gate.                                *)
(***************************************************************************)
Running == {"install", "root", "settings", "diff", "symlinks", "targets", "list", "rule", "lint"}
GateTypes ==
  /\ mode \in Modes
  /\ step \in Running \cup {"done"}
  /\ clock \in Nat
  /\ settings.exclude \subseteq Files
  /\ step \in {"diff", "symlinks", "targets", "list", "rule", "lint"} => settings.lintTimeout \in LintTimeouts
  /\ ref \in [known : BOOLEAN, manifest : BOOLEAN, tool : BOOLEAN, paths : SUBSET Files]
  /\ tracked \subseteq Files /\ styled \subseteq Files /\ batch \subseteq Files
  /\ lint \in [failed : BOOLEAN, overflow : BOOLEAN]
  /\ budget \in Nat /\ owed \in Nat /\ printed \in Nat

(***************************************************************************)
(* Time: a running gate has not passed its deadline.                       *)
(***************************************************************************)
Timely ==
  /\ step # "done" => status = -1 /\ reason = "none" /\ clock <= GATE_DEADLINE
  /\ DeadlineHolds

(***************************************************************************)
(* The verdict: what has been looked at so far.                            *)
(***************************************************************************)
WholeTree == mode = "gate" \/ (mode = "--changed-since" /\ ChangedTreeFallback(ref))
Handed == IF WholeTree THEN tracked ELSE tracked \cap ref.paths

Unprinted == step \notin {"lint", "done"} => owed = 0 /\ printed = 0
Ruling ==
  step = "rule" =>
    mode # "--only" /\ Range(files) = Handed /\ styled = StyleSelection(tracked) \cap Handed
Linting ==
  step = "lint" =>
    /\ batch \subseteq styled
    /\ ~lint.failed => styled \ batch \subseteq lintClean
    /\ ~lint.overflow /\ scratchStatus # 2 => printed = owed
    /\ mode = "--only" => scratchStatus = 0 /\ named = styled /\ named \subseteq StyleSelection(tracked)
    /\ mode # "--only" => /\ styled = StyleSelection(tracked) \cap Handed
                          /\ scratchStatus = 0 => Handed \subseteq linkClean

\* The rule leaves nothing behind, and nothing of it is there before it starts.
Unruled ==
  step # "rule" =>
    /\ main = "absent" /\ pending = 0 /\ retired = FALSE /\ stopFailure = "null" /\ stopping = FALSE /\ gone = FALSE
    /\ emitted = 0 /\ verdict = OPEN /\ exitCode = 3
    /\ request = <<>> /\ job = NoJob /\ events = <<>> /\ blame = {}
Covering == Unprinted /\ Ruling /\ Linting /\ VerdictIsComplete

GateInv == GateTypes /\ IInv /\ Timely /\ Unruled /\ Covering

-----------------------------------------------------------------------------
(***************************************************************************)
(* Commands.                                                               *)
(***************************************************************************)
LEMMA LimitFits ==
  ASSUME clock \in Nat, clock <= GATE_DEADLINE, NEW own \in Nat \ {0}
  PROVE  LET limit == CommandLimit(own)
         IN /\ limit.ms \in Nat \ {0} /\ limit.deadline \in BOOLEAN
            /\ \A d \in 0..(limit.ms - 1) : clock + d \in Nat /\ clock + d <= GATE_DEADLINE
            /\ limit.deadline => clock + limit.ms >= GATE_DEADLINE /\ clock + limit.ms <= GATE_DEADLINE + 1
            /\ ~limit.deadline => clock + limit.ms <= GATE_DEADLINE
  BY GateConstants, SMTT(30) DEF CommandLimit

\* What a step may do to the clock and to the end of the run.
Goes == \/ step' \in Running /\ UNCHANGED <<status, reason>>
        \/ step' = "done" /\ status' \in 0..2 /\ reason' \notin {"deadline", "budget"}
Ticks(own) ==
  LET limit == CommandLimit(own)
  IN \/ \E d \in 0..(limit.ms - 1) : clock' = clock + d /\ Goes
     \/ clock' = clock + limit.ms /\ TimedOut(limit)
     \/ clock' = clock /\ Goes

LEMMA TicksTimely ==
  ASSUME clock \in Nat, Timely, step # "done", NEW own \in Nat \ {0}, Ticks(own)
  PROVE  Timely' /\ clock' \in Nat /\ step' \in Running \cup {"done"}
<1> DEFINE limit == CommandLimit(own)
<1>0. clock <= GATE_DEADLINE /\ status = -1 /\ reason = "none"
  BY DEF Timely
<1>1. /\ limit.ms \in Nat \ {0} /\ limit.deadline \in BOOLEAN
      /\ \A d \in 0..(limit.ms - 1) : clock + d \in Nat /\ clock + d <= GATE_DEADLINE
      /\ limit.deadline => clock + limit.ms >= GATE_DEADLINE /\ clock + limit.ms <= GATE_DEADLINE + 1
      /\ ~limit.deadline => clock + limit.ms <= GATE_DEADLINE
  BY <1>0, LimitFits, Zenon
<1>2. \/ \E d \in 0..(limit.ms - 1) : clock' = clock + d /\ Goes
      \/ clock' = clock + limit.ms /\ TimedOut(limit)
      \/ clock' = clock /\ Goes
  BY Zenon DEF Ticks
<1> HIDE DEF limit
<1>3. CASE clock' \in Nat /\ clock' <= GATE_DEADLINE /\ Goes
  BY <1>0, <1>3, GateConstants, SMTT(30) DEF Goes, Timely, DeadlineHolds, Running
<1>4. CASE clock' = clock + limit.ms /\ TimedOut(limit)
  <2>1. CASE limit.deadline
    BY <1>0, <1>1, <1>4, <2>1, GateConstants, SMTT(30) DEF TimedOut, Fail, Timely, DeadlineHolds, Running
  <2>2. CASE ~limit.deadline
    BY <1>0, <1>1, <1>4, <2>2, GateConstants, SMTT(30) DEF TimedOut, Fail, Timely, DeadlineHolds, Running
  <2> QED BY <1>1, <2>1, <2>2, Zenon
<1> QED BY <1>0, <1>1, <1>2, <1>3, <1>4, Zenon

\* A run that fails has nothing left to say of what it looked at.
LEMMA FailCovers == ASSUME step' = "done", status' = 2 PROVE Covering'
  BY SMTT(30) DEF Covering, Unprinted, Ruling, Linting, VerdictIsComplete, CoversTree

\* A command that is stopped, or fails, leaves the rest of the run alone.
LEMMA StoppedInv ==
  ASSUME GateInv, step \notin {"rule", "done"}, NEW own \in Nat \ {0}, UNCHANGED <<mode, runVars, scanVars>>,
         \/ clock' = clock + CommandLimit(own).ms /\ TimedOut(CommandLimit(own))
         \/ clock' = clock /\ Fail("command")
  PROVE  GateInv'
<1>1. step' = "done" /\ status' = 2
  BY DEF TimedOut, Fail
<1>2. Ticks(own)
  BY SMTT(30) DEF Ticks, Goes, Fail
<1>3. Timely' /\ clock' \in Nat /\ step' \in Running \cup {"done"}
  BY <1>2, TicksTimely, Zenon DEF GateInv, GateTypes
<1>4. GateTypes'
  BY <1>1, <1>3, Zenon DEF GateInv, GateTypes, runVars
<1>5. IInv'
  BY NextIInv DEF GateInv
<1>6. Unruled'
  BY Zenon DEF GateInv, Unruled, scanVars
<1> QED BY <1>1, <1>3, <1>4, <1>5, <1>6, FailCovers, Zenon DEF GateInv

\* The steps before the rule look at nothing yet.
Early ==
  UNCHANGED <<mode, tracked, named, styled, batch, lint, budget, scratchStatus, linkClean, lintClean, owed, printed>>
LEMMA EarlyInv ==
  ASSUME GateInv, step \in {"install", "root", "settings", "diff", "symlinks", "targets", "list"}, Timely', clock' \in Nat,
         Early, UNCHANGED scanVars, settings'.exclude \subseteq Files,
         ref' \in [known : BOOLEAN, manifest : BOOLEAN, tool : BOOLEAN, paths : SUBSET Files],
         \/ step' \in {"root", "settings"}
         \/ step' \in {"diff", "symlinks", "targets", "list"} /\ settings'.lintTimeout \in LintTimeouts
         \/ step' = "done" /\ status' = 2
  PROVE  GateInv'
<1>1. GateTypes'
  BY Zenon DEF GateInv, GateTypes, Running, Early
<1>2. IInv'
  BY NextIInv, Zenon DEF GateInv
<1>3. Covering'
  <2>1. CASE step' = "done" /\ status' = 2
    BY <2>1, FailCovers
  <2>2. CASE step' # "done"
    <3>1. step' \notin {"rule", "lint", "done"} /\ step \notin {"lint", "done"} /\ status' = -1
      BY <2>2, Zenon DEF Timely
    <3>2. owed' = 0 /\ printed' = 0
      BY <3>1, Zenon DEF GateInv, Covering, Unprinted, Early
    <3> QED BY <3>1, <3>2, SMTT(30) DEF Covering, Unprinted, Ruling, Linting, VerdictIsComplete, CoversTree
  <2> QED BY <2>1, <2>2, Zenon
<1>4. Unruled'
  BY Zenon DEF GateInv, Unruled, scanVars
<1> QED BY <1>1, <1>2, <1>3, <1>4, Zenon DEF GateInv

\* A child after which the run only goes on, or fails.
LEMMA OnwardInv ==
  ASSUME GateInv, step \in {"install", "root", "settings", "diff", "symlinks", "targets", "list"},
         Timely', clock' \in Nat, UNCHANGED <<mode, runVars, scanVars>>,
         \/ step' \in {"root", "settings"}
         \/ step' \in {"targets", "list"} /\ step \in {"symlinks", "targets"}
         \/ step' = "done" /\ status' = 2
  PROVE  GateInv'
<1>1. /\ Early /\ settings' = settings /\ ref' = ref /\ settings'.exclude \subseteq Files /\ UNCHANGED scanVars
      /\ ref' \in [known : BOOLEAN, manifest : BOOLEAN, tool : BOOLEAN, paths : SUBSET Files]
      /\ step \in {"symlinks", "targets"} => settings'.lintTimeout \in LintTimeouts
  BY Zenon DEF Early, runVars, GateInv, GateTypes
<1> QED BY <1>1, EarlyInv, Zenon

LEMMA InstallInv == ASSUME GateInv, Install PROVE GateInv'
<1> DEFINE limit == CommandLimit(INSTALL_TIMEOUT)
<1>0. INSTALL_TIMEOUT \in Nat \ {0} /\ step = "install"
  BY GateConstants DEF Install
<1>1. CASE \E d \in 0..(limit.ms - 1) :
             clock' = clock + d /\ step' = "root" /\ UNCHANGED <<mode, runVars, reason, status, scanVars>>
  <2>1. Ticks(INSTALL_TIMEOUT)
    BY <1>1 DEF Ticks, Goes, Running
  <2>2. Timely' /\ clock' \in Nat
    BY <1>0, <2>1, TicksTimely, Zenon DEF GateInv, GateTypes
  <2>3. step' = "root" /\ UNCHANGED <<mode, runVars, scanVars>>
    BY <1>1
  <2> HIDE DEF limit
  <2> QED BY <1>0, <2>2, <2>3, OnwardInv
<1>2. CASE clock' = clock + limit.ms /\ TimedOut(limit) /\ UNCHANGED <<mode, runVars, scanVars>>
  BY <1>0, <1>2, StoppedInv
<1>3. CASE Fail("command") /\ UNCHANGED <<mode, clock, runVars, scanVars>>
  BY <1>0, <1>3, StoppedInv
<1> QED BY <1>1, <1>2, <1>3, Zenon DEF Install, Command

LEMMA RepositoryRootInv == ASSUME GateInv, RepositoryRoot PROVE GateInv'
<1> DEFINE limit == CommandLimit(DEFAULT_COMMAND_TIMEOUT)
<1>0. DEFAULT_COMMAND_TIMEOUT \in Nat \ {0} /\ step = "root"
  BY GateConstants DEF RepositoryRoot
<1>1. CASE \E d \in 0..(limit.ms - 1) :
             clock' = clock + d /\ step' = "settings" /\ UNCHANGED <<mode, runVars, reason, status, scanVars>>
  <2>1. Ticks(DEFAULT_COMMAND_TIMEOUT)
    BY <1>1 DEF Ticks, Goes, Running
  <2>2. Timely' /\ clock' \in Nat
    BY <1>0, <2>1, TicksTimely, Zenon DEF GateInv, GateTypes
  <2>3. step' = "settings" /\ UNCHANGED <<mode, runVars, scanVars>>
    BY <1>1
  <2> HIDE DEF limit
  <2> QED BY <1>0, <2>2, <2>3, OnwardInv
<1>2. CASE clock' = clock + limit.ms /\ TimedOut(limit) /\ UNCHANGED <<mode, runVars, scanVars>>
  BY <1>0, <1>2, StoppedInv
<1>3. CASE Fail("command") /\ UNCHANGED <<mode, clock, runVars, scanVars>>
  BY <1>0, <1>3, StoppedInv
<1> QED BY <1>1, <1>2, <1>3, Zenon DEF RepositoryRoot, Command

LEMMA SymlinksInv == ASSUME GateInv, TrackedSymlinkRecords \/ AuditTrackedSymlinkTargets PROVE GateInv'
<1> DEFINE limit == CommandLimit(DEFAULT_COMMAND_TIMEOUT)
<1>0. DEFAULT_COMMAND_TIMEOUT \in Nat \ {0} /\ step \in {"symlinks", "targets"}
  BY GateConstants, Zenon DEF TrackedSymlinkRecords, AuditTrackedSymlinkTargets
<1>1. CASE \E d \in 0..(limit.ms - 1) :
             /\ clock' = clock + d /\ UNCHANGED <<mode, runVars, scanVars>>
             /\ (step' \in {"targets", "list"} /\ UNCHANGED <<reason, status>>) \/ Fail("symlink")
  <2>1. Ticks(DEFAULT_COMMAND_TIMEOUT)
    BY <1>1, SMTT(30) DEF Ticks, Goes, Running, Fail
  <2>2. Timely' /\ clock' \in Nat
    BY <1>0, <2>1, TicksTimely, Zenon DEF GateInv, GateTypes
  <2>3. /\ UNCHANGED <<mode, runVars, scanVars>>
        /\ step' \in {"targets", "list"} \/ (step' = "done" /\ status' = 2)
    BY <1>1 DEF Fail
  <2> HIDE DEF limit
  <2> QED BY <1>0, <2>2, <2>3, OnwardInv
<1>2. CASE clock' = clock + limit.ms /\ TimedOut(limit) /\ UNCHANGED <<mode, runVars, scanVars>>
  BY <1>0, <1>2, StoppedInv
<1>3. CASE Fail("command") /\ UNCHANGED <<mode, clock, runVars, scanVars>>
  BY <1>0, <1>3, StoppedInv
<1> QED BY <1>1, <1>2, <1>3, Zenon DEF TrackedSymlinkRecords, AuditTrackedSymlinkTargets, Command

LEMMA ChangedPathsInv == ASSUME GateInv, ChangedPathsSince PROVE GateInv'
<1> DEFINE limit == CommandLimit(DEFAULT_COMMAND_TIMEOUT)
<1>0. DEFAULT_COMMAND_TIMEOUT \in Nat \ {0} /\ step = "diff"
  BY GateConstants DEF ChangedPathsSince
<1>1. CASE \E d \in 0..(limit.ms - 1) : clock' = clock + d /\ DiffRead
  <2>1. Ticks(DEFAULT_COMMAND_TIMEOUT)
    BY <1>1, Zenon DEF Ticks, Goes, Running, DiffRead
  <2>2. Timely' /\ clock' \in Nat
    BY <1>0, <2>1, TicksTimely, Zenon DEF GateInv, GateTypes
  <2>3. settings'.exclude \subseteq Files /\ settings'.lintTimeout \in LintTimeouts
    BY <1>0, <1>1, Zenon DEF GateInv, GateTypes, DiffRead
  <2>4. step' = "symlinks" /\ Early /\ UNCHANGED scanVars
    BY <1>1, Zenon DEF Early, DiffRead
  <2>5. ref' \in [known : BOOLEAN, manifest : BOOLEAN, tool : BOOLEAN, paths : SUBSET Files]
    <3>1. CASE ref' = NoRef
      BY <3>1, Zenon DEF NoRef
    <3>2. ASSUME NEW manifest \in BOOLEAN, NEW tool \in BOOLEAN, NEW paths \in SUBSET Files,
                 ref' = [known |-> TRUE, manifest |-> manifest, tool |-> tool, paths |-> paths]
          PROVE  ref' \in [known : BOOLEAN, manifest : BOOLEAN, tool : BOOLEAN, paths : SUBSET Files]
      BY <3>2, Zenon
    <3> QED BY <1>1, <3>1, <3>2, Zenon DEF DiffRead
  <2> HIDE DEF limit
  <2> QED BY <1>0, <2>2, <2>3, <2>4, <2>5, EarlyInv, Zenon
<1>2. CASE clock' = clock + limit.ms /\ TimedOut(limit) /\ UNCHANGED <<mode, runVars, scanVars>>
  BY <1>0, <1>2, StoppedInv
<1>3. CASE Fail("command") /\ UNCHANGED <<mode, clock, runVars, scanVars>>
  BY <1>0, <1>3, StoppedInv
<1> QED BY <1>1, <1>2, <1>3, Zenon DEF ChangedPathsSince, Command

LEMMA RepositorySettingsInv == ASSUME GateInv, RepositorySettings PROVE GateInv'
<1>0. /\ step = "settings" /\ clock' = clock /\ Early /\ UNCHANGED scanVars /\ ref' = ref
      /\ ref' \in [known : BOOLEAN, manifest : BOOLEAN, tool : BOOLEAN, paths : SUBSET Files]
  BY Zenon DEF RepositorySettings, Early, GateInv, GateTypes
<1>1. CASE \E s \in [maxFiles : MaxFilesSettings, lintTimeout : LintTimeouts, exclude : SUBSET Eligible] :
             /\ settings' = s
             /\ step' = IF mode = "--changed-since" THEN "diff" ELSE "symlinks"
             /\ UNCHANGED <<reason, status>>
  <2>1. settings'.lintTimeout \in LintTimeouts /\ settings'.exclude \subseteq Files
    BY <1>1, GateConstants, Zenon
  <2>2. Timely' /\ clock' \in Nat
    BY <1>0, <1>1, Zenon DEF GateInv, GateTypes, Timely, DeadlineHolds
  <2> QED BY <1>0, <1>1, <2>1, <2>2, EarlyInv, Zenon
<1>2. CASE Fail("manifest") /\ UNCHANGED settings
  <2>1. Timely' /\ clock' \in Nat
    BY <1>0, <1>2, GateConstants, Zenon DEF GateInv, GateTypes, Timely, DeadlineHolds, Fail
  <2>2. settings'.exclude \subseteq Files /\ step' = "done" /\ status' = 2
    BY <1>2, Zenon DEF GateInv, GateTypes, Fail
  <2> QED BY <1>0, <2>1, <2>2, EarlyInv, Zenon
<1> QED BY <1>1, <1>2, Zenon DEF RepositorySettings

-----------------------------------------------------------------------------
(***************************************************************************)
(* The inventory, and the start of the rule.                               *)
(***************************************************************************)
\* SetToSeq lists a finite set: every element has a place.
LEMMA SetListed ==
  ASSUME NEW S, IsFiniteSet(S)
  PROVE  SetToSeq(S) \in Seq(S) /\ Len(SetToSeq(S)) = Cardinality(S) /\ Range(SetToSeq(S)) = S
<1> DEFINE n == Cardinality(S)
           f == SetToSeq(S)
<1>1. n \in Nat /\ ExistsBijection(1..n, S)
  BY FS_CardinalityType
<1>2. \E g \in [1..n -> S] : IsInjective(g)
  BY <1>1 DEF ExistsBijection, Bijection, Injection
<1>3. f \in [1..n -> S] /\ IsInjective(f)
  BY <1>2, Zenon DEF SetToSeq
<1> HIDE DEF f
<1>4. f \in Injection(1..n, S)
  BY <1>3 DEF Injection
<1>5. Cardinality(1..n) = n
  BY <1>1, FS_Interval, SMTT(30)
<1> HIDE DEF n
<1>6. f \in Surjection(1..n, S)
  <2>1. n = Cardinality(S)
    BY DEF n
  <2> QED BY <1>4, <1>5, <2>1, FS_Injection, Zenon
<1>7. f \in Seq(S) /\ Len(f) = n
  BY <1>1, <1>3, SMTT(30)
<1>8. Range(f) = S
  BY <1>3, <1>6, Zenon DEF Range, Surjection
<1> QED BY <1>7, <1>8 DEF f, n

LEMMA RuleBegins == ScanInit' => IInv'
  BY InitIInv, PTL

LEMMA StartRuleInv ==
  ASSUME GateInv, step = "list", NEW fs \in SUBSET Files, StartRule(fs)
  PROVE  IInv' /\ Range(files') = fs
<1>1. IsFiniteSet(fs)
  BY GateConstants, FS_Subset, Zenon
<1>2. SetToSeq(fs) \in Seq(fs) /\ Len(SetToSeq(fs)) = Cardinality(fs) /\ Range(SetToSeq(fs)) = fs
  BY <1>1, SetListed
<1>3. files' \in Seq(Files) /\ Len(files') = Cardinality(fs) /\ Range(files') = fs
  BY <1>2, SMTT(30) DEF StartRule
<1>4. found' \in [Files -> Nat]
  BY GateConstants, SMTT(30) DEF StartRule
<1>5. ScanIdle(files, found)' /\ main' = "start"
  BY <1>3, Zenon DEF StartRule, ScanIdle, GateInv, Unruled
<1>6. ScanInit'
  BY <1>3, <1>4, <1>5, Zenon DEF ScanInit, ScanIdle
<1> QED BY <1>3, <1>6, RuleBegins, Zenon

\* How the inventory's reader leaves the run.
LEMMA ListedGoes == ASSUME InventoryRead PROVE Goes
<1>1. Fail("oversize") \/ Fail("unsafe") \/ Fail("unselected") \/ Fail("library") \/ Fail("emptied") => Goes
  BY SMTT(30) DEF Fail, Goes
<1>2. ASSUME NEW s \in 0..2, Finish(s) PROVE Goes
  BY <1>2 DEF Finish, Goes
<1>3. ASSUME StartLint(0) PROVE Goes
  <2>1. GateStatus(0, lint') \in 0..2
    BY SMTT(30) DEF GateStatus, LintStatus, CombineGateStatus
  <2>2. CASE step' = "lint" /\ UNCHANGED <<status, reason>>
    BY <2>2, Zenon DEF Goes, Running
  <2> QED BY <1>1, <1>2, <1>3, <2>1, <2>2, Zenon DEF StartLint
<1>4. ASSUME NEW fs \in SUBSET Files, StartRule(fs) PROVE Goes
  BY <1>4, Zenon DEF StartRule, Goes, Running
<1>5. ASSUME NEW fs \in SUBSET Files, Selected(fs) PROVE Goes
  <2>1. CASE Finish(0) \/ Fail("emptied")
    <3>1. 0 \in 0..2
      BY SMTT(30)
    <3> QED BY <2>1, <1>1, <1>2, <3>1
  <2>2. CASE \E T \in SUBSET Files : StartRule(T)
    BY <2>2, <1>4
  <2>3. CASE StartLint(0) \/ Fail("unselected")
    BY <2>3, <1>1, <1>3, Zenon
  <2>4. fs \cap ref.paths \in SUBSET Files
    OBVIOUS
  <2> QED BY <1>5, <2>1, <2>2, <2>3, <2>4, Zenon DEF Selected
<1> QED BY <1>1, <1>5, Zenon DEF InventoryRead

\* A run that ends with status 2, wherever it was, when the rule is not running.
LEMMA FailedInv ==
  ASSUME GateTypes', Timely', IInv, Unruled, step # "rule", step' = "done", status' = 2, UNCHANGED scanVars
  PROVE  GateInv'
<1>1. IInv'
  BY NextIInv
<1>2. Unruled'
  BY Zenon DEF Unruled, scanVars
<1> QED BY <1>1, <1>2, FailCovers, Zenon DEF GateInv

LEMMA ListedInv ==
  ASSUME GateInv, step = "list", Timely', clock' \in Nat, InventoryRead
  PROVE  GateInv'
<1>0. /\ mode \in Modes /\ settings.exclude \subseteq Files /\ settings.lintTimeout \in LintTimeouts
      /\ ref \in [known : BOOLEAN, manifest : BOOLEAN, tool : BOOLEAN, paths : SUBSET Files]
      /\ tracked \subseteq Files /\ styled \subseteq Files /\ batch \subseteq Files
      /\ lint \in [failed : BOOLEAN, overflow : BOOLEAN]
      /\ budget \in Nat /\ owed \in Nat /\ printed \in Nat /\ owed = 0 /\ printed = 0
      /\ IInv /\ Unruled
  BY Zenon DEF GateInv, GateTypes, Covering, Unprinted
<1>1. CASE Fail("unsafe") /\ UNCHANGED <<mode, runVars, scanVars>>
  <2>1. GateTypes' /\ step' = "done" /\ status' = 2
    BY <1>0, <1>1, Zenon DEF GateTypes, runVars, Fail
  <2> QED BY <1>0, <1>1, <2>1, FailedInv, Zenon
<1>2. ASSUME NEW fs \in SUBSET Files, tracked' = fs, UNCHANGED <<mode, settings, ref, linkClean, lintClean, owed, printed>>,
             step' = "done", status' = 2, styled' \subseteq Files, batch' \subseteq Files,
             lint' \in [failed : BOOLEAN, overflow : BOOLEAN], budget' \in Nat, UNCHANGED scanVars
      PROVE  GateInv'
  <2>1. GateTypes'
    BY <1>0, <1>2, Zenon DEF GateTypes
  <2> QED BY <1>0, <1>2, <2>1, FailedInv, Zenon
<1>3. ASSUME NEW fs \in SUBSET Files, tracked' = fs, UNCHANGED <<mode, settings, ref, linkClean, lintClean, owed, printed>>,
             Selected(fs)
      PROVE  GateInv'
  <2> DEFINE scratch == IF WholeTree THEN fs ELSE fs \cap ref.paths
             full == StyleSelection(fs)
             emptied == fs \cap Eligible # {} /\ full = {}
  <2>0. /\ WholeTree' = WholeTree /\ Handed' = scratch /\ scratch \subseteq Files
        /\ full \subseteq Files /\ StyleSelection(tracked)' = full
    BY <1>0, <1>3, Zenon DEF WholeTree, Handed, ChangedTreeFallback, StyleSelection
  <2>1. CASE /\ mode = "--changed-since" /\ ~WholeTree /\ scratch = {}
             /\ Finish(0)
             /\ UNCHANGED <<named, styled, batch, lint, budget, scratchStatus, scanVars>>
    <3>1. GateTypes'
      BY <1>0, <1>3, <2>1, Zenon DEF GateTypes, Finish
    <3>2. IInv' /\ Unruled'
      BY <1>0, <2>1, NextIInv, Zenon DEF Unruled, scanVars
    <3>3. \A f \in fs : Vouched(f)'
      BY <1>0, <1>3, <2>1, Zenon DEF Vouched, WholeTree, ChangedTreeFallback
    <3>4. Covering'
      <4> HIDE DEF scratch, full
      <4>1. VerdictIsComplete'
        BY <1>0, <1>3, <2>0, <2>1, <3>3, Zenon DEF VerdictIsComplete, CoversTree, StyleSelection, Finish
      <4> QED BY <2>1, <4>1 DEF Covering, Unprinted, Ruling, Linting, Finish
    <3> QED BY <3>1, <3>2, <3>4 DEF GateInv
  <2>2. CASE /\ mode # "--only" /\ (WholeTree \/ scratch # {}) /\ ~emptied
             /\ styled' = full \cap scratch
             /\ StartRule(scratch)
             /\ UNCHANGED named
    <3>1. GateTypes'
      BY <1>0, <1>3, <2>0, <2>2, Zenon DEF GateTypes, StartRule, Running
    <3>2. IInv' /\ Range(files') = scratch
      BY <2>0, <2>2, StartRuleInv, Zenon
    <3>3. step' = "rule" /\ status' = -1
      BY <2>2, Zenon DEF StartRule, GateInv, Timely
    <3>4. Covering'
      <4> HIDE DEF scratch, full
      <4>1. Unprinted'
        BY <1>0, <1>3, Zenon DEF Covering, Unprinted
      <4>2. Ruling'
        BY <1>3, <2>0, <2>2, <3>2, Zenon DEF Ruling
      <4> QED BY <3>3, <4>1, <4>2, SMTT(30) DEF Covering, Linting, VerdictIsComplete, CoversTree
    <3> QED BY <3>1, <3>2, <3>3, <3>4, Zenon DEF GateInv, Unruled
  <2>3. CASE /\ mode = "--only" /\ ~emptied
             /\ \E names \in (SUBSET Files) \ {{}} :
                  /\ named' = names
                  /\ IF names \subseteq full THEN styled' = names /\ StartLint(0)
                     ELSE Fail("unselected") /\ UNCHANGED <<styled, batch, lint, budget, scratchStatus>>
             /\ UNCHANGED scanVars
    <3>1. PICK names \in (SUBSET Files) \ {{}} :
             /\ named' = names
             /\ IF names \subseteq full THEN styled' = names /\ StartLint(0)
                ELSE Fail("unselected") /\ UNCHANGED <<styled, batch, lint, budget, scratchStatus>>
      BY <2>3, Zenon
    <3>2. CASE Fail("unselected") /\ UNCHANGED <<styled, batch, lint, budget, scratchStatus>>
      BY <1>0, <1>2, <1>3, <2>3, <3>2, Zenon DEF Fail
    <3>3. CASE names \subseteq full /\ styled' = names /\ StartLint(0)
      <4>1. /\ scratchStatus' = 0 /\ batch' = names /\ names # {}
            /\ lint' = [failed |-> FALSE, overflow |-> FALSE] /\ budget' = OutputBudget /\ budget' \in Nat
            /\ \/ step' = "lint" /\ UNCHANGED <<status, reason>>
               \/ Fail("library")
        <5>1. /\ scratchStatus' = 0 /\ batch' = styled'
              /\ lint' = [failed |-> FALSE, overflow |-> FALSE] /\ budget' = OutputBudget
              /\ batch' = {} \/ (step' = "lint" /\ UNCHANGED <<status, reason>>) \/ Fail("library")
          BY <3>3, Zenon DEF StartLint
        <5>2. names # {} /\ OutputBudget \in Nat
          BY GateConstants, SMTT(30) DEF OutputBudget
        <5> QED BY <3>3, <5>1, <5>2, Zenon
      <4>2. CASE Fail("library")
        <5>1. step' = "done" /\ status' = 2 /\ UNCHANGED scanVars
          BY <2>3, <4>2, Zenon DEF Fail
        <5>2. styled' \subseteq Files /\ batch' \subseteq Files /\ lint' \in [failed : BOOLEAN, overflow : BOOLEAN]
          BY <3>3, <4>1, Zenon
        <5> QED BY <1>2, <1>3, <4>1, <5>1, <5>2, Zenon
      <4>3. CASE step' = "lint" /\ UNCHANGED <<status, reason>>
        <5>1. GateTypes'
          BY <1>0, <1>3, <2>3, <3>3, <4>1, <4>3, Zenon DEF GateTypes, Running
        <5>2. IInv' /\ Unruled'
          BY <1>0, <2>3, NextIInv, Zenon DEF Unruled, scanVars
        <5>3. status' = -1
          BY <4>3 DEF GateInv, Timely
        <5>4. Covering'
          <6> HIDE DEF scratch, full
          <6> QED BY <1>0, <1>3, <2>0, <2>3, <3>1, <3>3, <4>1, <4>3, <5>3
                , Zenon DEF Covering, Unprinted, Ruling, Linting, VerdictIsComplete, CoversTree
        <5> QED BY <5>1, <5>2, <5>4, Zenon DEF GateInv
      <4> QED BY <4>1, <4>2, <4>3, Zenon
    <3> QED BY <3>1, <3>2, <3>3, Zenon
  <2>4. CASE Fail("emptied") /\ UNCHANGED <<named, styled, batch, lint, budget, scratchStatus, scanVars>>
    BY <1>0, <1>2, <1>3, <2>4, Zenon DEF Fail
  <2> QED BY <1>3, <2>1, <2>2, <2>3, <2>4, Zenon DEF Selected, WholeTree
<1>4. ASSUME NEW fs \in SUBSET Files, tracked' = fs, UNCHANGED <<mode, settings, ref, linkClean, lintClean, owed, printed>>,
             Fail("oversize"), UNCHANGED <<named, styled, batch, lint, budget, scratchStatus, scanVars>>
      PROVE  GateInv'
  BY <1>0, <1>2, <1>4, Zenon DEF Fail
<1> QED BY <1>1, <1>3, <1>4, Zenon DEF InventoryRead

LEMMA InventoryInv == ASSUME GateInv, Inventory PROVE GateInv'
<1> DEFINE limit == CommandLimit(DEFAULT_COMMAND_TIMEOUT)
<1>0. DEFAULT_COMMAND_TIMEOUT \in Nat \ {0} /\ step = "list"
  BY GateConstants DEF Inventory
<1>1. CASE \E d \in 0..(limit.ms - 1) : clock' = clock + d /\ InventoryRead
  <2>1. Ticks(DEFAULT_COMMAND_TIMEOUT)
    BY <1>1, ListedGoes DEF Ticks
  <2>2. Timely' /\ clock' \in Nat
    BY <1>0, <2>1, TicksTimely, Zenon DEF GateInv, GateTypes
  <2>3. InventoryRead
    BY <1>1
  <2> HIDE DEF limit
  <2> QED BY <1>0, <2>2, <2>3, ListedInv
<1>2. CASE clock' = clock + limit.ms /\ TimedOut(limit) /\ UNCHANGED <<mode, runVars, scanVars>>
  BY <1>0, <1>2, StoppedInv
<1>3. CASE Fail("command") /\ UNCHANGED <<mode, clock, runVars, scanVars>>
  BY <1>0, <1>3, StoppedInv
<1> QED BY <1>1, <1>2, <1>3, Zenon DEF Inventory, Command

-----------------------------------------------------------------------------
(***************************************************************************)
(* The rule.                                                               *)
(***************************************************************************)
LEMMA RuleStepInv == ASSUME GateInv, RuleStep PROVE GateInv'
<1>1. step = "rule" /\ ScanNext /\ UNCHANGED gateVars
  BY DEF RuleStep
<1>2. IInv'
  BY <1>1, NextIInv DEF GateInv
<1>3. UNCHANGED files
  BY <1>1, Zenon DEF ScanNext, MainStep, WorkerStep, Start, OnMessage, OnError, OnExit, Expire, StopRejects,
     WorkerStarts, WorkerTakes, WorkerReplies, WorkerReplyError, Post, WorkerDies, WorkerStops, mainVars
<1>4. GateTypes' /\ Timely' /\ Unruled'
  BY <1>1, Zenon DEF gateVars, runVars, GateInv, GateTypes, Timely, DeadlineHolds, Unruled
<1>5. Covering'
  BY <1>1, <1>3, Zenon DEF gateVars, runVars, GateInv, Covering, Unprinted, Ruling, Linting, Handed, WholeTree, StyleSelection,
     VerdictIsComplete, CoversTree, Vouched
<1> QED BY <1>2, <1>4, <1>5 DEF GateInv

LEMMA RuleGoneInv == ASSUME RuleGone PROVE IInv' /\ (step' # "rule" => Unruled')
<1>1. files' \in Seq(Files) /\ Len(files') = 0 /\ found' \in [Files -> Nat]
  BY SMTT(30) DEF RuleGone
<1>2. shown' \in [1..Len(files') -> 0..MAX_FINDINGS]
  BY <1>1, SMTT(30) DEF RuleGone
<1>3. request' \in Seq([source : 1..Len(files'), limit : Nat]) /\ events' \in Seq(Event) /\ job' \in [source : Nat, limit : Nat]
  BY SMTT(30) DEF RuleGone, NoJob
<1>4. <<retired, stopping, gone>>' \in BOOLEAN \X BOOLEAN \X BOOLEAN
  BY Zenon DEF RuleGone
<1>5. ScanTypeOK'
  BY <1>1, <1>2, <1>3, <1>4, ScanConstants, SMTT(30) DEF RuleGone, ScanTypeOK, OPEN
<1>6. Phases' /\ Flight' /\ BlameIsRight' /\ Progress'
  BY SMTT(30) DEF RuleGone, Phases, Flight, BlameIsRight, Progress, OPEN
<1>7. step' # "rule" => Unruled'
  BY Zenon DEF RuleGone, Unruled
<1> QED BY <1>5, <1>6, <1>7 DEF IInv

LEMMA RuleKilledInv == ASSUME GateInv, RuleKilled PROVE GateInv'
<1> DEFINE limit == CommandLimit(DEFAULT_COMMAND_TIMEOUT)
<1>0. /\ DEFAULT_COMMAND_TIMEOUT \in Nat \ {0} /\ step = "rule"
      /\ (clock' = clock + limit.ms /\ TimedOut(limit)) \/ (Fail("command") /\ UNCHANGED clock)
      /\ RuleGone /\ UNCHANGED <<mode, runVars>>
  BY GateConstants, Zenon DEF RuleKilled
<1>1. step' = "done" /\ status' = 2
  BY <1>0 DEF TimedOut, Fail
<1>2. Ticks(DEFAULT_COMMAND_TIMEOUT)
  BY <1>0, SMTT(30) DEF Ticks, Goes, Fail
<1>3. Timely' /\ clock' \in Nat
  BY <1>0, <1>2, TicksTimely, Zenon DEF GateInv, GateTypes
<1>4. GateTypes'
  BY <1>0, <1>1, <1>3, Zenon DEF GateInv, GateTypes, runVars
<1>5. IInv' /\ Unruled'
  BY <1>0, <1>1, RuleGoneInv
<1> QED BY <1>1, <1>3, <1>4, <1>5, FailCovers DEF GateInv

\* A tracked file the run did not hand to the rule is one the base of the run vouches for.
LEMMA HandedOrVouched ==
  ASSUME mode \in Modes, mode # "--only", UNCHANGED <<mode, ref>>, NEW f \in tracked, f \notin Handed
  PROVE  Vouched(f)'
  BY Zenon DEF Handed, WholeTree, ChangedTreeFallback, Vouched, Modes

LEMMA RuleEndsInv == ASSUME GateInv, RuleEnds PROVE GateInv'
<1> DEFINE limit == CommandLimit(DEFAULT_COMMAND_TIMEOUT)
           cut == RuleLines > OutputBudget
           scratch == IF cut THEN 2 ELSE exitCode
<1>0. /\ step = "rule" /\ RuleGone /\ StartLint(scratch)
      /\ \E d \in 0..(limit.ms - 1) : clock' = clock + d
      /\ owed' = RuleLines /\ printed' = AtMost(RuleLines, OutputBudget)
      /\ linkClean' = {f \in Range(files) : found[f] = 0}
      /\ UNCHANGED <<mode, settings, ref, tracked, named, styled, lintClean>>
  BY Zenon DEF RuleEnds, EmitBounded
<1>1. /\ RuleLines \in Nat /\ exitCode \in 0..3 /\ OutputBudget \in Nat
      /\ printed' \in Nat /\ (~cut => printed' = owed')
  <2>1. ScanTypeOK
    BY Zenon DEF GateInv, IInv
  <2>2. RuleLines \in Nat /\ exitCode \in 0..3
    BY <2>1, SMTT(30) DEF RuleLines, ScanTypeOK
  <2>3. OutputBudget \in Nat
    BY GateConstants, SMTT(30) DEF OutputBudget
  <2> QED BY <1>0, <2>2, <2>3, SMTT(30) DEF AtMost
<1>2. scratch = 0 => linkClean' = Range(files)
  <2>1. exitCode = 0 => \A i \in 1..Len(files) : found[files[i]] = 0
    BY EarnedExit, Zenon DEF GateInv, ExitIsEarned
  <2>2. files \in Seq(Files)
    BY Zenon DEF GateInv, IInv, ScanTypeOK
  <2> QED BY <1>0, <2>1, <2>2, SMTT(30) DEF Range
<1>3. /\ mode # "--only" /\ mode \in Modes /\ Range(files) = Handed /\ styled = StyleSelection(tracked) \cap Handed
      /\ styled \subseteq Files /\ lintClean' = lintClean
  BY <1>0, Zenon DEF GateInv, GateTypes, Covering, Ruling
<1>4. /\ WholeTree' = WholeTree /\ Handed' = Handed /\ StyleSelection(tracked)' = StyleSelection(tracked)
      /\ tracked' = tracked /\ styled' = styled /\ mode' = mode
  BY <1>0, Zenon DEF WholeTree, Handed, StyleSelection
<1> HIDE DEF scratch, cut
<1>5. /\ scratchStatus' = scratch /\ batch' = styled
      /\ lint' = [failed |-> FALSE, overflow |-> FALSE] /\ budget' = OutputBudget
      /\ \/ batch' = {} /\ Finish(GateStatus(scratch, lint'))
         \/ batch' # {} /\ step' = "lint" /\ UNCHANGED <<status, reason>>
         \/ Fail("library")
  BY <1>0, Zenon DEF StartLint
<1>6. IInv' /\ (step' # "rule" => Unruled')
  BY <1>0, RuleGoneInv
<1>7. GateStatus(scratch, lint') = (IF scratch = 0 THEN 0 ELSE IF scratch > 1 THEN 2 ELSE 1)
  BY <1>3, <1>5, SMTT(30) DEF GateStatus, LintStatus, CombineGateStatus
<1>8. Goes /\ step' \in {"lint", "done"}
  BY <1>5, <1>7, SMTT(30) DEF Goes, Running, Finish, Fail
<1>9. Timely' /\ clock' \in Nat
  <2>1. Ticks(DEFAULT_COMMAND_TIMEOUT)
    BY <1>0, <1>8 DEF Ticks
  <2>2. DEFAULT_COMMAND_TIMEOUT \in Nat \ {0}
    BY GateConstants
  <2> QED BY <1>0, <2>1, <2>2, TicksTimely, Zenon DEF GateInv, GateTypes
<1>10. GateTypes'
  BY <1>0, <1>1, <1>3, <1>5, <1>8, <1>9, Zenon DEF GateInv, GateTypes, Running
<1>11. Covering'
  <2>1. CASE Fail("library")
    BY <2>1, FailCovers DEF Fail
  <2>2. scratch \in 0..3 /\ (scratch # 2 => printed' = owed')
    BY <1>1, SMTT(30) DEF scratch
  <2>3. CASE batch' # {} /\ step' = "lint" /\ UNCHANGED <<status, reason>>
    <3>1. status' = -1
      BY <1>0, <2>3, Zenon DEF GateInv, Timely
    <3>2. status' # 0 /\ status' \notin {0, 1}
      BY <3>1, SMTT(30)
    <3>3. Unprinted' /\ Ruling'
      BY <2>3, Zenon DEF Unprinted, Ruling
    <3>4. Linting'
      BY <1>2, <1>3, <1>4, <1>5, <2>2, <2>3, Zenon DEF Linting
    <3>5. VerdictIsComplete'
      BY <3>2, Zenon DEF VerdictIsComplete, CoversTree
    <3> QED BY <3>3, <3>4, <3>5, Zenon DEF Covering
  <2>4. CASE batch' = {} /\ Finish(GateStatus(scratch, lint'))
    <3>1. step' = "done" /\ (status' = 0 => scratch = 0) /\ (status' = 1 => scratch = 1)
      BY <1>7, <2>2, <2>4, SMTT(30) DEF Finish
    <3>2. scratch = 0 => \A f \in tracked : f \in linkClean' \/ Vouched(f)'
      BY <1>2, <1>3, <1>4, HandedOrVouched, <1>0, Zenon
    <3>3. \A f \in StyleSelection(tracked) : Vouched(f)'
      <4>1. \A f \in StyleSelection(tracked) : f \in tracked /\ f \notin Handed
        BY <1>3, <1>5, <2>4, Zenon DEF StyleSelection
      <4> QED BY <1>0, <1>3, <4>1, HandedOrVouched, Zenon
    <3>4. VerdictIsComplete'
      BY <1>3, <1>4, <2>2, <3>1, <3>2, <3>3, SMTT(30) DEF VerdictIsComplete, CoversTree
    <3> QED BY <3>1, <3>4, Zenon DEF Covering, Unprinted, Ruling, Linting
  <2> QED BY <1>5, <2>1, <2>3, <2>4, Zenon
<1> QED BY <1>6, <1>8, <1>9, <1>10, <1>11, Zenon DEF GateInv

-----------------------------------------------------------------------------
(***************************************************************************)
(* The lint children.                                                      *)
(***************************************************************************)
LEMMA BatchIsPart == ASSUME NEW fs PROVE NextBatch(fs) \subseteq fs
  BY Zenon DEF NextBatch

\* A lint child that wrote nothing found every file of its batch clean.
LEMMA SilentIsClean ==
  ASSUME NEW B \in SUBSET Files, NEW clean \in SUBSET B, NEW lines \in Nat,
         lines \in Cardinality(B \ clean)..(MaxPerFile * Cardinality(B \ clean)) \/ lines = 1, lines = 0
  PROVE  clean = B
<1> DEFINE D == B \ clean
<1>1. D \in SUBSET Files
  OBVIOUS
<1> HIDE DEF D
<1>2. IsFiniteSet(D) /\ Cardinality(D) \in Nat
  BY <1>1, GateConstants, FS_Subset, FS_CardinalityType, Zenon
<1>3. lines \in Cardinality(D)..(MaxPerFile * Cardinality(D))
  BY SMTT(30) DEF D
<1>4. Cardinality(D) = 0
  BY <1>2, <1>3, SMTT(30)
<1>5. D = {}
  BY <1>2, <1>4, FS_EmptySet
<1> QED BY <1>5 DEF D

LEMMA LintReadInv ==
  ASSUME GateInv, step = "lint", LintRead
  PROVE  /\ Goes /\ step' \in {"lint", "done"}
         /\ Timely' /\ clock' \in Nat => GateInv'
<1> DEFINE B == NextBatch(batch)
<1>0. /\ mode \in Modes /\ settings.lintTimeout \in LintTimeouts /\ styled \subseteq Files /\ batch \subseteq Files
      /\ lint \in [failed : BOOLEAN, overflow : BOOLEAN] /\ budget \in Nat /\ owed \in Nat /\ printed \in Nat
      /\ status = -1 /\ reason = "none"
  BY Zenon DEF GateInv, GateTypes, Timely
<1>1. B \subseteq batch
  BY BatchIsPart
<1>2. PICK clean \in SUBSET B, lines \in 0..(1 + MaxPerFile * Cardinality(batch)) :
        LET dirty == Cardinality(B \ clean)
            out == EmitBounded(lines, budget)
        IN /\ lines \in dirty..(MaxPerFile * dirty) \/ (clean = {} /\ lines = 1)
           /\ lint' = [failed |-> lint.failed \/ lines > 0, overflow |-> lint.overflow \/ out.cut]
           /\ budget' = IF lint.overflow THEN budget ELSE out.left
           /\ owed' = owed + lines
           /\ printed' = printed + (IF lint.overflow THEN 0 ELSE out.shown)
           /\ lintClean' = lintClean \cup clean
  BY Zenon DEF LintRead
<1>3. /\ batch' = batch \ B
      /\ \/ batch' = {} /\ Finish(GateStatus(scratchStatus, lint'))
         \/ batch' # {} /\ UNCHANGED <<step, status, reason>>
      /\ UNCHANGED <<mode, settings, ref, tracked, named, styled, scratchStatus, linkClean, scanVars>>
  BY Zenon DEF LintRead
<1> HIDE DEF B
<1>4. lines \in Nat
  BY SMTT(30)
<1>5. lines = 0 => clean = B
  <2>1. B \in SUBSET Files
    BY <1>0, <1>1
  <2>2. lines \in Cardinality(B \ clean)..(MaxPerFile * Cardinality(B \ clean)) \/ lines = 1
    BY <1>2, Zenon
  <2> QED BY <1>4, <2>1, <2>2, SilentIsClean, Zenon
<1>6. /\ lint' \in [failed : BOOLEAN, overflow : BOOLEAN] /\ budget' \in Nat /\ owed' \in Nat /\ printed' \in Nat
      /\ ~lint'.failed => ~lint.failed /\ lines = 0
      /\ ~lint'.overflow => ~lint.overflow /\ printed' - printed = owed' - owed
  <2> DEFINE out == EmitBounded(lines, budget)
  <2>1. out.shown = AtMost(lines, budget) /\ out.left = budget - AtMost(lines, budget)
    BY Zenon DEF EmitBounded
  <2>2. out.cut = (lines > budget)
    BY Zenon DEF EmitBounded
  <2>3. /\ lint' = [failed |-> lint.failed \/ lines > 0, overflow |-> lint.overflow \/ out.cut]
        /\ budget' = IF lint.overflow THEN budget ELSE out.left
        /\ owed' = owed + lines
        /\ printed' = printed + (IF lint.overflow THEN 0 ELSE out.shown)
    BY <1>2, Zenon
  <2> HIDE DEF out
  <2>4. AtMost(lines, budget) \in Nat /\ budget - AtMost(lines, budget) \in Nat
        /\ (~(lines > budget) => AtMost(lines, budget) = lines)
    BY <1>0, <1>4, SMTT(30) DEF AtMost
  <2>5. lint' \in [failed : BOOLEAN, overflow : BOOLEAN]
    BY <2>3, Zenon
  <2>6. /\ ~lint'.failed => ~lint.failed /\ ~(lines > 0)
        /\ ~lint'.overflow => ~lint.overflow /\ ~out.cut
    BY <2>3, Zenon
  <2>7. budget' \in Nat /\ owed' \in Nat /\ printed' \in Nat
    <3>1. budget \in Nat /\ owed \in Nat /\ printed \in Nat
      BY <1>0, Zenon
    <3>2. out.left \in Nat /\ out.shown \in Nat
      BY <2>1, <2>4, Zenon
    <3>3. budget' \in {budget, out.left} /\ printed' \in {printed, printed + 0, printed + out.shown}
      BY <2>3, Zenon
    <3> QED BY <1>4, <2>3, <3>1, <3>2, <3>3, SMTT(30)
  <2>8. ~lint'.failed => lines = 0
    BY <1>4, <2>6, SMTT(30)
  <2>9. ~lint'.overflow => printed' - printed = owed' - owed
    <3>1. lint'.overflow \/ (printed' = printed + lines /\ owed' = owed + lines)
      BY <2>1, <2>2, <2>3, <2>4, <2>6, Zenon
    <3>2. printed \in Nat /\ owed \in Nat
      BY <1>0, Zenon
    <3> QED BY <1>4, <3>1, <3>2, SMTT(30)
  <2> QED BY <2>5, <2>6, <2>7, <2>8, <2>9, Zenon
<1>7. GateStatus(scratchStatus, lint') \in 0..2
  BY SMTT(30) DEF GateStatus, LintStatus, CombineGateStatus
<1>8. Goes /\ step' \in {"lint", "done"}
  BY <1>3, <1>7, Zenon DEF Goes, Running, Finish
<1>9. ASSUME Timely', clock' \in Nat PROVE GateInv'
  <2>1. GateTypes'
    BY <1>0, <1>3, <1>6, <1>8, <1>9, Zenon DEF GateInv, GateTypes, Running
  <2>2. IInv' /\ Unruled'
    BY <1>3, <1>8, NextIInv, Zenon DEF GateInv, Unruled, scanVars
  <2>3. /\ batch' \subseteq styled'
        /\ ~lint'.failed => styled' \ batch' \subseteq lintClean'
    <3>1. batch \subseteq styled /\ (~lint.failed => styled \ batch \subseteq lintClean)
      BY DEF GateInv, Covering, Linting
    <3>2. lintClean' = lintClean \cup clean
      BY <1>2, Zenon
    <3> QED BY <1>3, <1>5, <1>6, <3>1, <3>2, Zenon
  <2>4. ~lint'.overflow /\ scratchStatus' # 2 => printed' = owed'
    BY <1>0, <1>3, <1>6, SMTT(30) DEF GateInv, Covering, Linting
  <2>5. /\ WholeTree' = WholeTree /\ Handed' = Handed /\ StyleSelection(tracked)' = StyleSelection(tracked)
        /\ tracked' = tracked /\ styled' = styled /\ mode' = mode /\ linkClean' = linkClean /\ named' = named
        /\ scratchStatus' = scratchStatus
    BY <1>3, Zenon DEF WholeTree, Handed, StyleSelection
  <2>6. /\ mode = "--only" => scratchStatus = 0 /\ named = styled /\ named \subseteq StyleSelection(tracked)
        /\ mode # "--only" => /\ styled = StyleSelection(tracked) \cap Handed
                              /\ scratchStatus = 0 => Handed \subseteq linkClean
    BY Zenon DEF GateInv, Covering, Linting
  <2>7. Unprinted' /\ Ruling' /\ Linting'
    BY <1>8, <2>3, <2>4, <2>5, <2>6, Zenon DEF Unprinted, Ruling, Linting
  <2>8. VerdictIsComplete'
    <3>1. CASE status' = -1
      BY <3>1, SMTT(30) DEF VerdictIsComplete, CoversTree
    <3>2. CASE batch' = {} /\ Finish(GateStatus(scratchStatus, lint'))
      <4>1. /\ status' = 0 => ~lint'.failed /\ ~lint'.overflow /\ (mode # "--only" => scratchStatus = 0)
            /\ status' \in {0, 1} => ~lint'.overflow /\ (mode # "--only" => scratchStatus # 2)
        <5>1. status' = GateStatus(scratchStatus, lint')
          BY <3>2, Zenon DEF Finish
        <5>2. lint'.failed \in BOOLEAN /\ lint'.overflow \in BOOLEAN
          BY <1>6, Zenon
        <5> QED BY <5>1, <5>2, SMTT(30) DEF GateStatus, LintStatus, CombineGateStatus
      <4>2. status' \in {0, 1} => printed' = owed'
        BY <2>4, <2>5, <2>6, <4>1, SMTT(30)
      <4>3. status' = 0 => styled \subseteq lintClean'
        BY <2>3, <2>5, <3>2, <4>1, Zenon
      <4>4. CASE mode = "--only"
        BY <2>5, <2>6, <4>2, <4>3, <4>4, Zenon DEF VerdictIsComplete, CoversTree
      <4>5. CASE mode # "--only"
        <5>1. \A f \in tracked : f \in Handed \/ Vouched(f)'
          BY <1>0, <1>3, <4>5, HandedOrVouched, Zenon
        <5>2. \A f \in StyleSelection(tracked) : f \in tracked
          BY Zenon DEF StyleSelection
        <5>3. status' = 0 => Handed \subseteq linkClean /\ StyleSelection(tracked) \cap Handed \subseteq lintClean'
          BY <2>6, <4>1, <4>3, <4>5, Zenon
        <5> QED BY <2>5, <4>2, <4>5, <5>1, <5>2, <5>3, Zenon DEF VerdictIsComplete, CoversTree
      <4> QED BY <4>4, <4>5
    <3> QED BY <1>0, <1>3, <3>1, <3>2, Zenon
  <2> QED BY <1>9, <2>1, <2>2, <2>7, <2>8, Zenon DEF GateInv, Covering
<1> QED BY <1>8, <1>9, Zenon

LEMMA LintBatchInv == ASSUME GateInv, LintBatch PROVE GateInv'
<1> DEFINE limit == CommandLimit(settings.lintTimeout)
<1>0. settings.lintTimeout \in Nat \ {0} /\ step = "lint"
  BY GateConstants, Zenon DEF LintBatch, GateInv, GateTypes
<1>1. CASE \E d \in 0..(limit.ms - 1) : clock' = clock + d /\ LintRead
  <2>1. LintRead /\ Goes
    BY <1>0, <1>1, LintReadInv
  <2>2. Ticks(settings.lintTimeout)
    BY <1>1, <2>1 DEF Ticks
  <2>3. Timely' /\ clock' \in Nat
    BY <1>0, <2>2, TicksTimely, Zenon DEF GateInv, GateTypes
  <2> HIDE DEF limit
  <2> QED BY <1>0, <2>1, <2>3, LintReadInv
<1>2. CASE clock' = clock + limit.ms /\ TimedOut(limit) /\ UNCHANGED <<mode, runVars, scanVars>>
  BY <1>0, <1>2, StoppedInv, Zenon
<1>3. CASE Fail("command") /\ UNCHANGED <<mode, clock, runVars, scanVars>>
  BY <1>0, <1>3, StoppedInv
<1> QED BY <1>1, <1>2, <1>3, Zenon DEF LintBatch, Command

-----------------------------------------------------------------------------
(***************************************************************************)
(* Theorems.                                                               *)
(***************************************************************************)
LEMMA InitGateInv == Init => GateInv
<1> SUFFICES ASSUME Init PROVE GateInv
  OBVIOUS
<1>0. /\ mode \in Modes /\ step = "install" /\ clock = 0 /\ reason = "none" /\ status = -1 /\ ref = NoRef
      /\ settings = [maxFiles |-> 0, lintTimeout |-> 0, exclude |-> {}]
      /\ tracked = {} /\ styled = {} /\ batch = {} /\ budget = 0 /\ owed = 0 /\ printed = 0
      /\ lint = [failed |-> FALSE, overflow |-> FALSE]
  BY Zenon DEF Init
<1>r. /\ main = "absent" /\ pending = 0 /\ retired = FALSE /\ stopFailure = "null" /\ stopping = FALSE /\ gone = FALSE
      /\ emitted = 0 /\ verdict = OPEN /\ exitCode = 3 /\ worker = "starting"
      /\ request = <<>> /\ job = NoJob /\ events = <<>> /\ blame = {}
  BY Zenon DEF Init, ScanIdle
<1>f. files = <<>> /\ found = [f \in Files |-> 0] /\ shown = [i \in 1..Len(<<>>) |-> 0]
  BY Zenon DEF Init, ScanIdle
<1>1. GateTypes
  <2>1. ref \in [known : BOOLEAN, manifest : BOOLEAN, tool : BOOLEAN, paths : SUBSET Files]
        /\ lint \in [failed : BOOLEAN, overflow : BOOLEAN]
    BY <1>0, Zenon DEF NoRef
  <2>2. settings.exclude = {}
    BY <1>0, Zenon
  <2> QED BY <1>0, <2>1, <2>2, Zenon DEF GateTypes, Running
<1>2. Timely /\ Unruled /\ Covering
  <2>1. Timely
    BY <1>0, GateConstants, SMTT(30) DEF Timely, DeadlineHolds
  <2>2. Unruled
    BY <1>r, Zenon DEF Unruled
  <2>3. Covering
    <3>1. status # 0 /\ status \notin {0, 1}
      BY <1>0, SMTT(30)
    <3>2. Unprinted /\ Ruling /\ Linting
      BY <1>0, Zenon DEF Unprinted, Ruling, Linting
    <3>3. VerdictIsComplete
      BY <3>1, Zenon DEF VerdictIsComplete, CoversTree
    <3> QED BY <3>2, <3>3, Zenon DEF Covering
  <2> QED BY <2>1, <2>2, <2>3
<1>3. IInv
  <2>1. /\ files \in Seq(Files) /\ Len(files) = 0 /\ found \in [Files -> Nat]
        /\ shown = [i \in 1..Len(files) |-> 0]
    BY <1>f, SMTT(30)
  <2>2. shown \in [1..Len(files) -> 0..MAX_FINDINGS]
    BY <2>1, ScanConstants, SMTT(30)
  <2>3. request \in Seq([source : 1..Len(files), limit : Nat]) /\ events \in Seq(Event)
    BY <1>r, SMTT(30)
  <2>4. job \in [source : Nat, limit : Nat]
    BY <1>r, Zenon DEF NoJob
  <2>5. <<retired, stopping, gone>> \in BOOLEAN \X BOOLEAN \X BOOLEAN
    BY <1>r, Zenon
  <2>6. ScanTypeOK
    BY <1>r, <2>1, <2>2, <2>3, <2>4, <2>5, ScanConstants, SMTT(30) DEF ScanTypeOK, OPEN
  <2>7. Phases
    BY <1>r, Zenon DEF Phases, OPEN
  <2>8. Flight /\ BlameIsRight /\ Progress
    BY <1>r, SMTT(30) DEF Flight, BlameIsRight, Progress, OPEN
  <2> QED BY <2>6, <2>7, <2>8 DEF IInv
<1> QED BY <1>1, <1>2, <1>3 DEF GateInv

LEMMA NextGateInv == GateInv /\ [Next]_vars => GateInv'
<1> SUFFICES ASSUME GateInv, [Next]_vars PROVE GateInv'
  OBVIOUS
<1>1. CASE GateStep
  BY <1>1, InstallInv, RepositoryRootInv, RepositorySettingsInv, ChangedPathsInv, SymlinksInv, InventoryInv,
     RuleEndsInv, LintBatchInv DEF GateStep
<1>2. CASE RuleStep \/ RuleKilled
  BY <1>2, RuleStepInv, RuleKilledInv
<1>3. CASE UNCHANGED vars
  <2>1. UNCHANGED gateVars /\ UNCHANGED scanVars
    BY <1>3 DEF vars
  <2>2. IInv'
    BY <2>1, NextIInv DEF GateInv
  <2>3. GateTypes' /\ Timely'
    BY <2>1, Zenon DEF gateVars, runVars, GateInv, GateTypes, Timely, DeadlineHolds
  <2>4. Unruled'
    BY <2>1, Zenon DEF gateVars, scanVars, GateInv, Unruled
  <2>5. UNCHANGED <<files, mode, step, settings, ref, tracked, named, styled, batch, lint, scratchStatus, status,
                    linkClean, lintClean, owed, printed>>
    BY <2>1, Zenon DEF gateVars, runVars, scanVars
  <2>6. Covering'
    BY <2>5, Zenon DEF GateInv, Covering, Unprinted, Ruling, Linting, Handed, WholeTree, StyleSelection,
       VerdictIsComplete, CoversTree, Vouched
  <2> QED BY <2>2, <2>3, <2>4, <2>6 DEF GateInv
<1> QED BY <1>1, <1>2, <1>3 DEF Next

\* However many children a run starts and however they share the time, it ends by its deadline, and
\* what it says stopped it is what stopped it (commandLimit, timeoutMessage, withGateDeadline).
THEOREM GateInTime == Spec => []DeadlineHolds
<1>1. GateInv => DeadlineHolds
  BY DEF GateInv, Timely
<1> QED BY <1>1, InitGateInv, NextGateInv, PTL DEF Spec

\* Status 0 of the gate covers the tree, and status 0 or 1 lost no diagnostic, for every tree, every
\* settings, every way the command line splits into batches and every output budget (runGate,
\* runChangedSince, runOnly, runScratchRule, runMarkdownlint).
THEOREM GateVerdict == Spec => []VerdictIsComplete
<1>1. GateInv => VerdictIsComplete
  BY DEF GateInv, Covering
<1> QED BY <1>1, InitGateInv, NextGateInv, PTL DEF Spec

\* The rule the gate starts keeps what is proved of it alone: its findings are blamed on the right
\* file, and its status is earned, also when the gate stops it (runScratchRule).
THEOREM GateRule == Spec => [](BlameIsRight /\ ExitIsEarned)
<1>1. GateInv => BlameIsRight /\ ExitIsEarned
  BY EarnedExit DEF GateInv, IInv
<1> QED BY <1>1, InitGateInv, NextGateInv, PTL DEF Spec
=============================================================================
