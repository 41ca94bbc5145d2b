# A verification project for golusoris

golusoris is a Go framework: some hundred packages, most of them thin Uber Fx
modules around a library, and a smaller number that own a protocol or a piece
of durable state. Beside them the repository keeps its documentation tooling, a
Markdown gate and a figure builder in JavaScript. This directory models the Go
packages that own state and that tooling. Each TLA+ module is translated from
the source of one component, TLC checks it on small instances, and TLAPS proves
its safety properties for every value of the constants. `PROJECT.json` maps each
definition to the lines it stands for and lists components, runs, mutants,
findings, hazards and theorems.

## 1. The system

### Parts that hold state or run concurrently

| part | source | state | who acts on it |
|---|---|---|---|
| outbox drainer | `outbox/` | table `golusoris_outbox`, River jobs, row locks | application transactions, one drainer per replica, the database server |
| idempotency keys | `idempotency/` | one record per scoped key: in flight or completed, token, expiry | concurrent requests, the sweep loop, the clock |
| two-tier cache | `cache/twotier`, `cache/singleflight` | L1 and epoch per replica, shared L2, flights, notices | concurrent `Get`, `Set`, `Delete`, `InvalidatePrefix`, peers' notices, bus reconnects |
| leader election and gate | `leader/`, `leader/pg`, `leader/k8s`, `leader/gate` | an advisory lock or a Lease, the session, `Status`, periodic loops | electors of all replicas, callbacks on goroutines of their own, stop hooks |
| local file bucket | `storage/` | body, attributes, journal, staged and backup files | operations under one file lock, process death and power loss between file operations |
| resumable uploads | `storage/tus` | upload lock, scratch files, completion record, object, callbacks | requests of tusd, the drain goroutine, restarts |
| Markdown gate | `tools/markdownlint` | one run: deadline, budgets, selections, exit status | the gate, its child processes, the rule's two threads |
| figures | `tools/figures` | specs, engine, output files, README, Astro's store, the built site | authors, concurrent `build` and `check`, the Astro integration |

They interact loosely. The outbox hands its events to the jobs client and needs
no leader: every replica starts a drainer and `SKIP LOCKED` keeps them apart, so
the model has several drainers and no election. The cache uses a bus that may
lose messages. An upload stores its bytes in a bucket, which its model sees as
one step that may fail; that a `Put` of the local bucket is such a step is what
`LocalBucket` shows. The gate runs the private-link rule as a child, and the
site shows the files that figure builds write: there the modules are composed.
The rest of the repository is adapters and pure code; `PROJECT.json` lists each
part with the reason it is not modelled.

### What is hard about it

* Two replicas, requests or builds work on the same rows, lock, key or files.
* A statement is applied and its reply is lost, or the process dies between two
  steps, while a server or a directory keeps what it left.
* Power goes and each directory keeps a prefix of its unsynced changes.
* A clock, an epoch, a snapshot or a digest is read before something changes and
  used after it.
* A callback of an old term, a notice of an old mutation, a reply of a retired
  worker or a commit of an old reservation arrives late.
* A limit (findings, output lines, a deadline, orphaned stages) is reached in
  the middle of a job whose verdict must stay honest.
* Something must happen in the end although something else fails forever.

## 2. Modules

| module | what it is |
|---|---|
| `Outbox`, `OutboxPromise` | the outbox and its drainers; what it promises, with no drains in it |
| `Idempotency` | HTTP and gRPC middleware over the memory, Redis and SQL stores |
| `TwoTier` | the two-tier cache of several replicas |
| `Leader` | both electors, `Status` and the gate |
| `LocalBucket` | the journalled bucket on a file system |
| `UploadLock`, `Uploads` | the lock of an upload; the upload, which extends it |
| `ScanWorker`, `MarkdownGate` | the private-link rule with its worker thread; the gate, which extends it |
| `FigureBuild`, `AstroFigures` | figure builds and checks; the site integration, which extends them |
| `Text` | JavaScript string methods on sequences of characters |
| `StyleExclusion`, `GateInputs` | settings, globs, tracked entries, command line and output budget of the gate |
| `LinkScanner`, `LinkResolution`, `LinkWalk` | where the rule finds destinations, where they lead, and the walks over documents |
| `FigureSpec`, `FigurePages`, `BuiltPages`, `DocsPages`, `PlayerArchive` | validation and text of figures, pages, built sites, page selection, the player's archive |
| `MCOutbox`, `MCTwoTier`, `MCLocalBucket`, `MCUploads`, `MCDocumentation`, `MCText`, `MCFigureText`, `MCFigures` | instances for TLC |
| `OutboxProofs`, `IdempotencyProofs`, `TwoTierProofs`, `LeaderProofs`, `LocalBucketProofs`, `UploadsProofs`, `MarkdownGateProofs`, `FiguresProofs` | theorems |

Operators whose names contain `Mut` are defective variants of the definition
that follows them. Nothing in a specification uses them: they show that each
property fails when the code is wrong in a plausible way.

### Outbox

`row[e]` is the table row, `nextAttempt` its `next_attempt_at`, `jobs` the
committed River jobs. A drain is one transaction: `Begin`, `QueryPending` (the
`FOR UPDATE SKIP LOCKED` query, ordered by next attempt and id, limited to
`Batch`), one `DispatchOK` or `DispatchFailed` per row, `Commit`. The outcome
of a row stays in `fate[d]` until the commit, so a `Rollback` loses job and mark
together. `ConnectionLost` leaves the rows locked (`orphans`) until
`ServerReaps`. `OnStart`, `OnStop` and `RunReturns` are the drainer's lifecycle;
`AddEvent`, `AppTxEnds`, `MarkDispatched` and `MarkFailed` are the application.
Times are relative to now, and offsets older than any open transaction are
renumbered in order (`Compact`), which keeps the state space finite without
bounding the number of retries. River is external: inserting a job is an effect
of the transaction.

### Idempotency

A request goes `idle` → (`reserve` → `lookup`)* → `run` → `commit` → `release`.
The SQL stores read the clock and then run one or two statements, so `at[r]` is
the reading a statement will use and `Tick` may come between; the memory and
Redis stores do each operation in one step (`Claim`). A statement runs, fails,
or runs with its reply lost (`Faults`). The token of a reservation is the
request itself, because the code draws a fresh random one per claim. HTTP and
gRPC differ in which outcomes are kept (`CaptureResponse`,
`EncodeGRPCOutcome`). `SweepStart` and `Sweep` are the sweep loop with its own
clock reading; Redis expires keys itself.

### TwoTier

Values are versions, so that "stale" can be said: `origin[k]` is what the loader
would read. A `Get` that misses takes the epoch with the L1 snapshot (`Get`),
joins or leads a flight (`Do`), asks L2 (`LoadL2`), the loader (`Load`), stores
into L2 and L1 if the epoch is still current (`StoreL2`, `FillL1`). `Set` and
`Invalidate` (both `Delete` and `InvalidatePrefix`) change both tiers and the
epoch under the lock; their failing forms may have reached L2 and leave L1 and
the epoch alone. `Broadcast` comes after the lock and reaches any subset of the
peers. `floor` and `bound` are history: the oldest version a replica may serve
and a call may return. A hit in L1 returns at once, so it is what `GetsAreFresh`
says of `l1`.

### Leader

An elector campaigns (`Connect`, `Wins`, `TryFails`), leads, loses its term,
drains its callbacks, closes its session and campaigns again, or returns to the
gate, which retries. `holder` is who the server thinks holds the lock and `ghost`
says that this session or leader is gone. `starts` are `OnStartedLeading`
goroutines that have not run; `armed` the `AfterFunc`s of `Status`. `loop` holds
the terms of the periodic loops, `stray` those canceled and waited for, `late`
those that outlived `StopTimeout`. The initial state chooses advisory lock or
Lease (`backend`), the constant `Gated` the gate or the bare Fx module.
client-go's elector is modelled from the way `leader/k8s` uses it.

### LocalBucket

An object is a body and an attribute file; a `Put` replaces both. Every
operation takes an exclusive file lock, so the state has the one operation that
holds it (`pc`, `op`). It recovers what an earlier one left (`Recover` and the
steps up to `Reclaim`), then works: `Put` stages two files and a journal, renames
the journal into place, moves the old files to backups and the new ones in,
attributes first, and syncs; an error after the journal recovers at once.
`Delete` has no journal. `Interrupted` is an error, a canceled context or the end
of the process between two steps. `PowerLoss` lets each directory fall back to
any content it had since its last sync (`dirPast`, `journalPast`,
`stagingPast`), independently of the others; file contents are synced before a
rename and never lost. `may[k]` is history: the values a read of `k` may return,
namely the last one decided and those of `Put`s and `Delete`s cut short since.

Three consequences of the code are written into the model and its properties
rather than hidden: a directory that a failed `Put` made and nobody synced takes
later objects with it in a power loss; a `Delete` that finds nothing returns
without a sync, so it confirms nothing about an earlier one; and when a power
loss keeps the journal and loses the new directory, recovery cannot open that
directory and every later operation ends there (the exception of
`JournalResolved`).

### UploadLock and Uploads

`UploadLock` is the in-memory lock of one upload: a map entry (`current`) that is
made and dropped by reference count, a FIFO queue (`ahead`), the hand-off, the
timeout that races it, and the request to let go (`asked`). An object nobody
refers to is used again, so `States` needs one more member than there are actors
that overlap. `Uploads` extends it with the scratch files, the completion record,
the bucket's object and the callbacks; each actor that holds the lock has a job
in `do`. Every step may fail (`Fails`), and a `Crash` restarts the process with
the callbacks registered in any order. tusd is external: it locks, writes and
finishes as its interfaces require.

### ScanWorker and MarkdownGate

The rule's main thread asks a worker thread for one file at a time. One action is
one event-loop callback with the continuations it releases. `pending` is the file
in flight, `events` what is on its way back; `blame` records which file each
settled scan was about. The gate is one thread that runs children one after the
other. `Command` is what each of them may do: end in time, be stopped at the limit
`CommandLimit` gives it, or fail. Tree, contents, settings and diff are chosen
when a child reads them. `linkClean`, `lintClean`, `owed` and `printed` are
history. In an incremental run the base vouches for a file when `git diff
ref...HEAD` does not name it; an uncommitted change is not in that diff, so a
file that has one counts as vouched for, as it does in the code.

### FigureBuild and AstroFigures

File contents are versions, a hash is the version it digests. A process reads
specs one by one, imports them (perhaps a newer version than it hashed), and
then compares or removes and writes file by file; `alone` says that nothing else
touched the repository meanwhile. `sources` and `portable` are one step each.
`sources` reads more than the outputs: `anchors` are the spec versions whose cited
code is still there (`EditCode`), `kinds` the kinds of fence the site configuration
enables (`EditConfig`), and an engine version decides the sizes and the markup its
JSON records (`Size`, `Markup`). The Astro
process goes through setup, the player's download, the content store,
serving or publishing; another process's writes reach it through `Notice`, which
arms the timer of the watcher. Astro's hook order and its store, which keeps pages
while the configuration digest is unchanged, are external.

### Text algorithms

The pure functions of the tooling are operators on sequences of model characters,
where one character may stand for a keyword or a name. `MCText` builds every input
from a few pieces, one state per input, and on the step that hands an input to its
algorithm compares the result with a reference definition written from what the
algorithm promises: the set of matches of a glob, the destinations the pieces were
built to contain, the tree that a description came from. RECURSIVE operators
appear only in these modules. Where the code departs from the promise in a way
that is its own, the reference says so instead of leaving the inputs out:

* `ScratchLinksFound`: a destination that begins with a single backslash is not
  reported, although it names the site's root (run `scratch_links`). Readings are
  those of the URL parser: relative to the source and to the repository's root,
  file URLs, drives and network shares; another scheme or host leads elsewhere.
  A file with more lines or parser events than its size allows, and a syntax-tree
  node with too many properties, are refused.
* `PagesBuilt`: `scanPage` is compared with the reading of Python's `html.parser`,
  whose rules its comments name, not with a browser's. A URL the site check
  accepts is served as the same file unless it holds a percent sign: only the
  server decodes it, and answers 400 when it cannot.
* `DocsSelected`: a directory whose name ends like a page's is listed as a page.
  A pattern with a backslash is refused.

## 3. Runs

Eight runs pass and four show that a comment of the repository says more than
the code does.

| run | instance | shows |
|---|---|---|
| `outbox` | 2 drainers with an ordinary and a dropped event and 2 faults; or 1 drainer with 2 poison events and a healthy one; batch 2 | `JobsMatchRows`, `BatchesPartitionPending`, `ImplementsPromise` (refinement), `StoredIsDispatched` |
| `idempotency_stores` | 2 requests, an HTTP and a gRPC key, 2 payloads, SQL and Redis | `ExclusiveExecution`, `ReplayIsFaithful`, `NoRerun`, `EveryRequestAnswered` |
| `idempotency_replay` | 2 requests, memory store | violation of `CompletedRetriesReplay` |
| `twotier_fresh` | 1 replica over an L2 with 2 concurrent calls; or 2 replicas, no L2, lossy notices | `GetsAreFresh`, `EveryGetReturns` |
| `twotier_shared` | 2 replicas over one L2 | violation of `L2HoldsPeersWrite` |
| `leader_elect` | 2 gated replicas, advisory lock or Lease, 2 faults | `LoopsHoldLock`, `StatusTracksTerm`, `LeadershipRecovers`, `StatusSettles` |
| `leader_pg_module` | 2 replicas without the gate, 1 fault | violation of `RunsUntilCanceled` |
| `local_bucket` | 1 key and 4 values, or 2 keys and 1 value; 2 faults | `ReadsWhole`, `BackupsAreJournalled`, `StagesBounded`, `JournalResolved` |
| `uploads` | 2 requests, the drain goroutine, 2 callbacks, 2 failures or crashes | `OneHolder`, `UploadKept`, `UploadsProgress` |
| `documentation` | 3 files, 3 modes, deadline 3; and the text algorithms | `BlameIsRight`, `ExitIsEarned`, `DeadlineHolds`, `VerdictIsComplete`, `GateEnds`; `StyleSelected`, `InputsGuarded`, `ScratchLinksFound`, `FiguresDescribed`, `PagesBuilt`, `DocsSelected`, `PlayerInstalled` |
| `scratch_links` | the destinations of `documentation` | violation of `EverySpellingFound` |
| `figures` | 4 scenes: builds and checks that crash, that race, beside a development server, beside warm site builds | `CommandsDecide`, `SourcesAgree`, `ServedIsFresh`, `BuiltIsCurrent`, `LoaderServed`, `FreshAtLast` |

**Bounds and why they are enough.** Two actors are the fewest that race.

* *Outbox.* Two drainers with two faults let one lose its connection and the other
  fail while the first one's rows are still locked; two poison events that fill a
  batch are the fewest that could keep a healthy event out of every batch.
* *Idempotency.* `TTL = 1` and `MaxTime = 2` make the instant of expiry, the tick
  before and the tick after it distinct; two requests let a reservation expire, be
  taken over and be finished late. `MaxClaimAttempts` is 2 instead of 4, so that
  giving up is reached.
* *TwoTier.* Two versions and two epochs let a load be overtaken by an update and a
  mutation twice.
* *Leader.* Two faults let a session break while the other replica's stop times
  out.
* *LocalBucket.* Two faults let a recovery be interrupted that an interruption
  made necessary, by power loss too. `MaxOrphanStages` is 3 instead of 16, the
  smallest limit under which a `Put` with its three stages can work at all.
* *Uploads.* Two mishaps let a completion fail, and the retry or the process die;
  two callbacks let one succeed and the other not; `Size = 1` tells an incomplete
  upload from a complete one. `FirstComesFirst` names the requests in the order
  they come while none is there, which loses no behaviour up to renaming.
* *Documentation.* Three files with paths of lengths 1 to 3 and a command line of 4
  bytes give one or several batches; a deadline of 3 ticks falls into every child,
  between two children and on the limit of one; one finding and two lines are the
  fewest that can be exceeded by one. The bounds of the text algorithms are
  the code's own limits made small, each reached and exceeded.
* *Figures.* Two figures, two processes, a crash and two edits let a build render a
  version that is replaced while it runs and leave torn or orphaned files; three
  engine versions let one be replaced by another with the same markup, and by one
  that records no sizes; three site runs let a run inherit the pages of one that inherited pages.

Faults are bounded by `MaxFaults`, `MaxMishaps` and `MaxCrashes`, calls by
`MaxCalls` and `MaxRuns`, edits by `MaxEdits`, restarts by `MaxSiteRuns`, time by
`MaxTime`, mutations by `MaxEpoch`, updates by `MaxVersion`; nothing else is cut
off.

**Deadlock** is checked except where the system may stop: all replicas may be
stopped (`Leader`), all requests and mishaps spent (`Uploads`), a run of the gate
over, and all edits and runs made (figures). `Quiet` lets the bounded clock of
`Idempotency` end without hiding a stuck request: it is enabled only when every
request is over.

**Fairness** is weak throughout.

* Outbox: `Run`'s loop polls, every statement has `DrainTimeout`, a stopped
  replica is started again, and the server ends dead connections.
* Idempotency: a handler returns, statements return, the sweep loop runs at its
  interval. Requests need not arrive and crashes need not happen.
* TwoTier: L2 and the loader answer or fail (they are called with a context).
  No mutation, notice or reconnect is fair.
* Leader: goroutines are scheduled, timers fire, canceled ticks return, and
  dead sessions or stale Leases end. Faults, stops and timeouts are not fair.
* LocalBucket: an operation that has the lock goes on, and the bucket is used
  again (`JournalResolved` needs a next operation).
* Uploads: `Lock`, `Unlock` and the steps of a job go on, a holder that was asked
  to let go stops writing, the drain goroutine keeps looking. No request and no
  timeout of a waiting request is fair.
* Gate: its thread runs on, events and expired timers are handled, a worker told
  to stop stops. A scan need not end, and the gate's own limit need not stop the
  rule.
* Figures: a started process goes on unless killed, timers fire. No edit, no start
  and no stop is fair.

**Each property against a defect.** `PROJECT.json` names, for each property of
each passing run, a defective variant of a mapped definition under which TLC
finds the property violated: a drop of the row lock, an expiry compared one tick
early, an unfenced store, a session closed before the loops ended, a journal
removed before the directory is synced, a map entry dropped while referred to, a
child with its own limit instead of the time left, an unlink that the watcher
does not report, and so on.

## 4. What the violated runs show

1. **A response after an informational header is not replayed**
   (`idempotency/idempotency.go:388`). The recorder keeps the first status code.
   A handler that sends 103 and then 200 is stored with 103, and each retry is
   answered by the "invalid stored response" error. The package comment says
   "Completed retries replay the response".
2. **L2 may hold a version older than the write a notice stands for**
   (`cache/twotier/twotier.go:225`). The epoch is per replica, so it fences the
   replica's own mutations only. A load in flight at B writes the old version to
   the shared L2 after A deleted the key and before B hears of it. The comment
   of `applyInvalidation` says "L2 already holds the peer's write". This is why
   `GetsAreFresh` is claimed for one replica over an L2, or several without one.
3. **An elector stops for good after one error** (`leader/pg/pg.go:100`). `Run`
   returns the first error of `Acquire` or the try-lock, and the bare module only
   logs it. The interface says "Run blocks until ctx is canceled". Under the gate
   elections are retried and `LeadershipRecovers` holds.
4. **One spelling of a scratch destination is no finding**
   (`tools/markdownlint/no-private-scratch-links.mjs:209`). The URL parser reads a
   leading backslash as it reads a slash, as the site's root. For a path outside
   the repository's, `resolveURLDestination` asks whether the candidate itself
   starts with a slash, so the form with one backslash is passed over. The comment
   of `selfTestBlocked` says "every spelling of a private scratch destination is a
   finding". `ScratchLinksFound` names this exception and shows that it is the only
   one among the spellings checked.

## 5. Proofs

All proofs are checked by TLAPS with Z3, Zenon and LS4. They hold for every
value of the constants that satisfies the modules' `ASSUME`s; the bounds of
section 3 are constants too, so they may be any number. Every safety invariant
that a passing run of a state machine checks is the subject of a theorem. Eight
more properties are proved and are not part of a run: `QueueIsServed`,
`FirstComeFirstServed`, `MapIsClean`, `RecordAdvances`, `AcknowledgedSurvives`,
`OnlyAnnounced`, `FlightsAreLed` and `LoopsExclusive`.

| module | theorems |
|---|---|
| `OutboxProofs` | `TypeCorrect`, `OutboxAtMostOneJob`, `OutboxJobsMatchRows`, `OutboxBatchesPartition`; `OutboxImplementsPromise` (refinement) |
| `IdempotencyProofs` | `IdempotencyTypes`, `IdempotencyExclusive`, `IdempotencyAckedIsKept`, `IdempotencyReplays`; `IdempotencyNoRerun` (an action property) |
| `TwoTierProofs` | `TwoTierTypes`; `TwoTierFresh`, for one replica or no L2 (`Coherent`); `TwoTierFlights`, in every configuration |
| `LeaderProofs` | `LeaderTypes`, `LeaderLoopsHoldLock`, `LeaderLoopsFollowTerm`, `LeaderLoopsExclusive`, `LeaderStatus`, `LeaderRunningIsReady`, over the advisory lock, with and without the gate |
| `LocalBucketProofs` | `BucketTypes`, `BucketReadsWhole`, `BackupsHaveJournal`, `StagesAreBounded`, `AcknowledgedIsKept`; `DecidedIsKept` (an action property) |
| `UploadsProofs` | `LockExclusive`, `LockServesQueue`, `LockForgets`; `LockServesInOrder` (an action property); `UploadUsesLock` (an upload implements the lock's specification, so the theorems about the lock hold of it); `UploadIsKept`; `RecordOnlyAdvances` (an action property) |
| `MarkdownGateProofs` | `ScanTypes`, `ScanBlame`, `ScanEarned` of the rule alone; `GateInTime`, `GateVerdict`, and `GateRule`, the rule inside the gate |
| `FiguresProofs` | `CommandsAreRight`, `SourcesAreRight`, `SiteShowsFiles`, `SiteIsCurrent`, `PlayerIsServed` |

**Assumptions** are those a reader would expect of a configuration: counts are
natural numbers, sets of actors finite, special values distinct, files and
figures numbered. Three say more. `LocalBucket` needs `MaxOrphanStages >= 3`,
because a `Put` has three stages (the code's limit is 16). `Uploads` needs all
deployments to register the same callbacks, in whatever order: a callback that a
restarted process does not know cannot be delivered. `MarkdownGate` needs the
limits of the children to be positive and the manifest's `max_files` to be at
most `MAX_FILES`, which `documentationSettings` enforces.

**Why the invariants need strengthening.**

* *Outbox.* "At most one job" is kept by a commit only if the committed rows were
  pending, which `BatchesPartitionPending` says, and a mark has a job only if a
  recorded drop is one the dispatcher asked for; the conjunction is inductive.
  The refinement then maps a commit to `Deliver` of the rows it turns, and every
  other step to `Store` or a stutter.
* *Idempotency.* A stale clock reading is harmless because it is never from the
  future (`Clocks`) and a reservation's expiry is computed from the very reading
  its holder remembers (`Leases`): whoever finds the row vacant at an older
  reading finds it vacant now. `RowsOwned` ties a row to a request that is past
  its claim and has that key and payload, which makes tokens unforgeable by
  late commits and gives faithful replays (`Ends`).
* *TwoTier.* `GetsAreFresh` speaks of tiers and finished flights; it is preserved
  only because a loaded version is good for every caller that shares key and
  epoch, and good for the tiers while the epoch is current (`FlightsFresh`), and
  because no floor exceeds the origin (`Bounded`), so a fresh load is always
  good. With several replicas over an L2 the second conjunct of `TiersFresh`
  fails, as the run `twotier_shared` shows. `FlightsAreLed` rests on singleflight
  alone: a call joins a flight that runs or leads its own, a flight that ends
  takes all its callers with it, and a mutation changes the epoch of later calls
  only. So it holds of several replicas over an L2 too.
* *Leader.* Loops, unfinished starts and canceled ticks are tied to the current
  term and to the phase of the campaign (`Terms`), and an open session holds the
  lock from winning to closing (`Sessions`). As at most one session holds the
  lock, loops beside an open session are one replica's (`LoopsExclusive`).
* *LocalBucket.* `ReadsWhole` looks at one moment; a power loss may bring back any
  combination of a journal and files since the last syncs. `CrashSafe` says that
  every such combination recovers to a possible value: files without a journal
  have no backups and read as a possible value (`Untouched`), a journal that was
  removed changes nothing should it come back (`Harmless`), and the journal that
  is there leads to a possible value from every past content of its directory
  (`Recoverable`). `Knows` says what each step of an operation may rely on, for
  instance that the directory is synced before the journal is dropped. For
  `StagesBounded` the reclaim empties the staging directory before a `Put` adds
  its three files, whatever a power loss brings back (`StageRoom`). `ReadsWhole`
  would say little if `may` could grow at will: `OnlyAnnounced` lists the steps
  that add a value, and `Decided` follows an operation from its last such step to
  its return. With `CrashSafe` that gives `AcknowledgedSurvives`: a `Put` that
  returns leaves one possible value, and while one value is possible every journal
  and every content of the directory a power loss may leave recover to it. The
  exception is a whole directory that an earlier `Put` made and never synced,
  which `OnlyAnnounced` names.
* *UploadLock.* A grant and a timeout race, so the holder is whoever left the queue
  without timing out, noticed or not (`HasLock`); it is alone, and alone in the
  state object the map has, because the reference count of an object is the
  number of its users (`References`). For the queue, `Passed` says that the lock
  of an object somebody is queued for has been given to someone, and `InLine`
  that those ahead of a queued request are queued too, without a cycle; a
  nonempty finite queue then has a head (strict inclusion of finite sets is
  well-founded), so `handoff` finds one.
* *Uploads.* `Knows(a)` says what the holder of the lock knows at each step of its
  job, from the bytes on disk to the record it read; only the holder can change
  it, by `LockExclusive`. `Durable` is what files, record and bucket say of each
  other when nobody works, and is what a restart finds. For `RecordAdvances`,
  `Copies` adds that the copy the holder runs callbacks from is the record, or one
  succeeded callback ahead of it, and that a completed upload is removed only
  with a record that names every callback.
* *ScanWorker.* At most one request is in flight, and it is posted, being scanned,
  answered, or lost with the worker (`Flight`); so the next event can only be
  about the pending file. `Progress` counts the files done so far.
* *MarkdownGate.* `Timely`: while the gate runs its clock has not passed the
  deadline, so what is left is the limit of the next child. `Covering`: what has
  been handed to the rule, linted and printed so far, by step; with `Unruled`,
  the rule's invariant holds of the rule inside the gate, and `Progress` turns
  its exit status 0 into "every file handed over is clean".
* *FigureBuild.* A process that is still alone is faithful to the repository as it
  stands: what it has loaded is the rendering of the specs as they are, what it
  has still to remove or write is the difference, and what it exits with is the
  truth (`Faithful`). Any other process's change ends `alone`, so nothing has to
  be said of interleavings beyond it.
* *AstroFigures.* While nothing changed since setup, the digest in the options is
  the digest of the files, and pages agree with the digest they were rendered
  under (`PageInv`); a change before the watcher is `missed`, a later one arms the
  timer. Pages of an earlier run are kept only under an equal digest, and agree
  with it unless that run raced. `PlayerInv`: the mounted directory is the one
  recorded, recorded directories are never the leaked ones, and run numbers are
  fresh.

**Only model-checked.**

* Liveness under fairness, outside this prover: `StoredIsDispatched`,
  `EveryRequestAnswered`, `EveryGetReturns`, `LeadershipRecovers`,
  `StatusSettles`, `JournalResolved`, `UploadsProgress`, `GateEnds`,
  `FreshAtLast`.
* The text algorithms (`StyleSelected`, `InputsGuarded`, `ScratchLinksFound`,
  `FiguresDescribed`, `PagesBuilt`, `DocsSelected`, `PlayerInstalled`): what a
  recursive definition computes for every input needs induction over data, and
  RECURSIVE operators are outside the prover's reach.
* The Lease elector: client-go keeps leading until its deadline although another
  replica may hold the Lease, so `LoopsHoldLock` is not claimed of it, and
  `StatusSettles` is liveness.

## 6. What is left out

**Of the modelled components.** Payloads, digests, headers, encodings, key
composition and the matching of cache prefixes are data that no property tells
apart. In the gate of `leader/gate`: `Gate.alive` and the age of an election in
`Health`, a `Loop` whose `Start` fails, the standalone gate, tick observers, and
the bounds `maxElections` and `maxTicks`. Clock skew between replicas is not
modelled: the idempotency requests share one clock, which the Redis store and a
single database host justify only in part. A tick that outlives `StopTimeout` is
in `late` and excluded from `LoopsHoldLock`; the overlap it allows is what the
timeout is for. Power loss is modelled for the bucket, not for the scratch
directory of uploads, nor is the removal of a private scratch root at a graceful
stop. Markdown, HTML and JavaScript parsers, markdownlint and the drawing of
figures are libraries; the self-tests in the tooling and `.mdx` pages are not
modelled, and of evidence anchors only whether they are there. Hazards without a property are listed in
`PROJECT.json`, each with the reason.

**Components.** Change data capture (`db/cdc`, `outbox/cdc`) would be the next one
to model: the acknowledged position under reconnects and failing sinks.
Subscriptions, sessions and lockout read and write whole records of a store the
application supplies, without a conditional write; what concurrent requests do
to each other there is the store's. Outbound webhooks, the shutdown gate and the
jobs client are short sequential code around one mutex or an external queue. The
remaining packages are adapters, codecs and pure helpers.

**Coverage.** The share of source lines that `map` covers counts the JavaScript
tooling, where one file holds thousands of lines of scanners, and the Go
packages' protocol code; most other Go lines are adapters with no state.

## 7. Running it

    tlc -workers 2 -config Outbox.cfg MCOutbox
    tlapm OutboxProofs.tla

Each run takes less than five minutes on two cores; `PROJECT.json` names the module
and the configuration of each. The proofs of `LocalBucketProofs`,
`MarkdownGateProofs`, `UploadsProofs` and `FiguresProofs` take five to twenty minutes
each from nothing.
