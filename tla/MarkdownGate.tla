---------------------------- MODULE MarkdownGate ----------------------------
(***************************************************************************)
(* tools/markdownlint/verify.mjs: one run of the documentation gate         *)
(* (`gate`), of `--changed-since <ref>` or of `--only <file>...`, and the   *)
(* private-link rule it starts (ScanWorker).  The gate is one thread that   *)
(* runs one child process after another; an action is one child together   *)
(* with the synchronous code up to the next child.  Time is counted in      *)
(* ticks and passes only while a child runs.                                *)
(*                                                                          *)
(* The repository's contents are chosen when a child reads them: whether a  *)
(* file is tracked, changed, holds a forbidden link or a style finding.     *)
(***************************************************************************)
EXTENDS ScanWorker, Integers, FiniteSetsExt, SequencesExt

CONSTANTS
  Eligible,               \* files isStyleSelected accepts
  PathBytes(_),           \* bytes of a path on a command line
  MAX_COMMAND_BYTES, GATE_DEADLINE, INSTALL_TIMEOUT, DEFAULT_COMMAND_TIMEOUT,
  LintTimeouts,           \* values documentation.lint_timeout_seconds may have
  MaxFilesSettings,       \* values documentation.max_files may have
  MAX_DIAGNOSTIC_OUTPUT_LINES,
  MaxPerFile              \* bound on the findings one file holds

ASSUME GateConstants ==
  /\ Files \subseteq Nat /\ IsFiniteSet(Files) /\ Eligible \subseteq Files
  /\ MaxFilesSettings \subseteq 1..MAX_FILES
  /\ GATE_DEADLINE \in Nat
  /\ INSTALL_TIMEOUT \in Nat \ {0} /\ DEFAULT_COMMAND_TIMEOUT \in Nat \ {0} /\ LintTimeouts \subseteq Nat \ {0}
  /\ MAX_DIAGNOSTIC_OUTPUT_LINES \in Nat \ {0} /\ MaxPerFile \in Nat

VARIABLES
  mode, step, clock,
  settings,      \* documentationSettings
  ref,           \* what `git diff ref...HEAD` says: an unknown ref, or the changed paths
  tracked,       \* the Markdown files `git ls-files` lists
  named,         \* the files --only names
  styled,        \* the style selection
  batch,         \* files the lint batches still to run hold
  lint,          \* runMarkdownlint: failed, overflow
  budget,        \* diagnostic lines the lint run may still print
  scratchStatus, \* what runScratchRule returned
  reason,        \* what stopped the run: a limit, another failure, or nothing
  status,        \* the gate's exit status, -1 while it runs
  linkClean,     \* history: files handed to the rule that hold no forbidden link
  lintClean,     \* history: files handed to a lint child that hold no finding
  owed, printed  \* history: diagnostic lines the children wrote and the gate printed

runVars == <<settings, ref, tracked, named, styled, batch, lint, budget, scratchStatus,
             linkClean, lintClean, owed, printed>>
gateVars == <<mode, step, clock, runVars, reason, status>>
vars == <<gateVars, scanVars>>

Modes == {"gate", "--changed-since", "--only"}
NoRef == [known |-> FALSE, manifest |-> FALSE, tool |-> FALSE, paths |-> {}]

(***************************************************************************)
(* Commands and the gate deadline.                                         *)
(***************************************************************************)
CommandLimitMutOwn(own) == [ms |-> own, deadline |-> FALSE]
\* commandLimit: the command's own limit, or the time left before the deadline.
CommandLimit(own) ==
  LET left == GATE_DEADLINE - clock
  IN IF left < own THEN [ms |-> IF left < 1 THEN 1 ELSE left, deadline |-> TRUE]
     ELSE [ms |-> own, deadline |-> FALSE]

\* A GateFailure leaves withGateDeadline and main, and entry sets the exit status.
Fail(why) == step' = "done" /\ status' = 2 /\ reason' = why

\* timeoutMessage and lintBudgetReport name the limit that stopped the child.
TimedOut(limit) == Fail(IF limit.deadline THEN "deadline" ELSE "budget")

\* command: the child ends in time and After follows; or it is stopped at the limit; or it does
\* not start, overflows its capture, dies of a signal or exits nonzero where that is a failure.
Command(own, After) ==
  LET limit == CommandLimit(own)
  IN \/ \E d \in 0..(limit.ms - 1) : clock' = clock + d /\ After
     \/ clock' = clock + limit.ms /\ TimedOut(limit) /\ UNCHANGED <<mode, runVars, scanVars>>
     \/ Fail("command") /\ UNCHANGED <<mode, clock, runVars, scanVars>>

(***************************************************************************)
(* Lint batches and bounded output.                                        *)
(***************************************************************************)
\* batches: the next batch of the files still to lint, as many paths as fit the command line and
\* at least one.
NextBatch(fs) ==
  LET bytes(f) == MapThenSumSet(LAMBDA g : PathBytes(g) + 1, {g \in fs : g <= f})
  IN {f \in fs : f = Min(fs) \/ bytes(f) <= MAX_COMMAND_BYTES}

\* outputBudget: one line is kept for the truncation marker.
OutputBudget == MAX_DIAGNOSTIC_OUTPUT_LINES - 1

\* emitBounded on n lines with `lines` left: what it prints, what is left, whether it cut.
EmitBounded(n, lines) == [shown |-> AtMost(n, lines), left |-> lines - AtMost(n, lines), cut |-> n > lines]

\* combineGateStatus, and the last line of runGate.
CombineGateStatus(scratch, linted) ==
  IF scratch = 0 /\ linted = 0 THEN 0 ELSE IF scratch > 1 \/ linted > 1 THEN 2 ELSE 1

Finish(s) == step' = "done" /\ status' = s /\ reason' = "none"

LintStatusMutCut(l) == IF l.failed \/ l.overflow THEN 1 ELSE 0
\* runMarkdownlint's return, and what the mode makes of it.
LintStatus(l) == IF l.overflow THEN 2 ELSE IF l.failed THEN 1 ELSE 0
GateStatus(scratch, l) ==
  IF mode = "--only" THEN LintStatus(l) ELSE CombineGateStatus(scratch, LintStatus(l))

\* runMarkdownlint begins: markdownlintEntry refuses a library that is not the locked one.
StartLint(scratch) ==
  /\ scratchStatus' = scratch
  /\ batch' = styled'
  /\ lint' = [failed |-> FALSE, overflow |-> FALSE]
  /\ budget' = OutputBudget
  /\ \/ batch' = {} /\ Finish(GateStatus(scratch, lint'))
     \/ batch' # {} /\ step' = "lint" /\ UNCHANGED <<status, reason>>
     \/ Fail("library")

(***************************************************************************)
(* The run up to the rule.                                                 *)
(***************************************************************************)
Install ==
  /\ step = "install"
  /\ Command(INSTALL_TIMEOUT, step' = "root" /\ UNCHANGED <<mode, runVars, reason, status, scanVars>>)

RepositoryRoot ==
  /\ step = "root"
  /\ Command(DEFAULT_COMMAND_TIMEOUT, step' = "settings" /\ UNCHANGED <<mode, runVars, reason, status, scanVars>>)

\* repositorySettings: a manifest that cannot be read or is out of range fails the gate.
RepositorySettings ==
  /\ step = "settings"
  /\ \/ \E s \in [maxFiles : MaxFilesSettings, lintTimeout : LintTimeouts, exclude : SUBSET Eligible] :
          /\ settings' = s
          /\ step' = IF mode = "--changed-since" THEN "diff" ELSE "symlinks"
          /\ UNCHANGED <<reason, status>>
     \/ Fail("manifest") /\ UNCHANGED settings
  /\ UNCHANGED <<mode, clock, ref, tracked, named, styled, batch, lint, budget, scratchStatus,
                 linkClean, lintClean, owed, printed, scanVars>>

\* changedPathsSince: git does not know the ref, or names the paths that changed.
DiffRead ==
  /\ \/ ref' = NoRef
     \/ \E manifest, tool \in BOOLEAN, paths \in SUBSET Files :
          /\ manifest \/ tool => paths = {}   \* what else changed then plays no part
          /\ ref' = [known |-> TRUE, manifest |-> manifest, tool |-> tool, paths |-> paths]
  /\ step' = "symlinks"
  /\ UNCHANGED <<mode, settings, tracked, named, styled, batch, lint, budget, scratchStatus,
                 linkClean, lintClean, owed, printed, reason, status, scanVars>>
ChangedPathsSince == step = "diff" /\ Command(DEFAULT_COMMAND_TIMEOUT, DiffRead)

\* trackedSymlinkRecords: a malformed index is refused; readSymlinkTargets asks git nothing when
\* there is no symlink.
TrackedSymlinkRecords ==
  /\ step = "symlinks"
  /\ Command(DEFAULT_COMMAND_TIMEOUT,
       \/ step' \in {"targets", "list"} /\ UNCHANGED <<mode, runVars, reason, status, scanVars>>
       \/ Fail("symlink") /\ UNCHANGED <<mode, runVars, scanVars>>)

\* readSymlinkTargets and the rest of auditTrackedSymlinkTargets: a private target is refused.
AuditTrackedSymlinkTargets ==
  /\ step = "targets"
  /\ Command(DEFAULT_COMMAND_TIMEOUT,
       \/ step' = "list" /\ UNCHANGED <<mode, runVars, reason, status, scanVars>>
       \/ Fail("symlink") /\ UNCHANGED <<mode, runVars, scanVars>>)

\* runScratchRule starts the rule on an inventory, whose order makes no difference.
StartRule(fs) ==
  /\ step' = "rule" /\ main' = "start"
  /\ files' = SetToSeq(fs)
  /\ found' \in {fnd \in [Files -> 0..MaxPerFile] : \A f \in Files \ fs : fnd[f] = 0}
  /\ shown' = [i \in 1..Cardinality(fs) |-> 0]
  /\ worker' = "starting"
  /\ UNCHANGED <<pending, retired, stopFailure, stopping, gone, emitted, verdict, exitCode,
                 request, job, events, blame, batch, lint, budget, scratchStatus, status, reason>>

ChangedTreeFallbackMutTool(r) == ~r.known \/ r.manifest
\* changedTreeFallback: a changed manifest or tool file, like an unknown ref, means the whole tree.
ChangedTreeFallback(r) == ~r.known \/ r.manifest \/ r.tool

StyleSelection(fs) == (fs \cap Eligible) \ settings.exclude

\* What the mode lints and hands to the rule, once the inventory passed its checks.
Selected(fs) ==
  LET wholeTree == mode = "gate" \/ (mode = "--changed-since" /\ ChangedTreeFallback(ref))
      scratch == IF wholeTree THEN fs ELSE fs \cap ref.paths
      full == StyleSelection(fs)
      emptied == fs \cap Eligible # {} /\ full = {}
  IN \/ /\ mode = "--changed-since" /\ ~wholeTree /\ scratch = {}
        /\ Finish(0)
        /\ UNCHANGED <<named, styled, batch, lint, budget, scratchStatus, scanVars>>
     \/ /\ mode # "--only" /\ (wholeTree \/ scratch # {}) /\ ~emptied
        /\ styled' = full \cap scratch
        /\ StartRule(scratch)
        /\ UNCHANGED named
     \/ /\ mode = "--only" /\ ~emptied
        /\ \E names \in (SUBSET Files) \ {{}} :
             /\ named' = names
             /\ IF names \subseteq full THEN styled' = names /\ StartLint(0)
                ELSE Fail("unselected") /\ UNCHANGED <<styled, batch, lint, budget, scratchStatus>>
        /\ UNCHANGED scanVars
     \/ /\ (mode # "--changed-since" \/ wholeTree \/ scratch # {}) /\ emptied
        /\ Fail("emptied")
        /\ UNCHANGED <<named, styled, batch, lint, budget, scratchStatus, scanVars>>

\* inventory, then runGate, runChangedSince or runOnly up to the first child.
InventoryRead ==
  \/ \E fs \in SUBSET Files :
       /\ tracked' = fs
       /\ IF Cardinality(fs) > settings.maxFiles
          THEN Fail("oversize") /\ UNCHANGED <<named, styled, batch, lint, budget, scratchStatus, scanVars>>
          ELSE Selected(fs)
       /\ UNCHANGED <<mode, settings, ref, linkClean, lintClean, owed, printed>>
  \/ Fail("unsafe") /\ UNCHANGED <<mode, runVars, scanVars>>
Inventory == step = "list" /\ Command(DEFAULT_COMMAND_TIMEOUT, InventoryRead)

(***************************************************************************)
(* The rule runs, ends, or is stopped.                                     *)
(***************************************************************************)
RuleStep == step = "rule" /\ ScanNext /\ UNCHANGED gateVars

\* The process of the rule is gone with its state.
RuleGone ==
  /\ main' = "absent" /\ files' = <<>> /\ found' = [f \in Files |-> 0] /\ shown' = <<>>
  /\ pending' = 0 /\ retired' = FALSE /\ stopFailure' = "null" /\ stopping' = FALSE /\ gone' = FALSE
  /\ emitted' = 0 /\ verdict' = OPEN /\ exitCode' = 3 /\ request' = <<>>
  /\ worker' = "dead" /\ job' = NoJob /\ events' = <<>> /\ blame' = {}

\* The lines the rule wrote: its diagnostics, and one for a failure or for the first omitted finding.
RuleLines == emitted + (IF exitCode = 2 THEN 1 ELSE 0)

\* runScratchRule after the child, and the start of runMarkdownlint.
RuleEnds ==
  /\ step = "rule" /\ main = "exited"
  /\ LET out == EmitBounded(RuleLines, OutputBudget)
         limit == CommandLimit(DEFAULT_COMMAND_TIMEOUT)
     IN /\ \E d \in 0..(limit.ms - 1) : clock' = clock + d
        /\ owed' = RuleLines /\ printed' = out.shown
        /\ UNCHANGED styled
        /\ StartLint(IF out.cut THEN 2 ELSE exitCode)
  /\ linkClean' = {f \in Range(files) : found[f] = 0}
  /\ RuleGone
  /\ UNCHANGED <<mode, settings, ref, tracked, named, lintClean>>

\* The rule is stopped at its limit, or V8 aborts it.
RuleKilled ==
  /\ step = "rule"
  /\ LET limit == CommandLimit(DEFAULT_COMMAND_TIMEOUT)
     IN \/ clock' = clock + limit.ms /\ TimedOut(limit)
        \/ Fail("command") /\ UNCHANGED clock
  /\ RuleGone
  /\ UNCHANGED <<mode, runVars>>

\* One lint child (lintChild) writes a line for every finding of the files that are not clean, or
\* fails with one line.
LintRead ==
  /\ \E clean \in SUBSET NextBatch(batch), lines \in 0..(1 + MaxPerFile * Cardinality(batch)) :
       LET dirty == Cardinality(NextBatch(batch) \ clean)
           out == EmitBounded(lines, budget)
       IN /\ lines \in dirty..(MaxPerFile * dirty) \/ (clean = {} /\ lines = 1)
          /\ lint' = [failed |-> lint.failed \/ lines > 0, overflow |-> lint.overflow \/ out.cut]
          /\ budget' = IF lint.overflow THEN budget ELSE out.left
          /\ owed' = owed + lines
          /\ printed' = printed + (IF lint.overflow THEN 0 ELSE out.shown)
          /\ lintClean' = lintClean \cup clean
  /\ batch' = batch \ NextBatch(batch)
  /\ IF batch' = {} THEN Finish(GateStatus(scratchStatus, lint'))
     ELSE UNCHANGED <<step, status, reason>>
  /\ UNCHANGED <<mode, settings, ref, tracked, named, styled, scratchStatus, linkClean, scanVars>>
LintBatch == step = "lint" /\ Command(settings.lintTimeout, LintRead)

(***************************************************************************)
(* Specification.                                                          *)
(***************************************************************************)
Init ==
  /\ mode \in Modes /\ step = "install" /\ clock = 0
  /\ settings = [maxFiles |-> 0, lintTimeout |-> 0, exclude |-> {}]
  /\ ref = NoRef /\ tracked = {} /\ named = {} /\ styled = {} /\ batch = {}
  /\ lint = [failed |-> FALSE, overflow |-> FALSE] /\ budget = 0 /\ scratchStatus = 0
  /\ reason = "none" /\ status = -1
  /\ linkClean = {} /\ lintClean = {} /\ owed = 0 /\ printed = 0
  /\ main = "absent" /\ ScanIdle(<<>>, [f \in Files |-> 0])

GateStep == \/ Install \/ RepositoryRoot \/ RepositorySettings \/ ChangedPathsSince
            \/ TrackedSymlinkRecords \/ AuditTrackedSymlinkTargets \/ Inventory \/ RuleEnds \/ LintBatch

Next == GateStep \/ RuleStep \/ RuleKilled

Spec == Init /\ [][Next]_vars

\* The gate's thread runs on, an expired timer and a delivered event are handled, and a worker
\* told to stop stops.  Nothing is assumed of a scan, nor of the gate's limit on the rule.
FairSpec == Spec /\ WF_vars(GateStep) /\ WF_vars(MainStep /\ UNCHANGED gateVars)
                 /\ WF_vars(WorkerStops /\ UNCHANGED gateVars)

(***************************************************************************)
(* Properties.                                                             *)
(***************************************************************************)
\* The run ends within its deadline, however its children share the time: a child still running
\* then is stopped (one tick for a child started at the deadline), the run fails with status 2,
\* and a child stopped by its own budget was stopped no later (commandLimit, withGateDeadline).
DeadlineHolds ==
  /\ clock <= GATE_DEADLINE + 1
  /\ clock > GATE_DEADLINE => status = 2
  /\ reason = "deadline" => clock >= GATE_DEADLINE
  /\ reason = "budget" => clock <= GATE_DEADLINE

\* The base of an incremental run vouches for a file it left alone only under the same rules:
\* the ref is known and neither the manifest nor a tool file changed since.
Vouched(f) == mode = "--changed-since" /\ ref.known /\ ~ref.manifest /\ ~ref.tool /\ f \notin ref.paths

\* Exit status 0 of the gate, incremental or not, covers the tree: every tracked Markdown file
\* was handed to the private-link rule and holds no forbidden link, and every file of the style
\* selection was linted without a finding, except the files the base vouches for.  The files
\* --only names are linted without a finding, and are files the gate would lint.
CoversTree ==
  status = 0 =>
    IF mode = "--only" THEN named \subseteq lintClean \cap StyleSelection(tracked)
    ELSE /\ \A f \in tracked : f \in linkClean \/ Vouched(f)
         /\ \A f \in StyleSelection(tracked) : f \in lintClean \/ Vouched(f)

\* A verdict is complete: a pass covers the tree, and diagnostics are never lost silently.  A run
\* that ends with status 0 or 1 printed every line its children wrote; a cut by the output budget
\* is status 2 (emitBounded, runScratchRule, runMarkdownlint).
VerdictIsComplete == /\ CoversTree
                     /\ status \in {0, 1} => printed = owed

\* Every run of the gate ends with an exit status, and its rule answers by its own scan deadline,
\* without the gate having to stop it.
GateEnds == /\ <>(step = "done")
            /\ main = "start" ~> main \in {"exited", "absent"}
=============================================================================
