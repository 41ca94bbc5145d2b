---------------------------- MODULE FigureBuild -----------------------------
(***************************************************************************)
(* tools/figures/build.mjs: `build` renders every spec of docs/figures to   *)
(* three files of docs/assets/figures, `check` compares the rendering with  *)
(* the files byte for byte, `sources` compares hashes only, and `portable   *)
(* --write` refreshes the README's figure block.  Authors edit specs and    *)
(* the engine while any number of these processes run or crash.             *)
(*                                                                          *)
(* Bytes are versions and a SHA-256 is the version it digests.  An action   *)
(* is the code between two points where another process can be noticed:     *)
(* one spec read, one module imported, one file written or removed.         *)
(***************************************************************************)
EXTENDS Naturals, FiniteSets

CONSTANTS Slugs,       \* figure names, numbers in the order of listSpecs
          Procs,       \* concurrent build and check processes
          Specs,       \* versions a spec may have
          Invalid,     \* the versions validate refuses
          Engines,     \* versions of ENGINE_FILES, numbers
          Initial,     \* the versions specs start from
          Size,        \* the image sizes an engine version records, 0 when one is no positive whole number
          Markup,      \* the markup an engine version renders
          Cited,       \* the spec versions whose evidence names code
          Fenced,      \* slugs a documentation page names in a figure fence
          Diagrams,    \* the kinds of fence on the documentation pages
          Marked,      \* slugs the README shows in a figure block
          MaxEdits, MaxRuns, MaxCrashes   \* bounds of the instance

ASSUME FigureConstants ==
  /\ Slugs \subseteq Nat /\ 0 \notin Specs /\ Invalid \subseteq Specs /\ Engines \subseteq Nat
  /\ Initial \subseteq {0} \cup Specs /\ Initial \cap Invalid = {}
  /\ Cited \subseteq Specs /\ Diagrams \subseteq {"figure", "mermaid"}
  /\ Fenced \subseteq Slugs /\ Marked \subseteq Slugs

VARIABLES
  spec,      \* docs/figures/<slug>.ts: its version, 0 when there is none
  engine,    \* the version of ENGINE_FILES
  out,       \* docs/assets/figures: the content of each output name
  readme,    \* the html each marked figure block of the README holds
  anchors,   \* the spec versions whose evidence the code of the repository still holds
  kinds,     \* of the kinds on the pages, those the site configuration enables
  proc,      \* the build and check processes
  edits, runs, crashes

siteSources == <<anchors, kinds>>
figureVars == <<spec, engine, out, readme, siteSources, proc, edits, runs, crashes>>

Kinds == {"svg", "static", "json"}
Names == Slugs \X Kinds
NoFile == [is |-> "none"]
Torn == [is |-> "torn"]      \* the start of a file whose writer crashed

\* render: the SVGs and the JSON of a figure drawn by `code` from module `figure`; the JSON
\* records the hashes of the bytes read and of the engine files read.
Image(kind, figure, code) == [is |-> kind, figure |-> figure, code |-> code]
Json(bytes, figure, code, hash) ==
  [is |-> "json", figure |-> figure, code |-> code, spec_sha256 |-> bytes, engine |-> hash]
Render(bytes, figure, code, hash) ==
  [k \in Kinds |-> IF k = "json" THEN Json(bytes, figure, code, hash) ELSE Image(k, figure, code)]

\* markup of a figure and its sizes, as the JSON records it and fillSlots fills it.
Html(json) == [figure |-> json.figure, size |-> Size[json.code], markup |-> Markup[json.code]]
Present(name) == out[name] # NoFile

(***************************************************************************)
(* Processes.                                                              *)
(***************************************************************************)
\* outputs: the rendered content of each output name, NoFile where nothing renders it.
Nothing == [n \in Names |-> NoFile]
Idle == [pc |-> "exit", cmd |-> "none", code |-> 0, hash |-> 0, todo |-> {}, bytes |-> 0,
         outputs |-> Nothing, errors |-> FALSE, queue |-> {}, result |-> 3, alone |-> FALSE]

\* Another process or an author changed the repository under the running ones.
Disturbed(p) == [q \in Procs |-> IF q = p THEN proc[q] ELSE [proc[q] EXCEPT !.alone = FALSE]]
Become(p, record) == proc' = [proc EXCEPT ![p] = record]
Exit(me, status) == [Idle EXCEPT !.cmd = me.cmd, !.result = status, !.alone = me.alone]

\* listSpecs: the specs present; they are taken in order.
ListSpecs == {s \in Slugs : spec[s] # 0}
NextSpec(todo) == {s \in todo : \A t \in todo : s <= t}

\* The names renderAll produced, and the files left without a spec.
WriteQueue(me) == {n \in Names : me.outputs[n] # NoFile}
OrphansMutNoStatic(me) == {n \in Names : n[2] # "static" /\ Present(n) /\ me.outputs[n] = NoFile}

Orphans(me) == {n \in Names : Present(n) /\ me.outputs[n] = NoFile}

\* Outputs are written in Object.entries order and removed in readdir order.
EntriesOrder == [svg |-> 1, static |-> 2, json |-> 3]
ReaddirOrder == [json |-> 1, static |-> 2, svg |-> 3]
NextName(queue, order) ==
  {n \in queue : \A m \in queue : n[1] < m[1] \/ (n[1] = m[1] /\ order[n[2]] <= order[m[2]])}

\* The end of renderAll: validation errors stop both commands; build goes on to writeOutputs.
Rendered(me) ==
  IF me.errors THEN Exit(me, 1)
  ELSE IF me.cmd = "check" THEN [me EXCEPT !.pc = "compare"]
  ELSE IF Orphans(me) # {} THEN [me EXCEPT !.pc = "remove", !.queue = Orphans(me)]
  ELSE IF me.outputs = Nothing THEN Exit(me, 0)
  ELSE [me EXCEPT !.pc = "write", !.queue = WriteQueue(me)]

HasFigures == (\E s \in Slugs : spec[s] # 0) \/ (\E n \in Names : Present(n))

\* main: Node imports core.mjs and the vendored engine; check skips a repository without figures.
Start(p, cmd) ==
  /\ proc[p].pc = "exit" /\ runs < MaxRuns
  /\ runs' = runs + 1
  /\ LET me == [Idle EXCEPT !.cmd = cmd, !.code = engine, !.alone = TRUE]
     IN Become(p, IF cmd = "check" /\ ~HasFigures THEN Exit(me, 0) ELSE [me EXCEPT !.pc = "context"])
  /\ UNCHANGED <<spec, engine, out, readme, edits, crashes, siteSources>>

\* renderAll: engineHash reads the engine's files, listSpecs the directory.
Context(p) ==
  /\ proc[p].pc = "context"
  /\ LET me == [proc[p] EXCEPT !.hash = engine, !.todo = ListSpecs]
     IN Become(p, IF ListSpecs = {} THEN Rendered(me) ELSE [me EXCEPT !.pc = "load"])
  /\ UNCHANGED <<spec, engine, out, readme, edits, runs, crashes, siteSources>>

\* loadSpec up to its await: the bytes that spec_sha256 will digest.  A spec that is gone throws.
LoadSpec(p) ==
  /\ proc[p].pc = "load"
  /\ \E s \in NextSpec(proc[p].todo) :
       Become(p, IF spec[s] = 0 THEN Exit(proc[p], 2)
                 ELSE [proc[p] EXCEPT !.pc = "import", !.bytes = spec[s]])
  /\ UNCHANGED <<spec, engine, out, readme, edits, runs, crashes, siteSources>>

\* What the process holds of spec s once it is imported, validated and rendered.
Imported(me, s) ==
  LET files == Render(me.bytes, spec[s], me.code, me.hash)
  IN [me EXCEPT !.todo = @ \ {s}, !.bytes = 0,
                !.errors = @ \/ spec[s] \in Invalid,
                !.outputs = IF spec[s] \in Invalid THEN @
                            ELSE [n \in Names |-> IF n[1] = s THEN files[n[2]] ELSE @[n]]]

\* import() reads the file again; then validate and render, and the loop of renderAll goes on.
ImportSpec(p) ==
  /\ proc[p].pc = "import"
  /\ \E s \in NextSpec(proc[p].todo) :
       Become(p, IF spec[s] = 0 THEN Exit(proc[p], 2)
                 ELSE IF proc[p].todo = {s} THEN Rendered(Imported(proc[p], s))
                 ELSE [Imported(proc[p], s) EXCEPT !.pc = "load"])
  /\ UNCHANGED <<spec, engine, out, readme, edits, runs, crashes, siteSources>>

\* withTimeout: the import did not finish.
ImportTimesOut(p) ==
  /\ proc[p].pc = "import"
  /\ Become(p, Exit(proc[p], 2))
  /\ UNCHANGED <<spec, engine, out, readme, edits, runs, crashes, siteSources>>

\* writeOutputs goes on, after file n was dealt with.
Advance(me, n) ==
  LET rest == me.queue \ {n}
  IN IF rest # {} THEN [me EXCEPT !.queue = rest]
     ELSE IF me.pc = "remove" /\ me.outputs # Nothing THEN [me EXCEPT !.pc = "write", !.queue = WriteQueue(me)]
     ELSE Exit(me, 0)

\* writeOutputs removes an output that has no spec; rmSync throws when another build was faster.
RemoveOrphan(p) ==
  /\ proc[p].pc = "remove"
  /\ \E n \in NextName(proc[p].queue, ReaddirOrder) :
       IF Present(n)
       THEN out' = [out EXCEPT ![n] = NoFile] /\ proc' = [Disturbed(p) EXCEPT ![p] = Advance(@, n)]
       ELSE Become(p, Exit(proc[p], 2)) /\ UNCHANGED out
  /\ UNCHANGED <<spec, engine, readme, edits, runs, crashes, siteSources>>

\* writeOutputs writes one file.
WriteOutput(p) ==
  /\ proc[p].pc = "write"
  /\ \E n \in NextName(proc[p].queue, EntriesOrder) :
       /\ out' = [out EXCEPT ![n] = proc[p].outputs[n]]
       /\ proc' = [Disturbed(p) EXCEPT ![p] = Advance(@, n)]
  /\ UNCHANGED <<spec, engine, readme, edits, runs, crashes, siteSources>>

ProblemsMutNoOrphans(me) == {n \in Names : me.outputs[n] # NoFile /\ out[n] # me.outputs[n]}

\* compareOutputs: a missing, a stale and an orphaned output are problems.
Problems(me) == {n \in Names : out[n] # me.outputs[n]}
Compare(p) ==
  /\ proc[p].pc = "compare"
  /\ Become(p, Exit(proc[p], IF Problems(proc[p]) = {} THEN 0 ELSE 1))
  /\ UNCHANGED <<spec, engine, out, readme, edits, runs, crashes, siteSources>>

\* A process is killed; a file it was writing keeps what was written so far.
Crash(p) ==
  /\ proc[p].pc # "exit" /\ crashes < MaxCrashes
  /\ crashes' = crashes + 1
  /\ \/ UNCHANGED out
     \/ proc[p].pc = "write" /\ \E n \in NextName(proc[p].queue, EntriesOrder) : out' = [out EXCEPT ![n] = Torn]
  /\ proc' = [Disturbed(p) EXCEPT ![p] = Idle]
  /\ UNCHANGED <<spec, engine, readme, edits, runs, siteSources>>

(***************************************************************************)
(* sources and portable: synchronous, over the files alone.                *)
(***************************************************************************)
HashesMatchMutNoStatic(s) ==
  LET json == out[<<s, "json">>]
  IN /\ spec[s] = json.spec_sha256 /\ engine = json.engine
     /\ out[<<s, "svg">>] = Image("svg", json.figure, json.code)

\* hashErrors: the spec, both images and the engine are the ones the JSON records.
HashesMatch(s) ==
  LET json == out[<<s, "json">>]
  IN /\ spec[s] = json.spec_sha256 /\ engine = json.engine
     /\ out[<<s, "svg">>] = Image("svg", json.figure, json.code)
     /\ out[<<s, "static">>] = Image("static", json.figure, json.code)

\* figureMeta: the JSON of a figure can be read.
FigureMeta(s) == out[<<s, "json">>] \notin {NoFile, Torn}

SpecStems == {s \in Slugs : spec[s] # 0}
MetaStems == {s \in Slugs : Present(<<s, "json">>)}

\* evidenceErrors: the code the drawn figure names is gone.
EvidenceErrors(s) == out[<<s, "json">>].figure \in Cited \ anchors

\* sizeErrors: the JSON records no positive whole-number size.
SizeErrors(s) == Size[out[<<s, "json">>].code] = 0

\* htmlErrors: its html is not the markup that the core.mjs at work renders from it.
HtmlErrors(s) == Markup[out[<<s, "json">>].code] # Markup[engine]

FigureSourceErrorsMutNoEvidence ==
  \/ SpecStems # MetaStems
  \/ \E s \in SpecStems \cap MetaStems : ~HashesMatch(s) \/ SizeErrors(s) \/ HtmlErrors(s)

\* figureSourceErrors: the specs and the JSON files pair up, and every pair is in order; the markup
\* is only compared when the sizes are there, which it holds.
FigureSourceErrors ==
  \/ SpecStems # MetaStems
  \/ \E s \in SpecStems \cap MetaStems :
       ~HashesMatch(s) \/ EvidenceErrors(s) \/ SizeErrors(s) \/ (~SizeErrors(s) /\ HtmlErrors(s))

\* kindErrors: a page has a fence of a kind the configuration does not enable.
KindErrors == ~(Diagrams \subseteq kinds)

\* pageSourceErrors: a fence is of a disabled kind, or names a figure without spec or JSON.
PageSourceErrors == KindErrors \/ ~(Fenced \subseteq SpecStems \cap MetaStems)

\* refreshMarkers: what the README's blocks become; a figure that cannot be rendered keeps its block.
RefreshMarkers == [s \in Marked |-> IF FigureMeta(s) THEN Html(out[<<s, "json">>]) ELSE readme[s]]

\* runSources and sources: 0, 1 with findings, 2 when the JSON of a spec cannot be read.
Sources ==
  IF ~HasFigures THEN 0
  ELSE IF \E s \in SpecStems \cap MetaStems : ~FigureMeta(s) THEN 2
  ELSE IF \/ FigureSourceErrors \/ PageSourceErrors
          \/ RefreshMarkers # readme \/ \E s \in Marked : ~FigureMeta(s) THEN 1
  ELSE 0

\* portable --write README.md: writes nothing when a figure cannot be rendered.
Portable ==
  /\ Marked # {} /\ runs < MaxRuns
  /\ \A s \in Marked : FigureMeta(s)
  /\ readme' = RefreshMarkers
  /\ readme' # readme
  /\ runs' = runs + 1
  /\ UNCHANGED <<spec, engine, out, proc, edits, crashes, siteSources>>

(***************************************************************************)
(* Authors, and the specification.                                         *)
(***************************************************************************)
EditSpec(s, version) ==
  /\ edits < MaxEdits /\ version # spec[s]
  /\ spec' = [spec EXCEPT ![s] = version]
  /\ edits' = edits + 1
  /\ proc' = [p \in Procs |-> [proc[p] EXCEPT !.alone = FALSE]]
  /\ UNCHANGED <<engine, out, readme, runs, crashes, siteSources>>

EditEngine(version) ==
  /\ edits < MaxEdits /\ version # engine
  /\ engine' = version
  /\ edits' = edits + 1
  /\ proc' = [p \in Procs |-> [proc[p] EXCEPT !.alone = FALSE]]
  /\ UNCHANGED <<spec, out, readme, runs, crashes, siteSources>>

\* A change of the code that figures cite, or of the site configuration: no build or check reads them.
EditCode(held) ==
  /\ edits < MaxEdits /\ held # anchors
  /\ anchors' = held
  /\ edits' = edits + 1
  /\ UNCHANGED <<spec, engine, out, readme, kinds, proc, runs, crashes>>

EditConfig(enabled) ==
  /\ edits < MaxEdits /\ enabled # kinds
  /\ kinds' = enabled
  /\ edits' = edits + 1
  /\ UNCHANGED <<spec, engine, out, readme, anchors, proc, runs, crashes>>

FigureInit ==
  /\ spec \in [Slugs -> Initial] /\ engine \in Engines /\ \A e \in Engines : engine <= e
  /\ out = [n \in Names |-> IF spec[n[1]] = 0 THEN NoFile
                            ELSE Render(spec[n[1]], spec[n[1]], engine, engine)[n[2]]]
  /\ \A s \in Marked : spec[s] # 0
  /\ readme = [s \in Marked |-> Html(out[<<s, "json">>])]
  /\ anchors = Cited /\ kinds = Diagrams
  /\ proc = [p \in Procs |-> Idle]
  /\ edits = 0 /\ runs = 0 /\ crashes = 0

ProcStep(p) == \/ Context(p) \/ LoadSpec(p) \/ ImportSpec(p) \/ ImportTimesOut(p)
               \/ RemoveOrphan(p) \/ WriteOutput(p) \/ Compare(p)

(***************************************************************************)
(* Properties.                                                             *)
(***************************************************************************)
\* What rendering the repository as it stands would leave in docs/assets/figures.
Current(n) == out[n] = IF spec[n[1]] = 0 THEN NoFile ELSE Render(spec[n[1]], spec[n[1]], engine, engine)[n[2]]
AllCurrent == \A n \in Names : Current(n)
AllValid == \A s \in Slugs : spec[s] \notin Invalid

\* If nothing else touched the repository while it ran, `check` exits 0 exactly when every spec is
\* valid and the committed files are those rendering them gives, none missing, none left over; and
\* a build that exits 0 has made them so, whatever an earlier build that crashed, ran at the same
\* time or rendered another version left there (runCheck, compareOutputs, writeOutputs).
CommandsDecide ==
  \A p \in Procs : proc[p].pc = "exit" /\ proc[p].alone =>
    /\ proc[p].cmd = "check" /\ proc[p].result \in {0, 1} => (proc[p].result = 0 <=> AllCurrent /\ AllValid)
    /\ proc[p].cmd = "build" /\ proc[p].result = 0 => AllCurrent /\ AllValid

\* The hashes stand for the bytes.  When `sources` passes, the html of every figure is the markup of
\* its spec as it stands, and its three files are what `check` would render, unless a build hashed
\* one version of the spec or of the engine and drew with another.  When `check` would pass,
\* `sources` passes exactly if what `check` does not read is in order as well: the cited code is
\* there, the sizes are recorded, the pages' fences are enabled and name figures, and the README's
\* blocks are current (hashErrors, htmlErrors, figureSourceErrors, pageSourceErrors, sources).
SourcesAgree ==
  LET specs == {s \in Slugs : spec[s] # 0}
      json(s) == out[<<s, "json">>]
  IN /\ Sources = 0 => \A s \in specs : json(s).figure = json(s).spec_sha256 =>
          /\ Html(json(s)).figure = spec[s] /\ Html(json(s)).markup = Markup[engine]
          /\ json(s).code = json(s).engine => \A k \in Kinds : Current(<<s, k>>)
     /\ HasFigures /\ AllCurrent =>
          (Sources = 0 <=> /\ \A s \in specs : spec[s] \in Cited => spec[s] \in anchors
                          /\ Size[engine] # 0
                          /\ Diagrams \subseteq kinds /\ Fenced \cup Marked \subseteq specs
                          /\ \A s \in Marked : readme[s] = Html(json(s)))
=============================================================================
