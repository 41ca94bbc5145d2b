---------------------------- MODULE AstroFigures ----------------------------
(***************************************************************************)
(* tools/figures/astro.mjs: the Astro integration that shows the figures of *)
(* FigureBuild on a site, in the development server and in `astro build`,   *)
(* with serve.mjs publishing the files and build.mjs `site` checking the    *)
(* result.  Astro runs the integration's hooks in a fixed order and keeps   *)
(* rendered pages in a store it empties when the configuration changes;     *)
(* both are external and modelled by what the integration relies on.        *)
(***************************************************************************)
EXTENDS FigureBuild

CONSTANTS Scenes,       \* who is at work: processes, commands, edits, crashes; kinds of site run
          MaxSiteRuns   \* bound on server starts, restarts and builds

ASSUME SiteConstants ==
  \A sc \in Scenes :
    /\ sc.procs \subseteq Procs /\ sc.cmds \subseteq {"build", "check"} /\ sc.modes \subseteq {"dev", "build"}
    /\ sc.slugs \subseteq Slugs /\ sc.engines \subseteq Engines
    /\ sc.players \subseteq BOOLEAN \X {"missing", "unreleased", "released", "broken"}

VARIABLES
  scene,
  local,     \* tools/figures/player/ holds the player
  lock,      \* player.lock.json: "missing", "unreleased", "released" or "broken"
  site,      \* the Astro process
  store,     \* Astro's data store: the pages kept and the configuration digest they carry
  tmp,       \* extracted player directories: on disk, recorded by the process, left by killed ones
  dist,      \* the built site
  siteRuns

siteVars == <<scene, local, lock, site, store, tmp, dist, siteRuns>>
vars == <<figureVars, siteVars>>

PlayerDir == 0                \* tools/figures/player; extracted directories are numbered
NoPage == [is |-> "empty"]    \* a page kept without its content
NoPages == [s \in {} |-> NoPage]
Public == [is |-> "public"]   \* a file the site holds at a figure's path already

\* figuresDigest: one value that changes with any figure JSON.
FiguresDigest == [s \in Slugs |-> out[<<s, "json">>]]

Off == [phase |-> "off", mode |-> "none", digest |-> <<>>, pages |-> NoPages, script |-> FALSE,
        dir |-> PlayerDir, watch |-> FALSE, timer |-> FALSE,
        missed |-> FALSE, raced |-> FALSE, inherited |-> FALSE, quiet |-> TRUE, failed |-> FALSE]

(***************************************************************************)
(* astro:config:setup.                                                     *)
(***************************************************************************)
\* hasPlayerFiles, and what resolveLockedPlayer does before it downloads.
PlayerPhase ==
  IF local \/ lock \in {"missing", "unreleased"} THEN "ready"
  ELSE IF lock = "broken" THEN "failed" ELSE "download"

ConfigSetupMutDevDigest(mode) ==
  /\ site.phase = "off" /\ siteRuns < MaxSiteRuns
  /\ siteRuns' = siteRuns + 1
  /\ site' = [Off EXCEPT !.phase = PlayerPhase, !.script = local, !.mode = mode,
                         !.digest = IF mode = "dev" THEN FiguresDigest ELSE <<>>]
  /\ UNCHANGED <<scene, local, lock, store, tmp, dist>>

\* figures() and its setup hook: the plugin's options carry the digest of the JSON on disk.
ConfigSetup(mode) ==
  /\ site.phase = "off" /\ siteRuns < MaxSiteRuns
  /\ siteRuns' = siteRuns + 1
  /\ site' = [Off EXCEPT !.phase = PlayerPhase, !.script = local, !.mode = mode, !.digest = FiguresDigest]
  /\ UNCHANGED <<scene, local, lock, store, tmp, dist>>

RecordExtractedPlayerDirMutAll(dir) ==
  [tmp EXCEPT !.disk = @ \ (tmp.recorded \cup {dir}), !.recorded = {dir}]

\* extractedPlayerDirs and recordExtractedPlayerDir: the earlier directories go, the new one is recorded.
RecordExtractedPlayerDir(dir) ==
  [tmp EXCEPT !.disk = (@ \cup {dir}) \ tmp.recorded, !.recorded = {dir}]

\* The archive arrived, its digest and its members are the expected ones, and it is extracted.
DownloadSucceeds ==
  /\ site.phase = "download"
  /\ site' = [site EXCEPT !.phase = "ready", !.script = TRUE, !.dir = siteRuns]
  /\ tmp' = RecordExtractedPlayerDir(siteRuns)
  /\ UNCHANGED <<scene, local, lock, store, dist, siteRuns>>

\* A CheckError (digest, members, redirect, size) or a failed extraction fails the setup; any
\* other download error leaves the figures static.
DownloadFails ==
  /\ site.phase = "download"
  /\ \/ site' = [site EXCEPT !.phase = "ready"] /\ UNCHANGED tmp
     \/ site' = [site EXCEPT !.phase = "failed"] /\ UNCHANGED tmp
     \/ site' = [site EXCEPT !.phase = "failed"] /\ tmp' = RecordExtractedPlayerDir(siteRuns)
  /\ UNCHANGED <<scene, local, lock, store, dist, siteRuns>>

(***************************************************************************)
(* astro:server:setup, the content store and the Markdown plugin.          *)
(***************************************************************************)
\* The development server watches docs/assets/figures from here on (watchFigures); Astro keeps
\* the pages of its store when the configuration is the one they were rendered under.
ServerSetup ==
  /\ site.phase = "ready"
  /\ LET same == store.digest = site.digest
     IN site' = [site EXCEPT !.phase = "sync", !.watch = (site.mode = "dev"),
                   !.pages = IF same THEN store.pages ELSE NoPages,
                   !.inherited = same /\ store.raced]
  /\ UNCHANGED <<scene, local, lock, store, tmp, dist, siteRuns>>

\* The page a figure JSON gives; a figure without a readable JSON fails the page, which Astro
\* keeps without its content.
FigureNode(json) == IF json \in {NoFile, Torn} THEN NoPage ELSE json

\* remarkFigures and satteriFigures: the fence becomes the html of the JSON on disk now.
RenderPage(s) ==
  /\ site.phase = "sync" /\ s \notin DOMAIN site.pages
  /\ site' = [site EXCEPT !.pages = [t \in DOMAIN @ \cup {s} |-> IF t = s THEN FigureNode(out[<<s, "json">>]) ELSE @[t]]]
  /\ UNCHANGED <<scene, local, lock, store, tmp, dist, siteRuns>>

SavedStore == [digest |-> site.digest, pages |-> site.pages, raced |-> site.raced \/ site.inherited]
EndSync ==
  /\ site.phase = "sync" /\ DOMAIN site.pages = Fenced
  /\ store' = SavedStore
  /\ site' = [site EXCEPT !.phase = IF site.mode = "dev" THEN "serving" ELSE "rendered"]
  /\ UNCHANGED <<scene, local, lock, tmp, dist, siteRuns>>

(***************************************************************************)
(* The development server.                                                 *)
(***************************************************************************)
NoticeMutNoUnlink ==
  LET changed == \E s \in Slugs : FiguresDigest'[s] # FiguresDigest[s] /\ FiguresDigest'[s] # NoFile
  IN site' = [site EXCEPT !.timer = @ \/ (changed /\ site.watch),
                          !.missed = @ \/ (changed /\ site.phase \in {"download", "ready"}),
                          !.raced = @ \/ (changed /\ site.phase \in {"download", "ready", "sync"}),
                          !.quiet = @ /\ (site.phase = "off" \/ out' = out)]

\* onEvent for an output that another process writes: a JSON in the watched directory arms the
\* timer.  History: a change between the digest and the watcher, one before the pages were all
\* rendered, any output that changed.
Notice ==
  LET changed == FiguresDigest' # FiguresDigest
  IN site' = [site EXCEPT !.timer = @ \/ (changed /\ site.watch),
                          !.missed = @ \/ (changed /\ site.phase \in {"download", "ready"}),
                          !.raced = @ \/ (changed /\ site.phase \in {"download", "ready", "sync"}),
                          !.quiet = @ /\ (site.phase = "off" \/ out' = out)]

RestartMutNoSetup ==
  /\ site.timer /\ siteRuns < MaxSiteRuns
  /\ site' = [site EXCEPT !.phase = "ready"]
  /\ UNCHANGED <<scene, local, lock, store, tmp, dist, siteRuns>>

\* The timer fires: Astro closes the server and sets up again.
Restart ==
  /\ site.timer /\ siteRuns < MaxSiteRuns
  /\ site' = [Off EXCEPT !.mode = "dev"]
  /\ UNCHANGED <<scene, local, lock, store, tmp, dist, siteRuns>>

\* server.restart() rejects; the server goes on as it was.
RestartFails ==
  /\ site.timer
  /\ site' = [site EXCEPT !.timer = FALSE, !.failed = TRUE]
  /\ UNCHANGED <<scene, local, lock, store, tmp, dist, siteRuns>>

\* The exit handler removes the recorded directories.
ExitHandler == [tmp EXCEPT !.disk = @ \ tmp.recorded, !.recorded = {}]
Stop ==
  /\ site.phase \in {"serving", "failed"}
  /\ site' = Off /\ tmp' = ExitHandler
  /\ UNCHANGED <<scene, local, lock, store, dist, siteRuns>>

\* The process is killed, with no exit event; the store may hold the pages rendered so far.
Kill ==
  /\ site.phase # "off" /\ crashes < scene.crashes
  /\ crashes' = crashes + 1
  /\ store' = store \/ (site.phase = "sync" /\ store' = SavedStore)
  /\ site' = Off
  /\ tmp' = [tmp EXCEPT !.leaked = @ \cup tmp.recorded, !.recorded = {}]
  /\ UNCHANGED <<spec, engine, out, readme, siteSources, proc, edits, runs, scene, local, lock, dist, siteRuns>>

(***************************************************************************)
(* serve.mjs, astro:build:done and the site check.                         *)
(***************************************************************************)
\* locate: the player mount answers when its directory holds the files.
PlayerAnswers == IF site.dir = PlayerDir THEN local ELSE site.dir \in tmp.disk

\* publish: a file the site holds already is kept, every other mounted file is copied.
Publish == [n \in {m \in Names : Present(m) \/ m \in scene.public} |-> IF n \in scene.public THEN Public ELSE out[n]]

\* publishFigures; the build then ends.
BuildDone ==
  /\ site.phase = "rendered"
  /\ dist' = [pages |-> site.pages, files |-> Publish, script |-> site.script, player |-> PlayerAnswers,
              quiet |-> site.quiet /\ ~site.inherited, clean |-> HasFigures /\ Sources = 0,
              pagesWanted |-> [s \in Fenced |-> FigureNode(out[<<s, "json">>])]]
  /\ site' = Off /\ tmp' = ExitHandler
  /\ UNCHANGED <<scene, local, lock, store, siteRuns>>

SvgOnlySite == ~local /\ lock = "unreleased"

\* loaderErrors: no loader on a site that should have one, or a loader without its player.
LoaderErrors == IF dist.script THEN ~dist.player ELSE ~SvgOnlySite

\* figureErrors: the page holds the figure, its images resolve and embed their spec, the loader loads.
FigureErrors(s) ==
  \/ dist.pages[s] = NoPage
  \/ \E k \in {"svg", "static"} : <<s, k>> \notin DOMAIN dist.files \/ dist.files[<<s, k>>] = Torn
  \/ LoaderErrors
CheckSite == \A s \in Fenced : ~FigureErrors(s)

(***************************************************************************)
(* Specification.                                                          *)
(***************************************************************************)
Init ==
  /\ FigureInit
  /\ scene \in Scenes
  /\ \E player \in scene.players : local = player[1] /\ lock = player[2]
  /\ \A s \in Slugs : spec[s] # 0 => s \in scene.slugs
  /\ site = Off /\ siteRuns = 0 /\ dist = [pages |-> NoPages, quiet |-> FALSE]
  /\ tmp = [disk |-> {}, recorded |-> {}, leaked |-> {}]
  /\ store = [digest |-> <<>>, pages |-> NoPages, raced |-> FALSE]

SiteStep == \/ DownloadSucceeds \/ DownloadFails \/ ServerSetup \/ (\E s \in Fenced : RenderPage(s)) \/ EndSync
            \/ BuildDone \/ (site.mode = "dev" /\ ConfigSetup("dev"))
TimerFires == Restart \/ RestartFails
SiteStart == \E mode \in scene.modes : site.mode = "none" /\ ConfigSetup(mode)

RepositoryStep ==
  \/ \E p \in scene.procs : ProcStep(p) \/ (crashes < scene.crashes /\ Crash(p))
                            \/ (runs < scene.runs /\ \E cmd \in scene.cmds : Start(p, cmd))
  \/ scene.modes = {} /\ Portable
  \/ edits < scene.edits /\ \E s \in scene.slugs, version \in {0} \cup Specs : EditSpec(s, version)
  \/ edits < scene.edits /\ \E version \in scene.engines : EditEngine(version)
  \/ edits < scene.edits /\ scene.modes = {} /\ \E held \in SUBSET Cited : EditCode(held)
  \/ edits < scene.edits /\ scene.modes = {} /\ \E enabled \in SUBSET Diagrams : EditConfig(enabled)

Next == \/ RepositoryStep /\ Notice /\ UNCHANGED <<scene, local, lock, store, tmp, dist, siteRuns>>
        \/ (SiteStep \/ TimerFires \/ SiteStart \/ Stop) /\ UNCHANGED figureVars
        \/ Kill

\* A started process keeps taking steps unless it is killed; timers fire.
Spec == /\ Init /\ [][Next]_vars
        /\ WF_vars(SiteStep /\ UNCHANGED figureVars) /\ WF_vars(TimerFires /\ UNCHANGED figureVars)
        /\ \A p \in Procs : WF_vars(ProcStep(p) /\ Notice /\ UNCHANGED <<scene, local, lock, store, tmp, dist, siteRuns>>)

(***************************************************************************)
(* Properties.                                                             *)
(***************************************************************************)
Fresh == \A s \in Fenced : site.pages[s] = FigureNode(out[<<s, "json">>])

\* A development server that has nothing left to do shows the figures on disk, however builds,
\* restarts and the store of earlier runs interleave; except after a restart that failed, a
\* change between the digest and the watcher, and pages an earlier run rendered while the JSON
\* changed (figuresDigest, watchFigures).
ServedIsFresh ==
  site.phase = "serving" /\ ~site.timer /\ ~site.missed /\ ~site.failed /\ ~site.inherited => Fresh

\* A warm `astro build` during which no output changed publishes the pages and the images of the
\* same rendering; when the sources were clean, `site` passes whenever the player was there or is
\* not expected (figuresDigest, publishFigures, checkSite).
BuiltIsCurrent ==
  dist.quiet =>
    /\ dist.pages = dist.pagesWanted
    /\ dist.clean => /\ \A s \in Fenced, k \in {"svg", "static"} :
                          /\ <<s, k>> \in DOMAIN dist.files
                          /\ dist.files[<<s, k>>] \in {Public, Image(k, dist.pages[s].figure, dist.pages[s].code)}
                     /\ Fenced # {} => (CheckSite <=> (dist.script \/ SvgOnlySite))

\* A page that imports the loader finds the player: the extraction directory a setup mounts
\* outlives it, at most one exists per process, and only killed processes leave one behind
\* (recordExtractedPlayerDir, extractedPlayerDirs).
LoaderServed ==
  /\ site.phase \in {"ready", "sync", "serving", "rendered"} /\ site.script => PlayerAnswers
  /\ tmp.disk = tmp.recorded \cup tmp.leaked /\ Cardinality(tmp.recorded) <= 1
  /\ site.phase = "off" /\ site.mode = "none" => tmp.recorded = {}

\* Every change to a figure reaches the development server: from some point on a server that
\* runs shows the figures on disk, with the exceptions of ServedIsFresh, unless the bound on
\* restarts was reached.
FreshAtLast ==
  <>[](site.phase = "serving" => Fresh \/ site.missed \/ site.failed \/ site.inherited \/ siteRuns = MaxSiteRuns)
=============================================================================
