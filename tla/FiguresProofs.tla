---------------------------- MODULE FiguresProofs ---------------------------
(***************************************************************************)
(* The documentation figures, for any number of figures, processes, edits,  *)
(* crashes and site runs: what build, check and sources conclude is true of *)
(* the files, a development server shows the files, a quiet site build      *)
(* publishes one rendering, and a page that loads the player finds it.      *)
(***************************************************************************)
EXTENDS AstroFigures, FiniteSetTheorems, TLAPS

-----------------------------------------------------------------------------
(***************************************************************************)
(* Types of the repository.                                                *)
(***************************************************************************)
Images == [is : {"svg", "static"}, figure : Specs, code : Engines]
Jsons == [is : {"json"}, figure : Specs, code : Engines, spec_sha256 : Specs, engine : Engines]
Contents == {NoFile, Torn} \cup Images \cup Jsons
Outputs == {o \in [Names -> Contents] : \A s \in Slugs : o[<<s, "json">>] \in {NoFile, Torn} \cup Jsons}

Processes ==
  [pc : {"exit", "context", "load", "import", "compare", "remove", "write"}, cmd : {"none", "build", "check"},
   code : {0} \cup Engines, hash : {0} \cup Engines, todo : SUBSET Slugs, bytes : {0} \cup Specs,
   outputs : Outputs, errors : BOOLEAN, queue : SUBSET Names, result : 0..3, alone : BOOLEAN]
Equipped(me) ==
  /\ me.pc # "exit" => me.code \in Engines /\ me.cmd # "none"
  /\ me.pc \notin {"exit", "context"} => me.hash \in Engines
  /\ me.pc = "import" => me.bytes \in Specs

RepositoryTypes ==
  /\ spec \in [Slugs -> {0} \cup Specs] /\ engine \in Engines /\ out \in Outputs
  /\ proc \in [Procs -> Processes]
  /\ \A p \in Procs : Equipped(proc[p])

(***************************************************************************)
(* A process that is alone works on the repository as it stands: specs sp,  *)
(* engine en, files ou.                                                     *)
(***************************************************************************)
Want(n, sp, en) == IF sp[n[1]] = 0 THEN NoFile ELSE Render(sp[n[1]], sp[n[1]], en, en)[n[2]]
Clean(sp, en, ou) == (\A n \in Names : ou[n] = Want(n, sp, en)) /\ \A s \in Slugs : sp[s] \notin Invalid

Loading(me, sp, en) ==
  /\ me.todo # {} /\ \A s \in me.todo : sp[s] # 0
  /\ me.errors <=> \E s \in Slugs \ me.todo : sp[s] \in Invalid
  /\ \A n \in Names :
       me.outputs[n] = IF n[1] \in me.todo \/ sp[n[1]] \in Invalid THEN NoFile ELSE Want(n, sp, en)
Decided(me, sp, en, ou) ==
  /\ me.cmd = "check" /\ me.result \in {0, 1} => (me.result = 0 <=> Clean(sp, en, ou))
  /\ me.cmd = "build" /\ me.result = 0 => Clean(sp, en, ou)

Faithful(me, sp, en, ou) ==
  /\ me.pc # "exit" => me.code = en
  /\ me.pc \notin {"exit", "context"} => me.hash = en
  /\ me.pc = "context" => me.outputs = Nothing /\ ~me.errors
  /\ me.pc \in {"load", "import"} => Loading(me, sp, en)
  /\ me.pc = "import" => \A s \in NextSpec(me.todo) : me.bytes = sp[s]
  /\ me.pc \in {"compare", "remove", "write"} =>
       (\A s \in Slugs : sp[s] \notin Invalid) /\ \A n \in Names : me.outputs[n] = Want(n, sp, en)
  /\ me.pc \in {"remove", "write"} => me.cmd = "build"
  /\ me.pc = "compare" => me.cmd = "check"
  /\ me.pc = "remove" => me.queue = {n \in Names : ou[n] # NoFile /\ me.outputs[n] = NoFile}
  /\ me.pc = "write" => \A n \in Names \ me.queue : ou[n] = me.outputs[n]
  /\ me.pc = "exit" => Decided(me, sp, en, ou)

RepositoryInv ==
  RepositoryTypes /\ \A p \in Procs : proc[p].alone => Faithful(proc[p], spec, engine, out)

(***************************************************************************)
(* The site: its extracted players, and the pages it shows.                *)
(***************************************************************************)
Shown == Contents \cup {NoPage}
PageMaps == UNION {[D -> Shown] : D \in SUBSET Fenced}
Digests == {<<>>} \cup [Slugs -> Contents]
Sites ==
  [phase : {"off", "download", "ready", "sync", "serving", "rendered", "failed"},
   mode : {"none", "dev", "build"}, digest : Digests, pages : PageMaps, script : BOOLEAN, dir : Nat,
   watch : BOOLEAN, timer : BOOLEAN, missed : BOOLEAN, raced : BOOLEAN, inherited : BOOLEAN,
   quiet : BOOLEAN, failed : BOOLEAN]
Stores == [digest : Digests, pages : PageMaps, raced : BOOLEAN]
Players == [disk : SUBSET Nat, recorded : SUBSET Nat, leaked : SUBSET Nat]
SiteTypes ==
  /\ scene \in Scenes /\ local \in BOOLEAN /\ siteRuns \in Nat
  /\ site \in Sites /\ store \in Stores /\ tmp \in Players

PlayerInv ==
  /\ tmp.disk = tmp.recorded \cup tmp.leaked /\ tmp.recorded \cap tmp.leaked = {}
  /\ tmp.disk \subseteq 1..siteRuns
  /\ tmp.recorded = {} \/ \E d \in 1..siteRuns : tmp.recorded = {d}
  /\ site.phase = "download" => siteRuns \notin tmp.disk /\ siteRuns > 0 /\ ~site.script
  /\ site.phase = "off" /\ site.mode = "none" => tmp.recorded = {}
  /\ site.phase \in {"ready", "sync", "serving", "rendered"} /\ site.script =>
       (site.dir = PlayerDir /\ local) \/ site.dir \in tmp.recorded

Agree(pages, digest) == \A s \in DOMAIN pages : pages[s] = FigureNode(digest[s])
PageInv ==
  /\ ~store.raced => Agree(store.pages, store.digest)
  /\ site.phase \in {"download", "ready", "sync"} /\ ~site.raced => site.digest = FiguresDigest
  /\ site.phase \in {"sync", "serving", "rendered"} /\ ~site.raced /\ ~site.inherited => Agree(site.pages, site.digest)
  /\ site.phase \in {"serving", "rendered"} => DOMAIN site.pages = Fenced
  /\ site.phase = "serving" => site.mode = "dev"
  /\ site.phase \in {"download", "ready"} =>
       ~site.watch /\ ~site.timer /\ ~site.failed /\ ~site.inherited /\ (site.raced => site.missed)
  /\ site.phase \in {"sync", "serving"} /\ site.mode = "dev" =>
       site.watch /\ (~site.timer /\ ~site.missed /\ ~site.failed => ~site.raced /\ site.digest = FiguresDigest)
  /\ site.phase # "off" /\ site.quiet => ~site.raced /\ site.digest = FiguresDigest

SiteInv == SiteTypes /\ PlayerInv /\ PageInv /\ BuiltIsCurrent

-----------------------------------------------------------------------------
(***************************************************************************)
(* Outputs and process records.                                            *)
(***************************************************************************)
LEMMA RenderedFile ==
  ASSUME NEW b \in Specs, NEW f \in Specs, NEW c \in Engines, NEW h \in Engines, NEW k \in Kinds
  PROVE  /\ Render(b, f, c, h)[k] \in Images \cup Jsons
         /\ k = "json" => Render(b, f, c, h)[k] \in Jsons
         /\ Render(b, f, c, h)[k] # NoFile
  BY DEF Render, Kinds, Image, Json, Images, Jsons, NoFile

LEMMA NothingTypes == Nothing \in Outputs /\ \A n \in Names : Nothing[n] = NoFile
  BY DEF Nothing, Outputs, Contents, Names, Kinds

LEMMA IdleTypes == Idle \in Processes /\ Equipped(Idle) /\ ~Idle.alone
<1>1. Nothing \in Outputs
  BY NothingTypes
<1> HIDE DEF Outputs
<1> QED BY <1>1, SMTT(30) DEF Idle, Processes, Equipped

LEMMA ExitTypes ==
  ASSUME NEW me \in Processes, NEW status \in 0..3
  PROVE  LET e == Exit(me, status)
         IN /\ e \in Processes /\ Equipped(e)
            /\ e.pc = "exit" /\ e.cmd = me.cmd /\ e.result = status /\ e.alone = me.alone
<1>1. Idle \in Processes
  BY IdleTypes
<1>2. me.cmd \in {"none", "build", "check"} /\ me.alone \in BOOLEAN
  BY DEF Processes
<1>3. Exit(me, status) = [Idle EXCEPT !.cmd = me.cmd, !.result = status, !.alone = me.alone] /\ Idle.pc = "exit"
  BY DEF Exit, Idle
<1> HIDE DEF Idle
<1> QED BY <1>1, <1>2, <1>3, Zenon DEF Processes, Equipped

LEMMA ExitFaithful ==
  ASSUME NEW e, NEW sp, NEW en, NEW ou, e.pc = "exit", Decided(e, sp, en, ou)
  PROVE  Faithful(e, sp, en, ou)
  BY DEF Faithful

LEMMA DisturbedTypes ==
  ASSUME NEW me \in Processes, Equipped(me)
  PROVE  LET d == [me EXCEPT !.alone = FALSE] IN d \in Processes /\ Equipped(d) /\ ~d.alone
  BY Zenon DEF Processes, Equipped

\* A process goes on and leaves the repository alone.
LEMMA BecomeInv ==
  ASSUME RepositoryInv, NEW p \in Procs, NEW r \in Processes, Equipped(r),
         r.alone => Faithful(r, spec, engine, out), Become(p, r), UNCHANGED <<spec, engine, out>>
  PROVE  RepositoryInv'
<1>1. proc' \in [Procs -> Processes] /\ \A q \in Procs : proc'[q] = IF q = p THEN r ELSE proc[q]
  BY DEF RepositoryInv, RepositoryTypes, Become
<1>2. RepositoryTypes'
  BY <1>1 DEF RepositoryInv, RepositoryTypes
<1> QED BY <1>1, <1>2 DEF RepositoryInv

\* The repository changes: a process that is still alone is the one that changed it.
LEMMA ChangeInv ==
  ASSUME RepositoryInv, spec' \in [Slugs -> {0} \cup Specs], engine' \in Engines, out' \in Outputs, NEW p \in Procs,
         proc' = [q \in Procs |-> proc'[q]],
         \A q \in Procs \ {p} : proc'[q] = [proc[q] EXCEPT !.alone = FALSE],
         proc'[p] \in Processes /\ Equipped(proc'[p]),
         proc'[p].alone => Faithful(proc'[p], spec', engine', out')
  PROVE  RepositoryInv'
<1>1. \A q \in Procs : /\ proc'[q] \in Processes /\ Equipped(proc'[q])
                       /\ proc'[q].alone => Faithful(proc'[q], spec', engine', out')
  <2> SUFFICES ASSUME NEW q \in Procs \ {p}
               PROVE  proc'[q] \in Processes /\ Equipped(proc'[q]) /\ ~proc'[q].alone
    OBVIOUS
  <2>1. proc[q] \in Processes /\ Equipped(proc[q]) /\ proc'[q] = [proc[q] EXCEPT !.alone = FALSE]
    BY DEF RepositoryInv, RepositoryTypes
  <2> QED BY <2>1, DisturbedTypes
<1>2. proc' \in [Procs -> Processes]
  BY <1>1
<1> QED BY <1>1, <1>2 DEF RepositoryInv, RepositoryTypes

-----------------------------------------------------------------------------
(***************************************************************************)
(* The steps of a process.                                                 *)
(***************************************************************************)
\* Everything is rendered: what a process that is alone holds then.
Complete(me) ==
  /\ me.code = engine /\ me.hash = engine
  /\ me.errors <=> \E s \in Slugs : spec[s] \in Invalid
  /\ \A n \in Names : me.outputs[n] = IF spec[n[1]] \in Invalid THEN NoFile ELSE Want(n, spec, engine)

LEMMA RenderedInv ==
  ASSUME RepositoryTypes, NEW me \in Processes, me.code \in Engines, me.hash \in Engines, me.cmd # "none",
         me.alone => Complete(me)
  PROVE  /\ Rendered(me) \in Processes /\ Equipped(Rendered(me))
         /\ Rendered(me).alone => Faithful(Rendered(me), spec, engine, out)
<1>0. me.cmd \in {"build", "check"} /\ me.errors \in BOOLEAN /\ me.outputs \in Outputs
  BY DEF Processes
<1>c. \A n \in Names : n[1] \in Slugs
  BY DEF Names
<1>1. CASE me.errors
  <2>1. Rendered(me) = Exit(me, 1)
    BY <1>1 DEF Rendered
  <2>2. me.alone => Decided(Exit(me, 1), spec, engine, out)
    BY <1>1, ExitTypes, SMTT(30) DEF Complete, Decided, Clean
  <2> QED BY <2>1, <2>2, ExitTypes, ExitFaithful, SMTT(30)
<1>2. CASE ~me.errors /\ me.cmd = "check"
  <2>1. Rendered(me) = [me EXCEPT !.pc = "compare"]
    BY <1>2 DEF Rendered
  <2> QED BY <1>2, <1>c, <2>1, SMTT(30) DEF Processes, Equipped, Complete, Faithful
<1>3. CASE ~me.errors /\ me.cmd = "build"
  <2>0. me.alone => /\ \A s \in Slugs : spec[s] \notin Invalid
                    /\ \A n \in Names : me.outputs[n] = Want(n, spec, engine)
    BY <1>3, <1>c DEF Complete
  <2>1. CASE Orphans(me) # {}
    <3>1. Rendered(me) = [me EXCEPT !.pc = "remove", !.queue = Orphans(me)]
      BY <1>3, <2>1 DEF Rendered
    <3>2. Orphans(me) = {n \in Names : out[n] # NoFile /\ me.outputs[n] = NoFile} /\ Orphans(me) \subseteq Names
      BY DEF Orphans, Present
    <3>3. Rendered(me) \in Processes /\ Equipped(Rendered(me))
      BY <1>3, <3>1, <3>2, Zenon DEF Processes, Equipped
    <3>4. /\ Rendered(me).pc = "remove" /\ Rendered(me).queue = Orphans(me) /\ Rendered(me).alone = me.alone
          /\ Rendered(me).code = me.code /\ Rendered(me).hash = me.hash /\ Rendered(me).cmd = "build"
          /\ Rendered(me).outputs = me.outputs
      BY <1>3, <3>1, <3>2 DEF Processes
    <3> QED BY <2>0, <3>2, <3>3, <3>4, SMTT(30) DEF Complete, Faithful
  <2>2. CASE Orphans(me) = {} /\ me.outputs = Nothing
    <3>1. Rendered(me) = Exit(me, 0)
      BY <1>3, <2>2 DEF Rendered
    <3>2. me.alone => Clean(spec, engine, out)
      BY <2>0, <2>2, NothingTypes DEF Clean, Orphans, Present
    <3>3. me.alone => Decided(Exit(me, 0), spec, engine, out)
      BY <3>2, ExitTypes, SMTT(30) DEF Decided
    <3> QED BY <3>1, <3>3, ExitTypes, ExitFaithful, SMTT(30)
  <2>3. CASE Orphans(me) = {} /\ me.outputs # Nothing
    <3>1. Rendered(me) = [me EXCEPT !.pc = "write", !.queue = WriteQueue(me)]
      BY <1>3, <2>3 DEF Rendered
    <3>2. WriteQueue(me) \subseteq Names /\ \A n \in Names \ WriteQueue(me) : me.outputs[n] = NoFile /\ out[n] = NoFile
      BY <2>3 DEF WriteQueue, Orphans, Present
    <3> QED BY <1>3, <2>0, <3>1, <3>2, ZenonT(60) DEF Processes, Equipped, Complete, Faithful
  <2> QED BY <2>1, <2>2, <2>3
<1> QED BY <1>0, <1>1, <1>2, <1>3

LEMMA StartInv == ASSUME RepositoryInv, NEW p \in Procs, NEW cmd \in {"build", "check"}, Start(p, cmd) PROVE RepositoryInv'
<1> DEFINE me == [Idle EXCEPT !.cmd = cmd, !.code = engine, !.alone = TRUE]
           up == [me EXCEPT !.pc = "context"]
<1>0. UNCHANGED <<spec, engine, out>> /\ engine \in Engines /\ RepositoryTypes
  BY DEF Start, RepositoryInv, RepositoryTypes
<1>1. me \in Processes /\ me.cmd = cmd /\ me.alone /\ me.code = engine /\ me.outputs = Nothing /\ ~me.errors
  <2>1. Idle \in Processes /\ Idle.outputs = Nothing /\ ~Idle.errors
    BY IdleTypes DEF Idle
  <2> HIDE DEF Idle
  <2> QED BY <1>0, <2>1, Zenon DEF Processes
<1> HIDE DEF me
<1>2. CASE cmd = "check" /\ ~HasFigures
  <2>1. Clean(spec, engine, out)
    BY <1>0, <1>2, FigureConstants, Zenon DEF HasFigures, Clean, Present, Want, Names, RepositoryTypes
  <2>2. Decided(Exit(me, 0), spec, engine, out)
    BY <1>1, <2>1, ExitTypes, SMTT(30) DEF Decided
  <2>3. Become(p, Exit(me, 0))
    BY <1>2 DEF Start, me
  <2> QED BY <1>0, <1>1, <2>2, <2>3, ExitTypes, ExitFaithful, BecomeInv, SMTT(30)
<1>3. CASE ~(cmd = "check" /\ ~HasFigures)
  <2>1. Become(p, up)
    BY <1>3 DEF Start, me
  <2>2. up \in Processes /\ Equipped(up) /\ Faithful(up, spec, engine, out)
    BY <1>0, <1>1 DEF Processes, Equipped, Faithful
  <2> HIDE DEF up
  <2> QED BY <1>0, <2>1, <2>2, BecomeInv
<1> QED BY <1>2, <1>3

LEMMA ContextInv == ASSUME RepositoryInv, NEW p \in Procs, Context(p) PROVE RepositoryInv'
<1> DEFINE me == [proc[p] EXCEPT !.hash = engine, !.todo = ListSpecs]
           up == [me EXCEPT !.pc = "load"]
<1>0. /\ UNCHANGED <<spec, engine, out>> /\ engine \in Engines /\ RepositoryTypes /\ proc[p].pc = "context"
      /\ proc[p] \in Processes /\ proc[p].code \in Engines /\ proc[p].cmd # "none"
      /\ proc[p].alone => proc[p].code = engine /\ proc[p].outputs = Nothing /\ ~proc[p].errors
  BY DEF Context, RepositoryInv, RepositoryTypes, Equipped, Faithful
<1>1. ListSpecs \subseteq Slugs /\ \A s \in Slugs : s \in ListSpecs <=> spec[s] # 0
  BY DEF ListSpecs
<1>2. /\ me \in Processes /\ me.code \in Engines /\ me.hash = engine /\ me.cmd # "none" /\ me.todo = ListSpecs
      /\ me.alone => me.code = engine /\ me.outputs = Nothing /\ ~me.errors
  BY <1>0, <1>1, Zenon DEF Processes
<1>3. Become(p, IF ListSpecs = {} THEN Rendered(me) ELSE up)
  BY DEF Context
<1> HIDE DEF me
<1>4. \A s \in Slugs \ ListSpecs : spec[s] = 0 /\ spec[s] \notin Invalid
  BY <1>0, <1>1, FigureConstants DEF RepositoryTypes
<1>5. CASE ListSpecs = {}
  <2>1. me.alone => Complete(me)
    BY <1>2, <1>4, <1>5, NothingTypes DEF Complete, Want, Names
  <2>2. Become(p, Rendered(me))
    BY <1>3, <1>5
  <2> QED BY <1>0, <1>2, <2>1, <2>2, RenderedInv, BecomeInv
<1>6. CASE ListSpecs # {}
  <2>1. Become(p, up)
    BY <1>3, <1>6
  <2>2. /\ up \in Processes /\ up.pc = "load" /\ up.code = me.code /\ up.hash = engine /\ up.cmd # "none"
        /\ up.todo = ListSpecs /\ up.alone = me.alone /\ up.errors = me.errors /\ up.outputs = me.outputs
    BY <1>2 DEF Processes
  <2> HIDE DEF up
  <2>3. Equipped(up)
    BY <1>0, <1>2, <2>2 DEF Equipped
  <2>4. me.alone => Loading(up, spec, engine)
    BY <1>1, <1>2, <1>4, <1>6, <2>2, NothingTypes, SMTT(30) DEF Loading, Want, Names
  <2>5. up.alone => Faithful(up, spec, engine, out)
    BY <1>2, <2>2, <2>4 DEF Faithful
  <2> QED BY <1>0, <2>1, <2>2, <2>3, <2>5, BecomeInv
<1> QED BY <1>5, <1>6

\* A command that ends with status 2 decides nothing.
LEMMA ThrowInv ==
  ASSUME RepositoryInv, NEW p \in Procs, Become(p, Exit(proc[p], 2)), UNCHANGED <<spec, engine, out>>
  PROVE  RepositoryInv'
<1>1. proc[p] \in Processes /\ 2 \in 0..3
  BY SMTT(30) DEF RepositoryInv, RepositoryTypes
<1>2. Decided(Exit(proc[p], 2), spec, engine, out)
  BY <1>1, ExitTypes, SMTT(30) DEF Decided
<1> QED BY <1>1, <1>2, ExitTypes, ExitFaithful, BecomeInv

\* The next spec is unique.
LEMMA OneNextSpec == ASSUME NEW todo \in SUBSET Slugs, NEW s \in NextSpec(todo), NEW t \in NextSpec(todo) PROVE s = t
<1>1. s \in Nat /\ t \in Nat /\ s <= t /\ t <= s
  BY FigureConstants DEF NextSpec
<1> QED BY <1>1, SMTT(30)

LEMMA LoadSpecInv == ASSUME RepositoryInv, NEW p \in Procs, LoadSpec(p) PROVE RepositoryInv'
<1>0. /\ UNCHANGED <<spec, engine, out>> /\ RepositoryTypes /\ proc[p].pc = "load" /\ proc[p] \in Processes
      /\ Equipped(proc[p]) /\ (proc[p].alone => Faithful(proc[p], spec, engine, out)) /\ proc[p].todo \subseteq Slugs
  BY DEF LoadSpec, RepositoryInv, RepositoryTypes, Processes
<1>1. PICK s \in NextSpec(proc[p].todo) :
        Become(p, IF spec[s] = 0 THEN Exit(proc[p], 2) ELSE [proc[p] EXCEPT !.pc = "import", !.bytes = spec[s]])
  BY Zenon DEF LoadSpec
<1> DEFINE up == [proc[p] EXCEPT !.pc = "import", !.bytes = spec[s]]
<1>2. s \in proc[p].todo /\ s \in Slugs
  BY <1>0 DEF NextSpec
<1>3. CASE spec[s] = 0
  BY <1>0, <1>1, <1>3, ThrowInv
<1>4. CASE spec[s] # 0
  <2>1. spec[s] \in Specs
    BY <1>0, <1>2, <1>4 DEF RepositoryTypes
  <2>2. /\ up \in Processes /\ up.pc = "import" /\ up.bytes = spec[s] /\ up.code = proc[p].code /\ up.hash = proc[p].hash
        /\ up.cmd = proc[p].cmd /\ up.todo = proc[p].todo /\ up.alone = proc[p].alone
        /\ up.errors = proc[p].errors /\ up.outputs = proc[p].outputs
    BY <1>0, <2>1, Zenon DEF Processes
  <2>3. Become(p, up)
    BY <1>1, <1>4
  <2> HIDE DEF up
  <2>4. Equipped(up)
    BY <1>0, <2>1, <2>2 DEF Equipped
  <2>5. \A t \in NextSpec(proc[p].todo) : t = s
    BY <1>0, OneNextSpec
  <2>6. up.alone => Faithful(up, spec, engine, out)
    BY <1>0, <2>2, <2>5, ZenonT(30) DEF Faithful, Loading
  <2> QED BY <1>0, <2>2, <2>3, <2>4, <2>6, BecomeInv
<1> QED BY <1>3, <1>4

\* The spec that was loaded is imported, validated and rendered.
LEMMA ImportedTypes ==
  ASSUME RepositoryTypes, NEW me \in Processes, NEW s \in me.todo, me.pc = "import", Equipped(me), spec[s] # 0
  PROVE  LET im == Imported(me, s)
         IN /\ im \in Processes /\ im.pc = "import" /\ im.code = me.code /\ im.hash = me.hash /\ im.cmd = me.cmd
            /\ im.todo = me.todo \ {s} /\ im.alone = me.alone
            /\ im.errors <=> me.errors \/ spec[s] \in Invalid
            /\ \A n \in Names : im.outputs[n] =
                 IF n[1] # s \/ spec[s] \in Invalid THEN me.outputs[n]
                 ELSE Render(me.bytes, spec[s], me.code, me.hash)[n[2]]
<1> DEFINE files == Render(me.bytes, spec[s], me.code, me.hash)
           add == [n \in Names |-> IF n[1] = s THEN files[n[2]] ELSE me.outputs[n]]
           ou == IF spec[s] \in Invalid THEN me.outputs ELSE add
           er == me.errors \/ spec[s] \in Invalid
           im == [me EXCEPT !.todo = me.todo \ {s}, !.bytes = 0, !.errors = er, !.outputs = ou]
<1>1. Imported(me, s) = im
  BY DEF Imported, Processes
<1>2. s \in Slugs /\ spec[s] \in Specs /\ me.bytes \in Specs /\ me.code \in Engines /\ me.hash \in Engines
      /\ me.outputs \in Outputs /\ me.errors \in BOOLEAN /\ me.todo \subseteq Slugs
  BY DEF Processes, Equipped, RepositoryTypes
<1>3. \A k \in Kinds : files[k] \in Images \cup Jsons /\ (k = "json" => files[k] \in Jsons)
  BY <1>2, RenderedFile
<1>4. \A n \in Names : n[2] \in Kinds /\ me.outputs[n] \in Contents
  BY <1>2 DEF Names, Outputs
<1> HIDE DEF files
<1>5. add \in [Names -> Contents]
  BY <1>3, <1>4 DEF Contents
<1>6. \A t \in Slugs : add[<<t, "json">>] \in {NoFile, Torn} \cup Jsons
  BY <1>2, <1>3, Zenon DEF Names, Kinds, Outputs
<1>7. add \in Outputs
  BY <1>5, <1>6 DEF Outputs
<1>8. \A n \in Names : ou[n] = IF n[1] # s \/ spec[s] \in Invalid THEN me.outputs[n] ELSE files[n[2]]
  OBVIOUS
<1>9. ou \in Outputs /\ er \in BOOLEAN /\ (er <=> me.errors \/ spec[s] \in Invalid)
  BY <1>2, <1>7
<1> HIDE DEF ou, er
<1>10. /\ im \in Processes /\ im.pc = "import" /\ im.code = me.code /\ im.hash = me.hash /\ im.cmd = me.cmd
       /\ im.todo = me.todo \ {s} /\ im.alone = me.alone /\ im.errors = er /\ im.outputs = ou
  BY <1>2, <1>9, Zenon DEF Processes
<1> HIDE DEF im
<1> QED BY <1>1, <1>8, <1>9, <1>10 DEF files

LEMMA ImportSpecInv == ASSUME RepositoryInv, NEW p \in Procs, ImportSpec(p) PROVE RepositoryInv'
<1>0. /\ UNCHANGED <<spec, engine, out>> /\ RepositoryTypes /\ proc[p].pc = "import" /\ proc[p] \in Processes
      /\ Equipped(proc[p]) /\ (proc[p].alone => Faithful(proc[p], spec, engine, out)) /\ proc[p].todo \subseteq Slugs
  BY DEF ImportSpec, RepositoryInv, RepositoryTypes, Processes
<1>1. PICK s \in NextSpec(proc[p].todo) :
        Become(p, IF spec[s] = 0 THEN Exit(proc[p], 2)
                  ELSE IF proc[p].todo = {s} THEN Rendered(Imported(proc[p], s))
                  ELSE [Imported(proc[p], s) EXCEPT !.pc = "load"])
  BY DEF ImportSpec
<1> DEFINE im == Imported(proc[p], s)
           up == [im EXCEPT !.pc = "load"]
<1>2. s \in proc[p].todo /\ s \in Slugs
  BY <1>0 DEF NextSpec
<1>3. CASE spec[s] = 0
  BY <1>0, <1>1, <1>3, ThrowInv
<1>4. CASE spec[s] # 0
  <2>1. /\ im \in Processes /\ im.pc = "import" /\ im.code = proc[p].code /\ im.hash = proc[p].hash
        /\ im.cmd = proc[p].cmd /\ im.todo = proc[p].todo \ {s} /\ im.alone = proc[p].alone
        /\ im.errors <=> proc[p].errors \/ spec[s] \in Invalid
        /\ \A n \in Names : im.outputs[n] =
             IF n[1] # s \/ spec[s] \in Invalid THEN proc[p].outputs[n]
             ELSE Render(proc[p].bytes, spec[s], proc[p].code, proc[p].hash)[n[2]]
    BY <1>0, <1>2, <1>4, ImportedTypes, ZenonT(30)
  <2>2. im.code \in Engines /\ im.hash \in Engines /\ im.cmd # "none"
    BY <1>0, <2>1, Zenon DEF Equipped
  <2>3. CASE proc[p].todo = {s}
    <3>1. Become(p, Rendered(im))
      BY <1>1, <1>4, <2>3
    <3> HIDE DEF im
    <3>2. im.alone => Complete(im)
      <4> SUFFICES ASSUME im.alone PROVE Complete(im)
        OBVIOUS
      <4>1. /\ Loading(proc[p], spec, engine) /\ proc[p].bytes = spec[s]
            /\ proc[p].code = engine /\ proc[p].hash = engine
        BY <1>0, <2>1, Zenon DEF Faithful
      <4>2. im.errors <=> \E t \in Slugs : spec[t] \in Invalid
        BY <1>2, <2>1, <2>3, <4>1, Zenon DEF Loading
      <4>3. \A n \in Names : im.outputs[n] = IF spec[n[1]] \in Invalid THEN NoFile ELSE Want(n, spec, engine)
        BY <1>2, <1>4, <2>1, <2>3, <4>1, SMTT(30) DEF Loading, Want
      <4> QED BY <2>1, <4>1, <4>2, <4>3, ZenonT(30) DEF Complete
    <3> QED BY <1>0, <2>1, <2>2, <3>1, <3>2, RenderedInv, BecomeInv, Zenon
  <2>4. CASE proc[p].todo # {s}
    <3>1. Become(p, up)
      BY <1>1, <1>4, <2>4
    <3> HIDE DEF im
    <3>2. /\ up \in Processes /\ up.pc = "load" /\ up.code = im.code /\ up.hash = im.hash /\ up.cmd = im.cmd
          /\ up.todo = im.todo /\ up.alone = im.alone /\ up.errors = im.errors /\ up.outputs = im.outputs
      BY <2>1 DEF Processes
    <3> HIDE DEF up
    <3>3. Equipped(up)
      BY <2>2, <3>2 DEF Equipped
    <3>4. up.alone => Loading(up, spec, engine) /\ up.code = engine /\ up.hash = engine
      <4> SUFFICES ASSUME up.alone PROVE Loading(up, spec, engine) /\ up.code = engine /\ up.hash = engine
        OBVIOUS
      <4>1. /\ Loading(proc[p], spec, engine) /\ proc[p].bytes = spec[s]
            /\ proc[p].code = engine /\ proc[p].hash = engine
        BY <1>0, <2>1, <3>2, Zenon DEF Faithful
      <4>2. up.errors <=> \E t \in Slugs \ up.todo : spec[t] \in Invalid
        BY <1>2, <2>1, <3>2, <4>1, Zenon DEF Loading
      <4>3. \A n \in Names :
              up.outputs[n] = IF n[1] \in up.todo \/ spec[n[1]] \in Invalid THEN NoFile ELSE Want(n, spec, engine)
        BY <1>2, <1>4, <2>1, <3>2, <4>1, SMTT(30) DEF Loading, Want
      <4>4. up.todo # {} /\ \A t \in up.todo : spec[t] # 0
        BY <1>2, <2>1, <2>4, <3>2, <4>1, Zenon DEF Loading
      <4> QED BY <2>1, <3>2, <4>1, <4>2, <4>3, <4>4, Zenon DEF Loading
    <3>5. up.alone => Faithful(up, spec, engine, out)
      BY <3>2, <3>4 DEF Faithful
    <3> QED BY <1>0, <3>1, <3>2, <3>3, <3>5, BecomeInv, Zenon
  <2> QED BY <2>3, <2>4
<1> QED BY <1>3, <1>4

LEMMA ImportTimesOutInv == ASSUME RepositoryInv, NEW p \in Procs, ImportTimesOut(p) PROVE RepositoryInv'
  BY ThrowInv DEF ImportTimesOut

LEMMA CompareInv == ASSUME RepositoryInv, NEW p \in Procs, Compare(p) PROVE RepositoryInv'
<1> DEFINE status == IF Problems(proc[p]) = {} THEN 0 ELSE 1
<1>0. /\ UNCHANGED <<spec, engine, out>> /\ proc[p].pc = "compare" /\ proc[p] \in Processes
      /\ proc[p].alone => Faithful(proc[p], spec, engine, out)
      /\ Become(p, Exit(proc[p], status))
  BY DEF Compare, RepositoryInv, RepositoryTypes
<1>1. proc[p].alone => (status = 0 <=> Clean(spec, engine, out))
  BY <1>0, SMTT(30) DEF Faithful, Clean, Problems
<1>2. status \in 0..3 /\ status \in {0, 1}
  BY SMTT(30)
<1> HIDE DEF status
<1>3. Exit(proc[p], status) \in Processes /\ Equipped(Exit(proc[p], status)) /\ Exit(proc[p], status).pc = "exit"
  BY <1>0, <1>2, ExitTypes
<1>4. proc[p].alone => Decided(Exit(proc[p], status), spec, engine, out) /\ proc[p].cmd = "check"
  BY <1>0, <1>1, <1>2, ExitTypes, Zenon DEF Decided, Faithful
<1>5. Exit(proc[p], status).alone => Faithful(Exit(proc[p], status), spec, engine, out)
  BY <1>0, <1>2, <1>3, <1>4, ExitTypes, ExitFaithful, SMTT(30)
<1> QED BY <1>0, <1>3, <1>5, BecomeInv, Zenon

LEMMA FileTypes ==
  ASSUME NEW o \in Outputs, NEW n \in Names, NEW c,
         c \in {NoFile, Torn} \/ \E w \in Outputs : c = w[n]
  PROVE  [o EXCEPT ![n] = c] \in Outputs
<1>1. c \in Contents /\ (n[2] = "json" => c \in {NoFile, Torn} \cup Jsons)
  <2>1. n[1] \in Slugs /\ n = <<n[1], n[2]>>
    BY SMTT(30) DEF Names
  <2> QED BY <2>1 DEF Contents, Outputs
<1>2. [o EXCEPT ![n] = c] \in [Names -> Contents]
  BY <1>1 DEF Outputs
<1>3. \A t \in Slugs : [o EXCEPT ![n] = c][<<t, "json">>] \in {NoFile, Torn} \cup Jsons
  BY <1>1, Zenon DEF Outputs, Names, Kinds
<1> QED BY <1>2, <1>3, Zenon DEF Outputs

\* writeOutputs has removed or written file n.
LEMMA AdvanceInv ==
  ASSUME RepositoryInv, NEW p \in Procs, proc[p].pc \in {"remove", "write"}, NEW n \in proc[p].queue,
         out' = [out EXCEPT ![n] = IF proc[p].pc = "remove" THEN NoFile ELSE proc[p].outputs[n]],
         proc' = [Disturbed(p) EXCEPT ![p] = Advance(@, n)], UNCHANGED <<spec, engine>>
  PROVE  RepositoryInv'
<1> DEFINE me == proc[p]
           ad == Advance(me, n)
           rest == me.queue \ {n}
<1>0. /\ RepositoryTypes /\ me \in Processes /\ Equipped(me) /\ me.outputs \in Outputs /\ me.queue \subseteq Names
      /\ out \in Outputs /\ me.code \in Engines /\ me.hash \in Engines /\ me.cmd # "none"
      /\ me.alone => Faithful(me, spec, engine, out)
  BY DEF RepositoryInv, RepositoryTypes, Processes, Equipped
<1>1. /\ proc' = [q \in Procs |-> proc'[q]] /\ proc'[p] = ad
      /\ \A q \in Procs \ {p} : proc'[q] = [proc[q] EXCEPT !.alone = FALSE]
  BY Zenon DEF Disturbed
<1>2. out' \in Outputs
  BY <1>0, FileTypes, Zenon
<1>3. \A m \in Names : out'[m] = IF m # n THEN out[m] ELSE IF me.pc = "remove" THEN NoFile ELSE me.outputs[n]
  BY <1>0, Zenon DEF Outputs
<1>4. me.alone => /\ me.code = engine /\ me.hash = engine /\ me.cmd = "build"
                  /\ \A s \in Slugs : spec[s] \notin Invalid
                  /\ \A m \in Names : me.outputs[m] = Want(m, spec, engine)
                  /\ me.pc = "remove" => rest = {m \in Names : out'[m] # NoFile /\ me.outputs[m] = NoFile}
                  /\ me.pc = "write" => \A m \in Names \ rest : out'[m] = me.outputs[m]
  <2>1. me.alone => /\ me.code = engine /\ me.hash = engine /\ me.cmd = "build"
                    /\ \A s \in Slugs : spec[s] \notin Invalid
                    /\ \A m \in Names : me.outputs[m] = Want(m, spec, engine)
    BY <1>0, Zenon DEF Faithful
  <2>2. me.alone /\ me.pc = "remove" => me.queue = {m \in Names : out[m] # NoFile /\ me.outputs[m] = NoFile}
    BY <1>0, Zenon DEF Faithful
  <2>3. me.alone /\ me.pc = "write" => \A m \in Names \ me.queue : out[m] = me.outputs[m]
    BY <1>0, Zenon DEF Faithful
  <2>4. me.alone /\ me.pc = "remove" => rest = {m \in Names : out'[m] # NoFile /\ me.outputs[m] = NoFile}
    BY <1>3, <2>2, SMTT(30)
  <2>5. me.alone /\ me.pc = "write" => \A m \in Names \ rest : out'[m] = me.outputs[m]
    BY <1>3, <2>3
  <2> QED BY <2>1, <2>4, <2>5, Zenon
<1>5. spec' = spec /\ engine' = engine /\ spec \in [Slugs -> {0} \cup Specs] /\ engine \in Engines /\ rest \subseteq Names
  BY <1>0 DEF RepositoryTypes
<1>6. ad = IF rest # {} THEN [me EXCEPT !.queue = rest]
           ELSE IF me.pc = "remove" /\ me.outputs # Nothing THEN [me EXCEPT !.pc = "write", !.queue = WriteQueue(me)]
           ELSE Exit(me, 0)
  BY DEF Advance
<1> HIDE DEF rest, ad
<1>7. ad \in Processes /\ Equipped(ad) /\ (ad.alone => Faithful(ad, spec, engine, out'))
  <2>1. CASE rest # {}
    <3>1. /\ ad \in Processes /\ ad.pc = me.pc /\ ad.code = me.code /\ ad.hash = me.hash /\ ad.cmd = me.cmd
          /\ ad.outputs = me.outputs /\ ad.queue = rest /\ ad.alone = me.alone
      BY <1>0, <1>5, <1>6, <2>1 DEF Processes
    <3>2. Equipped(ad)
      BY <1>0, <3>1, Zenon DEF Equipped
    <3>3. ASSUME ad.alone PROVE Faithful(ad, spec, engine, out')
      BY <1>4, <3>1, <3>3, ZenonT(60) DEF Faithful
    <3> QED BY <3>1, <3>2, <3>3
  <2>2. CASE rest = {} /\ me.pc = "remove" /\ me.outputs # Nothing
    <3>1. WriteQueue(me) \subseteq Names /\ \A m \in Names \ WriteQueue(me) : me.outputs[m] = NoFile
      BY DEF WriteQueue
    <3>2. /\ ad \in Processes /\ ad.pc = "write" /\ ad.code = me.code /\ ad.hash = me.hash /\ ad.cmd = me.cmd
          /\ ad.outputs = me.outputs /\ ad.queue = WriteQueue(me) /\ ad.alone = me.alone
      BY <1>0, <1>6, <2>2, <3>1, Zenon DEF Processes
    <3>3. me.alone => \A m \in Names \ WriteQueue(me) : out'[m] = me.outputs[m]
      BY <1>4, <2>2, <3>1
    <3>4. Equipped(ad)
      BY <1>0, <3>2, Zenon DEF Equipped
    <3>5. ASSUME ad.alone PROVE Faithful(ad, spec, engine, out')
      BY <1>4, <3>2, <3>3, <3>5, ZenonT(60) DEF Faithful
    <3> QED BY <3>2, <3>4, <3>5, Zenon
  <2>3. CASE rest = {} /\ ~(me.pc = "remove" /\ me.outputs # Nothing)
    <3>1. ad = Exit(me, 0)
      BY <1>6, <2>3
    <3>2. me.alone => Clean(spec, engine, out')
      BY <1>4, <2>3, NothingTypes, Zenon DEF Clean
    <3>3. me.alone => Decided(Exit(me, 0), spec, engine, out')
      <4>1. 0 \in 0..3
        OBVIOUS
      <4>2. Exit(me, 0).result = 0
        BY <1>0, <4>1, ExitTypes, Zenon
      <4> QED BY <3>2, <4>2, Zenon DEF Decided
    <3>4. /\ Exit(me, 0) \in Processes /\ Equipped(Exit(me, 0)) /\ Exit(me, 0).pc = "exit"
          /\ Exit(me, 0).alone = me.alone
      BY <1>0, ExitTypes, SMTT(30)
    <3> QED BY <3>1, <3>3, <3>4, ExitFaithful, Zenon
  <2> QED BY <2>1, <2>2, <2>3
<1>8. spec' \in [Slugs -> {0} \cup Specs] /\ engine' \in Engines
  BY <1>5
<1>9. proc'[p] \in Processes /\ Equipped(proc'[p]) /\ (proc'[p].alone => Faithful(proc'[p], spec', engine', out'))
  BY <1>1, <1>5, <1>7
<1> QED BY <1>1, <1>2, <1>8, <1>9, ChangeInv, Zenon

LEMMA RemoveOrphanInv == ASSUME RepositoryInv, NEW p \in Procs, RemoveOrphan(p) PROVE RepositoryInv'
<1>0. proc[p].pc = "remove" /\ UNCHANGED <<spec, engine>>
  BY DEF RemoveOrphan
<1>1. PICK n \in NextName(proc[p].queue, ReaddirOrder) :
        IF Present(n)
        THEN out' = [out EXCEPT ![n] = NoFile] /\ proc' = [Disturbed(p) EXCEPT ![p] = Advance(@, n)]
        ELSE Become(p, Exit(proc[p], 2)) /\ UNCHANGED out
  BY Zenon DEF RemoveOrphan
<1>2. n \in proc[p].queue
  BY DEF NextName
<1>3. CASE Present(n)
  BY <1>0, <1>1, <1>2, <1>3, AdvanceInv, Zenon
<1>4. CASE ~Present(n)
  BY <1>0, <1>1, <1>4, ThrowInv
<1> QED BY <1>3, <1>4

LEMMA WriteOutputInv == ASSUME RepositoryInv, NEW p \in Procs, WriteOutput(p) PROVE RepositoryInv'
<1>0. proc[p].pc = "write" /\ UNCHANGED <<spec, engine>>
  BY DEF WriteOutput
<1>1. PICK n \in NextName(proc[p].queue, EntriesOrder) :
        /\ out' = [out EXCEPT ![n] = proc[p].outputs[n]]
        /\ proc' = [Disturbed(p) EXCEPT ![p] = Advance(@, n)]
  BY Zenon DEF WriteOutput
<1>2. n \in proc[p].queue
  BY DEF NextName
<1> QED BY <1>0, <1>1, <1>2, AdvanceInv, Zenon

LEMMA CrashInv == ASSUME RepositoryInv, NEW p \in Procs, Crash(p) PROVE RepositoryInv'
<1>0. /\ UNCHANGED <<spec, engine>> /\ RepositoryTypes /\ proc[p].queue \subseteq Names
      /\ proc' = [Disturbed(p) EXCEPT ![p] = Idle]
  BY DEF Crash, RepositoryInv, RepositoryTypes, Processes
<1>1. out' \in Outputs
  <2>1. CASE UNCHANGED out
    BY <1>0, <2>1 DEF RepositoryTypes
  <2>2. CASE \E n \in NextName(proc[p].queue, EntriesOrder) : out' = [out EXCEPT ![n] = Torn]
    <3>1. PICK n \in NextName(proc[p].queue, EntriesOrder) : out' = [out EXCEPT ![n] = Torn]
      BY <2>2, Zenon
    <3>2. n \in Names /\ out \in Outputs
      BY <1>0, ZenonT(30) DEF NextName, RepositoryTypes
    <3> QED BY <3>1, <3>2, FileTypes, Zenon
  <2> QED BY <2>1, <2>2, Zenon DEF Crash
<1>2. /\ proc' = [q \in Procs |-> proc'[q]] /\ proc'[p] = Idle
      /\ \A q \in Procs \ {p} : proc'[q] = [proc[q] EXCEPT !.alone = FALSE]
  BY <1>0, Zenon DEF Disturbed
<1>3. spec' \in [Slugs -> {0} \cup Specs] /\ engine' \in Engines
  BY <1>0 DEF RepositoryTypes
<1>4. proc'[p] \in Processes /\ Equipped(proc'[p]) /\ (proc'[p].alone => Faithful(proc'[p], spec', engine', out'))
  BY <1>2, IdleTypes
<1> QED BY <1>1, <1>2, <1>3, <1>4, ChangeInv

\* An author's edit: no process is alone any more.
LEMMA EditInv ==
  ASSUME RepositoryInv, spec' \in [Slugs -> {0} \cup Specs], engine' \in Engines, UNCHANGED out,
         proc' = [p \in Procs |-> [proc[p] EXCEPT !.alone = FALSE]]
  PROVE  RepositoryInv'
<1>1. \A p \in Procs : proc'[p] \in Processes /\ Equipped(proc'[p]) /\ ~proc'[p].alone
  BY DisturbedTypes, Zenon DEF RepositoryInv, RepositoryTypes
<1>2. proc' \in [Procs -> Processes]
  BY <1>1
<1> QED BY <1>1, <1>2 DEF RepositoryInv, RepositoryTypes

LEMMA RepositoryStepInv == ASSUME RepositoryInv, scene \in Scenes, RepositoryStep PROVE RepositoryInv'
<1>0. RepositoryTypes /\ scene.procs \subseteq Procs /\ scene.cmds \subseteq {"build", "check"} /\ scene.slugs \subseteq Slugs
      /\ scene.engines \subseteq Engines
  BY SiteConstants DEF RepositoryInv
<1>1. ASSUME NEW p \in Procs, ProcStep(p) PROVE RepositoryInv'
  BY <1>1, ContextInv, LoadSpecInv, ImportSpecInv, ImportTimesOutInv, RemoveOrphanInv, WriteOutputInv, CompareInv DEF ProcStep
<1>2. CASE Portable
  BY <1>2 DEF Portable, RepositoryInv, RepositoryTypes
<1>3. ASSUME NEW s \in Slugs, NEW version \in {0} \cup Specs, EditSpec(s, version) PROVE RepositoryInv'
  <2>1. spec' \in [Slugs -> {0} \cup Specs] /\ engine' \in Engines
    BY <1>0, <1>3 DEF EditSpec, RepositoryTypes
  <2> QED BY <1>3, <2>1, EditInv DEF EditSpec
<1>4. ASSUME NEW version \in Engines, EditEngine(version) PROVE RepositoryInv'
  <2>1. spec' \in [Slugs -> {0} \cup Specs] /\ engine' \in Engines
    BY <1>0, <1>4 DEF EditEngine, RepositoryTypes
  <2> QED BY <1>4, <2>1, EditInv DEF EditEngine
<1>5. ASSUME NEW held, EditCode(held) PROVE RepositoryInv'
  BY <1>5, Zenon DEF EditCode, RepositoryInv, RepositoryTypes
<1>6. ASSUME NEW enabled, EditConfig(enabled) PROVE RepositoryInv'
  BY <1>6, Zenon DEF EditConfig, RepositoryInv, RepositoryTypes
<1>7. \/ \E p \in Procs : ProcStep(p) \/ Crash(p) \/ \E cmd \in {"build", "check"} : Start(p, cmd)
      \/ Portable
      \/ \E s \in Slugs, version \in {0} \cup Specs : EditSpec(s, version)
      \/ \E version \in Engines : EditEngine(version)
      \/ \E held : EditCode(held)
      \/ \E enabled : EditConfig(enabled)
  BY <1>0 DEF RepositoryStep
<1> QED BY <1>1, <1>2, <1>3, <1>4, <1>5, <1>6, <1>7, CrashInv, StartInv

LEMMA InitRepositoryInv == ASSUME FigureInit PROVE RepositoryInv
<1>1. spec \in [Slugs -> {0} \cup Specs] /\ engine \in Engines
  BY FigureConstants, Zenon DEF FigureInit
<1>2. proc \in [Procs -> Processes] /\ \A p \in Procs : Equipped(proc[p]) /\ ~proc[p].alone
  BY IdleTypes DEF FigureInit
<1>3. \A n \in Names : n[1] \in Slugs /\ n[2] \in Kinds
  BY DEF Names
<1>4. \A n \in Names : out[n] = IF spec[n[1]] = 0 THEN NoFile ELSE Render(spec[n[1]], spec[n[1]], engine, engine)[n[2]]
  BY DEF FigureInit
<1>5. out \in [Names -> Contents]
  <2>1. \A n \in Names : out[n] \in Contents
    BY <1>1, <1>3, <1>4, RenderedFile, SMTT(30) DEF Contents
  <2> QED BY <2>1, Zenon DEF FigureInit
<1>6. \A s \in Slugs : out[<<s, "json">>] \in {NoFile, Torn} \cup Jsons
  <2> SUFFICES ASSUME NEW s \in Slugs PROVE out[<<s, "json">>] \in {NoFile, Torn} \cup Jsons
    BY Zenon
  <2>1. <<s, "json">> \in Names
    BY DEF Names, Kinds
  <2> QED BY <1>1, <1>4, <2>1, RenderedFile, SMTT(30) DEF Kinds
<1> QED BY <1>1, <1>2, <1>5, <1>6 DEF RepositoryInv, RepositoryTypes, Outputs

LEMMA Decides == RepositoryInv => CommandsDecide
  BY Zenon DEF RepositoryInv, Faithful, Decided, Clean, Want, CommandsDecide, AllCurrent, AllValid, Current

\* The README holds one block for every marked figure.
ReadmeInv == readme = [s \in Marked |-> readme[s]]

LEMMA ReadmeStep == ASSUME ReadmeInv, RepositoryStep PROVE ReadmeInv'
<1>1. CASE Portable
  BY <1>1 DEF Portable, RefreshMarkers, ReadmeInv
<1>2. CASE ~Portable
  <2>1. UNCHANGED readme
    BY <1>2, Zenon DEF RepositoryStep, ProcStep, Context, LoadSpec, ImportSpec, ImportTimesOut, RemoveOrphan, WriteOutput, Compare,
                Crash, Start, EditSpec, EditEngine, EditCode, EditConfig
  <2> QED BY <2>1 DEF ReadmeInv
<1> QED BY <1>1, <1>2

\* The JSON of a figure whose sources are in order determines its three files.
LEMMA JsonDecides ==
  ASSUME RepositoryTypes, NEW s \in Slugs, spec[s] # 0, FigureMeta(s), HashesMatch(s),
         out[<<s, "json">>].figure = out[<<s, "json">>].spec_sha256, out[<<s, "json">>].code = out[<<s, "json">>].engine
  PROVE  \A k \in Kinds : Current(<<s, k>>)
<1> DEFINE json == out[<<s, "json">>]
<1>1. json \in Jsons
  BY DEF FigureMeta, RepositoryTypes, Outputs
<1>2. json.figure = spec[s] /\ json.code = engine /\ json.spec_sha256 = spec[s] /\ json.engine = engine
  BY DEF HashesMatch
<1>3. json = Json(spec[s], spec[s], engine, engine)
  BY <1>1, <1>2, Zenon DEF Jsons, Json
<1>4. out[<<s, "svg">>] = Image("svg", spec[s], engine) /\ out[<<s, "static">>] = Image("static", spec[s], engine)
  BY <1>2, Zenon DEF HashesMatch
<1>5. /\ Render(spec[s], spec[s], engine, engine)["json"] = Json(spec[s], spec[s], engine, engine)
      /\ Render(spec[s], spec[s], engine, engine)["svg"] = Image("svg", spec[s], engine)
      /\ Render(spec[s], spec[s], engine, engine)["static"] = Image("static", spec[s], engine)
  BY DEF Render, Kinds
<1> QED BY <1>3, <1>4, <1>5, Zenon DEF Current, Kinds

LEMMA CurrentAgrees ==
  ASSUME RepositoryTypes, AllCurrent, NEW s \in Slugs
  PROVE  /\ spec[s] = 0 => out[<<s, "json">>] = NoFile
         /\ spec[s] # 0 => HashesMatch(s) /\ FigureMeta(s)
<1>1. <<s, "svg">> \in Names /\ <<s, "static">> \in Names /\ <<s, "json">> \in Names
  BY DEF Names, Kinds
<1>2. spec[s] = 0 => out[<<s, "json">>] = NoFile
  BY <1>1 DEF AllCurrent, Current
<1>3. CASE spec[s] # 0
  <2>1. /\ out[<<s, "json">>] = Json(spec[s], spec[s], engine, engine)
        /\ out[<<s, "svg">>] = Image("svg", spec[s], engine)
        /\ out[<<s, "static">>] = Image("static", spec[s], engine)
    BY <1>1, <1>3, Zenon DEF AllCurrent, Current, Render, Kinds
  <2>2. HashesMatch(s)
    BY <2>1, SMTT(30) DEF HashesMatch, Json
  <2>3. FigureMeta(s)
    BY <2>1, SMTT(30) DEF FigureMeta, Json, NoFile, Torn
  <2> QED BY <1>3, <2>2, <2>3
<1> QED BY <1>2, <1>3

\* What figureSourceErrors finds in figures that are all current: code they cite that is gone, and
\* sizes the engine does not record.
LEMMA CurrentSources ==
  ASSUME RepositoryTypes, AllCurrent, HasFigures
  PROVE  /\ SpecStems = MetaStems /\ SpecStems # {}
         /\ \A s \in SpecStems : FigureMeta(s) /\ HashesMatch(s)
         /\ ~FigureSourceErrors <=> (\A s \in SpecStems : spec[s] \in Cited => spec[s] \in anchors) /\ Size[engine] # 0
<1>1. SpecStems = MetaStems
  BY CurrentAgrees DEF SpecStems, MetaStems, Present, FigureMeta
<1>2. \A s \in SpecStems : FigureMeta(s) /\ HashesMatch(s)
  BY CurrentAgrees, Zenon DEF SpecStems
<1>3. SpecStems # {}
  <2> SUFFICES ASSUME SpecStems = {} PROVE FALSE
    OBVIOUS
  <2>1. \A s \in Slugs : spec[s] = 0
    BY DEF SpecStems
  <2>2. \A n \in Names : n[1] \in Slugs
    BY DEF Names
  <2>3. \A n \in Names : out[n] = NoFile
    BY <2>1, <2>2, Zenon DEF AllCurrent, Current
  <2> QED BY <2>1, <2>3, Zenon DEF HasFigures, Present
<1>4. \A s \in SpecStems : out[<<s, "json">>].figure = spec[s] /\ out[<<s, "json">>].code = engine
  <2> SUFFICES ASSUME NEW s \in SpecStems PROVE out[<<s, "json">>].figure = spec[s] /\ out[<<s, "json">>].code = engine
    OBVIOUS
  <2>1. s \in Slugs /\ spec[s] # 0 /\ <<s, "json">> \in Names
    BY DEF SpecStems, Names, Kinds
  <2>2. out[<<s, "json">>] = Json(spec[s], spec[s], engine, engine)
    BY <2>1, Zenon DEF AllCurrent, Current, Render, Kinds
  <2> QED BY <2>2 DEF Json
<1>5. /\ \A s \in SpecStems : EvidenceErrors(s) <=> ~(spec[s] \in Cited => spec[s] \in anchors)
      /\ \A s \in SpecStems : SizeErrors(s) <=> Size[engine] = 0
      /\ \A s \in SpecStems : ~HtmlErrors(s)
  BY <1>4, Zenon DEF EvidenceErrors, SizeErrors, HtmlErrors
<1>6. FigureSourceErrors <=> \E s \in SpecStems : EvidenceErrors(s) \/ SizeErrors(s)
  BY <1>1, <1>2, <1>5, Zenon DEF FigureSourceErrors
<1> QED BY <1>1, <1>2, <1>3, <1>5, <1>6, Zenon

LEMMA SourcesDecide == ASSUME RepositoryTypes, ReadmeInv PROVE SourcesAgree
<1> DEFINE specs == {s \in Slugs : spec[s] # 0}
           json(s) == out[<<s, "json">>]
<1>0. SpecStems = specs
  BY DEF SpecStems
<1>1. ASSUME Sources = 0, NEW s \in specs, json(s).figure = json(s).spec_sha256
      PROVE  /\ Html(json(s)).figure = spec[s] /\ Html(json(s)).markup = Markup[engine]
             /\ json(s).code = json(s).engine => \A k \in Kinds : Current(<<s, k>>)
  <2>1. HasFigures
    BY DEF HasFigures
  <2>2. (\A t \in SpecStems \cap MetaStems : FigureMeta(t)) /\ ~FigureSourceErrors
    BY <1>1, <2>1, SMTT(30) DEF Sources
  <2>3. FigureMeta(s) /\ HashesMatch(s) /\ ~HtmlErrors(s)
    BY <1>0, <2>2, Zenon DEF FigureSourceErrors
  <2>4. Html(json(s)).figure = spec[s] /\ Html(json(s)).markup = Markup[engine]
    BY <1>1, <2>3 DEF HashesMatch, HtmlErrors, Html
  <2> QED BY <1>1, <2>3, <2>4, JsonDecides
<1> DEFINE Rest == /\ \A s \in specs : spec[s] \in Cited => spec[s] \in anchors
                   /\ Size[engine] # 0
                   /\ Diagrams \subseteq kinds /\ Fenced \cup Marked \subseteq specs
                   /\ \A s \in Marked : readme[s] = Html(json(s))
<1>2. ASSUME HasFigures, AllCurrent PROVE Sources = 0 <=> Rest
  <2>1. MetaStems = specs /\ \A s \in specs : FigureMeta(s)
    BY <1>0, <1>2, CurrentSources, Zenon
  <2>2. ~FigureSourceErrors <=> (\A s \in specs : spec[s] \in Cited => spec[s] \in anchors) /\ Size[engine] # 0
    BY <1>0, <1>2, CurrentSources, Zenon
  <2>3. ~PageSourceErrors <=> Diagrams \subseteq kinds /\ Fenced \subseteq specs
    BY <1>0, <2>1 DEF PageSourceErrors, KindErrors
  <2>4. (\A s \in Marked : FigureMeta(s)) <=> Marked \subseteq specs
    BY <1>0, <2>1, FigureConstants, Zenon DEF FigureMeta, MetaStems, Present
  <2>5. ASSUME Marked \subseteq specs PROVE RefreshMarkers = readme <=> \A s \in Marked : readme[s] = Html(json(s))
    <3>1. \A s \in Marked : RefreshMarkers[s] = Html(json(s))
      BY <2>1, <2>5 DEF RefreshMarkers
    <3> QED BY <3>1 DEF ReadmeInv, RefreshMarkers
  <2>6. Sources = 0 <=> /\ ~FigureSourceErrors /\ ~PageSourceErrors
                        /\ RefreshMarkers = readme /\ \A s \in Marked : FigureMeta(s)
    BY <1>0, <1>2, <2>1 DEF Sources
  <2> QED BY <2>2, <2>3, <2>4, <2>5, <2>6, Zenon
<1> QED BY <1>1, <1>2, Zenon DEF SourcesAgree

-----------------------------------------------------------------------------
(***************************************************************************)
(* The site.                                                               *)
(***************************************************************************)
LEMMA DigestTypes == ASSUME RepositoryTypes PROVE FiguresDigest \in Digests
<1>1. \A s \in Slugs : out[<<s, "json">>] \in Contents
  BY Zenon DEF RepositoryTypes, Outputs, Names, Kinds
<1> QED BY <1>1 DEF FiguresDigest, Digests

LEMMA NoPagesTypes == NoPages \in PageMaps /\ DOMAIN NoPages = {}
<1>1. NoPages \in [{} -> Shown]
  BY DEF NoPages
<1> QED BY <1>1 DEF PageMaps, NoPages

LEMMA OffTypes == Off \in Sites /\ Off.phase = "off" /\ Off.mode = "none"
<1>1. NoPages \in PageMaps /\ <<>> \in Digests /\ PlayerDir \in Nat
  BY NoPagesTypes DEF Digests, PlayerDir
<1> HIDE DEF NoPages, PageMaps, Digests, PlayerDir
<1> QED BY <1>1 DEF Off, Sites

\* What the site is when it is off says nothing about its pages.
LEMMA OffPages == ASSUME PageInv, UNCHANGED store, site'.phase = "off" PROVE PageInv'
  BY Zenon DEF PageInv, Agree

LEMMA BuiltKept == ASSUME BuiltIsCurrent, UNCHANGED <<dist, local, lock>> PROVE BuiltIsCurrent'
  BY Zenon DEF BuiltIsCurrent, CheckSite, FigureErrors, LoaderErrors, SvgOnlySite

LEMMA ConfigSetupInv ==
  ASSUME RepositoryTypes, SiteInv, NEW mode \in {"dev", "build"}, ConfigSetup(mode), UNCHANGED out
  PROVE  SiteInv'
<1>0. /\ UNCHANGED <<scene, local, lock, store, tmp, dist>> /\ siteRuns' = siteRuns + 1
      /\ SiteTypes /\ PlayerInv /\ PageInv /\ BuiltIsCurrent /\ siteRuns \in Nat /\ local \in BOOLEAN
  BY DEF ConfigSetup, SiteInv, SiteTypes
<1>1. PlayerPhase \in {"ready", "failed", "download"} /\ (PlayerPhase = "download" => ~local)
  BY DEF PlayerPhase
<1>2. FiguresDigest \in Digests /\ FiguresDigest' = FiguresDigest
  BY DigestTypes DEF FiguresDigest
<1>3. site' = [Off EXCEPT !.phase = PlayerPhase, !.script = local, !.mode = mode, !.digest = FiguresDigest]
  BY DEF ConfigSetup
<1>4. /\ Off \in Sites /\ ~Off.watch /\ ~Off.timer /\ ~Off.missed /\ ~Off.raced /\ ~Off.inherited /\ ~Off.failed
      /\ Off.dir = PlayerDir
  BY OffTypes, Zenon DEF Off
<1> HIDE DEF Off, PlayerPhase, FiguresDigest
<1>5. /\ site' \in Sites /\ site'.phase = PlayerPhase /\ site'.script = local /\ site'.digest = FiguresDigest
      /\ ~site'.watch /\ ~site'.timer /\ ~site'.missed /\ ~site'.raced /\ ~site'.inherited /\ ~site'.failed
      /\ site'.dir = PlayerDir
  BY <1>0, <1>1, <1>2, <1>3, <1>4, Zenon DEF Sites
<1>6. SiteTypes'
  BY <1>0, <1>5, SMTT(30) DEF SiteTypes
<1>7. PlayerInv'
  <2>1. tmp.disk \subseteq 1..siteRuns /\ siteRuns' \notin tmp.disk /\ siteRuns' > 0 /\ tmp.disk \subseteq 1..siteRuns'
        /\ 1..siteRuns \subseteq 1..siteRuns'
    BY <1>0, SMTT(30) DEF PlayerInv
  <2> QED BY <1>0, <1>1, <1>5, <2>1, Zenon DEF PlayerInv
<1>8. PageInv'
  BY <1>0, <1>1, <1>2, <1>5, Zenon DEF PageInv, Agree
<1> QED BY <1>0, <1>6, <1>7, <1>8, BuiltKept DEF SiteInv

LEMMA RecordedPlayer ==
  ASSUME SiteTypes, PlayerInv, site.phase = "download", tmp' = RecordExtractedPlayerDir(siteRuns)
  PROVE  /\ tmp' \in Players /\ tmp'.recorded = {siteRuns} /\ siteRuns \in 1..siteRuns
         /\ tmp'.disk = tmp'.recorded \cup tmp'.leaked /\ tmp'.recorded \cap tmp'.leaked = {}
         /\ tmp'.disk \subseteq 1..siteRuns
<1>1. /\ tmp \in Players /\ siteRuns \in Nat /\ siteRuns > 0 /\ siteRuns \notin tmp.disk
      /\ tmp.disk = tmp.recorded \cup tmp.leaked /\ tmp.recorded \cap tmp.leaked = {} /\ tmp.disk \subseteq 1..siteRuns
  BY DEF SiteTypes, PlayerInv
<1>2. /\ tmp' \in Players /\ tmp'.recorded = {siteRuns} /\ tmp'.disk = (tmp.disk \cup {siteRuns}) \ tmp.recorded
      /\ tmp'.leaked = tmp.leaked
  BY <1>1, Zenon DEF RecordExtractedPlayerDir, Players
<1>3. siteRuns \in 1..siteRuns
  BY <1>1, SMTT(30)
<1> QED BY <1>1, <1>2, <1>3, SMTT(30)

LEMMA DownloadSucceedsInv == ASSUME SiteInv, DownloadSucceeds, UNCHANGED out PROVE SiteInv'
<1>0. /\ UNCHANGED <<scene, local, lock, store, dist, siteRuns>> /\ site.phase = "download"
      /\ tmp' = RecordExtractedPlayerDir(siteRuns)
      /\ SiteTypes /\ PlayerInv /\ PageInv /\ BuiltIsCurrent /\ siteRuns \in Nat /\ site \in Sites
      /\ FiguresDigest' = FiguresDigest
  BY DEF DownloadSucceeds, SiteInv, SiteTypes, FiguresDigest
<1>1. site' = [site EXCEPT !.phase = "ready", !.script = TRUE, !.dir = siteRuns]
  BY DEF DownloadSucceeds
<1>2. /\ site' \in Sites /\ site'.phase = "ready" /\ site'.dir = siteRuns /\ site'.digest = site.digest
      /\ site'.raced = site.raced /\ site'.watch = site.watch /\ site'.timer = site.timer /\ site'.missed = site.missed
      /\ site'.failed = site.failed /\ site'.inherited = site.inherited /\ site'.quiet = site.quiet
  BY <1>0, <1>1, Zenon DEF Sites
<1>3. SiteTypes' /\ PlayerInv'
  BY <1>0, <1>2, RecordedPlayer, Zenon DEF SiteTypes, PlayerInv
<1>4. PageInv'
  BY <1>0, <1>2, Zenon DEF PageInv, Agree
<1> QED BY <1>0, <1>3, <1>4, BuiltKept DEF SiteInv

LEMMA DownloadFailsInv == ASSUME SiteInv, DownloadFails, UNCHANGED out PROVE SiteInv'
<1>0. /\ UNCHANGED <<scene, local, lock, store, dist, siteRuns>> /\ site.phase = "download"
      /\ SiteTypes /\ PlayerInv /\ PageInv /\ BuiltIsCurrent /\ siteRuns \in Nat /\ site \in Sites
      /\ FiguresDigest' = FiguresDigest
  BY DEF DownloadFails, SiteInv, SiteTypes, FiguresDigest
<1>1. /\ \/ site' = [site EXCEPT !.phase = "ready"] /\ UNCHANGED tmp
         \/ site' = [site EXCEPT !.phase = "failed"]
      /\ UNCHANGED tmp \/ tmp' = RecordExtractedPlayerDir(siteRuns)
  BY DEF DownloadFails
<1>2. /\ site' \in Sites /\ site'.phase \in {"ready", "failed"} /\ site'.digest = site.digest /\ site'.script = site.script
      /\ site'.raced = site.raced /\ site'.watch = site.watch /\ site'.timer = site.timer /\ site'.missed = site.missed
      /\ site'.failed = site.failed /\ site'.inherited = site.inherited /\ site'.quiet = site.quiet
  BY <1>0, <1>1 DEF Sites
<1>3. SiteTypes' /\ PlayerInv'
  <2>1. CASE UNCHANGED tmp
    BY <1>0, <1>2, <2>1, Zenon DEF SiteTypes, PlayerInv
  <2>2. CASE tmp' = RecordExtractedPlayerDir(siteRuns)
    BY <1>0, <1>2, <2>2, RecordedPlayer, Zenon DEF SiteTypes, PlayerInv
  <2> QED BY <1>1, <2>1, <2>2
<1>4. PageInv'
  BY <1>0, <1>2, Zenon DEF PageInv, Agree
<1> QED BY <1>0, <1>3, <1>4, BuiltKept DEF SiteInv

LEMMA ServerSetupInv == ASSUME SiteInv, ServerSetup, UNCHANGED out PROVE SiteInv'
<1> DEFINE same == store.digest = site.digest
           dev == site.mode = "dev"
           kept == IF same THEN store.pages ELSE NoPages
           old == same /\ store.raced
<1>0. /\ UNCHANGED <<scene, local, lock, store, tmp, dist, siteRuns>> /\ site.phase = "ready"
      /\ SiteTypes /\ PlayerInv /\ PageInv /\ BuiltIsCurrent /\ site \in Sites /\ store \in Stores
      /\ FiguresDigest' = FiguresDigest
  BY DEF ServerSetup, SiteInv, SiteTypes, FiguresDigest
<1>1. site' = [site EXCEPT !.phase = "sync", !.watch = dev, !.pages = kept, !.inherited = old]
  BY DEF ServerSetup
<1>2. kept \in PageMaps /\ dev \in BOOLEAN /\ old \in BOOLEAN /\ (dev <=> site.mode = "dev") /\ (old <=> same /\ store.raced)
  BY <1>0, NoPagesTypes DEF Stores
<1>3. ~site.raced /\ ~old => Agree(kept, site.digest)
  BY <1>0, NoPagesTypes, Zenon DEF Agree, PageInv, Stores
<1> HIDE DEF kept, dev, old, same
<1>4. /\ site' \in Sites /\ site'.phase = "sync" /\ site'.digest = site.digest /\ site'.script = site.script
      /\ site'.raced = site.raced /\ site'.watch = dev /\ site'.timer = site.timer /\ site'.missed = site.missed
      /\ site'.failed = site.failed /\ site'.inherited = old /\ site'.quiet = site.quiet /\ site'.mode = site.mode
      /\ site'.dir = site.dir /\ site'.pages = kept
  BY <1>0, <1>1, <1>2, Zenon DEF Sites
<1>5. SiteTypes' /\ PlayerInv'
  BY <1>0, <1>4, Zenon DEF SiteTypes, PlayerInv
<1>6. PageInv'
  BY <1>0, <1>2, <1>3, <1>4, Zenon DEF PageInv, Agree
<1> QED BY <1>0, <1>5, <1>6, BuiltKept DEF SiteInv

LEMMA RenderPageInv == ASSUME RepositoryTypes, SiteInv, NEW s \in Fenced, RenderPage(s), UNCHANGED out PROVE SiteInv'
<1> DEFINE more == [t \in DOMAIN site.pages \cup {s} |-> IF t = s THEN FigureNode(out[<<s, "json">>]) ELSE site.pages[t]]
<1>0. /\ UNCHANGED <<scene, local, lock, store, tmp, dist, siteRuns>> /\ site.phase = "sync"
      /\ SiteTypes /\ PlayerInv /\ PageInv /\ BuiltIsCurrent /\ site \in Sites
      /\ FiguresDigest' = FiguresDigest
  BY DEF RenderPage, SiteInv, SiteTypes, FiguresDigest
<1>1. site' = [site EXCEPT !.pages = more]
  BY <1>0 DEF RenderPage, Sites
<1>2. FigureNode(out[<<s, "json">>]) \in Shown
  <2>1. out[<<s, "json">>] \in Contents
    BY FigureConstants DEF RepositoryTypes, Outputs, Names, Kinds
  <2> QED BY <2>1 DEF FigureNode, Shown
<1>3. more \in PageMaps
  <2>1. PICK D \in SUBSET Fenced : site.pages \in [D -> Shown]
    BY <1>0 DEF Sites, PageMaps
  <2>2. more \in [D \cup {s} -> Shown]
    BY <1>2, <2>1
  <2> QED BY <2>2, Zenon DEF PageMaps
<1>4. ~site.raced /\ ~site.inherited => Agree(more, site.digest)
  <2> SUFFICES ASSUME ~site.raced, ~site.inherited PROVE Agree(more, site.digest)
    OBVIOUS
  <2>1. site.digest = FiguresDigest /\ Agree(site.pages, site.digest)
    BY <1>0, Zenon DEF PageInv
  <2>2. FiguresDigest[s] = out[<<s, "json">>]
    BY FigureConstants DEF FiguresDigest
  <2> QED BY <2>1, <2>2 DEF Agree
<1> HIDE DEF more
<1>5. /\ site' \in Sites /\ site'.phase = "sync" /\ site'.digest = site.digest /\ site'.script = site.script
      /\ site'.raced = site.raced /\ site'.watch = site.watch /\ site'.timer = site.timer /\ site'.missed = site.missed
      /\ site'.failed = site.failed /\ site'.inherited = site.inherited /\ site'.quiet = site.quiet
      /\ site'.mode = site.mode /\ site'.dir = site.dir /\ site'.pages = more
  BY <1>0, <1>1, <1>3 DEF Sites
<1>6. SiteTypes' /\ PlayerInv'
  BY <1>0, <1>5, Zenon DEF SiteTypes, PlayerInv
<1>7. PageInv'
  BY <1>0, <1>4, <1>5, Zenon DEF PageInv, Agree
<1> QED BY <1>0, <1>6, <1>7, BuiltKept DEF SiteInv

LEMMA SavedStoreInv ==
  ASSUME SiteTypes, PageInv, site.phase = "sync", store' = SavedStore
  PROVE  store' \in Stores /\ (~store'.raced => Agree(store'.pages, store'.digest))
<1>1. site.digest \in Digests /\ site.pages \in PageMaps /\ site.raced \in BOOLEAN /\ site.inherited \in BOOLEAN
  BY DEF SiteTypes, Sites
<1>2. /\ store' \in Stores /\ store'.digest = site.digest /\ store'.pages = site.pages
      /\ store'.raced = (site.raced \/ site.inherited)
  BY <1>1 DEF SavedStore, Stores
<1>3. store'.raced <=> site.raced \/ site.inherited
  BY <1>1, <1>2
<1> QED BY <1>2, <1>3, Zenon DEF PageInv

LEMMA EndSyncInv == ASSUME SiteInv, EndSync, UNCHANGED out PROVE SiteInv'
<1>0. /\ UNCHANGED <<scene, local, lock, tmp, dist, siteRuns>> /\ site.phase = "sync" /\ store' = SavedStore
      /\ DOMAIN site.pages = Fenced
      /\ SiteTypes /\ PlayerInv /\ PageInv /\ BuiltIsCurrent /\ site \in Sites
      /\ FiguresDigest' = FiguresDigest
  BY DEF EndSync, SiteInv, SiteTypes, FiguresDigest
<1>1. site' = [site EXCEPT !.phase = IF site.mode = "dev" THEN "serving" ELSE "rendered"]
  BY DEF EndSync
<1>2. store' \in Stores /\ (~store'.raced => Agree(store'.pages, store'.digest))
  BY <1>0, SavedStoreInv
<1>3. /\ site' \in Sites /\ site'.phase \in {"serving", "rendered"} /\ (site'.phase = "serving" <=> site.mode = "dev")
      /\ site'.digest = site.digest /\ site'.script = site.script
      /\ site'.raced = site.raced /\ site'.watch = site.watch /\ site'.timer = site.timer /\ site'.missed = site.missed
      /\ site'.failed = site.failed /\ site'.inherited = site.inherited /\ site'.quiet = site.quiet
      /\ site'.mode = site.mode /\ site'.dir = site.dir /\ site'.pages = site.pages
  BY <1>0, <1>1 DEF Sites
<1>4. SiteTypes' /\ PlayerInv'
  BY <1>0, <1>2, <1>3, Zenon DEF SiteTypes, PlayerInv
<1>5. PageInv'
  BY <1>0, <1>2, <1>3, Zenon DEF PageInv, Agree
<1> QED BY <1>0, <1>4, <1>5, BuiltKept DEF SiteInv

LEMMA NoticeInv == ASSUME SiteInv, Notice, UNCHANGED <<scene, local, lock, store, tmp, dist, siteRuns>> PROVE SiteInv'
<1> DEFINE changed == FiguresDigest' # FiguresDigest
           timer == site.timer \/ (changed /\ site.watch)
           missed == site.missed \/ (changed /\ site.phase \in {"download", "ready"})
           raced == site.raced \/ (changed /\ site.phase \in {"download", "ready", "sync"})
           quiet == site.quiet /\ (site.phase = "off" \/ out' = out)
<1>0. SiteTypes /\ PlayerInv /\ PageInv /\ BuiltIsCurrent /\ site \in Sites
  BY DEF SiteInv, SiteTypes
<1>1. site' = [site EXCEPT !.timer = timer, !.missed = missed, !.raced = raced, !.quiet = quiet]
  BY DEF Notice
<1>b. timer \in BOOLEAN /\ missed \in BOOLEAN /\ raced \in BOOLEAN /\ quiet \in BOOLEAN
  BY <1>0 DEF Sites
<1>2. /\ timer <=> site.timer \/ (changed /\ site.watch)
      /\ missed <=> site.missed \/ (changed /\ site.phase \in {"download", "ready"})
      /\ raced <=> site.raced \/ (changed /\ site.phase \in {"download", "ready", "sync"})
      /\ quiet => site.quiet /\ (site.phase = "off" \/ ~changed)
  BY <1>0, Zenon DEF Sites, FiguresDigest
<1>3. changed <=> FiguresDigest' # FiguresDigest
  OBVIOUS
<1> HIDE DEF timer, missed, raced, quiet, changed
<1>4. /\ site' \in Sites /\ site'.phase = site.phase /\ site'.digest = site.digest /\ site'.script = site.script
      /\ site'.raced = raced /\ site'.watch = site.watch /\ site'.timer = timer /\ site'.missed = missed
      /\ site'.failed = site.failed /\ site'.inherited = site.inherited /\ site'.quiet = quiet
      /\ site'.mode = site.mode /\ site'.dir = site.dir /\ site'.pages = site.pages
  BY <1>0, <1>1, <1>b, ZenonT(60) DEF Sites
<1>5. SiteTypes' /\ PlayerInv'
  BY <1>0, <1>4, Zenon DEF SiteTypes, PlayerInv
<1>6. PageInv'
  BY <1>0, <1>2, <1>3, <1>4, ZenonT(30) DEF PageInv, Agree
<1> QED BY <1>0, <1>5, <1>6, BuiltKept DEF SiteInv

LEMMA RestartInv == ASSUME SiteInv, Restart PROVE SiteInv'
<1>0. /\ UNCHANGED <<scene, local, lock, store, tmp, dist, siteRuns>> /\ site' = [Off EXCEPT !.mode = "dev"]
      /\ SiteTypes /\ PlayerInv /\ PageInv /\ BuiltIsCurrent
  BY DEF Restart, SiteInv
<1>1. Off \in Sites /\ Off.phase = "off"
  BY OffTypes
<1> HIDE DEF Off
<1>2. site' \in Sites /\ site'.phase = "off" /\ site'.mode = "dev"
  BY <1>0, <1>1 DEF Sites
<1>3. SiteTypes' /\ PlayerInv'
  BY <1>0, <1>2 DEF SiteTypes, PlayerInv
<1> QED BY <1>0, <1>2, <1>3, OffPages, BuiltKept DEF SiteInv

LEMMA RestartFailsInv == ASSUME SiteInv, RestartFails, UNCHANGED out PROVE SiteInv'
<1>0. /\ UNCHANGED <<scene, local, lock, store, tmp, dist, siteRuns>> /\ site.timer
      /\ site' = [site EXCEPT !.timer = FALSE, !.failed = TRUE]
      /\ SiteTypes /\ PlayerInv /\ PageInv /\ BuiltIsCurrent /\ site \in Sites /\ FiguresDigest' = FiguresDigest
  BY DEF RestartFails, SiteInv, SiteTypes, FiguresDigest
<1>1. /\ site' \in Sites /\ site'.phase = site.phase /\ site'.digest = site.digest /\ site'.script = site.script
      /\ site'.raced = site.raced /\ site'.watch = site.watch /\ site'.missed = site.missed
      /\ site'.failed /\ site'.inherited = site.inherited /\ site'.quiet = site.quiet
      /\ site'.mode = site.mode /\ site'.dir = site.dir /\ site'.pages = site.pages
  BY <1>0, Zenon DEF Sites
<1>2. SiteTypes' /\ PlayerInv'
  BY <1>0, <1>1 DEF SiteTypes, PlayerInv
<1>3. PageInv'
  BY <1>0, <1>1, SMTT(30) DEF PageInv, Agree
<1> QED BY <1>0, <1>2, <1>3, BuiltKept DEF SiteInv

\* The exit handler leaves the directories of killed processes only.
LEMMA ExitedPlayers ==
  ASSUME SiteTypes, PlayerInv, tmp' = ExitHandler
  PROVE  /\ tmp' \in Players /\ tmp'.recorded = {} /\ tmp'.leaked = tmp.leaked /\ tmp'.disk = tmp.leaked
         /\ tmp'.disk \subseteq 1..siteRuns
<1>1. /\ tmp \in Players /\ tmp.disk = tmp.recorded \cup tmp.leaked /\ tmp.recorded \cap tmp.leaked = {}
      /\ tmp.disk \subseteq 1..siteRuns
  BY Zenon DEF SiteTypes, PlayerInv
<1>2. /\ tmp' \in Players /\ tmp'.recorded = {} /\ tmp'.leaked = tmp.leaked
      /\ tmp'.disk = tmp.disk \ tmp.recorded
  BY <1>1, Zenon DEF ExitHandler, Players
<1> QED BY <1>1, <1>2

LEMMA StopInv == ASSUME SiteInv, Stop PROVE SiteInv'
<1>0. /\ UNCHANGED <<scene, local, lock, store, dist, siteRuns>> /\ site' = Off /\ tmp' = ExitHandler
      /\ SiteTypes /\ PlayerInv /\ PageInv /\ BuiltIsCurrent
  BY DEF Stop, SiteInv
<1>1. site' \in Sites /\ site'.phase = "off" /\ site'.mode = "none"
  BY <1>0, OffTypes
<1>2. SiteTypes' /\ PlayerInv'
  BY <1>0, <1>1, ExitedPlayers, Zenon DEF SiteTypes, PlayerInv
<1> QED BY <1>0, <1>1, <1>2, OffPages, BuiltKept DEF SiteInv

LEMMA KillInv == ASSUME SiteInv, Kill PROVE SiteInv'
<1>0. /\ UNCHANGED <<scene, local, lock, dist, siteRuns, out>> /\ site' = Off
      /\ tmp' = [tmp EXCEPT !.leaked = @ \cup tmp.recorded, !.recorded = {}]
      /\ store' = store \/ (site.phase = "sync" /\ store' = SavedStore)
      /\ SiteTypes /\ PlayerInv /\ PageInv /\ BuiltIsCurrent /\ tmp \in Players /\ store \in Stores
  BY DEF Kill, SiteInv, SiteTypes
<1>1. site' \in Sites /\ site'.phase = "off" /\ site'.mode = "none"
  BY <1>0, OffTypes
<1>2. /\ tmp' \in Players /\ tmp'.recorded = {} /\ tmp'.leaked = tmp.leaked \cup tmp.recorded /\ tmp'.disk = tmp.disk
  BY <1>0, Zenon DEF Players
<1>3. store' \in Stores /\ (~store'.raced => Agree(store'.pages, store'.digest))
  BY <1>0, SavedStoreInv DEF PageInv
<1>4. SiteTypes' /\ PlayerInv'
  BY <1>0, <1>1, <1>2, <1>3 DEF SiteTypes, PlayerInv
<1>5. PageInv'
  BY <1>1, <1>3, Zenon DEF PageInv, Agree
<1> QED BY <1>0, <1>4, <1>5, BuiltKept DEF SiteInv

LEMMA MountedPlayer ==
  ASSUME SiteTypes, PlayerInv, site.phase \in {"ready", "sync", "serving", "rendered"}, site.script
  PROVE  PlayerAnswers
<1>1. CASE site.dir = PlayerDir /\ local
  BY <1>1 DEF PlayerAnswers
<1>2. CASE site.dir \in tmp.recorded
  <2>1. site.dir \in 1..siteRuns /\ siteRuns \in Nat /\ site.dir \in tmp.disk
    BY <1>2 DEF PlayerInv, SiteTypes
  <2>2. site.dir # PlayerDir
    BY <2>1, SMTT(30) DEF PlayerDir
  <2> QED BY <2>1, <2>2 DEF PlayerAnswers
<1> QED BY <1>1, <1>2, Zenon DEF PlayerInv

\* When the sources are clean every figure a page names has its JSON and the images it was drawn with.
LEMMA CleanFigure ==
  ASSUME RepositoryTypes, HasFigures, Sources = 0, NEW s \in Fenced
  PROVE  LET json == out[<<s, "json">>]
         IN /\ json \in Jsons /\ FigureNode(json) = json
            /\ \A k \in {"svg", "static"} : out[<<s, k>>] = Image(k, json.figure, json.code)
<1>1. /\ \A t \in SpecStems \cap MetaStems : FigureMeta(t)
      /\ ~FigureSourceErrors /\ ~PageSourceErrors
  BY SMTT(30) DEF Sources
<1>2. FigureMeta(s) /\ HashesMatch(s) /\ s \in Slugs
  BY <1>1, FigureConstants DEF FigureSourceErrors, PageSourceErrors
<1> QED BY <1>2, Zenon DEF FigureMeta, HashesMatch, FigureNode, RepositoryTypes, Outputs

LEMMA BuildDoneInv == ASSUME RepositoryTypes, SiteInv, BuildDone PROVE SiteInv'
<1>0. /\ UNCHANGED <<scene, local, lock, store, siteRuns>> /\ site' = Off /\ tmp' = ExitHandler
      /\ site.phase = "rendered"
      /\ SiteTypes /\ PlayerInv /\ PageInv /\ BuiltIsCurrent /\ site \in Sites
  BY Zenon DEF BuildDone, SiteInv, SiteTypes
<1>1. site' \in Sites /\ site'.phase = "off" /\ site'.mode = "none"
  BY <1>0, OffTypes
<1>2. SiteTypes' /\ PlayerInv'
  BY <1>0, <1>1, ExitedPlayers, Zenon DEF SiteTypes, PlayerInv
<1>3. PageInv'
  BY <1>0, <1>1, OffPages
<1> DEFINE wanted == [s \in Fenced |-> FigureNode(out[<<s, "json">>])]
<1>4. /\ dist'.pages = site.pages /\ dist'.files = Publish /\ dist'.script = site.script /\ dist'.player = PlayerAnswers
      /\ dist'.quiet = (site.quiet /\ ~site.inherited) /\ dist'.clean = (HasFigures /\ Sources = 0)
      /\ dist'.pagesWanted = wanted
  BY Zenon DEF BuildDone
<1>5. ASSUME dist'.quiet PROVE site.pages = wanted
  <2>1. site.quiet /\ ~site.inherited
    BY <1>4, <1>5, Zenon
  <2>2. site.digest = FiguresDigest /\ Agree(site.pages, site.digest) /\ DOMAIN site.pages = Fenced
    BY <1>0, <2>1, Zenon DEF PageInv
  <2>3. \A s \in Fenced : site.pages[s] = FigureNode(out[<<s, "json">>])
    BY <2>2, FigureConstants, Zenon DEF Agree, FiguresDigest
  <2>4. PICK D \in SUBSET Fenced : site.pages \in [D -> Shown]
    BY <1>0 DEF Sites, PageMaps
  <2>5. D = Fenced
    BY <2>2, <2>4
  <2> QED BY <2>3, <2>4, <2>5, Zenon
<1>6. ASSUME dist'.quiet, dist'.clean, NEW s \in Fenced
      PROVE  /\ dist'.pages[s] # NoPage
             /\ \A k \in {"svg", "static"} :
                  /\ <<s, k>> \in DOMAIN dist'.files
                  /\ dist'.files[<<s, k>>] \in {Public, Image(k, dist'.pages[s].figure, dist'.pages[s].code)}
                  /\ dist'.files[<<s, k>>] # Torn
  <2> DEFINE json == out[<<s, "json">>]
  <2>1. HasFigures /\ Sources = 0
    BY <1>4, <1>6, Zenon
  <2>2. /\ json \in Jsons /\ FigureNode(json) = json
        /\ \A k \in {"svg", "static"} : out[<<s, k>>] = Image(k, json.figure, json.code)
    BY <2>1, CleanFigure, Zenon
  <2>3. dist'.pages[s] = json
    BY <1>4, <1>5, <1>6, <2>2, ZenonT(30)
  <2>4. json # NoPage
    BY <2>2, SMTT(30) DEF Jsons, NoPage
  <2>5. ASSUME NEW k \in {"svg", "static"}
        PROVE  <<s, k>> \in DOMAIN Publish /\ Publish[<<s, k>>] \in {Public, out[<<s, k>>]}
    <3>1. <<s, k>> \in Names /\ Present(<<s, k>>)
      BY <2>2, FigureConstants, SMTT(30) DEF Names, Kinds, Present, NoFile, Image
    <3> QED BY <3>1, Zenon DEF Publish
  <2>6. \A k \in {"svg", "static"} : Public # Torn /\ Image(k, json.figure, json.code) # Torn
    BY Zenon DEF Public, Torn, Image
  <2> QED BY <1>4, <2>2, <2>3, <2>4, <2>5, <2>6, Zenon
<1>7. ASSUME dist'.quiet, dist'.clean, Fenced # {} PROVE CheckSite' <=> (dist'.script \/ SvgOnlySite')
  <2>1. CheckSite' <=> ~LoaderErrors'
    BY <1>6, <1>7, Zenon DEF CheckSite, FigureErrors
  <2>2. site.script \in BOOLEAN /\ (site.script => PlayerAnswers)
    BY <1>0, MountedPlayer DEF Sites
  <2>3. LoaderErrors' <=> ~dist'.script /\ ~SvgOnlySite'
    BY <1>4, <2>2, Zenon DEF LoaderErrors
  <2> QED BY <2>1, <2>3
<1>8. BuiltIsCurrent'
  BY <1>4, <1>5, <1>6, <1>7, Zenon DEF BuiltIsCurrent
<1> QED BY <1>2, <1>3, <1>8 DEF SiteInv

LEMMA SiteStepInv ==
  ASSUME RepositoryTypes, SiteInv, SiteStep \/ TimerFires \/ SiteStart \/ Stop, UNCHANGED figureVars
  PROVE  SiteInv'
<1>0. UNCHANGED out /\ scene.modes \subseteq {"dev", "build"}
  BY SiteConstants, Zenon DEF figureVars, SiteInv, SiteTypes
<1>1. CASE SiteStep
  BY <1>0, <1>1, DownloadSucceedsInv, DownloadFailsInv, ServerSetupInv, RenderPageInv, EndSyncInv, BuildDoneInv,
     ConfigSetupInv, Zenon DEF SiteStep
<1>2. CASE TimerFires
  BY <1>0, <1>2, RestartInv, RestartFailsInv, Zenon DEF TimerFires
<1>3. CASE SiteStart
  BY <1>0, <1>3, ConfigSetupInv DEF SiteStart
<1>4. CASE Stop
  BY <1>4, StopInv
<1> QED BY <1>1, <1>2, <1>3, <1>4

LEMMA InitSiteInv == ASSUME Init PROVE SiteInv
<1>1. local \in BOOLEAN /\ scene \in Scenes
  BY SiteConstants, Zenon DEF Init
<1>2. site \in Sites /\ site.phase = "off" /\ site.mode = "none" /\ siteRuns = 0
  BY OffTypes, Zenon DEF Init
<1>3. tmp = [disk |-> {}, recorded |-> {}, leaked |-> {}]
  BY Zenon DEF Init
<1>4. store \in Stores /\ store.pages = NoPages
  <2>1. store = [digest |-> <<>>, pages |-> NoPages, raced |-> FALSE]
    BY Zenon DEF Init
  <2>2. <<>> \in Digests /\ NoPages \in PageMaps
    BY NoPagesTypes DEF Digests
  <2> QED BY <2>1, <2>2 DEF Stores
<1>5. SiteTypes
  BY <1>1, <1>2, <1>3, <1>4, Zenon DEF SiteTypes, Players
<1>6. PlayerInv
  BY <1>2, <1>3, Zenon DEF PlayerInv
<1>7. PageInv
  BY <1>2, <1>4, NoPagesTypes, Zenon DEF PageInv, Agree
<1>8. ~dist.quiet
  BY Zenon DEF Init
<1> QED BY <1>5, <1>6, <1>7, <1>8, Zenon DEF SiteInv, BuiltIsCurrent

-----------------------------------------------------------------------------
(***************************************************************************)
(* The theorems.                                                           *)
(***************************************************************************)
FiguresInv == RepositoryInv /\ ReadmeInv /\ SiteInv

LEMMA InitFiguresInv == Init => FiguresInv
<1> SUFFICES ASSUME Init PROVE FiguresInv
  OBVIOUS
<1>1. FigureInit
  BY Zenon DEF Init
<1>2. ReadmeInv
  BY <1>1, SMTT(30) DEF FigureInit, ReadmeInv
<1> QED BY <1>1, <1>2, InitRepositoryInv, InitSiteInv DEF FiguresInv

LEMMA NextFiguresInv == FiguresInv /\ [Next]_vars => FiguresInv'
<1> SUFFICES ASSUME FiguresInv, [Next]_vars PROVE FiguresInv'
  OBVIOUS
<1>0. RepositoryInv /\ RepositoryTypes /\ ReadmeInv /\ SiteInv /\ scene \in Scenes
  BY DEF FiguresInv, RepositoryInv, SiteInv, SiteTypes
<1>1. ASSUME RepositoryStep, Notice, UNCHANGED <<scene, local, lock, store, tmp, dist, siteRuns>> PROVE FiguresInv'
  BY <1>0, <1>1, RepositoryStepInv, ReadmeStep, NoticeInv DEF FiguresInv
<1>k. ASSUME UNCHANGED <<spec, engine, out, readme, proc>> PROVE RepositoryInv' /\ ReadmeInv'
  BY <1>0, <1>k, ZenonT(30) DEF RepositoryInv, RepositoryTypes, ReadmeInv
<1>2. ASSUME SiteStep \/ TimerFires \/ SiteStart \/ Stop, UNCHANGED figureVars PROVE FiguresInv'
  BY <1>0, <1>2, <1>k, SiteStepInv DEF FiguresInv, figureVars
<1>3. ASSUME Kill PROVE FiguresInv'
  BY <1>0, <1>3, <1>k, KillInv DEF FiguresInv, Kill
<1>4. ASSUME UNCHANGED vars PROVE FiguresInv'
  <2>1. RepositoryInv' /\ ReadmeInv'
    BY <1>4, <1>k DEF vars, figureVars
  <2>2. BuiltIsCurrent'
    BY <1>0, <1>4, BuiltKept DEF SiteInv, vars, siteVars
  <2>3. SiteTypes' /\ PlayerInv'
    BY <1>0, <1>4, Zenon DEF SiteInv, SiteTypes, PlayerInv, vars, siteVars
  <2>4. PageInv'
    BY <1>0, <1>4, Zenon DEF SiteInv, PageInv, Agree, FiguresDigest, vars, siteVars, figureVars
  <2> QED BY <2>1, <2>2, <2>3, <2>4 DEF FiguresInv, SiteInv
<1> QED BY <1>1, <1>2, <1>3, <1>4 DEF Next

LEMMA AlwaysFiguresInv == Spec => []FiguresInv
  BY InitFiguresInv, NextFiguresInv, PTL DEF Spec

LEMMA Served == SiteInv => ServedIsFresh
<1> SUFFICES ASSUME SiteInv, site.phase = "serving", ~site.timer, ~site.missed, ~site.failed, ~site.inherited PROVE Fresh
  BY DEF ServedIsFresh
<1>1. /\ site.digest = FiguresDigest /\ ~site.raced /\ DOMAIN site.pages = Fenced /\ Agree(site.pages, site.digest)
  BY Zenon DEF SiteInv, PageInv
<1> QED BY <1>1, FigureConstants, Zenon DEF Fresh, Agree, FiguresDigest

LEMMA Mounted == SiteInv => LoaderServed
<1> SUFFICES ASSUME SiteInv PROVE LoaderServed
  OBVIOUS
<1>1. Cardinality(tmp.recorded) <= 1
  <2>1. CASE tmp.recorded = {}
    BY <2>1, FS_EmptySet, SMTT(30)
  <2>2. CASE \E d \in 1..siteRuns : tmp.recorded = {d}
    <3>1. PICK d \in 1..siteRuns : tmp.recorded = {d}
      BY <2>2
    <3>2. Cardinality({d}) = 1
      BY FS_Singleton, Zenon
    <3> QED BY <3>1, <3>2, SMTT(30)
  <2> QED BY <2>1, <2>2 DEF SiteInv, PlayerInv
<1> QED BY <1>1, MountedPlayer, Zenon DEF SiteInv, PlayerInv, LoaderServed

\* For any number of figures, processes, edits and crashes: `check` that was undisturbed exits 0
\* exactly when the specs are valid and the files are their rendering, and a `build` that was
\* undisturbed and exits 0 has made them so (runCheck, compareOutputs, writeOutputs).
THEOREM CommandsAreRight == Spec => []CommandsDecide
<1>1. FiguresInv => CommandsDecide
  BY Decides DEF FiguresInv
<1> QED BY <1>1, AlwaysFiguresInv, PTL

\* When `sources` passes, every figure's html is the markup of its spec and its files are what `check`
\* would render, unless a build hashed one version of a spec or of the engine and drew with another;
\* and when all outputs are current, `sources` passes exactly if the cited code, the sizes, the kinds
\* and names of the fences and the README's blocks are in order (figureSourceErrors, sources).
THEOREM SourcesAreRight == Spec => []SourcesAgree
<1>1. FiguresInv => SourcesAgree
  BY SourcesDecide DEF FiguresInv, RepositoryInv
<1> QED BY <1>1, AlwaysFiguresInv, PTL

\* A development server with nothing left to do shows the figures on disk, however many builds,
\* restarts and earlier runs came before (figuresDigest, watchFigures).
THEOREM SiteShowsFiles == Spec => []ServedIsFresh
<1>1. FiguresInv => ServedIsFresh
  BY Served DEF FiguresInv
<1> QED BY <1>1, AlwaysFiguresInv, PTL

\* A quiet `astro build` publishes pages and images of one rendering, and the site check passes
\* on it exactly when the player is there or not expected (publishFigures, checkSite).
THEOREM SiteIsCurrent == Spec => []BuiltIsCurrent
<1>1. FiguresInv => BuiltIsCurrent
  BY DEF FiguresInv, SiteInv
<1> QED BY <1>1, AlwaysFiguresInv, PTL

\* A page that imports the loader finds the player, and only killed processes leave an extracted
\* directory behind (recordExtractedPlayerDir, extractedPlayerDirs).
THEOREM PlayerIsServed == Spec => []LoaderServed
<1>1. FiguresInv => LoaderServed
  BY Mounted DEF FiguresInv
<1> QED BY <1>1, AlwaysFiguresInv, PTL
=============================================================================
