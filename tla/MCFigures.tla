----------------------------- MODULE MCFigures ------------------------------
(***************************************************************************)
(* Instances of FigureBuild and AstroFigures: two builds and checks that    *)
(* race and crash with no site; one build beside a development server and   *)
(* site builds that follow each other.                                      *)
(***************************************************************************)
EXTENDS AstroFigures

CONSTANTS p1, p2

\* Engine 2 changes the drawings only; engine 3 changes the markup and records no sizes.
MCSize == <<1, 1, 0>>
MCMarkup == <<1, 1, 2>>

Quiet == [procs |-> {p1}, cmds |-> {"build"}, modes |-> {}, players |-> {<<TRUE, "missing">>}, slugs |-> {1}, engines |-> {1, 2},
          runs |-> 2, edits |-> 2, crashes |-> 0, public |-> {}]
MCScenes == {
  [Quiet EXCEPT !.cmds = {"build", "check"}, !.slugs = {1, 2}, !.engines = Engines, !.crashes = 1],
  [Quiet EXCEPT !.cmds = {"build", "check"}, !.slugs = {1, 2}, !.engines = Engines, !.procs = {p1, p2}, !.edits = 1],
  [Quiet EXCEPT !.modes = {"dev"}, !.players = {<<FALSE, "released">>}],
  [Quiet EXCEPT !.modes = {"dev", "build"}, !.edits = 1, !.runs = 1, !.crashes = 1, !.public = {<<1, "svg">>},
                !.players = {<<TRUE, "missing">>} \cup ({FALSE} \X {"missing", "unreleased", "released", "broken"})]}
=============================================================================
