----------------------------- MODULE VitisBuild -----------------------------
(***************************************************************************)
(* The build of the board's software: what make ps, make boot and make run *)
(* decide from modification times, the Vivado export they depend on, the   *)
(* Vitis script ps/scripts/create_app_vitis.py, which builds a first stage *)
(* boot loader (FSBL) and the application in a workspace of their own, and *)
(* the choice of the newest of both by ps/scripts/package_boot.py and      *)
(* ps/scripts/run_controller.tcl.                                          *)
(*                                                                         *)
(* Times are the values of a logical clock that advances with every write. *)
(* Somebody may edit the sources at any moment, also while a tool runs,    *)
(* and every tool may fail.  A build is known by the versions of what was  *)
(* read for it.                                                            *)
(***************************************************************************)
EXTENDS Integers, Sequences

CONSTANTS
    Envs,        \* environments of make: "defaults" or a candidate's variables
    MaxEdits,
    MaxMakes     \* bounds on edits and on calls of make

\* Texts of generated CMake files that the script replaces, and those of them
\* that may also be found replaced already.
Labels == {"FSBL warning suppression", "app optimization level", "app debug level",
           "app lwIP link dependency"}
Verified == {"app lwIP link dependency"}

VARIABLES
    clock,
    src,         \* "app" and "rtl" sources: version and time of the last edit
    rdl,         \* version of the register description
    derived,     \* versions of its "pkg" (RTL), "header" (C) and "py" files
    pkgAt,       \* time of the RTL package
    xsa,         \* exported hardware: what it was made of, its time, its bitstream
    works,       \* Vitis workspaces, oldest first
    stamp,       \* time of build/vitis/.app-built, 0 when it does not exist
    boot,        \* BOOT.BIN: its time, the workspaces and the hardware in it
    loaded,      \* what make run put on the board last
    goal, env,   \* the running make: its goal and environment
    pc, result,
    quiet,       \* ghost: nothing was edited since this make started
    forced,      \* ghost: there was no stamp when this make started
    fooled,      \* ghost: stages whose output is younger than an input they missed
    edits, makes

sources == <<src, rdl, derived, pkgAt, edits>>
outputs == <<xsa, works, stamp, boot, loaded>>
job == <<goal, env, forced, makes>>
vars == <<clock, sources, outputs, job, pc, result, quiet, fooled>>

None == [at |-> 0]
Now == clock + 1
Tick == clock' = Now

Init ==
    /\ clock = 1
    /\ src = [k \in {"app", "rtl"} |-> [ver |-> 0, at |-> 1]]
    /\ rdl = 0 /\ derived = [k \in {"pkg", "header", "py"} |-> 0] /\ pkgAt = 1
    /\ xsa = [rtl |-> 0, pkg |-> 0, at |-> 0, bit |-> FALSE]
    /\ works = <<>> /\ stamp = 0 /\ boot = None /\ loaded = None
    /\ goal = "ps" /\ env = "defaults" /\ pc = "idle" /\ result = "none"
    /\ quiet = TRUE /\ forced = FALSE /\ fooled = {} /\ edits = 0 /\ makes = 0

-----------------------------------------------------------------------------
(* What the rules of the Makefile compare.                                *)

\* Mutant: the RTL package is not a prerequisite of the hardware.
HwStaleByRtl == ~xsa.bit \/ xsa.at < src["rtl"].at

HwStale == ~xsa.bit \/ xsa.at < src["rtl"].at \/ xsa.at < pkgAt

StampStale == stamp = 0 \/ stamp < xsa.at \/ stamp < src["app"].at

BootStale == boot.at < stamp

\* newest: the workspace whose file is the youngest.
Built(field) == {w \in DOMAIN works : works[w][field] # 0}
Newest(field) == CHOOSE w \in Built(field) : \A v \in Built(field) : works[v][field] <= works[w][field]

\* env_int: a variable of the environment, or the default of pl_config.py.
Settings == [from |-> env, py |-> IF env = "defaults" THEN derived["py"] ELSE 0]

Stop(r) == pc' = "idle" /\ result' = r

Make(g, e) ==
    /\ pc = "idle" /\ makes < MaxMakes
    /\ goal' = g /\ env' = e /\ makes' = makes + 1
    /\ forced' = (stamp = 0) /\ quiet' = TRUE /\ result' = "none"
    /\ pc' = "check"
    /\ UNCHANGED <<clock, sources, outputs, fooled>>

\* regs-check is an order-only prerequisite: it runs every time, and a
\* derived file that is not of the description's version stops make.
RegsCheck ==
    /\ pc = "check"
    /\ IF \A k \in DOMAIN derived : derived[k] = rdl
       THEN pc' = "hw" /\ UNCHANGED result
       ELSE Stop("failed")
    /\ UNCHANGED <<clock, sources, outputs, job, quiet, fooled>>

HwUpToDate ==
    /\ pc = "hw" /\ ~HwStale /\ pc' = "ps"
    /\ UNCHANGED <<clock, sources, outputs, job, result, quiet, fooled>>

\* Vivado reads the sources and takes long; the old export stays meanwhile,
\* the old bitstream does not.
StartVivado ==
    /\ pc = "hw" /\ HwStale
    /\ xsa' = [xsa EXCEPT !.rtl = src["rtl"].ver, !.pkg = derived["pkg"], !.bit = FALSE]
    /\ fooled' = fooled \ {"hw"} /\ pc' = "synth"
    /\ UNCHANGED <<clock, sources, works, stamp, boot, loaded, job, result, quiet>>

EndVivado ==
    /\ pc = "synth"
    /\ xsa' = [xsa EXCEPT !.at = Now, !.bit = TRUE] /\ Tick /\ pc' = "ps"
    /\ UNCHANGED <<sources, works, stamp, boot, loaded, job, result, quiet, fooled>>

PsUpToDate ==
    /\ pc = "ps" /\ ~StampStale /\ pc' = "goal"
    /\ UNCHANGED <<clock, sources, outputs, job, result, quiet, fooled>>

-----------------------------------------------------------------------------
(* create_app_vitis.py.                                                   *)

Last == Len(works)
InWork(f) == works' = [works EXCEPT ![Last] = f]

\* A generated file: how often it holds the text to be replaced, how often
\* the replacement.
Counts == [old : 0..2, new : 0..1]
Replaceable(label, c) ==
    \/ c.old = 1 /\ label \notin Verified
    \/ c.old = 1 /\ c.new = 0
    \/ label \in Verified /\ c.old = 0 /\ c.new = 1

Replaced(c) == IF c.old = 1 THEN [old |-> 0, new |-> c.new + 1] ELSE c
Wanted(c) == c.old = 0 /\ c.new >= 1

\* A workspace named after the time, the platform from the exported hardware,
\* its lwIP settings; the FSBL's CMake file is patched.
NewWorkspace ==
    /\ pc = "ps" /\ StampStale
    /\ works' = Append(works,
         [settings |-> Settings, rtl |-> xsa.rtl, pkg |-> xsa.pkg, app |-> -1, header |-> -1,
          patched |-> {}, fsblAt |-> 0, appAt |-> 0])
    /\ fooled' = (fooled \ {"ps"}) \cup {s \in {"ps"} : derived["py"] # derived["pkg"]}
    /\ pc' = "fsbl"
    /\ UNCHANGED <<clock, sources, xsa, stamp, boot, loaded, job, result, quiet>>

\* replace_exactly_once and replace_or_verify_exactly_once raise unless the
\* generated file looks as expected.
Patch(here, label, next) ==
    /\ pc = here
    /\ \E c \in Counts :
         IF Replaceable(label, c)
         THEN /\ InWork([works[Last] EXCEPT !.patched =
                   @ \cup {l \in {label} : Wanted(Replaced(c))}])
              /\ pc' = next /\ UNCHANGED result
         ELSE Stop("failed") /\ UNCHANGED works
    /\ UNCHANGED <<clock, sources, xsa, stamp, boot, loaded, job, quiet, fooled>>

\* platform.build and app.build may fail without raising: no file is written.
Build(here, field, next) ==
    /\ pc = here /\ pc' = next
    /\ \/ InWork([works[Last] EXCEPT ![field] = Now]) /\ Tick
       \/ UNCHANGED <<works, clock>>
    /\ UNCHANGED <<sources, xsa, stamp, boot, loaded, job, result, quiet, fooled>>

\* The application's sources are copied into the workspace.
ImportFiles ==
    /\ pc = "import"
    /\ InWork([works[Last] EXCEPT !.app = src["app"].ver, !.header = derived["header"]])
    /\ fooled' = fooled \cup {s \in {"ps"} : derived["header"] # derived["pkg"]}
    /\ pc' = "optimize"
    /\ UNCHANGED <<clock, sources, xsa, stamp, boot, loaded, job, result, quiet>>

\* Only when both files exist is the stamp touched.
Touch ==
    /\ pc = "touch"
    /\ IF works[Last].fsblAt # 0 /\ works[Last].appAt # 0
       THEN stamp' = Now /\ Tick /\ pc' = "goal" /\ UNCHANGED result
       ELSE Stop("failed") /\ UNCHANGED <<stamp, clock>>
    /\ UNCHANGED <<sources, xsa, works, boot, loaded, job, quiet, fooled>>

CreateApp ==
    \/ NewWorkspace
    \/ Patch("fsbl", "FSBL warning suppression", "platform")
    \/ Build("platform", "fsblAt", "import")
    \/ ImportFiles
    \/ Patch("optimize", "app optimization level", "debug")
    \/ Patch("debug", "app debug level", "link")
    \/ Patch("link", "app lwIP link dependency", "build")
    \/ Build("build", "appAt", "touch")
    \/ Touch

\* Any tool may end with an error: make stops there.
Fail ==
    /\ pc \notin {"idle", "check", "hw"}
    /\ Stop("failed")
    /\ UNCHANGED <<clock, sources, outputs, job, quiet, fooled>>

-----------------------------------------------------------------------------
(* The goals.                                                             *)

EndPs ==
    /\ pc = "goal" /\ goal = "ps"
    /\ Stop("ok") /\ UNCHANGED <<clock, sources, outputs, job, quiet, fooled>>

Image == [at |-> Now, fsbl |-> Newest("fsblAt"), app |-> Newest("appAt"), rtl |-> xsa.rtl, pkg |-> xsa.pkg]

\* package_boot.py, unless BOOT.BIN is younger than the stamp.
EndBoot ==
    /\ pc = "goal" /\ goal = "boot"
    /\ IF BootStale THEN boot' = Image /\ Tick ELSE UNCHANGED <<boot, clock>>
    /\ Stop("ok")
    /\ UNCHANGED <<sources, xsa, works, stamp, loaded, job, quiet, fooled>>

\* run_controller.tcl loads the newest files each time.
EndRun ==
    /\ pc = "goal" /\ goal = "run"
    /\ loaded' = Image /\ Tick /\ Stop("ok")
    /\ UNCHANGED <<sources, xsa, works, stamp, boot, job, quiet, fooled>>

\* run_build and the profile report remove the stamp before they call make.
DropStamp ==
    /\ pc = "idle" /\ stamp # 0
    /\ stamp' = 0 /\ result' = "none"
    /\ UNCHANGED <<clock, sources, xsa, works, boot, loaded, job, pc, quiet, fooled>>

-----------------------------------------------------------------------------
(* Edits.                                                                 *)

Edited ==
    /\ edits < MaxEdits
    /\ edits' = edits + 1 /\ quiet' = FALSE /\ Tick
    /\ UNCHANGED <<outputs, job, pc, result>>

EditSource(k) ==
    /\ Edited
    /\ src' = [src EXCEPT ![k] = [ver |-> @.ver + 1, at |-> Now]]
    /\ fooled' = fooled
         \cup {s \in {"hw"} : k = "rtl" /\ pc = "synth"}
         \cup {s \in {"ps"} : k = "app" /\ pc \in {"optimize", "debug", "link", "build", "touch"}}
    /\ UNCHANGED <<rdl, derived, pkgAt>>

\* A merge brings a new description with its derived files: of those that are
\* prerequisites of make's rules only the RTL package changes.
Merge ==
    /\ Edited
    /\ rdl' = rdl + 1 /\ derived' = [k \in DOMAIN derived |-> rdl + 1] /\ pkgAt' = Now
    /\ fooled' = fooled \cup {s \in {"hw"} : pc = "synth"}
    /\ UNCHANGED src

\* The C header or pl_config.py is changed by hand, or back.
MeddleWith(k) ==
    /\ Edited
    /\ derived' = [derived EXCEPT ![k] = IF @ = rdl THEN rdl + 1 ELSE rdl]
    /\ UNCHANGED <<src, rdl, pkgAt, fooled>>

Next ==
    \/ \E g \in {"ps", "boot", "run"}, e \in Envs : Make(g, e)
    \/ RegsCheck \/ HwUpToDate \/ StartVivado \/ EndVivado \/ PsUpToDate
    \/ CreateApp \/ Fail
    \/ EndPs \/ EndBoot \/ EndRun \/ DropStamp
    \/ \E k \in {"app", "rtl"} : EditSource(k)
    \/ Merge
    \/ \E k \in {"header", "py"} : MeddleWith(k)

Spec == Init /\ [][Next]_vars

-----------------------------------------------------------------------------
(* Properties.                                                            *)

\* The state's shape: nothing is younger than the clock, and a workspace has
\* an application only of sources that were imported into it.
TypeOK ==
    /\ clock \in Nat /\ stamp \in 0..clock /\ boot.at \in 0..clock /\ xsa.at \in 0..clock
    /\ src \in [{"app", "rtl"} -> [ver : 0..MaxEdits, at : 0..clock]]
    /\ rdl \in 0..MaxEdits /\ pkgAt \in 0..clock /\ fooled \subseteq {"hw", "ps"}
    /\ derived \in [{"pkg", "header", "py"} -> 0..(MaxEdits + 1)]
    /\ \A w \in DOMAIN works :
         /\ works[w].fsblAt \in 0..clock /\ works[w].appAt \in 0..clock
         /\ works[w].appAt # 0 => works[w].app >= 0 /\ works[w].header >= 0
    /\ pc \in {"idle", "check", "hw", "synth", "ps", "fsbl", "platform", "import", "optimize",
               "debug", "link", "build", "touch", "goal"}

Succeeded(goals) == pc = "idle" /\ result = "ok" /\ goal \in goals

\* When make succeeds, the newest application was built from the sources, the
\* C header, the constants and the hardware on disk, unless an input was
\* edited while a tool was already past reading it, or make read a header
\* that regs-check would have refused.  The header is no prerequisite of any
\* rule: that a merge that changes only its constants is noticed at all rests
\* on the RTL package, which carries the same constants.
SuccessIsCurrent ==
    Succeeded({"ps", "boot", "run"}) /\ quiet /\ fooled = {} =>
        LET w == works[Newest("appAt")]
        IN  /\ w.app = src["app"].ver /\ w.header = rdl
            /\ w.rtl = src["rtl"].ver /\ w.pkg = rdl
            /\ xsa.rtl = w.rtl /\ xsa.pkg = w.pkg /\ xsa.bit

\* What is booted or loaded is one build: FSBL and application come from the
\* same workspace and the bitstream is the one the workspace was made for.
\* They are picked one by one, by time, and failed builds leave one without
\* the other.
OneBuild ==
    /\ \A image \in {i \in {boot, loaded} : i # None} :
         /\ image.fsbl = image.app
         /\ works[image.app].rtl = image.rtl /\ works[image.app].pkg = image.pkg
    /\ Succeeded({"boot"}) => boot.app = Newest("appAt")
    /\ Succeeded({"run"}) => loaded.app = Newest("appAt")

\* A make that found no stamp builds with the settings of its environment:
\* what the profile's candidates are measured on.
EnvironmentIsBuilt ==
    Succeeded({"ps", "boot", "run"}) /\ quiet /\ forced =>
        /\ works[Newest("appAt")].settings.from = env
        /\ env = "defaults" => works[Newest("appAt")].settings.py = rdl

\* An application that was built has every patch: no text to be replaced is
\* left and the replacement is there.
PatchesApplied ==
    \A w \in DOMAIN works : works[w].appAt # 0 =>
        works[w].patched = Labels
=============================================================================
