---------------------------- MODULE RegArtifacts ----------------------------
(***************************************************************************)
(* The register description hw/regs/pl_control.rdl and the files that      *)
(* hw/regs/generate_regs.py derives from it (make regs), the freshness     *)
(* check (make regs-check) and the comparison of the generated             *)
(* configurations by hw/regs/ssot_check.py (make ssot-check).              *)
(*                                                                         *)
(* The description is read from disk once by read_config_and_regs and once *)
(* again by every peakrdl command, and somebody may edit it, or a derived  *)
(* file, between any two steps; the generator may be interrupted at any    *)
(* step.  The values of the constants and the register map are abstracted  *)
(* to a few configurations and layouts; a derived file is known by what it *)
(* was derived from.                                                       *)
(***************************************************************************)
EXTENDS Naturals, FiniteSets, Sequences

CONSTANTS
    Configs,     \* configurations: functions from names to values
    Layouts,     \* register maps
    Literals,    \* names whose `define is a plain number
    Strays,      \* files no generator writes, which may lie in hw/rtl/generated
    MaxEdits,    \* bound on edits of the description and of derived files
    MaxInterrupts

ASSUME BoundsAssumption == MaxEdits \in Nat /\ MaxInterrupts \in Nat
ASSUME ConfigsAssumption == \A c \in Configs : c = [n \in DOMAIN c |-> c[n]]

\* The derived files, in the order in which copy_generated writes the first
\* four; those of hw/rtl/generated follow in any order, then the docs.
CopyOrder == <<"PS_HEADER", "PS_CONFIG_HEADER", "PY_CONFIG", "TCL_CONFIG">>
RtlFiles == {"pl_control_regs", "donder_pl_contract_pkg"}
Checked == {CopyOrder[i] : i \in DOMAIN CopyOrder} \cup RtlFiles
Artifacts == Checked \cup {"DOCS"}

\* A description does not compile, is refused by a require of the generator
\* though peakrdl accepts it, or is good.
Qualities == {"broken", "refused", "good"}
Descriptions == [config : Configs, layout : Layouts, quality : Qualities]

\* The C and Python configurations carry no register offsets.
ConfigOnly == {"PS_CONFIG_HEADER", "PY_CONFIG"}
Content(f, d) ==
    [config |-> d.config, layout |-> IF f \in ConfigOnly THEN "none" ELSE d.layout, whole |-> TRUE]

\* A file cut off after the lines of the names in S, or not there at all.
Cut(c, S) == [config |-> [n \in S |-> c.config[n]], layout |-> "none", whole |-> FALSE]
Nothing == [config |-> [n \in {} |-> 0], layout |-> "none", whole |-> FALSE]

\* What the generator knows of the description before it reads it.
Unread == CHOOSE d \in Descriptions : d.quality = "good"

VARIABLES
    rdl,         \* the description on disk
    disk,        \* derived file -> its content
    stray,       \* files of others in hw/rtl/generated
    mode,        \* "regs", "check" or "none": what the running generator is for
    pc,          \* its next step
    read,        \* what read_config_and_regs returned
    tmp,         \* the temporary directory: derived file -> content
    todo,        \* files of hw/rtl/generated still to be copied
    verdict,     \* outcome of the last command
    quiet,       \* ghost: nothing was edited since that command started
    sound,       \* ghost: the files are those of a regeneration nothing disturbed
    edits, interrupts

vars == <<rdl, disk, stray, mode, pc, read, tmp, todo, verdict, quiet, sound, edits, interrupts>>
people == <<rdl, edits>>
ghosts == <<quiet, sound>>

Init ==
    /\ rdl \in {d \in Descriptions : d.quality = "good"}
    /\ disk = [f \in Artifacts |-> Content(f, rdl)]
    /\ stray = {} /\ mode = "none" /\ pc = "idle" /\ read = Unread
    /\ tmp = [f \in Artifacts |-> Nothing] /\ todo = {}
    /\ verdict = "none" /\ quiet = TRUE /\ sound = TRUE
    /\ edits = 0 /\ interrupts = 0

-----------------------------------------------------------------------------
\* Leaving the with block deletes the temporary directory.
Drop == tmp' = [f \in Artifacts |-> Nothing] /\ todo' = {} /\ read' = Unread

(* generate: everything is derived into a temporary directory first.      *)

Start(m) ==
    /\ pc = "idle"
    /\ mode' = m /\ pc' = "read" /\ verdict' = "none" /\ quiet' = TRUE
    /\ UNCHANGED <<rdl, disk, stray, read, tmp, todo, sound, edits, interrupts>>

\* Mutant: without the requires.
ReadUnrequired ==
    /\ pc = "read" /\ rdl.quality # "broken"
    /\ read' = rdl /\ pc' = "header"
    /\ UNCHANGED <<people, ghosts, disk, stray, mode, tmp, todo, verdict, interrupts>>

\* read_config_and_regs compiles the description and applies the requires.
Read ==
    /\ pc = "read" /\ rdl.quality = "good"
    /\ read' = rdl /\ pc' = "header"
    /\ UNCHANGED <<people, ghosts, disk, stray, mode, tmp, todo, verdict, interrupts>>

\* A peakrdl command compiles the description anew; it knows no requires.
Derive(here, files, next) ==
    /\ pc = here /\ rdl.quality # "broken"
    /\ tmp' = [f \in Artifacts |-> IF f \in files THEN Content(f, rdl) ELSE tmp[f]]
    /\ pc' = next
    /\ UNCHANGED <<people, ghosts, disk, stray, mode, read, todo, verdict, interrupts>>

Header == Derive("header", {"PS_HEADER"}, "regblock")
Regblock == Derive("regblock", {"pl_control_regs"}, "emit")
Html == Derive("docs", {"DOCS"}, "copy1")

\* The configurations are written from what was read at the beginning.
Emit ==
    /\ pc = "emit"
    /\ tmp' = [f \in Artifacts |->
                 IF f \in ConfigOnly \cup {"TCL_CONFIG", "donder_pl_contract_pkg"}
                 THEN Content(f, read) ELSE tmp[f]]
    /\ pc' = IF mode = "check" THEN "compare" ELSE "docs"
    /\ UNCHANGED <<people, ghosts, disk, stray, mode, read, todo, verdict, interrupts>>

\* The compiler or a require raises: the temporary directory is dropped and
\* the files of the repository stay as they are.
Raise ==
    /\ \/ pc = "read" /\ rdl.quality # "good"
       \/ pc \in {"header", "regblock", "docs"} /\ rdl.quality = "broken"
    /\ pc' = "idle" /\ mode' = "none" /\ verdict' = "raised"
    /\ Drop /\ UNCHANGED <<people, ghosts, disk, stray, interrupts>>

-----------------------------------------------------------------------------
(* copy_generated: file after file into the repository.                   *)

CopySteps == <<"copy1", "copy2", "copy3", "copy4", "clear">>

Copy(i) ==
    /\ pc = CopySteps[i]
    /\ disk' = [disk EXCEPT ![CopyOrder[i]] = tmp[CopyOrder[i]]]
    /\ pc' = CopySteps[i + 1] /\ sound' = FALSE
    /\ UNCHANGED <<people, stray, mode, read, tmp, todo, verdict, quiet, interrupts>>

\* Mutant: only files about to be copied are deleted.
ClearOwn ==
    /\ pc = "clear"
    /\ disk' = [f \in Artifacts |-> IF f \in RtlFiles THEN Nothing ELSE disk[f]]
    /\ todo' = RtlFiles /\ pc' = "rtl"
    /\ UNCHANGED <<people, ghosts, stray, mode, read, tmp, verdict, interrupts>>

\* Every file of hw/rtl/generated is deleted, whoever wrote it.
ClearRtl ==
    /\ pc = "clear"
    /\ disk' = [f \in Artifacts |-> IF f \in RtlFiles THEN Nothing ELSE disk[f]]
    /\ stray' = {} /\ todo' = RtlFiles /\ pc' = "rtl"
    /\ UNCHANGED <<people, ghosts, mode, read, tmp, verdict, interrupts>>

CopyRtl(f) ==
    /\ pc = "rtl" /\ f \in todo
    /\ disk' = [disk EXCEPT ![f] = tmp[f]]
    /\ todo' = todo \ {f}
    /\ pc' = IF todo' = {} THEN "dropdocs" ELSE "rtl"
    /\ UNCHANGED <<people, ghosts, stray, mode, read, tmp, verdict, interrupts>>

DropDocs ==
    /\ pc = "dropdocs"
    /\ disk' = [disk EXCEPT !["DOCS"] = Nothing] /\ pc' = "copydocs"
    /\ UNCHANGED <<people, ghosts, stray, mode, read, tmp, todo, verdict, interrupts>>

CopyDocs ==
    /\ pc = "copydocs"
    /\ disk' = [disk EXCEPT !["DOCS"] = tmp["DOCS"]]
    /\ pc' = "idle" /\ mode' = "none" /\ verdict' = "written" /\ sound' = quiet
    /\ Drop /\ UNCHANGED <<people, stray, quiet, interrupts>>

-----------------------------------------------------------------------------
(* check_generated: byte by byte against a fresh derivation; the docs are  *)
(* not compared.                                                          *)

\* Mutant: files without a counterpart are not looked at.
CommonDifferences == {f \in Checked : disk[f] # tmp[f] /\ disk[f] # Nothing}

Differences ==
    {f \in Checked : disk[f] # tmp[f]} \cup stray

Compare ==
    /\ pc = "compare"
    /\ verdict' = IF Differences = {} THEN "fresh" ELSE "stale"
    /\ pc' = "idle" /\ mode' = "none"
    /\ Drop /\ UNCHANGED <<people, ghosts, disk, stray, interrupts>>

-----------------------------------------------------------------------------
(* ssot_check.py: the three configurations that software reads.           *)

Parsed(f) == disk[f].config
Generated == UNION {DOMAIN Parsed(f) : f \in ConfigOnly \cup {"TCL_CONFIG"}}
Defines == [n \in DOMAIN rdl.config \cap Literals |-> rdl.config[n]]

\* load_generated_contract reports a name that one of the three lacks, that
\* has two values, or whose literal in the description is another one.
Present(n) == \A f \in ConfigOnly \cup {"TCL_CONFIG"} : n \in DOMAIN Parsed(f)
Valued(n) == {Parsed(f)[n] : f \in ConfigOnly \cup {"TCL_CONFIG"}}
Reported(n) ==
    \/ ~Present(n)
    \/ Present(n) /\ Cardinality(Valued(n)) # 1
    \/ Present(n) /\ n \in DOMAIN Defines /\ Defines[n] # Parsed("PS_CONFIG_HEADER")[n]

Ssot ==
    /\ pc = "idle"
    /\ verdict' = IF \E n \in Generated : Reported(n) THEN "ssot_failed" ELSE "ssot_passed"
    /\ quiet' = TRUE
    /\ UNCHANGED <<people, disk, stray, mode, pc, read, tmp, todo, sound, interrupts>>

-----------------------------------------------------------------------------
(* People and accidents.                                                  *)

\* The description is edited; a good one may become a worse one and back.
Edit ==
    /\ edits < MaxEdits
    /\ \E d \in Descriptions \ {rdl} : rdl' = d
    /\ edits' = edits + 1 /\ quiet' = FALSE /\ sound' = FALSE
    /\ UNCHANGED <<disk, stray, mode, pc, read, tmp, todo, verdict, interrupts>>

\* A merge or a hand leaves a derived file in another version, cuts it off,
\* or drops a file into hw/rtl/generated.
Meddle ==
    /\ edits < MaxEdits
    /\ edits' = edits + 1 /\ quiet' = FALSE /\ sound' = FALSE
    /\ \/ \E f \in Artifacts, d \in Descriptions : disk' = [disk EXCEPT ![f] = Content(f, d)]
          /\ UNCHANGED stray
       \/ \E s \in Strays : stray' = stray \cup {s} /\ UNCHANGED disk
    /\ UNCHANGED <<rdl, mode, pc, read, tmp, todo, verdict, interrupts>>

\* The file being written when the generator is interrupted.
Writing ==
    {CopyOrder[i] : i \in {j \in DOMAIN CopyOrder : CopySteps[j] = pc}}
    \cup {f \in todo : pc = "rtl"}
    \cup {f \in {"DOCS"} : pc = "copydocs"}

\* Ctrl-C, a full disk: the temporary directory goes, and a file that was
\* being copied stays as far as it got.
Interrupt ==
    /\ pc # "idle" /\ interrupts < MaxInterrupts
    /\ interrupts' = interrupts + 1
    /\ pc' = "idle" /\ mode' = "none" /\ verdict' = "interrupted"
    /\ \/ UNCHANGED <<disk, sound>>
       \/ \E f \in Writing : \E S \in SUBSET DOMAIN tmp[f].config :
            disk' = [disk EXCEPT ![f] = Cut(tmp[f], S)] /\ sound' = FALSE
    /\ Drop /\ UNCHANGED <<rdl, edits, stray, quiet>>

Generator ==
    \/ Read \/ Header \/ Regblock \/ Emit \/ Html \/ Raise
    \/ \E i \in 1..4 : Copy(i)
    \/ ClearRtl \/ (\E f \in RtlFiles : CopyRtl(f)) \/ DropDocs \/ CopyDocs
    \/ Compare

Next ==
    \/ \E m \in {"regs", "check"} : Start(m)
    \/ Generator \/ Ssot \/ Edit \/ Meddle \/ Interrupt

Spec == Init /\ [][Next]_vars

-----------------------------------------------------------------------------
Contents ==
    [config : UNION {[S -> UNION {{c[n] : n \in DOMAIN c} : c \in Configs}] :
                       S \in SUBSET UNION {DOMAIN c : c \in Configs}},
     layout : Layouts \cup {"none"}, whole : BOOLEAN]

\* The state's shape: derived files hold descriptions' contents, and a copy
\* is under way only when everything was derived.
TypeOK ==
    /\ rdl \in Descriptions /\ read \in Descriptions /\ read.quality = "good"
    /\ disk \in [Artifacts -> Contents] /\ tmp \in [Artifacts -> Contents]
    /\ stray \subseteq Strays /\ todo \subseteq RtlFiles
    /\ mode \in {"none", "regs", "check"} /\ (mode = "none" <=> pc = "idle")
    /\ pc \in {"copy1", "copy2", "copy3", "copy4", "clear", "rtl", "dropdocs", "copydocs"}
         => mode = "regs" /\ \A f \in Artifacts : tmp[f].whole

Current(f) == disk[f] = Content(f, rdl)

\* When make regs ends and nobody edited anything meanwhile, every derived
\* file, the docs included, is that of the description on disk, whatever an
\* interrupted run or a merge had left there, and foreign files are gone.
WrittenIsCurrent ==
    verdict = "written" /\ quiet =>
        (\A f \in Artifacts : Current(f)) /\ stray = {} /\ rdl.quality = "good"

\* A description that does not compile or is refused, or an edit away, never
\* reaches the repository: what is being copied was derived as a whole from
\* the accepted description on disk.
OnlyAcceptedIsCopied ==
    mode = "regs" /\ quiet /\ pc \notin {"read", "header", "regblock", "emit", "docs"} =>
        rdl.quality = "good" /\ \A f \in Artifacts : tmp[f] = Content(f, rdl)

\* When make regs-check succeeds and nobody edited anything meanwhile, no
\* file that software or hardware is built from is stale, torn, cut off or
\* foreign: no interruption of make regs goes unnoticed.
PassMeansFresh ==
    verdict = "fresh" /\ quiet => (\A f \in Checked : Current(f)) /\ stray = {}

\* A regeneration that nothing disturbed satisfies both checks.
RegsSatisfiesChecks ==
    sound => verdict \notin {"stale", "ssot_failed"}

\* When make ssot-check succeeds the C, Python and Tcl configurations give
\* every name one value, and that of its literal in the description.
ConfigsAgree ==
    verdict = "ssot_passed" /\ quiet =>
        \A f, g \in ConfigOnly \cup {"TCL_CONFIG"} :
            /\ Parsed(f) = Parsed(g)
            /\ \A n \in DOMAIN Parsed(f) \cap DOMAIN Defines : Parsed(f)[n] = rdl.config[n]
=============================================================================
