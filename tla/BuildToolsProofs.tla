---------------------------- MODULE BuildToolsProofs ----------------------------
(***************************************************************************)
(* Proofs about the tools of BuildTools: whatever the register             *)
(* descriptions, the repositories, the settings and the number of edits,   *)
(* interruptions, makes and campaigns, the checks accept only what is      *)
(* consistent, make leaves one current build, and a profile's rows are of  *)
(* the builds they name.  Each tool has an inductive invariant of its own, *)
(* and no step of one touches the variables of another.                    *)
(***************************************************************************)
EXTENDS BuildTools, SequenceTheorems, FiniteSetTheorems, WellFoundedInduction, TLAPS

\* A step is of one tool, and a step that stutters for the others.
LEMMA StepsOfBuildTools ==
    [ToolsNext]_all => /\ [Next]_vars /\ [Contract!Next]_contractVars /\ [Scan!Next]_scanVars
                       /\ [Vitis!Next]_vitisVars /\ [Campaign!Next]_campaignVars
    BY Zenon DEF ToolsNext, all

-----------------------------------------------------------------------------
(* RegArtifacts.                                                           *)

Deriving == {"read", "header", "regblock", "emit", "docs", "compare"}
Copying == {"copy1", "copy2", "copy3", "copy4", "clear", "rtl", "dropdocs", "copydocs"}
ConfigFiles == ConfigOnly \cup {"TCL_CONFIG"}

\* The files derived into the temporary directory, and those copied from it,
\* when the generator is at step p.
DerivedBy(p) ==
    {f \in Artifacts :
        \/ p = "regblock" /\ f = "PS_HEADER"
        \/ p = "emit" /\ f \in {"PS_HEADER", "pl_control_regs"}
        \/ p \in {"docs", "compare"} /\ f # "DOCS"
        \/ p \in Copying}

CopiedBy(p) ==
    {f \in Artifacts :
        \/ p \in {"copy2", "copy3", "copy4"} /\ f = "PS_HEADER"
        \/ p \in {"copy3", "copy4"} /\ f = "PS_CONFIG_HEADER"
        \/ p = "copy4" /\ f = "PY_CONFIG"
        \/ p \in {"clear", "rtl"} /\ f \notin RtlFiles \cup {"DOCS"}
        \/ p = "rtl" /\ f \in RtlFiles /\ f \notin todo
        \/ p \in {"dropdocs", "copydocs"} /\ f # "DOCS"}

\* The generator's steps belong to its two uses, and its verdict is given at
\* the end.
Shape ==
    /\ pc \in {"idle"} \cup Deriving \cup Copying
    /\ mode \in {"none", "regs", "check"}
    /\ mode = "none" <=> pc = "idle"
    /\ mode = "regs" => pc # "compare"
    /\ pc = "docs" \/ pc \in Copying => mode = "regs"
    /\ pc # "idle" => verdict = "none"
    /\ todo \subseteq RtlFiles

\* Derived files are contents of descriptions, whole or cut off.
Files == disk \in [Artifacts -> Contents] /\ tmp \in [Artifacts -> Contents]

\* What was read is a description, and the one on disk.
ReadCurrent ==
    /\ rdl \in Descriptions
    /\ pc \notin {"idle", "read"} => read \in Descriptions
    /\ quiet /\ pc \notin {"idle", "read"} => read = rdl /\ rdl.quality = "good"

\* What was derived is of the description on disk.
TmpCurrent == quiet => \A f \in DerivedBy(pc) : tmp[f] = Content(f, rdl)

\* What was copied is of the description on disk.
DiskCurrent ==
    quiet => /\ \A f \in CopiedBy(pc) : disk[f] = Content(f, rdl)
             /\ pc \in {"rtl", "dropdocs", "copydocs"} => stray = {}

\* The files of an undisturbed regeneration are all current.
SoundCurrent ==
    sound => /\ quiet /\ stray = {} /\ \A f \in Artifacts : Current(f)
             /\ pc \in Copying => pc = "copy1"

\* What the verdicts mean.
Verdicts == WrittenIsCurrent /\ PassMeansFresh /\ RegsSatisfiesChecks /\ ConfigsAgree

\* What the invariants of the verdicts do not need: the accepted description is
\* a good one, and what was derived is there as a whole.
Kept ==
    /\ Unread \in Descriptions /\ Unread.quality = "good"
    /\ read \in Descriptions /\ read.quality = "good"
    /\ stray \subseteq Strays
    /\ \A f \in DerivedBy(pc) : tmp[f].whole

IInv == Shape /\ Files /\ ReadCurrent /\ TmpCurrent /\ DiskCurrent /\ SoundCurrent /\ Verdicts

-----------------------------------------------------------------------------
\* The names of the files and of the steps that copy them.
LEMMA Names ==
    /\ DOMAIN CopyOrder = {1, 2, 3, 4}
    /\ CopyOrder[1] = "PS_HEADER" /\ CopyOrder[2] = "PS_CONFIG_HEADER"
    /\ CopyOrder[3] = "PY_CONFIG" /\ CopyOrder[4] = "TCL_CONFIG"
    /\ Checked = {"PS_HEADER", "PS_CONFIG_HEADER", "PY_CONFIG", "TCL_CONFIG"} \cup RtlFiles
    /\ Artifacts = Checked \cup {"DOCS"}
    /\ CopySteps[1] = "copy1" /\ CopySteps[2] = "copy2" /\ CopySteps[3] = "copy3"
    /\ CopySteps[4] = "copy4" /\ CopySteps[5] = "clear"
<1>1. DOMAIN CopyOrder = {1, 2, 3, 4}
    BY DEF CopyOrder
<1> QED
    BY <1>1 DEF CopyOrder, Checked, Artifacts, CopySteps

\* What is derived from a description is a content.
LEMMA ContentType ==
    ASSUME NEW f, NEW d \in Descriptions PROVE Content(f, d) \in Contents
<1> DEFINE names == UNION {DOMAIN c : c \in Configs}
           values == UNION {{c[n] : n \in DOMAIN c} : c \in Configs}
<1>1. d.config \in Configs /\ d.layout \in Layouts
    BY DEF Descriptions
<1>2. DOMAIN d.config \in SUBSET names /\ \A n \in DOMAIN d.config : d.config[n] \in values
    BY <1>1
<1> HIDE DEF names, values
<1>3. d.config \in [DOMAIN d.config -> values]
    BY <1>1, <1>2, ConfigsAssumption
<1>4. d.config \in UNION {[S -> values] : S \in SUBSET names}
    BY <1>2, <1>3
<1> QED
    BY <1>1, <1>4 DEF Content, Contents, names, values

\* A file cut off, or not there, is a content too.
LEMMA CutType ==
    /\ Nothing \in Contents
    /\ \A c \in Contents : \A S \in SUBSET DOMAIN c.config : Cut(c, S) \in Contents
<1> DEFINE names == UNION {DOMAIN c : c \in Configs}
           values == UNION {{c[n] : n \in DOMAIN c} : c \in Configs}
           maps == UNION {[S -> values] : S \in SUBSET names}
<1>1. Contents = [config : maps, layout : Layouts \cup {"none"}, whole : BOOLEAN]
    BY DEF Contents
<1> HIDE DEF names, values
<1>2. [n \in {} |-> 0] \in maps
    <2>1. [n \in {} |-> 0] \in [{} -> values]
        OBVIOUS
    <2> QED
        BY <2>1
<1>3. ASSUME NEW c \in Contents, NEW S \in SUBSET DOMAIN c.config
      PROVE  [n \in S |-> c.config[n]] \in maps
    <2>1. c.config \in maps
        BY <1>1
    <2>2. PICK D \in SUBSET names : c.config \in [D -> values]
        BY <2>1
    <2>3. S \in SUBSET names /\ [n \in S |-> c.config[n]] \in [S -> values]
        BY <2>2
    <2> QED
        BY <2>3
<1> HIDE DEF maps
<1> QED
    BY <1>1, <1>2, <1>3 DEF Nothing, Cut

\* The configuration of a file is a function.
LEMMA ParsedIsFunction ==
    ASSUME NEW c \in Contents PROVE c.config = [n \in DOMAIN c.config |-> c.config[n]]
<1> DEFINE names == UNION {DOMAIN d : d \in Configs}
           values == UNION {{d[n] : n \in DOMAIN d} : d \in Configs}
<1>1. c.config \in UNION {[S -> values] : S \in SUBSET names}
    BY DEF Contents
<1> HIDE DEF names, values
<1> QED
    BY <1>1

-----------------------------------------------------------------------------
LEMMA InitInv == Init => IInv
<1> SUFFICES ASSUME Init PROVE IInv
    OBVIOUS
<1>1. Shape
    BY DEF Init, Shape, Deriving, Copying
<1>2. Files
    BY ContentType, CutType DEF Init, Files
<1>3. ReadCurrent
    BY DEF Init, ReadCurrent
<1>4. TmpCurrent /\ DiskCurrent
    BY DEF Init, TmpCurrent, DiskCurrent, DerivedBy, CopiedBy, Copying
<1>5. SoundCurrent
    BY DEF Init, SoundCurrent, Current, Copying
<1>6. Verdicts
    BY DEF Init, Verdicts, WrittenIsCurrent, PassMeansFresh, RegsSatisfiesChecks, ConfigsAgree
<1> QED
    BY <1>1, <1>2, <1>3, <1>4, <1>5, <1>6 DEF IInv

LEMMA StepInv == IInv /\ [Next]_vars => IInv'
<1> SUFFICES ASSUME IInv, [Next]_vars PROVE IInv'
    OBVIOUS
<1> USE Names DEF IInv
<1>1. ASSUME NEW m \in {"regs", "check"}, Start(m) PROVE IInv'
    <2>1. Shape'
        BY <1>1 DEF Shape, Deriving, Copying, Start
    <2>2. Files'
        BY <1>1, ContentType, CutType DEF Files, Shape, Start
    <2>3. ReadCurrent'
        BY <1>1 DEF ReadCurrent, Shape, Start
    <2>4. TmpCurrent'
        BY <1>1 DEF Shape, ReadCurrent, TmpCurrent, DerivedBy, RtlFiles, ConfigOnly, Copying, Start
    <2>5. DiskCurrent'
        BY <1>1 DEF Shape, Files, TmpCurrent, DiskCurrent, DerivedBy, CopiedBy, RtlFiles, Copying, Start
    <2>6. SoundCurrent'
        BY <1>1 DEF Shape, Files, TmpCurrent, DiskCurrent, DerivedBy, CopiedBy, SoundCurrent, Current, RtlFiles, Copying, Start
    <2>7. Verdicts'
        BY <1>1 DEF Shape, Files, ReadCurrent, TmpCurrent, DiskCurrent, DerivedBy, CopiedBy, SoundCurrent, Verdicts, WrittenIsCurrent, PassMeansFresh, RegsSatisfiesChecks, ConfigsAgree, Current, RtlFiles, Copying, Parsed, Defines, Start
    <2> QED
        BY <2>1, <2>2, <2>3, <2>4, <2>5, <2>6, <2>7
<1>2. ASSUME Read PROVE IInv'
    <2>1. Shape'
        BY <1>2 DEF Shape, Deriving, Copying, Read, people, ghosts
    <2>2. Files'
        BY <1>2, ContentType, CutType DEF Files, Shape, Read, people, ghosts
    <2>3. ReadCurrent'
        BY <1>2 DEF ReadCurrent, Shape, Read, people, ghosts
    <2>4. TmpCurrent'
        BY <1>2 DEF Shape, ReadCurrent, TmpCurrent, DerivedBy, RtlFiles, ConfigOnly, Copying, Read, people, ghosts
    <2>5. DiskCurrent'
        BY <1>2 DEF Shape, Files, TmpCurrent, DiskCurrent, DerivedBy, CopiedBy, RtlFiles, Copying, Read, people, ghosts
    <2>6. SoundCurrent'
        BY <1>2 DEF Shape, Files, TmpCurrent, DiskCurrent, DerivedBy, CopiedBy, SoundCurrent, Current, RtlFiles, Copying, Read, people, ghosts
    <2>7. Verdicts'
        BY <1>2 DEF Shape, Files, ReadCurrent, TmpCurrent, DiskCurrent, DerivedBy, CopiedBy, SoundCurrent, Verdicts, WrittenIsCurrent, PassMeansFresh, RegsSatisfiesChecks, ConfigsAgree, Current, RtlFiles, Copying, Parsed, Defines, Read, people, ghosts
    <2> QED
        BY <2>1, <2>2, <2>3, <2>4, <2>5, <2>6, <2>7
<1>3. ASSUME Header PROVE IInv'
    <2>1. Shape'
        BY <1>3 DEF Shape, Deriving, Copying, Header, Derive, people, ghosts
    <2>2. Files'
        BY <1>3, ContentType DEF Files, ReadCurrent, Header, Derive, people, ghosts
    <2>3. ReadCurrent'
        BY <1>3 DEF ReadCurrent, Shape, Header, Derive, people, ghosts
    <2>4. TmpCurrent'
        BY <1>3 DEF Shape, ReadCurrent, TmpCurrent, DerivedBy, RtlFiles, ConfigOnly, Copying, Header, Derive, people, ghosts
    <2>5. DiskCurrent'
        BY <1>3 DEF Shape, Files, TmpCurrent, DiskCurrent, DerivedBy, CopiedBy, RtlFiles, Copying, Header, Derive, people, ghosts
    <2>6. SoundCurrent'
        BY <1>3 DEF Shape, Files, TmpCurrent, DiskCurrent, DerivedBy, CopiedBy, SoundCurrent, Current, RtlFiles, Copying, Header, Derive, people, ghosts
    <2>7. Verdicts'
        BY <1>3 DEF Shape, Files, ReadCurrent, TmpCurrent, DiskCurrent, DerivedBy, CopiedBy, SoundCurrent, Verdicts, WrittenIsCurrent, PassMeansFresh, RegsSatisfiesChecks, ConfigsAgree, Current, RtlFiles, Copying, Parsed, Defines, Header, Derive, people, ghosts
    <2> QED
        BY <2>1, <2>2, <2>3, <2>4, <2>5, <2>6, <2>7
<1>4. ASSUME Regblock PROVE IInv'
    <2>1. Shape'
        BY <1>4 DEF Shape, Deriving, Copying, Regblock, Derive, people, ghosts
    <2>2. Files'
        BY <1>4, ContentType DEF Files, ReadCurrent, Regblock, Derive, people, ghosts
    <2>3. ReadCurrent'
        BY <1>4 DEF ReadCurrent, Shape, Regblock, Derive, people, ghosts
    <2>4. TmpCurrent'
        BY <1>4 DEF Shape, ReadCurrent, TmpCurrent, DerivedBy, RtlFiles, ConfigOnly, Copying, Regblock, Derive, people, ghosts
    <2>5. DiskCurrent'
        BY <1>4 DEF Shape, Files, TmpCurrent, DiskCurrent, DerivedBy, CopiedBy, RtlFiles, Copying, Regblock, Derive, people, ghosts
    <2>6. SoundCurrent'
        BY <1>4 DEF Shape, Files, TmpCurrent, DiskCurrent, DerivedBy, CopiedBy, SoundCurrent, Current, RtlFiles, Copying, Regblock, Derive, people, ghosts
    <2>7. Verdicts'
        BY <1>4 DEF Shape, Files, ReadCurrent, TmpCurrent, DiskCurrent, DerivedBy, CopiedBy, SoundCurrent, Verdicts, WrittenIsCurrent, PassMeansFresh, RegsSatisfiesChecks, ConfigsAgree, Current, RtlFiles, Copying, Parsed, Defines, Regblock, Derive, people, ghosts
    <2> QED
        BY <2>1, <2>2, <2>3, <2>4, <2>5, <2>6, <2>7
<1>5. ASSUME Emit PROVE IInv'
    <2>1. Shape'
        BY <1>5 DEF Shape, Deriving, Copying, Emit, people, ghosts
    <2>2. Files'
        BY <1>5, ContentType DEF Files, ReadCurrent, Emit, people, ghosts
    <2>3. ReadCurrent'
        BY <1>5 DEF ReadCurrent, Shape, Emit, people, ghosts
    <2>4. TmpCurrent'
        BY <1>5 DEF Shape, ReadCurrent, TmpCurrent, DerivedBy, RtlFiles, ConfigOnly, Copying, Emit, people, ghosts
    <2>5. DiskCurrent'
        BY <1>5 DEF Shape, Files, TmpCurrent, DiskCurrent, DerivedBy, CopiedBy, RtlFiles, Copying, Emit, people, ghosts
    <2>6. SoundCurrent'
        BY <1>5 DEF Shape, Files, TmpCurrent, DiskCurrent, DerivedBy, CopiedBy, SoundCurrent, Current, RtlFiles, Copying, Emit, people, ghosts
    <2>7. Verdicts'
        BY <1>5 DEF Shape, Files, ReadCurrent, TmpCurrent, DiskCurrent, DerivedBy, CopiedBy, SoundCurrent, Verdicts, WrittenIsCurrent, PassMeansFresh, RegsSatisfiesChecks, ConfigsAgree, Current, RtlFiles, Copying, Parsed, Defines, Emit, people, ghosts
    <2> QED
        BY <2>1, <2>2, <2>3, <2>4, <2>5, <2>6, <2>7
<1>6. ASSUME Html PROVE IInv'
    <2>1. Shape'
        BY <1>6 DEF Shape, Deriving, Copying, Html, Derive, people, ghosts
    <2>2. Files'
        BY <1>6, ContentType DEF Files, ReadCurrent, Html, Derive, people, ghosts
    <2>3. ReadCurrent'
        BY <1>6 DEF ReadCurrent, Shape, Html, Derive, people, ghosts
    <2>4. TmpCurrent'
        BY <1>6 DEF Shape, ReadCurrent, TmpCurrent, DerivedBy, RtlFiles, ConfigOnly, Copying, Html, Derive, people, ghosts
    <2>5. DiskCurrent'
        BY <1>6 DEF Shape, Files, TmpCurrent, DiskCurrent, DerivedBy, CopiedBy, RtlFiles, Copying, Html, Derive, people, ghosts
    <2>6. SoundCurrent'
        BY <1>6 DEF Shape, Files, TmpCurrent, DiskCurrent, DerivedBy, CopiedBy, SoundCurrent, Current, RtlFiles, Copying, Html, Derive, people, ghosts
    <2>7. Verdicts'
        BY <1>6 DEF Shape, Files, ReadCurrent, TmpCurrent, DiskCurrent, DerivedBy, CopiedBy, SoundCurrent, Verdicts, WrittenIsCurrent, PassMeansFresh, RegsSatisfiesChecks, ConfigsAgree, Current, RtlFiles, Copying, Parsed, Defines, Html, Derive, people, ghosts
    <2> QED
        BY <2>1, <2>2, <2>3, <2>4, <2>5, <2>6, <2>7
<1>7. ASSUME Raise PROVE IInv'
    <2>1. Shape'
        BY <1>7 DEF Shape, Deriving, Copying, Raise, Drop, people, ghosts
    <2>2. Files'
        BY <1>7, ContentType, CutType DEF Files, Shape, Raise, Drop, people, ghosts
    <2>3. ReadCurrent'
        BY <1>7 DEF ReadCurrent, Shape, Raise, Drop, people, ghosts
    <2>4. TmpCurrent'
        BY <1>7 DEF Shape, ReadCurrent, TmpCurrent, DerivedBy, RtlFiles, ConfigOnly, Copying, Raise, Drop, people, ghosts
    <2>5. DiskCurrent'
        BY <1>7 DEF Shape, Files, TmpCurrent, DiskCurrent, DerivedBy, CopiedBy, RtlFiles, Copying, Raise, Drop, people, ghosts
    <2>6. SoundCurrent'
        BY <1>7 DEF Shape, Files, TmpCurrent, DiskCurrent, DerivedBy, CopiedBy, SoundCurrent, Current, RtlFiles, Copying, Raise, Drop, people, ghosts
    <2>7. Verdicts'
        BY <1>7 DEF Shape, Files, ReadCurrent, TmpCurrent, DiskCurrent, DerivedBy, CopiedBy, SoundCurrent, Verdicts, WrittenIsCurrent, PassMeansFresh, RegsSatisfiesChecks, ConfigsAgree, Current, RtlFiles, Copying, Parsed, Defines, Raise, Drop, people, ghosts
    <2> QED
        BY <2>1, <2>2, <2>3, <2>4, <2>5, <2>6, <2>7
<1>8. ASSUME NEW i \in 1 .. 4, Copy(i) PROVE IInv'
    <2>1. Shape'
        BY <1>8 DEF Shape, Deriving, Copying, Copy, people
    <2>2. Files'
        BY <1>8, ContentType, CutType DEF Files, Shape, Copy, people
    <2>3. ReadCurrent'
        BY <1>8 DEF ReadCurrent, Shape, Copy, people
    <2>4. TmpCurrent'
        BY <1>8 DEF Shape, ReadCurrent, TmpCurrent, DerivedBy, RtlFiles, ConfigOnly, Copying, Copy, people
    <2>5. DiskCurrent'
        BY <1>8 DEF Shape, Files, TmpCurrent, DiskCurrent, DerivedBy, CopiedBy, RtlFiles, Copying, Copy, people
    <2>6. SoundCurrent'
        BY <1>8 DEF Shape, Files, TmpCurrent, DiskCurrent, DerivedBy, CopiedBy, SoundCurrent, Current, RtlFiles, Copying, Copy, people
    <2>7. Verdicts'
        BY <1>8 DEF Shape, Files, ReadCurrent, TmpCurrent, DiskCurrent, DerivedBy, CopiedBy, SoundCurrent, Verdicts, WrittenIsCurrent, PassMeansFresh, RegsSatisfiesChecks, ConfigsAgree, Current, RtlFiles, Copying, Parsed, Defines, Copy, people
    <2> QED
        BY <2>1, <2>2, <2>3, <2>4, <2>5, <2>6, <2>7
<1>9. ASSUME ClearRtl PROVE IInv'
    <2>1. Shape'
        BY <1>9 DEF Shape, Deriving, Copying, ClearRtl, people, ghosts
    <2>2. Files'
        BY <1>9, ContentType, CutType DEF Files, Shape, ClearRtl, people, ghosts
    <2>3. ReadCurrent'
        BY <1>9 DEF ReadCurrent, Shape, ClearRtl, people, ghosts
    <2>4. TmpCurrent'
        BY <1>9 DEF Shape, ReadCurrent, TmpCurrent, DerivedBy, RtlFiles, ConfigOnly, Copying, ClearRtl, people, ghosts
    <2>5. DiskCurrent'
        BY <1>9 DEF Shape, Files, TmpCurrent, DiskCurrent, DerivedBy, CopiedBy, RtlFiles, Copying, ClearRtl, people, ghosts
    <2>6. SoundCurrent'
        BY <1>9 DEF Shape, Files, TmpCurrent, DiskCurrent, DerivedBy, CopiedBy, SoundCurrent, Current, RtlFiles, Copying, ClearRtl, people, ghosts
    <2>7. Verdicts'
        BY <1>9 DEF Shape, Files, ReadCurrent, TmpCurrent, DiskCurrent, DerivedBy, CopiedBy, SoundCurrent, Verdicts, WrittenIsCurrent, PassMeansFresh, RegsSatisfiesChecks, ConfigsAgree, Current, RtlFiles, Copying, Parsed, Defines, ClearRtl, people, ghosts
    <2> QED
        BY <2>1, <2>2, <2>3, <2>4, <2>5, <2>6, <2>7
<1>10. ASSUME NEW f \in RtlFiles, CopyRtl(f) PROVE IInv'
    <2>1. Shape'
        BY <1>10 DEF Shape, Deriving, Copying, CopyRtl, people, ghosts
    <2>2. Files'
        BY <1>10, ContentType, CutType DEF Files, Shape, CopyRtl, people, ghosts
    <2>3. ReadCurrent'
        BY <1>10 DEF ReadCurrent, Shape, CopyRtl, people, ghosts
    <2>4. TmpCurrent'
        BY <1>10 DEF Shape, ReadCurrent, TmpCurrent, DerivedBy, RtlFiles, ConfigOnly, Copying, CopyRtl, people, ghosts
    <2>5. DiskCurrent'
        BY <1>10 DEF Shape, Files, TmpCurrent, DiskCurrent, DerivedBy, CopiedBy, RtlFiles, Copying, CopyRtl, people, ghosts
    <2>6. SoundCurrent'
        BY <1>10 DEF Shape, Files, TmpCurrent, DiskCurrent, DerivedBy, CopiedBy, SoundCurrent, Current, RtlFiles, Copying, CopyRtl, people, ghosts
    <2>7. Verdicts'
        BY <1>10 DEF Shape, Files, ReadCurrent, TmpCurrent, DiskCurrent, DerivedBy, CopiedBy, SoundCurrent, Verdicts, WrittenIsCurrent, PassMeansFresh, RegsSatisfiesChecks, ConfigsAgree, Current, RtlFiles, Copying, Parsed, Defines, CopyRtl, people, ghosts
    <2> QED
        BY <2>1, <2>2, <2>3, <2>4, <2>5, <2>6, <2>7
<1>11. ASSUME DropDocs PROVE IInv'
    <2>1. Shape'
        BY <1>11 DEF Shape, Deriving, Copying, DropDocs, people, ghosts
    <2>2. Files'
        BY <1>11, ContentType, CutType DEF Files, Shape, DropDocs, people, ghosts
    <2>3. ReadCurrent'
        BY <1>11 DEF ReadCurrent, Shape, DropDocs, people, ghosts
    <2>4. TmpCurrent'
        BY <1>11 DEF Shape, ReadCurrent, TmpCurrent, DerivedBy, RtlFiles, ConfigOnly, Copying, DropDocs, people, ghosts
    <2>5. DiskCurrent'
        BY <1>11 DEF Shape, Files, TmpCurrent, DiskCurrent, DerivedBy, CopiedBy, RtlFiles, Copying, DropDocs, people, ghosts
    <2>6. SoundCurrent'
        BY <1>11 DEF Shape, Files, TmpCurrent, DiskCurrent, DerivedBy, CopiedBy, SoundCurrent, Current, RtlFiles, Copying, DropDocs, people, ghosts
    <2>7. Verdicts'
        BY <1>11 DEF Shape, Files, ReadCurrent, TmpCurrent, DiskCurrent, DerivedBy, CopiedBy, SoundCurrent, Verdicts, WrittenIsCurrent, PassMeansFresh, RegsSatisfiesChecks, ConfigsAgree, Current, RtlFiles, Copying, Parsed, Defines, DropDocs, people, ghosts
    <2> QED
        BY <2>1, <2>2, <2>3, <2>4, <2>5, <2>6, <2>7
<1>12. ASSUME CopyDocs PROVE IInv'
    <2>1. Shape'
        BY <1>12 DEF Shape, Deriving, Copying, CopyDocs, Drop, people
    <2>2. Files'
        BY <1>12, ContentType, CutType DEF Files, Shape, CopyDocs, Drop, people
    <2>3. ReadCurrent'
        BY <1>12 DEF ReadCurrent, Shape, CopyDocs, Drop, people
    <2>4. TmpCurrent'
        BY <1>12 DEF Shape, ReadCurrent, TmpCurrent, DerivedBy, RtlFiles, ConfigOnly, Copying, CopyDocs, Drop, people
    <2>5. DiskCurrent'
        BY <1>12 DEF Shape, Files, TmpCurrent, DiskCurrent, DerivedBy, CopiedBy, RtlFiles, Copying, CopyDocs, Drop, people
    <2>6. SoundCurrent'
        BY <1>12 DEF Shape, Files, TmpCurrent, DiskCurrent, DerivedBy, CopiedBy, SoundCurrent, Current, RtlFiles, Copying, CopyDocs, Drop, people
    <2>7. Verdicts'
        BY <1>12 DEF Shape, Files, ReadCurrent, TmpCurrent, DiskCurrent, DerivedBy, CopiedBy, SoundCurrent, Verdicts, WrittenIsCurrent, PassMeansFresh, RegsSatisfiesChecks, ConfigsAgree, Current, RtlFiles, Copying, Parsed, Defines, CopyDocs, Drop, people
    <2> QED
        BY <2>1, <2>2, <2>3, <2>4, <2>5, <2>6, <2>7
<1>13. ASSUME Compare PROVE IInv'
    <2>1. Shape'
        BY <1>13 DEF Shape, Deriving, Copying, Compare, Drop, Differences, people, ghosts
    <2>2. Files'
        BY <1>13, ContentType, CutType DEF Files, Shape, Compare, Drop, Differences, people, ghosts
    <2>3. ReadCurrent'
        BY <1>13 DEF ReadCurrent, Shape, Compare, Drop, Differences, people, ghosts
    <2>4. TmpCurrent'
        BY <1>13 DEF Shape, ReadCurrent, TmpCurrent, DerivedBy, RtlFiles, ConfigOnly, Copying, Compare, Drop, Differences, people, ghosts
    <2>5. DiskCurrent'
        BY <1>13 DEF Shape, Files, TmpCurrent, DiskCurrent, DerivedBy, CopiedBy, RtlFiles, Copying, Compare, Drop, Differences, people, ghosts
    <2>6. SoundCurrent'
        BY <1>13 DEF Shape, Files, TmpCurrent, DiskCurrent, DerivedBy, CopiedBy, SoundCurrent, Current, RtlFiles, Copying, Compare, Drop, Differences, people, ghosts
    <2>7. Verdicts'
        BY <1>13 DEF Shape, Files, ReadCurrent, TmpCurrent, DiskCurrent, DerivedBy, CopiedBy, SoundCurrent, Verdicts, WrittenIsCurrent, PassMeansFresh, RegsSatisfiesChecks, ConfigsAgree, Current, RtlFiles, Copying, Parsed, Defines, Compare, Drop, Differences, people, ghosts
    <2> QED
        BY <2>1, <2>2, <2>3, <2>4, <2>5, <2>6, <2>7
<1>14. ASSUME Ssot PROVE IInv'
    <2>1. Shape'
        BY <1>14 DEF Shape, Deriving, Copying, Ssot, people
    <2>2. Files'
        BY <1>14, ContentType, CutType DEF Files, Shape, Ssot, people
    <2>3. ReadCurrent'
        BY <1>14 DEF ReadCurrent, Shape, Ssot, people
    <2>4. TmpCurrent'
        BY <1>14 DEF Shape, ReadCurrent, TmpCurrent, DerivedBy, RtlFiles, ConfigOnly, Copying, Ssot, people
    <2>5. DiskCurrent'
        BY <1>14 DEF Shape, Files, TmpCurrent, DiskCurrent, DerivedBy, CopiedBy, RtlFiles, Copying, Ssot, people
    <2>6. SoundCurrent'
        BY <1>14 DEF Shape, Files, TmpCurrent, DiskCurrent, DerivedBy, CopiedBy, SoundCurrent, Current, RtlFiles, Copying, Ssot, people
    <2>7. Verdicts'
        <3>1. UNCHANGED <<rdl, disk, sound>> /\ verdict' \in {"ssot_failed", "ssot_passed"}
              /\ (verdict' = "ssot_passed" <=> \A n \in Generated : ~Reported(n))
            BY <1>14 DEF Ssot, people
        <3>2. ASSUME sound PROVE \A n \in Generated : ~Reported(n)
            <4>1. \A f \in ConfigFiles : Parsed(f) = rdl.config
                <5>1. \A f \in ConfigFiles : disk[f] = Content(f, rdl)
                    BY <3>2 DEF SoundCurrent, Current, ConfigFiles, ConfigOnly
                <5>2. \A f : Content(f, rdl).config = rdl.config
                    BY DEF Content
                <5> QED
                    BY <5>1, <5>2 DEF Parsed
            <4>2. TAKE n \in Generated
            <4>3. n \in DOMAIN rdl.config
                BY <4>1, <4>2 DEF Generated, ConfigFiles
            <4>4. Valued(n) = {rdl.config[n]}
                BY <4>1 DEF Valued, ConfigFiles, ConfigOnly
            <4>5. Cardinality(Valued(n)) = 1
                BY <4>4, FS_Singleton
            <4>6. Present(n) /\ Parsed("PS_CONFIG_HEADER")[n] = rdl.config[n]
                BY <4>1, <4>3 DEF Present, ConfigFiles, ConfigOnly
            <4>7. n \in DOMAIN Defines => Defines[n] = rdl.config[n]
                BY DEF Defines
            <4> QED
                BY <4>5, <4>6, <4>7 DEF Reported
        <3>3. ASSUME \A n \in Generated : ~Reported(n),
                     NEW f \in ConfigFiles, NEW g \in ConfigFiles
              PROVE  /\ Parsed(f) = Parsed(g)
                     /\ \A n \in DOMAIN Parsed(f) \cap DOMAIN Defines : Parsed(f)[n] = rdl.config[n]
            <4>1. \A h \in ConfigFiles : DOMAIN Parsed(h) = Generated
                BY <3>3 DEF Reported, Present, Generated, ConfigFiles
            <4>2. ASSUME NEW n \in Generated, NEW h \in ConfigFiles, NEW k \in ConfigFiles
                  PROVE  Parsed(h)[n] = Parsed(k)[n]
                <5>1. Cardinality(Valued(n)) = 1
                    BY <3>3 DEF Reported
                <5>2. Valued(n) = {Parsed("PS_CONFIG_HEADER")[n], Parsed("PY_CONFIG")[n]}
                                    \cup {Parsed("TCL_CONFIG")[n]}
                    BY DEF Valued, ConfigOnly
                <5>3. IsFiniteSet(Valued(n))
                    <6> DEFINE a == Parsed("PS_CONFIG_HEADER")[n]
                               b == Parsed("PY_CONFIG")[n]
                               c == Parsed("TCL_CONFIG")[n]
                    <6> HIDE DEF a, b, c
                    <6>1. IsFiniteSet({a})
                        BY FS_Singleton
                    <6>2. IsFiniteSet({a} \cup {b})
                        BY <6>1, FS_AddElement
                    <6>3. IsFiniteSet(({a} \cup {b}) \cup {c})
                        BY <6>2, FS_AddElement
                    <6>4. Valued(n) = ({a} \cup {b}) \cup {c}
                        BY <5>2 DEF a, b, c
                    <6> QED
                        BY <6>3, <6>4
                <5>4. PICK v : Valued(n) = {v}
                    BY <5>1, <5>3, FS_Singleton
                <5> QED
                    BY <5>4 DEF Valued, ConfigFiles
            <4>3. \A h \in ConfigFiles : Parsed(h) = [n \in DOMAIN Parsed(h) |-> Parsed(h)[n]]
                BY ParsedIsFunction DEF Files, Parsed, ConfigFiles, ConfigOnly
            <4>4. Parsed(f) = Parsed(g)
                BY <4>1, <4>2, <4>3
            <4>5. ASSUME NEW n \in Generated, n \in DOMAIN Defines
                  PROVE  Parsed(f)[n] = rdl.config[n]
                <5>1. Defines[n] = Parsed("PS_CONFIG_HEADER")[n]
                    BY <3>3, <4>5 DEF Reported
                <5> QED
                    BY <4>2, <4>5, <5>1 DEF Defines, ConfigFiles, ConfigOnly
            <4> QED
                BY <4>1, <4>4, <4>5
        <3>4. RegsSatisfiesChecks'
            BY <3>1, <3>2 DEF RegsSatisfiesChecks
        <3>5. ConfigsAgree'
            BY <3>1, <3>3 DEF ConfigsAgree, ConfigFiles, Parsed, Defines
        <3>6. (WrittenIsCurrent /\ PassMeansFresh)'
            BY <3>1 DEF WrittenIsCurrent, PassMeansFresh
        <3> QED
            BY <3>4, <3>5, <3>6 DEF Verdicts
    <2> QED
        BY <2>1, <2>2, <2>3, <2>4, <2>5, <2>6, <2>7
<1>15. ASSUME Edit PROVE IInv'
    <2>1. Shape'
        BY <1>15 DEF Shape, Deriving, Copying, Edit
    <2>2. Files'
        BY <1>15, ContentType, CutType DEF Files, Shape, Edit
    <2>3. ReadCurrent'
        BY <1>15 DEF ReadCurrent, Shape, Edit
    <2>4. TmpCurrent'
        BY <1>15 DEF Shape, ReadCurrent, TmpCurrent, DerivedBy, RtlFiles, ConfigOnly, Copying, Edit
    <2>5. DiskCurrent'
        BY <1>15 DEF Shape, Files, TmpCurrent, DiskCurrent, DerivedBy, CopiedBy, RtlFiles, Copying, Edit
    <2>6. SoundCurrent'
        BY <1>15 DEF Shape, Files, TmpCurrent, DiskCurrent, DerivedBy, CopiedBy, SoundCurrent, Current, RtlFiles, Copying, Edit
    <2>7. Verdicts'
        BY <1>15 DEF Shape, Files, ReadCurrent, TmpCurrent, DiskCurrent, DerivedBy, CopiedBy, SoundCurrent, Verdicts, WrittenIsCurrent, PassMeansFresh, RegsSatisfiesChecks, ConfigsAgree, Current, RtlFiles, Copying, Parsed, Defines, Edit
    <2> QED
        BY <2>1, <2>2, <2>3, <2>4, <2>5, <2>6, <2>7
<1>16. ASSUME Meddle PROVE IInv'
    <2>1. Shape'
        BY <1>16 DEF Shape, Deriving, Copying, Meddle
    <2>2. Files'
        <3>1. \A f \in Artifacts, d \in Descriptions : Content(f, d) \in Contents
            BY ContentType
        <3> QED
            <4>1. CASE UNCHANGED disk
                BY <1>16, <4>1 DEF Files, Meddle
            <4>2. ASSUME NEW f \in Artifacts, NEW d \in Descriptions,
                         disk' = [disk EXCEPT ![f] = Content(f, d)]
                  PROVE  Files'
                BY <1>16, <3>1, <4>2 DEF Files, Meddle
            <4> QED
                BY <1>16, <4>1, <4>2 DEF Meddle
    <2>3. ReadCurrent'
        BY <1>16 DEF ReadCurrent, Shape, Meddle
    <2>4. TmpCurrent'
        BY <1>16 DEF Shape, ReadCurrent, TmpCurrent, DerivedBy, RtlFiles, ConfigOnly, Copying, Meddle
    <2>5. DiskCurrent'
        BY <1>16 DEF Shape, Files, TmpCurrent, DiskCurrent, DerivedBy, CopiedBy, RtlFiles, Copying, Meddle
    <2>6. SoundCurrent'
        BY <1>16 DEF Shape, Files, TmpCurrent, DiskCurrent, DerivedBy, CopiedBy, SoundCurrent, Current, RtlFiles, Copying, Meddle
    <2>7. Verdicts'
        BY <1>16 DEF Shape, Files, ReadCurrent, TmpCurrent, DiskCurrent, DerivedBy, CopiedBy, SoundCurrent, Verdicts, WrittenIsCurrent, PassMeansFresh, RegsSatisfiesChecks, ConfigsAgree, Current, RtlFiles, Copying, Parsed, Defines, Meddle
    <2> QED
        BY <2>1, <2>2, <2>3, <2>4, <2>5, <2>6, <2>7
<1>17. ASSUME Interrupt PROVE IInv'
    <2>1. Shape'
        BY <1>17 DEF Shape, Deriving, Copying, Interrupt, Drop
    <2>2. Files'
        <3>1. tmp' \in [Artifacts -> Contents]
            BY <1>17, CutType DEF Interrupt, Drop
        <3>2. CASE UNCHANGED disk
            BY <3>1, <3>2 DEF Files
        <3>3. ASSUME NEW f \in Writing, NEW S \in SUBSET DOMAIN tmp[f].config,
                     disk' = [disk EXCEPT ![f] = Cut(tmp[f], S)]
              PROVE  Files'
            <4>1. f \in Artifacts
                BY DEF Writing, Shape, RtlFiles
            <4>2. Cut(tmp[f], S) \in Contents
                BY <4>1, CutType DEF Files
            <4> QED
                BY <3>1, <3>3, <4>2 DEF Files
        <3> QED
            BY <1>17, <3>2, <3>3 DEF Interrupt
    <2>3. ReadCurrent'
        BY <1>17 DEF ReadCurrent, Shape, Interrupt, Drop
    <2>4. TmpCurrent'
        BY <1>17 DEF Shape, ReadCurrent, TmpCurrent, DerivedBy, RtlFiles, ConfigOnly, Copying, Interrupt, Drop
    <2>5. DiskCurrent'
        BY <1>17 DEF Shape, Files, TmpCurrent, DiskCurrent, DerivedBy, CopiedBy, RtlFiles, Copying, Interrupt, Drop
    <2>6. SoundCurrent'
        BY <1>17 DEF Shape, Files, TmpCurrent, DiskCurrent, DerivedBy, CopiedBy, SoundCurrent, Current, RtlFiles, Copying, Interrupt, Drop
    <2>7. Verdicts'
        BY <1>17 DEF Shape, Files, ReadCurrent, TmpCurrent, DiskCurrent, DerivedBy, CopiedBy, SoundCurrent, Verdicts, WrittenIsCurrent, PassMeansFresh, RegsSatisfiesChecks, ConfigsAgree, Current, RtlFiles, Copying, Parsed, Defines, Interrupt, Drop
    <2> QED
        BY <2>1, <2>2, <2>3, <2>4, <2>5, <2>6, <2>7
<1>18. ASSUME UNCHANGED vars PROVE IInv'
    <2>1. Shape'
        BY <1>18 DEF Shape, Deriving, Copying, vars
    <2>2. Files'
        BY <1>18, ContentType, CutType DEF Files, Shape, vars
    <2>3. ReadCurrent'
        BY <1>18 DEF ReadCurrent, Shape, vars
    <2>4. TmpCurrent'
        BY <1>18 DEF Shape, ReadCurrent, TmpCurrent, DerivedBy, RtlFiles, ConfigOnly, Copying, vars
    <2>5. DiskCurrent'
        BY <1>18 DEF Shape, Files, TmpCurrent, DiskCurrent, DerivedBy, CopiedBy, RtlFiles, Copying, vars
    <2>6. SoundCurrent'
        BY <1>18 DEF Shape, Files, TmpCurrent, DiskCurrent, DerivedBy, CopiedBy, SoundCurrent, Current, RtlFiles, Copying, vars
    <2>7. Verdicts'
        BY <1>18 DEF Shape, Files, ReadCurrent, TmpCurrent, DiskCurrent, DerivedBy, CopiedBy, SoundCurrent, Verdicts, WrittenIsCurrent, PassMeansFresh, RegsSatisfiesChecks, ConfigsAgree, Current, RtlFiles, Copying, Parsed, Defines, vars
    <2> QED
        BY <2>1, <2>2, <2>3, <2>4, <2>5, <2>6, <2>7
<1> QED
    BY <1>1, <1>2, <1>3, <1>4, <1>5, <1>6, <1>7, <1>8, <1>9, <1>10, <1>11, <1>12, <1>13, <1>14, <1>15, <1>16, <1>17, <1>18 DEF Next, Generator

LEMMA KeptSteps == IInv /\ Kept /\ [Next]_vars => Kept'
<1> SUFFICES ASSUME Shape, ReadCurrent, Kept, [Next]_vars PROVE Kept'
    BY DEF IInv
<1> USE Names
<1>0. \A f, d : Content(f, d).whole
    BY DEF Content
<1>1. ASSUME NEW m \in {"regs", "check"}, Start(m) PROVE Kept'
    BY <1>0, <1>1 DEF Kept, Shape, DerivedBy, RtlFiles, ConfigOnly, Copying, Start
<1>2. ASSUME Read PROVE Kept'
    BY <1>0, <1>2 DEF Kept, Shape, ReadCurrent, DerivedBy, RtlFiles, ConfigOnly, Copying, Read, people, ghosts
<1>3. ASSUME Header PROVE Kept'
    BY <1>0, <1>3 DEF Kept, Shape, DerivedBy, RtlFiles, ConfigOnly, Copying, Header, Derive, people, ghosts
<1>4. ASSUME Regblock PROVE Kept'
    BY <1>0, <1>4 DEF Kept, Shape, DerivedBy, RtlFiles, ConfigOnly, Copying, Regblock, Derive, people, ghosts
<1>5. ASSUME Emit PROVE Kept'
    BY <1>0, <1>5 DEF Kept, Shape, DerivedBy, RtlFiles, ConfigOnly, Copying, Emit, people, ghosts
<1>6. ASSUME Html PROVE Kept'
    BY <1>0, <1>6 DEF Kept, Shape, DerivedBy, RtlFiles, ConfigOnly, Copying, Html, Derive, people, ghosts
<1>7. ASSUME Raise PROVE Kept'
    BY <1>0, <1>7 DEF Kept, Shape, DerivedBy, RtlFiles, ConfigOnly, Copying, Raise, Drop, people, ghosts
<1>8. ASSUME NEW i \in 1 .. 4, Copy(i) PROVE Kept'
    BY <1>0, <1>8 DEF Kept, Shape, DerivedBy, RtlFiles, ConfigOnly, Copying, Copy, people
<1>9. ASSUME ClearRtl PROVE Kept'
    BY <1>0, <1>9 DEF Kept, Shape, DerivedBy, RtlFiles, ConfigOnly, Copying, ClearRtl, people, ghosts
<1>10. ASSUME NEW f \in RtlFiles, CopyRtl(f) PROVE Kept'
    BY <1>0, <1>10 DEF Kept, Shape, DerivedBy, RtlFiles, ConfigOnly, Copying, CopyRtl, people, ghosts
<1>11. ASSUME DropDocs PROVE Kept'
    BY <1>0, <1>11 DEF Kept, Shape, DerivedBy, RtlFiles, ConfigOnly, Copying, DropDocs, people, ghosts
<1>12. ASSUME CopyDocs PROVE Kept'
    BY <1>0, <1>12 DEF Kept, Shape, DerivedBy, RtlFiles, ConfigOnly, Copying, CopyDocs, Drop, people
<1>13. ASSUME Compare PROVE Kept'
    BY <1>0, <1>13 DEF Kept, Shape, DerivedBy, RtlFiles, ConfigOnly, Copying, Compare, Drop, people, ghosts
<1>14. ASSUME Ssot PROVE Kept'
    BY <1>0, <1>14 DEF Kept, Shape, DerivedBy, RtlFiles, ConfigOnly, Copying, Ssot, people
<1>15. ASSUME Edit PROVE Kept'
    BY <1>0, <1>15 DEF Kept, Shape, DerivedBy, RtlFiles, ConfigOnly, Copying, Edit
<1>16. ASSUME Meddle PROVE Kept'
    BY <1>0, <1>16 DEF Kept, Shape, DerivedBy, RtlFiles, ConfigOnly, Copying, Meddle
<1>17. ASSUME Interrupt PROVE Kept'
    BY <1>0, <1>17 DEF Kept, Shape, DerivedBy, RtlFiles, ConfigOnly, Copying, Interrupt, Drop
<1>18. ASSUME UNCHANGED vars PROVE Kept'
    BY <1>0, <1>18 DEF Kept, Shape, DerivedBy, RtlFiles, ConfigOnly, Copying, vars
<1> QED
    BY <1>1, <1>2, <1>3, <1>4, <1>5, <1>6, <1>7, <1>8, <1>9, <1>10, <1>11, <1>12, <1>13, <1>14, <1>15, <1>16, <1>17, <1>18 DEF Next, Generator

LEMMA KeptInit == Init => Kept
<1> SUFFICES ASSUME Init PROVE Kept
    OBVIOUS
<1>1. \E d \in Descriptions : d.quality = "good"
    BY DEF Init
<1>2. Unread \in Descriptions /\ Unread.quality = "good"
    BY <1>1 DEF Unread
<1> QED
    BY <1>2 DEF Init, Kept, DerivedBy, Copying

LEMMA RegsAreRight == IInv /\ Kept => TypeOK /\ RegsSatisfiesChecks /\ ConfigsAgree
<1> SUFFICES ASSUME IInv, Kept PROVE TypeOK
    BY DEF IInv, Verdicts
<1>1. pc \in Copying => mode = "regs" /\ \A f \in Artifacts : tmp[f].whole
    BY DEF IInv, Kept, Shape, DerivedBy
<1> QED
    BY <1>1 DEF IInv, Kept, Shape, Files, ReadCurrent, Copying, TypeOK

THEOREM Invariance == Spec => []IInv
<1> QED
    BY InitInv, StepInv, PTL DEF Spec

-----------------------------------------------------------------------------
\* What make regs writes when nobody interferes is current and complete.
THEOREM WrittenIsCurrentHolds == Spec => []WrittenIsCurrent
<1>1. IInv => WrittenIsCurrent
    BY DEF IInv, Verdicts
<1> QED
    BY <1>1, Invariance, PTL

\* What make regs copies was derived as a whole from the accepted description.
THEOREM OnlyAcceptedIsCopiedHolds == Spec => []OnlyAcceptedIsCopied
<1>1. IInv => OnlyAcceptedIsCopied
    BY DEF IInv, Shape, ReadCurrent, TmpCurrent, DerivedBy, Deriving, Copying, OnlyAcceptedIsCopied
<1> QED
    BY <1>1, Invariance, PTL

\* make regs-check accepts only current files.
THEOREM PassMeansFreshHolds == Spec => []PassMeansFresh
<1>1. IInv => PassMeansFresh
    BY DEF IInv, Verdicts
<1> QED
    BY <1>1, Invariance, PTL

\* What an undisturbed make regs wrote passes both checks.
THEOREM RegsSatisfiesChecksHolds == Spec => []RegsSatisfiesChecks
<1>1. IInv => RegsSatisfiesChecks
    BY DEF IInv, Verdicts
<1> QED
    BY <1>1, Invariance, PTL

\* make ssot-check accepts only configurations that agree with one another
\* and with the literals of the description.
THEOREM ConfigsAgreeHolds == Spec => []ConfigsAgree
<1>1. IInv => ConfigsAgree
    BY DEF IInv, Verdicts
<1> QED
    BY <1>1, Invariance, PTL

-----------------------------------------------------------------------------
(* PlContract.                                                             *)

\* The contract that follows from a description's parameters.
Complete ==
    LET given == Contract!Given
        numbers == Contract!Derived(given)
    IN  [n \in DOMAIN given \cup DOMAIN numbers |-> IF n \in DOMAIN numbers THEN numbers[n] ELSE given[n]]

\* What each part of read_config_and_regs has established.
ContractParts ==
    /\ elaborated \in Contract!Descriptions
    /\ step \in {"parameters", "derive", "apertures", "registers", "accepted", "refused"}
    /\ step \in {"derive", "apertures", "registers", "accepted"} => elaborated.without \notin DOMAIN Contract!Given
    /\ step = "derive" => config = Contract!Given
    /\ step \in {"apertures", "registers", "accepted"} => config = Complete
    /\ step \in {"registers", "accepted"} =>
         /\ Contract!ControlSize(elaborated) <= config["CONTROL_RANGE_BYTES"]
         /\ config["FRAME_RAM_RANGE_BYTES"] >= config["FRAME_BYTES"]
         /\ elaborated.entries * 4 = config["FRAME_RAM_RANGE_BYTES"]
    /\ step = "accepted" =>
         /\ elaborated.without \notin Contract!RequiredRegs
         /\ elaborated.strands = config["OUTPUT_COUNT"] /\ elaborated.stride = 4
         /\ elaborated.invertWords = config["MASK_WORD_COUNT"]
         /\ elaborated.clampWords = config["MASK_WORD_COUNT"]

ContractInv == tool = "contract" => ContractParts

Below == {ss \in Nat \X Nat : ss[1] < ss[2]}

-----------------------------------------------------------------------------
\* Every set of natural numbers has a least one.
LEMMA LeastNumber == ASSUME NEW T \in SUBSET Nat, T # {} PROVE \E x \in T : \A y \in T : x <= y
<1>1. IsWellFoundedOn(Below, Nat)
    BY NatLessThanWellFounded DEF OpToRel, Below
<1>2. PICK x \in T : \A y \in T : ~(<<y, x>> \in Below)
    BY <1>1, WFMin
<1>3. ASSUME NEW y \in T PROVE x <= y
    <2>1. <<y, x>> \in Nat \X Nat /\ <<y, x>>[1] = y /\ <<y, x>>[2] = x
        OBVIOUS
    <2> QED
        BY <1>2, <2>1 DEF Below
<1> QED
    BY <1>3

\* ceil_log2 is the least width that a number fits.
LEMMA LeastWidth ==
    ASSUME NEW value \in Nat, value <= 2^MaxWidth
    PROVE  LET w == Contract!CeilLog2(value)
           IN  /\ w \in 0 .. MaxWidth /\ value <= 2^w
               /\ \A v \in 0 .. MaxWidth : v < w => 2^v < value
<1> DEFINE wide == {w \in 0 .. MaxWidth : value <= 2^w}
<1>1. MaxWidth \in Nat
    BY ContractAssumption
<1>2. wide \in SUBSET Nat /\ MaxWidth \in wide
    BY <1>1
<1> HIDE DEF wide
<1>3. PICK w \in wide : \A v \in wide : w <= v
    BY <1>2, LeastNumber
<1>4. w \in 0 .. MaxWidth /\ value <= 2^w
    BY <1>3 DEF wide
<1>5. \A v \in 0 .. MaxWidth : v < w => 2^v < value
    <2> TAKE v \in 0 .. MaxWidth
    <2> HAVE v < w
    <2>1. v \notin wide
        BY <1>1, <1>3, <1>4
    <2>2. 2^v \in Int
        BY <1>1
    <2> QED
        BY <2>1, <2>2 DEF wide
<1> QED
    BY <1>4, <1>5 DEF Contract!CeilLog2

\* Nothing narrower would do.
LEMMA WidthFits ==
    ASSUME NEW value \in Nat, value <= 2^MaxWidth
    PROVE  LET w == Contract!CeilLog2(value) IN value <= 2^w /\ (w > 0 => value > 2^(w - 1))
<1> DEFINE w == Contract!CeilLog2(value)
<1>1. /\ w \in 0 .. MaxWidth /\ value <= 2^w
      /\ \A v \in 0 .. MaxWidth : v < w => 2^v < value
    BY LeastWidth
<1> HIDE DEF w
<1>2. ASSUME w > 0 PROVE value > 2^(w - 1)
    <2>1. w - 1 \in 0 .. MaxWidth /\ w - 1 < w
        BY <1>1, <1>2, ContractAssumption
    <2>2. 2^(w - 1) \in Int /\ 2^(w - 1) < value
        BY <1>1, <2>1
    <2> QED
        BY <2>2
<1> QED
    BY <1>1, <1>2 DEF w

\* The numbers of a description.
LEMMA Parameters ==
    ASSUME elaborated \in Contract!Descriptions
    PROVE  /\ elaborated.outputs \in Outputs /\ elaborated.outputs \in Nat /\ elaborated.outputs > 0
           /\ elaborated.pixels \in Pixels /\ elaborated.pixels \in Nat
           /\ elaborated.banks \in Nat
           /\ elaborated.range \in ControlRanges /\ elaborated.range \in Nat
           /\ elaborated.entries \in RamEntries /\ elaborated.memwidth \in RamWidths
           /\ elaborated.entries \in Nat /\ elaborated.memwidth \in Nat
           /\ elaborated.room \in Nat /\ elaborated.stride \in Nat /\ elaborated.strands \in Nat
           /\ elaborated.clampWords \in Nat /\ elaborated.invertWords \in Nat
           /\ elaborated.strands > 0 /\ elaborated.stride * (elaborated.strands - 1) + 4 <= 4 * elaborated.room
           /\ elaborated.without \in {"nothing", "OUTPUT_COUNT", "OTHER_PARAMETER", "OUTPUT_INVERT_MASK", "OTHER_REGISTER"}
<1>1. /\ elaborated.outputs \in Outputs /\ elaborated.pixels \in Pixels /\ elaborated.banks \in Banks
      /\ elaborated.range \in ControlRanges /\ elaborated.entries \in RamEntries /\ elaborated.memwidth \in RamWidths
      /\ elaborated.room \in Rooms /\ elaborated.stride \in Strides /\ elaborated.strands \in Outputs
      /\ elaborated.clampWords \in 1 .. 2 /\ elaborated.invertWords \in 1 .. 2
      /\ elaborated.without \in {"nothing", "OUTPUT_COUNT", "OTHER_PARAMETER", "OUTPUT_INVERT_MASK", "OTHER_REGISTER"}
      /\ Contract!Elaborates(elaborated)
    BY DEF Contract!Descriptions
<1>2. /\ Outputs \subseteq Nat \ {0} /\ Pixels \subseteq Nat /\ Banks \subseteq Nat /\ ControlRanges \subseteq Nat
      /\ RamEntries \subseteq Nat /\ RamWidths \subseteq Nat /\ Rooms \subseteq Nat /\ Strides \subseteq Nat
    BY ContractAssumption
<1>3. /\ elaborated.strands > 0
      /\ elaborated.stride * (elaborated.strands - 1) + 4 <= 4 * elaborated.room
    BY <1>1 DEF Contract!Elaborates
<1>6. \A n \in Outputs : n \in Nat /\ n > 0
    <2> TAKE n \in Outputs
    <2>1. n \in Nat /\ n # 0
        BY <1>2
    <2> QED
        BY <2>1
<1>4. elaborated.outputs \in Nat /\ elaborated.outputs > 0 /\ elaborated.strands \in Nat
    BY <1>1, <1>6
<1>5. elaborated.clampWords \in Nat /\ elaborated.invertWords \in Nat
    BY <1>1
<1> QED
    BY <1>1, <1>2, <1>3, <1>4, <1>5

\* The contract, name by name.
LEMMA Numbered ==
    /\ Complete["OUTPUT_COUNT"] = elaborated.outputs /\ Complete["PIXELS_PER_OUTPUT"] = elaborated.pixels
    /\ Complete["FRAME_BANKS"] = elaborated.banks /\ Complete["CONTROL_RANGE_BYTES"] = elaborated.range
    /\ Complete["FRAME_WORDS_PER_BANK"] = elaborated.outputs * elaborated.pixels
    /\ Complete["FRAME_BYTES"] = elaborated.banks * (elaborated.outputs * elaborated.pixels) * 4
    /\ Complete["FRAME_RAM_RANGE_BYTES"] = Contract!RamSize(elaborated)
    /\ Complete["CONTROL_ADDR_WIDTH"] = Contract!CeilLog2(elaborated.range)
    /\ Complete["FRAME_ADDR_WIDTH"] = Contract!CeilLog2(Contract!RamSize(elaborated))
    /\ Complete["MASK_WORD_COUNT"] = (elaborated.outputs + 31) \div 32
    /\ Complete["OUTPUT_INDEX_WIDTH"] = Contract!CeilLog2(elaborated.outputs)
    /\ Complete["ACTIVE_OUTPUT_WIDTH"] = Contract!CeilLog2(elaborated.outputs + 1)
    /\ Complete["PIXEL_COUNT_WIDTH"] = Contract!CeilLog2(elaborated.pixels + 1)
    /\ DOMAIN Contract!Given \subseteq DOMAIN Complete
    BY DEF Complete, Contract!Given, Contract!Derived, Contract!MaskWords

LEMMA ContractStarts == ToolsInit => ContractInv
    BY DEF ToolsInit, ContractInv, ContractParts, Contract!Init

LEMMA ContractSteps == ContractInv /\ [ToolsNext]_all => ContractInv'
<1> SUFFICES ASSUME ContractInv, [ToolsNext]_all, tool' = "contract" PROVE ContractParts'
    BY DEF ContractInv
<1>1. tool = "contract" /\ [Contract!Next]_contractVars
    BY StepsOfBuildTools, Zenon DEF ToolsNext, all
<1>2. ContractParts
    BY <1>1 DEF ContractInv
<1>3. ASSUME Contract!ReadParameters PROVE ContractParts'
    BY <1>2, <1>3 DEF ContractParts, Contract!ReadParameters, Contract!Require, Contract!Given
<1>4. ASSUME Contract!Derive PROVE ContractParts'
    <2>1. step = "derive" /\ step' = "apertures" /\ UNCHANGED elaborated /\ config = Contract!Given
        BY <1>2, <1>4 DEF ContractParts, Contract!Derive
    <2>2. config' = Complete
        BY <1>4, <2>1 DEF Complete, Contract!Derive
    <2>3. UNCHANGED <<Complete, Contract!Given>>
        BY <2>1 DEF Complete, Contract!Given, Contract!Derived, Contract!RamSize
    <2> QED
        BY <1>2, <2>1, <2>2, <2>3 DEF ContractParts
<1>5. ASSUME UNCHANGED elaborated PROVE UNCHANGED <<Complete, Contract!Given>>
    BY <1>5 DEF Complete, Contract!Given, Contract!Derived, Contract!RamSize
<1>6. ASSUME Contract!RequireApertures PROVE ContractParts'
    BY <1>2, <1>5, <1>6 DEF ContractParts, Contract!RequireApertures, Contract!Require, Contract!ControlSize
<1>7. ASSUME Contract!RequireRegs PROVE ContractParts'
    BY <1>2, <1>5, <1>7 DEF ContractParts, Contract!RequireRegs, Contract!Require, Contract!ControlSize
<1>8. CASE UNCHANGED contractVars
    BY <1>2, <1>5, <1>8 DEF ContractParts, contractVars, Contract!ControlSize
<1> QED
    BY <1>1, <1>3, <1>4, <1>6, <1>7, <1>8, Zenon DEF Contract!Next

LEMMA ContractIsRight ==
    ContractInv /\ tool = "contract" =>
        /\ Contract!TypeOK /\ Contract!BanksAddressable /\ Contract!WidthsExact
        /\ Contract!EveryOutputHasItsRegisters
<1> SUFFICES ASSUME ContractParts
             PROVE  /\ Contract!TypeOK /\ Contract!BanksAddressable /\ Contract!WidthsExact
                    /\ Contract!EveryOutputHasItsRegisters
    BY DEF ContractInv
<1>1. Contract!TypeOK
    <2>1. Contract!Accepted => elaborated.without = "nothing"
        BY Parameters DEF Contract!Accepted, ContractParts, Contract!Given, Contract!RequiredRegs
    <2> QED
        BY <2>1, Numbered DEF Contract!TypeOK, ContractParts, Contract!Accepted
<1>2. Contract!WidthsExact
    <2>1. /\ elaborated.outputs \in Nat /\ elaborated.outputs + 1 \in Nat /\ elaborated.pixels + 1 \in Nat
          /\ elaborated.outputs + 1 <= 2^MaxWidth /\ elaborated.pixels + 1 <= 2^MaxWidth
          /\ elaborated.outputs <= 2^MaxWidth
        <3>1. elaborated.outputs + 1 <= 2^MaxWidth /\ elaborated.pixels + 1 <= 2^MaxWidth /\ 2^MaxWidth \in Int
            BY Parameters, ContractAssumption DEF ContractParts
        <3> QED
            BY <3>1, Parameters DEF ContractParts
    <2> QED
        BY <2>1, WidthFits, Numbered DEF Contract!WidthsExact, Contract!Accepted, ContractParts
<1>3. Contract!BanksAddressable
    <2> DEFINE W == elaborated.outputs * elaborated.pixels
    <2> SUFFICES ASSUME step = "accepted", elaborated.banks >= 2, NEW bank \in 0 .. 1, W > 0
                 PROVE  /\ 4 * ((bank * W) + W - 1) < 4 * elaborated.entries
                        /\ 4 * ((bank * W) + W - 1) < 2^config["FRAME_ADDR_WIDTH"]
        BY Numbered DEF Contract!BanksAddressable, Contract!Accepted, ContractParts
    <2>1. config = Complete /\ W \in Nat
        BY Parameters DEF ContractParts
    <2>2. /\ elaborated.entries \in Nat
          /\ elaborated.entries * 4 = Contract!RamSize(elaborated)
          /\ Contract!RamSize(elaborated) >= elaborated.banks * W * 4
        BY <2>1, Parameters, Numbered DEF ContractParts
    <2>3. Contract!RamSize(elaborated) <= 2^config["FRAME_ADDR_WIDTH"]
        <3>1. Contract!RamSize(elaborated) \in Nat
            BY <2>2
        <3>2. Contract!RamSize(elaborated) <= 2^MaxWidth
            BY Parameters, ContractAssumption DEF Contract!RamSize, ContractParts
        <3> QED
            BY <2>1, <3>1, <3>2, WidthFits, Numbered
    <2> HIDE DEF W
    <2>4. elaborated.banks * W >= 2 * W
        BY <2>1, Parameters DEF ContractParts
    <2>5. (bank * W) + W <= 2 * W
        BY <2>1
    <2>6. 4 * ((bank * W) + W - 1) < 4 * elaborated.entries
        BY <2>1, <2>2, <2>4, <2>5, Parameters DEF ContractParts
    <2>7. 4 * ((bank * W) + W - 1) \in Int /\ 2^config["FRAME_ADDR_WIDTH"] \in Int
        <3>1. config["FRAME_ADDR_WIDTH"] \in Nat
            <4>1. Contract!RamSize(elaborated) \in Nat
                BY <2>2
            <4>2. Contract!RamSize(elaborated) <= 2^MaxWidth
                BY Parameters, ContractAssumption DEF Contract!RamSize, ContractParts
            <4>3. config["FRAME_ADDR_WIDTH"] \in 0 .. MaxWidth
                BY <2>1, <4>1, <4>2, LeastWidth, Numbered
            <4> QED
                BY <4>3
        <3>2. bank * W \in Int
            BY <2>1
        <3> QED
            BY <2>1, <3>1, <3>2
    <2> QED
        BY <2>2, <2>3, <2>6, <2>7
<1>4. Contract!EveryOutputHasItsRegisters
    <2> SUFFICES ASSUME step = "accepted", NEW output \in 0 .. (elaborated.outputs - 1)
                 PROVE  /\ output < elaborated.strands
                        /\ 132 + (4 * output) < 132 + (4 * elaborated.room)
                        /\ output \div 32 < elaborated.clampWords /\ output \div 32 < elaborated.invertWords
                        /\ Contract!ControlSize(elaborated) <= 2^config["CONTROL_ADDR_WIDTH"]
        BY Numbered DEF Contract!EveryOutputHasItsRegisters, Contract!Accepted, ContractParts, Contract!StrandBase
    <2>1. config = Complete /\ elaborated.strands = elaborated.outputs /\ elaborated.stride = 4
        BY Numbered DEF ContractParts
    <2>2. output < elaborated.strands /\ output \in Nat
        BY <2>1, Parameters DEF ContractParts
    <2>3. 132 + (4 * output) < 132 + (4 * elaborated.room)
        BY <2>1, <2>2, Parameters DEF ContractParts
    <2>4. output \div 32 < elaborated.clampWords /\ output \div 32 < elaborated.invertWords
        <3>1. output \div 32 < (elaborated.outputs + 31) \div 32
            BY <2>1, <2>2, Parameters DEF ContractParts
        <3> QED
            BY <2>1, <3>1, Numbered DEF ContractParts
    <2>5. Contract!ControlSize(elaborated) <= 2^config["CONTROL_ADDR_WIDTH"]
        <3>1. elaborated.range <= 2^MaxWidth /\ elaborated.range \in Nat
            BY Parameters, ContractAssumption DEF ContractParts
        <3>2. elaborated.range <= 2^config["CONTROL_ADDR_WIDTH"] /\ config["CONTROL_ADDR_WIDTH"] \in 0 .. MaxWidth
            BY <2>1, <3>1, LeastWidth, Numbered
        <3>3. Contract!ControlSize(elaborated) <= elaborated.range /\ Contract!ControlSize(elaborated) \in Nat
            BY <2>1, Parameters, Numbered DEF ContractParts, Contract!ControlSize, Contract!StrandBase
        <3>4. 2^config["CONTROL_ADDR_WIDTH"] \in Int
            BY <3>2
        <3> QED
            BY <3>1, <3>2, <3>3, <3>4
    <2> QED
        BY <2>2, <2>3, <2>4, <2>5
<1> QED
    BY <1>1, <1>2, <1>3, <1>4

-----------------------------------------------------------------------------
(* SsotScan.                                                               *)

TextFiles == [kind : Scan!Kinds, lines : Seq(Scan!Lines)]

ScanTypes ==
    /\ repo \in Seq(TextFiles)
    /\ \A i \in DOMAIN repo : Len(repo[i].lines) <= MaxLines + 1
    /\ file \in Nat /\ 1 <= file /\ file <= Len(repo) + 1
    /\ line \in Nat /\ 1 <= line
    /\ exit \in {"none", "passed", "failed"}
    /\ \A f \in findings : f[1] \in Nat /\ f[1] <= Len(repo) /\ f[1] <= file

\* The scan is at a line of a file, or behind its last one.
InFile == line = 1 \/ (file <= Len(repo) /\ line <= Len(repo[file].lines) + 1)

\* What the scan has passed, and what it finds in it.
Passed(i, n) == i < file \/ (i = file /\ n < line)
Found(i, n) ==
    LET kind == repo[i].kind
        l == repo[i].lines[n]
    IN  /\ kind = "text" /\ Scan!Copied(l) => \E why \in {"default", "value"} : <<i, n, why>> \in findings
        /\ kind \in {"text", "matrix", "ingress"} /\ l.legacy => <<i, n, "legacy">> \in findings

AllFound == \A i \in DOMAIN repo : \A n \in DOMAIN repo[i].lines : Passed(i, n) => Found(i, n)

AtEnd == exit # "none" => file > Len(repo) /\ (exit = "failed" <=> findings # {})

ScanInv == ScanTypes /\ InFile /\ AllFound /\ AtEnd

-----------------------------------------------------------------------------
\* A scan starts with a repository of text files.
LEMMA Repositories ==
    ASSUME Scan!Init
    PROVE  repo \in Seq(TextFiles) /\ \A i \in DOMAIN repo : Len(repo[i].lines) <= MaxLines + 1
<1> DEFINE Short == {f \in TextFiles : Len(f.lines) <= MaxLines + 1}
<1>1. Scan!Files \subseteq Short
    <2>1. ASSUME NEW k \in Scan!Kinds, NEW n \in 0 .. MaxLines,
                 NEW s \in [1 .. n -> {Scan!Plain, Scan!Copy, Scan!SourcedDefault}]
          PROVE  [kind |-> k, lines |-> s] \in Short
        <3>1. {Scan!Plain, Scan!Copy, Scan!SourcedDefault} \subseteq Scan!Lines
            <4> DEFINE Shapes == [strict : BOOLEAN, number : Scan!Numbers, default : BOOLEAN, generated : BOOLEAN,
                                  legacy : BOOLEAN, marker : Scan!Markers]
            <4>1. Scan!Plain \in Shapes /\ Scan!Plain.marker = "none"
                BY DEF Scan!Plain, Scan!Numbers, Scan!Markers
            <4>2. Scan!Copy \in Shapes /\ Scan!Copy.marker = "none"
                BY <4>1 DEF Scan!Copy
            <4>3. Scan!SourcedDefault \in Shapes /\ Scan!SourcedDefault.marker = "none"
                <5>1. [Scan!Plain EXCEPT !.default = TRUE] \in Shapes /\ [Scan!Plain EXCEPT !.default = TRUE].marker = "none"
                    BY <4>1
                <5>2. Scan!SourcedDefault = [[Scan!Plain EXCEPT !.default = TRUE] EXCEPT !.generated = TRUE]
                    BY DEF Scan!SourcedDefault
                <5> QED
                    BY <5>1, <5>2
            <4>4. \A l \in Shapes : l.marker = "none" => l \in Scan!Lines
                BY DEF Scan!Lines
            <4> HIDE DEF Shapes
            <4> QED
                BY <4>1, <4>2, <4>3, <4>4
        <3>2. n \in Nat /\ n <= MaxLines
            BY ScanAssumption
        <3>3. s \in [1 .. n -> Scan!Lines]
            BY <3>1
        <3>4. s \in Seq(Scan!Lines) /\ Len(s) = n
            BY <3>2, <3>3
        <3> QED
            BY <3>2, <3>4, ScanAssumption DEF TextFiles
    <2> HIDE DEF Short
    <2> QED
        BY <2>1 DEF Scan!Files
<1>2. Scan!OneLiners \subseteq Short
    <2>1. ASSUME NEW k \in Scan!Kinds, NEW l \in Scan!Lines PROVE [kind |-> k, lines |-> <<l>>] \in Short
        <3>1. <<l>> \in Seq(Scan!Lines) /\ Len(<<l>>) = 1
            OBVIOUS
        <3> HIDE DEF Scan!Lines
        <3>2. [kind |-> k, lines |-> <<l>>] \in TextFiles
            BY <3>1 DEF TextFiles
        <3>3. Len([kind |-> k, lines |-> <<l>>].lines) <= MaxLines + 1
            BY <3>1, ScanAssumption
        <3> QED
            BY <3>2, <3>3
    <2> HIDE DEF Short
    <2> QED
        BY <2>1 DEF Scan!OneLiners
<1> HIDE DEF Short
<1>3. PICK f \in Scan!OneLiners, n \in 0 .. (MaxFiles - 1) : \E s \in [1 .. n -> Scan!Files] : repo = <<f>> \o s
    BY DEF Scan!Init
<1>4. PICK s \in [1 .. n -> Scan!Files] : repo = <<f>> \o s
    BY <1>3
<1>5. n \in Nat
    BY ScanAssumption
<1>6. f \in Short /\ s \in [1 .. n -> Short]
    BY <1>1, <1>2
<1>7. s \in Seq(Short)
    BY <1>5, <1>6
<1>8. repo \in Seq(Short)
    BY <1>4, <1>6, <1>7
<1>9. \A x \in Short : x \in TextFiles /\ Len(x.lines) <= MaxLines + 1
    BY DEF Short
<1>10. \A i \in DOMAIN repo : repo[i] \in TextFiles /\ Len(repo[i].lines) <= MaxLines + 1
    BY <1>8, <1>9
<1>11. repo \in Seq(TextFiles)
    BY <1>8, <1>9, <1>10
<1> QED
    BY <1>10, <1>11

LEMMA ScanStarts == ToolsInit => ScanInv
<1> SUFFICES ASSUME ToolsInit PROVE ScanInv
    OBVIOUS
<1>1. /\ repo \in Seq(TextFiles) /\ \A i \in DOMAIN repo : Len(repo[i].lines) <= MaxLines + 1
      /\ file = 1 /\ line = 1 /\ exit = "none" /\ \A f \in findings : f[1] = 0
    <2>1. CASE tool = "scan"
        <3>1. Scan!Init
            BY <2>1 DEF ToolsInit
        <3>2. file = 1 /\ line = 1 /\ exit = "none" /\ findings \in {{}, {<<0, 0, "contract">>}}
            BY <3>1 DEF Scan!Init
        <3>3. \A f \in findings : f[1] = 0
            BY <3>2
        <3> QED
            BY <3>1, <3>2, <3>3, Repositories
    <2>2. CASE tool # "scan"
        BY <2>2 DEF ToolsInit
    <2> QED
        BY <2>1, <2>2
<1>2. ScanTypes
    BY <1>1 DEF ScanTypes
<1>3. InFile /\ AtEnd
    BY <1>1 DEF InFile, AtEnd
<1>4. AllFound
    BY <1>1 DEF AllFound, Passed
<1> QED
    BY <1>2, <1>3, <1>4 DEF ScanInv

\* What the scan holds against a line of a text that counts.
LEMMA Held ==
    ASSUME file \in DOMAIN repo, NEW l
    PROVE  /\ repo[file].kind = "text" /\ Scan!Copied(l) => \E why \in {"default", "value"} : why \in Scan!Reasons(l)
           /\ l.legacy => "legacy" \in Scan!Reasons(l)
    BY DEF Scan!Reasons, Scan!Copied, Scan!ExemptInMatrix, Scan!MatrixPath, Scan!Current

LEMMA ScansLine == ASSUME ScanInv, Scan!ScanLine PROVE ScanInv'
<1> USE DEF ScanInv
<1>1. /\ exit = "none" /\ file <= Len(repo) /\ Scan!Scanned(Scan!Current) /\ line <= Len(Scan!TextLines)
      /\ findings' = findings \cup {<<file, line, why>> : why \in Scan!Reasons(Scan!TextLines[line])}
      /\ line' = line + 1 /\ UNCHANGED <<repo, file, exit>>
    BY DEF Scan!ScanLine
<1>2. file \in DOMAIN repo /\ file \in Nat /\ Len(repo) \in Nat /\ repo[file] \in TextFiles /\ line \in Nat
    BY <1>1 DEF ScanTypes
<1>3. Scan!TextLines = repo[file].lines
    BY <1>1, <1>2 DEF Scan!TextLines, Scan!Current, ScanTypes
<1>4. ScanTypes'
    <2>1. \A f \in findings' : f[1] \in Nat /\ f[1] <= Len(repo) /\ f[1] <= file
        BY <1>1, <1>2 DEF ScanTypes
    <2> QED
        BY <1>1, <2>1 DEF ScanTypes
<1>5. InFile'
    BY <1>1, <1>2, <1>3 DEF InFile, TextFiles
<1>6. AllFound'
    <2> SUFFICES ASSUME NEW i \in DOMAIN repo, NEW n \in DOMAIN repo[i].lines, Passed(i, n)' PROVE Found(i, n)'
        BY <1>1 DEF AllFound
    <2>1. i \in Nat /\ n \in Nat
        BY <1>2 DEF ScanTypes, TextFiles
    <2>2. CASE Passed(i, n)
        <3>1. Found(i, n)
            BY <2>2 DEF AllFound
        <3> QED
            BY <1>1, <3>1 DEF Found
    <2>3. CASE ~Passed(i, n)
        <3>1. i = file /\ n = line
            BY <1>1, <1>2, <2>1, <2>3 DEF Passed
        <3>2. \A why \in Scan!Reasons(repo[i].lines[n]) : <<i, n, why>> \in findings'
            BY <1>1, <1>3, <3>1
        <3> QED
            BY <1>1, <1>2, <3>1, <3>2, Held DEF Found
    <2> QED
        BY <2>2, <2>3
<1>7. AtEnd'
    BY <1>1 DEF AtEnd
<1> QED
    BY <1>4, <1>5, <1>6, <1>7

LEMMA TakesFile == ASSUME ScanInv, Scan!NextFile PROVE ScanInv'
<1> USE DEF ScanInv
<1>1. /\ exit = "none" /\ file <= Len(repo) /\ (Scan!Scanned(Scan!Current) => line > Len(Scan!TextLines))
      /\ file' = file + 1 /\ line' = 1 /\ UNCHANGED <<repo, findings, exit>>
    BY DEF Scan!NextFile
<1>2. file \in DOMAIN repo /\ file \in Nat /\ Len(repo) \in Nat /\ repo[file] \in TextFiles /\ line \in Nat
    BY <1>1 DEF ScanTypes
<1>3. ScanTypes'
    BY <1>1, <1>2 DEF ScanTypes
<1>4. InFile' /\ AtEnd'
    BY <1>1 DEF InFile, AtEnd
<1>5. AllFound'
    <2> SUFFICES ASSUME NEW i \in DOMAIN repo, NEW n \in DOMAIN repo[i].lines, Passed(i, n)' PROVE Found(i, n)'
        BY <1>1 DEF AllFound
    <2>4. i \in Nat /\ repo[i] \in TextFiles
        BY <1>2 DEF ScanTypes
    <2>1. n \in Nat /\ n >= 1
        BY <2>4 DEF TextFiles
    <2>2. CASE Passed(i, n)
        <3>1. Found(i, n)
            BY <2>2 DEF AllFound
        <3> QED
            BY <1>1, <3>1 DEF Found
    <2>3. CASE ~Passed(i, n)
        <3>1. i = file /\ ~(n < line)
            BY <1>1, <1>2, <2>1, <2>3, <2>4 DEF Passed
        <3>2. n <= Len(repo[file].lines)
            BY <2>1, <3>1 DEF TextFiles
        <3>3. repo[file].kind \notin {"text", "matrix", "ingress"}
            <4> SUFFICES ASSUME repo[file].kind \in {"text", "matrix", "ingress"} PROVE FALSE
                OBVIOUS
            <4>1. Scan!Scanned(Scan!Current) /\ Scan!TextLines = repo[file].lines
                BY DEF Scan!Scanned, Scan!Listed, Scan!AllowedPath, Scan!TextLines, Scan!Current
            <4>2. Len(repo[file].lines) \in Nat
                BY <1>2 DEF TextFiles
            <4> QED
                BY <1>1, <1>2, <2>1, <3>1, <3>2, <4>1, <4>2
        <3> QED
            BY <1>1, <3>1, <3>3 DEF Found
    <2> QED
        BY <2>2, <2>3
<1> QED
    BY <1>3, <1>4, <1>5

LEMMA EndsScan == ASSUME ScanInv, Scan!Finish PROVE ScanInv'
<1> USE DEF ScanInv, Scan!Finish
<1>1. ScanTypes' /\ InFile' /\ AtEnd'
    BY DEF ScanTypes, InFile, AtEnd
<1>2. AllFound'
    BY DEF AllFound, Passed, Found
<1> QED
    BY <1>1, <1>2

LEMMA ScanSteps == ScanInv /\ [Scan!Next]_scanVars => ScanInv'
<1> SUFFICES ASSUME ScanInv, [Scan!Next]_scanVars PROVE ScanInv'
    OBVIOUS
<1>1. CASE UNCHANGED scanVars
    <2> USE <1>1 DEF scanVars, ScanInv
    <2>1. ScanTypes' /\ InFile' /\ AtEnd'
        BY DEF ScanTypes, InFile, AtEnd
    <2>2. AllFound'
        BY DEF AllFound, Passed, Found
    <2> QED
        BY <2>1, <2>2
<1> QED
    BY <1>1, ScansLine, TakesFile, EndsScan, Zenon DEF Scan!Next

LEMMA ScanIsRight ==
    ScanInv => Scan!TypeOK /\ Scan!CopiesElsewhereFail /\ Scan!AllAreReported /\ Scan!VerdictIsFindings
<1> SUFFICES ASSUME ScanInv
             PROVE  Scan!TypeOK /\ Scan!CopiesElsewhereFail /\ Scan!AllAreReported /\ Scan!VerdictIsFindings
    OBVIOUS
<1> USE DEF ScanInv
<1>1. Scan!TypeOK
    <2>1. line <= MaxLines + 2
        <3>1. CASE line = 1
            BY <3>1, ScanAssumption
        <3>2. CASE file <= Len(repo) /\ line <= Len(repo[file].lines) + 1
            <4>1. file \in DOMAIN repo
                BY <3>2 DEF ScanTypes
            <4>2. repo[file] \in TextFiles /\ Len(repo[file].lines) <= MaxLines + 1
                BY <4>1 DEF ScanTypes
            <4>3. Len(repo[file].lines) \in Nat
                BY <4>2 DEF TextFiles
            <4> QED
                BY <3>2, <4>2, <4>3, ScanAssumption DEF ScanTypes
        <3> QED
            BY <3>1, <3>2 DEF InFile
    <2>2. Len(repo) \in Nat
        BY DEF ScanTypes
    <2> QED
        BY <2>1, <2>2, ScanAssumption DEF Scan!TypeOK, ScanTypes
<1>2. exit # "none" => \A i \in DOMAIN repo : \A n \in DOMAIN repo[i].lines : Found(i, n)
    BY DEF AtEnd, AllFound, Passed, ScanTypes
<1>3. Scan!CopiesElsewhereFail
    <2> SUFFICES ASSUME exit = "passed", NEW i \in DOMAIN repo, repo[i].kind = "text",
                        NEW n \in DOMAIN repo[i].lines
                 PROVE  ~Scan!Copied(repo[i].lines[n])
        BY DEF Scan!CopiesElsewhereFail
    <2>1. findings = {}
        BY DEF AtEnd
    <2>2. Found(i, n)
        BY <1>2
    <2> QED
        BY <2>1, <2>2 DEF Found
<1>4. Scan!AllAreReported
    BY <1>2 DEF Scan!AllAreReported, Found
<1>5. Scan!VerdictIsFindings
    BY DEF Scan!VerdictIsFindings, AtEnd
<1> QED
    BY <1>1, <1>3, <1>4, <1>5

-----------------------------------------------------------------------------
(* The checks together.                                                    *)

ChecksInv == IInv /\ Kept /\ ScanInv /\ ContractInv

\* The checks accept only what is consistent, and what they require makes the
\* generated contract usable.
THEOREM ChecksAreSoundHolds == ToolsSpec => []ChecksAreSound
<1>1. ToolsInit => ChecksInv
    <2>1. ToolsInit => IInv /\ Kept
        BY InitInv, KeptInit DEF ToolsInit
    <2> QED
        BY <2>1, ScanStarts, ContractStarts DEF ChecksInv
<1>2. ChecksInv /\ [ToolsNext]_all => ChecksInv'
    <2>1. ChecksInv /\ [ToolsNext]_all => IInv' /\ Kept' /\ ScanInv'
        BY StepInv, KeptSteps, ScanSteps, StepsOfBuildTools, Zenon DEF ChecksInv
    <2>2. ChecksInv /\ [ToolsNext]_all => ContractInv'
        BY ContractSteps, Zenon DEF ChecksInv
    <2> QED
        BY <2>1, <2>2, Zenon DEF ChecksInv
<1>3. ChecksInv => ChecksAreSound
    BY RegsAreRight, ScanIsRight, ContractIsRight, Zenon DEF ChecksInv, ChecksAreSound
<1> QED
    BY <1>1, <1>2, <1>3, PTL DEF ToolsSpec

-----------------------------------------------------------------------------
(* VitisBuild.                                                             *)

Creating == {"fsbl", "platform", "import", "optimize", "debug", "link", "build", "touch"}
Imported == {"optimize", "debug", "link", "build", "touch"}
AfterHw == {"ps", "goal"} \cup Creating
AfterCheck == {"hw", "synth"} \cup AfterHw
Final == Len(works)
Latest == works[Final]
Ended == at = "idle" /\ result = "ok"

Works == [settings : [from : Envs \cup {"defaults"}, py : Nat], rtl : Nat, pkg : Nat, app : Int,
          header : Int, patched : SUBSET Vitis!Labels, fsblAt : Nat, appAt : Nat]
Images == [at : Nat, fsbl : Nat, app : Nat, rtl : Nat, pkg : Nat]

Times ==
    /\ clock \in Nat /\ stamp \in Nat /\ pkgAt \in Nat
    /\ stamp <= clock /\ pkgAt <= clock /\ xsa.at <= clock /\ boot.at <= clock
    /\ \A k \in {"app", "rtl"} : src[k].at <= clock
    /\ \A w \in DOMAIN works : works[w].fsblAt <= clock /\ works[w].appAt <= clock

Versions ==
    /\ changes \in Nat /\ changes <= MaxBuildEdits
    /\ src \in [{"app", "rtl"} -> [ver : Nat, at : Nat]]
    /\ \A k \in {"app", "rtl"} : src[k].ver <= changes
    /\ version \in Nat /\ version <= changes
    /\ derived \in [{"pkg", "header", "py"} -> Nat] /\ derived["pkg"] = version
    /\ \A k \in {"pkg", "header", "py"} : derived[k] <= changes + 1

Outcomes ==
    /\ xsa \in [rtl : Nat, pkg : Nat, at : Nat, bit : BOOLEAN]
    /\ works \in Seq(Works)
    /\ boot \in Images \cup {Vitis!None} /\ loaded \in Images \cup {Vitis!None}

Stages ==
    /\ fooled \subseteq {"hw", "ps"}
    /\ at \in {"idle", "check"} \cup AfterCheck
    /\ goal \in {"ps", "boot", "run"} /\ env \in Envs \cup {"defaults"}
    /\ forced \in BOOLEAN /\ undisturbed \in BOOLEAN

BuildTypes == Times /\ Versions /\ Outcomes /\ Stages

\* Files are built in the order of the workspaces.
InOrder ==
    \A v, w \in DOMAIN works : v < w =>
        /\ works[v].fsblAt # 0 /\ works[w].fsblAt # 0 => works[v].fsblAt < works[w].fsblAt
        /\ works[v].appAt # 0 /\ works[w].appAt # 0 => works[v].appAt < works[w].appAt

\* The texts replaced in the newest workspace when the script is at step p.
PatchedBy(p) ==
    {l \in Vitis!Labels :
        \/ p \notin {"fsbl"} /\ l = "FSBL warning suppression"
        \/ p \in {"debug", "link", "build", "touch"} /\ l = "app optimization level"
        \/ p \in {"link", "build", "touch"} /\ l = "app debug level"
        \/ p \in {"build", "touch"} /\ l = "app lwIP link dependency"}

\* How far the newest workspace is.
Underway ==
    /\ at \in Creating =>
         /\ works # <<>>
         /\ Latest.rtl = xsa.rtl /\ Latest.pkg = xsa.pkg
         /\ Latest.patched = PatchedBy(at)
         /\ at \in {"fsbl", "platform"} => Latest.fsblAt = 0
         /\ at # "touch" => Latest.appAt = 0
    /\ at \in Imported => Latest.app >= 0 /\ Latest.header >= 0

WholeApps ==
    \A w \in DOMAIN works : works[w].appAt # 0 =>
        works[w].patched = Vitis!Labels /\ works[w].app >= 0 /\ works[w].header >= 0

\* The exported hardware is of the sources that Vivado read, and nobody edited
\* them since unless the times tell.
Hardware ==
    /\ (at = "synth" \/ ~Vitis!HwStale) /\ "hw" \notin fooled =>
         xsa.rtl = src["rtl"].ver /\ xsa.pkg = version
    /\ at = "synth" => ~xsa.bit
    /\ at \in AfterHw => xsa.bit

\* The newest workspace has both files.
Settled == works # <<>> /\ Latest.fsblAt # 0 /\ Latest.appAt # 0

\* The newest application is of the sources, and of the constants if the
\* hardware is.
OfSources ==
    /\ Latest.app = src["app"].ver
    /\ pkgAt <= xsa.at => Latest.header = version

\* A stamp that is not stale was touched for the newest workspace.
Software ==
    /\ at \in Creating => Vitis!StampStale
    /\ at \in Imported /\ "ps" \notin fooled => OfSources
    /\ ~Vitis!StampStale => Settled
    /\ ~Vitis!StampStale /\ "ps" \notin fooled => OfSources
    /\ ~Vitis!StampStale /\ xsa.bit => Latest.rtl = xsa.rtl /\ Latest.pkg = xsa.pkg
    /\ at = "goal" => stamp # 0 /\ Settled /\ Latest.rtl = xsa.rtl /\ Latest.pkg = xsa.pkg
    /\ Ended => Settled

\* What BOOT.BIN and the board hold is one workspace.
OneWorkspace(image) ==
    /\ image.app \in DOMAIN works /\ image.fsbl = image.app
    /\ works[image.app].rtl = image.rtl /\ works[image.app].pkg = image.pkg

BootFiles ==
    /\ boot # Vitis!None => OneWorkspace(boot)
    /\ loaded # Vitis!None => OneWorkspace(loaded)
    /\ (~Vitis!StampStale \/ at = "goal") /\ stamp <= boot.at => boot.app = Final
    /\ Ended => /\ goal = "boot" => boot.app = Final
                /\ goal = "run" => loaded.app = Final

\* What nobody edited during a make is as the make left it.
Undisturbed ==
    undisturbed =>
        /\ at \in AfterCheck \/ Ended => \A k \in {"pkg", "header", "py"} : derived[k] = version
        /\ at \in AfterHw \/ Ended => ~Vitis!HwStale
        /\ at = "goal" \/ Ended => ~Vitis!StampStale

\* A make that found no stamp builds with its own settings.
Forced ==
    forced =>
        /\ at \in {"check", "hw", "synth", "ps"} => stamp = 0
        /\ at \in Creating \cup {"goal"} \/ Ended =>
             /\ Latest.settings.from = env
             /\ undisturbed /\ env = "defaults" => Latest.settings.py = version

BuildInv ==
    /\ Times /\ Versions /\ Outcomes /\ Stages /\ InOrder /\ Underway /\ WholeApps /\ Hardware
    /\ Software /\ BootFiles /\ Undisturbed /\ Forced

-----------------------------------------------------------------------------
\* What the types say of times and versions.
LEMMA Numbers ==
    ASSUME Versions, Outcomes
    PROVE  /\ boot.at \in Nat /\ xsa.at \in Nat
           /\ \A k \in {"app", "rtl"} : src[k] \in [ver : Nat, at : Nat] /\ src[k].at \in Nat /\ src[k].ver \in Nat
           /\ \A w \in DOMAIN works :
                /\ works[w] \in Works /\ works[w].fsblAt \in Nat /\ works[w].appAt \in Nat
                /\ w \in Nat /\ w <= Final
           /\ Final \in Nat /\ DOMAIN works = 1 .. Final
<1>1. boot.at \in Nat /\ xsa.at \in Nat
    BY DEF Outcomes, Images, Vitis!None
<1>2. \A k \in {"app", "rtl"} : src[k] \in [ver : Nat, at : Nat]
    BY DEF Versions
<1>3. Final \in Nat /\ DOMAIN works = 1 .. Final /\ \A w \in DOMAIN works : works[w] \in Works
    BY DEF Outcomes, Final
<1> QED
    BY <1>1, <1>2, <1>3 DEF Works

\* Nothing is younger than a later clock.
LEMMA Later ==
    ASSUME Times, Versions, Outcomes, clock' = clock + 1
    PROVE  /\ clock' \in Nat
           /\ stamp <= clock' /\ pkgAt <= clock' /\ xsa.at <= clock' /\ boot.at <= clock'
           /\ \A k \in {"app", "rtl"} : src[k].at <= clock'
           /\ \A w \in DOMAIN works : works[w].fsblAt <= clock' /\ works[w].appAt <= clock'
<1>1. clock \in Nat /\ \A t \in Nat : t <= clock => t <= clock'
    BY DEF Times
<1>2. stamp <= clock' /\ pkgAt <= clock' /\ xsa.at <= clock' /\ boot.at <= clock'
    BY <1>1, Numbers DEF Times
<1>3. \A k \in {"app", "rtl"} : src[k].at <= clock'
    BY <1>1, Numbers DEF Times
<1>4. \A w \in DOMAIN works : works[w].fsblAt <= clock' /\ works[w].appAt <= clock'
    BY <1>1, Numbers DEF Times
<1> QED
    BY <1>1, <1>2, <1>3, <1>4

\* A file is written to the newest workspace only.
LEMMA InNewest ==
    ASSUME works \in Seq(Works), works # <<>>, NEW f \in Works, Vitis!InWork(f)
    PROVE  /\ works' \in Seq(Works) /\ works' # <<>> /\ Final' = Final /\ Latest' = f
           /\ DOMAIN works' = DOMAIN works /\ DOMAIN works = 1 .. Final /\ Final \in Nat \ {0}
           /\ \A w \in DOMAIN works : w # Final => works'[w] = works[w]
<1>1. works' = [works EXCEPT ![Final] = f]
    BY DEF Vitis!InWork, Vitis!Last, Final
<1>2. DOMAIN works = 1 .. Final /\ Final \in Nat \ {0}
    BY DEF Final
<1>3. DOMAIN works' = 1 .. Final /\ \A w \in 1 .. Final : works'[w] = IF w = Final THEN f ELSE works[w]
    BY <1>1, <1>2
<1>4. works' \in Seq(Works) /\ Len(works') = Final
    <2>1. \A w \in 1 .. Final : works[w] \in Works
        BY <1>2
    <2>2. works' \in [1 .. Final -> Works]
        BY <1>1, <1>3, <2>1, <1>2
    <2> QED
        BY <2>2, <1>2, <1>3
<1>5. \A w \in DOMAIN works : w # Final => works'[w] = works[w]
    BY <1>2, <1>3
<1>6. Final' = Final
    BY <1>4 DEF Final
<1>7. works' # <<>>
    BY <1>2, <1>4
<1>8. Latest' = f
    BY <1>2, <1>3, <1>6 DEF Latest
<1> QED
    BY <1>2, <1>3, <1>4, <1>5, <1>6, <1>7, <1>8

\* When the newest workspace has both files they are the newest files.
LEMMA NewestIsLatest ==
    ASSUME BuildTypes, InOrder, Settled
    PROVE  Vitis!Newest("appAt") = Final /\ Vitis!Newest("fsblAt") = Final
<1>1. Final \in DOMAIN works /\ \A w \in DOMAIN works : w \in Int /\ works[w] \in Works /\ (w = Final \/ w < Final)
    BY DEF Settled, Final, BuildTypes, Outcomes
<1>2. \A w \in DOMAIN works : works[w].appAt \in Nat /\ works[w].fsblAt \in Nat
    BY <1>1 DEF Works
<1>3. ASSUME NEW w \in Vitis!Built("appAt") PROVE works[w].appAt <= Latest.appAt /\ (w # Final => works[w].appAt < Latest.appAt)
    BY <1>1, <1>2, <1>3 DEF Vitis!Built, InOrder, Settled, Latest
<1>4. ASSUME NEW w \in Vitis!Built("fsblAt") PROVE works[w].fsblAt <= Latest.fsblAt /\ (w # Final => works[w].fsblAt < Latest.fsblAt)
    BY <1>1, <1>2, <1>4 DEF Vitis!Built, InOrder, Settled, Latest
<1>5. Final \in Vitis!Built("appAt") /\ Final \in Vitis!Built("fsblAt")
    BY <1>1 DEF Vitis!Built, Settled, Latest
<1>6. \A v, w \in Vitis!Built("appAt") : works[v].appAt \in Nat /\ works[w].appAt \in Nat
    BY <1>2 DEF Vitis!Built
<1>7. \A v, w \in Vitis!Built("fsblAt") : works[v].fsblAt \in Nat /\ works[w].fsblAt \in Nat
    BY <1>2 DEF Vitis!Built
<1>8. \A w \in Vitis!Built("appAt") : (\A v \in Vitis!Built("appAt") : works[v].appAt <= works[w].appAt) <=> w = Final
    BY <1>3, <1>5, <1>6 DEF Latest
<1>9. \A w \in Vitis!Built("fsblAt") : (\A v \in Vitis!Built("fsblAt") : works[v].fsblAt <= works[w].fsblAt) <=> w = Final
    BY <1>4, <1>5, <1>7 DEF Latest
<1> QED
    BY <1>5, <1>8, <1>9 DEF Vitis!Newest

LEMMA BuildStarts == Vitis!Init => BuildInv
<1> SUFFICES ASSUME Vitis!Init PROVE BuildInv
    OBVIOUS
<1>1. Times /\ Versions
    BY BuildAssumption DEF Vitis!Init, Times, Versions, Vitis!None
<1>5. Outcomes
    BY DEF Vitis!Init, Outcomes, Vitis!None
<1>6. Stages
    BY DEF Vitis!Init, Stages, AfterCheck
<1>2. InOrder /\ WholeApps /\ Underway
    BY DEF Vitis!Init, InOrder, WholeApps, Underway, Creating, Imported
<1>3. Hardware /\ Software /\ BootFiles
    BY DEF Vitis!Init, Hardware, Software, BootFiles, Creating, Imported, AfterHw, Ended, Vitis!StampStale, Vitis!HwStale
<1>4. Undisturbed /\ Forced
    BY DEF Vitis!Init, Undisturbed, Forced, Ended, AfterHw, AfterCheck, Creating
<1> QED
    BY <1>1, <1>2, <1>3, <1>4, <1>5, <1>6 DEF BuildInv

LEMMA CallsMake ==
    ASSUME BuildInv, NEW g \in {"ps", "boot", "run"}, NEW e \in Envs, Vitis!Make(g, e) PROVE BuildInv'
<1> USE DEF BuildInv, Vitis!Make, Vitis!sources, Vitis!outputs, Vitis!job
<1>1. Times'
    BY DEF Times
<1>2. Versions'
    BY DEF Versions
<1>3. Outcomes'
    BY DEF Outcomes, Images, Works, Vitis!None
<1>4. Stages'
    BY DEF Stages, AfterCheck, AfterHw, Creating
<1>5. InOrder'
    BY DEF InOrder
<1>6. Underway'
    BY DEF Underway, Latest, Final, Creating, Imported, PatchedBy, Vitis!Labels
<1>7. WholeApps'
    BY DEF WholeApps, Vitis!Labels
<1>8. Hardware'
    BY DEF Hardware, Vitis!HwStale, AfterHw, Creating
<1>9. Software'
    BY DEF Software, Vitis!StampStale, OfSources, Settled, Ended, Creating, Imported, AfterHw, Latest, Final
<1>10. BootFiles'
    BY DEF BootFiles, OneWorkspace, Vitis!StampStale, Ended, Final, Vitis!None
<1>11. Undisturbed'
    BY DEF Undisturbed, AfterCheck, AfterHw, Creating, Ended, Vitis!HwStale, Vitis!StampStale
<1>12. Forced'
    BY DEF Forced, Creating, Ended, Latest, Final
<1> QED
    BY <1>1, <1>2, <1>3, <1>4, <1>5, <1>6, <1>7, <1>8, <1>9, <1>10, <1>11, <1>12

LEMMA ChecksRegs ==
    ASSUME BuildInv, Vitis!RegsCheck PROVE BuildInv'
<1> USE DEF BuildInv, Vitis!RegsCheck, Vitis!Stop, Vitis!sources, Vitis!outputs, Vitis!job
<1>1. Times'
    BY DEF Times
<1>2. Versions'
    BY DEF Versions
<1>3. Outcomes'
    BY DEF Outcomes, Images, Works, Vitis!None
<1>4. Stages'
    BY DEF Stages, AfterCheck, AfterHw, Creating
<1>5. InOrder'
    BY DEF InOrder
<1>6. Underway'
    BY DEF Underway, Latest, Final, Creating, Imported, PatchedBy, Vitis!Labels
<1>7. WholeApps'
    BY DEF WholeApps, Vitis!Labels
<1>8. Hardware'
    BY DEF Hardware, Vitis!HwStale, AfterHw, Creating
<1>9. Software'
    BY DEF Software, Vitis!StampStale, OfSources, Settled, Ended, Creating, Imported, AfterHw, Latest, Final
<1>10. BootFiles'
    BY DEF BootFiles, OneWorkspace, Vitis!StampStale, Ended, Final, Vitis!None
<1>11. Undisturbed'
    BY BuildAssumption DEF Times, Versions, Outcomes, Stages, Undisturbed, AfterCheck, AfterHw, Creating, Ended, Vitis!HwStale, Vitis!StampStale
<1>12. Forced'
    BY DEF Forced, Creating, Ended, Latest, Final
<1> QED
    BY <1>1, <1>2, <1>3, <1>4, <1>5, <1>6, <1>7, <1>8, <1>9, <1>10, <1>11, <1>12

LEMMA FindsHardware ==
    ASSUME BuildInv, Vitis!HwUpToDate PROVE BuildInv'
<1> USE DEF BuildInv, Vitis!HwUpToDate, Vitis!sources, Vitis!outputs, Vitis!job
<1>1. Times'
    BY DEF Times
<1>2. Versions'
    BY DEF Versions
<1>3. Outcomes'
    BY DEF Outcomes, Images, Works, Vitis!None
<1>4. Stages'
    BY DEF Stages, AfterCheck, AfterHw, Creating
<1>5. InOrder'
    BY DEF InOrder
<1>6. Underway'
    BY DEF Underway, Latest, Final, Creating, Imported, PatchedBy, Vitis!Labels
<1>7. WholeApps'
    BY DEF WholeApps, Vitis!Labels
<1>8. Hardware'
    BY DEF Hardware, Vitis!HwStale, AfterHw, Creating
<1>9. Software'
    BY DEF Software, Vitis!StampStale, OfSources, Settled, Ended, Creating, Imported, AfterHw, Latest, Final
<1>10. BootFiles'
    BY DEF BootFiles, OneWorkspace, Vitis!StampStale, Ended, Final, Vitis!None
<1>11. Undisturbed'
    BY DEF Undisturbed, AfterCheck, AfterHw, Creating, Ended, Vitis!HwStale, Vitis!StampStale
<1>12. Forced'
    BY DEF Forced, Creating, Ended, Latest, Final
<1> QED
    BY <1>1, <1>2, <1>3, <1>4, <1>5, <1>6, <1>7, <1>8, <1>9, <1>10, <1>11, <1>12

LEMMA StartsVivado ==
    ASSUME BuildInv, Vitis!StartVivado PROVE BuildInv'
<1> USE DEF BuildInv, Vitis!StartVivado, Vitis!sources, Vitis!outputs, Vitis!job
<1>1. Times'
    BY DEF Times
<1>2. Versions'
    BY DEF Versions
<1>3. Outcomes'
    BY BuildAssumption DEF Times, Versions, Outcomes, Stages, Images, Works, Vitis!None
<1>4. Stages'
    BY DEF Stages, AfterCheck, AfterHw, Creating
<1>5. InOrder'
    BY DEF InOrder
<1>6. Underway'
    BY DEF Underway, Latest, Final, Creating, Imported, PatchedBy, Vitis!Labels
<1>7. WholeApps'
    BY DEF WholeApps, Vitis!Labels
<1>8. Hardware'
    BY BuildAssumption DEF Times, Versions, Outcomes, Stages, Hardware, Vitis!HwStale, AfterHw, Creating
<1>9. Software'
    BY DEF Software, Vitis!StampStale, OfSources, Settled, Ended, Creating, Imported, AfterHw, Latest, Final
<1>10. BootFiles'
    BY DEF BootFiles, OneWorkspace, Vitis!StampStale, Ended, Final, Vitis!None
<1>11. Undisturbed'
    BY DEF Undisturbed, AfterCheck, AfterHw, Creating, Ended, Vitis!HwStale, Vitis!StampStale
<1>12. Forced'
    BY DEF Forced, Creating, Ended, Latest, Final
<1> QED
    BY <1>1, <1>2, <1>3, <1>4, <1>5, <1>6, <1>7, <1>8, <1>9, <1>10, <1>11, <1>12

LEMMA EndsVivado ==
    ASSUME BuildInv, Vitis!EndVivado PROVE BuildInv'
<1> USE DEF BuildInv, Vitis!EndVivado, Vitis!Tick, Vitis!Now, Vitis!sources, Vitis!outputs, Vitis!job
<1>1. Times'
    <2>1. clock' = clock + 1 /\ xsa'.at = clock + 1
        BY DEF Outcomes
    <2> QED
        BY <2>1, Later DEF Times
<1>2. Versions'
    BY DEF Versions
<1>3. Outcomes'
    <2>1. clock + 1 \in Nat
        BY DEF Times
    <2>2. xsa' \in [rtl : Nat, pkg : Nat, at : Nat, bit : BOOLEAN]
        BY <2>1 DEF Outcomes
    <2> QED
        BY <2>2 DEF Outcomes
<1>4. Stages'
    BY DEF Stages, AfterCheck, AfterHw, Creating
<1>5. InOrder'
    BY DEF InOrder
<1>6. Underway'
    BY DEF Underway, Latest, Final, Creating, Imported, PatchedBy, Vitis!Labels
<1>7. WholeApps'
    BY DEF WholeApps, Vitis!Labels
<1>8. Hardware'
    BY DEF Hardware, Vitis!HwStale, AfterHw, Creating
<1>9. Software'
    <2>1. clock' = clock + 1 /\ xsa'.at = clock + 1
        BY DEF Outcomes
    <2>2. Vitis!StampStale'
        BY <2>1 DEF Vitis!StampStale, Times
    <2> QED
        BY <2>2 DEF Software, Creating, Imported, Ended
<1>10. BootFiles'
    BY DEF Times, Outcomes, BootFiles, OneWorkspace, Vitis!StampStale, Ended, Final, Vitis!None
<1>11. Undisturbed'
    BY BuildAssumption DEF Times, Versions, Outcomes, Stages, Undisturbed, AfterCheck, AfterHw, Creating, Ended, Vitis!HwStale, Vitis!StampStale
<1>12. Forced'
    BY DEF Forced, Creating, Ended, Latest, Final
<1> QED
    BY <1>1, <1>2, <1>3, <1>4, <1>5, <1>6, <1>7, <1>8, <1>9, <1>10, <1>11, <1>12

LEMMA FindsSoftware ==
    ASSUME BuildInv, Vitis!PsUpToDate PROVE BuildInv'
<1> USE DEF BuildInv, Vitis!PsUpToDate, Vitis!sources, Vitis!outputs, Vitis!job
<1>1. Times'
    BY DEF Times
<1>2. Versions'
    BY DEF Versions
<1>3. Outcomes'
    BY DEF Outcomes, Images, Works, Vitis!None
<1>4. Stages'
    BY DEF Stages, AfterCheck, AfterHw, Creating
<1>5. InOrder'
    BY DEF InOrder
<1>6. Underway'
    BY DEF Underway, Latest, Final, Creating, Imported, PatchedBy, Vitis!Labels
<1>7. WholeApps'
    BY DEF WholeApps, Vitis!Labels
<1>8. Hardware'
    BY DEF Hardware, Vitis!HwStale, AfterHw, Creating
<1>9. Software'
    <2>1. UNCHANGED <<Vitis!StampStale, Latest, Settled, OfSources>>
        BY DEF Vitis!StampStale, Latest, Final, Settled, OfSources
    <2>2. stamp # 0 /\ xsa.bit
        BY DEF Vitis!StampStale, Hardware, AfterHw
    <2> QED
        BY <2>1, <2>2 DEF Software, Creating, Imported, Ended
<1>10. BootFiles'
    BY DEF BootFiles, OneWorkspace, Vitis!StampStale, Ended, Final, Vitis!None
<1>11. Undisturbed'
    BY DEF Undisturbed, AfterCheck, AfterHw, Creating, Ended, Vitis!HwStale, Vitis!StampStale
<1>12. Forced'
    <2>1. ~forced
        BY DEF Vitis!StampStale, Forced, Stages
    <2> QED
        BY <2>1 DEF Forced
<1> QED
    BY <1>1, <1>2, <1>3, <1>4, <1>5, <1>6, <1>7, <1>8, <1>9, <1>10, <1>11, <1>12

LEMMA Fails ==
    ASSUME BuildInv, Vitis!Fail PROVE BuildInv'
<1> USE DEF BuildInv, Vitis!Fail, Vitis!Stop, Vitis!sources, Vitis!outputs, Vitis!job
<1>1. Times'
    BY DEF Times
<1>2. Versions'
    BY DEF Versions
<1>3. Outcomes'
    BY DEF Outcomes, Images, Works, Vitis!None
<1>4. Stages'
    BY DEF Stages, AfterCheck, AfterHw, Creating
<1>5. InOrder'
    BY DEF InOrder
<1>6. Underway'
    BY DEF Underway, Latest, Final, Creating, Imported, PatchedBy, Vitis!Labels
<1>7. WholeApps'
    BY DEF WholeApps, Vitis!Labels
<1>8. Hardware'
    BY DEF Hardware, Vitis!HwStale, AfterHw, Creating
<1>9. Software'
    BY DEF Software, Vitis!StampStale, OfSources, Settled, Ended, Creating, Imported, AfterHw, Latest, Final
<1>10. BootFiles'
    BY DEF BootFiles, OneWorkspace, Vitis!StampStale, Ended, Final, Vitis!None
<1>11. Undisturbed'
    BY DEF Undisturbed, AfterCheck, AfterHw, Creating, Ended, Vitis!HwStale, Vitis!StampStale
<1>12. Forced'
    BY DEF Forced, Creating, Ended, Latest, Final
<1> QED
    BY <1>1, <1>2, <1>3, <1>4, <1>5, <1>6, <1>7, <1>8, <1>9, <1>10, <1>11, <1>12

LEMMA EndsPs ==
    ASSUME BuildInv, Vitis!EndPs PROVE BuildInv'
<1> USE DEF BuildInv, Vitis!EndPs, Vitis!Stop, Vitis!sources, Vitis!outputs, Vitis!job
<1>1. Times'
    BY DEF Times
<1>2. Versions'
    BY DEF Versions
<1>3. Outcomes'
    BY DEF Outcomes, Images, Works, Vitis!None
<1>4. Stages'
    BY DEF Stages, AfterCheck, AfterHw, Creating
<1>5. InOrder'
    BY DEF InOrder
<1>6. Underway'
    BY DEF Underway, Latest, Final, Creating, Imported, PatchedBy, Vitis!Labels
<1>7. WholeApps'
    BY DEF WholeApps, Vitis!Labels
<1>8. Hardware'
    BY DEF Hardware, Vitis!HwStale, AfterHw, Creating
<1>9. Software'
    BY DEF Software, Vitis!StampStale, OfSources, Settled, Ended, Creating, Imported, AfterHw, Latest, Final
<1>10. BootFiles'
    BY DEF BootFiles, OneWorkspace, Vitis!StampStale, Ended, Final, Vitis!None
<1>11. Undisturbed'
    BY DEF Undisturbed, AfterCheck, AfterHw, Creating, Ended, Vitis!HwStale, Vitis!StampStale
<1>12. Forced'
    BY DEF Forced, Creating, Ended, Latest, Final
<1> QED
    BY <1>1, <1>2, <1>3, <1>4, <1>5, <1>6, <1>7, <1>8, <1>9, <1>10, <1>11, <1>12

LEMMA Touches ==
    ASSUME BuildInv, Vitis!Touch PROVE BuildInv'
<1> USE DEF BuildInv, Vitis!Touch, Vitis!Stop, Vitis!Tick, Vitis!Now, Vitis!Last, Vitis!sources, Vitis!outputs, Vitis!job
<1>1. Times'
    <2>1. CASE Latest.fsblAt # 0 /\ Latest.appAt # 0
        <3>1. clock' = clock + 1 /\ stamp' = clock + 1
            BY <2>1 DEF Latest, Final
        <3> QED
            BY <3>1, Later DEF Times
    <2>2. CASE ~(Latest.fsblAt # 0 /\ Latest.appAt # 0)
        <3>1. UNCHANGED <<clock, stamp>>
            BY <2>2 DEF Latest, Final
        <3> QED
            BY <3>1 DEF Times
    <2> QED
        BY <2>1, <2>2
<1>2. Versions'
    BY DEF Versions
<1>3. Outcomes'
    BY DEF Outcomes, Images, Works, Vitis!None
<1>4. Stages'
    BY DEF Stages, AfterCheck, AfterHw, Creating
<1>5. InOrder'
    BY DEF InOrder
<1>6. Underway'
    BY DEF Underway, Latest, Final, Creating, Imported, PatchedBy, Vitis!Labels
<1>7. WholeApps'
    BY DEF WholeApps, Vitis!Labels
<1>8. Hardware'
    BY DEF Hardware, Vitis!HwStale, AfterHw, Creating
<1>9. Software'
    <2>1. CASE Latest.fsblAt # 0 /\ Latest.appAt # 0
        <3>1. stamp' = clock + 1 /\ at' = "goal"
            BY <2>1 DEF Latest, Final
        <3>2. works # <<>> /\ Latest.rtl = xsa.rtl /\ Latest.pkg = xsa.pkg
            BY DEF Underway, Creating
        <3>3. "ps" \notin fooled => OfSources
            BY DEF Software, Imported
        <3>4. UNCHANGED <<Latest, OfSources>>
            BY DEF Latest, Final, OfSources
        <3>5. Settled'
            BY <2>1, <3>2, <3>4 DEF Settled
        <3> QED
            BY <3>1, <3>2, <3>3, <3>4, <3>5 DEF Software, Creating, Imported, Ended, Times
    <2>2. CASE ~(Latest.fsblAt # 0 /\ Latest.appAt # 0)
        <3>1. UNCHANGED stamp /\ at' = "idle" /\ result' = "failed"
            BY <2>2 DEF Latest, Final
        <3>2. Vitis!StampStale /\ UNCHANGED Vitis!StampStale
            BY <3>1 DEF Software, Creating, Vitis!StampStale
        <3> QED
            BY <3>1, <3>2 DEF Software, Creating, Imported, Ended
    <2> QED
        BY <2>1, <2>2
<1>10. BootFiles'
    <2>1. CASE Latest.fsblAt # 0 /\ Latest.appAt # 0
        <3>1. stamp' = clock + 1 /\ at' = "goal"
            BY <2>1 DEF Latest, Final
        <3>2. ~(stamp' <= boot.at)
            BY <3>1, Numbers DEF Times
        <3> QED
            BY <3>1, <3>2 DEF BootFiles, OneWorkspace, Ended
    <2>2. CASE ~(Latest.fsblAt # 0 /\ Latest.appAt # 0)
        <3>1. UNCHANGED stamp /\ at' = "idle" /\ result' = "failed"
            BY <2>2 DEF Latest, Final
        <3>2. UNCHANGED <<Vitis!StampStale, Final>>
            BY <3>1 DEF Vitis!StampStale, Final
        <3> QED
            BY <3>1, <3>2 DEF BootFiles, OneWorkspace, Ended
    <2> QED
        BY <2>1, <2>2
<1>11. Undisturbed'
    BY BuildAssumption DEF Times, Versions, Outcomes, Stages, Undisturbed, AfterCheck, AfterHw, Creating, Ended, Vitis!HwStale, Vitis!StampStale
<1>12. Forced'
    BY DEF Forced, Creating, Ended, Latest, Final
<1> QED
    BY <1>1, <1>2, <1>3, <1>4, <1>5, <1>6, <1>7, <1>8, <1>9, <1>10, <1>11, <1>12

LEMMA EndsBoot ==
    ASSUME BuildInv, Vitis!EndBoot PROVE BuildInv'
<1> USE DEF BuildInv, Vitis!EndBoot, Vitis!Stop, Vitis!Tick, Vitis!Now, Vitis!Image, Vitis!BootStale, Vitis!sources, Vitis!outputs, Vitis!job
<1>1. Times'
    <2>1. CASE Vitis!BootStale
        <3>1. clock' = clock + 1 /\ boot'.at = clock + 1
            BY <2>1
        <3> QED
            BY <3>1, Later DEF Times
    <2>2. CASE ~Vitis!BootStale
        <3>1. UNCHANGED <<clock, boot>>
            BY <2>2
        <3> QED
            BY <3>1 DEF Times
    <2> QED
        BY <2>1, <2>2
<1>2. Versions'
    BY DEF Versions
<1>3. Outcomes'
    <2>1. Vitis!Newest("appAt") = Final /\ Vitis!Newest("fsblAt") = Final
        BY NewestIsLatest DEF BuildTypes, Software
    <2>2. Final \in Nat /\ clock + 1 \in Nat /\ xsa.rtl \in Nat /\ xsa.pkg \in Nat
        BY Numbers DEF Times, Outcomes
    <2>3. boot' = boot \/ boot' \in Images
        BY <2>1, <2>2 DEF Images
    <2> QED
        BY <2>3 DEF Outcomes
<1>4. Stages'
    BY DEF Stages, AfterCheck, AfterHw, Creating
<1>5. InOrder'
    BY DEF InOrder
<1>6. Underway'
    BY DEF Underway, Latest, Final, Creating, Imported, PatchedBy, Vitis!Labels
<1>7. WholeApps'
    BY DEF WholeApps, Vitis!Labels
<1>8. Hardware'
    BY DEF Hardware, Vitis!HwStale, AfterHw, Creating
<1>9. Software'
    BY DEF Software, Vitis!StampStale, OfSources, Settled, Ended, Creating, Imported, AfterHw, Latest, Final
<1>10. BootFiles'
    <2>1. Vitis!Newest("appAt") = Final /\ Vitis!Newest("fsblAt") = Final
        BY NewestIsLatest DEF BuildTypes, Software
    <2>2. Final \in DOMAIN works
        BY Numbers DEF Software, Settled, Outcomes, Final
    <2>3. Latest.rtl = xsa.rtl /\ Latest.pkg = xsa.pkg
        BY DEF Software
    <2>4. CASE Vitis!BootStale
        <3>1. /\ boot'.app = Final /\ boot'.fsbl = Final
              /\ boot'.rtl = xsa.rtl /\ boot'.pkg = xsa.pkg
            BY <2>1, <2>4
        <3>2. OneWorkspace(boot)'
            BY <3>1, <2>2, <2>3 DEF OneWorkspace, Latest
        <3> QED
            BY <3>1, <3>2 DEF BootFiles, OneWorkspace, Ended, Final
    <2>5. CASE ~Vitis!BootStale
        <3>1. boot.app = Final
            BY <2>5, Numbers DEF BootFiles, Vitis!BootStale, Times
        <3> QED
            BY <2>5, <3>1 DEF BootFiles, OneWorkspace, Ended, Final
    <2> QED
        BY <2>4, <2>5
<1>11. Undisturbed'
    BY DEF Undisturbed, AfterCheck, AfterHw, Creating, Ended, Vitis!HwStale, Vitis!StampStale
<1>12. Forced'
    BY DEF Forced, Creating, Ended, Latest, Final
<1> QED
    BY <1>1, <1>2, <1>3, <1>4, <1>5, <1>6, <1>7, <1>8, <1>9, <1>10, <1>11, <1>12

LEMMA EndsRun ==
    ASSUME BuildInv, Vitis!EndRun PROVE BuildInv'
<1> USE DEF BuildInv, Vitis!EndRun, Vitis!Stop, Vitis!Tick, Vitis!Now, Vitis!Image, Vitis!sources, Vitis!outputs, Vitis!job
<1>1. Times'
    <2>1. clock' = clock + 1
        OBVIOUS
    <2> QED
        BY <2>1, Later DEF Times
<1>2. Versions'
    BY DEF Versions
<1>3. Outcomes'
    <2>1. Vitis!Newest("appAt") = Final /\ Vitis!Newest("fsblAt") = Final
        BY NewestIsLatest DEF BuildTypes, Software
    <2>2. Final \in Nat /\ clock + 1 \in Nat /\ xsa.rtl \in Nat /\ xsa.pkg \in Nat
        BY Numbers DEF Times, Outcomes
    <2>3. loaded' \in Images
        BY <2>1, <2>2 DEF Images
    <2> QED
        BY <2>3 DEF Outcomes
<1>4. Stages'
    BY DEF Stages, AfterCheck, AfterHw, Creating
<1>5. InOrder'
    BY DEF InOrder
<1>6. Underway'
    BY DEF Underway, Latest, Final, Creating, Imported, PatchedBy, Vitis!Labels
<1>7. WholeApps'
    BY DEF WholeApps, Vitis!Labels
<1>8. Hardware'
    BY DEF Hardware, Vitis!HwStale, AfterHw, Creating
<1>9. Software'
    BY DEF Software, Vitis!StampStale, OfSources, Settled, Ended, Creating, Imported, AfterHw, Latest, Final
<1>10. BootFiles'
    <2>1. Vitis!Newest("appAt") = Final /\ Vitis!Newest("fsblAt") = Final
        BY NewestIsLatest DEF BuildTypes, Software
    <2>2. Final \in DOMAIN works
        BY Numbers DEF Software, Settled, Outcomes, Final
    <2>3. Latest.rtl = xsa.rtl /\ Latest.pkg = xsa.pkg
        BY DEF Software
    <2>4. /\ loaded'.app = Final /\ loaded'.fsbl = Final
          /\ loaded'.rtl = xsa.rtl /\ loaded'.pkg = xsa.pkg
        BY <2>1
    <2>5. OneWorkspace(loaded)'
        BY <2>2, <2>3, <2>4 DEF OneWorkspace, Latest
    <2>6. UNCHANGED <<Final, Vitis!StampStale>>
        BY DEF Final, Vitis!StampStale
    <2> QED
        BY <2>4, <2>5, <2>6 DEF BootFiles, OneWorkspace, Ended
<1>11. Undisturbed'
    BY DEF Undisturbed, AfterCheck, AfterHw, Creating, Ended, Vitis!HwStale, Vitis!StampStale
<1>12. Forced'
    BY DEF Forced, Creating, Ended, Latest, Final
<1> QED
    BY <1>1, <1>2, <1>3, <1>4, <1>5, <1>6, <1>7, <1>8, <1>9, <1>10, <1>11, <1>12

LEMMA DropsStamp ==
    ASSUME BuildInv, Vitis!DropStamp PROVE BuildInv'
<1> USE DEF BuildInv, Vitis!DropStamp, Vitis!sources, Vitis!outputs, Vitis!job
<1>1. Times'
    BY DEF Times
<1>2. Versions'
    BY DEF Versions
<1>3. Outcomes'
    BY DEF Outcomes, Images, Works, Vitis!None
<1>4. Stages'
    BY DEF Stages, AfterCheck, AfterHw, Creating
<1>5. InOrder'
    BY DEF InOrder
<1>6. Underway'
    BY DEF Underway, Latest, Final, Creating, Imported, PatchedBy, Vitis!Labels
<1>7. WholeApps'
    BY DEF WholeApps, Vitis!Labels
<1>8. Hardware'
    BY DEF Hardware, Vitis!HwStale, AfterHw, Creating
<1>9. Software'
    BY DEF Software, Vitis!StampStale, OfSources, Settled, Ended, Creating, Imported, AfterHw, Latest, Final
<1>10. BootFiles'
    BY DEF BootFiles, OneWorkspace, Vitis!StampStale, Ended, Final, Vitis!None
<1>11. Undisturbed'
    BY DEF Undisturbed, AfterCheck, AfterHw, Creating, Ended, Vitis!HwStale, Vitis!StampStale
<1>12. Forced'
    BY DEF Forced, Creating, Ended, Latest, Final
<1> QED
    BY <1>1, <1>2, <1>3, <1>4, <1>5, <1>6, <1>7, <1>8, <1>9, <1>10, <1>11, <1>12

LEMMA EditsSource ==
    ASSUME BuildInv, NEW k \in {"app", "rtl"}, Vitis!EditSource(k) PROVE BuildInv'
<1> USE DEF BuildInv, Vitis!EditSource, Vitis!Edited, Vitis!Tick, Vitis!Now, Vitis!sources, Vitis!outputs, Vitis!job
<1>1. Times'
    <2>1. clock' = clock + 1 /\ \A j \in {"app", "rtl"} : src'[j].at = src[j].at \/ src'[j].at = clock + 1
        BY DEF Versions
    <2> QED
        BY <2>1, Later DEF Times
<1>2. Versions'
    <2>1. src' \in [{"app", "rtl"} -> [ver : Nat, at : Nat]]
        BY Numbers DEF Versions, Times
    <2>2. \A j \in {"app", "rtl"} : src'[j].ver = src[j].ver \/ src'[j].ver = src[j].ver + 1
        BY DEF Versions
    <2> QED
        <3>1. changes \in Nat /\ changes' = changes + 1 /\ changes' <= MaxBuildEdits
            BY BuildAssumption DEF Versions
        <3>2. \A j \in {"app", "rtl"} : src'[j].ver <= changes'
            BY <2>2, <3>1, Numbers DEF Versions
        <3> QED
            BY <2>1, <3>1, <3>2 DEF Versions
<1>3. Outcomes'
    BY DEF Outcomes, Images, Works, Vitis!None
<1>4. Stages'
    BY DEF Stages, AfterCheck, AfterHw, Creating
<1>5. InOrder'
    BY DEF InOrder
<1>6. Underway'
    BY DEF Underway, Latest, Final, Creating, Imported, PatchedBy, Vitis!Labels
<1>7. WholeApps'
    BY DEF WholeApps, Vitis!Labels
<1>8. Hardware'
    BY DEF Times, Outcomes, Hardware, Vitis!HwStale, AfterHw, Creating
<1>9. Software'
    BY DEF Times, Outcomes, Software, Vitis!StampStale, OfSources, Settled, Ended, Creating, Imported, AfterHw, Latest, Final
<1>10. BootFiles'
    BY DEF Times, Outcomes, BootFiles, OneWorkspace, Vitis!StampStale, Ended, Final, Vitis!None
<1>11. Undisturbed'
    BY DEF Undisturbed, AfterCheck, AfterHw, Creating, Ended, Vitis!HwStale, Vitis!StampStale
<1>12. Forced'
    BY DEF Forced, Creating, Ended, Latest, Final
<1> QED
    BY <1>1, <1>2, <1>3, <1>4, <1>5, <1>6, <1>7, <1>8, <1>9, <1>10, <1>11, <1>12

LEMMA Merges ==
    ASSUME BuildInv, Vitis!Merge PROVE BuildInv'
<1> USE DEF BuildInv, Vitis!Merge, Vitis!Edited, Vitis!Tick, Vitis!Now, Vitis!sources, Vitis!outputs, Vitis!job
<1>1. Times'
    <2>1. clock' = clock + 1 /\ pkgAt' = clock + 1
        OBVIOUS
    <2> QED
        BY <2>1, Later DEF Times
<1>2. Versions'
    BY BuildAssumption DEF Times, Versions, Outcomes, Stages
<1>3. Outcomes'
    BY DEF Outcomes, Images, Works, Vitis!None
<1>4. Stages'
    BY DEF Stages, AfterCheck, AfterHw, Creating
<1>5. InOrder'
    BY DEF InOrder
<1>6. Underway'
    BY DEF Underway, Latest, Final, Creating, Imported, PatchedBy, Vitis!Labels
<1>7. WholeApps'
    BY DEF WholeApps, Vitis!Labels
<1>8. Hardware'
    BY DEF Times, Outcomes, Hardware, Vitis!HwStale, AfterHw, Creating
<1>9. Software'
    BY DEF Times, Outcomes, Software, Vitis!StampStale, OfSources, Settled, Ended, Creating, Imported, AfterHw, Latest, Final
<1>10. BootFiles'
    BY DEF BootFiles, OneWorkspace, Vitis!StampStale, Ended, Final, Vitis!None
<1>11. Undisturbed'
    BY DEF Undisturbed, AfterCheck, AfterHw, Creating, Ended, Vitis!HwStale, Vitis!StampStale
<1>12. Forced'
    BY DEF Forced, Creating, Ended, Latest, Final
<1> QED
    BY <1>1, <1>2, <1>3, <1>4, <1>5, <1>6, <1>7, <1>8, <1>9, <1>10, <1>11, <1>12

LEMMA Meddles ==
    ASSUME BuildInv, NEW k \in {"header", "py"}, Vitis!MeddleWith(k) PROVE BuildInv'
<1> USE DEF BuildInv, Vitis!MeddleWith, Vitis!Edited, Vitis!Tick, Vitis!Now, Vitis!sources, Vitis!outputs, Vitis!job
<1>1. Times'
    <2>1. clock' = clock + 1
        OBVIOUS
    <2> QED
        BY <2>1, Later DEF Times
<1>2. Versions'
    BY BuildAssumption DEF Times, Versions, Outcomes, Stages
<1>3. Outcomes'
    BY DEF Outcomes, Images, Works, Vitis!None
<1>4. Stages'
    BY DEF Stages, AfterCheck, AfterHw, Creating
<1>5. InOrder'
    BY DEF InOrder
<1>6. Underway'
    BY DEF Underway, Latest, Final, Creating, Imported, PatchedBy, Vitis!Labels
<1>7. WholeApps'
    BY DEF WholeApps, Vitis!Labels
<1>8. Hardware'
    BY DEF Hardware, Vitis!HwStale, AfterHw, Creating
<1>9. Software'
    BY DEF Software, Vitis!StampStale, OfSources, Settled, Ended, Creating, Imported, AfterHw, Latest, Final
<1>10. BootFiles'
    BY DEF BootFiles, OneWorkspace, Vitis!StampStale, Ended, Final, Vitis!None
<1>11. Undisturbed'
    BY DEF Undisturbed, AfterCheck, AfterHw, Creating, Ended, Vitis!HwStale, Vitis!StampStale
<1>12. Forced'
    BY DEF Forced, Creating, Ended, Latest, Final
<1> QED
    BY <1>1, <1>2, <1>3, <1>4, <1>5, <1>6, <1>7, <1>8, <1>9, <1>10, <1>11, <1>12

LEMMA MakesWorkspace ==
    ASSUME BuildInv, Vitis!NewWorkspace PROVE BuildInv'
<1> USE DEF BuildInv, Vitis!NewWorkspace, Vitis!Settings, Vitis!sources, Vitis!outputs, Vitis!job
<1>1. Times'
    <2> DEFINE new == [settings |-> Vitis!Settings, rtl |-> xsa.rtl, pkg |-> xsa.pkg, app |-> -1, header |-> -1,
                       patched |-> {}, fsblAt |-> 0, appAt |-> 0]
    <2>1. works' = Append(works, new)
        OBVIOUS
    <2> HIDE DEF new
    <2>2. /\ DOMAIN works' = 1 .. Final + 1 /\ works'[Final + 1] = new
          /\ \A w \in 1 .. Final : works'[w] = works[w]
        BY <2>1, Numbers DEF Outcomes, Final
    <2>3. new.fsblAt = 0 /\ new.appAt = 0
        BY DEF new
    <2>4. \A w \in DOMAIN works' : works'[w].fsblAt <= clock /\ works'[w].appAt <= clock
        BY <2>2, <2>3, Numbers DEF Times
    <2> QED
        BY <2>4 DEF Times
<1>2. Versions'
    BY DEF Versions
<1>3. Outcomes'
    BY BuildAssumption DEF Times, Versions, Outcomes, Stages, Images, Works, Vitis!None
<1>4. Stages'
    BY DEF Stages, AfterCheck, AfterHw, Creating
<1>5. InOrder'
    <2> DEFINE new == [settings |-> Vitis!Settings, rtl |-> xsa.rtl, pkg |-> xsa.pkg, app |-> -1, header |-> -1,
                       patched |-> {}, fsblAt |-> 0, appAt |-> 0]
    <2>1. works' = Append(works, new)
        OBVIOUS
    <2> HIDE DEF new
    <2>2. /\ DOMAIN works' = 1 .. Final + 1 /\ works'[Final + 1] = new
          /\ \A w \in 1 .. Final : works'[w] = works[w]
        BY <2>1, Numbers DEF Outcomes, Final
    <2>3. new.fsblAt = 0 /\ new.appAt = 0
        BY DEF new
    <2> QED
        BY <2>2, <2>3, Numbers DEF InOrder
<1>6. Underway'
    <2> DEFINE new == [settings |-> Vitis!Settings, rtl |-> xsa.rtl, pkg |-> xsa.pkg, app |-> -1, header |-> -1,
                       patched |-> {}, fsblAt |-> 0, appAt |-> 0]
    <2>1. works' = Append(works, new)
        OBVIOUS
    <2> HIDE DEF new
    <2>2. /\ DOMAIN works' = 1 .. Final + 1 /\ works'[Final + 1] = new
          /\ \A w \in 1 .. Final : works'[w] = works[w]
        BY <2>1, Numbers DEF Outcomes, Final
    <2>3. Len(works') = Final + 1 /\ works' # <<>> /\ Latest' = new
        BY <2>1, <2>2, Numbers DEF Outcomes, Final, Latest
    <2>4. PatchedBy("fsbl") = {}
        BY DEF PatchedBy, Vitis!Labels
    <2> QED
        BY <2>3, <2>4 DEF new, Underway, Imported
<1>7. WholeApps'
    <2> DEFINE new == [settings |-> Vitis!Settings, rtl |-> xsa.rtl, pkg |-> xsa.pkg, app |-> -1, header |-> -1,
                       patched |-> {}, fsblAt |-> 0, appAt |-> 0]
    <2>1. works' = Append(works, new)
        OBVIOUS
    <2> HIDE DEF new
    <2>2. /\ DOMAIN works' = 1 .. Final + 1 /\ works'[Final + 1] = new
          /\ \A w \in 1 .. Final : works'[w] = works[w]
        BY <2>1, Numbers DEF Outcomes, Final
    <2>3. new.appAt = 0
        BY DEF new
    <2> QED
        BY <2>2, <2>3, Numbers DEF WholeApps
<1>8. Hardware'
    BY DEF Hardware, Vitis!HwStale, AfterHw, Creating
<1>9. Software'
    BY DEF Software, Vitis!StampStale, OfSources, Settled, Ended, Creating, Imported, AfterHw, Latest, Final
<1>10. BootFiles'
    <2> DEFINE new == [settings |-> Vitis!Settings, rtl |-> xsa.rtl, pkg |-> xsa.pkg, app |-> -1, header |-> -1,
                       patched |-> {}, fsblAt |-> 0, appAt |-> 0]
    <2>1. works' = Append(works, new)
        OBVIOUS
    <2> HIDE DEF new
    <2>2. /\ DOMAIN works' = 1 .. Final + 1 /\ works'[Final + 1] = new
          /\ \A w \in 1 .. Final : works'[w] = works[w]
        BY <2>1, Numbers DEF Outcomes, Final
    <2>3. \A image : OneWorkspace(image) => OneWorkspace(image)'
        BY <2>2, Numbers DEF OneWorkspace
    <2>4. Vitis!StampStale'
        BY DEF Vitis!StampStale
    <2> QED
        BY <2>3, <2>4 DEF BootFiles, Ended
<1>11. Undisturbed'
    BY DEF Undisturbed, AfterCheck, AfterHw, Creating, Ended, Vitis!HwStale, Vitis!StampStale
<1>12. Forced'
    <2> DEFINE new == [settings |-> Vitis!Settings, rtl |-> xsa.rtl, pkg |-> xsa.pkg, app |-> -1, header |-> -1,
                       patched |-> {}, fsblAt |-> 0, appAt |-> 0]
    <2>1. works' = Append(works, new)
        OBVIOUS
    <2> HIDE DEF new
    <2>2. /\ DOMAIN works' = 1 .. Final + 1 /\ works'[Final + 1] = new
          /\ \A w \in 1 .. Final : works'[w] = works[w]
        BY <2>1, Numbers DEF Outcomes, Final
    <2>3. Latest' = new
        BY <2>1, <2>2, Numbers DEF Outcomes, Final, Latest
    <2>4. /\ new.settings.from = env
          /\ env = "defaults" => new.settings.py = derived["py"]
        BY DEF new
    <2>5. undisturbed => derived["py"] = version
        BY DEF Undisturbed, AfterCheck, AfterHw
    <2> QED
        BY <2>3, <2>4, <2>5 DEF Forced, Creating, Ended
<1> QED
    BY <1>1, <1>2, <1>3, <1>4, <1>5, <1>6, <1>7, <1>8, <1>9, <1>10, <1>11, <1>12

\* Where the script, or make, stops with an error, what is there stays.
LEMMA StopsHere ==
    ASSUME BuildInv, at \notin {"idle", "check", "hw"}, at' = "idle", result' = "failed",
           UNCHANGED <<clock, Vitis!sources, xsa, works, stamp, boot, loaded, Vitis!job, undisturbed, fooled>>
    PROVE  BuildInv'
<1> USE DEF BuildInv, Vitis!sources, Vitis!job
<1>1. UNCHANGED <<Latest, Final, OfSources, Settled, Vitis!StampStale, Vitis!HwStale>> /\ ~Ended'
    BY DEF Latest, Final, OfSources, Settled, Ended, Vitis!StampStale, Vitis!HwStale
<1>2. Times' /\ Versions' /\ Outcomes' /\ Stages'
    BY DEF Times, Versions, Outcomes, Stages
<1>3. InOrder' /\ Underway' /\ WholeApps'
    BY DEF InOrder, Underway, WholeApps, Creating, Imported
<1>4. Hardware' /\ Software' /\ Undisturbed' /\ Forced'
    BY <1>1 DEF Hardware, Software, Undisturbed, Forced, AfterHw, AfterCheck, Creating, Imported
<1>5. BootFiles'
    BY <1>1 DEF BootFiles, OneWorkspace
<1> QED
    BY <1>2, <1>3, <1>4, <1>5

\* Whatever the script writes to the newest workspace while it is not done,
\* the hardware, the boot files and the other workspaces stay as they are.
LEMMA Writes ==
    ASSUME BuildInv, at \in Creating, at' \in Creating, NEW f \in Works, Vitis!InWork(f),
           f.rtl = Latest.rtl, f.pkg = Latest.pkg, f.settings = Latest.settings,
           UNCHANGED <<Vitis!sources, xsa, stamp, boot, loaded, Vitis!job, undisturbed>>,
           "hw" \in fooled' <=> "hw" \in fooled
    PROVE  /\ Hardware' /\ BootFiles' /\ Undisturbed' /\ Forced'
           /\ works' \in Seq(Works) /\ works' # <<>> /\ Latest' = f
           /\ Vitis!StampStale'
<1> USE DEF BuildInv, Vitis!sources, Vitis!job
<1>1. /\ works' \in Seq(Works) /\ works' # <<>> /\ Final' = Final /\ Latest' = f
      /\ DOMAIN works' = DOMAIN works
      /\ \A w \in DOMAIN works : w # Final => works'[w] = works[w]
    BY InNewest DEF Outcomes, Underway
<1>2. Vitis!StampStale'
    BY DEF Software, Vitis!StampStale
<1>3. Hardware'
    BY DEF Hardware, Vitis!HwStale, Creating, AfterHw
<1>4. BootFiles'
    <2>1. \A w \in DOMAIN works : works'[w].rtl = works[w].rtl /\ works'[w].pkg = works[w].pkg
        BY <1>1 DEF Latest
    <2>2. \A image : OneWorkspace(image) => OneWorkspace(image)'
        BY <1>1, <2>1 DEF OneWorkspace
    <2> QED
        BY <1>2, <2>2 DEF BootFiles, Creating, Ended
<1>5. Undisturbed'
    BY DEF Undisturbed, Vitis!HwStale, Creating, AfterHw, AfterCheck, Ended
<1>6. Forced'
    BY <1>1 DEF Forced, Creating, Ended
<1> QED
    BY <1>1, <1>2, <1>3, <1>4, <1>5, <1>6

\* What can be replaced is replaced.
LEMMA Patched ==
    ASSUME NEW label \in Vitis!Labels, NEW c \in Vitis!Counts, Vitis!Replaceable(label, c)
    PROVE  Vitis!Wanted(Vitis!Replaced(c))
<1>1. c.old \in 0 .. 2 /\ c.new \in 0 .. 1
    BY DEF Vitis!Counts
<1>2. CASE c.old = 1
    <2>1. Vitis!Replaced(c) = [old |-> 0, new |-> c.new + 1]
        BY <1>2 DEF Vitis!Replaced
    <2> QED
        BY <1>1, <2>1 DEF Vitis!Wanted
<1>3. CASE c.old # 1
    BY <1>3 DEF Vitis!Replaceable, Vitis!Replaced, Vitis!Wanted
<1> QED
    BY <1>2, <1>3

LEMMA NewestThere ==
    ASSUME BuildInv, at \in Creating
    PROVE  Latest \in Works /\ Final \in DOMAIN works /\ works # <<>>
<1>1. works # <<>>
    BY DEF BuildInv, Underway
<1>2. Final \in Nat /\ DOMAIN works = 1 .. Final /\ \A w \in DOMAIN works : works[w] \in Works
    BY Numbers DEF BuildInv
<1>3. Final # 0
    BY <1>1, EmptySeq DEF BuildInv, Outcomes, Final
<1>4. Final \in DOMAIN works
    BY <1>2, <1>3
<1> QED
    BY <1>1, <1>2, <1>4 DEF Latest

LEMMA Patches ==
    ASSUME BuildInv, NEW here, NEW label, NEW next, Vitis!Patch(here, label, next),
           \/ here = "fsbl" /\ label = "FSBL warning suppression" /\ next = "platform"
           \/ here = "optimize" /\ label = "app optimization level" /\ next = "debug"
           \/ here = "debug" /\ label = "app debug level" /\ next = "link"
           \/ here = "link" /\ label = "app lwIP link dependency" /\ next = "build"
    PROVE  BuildInv'
<1> USE DEF BuildInv, Vitis!sources, Vitis!job
<1>1. PICK c \in Vitis!Counts :
        IF Vitis!Replaceable(label, c)
        THEN /\ Vitis!InWork([works[Vitis!Last] EXCEPT !.patched =
                  @ \cup {l \in {label} : Vitis!Wanted(Vitis!Replaced(c))}])
             /\ at' = next /\ UNCHANGED result
        ELSE Vitis!Stop("failed") /\ UNCHANGED works
    BY DEF Vitis!Patch
<1>2. /\ at = here /\ UNCHANGED <<clock, Vitis!sources, xsa, stamp, boot, loaded, Vitis!job, undisturbed, fooled>>
    BY DEF Vitis!Patch
<1>3. /\ here \in Creating /\ next \in Creating /\ label \in Vitis!Labels
      /\ PatchedBy(next) = PatchedBy(here) \cup {label}
      /\ next \in Imported => here \in Imported
      /\ next \in {"fsbl", "platform"} => here \in {"fsbl", "platform"}
      /\ here # "touch"
    BY DEF Creating, Vitis!Labels, PatchedBy, Imported
<1>4. CASE Vitis!Replaceable(label, c)
    <2> DEFINE f == [Latest EXCEPT !.patched = @ \cup {label}]
    <2>1. Latest \in Works /\ Final \in DOMAIN works /\ works # <<>>
        BY <1>2, <1>3, NewestThere
    <2>2. Vitis!InWork(f) /\ at' = next /\ UNCHANGED result
        <3>1. {l \in {label} : Vitis!Wanted(Vitis!Replaced(c))} = {label}
            BY <1>3, <1>4, Patched
        <3> QED
            BY <1>1, <1>4, <3>1 DEF Latest, Final, Vitis!Last
    <2>3. /\ f \in Works /\ f.rtl = Latest.rtl /\ f.pkg = Latest.pkg /\ f.settings = Latest.settings
          /\ f.app = Latest.app /\ f.header = Latest.header
          /\ f.fsblAt = Latest.fsblAt /\ f.appAt = Latest.appAt
          /\ f.patched = Latest.patched \cup {label}
        BY <1>3, <2>1 DEF Works
    <2> HIDE DEF f
    <2>4. /\ Hardware' /\ BootFiles' /\ Undisturbed' /\ Forced' /\ Vitis!StampStale'
          /\ works' \in Seq(Works) /\ works' # <<>> /\ Latest' = f
        BY <1>2, <1>3, <2>2, <2>3, Writes
    <2>5. /\ DOMAIN works' = DOMAIN works
          /\ \A w \in DOMAIN works : w # Final => works'[w] = works[w]
          /\ Final \in DOMAIN works /\ works'[Final] = f
        BY <2>1, <2>2, <2>3, InNewest DEF Outcomes, Latest
    <2>6. \A w \in DOMAIN works : works'[w].fsblAt = works[w].fsblAt /\ works'[w].appAt = works[w].appAt
        BY <2>3, <2>5 DEF Latest
    <2>7. Times' /\ Versions' /\ Outcomes' /\ InOrder'
        BY <1>2, <2>4, <2>5, <2>6 DEF Times, Versions, Outcomes, InOrder
    <2>8. Stages'
        BY <1>2, <1>3, <2>2 DEF Stages, AfterCheck, AfterHw
    <2>9. Underway'
        BY <1>2, <1>3, <2>2, <2>3, <2>4 DEF Underway
    <2>10. WholeApps'
        BY <1>2, <1>3, <2>3, <2>5 DEF WholeApps, Underway, Latest
    <2>11. Software'
        BY <1>2, <1>3, <2>2, <2>3, <2>4 DEF Software, OfSources, Creating, Ended
    <2> QED
        BY <2>4, <2>7, <2>8, <2>9, <2>10, <2>11
<1>5. CASE ~Vitis!Replaceable(label, c)
    <2>1. at' = "idle" /\ result' = "failed" /\ UNCHANGED works
        BY <1>1, <1>5 DEF Vitis!Stop
    <2> QED
        BY <1>2, <1>3, <2>1, StopsHere
<1> QED
    BY <1>4, <1>5

LEMMA Builds ==
    ASSUME BuildInv, NEW here, NEW field, NEW next, Vitis!Build(here, field, next),
           \/ here = "platform" /\ field = "fsblAt" /\ next = "import"
           \/ here = "build" /\ field = "appAt" /\ next = "touch"
    PROVE  BuildInv'
<1> USE DEF BuildInv, Vitis!sources, Vitis!job
<1>1. /\ at = here /\ at' = next
      /\ UNCHANGED <<Vitis!sources, xsa, stamp, boot, loaded, Vitis!job, result, undisturbed, fooled>>
      /\ \/ Vitis!InWork([works[Vitis!Last] EXCEPT ![field] = clock + 1]) /\ clock' = clock + 1
         \/ UNCHANGED <<works, clock>>
    BY DEF Vitis!Build, Vitis!Tick, Vitis!Now
<1>2. /\ here \in Creating /\ next \in Creating
      /\ PatchedBy(next) = PatchedBy(here)
      /\ next \in Imported => here \in Imported
      /\ next \notin {"fsbl", "platform"} /\ here # "touch"
    BY DEF Creating, PatchedBy, Imported
<1>3. CASE UNCHANGED <<works, clock>>
    <2>1. UNCHANGED <<Latest, Final, OfSources, Settled, Vitis!StampStale, Vitis!HwStale>>
        BY <1>1, <1>3 DEF Latest, Final, OfSources, Settled, Vitis!StampStale, Vitis!HwStale
    <2>2. Times' /\ Versions' /\ Outcomes' /\ InOrder' /\ WholeApps'
        BY <1>1, <1>3 DEF Times, Versions, Outcomes, InOrder, WholeApps
    <2>3. Stages'
        BY <1>1, <1>2 DEF Stages, AfterCheck, AfterHw
    <2>4. Underway'
        BY <1>1, <1>2, <1>3, <2>1 DEF Underway
    <2>5. Hardware' /\ Software'
        BY <1>1, <1>2, <2>1 DEF Hardware, Software, Creating, AfterHw, Ended
    <2>6. BootFiles'
        BY <1>1, <1>2, <1>3, <2>1 DEF BootFiles, OneWorkspace, Creating, Ended
    <2>7. Undisturbed' /\ Forced'
        BY <1>1, <1>2, <2>1 DEF Undisturbed, Forced, Creating, AfterHw, AfterCheck, Ended
    <2> QED
        BY <2>2, <2>3, <2>4, <2>5, <2>6, <2>7
<1>4. CASE Vitis!InWork([works[Vitis!Last] EXCEPT ![field] = clock + 1]) /\ clock' = clock + 1
    <2> DEFINE f == [Latest EXCEPT ![field] = clock + 1]
    <2>1. Latest \in Works /\ clock + 1 \in Nat
        BY <1>1, <1>2, Numbers DEF Latest, Underway, Final, Times
    <2>2. Vitis!InWork(f)
        BY <1>4 DEF Latest, Final, Vitis!Last
    <2>3. /\ f \in Works /\ f.rtl = Latest.rtl /\ f.pkg = Latest.pkg /\ f.settings = Latest.settings
          /\ f.app = Latest.app /\ f.header = Latest.header /\ f.patched = Latest.patched
          /\ f.fsblAt = IF field = "fsblAt" THEN clock + 1 ELSE Latest.fsblAt
          /\ f.appAt = IF field = "appAt" THEN clock + 1 ELSE Latest.appAt
        BY <1>2, <2>1 DEF Works
    <2> HIDE DEF f
    <2>4. /\ Hardware' /\ BootFiles' /\ Undisturbed' /\ Forced' /\ Vitis!StampStale'
          /\ works' \in Seq(Works) /\ works' # <<>> /\ Latest' = f
        BY <1>1, <1>2, <2>2, <2>3, Writes
    <2>5. /\ DOMAIN works' = DOMAIN works
          /\ \A w \in DOMAIN works : w # Final => works'[w] = works[w]
          /\ Final \in DOMAIN works /\ works'[Final] = f
        BY <1>1, <1>2, <2>2, <2>3, InNewest DEF Outcomes, Underway, Latest
    <2>6. /\ clock' \in Nat
          /\ stamp <= clock' /\ pkgAt <= clock' /\ xsa.at <= clock' /\ boot.at <= clock'
          /\ \A k \in {"app", "rtl"} : src[k].at <= clock'
          /\ \A w \in DOMAIN works : works[w].fsblAt <= clock' /\ works[w].appAt <= clock'
        BY <1>4, Later
    <2>7. f.fsblAt <= clock' /\ f.appAt <= clock'
        BY <1>4, <2>3, <2>5, <2>6 DEF Latest
    <2>8. Times'
        <3>1. \A w \in DOMAIN works' : works'[w].fsblAt <= clock' /\ works'[w].appAt <= clock'
            BY <2>5, <2>6, <2>7
        <3> QED
            BY <1>1, <2>6, <3>1 DEF Times
    <2>9. Versions' /\ Outcomes'
        BY <1>1, <2>4 DEF Versions, Outcomes
    <2>10. InOrder'
        <3>1. \A w \in DOMAIN works : w # Final => w < Final
            BY Numbers
        <3>2. \A w \in DOMAIN works : works[w].fsblAt < clock + 1 /\ works[w].appAt < clock + 1
            BY Numbers DEF Times
        <3>3. ASSUME NEW v \in DOMAIN works', NEW w \in DOMAIN works', v < w
              PROVE  /\ works'[v].fsblAt # 0 /\ works'[w].fsblAt # 0 => works'[v].fsblAt < works'[w].fsblAt
                     /\ works'[v].appAt # 0 /\ works'[w].appAt # 0 => works'[v].appAt < works'[w].appAt
            <4>1. v # Final /\ works'[v] = works[v] /\ v \in DOMAIN works /\ w \in DOMAIN works
                BY <2>5, <3>1, <3>3, Numbers
            <4>2. CASE w # Final
                BY <2>5, <3>3, <4>1, <4>2 DEF InOrder
            <4>3. CASE w = Final
                <5>1. /\ f.fsblAt # 0 /\ works[v].fsblAt # 0 => works[v].fsblAt < f.fsblAt
                      /\ f.appAt # 0 /\ works[v].appAt # 0 => works[v].appAt < f.appAt
                    BY <2>3, <3>2, <3>3, <4>1, <4>3 DEF InOrder, Latest
                <5> QED
                    BY <2>5, <4>1, <4>3, <5>1
            <4> QED
                BY <4>2, <4>3
        <3> QED
            BY <3>3 DEF InOrder
    <2>11. Stages'
        BY <1>1, <1>2 DEF Stages, AfterCheck, AfterHw
    <2>12. Underway'
        BY <1>1, <1>2, <2>3, <2>4 DEF Underway
    <2>13. WholeApps'
        <3>1. PatchedBy("build") = Vitis!Labels
            BY DEF PatchedBy, Vitis!Labels
        <3>2. f.appAt # 0 => f.patched = Vitis!Labels /\ f.app >= 0 /\ f.header >= 0
            BY <1>1, <2>3, <3>1 DEF Underway, Creating, Imported
        <3> QED
            BY <2>5, <3>2 DEF WholeApps
    <2>14. Software'
        BY <1>1, <1>2, <2>3, <2>4 DEF Software, OfSources, Creating, Ended
    <2> QED
        BY <2>4, <2>8, <2>9, <2>10, <2>11, <2>12, <2>13, <2>14
<1> QED
    BY <1>1, <1>3, <1>4

LEMMA Imports == ASSUME BuildInv, Vitis!ImportFiles PROVE BuildInv'
<1> USE DEF BuildInv, Vitis!sources, Vitis!job
<1> DEFINE f == [Latest EXCEPT !.app = src["app"].ver, !.header = derived["header"]]
<1>1. /\ at = "import" /\ at' = "optimize" /\ Vitis!InWork(f)
      /\ fooled' = fooled \cup {s \in {"ps"} : derived["header"] # derived["pkg"]}
      /\ UNCHANGED <<clock, Vitis!sources, xsa, stamp, boot, loaded, Vitis!job, result, undisturbed>>
    BY DEF Vitis!ImportFiles, Latest, Final, Vitis!Last
<1>2. Latest \in Works
    BY <1>1, Numbers DEF Latest, Underway, Final, Creating
<1>3. src["app"].ver \in Nat /\ derived["header"] \in Nat
    BY Numbers DEF Versions
<1>4. /\ f \in Works /\ f.rtl = Latest.rtl /\ f.pkg = Latest.pkg /\ f.settings = Latest.settings
      /\ f.fsblAt = Latest.fsblAt /\ f.appAt = Latest.appAt /\ f.patched = Latest.patched
      /\ f.app = src["app"].ver /\ f.header = derived["header"]
    <2> DEFINE g == [Latest EXCEPT !.app = src["app"].ver]
    <2>1. g \in Works /\ g.app = src["app"].ver /\ g.rtl = Latest.rtl /\ g.pkg = Latest.pkg
           /\ g.settings = Latest.settings /\ g.fsblAt = Latest.fsblAt /\ g.appAt = Latest.appAt
          /\ g.patched = Latest.patched
        BY <1>2, <1>3 DEF Works
    <2>2. f = [g EXCEPT !.header = derived["header"]]
        OBVIOUS
    <2> HIDE DEF f, g
    <2> QED
        BY <1>3, <2>1, <2>2 DEF Works
<1> HIDE DEF f
<1>5. at \in Creating /\ at' \in Creating /\ at # "touch" /\ PatchedBy(at') = PatchedBy(at)
    BY <1>1 DEF Creating, PatchedBy
<1>6. /\ Hardware' /\ BootFiles' /\ Undisturbed' /\ Forced' /\ Vitis!StampStale'
      /\ works' \in Seq(Works) /\ works' # <<>> /\ Latest' = f
    BY <1>1, <1>4, <1>5, Writes
<1>7. /\ DOMAIN works' = DOMAIN works
      /\ \A w \in DOMAIN works : w # Final => works'[w] = works[w]
      /\ Final \in DOMAIN works /\ works'[Final] = f
    BY <1>1, <1>4, <1>5, InNewest DEF Outcomes, Underway, Latest
<1>8. \A w \in DOMAIN works : works'[w].fsblAt = works[w].fsblAt /\ works'[w].appAt = works[w].appAt
    BY <1>4, <1>7 DEF Latest
<1>9. Times' /\ Versions' /\ Outcomes' /\ InOrder'
    BY <1>1, <1>6, <1>7, <1>8 DEF Times, Versions, Outcomes, InOrder
<1>10. Stages'
    BY <1>1 DEF Stages, AfterCheck, AfterHw, Creating
<1>11. Underway'
    BY <1>1, <1>3, <1>4, <1>5, <1>6 DEF Underway
<1>12. WholeApps'
    BY <1>4, <1>5, <1>7 DEF WholeApps, Underway, Latest
<1>13. Software'
    <2>1. "ps" \notin fooled' => f.app = src["app"].ver /\ f.header = version
        BY <1>1, <1>4 DEF Versions
    <2> QED
        BY <1>1, <1>5, <1>6, <2>1 DEF Software, OfSources, Creating, Ended
<1> QED
    BY <1>6, <1>9, <1>10, <1>11, <1>12, <1>13

-----------------------------------------------------------------------------
LEMMA BuildSteps == BuildInv /\ [Vitis!Next]_vitisVars => BuildInv'
<1> SUFFICES ASSUME BuildInv, [Vitis!Next]_vitisVars PROVE BuildInv'
    OBVIOUS
<1>1. ASSUME Vitis!CreateApp PROVE BuildInv'
    <2>1. ASSUME Vitis!Patch("fsbl", "FSBL warning suppression", "platform") PROVE BuildInv'
        BY <2>1, Patches
    <2>2. ASSUME Vitis!Build("platform", "fsblAt", "import") PROVE BuildInv'
        BY <2>2, Builds
    <2>3. ASSUME Vitis!Patch("optimize", "app optimization level", "debug") PROVE BuildInv'
        BY <2>3, Patches
    <2>4. ASSUME Vitis!Patch("debug", "app debug level", "link") PROVE BuildInv'
        BY <2>4, Patches
    <2>5. ASSUME Vitis!Patch("link", "app lwIP link dependency", "build") PROVE BuildInv'
        BY <2>5, Patches
    <2>6. ASSUME Vitis!Build("build", "appAt", "touch") PROVE BuildInv'
        BY <2>6, Builds
    <2> QED
        BY <1>1, <2>1, <2>2, <2>3, <2>4, <2>5, <2>6, MakesWorkspace, Imports, Touches, Zenon DEF Vitis!CreateApp
<1>2. CASE UNCHANGED vitisVars
    <2> USE <1>2 DEF vitisVars, BuildInv
    <2>1. Times' /\ Versions' /\ Outcomes' /\ Stages'
        BY DEF Times, Versions, Outcomes, Stages
    <2>2. InOrder' /\ Underway' /\ WholeApps'
        BY DEF InOrder, Underway, WholeApps, Latest, Final
    <2>3. UNCHANGED <<Latest, Final, OfSources, Settled, Ended, Vitis!StampStale, Vitis!HwStale>>
        BY DEF Latest, Final, OfSources, Settled, Ended, Vitis!StampStale, Vitis!HwStale
    <2>4. Hardware' /\ Software' /\ Undisturbed' /\ Forced'
        BY <2>3 DEF Hardware, Software, Undisturbed, Forced
    <2>5. BootFiles'
        BY <2>3 DEF BootFiles, OneWorkspace
    <2> QED
        BY <2>1, <2>2, <2>4, <2>5
<1> QED
    BY <1>1, <1>2, CallsMake, ChecksRegs, FindsHardware, StartsVivado, EndsVivado, FindsSoftware, Fails, EndsPs,
       EndsBoot, EndsRun, DropsStamp, EditsSource, Merges, Meddles, Zenon DEF Vitis!Next

-----------------------------------------------------------------------------
LEMMA BuildIsRight == BuildInv => BuildIsCurrent
<1> SUFFICES ASSUME BuildInv PROVE BuildIsCurrent
    OBVIOUS
<1> USE DEF BuildInv
<1>1. Vitis!TypeOK
    <2>1. clock \in Nat /\ stamp \in 0 .. clock /\ boot.at \in 0 .. clock /\ xsa.at \in 0 .. clock /\ pkgAt \in 0 .. clock
        BY Numbers DEF Times
    <2>2. src \in [{"app", "rtl"} -> [ver : 0 .. MaxBuildEdits, at : 0 .. clock]]
        <3>1. \A k \in {"app", "rtl"} : src[k].ver \in 0 .. MaxBuildEdits /\ src[k].at \in 0 .. clock
            BY Numbers, BuildAssumption DEF Times, Versions
        <3>2. \A k \in {"app", "rtl"} : src[k] \in [ver : 0 .. MaxBuildEdits, at : 0 .. clock]
            BY <3>1, Numbers
        <3> QED
            BY <3>2 DEF Versions
    <2>3. version \in 0 .. MaxBuildEdits /\ fooled \subseteq {"hw", "ps"}
        BY BuildAssumption DEF Versions, Stages
    <2>4. derived \in [{"pkg", "header", "py"} -> 0 .. (MaxBuildEdits + 1)]
        <3>1. \A k \in {"pkg", "header", "py"} : derived[k] \in 0 .. (MaxBuildEdits + 1)
            BY BuildAssumption DEF Versions
        <3> QED
            BY <3>1 DEF Versions
    <2>5. \A w \in DOMAIN works :
            /\ works[w].fsblAt \in 0 .. clock /\ works[w].appAt \in 0 .. clock
            /\ works[w].appAt # 0 => works[w].app >= 0 /\ works[w].header >= 0
        BY Numbers DEF Times, WholeApps
    <2>6. at \in {"idle", "check", "hw", "synth", "ps", "fsbl", "platform", "import", "optimize",
                  "debug", "link", "build", "touch", "goal"}
        BY DEF Stages, AfterCheck, AfterHw, Creating
    <2> QED
        BY <2>1, <2>2, <2>3, <2>4, <2>5, <2>6 DEF Vitis!TypeOK
<1>2. Ended => Vitis!Newest("appAt") = Final
    BY NewestIsLatest DEF BuildTypes, Software
<1>3. Vitis!SuccessIsCurrent
    <2>1. ASSUME Ended, undisturbed, fooled = {}
          PROVE  /\ Latest.app = src["app"].ver /\ Latest.header = version
                 /\ Latest.rtl = src["rtl"].ver /\ Latest.pkg = version
                 /\ xsa.rtl = Latest.rtl /\ xsa.pkg = Latest.pkg /\ xsa.bit
        <3>1. ~Vitis!HwStale /\ ~Vitis!StampStale
            BY <2>1 DEF Undisturbed
        <3>2. xsa.bit /\ pkgAt <= xsa.at
            BY <3>1, Numbers DEF Vitis!HwStale, Times, Outcomes
        <3>3. xsa.rtl = src["rtl"].ver /\ xsa.pkg = version
            BY <2>1, <3>1 DEF Hardware
        <3>4. OfSources /\ Latest.rtl = xsa.rtl /\ Latest.pkg = xsa.pkg
            BY <2>1, <3>1, <3>2 DEF Software
        <3> QED
            BY <3>2, <3>3, <3>4 DEF OfSources
    <2> QED
        BY <1>2, <2>1 DEF Vitis!SuccessIsCurrent, Vitis!Succeeded, Ended, Latest
<1>4. Vitis!OneBuild
    BY <1>2 DEF Vitis!OneBuild, BootFiles, OneWorkspace, Vitis!Succeeded, Ended
<1>5. Vitis!EnvironmentIsBuilt
    BY <1>2 DEF Vitis!EnvironmentIsBuilt, Forced, Vitis!Succeeded, Ended, Latest
<1>6. Vitis!PatchesApplied
    BY DEF Vitis!PatchesApplied, WholeApps
<1> QED
    BY <1>1, <1>3, <1>4, <1>5, <1>6 DEF BuildIsCurrent

\* A make that succeeds leaves one build, of what the sources, the constants,
\* the hardware and the environment are, with every patch.
THEOREM BuildIsCurrentHolds == ToolsSpec => []BuildIsCurrent
<1>1. ToolsInit => BuildInv
    BY BuildStarts DEF ToolsInit
<1>2. BuildInv /\ [ToolsNext]_all => BuildInv'
    BY BuildSteps, StepsOfBuildTools, Zenon
<1> QED
    BY <1>1, <1>2, BuildIsRight, PTL DEF ToolsSpec

-----------------------------------------------------------------------------
(* ProfileCampaign.                                                        *)

Flags == alone \in BOOLEAN /\ leaked \in BOOLEAN /\ guardDone \in BOOLEAN /\ built \in BOOLEAN

CampaignTypes ==
    /\ candidates \in Seq(STRING) /\ cand \in Nat /\ cand <= Len(candidates)
    /\ stage \in {"idle", "tests", "next", "build", "cells", "defaults", "sweep"}
    /\ queue \in Seq(Campaign!CellNames) /\ rows \in Seq(Campaign!Rows) /\ ceiling \in Seq(Campaign!Rows) /\ csv = rows
    /\ app \in Campaign!Applications
    /\ stage \in {"build", "cells"} => cand >= 1 /\ candidates[cand] \in Known
    /\ stage = "tests" => cand = 0

\* The settings of the ceiling sweep.
Defaults == IF leaked THEN "leaked" ELSE "defaults"

\* What is built at each stage: nothing where make is to build.
Installed ==
    /\ built => app # "none"
    /\ stage \in {"build", "defaults"} => ~built
    /\ stage = "cells" => built /\ app = candidates[cand]
    /\ stage = "sweep" => built /\ app = Defaults

\* Every measured row says what it was measured on.
RowsTrue ==
    /\ \A i \in DOMAIN rows :
         /\ rows[i].candidate \in Known
         /\ rows[i].class # "unsupported" => rows[i].on = rows[i].candidate
    /\ \A i \in DOMAIN ceiling : ceiling[i].candidate = "sweep" /\ ceiling[i].on = Defaults

Measured == {i \in DOMAIN rows : rows[i].class # "unsupported"}

\* How many of the profile's cells the candidate at hand is through with, -1
\* before the guard cell.
Through == Len(Cells) - Len(queue)

\* The cells still to be measured are the rest of the list, and the last rows
\* are of the cells before it.
InCells ==
    stage = "cells" =>
        /\ Through >= -1 /\ guardDone
        /\ Through = -1 => queue[1] = GuardCell /\ Measured = {}
        /\ \A j \in DOMAIN queue : Through + j >= 1 => queue[j] = Cells[Through + j]
        /\ Through >= 0 =>
             /\ Measured # {}
             /\ Through <= Len(rows)
             /\ \A k \in 1 .. Through :
                  /\ rows[Len(rows) - Through + k].candidate = candidates[cand]
                  /\ rows[Len(rows) - Through + k].cell = Cells[k]

\* The guard cell is measured first and once.
GuardFirst ==
    /\ \A i \in Measured : rows[i].cell = GuardCell <=> \A j \in Measured : i <= j
    /\ stage \in {"tests", "next", "build"} => (guardDone <=> Measured # {})

\* A candidate that is done with has its rows.
HasRows(n) ==
    \/ \E i \in DOMAIN rows : rows[i].candidate = candidates[n] /\ rows[i].class = "unsupported"
    \/ \E i \in 0 .. Len(rows) :
         /\ i + Len(Cells) <= Len(rows)
         /\ \A k \in 1 .. Len(Cells) :
              rows[i + k].candidate = candidates[n] /\ rows[i + k].cell = Cells[k]

AllHaveRows ==
    \A n \in 1 .. Len(candidates) : n < cand \/ (n = cand /\ stage = "next") => HasRows(n)

\* The cells of the sweep, measured and still to be measured, are the ceiling.
InSweep ==
    /\ stage \notin {"sweep", "idle"} => ceiling = <<>>
    /\ stage = "sweep" =>
         /\ Len(ceiling) + Len(queue) = Len(Ceiling)
         /\ \A i \in DOMAIN ceiling : ceiling[i].cell = Ceiling[i]
         /\ \A j \in DOMAIN queue : queue[j] = Ceiling[Len(ceiling) + j]

CampaignInv ==
    /\ Flags /\ CampaignTypes /\ Installed /\ RowsTrue /\ InCells /\ GuardFirst /\ AllHaveRows
    /\ InSweep /\ Campaign!ReportIsSound

-----------------------------------------------------------------------------
\* A row is added behind the others, which stay.
LEMMA RowAdded ==
    ASSUME rows \in Seq(Campaign!Rows), NEW row \in Campaign!Rows, rows' = Append(rows, row)
    PROVE  /\ rows' \in Seq(Campaign!Rows) /\ Len(rows') = Len(rows) + 1 /\ Len(rows) \in Nat
           /\ DOMAIN rows' = 1 .. Len(rows) + 1 /\ DOMAIN rows = 1 .. Len(rows)
           /\ rows'[Len(rows) + 1] = row
           /\ \A i \in DOMAIN rows : rows'[i] = rows[i]
    OBVIOUS

\* What a candidate has it keeps.
LEMMA RowsAreKept ==
    ASSUME rows \in Seq(Campaign!Rows), NEW row \in Campaign!Rows, rows' = Append(rows, row),
           UNCHANGED candidates, NEW n, HasRows(n), Cells \in Seq(STRING)
    PROVE  HasRows(n)'
<1>1. /\ Len(rows') = Len(rows) + 1 /\ Len(rows) \in Nat /\ Len(Cells) \in Nat
      /\ DOMAIN rows' = 1 .. Len(rows) + 1 /\ DOMAIN rows = 1 .. Len(rows)
      /\ \A i \in DOMAIN rows : rows'[i] = rows[i]
    BY RowAdded
<1>2. CASE \E i \in DOMAIN rows : rows[i].candidate = candidates[n] /\ rows[i].class = "unsupported"
    <2>1. PICK i \in DOMAIN rows : rows[i].candidate = candidates[n] /\ rows[i].class = "unsupported"
        BY <1>2
    <2>2. i \in DOMAIN rows' /\ rows'[i] = rows[i]
        BY <1>1
    <2> QED
        BY <2>1, <2>2 DEF HasRows
<1>3. ASSUME NEW i \in 0 .. Len(rows), i + Len(Cells) <= Len(rows),
             \A k \in 1 .. Len(Cells) :
                 rows[i + k].candidate = candidates[n] /\ rows[i + k].cell = Cells[k]
      PROVE  HasRows(n)'
    <2>1. i \in 0 .. Len(rows') /\ i + Len(Cells) <= Len(rows')
        BY <1>1, <1>3
    <2>2. \A k \in 1 .. Len(Cells) : rows'[i + k] = rows[i + k]
        BY <1>1, <1>3
    <2> QED
        BY <1>3, <2>1, <2>2 DEF HasRows
<1> QED
    BY <1>2, <1>3 DEF HasRows

\* A cell of a candidate or of the sweep, measured on what is on the board.
LEMMA MeasuredRows ==
    ASSUME CampaignTypes, app # "none", queue # <<>>, NEW c \in Known \cup {"sweep"},
           NEW verdicts \in SUBSET ({"pass", "fail"} \cup SweepVerdicts), NEW row \in Campaign!Measured(c, verdicts)
    PROVE  /\ row \in Campaign!Rows
           /\ row.candidate = c /\ row.cell = Head(queue) /\ row.on = app /\ row.class \in verdicts
<1>1. PICK v \in verdicts, r \in 0 .. MaxRate :
        row = [candidate |-> c, cell |-> Head(queue), on |-> app, class |-> v, rate |-> r]
    BY DEF Campaign!Measured
<1>2. Head(queue) \in Campaign!CellNames /\ app \in Campaign!Applications
    BY DEF CampaignTypes
<1> QED
    BY <1>1, <1>2 DEF Campaign!Rows

LEMMA CampaignStarts == Campaign!Init => CampaignInv
<1> SUFFICES ASSUME Campaign!Init PROVE CampaignInv
    OBVIOUS
<1> USE CampaignAssumption DEF Campaign!Init, Campaign!NoReport
<1>1. Flags /\ Installed
    BY Zenon DEF Flags, Installed
<1>2. CampaignTypes
    BY DEF CampaignTypes, Campaign!Applications
<1>3. InCells /\ AllHaveRows /\ InSweep /\ Campaign!ReportIsSound
    BY DEF InCells, AllHaveRows, InSweep, Campaign!ReportIsSound
<1>4. RowsTrue /\ GuardFirst
    BY DEF RowsTrue, GuardFirst, Measured
<1> QED
    BY <1>1, <1>2, <1>3, <1>4 DEF CampaignInv

-----------------------------------------------------------------------------
LEMMA Starts == ASSUME CampaignInv, Campaign!Start PROVE CampaignInv'
<1> USE CampaignAssumption DEF CampaignInv, Campaign!Start, Campaign!build
<1>1. Flags'
    BY Zenon DEF Flags
<1>2. CampaignTypes'
    <2>1. candidates' \in Seq(STRING) /\ stage' \in {"next", "tests"}
        OBVIOUS
    <2> QED
        BY <2>1 DEF CampaignTypes
<1>6. Installed' /\ InCells' /\ InSweep'
    BY DEF Installed, InCells, InSweep, CampaignTypes
<1>3. RowsTrue' /\ GuardFirst'
    BY DEF RowsTrue, GuardFirst, Measured
<1>4. AllHaveRows'
    BY DEF AllHaveRows
<1>5. Campaign!ReportIsSound'
    BY DEF Campaign!ReportIsSound, Campaign!NoReport, Campaign!Stable
<1> QED
    BY <1>1, <1>2, <1>3, <1>4, <1>5, <1>6

\* A step that measures nothing and installs nothing.
LEMMA GoesOn ==
    ASSUME CampaignInv, UNCHANGED <<Campaign!call, queue, Campaign!data>>
    PROVE  /\ RowsTrue' /\ Campaign!ReportIsSound' /\ UNCHANGED <<Measured, Through>>
           /\ \A n : HasRows(n) => HasRows(n)'
<1> USE DEF CampaignInv, Campaign!call, Campaign!data
<1>1. RowsTrue' /\ UNCHANGED <<Measured, Through>>
    BY DEF RowsTrue, Measured, Through, Defaults
<1>2. Campaign!ReportIsSound'
    BY DEF Campaign!ReportIsSound, Campaign!NoReport, Campaign!Stable
<1>3. \A n : HasRows(n) => HasRows(n)'
    BY DEF HasRows
<1> QED
    BY <1>1, <1>2, <1>3

LEMMA TestsRun == ASSUME CampaignInv, Campaign!RunTests PROVE CampaignInv'
<1> USE DEF CampaignInv, Campaign!RunTests, Campaign!call, Campaign!build, Campaign!data
<1>1. RowsTrue' /\ Campaign!ReportIsSound' /\ UNCHANGED <<Measured, Through>>
    BY GoesOn
<1>2. CampaignTypes' /\ Installed' /\ InCells' /\ InSweep'
    BY DEF CampaignTypes, Installed, InCells, InSweep
<1>3. GuardFirst'
    BY <1>1 DEF GuardFirst
<1>4. AllHaveRows'
    BY DEF AllHaveRows, CampaignTypes
<1>5. Flags'
    BY Zenon DEF Flags
<1> QED
    BY <1>1, <1>2, <1>3, <1>4, <1>5

LEMMA TakesNext == ASSUME CampaignInv, Campaign!NextCandidate PROVE CampaignInv'
<1> USE DEF CampaignInv, Campaign!call, Campaign!data
<1>1. /\ stage = "next" /\ cand < Len(candidates) /\ cand' = cand + 1
      /\ \/ candidates[cand + 1] \in Known /\ stage' = "build" /\ built' = FALSE
         \/ stage' = "idle" /\ UNCHANGED built
      /\ UNCHANGED <<Campaign!call, queue, guardDone, app, Campaign!data>>
    BY DEF Campaign!NextCandidate
<1>2. RowsTrue' /\ Campaign!ReportIsSound' /\ UNCHANGED <<Measured, Through>>
    BY <1>1, GoesOn
<1>3. CampaignTypes'
    <2>1. cand' \in Nat /\ cand' <= Len(candidates) /\ cand' >= 1
        BY <1>1 DEF CampaignTypes
    <2>2. stage' = "build" => candidates'[cand'] \in Known
        BY <1>1
    <2>3. stage' \in {"idle", "build"}
        BY <1>1
    <2> QED
        BY <1>1, <2>1, <2>2, <2>3 DEF CampaignTypes
<1>7. Flags'
    BY <1>1, Zenon DEF Flags
<1>4. Installed' /\ InCells' /\ InSweep'
    BY <1>1 DEF Installed, InCells, InSweep
<1>5. GuardFirst'
    BY <1>1, <1>2 DEF GuardFirst
<1>6. AllHaveRows'
    BY <1>1, GoesOn DEF AllHaveRows, CampaignTypes
<1> QED
    BY <1>2, <1>3, <1>4, <1>5, <1>6, <1>7

LEMMA BuildsCandidate == ASSUME CampaignInv, Campaign!BuildCandidate PROVE CampaignInv'
<1> USE CampaignAssumption DEF CampaignInv, Campaign!call, Campaign!data
<1>1. /\ stage = "build" /\ built' = TRUE /\ app' = candidates[cand]
      /\ queue' = IF guardDone THEN Cells ELSE <<GuardCell>> \o Cells
      /\ guardDone' = TRUE /\ stage' = "cells"
      /\ UNCHANGED <<Campaign!call, cand, Campaign!data>>
    BY DEF Campaign!BuildCandidate, Campaign!MakePs, Campaign!Candidate, Installed
<1>2. RowsTrue' /\ Campaign!ReportIsSound' /\ UNCHANGED Measured /\ \A n : HasRows(n) => HasRows(n)'
    <2>1. RowsTrue' /\ UNCHANGED Measured
        BY <1>1 DEF RowsTrue, Measured, Defaults
    <2>2. Campaign!ReportIsSound'
        BY <1>1 DEF Campaign!ReportIsSound, Campaign!NoReport, Campaign!Stable
    <2>3. \A n : HasRows(n) => HasRows(n)'
        BY <1>1 DEF HasRows
    <2> QED
        BY <2>1, <2>2, <2>3
<1>3. CampaignTypes'
    <2>1. <<GuardCell>> \o Cells \in Seq(Campaign!CellNames) /\ Cells \in Seq(Campaign!CellNames)
        BY DEF Campaign!CellNames
    <2>2. queue' \in Seq(Campaign!CellNames)
        BY <1>1, <2>1
    <2> HIDE CampaignAssumption
    <2> QED
        BY <1>1, <2>2 DEF CampaignTypes, Campaign!Applications
<1>9. Flags'
    BY <1>1, Zenon DEF Flags
<1>4. Installed'
    <2>1. app' # "none"
        BY <1>1 DEF CampaignTypes
    <2> QED
        BY <1>1, <2>1 DEF Installed
<1>5. InSweep'
    BY <1>1 DEF InSweep
<1>6. InCells'
    <2>1. CASE guardDone
        <3>1. Through' = 0 /\ Measured' # {} /\ queue' = Cells /\ Len(rows') \in Nat
            BY <1>1, <1>2, <2>1 DEF Through, GuardFirst, CampaignTypes
        <3> QED
            BY <1>1, <3>1 DEF InCells
    <2>2. CASE ~guardDone
        <3>1. queue' = <<GuardCell>> \o Cells
            BY <1>1, <2>2
        <3>2. /\ Through' = -1 /\ queue'[1] = GuardCell
              /\ \A j \in DOMAIN queue' : j > 1 => queue'[j] = Cells[j - 1]
            BY <3>1 DEF Through
        <3>3. Measured' = {}
            BY <1>1, <1>2, <2>2 DEF GuardFirst
        <3>4. \A j \in DOMAIN queue' : j \in Nat
            BY <3>1
        <3> HIDE DEF Through
        <3>5. \A j \in DOMAIN queue' : Through' + j >= 1 => queue'[j] = Cells[Through' + j]
            BY <3>2, <3>4
        <3> QED
            BY <1>1, <3>2, <3>3, <3>5 DEF InCells
    <2> QED
        BY <2>1, <2>2
<1>7. GuardFirst'
    BY <1>1, <1>2 DEF GuardFirst
<1>8. AllHaveRows'
    BY <1>1, <1>2 DEF AllHaveRows
<1> QED
    BY <1>2, <1>3, <1>4, <1>5, <1>6, <1>7, <1>8, <1>9

LEMMA FailsToBuild == ASSUME CampaignInv, Campaign!BuildFails PROVE CampaignInv'
<1> USE CampaignAssumption DEF CampaignInv, Campaign!call
<1> DEFINE row == [candidate |-> candidates[cand], cell |-> "build", on |-> "none",
                   class |-> "unsupported", rate |-> 0]
<1>1. /\ stage = "build" /\ stage' = "next" /\ rows' = Append(rows, row) /\ csv' = rows'
      /\ app' \in {app, candidates[cand]}
      /\ UNCHANGED <<Campaign!call, cand, queue, guardDone, built, ceiling, report>>
    BY DEF Campaign!BuildFails, Campaign!Candidate
<1>2. /\ candidates[cand] \in Known /\ cand >= 1 /\ row \in Campaign!Rows /\ row.candidate = candidates[cand]
      /\ row.class = "unsupported"
    BY <1>1 DEF CampaignTypes, Campaign!Rows, Campaign!CellNames, Campaign!Applications
<1> HIDE DEF row
<1>3. /\ rows' \in Seq(Campaign!Rows) /\ Len(rows') = Len(rows) + 1 /\ Len(rows) \in Nat
      /\ DOMAIN rows' = 1 .. Len(rows) + 1 /\ DOMAIN rows = 1 .. Len(rows)
      /\ rows'[Len(rows) + 1] = row
      /\ \A i \in DOMAIN rows : rows'[i] = rows[i]
    BY <1>1, <1>2, RowAdded DEF CampaignTypes
<1>4. Measured' = Measured
    BY <1>2, <1>3 DEF Measured
<1>11. app' \in Campaign!Applications
    BY <1>1, <1>2 DEF CampaignTypes, Campaign!Applications
<1>5. CampaignTypes' /\ Flags'
    <2>1. Flags'
        BY <1>1, Zenon DEF Flags
    <2> QED
        BY <1>1, <1>3, <1>11, <2>1 DEF CampaignTypes
<1>6. Installed' /\ InCells' /\ InSweep'
    BY <1>1 DEF Installed, InCells, InSweep
<1>7. RowsTrue'
    BY <1>1, <1>2, <1>3 DEF RowsTrue, Defaults
<1>8. GuardFirst'
    BY <1>1, <1>3, <1>4 DEF GuardFirst, Measured
<1>9. AllHaveRows'
    <2>1. \A n : HasRows(n) => HasRows(n)'
        BY <1>1, <1>2, RowsAreKept DEF CampaignTypes
    <2>2. HasRows(cand)'
        <3>1. /\ Len(rows) + 1 \in DOMAIN rows' /\ rows'[Len(rows) + 1].candidate = candidates'[cand']
              /\ rows'[Len(rows) + 1].class = "unsupported"
            BY <1>1, <1>2, <1>3
        <3> QED
            BY <3>1, Zenon DEF HasRows
    <2> QED
        BY <1>1, <2>1, <2>2 DEF AllHaveRows
<1>10. Campaign!ReportIsSound'
    BY <1>1 DEF Campaign!ReportIsSound, Campaign!NoReport, Campaign!Stable
<1> QED
    BY <1>5, <1>6, <1>7, <1>8, <1>9, <1>10

LEMMA MeasuresCell == ASSUME CampaignInv, Campaign!RunCell PROVE CampaignInv'
<1> USE CampaignAssumption DEF CampaignInv, Campaign!call, Campaign!build
<1>1. PICK row \in Campaign!Measured(candidates[cand], {"pass", "fail"}) : rows' = Append(rows, row)
    BY DEF Campaign!RunCell, Campaign!Candidate
<1>2. /\ stage = "cells" /\ queue # <<>> /\ csv' = rows' /\ queue' = Tail(queue)
      /\ UNCHANGED <<Campaign!call, stage, cand, guardDone, app, built, ceiling, report>>
    BY DEF Campaign!RunCell
<1>3. candidates[cand] \in Known /\ app = candidates[cand] /\ app # "none" /\ built
    BY <1>2 DEF CampaignTypes, Installed
<1>4. /\ row \in Campaign!Rows /\ row.candidate = candidates[cand] /\ row.cell = queue[1]
      /\ row.on = candidates[cand] /\ row.class # "unsupported"
    <2>1. {"pass", "fail"} \in SUBSET ({"pass", "fail"} \cup SweepVerdicts)
        OBVIOUS
    <2>2. /\ row \in Campaign!Rows
          /\ row.candidate = candidates[cand] /\ row.cell = Head(queue) /\ row.on = app /\ row.class \in {"pass", "fail"}
        BY <1>2, <1>3, <2>1, MeasuredRows
    <2> QED
        BY <1>2, <1>3, <2>2 DEF CampaignTypes
<1>5. /\ rows' \in Seq(Campaign!Rows) /\ Len(rows') = Len(rows) + 1 /\ Len(rows) \in Nat
      /\ DOMAIN rows' = 1 .. Len(rows) + 1 /\ DOMAIN rows = 1 .. Len(rows)
      /\ rows'[Len(rows) + 1] = row
      /\ \A i \in DOMAIN rows : rows'[i] = rows[i]
    BY <1>1, <1>4, RowAdded DEF CampaignTypes
<1>6. Measured' = Measured \cup {Len(rows) + 1}
    BY <1>4, <1>5 DEF Measured
<1>7. /\ queue' \in Seq(Campaign!CellNames) /\ DOMAIN queue = 1 .. Len(queue) /\ 1 \in DOMAIN queue /\ Len(queue) \in Nat
      /\ DOMAIN queue' = 1 .. Len(queue) - 1 /\ \A j \in DOMAIN queue' : queue'[j] = queue[j + 1]
      /\ Len(queue') = Len(queue) - 1
    BY <1>2 DEF CampaignTypes
<1>8. Through' = Through + 1 /\ Through \in Int
    BY <1>7 DEF Through
<1>9. CampaignTypes' /\ Flags'
    <2>1. Flags'
        BY <1>2, Zenon DEF Flags
    <2> QED
        BY <1>2, <1>5, <1>7, <2>1 DEF CampaignTypes
<1>10. Installed' /\ InSweep'
    BY <1>2 DEF Installed, InSweep
<1>11. RowsTrue'
    BY <1>2, <1>3, <1>4, <1>5 DEF RowsTrue, Defaults
<1>12. GuardFirst'
    <2>1. CASE Through = -1
        BY <1>2, <1>4, <1>5, <1>6, <2>1 DEF GuardFirst, InCells
    <2>2. CASE Through # -1
        <3>1. Through >= 0 /\ Measured # {}
            BY <1>2, <1>8, <2>2 DEF InCells
        <3>2. row.cell # GuardCell
            <4>1. queue[1] = Cells[Through + 1]
                <5>1. Through + 1 >= 1
                    BY <1>8, <3>1
                <5> QED
                    BY <1>2, <1>7, <5>1 DEF InCells
            <4>2. Through + 1 \in DOMAIN Cells
                BY <1>7, <1>8, <3>1 DEF Through
            <4> QED
                BY <1>4, <4>1, <4>2
        <3>3. \E j \in Measured : j <= Len(rows)
            BY <1>5, <3>1 DEF Measured
        <3>4. \A i \in Measured : i <= Len(rows) /\ i \in Nat /\ rows'[i] = rows[i]
            BY <1>5 DEF Measured
        <3>5. \A i \in Measured' : rows'[i].cell = GuardCell <=> \A j \in Measured' : i <= j
            <4> TAKE i \in Measured'
            <4>1. CASE i \in Measured
                BY <1>2, <1>5, <1>6, <3>4, <4>1 DEF GuardFirst
            <4>2. CASE i = Len(rows) + 1
                BY <1>5, <1>6, <3>2, <3>3, <3>4, <4>2
            <4> QED
                BY <1>6, <4>1, <4>2
        <3> QED
            BY <1>2, <3>5 DEF GuardFirst
    <2> QED
        BY <2>1, <2>2
<1>13. InCells'
    <2>1. Through >= -1 /\ guardDone /\ Measured' # {} /\ Through' >= 0
        BY <1>2, <1>6, <1>8 DEF InCells
    <2>5. \A j \in DOMAIN queue : Through + j >= 1 => queue[j] = Cells[Through + j]
        BY <1>2 DEF InCells
    <2>2. \A j \in DOMAIN queue' : Through' + j >= 1 => queue'[j] = Cells[Through' + j]
        <3> TAKE j \in DOMAIN queue'
        <3>1. j \in 1 .. Len(queue) - 1 /\ queue'[j] = queue[j + 1]
            BY <1>7
        <3>0. j \in Nat /\ 1 <= j /\ j + 1 <= Len(queue) /\ Len(queue) \in Nat
            BY <1>7, <3>1
        <3>2. j + 1 \in DOMAIN queue
            BY <1>7, <3>0
        <3>3. Through + (j + 1) = Through' + j
            BY <1>8, <3>0
        <3> QED
            BY <2>5, <3>1, <3>2, <3>3
    <2>3. Through' <= Len(rows')
        BY <1>2, <1>5, <1>8 DEF InCells
    <2>4. \A k \in 1 .. Through' :
             /\ rows'[Len(rows') - Through' + k].candidate = candidates[cand]
             /\ rows'[Len(rows') - Through' + k].cell = Cells[k]
        <3> TAKE k \in 1 .. Through'
        <3>1. Through >= 0 /\ Len(rows') - Through' + k = Len(rows) - Through + k
            BY <1>5, <1>8, <2>1
        <3>2. CASE k <= Through
            <4>1. Len(rows) - Through + k \in DOMAIN rows
                BY <1>2, <1>5, <1>8, <3>1, <3>2 DEF InCells
            <4>2. rows'[Len(rows') - Through' + k] = rows[Len(rows) - Through + k]
                BY <1>5, <3>1, <4>1
            <4>3. k \in 1 .. Through
                BY <1>8, <3>2
            <4> QED
                BY <1>2, <3>1, <4>2, <4>3 DEF InCells
        <3>3. CASE k = Through + 1
            <4>1. rows'[Len(rows') - Through' + k] = row
                BY <1>5, <1>8, <3>1, <3>3
            <4>2. queue[1] = Cells[k]
                BY <1>7, <1>8, <2>5, <3>1, <3>3
            <4> QED
                BY <1>4, <4>1, <4>2
        <3> QED
            BY <1>8, <3>2, <3>3
    <2> QED
        BY <1>2, <1>8, <2>1, <2>2, <2>3, <2>4 DEF InCells
<1>14. AllHaveRows'
    <2>1. \A n : HasRows(n) => HasRows(n)'
        BY <1>1, <1>2, <1>4, RowsAreKept DEF CampaignTypes
    <2> QED
        BY <1>2, <2>1 DEF AllHaveRows
<1>15. Campaign!ReportIsSound'
    BY <1>2 DEF Campaign!ReportIsSound, Campaign!NoReport, Campaign!Stable
<1> QED
    BY <1>9, <1>10, <1>11, <1>12, <1>13, <1>14, <1>15

LEMMA EndsCells == ASSUME CampaignInv, Campaign!EndCells PROVE CampaignInv'
<1> USE CampaignAssumption DEF CampaignInv, Campaign!call, Campaign!build, Campaign!data
<1>1. /\ stage = "cells" /\ queue = <<>> /\ stage' = "next"
      /\ UNCHANGED <<Campaign!call, cand, queue, guardDone, Campaign!build, Campaign!data>>
    BY DEF Campaign!EndCells
<1>2. RowsTrue' /\ Campaign!ReportIsSound' /\ UNCHANGED <<Measured, Through>> /\ \A n : HasRows(n) => HasRows(n)'
    BY <1>1, GoesOn
<1>3. CampaignTypes' /\ Installed' /\ InCells' /\ InSweep'
    BY <1>1 DEF CampaignTypes, Installed, InCells, InSweep
<1>4. Through = Len(Cells) /\ Len(Cells) \in Nat /\ guardDone /\ Measured # {}
    BY <1>1 DEF Through, InCells
<1>5. GuardFirst'
    BY <1>1, <1>2, <1>4 DEF GuardFirst
<1>6. HasRows(cand)
    <2>1. Len(rows) - Len(Cells) \in 0 .. Len(rows) /\ Len(rows) - Len(Cells) + Len(Cells) <= Len(rows)
        BY <1>1, <1>4 DEF InCells, CampaignTypes
    <2>2. \A k \in 1 .. Len(Cells) :
            /\ rows[(Len(rows) - Len(Cells)) + k].candidate = candidates[cand]
            /\ rows[(Len(rows) - Len(Cells)) + k].cell = Cells[k]
        BY <1>1, <1>4 DEF InCells
    <2> QED
        BY <2>1, <2>2 DEF HasRows
<1>7. AllHaveRows'
    BY <1>1, <1>2, <1>6 DEF AllHaveRows
<1>8. Flags'
    BY <1>1, Zenon DEF Flags
<1> QED
    BY <1>2, <1>3, <1>5, <1>7, <1>8

LEMMA EndsIngress == ASSUME CampaignInv, Campaign!EndIngress PROVE CampaignInv'
<1> USE DEF CampaignInv, Campaign!call, Campaign!build, Campaign!data
<1>1. /\ stage = "next"
      /\ \/ stage' = "idle" /\ UNCHANGED built
         \/ stage' = "defaults" /\ built' = FALSE
      /\ UNCHANGED <<Campaign!call, cand, queue, guardDone, app, Campaign!data>>
    BY DEF Campaign!EndIngress
<1>2. RowsTrue' /\ Campaign!ReportIsSound' /\ UNCHANGED <<Measured, Through>> /\ \A n : HasRows(n) => HasRows(n)'
    BY <1>1, GoesOn
<1>3. CampaignTypes' /\ Installed' /\ InCells' /\ InSweep'
    <2>1. stage' \in {"idle", "defaults"}
        BY <1>1
    <2>2. CampaignTypes' /\ InCells' /\ InSweep'
        BY <1>1, <2>1 DEF CampaignTypes, InCells, InSweep
    <2>3. Installed'
        <3>1. stage' # "cells" /\ stage' # "sweep" /\ stage' # "build"
            BY <2>1
        <3>2. stage' = "defaults" => ~built'
            BY <1>1
        <3>3. built' => built
            BY <1>1, Zenon
        <3> QED
            BY <1>1, <3>1, <3>2, <3>3, Zenon DEF Installed
    <2> QED
        BY <2>2, <2>3
<1>4. GuardFirst' /\ AllHaveRows'
    BY <1>1, <1>2 DEF GuardFirst, AllHaveRows
<1>5. Flags'
    BY <1>1, Zenon DEF Flags
<1> QED
    BY <1>2, <1>3, <1>4, <1>5

LEMMA BuildsDefaults == ASSUME CampaignInv, Campaign!BuildDefaults PROVE CampaignInv'
<1> USE CampaignAssumption DEF CampaignInv, Campaign!call, Campaign!data
<1>1. /\ stage = "defaults" /\ built' = TRUE /\ app' = Defaults /\ queue' = Ceiling /\ stage' = "sweep"
      /\ UNCHANGED <<Campaign!call, cand, guardDone, Campaign!data>>
    BY DEF Campaign!BuildDefaults, Campaign!MakePs, Defaults, Installed
<1>2. RowsTrue' /\ UNCHANGED <<Measured, Defaults>>
    BY <1>1 DEF RowsTrue, Measured, Defaults
<1>3. Campaign!ReportIsSound'
    BY <1>1 DEF Campaign!ReportIsSound, Campaign!NoReport, Campaign!Stable
<1>4. \A n : HasRows(n) => HasRows(n)'
    BY <1>1 DEF HasRows
<1>5. CampaignTypes' /\ Installed'
    <2>1. queue' \in Seq(Campaign!CellNames)
        BY <1>1 DEF Campaign!CellNames
    <2>2. app' \in Campaign!Applications /\ app' # "none"
        BY <1>1 DEF Campaign!Applications, Defaults
    <2> HIDE CampaignAssumption
    <2>3. CampaignTypes'
        BY <1>1, <2>1, <2>2 DEF CampaignTypes
    <2> QED
        BY <1>1, <1>2, <2>2, <2>3 DEF Installed
<1>8. Flags'
    BY <1>1, Zenon DEF Flags
<1>6. InCells' /\ InSweep'
    BY <1>1 DEF InCells, InSweep
<1>7. GuardFirst' /\ AllHaveRows'
    BY <1>1, <1>2, <1>4 DEF GuardFirst, AllHaveRows
<1> QED
    BY <1>2, <1>3, <1>5, <1>6, <1>7, <1>8

LEMMA MeasuresSweep == ASSUME CampaignInv, Campaign!SweepCell PROVE CampaignInv'
<1> USE CampaignAssumption DEF CampaignInv, Campaign!call, Campaign!build
<1>1. PICK row \in Campaign!Measured("sweep", SweepVerdicts) : ceiling' = Append(ceiling, row)
    BY DEF Campaign!SweepCell
<1>2. /\ stage = "sweep" /\ queue # <<>> /\ queue' = Tail(queue)
      /\ UNCHANGED <<Campaign!call, stage, cand, guardDone, app, built, rows, csv, report>>
    BY DEF Campaign!SweepCell
<1>3. app = Defaults /\ app # "none" /\ UNCHANGED <<Measured, Defaults>>
    BY <1>2 DEF Installed, Defaults, Measured
<1>4. /\ row \in Campaign!Rows /\ row.candidate = "sweep" /\ row.cell = queue[1] /\ row.on = Defaults
    <2>1. SweepVerdicts \in SUBSET ({"pass", "fail"} \cup SweepVerdicts)
        OBVIOUS
    <2>2. row \in Campaign!Rows /\ row.candidate = "sweep" /\ row.cell = Head(queue) /\ row.on = app
        BY <1>2, <1>3, <2>1, MeasuredRows
    <2> QED
        BY <1>2, <1>3, <2>2 DEF CampaignTypes
<1>5. /\ ceiling' \in Seq(Campaign!Rows) /\ Len(ceiling') = Len(ceiling) + 1 /\ Len(ceiling) \in Nat
      /\ DOMAIN ceiling' = 1 .. Len(ceiling) + 1 /\ DOMAIN ceiling = 1 .. Len(ceiling)
      /\ ceiling'[Len(ceiling) + 1] = row
      /\ \A i \in DOMAIN ceiling : ceiling'[i] = ceiling[i]
    BY <1>1, <1>4 DEF CampaignTypes
<1>6. /\ queue' \in Seq(Campaign!CellNames) /\ DOMAIN queue = 1 .. Len(queue) /\ 1 \in DOMAIN queue /\ Len(queue) \in Nat
      /\ DOMAIN queue' = 1 .. Len(queue) - 1 /\ \A j \in DOMAIN queue' : queue'[j] = queue[j + 1]
      /\ Len(queue') = Len(queue) - 1
    BY <1>2 DEF CampaignTypes
<1>7. CampaignTypes' /\ Flags'
    <2>1. Flags'
        BY <1>2, Zenon DEF Flags
    <2> QED
        BY <1>2, <1>5, <1>6, <2>1 DEF CampaignTypes
<1>8. Installed' /\ InCells'
    BY <1>2, <1>3 DEF Installed, InCells
<1>9. RowsTrue'
    BY <1>2, <1>3, <1>4, <1>5 DEF RowsTrue
<1>10. GuardFirst' /\ AllHaveRows'
    <2>1. \A n : HasRows(n) => HasRows(n)'
        BY <1>2 DEF HasRows
    <2> QED
        BY <1>2, <1>3, <2>1 DEF GuardFirst, AllHaveRows
<1>11. InSweep'
    <2>1. row.cell = Ceiling[Len(ceiling) + 1]
        BY <1>2, <1>4, <1>6 DEF InSweep
    <2>2. \A i \in DOMAIN ceiling' : ceiling'[i].cell = Ceiling[i]
        BY <1>2, <1>5, <2>1 DEF InSweep
    <2>3. \A j \in DOMAIN queue' : queue'[j] = Ceiling[Len(ceiling') + j]
        <3> TAKE j \in DOMAIN queue'
        <3>1. j \in 1 .. Len(queue) - 1 /\ queue'[j] = queue[j + 1]
            BY <1>6
        <3>0. j \in Nat /\ 1 <= j /\ j + 1 <= Len(queue) /\ Len(queue) \in Nat
            BY <1>6, <3>1
        <3>2. j + 1 \in DOMAIN queue
            BY <1>6, <3>0
        <3>4. Len(ceiling) + (j + 1) = Len(ceiling') + j
            BY <1>5, <3>0
        <3>3. queue[j + 1] = Ceiling[Len(ceiling) + (j + 1)]
            BY <1>2, <3>2 DEF InSweep
        <3> QED
            BY <3>1, <3>2, <3>3, <3>4
    <2>4. Len(ceiling') + Len(queue') = Len(Ceiling)
        BY <1>2, <1>5, <1>6 DEF InSweep
    <2> QED
        BY <1>2, <2>2, <2>3, <2>4 DEF InSweep
<1>12. Campaign!ReportIsSound'
    BY <1>2 DEF Campaign!ReportIsSound, Campaign!NoReport, Campaign!Stable
<1> QED
    BY <1>7, <1>8, <1>9, <1>10, <1>11, <1>12

LEMMA WritesReport == ASSUME CampaignInv, Campaign!WriteReport PROVE CampaignInv'
<1> USE CampaignAssumption DEF CampaignInv, Campaign!call, Campaign!build
<1> DEFINE lines == rows \o ceiling
           stable == {i \in DOMAIN lines : Campaign!Stable(lines[i])}
<1>1. PICK best \in Campaign!Best(lines) : report' = [rows |-> lines, best |-> best]
    BY DEF Campaign!WriteReport, CampaignTypes
<1>2. /\ stage = "sweep" /\ queue = <<>> /\ stage' = "idle"
      /\ UNCHANGED <<Campaign!call, cand, queue, guardDone, app, built, rows, ceiling, csv>>
    BY DEF Campaign!WriteReport
<1>3. /\ Len(rows) \in Nat /\ Len(ceiling) = Len(Ceiling) /\ Len(Ceiling) \in Nat
      /\ Len(lines) = Len(rows) + Len(ceiling) /\ DOMAIN lines = 1 .. Len(rows) + Len(ceiling)
      /\ DOMAIN rows = 1 .. Len(rows) /\ DOMAIN ceiling = 1 .. Len(ceiling) /\ DOMAIN Ceiling = 1 .. Len(Ceiling)
      /\ \A i \in 1 .. Len(rows) : lines[i] = rows[i]
      /\ \A i \in 1 .. Len(ceiling) : lines[Len(rows) + i] = ceiling[i]
      /\ \A i \in Len(rows) + 1 .. Len(rows) + Len(ceiling) : lines[i] = ceiling[i - Len(rows)]
    BY <1>2 DEF CampaignTypes, InSweep
<1> HIDE DEF lines
<1>4. /\ best = <<>> <=> stable = {}
      /\ \A i \in DOMAIN best : /\ \E j \in stable : lines[j] = best[i]
                                /\ \A j \in stable : lines[j].rate <= best[i].rate
    <2>1. CASE \E i \in stable : best = <<lines[i]>> /\ \A j \in stable : lines[j].rate <= lines[i].rate
        BY <2>1
    <2>2. CASE best = <<>> /\ stable = {}
        BY <2>2
    <2> QED
        BY <2>1, <2>2 DEF Campaign!Best
<1>5. Len(lines) - Len(Ceiling) = Len(rows)
    BY <1>3
<1>6. \A i \in DOMAIN lines : lines[i].candidate = "sweep" <=> i > Len(rows)
    <2> TAKE i \in DOMAIN lines
    <2>1. CASE i <= Len(rows)
        <3>1. lines[i] = rows[i] /\ i \in DOMAIN rows
            BY <1>3, <2>1
        <3>2. lines[i].candidate # "sweep"
            BY <3>1 DEF RowsTrue
        <3> QED
            BY <1>3, <2>1, <3>2
    <2>2. CASE ~(i <= Len(rows))
        <3>1. lines[i] = ceiling[i - Len(rows)] /\ i - Len(rows) \in DOMAIN ceiling /\ i > Len(rows)
            BY <1>3, <2>2
        <3> QED
            BY <3>1 DEF RowsTrue
    <2> QED
        BY <2>1, <2>2
<1>7. \A i \in DOMAIN Ceiling : lines[Len(rows) + i].cell = Ceiling[i]
    BY <1>2, <1>3 DEF InSweep
<1>8. Campaign!ReportIsSound'
    <2>1. report'.rows = lines /\ report'.best = best
        BY <1>1
    <2>2. /\ report'.best = <<>> <=> stable = {}
          /\ \A i \in DOMAIN report'.best :
                /\ \E j \in stable : report'.rows[j] = report'.best[i]
                /\ \A j \in stable : report'.rows[j].rate <= report'.best[i].rate
        BY <1>4, <2>1
    <2>3. stable = {i \in DOMAIN report'.rows : Campaign!Stable(report'.rows[i])}
        BY <2>1
    <2> HIDE DEF stable
    <2>4. /\ Len(report'.rows) - Len(Ceiling) = Len(rows) /\ Len(rows) >= 0
          /\ \A i \in DOMAIN report'.rows : report'.rows[i].candidate = "sweep" <=> i > Len(rows)
          /\ \A i \in DOMAIN Ceiling : report'.rows[Len(rows) + i].cell = Ceiling[i]
        BY <1>3, <1>5, <1>6, <1>7, <2>1
    <2> QED
        BY <2>2, <2>3, <2>4 DEF Campaign!ReportIsSound, Campaign!Stable
<1>9. CampaignTypes' /\ Installed' /\ InCells' /\ InSweep'
    BY <1>2 DEF CampaignTypes, Installed, InCells, InSweep
<1>12. Flags'
    BY <1>2, Zenon DEF Flags
<1>10. RowsTrue' /\ UNCHANGED Measured
    BY <1>2 DEF RowsTrue, Measured, Defaults
<1>11. GuardFirst' /\ AllHaveRows'
    <2>1. \A n : HasRows(n) => HasRows(n)'
        BY <1>2 DEF HasRows
    <2> QED
        BY <1>2, <1>10, <2>1 DEF GuardFirst, AllHaveRows
<1> QED
    BY <1>8, <1>9, <1>10, <1>11, <1>12

LEMMA Raises == ASSUME CampaignInv, Campaign!Raise PROVE CampaignInv'
<1> USE DEF CampaignInv, Campaign!Raise, Campaign!call, Campaign!build, Campaign!data
<1>1. RowsTrue' /\ Campaign!ReportIsSound' /\ UNCHANGED <<Measured, Through>> /\ \A n : HasRows(n) => HasRows(n)'
    BY GoesOn
<1>2. CampaignTypes' /\ Installed' /\ InCells' /\ InSweep'
    BY DEF CampaignTypes, Installed, InCells, InSweep
<1>3. GuardFirst' /\ AllHaveRows'
    BY <1>1 DEF GuardFirst, AllHaveRows
<1>4. Flags'
    BY Zenon DEF Flags
<1> QED
    BY <1>1, <1>2, <1>3, <1>4

-----------------------------------------------------------------------------
LEMMA CampaignSteps == CampaignInv /\ [Campaign!Next]_campaignVars => CampaignInv'
<1> SUFFICES ASSUME CampaignInv, [Campaign!Next]_campaignVars PROVE CampaignInv'
    OBVIOUS
<1>1. CASE UNCHANGED campaignVars
    <2> USE <1>1 DEF campaignVars, CampaignInv
    <2>1. RowsTrue' /\ Campaign!ReportIsSound' /\ UNCHANGED <<Measured, Through>> /\ \A n : HasRows(n) => HasRows(n)'
        BY GoesOn DEF Campaign!call, Campaign!data
    <2>2. CampaignTypes' /\ Installed' /\ InCells' /\ InSweep'
        BY <2>1 DEF CampaignTypes, Installed, InCells, InSweep, Defaults
    <2>3. GuardFirst' /\ AllHaveRows'
        BY <2>1 DEF GuardFirst, AllHaveRows
    <2>4. Flags'
        BY Zenon DEF Flags
    <2> QED
        BY <2>1, <2>2, <2>3, <2>4
<1> QED
    BY <1>1, Starts, TestsRun, TakesNext, BuildsCandidate, FailsToBuild, MeasuresCell, EndsCells, EndsIngress,
       BuildsDefaults, MeasuresSweep, WritesReport, Raises, Zenon DEF Campaign!Next

LEMMA CampaignIsRight ==
    CampaignInv => /\ Campaign!TypeOK /\ Campaign!MeasuredOnItsBuild
                   /\ Campaign!CellsOfEveryCandidate /\ Campaign!ReportIsSound
<1> SUFFICES ASSUME CampaignInv
             PROVE  Campaign!TypeOK /\ Campaign!MeasuredOnItsBuild /\ Campaign!CellsOfEveryCandidate
    BY DEF CampaignInv
<1> USE DEF CampaignInv
<1>1. Campaign!TypeOK
    BY DEF Campaign!TypeOK, Campaign!Candidate, Flags, CampaignTypes, Installed
<1>2. Campaign!MeasuredOnItsBuild
    BY DEF Campaign!MeasuredOnItsBuild, RowsTrue, Defaults
<1>3. Campaign!CellsOfEveryCandidate
    BY DEF Campaign!CellsOfEveryCandidate, GuardFirst, Measured, AllHaveRows, HasRows
<1> QED
    BY <1>1, <1>2, <1>3

\* Only WriteReport writes a report.
LEMMA ReportedWithDefaults ==
    ASSUME CampaignInv, [Campaign!Next]_campaignVars, report' # report
    PROVE  built /\ app = Defaults
<1>1. Campaign!WriteReport
    <2> USE DEF Campaign!data
    <2>1. ~(UNCHANGED campaignVars)
        BY DEF campaignVars
    <2> QED
        BY <2>1 DEF Campaign!Next, Campaign!Start, Campaign!RunTests, Campaign!NextCandidate,
           Campaign!BuildCandidate, Campaign!BuildFails, Campaign!RunCell, Campaign!EndCells,
           Campaign!EndIngress, Campaign!BuildDefaults, Campaign!SweepCell, Campaign!Raise
<1> QED
    BY <1>1 DEF Campaign!WriteReport, CampaignInv, Installed

\* The rows of a profile were measured on the builds they name, its candidates
\* can be compared, and a report is complete and leaves the default settings.
THEOREM CampaignIsSoundHolds == ToolsSpec => CampaignIsSound
<1>1. ToolsInit => CampaignInv
    BY CampaignStarts DEF ToolsInit
<1>2. CampaignInv /\ [ToolsNext]_all => CampaignInv'
    BY CampaignSteps, StepsOfBuildTools, Zenon
<1>3. CampaignInv /\ [ToolsNext]_all
        => [report' # report => built /\ app = IF leaked THEN "leaked" ELSE "defaults"]_campaignVars
    BY StepsOfBuildTools, ReportedWithDefaults, Zenon DEF Defaults
<1> QED
    BY <1>1, <1>2, <1>3, CampaignIsRight, PTL DEF ToolsSpec, CampaignIsSound, Campaign!DefaultsAreBack, Campaign!vars,
       campaignVars
=============================================================================
