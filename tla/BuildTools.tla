------------------------------- MODULE BuildTools -------------------------------
(***************************************************************************)
(* The tools that make the generated files, check them, build the software *)
(* and measure it: RegArtifacts, PlContract, SsotScan, VitisBuild and      *)
(* ProfileCampaign.  Each module has what it needs of the others as        *)
(* choices of its own, so a behaviour is of one of them, and the variables *)
(* of the others rest.                                                     *)
(***************************************************************************)
EXTENDS RegArtifacts

CONSTANTS
    Outputs, Pixels, Banks, ControlRanges, RamEntries, RamWidths, Rooms, Strides,
    MaxWidth,                                                                      \* of PlContract
    MaxFiles, MaxLines,                                                            \* of SsotScan
    Envs, MaxBuildEdits, MaxMakes,                                                 \* of VitisBuild
    Known, Cells, GuardCell, Ceiling, Orders, SweepVerdicts, MaxRate, MaxCampaigns \* of ProfileCampaign

\* An output at least; no number needs more than MaxWidth bits.
ASSUME ContractAssumption ==
    /\ Outputs \subseteq Nat \ {0}
    /\ \A S \in {Pixels, Banks, ControlRanges, RamEntries, RamWidths, Rooms, Strides} : S \subseteq Nat
    /\ MaxWidth \in Nat
    /\ \A n \in Outputs \cup Pixels : n + 1 <= 2^MaxWidth
    /\ \A n \in ControlRanges : n <= 2^MaxWidth
    /\ \A e \in RamEntries, w \in RamWidths : e * (w \div 8) <= 2^MaxWidth

ASSUME ScanAssumption == MaxFiles \in Nat \ {0} /\ MaxLines \in Nat

ASSUME BuildAssumption == MaxBuildEdits \in Nat /\ MaxMakes \in Nat

\* GUARD_CELL is none of the PROFILE_CELLS (e131_ingress_profile.py:43), and no
\* candidate is called like the rows of the sweep, or like no application.
ASSUME CampaignAssumption ==
    /\ Known \subseteq STRING /\ "sweep" \notin Known /\ "none" \notin Known
    /\ Cells \in Seq(STRING) /\ GuardCell \in STRING /\ \A i \in DOMAIN Cells : Cells[i] # GuardCell
    /\ Ceiling \in Seq(STRING) /\ Orders \subseteq Seq(STRING)
    /\ SweepVerdicts \subseteq STRING /\ MaxRate \in Nat /\ MaxCampaigns \in Nat

VARIABLES
    tool,
    elaborated, step, config,
    repo, file, line, findings, exit,
    clock, src, version, derived, pkgAt, xsa, works, stamp, boot, loaded, goal, env, at, result,
    undisturbed, forced, fooled, changes, makes,
    candidates, alone, leaked, stage, cand, queue, guardDone, app, built, rows, ceiling, csv,
    report, campaigns

Contract == INSTANCE PlContract WITH rdl <- elaborated
Scan == INSTANCE SsotScan
Vitis == INSTANCE VitisBuild WITH
            rdl <- version, pc <- at, quiet <- undisturbed, edits <- changes, MaxEdits <- MaxBuildEdits
Campaign == INSTANCE ProfileCampaign WITH pc <- stage, stamp <- built

contractVars == <<elaborated, step, config>>
scanVars == <<repo, file, line, findings, exit>>
vitisVars == <<clock, src, version, derived, pkgAt, xsa, works, stamp, boot, loaded, goal, env,
               at, result, undisturbed, forced, fooled, changes, makes>>
campaignVars == <<candidates, alone, leaked, stage, cand, queue, guardDone, app, built, rows,
                  ceiling, csv, report, campaigns>>
all == <<tool, vars, contractVars, scanVars, vitisVars, campaignVars>>

Idle == "idle"

ToolsInit ==
    /\ tool \in {"registers", "contract", "scan", "build", "campaign"}
    /\ Init /\ Vitis!Init /\ Campaign!Init
    /\ IF tool = "contract" THEN Contract!Init
       ELSE elaborated = Idle /\ step = Idle /\ config = Idle
    /\ IF tool = "scan" THEN Scan!Init
       ELSE repo = <<>> /\ file = 1 /\ line = 1 /\ findings = {} /\ exit = "none"

ToolsNext ==
    \/ tool = "registers" /\ Next /\ UNCHANGED <<tool, contractVars, scanVars, vitisVars, campaignVars>>
    \/ tool = "contract" /\ Contract!Next /\ UNCHANGED <<tool, vars, scanVars, vitisVars, campaignVars>>
    \/ tool = "scan" /\ Scan!Next /\ UNCHANGED <<tool, vars, contractVars, vitisVars, campaignVars>>
    \/ tool = "build" /\ Vitis!Next /\ UNCHANGED <<tool, vars, contractVars, scanVars, campaignVars>>
    \/ tool = "campaign" /\ Campaign!Next /\ UNCHANGED <<tool, vars, contractVars, scanVars, vitisVars>>

ToolsSpec == ToolsInit /\ [][ToolsNext]_all

----------------------------------------------------------------------------
\* What the checks accept: RegArtifacts, that the two of them accept what an
\* undisturbed make regs wrote and that ssot-check accepts one configuration;
\* SsotScan, that a copied value (above 16, on a line without a generated
\* constant) fails the check outside the matrices and no finding hides another; PlContract, that a contract the generator accepts
\* reaches every word of both banks, every count and every output's registers.
ChecksAreSound ==
    /\ TypeOK /\ RegsSatisfiesChecks /\ ConfigsAgree
    /\ Scan!TypeOK /\ Scan!CopiesElsewhereFail /\ Scan!AllAreReported /\ Scan!VerdictIsFindings
    /\ tool = "contract" =>
         /\ Contract!TypeOK /\ Contract!BanksAddressable /\ Contract!WidthsExact
         /\ Contract!EveryOutputHasItsRegisters

\* VitisBuild: a make that succeeds leaves one build, of the current sources,
\* constants, hardware and environment, with every patch.
BuildIsCurrent ==
    /\ Vitis!TypeOK /\ Vitis!SuccessIsCurrent /\ Vitis!OneBuild /\ Vitis!EnvironmentIsBuilt
    /\ Vitis!PatchesApplied

\* ProfileCampaign: every row was measured on the build it names, candidates
\* can be compared, a report is of a complete campaign, and when it is written
\* the default settings are back.
CampaignIsSound ==
    /\ [](/\ Campaign!TypeOK /\ Campaign!MeasuredOnItsBuild
          /\ Campaign!CellsOfEveryCandidate /\ Campaign!ReportIsSound)
    /\ Campaign!DefaultsAreBack
=============================================================================
