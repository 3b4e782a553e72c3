------------------------------ MODULE SsotScan ------------------------------
(***************************************************************************)
(* The scan of hw/regs/ssot_check.py (make ssot-check) for copies of the   *)
(* contract outside the register description and what is generated from    *)
(* it.  Every tracked file is read line by line; a line is known by what   *)
(* the scan's regular expressions and number comparison see in it.  The    *)
(* comparison of the generated configurations that precedes the scan is in *)
(* module RegArtifacts; here it found something or it did not.             *)
(***************************************************************************)
EXTENDS Integers, Sequences

CONSTANTS
    MaxFiles,   \* files of a repository
    MaxLines    \* lines of a file

\* A file of the contract (or under a generated directory), one of the
\* benchmarks' matrices, the ingress profile (which is a matrix too), any other
\* text, and files that are not read: not UTF-8, deleted, or not tracked.
Kinds == {"contract", "matrix", "ingress", "text", "binary", "deleted", "untracked"}
Listed(kind) == kind \notin {"untracked", "deleted"}
AllowedPath(kind) == kind = "contract"
MatrixPath(kind) == kind \in {"matrix", "ingress"}

\* What a line shows: a name of the strict kind; a number of the contract above
\* 16, a number of it up to 16, or no such number; the pattern of a local
\* default; a name from the generated configurations; the hardware's old name;
\* and, in a matrix, the name of an lwIP setting, a literal candidate or the
\* name of a matrix.
Numbers == {"copied", "small", "none"}
Markers == {"lwip", "candidate", "matrix", "none"}
Lines ==
    {l \in [strict : BOOLEAN, number : Numbers, default : BOOLEAN, generated : BOOLEAN,
            legacy : BOOLEAN, marker : Markers] :
        \* A setting's name and a literal candidate contain a strict name.
        l.marker \in {"lwip", "candidate"} => l.strict}

VARIABLES
    repo,       \* sequence of files: a kind and lines
    file, line, \* position of the scan
    findings,   \* what was found: <<file, line, reason>>, or the contract's own
    exit        \* "none" while it runs

vars == <<repo, file, line, findings, exit>>

\* Files of a few plain lines and at most one of any shape.
Plain == [strict |-> FALSE, number |-> "copied", default |-> FALSE, generated |-> FALSE,
          legacy |-> FALSE, marker |-> "none"]
Copy == [Plain EXCEPT !.strict = TRUE]
SourcedDefault == [Plain EXCEPT !.default = TRUE, !.generated = TRUE]
Files ==
    {[kind |-> k, lines |-> s] : k \in Kinds,
        s \in UNION {[1..n -> {Plain, Copy, SourcedDefault}] : n \in 0..MaxLines}}
OneLiners == {[kind |-> k, lines |-> <<l>>] : k \in Kinds, l \in Lines}

Init ==
    /\ \E f \in OneLiners, n \in 0..(MaxFiles - 1) : \E s \in [1..n -> Files] : repo = <<f>> \o s
    /\ file = 1 /\ line = 1 /\ exit = "none"
    /\ findings \in {{}, {<<0, 0, "contract">>}}

Current == repo[file]
TextLines == IF Current.kind = "binary" THEN <<>> ELSE Current.lines

\* tracked_files names the files that git tracks and that exist; those of the
\* contract are passed over.
Scanned(f) == Listed(f.kind) /\ ~AllowedPath(f.kind)

\* What is exempt in the benchmarks' files.
ExemptInMatrix(l) ==
    /\ MatrixPath(Current.kind)
    /\ \/ Current.kind = "ingress" /\ l.marker \in {"lwip", "candidate"}
       \/ l.marker \in {"candidate", "matrix"}

\* What the scan holds against a line.
Reasons(l) ==
    (IF l.legacy THEN {"legacy"} ELSE {})
    \cup (IF l.generated \/ ExemptInMatrix(l) THEN {}
          ELSE IF l.default THEN {"default"}
          ELSE IF l.strict /\ l.number = "copied" THEN {"value"} ELSE {})

ScanLine ==
    /\ exit = "none" /\ file <= Len(repo) /\ Scanned(Current)
    /\ line <= Len(TextLines)
    /\ findings' = findings \cup {<<file, line, why>> : why \in Reasons(TextLines[line])}
    /\ line' = line + 1
    /\ UNCHANGED <<repo, file, exit>>

NextFile ==
    /\ exit = "none" /\ file <= Len(repo)
    /\ Scanned(Current) => line > Len(TextLines)
    /\ file' = file + 1 /\ line' = 1
    /\ UNCHANGED <<repo, findings, exit>>

Finish ==
    /\ exit = "none" /\ file > Len(repo)
    /\ exit' = IF findings = {} THEN "passed" ELSE "failed"
    /\ UNCHANGED <<repo, file, line, findings>>

Next == ScanLine \/ NextFile \/ Finish
Spec == Init /\ [][Next]_vars

-----------------------------------------------------------------------------
(* Properties.                                                            *)

\* The state's shape; the scan stays inside the files it lists.
TypeOK ==
    /\ file \in 1..(Len(repo) + 1) /\ line \in 1..(MaxLines + 2)
    /\ exit \in {"none", "passed", "failed"}
    /\ \A f \in findings : f[1] \in 0..Len(repo) /\ f[1] <= file

\* A copy of the contract, or a default of its own, that names no generated
\* constant on the same line.
Copied(l) == ~l.generated /\ (l.default \/ (l.strict /\ l.number = "copied"))

\* The exemption of the matrices is by path, so that a default copied elsewhere
\* fails (hw/regs/ssot_check.py:32-33): when the check passes, no text that is
\* neither part of the contract nor a matrix names a contract constant beside
\* its value, or states a default. Two kinds of line the scan lets through
\* anywhere: one that also names a generated constant, and values up to 16.
CopiesElsewhereFail ==
    exit = "passed" =>
        \A i \in DOMAIN repo : repo[i].kind = "text" =>
            \A n \in DOMAIN repo[i].lines : ~Copied(repo[i].lines[n])

\* One finding hides no other: when the check fails, every such line has been
\* reported, and the old hardware's name in any file that is scanned.
AllAreReported ==
    exit # "none" =>
        \A i \in DOMAIN repo : \A n \in DOMAIN repo[i].lines :
            LET kind == repo[i].kind
                l == repo[i].lines[n]
            IN  /\ kind = "text" /\ Copied(l) => \E why \in {"default", "value"} : <<i, n, why>> \in findings
                /\ kind \in {"text", "matrix", "ingress"} /\ l.legacy => <<i, n, "legacy">> \in findings

\* The check passes only if the generated configurations agreed, and fails only
\* for a reason it reports.
VerdictIsFindings == exit # "none" => (exit = "failed" <=> findings # {})
=============================================================================
