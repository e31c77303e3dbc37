------------------------------ MODULE Reports -------------------------------
(***************************************************************************)
(* Two runs, "a" and "b", that may each have stopped anywhere, and what    *)
(* `chekov models capability report` and `compare` say of them.  A run is  *)
(* a prefix of its plan: every step of the plan appends one of the rows    *)
(* the crossing can be recorded as, or the verdict of the judge on a fill  *)
(* recorded before.                                                        *)
(***************************************************************************)
EXTENDS Compare

\* [stamps: of "a" and "b", opts: of the comparison, plan: a sequence of
\* [may: the rows a crossing can be recorded as, judges: a case or ""]].
CONSTANT Scenarios

VARIABLES
    scenario,   \* what the two runs measure and how they are compared
    runs,       \* what is on disk: a stamp and the rows under it
    pos         \* how far each run has come in its plan

vars == <<scenario, runs, pos>>

Init ==
    /\ scenario \in Scenarios
    /\ runs = [x \in {"a", "b"} |-> [stamp |-> scenario.stamps[x], rows |-> <<>>]]
    /\ pos = [x \in {"a", "b"} |-> 1]

Step(x, judges) == pos[x] \in DOMAIN scenario.plan /\ (scenario.plan[pos[x]].judges # "") = judges

Recorded(x, row) ==
    /\ runs' = [runs EXCEPT ![x].rows = Append(@, row)]
    /\ pos' = [pos EXCEPT ![x] = @ + 1]
    /\ UNCHANGED scenario

\* RunWriter::append, once per crossing.
Cross(x) == Step(x, FALSE) /\ \E row \in scenario.plan[pos[x]].may : Recorded(x, row)

\* The fill that this step of the plan would have judged.
Candidates(x) == {r \in RowsOf(runs[x], "codebase") : r.case = scenario.plan[pos[x]].judges}

\* judge_pass: a run stamped with a judge gets a verdict on every answer.
AskJudge(x) ==
    /\ Step(x, TRUE)
    /\ runs[x].stamp.judge # NoJudge
    /\ \E r \in Candidates(x) : \E v \in VerdictsFor(r) : Recorded(x, v)

\* Nothing was answered, or there is no judge.
NothingToJudge(x) ==
    /\ Step(x, TRUE)
    /\ runs[x].stamp.judge = NoJudge \/ UNION {VerdictsFor(r) : r \in Candidates(x)} = {}
    /\ pos' = [pos EXCEPT ![x] = @ + 1]
    /\ UNCHANGED <<scenario, runs>>

Next == \E x \in {"a", "b"} : Cross(x) \/ AskJudge(x) \/ NothingToJudge(x)

Spec == Init /\ [][Next]_vars

\* `compare`: two runs by their ids, either first.
Compared(x, y) == CompareRuns(runs[x], runs[y], scenario.opts)

-----------------------------------------------------------------------------
(* Properties.                                                             *)

Swap(pair) == <<pair[2], pair[1]>>
Opposite(verdict) == CASE verdict = Faster -> Slower [] verdict = Slower -> Faster [] OTHER -> verdict

Mirrored(c) ==
    IF c.refused # "none" THEN c
    ELSE [ refused |-> "none", masked |-> c.masked,
           depths |-> {[depth |-> d.depth, a |-> d.b, b |-> d.a, verdict |-> Opposite(d.verdict)] : d \in c.depths},
           agentic |-> [ presence |-> Swap(c.agentic.presence), totals |-> Swap(c.agentic.totals),
                         disagreements |-> {Swap(p) : p \in c.agentic.disagreements},
                         onlyIn |-> Swap(c.agentic.onlyIn), unavailable |-> Swap(c.agentic.unavailable) ],
           codebase |-> [ c.codebase EXCEPT
                            !.presence = Swap(@),
                            !.tiers = {[d EXCEPT !.means = Swap(@), !.aBetter = d.bBetter, !.bBetter = d.aBetter,
                                                 !.verdict = Opposite(@)] : d \in @} ] ]

\* Comparing b with a says what comparing a with b says, with the sides
\* changed: which run is named first decides neither whether they may be
\* compared, nor what is counted, nor who is better.
ComparisonMirrors ==
    Compared("b", "a") = Mirrored(Compared("a", "b"))

Keys(run) == {<<r.suite, r.case, r.door>> : r \in GradedAgentic(run)}
Shown(tally, line) == IF tally.total = 0 THEN line = NotMeasured ELSE line = tally

\* The figures of a comparison are those of the run's own report.
TotalsReported(totals, run) ==
    LET gap == GrammarGapLine(run)
    IN  /\ \A door \in {Buffered, Streamed} :
              /\ IF door \in DOMAIN totals.tool_emit
                 THEN Shown(totals.tool_emit[door], ToolEmitLine(run, door))
                 ELSE ToolEmitLine(run, door) = Absent
              /\ IF door \in DOMAIN totals.strict
                 THEN /\ Shown(totals.strict[door], InstructionLine(run, door).strict)
                      /\ Shown(totals.loose[door], InstructionLine(run, door).loose)
                      /\ totals.strict[door].passed <= totals.loose[door].passed
                 ELSE InstructionLine(run, door).strict = Absent
        /\ CASE gap = Absent -> totals.forced = Absent
             [] gap = NotMeasured -> totals.forced.total = 0
             [] OTHER -> totals.forced = gap.forced /\ totals.unconstrained = gap.plain

\* The means a report prints, one per tier that was scored.
LineMeans(group, line, tiers) ==
    IF line = Absent THEN {} ELSE {<<group, t, line.means[t]>> : t \in {u \in tiers : line.means[u] # NoScore}}

ReportedMeans(run) ==
    LET rows == CodebaseRows(run)
        kept == Measured(rows)
        block == CodebaseBlock(run)
        cross == block.cross
        scored(tier, line) == LineMeans(<<tier, FALSE>>, line, LadderTiers)
    IN  IF kept = {} THEN {}
        ELSE scored("in_file", block.inFile) \cup scored("function_body", block.body)
             \cup scored("cross_file_first", cross.without)
             \cup LineMeans(<<"cross_file_first", TRUE>>, cross.with, LadderTiers)
             \cup LineMeans(LiftGroup, cross.lift, LadderTiers)
             \cup (IF cross.lift = Absent \/ cross.lift.exec = Absent THEN {}
                   ELSE LineMeans(LiftGroup, [means |-> cross.lift.exec], ExecTiers))
             \cup (IF block.equiv \in {Absent, NotMeasured, Voided} THEN {}
                   ELSE {<<<<"function_body", FALSE>>, "equiv", block.equiv>>})

Other(x) == IF x = "a" THEN "b" ELSE "a"

\* A comparison counts as the report counts ("a comparison that counted
\* differently from the report would make one of them a liar"): over two runs
\* of the same cases its totals are the two reports' lines and a case that
\* separates them is listed as failed by exactly one; a case that separates a
\* run's two doors is listed as failed; and a run held
\* against itself shows no finding and the means and exclusions of its own
\* report, but for an equiv the report voids as inconsistent.  (That last part
\* does not depend on the other run, and is asked while the other is empty.)
ReportAgrees ==
    /\ LET c == Compared("a", "b")
       IN  Keys(runs["a"]) = Keys(runs["b"]) /\ c.refused = "none" =>
               /\ TotalsReported(c.agentic.totals[1], runs["a"])
               /\ TotalsReported(c.agentic.totals[2], runs["b"])
               /\ c.agentic.onlyIn = <<{}, {}>>
               /\ \A p \in c.agentic.disagreements :
                      (p[1] \in FailLines(runs["a"])) # (p[2] \in FailLines(runs["b"]))
    /\ \A x \in {"a", "b"} : runs[Other(x)].rows = <<>> =>
           LET c == Compared(x, x)
               tiers == {d \in c.codebase.tiers : d.tier # "equiv" \/ JudgeCell(runs[x]) # Voided}
           IN  /\ c.refused = "none" /\ c.agentic.disagreements = {}
               /\ \A a \in Asymmetries(runs[x]) : \E r \in FailLines(runs[x]) : <<r.suite, r.case>> = a
               /\ \A d \in c.codebase.tiers : d.aBetter = 0 /\ d.bBetter = 0 /\ d.verdict = NoDifference
               /\ {<<d.group, d.tier, d.means[1]>> : d \in tiers} = ReportedMeans(runs[x])
               /\ {<<d.group, d.tier, d.means[2]>> : d \in tiers} = ReportedMeans(runs[x])
               /\ SumFunction(c.codebase.dropped) = Cardinality(CodebaseRows(runs[x]) \ Measured(CodebaseRows(runs[x])))

\* The chance, in n fair tosses, of a split at least as uneven as k to n - k.
TwoSided(n, k) == Cardinality({w \in SUBSET (1..n) : Cardinality(w) <= k \/ Cardinality(w) >= n - k})
MaxUntied == 7
Significant == [n \in 1..MaxUntied |-> [k \in 0..n \div 2 |-> 20 * (IF 2 * k = n THEN 2 ^ n ELSE TwoSided(n, k)) < 2 ^ n]]

\* A run is called better on a tier exactly when a fair coin would split the
\* untied tasks that unevenly less than one time in twenty, and when the test
\* reaches that far: three against none is no finding, six against none is.
SignTestIsExact ==
    LET c == Compared("a", "b")
    IN  c.refused = "none" => \A d \in c.codebase.tiers :
            LET n == d.aBetter + d.bBetter
                k == Min({d.aBetter, d.bBetter})
            IN  /\ n <= MaxUntied
                /\ (d.verdict # NoDifference) = (n \in 1..MaxSignTestN /\ Significant[n][k])
                /\ d.verdict = Faster => d.aBetter > d.bBetter
                /\ d.verdict = Slower => d.aBetter < d.bBetter
=============================================================================
