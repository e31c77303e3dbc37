------------------------------ MODULE RunReport ------------------------------
(***************************************************************************)
(* core/bench/store.rs and judge.rs: what a finished or interrupted run is *)
(* reported as.  The rows of a run are told apart by their key, so they    *)
(* are taken as a set.  A score is an integer, a mean is a pair            *)
(* <<sum, count>>, and what the wording of a line says beyond its numbers  *)
(* is left out.                                                            *)
(*                                                                         *)
(*   agentic:    [suite, case, door, mark]                                 *)
(*   throughput: [suite, case, door, samples]                              *)
(*   codebase:   [suite, case, door, mark, tier, arm, unsupported, fill,   *)
(*                score, exec, sent]                                       *)
(*   judge:      [suite, case, door, goldFirst, predictionFirst, decided,  *)
(*                equivalent]                                              *)
(***************************************************************************)
EXTENDS Stats, FiniteSets, FiniteSetsExt

CONSTANTS
    NoScore,     \* a tier with nothing to score
    NoAnswer,    \* an order of the judge's question that was not answered
    NoExec,      \* a crossing of a run that executes nothing
    Absent,      \* a line that is not printed
    NotMeasured, \* a line that says N/A
    Voided       \* a judge too inconsistent to be believed

NoJudge == [model |-> "none", minConsistency |-> 0]

Buffered == "buffered"
Streamed == "streamed"
Agentic == {"tool_emit", "grammar_gap", "instruction"}
Paired == {"tool_emit", "instruction"}

RowsOf(run, suite) == {r \in ToSet(run.rows) : r.suite = suite}
RowsVia(run, suite, door) == {r \in RowsOf(run, suite) : r.door = door}

-----------------------------------------------------------------------------
(* The agentic suites.                                                     *)

IsUnavailable(row) == row.mark = "unavailable"

\* Neither the numerator nor the denominator has what was never measured.
Measured(rows) == {r \in rows : ~IsUnavailable(r)}

Counted(rows, passing) ==
    [ passed |-> Cardinality({r \in Measured(rows) : r.mark \in passing}),
      total |-> Cardinality(Measured(rows)),
      excluded |-> Cardinality(rows \ Measured(rows)) ]

\* The strict count, and the one that lets a chatty answer through.
Tally(rows) == Counted(rows, {"pass"})
LooseTally(rows) == Counted(rows, {"pass", "loose"})

\* tool_emit_line and instruction_line.
SuiteLine(rows, tally) == IF rows = {} THEN Absent ELSE IF tally.total = 0 THEN NotMeasured ELSE tally

ToolEmitLine(run, door) == LET rows == RowsVia(run, "tool_emit", door) IN SuiteLine(rows, Tally(rows))
InstructionLine(run, door) ==
    LET rows == RowsVia(run, "instruction", door)
    IN  [strict |-> SuiteLine(rows, Tally(rows)), loose |-> SuiteLine(rows, LooseTally(rows))]

\* The buffered tool cases whose forced form was measured.
UnconstrainedArm(forced, emit) ==
    {r \in emit : r.door = Buffered /\ \E f \in Measured(forced) : f.case = r.case}

Percent(tally) == (tally.passed * 100) \div Larger(tally.total, 1)

\* Forced minus unconstrained, in points.
GrammarGapLine(run) ==
    LET forced == RowsOf(run, "grammar_gap")
        arm == Tally(forced)
        plain == Tally(UnconstrainedArm(forced, RowsOf(run, "tool_emit")))
    IN  IF forced = {} THEN Absent
        ELSE IF arm.total = 0 THEN NotMeasured
        ELSE [ forced |-> arm, plain |-> plain,
               gap |-> IF plain.total = 0 THEN NotMeasured ELSE Percent(arm) - Percent(plain) ]

\* suite_summaries: every measured case that did not pass is listed.
FailLines(run) == {r \in ToSet(run.rows) : r.suite \in Agentic /\ r.mark \in {"fail", "loose"}}

\* The cases measured through both doors that came out differently.
Asymmetries(run) ==
    { c \in Paired \X {r.case : r \in {q \in ToSet(run.rows) : q.suite \in Paired}} :
        \E b \in Measured(RowsVia(run, c[1], Buffered)), s \in Measured(RowsVia(run, c[1], Streamed)) :
            b.case = c[2] /\ s.case = c[2] /\ (b.mark = "pass") # (s.mark = "pass") }

-----------------------------------------------------------------------------
(* The codebase suite.                                                     *)

LadderTiers == {"exact", "edit_sim", "ident_f1", "parse", "symbols"}
ExecTiers == {"compile", "test"}
LiftTiers == LadderTiers \cup ExecTiers

\* A tier's value on one row, NoScore where it was skipped.
ValueOf(row, tier) ==
    IF tier \in LadderTiers THEN row.score[tier]
    ELSE IF row.exec = NoExec THEN NoScore ELSE row.exec[tier]

\* The mean over the items that have a value.
Mean(value) ==
    LET scored == {i \in DOMAIN value : value[i] # NoScore}
    IN  IF scored = {} THEN NoScore ELSE <<MapThenSumSet(LAMBDA i : value[i], scored), Cardinality(scored)>>

GroupOf(kept, tier, arm) == {r \in kept : r.tier = tier /\ r.arm = arm}
TierTasks(kept, tier) == {r.case : r \in {q \in kept : q.tier = tier}}

\* exec_cells: `covered` is how many crossings had a covering test.
ExecCells(group) ==
    LET execs == {r \in group : r.exec # NoExec}
    IN  [ total |-> Cardinality(execs), covered |-> Cardinality({r \in execs : r.exec.covered}) ]

ScoresLine(group) ==
    IF group = {} THEN Absent
    ELSE [ n |-> Cardinality(group), exec |-> ExecCells(group),
           means |-> [t \in LiftTiers |-> Mean([r \in group |-> ValueOf(r, t)])] ]

\* The cross-file tasks measured on both arms.
ArmPairs(kept) ==
    { p \in GroupOf(kept, "cross_file_first", "no_extra") \X GroupOf(kept, "cross_file_first", "extra") :
        p[1].case = p[2].case }

\* extra - no_extra, NoScore when either arm has no value.
LiftOf(arms, tier) ==
    IF NoScore \in {ValueOf(arms[1], tier), ValueOf(arms[2], tier)} THEN NoScore
    ELSE ValueOf(arms[2], tier) - ValueOf(arms[1], tier)

\* exec_delta_cells: nothing when neither arm ever ran the exec tiers.
ExecDelta(pairs) ==
    IF \A p \in pairs : p[1].exec = NoExec /\ p[2].exec = NoExec THEN Absent
    ELSE [t \in ExecTiers |-> Mean([p \in pairs |-> LiftOf(p, t)])]

\* lift_note: of how many tasks, and what the lift was bought with.
LiftNote(kept, pairs) ==
    [ pairs |-> Cardinality(pairs), tasks |-> Cardinality(TierTasks(kept, "cross_file_first")),
      sent |-> Cardinality({p \in pairs : p[2].sent}) ]

LiftLine(kept) ==
    LET pairs == ArmPairs(kept)
    IN  IF pairs = {} THEN Absent
        ELSE [ means |-> [t \in LadderTiers |-> Mean([p \in pairs |-> LiftOf(p, t)])],
               exec |-> ExecDelta(pairs), note |-> LiftNote(kept, pairs) ]

\* No cross-file task was sampled, none was answered (two absent lines), or
\* two lines and a lift.
CrossLines(rows, kept) ==
    [ sampled |-> \E r \in rows : r.tier = "cross_file_first",
      without |-> ScoresLine(GroupOf(kept, "cross_file_first", "no_extra")),
      with |-> ScoresLine(GroupOf(kept, "cross_file_first", "extra")),
      lift |-> LiftLine(kept) ]

\* What the exec tiers cost, or why there are none: no flag, one reason for
\* every crossing, or the skips by reason.
ExecTrailer(kept, stamp) ==
    LET execs == {r.exec : r \in {q \in kept : q.exec # NoExec}}
        skips(why) == Cardinality({r \in kept : r.exec # NoExec /\ r.exec.compile = NoScore /\ r.exec.why = why})
        reasons == {e.why : e \in {x \in execs : x.compile = NoScore}}
    IN  IF execs = {} \/ ~stamp.exec THEN "not given"
        ELSE IF \A e \in execs : e.compile = NoScore THEN reasons
        ELSE [why \in reasons |-> skips(why)]

-----------------------------------------------------------------------------
(* The judge.                                                              *)

\* eligibility: answered function bodies; what does not compile is decided.
Eligibility(row) ==
    IF row.tier # "function_body" \/ row.fill = "empty" THEN "none"
    ELSE IF row.exec # NoExec /\ row.exec.compile = 0 THEN "skipped"
    ELSE IF row.fill = "same" THEN "identical" ELSE "judge"

Verdict(case, gold, prediction, decided, equivalent) ==
    [ suite |-> "judge", case |-> case, door |-> Buffered,
      goldFirst |-> gold, predictionFirst |-> prediction, decided |-> decided, equivalent |-> equivalent ]

\* combine: the two orders agree, or there is no verdict.
Combine(case, gold, prediction) ==
    IF NoAnswer \in {gold, prediction} THEN Verdict(case, gold, prediction, "skipped", NoAnswer)
    ELSE IF gold = prediction THEN Verdict(case, gold, prediction, "agreement", gold)
    ELSE Verdict(case, gold, prediction, "disagreement", NoAnswer)

\* verdict_for: every verdict row a crossing may get.
VerdictsFor(row) ==
    LET kind == Eligibility(row)
        answers == BOOLEAN \cup {NoAnswer}
    IN  CASE kind = "none" -> {}
          [] kind = "skipped" -> {Verdict(row.case, NoAnswer, NoAnswer, "skipped", NoAnswer)}
          [] kind = "identical" -> {Verdict(row.case, NoAnswer, NoAnswer, "identical", TRUE)}
          [] kind = "judge" -> {Combine(row.case, g, p) : g \in answers, p \in answers}

\* How often the two orders agree, in rounded percent.
ConsistencyPct(verdicts) ==
    LET answered == {v \in verdicts : v.goldFirst # NoAnswer /\ v.predictionFirst # NoAnswer}
        agreed == {v \in answered : v.goldFirst = v.predictionFirst}
        n == Cardinality(answered)
    IN  IF n = 0 THEN NoScore ELSE (Cardinality(agreed) * 100 + n \div 2) \div n

\* judge_cell: a mean, nothing to average, or voided.
JudgeCell(run) ==
    LET verdicts == RowsOf(run, "judge")
        rate == ConsistencyPct(verdicts)
        judged == {v \in verdicts : v.equivalent # NoAnswer}
    IN  IF run.stamp.judge = NoJudge \/ verdicts = {} THEN Absent
        ELSE IF rate # NoScore /\ rate < run.stamp.judge.minConsistency THEN Voided
        ELSE IF judged = {} THEN NotMeasured
        ELSE Mean([v \in judged |-> IF v.equivalent THEN 1 ELSE 0])

\* judge_trailer: how the crossings were settled, or why none was.
JudgeTrailer(run, kept) ==
    LET verdicts == RowsOf(run, "judge")
        count(decided) == Cardinality({v \in verdicts : v.decided = decided})
    IN  IF run.stamp.judge = NoJudge THEN "not given"
        ELSE IF verdicts = {} THEN IF TierTasks(kept, "function_body") = {} THEN "nothing eligible" ELSE "owed"
        ELSE [identical |-> count("identical"), undecided |-> count("disagreement"), skipped |-> count("skipped")]

\* render_codebase.
CodebaseBlock(run) ==
    LET rows == RowsOf(run, "codebase")
        kept == Measured(rows)
    IN  IF rows = {} THEN Absent
        ELSE IF kept = {} THEN [unsupported |-> \A r \in rows : r.unsupported]
        ELSE [ inFile |-> ScoresLine(GroupOf(kept, "in_file", "none")),
               body |-> ScoresLine(GroupOf(kept, "function_body", "none")),
               equiv |-> JudgeCell(run),
               cross |-> CrossLines(rows, kept),
               exec |-> ExecTrailer(kept, run.stamp),
               judge |-> JudgeTrailer(run, kept),
               crossings |-> Cardinality(kept), excluded |-> Cardinality(rows \ kept) ]

\* throughput_table: the depths with samples enough to summarise.
DepthTable(run) ==
    { [depth |-> r.case, decode |-> Summarize(r.samples)] : r \in RowsOf(run, "throughput") }
=============================================================================
