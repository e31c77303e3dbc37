------------------------------ MODULE Compare -------------------------------
(***************************************************************************)
(* core/bench/compare.rs: two stored runs held against each other.  The    *)
(* stamp refuses when the environments differ, the model being what is     *)
(* compared; every section then counts the crossings both runs hold.       *)
(*                                                                         *)
(* As in RunStore, one field of the stamp stands for its neighbours: here  *)
(* the launch flags are apart from the engine, because one of the options  *)
(* masks them alone.                                                       *)
(***************************************************************************)
EXTENDS RunReport

CONSTANT MaxSignTestN   \* more untied pairs than this are not tested (100)

Fields == <<"machine", "runtime", "engine", "weights", "ctx", "flags", "exec", "prompts", "corpus", "judge">>
ModelFields == {"weights", "judge"}
RuntimeAllowed == {"runtime", "engine", "ctx", "flags", "prompts"}
FlagsAllowed == {"flags"}

\* assert_same_environment: the first differing field that nothing masks.
Masked(opts) ==
    ModelFields \cup (IF opts.runtime THEN RuntimeAllowed ELSE {}) \cup (IF opts.flags THEN FlagsAllowed ELSE {})

Refusal(a, b, opts) ==
    LET differing == {i \in DOMAIN Fields : Fields[i] \notin Masked(opts) /\ a[Fields[i]] # b[Fields[i]]}
    IN  IF differing = {} THEN "none" ELSE Fields[Min(differing)]

\* The cross-runtime and cross-flags banners name what was masked and differs.
Banner(a, b, allowed) == {f \in allowed : a[f] # b[f]}

\* Which of the two runs recorded a section at all.
Presence(rowsA, rowsB) == <<rowsA # {}, rowsB # {}>>

\* The throughput depths both runs measured well enough to summarise.
DepthComparisons(a, b, significance) ==
    { [ depth |-> p[1].depth, a |-> p[1].decode, b |-> p[2].decode,
        verdict |-> Compare(p[1].decode, p[2].decode, significance) ]
      : p \in { q \in DepthTable(a) \X DepthTable(b) :
                    q[1].depth = q[2].depth /\ NoSummary \notin {q[1].decode, q[2].decode} } }

-----------------------------------------------------------------------------
(* The agentic suites: a crossing is its suite, its case and its door.     *)

GradedAgentic(run) == {r \in ToSet(run.rows) : r.suite \in Agentic}
SameCase(r, q) == r.suite = q.suite /\ r.case = q.case /\ r.door = q.door

\* The two ends of every crossing both runs graded.
AgenticPairs(a, b) == {p \in GradedAgentic(a) \X GradedAgentic(b) : SameCase(p[1], p[2])}
OnlyIn(from, other) == {r \in GradedAgentic(from) : ~\E q \in GradedAgentic(other) : SameCase(r, q)}

\* agentic_totals: the report's own lines, each over one side of the pairs.
Totals(rows) ==
    LET of(suite) == {r \in rows : r.suite = suite}
        via(suite, door) == {r \in of(suite) : r.door = door}
        paired(suite) == [door \in {Buffered, Streamed} |-> via(suite, door)]
        cells(groups, tally(_)) == [d \in {e \in DOMAIN groups : groups[e] # {}} |-> tally(groups[d])]
    IN  [ tool_emit |-> cells(paired("tool_emit"), Tally),
          forced |-> IF of("grammar_gap") = {} THEN Absent ELSE Tally(of("grammar_gap")),
          unconstrained |-> IF of("grammar_gap") = {} THEN Absent
                            ELSE Tally(UnconstrainedArm(of("grammar_gap"), of("tool_emit"))),
          strict |-> cells(paired("instruction"), Tally),
          loose |-> cells(paired("instruction"), LooseTally) ]

\* Mutant: a case that was not measured on one side is one it failed.
DisagreesAnyway(p) == (p[1].mark = "pass") # (p[2].mark = "pass")

\* case_delta: exactly one side passed, and both were measured.
Disagrees(p) ==
    /\ ~IsUnavailable(p[1])
    /\ ~IsUnavailable(p[2])
    /\ (p[1].mark = "pass") # (p[2].mark = "pass")

AgenticSection(a, b) ==
    LET pairs == AgenticPairs(a, b)
        side(i) == {p[i] : p \in pairs}
    IN  [ presence |-> Presence(GradedAgentic(a), GradedAgentic(b)),
          totals |-> <<Totals(side(1)), Totals(side(2))>>,
          disagreements |-> {p \in pairs : Disagrees(p)},
          onlyIn |-> <<OnlyIn(a, b), OnlyIn(b, a)>>,
          unavailable |-> [i \in {1, 2} |-> Cardinality({r \in side(i) : IsUnavailable(r)})] ]

-----------------------------------------------------------------------------
(* The exact two-sided sign test, at p < 0.05.                             *)

\* C(n, k) by the multiplicative recurrence.
Binomial(n, k) ==
    LET c[i \in 0..k] == IF i = 0 THEN 1 ELSE (c[i - 1] * (n - i + 1)) \div i
    IN  c[k]

\* Mutant: the tail leaves out the split that was observed.
BinomialTailOpen(n, k) == MapThenSumSet(LAMBDA i : Binomial(n, i), 0..k - 1)

BinomialTail(n, k) == MapThenSumSet(LAMBDA i : Binomial(n, i), 0..k)

\* sign_test: 40 * tail < 2^n.
SignTest(aBetter, bBetter) ==
    LET n == aBetter + bBetter
        tail == BinomialTail(n, Min({aBetter, bBetter}))
    IN  IF n = 0 \/ n > MaxSignTestN \/ 40 * tail >= 2 ^ n THEN NoDifference
        ELSE IF aBetter > bBetter THEN Faster ELSE Slower

\* win_counts.
WinCounts(valueA, valueB) ==
    LET pairs == DOMAIN valueA
        a == Cardinality({p \in pairs : valueA[p] > valueB[p]})
        b == Cardinality({p \in pairs : valueB[p] > valueA[p]})
    IN  [a |-> a, b |-> b, ties |-> Cardinality(pairs) - a - b]

\* delta_over: wins, ties and means over what has a value on both sides.
DeltaOver(group, tier, valueA, valueB) ==
    LET both == {p \in DOMAIN valueA : NoScore \notin {valueA[p], valueB[p]}}
        a == Restrict(valueA, both)
        b == Restrict(valueB, both)
        wins == WinCounts(a, b)
    IN  IF both = {} THEN {}
        ELSE { [ group |-> group, tier |-> tier, means |-> <<Mean(a), Mean(b)>>,
                 aBetter |-> wins.a, bBetter |-> wins.b, ties |-> wins.ties, verdict |-> SignTest(wins.a, wins.b) ] }

-----------------------------------------------------------------------------
(* The codebase suite.                                                     *)

CodebaseRows(run) == RowsOf(run, "codebase")

\* CodeGroup::of: only the cross-file tier is split by its arm.
CodeGroup(row) == <<row.tier, row.tier = "cross_file_first" /\ row.arm = "extra">>
TierGroups(a, b) == {CodeGroup(r) : r \in CodebaseRows(a) \cup CodebaseRows(b)}

SameTask(r, q) == r.case = q.case /\ r.arm = q.arm

\* group_pairs: the tasks of a group that both runs recorded.
Shared(a, b, group) == {p \in CodebaseRows(a) \X CodebaseRows(b) : CodeGroup(p[1]) = group /\ SameTask(p[1], p[2])}
GroupPairs(a, b, group) == {p \in Shared(a, b, group) : ~IsUnavailable(p[1]) /\ ~IsUnavailable(p[2])}

\* Mutant: only what the first run could not answer is dropped.
DroppedByFirst(a, b, group) == Cardinality({p \in Shared(a, b, group) : IsUnavailable(p[1])})

Dropped(a, b, group) == Cardinality(Shared(a, b, group)) - Cardinality(GroupPairs(a, b, group))

\* tier_values: what one side has on a tier, or nothing.
TierValue(row, tier) == row.score[tier]

GroupTiers(a, b, group) ==
    LET pairs == GroupPairs(a, b, group)
    IN  UNION { DeltaOver(group, t, [p \in pairs |-> TierValue(p[1], t)], [p \in pairs |-> TierValue(p[2], t)])
                  : t \in LadderTiers }

\* arms_of: the cross-file tasks a run answered on some arm.
ArmedTasks(run) == TierTasks(Measured(CodebaseRows(run)), "cross_file_first")
LiftShared(a, b) == ArmedTasks(a) \cap ArmedTasks(b)

\* lift_pairs: both arms in both runs.
LiftPairs(a, b) ==
    { p \in ArmPairs(Measured(CodebaseRows(a))) \X ArmPairs(Measured(CodebaseRows(b))) :
        p[1][1].case = p[2][1].case }
LiftDropped(a, b) == Cardinality(LiftShared(a, b)) - Cardinality(LiftPairs(a, b))

LiftGroup == <<"context lift", FALSE>>

LiftDeltas(a, b) ==
    LET pairs == LiftPairs(a, b)
    IN  UNION { DeltaOver(LiftGroup, t, [p \in pairs |-> LiftOf(p[1], t)], [p \in pairs |-> LiftOf(p[2], t)])
                  : t \in LiftTiers }

\* equiv_delta: the cases a verdict was reached on in both runs.
Truth(b) == IF b THEN 1 ELSE 0
Judged(run) == {v \in RowsOf(run, "judge") : v.equivalent # NoAnswer}
EquivDelta(a, b) ==
    LET pairs == {p \in Judged(a) \X Judged(b) : p[1].case = p[2].case}
    IN  DeltaOver(<<"function_body", FALSE>>, "equiv",
                  [p \in pairs |-> Truth(p[1].equivalent)], [p \in pairs |-> Truth(p[2].equivalent)])

\* compare_judge: the same judge judged both, or a note says why not.
JudgeSection(a, b) ==
    IF a.stamp.judge = NoJudge /\ b.stamp.judge = NoJudge THEN [tiers |-> {}, note |-> Absent]
    ELSE IF a.stamp.judge # b.stamp.judge THEN [tiers |-> {}, note |-> "judge differs"]
    ELSE [ tiers |-> EquivDelta(a, b),
           note |-> IF EquivDelta(a, b) = {} THEN "no crossing judged in both" ELSE Absent ]

CodebaseSection(a, b) ==
    LET judge == JudgeSection(a, b)
    IN  [ presence |-> Presence(CodebaseRows(a), CodebaseRows(b)),
          tiers |-> (UNION {GroupTiers(a, b, g) : g \in TierGroups(a, b)}) \cup LiftDeltas(a, b) \cup judge.tiers,
          dropped |-> [g \in TierGroups(a, b) |-> Dropped(a, b, g)],
          liftDropped |-> LiftDropped(a, b),
          note |-> judge.note ]

\* compare_runs.
CompareRuns(a, b, opts) ==
    LET refused == Refusal(a.stamp, b.stamp, opts)
    IN  IF refused # "none" THEN [refused |-> refused]
        ELSE [ refused |-> refused,
               masked |-> (IF opts.runtime THEN Banner(a.stamp, b.stamp, RuntimeAllowed) ELSE {})
                          \cup (IF opts.flags THEN Banner(a.stamp, b.stamp, FlagsAllowed) ELSE {}),
               depths |-> DepthComparisons(a, b, opts.significance),
               agentic |-> AgenticSection(a, b),
               codebase |-> CodebaseSection(a, b) ]
=============================================================================
