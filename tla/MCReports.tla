----------------------------- MODULE MCReports ------------------------------
(***************************************************************************)
(* Instances of Reports for TLC: the agentic suites through both doors,    *)
(* the cross-file tier with its two arms and a judged body, two judged     *)
(* bodies, seven tasks for the sign test, and every pair of stamps that    *)
(* differ in at most two fields.                                           *)
(***************************************************************************)
EXTENDS Reports

JudgeOne == [model |-> "one", minConsistency |-> 80]
JudgeTwo == [model |-> "two", minConsistency |-> 80]

PlainStamp == [f \in ToSet(Fields) |-> IF f = "judge" THEN NoJudge ELSE IF f = "exec" THEN FALSE ELSE 0]
Judging(judge) == [PlainStamp EXCEPT !.judge = judge]
Executing(judge) == [Judging(judge) EXCEPT !.exec = TRUE]

\* The stamp of b, with some fields of a's changed.
Changed(stamp, fields) ==
    [f \in DOMAIN stamp |-> IF f \notin fields THEN stamp[f]
                            ELSE IF f = "judge" THEN JudgeTwo ELSE IF f = "exec" THEN TRUE ELSE 1]

Options == [runtime: BOOLEAN, flags: BOOLEAN, significance: {5}]
Strict == [runtime |-> FALSE, flags |-> FALSE, significance |-> 5]

Scenario(stampA, stampB, opts, plan) ==
    [stamps |-> [x \in {"a", "b"} |-> IF x = "a" THEN stampA ELSE stampB], opts |-> opts, plan |-> plan]

Records(rows) == [may |-> rows, judges |-> ""]
Judges(case) == [may |-> {}, judges |-> case]

Graded(suite, case, door) ==
    Records({ [suite |-> suite, case |-> case, door |-> door, mark |-> m]
              : m \in {"pass", "fail", "unavailable"} \cup (IF suite = "instruction" THEN {"loose"} ELSE {}) })

Depth(depth) ==
    Records({ [suite |-> "throughput", case |-> depth, door |-> Buffered, samples |-> s]
              : s \in {<<0, 100, 100>>, <<0, 98, 90>>, <<0, 50, 60>>, <<0>>} })

Blank == [t \in LadderTiers |-> NoScore]
Scored(tier, exact, ident, symbols) ==
    [t \in LadderTiers |->
        CASE t \in {"exact", "edit_sim"} -> IF tier = "function_body" THEN NoScore ELSE exact
          [] t = "ident_f1" -> ident [] t = "parse" -> 1 [] OTHER -> symbols]

Code(case, tier, arm, fill, score, exec) ==
    [ suite |-> "codebase", case |-> case, door |-> Buffered, mark |-> IF fill = "empty" THEN "unavailable" ELSE "pass",
      tier |-> tier, arm |-> arm, unsupported |-> FALSE, fill |-> fill, score |-> score, exec |-> exec,
      sent |-> arm = "extra" ]

Ran(compile, test, covered, why) == [compile |-> compile, test |-> test, covered |-> covered, why |-> why]
Cross1(arm) ==
    Records({ Code("x1", "cross_file_first", arm, "empty", Blank, NoExec),
              Code("x1", "cross_file_first", arm, "other", Scored("cross_file_first", 0, 1, NoScore), Ran(0, NoScore, FALSE, "none")),
              Code("x1", "cross_file_first", arm, "same", Scored("cross_file_first", 2, 2, 1), Ran(1, 1, TRUE, "none")) })
Body(case, exec) ==
    Records({ Code(case, "function_body", "none", "empty", Blank, NoExec),
              Code(case, "function_body", "none", "same", Scored("function_body", 2, 2, 1), exec),
              Code(case, "function_body", "none", "other", Scored("function_body", 0, 1, 0), exec) })
InFile(case) ==
    Records({ Code(case, "in_file", "none", "other", [Blank EXCEPT !.exact = s], NoExec) : s \in {0, 1} })

MCScenarios ==
    { Scenario(PlainStamp, PlainStamp, Strict, plan) : plan \in {
          <<Graded("tool_emit", "c1", Buffered), Graded("grammar_gap", "c1", Buffered),
            Graded("tool_emit", "c1", Streamed), Graded("instruction", "c1", Streamed)>>,
          <<Graded("tool_emit", "c1", Buffered), Graded("grammar_gap", "c1", Buffered),
            Graded("tool_emit", "c2", Buffered), Graded("grammar_gap", "c2", Buffered)>>,
          <<InFile("t1"), InFile("t2"), InFile("t3"), InFile("t4"), InFile("t5"), InFile("t6"), InFile("t7")>> } }
    \cup { Scenario(Executing(JudgeOne), Executing(JudgeOne), Strict,
                    <<Cross1("no_extra"), Cross1("extra"), Body("b1", Ran(0, NoScore, FALSE, "none")), Judges("b1")>>) }
    \cup { Scenario(Judging(JudgeOne), Judging(j), Strict, <<Body("b1", NoExec), Body("b2", NoExec), Judges("b1"), Judges("b2")>>)
           : j \in {JudgeOne} }
    \cup { Scenario(Judging(JudgeOne), Judging(j), Strict, <<Body("b1", Ran(1, NoScore, FALSE, "none")), Judges("b1")>>)
           : j \in {NoJudge, JudgeTwo} }
    \cup { Scenario(PlainStamp, PlainStamp, Strict, <<Depth("d1"), Depth("d2")>>) }
    \cup { Scenario(PlainStamp, Changed(PlainStamp, fields), opts, <<Depth("d1")>>)
           : fields \in UNION {kSubset(n, ToSet(Fields)) : n \in 0..2}, opts \in Options }
=============================================================================
