------------------------------ MODULE MCBench -------------------------------
(***************************************************************************)
(* Instances of Bench for TLC: one task or two of every kind.              *)
(***************************************************************************)
EXTENDS Bench

Cfg(models, suite, fixture, codebase, exec, judge, runtime, dry) ==
    [models |-> models, suite |-> suite, fixture |-> fixture, codebase |-> codebase,
     exec |-> exec, judge |-> judge, runtime |-> runtime, dry |-> dry, resume |-> FALSE]
Resumed(cfg) == [cfg EXCEPT !.resume = TRUE]

Llama == "llama.cpp"

\* The probe suites, two candidates in one command, a foreign server.
Agentic == Cfg(<<"m1">>, "agentic", FALSE, FALSE, FALSE, NoJudge, Llama, FALSE)
TwoModels == Cfg(<<"m1", "m2">>, "throughput", FALSE, FALSE, FALSE, NoJudge, Llama, FALSE)
ForeignFixture == Cfg(<<"m1">>, "throughput", TRUE, FALSE, FALSE, NoJudge, "mlx 1", FALSE)

\* The codebase, built or only read, with a judge or without.
Built == Cfg(<<"m1">>, "none", FALSE, TRUE, TRUE, NoJudge, Llama, FALSE)
BuiltJudged == Cfg(<<"m1">>, "none", FALSE, TRUE, TRUE, "j", Llama, FALSE)
ForeignRead == Cfg(<<"m1">>, "none", FALSE, TRUE, FALSE, NoJudge, "mlx 1", FALSE)
Dry == Cfg(<<"m1">>, "none", FALSE, TRUE, TRUE, NoJudge, Llama, TRUE)

\* Every session is one that a crash, a rebuild or a dead server may break up.
AllSessions ==
    { <<Agentic, Resumed(Agentic)>>, <<TwoModels, ForeignFixture, Resumed(ForeignFixture)>>,
      <<Built, Resumed(BuiltJudged)>>, <<BuiltJudged, Resumed(BuiltJudged)>>,
      <<Dry, ForeignRead, Resumed(ForeignRead)>> }

MCDepths == <<"depth-1">>
MCToolCases == <<"call", "again">>
MCCallCases == {"call", "again"}
MCInstructionCases == <<>>
MCProbes == <<"probe">>
MCTasks == << [id |-> "body", tier |-> "function_body", file |-> "f"],
              [id |-> "cross", tier |-> "cross_file_first", file |-> "g"] >>
MCFills == {"same", "other"}
MCVerdicts == {"ok", "error"}
=============================================================================
