-------------------------------- MODULE Tune --------------------------------
(***************************************************************************)
(* chekov tune (commands/tune.rs, core/tune.rs): a descent over launch     *)
(* flags, one stage at a time.  The model's own flags are measured first;  *)
(* each stage launches, probes and tears down its candidates one after     *)
(* another and its best winner becomes the incumbent of the stages that    *)
(* follow.  The record is rewritten after every trial, and --apply writes  *)
(* the winner's flags into the model's extra_flags.                        *)
(*                                                                         *)
(* A launch, a probe and a teardown succeed or fail as they please; which  *)
(* samples a probe returns is chosen from Runs.  tune may be killed        *)
(* between any two steps.  How it reads and rewrites command lines is in   *)
(* LaunchFlags, what it makes of samples in Stats.                         *)
(***************************************************************************)
EXTENDS LaunchFlags, Stats

CONSTANTS
    Requests,        \* the sets of stages --stages may name
    Lists,           \* [tune]: the values each stage tries
    Runs,            \* what the repetitions of one probe may sample
    Depth,           \* [tune] depth
    Significance,    \* [bench] significance_pct
    Tolerance,       \* [tune] guard_tolerance_pct
    Defaults,        \* [defaults] flags of the registry
    Extras,          \* the extra_flags the model may start with
    MaxRuns,         \* how often tune is run
    NoRun

\* What is sampled is a number, and so is its median.
ASSUME MediansAssumption ==
    \A r \in Runs :
        Measure(r).decode # NoSummary /\ Measure(r).prefill # NoSummary =>
            Measure(r).decode.median \in Int /\ Measure(r).prefill.median \in Int

\* [tune] lists values, and numbers for the batches.
ASSUME ListsAssumption ==
    \A stage \in DOMAIN EngineDefault :
        /\ Lists[stage] \in Seq(Range(Lists[stage]))
        /\ stage # "spec" => \A value \in Range(Lists[stage]) : IsValue(value)
        /\ stage \in {"batch", "ubatch"} => Range(Lists[stage]) \subseteq DOMAIN Number

VARIABLES
    server,          \* what chekov's records name as running
    extra,           \* the model's extra_flags
    disk,            \* the record of the run
    pc, run,         \* where tune is, and what it holds
    count,           \* runs so far
    probes,          \* probes of the current run (history)
    plain,           \* the run started from a plain line (history)
    fate             \* how the last run ended (history)

vars == <<server, extra, disk, pc, run, count, probes, plain, fate>>

NoRecord == [is |-> "none"]
Torn == [is |-> "torn"]                 \* truncated, and not written
Written(trials, winner) == [is |-> "written", trials |-> trials, winner |-> winner]

Current == [stage |-> "baseline", value |-> NoValue, argv |-> <<>>]   \* no candidate: the current flags

\* Registry::effective: extra flags behind the default ones.
Effective(extras) == Defaults \o extras

-----------------------------------------------------------------------------
(* What a trial is worth.                                                  *)

\* classify: too few samples, or a prompt under half the depth, is degenerate.
Classify(measured) ==
    IF measured.decode = NoSummary \/ measured.prefill = NoSummary \/ measured.promptN * 2 < Depth
    THEN "degenerate" ELSE "measured"

\* delta_pct: of an incumbent of zero nothing is lost.
LostWithin(candidate, incumbent) ==
    incumbent.median <= 0 \/ (incumbent.median - candidate.median) * 100 <= Tolerance * incumbent.median

\* judge and phrase.
Wins(candidate, incumbent, stage) ==
    LET metric == Metric(stage)
        other == Other(metric)
    IN  /\ Compare(candidate[metric], incumbent[metric], Significance) = Faster
        /\ \/ Compare(candidate[other], incumbent[other], Significance) # Slower
           \/ LostWithin(candidate[other], incumbent[other])

MedianOf(scored) == scored.measured[Metric(scored.candidate.stage)].median

\* Mutant: the last winner of a stage is picked.
PickLast(scored) ==
    LET won == {i \in DOMAIN scored : scored[i].wins}
    IN  IF won = {} THEN 0 ELSE Max(won)

\* pick_winner: where the highest median of the stage's metric is, the earliest
\* of a tie; 0 when nothing wins.
PickWinner(scored) ==
    LET won == {i \in DOMAIN scored : scored[i].wins}
        best == {i \in won : \A j \in won : MedianOf(scored[j]) <= MedianOf(scored[i])}
    IN  IF won = {} THEN 0 ELSE Min(best)

-----------------------------------------------------------------------------
(* Plain lines, which the code does not ask for and the properties of a    *)
(* rewritten line do.                                                      *)

\* The flags a stage may touch.
FlagsOf == [spec |-> {"SpecType", "SpecDraftNMax"}, fa |-> {"FlashAttn"}, kv |-> {"CacheTypeK", "CacheTypeV"},
            batch |-> {"BatchSize"}, ubatch |-> {"UbatchSize"}]

IsList(s) == s \in Seq(Range(s))
Flags == DOMAIN Names
At(argv, flag) == {i \in 1..Len(argv) : Spells(argv[i], flag)}

\* A tuned flag is named at most once, and a value follows it.
WellFormed(argv) ==
    /\ IsList(argv)
    /\ \A flag \in Flags : \A i \in At(argv, flag) :
        i < Len(argv) /\ IsValue(argv[i + 1]) /\ \A j \in At(argv, flag) : j = i

\* A line that llama-server starts with: a draft length only beside a draft, and
\* a batch that is a number.
Plain(argv) ==
    /\ WellFormed(argv)
    /\ ValueOf(argv, "SpecType") = NoValue => ValueOf(argv, "SpecDraftNMax") = NoValue
    /\ ValueOf(argv, "BatchSize") # NoValue => ValueOf(argv, "BatchSize") \in DOMAIN Number

\* No flag of the model's repeats one of the defaults, which name no draft.
StartsPlain(extras) ==
    /\ Plain(Effective(extras)) /\ WellFormed(Defaults) /\ WellFormed(extras)
    /\ \A flag \in FlagsOf["spec"] : ValueOf(Defaults, flag) = NoValue

-----------------------------------------------------------------------------
Init ==
    /\ server \in {"none", "user", "unnamed"}
    /\ extra \in Extras
    /\ disk = NoRecord
    /\ pc = "idle"
    /\ run = NoRun
    /\ count = 0
    /\ probes = 0
    /\ plain = TRUE
    /\ fate = "ended"

Goes(where, held) == pc' = where /\ run' = held /\ UNCHANGED fate
EndsAs(how) == pc' = "idle" /\ run' = NoRun /\ fate' = how
Ends == EndsAs("ended")

\* TuneCmd::plan and running_server.  The spec stage may be gated by the GGUF
\* or the engine; a bad draft, or a server nobody can name, ends the command.
\* The plan, and the session that starts from it.
PlanOf(stages, gated, argv) ==
    [ stages |-> stages, gated |-> gated, flags |-> argv,
      ceiling |-> MaxLaunches(stages, gated, argv, Lists),
      incumbent |-> [argv |-> argv, measured |-> NoSummary],
      at |-> 0, queue |-> <<>>, scored |-> <<>>, candidate |-> Current,
      outcome |-> "none", measured |-> NoSummary, released |-> TRUE,
      launches |-> 0, trials |-> <<>>, winner |-> NoValue ]

Begin ==
    /\ pc = "idle"
    /\ count < MaxRuns
    /\ count' = count + 1
    /\ \A i \in DOMAIN Lists.spec : IsDraft(Lists.spec[i])
    /\ server # "unnamed"
    /\ \E requested \in Requests : \E gated \in IF "spec" \in requested THEN BOOLEAN ELSE {FALSE} :
        Goes("confirm", PlanOf(StagesOf(requested), gated, Effective(extra)))
    /\ disk' = NoRecord
    /\ probes' = 0
    /\ plain' = StartsPlain(extra)
    /\ UNCHANGED <<server, extra>>

\* A dry run, a declined plan or an identity that cannot be pinned changes
\* nothing; then the running server is stopped, and the run ends if its memory
\* does not come back.
Confirm ==
    /\ pc = "confirm"
    /\ \/ Ends /\ UNCHANGED server
       \/ server' = "none" /\ Goes("baseline", run)
       \/ server = "user" /\ server' = "none" /\ Ends
    /\ UNCHANGED <<extra, disk, count, probes, plain>>

\* measure(None): trial 0 runs the current flags.
Baseline ==
    /\ pc = "baseline"
    /\ Goes("start", [run EXCEPT !.candidate = Current])
    /\ UNCHANGED <<server, extra, disk, count, probes, plain>>

ArgvOf(held) == IF held.candidate = Current THEN held.flags ELSE held.candidate.argv

\* trial: a candidate that could not load is skipped before any spawn.  The
\* incumbent is the same for all the candidates of a stage.
NextTrial ==
    /\ pc = "stage"
    /\ run.queue # <<>>
    /\ LET c == Candidate(run.stages[run.at], run.incumbent.argv, Head(run.queue))
           held == [run EXCEPT !.candidate = c, !.queue = Tail(@), !.released = TRUE]
       IN  IF Skips(c, run.incumbent.argv, run.gated)
           THEN Goes("record", [held EXCEPT !.outcome = "skipped"])
           ELSE Goes("start", held)
    /\ UNCHANGED <<server, extra, disk, count, probes, plain>>

\* start: over budget is a skip, any other refusal of the launch ends the run;
\* one that comes after the spawn leaves the server behind.
Start ==
    /\ pc = "start"
    /\ \/ Goes("record", [run EXCEPT !.outcome = "skipped", !.released = TRUE]) /\ UNCHANGED server
       \/ server' = "trial" /\ Goes("probe", [run EXCEPT !.launches = @ + 1])
       \/ server' \in {server, "trial"} /\ Ends
    /\ UNCHANGED <<extra, disk, count, probes, plain>>

\* probe: whatever fails here is a degenerate outcome.
Probe ==
    /\ pc = "probe"
    /\ \/ Goes("teardown", [run EXCEPT !.outcome = "degenerate", !.measured = NoSummary])
       \/ \E r \in Runs :
            Goes("teardown", [run EXCEPT !.outcome = Classify(Measure(r)), !.measured = Measure(r)])
    /\ probes' = probes + 1
    /\ UNCHANGED <<server, extra, disk, count, plain>>

\* teardown: its verdict is kept until the trial has been recorded.
Teardown ==
    /\ pc = "teardown"
    /\ server' = "none"
    /\ \E released \in BOOLEAN : Goes("record", [run EXCEPT !.released = released])
    /\ UNCHANGED <<extra, disk, count, probes, plain>>

\* verdict_for: whether a measured candidate beats the incumbent of its stage.
VerdictFor(held) ==
    /\ held.outcome = "measured" /\ held.candidate # Current
    /\ Wins(held.measured, held.incumbent.measured, held.candidate.stage)

\* trial_row.
TrialOf(held) ==
    [ stage |-> held.candidate.stage,
      value |-> held.candidate.value,
      argv |-> ArgvOf(held),
      outcome |-> held.outcome,
      probed |-> held.outcome # "skipped",
      measured |-> IF held.outcome = "measured" THEN held.measured ELSE NoSummary,
      wins |-> VerdictFor(held) ]

\* append: the file is truncated ...
Record ==
    /\ pc = "record"
    /\ disk' = Torn
    /\ Goes("write", [run EXCEPT !.trials = Append(@, TrialOf(run))])
    /\ UNCHANGED <<server, extra, count, probes, plain>>

\* ... and written; then a failed teardown, or a baseline that measured
\* nothing, ends the run.
Write ==
    /\ pc = "write"
    /\ disk' = Written(run.trials, NoValue)
    /\ LET trial == Last(run.trials)
       IN  IF ~run.released \/ (trial.stage = "baseline" /\ trial.outcome # "measured") THEN Ends
           ELSE IF trial.stage = "baseline"
           THEN Goes("next", [run EXCEPT !.incumbent.measured = trial.measured])
           ELSE Goes("stage",
                     IF trial.outcome # "measured" THEN run
                     ELSE [run EXCEPT !.scored = Append(@, [candidate |-> run.candidate,
                                                            measured |-> trial.measured, wins |-> trial.wins])])
    /\ UNCHANGED <<server, extra, count, probes, plain>>

\* The next stage tries its values against whatever has won so far.
NextStage ==
    /\ pc = "next"
    /\ run.at < Len(run.stages)
    /\ Goes("stage", [run EXCEPT !.at = @ + 1, !.scored = <<>>,
                                 !.queue = Planned(run.stages[run.at + 1], run.incumbent.argv, Lists)])
    /\ UNCHANGED <<server, extra, disk, count, probes, plain>>

StageEnds ==
    /\ pc = "stage"
    /\ run.queue = <<>>
    /\ LET best == PickWinner(run.scored)
       IN  Goes("next", IF best = 0 THEN run
                        ELSE [run EXCEPT !.incumbent = [argv |-> run.scored[best].candidate.argv,
                                                        measured |-> run.scored[best].measured]])
    /\ UNCHANGED <<server, extra, disk, count, probes, plain>>

\* settle: there is a winner if the last incumbent is not the baseline.
Settle ==
    /\ pc = "next"
    /\ run.at = Len(run.stages)
    /\ disk' = Torn
    /\ Goes("settle", [run EXCEPT !.winner = IF run.incumbent.argv = run.trials[1].argv THEN NoValue
                                             ELSE run.incumbent.argv])
    /\ UNCHANGED <<server, extra, count, probes, plain>>

\* The record is written; without --apply, or a winner to apply, that is all.
Settled ==
    /\ pc = "settle"
    /\ disk' = Written(run.trials, run.winner)
    /\ Ends \/ (run.winner # NoValue /\ Goes("apply", run))
    /\ UNCHANGED <<server, extra, count, probes, plain>>

\* apply, which the user may decline.
Apply ==
    /\ pc = "apply"
    /\ \/ Ends /\ UNCHANGED extra
       \/ extra' = AppliedExtraFlags(extra, run.winner) /\ Goes("applied", run)
    /\ UNCHANGED <<server, disk, count, probes, plain>>

Leave == pc = "applied" /\ Ends /\ UNCHANGED <<server, extra, disk, count, probes, plain>>

\* The terminal is closed, or the power fails.
Kill == pc # "idle" /\ EndsAs("killed") /\ UNCHANGED <<server, extra, disk, count, probes, plain>>

\* The user stops what a killed run has left, before the next one.
Stop == pc = "idle" /\ server # "none" /\ server' = "none" /\ UNCHANGED <<extra, disk, pc, run, count, probes, plain, fate>>

Next ==
    \/ Begin \/ Confirm \/ Baseline \/ NextTrial \/ Start \/ Probe \/ Teardown \/ Record \/ Write
    \/ NextStage \/ StageEnds \/ Settle \/ Settled \/ Apply \/ Leave \/ Kill \/ Stop

Spec == Init /\ [][Next]_vars

-----------------------------------------------------------------------------
\* max_launches: the "≤ N launches" a user agrees to is a ceiling of every
\* descent, unless the spec stage is gated: its `off` is launched and uncounted.
LaunchesWithinCeiling == pc # "idle" /\ ~run.gated => run.launches <= run.ceiling

\* write_record: between trials the record on disk is the one in memory, and a
\* run that was not killed has a trial there for every probe it made, even if
\* it ended because memory did not come back.
TrialsOnDisk ==
    /\ pc \in {"next", "stage", "start", "probe", "teardown"} /\ run.trials # <<>> =>
        disk = Written(run.trials, NoValue)
    /\ pc = "idle" /\ fate = "ended" /\ probes > 0 =>
        disk.is = "written" /\ probes = Cardinality({i \in DOMAIN disk.trials : disk.trials[i].probed})

TrialsAt(trials, stage) == {i \in DOMAIN trials : trials[i].stage = stage}
WinsAt(trials, stage) == {i \in TrialsAt(trials, stage) : trials[i].wins}
BestAt(trials, stage) ==
    Min({i \in WinsAt(trials, stage) : \A j \in WinsAt(trials, stage) :
            trials[j].measured[Metric(stage)].median <= trials[i].measured[Metric(stage)].median})

\* The trial whose flags stand once the first m stages of the order are over.
StandsAfter(trials, m) ==
    LET won == {n \in 1..m : WinsAt(trials, Order[n]) # {}}
    IN  IF won = {} THEN 1 ELSE BestAt(trials, Order[Max(won)])

Place(stage) == CHOOSE n \in DOMAIN Order : Order[n] = stage
StartOf(trials, t) == trials[StandsAfter(trials, Place(t.stage) - 1)]

\* The record can be audited, from itself alone: every candidate is its value
\* applied to the flags of the best of the last stage won (or the baseline), its
\* verdict is the one its samples earn against that trial, and the winner is the
\* best of the last stage won.
RecordTellsTheDescent ==
    disk.is = "written" =>
        LET trials == disk.trials
            last == trials[StandsAfter(trials, Len(Order))]
        IN  /\ \A i \in 2..Len(trials) :
                LET t == trials[i]
                    from == StartOf(trials, t)
                IN  /\ t.argv = ApplyValue(t.stage, from.argv, t.value)
                    /\ t.wins = (t.outcome = "measured" /\ Wins(t.measured, from.measured, t.stage))
            /\ disk.winner # NoValue => last.wins /\ disk.winner = last.argv

\* What a tuning run leaves to read is there, and it is what happened.
RecordIsTrue == TrialsOnDisk /\ RecordTellsTheDescent

\* As llama-server reads them, the flags of a candidate differ from those it
\* started from in its own stage's, and only there.
ChangesItsOwnFlags ==
    disk.is = "written" =>
        \A i \in 2..Len(disk.trials) :
            LET t == disk.trials[i]
                from == StartOf(disk.trials, t)
            IN  /\ \A flag \in Flags \ FlagsOf[t.stage] : EngineValue(t.argv, flag) = EngineValue(from.argv, flag)
                /\ \E flag \in FlagsOf[t.stage] : EngineValue(t.argv, flag) # EngineValue(from.argv, flag)

\* apply: "the next `chekov run` launches with these flags", as llama-server
\* reads a command line.
AppliedRunsWinner ==
    pc = "applied" => \A flag \in Flags : EngineValue(Effective(extra), flag) = EngineValue(run.winner, flag)

\* A command line that chekov has rewritten is read as it was meant, where the run
\* started from a line that names each tuned flag once.  Of a flag named twice
\* chekov reads the first and llama-server the last, and --apply names the flags
\* of the defaults a second time.
LinesAreReadAsMeant == plain => ChangesItsOwnFlags /\ AppliedRunsWinner
=============================================================================
