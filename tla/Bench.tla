------------------------------- MODULE Bench --------------------------------
(***************************************************************************)
(* chekov capability bench (commands/capability.rs, core/bench): commands  *)
(* that measure candidate models, one server at a time, and record every   *)
(* crossing as a row of a run on disk.  A command prepares the scratch     *)
(* checkout, decides whether to use the running server or to launch its    *)
(* own, stamps and opens (or resumes) a run, crosses what its plan still   *)
(* owes, builds the fills of a codebase run, tears its server down, and    *)
(* asks the judge.                                                         *)
(*                                                                         *)
(* Runs and the checkout are those of RunStore.  The server is modelled by *)
(* what bench depends on: which model, which build, started by whom;       *)
(* ServerLifecycle has its records.  A build stands for                    *)
(* the engine commit and the launch flags together.  A crossing is         *)
(* answered, refused by a server that answers (UpstreamRefused), or lost;  *)
(* the fill of a function body is the gold, something else, or empty.      *)
(* A command may be killed between any two steps, in the middle of a row,  *)
(* and a server may die at any time.                                       *)
(***************************************************************************)
EXTENDS RunStore, SequencesExt

CONSTANTS
    Procs,           \* terminals
    RunIds,          \* run directories there may be
    Sessions,        \* the sequences of command lines a terminal may type
    Depths, ToolCases, InstructionCases, Probes,   \* sequences of task ids
    CallCases,       \* the tool cases that expect a call
    Tasks,           \* the sampled codebase tasks, [id, tier, file]
    Fills,           \* what an answered fill may be
    Verdicts,        \* what cargo may say of a fill
    MaxBuild,        \* builds of engine and flags
    Quiet,           \* nothing is rebuilt or started while a bench runs
    NoServer, NoRunId, NoCmd, NoRow

VARIABLES
    build,           \* the build and flags the next server would start with
    server,          \* the server that answers at the endpoint
    runs,            \* eval/: the runs on disk
    tree,            \* the scratch checkout
    pc, cmd,         \* where each terminal's command is, and what it holds
    session,         \* the command lines each terminal still types
    typed,           \* commands typed so far
    ended,           \* how each terminal's last command ended
    refusals         \* what each run's servers really refused (history)

vars == <<build, server, runs, tree, pc, cmd, session, typed, ended, refusals>>

-----------------------------------------------------------------------------
(* What a command line asks for.                                           *)

IsForeign(cfg) == cfg.runtime # "llama.cpp"
RunsThroughput(cfg) == cfg.suite \in {"throughput", "all"}
RunsAgentic(cfg) == cfg.suite \in {"agentic", "all"}

\* TimingClock: a foreign server is timed over its stream.
ClockDoor(cfg) == IF IsForeign(cfg) THEN Streamed ELSE Buffered

\* arms: a cross-file task is crossed without the defining file, then with it.
Arms(task) == IF task.tier = "cross_file_first" THEN <<task.id, task.id \o "+extra">> ELSE <<task.id>>

\* The tool cases of one door, each call case followed by its forced form.
ToolPlan(door) ==
    FlattenSeq([i \in DOMAIN ToolCases |->
        LET plain == Key("tool_emit", ToolCases[i], door)
        IN  IF ToolCases[i] \in CallCases /\ door = Buffered
            THEN <<plain, Key("grammar_gap", "gg-" \o ToolCases[i], Buffered)>>
            ELSE <<plain>>])

InstructionPlan(door) == [i \in DOMAIN InstructionCases |-> Key("instruction", InstructionCases[i], door)]

AgenticPlan ==
    FlattenSeq([i \in 1..2 |-> LET door == <<Buffered, Streamed>>[i] IN ToolPlan(door) \o InstructionPlan(door)])

CodebasePlan ==
    FlattenSeq([i \in DOMAIN Tasks |-> [j \in DOMAIN Arms(Tasks[i]) |-> Key("codebase", Arms(Tasks[i])[j], Buffered)]])

\* run_suites, in its order.
Plan(cfg) ==
      (IF RunsThroughput(cfg) THEN [i \in DOMAIN Depths |-> Key("throughput", Depths[i], ClockDoor(cfg))] ELSE <<>>)
   \o (IF RunsAgentic(cfg) THEN AgenticPlan ELSE <<>>)
   \o (IF cfg.fixture THEN [i \in DOMAIN Probes |-> Key("fixture", Probes[i], ClockDoor(cfg))] ELSE <<>>)
   \o (IF cfg.codebase THEN CodebasePlan ELSE <<>>)

Cfgs == UNION {Range(s) : s \in Sessions}

\* Every command line names a model.  A plan names no key twice: the ids of a
\* probe set are unique or loading it fails, but that no depth stands twice in
\* the configuration and no two spans on one line is assumed.
ASSUME SessionsAssumption ==
    /\ \A s \in Sessions : s \in Seq(Cfgs)
    /\ \A cfg \in Cfgs : cfg.models \in Seq(Range(cfg.models)) /\ cfg.models # <<>>
ASSUME PlanAssumption ==
    \A cfg \in Cfgs :
        /\ Plan(cfg) \in Seq(Range(Plan(cfg)))
        /\ \A i, j \in DOMAIN Plan(cfg) : Plan(cfg)[i] = Plan(cfg)[j] => i = j
        /\ \A key \in Range(Plan(cfg)) :
            /\ key[1] # "judge"
            /\ key[1] = "codebase" => key = Key("codebase", key[2], Buffered)

TaskOf(key) == CHOOSE task \in Range(Tasks) : \E j \in DOMAIN Arms(task) : Arms(task)[j] = key[2]

\* Mutant: a cross-file task is counted as the one crossing of an in-file task.
CodebaseCrossingsOneArm(cfg) == IF cfg.codebase THEN Len(Tasks) ELSE 0

\* What the dry run counts: six seconds a codebase crossing, eight an agentic
\* one, and two verdicts for each function body of each candidate.
CodebaseCrossings(cfg) ==
    LET of(tier) == Cardinality({i \in DOMAIN Tasks : Tasks[i].tier = tier})
    IN  IF cfg.codebase THEN of("in_file") + of("function_body") + 2 * of("cross_file_first") ELSE 0
AgenticCrossings(cfg) ==
    LET forced == Cardinality({i \in DOMAIN ToolCases : ToolCases[i] \in CallCases})
    IN  IF RunsAgentic(cfg) THEN 2 * Len(ToolCases) + forced + 2 * Len(InstructionCases) ELSE 0
JudgeCrossings(cfg) ==
    IF cfg.judge = NoJudge \/ ~cfg.codebase THEN 0
    ELSE Cardinality({i \in DOMAIN Tasks : Tasks[i].tier = "function_body"}) * Len(cfg.models)

\* head_corpus: where the codebase is measured, its task set is the corpus.
HeadCorpus(cfg) == <<cfg.suite, IF cfg.codebase THEN "codebase" ELSE IF cfg.fixture THEN "fixture" ELSE "none">>

\* stamp_identity: who measures; nothing of chekov's where the server is foreign.
StampIdentity(cfg) == IF IsForeign(cfg) THEN 0 ELSE build

\* build_head.
StampOf(cfg, model, exec) ==
    [ runtime |-> cfg.runtime,
      engine  |-> StampIdentity(cfg),
      weights |-> model,
      exec    |-> exec,
      corpus  |-> HeadCorpus(cfg),
      judge   |-> cfg.judge ]

\* A row, with the server that answered it and how bench came by that server.
Row(key, out, fill, compile, c) ==
    [ key |-> key, out |-> out, fill |-> fill, compile |-> compile,
      by |-> IF server = NoServer \/ IsForeign(c.cfg) THEN <<"none", 0>> ELSE <<server.model, server.engine>>,
      action |-> c.action ]

-----------------------------------------------------------------------------
Init ==
    /\ build = 1
    /\ server = NoServer
    /\ runs = [r \in RunIds |-> NoRun]
    /\ tree = NoTree
    /\ pc = [p \in Procs |-> "idle"]
    /\ cmd = [p \in Procs |-> NoCmd]
    /\ session \in [Procs -> Sessions]
    /\ typed = 0
    /\ ended = [p \in Procs |-> [how |-> "none", id |-> 0, tree |-> FALSE, judge |-> NoJudge]]
    /\ refusals = [r \in RunIds |-> {}]

\* BenchOpts: what was asked for, and what the command holds while it does it.
Command(cfg, resume, id) ==
    [ cfg |-> cfg, resume |-> resume, id |-> id, fate |-> "ok",
      exec |-> "off", tree |-> FALSE,
      todo |-> cfg.models, action |-> "launch", stamp |-> NoRun.head, run |-> NoRunId,
      done |-> {}, at |-> 1, latch |-> {}, original |-> {}, row |-> NoRow,
      dirs |-> <<>>, left |-> <<>>, log |-> <<>> ]

\* bench_args: one command line, resuming a run or not.
Type(p) ==
    /\ pc[p] = "idle"
    /\ session[p] # <<>>
    /\ session' = [session EXCEPT ![p] = Tail(@)]
    /\ typed' = typed + 1
    /\ LET cfg == Head(session[p])
           there == {r \in RunIds : runs[r].head # NoDir}
       IN \E resume \in IF ~cfg.resume THEN {NoRunId} ELSE IF there = {} THEN RunIds ELSE there :
        /\ cmd' = [cmd EXCEPT ![p] = Command(cfg, resume, typed + 1)]
        /\ pc' = [pc EXCEPT ![p] = IF cfg.codebase THEN "clear" ELSE "resolve"]
    /\ UNCHANGED <<build, server, runs, tree, ended, refusals>>

\* Where p goes next, with what it then holds.
Goes(p, where, held) ==
    /\ pc' = [pc EXCEPT ![p] = where]
    /\ cmd' = [cmd EXCEPT ![p] = held]

\* An error: bench leaves with `?`, and what it prepared is dropped.
Leaves(p) == Goes(p, "finish", [cmd[p] EXCEPT !.fate = "failed"])

\* wait_ready: the server answers before the polls run out or its process ends.
Answering(cfg) == IsForeign(cfg) \/ server # NoServer

\* wait_budget_released: the memory the server held comes back in time, or bench
\* leaves rather than measure beside it.
AwaitRelease(p, where, held) == Goes(p, where, held) \/ Leaves(p)

-----------------------------------------------------------------------------
(* The codebase, prepared before any question about servers or models.     *)

ClearTree(p) ==
    /\ pc[p] = "clear"
    /\ tree' = Cleared(tree)
    /\ Goes(p, "add", cmd[p])
    /\ UNCHANGED <<build, server, runs, session, typed, ended, refusals>>

AddTree(p) ==
    /\ pc[p] = "add"
    /\ IF CanAdd(tree)
       THEN tree' = Added(tree) /\ Goes(p, "exec", [cmd[p] EXCEPT !.tree = TRUE])
       ELSE UNCHANGED tree /\ Leaves(p)
    /\ UNCHANGED <<build, server, runs, session, typed, ended, refusals>>

\* exec_state: only --allow-exec with a toolchain keeps the checkout.  Without a
\* toolchain a checkout that cannot be removed is left, and bench goes on.
ExecState(p) ==
    /\ pc[p] = "exec"
    /\ \/ /\ cmd[p].cfg.exec
          /\ Goes(p, "resolve", [cmd[p] EXCEPT !.exec = "ready"])
          /\ UNCHANGED tree
       \/ /\ cmd[p].cfg.exec
          /\ Goes(p, "resolve", [cmd[p] EXCEPT !.exec = "unavailable", !.tree = FALSE])
          /\ tree' \in {Removed(tree), tree}
       \/ /\ ~cmd[p].cfg.exec
          /\ CanRemove(tree)
          /\ Goes(p, "resolve", [cmd[p] EXCEPT !.tree = FALSE])
          /\ tree' = Removed(tree)
       \/ /\ ~cmd[p].cfg.exec
          /\ ~CanRemove(tree)
          /\ Leaves(p)
          /\ UNCHANGED tree
    /\ UNCHANGED <<build, server, runs, session, typed, ended, refusals>>

-----------------------------------------------------------------------------
(* Whose server.                                                           *)

\* server_use_rule and foreign_actions: use what runs if it is the one asked for.
Uses(cfg) ==
    /\ Len(cfg.models) = 1
    /\ IsForeign(cfg) \/ (server # NoServer /\ server.model = cfg.models[1])
Launches(cfg) == ~IsForeign(cfg) /\ server = NoServer

\* resolve_candidates, then resolve_judge, which will not stop a used server.
Resolve(p) ==
    LET c == cmd[p]
        cfg == c.cfg
    IN  /\ pc[p] = "resolve"
        /\ IF /\ c.resume # NoRunId => Len(cfg.models) = 1
              /\ Uses(cfg) \/ Launches(cfg)
              /\ cfg.judge # NoJudge => ~Uses(cfg) /\ cfg.judge \notin Range(cfg.models)
           THEN Goes(p, "confirm", [c EXCEPT !.action = IF Uses(cfg) THEN "use" ELSE "launch"])
           ELSE Leaves(p)
        /\ UNCHANGED <<build, server, runs, tree, session, typed, ended, refusals>>

\* A dry run prints the plan; launches are asked about.
Confirm(p) ==
    /\ pc[p] = "confirm"
    /\ \/ cmd[p].cfg.dry /\ Goes(p, "finish", cmd[p])
       \/ ~cmd[p].cfg.dry /\ Goes(p, "next", cmd[p])
       \/ ~cmd[p].cfg.dry /\ cmd[p].action = "launch" /\ Leaves(p)
    /\ UNCHANGED <<build, server, runs, tree, session, typed, ended, refusals>>

Started(model, id) == [model |-> model, engine |-> build, by |-> id]

\* run_candidate: candidate_pid launches behind run's preflight, or finds the pid.
NextCandidate(p) ==
    LET c == cmd[p]
    IN  /\ pc[p] = "next"
        /\ \/ /\ c.todo = <<>>
              /\ Goes(p, "judge", c)
              /\ UNCHANGED server
           \/ /\ c.todo # <<>> /\ c.action = "launch" /\ server = NoServer
              /\ server' = Started(Head(c.todo), c.id)
              /\ Goes(p, "ready", c)
           \/ /\ c.todo # <<>> /\ c.action = "launch" /\ server # NoServer
              /\ Leaves(p)
              /\ UNCHANGED server
           \/ /\ c.todo # <<>> /\ c.action = "use"
              /\ IF IsForeign(c.cfg) \/ server # NoServer THEN Goes(p, "ready", c) ELSE Leaves(p)
              /\ UNCHANGED server
        /\ UNCHANGED <<build, runs, tree, session, typed, ended, refusals>>

\* wait_ready and /props: up within the polls, under the window of the config.
Ready(p) ==
    /\ pc[p] = "ready"
    /\ \/ Answering(cmd[p].cfg) /\ Goes(p, "head", cmd[p])
       \/ Leaves(p)
    /\ UNCHANGED <<build, server, runs, tree, session, typed, ended, refusals>>

\* build_head reads the engine log and the registry as they are by now.
BuildHead(p) ==
    /\ pc[p] = "head"
    /\ Goes(p, IF cmd[p].resume = NoRunId THEN "create" ELSE "adopt",
            [cmd[p] EXCEPT !.stamp = StampOf(cmd[p].cfg, Head(cmd[p].todo), cmd[p].exec)])
    /\ UNCHANGED <<build, server, runs, tree, session, typed, ended, refusals>>

-----------------------------------------------------------------------------
(* open_run.                                                               *)

\* RunWriter::create, under an id of this second: the stamp is created ...
CreateRun(p) ==
    /\ pc[p] = "create"
    /\ \E id \in RunIds : runs[id].head = NoDir   \* bound: RunIds
    /\ LET r == CHOOSE id \in RunIds : runs[id].head = NoDir IN
        /\ runs' = [runs EXCEPT ![r] = StampBlanked(@)]
        /\ Goes(p, "stamp", [cmd[p] EXCEPT !.run = r])
    /\ UNCHANGED <<build, server, tree, session, typed, ended, refusals>>

\* ... and written.
WriteStamp(p) ==
    /\ pc[p] = "stamp"
    /\ runs' = [runs EXCEPT ![cmd[p].run] = StampWritten(@, cmd[p].stamp)]
    /\ Goes(p, "tasks", cmd[p])
    /\ UNCHANGED <<build, server, tree, session, typed, ended, refusals>>

\* adopt_judge: a run recorded without a judge takes the one of its resume.
AdoptJudge(p) ==
    LET c == cmd[p]
        run == runs[c.resume]
    IN  /\ pc[p] = "adopt"
        /\ IF ~Loads(run) THEN Leaves(p) /\ UNCHANGED runs
           ELSE IF WouldAdopt(run, c.stamp)
           THEN /\ runs' = [runs EXCEPT ![c.resume] = StampBlanked(@)]
                /\ Goes(p, "adopted", c)
           ELSE Goes(p, "resume", c) /\ UNCHANGED runs
        /\ UNCHANGED <<build, server, tree, session, typed, ended, refusals>>

WriteAdopted(p) ==
    /\ pc[p] = "adopted"
    /\ runs' = [runs EXCEPT ![cmd[p].resume] = StampWritten(@, cmd[p].stamp)]
    /\ Goes(p, "resume", cmd[p])
    /\ UNCHANGED <<build, server, tree, session, typed, ended, refusals>>

\* RunWriter::resume: the same configuration, and what is recorded is done.
ResumeRun(p) ==
    LET c == cmd[p]
    IN  /\ pc[p] = "resume"
        /\ IF Resumable(runs[c.resume], c.stamp)
           THEN Goes(p, "tasks", [c EXCEPT !.run = c.resume, !.done = KeysOf(runs[c.resume].rows)])
           ELSE Leaves(p)
        /\ UNCHANGED <<build, server, runs, tree, session, typed, ended, refusals>>

-----------------------------------------------------------------------------
(* The suites.                                                             *)

\* Nobody answers once the server has died.
Answers(cfg) == IF server = NoServer /\ ~IsForeign(cfg) THEN {"lost"} ELSE {"answered", "refused", "lost"}

\* Mutant: a case recorded through one door is not owed through the other.
OwesOneDoor(p) ==
    /\ cmd[p].at <= Len(Plan(cmd[p].cfg))
    /\ LET key == Plan(cmd[p].cfg)[cmd[p].at] IN \A d \in cmd[p].done : <<d[1], d[2]>> # <<key[1], key[2]>>

\* The crossing p is at, when the run does not hold it yet.
Owes(p) == cmd[p].at <= Len(Plan(cmd[p].cfg)) /\ Plan(cmd[p].cfg)[cmd[p].at] \notin cmd[p].done
KeyAt(p) == Plan(cmd[p].cfg)[cmd[p].at]

\* Mutant: a recorded crossing is looked at for ever.
SkipDoneStays(p) ==
    /\ pc[p] = "tasks"
    /\ cmd[p].at <= Len(Plan(cmd[p].cfg)) /\ ~Owes(p)
    /\ UNCHANGED vars

\* already_done.
SkipDone(p) ==
    /\ pc[p] = "tasks"
    /\ cmd[p].at <= Len(Plan(cmd[p].cfg)) /\ ~Owes(p)
    /\ Goes(p, "tasks", [cmd[p] EXCEPT !.at = @ + 1])
    /\ UNCHANGED <<build, server, runs, tree, session, typed, ended, refusals>>

Records(p, out, fill, held) ==
    Goes(p, "append", [held EXCEPT !.row = Row(KeyAt(p), out, fill, "none", held)])

\* run_throughput: a crossing that fails ends the command.
CrossThroughput(p) ==
    /\ pc[p] = "tasks" /\ Owes(p) /\ KeyAt(p)[1] = "throughput"
    /\ \E answer \in Answers(cmd[p].cfg) :
        IF answer = "answered" THEN Records(p, "measured", "none", cmd[p]) ELSE Leaves(p)
    /\ UNCHANGED <<build, server, runs, tree, session, typed, ended, refusals>>

\* append_probe: a crossing that never completed is unavailable.
CrossProbe(p) ==
    /\ pc[p] = "tasks" /\ Owes(p) /\ KeyAt(p)[1] \in {"tool_emit", "instruction", "fixture"}
    /\ \E answer \in Answers(cmd[p].cfg) :
        Records(p, IF answer = "answered" THEN "measured" ELSE "unavailable", "none", cmd[p])
    /\ UNCHANGED <<build, server, runs, tree, session, typed, ended, refusals>>

\* What the run's servers have refused is remembered for good.
Refused(p, what) == refusals' = [refusals EXCEPT ![cmd[p].run] = @ \cup {what}]

\* Mutant: a lost connection is put down to the engine.
CrossForcedLatchesAnyFailure(p) ==
    LET c == cmd[p]
    IN  /\ pc[p] = "tasks" /\ Owes(p) /\ KeyAt(p)[1] = "grammar_gap"
        /\ IF "grammar_gap" \in c.latch
           THEN Records(p, "refused", "none", c) /\ UNCHANGED refusals
           ELSE \E answer \in Answers(c.cfg) :
                \/ answer = "answered" /\ Records(p, "measured", "none", c) /\ UNCHANGED refusals
                \/ /\ answer # "answered"
                   /\ Records(p, "refused", "none", [c EXCEPT !.latch = @ \cup {"grammar_gap"}])
                   /\ IF answer = "refused" THEN Refused(p, "grammar_gap") ELSE UNCHANGED refusals
        /\ UNCHANGED <<build, server, runs, tree, session, typed, ended>>

\* run_forced_case: a refusal stands for every later forced case.
CrossForced(p) ==
    LET c == cmd[p]
    IN  /\ pc[p] = "tasks" /\ Owes(p) /\ KeyAt(p)[1] = "grammar_gap"
        /\ IF "grammar_gap" \in c.latch
           THEN Records(p, "refused", "none", c) /\ UNCHANGED refusals
           ELSE \E answer \in Answers(c.cfg) :
                \/ answer = "answered" /\ Records(p, "measured", "none", c) /\ UNCHANGED refusals
                \/ /\ answer = "refused"
                   /\ Records(p, "refused", "none", [c EXCEPT !.latch = @ \cup {"grammar_gap"}])
                   /\ Refused(p, "grammar_gap")
                \/ answer = "lost" /\ Records(p, "unavailable", "none", c) /\ UNCHANGED refusals
        /\ UNCHANGED <<build, server, runs, tree, session, typed, ended>>

\* infill_or_latch and exec_row: only /infill tells that a model cannot infill,
\* any other failure is this task's alone; an answered fill may be built.
CrossCodebase(p) ==
    LET c == cmd[p]
        body == TaskOf(KeyAt(p)).tier = "function_body"
        Answered(fill, compile) == [c EXCEPT !.row = Row(KeyAt(p), "measured", fill, compile, c)]
    IN  /\ pc[p] = "tasks" /\ Owes(p) /\ KeyAt(p)[1] = "codebase"
        /\ IF "codebase" \in c.latch
           THEN Records(p, "refused", "none", c) /\ UNCHANGED refusals
           ELSE \E answer \in Answers(c.cfg) :
                \/ /\ answer = "answered"
                   /\ \E fill \in IF body THEN Fills ELSE {"other"} :
                        CASE c.exec = "ready"       -> Goes(p, "splice", Answered(fill, "none"))
                          [] c.exec = "unavailable" -> Goes(p, "append", Answered(fill, "skipped"))
                          [] c.exec = "off"         -> Goes(p, "append", Answered(fill, "none"))
                   /\ UNCHANGED refusals
                \/ /\ answer = "refused" /\ ~IsForeign(c.cfg)
                   /\ Records(p, "refused", "none", [c EXCEPT !.latch = @ \cup {"codebase"}])
                   /\ Refused(p, "codebase")
                \/ /\ answer \in {"refused", "lost"}
                   /\ Records(p, "unavailable", "none", c)
                   /\ UNCHANGED refusals
        /\ UNCHANGED <<build, server, runs, tree, session, typed, ended>>

FileAt(p) == TaskOf(KeyAt(p)).file
FillAt(p) == <<p, KeyAt(p)[2]>>

\* exec_crossing: the file is read, and written back with the fill in it.
SpliceFill(p) ==
    LET original == InFile(tree, FileAt(p))
    IN  /\ pc[p] = "splice"
        /\ IF tree.there
           THEN /\ tree' = Spliced(tree, original, FileAt(p), FillAt(p))
                /\ Goes(p, "check", [cmd[p] EXCEPT !.original = original])
           ELSE UNCHANGED tree /\ Leaves(p)
        /\ UNCHANGED <<build, server, runs, session, typed, ended, refusals>>

\* tiers: what cargo says of the checkout, or why it could not be asked.
CheckFill(p) ==
    /\ pc[p] = "check"
    /\ \E verdict \in IF tree.there THEN Verdicts ELSE {"skipped"} :
        Goes(p, "revert", [cmd[p] EXCEPT !.row.compile = verdict])
    /\ UNCHANGED <<build, server, runs, tree, session, typed, ended, refusals>>

\* Mutant: the fill stays in the checkout.
RevertFillForgets(p) ==
    /\ pc[p] = "revert"
    /\ Goes(p, "append", [cmd[p] EXCEPT !.original = {}])
    /\ UNCHANGED <<build, server, runs, tree, session, typed, ended, refusals>>

\* revert: a file that does not come back ends the command.
RevertFill(p) ==
    /\ pc[p] = "revert"
    /\ tree' = Reverted(tree, FileAt(p))
    /\ IF tree.there /\ RevertRestores(cmd[p].original)
       THEN Goes(p, "append", [cmd[p] EXCEPT !.original = {}])
       ELSE Leaves(p)
    /\ UNCHANGED <<build, server, runs, session, typed, ended, refusals>>

\* RunWriter::append.
AppendRow(p) ==
    LET c == cmd[p]
    IN  /\ pc[p] = "append"
        /\ runs' = [runs EXCEPT ![c.run] = Appended(@, c.row)]
        /\ Goes(p, IF c.row.key[1] = "judge" THEN "judging" ELSE "tasks", [c EXCEPT !.row = NoRow, !.at = @ + 1])
        /\ UNCHANGED <<build, server, tree, session, typed, ended, refusals>>

\* The run is measured: a launched server goes down, and its budget must come back.
FinishCandidate(p) ==
    LET c == cmd[p]
        next == [c EXCEPT !.todo = Tail(@), !.dirs = Append(@, c.run), !.done = {}, !.at = 1, !.latch = {}]
    IN  /\ pc[p] = "tasks" /\ c.at > Len(Plan(c.cfg))
        /\ \/ ~Loads(runs[c.run]) /\ Leaves(p) /\ UNCHANGED server
           \/ /\ Loads(runs[c.run])
              /\ server' = IF c.action = "launch" /\ server # NoServer /\ server.by = c.id THEN NoServer ELSE server
              /\ IF c.action = "launch" THEN AwaitRelease(p, "next", next) ELSE Goes(p, "next", next)
        /\ UNCHANGED <<build, runs, tree, session, typed, ended, refusals>>

-----------------------------------------------------------------------------
(* The judge.                                                              *)

\* judge::eligibility: answered function bodies with something in them.
Eligible(row) ==
    /\ row.key[1] = "codebase" /\ row.out = "measured"
    /\ TaskOf(row.key).tier = "function_body" /\ row.fill # "empty"

JudgeKey(row) == Key("judge", row.key[2], Buffered)
Owed(rows) == {i \in DOMAIN rows : Eligible(rows[i]) /\ ~IsDone(rows, JudgeKey(rows[i]))}

\* judge_phase: a judge is never loaded to record nothing.
JudgePhase(p) ==
    LET c == cmd[p]
    IN  /\ pc[p] = "judge"
        /\ IF c.cfg.judge = NoJudge \/ \A i \in DOMAIN c.dirs : Owed(runs[c.dirs[i]].rows) = {}
           THEN Goes(p, "finish", c) /\ UNCHANGED server
           ELSE IF server # NoServer THEN Leaves(p) /\ UNCHANGED server
           ELSE server' = Started(c.cfg.judge, c.id) /\ Goes(p, "judge ready", [c EXCEPT !.left = c.dirs])
        /\ UNCHANGED <<build, runs, tree, session, typed, ended, refusals>>

JudgeReady(p) ==
    /\ pc[p] = "judge ready"
    /\ \/ Answering(cmd[p].cfg) /\ Goes(p, "judge run", cmd[p])
       \/ Goes(p, "judge down", [cmd[p] EXCEPT !.fate = "failed"])
    /\ UNCHANGED <<build, server, runs, tree, session, typed, ended, refusals>>

\* judge_run reads the run once and goes down its rows.
JudgeRun(p) ==
    LET c == cmd[p]
    IN  /\ pc[p] = "judge run"
        /\ IF c.left = <<>> THEN Goes(p, "judge down", c)
           ELSE IF ~Loads(runs[Head(c.left)]) THEN Goes(p, "judge down", [c EXCEPT !.fate = "failed"])
           ELSE Goes(p, "judging", [c EXCEPT !.run = Head(c.left), !.log = runs[Head(c.left)].rows,
                                             !.left = Tail(@), !.at = 1])
        /\ UNCHANGED <<build, server, runs, tree, session, typed, ended, refusals>>

JudgeSkips(p) ==
    LET c == cmd[p]
    IN  /\ pc[p] = "judging"
        /\ IF c.at > Len(c.log) THEN Goes(p, "judge run", [c EXCEPT !.log = <<>>])
           ELSE c.at \notin Owed(c.log) /\ Goes(p, "judging", [c EXCEPT !.at = @ + 1])
        /\ UNCHANGED <<build, server, runs, tree, session, typed, ended, refusals>>

\* verdict_for: what is decided already is not asked; both orders are, and a
\* refusal skips this crossing where any other failure ends the phase.
JudgeRow(p) ==
    LET c == cmd[p]
        row == c.log[c.at]
        Verdict(out) == [c EXCEPT !.row = Row(JudgeKey(row), out, "none", "none", c)]
    IN  /\ pc[p] = "judging" /\ c.at \in Owed(c.log)
        /\ IF row.compile = "error" THEN Goes(p, "append", Verdict("skipped"))
           ELSE IF row.fill = "same" THEN Goes(p, "append", Verdict("decided"))
           ELSE \E gold_first, prediction_first \in Answers(c.cfg) :
                CASE "lost" \in {gold_first, prediction_first} ->
                        Goes(p, "judge down", [c EXCEPT !.fate = "failed"])
                  [] {gold_first, prediction_first} = {"answered"} ->
                        \E out \in {"decided", "skipped"} : Goes(p, "append", Verdict(out))
                  [] OTHER -> Goes(p, "append", Verdict("skipped"))
        /\ UNCHANGED <<build, server, runs, tree, session, typed, ended, refusals>>

\* Torn down however the phase went.
JudgeDown(p) ==
    /\ pc[p] = "judge down"
    /\ server' = IF server # NoServer /\ server.by = cmd[p].id THEN NoServer ELSE server
    /\ AwaitRelease(p, "finish", cmd[p])
    /\ UNCHANGED <<build, runs, tree, session, typed, ended, refusals>>

-----------------------------------------------------------------------------
\* finish_codebase, or the Drop of what an error left behind.
Finish(p) ==
    LET c == cmd[p]
        left == IF c.tree /\ ~CanRemove(tree) THEN "failed" ELSE IF c.fate = "ok" THEN "done" ELSE "failed"
    IN  /\ pc[p] = "finish"
        /\ tree' = IF c.tree THEN Removed(tree) ELSE tree
        /\ ended' = [ended EXCEPT ![p] = [how |-> left, id |-> c.id, tree |-> c.tree, judge |-> c.cfg.judge]]
        /\ Goes(p, "idle", NoCmd)
        /\ UNCHANGED <<build, server, runs, session, typed, refusals>>

\* Killed: what is on disk and what is running stays as it is.
Kill(p) ==
    /\ pc[p] # "idle"
    /\ runs' \in {runs} \cup (IF pc[p] = "append" THEN {[runs EXCEPT ![cmd[p].run] = AppendTorn(@)]} ELSE {})
    /\ ended' = [ended EXCEPT ![p] = [how |-> "killed", id |-> cmd[p].id, tree |-> FALSE, judge |-> NoJudge]]
    /\ Goes(p, "idle", NoCmd)
    /\ UNCHANGED <<build, server, tree, session, typed, refusals>>

\* What goes on around the commands.
Idle == \A p \in Procs : pc[p] = "idle"

ServerDies ==
    /\ server # NoServer
    /\ server' = NoServer
    /\ UNCHANGED <<build, runs, tree, pc, cmd, session, typed, ended, refusals>>

\* chekov launch, and chekov update --engine or an edited configuration.
UserStarts ==
    /\ Quiet => Idle
    /\ server = NoServer
    /\ \E p \in Procs : session[p] # <<>> /\ server' = Started(Head(session[p]).models[1], 0)
    /\ UNCHANGED <<build, runs, tree, pc, cmd, session, typed, ended, refusals>>

Rebuild ==
    /\ Quiet => Idle
    /\ build < MaxBuild
    /\ build' = build + 1
    /\ UNCHANGED <<server, runs, tree, pc, cmd, session, typed, ended, refusals>>

Step(p) ==
    \/ ClearTree(p) \/ AddTree(p) \/ ExecState(p)
    \/ Resolve(p) \/ Confirm(p) \/ NextCandidate(p) \/ Ready(p) \/ BuildHead(p)
    \/ CreateRun(p) \/ WriteStamp(p) \/ AdoptJudge(p) \/ WriteAdopted(p) \/ ResumeRun(p)
    \/ SkipDone(p) \/ CrossThroughput(p) \/ CrossProbe(p) \/ CrossForced(p) \/ CrossCodebase(p)
    \/ SpliceFill(p) \/ CheckFill(p) \/ RevertFill(p) \/ AppendRow(p) \/ FinishCandidate(p)
    \/ JudgePhase(p) \/ JudgeReady(p) \/ JudgeRun(p) \/ JudgeSkips(p) \/ JudgeRow(p) \/ JudgeDown(p)
    \/ Finish(p)

Next ==
    \/ \E p \in Procs : Type(p) \/ Step(p) \/ Kill(p)
    \/ ServerDies \/ UserStarts \/ Rebuild

\* A command that is not killed goes on; its prompt is answered and its polls
\* and requests are bounded.
Spec == Init /\ [][Next]_vars /\ \A p \in Procs : WF_vars(Step(p))

-----------------------------------------------------------------------------
(* Types.                                                                  *)

Places ==
    { "idle", "clear", "add", "exec", "resolve", "confirm", "next", "ready", "head",
      "create", "stamp", "adopt", "adopted", "resume", "tasks", "splice", "check", "revert", "append",
      "judge", "judge ready", "judge run", "judging", "judge down", "finish" }
Refusables == {"grammar_gap", "codebase"}
Models == (UNION {Range(cfg.models) : cfg \in Cfgs}) \cup {cfg.judge : cfg \in Cfgs}
Execs == {"off", "ready", "unavailable"}
PlanKeys == UNION {Range(Plan(cfg)) : cfg \in Cfgs}
Keys == PlanKeys \cup {Key("judge", key[2], Buffered) : key \in PlanKeys}
CodeKeys == {key \in PlanKeys : key[1] = "codebase"}
Edits == {TaskOf(key).file : key \in CodeKeys} \X (Procs \X {key[2] : key \in CodeKeys})

Rows ==
    [ key: Keys, out: {"measured", "unavailable", "refused", "decided", "skipped"},
      fill: Fills \cup {"none", "other"}, compile: Verdicts \cup {"none", "skipped"},
      by: (Models \cup {"none"}) \X Nat, action: {"launch", "use"} ]
Stamps ==
    [ runtime: {cfg.runtime : cfg \in Cfgs}, engine: Nat, weights: Models, exec: Execs,
      corpus: {HeadCorpus(cfg) : cfg \in Cfgs}, judge: {cfg.judge : cfg \in Cfgs} ]
OnDisk == [head: Stamps \cup {NoDir, Blank}, rows: Seq(Rows), torn: BOOLEAN]
Commands ==
    [ cfg: Cfgs, resume: RunIds \cup {NoRunId}, id: Nat, fate: {"ok", "failed"},
      exec: Execs, tree: BOOLEAN,
      todo: Seq(Models), action: {"launch", "use"}, stamp: Stamps \cup {NoDir}, run: RunIds \cup {NoRunId},
      done: SUBSET Keys, at: Nat \ {0}, latch: SUBSET Refusables, original: SUBSET Edits, row: Rows \cup {NoRow},
      dirs: Seq(RunIds), left: Seq(RunIds), log: Seq(Rows) ]

\* A run without a stamp, or with one half-written, is told from the others.
ASSUME StampsAssumption == NoDir # Blank /\ NoDir \notin Stamps /\ Blank \notin Stamps

TypeOK ==
    /\ build \in Nat /\ typed \in Nat
    /\ server \in [model: Models, engine: Nat, by: Nat] \cup {NoServer}
    /\ runs \in [RunIds -> OnDisk]
    /\ tree \in [there: BOOLEAN, edits: SUBSET Edits]
    /\ pc \in [Procs -> Places]
    /\ cmd \in [Procs -> Commands \cup {NoCmd}]
    /\ session \in [Procs -> Seq(Cfgs)]
    /\ refusals \in [RunIds -> SUBSET Refusables]
    /\ \A p \in Procs : pc[p] # "idle" => cmd[p] \in Commands

\* No crossing is recorded twice, however often a run is resumed.
KeyedOnce ==
    \A r \in RunIds : \A i, j \in DOMAIN runs[r].rows :
        runs[r].rows[i].key = runs[r].rows[j].key => i = j

Whole(run) == run.head \notin {NoDir, Blank}

\* What a run's rows were measured with is what its stamp says: a crossing by
\* the stamped weights and build, a verdict by the stamped judge.
Matches(head, row) ==
    IF row.key[1] = "judge"
    THEN head.judge # NoJudge /\ row.by \in {<<head.judge, head.engine>>, <<"none", 0>>}
    ELSE row.out = "measured" => row.by = IF head.runtime = "llama.cpp" THEN <<head.weights, head.engine>> ELSE <<"none", 0>>

\* capability.rs launches, stamps and measures in that order, over resumes.
LaunchedRowsMatchStamp ==
    \A r \in RunIds : Whole(runs[r]) =>
        \A row \in Range(runs[r].rows) : row.action = "launch" => Matches(runs[r].head, row)

\* A run's rows are one per crossing, and all of its configuration.
RowsAreTrue == KeyedOnce /\ LaunchedRowsMatchStamp

\* exec.rs: what is built is HEAD with this fill in it, and nothing else.
ChecksTheFill ==
    \A p \in Procs : pc[p] = "check" /\ tree.there => Builds(tree, FileAt(p), FillAt(p))

\* run_forced_case, infill_or_latch: what is put down to the engine or the
\* model is something that a server of this run did answer.
NeverExonerated ==
    \A r \in RunIds : \A row \in Range(runs[r].rows) : row.out = "refused" => row.key[1] \in refusals[r]

\* A bench that comes to its end without an error, and was no dry run.
Through(p) == pc[p] = "finish" /\ cmd[p].fate = "ok" /\ ~cmd[p].cfg.dry

\* A bench that ends well has a row for all of its plan, and a verdict or its
\* reason for every function body the judge could be asked about.
PlanDone ==
    \A p \in Procs : Through(p) =>
        /\ Len(cmd[p].dirs) = Len(cmd[p].cfg.models)
        /\ \A r \in Range(cmd[p].dirs) :
            /\ Range(Plan(cmd[p].cfg)) \subseteq KeysOf(runs[r].rows)
            /\ cmd[p].cfg.judge # NoJudge => Owed(runs[r].rows) = {}

\* A bench that is not killed takes its checkout away; if it ends well it
\* leaves no server of its own, and it never leaves its judge up.
CleansUp ==
    \A p \in Procs : pc[p] = "idle" /\ ended[p].how # "killed" =>
        /\ ended[p].tree => ~tree.there
        /\ server # NoServer /\ server.by = ended[p].id /\ server.by # 0 =>
            /\ ended[p].how = "failed"
            /\ ended[p].judge # NoJudge => server.model # ended[p].judge

\* A bench that ends has done its plan, and leaves nothing behind.
EndsWell == PlanDone /\ CleansUp

\* capability.rs prices a bench by what its dry run counted: what one candidate
\* was asked, the sweep and the probes of a fixture apart, and no fewer
\* verdicts than the judge gave.
DryRunCounts ==
    \A p \in Procs : Through(p) =>
        LET asked(r, suites) == Cardinality({i \in DOMAIN runs[r].rows : runs[r].rows[i].key[1] \in suites})
        IN  /\ \A r \in Range(cmd[p].dirs) :
                asked(r, {"codebase", "tool_emit", "instruction", "grammar_gap"})
                    = CodebaseCrossings(cmd[p].cfg) + AgenticCrossings(cmd[p].cfg)
            /\ cmd[p].cfg.judge # NoJudge =>
                FoldSeq(LAMBDA r, n : n + asked(r, {"judge"}), 0, cmd[p].dirs) <= JudgeCrossings(cmd[p].cfg)

\* Every command that is not killed comes to its end.
BenchEnds == \A p \in Procs : pc[p] # "idle" ~> pc[p] = "idle"
=============================================================================
