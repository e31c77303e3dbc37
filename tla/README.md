# chekov in TLA+

A formal model of chekov, the command-line tool that downloads GGUF weights,
keeps a registry of them, runs one local `llama-server`, translates between
coding agents and that server, and benches and tunes models. TLA+ modules model
the parts whose correctness depends on order, interleaving and failure, and the
calculations whose results are compared with one another; TLC checks them on
small instances; TLAPS proves the most important properties for every instance.
Paths are relative to the repository root; the code is `src/`.

## 1. The system

### What interacts with what

Every chekov command is a process of its own. Commands share no memory, take no
lock and do not talk to each other. They meet in files:

| shared state | code | written by | read by |
|---|---|---|---|
| `logs/chekov.pid` | `src/core/server.rs` `PidFile` | run, restart, launch, bench, tune, stop | all of these, rm, status, use, update |
| `logs/chekov.model` | `server.rs` `write_run_state` | the same | rm, launch, bench, restart, status |
| `models.toml`, `models.toml.tmp` | `src/core/registry.rs` | use, rm, pull, update, tune --apply | every command |
| `models/<name>@<rev12>/`, `*.part` | `src/core/hub.rs`, `src/commands/pull.rs` | pull, update, rm | run, launch, bench, list |
| `eval/<run_id>/` | `src/core/bench/store.rs` | bench, bench --resume | report, compare, graph |
| `eval/.scratch/codebase-tree-<head>` | `src/core/bench/codebase/tree.rs` | bench --codebase | cargo |
| `tune/<utc>-<model>.json` | `src/core/tune.rs` | tune | the user |
| `agents/claude/` | `src/core/launch.rs`, `src/core/plugins.rs` | every launch, and the agent | the agent |
| the engine's checkout, binary and marker | `src/core/engine.rs` | setup, update --engine | bench (stamp), doctor, capability |
| the port, the server process | `src/core/checks.rs`, the OS | llama-server | run, bench, the proxy |

Inside one process, `launch` serves the Anthropic protocol on a loopback socket,
one thread per connection (`src/core/proxy/serve.rs`), and translates each
streamed reply with a `ClaudeStream` (`src/core/proxy/claude/stream.rs`). A
bench sends its own requests through the same translator, in process.

### Components, what makes each correct, and what is hard about it

| component | state and operations | correctness | hard because |
|---|---|---|---|
| server records: `server.rs`, `run`, `stop`, `restart`, `launch`, `bench/candidate.rs` | pidfile, run state, child processes; spawn, record, probe, SIGTERM/SIGKILL, clear | a stop is final; bench leaves foreign servers alone; a server can be found, is alone and keeps its weights | check-then-act over files, zombies, death between two writes, a SIGKILL nobody waits for |
| registry: `registry.rs`, `use`, `rm`, `pull`, `update`, `tune --apply` | `models.toml`; load, edit, save by temporary file and rename | an edit is atomic; an entry has its files | a shared temporary name, prompts and downloads between a read and a save |
| shard download: `hub.rs` | `.part`, the shard; resume, range answers, length check, rename, adoption | what is installed is the published file; a part can be resumed; retrying completes | transfers cut anywhere, servers that ignore or move a range, no published size, a second puller |
| proxy: `proxy/serve.rs`, `http.rs`, `claude.rs`, `claude/stream.rs` | one connection; request translation, buffered and streamed reply, one frame at a time | what is sent is what was asked, what arrives is what was answered, the reply ends and ends truthfully | arbitrary frame boundaries, failures at every frame, two doors that must agree |
| bench: `commands/capability.rs`, `bench/runner.rs`, `lifecycle.rs`, `store.rs`, `judge.rs` | candidates in sequence, appended rows, resume, judge last | rows are one configuration's and one per crossing; a bench that ends has done its plan and cleaned up | crashes inside an append, resumes, servers that die, rebuilt engines, errors that leave half-way |
| codebase mode: `bench/codebase/*` | checkout, spliced file, build, revert; cuts, masks, sampling, tiers | a crossing is built from HEAD with its own fill; a task hides what it asks for and nothing else; the gold scores full marks | offset arithmetic over cuts, several indexes over one repository, failed reverts |
| reports: `store.rs`, `compare.rs`, `stats.rs` | none; counts over rows | a report and a comparison count alike, in either order | rows that are missing or unavailable on one side, two implementations of one count |
| tune: `commands/tune.rs`, `core/tune.rs` | incumbent flags, record; staged descent | the record is what happened; the launches stay within what was agreed; what is applied is what won | candidates that die, flags with several spellings |
| capacity: `footprint.rs`, `frontier.rs`, `recommend.rs`, `machine.rs`, `gguf.rs`, `hub.rs` | registry, machine, stored runs | run, recommend and graph tell one story of the registered models, and what they verified does fit | several commands, each with its own arithmetic; absent header keys |
| clients: `launch.rs`, `plugins.rs`, `integrate.rs`, `engine.rs`, `doctor.rs` | the agent directory, Hermes's file, the engine's marker | a session talks to its own server; what is not chekov's survives; a marker names a build that ran | files rewritten in place that several launches and the agent share |
| the rest (configuration, clock, progress bar, listings, command line) | none | see `PROJECT.json` | |

`PROJECT.json` lists every component with its sources and whether it is
modelled, every hazard with its line, and which definition models which lines.

## 2. The modules

| module | models | checked by | proved in |
|---|---|---|---|
| `ServerLifecycle` | the commands around one server, one action per file operation, probe or signal | `MCServerLifecycle` | `ServerLifecycle_proofs` |
| `ModelRegistry`, `Registry` | abstract: a registry changed by atomic edits; `models.toml` and the five commands that edit it | `MCRegistry` | `Registry_proofs` |
| `ShardDownload` | one shard from hub to models directory | `MCShardDownload` | `ShardDownload_proofs` |
| `AnthropicStream`, `ClaudeStream` | abstract: what a strict client accepts; translator, relay and client of one streamed reply | `MCClaudeStream` | `ClaudeStream_proofs` |
| `Messages`, `Streamed`, `Probes`, `Exchange` | translation of requests and replies; the streamed reply with its payloads; probe sets and grades; one exchange | `MCExchange` | `Exchange_proofs` |
| `RunStore`, `Bench` | runs and the checkout on disk; a bench command | `MCBench` | `Bench_proofs` |
| `CodeText`, `CrossFile`, `Ladder`, `Codebase` | cuts and masks; cross-file uses; the seven tiers; from a repository to its tasks | `MCCodebase` | |
| `Stats`, `RunReport`, `Compare`, `Reports` | medians and verdicts; a run's report; a comparison; two runs growing | `MCReports` | |
| `LaunchFlags`, `Tune` | command lines; the descent | `MCTune` | `Tune_proofs` |
| `Footprint`, `Capacity` | a repository's files and the memory arithmetic; what run, recommend and graph say | `MCCapacity` | |
| `AgentConfig`, `HermesConfig`, `Clients` | the agent directory; the Hermes merge; sessions, builds, merges, checkups and the doctor's checks | `MCClients` | `Clients_proofs` |

Each line's modules extend one another from left to right (the abstract ones are
instantiated instead), so that only the last of a line has variables. The `MC`
modules hold the instances. Definitions that a comment marks as a *mutant* are
not part of any specification. Each is a plausible slip in the operation it
stands before: with it in the operation's place, TLC reports the property that
`PROJECT.json` names beside it.

### ServerLifecycle

`cli[p]` is the command that runs in terminal `p`: what it is, the step it is
at, the model it was given, the pid it holds in a local variable, and for `rm`
the registry it has loaded. `server[s]` is the process with pid `s`: starting
(spawned, not yet listening), up (listening), zombie (exited, its parent alive
and not waiting) or dead; who started it; who its parent is; whether it was
sent SIGKILL. `pidfile` and `runState` are the two records.

Each gate of `preflight`, the spawn, the two writes after it, each signal, each
removal is an action, so two commands interleave wherever the operating system
allows. `ProcessAlive` is the signal-0 probe (true of a zombie), `ChildAlive`
the `waitpid` one (reaps the caller's own children). Exiting hands children to
launchd (`Adopted`). `Crash` kills a command at any step; it also stands for an
I/O error of the next file operation, which leaves with `?`. A model server may
exit on its own at any time; a second one cannot bind the port and never gets
up. The port's other users, the memory gate and the flag check are
nondeterministic refusals.

`orderly` is a history variable: no two commands have worked at the same time
and none has died half-way. Four of the properties are stated for orderly use,
because the code has no lock and they do fail without it; within it, servers
still die on their own, foreground runs and agent sessions stay open beside
other commands, and stops escalate.

### ClaudeStream

`tr` has the fields of `struct ClaudeStream`; `queue` holds the events of the
current batch that are not yet written; `relay` is where `stream_upstream` is;
`wire` is what the client has received. `Chunk` translates a whole frame with
`OnChunk` (abort, start, thinking, text, tool calls, in the code's order) and
the batch is then written one event at a time, so the client may go away between
any two (`ClientGone`), as the upstream may between any two frames
(`ReadError`). A tag is two tokens, so a frame boundary can fall inside one;
`split` is a history variable: an opening tag has been cut so. Identifiers,
usage numbers, stop reasons and payloads are left out. `AfterError = FALSE`
states that the upstream sends nothing after an `error` object: `on_chunk`
itself does not look at `finished`.

### ShardDownload

A shard is a sequence of blocks; block `i` of the true file is `i`, and 0 is any
other content. `Check` is `file_matches` and `try_adopt`, `Prepare` is
`prepare_part` with the shortcut for a complete part, `Send`/`SendFaulty` with
`Decide` are `send`, `decide`, `resume_action` and `appendable`, and the body is
written block by block (`Copy`) at the end of the part or, when the transfer
started over, at the command's own offset. An open file keeps its content under
rename and removal (`file`, `Relabel`). A local copy of the published size is
taken to be the true file: the code checks sizes, not hashes. A false answer
(`Faulty`) is a refusal, another range or total, the whole file, or a success
with a body of other blocks of any length up to one more than the shard's;
`tainted` is a history variable: the files such a body was written into, until
the transfer starts over. Blocks a crash of the machine leaves unsynced are not
modelled.

### Registry and ModelRegistry

`toml` and `tmp` are the two files, each a registry, missing, blank or torn.
`Load` reads and edits a copy, `Open` truncates the temporary file, `Write`
fills it, `Rename` moves it over `models.toml`; a file that is renamed under an
open handle is then written under its new name. `pull` and `update` download
first and load afterwards; `rm` and `tune --apply` load and then wait for an
answer; `rm` deletes a directory file by file before it saves. An entry keeps
its revision, its quantisation and one bit for what the user has added to it.
`Overlap = FALSE` states that no command loads between another's load and its
save; downloads still overlap with everything. `upset` is a history variable:
models that two commands worked on at once or whose removal died.

`ModelRegistry` is the same registry with every edit one step; `SavesAreAtomic`
says that `Registry` implements it under `reg <- Parsed`.

### Messages, Streamed, Probes and Exchange

`Messages` translates a Messages request into a chat one and a whole reply back
(`claude.rs`), part by part: system text, turns, tool results (their texts
joined by newlines, the empty ones left out), tool uses, the thinking budget,
the sampling fields, the end of a turn. `Streamed` is the translator again, this
time with payloads, identifiers and usage, because here the two doors are
compared word for word. `Probes` holds the probe sets, the grades (`probe.rs`,
`fixture.rs`) and the templates of fill-in-the-middle prompts. `Exchange` is one
exchange: `ask` comes in by an agent or by a bench, passes routing, readiness
and `serve.rs`'s gates, is `posted`, and the `answer` comes back through the
door that `TimingClock`, `agentic_cross`, `forced_cross` and `fim_for` pick:
buffered, streamed, timed or infill. The server's `fate` is free: it may be
down, refuse, break off, close early or report an error; its frames merge any
number of atoms. What the two sides keep is `status` with the client's message,
and the `row` with its verdict.

The HTTP grammar is a request that parses or does not; JSON is records; token
counts are numbers of words. An answer is regular (reasoning first, one leading
`<think>` span at most, a call in one piece): section 4 lists what happens
outside of that.

### RunStore and Bench

A run of `RunStore` is a head, which is a stamp, `NoDir` or `Blank` (the
directory is there, the stamp is not), its rows, and whether the last line is
torn. The checkout is whether it is there and which file holds which fill.

`cmd[p]` and `pc[p]` follow one `chekov bench` from its validation to its end:
prepare the checkout, decide between the server that runs and one of its own,
confirm, launch, wait, build the stamp, create or resume the run, cross the
plan row by row, splice, check and revert each fill of a codebase task, tear
down, and ask the judge last. `Plan` is what the command owes by its flags and
its suite; `Owed` what the rows on disk leave. A crossing is answered, refused
by a server that answers, or lost; a fill is the gold, something else or empty.
`Kill` ends the command at any step, in the middle of a row too; a server may
die at any time, and a build may change between two commands (`Quiet`).

A build stands for the engine commit together with the launch flags, and the
server for its model, build and starter: its records are `ServerLifecycle`'s.
Scores are left to the reports, and timing to nothing.

### CodeText, CrossFile, Ladder and Codebase

A text is a sequence of tokens; a string, a character or a comment is one token,
and a line ends with its own. `CodeText` cuts the `#[cfg(test)]` items and finds
function bodies and in-file spans by the code's scanning rules (`filter.rs`,
`masker.rs`, `offsets.rs`); `CrossFile` indexes definitions and imports and
finds first uses (`crossfile.rs`); `Ladder` scores a fill on tiers 1 to 5
(`ladder.rs`) and turns cargo's diagnostics and test results into the verdicts
of tiers 6 and 7 (`exec.rs`). `Codebase` composes them: one file grows
line by line, then the files are prepared, the quotas drawn, each lane sampled
round robin (`sample.rs`), each pick assembled. The seed stands for any order
it may yield.

### Stats, RunReport, Compare and Reports

No state of their own: `Stats` has medians, quartiles and the significance
rule; `RunReport` counts a run's rows as `store.rs` does; `Compare` two runs as
`compare.rs` does, with the stamp's refusals, voids, paired cases and the exact
sign test. In `Reports`, two runs grow row by row along one plan, any row that
the crossing may be recorded as, and the reports are evaluated in every pair of
states. A number that is printed is kept exact where the code rounds it for the
page only.

### LaunchFlags and Tune

`LaunchFlags` reads and rewrites command lines as sequences of tokens: `--flag
value`, bare flags, short spellings, and what `llama-server` makes of a flag
that occurs twice (external: the last one). `Tune` is the descent: `pc` goes
confirm, baseline, start, probe, teardown, record, write, then next and stage by
turns, each candidate of a stage from start to write again, then settle, apply.
The record is truncated (`Torn`) and then `Written`, a launch, a probe and a
teardown succeed or fail as they please, and what a probe samples is chosen from
patterns around the significance and the guard. A stage holds the values it has
left: a candidate is a value applied to the incumbent, which stays the same for
the whole stage. `plain` is a history variable: the run started from a line that
names each tuned flag once at most, with a value behind it. The stage "baseline"
stands for no candidate. What the properties ask of a record, they ask of the
record alone: `StandsAfter` finds in its trials the one whose flags stand once
the first stages of the order are over.

### Footprint and Capacity

`Footprint` groups a repository's files into quantisations and picks one
(`hub.rs`, `pull.rs`) and has the memory arithmetic from header keys and flags
(`footprint.rs`, `gguf.rs`); `Capacity` holds the registry, the machine and the
stored runs, and computes from them what `run`'s gate, `recommend`, `graph` and
`pull` say of registered models. What `explain` prints and what `recommend` says
of discovered ones is not modelled (section 4). `Pull`, `Edit`, `Build`,
`SetWired`, `MoveTo`, `SetFloor` and `Bench` change the state. Bytes are counted
in eighths of a MiB, so that every rounding of the code still rounds.

### AgentConfig, HermesConfig and Clients

`AgentConfig` is what one launch writes to `agents/claude` (settings, servers,
plugin links) and what the agent then sees of it; `HermesConfig` merges
chekov's provider into the user's file by lines of six kinds, among them one
that is not UTF-8. `Clients` judges
the findings of a checkup (`doctor.rs`) and runs them all: each session's launch goes
through its steps (`run[s]`: truncate and write `settings.json`, read, truncate
and write `.claude.json`, link, start the agent), the agent reads and saves, the
user edits, servers start, swap and die; a Hermes merge backs up and writes; an
engine build goes through clone or pull, fetch, checkout, configure, compile,
verify, record, and may fail or die at each; a checkup makes its probes one by
one, about the model that the run-state file names (`recorded`) or else the
active one. One build runs at a time. A session is over when its agent has
exited, although `launch` itself stays (section 4).

## 3. The runs

| run | instance | shows |
|---|---|---|
| `server` | 2 terminals, 2 models, 2 pids, 3 commands | `StopIsFinal`, `BenchStopsOnlyItsOwn`; `OrderlyUse`: in orderly use `ServerManaged`, `OneServer`, `ServedModelKept` |
| `server_live` | the same with 2 commands, fair | `NothingHangs` (`CommandsEnd`, `StoppedServersEnd`) |
| `claude` | 16 kinds of frame, opening tags cut in two among them, up to 4 frames, fair | `WellFormed` (refinement of `AnthropicStream`), `EndsProperly` (`EnvelopeClosed`, `CleanEndIsTrue`), `TextIsFaithful` (`SameText`, `NoReasoningShown`; of replies with no opening tag cut in two), `ReplyEnds` |
| `wire` | every door, 11 answers, every cut into frames, four conversations with system prompts and results of several texts, refused requests | `AsksWhatWasAsked`: upstream gets the conversation it was handed; `SameMessage`: both doors give one message; `VerdictIsTheModels`: a row says what the model did, never what chekov or the network did; `ClientIsAnswered`: an agent gets a reply that ends, or an error |
| `download` | 3 blocks, 3 false answers, size listed or not, 3 local copies, fair | `WholeOrResumable` (`InstalledIsWhole`, `PartIsPrefix`; of files with no foreign bytes), `PullCompletes` |
| `registry` | 2 terminals, 2 names, 2 revisions, 2 quantisations, 4 commands | `EntryHasFiles`, `SavesAreAtomic` (refinement of `ModelRegistry`) |
| `bench` | 1 terminal, 3 run directories, sequences of two or three commands, 2 builds, killed anywhere, fair | `RowsAreTrue`: one row per crossing (`KeyedOnce`), and a launched bench's rows were measured on what the stamp names; `ChecksTheFill`: cargo sees HEAD with one fill; `NeverExonerated`: a refusal the server gave stays recorded as one; `EndsWell`: a bench that ends well has a row for its whole plan and a verdict for what its judge could be asked (`PlanDone`), and leaves no checkout, no server of its own and no judge (`CleansUp`); `DryRunCounts`: with one candidate, no fixture and a fresh run, the dry run's total is the number of questions that are then asked; `BenchEnds` |
| `codebase` | a file of up to 7 lines out of 11, 3 repositories, 6 tasks, 2 tests | `MasksAreSound`: what is hidden is absent from what is shown, and the gold put back gives the file; `GoldIsPerfect`; `SampleIsFair`: quotas met as far as there are candidates, no pick twice, files in turn; `CrossFileIsHonest`; `VerdictIsTheTests`: a fill is blamed for its own tests, or where cargo could not build them |
| `reports` | up to 7 tasks, stamps apart in up to 2 fields, every pair of prefixes | `ComparisonMirrors`, `ReportAgrees`, `SignTestIsExact` |
| `tune` | two runs, each over one stage or two, from lines that are plain or not, six patterns of samples, killed anywhere | `LaunchesWithinCeiling`, `RecordIsTrue` (`TrialsOnDisk`, `RecordTellsTheDescent`), `LinesAreReadAsMeant` (`ChangesItsOwnFlags`, `AppliedRunsWinner`; of runs that start from a plain line) |
| `fit` | 2 repositories, 2 contexts, budgets and floors around the sizes, 2 runs, 2 builds | `FrontierIsTrue` (`ViewsAgree`, `SpeedsAreTheCells`), `VerifiedLaunchesFit` |
| `clients` | 2 sessions, 3 user configurations, a Hermes file out of ten, a server started by `launch`, in a terminal or unrecorded, 2 commits of which one is broken | `SessionIsDeclared`, `AgentDirectoryKept` (`ClaudeStateKept`, `PluginsResolve`), `HermesKeepsTheRest`, `MarkerIsVerified`, `HealthyMeansServing` |

The names in parentheses are the conjuncts; each is commented where it is
defined.

Why the bounds suffice for the cases of interest.

- Two terminals give every interleaving of a pair of commands, and a third
  command is enough for the patterns that need a history: start, start again,
  stop; launch in a session, stop from elsewhere, run. Two pids give a server
  and its rival or successor.
- Four frames reach open, switch of block kind, failure and end. In `wire` a
  whole answer is sent instead, and every way to merge its atoms is tried.
- Three blocks leave room for two partial attempts and a moved range, and three
  false answers for a short page, its completion, and one more. Four registry
  commands reach pull, use, pull of another, rm.
- `bench`: the sequences are bench and resume with the agentic suite; two models
  in one command; a foreign server with a fixture, resumed; a codebase run that
  builds, resumed under a judge; a judged run resumed; dry runs. Two builds make
  a resume meet its own stamp or another one; three directories leave one for
  each command. One terminal only: section 4 says what two do.
- `codebase`: seven lines hold a definition with its body, an import, a use and
  a cut, in any order; the cap on the extra file bites on one of the three, with a
  long line ahead of the declaration in one repository. A cargo that runs no
  test is tried where no test fails and where all do.
- `reports`: seven tasks let the sign test reach its smallest significant count;
  two fields separate a refusal from a warning.
- `tune`: the patterns are a clear win, a gain within the noise, a loss, missing
  samples, and a gain that costs more than the guard allows; two stages let the
  second build on the first one's winner, and two runs let the second start from
  what the first applied, plain or no longer.
- `fit`: sizes are chosen so that each of the budgets separates some pair of
  context, cache type and quantisation. Limits and floors are tried before runs
  are stored.
- `clients`: the budgets let each of the five stories (two launches; a launch
  and a swapped server; a Hermes merge; builds; a checkup) run to its end with
  two or more disturbances, one story per behaviour. The user edits only while
  no launch is mid-write.

The proofs lift these bounds for the properties they cover.

Fairness. `server_live`: a command's next step is taken eventually (the
operating system schedules it; its loops are bounded by the grace period) and a
SIGKILL is delivered; nothing is assumed of a healthy server, a session or a
foreground run. `claude`: the handler's thread runs on, and the upstream
eventually ends its reply; without the latter the proxy does wait for ever.
`download`: strong fairness of each step, because every attempt may be
interrupted: it says the user retries and not every attempt dies at the same
step. `bench`: weak fairness of each command's own step, and of nothing else;
waiting for a server, for a release and for cargo is bounded in the code, a
prompt is assumed to be answered, and cargo's children to close the pipes they
inherit (section 4).

Deadlock is not checked where the system really stops: the commands typed have
ended, the reply has ended, the shard is installed, the runs are recorded.
`fit` and `wire` check it.

## 4. Where the code and its documentation part

Met while modelling, or found by TLC when an assumption below is lifted. Where
a property is stated for less than every behaviour, the reason is here.

**Commands that overlap.** There is no lock, and several properties are stated
for use without overlap.

- A `stop` that was slow removes the pidfile and run state that a newer server
  has written since (`stop.rs:42`); the newer server can no longer be found.
- Two saves of the registry share `models.toml.tmp` (`registry.rs:137`). One
  truncates it just before the other renames it, and a blank file loads as an
  empty registry, though `registry.rs:116` says "never silently reset". A
  second loss is the ordinary one: the later save undoes the earlier edit.
- Two pulls of one shard: `verify_length` compares what the process has counted
  (`hub.rs:757`), not the file, although `hub.rs:755` says a short shard "is
  never renamed into place".
- Two resumes of one run number their rows from the same count
  (`store.rs:333`) and both measure the same tasks.
- Two benches of one HEAD share the checkout (`codebase/mod.rs:324`): one's
  cargo builds with the other's fill in the tree, and each reverts over the
  other. `exec.rs:3` promises a revert "verified byte for byte before the next
  crossing is measured"; it verifies its own file only.
- Two launches share `agents/claude`. The second overwrites `settings.json`; an
  agent that starts late reads the second one's port and model, or a half
  written file, and then has no local endpoint at all. Their rewrites of
  `.claude.json` can lose what Claude saved in between, and so does a launch
  that is killed between truncating and writing, although the comment there
  says the state is preserved. `SessionIsDeclared` and `AgentDirectoryKept` say
  what does hold.
- Two engine builds at once could record a commit that the binary is not from.

**Servers.**

- A measurement that fails leaves `run_candidate` with `?`
  (`capability.rs:1299`), before the teardown: the server that bench launched
  stays up, and `README.md:108` says it tears down its own.
- `run --foreground` writes neither record (`server.rs:225`), so `rm` removes
  the weights of the model it serves; `README.md:114` says it refuses.
- `wait_ready` takes any answer on the port for its own server's
  (`runner.rs:56`).
- `launch` bridges inside `std::thread::scope` (`launch.rs:236`), which joins the
  accept loop of `serve.rs:39`, and that never returns: after its agent has
  exited, `chekov launch` stays, though the comment at `launch.rs:243` has the
  session end with the agent. No property is about it.
- The rows of a bench that found its server running need not match the stamp:
  `local_identity` (`capability.rs:2427`) describes what chekov would launch.
  `stamp.rs:5` calls the stamp what pins a configuration; `RowsAreTrue` claims
  it for launched servers only.

**Downloads and quantisations.**

- No checksum is compared, only lengths. A page that a server or a portal sends
  with status 200, if it is shorter than the shard, stays in the `.part`; the
  next attempt asks for the rest, is answered properly (`hub.rs:620` compares the
  range and the total), and `verify_length` passes what is not the shard. A range
  as asked with other bytes does the same. `WholeOrResumable` and `PullCompletes`
  except the files such a body reached (`tainted`); without the exception TLC
  finds it in a few steps.
- With no published size, a 416 to a resume is read as "start over"
  (`hub.rs:602`), and what is then written is the 416's own body
  (`hub.rs:747`).
- The no-op test of `pull` sees the revision and the first shard only
  (`pull.rs:180`; `pull.rs:179` calls it verified). A quantisation whose
  download was cut stays cut, and a second quantisation at the same revision
  leaves the registry on the other one.
- `weights_on_disk` counts every quantisation of one revision.

**The proxy.**

- An opening `<think>` that a frame boundary cuts is not recognised and the
  reasoning behind it is streamed as text (`stream.rs:178` looks for whole tags in
  what it has, and keeps back only what may become a closing one). `claude` has
  such frames, and `TextIsFaithful` excepts them (`split`). Text before an unclosed
  `<think>` is shown by the stream and dropped by the buffered door; a second
  span, and text after a call, come out differently too. `claude.rs:33` says a
  client sees the same text either way.
- `on_chunk` does not look at `finished` (`stream.rs:275`): a frame after an
  error object opens blocks behind the end.
- `forward_once` leaves with `?` (`serve.rs:95`) when the buffered body breaks,
  and the client gets no response.
- An `error` object in a 200 body is an error when streamed and an empty reply
  when buffered. A connection that ends early and cleanly is an `end_turn`.
- `count_tokens` (`claude.rs:124`) leaves out the newlines that `flatten_text`
  (`claude.rs:354`) puts between the texts of a system prompt or a tool result.
- Arguments that do not parse become `{}`; `is_error` and images of a tool
  result are dropped.
- `MAX_HEADERS` refuses exactly 100 headers; the message says more than 100.
- The fixture grader reads the first part of the content only, so a reply whose
  reasoning was extracted always fails; and a `contains:` check can pass
  strictly and fail loosely.

**Bench and its runs.**

- A crash inside an append leaves a torn line, and `read_rows` (`store.rs:483`)
  then refuses the whole run; `store.rs:346` says a crash "loses at most this
  task".
- A crash inside `adopt_judge` (`store.rs:449`) leaves a stamp that does not
  parse, with the same effect.
- `one_test` (`exec.rs:688`) passes the bare name of a test with `--exact`. Of a
  test in a module, or in a package nested in the crate's directory, cargo runs
  nothing and exits 0, and tier 7 passes; by its own comment it does so "only
  when all of them pass". `VerdictIsTheTests` names the two kinds.
- When a test target does not build, `cargo test` exits without having run
  anything, and `test_verdict` (`exec.rs:706`) has no case for it: the fill has
  failed. By the comments at `exec.rs:661` and `756` a test module that will not
  build is never the fill's fault. `VerdictIsTheTests` excepts it; a registry
  out of reach, a timeout and a cargo that does not start are told apart.
- The drain of cargo's pipes (`exec.rs:100`) has no deadline: a process that
  cargo leaves behind holds the bench. `check_score` does not look at cargo's
  exit status.
- `head_corpus` (`capability.rs:2323`) ignores the fixture under `--codebase`.
- The estimate of a dry run counts agentic and codebase crossings once instead
  of once per candidate, a sweep the suite does not have, and no probes of a
  fixture.

**Codebase tasks.**

- `first_delimiter` (`filter.rs:143`) takes the `;` of an array type for the end
  of a `#[cfg(test)]` item, so its body stays in what is shown; a function with
  such a parameter has no body to mask (`masker.rs:161`).
- Two such items on one line give overlapping cuts (`filter.rs:36`); of doc,
  attribute, doc the first doc stays.
- Two spans on one line share a task id, and nothing refuses a depth that stands
  twice in the configuration (`config.rs:143`): a plan may name one key twice,
  and a fresh run then has two rows of it. The runs and proofs about rows take
  plans without (`PlanAssumption`).
- The extra file's window (`crossfile.rs:495`) is meant to be "centred on the
  declaration line", but starts at the beginning of the line that is half a window
  before it: when that line fills the window, the declaration is not shown.
  `CrossFileIsHonest` is about files with no such line.
- A gold without identifiers gets 0 on
  tier 5. A body with a cut in it breaks the invariant `mod.rs:94` states.

**Reports.**

- The constrained gap counts paired cases, but an unavailable row of the
  unconstrained arm is left out on that side alone (`store.rs:752`, `1612`).
- `equiv_delta` (`compare.rs:614`) ignores that consistency was voided.
- `probe_line` (`store.rs:1684`) prints unavailable rows of a fixture as FAIL;
  the row's own comment says "NEVER a failure".
- `exec_cells` (`store.rs:1233`) counts skipped verdicts among those with
  covering tests.
- `compare` says nothing of codebase tasks that only one run holds.

**Tune.**

- `value_of` (`core/tune.rs:246`) reads a flag's first occurrence, and the
  defaults come first (`registry.rs:145`), where `llama-server` takes the last.
  So of a line that names a tuned flag twice, a candidate may change the
  occurrence that is not read, or `--apply` carry over a value that never ran;
  and `--apply` itself makes such lines. Given `--flash-attn on` among the
  defaults, the first `tune --apply` finds `off` the faster and appends it to the
  model's own flags; a second, over batches, measures every trial with `off`,
  reads `on` off the winner and writes that over the model's `off`. The first
  winner is lost, the second was never measured with what is applied, and
  "everything else untouched" (design of tune, section 8) does not hold. The
  stamp reads the same way, and `wants_q8` (`footprint.rs:30`) lets any q8 stand
  for all. The instance of `tune` has such lines, given and applied;
  `LinesAreReadAsMeant` is about the runs that start from another (`plain`), and
  without that guard TLC finds it violated.
- The guard is measured against the incumbent, so its tolerance adds up over
  stages; "a candidate beat the current flags" may be said of a descent whose
  last winner is worse than the first.
- With the speculative stage gated, the launches exceed the announced ceiling
  by one; `LaunchesWithinCeiling` is stated for the other descents.
- The record is truncated, then written (`core/tune.rs:715`): a crash there
  loses the trials so far, against the comment above it.

**Capacity.**

- `discovered` (`capability.rs:731`) leaves out the 3 GiB of overhead and
  `explain` (`capability.rs:533`) prints totals without it, though
  `footprint.rs:3` includes it. `FrontierIsTrue` is about the other commands.
- The table of `pull` knows the wired limit only, not the device's.
- A `head_count_kv` array counts by its first element, and a key of another
  namespace with the same suffix overrides the right one.

**Clients.**

- A link to a directory that still exists is kept when the plugin has moved;
  servers and marketplaces that were removed stay; `--print` leaves settings
  that name a dead port.
- `verify_serves` compares the model's name only, so the context a session
  declares may not be the one loaded.
- The Hermes merge does not always keep the rest, nor is a second one always a
  no-op, though `integrate.rs:2` says both. A file that is not UTF-8 is taken for
  an empty one and replaced (`integrate.rs:258`; the backup has it). A last line
  without a newline takes `providers:` for its value. A provider whose header has
  a value or a comment behind its colon is not seen (`integrate.rs:141`): it is
  swallowed if it follows chekov's entry, by a second merge even where the first
  put that entry in front of it, and a chekov entry of that form is added again.
  A comment among the providers, or ahead of a file without a model block, makes a
  second merge change something. All of these are in the instance, and
  `HermesKeepsTheRest` says for each shape what still holds. Two backups in one
  second overwrite each other.
- After a pinned build the checkout's HEAD is detached, and `git pull --ff-only`
  fails from then on.
- A checkup never asks which model answers: it is about the one on record or, with
  none, the active one (`doctor.rs:187`). Another model with the same context
  passes as healthy: started with `run --foreground`, left unrecorded by a start
  that was killed, or come in between two checks.
- `update.rs:67` records "none" when it cannot read HEAD after a build.

## 5. The proofs

`ServerLifecycle_proofs`: for any numbers of terminals, models, pids and
commands (and no pid equal to `NoPid`, and so on: the ASSUMEs of the module).

- `TypeCorrect`, `StopIsFinalAlways`, `BenchStopsOnlyItsOwnAlways`, and
  `OrderlyUseAlways`, which joins `ServerManagedAlways`, `OneServerAlways` and
  `ServedModelKeptAlways`; beside it `LaunchAdoptsItsModelAlways`, an action
  property that no run checks: in orderly use, a launch adopts only a server of
  its own model.
- None of the invariants is inductive by itself. `Known` adds that a command
  that signals or removes holds the pid of a process that has existed;
  `BenchOwns` that a bench which launched is its server's parent;
  `OrderlyInv` describes, for the one command that is working in orderly use,
  what has been spawned and written at each of its steps: before the spawn no
  background server runs, between the two writes the pidfile already names it,
  and in a teardown the server is gone or killed before its records go. The
  parts of `OrderlyUse` follow from `OrderlyInv`.

`ClaudeStream_proofs`: for any frames, any number of them and any slots.

- `TypeCorrect`; and, assuming `AfterError = FALSE`, `EndsProperlyAlways` (from
  `EnvelopeClosedAlways` and `CleanEndIsTrueAlways`) and
  `StreamImplementsGrammar`, that `Spec` implements `AnthropicStream`'s.
- The invariant (`IInv`: `TypeOK`, `Relayed`, `FailedTruly`) says that the
  events still queued lead the client, by steps that the grammar allows, from
  where it is to the state the translator believes it is in. `Leads` makes this
  precise; the lemmas `LeadsAppend` and `LeadsTail` are the only facts about
  queues, and one lemma per translator operation shows that it appends legal
  events. The translation of a frame is then one use of these lemmas, and a
  write is one legal step of the grammar.
- `TextIsFaithfulAlways`, for any frames, of every reply in which no frame boundary
  has cut an opening tag so far (`split`, set by the first cut and never reset):
  `on_text` looks for a whole `<think>` in what it holds, and keeps back only what
  may become a closing tag, and where the opening one comes in two the code does
  fail (section 4). The invariant adds to `IInv` (`Whole`) which of three
  situations the translator is in, from the content it has received: before any
  reasoning, everything is shown (`Plain`); inside it, what was before the tag
  is shown and what may be the beginning of the closing tag is held back
  (`Thinking`); after it, the rest is shown too (`Thought`). It says so of the
  text the client *will* have read once the queue is written, and `GoneInTime`
  that a client that left has read no more. The work is in what searching a text
  that grows at its end does: a first tag stays the first (`FindGrows`), one
  that was not there begins in the new part (`FindBehind`), and a closing tag
  that is cut is found in what was held back (`FindCloseBehind`, `JoinAgain`).

`Registry_proofs`: for any terminals, models, revisions, quantisations and
number of commands.

- `TypeCorrect`, with no assumption on how commands overlap; and, assuming
  `Overlap = FALSE`, `SavesAreAtomicAlways` (`Registry` implements
  `ModelRegistry`), `EntryHasFilesAlways` and `RepointsAreGatedAlways`.
- `Saves` is the invariant behind atomicity: one command at most is between its
  load and its rename, what it holds is the edit of what `models.toml` says
  *now*, and the temporary file is empty or holds that edit, according to its
  step. Then only a rename changes the registry, and each rename is one
  abstract command. Without the assumption `Saves` fails at its first conjunct,
  which is the shared temporary file of section 4.
- `Places` is the invariant behind the other two: for a model outside `upset`,
  one command at most works on it; an update's quantisation and a pull's `seen`
  still agree with the entry; a download past its last shard has its shards on
  disk. A step of another model's command leaves all of this alone (`Kept`).

`ShardDownload_proofs`: for a shard of any length, any published size or none,
any number of false answers, cuts with or without notice.

- `TypeCorrect` for any number of pulls of one shard; with a single one,
  `WholeOrResumableAlways`, from `InstalledIsWholeAlways` and
  `PartIsPrefixAlways`, of the files that no false body was written into: with
  only lengths to go by, the code cannot know those (section 4). A local copy of
  the published size is assumed to be the shard (`CopiesAssumption`).
- The invariant (`Download`) follows the command: when it sends, the offset it
  asks from is the length of the `.part`; when it opens and copies, the `.part`
  is a prefix that ends where the rest of the body begins (`Follows`); when it
  verifies or renames, the length it has counted is the file's. Two pulls break
  the last point (section 4).

`Clients_proofs`: for any sessions, user configurations, plugin directories,
models, commits and budgets. Assumed of the constants is that nothing to be read
is taken for nothing: `NoFile` is neither a session nor one of the objects
`.claude.json` can hold (`ObjectsAssumption`, `ClaudeAssumption`).

- `MarkerIsVerifiedAlways`. By itself the property says nothing of the commit a
  build is about to record. The invariant `Built` does: what is left of a build
  always ends in compile, verify, record; with two steps left the binary is the
  checkout's; with one left its commit has printed its version. Whatever step
  fails, the build is over and the marker untouched.
- `SessionIsDeclaredAlways`, for launches that interleave at every write. The
  invariant (`Shape` and `Declared`) says of the shared settings file that at
  every moment it is unreadable or holds the whole environment of one launch
  that has begun, and that a launch during which no other wrote it finds its
  own there.
- `HealthyMeansServingAlways`, with a server that is stopped or replaced between
  any two checks. The invariant (`Checkup`, `Found`) follows the checkup: the
  checks left are the tail of the list and each one made has a row; a row that
  did not fail shows what its check looks for (`Shows`); as long as no row
  failed, no server the doctor asked was down. The last check is the one of the
  context, so its row gives the rest. Which model the server had loaded is not
  claimed, as it is never asked.
- `AgentDirectoryKeptAlways`, with launches that read, truncate, write, link and
  are killed at every step. What a launch holds makes it inductive (`Directory`):
  what the agents kept is on disk, or in the hands of the one launch that has
  truncated `.claude.json`, and what that launch read is still what was there
  (`Saved`); no row occurs twice on disk or in hand (`Listed`); while it links,
  each marketplace done has a link that resolves and a row in hand, and each one
  left is known (`Linked`). That no other launch is under way then (`Solo`)
  follows from no overlap having been seen.

`Bench_proofs`: for any models, suites, tasks, fills, sequences of commands and
number of run directories. The plan of a command is assumed to be a sequence of
distinct keys (`PlanAssumption`). The code does not enforce that (section 4 has
two ways out of it), so what is proved of rows and plans is proved for benches
whose depths are distinct and whose tasks have distinct ids; for others
`KeyedOnce` is false.

- `TypeCorrect` and `NeverExoneratedAlways`, for any number of terminals: the
  latch a command keeps is a subset of what servers of its run have refused
  (`Latched`), wherever it carries the row it will append.
- `ChecksTheFillAlways` and `KeyedOnceAlways`, for one terminal (`OneTerminal`),
  because neither the checkout nor a run is locked. `OneFill` says where a
  command may count on the checkout being HEAD and where it holds exactly its
  own fill; a kill may leave a fill behind, and the invariant holds again
  because the next command clears the tree before it reads `exec`. `Keyed` says
  that the keys of a run are those that the command has read as done or has
  crossed since, and the same of the judge's verdicts; the plan, by assumption,
  names no key twice, so the row that is appended next is new. That a directory without a stamp has
  no rows (`NothingUnstamped`) starts the argument for a new run.
- What a step may change is stated once: `Moves` for the command that steps,
  `RowsKept`, `HeadsMove` and `AppendedRow` for runs, `CrossingEffect` and
  `BuildingEffect` for the crossings.

The second half of `Bench_proofs`, for one terminal too, is what a bench
promises about its runs. It begins with what each step does to the command's own
record, as a relation between the record before and after (`PreparingEffect`,
`JudgeRowEffect`, ...), so that the invariants are proved from a few relations
instead of from the actions' bodies.

- `RowsAreTrueAlways`: a run has one row per crossing, and a row of a launched
  bench is of the model and build that the run's stamp names. Assumes `Quiet`,
  that nobody starts a server or rebuilds the engine while a bench runs: the
  code looks at neither after it has begun (section 4). The invariant is
  `Settled`, along the life of one command: a command that has chosen to launch
  found no server, or has stopped the one it found (`Chosen`); from its launch
  to its teardown, what answers on the port is its own server, of this build
  (`Serving`); the stamp it holds names that model and build (`Headed`); the run
  it appends to is headed by that stamp, or by one that a resume has compared
  with it (`Owned`); and the row in its hand is what that server answered
  (`Witness`). A server that dies gives `NoServer` and lost rows, never a
  stranger's. What a kill leaves behind is only the runs, and they are true
  already.
- `EndsWellAlways`, with servers that die, are started and are rebuilt at any
  time: `PlanDone` and `CleansUp`. The invariant follows what a command still
  owes: the crossings before its cursor have a row in the run (`Counted`); when
  it leaves a candidate, all of them do, torn lines of earlier kills included
  (`Covered`); what it has not yet judged is the tail of what there was to judge
  (`Decided`); `Finished` carries both over to the commands that have ended;
  `Tended` says of every step whether a server of its own may be up, and with
  which fate. `Numbered` keeps two commands apart: a server belongs to the
  command whose number it bears, and numbers grow.

`Tune_proofs`: for any default and extra flags, any lists of values, stages,
samples and thresholds, and any number of runs. Assumed is that the median of
what was sampled, where there is one, is a number (`MediansAssumption`; it is
computed by a sort, which the provers cannot unfold), that no value on the lists
of the configuration is spelled like a tuned flag and the batches on them are
numbers (`ListsAssumption`), and as much of the tokens that chekov writes itself
(`TokensAssumption`).

- `RecordIsTrueAlways`: between trials the record on disk is the one in memory;
  a run that was not killed left a trial for every probe; and the descent can be
  told from the record. The difficulty is that the record says it with hindsight
  (`StandsAfter` looks for the last stage won in all the trials) and the run
  decides as it goes, from the incumbent it holds and from `scored`, the
  measured candidates of one stage. The invariant ties the two together:
  `Stands` says that the incumbent is the trial that stands after the stages
  before this one, `Mirrors` that `scored` is, in order, the stage's trials, and
  that none which wins is missing, `Kept` that the record so far begins with the
  baseline, holds no trial of a later stage and tells its own descent, and
  `Counted` how many probes are not yet recorded, at each step of a trial.
- Three facts carry the steps. A trial of a stage leaves what stood before that
  stage (`StandsKept`), so every earlier verdict keeps its meaning when the
  record grows. What `pick_winner` picks from `scored` is the best winning trial
  of the record (`PickIs`), the earliest one of a tie. Nothing of a later stage
  has been tried (`NoneBeyond`), because the stages of a plan follow the fixed
  order (`StagesRise`), so the incumbent after the last stage planned is what
  stands after all five. That some trial is the highest of finitely many
  (`HighestOf`) is shown by a least counterexample, which needs no induction.
- `LaunchesWithinCeilingAlways` and `LinesAreReadAsMeantAlways` need to know what
  a command line holds, and are about the runs that begin well (`plain`): when the
  plan is made every tuned flag stands at most once in the flags it starts from,
  with a value behind it, a draft length only beside a draft, no drafts among the
  defaults, and a number for a batch. It is a condition on each run, whatever the
  runs before it were, because `--apply` may lead out of it: there
  `LinesAreReadAsMeant` fails without the guard, and section 4 has one way. The
  `tune` run checks the ceiling of every run it has, plain or not.
- The lemmas on command lines are about `WellFormed` ones (each tuned flag at
  most once, a value behind it): `Rewrite` puts the value behind the one flag and
  leaves the value of every other (`RewriteIs`), `Strip` takes
  one flag out, and a well-formed line means the same to `value_of`, which reads
  the first occurrence, and to `llama-server`, which takes the last. From them
  `ApplyValue` is what a stage says (`Holds`), and the winner's flags are carried
  over one by one (`Carries`), through the seven flags in order and with no
  induction.
- The invariant `LInv` stands beside that of `RecordIsTrue`: every line
  that a run has tried (`Lined`) is well formed, has lost no flag that the
  first had, except drafts, has the flags of every later stage as they were at
  the start, and a batch that was there or on the list; every trial but the
  baseline changed the line it was tried against (`Moves`); what is queued are
  candidates of the line that stands (`Queued`).
  From this follows that a stage tries no more values than it was counted with
  (`Planned`): for four of the stages their flags are still those of the plan,
  and `ubatch`, whose values depend on the batch that won, was counted with the
  widest batch there can be. `Within` is the sum: launched, queued and due are
  together no more than the plan's count up to this stage (`Sums`, the partial
  sums of the plan's lists as a function, so that nothing is induced over the
  stages).

`Exchange_proofs`: for any requests, any number of answers, calls and
arguments, any listings and contexts, and every cut of a reply into frames.
Assumed is that answers are regular (`AnswersAssumption`: only the first token
of a text may open a span, and an answer says why it ends; section 4 has what
happens otherwise), that a request that is sent is told from none
(`AbsentAssumption`, and so is a forced case's schema), that a case of a bench
belongs to one of the suites and, if its call is forced, lists the arguments it
expects (`CasesAssumption`), and that a conversation is one the Messages API
allows (`ConversationsAssumption`): each tool result answers a call of the
message before its own. `push_message` does not check that, it relies on it.

- `SameMessageAlways`: whoever has read a whole stream holds what the buffered
  translation makes of the same reply. `Progress(t, a, l)` says what a
  translator has told after `l` atoms of the answer, in terms of the answer
  alone and of no frame: the reasoning, the text and the calls as far as those
  atoms go, less the tail that may be the beginning of a span and is held back,
  and the stop reason and the usage once their atoms have come. Then one frame
  takes `Progress` from `k` to `l`, whatever it merges (`ChunkIs`), because a
  merged frame is three slices of the answer (`FrameIs`): of its reasoning, of
  its text and of the fragments of its calls, and `on_chunk` takes them in that
  order. At the last atom `Progress` is the buffered
  message (`StreamedIsBuffered`): nothing is left to hold back, for a span that
  never closes was reasoning in both.
- `ClientIsAnsweredAlways`: an agent that stays gets a status, and of a stream
  either its end or an error. While the relay runs nothing has been told of how
  it ends (`Silent`); closing tells `message_stop` (`FinishTells`), an error of
  the model's or of the connection tells `error` (`AbortTells`), and never
  both. `Closing` says it of each fate an exchange can end with
  (`Outcome`).
- `VerdictIsTheModelsAlways`: a bench row that carries a grade grades what the
  model answered, and one that is lost names chekov's or the network's failure.
  Two halves. The first is about what reaches the grader: only the frame that
  ends a whole answer bears usage and timings (`Noting`), so whatever the clock
  holds while the relay runs it holds because all of the answer has been told
  (`Clocked`); a stream cut before that cannot be timed, and one that was told
  an error assembles to a failure (`AbortedFails`); a whole one assembles to the
  buffered message, by `StreamedIsBuffered`. The second is about the grader: of
  each kind of suite, the grade of that message is what the answer deserves, as
  stated from the answer and the case alone (`MessageHas` and `ArtifactIs` for
  what is found in it, then `ToolGrade`, `ForcedGrade` and `FixtureGrade`).
  Each ending of an exchange is then one case.
- `AsksWhatWasAskedAlways`: what goes upstream is what was asked. For an agent,
  any conversation: every word of every role, every tool result once and in
  order, each behind the message that made the call with nothing but results in
  between, and `count_tokens` has counted those characters, all but the newlines that join
  the texts of a system prompt or a result (`JointsIn`). For a bench,
  any case: greedy and seeded, shaped only when forced, addressed to the model
  the run is to ask. `Questions`, which fixes what may be posted, is inductive at
  once; the work is in the operators. Everything `ToOpenAiRequest` selects is a
  `Flat` of one short sequence per element, so `FlatJoin` and `FlatMapFlat`
  (selecting from a joined sequence joins what is selected from its parts) turn
  each claim about the whole into one about a single message (`Pushed`). That
  results follow their calls is about neighbours and does not decompose so:
  `ResultsFollow` takes the prefixes of the conversation, and each keeps that its
  last message's calls stand right before where the next results are laid
  (`LastJoined`). The count is a sum over the same prefixes (`CountedIs`); what a
  flattened text has over its words is its joints (`FlattenAre`).
- These proofs found two faults of the model, and none of the code. `Trim` read
  one place past the end of a text that holds nothing but blanks; and four CASEs
  of `Exchange` and `Streamed` had guards that overlap, so that their value was
  TLC's choice and not the definition's. TLC had passed both.
- The model folds over sequences, and no theorem here is by induction. A fold is
  replaced by the prefixes it goes through, as a function from places to values,
  and a claim about all of them is shown by the least place where it fails.
  There is one such lemma per operator that folds.

Only model-checked: everything temporal with fairness (`NothingHangs`,
`ReplyEnds`, `PullCompletes`, `BenchEnds`), which is out of TLAPS's reach; all
of `codebase`, `reports` and `fit`, whose properties are about recursive
functions over sequences and need induction over data, and so does
`DryRunCounts`; of `clients`, `HermesKeepsTheRest`, which is about
the lines of a file that a recursive scan finds. The proofs exclude two pulls of one shard,
overlapping saves and two benches at once by assumption, and section 4 says what
happens there.

## 6. Not modelled, and the plan

Not modelled, because nothing there depends on order or state, or because it is
bytes and text that unit tests with fixed vectors cover better:

- configuration, clock, progress bar, the listings (`list`, `show`, `status`),
  the command line and the wording of errors; SVG and the tables of reports
  (their numbers are modelled);
- parsers of what `sysctl`, `ioreg` and `git` print; the byte
  cursor of GGUF headers, SHA-256, HTTP's header grammar, the grammar of pull
  specifications;
- the wrapper script that `launch` may write and the environment it prints, the
  snapshot of a corpus's licence.

What is next:

1. `Bench` with two terminals, once the code locks a run and the checkout; until
   then the counterexamples of section 4 are immediate.
2. `DryRunCounts` for every configuration: that the rows of a finished run are
   its plan's, by the cardinality of the plan's keys.
3. A power loss: the shard is synced before its rename (`hub.rs:770`), the
   registry is not.
4. `ClaudeStream` with frames after an error object (`AfterError = TRUE`), once
   `on_chunk` looks at `finished`.
5. Two engine builds at once, and two launches that create one plugin link.
