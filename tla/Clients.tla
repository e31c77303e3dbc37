------------------------------- MODULE Clients -------------------------------
(***************************************************************************)
(* The clients of the local server: sessions of `chekov launch` with their *)
(* agents, Hermes, the build of the engine the server runs, and the checks *)
(* of the doctor (commands/launch.rs, commands/integrate.rs,               *)
(* commands/update.rs, commands/setup.rs, core/engine.rs,                  *)
(* commands/doctor.rs, core/checks.rs).                                    *)
(*                                                                         *)
(* All sessions share ONE configuration directory, agents/claude, which    *)
(* every launch rewrites; the agent reads and writes it too.  A session is *)
(* looked at from its launch to its agent's exit, and its proxy port is    *)
(* its own: it is named by the session.                                    *)
(***************************************************************************)
EXTENDS FiniteSetsExt, TLC, AgentConfig, HermesConfig

CONSTANTS
    Sessions,        \* the launches, each of which runs once
    UserConfigs,     \* the user's own settings and servers, over time
    HermesFiles,     \* the Hermes configurations the user may write
    Models,          \* the registered models
    Windows,         \* the context sizes they are given
    HermesFloor,     \* limits.hermes_ctx_floor
    Commits,         \* upstream's commits, 1..n in order
    Broken,          \* those whose binary cannot print its version
    Interleaved,     \* the models launched with --reasoning-format none
    HermesOk,        \* those that models.toml marks hermes_ok
    Replies,         \* what a server may answer
    Down,            \* no server, and so no answer
    DegenerateRunLen,    \* doctor.degenerate_run_len
    ReplacementMaxPct,   \* doctor.replacement_char_max_pct
    None,            \* no commit
    Budgets          \* bounds: the commands and edits of a behaviour, by kind

ASSUME CommitsAssumption == Commits = 1..Cardinality(Commits) /\ 1 \in Commits /\ None \notin Commits

\* The session launch sets up: a model, its context and the proxy's port.
SessionOf(m, ctx, s) == [model |-> m, ctx |-> ctx] @@ [port |-> s]

\* What is there to be read is never taken for nothing.
ASSUME ObjectsAssumption ==
    \A m \in Models, ctx \in Windows \cup {HermesFloor}, s \in Sessions, u \in UserConfigs :
        /\ SessionOf(m, ctx, s) # NoFile
        /\ LocalSettings(SessionOf(m, ctx, s), ReadUserSettings(u)) # NoFile

\* What .claude.json may hold: what the agents keep, and the servers carried in.
CarriedServers == {McpServersOf(ReadUserSettings(u)) : u \in UserConfigs}
ServerTables ==
    LET names == UNION {DOMAIN servers : servers \in CarriedServers}
        values == UNION {Range(servers) : servers \in CarriedServers}
    IN  UNION {[K -> values] : K \in SUBSET names}
ClaudeFiles ==
    [history : SUBSET Sessions] \cup [mcpServers : ServerTables]
    \cup [history : SUBSET Sessions, mcpServers : ServerTables]

ASSUME ClaudeAssumption == NoFile \notin ClaudeFiles

VARIABLES
    user,            \* the user's own Claude configuration
    places,          \* the plugin directories that exist
    conf,            \* agents/claude: settings, .claude.json and plugins/
    run,             \* per session: where its launch stands and what it holds
    reg,             \* the registry: the active model and each one's context
    server,          \* the model and the context loaded and whether in a terminal, or Down
    recorded,        \* the model the run-state file names, or NoFile
    hermes,          \* ~/.hermes/config.yaml, its last backup and last merge
    engine,          \* the checkout, the binary, the marker and the steps left
    doctor,          \* the model it looks at, the checks left and made
    seen,            \* history: what the properties recall
    left             \* the budget that is left

vars == <<user, places, conf, run, reg, server, recorded, hermes, engine, doctor, seen, left>>

-----------------------------------------------------------------------------
\* The states of a launch that shares the directory with the others.
Live(s) == run[s].pc \notin {"idle", "ended"}
Quiet == \A s \in Sessions : run[s].pc \in {"idle", "starting", "running", "ended"}

IdleRun ==
    [pc |-> "idle", session |-> NoFile, source |-> NoFile, existing |-> NoFile, todo |-> {},
     linked |-> {}, installed |-> Empty, env |-> NoFile, own |-> TRUE, saved |-> FALSE]

Init ==
    /\ user \in UserConfigs
    /\ places = Directories
    /\ conf = [settings |-> NoFile, claude |-> NoFile, known |-> NoFile, installed |-> NoFile, links |-> Empty]
    /\ run = [s \in Sessions |-> IdleRun]
    /\ reg \in {[active |-> m, ctx |-> [n \in Models |-> HermesFloor]] : m \in Models}
    /\ server = Down
    /\ recorded \in Models \cup {NoFile}
    /\ hermes = [file |-> <<>>, backup |-> NoFile, before |-> NoFile, eff |-> NoFile]
    /\ engine = [cloned |-> FALSE, head |-> None, detached |-> FALSE, tip |-> 1, binary |-> None,
                 marker |-> None, pin |-> None, todo |-> <<>>]
    /\ doctor = [eff |-> NoFile, todo |-> <<>>, rows |-> Empty, openai |-> Down, met |-> <<>>]
    /\ seen = [overlap |-> FALSE, torn |-> FALSE, history |-> {}, verified |-> {}]
    /\ left \in Budgets

Spend(kind) == left[kind] > 0 /\ left' = [left EXCEPT ![kind] = @ - 1]
Effective(m) == [model |-> m, ctx |-> reg.ctx[m]]

-----------------------------------------------------------------------------
(* launch                                                                  *)

Moves(s, pc) == run' = [run EXCEPT ![s].pc = pc]
UnchangedButSession == UNCHANGED <<user, places, reg, server, recorded, hermes, engine, doctor, left>>

\* ensure_server_up: a live server must be recorded with the model; one in a
\* terminal, which has no pidfile, occupies the port; the context is not asked
\* for.
EnsureServerUp(eff) ==
    \/ /\ server = Down
       /\ server' = [model |-> eff.model, ctx |-> eff.ctx, terminal |-> FALSE]
       /\ recorded' = eff.model
    \/ /\ server # Down
       /\ ~server.terminal
       /\ recorded = eff.model
       /\ UNCHANGED <<server, recorded>>

\* resolve: the active model or the one asked for, and a port of its own.
Resolve(s, m) ==
    /\ run[s].pc = "idle"
    /\ Spend("launch")
    /\ EnsureServerUp(Effective(m))
    /\ run' = [run EXCEPT ![s].pc = "resolved", ![s].session = SessionOf(m, reg.ctx[m], s)]
    /\ seen' = [seen EXCEPT !.overlap = @ \/ \E t \in Sessions : Live(t)]
    /\ UNCHANGED <<user, places, conf, reg, hermes, engine, doctor>>

\* write_settings reads the user's files, then truncates the settings...
OpenSettings(s) ==
    /\ run[s].pc = "resolved"
    /\ conf' = [conf EXCEPT !.settings = NoFile]
    /\ run' = [t \in Sessions |->
                 IF t = s THEN [run[s] EXCEPT !.pc = "opened", !.source = ReadUserSettings(user)]
                 ELSE [run[t] EXCEPT !.own = FALSE]]
    /\ UNCHANGED seen
    /\ UnchangedButSession

\* ... and writes them, over the start of what another launch wrote meanwhile:
\* the rest of a longer text stays behind.  A launch that carries no servers
\* leaves .claude.json alone.
WriteSettings(s) ==
    /\ run[s].pc = "opened"
    /\ \E text \in {LocalSettings(run[s].session, run[s].source)}
                   \cup (IF conf.settings = NoFile THEN {} ELSE {NoFile}) :
         conf' = [conf EXCEPT !.settings = text]
    /\ run' = [t \in Sessions |->
                 IF t # s THEN [run[t] EXCEPT !.own = FALSE]
                 ELSE [run[s] EXCEPT !.own = conf.settings = NoFile,
                         !.pc = IF McpServersOf(run[s].source) = Empty THEN "carried" ELSE "settled"]]
    /\ UNCHANGED seen
    /\ UnchangedButSession

\* inject_claude_json: read, truncate, write.
ReadClaudeJson(s) ==
    /\ run[s].pc = "settled"
    /\ run' = [run EXCEPT ![s].pc = "read", ![s].existing = conf.claude]
    /\ UNCHANGED <<conf, seen>>
    /\ UnchangedButSession

OpenClaudeJson(s) ==
    /\ run[s].pc = "read"
    /\ conf' = [conf EXCEPT !.claude = NoFile]
    /\ Moves(s, "torn")
    /\ UNCHANGED seen
    /\ UnchangedButSession

WriteClaudeJson(s) ==
    /\ run[s].pc = "torn"
    /\ conf' = [conf EXCEPT !.claude = InjectMcpServers(run[s].existing, McpServersOf(run[s].source))]
    /\ Moves(s, "carried")
    /\ UNCHANGED seen
    /\ UnchangedButSession

\* sync_local_plugins: the marketplaces known, and the rows as they stand.
SyncLocalPlugins(s) ==
    LET markets == LocalMarketplaces(run[s].source)
    IN  /\ run[s].pc = "carried"
        /\ IF markets = {} THEN Moves(s, "ready") /\ UNCHANGED conf
           ELSE /\ conf' = [conf EXCEPT !.known = MergeKnownMarketplaces(@, run[s].source)]
                /\ run' = [run EXCEPT ![s].pc = "linking", ![s].todo = markets,
                             ![s].installed = IF conf.installed = NoFile THEN Empty ELSE conf.installed]
        /\ UNCHANGED seen
        /\ UnchangedButSession

\* link_plugin: a dangling link is replaced, any other link is kept.
LinkPlugin(s) ==
    \E market \in run[s].todo :
      LET path == LinkOf(market)
          resolves == path \in DOMAIN conf.links /\ conf.links[path] \in places
          there == market.dir \in places
      IN  /\ run[s].pc = "linking"
          /\ conf' = [conf EXCEPT !.links =
                        IF ~there \/ resolves THEN @ ELSE Over([p \in {path} |-> market.dir], @)]
          /\ run' = [run EXCEPT ![s].todo = @ \ {market},
                       ![s].linked = IF there THEN @ \cup {market} ELSE @,
                       ![s].installed = IF there THEN UpsertPluginEntry(@, market) ELSE @]
          /\ UNCHANGED seen
          /\ UnchangedButSession

WriteInstalled(s) ==
    /\ run[s].pc = "linking" /\ run[s].todo = {}
    /\ conf' = [conf EXCEPT !.installed = run[s].installed]
    /\ Moves(s, "ready")
    /\ UNCHANGED seen
    /\ UnchangedButSession

\* --print ends here, with the port closed; otherwise bridge starts the agent.
PrintOnly(s) == run[s].pc = "ready" /\ Moves(s, "ended") /\ UNCHANGED <<conf, seen>> /\ UnchangedButSession
Bridge(s) == run[s].pc = "ready" /\ Moves(s, "starting") /\ UNCHANGED <<conf, seen>> /\ UnchangedButSession

\* The agent (external) takes its environment from the settings, once, keeps
\* its own state in .claude.json, and ends the session by exiting.
AgentStarts(s) ==
    /\ run[s].pc = "starting"
    /\ run' = [run EXCEPT ![s].pc = "running",
                 ![s].env = IF conf.settings = NoFile THEN NoFile ELSE conf.settings.env]
    /\ UNCHANGED <<conf, seen>>
    /\ UnchangedButSession

OwnState(claude) == IF claude # NoFile /\ "history" \in DOMAIN claude THEN claude.history ELSE {}

AgentSaves(s) ==
    /\ run[s].pc = "running" /\ ~run[s].saved
    /\ conf' = [conf EXCEPT !.claude =
                  Over([history |-> OwnState(@) \cup {s}], IF @ = NoFile THEN Empty ELSE @)]
    /\ run' = [run EXCEPT ![s].saved = TRUE]
    /\ seen' = [seen EXCEPT !.history = @ \cup {s}]
    /\ UnchangedButSession

\* The launch stays behind its agent, waiting for its accept loop, which never
\* returns; it touches nothing of this any more.
AgentExits(s) == run[s].pc = "running" /\ Moves(s, "ended") /\ UNCHANGED <<conf, seen>> /\ UnchangedButSession

\* A launch may be killed anywhere before its agent runs.
Killed(s) ==
    /\ Live(s) /\ run[s].pc \notin {"starting", "running"}
    /\ Moves(s, "ended")
    /\ seen' = [seen EXCEPT !.torn = @ \/ run[s].pc = "torn"]
    /\ UNCHANGED conf
    /\ UnchangedButSession

-----------------------------------------------------------------------------
(* integrate hermes                                                        *)

\* The merge is refused below the context floor or on a shape it cannot edit;
\* another provider is replaced only once confirmed, which a refusal leaves.  A
\* file that is not UTF-8 is merged as an empty one, and so replaced.
IntegrateHermes ==
    LET eff == Effective(reg.active)
        existing == Existing(hermes.file)
        merged == MergeHermesConfig(existing, eff)
    IN  /\ Spend("hermes")
        /\ reg.active \in HermesOk => eff.ctx >= HermesFloor
        /\ HermesShapeSupported(existing, eff)
        /\ hermes' = [file |-> merged, before |-> hermes.file, eff |-> eff,
                      backup |-> IF merged = hermes.file THEN hermes.backup ELSE hermes.file]
        /\ UNCHANGED <<user, places, conf, run, reg, server, recorded, engine, doctor, seen>>

-----------------------------------------------------------------------------
(* setup and update --engine                                               *)

SetupSteps(cloned, pin) ==
    (IF pin = None THEN <<IF cloned THEN "pull" ELSE "clone">>
     ELSE (IF cloned THEN <<>> ELSE <<"clone">>) \o <<"fetch", "checkout">>)
    \o <<"configure", "compile", "verify">>

UnchangedButEngine == UNCHANGED <<user, places, conf, run, reg, server, recorded, hermes, doctor>>

StartBuild(pin) ==
    /\ engine.todo = <<>>
    /\ Spend("build")
    /\ engine' = [engine EXCEPT !.pin = pin, !.todo = SetupSteps(engine.cloned, pin) \o <<"record">>]
    /\ UNCHANGED seen
    /\ UnchangedButEngine

\* run_steps: in order, the first failure ends the command.  A checkout that a
\* pin detached cannot be pulled; a compilation that fails may have replaced the
\* binary already or not.
StepSucceeds ==
    LET step == Head(engine.todo)
        next == [engine EXCEPT !.todo = Tail(@)]
    IN  /\ engine.todo # <<>>
        /\ step = "verify" => engine.binary \notin Broken
        /\ step = "pull" => ~engine.detached
        /\ engine' = CASE step = "clone"    -> [next EXCEPT !.cloned = TRUE, !.head = engine.tip]
                       [] step = "pull"     -> [next EXCEPT !.head = engine.tip]
                       [] step = "checkout" -> [next EXCEPT !.head = engine.pin, !.detached = TRUE]
                       [] step = "compile"  -> [next EXCEPT !.binary = engine.head]
                       [] step = "record"   -> [next EXCEPT !.marker = engine.head]
                       [] step \in {"fetch", "configure", "verify"} -> next
        /\ seen' = IF step = "verify" THEN [seen EXCEPT !.verified = @ \cup {engine.binary}] ELSE seen
        /\ UNCHANGED left
        /\ UnchangedButEngine

\* As a mutant, the command goes on behind a step that failed.
StepFailsGoesOn ==
    /\ engine.todo # <<>>
    /\ \E binary \in {engine.binary} \cup (IF Head(engine.todo) = "compile" THEN {engine.head} ELSE {}) :
         engine' = [engine EXCEPT !.todo = Tail(@), !.binary = binary]
    /\ UNCHANGED <<seen, left>>
    /\ UnchangedButEngine

StepFails ==
    /\ engine.todo # <<>>
    /\ \E binary \in {engine.binary} \cup (IF Head(engine.todo) = "compile" THEN {engine.head} ELSE {}) :
         engine' = [engine EXCEPT !.todo = <<>>, !.binary = binary]
    /\ UNCHANGED <<seen, left>>
    /\ UnchangedButEngine

-----------------------------------------------------------------------------
(* doctor: the verdict of each check on what the server answered.  A reply *)
(* keeps its words, the number of its characters and of those that are     *)
(* U+FFFD, whether it has the field its door is read at, and whether it    *)
(* holds a think tag.                                                      *)

Pass == "pass"
Fail == "fail"
Skip == "skip"

LongestIdenticalRun(words) ==
    LET spans == {span \in (1..Len(words)) \X (1..Len(words)) :
                    span[1] <= span[2] /\ \A i \in span[1]..span[2] : words[i] = words[span[1]]}
    IN  Max({0} \cup {span[2] - span[1] + 1 : span \in spans})

IsDegenerate(reply) ==
    \/ reply.words # <<>> /\ LongestIdenticalRun(reply.words) >= DegenerateRunLen
    \/ reply.chars > 0 /\ reply.bad * 100 > reply.chars * ReplacementMaxPct

HasContent(answer) == answer # Down /\ answer.content

CheckDoor(answer) == IF HasContent(answer) THEN Pass ELSE Fail

\* Only a model launched with --reasoning-format none keeps its think tags in
\* the content, and only an answer can have lost them.
CheckThink(interleaved, answer) ==
    IF ~interleaved \/ ~HasContent(answer) THEN Skip ELSE IF answer.think THEN Pass ELSE Fail

CheckCanary(answer) == IF HasContent(answer) /\ ~IsDegenerate(answer) THEN Pass ELSE Fail

\* models.toml against config.toml, and nothing else
CheckCtx(hermesOk, ctx, floor) == IF ~hermesOk THEN Skip ELSE IF ctx >= floor THEN Pass ELSE Fail

\* As a mutant, a server that cannot be asked is no failure.
CheckCtxLiveSkips(props, ctx) == IF props # Down /\ props.ctx = ctx THEN Pass ELSE Skip

\* the context that /props reports
CheckCtxLive(props, ctx) == IF props # Down /\ props.ctx = ctx THEN Pass ELSE Fail

Healthy(rows) == \A check \in DOMAIN rows : rows[check] # Fail

Checks == <<"openai", "anthropic", "think", "canary", "ctx floor", "ctx live">>

\* It looks for the model that the run-state file names, or else the active one.
DoctorBegins ==
    LET name == IF recorded # NoFile THEN recorded ELSE reg.active
    IN  /\ Spend("doctor")
        /\ doctor.todo = <<>>
        /\ doctor' = [eff |-> Effective(name), todo |-> Checks, rows |-> Empty, openai |-> Down, met |-> <<>>]
        /\ UNCHANGED <<user, places, conf, run, reg, server, recorded, hermes, engine, seen>>

\* The checks in their order; each asks whatever server is there by then.
DoctorChecks ==
    LET check == Head(doctor.todo)
        eff == doctor.eff
        result(reply) ==
            CASE check \in {"openai", "anthropic"} -> CheckDoor(reply)
              [] check = "think"     -> CheckThink(eff.model \in Interleaved, doctor.openai)
              [] check = "canary"    -> CheckCanary(reply)
              [] check = "ctx floor" -> CheckCtx(eff.model \in HermesOk, eff.ctx, HermesFloor)
              [] check = "ctx live"  -> CheckCtxLive(server, eff.ctx)
        asks == check \in {"openai", "anthropic", "canary", "ctx live"}
    IN  /\ doctor.todo # <<>>
        /\ \E reply \in IF server = Down \/ ~asks \/ check = "ctx live" THEN {Down} ELSE Replies :
             doctor' = [doctor EXCEPT !.todo = Tail(@), !.rows = Over([c \in {check} |-> result(reply)], @),
                          !.openai = IF check = "openai" THEN reply ELSE @,
                          !.met = IF asks THEN Append(@, server) ELSE @]
        /\ UNCHANGED <<user, places, conf, run, reg, server, recorded, hermes, engine, seen, left>>

-----------------------------------------------------------------------------
(* The rest of the world: the user, upstream, and the other commands.      *)

UserEdits ==
    /\ Quiet /\ Spend("edit")
    /\ \/ user' \in UserConfigs \ {user} /\ UNCHANGED places
       \/ \E d \in Directories : places' = SymDiff(places, {d}) /\ UNCHANGED user
    /\ UNCHANGED <<conf, run, reg, server, recorded, hermes, engine, doctor, seen>>

HermesEdited ==
    /\ Spend("hermes")
    /\ \E f \in HermesFiles : hermes' = [file |-> f, backup |-> hermes.backup, before |-> NoFile, eff |-> NoFile]
    /\ UNCHANGED <<user, places, conf, run, reg, server, recorded, engine, doctor, seen>>

\* use, and a context edited into models.toml
EditRegistry ==
    /\ Spend("registry")
    /\ \/ \E m \in Models : reg' = [reg EXCEPT !.active = m]
       \/ \E m \in Models, w \in Windows : reg' = [reg EXCEPT !.ctx[m] = w]
    /\ UNCHANGED <<user, places, conf, run, server, recorded, hermes, engine, doctor, seen>>

\* stop, run and restart; a server that dies and a start that is killed leave
\* the run-state file as it was, and so does `run --foreground`.
ReplaceServer ==
    /\ Spend("server")
    /\ \/ server' = Down /\ recorded' \in {recorded, NoFile}
       \/ \E m \in Models, terminal \in BOOLEAN :
            /\ server' = [model |-> m, ctx |-> reg.ctx[m], terminal |-> terminal]
            /\ recorded' \in {recorded, NoFile} \cup (IF terminal THEN {} ELSE {m})
    /\ UNCHANGED <<user, places, conf, run, reg, hermes, engine, doctor, seen>>

UpstreamMoves ==
    /\ engine.tip + 1 \in Commits
    /\ Spend("build")
    /\ engine' = [engine EXCEPT !.tip = @ + 1]
    /\ UNCHANGED seen
    /\ UnchangedButEngine

Launching(s) ==
    \/ \E m \in Models : Resolve(s, m)
    \/ OpenSettings(s) \/ WriteSettings(s)
    \/ ReadClaudeJson(s) \/ OpenClaudeJson(s) \/ WriteClaudeJson(s)
    \/ SyncLocalPlugins(s) \/ LinkPlugin(s) \/ WriteInstalled(s)
    \/ PrintOnly(s) \/ Bridge(s) \/ Killed(s)
    \/ AgentStarts(s) \/ AgentSaves(s) \/ AgentExits(s)

Next ==
    \/ \E s \in Sessions : Launching(s)
    \/ IntegrateHermes
    \/ \E pin \in Commits \cup {None} : StartBuild(pin)
    \/ StepSucceeds \/ StepFails
    \/ DoctorBegins \/ DoctorChecks
    \/ UserEdits \/ HermesEdited \/ EditRegistry \/ ReplaceServer \/ UpstreamMoves

Spec == Init /\ [][Next]_vars

-----------------------------------------------------------------------------
(* Properties.                                                             *)

\* An agent runs under the environment of its own launch, unless another launch
\* wrote the shared settings in between: then it has all of that launch's, or
\* none (it read them half-written) and would call the cloud.  Never the user's.
SessionIsDeclared ==
    \A s \in Sessions : run[s].pc = "running" =>
        \/ run[s].env = EnvBlock(run[s].session)
        \/ /\ ~run[s].own
           /\ run[s].env \in {NoFile} \cup {EnvBlock(run[t].session) : t \in {u \in Sessions : run[u].session # NoFile}}

\* What the agents kept in .claude.json is there after any number of launches,
\* as long as no two were under way together and none was killed in its write.
ClaudeStateKept ==
    ~seen.overlap /\ ~seen.torn /\ (\A s \in Sessions : run[s].pc # "torn")
        => seen.history \subseteq OwnState(conf.claude)

\* A lone launch leaves every marketplace whose directory it saw with a link
\* that resolved, known, and registered by one row; no launch adds a row twice.
PluginsResolve ==
    \A s \in Sessions :
        /\ conf.installed # NoFile =>
             \A m \in DOMAIN conf.installed : IsInjective(conf.installed[m])
        /\ run[s].pc = "ready" /\ ~seen.overlap =>
             \A market \in run[s].linked :
                /\ LinkOf(market) \in DOMAIN conf.links
                /\ conf.links[LinkOf(market)] \in places
                /\ LinkOf(market) \in Range(conf.installed[market.name])
                /\ conf.known[market.name].path = market.dir

\* What a launch leaves in the directory the agents share.
AgentDirectoryKept == ClaudeStateKept /\ PluginsResolve

\* A merge selects chekov and backs up what it changes.  Of a file that is UTF-8
\* and ends in a newline (any other is replaced, or its last line glued) it
\* leaves every setting of the user where it was.  Where every provider's header
\* ends in its colon (one with a value or a comment behind the colon is run over
\* by chekov's entry, or is a chekov entry that it misses), it leaves the other
\* providers too; and a second merge then changes nothing, unless a comment or a
\* blank line stands among the providers, or heads a file without a model block.
HermesKeepsTheRest ==
    LET was == hermes.before
    IN  hermes.eff # NoFile =>
          /\ CurrentProvider(hermes.file) = "chekov"
          /\ hermes.file # was => hermes.backup = was
          /\ Legible(was) /\ Terminated(was) =>
               /\ LinesAt(hermes.file, Settings(hermes.file)) = LinesAt(was, Settings(was))
               /\ HeadersEndInColons(was) =>
                    /\ LinesAt(hermes.file, Providers(hermes.file)) = LinesAt(was, Providers(was))
                    /\ ~NoteInTheWay(was) => MergeHermesConfig(hermes.file, hermes.eff) = hermes.file

\* The recorded commit is one whose binary was built and printed its version,
\* whatever failed before, after or since.
MarkerIsVerified == engine.marker # None => engine.marker \in seen.verified

\* A doctor that finds nothing wrong was answered each time it asked, and the
\* last server it met had loaded the context it looked for.  Nothing is said of
\* the model that answered: the doctor never asks for it, so that a server in a
\* terminal, or one whose start was killed before it was recorded, or one that
\* came meanwhile, with another model and the same context, passes as healthy.
HealthyMeansServing ==
    doctor.eff # NoFile /\ doctor.todo = <<>> /\ Healthy(doctor.rows) =>
        /\ Down \notin Range(doctor.met)
        /\ Last(doctor.met).ctx = doctor.eff.ctx
        /\ doctor.eff.model \in HermesOk => doctor.eff.ctx >= HermesFloor
        /\ doctor.eff.model \in Interleaved => doctor.openai.think
=============================================================================
