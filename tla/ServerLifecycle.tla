--------------------------- MODULE ServerLifecycle ---------------------------
(***************************************************************************)
(* The local llama-server and the chekov commands that start and stop it.  *)
(*                                                                         *)
(* Every command is a process of its own.  The commands share no memory    *)
(* and take no lock: all they have in common is the pidfile                *)
(* (logs/chekov.pid), the run state (logs/chekov.model), the registry and  *)
(* the weights directories.  One action is one file operation, one signal  *)
(* or one probe, so commands interleave exactly where they can.            *)
(*                                                                         *)
(* A command that dies, or whose next file operation fails, stops where it *)
(* is (Crash).  Pids are not reused.  The registry is read and written     *)
(* here as one value; module Registry opens up its temporary file.         *)
(***************************************************************************)
EXTENDS Naturals, FiniteSets

CONSTANTS
    Clis,      \* the terminals a chekov command can be typed in
    Models,    \* the models that are registered at the start
    Active,    \* the registry's active model
    Pids,      \* process ids; each names at most one server (the bound on starts)
    NoPid,     \* no pidfile
    NoModel,   \* no run state
    NoCli,     \* the parent of a process whose chekov command has exited
    MaxCommands \* the bound on commands typed

ASSUME ModelsAssumption == Active \in Models /\ NoModel \notin Models
ASSUME PidsAssumption == NoPid \notin Pids
ASSUME ClisAssumption == NoCli \notin Clis
ASSUME MaxCommandsAssumption == MaxCommands \in Nat

VARIABLES
    pidfile,   \* logs/chekov.pid: a pid or NoPid
    runState,  \* logs/chekov.model: a model name or NoModel
    registry,  \* the names models.toml holds
    weights,   \* the models whose directory is on disk
    server,    \* the llama-server processes, by pid
    cli,       \* the running chekov commands
    typed,     \* history: how many commands have been typed
    orderly    \* history: no two commands overlapped and none died half-way

vars == <<pidfile, runState, registry, weights, server, cli, typed, orderly>>

Commands == {"run", "foreground", "launch", "bench", "stop", "restart", "rm"}

Steps == {"idle", "load", "ensure", "verify", "reuse", "preflight", "shard",
          "port", "spawn", "write_pid", "write_state", "measure",
          "measure_reused", "restart",
          "stop_read", "term", "grace", "remove_pid", "clear_state",
          "rm_check", "rm_delete", "rm_save", "session", "foreground"}

ServerStates == {"free", "starting", "up", "zombie", "dead"}

Servers == [st : ServerStates, model : Models \cup {NoModel}, by : Commands,
            parent : Clis \cup {NoCli}, killed : BOOLEAN]

Invocations == [cmd : Commands, pc : Steps, name : Models \cup {NoModel},
                pid : Pids \cup {NoPid}, snap : SUBSET Models]

TypeOK ==
    /\ pidfile \in Pids \cup {NoPid}
    /\ runState \in Models \cup {NoModel}
    /\ registry \subseteq Models
    /\ weights \subseteq Models
    /\ server \in [Pids -> Servers]
    /\ cli \in [Clis -> Invocations]
    /\ typed \in 0..MaxCommands
    /\ orderly \in BOOLEAN

Free == [st |-> "free", model |-> NoModel, by |-> "run", parent |-> NoCli, killed |-> FALSE]

Idle == [cmd |-> "run", pc |-> "idle", name |-> NoModel, pid |-> NoPid, snap |-> {}]

Init ==
    /\ pidfile = NoPid
    /\ runState = NoModel
    /\ registry = Models
    /\ weights = Models
    /\ server = [s \in Pids |-> Free]
    /\ cli = [p \in Clis |-> Idle]
    /\ typed = 0
    /\ orderly = TRUE

Files == <<pidfile, runState, registry, weights>>
History == <<typed, orderly>>

-----------------------------------------------------------------------------
(* What the code asks of processes.                                        *)

Running(s) == s \in Pids /\ server[s].st \in {"starting", "up"}

\* kill(pid, 0) also succeeds on a zombie.
ProcessAlive(s) == s \in Pids /\ server[s].st \in {"starting", "up", "zombie"}

\* waitpid(WNOHANG) reaps a child of the caller; of another's child it falls
\* back to the signal-0 probe.
ChildAlive(p, s) == ProcessAlive(s) /\ ~(server[s].st = "zombie" /\ server[s].parent = p)

LivePid == IF ProcessAlive(pidfile) THEN pidfile ELSE NoPid

PortInUse == \E s \in Pids : server[s].st = "up"

\* A server that runs in the background and nobody has sent SIGKILL.
Background(s) == Running(s) /\ server[s].by # "foreground" /\ ~server[s].killed

\* `launch` and `run --foreground` stay in their terminal and change nothing more.
Busy(p) == cli[p].pc \notin {"idle", "session", "foreground"}

-----------------------------------------------------------------------------
(* Steps of a command.                                                     *)

At(p, step) == cli[p].pc = step

Goto(p, step) == cli' = [cli EXCEPT ![p].pc = step]

\* When a command exits its children go to launchd, which reaps the dead ones.
Adopted(p) ==
    [s \in Pids |->
        IF server[s].parent # p THEN server[s]
        ELSE [server[s] EXCEPT !.parent = NoCli,
                               !.st = IF @ = "zombie" THEN "dead" ELSE @]]

Exit(p) ==
    /\ cli' = [cli EXCEPT ![p] = Idle]
    /\ server' = Adopted(p)

Begin(p, c, m, step, snap) ==
    /\ At(p, "idle")
    /\ typed < MaxCommands
    /\ typed' = typed + 1
    /\ cli' = [cli EXCEPT ![p] = [cmd |-> c, pc |-> step, name |-> m,
                                  pid |-> NoPid, snap |-> snap]]
    /\ orderly' = (orderly /\ \A q \in Clis : ~Busy(q))
    /\ UNCHANGED <<pidfile, runState, registry, weights, server>>

\* The command goes on at `step`, or ends without having changed a file.
Continue(p, step) == Goto(p, step) /\ UNCHANGED <<Files, server, History>>
Refuse(p) == Exit(p) /\ UNCHANGED <<Files, History>>

-----------------------------------------------------------------------------
(* run, restart and launch up to the preflight.                            *)

Run(p, m) == Begin(p, "run", m, "load", {})
RunForeground(p, m) == Begin(p, "foreground", m, "load", {})
Restart(p, m) == Begin(p, "restart", m, "restart", {})
Stop(p) == Begin(p, "stop", NoModel, "stop_read", {})
Launch(p, m) == m \in registry /\ Begin(p, "launch", m, "ensure", {})
Rm(p, m) == Begin(p, "rm", m, "rm_check", registry)

\* bench reuses the one running server when it is the request, refuses any
\* other, and launches a server of its own when none runs.
Bench(p, m) ==
    /\ m \in registry
    /\ \/ LivePid = NoPid /\ Begin(p, "bench", m, "preflight", {})
       \/ LivePid # NoPid /\ runState = m /\ Begin(p, "bench", m, "reuse", {})

RestartCheck(p) ==
    /\ At(p, "restart")
    /\ Continue(p, IF LivePid # NoPid THEN "stop_read" ELSE "load")

LoadRegistry(p) ==
    /\ At(p, "load")
    /\ IF cli[p].name \in registry THEN Continue(p, "preflight") ELSE Refuse(p)

EnsureServerUp(p) ==
    /\ At(p, "ensure")
    /\ Continue(p, IF LivePid # NoPid THEN "verify" ELSE "preflight")

VerifyServes(p) ==
    /\ At(p, "verify")
    /\ IF runState = cli[p].name THEN Continue(p, "session") ELSE Refuse(p)

-----------------------------------------------------------------------------
(* The preflight gates in their order, then the spawn and its two records. *)

PreflightLive(p) ==
    /\ At(p, "preflight")
    /\ IF LivePid # NoPid THEN Refuse(p) ELSE Continue(p, "shard")

\* The engine binary may be missing, too.
PreflightShard(p) ==
    /\ At(p, "shard")
    /\ \/ cli[p].name \in weights /\ Continue(p, "port")
       \/ Refuse(p)

\* The memory gate follows, and for bench the check of the server's flags.
PreflightPort(p) ==
    /\ At(p, "port")
    /\ \/ ~PortInUse /\ Continue(p, "spawn")
       \/ Refuse(p)

\* The child of a foreground run keeps the terminal and is recorded nowhere.
Spawn(p) ==
    /\ At(p, "spawn")
    /\ \E s \in Pids :
        /\ server[s].st = "free"
        /\ server' = [server EXCEPT ![s] =
                        [st |-> "starting", model |-> cli[p].name, by |-> cli[p].cmd,
                         parent |-> p, killed |-> FALSE]]
        /\ cli' = [cli EXCEPT ![p].pid = s,
                              ![p].pc = IF cli[p].cmd = "foreground" THEN "foreground"
                                        ELSE "write_pid"]
    /\ UNCHANGED <<Files, History>>

\* The process table is full, or the binary cannot be executed.
SpawnFails(p) == At(p, "spawn") /\ Refuse(p)

WritePidFile(p) ==
    /\ At(p, "write_pid")
    /\ pidfile' = cli[p].pid
    /\ Goto(p, "write_state")
    /\ UNCHANGED <<runState, registry, weights, server, History>>

\* Mutant: bench does not record the model of the server it launches.
WriteRunStateSkipsBench(p) ==
    /\ At(p, "write_state")
    /\ runState' = IF cli[p].cmd = "bench" THEN runState ELSE cli[p].name
    /\ CASE cli[p].cmd = "launch" -> Goto(p, "session") /\ UNCHANGED server
         [] cli[p].cmd = "bench"  -> Goto(p, "measure") /\ UNCHANGED server
         [] OTHER                 -> Exit(p)
    /\ UNCHANGED <<pidfile, registry, weights, History>>

WriteRunState(p) ==
    /\ At(p, "write_state")
    /\ runState' = cli[p].name
    /\ CASE cli[p].cmd = "launch" -> Goto(p, "session") /\ UNCHANGED server
         [] cli[p].cmd = "bench"  -> Goto(p, "measure") /\ UNCHANGED server
         [] OTHER                 -> Exit(p)
    /\ UNCHANGED <<pidfile, registry, weights, History>>

\* The session ends, by a signal: when the agent exits its launch stays behind, in
\* a scope that waits for an accept loop which never returns.  The server stays up.
SessionEnds(p) == At(p, "session") /\ Refuse(p)

ForegroundReturns(p) ==
    /\ At(p, "foreground")
    /\ ~Running(cli[p].pid)
    /\ Refuse(p)

-----------------------------------------------------------------------------
(* bench: the measurement, and the teardown of a server it launched.       *)

BenchReuse(p) ==
    /\ At(p, "reuse")
    /\ IF LivePid = NoPid THEN Refuse(p)
       ELSE /\ cli' = [cli EXCEPT ![p].pid = LivePid, ![p].pc = "measure_reused"]
            /\ UNCHANGED <<Files, server, History>>

\* Mutant: the server is torn down whoever started it.
MeasureDoneTearsDown(p) ==
    /\ ChildAlive(p, cli[p].pid) /\ PortInUse
    /\ cli[p].pc \in {"measure", "measure_reused"}
    /\ Continue(p, "term")

\* Only a server that has answered on the port can be measured.
MeasureDone(p) ==
    /\ ChildAlive(p, cli[p].pid) /\ PortInUse
    /\ \/ At(p, "measure") /\ Continue(p, "term")
       \/ At(p, "measure_reused") /\ Refuse(p)

\* An error of the measurement leaves run_candidate at once: no teardown.
MeasureFails(p) == cli[p].pc \in {"measure", "measure_reused"} /\ Refuse(p)

-----------------------------------------------------------------------------
(* stop, and the part of it that restart and bench share.                  *)

StopRead(p) ==
    /\ At(p, "stop_read")
    /\ IF pidfile = NoPid THEN Refuse(p)
       ELSE /\ cli' = [cli EXCEPT ![p].pid = pidfile,
                                  ![p].pc = IF ProcessAlive(pidfile) THEN "term"
                                            ELSE "remove_pid"]
            /\ UNCHANGED <<Files, server, History>>

\* SIGTERM: a failing kill means the process is gone already.
Terminate(p) ==
    /\ At(p, "term")
    /\ Continue(p, IF ProcessAlive(cli[p].pid) THEN "grace" ELSE "remove_pid")

\* Within the grace period the process is seen to be gone, and reaped if it
\* is this command's child.
SeesDead(p) ==
    /\ At(p, "grace")
    /\ ~ChildAlive(p, cli[p].pid)
    /\ Goto(p, "remove_pid")
    /\ server' = [server EXCEPT ![cli[p].pid].st = "dead"]
    /\ UNCHANGED <<Files, History>>

\* As a mutant, no SIGKILL is sent.
EscalateGivesUp(p) == At(p, "grace") /\ Continue(p, "remove_pid")

\* The grace period is over: SIGKILL, whose delivery nobody waits for.
Escalate(p) ==
    /\ At(p, "grace")
    /\ Goto(p, "remove_pid")
    /\ server' = IF Running(cli[p].pid) THEN [server EXCEPT ![cli[p].pid].killed = TRUE]
                 ELSE server
    /\ UNCHANGED <<Files, History>>

RemovePidFile(p) ==
    /\ At(p, "remove_pid")
    /\ pidfile' = NoPid
    /\ Goto(p, "clear_state")
    /\ UNCHANGED <<runState, registry, weights, server, History>>

\* restart goes on with a run; stop and bench are done.
ClearRunState(p) ==
    /\ At(p, "clear_state")
    /\ runState' = NoModel
    /\ IF cli[p].cmd = "restart" THEN UNCHANGED server /\ cli' = [cli EXCEPT ![p].pc = "load", ![p].pid = NoPid]
       ELSE Exit(p)
    /\ UNCHANGED <<pidfile, registry, weights, History>>

-----------------------------------------------------------------------------
(* rm: the registry was loaded when the command began.                     *)

RmCheck(p) ==
    /\ At(p, "rm_check")
    /\ IF (LivePid # NoPid /\ runState = cli[p].name) \/ cli[p].name = Active
       THEN Refuse(p) ELSE Continue(p, "rm_delete")

\* After the confirmation, which may be declined.
RmDelete(p) ==
    /\ At(p, "rm_delete")
    /\ \/ /\ cli[p].name \in cli[p].snap
          /\ weights' = weights \ {cli[p].name}
          /\ Goto(p, "rm_save")
          /\ UNCHANGED <<pidfile, runState, registry, server, History>>
       \/ Refuse(p)

RmSave(p) ==
    /\ At(p, "rm_save")
    /\ registry' = cli[p].snap \ {cli[p].name}
    /\ Exit(p)
    /\ UNCHANGED <<pidfile, runState, weights, History>>

\* The command is killed, or its next file operation fails.
Crash(p) ==
    /\ ~At(p, "idle")
    /\ Exit(p)
    /\ orderly' = (orderly /\ ~Busy(p))
    /\ UNCHANGED <<Files, typed>>

-----------------------------------------------------------------------------
(* The server processes.                                                   *)

ServerExit(s) ==
    /\ Running(s)
    /\ server' = [server EXCEPT ![s].st = IF server[s].parent = NoCli
                                          THEN "dead" ELSE "zombie"]
    /\ UNCHANGED <<Files, cli, History>>

\* A second server cannot bind the port, and exits.
Bind(s) ==
    /\ server[s].st = "starting"
    /\ ~PortInUse
    /\ server' = [server EXCEPT ![s].st = "up"]
    /\ UNCHANGED <<Files, cli, History>>

-----------------------------------------------------------------------------

Work(p) ==
    \/ RestartCheck(p) \/ LoadRegistry(p) \/ EnsureServerUp(p) \/ VerifyServes(p)
    \/ PreflightLive(p) \/ PreflightShard(p) \/ PreflightPort(p)
    \/ Spawn(p) \/ SpawnFails(p) \/ WritePidFile(p) \/ WriteRunState(p)
    \/ BenchReuse(p) \/ MeasureDone(p) \/ MeasureFails(p)
    \/ StopRead(p) \/ Terminate(p) \/ SeesDead(p) \/ Escalate(p)
    \/ RemovePidFile(p) \/ ClearRunState(p)
    \/ RmCheck(p) \/ RmDelete(p) \/ RmSave(p)

Next ==
    \/ \E p \in Clis, m \in Models :
        Run(p, m) \/ RunForeground(p, m) \/ Restart(p, m) \/ Launch(p, m) \/ Bench(p, m) \/ Rm(p, m)
    \/ \E p \in Clis :
        Stop(p) \/ Work(p) \/ SessionEnds(p) \/ ForegroundReturns(p) \/ Crash(p)
    \/ \E s \in Pids : ServerExit(s) \/ Bind(s)

Spec == Init /\ [][Next]_vars

\* Commands are not suspended for ever, and SIGKILL is delivered in the end.
\* Nothing is assumed of a server that was not killed, or of a session.
Fairness ==
    /\ \A p \in Clis : WF_vars(Work(p))
    /\ \A s \in Pids : WF_vars(server[s].killed /\ ServerExit(s))

FairSpec == Spec /\ Fairness

-----------------------------------------------------------------------------
(* What the commands guarantee.                                            *)

\* Once a stop, restart or bench teardown has left the grace period the
\* process it was stopping has ended or has been sent SIGKILL, whatever other
\* commands did meanwhile (stop_pid).
StopIsFinal ==
    \A p \in Clis : cli[p].pc \in {"remove_pid", "clear_state"} =>
        ~Running(cli[p].pid) \/ server[cli[p].pid].killed

\* bench "never stops a server it did not start": what it is about to signal,
\* or has signalled, is a child of this very bench (run_candidate, teardown).
BenchStopsOnlyItsOwn ==
    \A p \in Clis :
        cli[p].cmd = "bench" /\ cli[p].pc \in {"term", "grace", "remove_pid", "clear_state"} =>
            server[cli[p].pid].parent = p

\* As long as commands are used one at a time, and none dies half-way, every
\* background server can be stopped: the pidfile names it and the run state
\* names its model whenever no command is working, whatever the servers,
\* foreground runs and agent sessions did on their own.
ServerManaged ==
    orderly /\ (\A p \in Clis : ~Busy(p)) =>
        \A s \in Pids : Background(s) =>
            pidfile = s /\ runState = server[s].model

\* Used that way, at most one background server is ever meant to run: `run`,
\* `restart`, `launch` and `bench` never start a second one (preflight).
OneServer ==
    orderly => \A s, t \in Pids : Background(s) /\ Background(t) => s = t

\* Used that way, rm never takes the files of a background server's model away
\* (rm's refusal reads the pidfile and the run state, both of them hints).
ServedModelKept ==
    orderly => \A s \in Pids : Background(s) => server[s].model \in weights

\* What a user who runs one command at a time can rely on, whatever dies on its
\* own: the server is recorded, alone, and keeps its weights.
OrderlyUse == ServerManaged /\ OneServer /\ ServedModelKept

\* Used that way, a launch that adopts a running server advertises the model
\* which that server was started with (verify_serves).
LaunchAdoptsItsModel ==
    [][\A p \in Clis : orderly /\ At(p, "verify") /\ cli'[p].pc = "session" =>
           server[pidfile].model = cli[p].name]_vars

\* Every command but a foreground run and an agent session comes to an end.
CommandsEnd == \A p \in Clis : Busy(p) ~> ~Busy(p)

\* A server that a stop has given up on does end.
StoppedServersEnd ==
    \A p \in Clis, s \in Pids :
        (cli[p].pc = "remove_pid" /\ cli[p].pid = s) ~> ~Running(s)

\* Neither the commands nor the servers they stop hang.
NothingHangs == CommandsEnd /\ StoppedServersEnd
=============================================================================
