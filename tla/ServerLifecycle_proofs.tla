------------------------ MODULE ServerLifecycle_proofs ------------------------
(***************************************************************************)
(* Theorems about ServerLifecycle, for every set of terminals, models and  *)
(* pids.                                                                   *)
(***************************************************************************)
EXTENDS ServerLifecycle, TLAPS

-----------------------------------------------------------------------------
(* Type correctness.                                                       *)

LEMMA AdoptedType ==
    ASSUME TypeOK, NEW p \in Clis
    PROVE  Adopted(p) \in [Pids -> Servers]
BY DEF Adopted, TypeOK, Servers, ServerStates

LEMMA IdleType == Idle \in Invocations /\ Free \in Servers
BY DEF Idle, Free, Invocations, Servers, Steps, Commands, ServerStates

LEMMA ExitType ==
    ASSUME TypeOK, NEW p \in Clis, Exit(p)
    PROVE  server' \in [Pids -> Servers] /\ cli' \in [Clis -> Invocations]
BY AdoptedType, IdleType DEF Exit, TypeOK

LEMMA GotoType ==
    ASSUME TypeOK, NEW p \in Clis, NEW step \in Steps, Goto(p, step)
    PROVE  cli' \in [Clis -> Invocations]
BY DEF Goto, TypeOK, Invocations

LEMMA ContinueType ==
    ASSUME TypeOK, NEW p \in Clis, NEW step \in Steps, Continue(p, step)
    PROVE  TypeOK'
BY GotoType DEF Continue, Files, History, TypeOK

LEMMA RefuseType ==
    ASSUME TypeOK, NEW p \in Clis, Refuse(p)
    PROVE  TypeOK'
BY ExitType DEF Refuse, Files, History, TypeOK

LEMMA BeginType ==
    ASSUME TypeOK, NEW p \in Clis, NEW c \in Commands,
           NEW m \in Models \cup {NoModel}, NEW step \in Steps,
           NEW snap \in SUBSET Models, Begin(p, c, m, step, snap)
    PROVE  TypeOK'
BY MaxCommandsAssumption DEF Begin, TypeOK, Invocations

\* One step of a command that is under way.
LEMMA WorkType ==
    ASSUME TypeOK, NEW p \in Clis, Work(p)
    PROVE  TypeOK'
<1>0. cli[p] \in Invocations
  BY DEF TypeOK
<1> USE ContinueType, RefuseType, <1>0
<1>1. CASE RestartCheck(p)
  BY <1>1 DEF RestartCheck, Steps
<1>2. CASE LoadRegistry(p)
  BY <1>2 DEF LoadRegistry, Steps
<1>3. CASE EnsureServerUp(p)
  BY <1>3 DEF EnsureServerUp, Steps
<1>4. CASE VerifyServes(p)
  BY <1>4 DEF VerifyServes, Steps
<1>5. CASE PreflightLive(p)
  BY <1>5 DEF PreflightLive, Steps
<1>6. CASE PreflightShard(p)
  BY <1>6 DEF PreflightShard, Steps
<1>7. CASE PreflightPort(p)
  BY <1>7 DEF PreflightPort, Steps
<1>8. CASE Spawn(p)
  <2>1. PICK s \in Pids :
          /\ server' = [server EXCEPT ![s] = [st |-> "starting", model |-> cli[p].name,
                           by |-> cli[p].cmd, parent |-> p, killed |-> FALSE]]
          /\ cli' = [cli EXCEPT ![p] = [@ EXCEPT !.pid = s,
                        !.pc = IF cli[p].cmd = "foreground" THEN "foreground" ELSE "write_pid"]]
    BY ZenonT(30), <1>8 DEF Spawn
  <2>2. server' \in [Pids -> Servers]
    BY <2>1 DEF TypeOK, Servers, ServerStates, Invocations
  <2>3. cli' \in [Clis -> Invocations]
    BY <2>1 DEF TypeOK, Steps, Invocations
  <2> QED BY <1>8, <2>2, <2>3 DEF Spawn, TypeOK, Files, History
<1>9. CASE SpawnFails(p)
  BY <1>9 DEF SpawnFails
<1>10. CASE WritePidFile(p)
  <2>1. cli' \in [Clis -> Invocations]
    BY <1>10, GotoType DEF WritePidFile, Steps
  <2> QED BY <1>10, <2>1 DEF WritePidFile, TypeOK, History, Invocations
<1>11. CASE WriteRunState(p)
  <2>1. cli' \in [Clis -> Invocations] /\ server' \in [Pids -> Servers]
    BY <1>11, GotoType, ExitType DEF WriteRunState, Steps, TypeOK
  <2> QED BY <1>11, <2>1 DEF WriteRunState, TypeOK, History, Invocations
<1>12. CASE BenchReuse(p)
  BY <1>12 DEF BenchReuse, LivePid, TypeOK, Files, History, Invocations, Steps
<1>13. CASE MeasureDone(p)
  BY <1>13 DEF MeasureDone, Steps
<1>14. CASE MeasureFails(p)
  BY <1>14 DEF MeasureFails
<1>15. CASE StopRead(p)
  BY <1>15 DEF StopRead, TypeOK, Files, History, Invocations, Steps
<1>16. CASE Terminate(p)
  BY <1>16 DEF Terminate, Steps
<1>17. CASE SeesDead(p)
  <2>1. cli' \in [Clis -> Invocations]
    BY <1>17, GotoType DEF SeesDead, Steps
  <2> QED BY ZenonT(30), <1>17, <2>1 DEF SeesDead, TypeOK, Files, History, Servers, ServerStates
<1>18. CASE Escalate(p)
  <2>1. cli' \in [Clis -> Invocations]
    BY <1>18, GotoType DEF Escalate, Steps
  <2>2. server' \in [Pids -> Servers]
    BY <1>18 DEF Escalate, TypeOK, Servers, Running
  <2> QED BY <1>18, <2>1, <2>2 DEF Escalate, TypeOK, Files, History
<1>19. CASE RemovePidFile(p)
  <2>1. cli' \in [Clis -> Invocations]
    BY <1>19, GotoType DEF RemovePidFile, Steps
  <2> QED BY <1>19, <2>1 DEF RemovePidFile, TypeOK, History
<1>20. CASE ClearRunState(p)
  <2>1. cli' \in [Clis -> Invocations] /\ server' \in [Pids -> Servers]
    BY <1>20, ExitType DEF ClearRunState, TypeOK, Invocations, Steps
  <2> QED BY <1>20, <2>1 DEF ClearRunState, TypeOK, History
<1>21. CASE RmCheck(p)
  BY <1>21 DEF RmCheck, Steps
<1>22. CASE RmDelete(p)
  <2>1. CASE Refuse(p)
    BY <2>1
  <2>2. CASE Goto(p, "rm_save")
    BY <1>22, <2>2, GotoType, RefuseType DEF RmDelete, TypeOK, History, Steps
  <2> QED BY <1>22, <2>1, <2>2 DEF RmDelete
<1>23. CASE RmSave(p)
  <2>1. cli' \in [Clis -> Invocations] /\ server' \in [Pids -> Servers]
    BY <1>23, ExitType DEF RmSave
  <2> QED BY <1>23, <2>1 DEF RmSave, TypeOK, History, Invocations
<1> QED
  BY <1>1, <1>2, <1>3, <1>4, <1>5, <1>6, <1>7, <1>8, <1>9, <1>10, <1>11, <1>12,
     <1>13, <1>14, <1>15, <1>16, <1>17, <1>18, <1>19, <1>20, <1>21, <1>22, <1>23
     DEF Work

\* Every state of the specification is well typed.
LEMMA NextType == TypeOK /\ [Next]_vars => TypeOK'
<1> SUFFICES ASSUME TypeOK, [Next]_vars PROVE TypeOK'
  OBVIOUS
<1>1. ASSUME NEW p \in Clis, NEW m \in Models,
             Run(p, m) \/ RunForeground(p, m) \/ Restart(p, m) \/ Launch(p, m)
                 \/ Bench(p, m) \/ Rm(p, m)
      PROVE  TypeOK'
  BY <1>1, BeginType
     DEF Run, RunForeground, Restart, Launch, Bench, Rm, Commands, Steps, TypeOK
<1>2. ASSUME NEW p \in Clis, Stop(p) PROVE TypeOK'
  BY <1>2, BeginType DEF Stop, Commands, Steps
<1>3. ASSUME NEW p \in Clis, Work(p) PROVE TypeOK'
  BY <1>3, WorkType
<1>4. ASSUME NEW p \in Clis, SessionEnds(p) \/ ForegroundReturns(p) PROVE TypeOK'
  BY <1>4, RefuseType DEF SessionEnds, ForegroundReturns
<1>5. ASSUME NEW p \in Clis, Crash(p) PROVE TypeOK'
  BY <1>5, ExitType DEF Crash, TypeOK, Files
<1>6. ASSUME NEW s \in Pids, ServerExit(s) \/ Bind(s) PROVE TypeOK'
  BY <1>6 DEF ServerExit, Bind, TypeOK, Files, History, Servers, ServerStates
<1>7. CASE UNCHANGED vars
  BY <1>7 DEF vars, TypeOK
<1> QED
  BY <1>1, <1>2, <1>3, <1>4, <1>5, <1>6, <1>7 DEF Next

LEMMA InitType == Init => TypeOK
BY IdleType, MaxCommandsAssumption DEF Init, TypeOK

\* The state of the files, the processes and the commands is always well typed.
THEOREM TypeCorrect == Spec => []TypeOK
BY InitType, NextType, PTL DEF Spec

-----------------------------------------------------------------------------
(* The pid a command works on.                                             *)

\* From the spawn, or from the reading of the pidfile, on, a command has a pid.
HasPid == {"write_pid", "write_state", "measure", "measure_reused",
           "term", "grace", "remove_pid", "clear_state"}

\* Only processes that have been started are known by pid.
Known ==
    /\ pidfile # NoPid => server[pidfile].st # "free"
    /\ \A p \in Clis : cli[p].pid # NoPid => server[cli[p].pid].st # "free"
    /\ \A p \in Clis : cli[p].pc \in HasPid => cli[p].pid # NoPid

\* What an exit, or the pc of a command, leaves of Known.
LEMMA ExitKnown ==
    ASSUME TypeOK, Known, NEW p \in Clis, Exit(p), pidfile' \in {pidfile, NoPid}
    PROVE  Known'
<1>1. \A s \in Pids : server[s].st # "free" => server'[s].st # "free"
  BY DEF Exit, Adopted, TypeOK, Servers
<1>2. \A q \in Clis : cli'[q] = IF q = p THEN Idle ELSE cli[q]
  BY DEF Exit, TypeOK
<1>3. Idle.pid = NoPid /\ Idle.pc \notin HasPid
  BY DEF Idle, HasPid
<1>4. pidfile \in Pids \cup {NoPid} /\ \A q \in Clis : cli[q].pid \in Pids \cup {NoPid}
  BY DEF TypeOK, Invocations
<1> QED BY <1>1, <1>2, <1>3, <1>4 DEF Known

LEMMA RefuseKnown ==
    ASSUME TypeOK, Known, NEW p \in Clis, Refuse(p)
    PROVE  Known'
BY ExitKnown DEF Refuse, Files

LEMMA GotoKnown ==
    ASSUME TypeOK, Known, NEW p \in Clis, NEW step, Goto(p, step),
           step \in HasPid => cli[p].pid # NoPid,
           UNCHANGED server, pidfile' \in {pidfile, NoPid, cli[p].pid}
    PROVE  Known'
<1>1. \A q \in Clis : cli'[q].pid = cli[q].pid
  BY DEF Goto, TypeOK, Invocations
<1>2. \A q \in Clis : cli'[q].pc = IF q = p THEN step ELSE cli[q].pc
  BY DEF Goto, TypeOK, Invocations
<1> QED BY <1>1, <1>2 DEF Known

LEMMA ContinueKnown ==
    ASSUME TypeOK, Known, NEW p \in Clis, NEW step, Continue(p, step),
           step \in HasPid => cli[p].pid # NoPid
    PROVE  Known'
BY GotoKnown DEF Continue, Files

LEMMA BeginKnown ==
    ASSUME TypeOK, Known, NEW p \in Clis, NEW c, NEW m, NEW step, NEW snap,
           step \notin HasPid, Begin(p, c, m, step, snap)
    PROVE  Known'
BY DEF Begin, Known, TypeOK

\* A command reads the pid of a process that has been started.
LEMMA TakesPidKnown ==
    ASSUME TypeOK, Known, NEW p \in Clis, NEW step, pidfile # NoPid,
           cli' = [cli EXCEPT ![p] = [@ EXCEPT !.pid = pidfile, !.pc = step]],
           UNCHANGED <<pidfile, server>>
    PROVE  Known'
<1>1. \A q \in Clis : cli'[q].pid = IF q = p THEN pidfile ELSE cli[q].pid
  BY DEF TypeOK, Invocations
<1>2. \A q \in Clis \ {p} : cli'[q].pc = cli[q].pc
  BY DEF TypeOK, Invocations
<1> QED BY <1>1, <1>2 DEF Known

LEMMA WorkKnown ==
    ASSUME TypeOK, Known, NEW p \in Clis, Work(p)
    PROVE  Known'
<1> USE ContinueKnown, RefuseKnown DEF HasPid, At
<1>1. CASE RestartCheck(p)
  BY <1>1 DEF RestartCheck
<1>2. CASE LoadRegistry(p)
  BY <1>2 DEF LoadRegistry
<1>3. CASE EnsureServerUp(p)
  BY <1>3 DEF EnsureServerUp
<1>4. CASE VerifyServes(p)
  BY <1>4 DEF VerifyServes
<1>5. CASE PreflightLive(p)
  BY <1>5 DEF PreflightLive
<1>6. CASE PreflightShard(p)
  BY <1>6 DEF PreflightShard
<1>7. CASE PreflightPort(p)
  BY <1>7 DEF PreflightPort
<1>8. CASE Spawn(p)
  <2>1. PICK s \in Pids :
          /\ server[s].st = "free"
          /\ server' = [server EXCEPT ![s] = [st |-> "starting", model |-> cli[p].name,
                           by |-> cli[p].cmd, parent |-> p, killed |-> FALSE]]
          /\ cli' = [cli EXCEPT ![p] = [@ EXCEPT !.pid = s,
                        !.pc = IF cli[p].cmd = "foreground" THEN "foreground" ELSE "write_pid"]]
    BY ZenonT(30), <1>8 DEF Spawn
  <2>2. \A t \in Pids : server[t].st # "free" \/ t = s => server'[t].st # "free"
    BY <2>1 DEF TypeOK
  <2>3. \A q \in Clis : cli'[q].pid = IF q = p THEN s ELSE cli[q].pid
    BY <2>1 DEF TypeOK, Invocations
  <2>4. \A q \in Clis \ {p} : cli'[q].pc = cli[q].pc
    BY <2>1 DEF TypeOK
  <2>5. pidfile' = pidfile /\ pidfile \in Pids \cup {NoPid}
        /\ \A q \in Clis : cli[q].pid \in Pids \cup {NoPid}
    BY <1>8 DEF Spawn, Files, TypeOK, Invocations
  <2> QED BY <2>2, <2>3, <2>4, <2>5, PidsAssumption DEF Known
<1>9. CASE SpawnFails(p)
  BY <1>9 DEF SpawnFails
<1>10. CASE WritePidFile(p)
  BY <1>10, GotoKnown DEF WritePidFile, Known
<1>11. CASE WriteRunState(p)
  BY <1>11, GotoKnown, ExitKnown DEF WriteRunState, Known
<1>12. CASE BenchReuse(p)
  <2>1. CASE Refuse(p)
    BY <2>1
  <2>2. CASE LivePid # NoPid /\ ~Refuse(p)
    <3>1. /\ LivePid = pidfile /\ pidfile # NoPid
          /\ cli' = [cli EXCEPT ![p] = [@ EXCEPT !.pid = pidfile, !.pc = "measure_reused"]]
          /\ UNCHANGED <<pidfile, server>>
      BY <1>12, <2>2 DEF BenchReuse, LivePid, Files
    <3> QED BY <3>1, TakesPidKnown
  <2> QED BY <1>12, <2>1, <2>2 DEF BenchReuse
<1>13. CASE MeasureDone(p)
  BY <1>13 DEF MeasureDone, Known
<1>14. CASE MeasureFails(p)
  BY <1>14 DEF MeasureFails
<1>15. CASE StopRead(p)
  <2>1. CASE pidfile = NoPid
    BY <1>15, <2>1 DEF StopRead
  <2>2. CASE pidfile # NoPid
    <3>1. /\ cli' = [cli EXCEPT ![p] = [@ EXCEPT !.pid = pidfile,
                        !.pc = IF ProcessAlive(pidfile) THEN "term" ELSE "remove_pid"]]
          /\ UNCHANGED <<pidfile, server>>
      BY <1>15, <2>2 DEF StopRead, Files
    <3> QED BY <2>2, <3>1, TakesPidKnown
  <2> QED BY <2>1, <2>2
<1>16. CASE Terminate(p)
  BY <1>16 DEF Terminate, Known
<1>17. CASE SeesDead(p) \/ Escalate(p)
  <2>1. \A s \in Pids : server[s].st # "free" => server'[s].st # "free"
    BY <1>17 DEF SeesDead, Escalate, TypeOK, Servers
  <2>2. \A q \in Clis : cli'[q].pid = cli[q].pid /\ (q # p => cli'[q].pc = cli[q].pc)
    BY <1>17 DEF SeesDead, Escalate, Goto, TypeOK, Invocations
  <2>3. pidfile' = pidfile /\ cli[p].pid # NoPid /\ pidfile \in Pids \cup {NoPid}
        /\ \A q \in Clis : cli[q].pid \in Pids \cup {NoPid}
    BY <1>17 DEF SeesDead, Escalate, Files, Known, TypeOK, Invocations
  <2> QED BY <2>1, <2>2, <2>3 DEF Known
<1>18. CASE RemovePidFile(p)
  BY <1>18, GotoKnown DEF RemovePidFile, Known
<1>19. CASE ClearRunState(p)
  <2>1. CASE Exit(p)
    BY <1>19, <2>1, ExitKnown DEF ClearRunState
  <2>2. CASE ~Exit(p)
    BY <1>19, <2>2 DEF ClearRunState, Known, TypeOK, Invocations
  <2> QED BY <2>1, <2>2
<1>20. CASE RmCheck(p)
  BY <1>20 DEF RmCheck
<1>21. CASE RmDelete(p)
  BY <1>21, GotoKnown DEF RmDelete
<1>22. CASE RmSave(p)
  BY <1>22, ExitKnown DEF RmSave
<1> QED
  BY <1>1, <1>2, <1>3, <1>4, <1>5, <1>6, <1>7, <1>8, <1>9, <1>10, <1>11, <1>12,
     <1>13, <1>14, <1>15, <1>16, <1>17, <1>18, <1>19, <1>20, <1>21, <1>22 DEF Work

LEMMA NextKnown == TypeOK /\ Known /\ [Next]_vars => Known'
<1> SUFFICES ASSUME TypeOK, Known, [Next]_vars PROVE Known'
  OBVIOUS
<1>1. ASSUME NEW p \in Clis, NEW m \in Models,
             Run(p, m) \/ RunForeground(p, m) \/ Restart(p, m) \/ Launch(p, m)
                 \/ Bench(p, m) \/ Rm(p, m)
      PROVE  Known'
  BY <1>1, BeginKnown DEF Run, RunForeground, Restart, Launch, Bench, Rm, HasPid
<1>2. ASSUME NEW p \in Clis, Stop(p) PROVE Known'
  BY <1>2, BeginKnown DEF Stop, HasPid
<1>3. ASSUME NEW p \in Clis, Work(p) PROVE Known'
  BY <1>3, WorkKnown
<1>4. ASSUME NEW p \in Clis, SessionEnds(p) \/ ForegroundReturns(p) \/ Crash(p) PROVE Known'
  BY <1>4, RefuseKnown, ExitKnown DEF SessionEnds, ForegroundReturns, Crash, Files
<1>5. ASSUME NEW s \in Pids, ServerExit(s) \/ Bind(s) PROVE Known'
  <2>1. \A t \in Pids : server[t].st # "free" => server'[t].st # "free"
    BY <1>5 DEF ServerExit, Bind, TypeOK, Servers
  <2>2. pidfile \in Pids \cup {NoPid} /\ \A q \in Clis : cli[q].pid \in Pids \cup {NoPid}
    BY DEF TypeOK, Invocations
  <2> QED BY <1>5, <2>1, <2>2 DEF ServerExit, Bind, Known, Files
<1>6. CASE UNCHANGED vars
  BY <1>6 DEF vars, Known
<1> QED
  BY <1>1, <1>2, <1>3, <1>4, <1>5, <1>6 DEF Next

LEMMA InitKnown == Init => Known
BY DEF Init, Known, Idle, HasPid

-----------------------------------------------------------------------------
(* Stopping is final.                                                      *)

\* No step makes a process that has ended, or has been sent SIGKILL, run on.
StaysStopped(s) == ~Running(s) \/ server[s].killed

Ending == {"remove_pid", "clear_state"}

LEMMA OthersStayStopped ==
    ASSUME TypeOK, [Next]_vars, NEW s \in Pids, server[s].st # "free", StaysStopped(s)
    PROVE  StaysStopped(s)'
<1> DEFINE Same == /\ server'[s].killed = server[s].killed
                   /\ server'[s].st = server[s].st \/ server'[s].st \in {"zombie", "dead"}
<1> USE DEF StaysStopped, Running
<1>0. server[s] \in Servers
  BY DEF TypeOK
<1>1. CASE Same
  BY <1>0, <1>1
<1>2. CASE server' = server
  BY <1>2
<1>3. ASSUME NEW p \in Clis, Exit(p) PROVE Same
  BY <1>0, <1>3 DEF Exit, Adopted, TypeOK, Servers
<1>4. ASSUME NEW p \in Clis, NEW c, NEW m, NEW step, NEW snap, Begin(p, c, m, step, snap)
      PROVE  server' = server
  BY <1>4 DEF Begin
<1>5. ASSUME NEW p \in Clis, Work(p) PROVE StaysStopped(s)'
  <2>1. CASE Spawn(p)
    BY <2>1, <1>0 DEF Spawn, TypeOK
  <2>2. CASE SeesDead(p)
    BY <2>2, <1>0 DEF SeesDead, TypeOK
  <2>3. CASE Escalate(p)
    BY <2>3, <1>0 DEF Escalate, TypeOK, Servers
  <2>4. CASE Exit(p)
    BY <2>4, <1>1, <1>3
  <2>5. CASE ~Spawn(p) /\ ~SeesDead(p) /\ ~Escalate(p) /\ ~Exit(p)
    <3>1. server' = server
      BY <1>5, <2>5 DEF Work, RestartCheck, LoadRegistry, EnsureServerUp, VerifyServes,
         PreflightLive, PreflightShard, PreflightPort, SpawnFails, WritePidFile,
         WriteRunState, BenchReuse, MeasureDone, MeasureFails, StopRead, Terminate,
         RemovePidFile, ClearRunState, RmCheck, RmDelete, RmSave, Continue, Refuse
    <3> QED BY <3>1, <1>2
  <2> QED BY <2>1, <2>2, <2>3, <2>4, <2>5
<1>6. ASSUME NEW t \in Pids, ServerExit(t) PROVE Same
  BY <1>0, <1>6 DEF ServerExit, TypeOK, Servers
<1>7. ASSUME NEW t \in Pids, Bind(t) PROVE StaysStopped(s)'
  BY <1>0, <1>7 DEF Bind, TypeOK, Servers
<1>8. ASSUME NEW p \in Clis, SessionEnds(p) \/ ForegroundReturns(p) \/ Crash(p) PROVE Same
  BY <1>8, <1>3 DEF SessionEnds, ForegroundReturns, Crash, Refuse
<1>9. CASE UNCHANGED vars
  BY <1>9, <1>2 DEF vars
<1>10. ASSUME NEW p \in Clis, NEW m \in Models,
              Run(p, m) \/ RunForeground(p, m) \/ Restart(p, m) \/ Launch(p, m)
                 \/ Bench(p, m) \/ Rm(p, m) \/ Stop(p)
       PROVE  server' = server
  BY <1>10, <1>4 DEF Run, RunForeground, Restart, Launch, Bench, Rm, Stop
<1>11. ASSUME NEW p \in Clis, Stop(p) PROVE server' = server
  BY <1>11, <1>4 DEF Stop
<1> QED
  BY <1>1, <1>2, <1>5, <1>6, <1>7, <1>8, <1>9, <1>10, <1>11 DEF Next

\* A command that comes to the end of a stop has seen the process dead, or
\* has sent it SIGKILL.
LEMMA NextStop ==
    TypeOK /\ Known /\ StopIsFinal /\ [Next]_vars => StopIsFinal'
<1> SUFFICES ASSUME TypeOK, Known, StopIsFinal, [Next]_vars, NEW q \in Clis,
                    (cli[q].pc \in Ending)'
             PROVE  StaysStopped(cli[q].pid)'
  BY DEF StopIsFinal, StaysStopped, Ending
<1>0. cli[q] \in Invocations
  BY DEF TypeOK
<1>1. CASE cli[q].pc \in Ending /\ cli'[q].pid = cli[q].pid
  <2>1. cli[q].pid \in Pids /\ server[cli[q].pid].st # "free" /\ StaysStopped(cli[q].pid)
    BY <1>0, <1>1 DEF Known, HasPid, Ending, StopIsFinal, StaysStopped, Invocations
  <2> QED BY <2>1, <1>1, OthersStayStopped DEF StaysStopped, Running
<1>2. CASE ~(cli[q].pc \in Ending /\ cli'[q].pid = cli[q].pid)
  <2> USE DEF At, Ending
  <2>1. ASSUME NEW p \in Clis, Exit(p) PROVE FALSE
    BY <1>2, <2>1 DEF Exit, TypeOK, Idle
  <2>2. ASSUME NEW p \in Clis, NEW step, step \notin Ending, Goto(p, step) PROVE FALSE
    BY <1>0, <1>2, <2>2 DEF Goto, TypeOK, Invocations
  <2>3. ASSUME NEW p \in Clis, NEW c, NEW m, NEW step, step \notin Ending, NEW snap,
               Begin(p, c, m, step, snap)
        PROVE  FALSE
    BY <1>2, <2>3 DEF Begin, TypeOK
  <2>4. ASSUME cli' = cli PROVE FALSE
    BY <1>2, <2>4
  <2>5. ASSUME NEW p \in Clis, Work(p) PROVE StaysStopped(cli[q].pid)'
    <3>1. CASE StopRead(p)
      <4>1. pidfile # NoPid
        BY <2>1, <3>1 DEF StopRead, Refuse
      <4>2. q = p /\ ~ProcessAlive(pidfile) /\ cli'[q].pid = pidfile /\ server' = server
        BY <1>0, <1>2, <3>1, <4>1 DEF StopRead, TypeOK, Invocations
      <4> QED BY <4>2 DEF StaysStopped, Running, ProcessAlive
    <3>2. CASE Terminate(p)
      <4>1. q = p /\ ~ProcessAlive(cli[p].pid) /\ cli'[q].pid = cli[q].pid /\ server' = server
        BY <1>0, <1>2, <3>2, <2>2 DEF Terminate, Continue, Goto, TypeOK, Invocations
      <4> QED BY <4>1 DEF StaysStopped, Running, ProcessAlive
    <3>3. CASE SeesDead(p)
      <4>1. q = p /\ ~ChildAlive(p, cli[p].pid) /\ cli'[q].pid = cli[q].pid
            /\ server' = [server EXCEPT ![cli[p].pid] = [@ EXCEPT !.st = "dead"]]
        BY <1>0, <1>2, <3>3 DEF SeesDead, Goto, TypeOK, Invocations
      <4>2. cli[p].pid \in Pids
        BY <1>0, <3>3, <4>1 DEF Known, HasPid, SeesDead, Invocations
      <4> QED BY <4>1, <4>2 DEF StaysStopped, Running, TypeOK, Servers
    <3>4. CASE Escalate(p)
      <4>1. q = p /\ cli'[q].pid = cli[q].pid
        BY <1>0, <1>2, <3>4 DEF Escalate, Goto, TypeOK, Invocations
      <4>2. cli[p].pid \in Pids
        BY <1>0, <3>4, <4>1 DEF Known, HasPid, Escalate, Invocations
      <4> QED BY <3>4, <4>1, <4>2 DEF Escalate, StaysStopped, Running, TypeOK, Servers
    <3>5. CASE RemovePidFile(p)
      BY <1>0, <1>2, <3>5 DEF RemovePidFile, Goto, TypeOK, Invocations
    <3>6. CASE ClearRunState(p)
      BY <1>0, <1>2, <2>1, <3>6 DEF ClearRunState, TypeOK, Invocations
    <3>7. CASE Spawn(p)
      BY <1>0, <1>2, <3>7 DEF Spawn, TypeOK, Invocations
    <3>8. CASE BenchReuse(p)
      BY <1>0, <1>2, <2>1, <3>8 DEF BenchReuse, Refuse, TypeOK, Invocations
    <3>9. CASE \/ RestartCheck(p) \/ LoadRegistry(p) \/ EnsureServerUp(p) \/ VerifyServes(p)
               \/ PreflightLive(p) \/ PreflightShard(p) \/ PreflightPort(p) \/ SpawnFails(p)
               \/ WritePidFile(p) \/ WriteRunState(p) \/ MeasureDone(p) \/ MeasureFails(p)
               \/ RmCheck(p) \/ RmDelete(p) \/ RmSave(p)
      BY <2>1, <2>2, <3>9 DEF RestartCheck, LoadRegistry, EnsureServerUp, VerifyServes,
         PreflightLive, PreflightShard, PreflightPort, SpawnFails, WritePidFile,
         WriteRunState, MeasureDone, MeasureFails, RmCheck, RmDelete, RmSave, Continue, Refuse
    <3> QED BY <2>5, <3>1, <3>2, <3>3, <3>4, <3>5, <3>6, <3>7, <3>8, <3>9 DEF Work
  <2>6. ASSUME NEW p \in Clis, NEW m \in Models,
               Run(p, m) \/ RunForeground(p, m) \/ Restart(p, m) \/ Launch(p, m)
                  \/ Bench(p, m) \/ Rm(p, m)
        PROVE  FALSE
    BY <2>3, <2>6 DEF Run, RunForeground, Restart, Launch, Bench, Rm
  <2>7. ASSUME NEW p \in Clis, Stop(p) PROVE FALSE
    BY <2>3, <2>7 DEF Stop
  <2>8. ASSUME NEW p \in Clis, SessionEnds(p) \/ ForegroundReturns(p) \/ Crash(p) PROVE FALSE
    BY <2>1, <2>8 DEF SessionEnds, ForegroundReturns, Crash, Refuse
  <2>9. ASSUME NEW s \in Pids, ServerExit(s) \/ Bind(s) PROVE FALSE
    BY <2>4, <2>9 DEF ServerExit, Bind
  <2>10. CASE UNCHANGED vars
    BY <2>4, <2>10 DEF vars
  <2> QED BY <2>5, <2>6, <2>7, <2>8, <2>9, <2>10 DEF Next
<1> QED BY <1>1, <1>2

\* Once a stop has left the grace period its process has ended or will be
\* killed, however many commands run, in whatever order.
THEOREM StopIsFinalAlways == Spec => []StopIsFinal
<1>1. Init => StopIsFinal
  BY DEF Init, StopIsFinal, Idle
<1> QED BY <1>1, InitType, InitKnown, NextType, NextKnown, NextStop, PTL DEF Spec

-----------------------------------------------------------------------------
(* bench stops no server but its own.                                      *)

\* From its spawn on, the process a bench works on is its child, unless it is
\* a server the bench found running; and bench never runs the stop command.
Owning == HasPid \ {"measure_reused"}
BenchOwns ==
    \A p \in Clis : cli[p].cmd = "bench" =>
        /\ cli[p].pc \notin {"restart", "stop_read"}
        /\ cli[p].pc \in Owning => server[cli[p].pid].parent = p

\* A process keeps its parent until the parent exits.
LEMMA ParentKept ==
    ASSUME TypeOK, [Next]_vars, NEW p \in Clis, NEW s \in Pids,
           server[s].st # "free", server[s].parent = p, cli'[p].pc # "idle"
    PROVE  server'[s].parent = p
<1>0. server[s] \in Servers
  BY DEF TypeOK
<1>1. ASSUME NEW q \in Clis, Exit(q) PROVE server'[s].parent = p
  BY <1>0, <1>1 DEF Exit, Adopted, TypeOK, Servers, Idle
<1>2. ASSUME server' = server PROVE server'[s].parent = p
  BY <1>2
<1>3. ASSUME NEW q \in Clis, Work(q) PROVE server'[s].parent = p
  <2>1. CASE Spawn(q)
    BY <2>1, <1>0 DEF Spawn, TypeOK
  <2>2. CASE SeesDead(q) \/ Escalate(q)
    BY <2>2, <1>0 DEF SeesDead, Escalate, TypeOK, Servers
  <2>3. CASE ~Spawn(q) /\ ~SeesDead(q) /\ ~Escalate(q) /\ ~Exit(q)
    BY <1>3, <2>3, <1>2 DEF Work, RestartCheck, LoadRegistry, EnsureServerUp, VerifyServes,
       PreflightLive, PreflightShard, PreflightPort, SpawnFails, WritePidFile,
       WriteRunState, BenchReuse, MeasureDone, MeasureFails, StopRead, Terminate,
       RemovePidFile, ClearRunState, RmCheck, RmDelete, RmSave, Continue, Refuse
  <2> QED BY <2>1, <2>2, <2>3, <1>1
<1>4. ASSUME NEW t \in Pids, ServerExit(t) \/ Bind(t) PROVE server'[s].parent = p
  BY <1>0, <1>4 DEF ServerExit, Bind, TypeOK, Servers
<1>5. ASSUME NEW q \in Clis, SessionEnds(q) \/ ForegroundReturns(q) \/ Crash(q)
      PROVE  server'[s].parent = p
  BY <1>1, <1>5 DEF SessionEnds, ForegroundReturns, Crash, Refuse
<1>6. ASSUME NEW q \in Clis, Stop(q) PROVE server'[s].parent = p
  BY <1>2, <1>6 DEF Stop, Begin
<1>7. ASSUME NEW q \in Clis, NEW m \in Models,
             Run(q, m) \/ RunForeground(q, m) \/ Restart(q, m) \/ Launch(q, m)
                 \/ Bench(q, m) \/ Rm(q, m)
      PROVE  server'[s].parent = p
  BY <1>2, <1>7 DEF Run, RunForeground, Restart, Launch, Bench, Rm, Begin
<1>8. CASE UNCHANGED vars
  BY <1>2, <1>8 DEF vars
<1> QED BY <1>3, <1>4, <1>5, <1>6, <1>7, <1>8 DEF Next

\* A bench that goes on with the pid it has.
LEMMA BenchGoesOn ==
    ASSUME TypeOK, Known, BenchOwns, [Next]_vars, NEW p \in Clis,
           cli[p].cmd = "bench", cli[p].pc \in Owning,
           cli'[p].pid = cli[p].pid, cli'[p].pc \in Owning
    PROVE  server'[cli'[p].pid].parent = p
<1>1. cli[p].pid \in Pids /\ server[cli[p].pid].st # "free"
  BY DEF Known, Owning, TypeOK, Invocations
<1>2. server[cli[p].pid].parent = p
  BY DEF BenchOwns
<1>3. cli'[p].pc # "idle"
  BY DEF Owning, HasPid
<1> QED BY <1>1, <1>2, <1>3, ParentKept

LEMMA NextBench == TypeOK /\ Known /\ BenchOwns /\ [Next]_vars => BenchOwns'
<1> SUFFICES ASSUME TypeOK, Known, BenchOwns, [Next]_vars,
                    NEW q \in Clis, cli'[q].cmd = "bench"
             PROVE  /\ cli'[q].pc \notin {"restart", "stop_read"}
                    /\ cli'[q].pc \in Owning => server'[cli'[q].pid].parent = q
  BY DEF BenchOwns
<1> DEFINE Goal == /\ cli'[q].pc \notin {"restart", "stop_read"}
                   /\ cli'[q].pc \in Owning => server'[cli'[q].pid].parent = q
<1> USE DEF At, Owning, HasPid
<1>0. cli[q] \in Invocations
  BY DEF TypeOK
<1>1. CASE cli'[q] = cli[q]
  BY <1>1, BenchGoesOn DEF BenchOwns
<1>2. CASE cli'[q] # cli[q]
  <2>1. ASSUME NEW p \in Clis, Exit(p) PROVE Goal
    BY <1>2, <2>1 DEF Exit, TypeOK, Idle
  <2>2. ASSUME NEW p \in Clis, NEW step, step \notin {"restart", "stop_read"},
               step \notin Owning \/ cli[p].pc \in Owning, Goto(p, step)
        PROVE  Goal
    <3>1. p = q /\ cli'[q].pc = step /\ cli'[q].pid = cli[q].pid /\ cli[q].cmd = "bench"
      BY <1>0, <1>2, <2>2 DEF Goto, TypeOK, Invocations
    <3> QED BY <2>2, <3>1, BenchGoesOn
  <2>3. ASSUME NEW p \in Clis, NEW c, NEW m, NEW step,
               c = "bench" => step \notin Owning \cup {"restart", "stop_read"},
               NEW snap, Begin(p, c, m, step, snap)
        PROVE  Goal
    BY <1>2, <2>3 DEF Begin, TypeOK
  <2>4. ASSUME NEW p \in Clis, Work(p) PROVE Goal
    <3>1. CASE Spawn(p)
      <4>1. PICK s \in Pids :
              /\ server' = [server EXCEPT ![s] = [st |-> "starting", model |-> cli[p].name,
                               by |-> cli[p].cmd, parent |-> p, killed |-> FALSE]]
              /\ cli' = [cli EXCEPT ![p] = [@ EXCEPT !.pid = s,
                            !.pc = IF cli[p].cmd = "foreground" THEN "foreground" ELSE "write_pid"]]
        BY ZenonT(30), <3>1 DEF Spawn
      <4>2. p = q /\ cli'[q].pid = s /\ cli'[q].pc \in {"foreground", "write_pid"}
        BY <1>0, <1>2, <4>1 DEF TypeOK, Invocations
      <4>3. server'[s].parent = p
        BY <4>1 DEF TypeOK
      <4> QED BY <4>2, <4>3
    <3>2. CASE BenchReuse(p)
      BY <1>0, <1>2, <2>1, <3>2 DEF BenchReuse, Refuse, TypeOK, Invocations
    <3>3. CASE RestartCheck(p) \/ StopRead(p)
      <4>1. (p = q /\ cli[q].pc \in {"restart", "stop_read"}) \/ Goal
        BY <1>2, <2>1, <3>3 DEF RestartCheck, StopRead, Continue, Refuse, Goto, TypeOK
      <4>2. p = q => cli[q].cmd = "bench" \/ Goal
        BY <1>0, <2>1, <3>3 DEF RestartCheck, StopRead, Continue, Refuse, Goto, TypeOK, Invocations
      <4> QED BY <4>1, <4>2 DEF BenchOwns
    <3>4. CASE ClearRunState(p)
      BY <1>0, <1>2, <2>1, <3>4 DEF ClearRunState, TypeOK, Invocations
    <3>5. CASE MeasureDone(p)
      BY <2>1, <2>2, <3>5 DEF MeasureDone, Continue, Refuse
    <3>6. CASE \/ LoadRegistry(p) \/ EnsureServerUp(p) \/ VerifyServes(p)
               \/ PreflightLive(p) \/ PreflightShard(p) \/ PreflightPort(p) \/ SpawnFails(p)
               \/ WritePidFile(p) \/ WriteRunState(p) \/ MeasureFails(p)
               \/ Terminate(p) \/ SeesDead(p) \/ Escalate(p) \/ RemovePidFile(p)
               \/ RmCheck(p) \/ RmDelete(p) \/ RmSave(p)
      BY <2>1, <2>2, <3>6 DEF LoadRegistry, EnsureServerUp, VerifyServes,
         PreflightLive, PreflightShard, PreflightPort, SpawnFails, WritePidFile,
         WriteRunState, MeasureFails, Terminate, SeesDead, Escalate, RemovePidFile,
         RmCheck, RmDelete, RmSave, Continue, Refuse
    <3> QED BY <2>4, <3>1, <3>2, <3>3, <3>4, <3>5, <3>6 DEF Work
  <2>5. ASSUME NEW p \in Clis, NEW m \in Models,
               Run(p, m) \/ RunForeground(p, m) \/ Restart(p, m) \/ Launch(p, m)
                  \/ Bench(p, m) \/ Rm(p, m)
        PROVE  Goal
    BY <2>3, <2>5 DEF Run, RunForeground, Restart, Launch, Bench, Rm
  <2>6. ASSUME NEW p \in Clis, Stop(p) PROVE Goal
    BY <2>3, <2>6 DEF Stop
  <2>7. ASSUME NEW p \in Clis, SessionEnds(p) \/ ForegroundReturns(p) \/ Crash(p) PROVE Goal
    BY <2>1, <2>7 DEF SessionEnds, ForegroundReturns, Crash, Refuse
  <2>8. ASSUME NEW s \in Pids, ServerExit(s) \/ Bind(s) PROVE Goal
    BY <1>2, <2>8 DEF ServerExit, Bind
  <2>9. CASE UNCHANGED vars
    BY <1>2, <2>9 DEF vars
  <2> QED BY <2>4, <2>5, <2>6, <2>7, <2>8, <2>9 DEF Next
<1> QED BY <1>1, <1>2

\* bench signals no process but its own child, in whatever order it and any
\* other commands take their steps.
THEOREM BenchStopsOnlyItsOwnAlways == Spec => []BenchStopsOnlyItsOwn
<1>1. Init => BenchOwns
  BY DEF Init, BenchOwns, Idle
<1>2. BenchOwns => BenchStopsOnlyItsOwn
  BY DEF BenchOwns, BenchStopsOnlyItsOwn, Owning, HasPid
<1> QED
  BY <1>1, <1>2, InitType, InitKnown, NextType, NextKnown, NextBench, PTL DEF Spec

-----------------------------------------------------------------------------
(* What holds as long as the commands are used one at a time.              *)

\* Whatever runs in the background is on record.
Recorded == \A s \in Pids : Background(s) => pidfile = s /\ runState = server[s].model

\* The two records speak of the same server.
Paired == pidfile # NoPid => runState = server[pidfile].model

NoneRuns == \A s \in Pids : ~Background(s)
OnlyMine(p) == \A s \in Pids : Background(s) => s = cli[p].pid

Settled == Recorded /\ Paired

\* rm and the weights: what is served has its files.
Kept == \A s \in Pids : Background(s) => server[s].model \in weights

\* The state in which a command finds things when it is at `step`.
SituationAt(p, step) ==
    /\ step \in {"load", "ensure", "verify", "reuse", "preflight", "restart", "stop_read",
                 "rm_check", "rm_delete", "rm_save", "measure", "measure_reused",
                 "term", "grace"} => Settled
    /\ step \in {"shard", "port", "spawn"} => NoneRuns /\ Paired
    /\ step \in {"write_pid", "write_state", "measure", "term", "grace"} => OnlyMine(p)
    /\ step \in {"write_pid", "write_state"} =>
           cli[p].pid # NoPid /\ server[cli[p].pid].model = cli[p].name
    /\ step = "write_state" => pidfile = cli[p].pid
    /\ step = "remove_pid" => NoneRuns
    /\ step = "clear_state" => NoneRuns /\ pidfile = NoPid
    /\ step = "verify" => pidfile # NoPid
    /\ step \in {"port", "spawn"} => cli[p].name \in weights
    /\ step = "rm_delete" => \A s \in Pids : Background(s) => server[s].model # cli[p].name
    /\ step \in {"idle", "session", "foreground"} => Settled

Situation(p) == SituationAt(p, cli[p].pc)

Sequential == \A p, q \in Clis : Busy(p) /\ Busy(q) => p = q

OrderlyInv ==
    orderly =>
        /\ Sequential
        /\ Kept
        /\ \A p \in Clis : Busy(p) => Situation(p)
        /\ (\A p \in Clis : ~Busy(p)) => Settled

-----------------------------------------------------------------------------
(* Steps that start nothing and record nothing.                            *)

\* No process is started, none changes its model.
Calm ==
    \A s \in Pids :
        /\ Background(s)' => Background(s)
        /\ server[s].st # "free" => server'[s].model = server[s].model

Still == UNCHANGED <<pidfile, runState, weights>>

LEMMA CalmKeeps ==
    ASSUME TypeOK, Known, Calm, Still
    PROVE  /\ Settled => Settled'
           /\ NoneRuns => NoneRuns'
           /\ Paired => Paired'
           /\ Kept => Kept'
<1>1. \A s \in Pids : Background(s)' => Background(s) /\ server'[s].model = server[s].model
  BY DEF Calm, Background, Running
<1>2. pidfile \in Pids \cup {NoPid} /\ (pidfile # NoPid => server[pidfile].st # "free")
  BY DEF TypeOK, Known
<1>3. Recorded => Recorded'
  BY <1>1 DEF Recorded, Still
<1>4. Paired => Paired'
  BY <1>2 DEF Paired, Still, Calm
<1> QED BY <1>1, <1>3, <1>4 DEF Settled, NoneRuns, Kept, Still

LEMMA CalmSituation ==
    ASSUME TypeOK, Known, Calm, Still, NEW p \in Clis, NEW step,
           cli'[p].pid = cli[p].pid, cli'[p].name = cli[p].name, SituationAt(p, step)
    PROVE  SituationAt(p, step)'
<1>1. \A s \in Pids : Background(s)' => Background(s) /\ server'[s].model = server[s].model
  BY DEF Calm, Background, Running
<1>2. OnlyMine(p) => OnlyMine(p)'
  BY <1>1 DEF OnlyMine
<1>3. step \in {"write_pid", "write_state"} => server'[cli'[p].pid].model = cli'[p].name
  BY DEF SituationAt, Calm, Known, TypeOK, Invocations
<1> QED BY <1>1, <1>2, <1>3, CalmKeeps DEF SituationAt, Still

LEMMA ExitCalm ==
    ASSUME TypeOK, NEW p \in Clis, Exit(p)
    PROVE  Calm
<1> SUFFICES ASSUME NEW s \in Pids
             PROVE  /\ Background(s)' => Background(s)
                    /\ server'[s].model = server[s].model
  BY DEF Calm
<1>1. server[s] \in Servers
  BY DEF TypeOK
<1>2. server'[s] = IF server[s].parent # p THEN server[s]
                   ELSE [server[s] EXCEPT !.parent = NoCli,
                             !.st = IF server[s].st = "zombie" THEN "dead" ELSE server[s].st]
  BY DEF Exit, Adopted
<1>3. /\ server'[s].model = server[s].model
      /\ server'[s].by = server[s].by
      /\ server'[s].killed = server[s].killed
      /\ server'[s].st = server[s].st \/ server'[s].st = "dead"
  BY <1>1, <1>2 DEF Servers
<1> QED BY <1>3 DEF Background, Running

\* A process that is on record and alive is what LivePid answers.
LEMMA RecordedIsLive ==
    ASSUME NEW s \in Pids, Recorded, Background(s)
    PROVE  LivePid = s /\ LivePid # NoPid
BY PidsAssumption DEF Recorded, Background, Running, LivePid, ProcessAlive

-----------------------------------------------------------------------------
(* The steps of the one command that is at work.                           *)

\* The command goes on at `step`.
LEMMA ContinueOrderly ==
    ASSUME TypeOK, Known, NEW p \in Clis, NEW step, Continue(p, step),
           Kept, SituationAt(p, step)
    PROVE  Kept' /\ Situation(p)'
<1>1. Calm /\ Still
  BY DEF Continue, Calm, Still, Files, Background, Running
<1>2. cli'[p].pc = step /\ cli'[p].pid = cli[p].pid /\ cli'[p].name = cli[p].name
  BY DEF Continue, Goto, TypeOK, Invocations
<1>3. SituationAt(p, step)'
  BY <1>1, <1>2, CalmSituation
<1> QED BY <1>1, <1>2, <1>3, CalmKeeps DEF Situation, SituationAt

\* The command ends and leaves the records as they are.
LEMMA ExitOrderly ==
    ASSUME TypeOK, Known, NEW p \in Clis, Exit(p), Still, Kept, Settled
    PROVE  Kept' /\ Situation(p)'
<1>1. Kept' /\ Settled'
  BY ExitCalm, CalmKeeps
<1>2. cli'[p].pc = "idle"
  BY DEF Exit, Idle, TypeOK
<1> QED BY <1>1, <1>2 DEF Situation, SituationAt

LEMMA RefuseOrderly ==
    ASSUME TypeOK, Known, NEW p \in Clis, Refuse(p), Kept, Settled
    PROVE  Kept' /\ Situation(p)'
BY ExitOrderly DEF Refuse, Still, Files

LEMMA WorkSituation ==
    ASSUME TypeOK, Known, NEW p \in Clis, Work(p), Kept, Situation(p)
    PROVE  Kept' /\ Situation(p)'
<1> DEFINE Goal == Kept' /\ Situation(p)'
<1> USE ContinueOrderly, RefuseOrderly DEF At
<1>a. NoneRuns /\ Paired => Settled
  BY DEF NoneRuns, Settled, Recorded
<1>b. cli[p] \in Invocations /\ pidfile \in Pids \cup {NoPid}
  BY DEF TypeOK
<1>c. Recorded /\ ~ProcessAlive(pidfile) => NoneRuns
  BY DEF Recorded, NoneRuns, Background, Running, ProcessAlive
<1>d. OnlyMine(p) /\ ~ProcessAlive(cli[p].pid) => NoneRuns
  BY DEF OnlyMine, NoneRuns, Background, Running, ProcessAlive
<1>e. LivePid = NoPid \/ (ProcessAlive(pidfile) /\ pidfile # NoPid)
  BY DEF LivePid
<1>1. CASE RestartCheck(p)
  BY <1>1 DEF RestartCheck, Situation, SituationAt
<1>2. CASE LoadRegistry(p)
  BY <1>2 DEF LoadRegistry, Situation, SituationAt
<1>3. CASE EnsureServerUp(p)
  BY <1>3, <1>e DEF EnsureServerUp, Situation, SituationAt
<1>4. CASE VerifyServes(p)
  BY <1>4 DEF VerifyServes, Situation, SituationAt
<1>5. CASE PreflightLive(p)
  <2>1. Settled
    BY <1>5 DEF PreflightLive, Situation, SituationAt
  <2>2. LivePid = NoPid => NoneRuns
    BY <2>1, RecordedIsLive DEF Settled, NoneRuns
  <2> QED BY <1>5, <2>1, <2>2 DEF PreflightLive, SituationAt, Settled
<1>6. CASE PreflightShard(p)
  BY <1>6, <1>a DEF PreflightShard, Situation, SituationAt
<1>7. CASE PreflightPort(p)
  BY <1>7, <1>a DEF PreflightPort, Situation, SituationAt
<1>8. CASE Spawn(p)
  <2>1. PICK s \in Pids :
          /\ server[s].st = "free"
          /\ server' = [server EXCEPT ![s] = [st |-> "starting", model |-> cli[p].name,
                           by |-> cli[p].cmd, parent |-> p, killed |-> FALSE]]
          /\ cli' = [cli EXCEPT ![p] = [@ EXCEPT !.pid = s,
                        !.pc = IF cli[p].cmd = "foreground" THEN "foreground" ELSE "write_pid"]]
    BY ZenonT(30), <1>8 DEF Spawn
  <2>2. NoneRuns /\ Paired /\ cli[p].name \in weights /\ Still
    BY <1>8 DEF Spawn, Situation, SituationAt, Still, Files
  <2>3. \A t \in Pids : t # s => server'[t] = server[t]
    BY <2>1 DEF TypeOK
  <2>4. server'[s] = [st |-> "starting", model |-> cli[p].name,
                      by |-> cli[p].cmd, parent |-> p, killed |-> FALSE]
    BY <2>1 DEF TypeOK
  <2>5. \A t \in Pids : Background(t)' => t = s /\ cli[p].cmd # "foreground"
    BY <2>2, <2>3, <2>4 DEF Background, Running, NoneRuns
  <2>6. cli'[p].pid = s /\ cli'[p].name = cli[p].name
        /\ cli'[p].pc = IF cli[p].cmd = "foreground" THEN "foreground" ELSE "write_pid"
    BY <2>1, <1>b DEF TypeOK, Invocations
  <2>7. Kept'
    BY <2>2, <2>4, <2>5 DEF Kept, Still
  <2>8. Paired'
    BY <1>b, <2>1, <2>2, <2>3 DEF Paired, Still, Known
  <2>9. CASE cli[p].cmd = "foreground"
    <3>1. Settled'
      BY <2>5, <2>8, <2>9 DEF Settled, Recorded
    <3> QED BY <2>6, <2>7, <2>9, <3>1 DEF Situation, SituationAt
  <2>10. CASE cli[p].cmd # "foreground"
    <3>1. OnlyMine(p)' /\ s # NoPid /\ server'[s].model = cli'[p].name
      BY <2>4, <2>5, <2>6, PidsAssumption DEF OnlyMine
    <3> QED BY <2>6, <2>7, <2>10, <3>1 DEF Situation, SituationAt
  <2> QED BY <2>9, <2>10
<1>9. CASE SpawnFails(p)
  BY <1>9, <1>a DEF SpawnFails, Situation, SituationAt
<1>10. CASE WritePidFile(p)
  <2>1. cli'[p].pc = "write_state" /\ cli'[p].pid = cli[p].pid /\ cli'[p].name = cli[p].name
    BY <1>10, <1>b DEF WritePidFile, Goto, TypeOK, Invocations
  <2>2. server' = server /\ weights' = weights /\ pidfile' = cli[p].pid
    BY <1>10 DEF WritePidFile
  <2>3. OnlyMine(p) /\ cli[p].pid # NoPid /\ server[cli[p].pid].model = cli[p].name
    BY <1>10 DEF WritePidFile, Situation, SituationAt
  <2>4. OnlyMine(p)' /\ Kept'
    BY <2>1, <2>2, <2>3 DEF OnlyMine, Kept, Background, Running
  <2> QED BY <2>1, <2>2, <2>3, <2>4 DEF Situation, SituationAt
<1>11. CASE WriteRunState(p)
  <2>1. OnlyMine(p) /\ pidfile = cli[p].pid /\ server[cli[p].pid].model = cli[p].name
        /\ pidfile # NoPid
    BY <1>11 DEF WriteRunState, Situation, SituationAt
  <2>2. Calm
    BY <1>11, ExitCalm DEF WriteRunState, Calm, Background, Running
  <2>3. \A s \in Pids : Background(s)' => Background(s) /\ server'[s].model = server[s].model
    BY <2>2 DEF Calm, Background, Running
  <2>4. server[pidfile].st # "free" /\ pidfile \in Pids
    BY <1>b, <2>1 DEF Known
  <2>5. pidfile' = pidfile /\ weights' = weights /\ runState' = cli[p].name
    BY <1>11 DEF WriteRunState
  <2>6. Settled' /\ Kept'
    BY <2>1, <2>2, <2>3, <2>4, <2>5 DEF Settled, Recorded, Paired, OnlyMine, Kept, Calm
  <2>7. \/ cli'[p].pc \in {"session", "idle"}
        \/ cli'[p].pc = "measure" /\ cli'[p].pid = cli[p].pid
    BY <1>11, <1>b DEF WriteRunState, Goto, Exit, Idle, TypeOK, Invocations
  <2>8. CASE cli'[p].pc \in {"session", "idle"}
    BY <2>6, <2>8 DEF Situation, SituationAt
  <2>9. CASE cli'[p].pc = "measure" /\ cli'[p].pid = cli[p].pid
    BY <2>1, <2>3, <2>6, <2>9 DEF Situation, SituationAt, OnlyMine
  <2> QED BY <2>7, <2>8, <2>9
<1>12. CASE BenchReuse(p)
  <2>1. Settled
    BY <1>12 DEF BenchReuse, Situation, SituationAt
  <2>2. CASE Refuse(p)
    BY <2>1, <2>2
  <2>3. CASE ~Refuse(p)
    <3>1. cli'[p].pc = "measure_reused" /\ server' = server /\ Still
      BY <1>12, <1>b, <2>3 DEF BenchReuse, Still, Files, TypeOK, Invocations
    <3>2. Calm
      BY <3>1 DEF Calm, Background, Running
    <3> QED BY <2>1, <3>1, <3>2, CalmKeeps DEF Situation, SituationAt
  <2> QED BY <2>2, <2>3
<1>13. CASE MeasureDone(p)
  BY <1>13 DEF MeasureDone, Situation, SituationAt
<1>14. CASE MeasureFails(p)
  BY <1>14 DEF MeasureFails, Situation, SituationAt
<1>15. CASE StopRead(p)
  <2>1. Settled
    BY <1>15 DEF StopRead, Situation, SituationAt
  <2>2. CASE pidfile = NoPid
    BY <1>15, <2>1, <2>2 DEF StopRead
  <2>3. CASE pidfile # NoPid
    <3>1. /\ cli'[p].pid = pidfile /\ server' = server /\ Still
          /\ cli'[p].pc = IF ProcessAlive(pidfile) THEN "term" ELSE "remove_pid"
      BY <1>15, <1>b, <2>3 DEF StopRead, Still, Files, TypeOK, Invocations
    <3>2. Calm
      BY <3>1 DEF Calm, Background, Running
    <3>3. Kept' /\ Settled' /\ (NoneRuns => NoneRuns')
      BY <2>1, <3>1, <3>2, CalmKeeps
    <3>4. OnlyMine(p)'
      BY <3>1, <3>3 DEF OnlyMine, Settled, Recorded, Still
    <3> QED BY <1>c, <2>1, <3>1, <3>3, <3>4 DEF Situation, SituationAt, Settled
  <2> QED BY <2>2, <2>3
<1>16. CASE Terminate(p)
  <2>1. Settled /\ OnlyMine(p)
    BY <1>16 DEF Terminate, Situation, SituationAt
  <2> QED BY <1>16, <1>d, <2>1 DEF Terminate, SituationAt
<1>17. CASE SeesDead(p)
  <2>1. Settled /\ OnlyMine(p) /\ cli[p].pid \in Pids
    BY <1>17, <1>b DEF SeesDead, Situation, SituationAt, Known, HasPid, Invocations
  <2>2. ~Running(cli[p].pid)
    BY <1>17 DEF SeesDead, ChildAlive, ProcessAlive, Running
  <2>3. Calm /\ Still
    BY <1>17, <2>1 DEF SeesDead, Calm, Still, Files, Background, Running, TypeOK, Servers
  <2>4. NoneRuns
    BY <2>1, <2>2 DEF OnlyMine, NoneRuns, Background
  <2>5. cli'[p].pc = "remove_pid"
    BY <1>17, <1>b DEF SeesDead, Goto, TypeOK, Invocations
  <2> QED BY <2>3, <2>4, <2>5, CalmKeeps DEF Situation, SituationAt
<1>18. CASE Escalate(p)
  <2>1. OnlyMine(p) /\ cli[p].pid \in Pids
    BY <1>18, <1>b DEF Escalate, Situation, SituationAt, Known, HasPid, Invocations
  <2>2. \A s \in Pids : server'[s] = IF s = cli[p].pid /\ Running(s)
                                     THEN [server[s] EXCEPT !.killed = TRUE] ELSE server[s]
    BY <1>18, <2>1 DEF Escalate, TypeOK
  <2>3. \A s \in Pids : server[s] \in Servers
    BY DEF TypeOK
  <2>4. NoneRuns'
    BY <2>1, <2>2, <2>3 DEF NoneRuns, OnlyMine, Background, Running, Servers
  <2>5. cli'[p].pc = "remove_pid"
    BY <1>18, <1>b DEF Escalate, Goto, TypeOK, Invocations
  <2> QED BY <2>4, <2>5 DEF Situation, SituationAt, Kept, NoneRuns
<1>19. CASE RemovePidFile(p)
  <2>1. NoneRuns' /\ pidfile' = NoPid
    BY <1>19 DEF RemovePidFile, Situation, SituationAt, NoneRuns, Background, Running
  <2>2. cli'[p].pc = "clear_state"
    BY <1>19, <1>b DEF RemovePidFile, Goto, TypeOK, Invocations
  <2> QED BY <2>1, <2>2 DEF Situation, SituationAt, Kept, NoneRuns
<1>20. CASE ClearRunState(p)
  <2>1. NoneRuns /\ pidfile = NoPid /\ pidfile' = pidfile
    BY <1>20 DEF ClearRunState, Situation, SituationAt
  <2>2. Calm
    BY <1>20, ExitCalm DEF ClearRunState, Calm, Background, Running
  <2>3. NoneRuns'
    BY <2>1, <2>2 DEF Calm, NoneRuns
  <2>4. Kept' /\ Settled'
    BY <2>1, <2>3 DEF Kept, NoneRuns, Settled, Recorded, Paired
  <2>5. cli'[p].pc \in {"load", "idle"}
    BY <1>20, <1>b DEF ClearRunState, Exit, Idle, TypeOK, Invocations
  <2> QED BY <2>4, <2>5 DEF Situation, SituationAt
<1>21. CASE RmCheck(p)
  <2>1. Settled
    BY <1>21 DEF RmCheck, Situation, SituationAt
  <2>2. ~(LivePid # NoPid /\ runState = cli[p].name) =>
            \A s \in Pids : Background(s) => server[s].model # cli[p].name
    BY <2>1, RecordedIsLive DEF Settled, Recorded
  <2> QED BY <1>21, <2>1, <2>2 DEF RmCheck, SituationAt
<1>22. CASE RmDelete(p)
  <2>1. Settled /\ \A s \in Pids : Background(s) => server[s].model # cli[p].name
    BY <1>22 DEF RmDelete, Situation, SituationAt
  <2>2. CASE Refuse(p)
    BY <2>1, <2>2
  <2>3. CASE ~Refuse(p)
    <3>1. /\ server' = server /\ pidfile' = pidfile /\ runState' = runState
          /\ weights' = weights \ {cli[p].name} /\ cli'[p].pc = "rm_save"
      BY <1>22, <1>b, <2>3 DEF RmDelete, Goto, TypeOK, Invocations
    <3>2. Kept' /\ Settled'
      BY <2>1, <3>1 DEF Kept, Settled, Recorded, Paired, Background, Running
    <3> QED BY <3>1, <3>2 DEF Situation, SituationAt
  <2> QED BY <2>2, <2>3
<1>23. CASE RmSave(p)
  <2>1. Settled /\ Exit(p) /\ Still
    BY <1>23 DEF RmSave, Situation, SituationAt, Still
  <2> QED BY <2>1, ExitOrderly
<1> QED
  BY <1>1, <1>2, <1>3, <1>4, <1>5, <1>6, <1>7, <1>8, <1>9, <1>10, <1>11, <1>12,
     <1>13, <1>14, <1>15, <1>16, <1>17, <1>18, <1>19, <1>20, <1>21, <1>22, <1>23
     DEF Work

-----------------------------------------------------------------------------
(* The invariant of orderly use, and what follows from it.                 *)

\* Nobody at work takes a step.
LEMMA QuietOrderly ==
    ASSUME TypeOK, Known, OrderlyInv, orderly' => orderly, Calm, Still,
           \A q \in Clis : cli'[q] = cli[q] \/ (~Busy(q) /\ ~Busy(q)')
    PROVE  OrderlyInv'
<1> SUFFICES ASSUME orderly, orderly' PROVE OrderlyInv'
  BY DEF OrderlyInv
<1>1. \A q \in Clis : Busy(q)' => Busy(q) /\ cli'[q] = cli[q]
  BY DEF Busy
<1>2. \A q \in Clis : Busy(q) => Busy(q)'
  BY DEF Busy
<1>3. Sequential'
  BY <1>1 DEF OrderlyInv, Sequential
<1>4. Kept' /\ (Settled => Settled')
  BY CalmKeeps DEF OrderlyInv
<1>5. ASSUME NEW q \in Clis, Busy(q)' PROVE Situation(q)'
  <2>1. cli'[q] = cli[q] /\ Situation(q)
    BY <1>1, <1>5 DEF OrderlyInv
  <2>2. SituationAt(q, cli[q].pc)'
    BY <2>1, CalmSituation DEF Situation
  <2> QED BY <2>1, <2>2 DEF Situation, SituationAt
<1> QED BY <1>2, <1>3, <1>4, <1>5 DEF OrderlyInv

Beginnings == {"load", "restart", "stop_read", "ensure", "rm_check", "preflight", "reuse"}

LEMMA BeginOrderly ==
    ASSUME TypeOK, Known, OrderlyInv, NEW p \in Clis, NEW c, NEW m,
           NEW step \in Beginnings, NEW snap, Begin(p, c, m, step, snap)
    PROVE  OrderlyInv'
<1> SUFFICES ASSUME orderly' PROVE OrderlyInv'
  BY DEF OrderlyInv
<1>1. orderly /\ \A q \in Clis : ~Busy(q)
  BY DEF Begin, TypeOK
<1>2. Calm /\ Still
  BY DEF Begin, Calm, Still, Background, Running
<1>3. Kept' /\ Settled'
  BY <1>1, <1>2, CalmKeeps DEF OrderlyInv
<1>4. \A q \in Clis : q # p => cli'[q] = cli[q]
  BY DEF Begin, TypeOK
<1>5. cli'[p].pc = step
  BY DEF Begin, TypeOK
<1>6. \A q \in Clis : Busy(q)' => q = p
  BY <1>1, <1>4 DEF Busy
<1>7. Situation(p)'
  BY <1>3, <1>5 DEF Situation, SituationAt, Beginnings, Settled
<1> QED BY <1>3, <1>6, <1>7 DEF OrderlyInv, Sequential

LEMMA WorkOrderly ==
    ASSUME TypeOK, Known, OrderlyInv, NEW p \in Clis, Work(p)
    PROVE  OrderlyInv'
<1> SUFFICES ASSUME orderly' PROVE OrderlyInv'
  BY DEF OrderlyInv
<1> USE DEF At
<1>1. orderly
  BY DEF Work, RestartCheck, LoadRegistry, EnsureServerUp, VerifyServes, PreflightLive,
     PreflightShard, PreflightPort, Spawn, SpawnFails, WritePidFile, WriteRunState,
     BenchReuse, MeasureDone, MeasureFails, StopRead, Terminate, SeesDead, Escalate,
     RemovePidFile, ClearRunState, RmCheck, RmDelete, RmSave, Continue, Refuse, History
<1>2. Busy(p)
  BY DEF Work, RestartCheck, LoadRegistry, EnsureServerUp, VerifyServes, PreflightLive,
     PreflightShard, PreflightPort, Spawn, SpawnFails, WritePidFile, WriteRunState,
     BenchReuse, MeasureDone, MeasureFails, StopRead, Terminate, SeesDead, Escalate,
     RemovePidFile, ClearRunState, RmCheck, RmDelete, RmSave, Busy
<1>3. \A q \in Clis : q # p => ~Busy(q)
  BY <1>1, <1>2 DEF OrderlyInv, Sequential
<1>4. \A q \in Clis : q # p => cli'[q] = cli[q]
  BY DEF Work, RestartCheck, LoadRegistry, EnsureServerUp, VerifyServes, PreflightLive,
     PreflightShard, PreflightPort, Spawn, SpawnFails, WritePidFile, WriteRunState,
     BenchReuse, MeasureDone, MeasureFails, StopRead, Terminate, SeesDead, Escalate,
     RemovePidFile, ClearRunState, RmCheck, RmDelete, RmSave, Continue, Refuse, Goto, Exit, TypeOK
<1>5. Kept' /\ Situation(p)'
  BY <1>1, <1>2, WorkSituation DEF OrderlyInv
<1>6. \A q \in Clis : Busy(q)' => q = p
  BY <1>3, <1>4 DEF Busy
<1>7. ~Busy(p)' => Settled'
  BY <1>5 DEF Busy, Situation, SituationAt
<1> QED BY <1>5, <1>6, <1>7 DEF OrderlyInv, Sequential

LEMMA NextOrderly == TypeOK /\ Known /\ OrderlyInv /\ [Next]_vars => OrderlyInv'
<1> SUFFICES ASSUME TypeOK, Known, OrderlyInv, [Next]_vars PROVE OrderlyInv'
  OBVIOUS
<1>1. ASSUME NEW p \in Clis, NEW m \in Models,
             Run(p, m) \/ RunForeground(p, m) \/ Restart(p, m) \/ Launch(p, m)
                 \/ Bench(p, m) \/ Rm(p, m)
      PROVE  OrderlyInv'
  BY <1>1, BeginOrderly
     DEF Run, RunForeground, Restart, Launch, Bench, Rm, Beginnings
<1>2. ASSUME NEW p \in Clis, Stop(p) PROVE OrderlyInv'
  BY <1>2, BeginOrderly DEF Stop, Beginnings
<1>3. ASSUME NEW p \in Clis, Work(p) PROVE OrderlyInv'
  BY <1>3, WorkOrderly
<1>4. ASSUME NEW p \in Clis, Exit(p), Still, ~Busy(p), orderly' => orderly
      PROVE  OrderlyInv'
  <2>1. \A q \in Clis : cli'[q] = IF q = p THEN Idle ELSE cli[q]
    BY <1>4 DEF Exit, TypeOK
  <2>2. ~Busy(p)'
    BY <2>1 DEF Busy, Idle
  <2> QED BY <1>4, <2>1, <2>2, ExitCalm, QuietOrderly
<1>5. ASSUME NEW p \in Clis, SessionEnds(p) \/ ForegroundReturns(p) PROVE OrderlyInv'
  BY <1>4, <1>5 DEF SessionEnds, ForegroundReturns, Refuse, Still, Files, History, At, Busy
<1>6. ASSUME NEW p \in Clis, Crash(p) PROVE OrderlyInv'
  <2>1. CASE Busy(p)
    BY <1>6, <2>1 DEF Crash, OrderlyInv
  <2>2. CASE ~Busy(p)
    BY <1>4, <1>6, <2>2 DEF Crash, Still, Files
  <2> QED BY <2>1, <2>2
<1>7. ASSUME NEW s \in Pids, ServerExit(s) \/ Bind(s) PROVE OrderlyInv'
  <2>1. \A t \in Pids : server[t] \in Servers
    BY DEF TypeOK
  <2>2. Calm
    BY <1>7, <2>1 DEF ServerExit, Bind, Calm, Background, Running, TypeOK, Servers
  <2> QED BY <1>7, <2>2, QuietOrderly DEF ServerExit, Bind, Still, Files, History
<1>8. CASE UNCHANGED vars
  <2>1. Calm
    BY <1>8 DEF vars, Calm, Background, Running
  <2> QED BY <1>8, <2>1, QuietOrderly DEF vars, Still
<1> QED BY <1>1, <1>2, <1>3, <1>5, <1>6, <1>7, <1>8 DEF Next

LEMMA InitOrderly == Init => OrderlyInv
BY DEF Init, OrderlyInv, Sequential, Busy, Idle, Free, Kept, Settled, Recorded, Paired,
   Background, Running

\* The whole of the invariant, from the first state on.
LEMMA Orderly == Spec => [](TypeOK /\ Known /\ OrderlyInv)
BY InitType, InitKnown, InitOrderly, NextType, NextKnown, NextOrderly, PTL DEF Spec

\* Used one at a time, commands leave every background server on record, so
\* that `stop` finds it.
THEOREM ServerManagedAlways == Spec => []ServerManaged
<1>1. OrderlyInv => ServerManaged
  BY DEF OrderlyInv, ServerManaged, Settled, Recorded
<1> QED BY <1>1, Orderly, PTL

\* Used one at a time, commands never start a second background server.
THEOREM OneServerAlways == Spec => []OneServer
<1>1. ASSUME TypeOK, OrderlyInv, orderly
      PROVE  \A s, t \in Pids : Background(s) /\ Background(t) => s = t
  <2>1. CASE \A p \in Clis : ~Busy(p)
    BY <1>1, <2>1 DEF OrderlyInv, Settled, Recorded
  <2>2. ASSUME NEW p \in Clis, Busy(p)
        PROVE  \A s, t \in Pids : Background(s) /\ Background(t) => s = t
    <3>1. Situation(p)
      BY <1>1, <2>2 DEF OrderlyInv
    <3>2. cli[p].pc \in Steps
      BY <1>1 DEF TypeOK, Invocations
    <3>3. Settled \/ NoneRuns \/ OnlyMine(p)
      BY <2>2, <3>1, <3>2 DEF Situation, SituationAt, Busy, Steps
    <3> QED BY <3>3 DEF OnlyMine, NoneRuns, Settled, Recorded
  <2> QED BY <2>1, <2>2
<1>2. TypeOK /\ OrderlyInv => OneServer
  BY <1>1 DEF OneServer
<1> QED BY <1>2, Orderly, PTL

\* Used one at a time, commands never take a background server's files away.
THEOREM ServedModelKeptAlways == Spec => []ServedModelKept
<1>1. OrderlyInv => ServedModelKept
  BY DEF OrderlyInv, ServedModelKept, Kept
<1> QED BY <1>1, Orderly, PTL

\* Used one at a time, a launch adopts only a server of its own model.
THEOREM LaunchAdoptsItsModelAlways == Spec => LaunchAdoptsItsModel
<1>1. ASSUME TypeOK, OrderlyInv, [Next]_vars, NEW p \in Clis, orderly, At(p, "verify"),
             cli'[p].pc = "session"
      PROVE  server[pidfile].model = cli[p].name
  <2>1. Busy(p)
    BY <1>1 DEF At, Busy
  <2>2. Paired /\ pidfile # NoPid
    BY <1>1, <2>1 DEF OrderlyInv, Situation, SituationAt, At, Settled
  <2>3. runState = cli[p].name
    <3> USE DEF At
    <3>1. ASSUME NEW q \in Clis, Exit(q) PROVE FALSE
      BY <1>1, <3>1 DEF Exit, Idle, TypeOK
    <3>2. ASSUME NEW q \in Clis, q # p, NEW step, Goto(q, step) PROVE FALSE
      BY <1>1, <3>2 DEF Goto, TypeOK
    <3>3. ASSUME NEW q \in Clis, NEW c, NEW m, NEW step, NEW snap, Begin(q, c, m, step, snap)
          PROVE  FALSE
      BY <1>1, <3>3 DEF Begin, TypeOK
    <3>4. ASSUME NEW q \in Clis, Work(q) PROVE runState = cli[p].name
      <4>1. CASE q = p
        BY <1>1, <3>1, <3>4, <4>1 DEF Work, RestartCheck, LoadRegistry, EnsureServerUp,
           VerifyServes, PreflightLive, PreflightShard, PreflightPort, Spawn, SpawnFails,
           WritePidFile, WriteRunState, BenchReuse, MeasureDone, MeasureFails, StopRead,
           Terminate, SeesDead, Escalate, RemovePidFile, ClearRunState, RmCheck, RmDelete,
           RmSave, Continue, Refuse, Goto, TypeOK
      <4>2. CASE q # p
        BY <1>1, <3>1, <3>2, <3>4, <4>2 DEF Work, RestartCheck, LoadRegistry, EnsureServerUp,
           VerifyServes, PreflightLive, PreflightShard, PreflightPort, Spawn, SpawnFails,
           WritePidFile, WriteRunState, BenchReuse, MeasureDone, MeasureFails, StopRead,
           Terminate, SeesDead, Escalate, RemovePidFile, ClearRunState, RmCheck, RmDelete,
           RmSave, Continue, Refuse, TypeOK
      <4> QED BY <4>1, <4>2
    <3>5. ASSUME NEW q \in Clis, SessionEnds(q) \/ ForegroundReturns(q) \/ Crash(q) PROVE FALSE
      BY <3>1, <3>5 DEF SessionEnds, ForegroundReturns, Crash, Refuse
    <3>6. ASSUME NEW s \in Pids, ServerExit(s) \/ Bind(s) PROVE FALSE
      BY <1>1, <3>6 DEF ServerExit, Bind
    <3>7. ASSUME NEW q \in Clis, NEW m \in Models,
                 Run(q, m) \/ RunForeground(q, m) \/ Restart(q, m) \/ Launch(q, m)
                    \/ Bench(q, m) \/ Rm(q, m)
          PROVE  FALSE
      BY <3>3, <3>7 DEF Run, RunForeground, Restart, Launch, Bench, Rm
    <3>8. ASSUME NEW q \in Clis, Stop(q) PROVE FALSE
      BY <3>3, <3>8 DEF Stop
    <3>9. CASE UNCHANGED vars
      BY <1>1, <3>9 DEF vars
    <3> QED BY <1>1, <3>4, <3>5, <3>6, <3>7, <3>8, <3>9 DEF Next
  <2> QED BY <2>2, <2>3 DEF Paired
<1>2. TypeOK /\ OrderlyInv /\ [Next]_vars =>
        (\A p \in Clis : orderly /\ At(p, "verify") /\ cli'[p].pc = "session" =>
             server[pidfile].model = cli[p].name)
  BY <1>1
<1>3. TypeOK /\ Known /\ OrderlyInv /\ [Next]_vars =>
        [\A p \in Clis : orderly /\ At(p, "verify") /\ cli'[p].pc = "session" =>
             server[pidfile].model = cli[p].name]_vars
  BY <1>2
<1> QED BY <1>3, Orderly, PTL DEF Spec, LaunchAdoptsItsModel

\* As long as the commands are used one at a time, with none of them killed: a
\* server that runs in the background is the one on record, there is one at most,
\* and rm never takes its weights away (OrderlyUse).
THEOREM OrderlyUseAlways == Spec => []OrderlyUse
BY ServerManagedAlways, OneServerAlways, ServedModelKeptAlways, PTL DEF OrderlyUse

=============================================================================
