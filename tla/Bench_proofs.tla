---------------------------- MODULE Bench_proofs ----------------------------
(***************************************************************************)
(* What holds of the runs a bench records, for any models, suites, tasks,  *)
(* fills and sequences of commands: proofs about Bench.                    *)
(***************************************************************************)
EXTENDS Bench, SequenceTheorems, TLAPS

\* One terminal, as long as the code takes no lock (README, section 4).
OneTerminal == \A p, q \in Procs : p = q

-----------------------------------------------------------------------------
(* Where a command is.                                                     *)

\* Before anything is measured for the candidate at the head of todo.
Preparing == {"clear", "add", "exec", "resolve", "confirm", "next", "ready", "head",
              "create", "stamp", "adopt", "adopted", "resume"}
Stamping == {"create", "stamp", "adopt", "adopted", "resume"}
Building == {"splice", "check", "revert"}

\* A row in hand is a crossing's, or a verdict's.
Verdict(p) == pc[p] = "append" /\ cmd[p].row.key[1] = "judge"
Crossed(p) == pc[p] = "append" /\ cmd[p].row.key[1] # "judge"
Crossing(p) == pc[p] = "tasks" \/ pc[p] \in Building \/ Crossed(p)

\* What a command holds where it is, whatever others do.
Holds(p) ==
    /\ pc[p] \in {"ready", "head"} \cup Stamping \/ Crossing(p) => cmd[p].todo # <<>>
    /\ pc[p] \in Stamping \/ Crossing(p) => cmd[p].stamp \in Stamps
    /\ pc[p] \in {"stamp", "append", "judging"} \/ Crossing(p) => cmd[p].run \in RunIds
    /\ pc[p] \in {"adopt", "adopted", "resume"} => cmd[p].resume \in RunIds
    /\ pc[p] \in Building \cup {"append"} => cmd[p].row \in Rows
    /\ pc[p] \in Building \/ Crossed(p) => Owes(p) /\ cmd[p].row.key = KeyAt(p)
    /\ pc[p] \in Building => KeyAt(p)[1] = "codebase"
    /\ Verdict(p) => cmd[p].at \in Owed(cmd[p].log) /\ cmd[p].row.key = JudgeKey(cmd[p].log[cmd[p].at])

Typed == TypeOK /\ \A p \in Procs : Holds(p)

\* What a command believes of its servers, one of this run's did answer.
Latched(p) ==
    /\ pc[p] \in Preparing => cmd[p].latch = {}
    /\ Crossing(p) => cmd[p].latch \subseteq refusals[cmd[p].run]
    /\ pc[p] \in Building \cup {"append"} =>
          (cmd[p].row.out = "refused" => cmd[p].row.key[1] \in refusals[cmd[p].run])

\* No two rows of one key.
Distinct(rows) == \A i, j \in DOMAIN rows : rows[i].key = rows[j].key => i = j

\* What a run holds is what the command knows to be done or has crossed since.
Keyed(p) ==
    LET c == cmd[p]
        crossed == {Plan(c.cfg)[j] : j \in 1..c.at - 1}
        judged == {JudgeKey(c.log[j]) : j \in {i \in DOMAIN c.log : i < c.at /\ Eligible(c.log[i])}}
    IN  /\ pc[p] \in Preparing => c.done = {} /\ c.at = 1
        /\ Crossing(p) \/ pc[p] = "judging" \/ Verdict(p) => runs[c.run].head # NoDir
        /\ pc[p] = "stamp" => runs[c.run].rows = <<>>
        /\ Crossing(p) => KeysOf(runs[c.run].rows) \subseteq c.done \cup crossed
        /\ pc[p] = "judging" \/ Verdict(p) =>
              /\ Distinct(c.log)
              /\ KeysOf(runs[c.run].rows) \subseteq KeysOf(c.log) \cup judged

NothingUnstamped == \A r \in RunIds : runs[r].head = NoDir => runs[r].rows = <<>>

\* The checkout is HEAD but for the fill that is being built.
OneFill(p) ==
    /\ pc[p] = "exec" => tree.edits = {}
    /\ pc[p] \notin {"idle", "clear", "add", "exec", "check", "revert", "finish"} =>
          (cmd[p].exec = "ready" => tree.edits = {})
    /\ pc[p] \in Building => cmd[p].exec = "ready"
    /\ pc[p] \in {"check", "revert"} => tree.edits = {<<FileAt(p), FillAt(p)>>}

-----------------------------------------------------------------------------
(* Facts about the constants.                                              *)

LEMMA ModelsOf ==
    ASSUME NEW cfg \in Cfgs
    PROVE  cfg.models \in Seq(Models) /\ cfg.models # <<>> /\ cfg.judge \in Models
<1>1. Range(cfg.models) \subseteq Models /\ cfg.judge \in Models
  BY DEF Models
<1> QED BY <1>1, SessionsAssumption, SeqMonotonic

LEMMA PlanOf ==
    ASSUME NEW cfg \in Cfgs
    PROVE  /\ Len(Plan(cfg)) \in Nat
           /\ \A i \in 1..Len(Plan(cfg)) : Plan(cfg)[i] \in PlanKeys
           /\ \A i, j \in 1..Len(Plan(cfg)) : Plan(cfg)[i] = Plan(cfg)[j] => i = j
<1>1. Plan(cfg) \in Seq(Range(Plan(cfg))) /\ Range(Plan(cfg)) \subseteq PlanKeys
  BY PlanAssumption DEF PlanKeys
<1>2. DOMAIN Plan(cfg) = 1..Len(Plan(cfg)) /\ Len(Plan(cfg)) \in Nat
  BY <1>1
<1>3. \A i \in 1..Len(Plan(cfg)) : Plan(cfg)[i] \in PlanKeys
  BY <1>1, <1>2
<1> QED BY <1>2, <1>3, PlanAssumption

LEMMA PlanKey ==
    ASSUME NEW key \in PlanKeys
    PROVE  key[1] # "judge" /\ (key[1] = "codebase" => key = Key("codebase", key[2], Buffered))
BY PlanAssumption DEF PlanKeys

LEMMA CodeKey ==
    ASSUME NEW key \in Keys, key[1] = "codebase"
    PROVE  /\ key \in CodeKeys /\ key = Key("codebase", key[2], Buffered)
           /\ Key("judge", key[2], Buffered) \in Keys
<1>1. key \in PlanKeys
  BY DEF Keys, Key
<1> QED BY <1>1, PlanKey DEF Keys, CodeKeys

LEMMA KeyAtPlan ==
    ASSUME NEW p \in Procs, cmd[p] \in Commands, Owes(p)
    PROVE  KeyAt(p) \in PlanKeys /\ KeyAt(p) \in Keys
<1>1. cmd[p].cfg \in Cfgs /\ cmd[p].at \in Nat \ {0}
  BY DEF Commands
<1>2. cmd[p].at \in 1..Len(Plan(cmd[p].cfg))
  BY <1>1, PlanOf DEF Owes
<1> QED BY <1>1, <1>2, PlanOf DEF KeyAt, Keys

-----------------------------------------------------------------------------
(* Types, and what a command holds where it is.                            *)

\* Everything but what the commands are doing.
WorldTyped ==
    /\ build \in Nat /\ typed \in Nat
    /\ server \in [model: Models, engine: Nat, by: Nat] \cup {NoServer}
    /\ runs \in [RunIds -> OnDisk]
    /\ tree \in [there: BOOLEAN, edits: SUBSET Edits]
    /\ session \in [Procs -> Seq(Cfgs)]
    /\ refusals \in [RunIds -> SUBSET Refusables]

\* A step of p touches what p holds and no other command.
LEMMA Moves ==
    ASSUME Typed, NEW p \in Procs, NEW where \in Places, NEW STATE held, pc' = [pc EXCEPT ![p] = where],
           cmd' = [cmd EXCEPT ![p] = held]
    PROVE  /\ pc' \in [Procs -> Places]
           /\ pc'[p] = where /\ cmd'[p] = held
           /\ \A q \in Procs : q # p => pc'[q] = pc[q] /\ cmd'[q] = cmd[q]
           /\ held \in Commands \cup {NoCmd} => cmd' \in [Procs -> Commands \cup {NoCmd}]
BY DEF Typed, TypeOK

LEMMA HoldsKept ==
    ASSUME NEW q \in Procs, Holds(q), pc'[q] = pc[q], cmd'[q] = cmd[q]
    PROVE  Holds(q)'
BY DEF Holds, Crossing, Crossed, Verdict, Owes, KeyAt, Owed, Eligible, JudgeKey, IsDone, KeysOf

LEMMA TypedStep ==
    ASSUME Typed, NEW p \in Procs, NEW where \in Places, NEW STATE held, held \in Commands \cup {NoCmd},
           pc' = [pc EXCEPT ![p] = where], cmd' = [cmd EXCEPT ![p] = held],
           where # "idle" => held \in Commands, WorldTyped', Holds(p)'
    PROVE  Typed'
<1>1. pc' \in [Procs -> Places] /\ cmd' \in [Procs -> Commands \cup {NoCmd}]
  BY Moves
<1>2. ASSUME NEW q \in Procs
      PROVE  (pc[q] # "idle" => cmd[q] \in Commands)' /\ Holds(q)'
  <2>1. CASE q = p
    BY <2>1, Moves
  <2>2. CASE q # p
    <3>1. pc'[q] = pc[q] /\ cmd'[q] = cmd[q]
      BY <2>2, Moves
    <3> QED BY <3>1, HoldsKept DEF Typed, TypeOK
  <2> QED BY <2>1, <2>2
<1> QED BY <1>1, <1>2 DEF Typed, TypeOK, WorldTyped

LEMMA WorldKept ==
    ASSUME Typed, UNCHANGED <<build, server, runs, tree, session, typed, refusals>>
    PROVE  WorldTyped'
BY DEF Typed, TypeOK, WorldTyped

LEMMA TypedLeaves ==
    ASSUME Typed, NEW p \in Procs, pc[p] # "idle", Leaves(p), WorldTyped'
    PROVE  Typed'
<1> DEFINE held == [cmd[p] EXCEPT !.fate = "failed"]
<1>0. cmd[p] \in Commands
  BY DEF Typed, TypeOK
<1>1. held \in Commands
  BY <1>0 DEF Commands
<1>2. pc' = [pc EXCEPT ![p] = "finish"] /\ cmd' = [cmd EXCEPT ![p] = held]
  BY DEF Leaves, Goes
<1>3. "finish" \in Places /\ pc'[p] = "finish"
  BY <1>2 DEF Places, Typed, TypeOK
<1>4. Holds(p)'
  BY <1>3 DEF Holds, Stamping, Crossing, Building, Crossed, Verdict
<1> QED BY <1>1, <1>2, <1>3, <1>4, TypedStep

\* What a command can rely on when it takes a step.
LEMMA Own ==
    ASSUME Typed, NEW p \in Procs, pc[p] # "idle"
    PROVE  cmd[p] \in Commands /\ Holds(p) /\ cmd[p].cfg \in Cfgs
<1>1. cmd[p] \in Commands
  BY DEF Typed, TypeOK
<1> QED BY <1>1 DEF Typed, Commands

\* Where nothing is asked of what a command holds.
Free == {"idle", "clear", "add", "exec", "resolve", "confirm", "next", "judge", "judge ready",
         "judge run", "judge down", "finish"}

LEMMA FreeHolds ==
    ASSUME NEW p \in Procs, pc[p] \in Free
    PROVE  Holds(p)
BY DEF Free, Holds, Stamping, Crossing, Building, Crossed, Verdict

LEMMA TypedFree ==
    ASSUME Typed, NEW p \in Procs, NEW where \in Free, NEW STATE held, held \in Commands,
           pc' = [pc EXCEPT ![p] = where], cmd' = [cmd EXCEPT ![p] = held], WorldTyped'
    PROVE  Typed'
<1>1. where \in Places
  BY DEF Free, Places
<1>2. pc'[p] = where
  BY <1>1, Moves
<1>3. Holds(p)'
  BY <1>2, FreeHolds DEF Free, Holds, Stamping, Crossing, Building, Crossed, Verdict
<1> QED BY <1>1, <1>3, TypedStep

LEMMA TypedType ==
    ASSUME Typed, NEW p \in Procs, Type(p)
    PROVE  Typed'
<1> DEFINE cfg == Head(session[p])
           next == IF cfg.codebase THEN "clear" ELSE "resolve"
<1>1. session[p] \in Seq(Cfgs) /\ session[p] # <<>> /\ typed \in Nat
  BY DEF Type, Typed, TypeOK
<1>2. cfg \in Cfgs /\ Tail(session[p]) \in Seq(Cfgs)
  BY <1>1
<1>3. PICK resume \in RunIds \cup {NoRunId} :
        /\ cmd' = [cmd EXCEPT ![p] = Command(cfg, resume, typed + 1)]
        /\ pc' = [pc EXCEPT ![p] = next]
  <2>1. ASSUME NEW resume \in IF ~cfg.resume THEN {NoRunId}
                              ELSE IF {r \in RunIds : runs[r].head # NoDir} = {} THEN RunIds
                              ELSE {r \in RunIds : runs[r].head # NoDir}
        PROVE  resume \in RunIds \cup {NoRunId}
    OBVIOUS
  <2> QED BY <2>1 DEF Type
<1>4. Command(cfg, resume, typed + 1) \in Commands
  <2>1. cfg.models \in Seq(Models)
    BY <1>2, ModelsOf
  <2>2. NoRun.head \in Stamps \cup {NoDir}
    BY DEF NoRun
  <2>3. typed + 1 \in Nat
    BY <1>1
  <2>4. <<>> \in Seq(RunIds) /\ <<>> \in Seq(Rows)
    OBVIOUS
  <2> HIDE DEF cfg
  <2> QED BY <1>2, <2>1, <2>2, <2>3, <2>4 DEF Command, Commands, Execs
<1>5. WorldTyped'
  BY <1>1, <1>2 DEF Type, Typed, TypeOK, WorldTyped
<1>6. next \in Free
  BY DEF Free
<1> HIDE DEF cfg, next
<1> QED BY <1>3, <1>4, <1>5, <1>6, TypedFree

LEMMA TreesTyped ==
    /\ Added(tree) \in [there: BOOLEAN, edits: SUBSET Edits]
    /\ Removed(tree) \in [there: BOOLEAN, edits: SUBSET Edits]
    /\ Cleared(tree) \in [there: BOOLEAN, edits: SUBSET Edits]
BY DEF Added, Removed, Cleared, NoTree

LEMMA TreeMoves ==
    ASSUME Typed, tree' \in [there: BOOLEAN, edits: SUBSET Edits],
           UNCHANGED <<build, server, runs, session, typed, refusals>>
    PROVE  WorldTyped'
BY DEF Typed, TypeOK, WorldTyped

LEMMA TypedClear ==
    ASSUME Typed, NEW p \in Procs, ClearTree(p)
    PROVE  Typed'
<1>1. cmd[p] \in Commands
  BY Own DEF ClearTree
<1>2. WorldTyped'
  BY DEF ClearTree, Cleared, NoTree, Typed, TypeOK, WorldTyped
<1>3. "add" \in Free
  BY DEF Free
<1> QED BY <1>1, <1>2, <1>3, TypedFree DEF ClearTree, Goes

LEMMA TypedAdd ==
    ASSUME Typed, NEW p \in Procs, AddTree(p)
    PROVE  Typed'
<1>1. cmd[p] \in Commands
  BY Own DEF AddTree
<1>2. WorldTyped'
  <2>0. tree' = tree \/ tree' = Added(tree)
    BY DEF AddTree
  <2>1. tree \in [there: BOOLEAN, edits: SUBSET Edits]
    BY DEF Typed, TypeOK
  <2>2. tree' \in [there: BOOLEAN, edits: SUBSET Edits]
    BY <2>1, <2>0, TreesTyped
  <2> QED BY <2>2, TreeMoves DEF AddTree
<1>3. CASE CanAdd(tree)
  <2>1. "exec" \in Free
    BY DEF Free
  <2>2. [cmd[p] EXCEPT !.tree = TRUE] \in Commands
    BY <1>1 DEF Commands
  <2> QED BY <1>2, <1>3, <2>1, <2>2, TypedFree DEF AddTree, Goes
<1>4. CASE ~CanAdd(tree)
  BY <1>2, <1>4, TypedLeaves DEF AddTree
<1> QED BY <1>3, <1>4

LEMMA TypedExec ==
    ASSUME Typed, NEW p \in Procs, ExecState(p)
    PROVE  Typed'
<1>1. cmd[p] \in Commands
  BY Own DEF ExecState
<1>2. WorldTyped'
  <2>0. tree' = tree \/ tree' = Removed(tree)
    BY DEF ExecState
  <2>1. tree \in [there: BOOLEAN, edits: SUBSET Edits]
    BY DEF Typed, TypeOK
  <2>2. tree' \in [there: BOOLEAN, edits: SUBSET Edits]
    BY <2>1, <2>0, TreesTyped
  <2> QED BY <2>2, TreeMoves DEF ExecState
<1>3. "resolve" \in Free
  BY DEF Free
<1>4. /\ [cmd[p] EXCEPT !.exec = "ready"] \in Commands
      /\ [cmd[p] EXCEPT !.exec = "unavailable", !.tree = FALSE] \in Commands
      /\ [cmd[p] EXCEPT !.tree = FALSE] \in Commands
  <2>1. [cmd[p] EXCEPT !.exec = "ready"] \in Commands
    BY <1>1 DEF Commands, Execs
  <2>2. [cmd[p] EXCEPT !.exec = "unavailable", !.tree = FALSE] \in Commands
    BY <1>1 DEF Commands, Execs
  <2>3. [cmd[p] EXCEPT !.tree = FALSE] \in Commands
    BY <1>1 DEF Commands
  <2> QED BY <2>1, <2>2, <2>3
<1>5. CASE Goes(p, "resolve", [cmd[p] EXCEPT !.exec = "ready"])
  BY <1>2, <1>3, <1>4, <1>5, TypedFree DEF Goes
<1>6. CASE Goes(p, "resolve", [cmd[p] EXCEPT !.exec = "unavailable", !.tree = FALSE])
  BY <1>2, <1>3, <1>4, <1>6, TypedFree DEF Goes
<1>7. CASE Goes(p, "resolve", [cmd[p] EXCEPT !.tree = FALSE])
  BY <1>2, <1>3, <1>4, <1>7, TypedFree DEF Goes
<1>8. CASE Leaves(p)
  BY <1>2, <1>8, TypedLeaves DEF ExecState
<1> QED BY <1>5, <1>6, <1>7, <1>8 DEF ExecState

LEMMA TypedResolve ==
    ASSUME Typed, NEW p \in Procs, Resolve(p)
    PROVE  Typed'
<1>1. cmd[p] \in Commands /\ pc[p] # "idle"
  BY Own DEF Resolve
<1>2. WorldTyped'
  BY WorldKept DEF Resolve
<1> DEFINE action == IF Uses(cmd[p].cfg) THEN "use" ELSE "launch"
<1>3. "confirm" \in Free
  BY DEF Free
<1>4. [cmd[p] EXCEPT !.action = action] \in Commands
  BY <1>1 DEF Commands
<1>5. CASE Goes(p, "confirm", [cmd[p] EXCEPT !.action = action])
  BY <1>2, <1>3, <1>4, <1>5, TypedFree DEF Goes
<1>6. CASE Leaves(p)
  BY <1>1, <1>2, <1>6, TypedLeaves
<1> QED BY <1>5, <1>6 DEF Resolve

LEMMA TypedConfirm ==
    ASSUME Typed, NEW p \in Procs, Confirm(p)
    PROVE  Typed'
<1>1. cmd[p] \in Commands /\ pc[p] # "idle"
  BY Own DEF Confirm
<1>2. WorldTyped'
  BY WorldKept DEF Confirm
<1>3. "finish" \in Free /\ "next" \in Free
  BY DEF Free
<1>4. CASE Goes(p, "finish", cmd[p])
  BY <1>1, <1>2, <1>3, <1>4, TypedFree DEF Goes
<1>5. CASE Goes(p, "next", cmd[p])
  BY <1>1, <1>2, <1>3, <1>5, TypedFree DEF Goes
<1>6. CASE Leaves(p)
  BY <1>1, <1>2, <1>6, TypedLeaves
<1> QED BY <1>4, <1>5, <1>6 DEF Confirm

LEMMA StartedTyped ==
    ASSUME Typed, NEW model \in Models, NEW id \in Nat
    PROVE  Started(model, id) \in [model: Models, engine: Nat, by: Nat]
BY DEF Started, Typed, TypeOK

LEMMA TypedNext ==
    ASSUME Typed, NEW p \in Procs, NextCandidate(p)
    PROVE  Typed'
<1> DEFINE c == cmd[p]
<1>1. c \in Commands /\ pc[p] # "idle" /\ pc[p] = "next"
  BY Own DEF NextCandidate
<1>2. c.todo \in Seq(Models) /\ c.id \in Nat
  BY <1>1 DEF Commands
<1>3. server' \in [model: Models, engine: Nat, by: Nat] \cup {NoServer}
  <2>1. CASE c.todo # <<>> /\ server' = Started(Head(c.todo), c.id)
    <3>1. Head(c.todo) \in Models
      BY <1>2, <2>1
    <3> QED BY <1>2, <2>1, <3>1, StartedTyped
  <2>2. CASE UNCHANGED server
    BY <2>2 DEF Typed, TypeOK
  <2> QED BY <2>1, <2>2 DEF NextCandidate
<1>4. WorldTyped'
  BY <1>3 DEF NextCandidate, Typed, TypeOK, WorldTyped
<1>5. CASE Goes(p, "judge", c)
  <2>1. "judge" \in Free
    BY DEF Free
  <2> QED BY <1>1, <1>4, <1>5, <2>1, TypedFree DEF Goes
<1>6. CASE Goes(p, "ready", c) /\ c.todo # <<>>
  <2>1. "ready" \in Places
    BY DEF Places
  <2>2. pc'[p] = "ready" /\ cmd'[p] = c
    BY <1>1, <1>6, <2>1, Moves DEF Goes
  <2>3. Holds(p)'
    BY <1>6, <2>2 DEF Holds, Stamping, Crossing, Building, Crossed, Verdict
  <2> QED BY <1>1, <1>4, <1>6, <2>1, <2>3, TypedStep DEF Goes
<1>7. CASE Leaves(p)
  BY <1>1, <1>4, <1>7, TypedLeaves
<1> QED BY <1>5, <1>6, <1>7 DEF NextCandidate

LEMMA TypedReady ==
    ASSUME Typed, NEW p \in Procs, Ready(p)
    PROVE  Typed'
<1>1. cmd[p] \in Commands /\ Holds(p) /\ pc[p] = "ready"
  BY Own DEF Ready
<1>2. WorldTyped'
  BY WorldKept DEF Ready
<1>3. CASE Goes(p, "head", cmd[p])
  <2>1. "head" \in Places
    BY DEF Places
  <2>2. pc'[p] = "head" /\ cmd'[p] = cmd[p]
    BY <1>1, <1>3, <2>1, Moves DEF Goes
  <2>3. Holds(p)'
    BY <1>1, <2>2 DEF Holds, Stamping, Crossing, Building, Crossed, Verdict
  <2> QED BY <1>1, <1>2, <1>3, <2>1, <2>3, TypedStep DEF Goes
<1>4. CASE Leaves(p)
  BY <1>1, <1>2, <1>4, TypedLeaves
<1> QED BY <1>3, <1>4 DEF Ready

LEMMA StampTyped ==
    ASSUME Typed, NEW cfg \in Cfgs, NEW model \in Models, NEW exec \in Execs
    PROVE  StampOf(cfg, model, exec) \in Stamps
BY DEF StampOf, StampIdentity, Stamps, Typed, TypeOK

LEMMA TypedHead ==
    ASSUME Typed, NEW p \in Procs, BuildHead(p)
    PROVE  Typed'
<1> DEFINE c == cmd[p]
           stamp == StampOf(c.cfg, Head(c.todo), c.exec)
           held == [c EXCEPT !.stamp = stamp]
           where == IF c.resume = NoRunId THEN "create" ELSE "adopt"
<1>1. c \in Commands /\ Holds(p) /\ c.cfg \in Cfgs /\ pc[p] = "head"
  BY Own DEF BuildHead
<1>2. c.todo # <<>> /\ c.todo \in Seq(Models) /\ c.exec \in Execs /\ c.resume \in RunIds \cup {NoRunId}
  BY <1>1 DEF Holds, Commands
<1>3. stamp \in Stamps
  BY <1>1, <1>2, StampTyped
<1> HIDE DEF stamp
<1>4. held \in Commands /\ held.todo = c.todo /\ held.stamp = stamp /\ held.resume = c.resume
  BY <1>1, <1>3 DEF Commands
<1>5. where \in Places
  BY DEF Places
<1>6. pc' = [pc EXCEPT ![p] = where] /\ cmd' = [cmd EXCEPT ![p] = held]
  BY DEF BuildHead, Goes, stamp
<1> HIDE DEF held
<1>7. pc'[p] = where /\ cmd'[p] = held
  BY <1>5, <1>6, Moves
<1>8. Holds(p)'
  BY <1>2, <1>3, <1>4, <1>7 DEF Holds, Stamping, Crossing, Building, Crossed, Verdict
<1>9. WorldTyped'
  BY WorldKept DEF BuildHead
<1>10. where # "idle"
  OBVIOUS
<1> HIDE DEF where
<1> QED BY <1>4, <1>5, <1>6, <1>8, <1>9, <1>10, TypedStep

LEMMA RunsMove ==
    ASSUME Typed, NEW STATE r, r \in RunIds, NEW STATE run, run \in OnDisk, runs' = [runs EXCEPT ![r] = run],
           UNCHANGED <<build, server, tree, session, typed, refusals>>
    PROVE  WorldTyped'
BY DEF Typed, TypeOK, WorldTyped

LEMMA TypedCreate ==
    ASSUME Typed, NEW p \in Procs, CreateRun(p)
    PROVE  Typed'
<1> DEFINE c == cmd[p]
           r == CHOOSE id \in RunIds : runs[id].head = NoDir
           held == [c EXCEPT !.run = r]
<1>1. c \in Commands /\ Holds(p) /\ pc[p] = "create"
  BY Own DEF CreateRun
<1>2. r \in RunIds
  BY DEF CreateRun
<1>3. pc' = [pc EXCEPT ![p] = "stamp"] /\ cmd' = [cmd EXCEPT ![p] = held] /\ runs' = [runs EXCEPT ![r] = StampBlanked(@)]
  BY DEF CreateRun, Goes
<1> HIDE DEF r
<1>4. held \in Commands /\ held.todo = c.todo /\ held.stamp = c.stamp /\ held.run = r
  BY <1>1, <1>2 DEF Commands
<1>5. runs[r] \in OnDisk /\ runs' = [runs EXCEPT ![r] = StampBlanked(runs[r])]
  BY <1>2, <1>3 DEF Typed, TypeOK
<1>6. StampBlanked(runs[r]) \in OnDisk
  BY <1>5 DEF StampBlanked, OnDisk
<1>7. WorldTyped'
  BY <1>2, <1>5, <1>6, RunsMove DEF CreateRun
<1> HIDE DEF held
<1>8. "stamp" \in Places /\ pc'[p] = "stamp" /\ cmd'[p] = held
  BY <1>3, Moves DEF Places
<1>9. Holds(p)'
  BY <1>1, <1>2, <1>4, <1>8 DEF Holds, Stamping, Crossing, Building, Crossed, Verdict
<1> QED BY <1>3, <1>4, <1>7, <1>8, <1>9, TypedStep

LEMMA TypedWrite ==
    ASSUME Typed, NEW p \in Procs, WriteStamp(p)
    PROVE  Typed'
<1>1. cmd[p] \in Commands /\ Holds(p) /\ pc[p] = "stamp"
  BY Own DEF WriteStamp
<1>2. cmd[p].run \in RunIds /\ cmd[p].stamp \in Stamps /\ cmd[p].todo # <<>>
  BY <1>1 DEF Holds, Stamping
<1>3. runs[cmd[p].run] \in OnDisk
  BY <1>2 DEF Typed, TypeOK
<1>4. StampWritten(runs[cmd[p].run], cmd[p].stamp) \in OnDisk
  BY <1>2, <1>3 DEF StampWritten, OnDisk
<1>5. WorldTyped'
  BY <1>2, <1>4, RunsMove DEF WriteStamp
<1>6. "tasks" \in Places /\ pc' = [pc EXCEPT ![p] = "tasks"] /\ cmd' = [cmd EXCEPT ![p] = cmd[p]]
  BY DEF WriteStamp, Goes, Places
<1>7. pc'[p] = "tasks" /\ cmd'[p] = cmd[p]
  BY <1>6, Moves
<1>8. Holds(p)'
  BY <1>2, <1>7 DEF Holds, Stamping, Crossing, Building, Crossed, Verdict
<1> QED BY <1>1, <1>5, <1>6, <1>8, TypedStep

LEMMA TypedAdopt ==
    ASSUME Typed, NEW p \in Procs, AdoptJudge(p)
    PROVE  Typed'
<1> DEFINE c == cmd[p]
<1>1. c \in Commands /\ Holds(p) /\ pc[p] = "adopt"
  BY Own DEF AdoptJudge
<1>2. c.resume \in RunIds /\ c.stamp \in Stamps /\ c.todo # <<>>
  BY <1>1 DEF Holds, Stamping
<1>3. runs[c.resume] \in OnDisk
  BY <1>2 DEF Typed, TypeOK
<1>4. StampBlanked(runs[c.resume]) \in OnDisk
  BY <1>3 DEF StampBlanked, OnDisk
<1>5. WorldTyped'
  <2>1. CASE runs' = [runs EXCEPT ![c.resume] = StampBlanked(@)]
    BY <1>2, <1>4, <2>1, RunsMove DEF AdoptJudge
  <2>2. CASE UNCHANGED runs
    BY <2>2, WorldKept DEF AdoptJudge
  <2> QED BY <2>1, <2>2 DEF AdoptJudge
<1>6. ASSUME NEW where \in {"adopted", "resume"}, Goes(p, where, c)
      PROVE  Typed'
  <2>1. where \in Places /\ where # "idle" /\ pc' = [pc EXCEPT ![p] = where] /\ cmd' = [cmd EXCEPT ![p] = c]
    BY <1>6 DEF Goes, Places
  <2>2. pc'[p] = where /\ cmd'[p] = c
    BY <2>1, Moves
  <2>3. Holds(p)'
    BY <1>2, <2>2 DEF Holds, Stamping, Crossing, Building, Crossed, Verdict
  <2> QED BY <1>1, <1>5, <2>1, <2>3, TypedStep
<1>7. CASE Leaves(p)
  BY <1>1, <1>5, <1>7, TypedLeaves
<1> QED BY <1>6, <1>7 DEF AdoptJudge

LEMMA TypedAdopted ==
    ASSUME Typed, NEW p \in Procs, WriteAdopted(p)
    PROVE  Typed'
<1>1. cmd[p] \in Commands /\ Holds(p) /\ pc[p] = "adopted"
  BY Own DEF WriteAdopted
<1>2. cmd[p].resume \in RunIds /\ cmd[p].stamp \in Stamps /\ cmd[p].todo # <<>>
  BY <1>1 DEF Holds, Stamping
<1>3. runs[cmd[p].resume] \in OnDisk
  BY <1>2 DEF Typed, TypeOK
<1>4. StampWritten(runs[cmd[p].resume], cmd[p].stamp) \in OnDisk
  BY <1>2, <1>3 DEF StampWritten, OnDisk
<1>5. WorldTyped'
  BY <1>2, <1>4, RunsMove DEF WriteAdopted
<1>6. "resume" \in Places /\ pc' = [pc EXCEPT ![p] = "resume"] /\ cmd' = [cmd EXCEPT ![p] = cmd[p]]
  BY DEF WriteAdopted, Goes, Places
<1>7. pc'[p] = "resume" /\ cmd'[p] = cmd[p]
  BY <1>6, Moves
<1>8. Holds(p)'
  BY <1>2, <1>7 DEF Holds, Stamping, Crossing, Building, Crossed, Verdict
<1> QED BY <1>1, <1>5, <1>6, <1>8, TypedStep

LEMMA TypedResume ==
    ASSUME Typed, NEW p \in Procs, ResumeRun(p)
    PROVE  Typed'
<1> DEFINE c == cmd[p]
           done == KeysOf(runs[c.resume].rows)
           held == [c EXCEPT !.run = c.resume, !.done = done]
<1>1. c \in Commands /\ Holds(p) /\ pc[p] = "resume"
  BY Own DEF ResumeRun
<1>2. c.resume \in RunIds /\ c.stamp \in Stamps /\ c.todo # <<>>
  BY <1>1 DEF Holds, Stamping
<1>3. WorldTyped'
  BY WorldKept DEF ResumeRun
<1>4. done \in SUBSET Keys
  <2>1. runs[c.resume] \in OnDisk
    BY <1>2 DEF Typed, TypeOK
  <2>2. \A i \in DOMAIN runs[c.resume].rows : runs[c.resume].rows[i] \in Rows
    BY <2>1 DEF OnDisk
  <2> QED BY <2>2 DEF KeysOf, Rows
<1> HIDE DEF done
<1>5. held \in Commands /\ held.todo = c.todo /\ held.stamp = c.stamp /\ held.run = c.resume
  BY <1>1, <1>2, <1>4 DEF Commands
<1>6. CASE Goes(p, "tasks", held)
  <2>1. "tasks" \in Places /\ pc' = [pc EXCEPT ![p] = "tasks"] /\ cmd' = [cmd EXCEPT ![p] = held]
    BY <1>6 DEF Goes, Places
  <2> HIDE DEF held
  <2>2. pc'[p] = "tasks" /\ cmd'[p] = held
    BY <2>1, Moves
  <2>3. Holds(p)'
    BY <1>2, <1>5, <2>2 DEF Holds, Stamping, Crossing, Building, Crossed, Verdict
  <2> QED BY <1>3, <1>5, <2>1, <2>3, TypedStep
<1>7. CASE Leaves(p)
  BY <1>1, <1>3, <1>7, TypedLeaves
<1> QED BY <1>6, <1>7 DEF ResumeRun, done

LEMMA TypedSkip ==
    ASSUME Typed, NEW p \in Procs, SkipDone(p)
    PROVE  Typed'
<1> DEFINE c == cmd[p]
           held == [c EXCEPT !.at = @ + 1]
<1>1. c \in Commands /\ Holds(p) /\ pc[p] = "tasks"
  BY Own DEF SkipDone
<1>2. c.run \in RunIds /\ c.stamp \in Stamps /\ c.todo # <<>>
  BY <1>1 DEF Holds, Crossing
<1>3. held \in Commands /\ held.todo = c.todo /\ held.stamp = c.stamp /\ held.run = c.run
  <2>1. c.at + 1 \in Nat \ {0}
    BY <1>1 DEF Commands
  <2> QED BY <1>1, <2>1 DEF Commands
<1>4. "tasks" \in Places /\ pc' = [pc EXCEPT ![p] = "tasks"] /\ cmd' = [cmd EXCEPT ![p] = held]
  BY DEF SkipDone, Goes, Places
<1> HIDE DEF held
<1>5. pc'[p] = "tasks" /\ cmd'[p] = held
  BY <1>4, Moves
<1>6. Holds(p)'
  BY <1>2, <1>3, <1>5 DEF Holds, Stamping, Crossing, Building, Crossed, Verdict
<1>7. WorldTyped'
  BY WorldKept DEF SkipDone
<1> QED BY <1>3, <1>4, <1>6, <1>7, TypedStep

LEMMA RowTyped ==
    ASSUME Typed, NEW STATE key, key \in Keys,
           NEW out \in {"measured", "unavailable", "refused", "decided", "skipped"},
           NEW fill \in Fills \cup {"none", "other"}, NEW compile \in Verdicts \cup {"none", "skipped"},
           NEW STATE c, c \in Commands
    PROVE  /\ Row(key, out, fill, compile, c) \in Rows
           /\ Row(key, out, fill, compile, c).key = key
           /\ Row(key, out, fill, compile, c).out = out
<1>1. server # NoServer => <<server.model, server.engine>> \in (Models \cup {"none"}) \X Nat
  BY DEF Typed, TypeOK
<1>2. <<"none", 0>> \in (Models \cup {"none"}) \X Nat
  OBVIOUS
<1>3. c.action \in {"launch", "use"}
  BY DEF Commands
<1> QED BY <1>1, <1>2, <1>3 DEF Row, Rows

\* What a crossing leaves alone, whatever row it puts in hand.
Same5(held, c) ==
    /\ held.cfg = c.cfg /\ held.at = c.at /\ held.done = c.done
    /\ held.todo = c.todo /\ held.stamp = c.stamp /\ held.run = c.run

\* A crossing of the plan puts a row of the key it is at in hand.
LEMMA TypedCrossed ==
    ASSUME Typed, NEW p \in Procs, pc[p] = "tasks", Owes(p),
           NEW where \in {"append", "splice"}, NEW STATE held, held \in Commands,
           Same5(held, cmd[p]), held.row \in Rows, held.row.key = KeyAt(p),
           where = "splice" => KeyAt(p)[1] = "codebase",
           pc' = [pc EXCEPT ![p] = where], cmd' = [cmd EXCEPT ![p] = held], WorldTyped'
    PROVE  Typed'
<1>1. cmd[p] \in Commands /\ Holds(p)
  BY Own
<1>2. cmd[p].run \in RunIds /\ cmd[p].stamp \in Stamps /\ cmd[p].todo # <<>>
  BY <1>1 DEF Holds, Crossing
<1>3. KeyAt(p) \in PlanKeys /\ KeyAt(p)[1] # "judge"
  BY <1>1, KeyAtPlan, PlanKey
<1>4. where \in Places /\ where # "idle"
  BY DEF Places
<1>5. pc'[p] = where /\ cmd'[p] = held
  BY <1>4, Moves
<1>6. Owes(p)' /\ KeyAt(p)' = KeyAt(p)
  BY <1>5 DEF Owes, KeyAt, Same5
<1>7. Holds(p)'
  BY <1>2, <1>3, <1>5, <1>6 DEF Holds, Stamping, Crossing, Building, Crossed, Verdict, Same5
<1> QED BY <1>4, <1>7, TypedStep

LEMMA TypedRecords ==
    ASSUME Typed, NEW p \in Procs, pc[p] = "tasks", Owes(p),
           NEW out \in {"measured", "unavailable", "refused"}, NEW latch \in {{}, {"grammar_gap"},
           {"codebase"}},
           Records(p, out, "none", cmd[p]) \/ Records(p, out, "none", [cmd[p] EXCEPT !.latch = @ \cup latch]),
           WorldTyped'
    PROVE  Typed'
<1>1. cmd[p] \in Commands /\ KeyAt(p) \in Keys
  BY Own, KeyAtPlan
<1> DEFINE put(c) == [c EXCEPT !.row = Row(KeyAt(p), out, "none", "none", c)]
           held == [cmd[p] EXCEPT !.latch = @ \cup latch]
<1>2. held \in Commands /\ Same5(held, cmd[p])
  <2>1. cmd[p].latch \cup latch \in SUBSET Refusables
    BY <1>1 DEF Commands, Refusables
  <2>2. held \in Commands
    BY <1>1, <2>1 DEF Commands
  <2>3. Same5(held, cmd[p])
    BY <1>1 DEF Commands, Same5
  <2> QED BY <2>2, <2>3
<1>3. Same5(cmd[p], cmd[p])
  BY DEF Same5
<1> HIDE DEF held
<1>4. ASSUME NEW STATE c, c \in Commands, Same5(c, cmd[p]), pc' = [pc EXCEPT ![p] = "append"],
             cmd' = [cmd EXCEPT ![p] = put(c)]
      PROVE  Typed'
  <2> DEFINE row == Row(KeyAt(p), out, "none", "none", c)
  <2>1. row \in Rows /\ row.key = KeyAt(p)
    BY <1>1, <1>4, RowTyped
  <2> HIDE DEF row
  <2>2. put(c) \in Commands /\ Same5(put(c), cmd[p]) /\ put(c).row = row
    BY <1>4, <2>1 DEF Commands, Same5, row
  <2> HIDE DEF put
  <2> QED BY <1>4, <2>1, <2>2, TypedCrossed
<1>5. CASE Records(p, out, "none", cmd[p])
  BY <1>1, <1>3, <1>4, <1>5 DEF Records, Goes
<1>6. CASE Records(p, out, "none", held)
  BY <1>2, <1>4, <1>6 DEF Records, Goes
<1> QED BY <1>5, <1>6 DEF held

LEMMA TypedThroughput ==
    ASSUME Typed, NEW p \in Procs, CrossThroughput(p)
    PROVE  Typed'
<1>1. WorldTyped' /\ pc[p] = "tasks" /\ Owes(p)
  BY WorldKept DEF CrossThroughput
<1>2. CASE Records(p, "measured", "none", cmd[p])
  BY <1>1, <1>2, TypedRecords
<1>3. CASE Leaves(p)
  BY <1>1, <1>3, TypedLeaves
<1> QED BY <1>2, <1>3 DEF CrossThroughput

LEMMA TypedProbe ==
    ASSUME Typed, NEW p \in Procs, CrossProbe(p)
    PROVE  Typed'
<1>1. WorldTyped' /\ pc[p] = "tasks" /\ Owes(p)
  BY WorldKept DEF CrossProbe
<1>2. PICK out \in {"measured", "unavailable"} : Records(p, out, "none", cmd[p])
  BY DEF CrossProbe
<1> QED BY <1>1, <1>2, TypedRecords

LEMMA RefusedTyped ==
    ASSUME Typed, NEW p \in Procs, cmd[p].run \in RunIds, NEW what \in Refusables,
           UNCHANGED refusals \/ Refused(p, what),
           UNCHANGED <<build, server, runs, tree, session, typed>>
    PROVE  WorldTyped'
<1>1. refusals' \in [RunIds -> SUBSET Refusables]
  BY DEF Refused, Typed, TypeOK
<1> QED BY <1>1 DEF Typed, TypeOK, WorldTyped

LEMMA TypedForced ==
    ASSUME Typed, NEW p \in Procs, CrossForced(p)
    PROVE  Typed'
<1>1. cmd[p] \in Commands /\ Holds(p) /\ pc[p] = "tasks" /\ Owes(p)
  BY Own DEF CrossForced
<1>2. WorldTyped'
  <2>1. cmd[p].run \in RunIds
    BY <1>1 DEF Holds, Crossing
  <2>2. "grammar_gap" \in Refusables
    BY DEF Refusables
  <2>3. UNCHANGED refusals \/ Refused(p, "grammar_gap")
    BY DEF CrossForced
  <2> QED BY <2>1, <2>2, <2>3, RefusedTyped DEF CrossForced
<1>3. \E out \in {"measured", "unavailable", "refused"} :
        \/ Records(p, out, "none", cmd[p])
        \/ Records(p, out, "none", [cmd[p] EXCEPT !.latch = @ \cup {"grammar_gap"}])
  BY DEF CrossForced
<1> QED BY <1>1, <1>2, <1>3, TypedRecords

LEMMA TypedCodebase ==
    ASSUME Typed, NEW p \in Procs, CrossCodebase(p)
    PROVE  Typed'
<1> DEFINE c == cmd[p]
           held(fill, compile) == [c EXCEPT !.row = Row(KeyAt(p), "measured", fill, compile, c)]
<1>1. c \in Commands /\ Holds(p) /\ pc[p] = "tasks" /\ Owes(p) /\ KeyAt(p)[1] = "codebase"
  BY Own DEF CrossCodebase
<1>2. WorldTyped'
  <2>1. c.run \in RunIds
    BY <1>1 DEF Holds, Crossing
  <2>2. "codebase" \in Refusables
    BY DEF Refusables
  <2>3. UNCHANGED refusals \/ Refused(p, "codebase")
    BY DEF CrossCodebase
  <2> QED BY <2>1, <2>2, <2>3, RefusedTyped DEF CrossCodebase
<1>3. ASSUME NEW fill \in Fills \cup {"other"}, NEW compile \in {"none", "skipped"},
             NEW where \in {"append", "splice"}, Goes(p, where, held(fill, compile))
      PROVE  Typed'
  <2> DEFINE row == Row(KeyAt(p), "measured", fill, compile, c)
  <2>1. row \in Rows /\ row.key = KeyAt(p)
    BY <1>1, KeyAtPlan, RowTyped
  <2> HIDE DEF row
  <2>2. [c EXCEPT !.row = row] \in Commands /\ Same5([c EXCEPT !.row = row], c) /\ [c EXCEPT !.row = row].row = row
    BY <1>1, <2>1 DEF Commands, Same5
  <2>3. pc' = [pc EXCEPT ![p] = where] /\ cmd' = [cmd EXCEPT ![p] = [c EXCEPT !.row = row]]
    BY <1>3 DEF Goes, row
  <2> QED BY <1>1, <1>2, <2>1, <2>2, <2>3, TypedCrossed
<1>4. CASE \E out \in {"measured", "unavailable", "refused"} :
             \/ Records(p, out, "none", c)
             \/ Records(p, out, "none", [c EXCEPT !.latch = @ \cup {"codebase"}])
  BY <1>1, <1>2, <1>4, TypedRecords
<1>5. CASE \E fill \in Fills \cup {"other"} :
             \/ Goes(p, "splice", held(fill, "none"))
             \/ Goes(p, "append", held(fill, "skipped"))
             \/ Goes(p, "append", held(fill, "none"))
  BY <1>3, <1>5
<1>6. c.exec \in {"off", "ready", "unavailable"}
  BY <1>1 DEF Commands, Execs
<1> QED BY <1>4, <1>5, <1>6 DEF CrossCodebase

LEMMA BuildingHolds ==
    ASSUME Typed, NEW p \in Procs, pc[p] \in Building
    PROVE  /\ cmd[p] \in Commands /\ cmd[p].row \in Rows
           /\ Owes(p) /\ cmd[p].row.key = KeyAt(p) /\ KeyAt(p) \in CodeKeys
           /\ cmd[p].run \in RunIds /\ cmd[p].stamp \in Stamps /\ cmd[p].todo # <<>>
<1>1. cmd[p] \in Commands /\ Holds(p)
  BY Own DEF Building
<1>2. Owes(p) /\ cmd[p].row.key = KeyAt(p) /\ KeyAt(p)[1] = "codebase" /\ cmd[p].row \in Rows
  BY <1>1 DEF Holds
<1>3. cmd[p].run \in RunIds /\ cmd[p].stamp \in Stamps /\ cmd[p].todo # <<>>
  BY <1>1 DEF Holds, Crossing
<1>4. KeyAt(p) \in CodeKeys
  BY <1>1, <1>2, KeyAtPlan DEF CodeKeys
<1> QED BY <1>1, <1>2, <1>3, <1>4

\* A fill that is built stays the crossing its command is at.
LEMMA TypedBuilt ==
    ASSUME Typed, NEW p \in Procs, pc[p] \in Building,
           NEW where \in Building \cup {"append"}, NEW STATE held, held \in Commands,
           Same5(held, cmd[p]), held.row \in Rows, held.row.key = KeyAt(p),
           pc' = [pc EXCEPT ![p] = where], cmd' = [cmd EXCEPT ![p] = held], WorldTyped'
    PROVE  Typed'
<1>1. where \in Places /\ where # "idle"
  BY DEF Places, Building
<1>2. pc'[p] = where /\ cmd'[p] = held
  BY <1>1, Moves
<1>3. KeyAt(p)[1] = "codebase" /\ KeyAt(p)[1] # "judge"
  BY BuildingHolds DEF CodeKeys
<1>4. Owes(p)' /\ KeyAt(p)' = KeyAt(p)
  BY <1>2, BuildingHolds DEF Owes, KeyAt, Same5
<1>5. held.run \in RunIds /\ held.stamp \in Stamps /\ held.todo # <<>>
  BY BuildingHolds DEF Same5
<1>6. Holds(p)'
  BY <1>2, <1>3, <1>4, <1>5 DEF Holds, Stamping, Crossing, Building, Crossed, Verdict
<1> QED BY <1>1, <1>6, TypedStep

LEMMA FillTyped ==
    ASSUME Typed, NEW p \in Procs, pc[p] \in Building
    PROVE  <<FileAt(p), FillAt(p)>> \in Edits
BY BuildingHolds DEF Edits, FileAt, FillAt

LEMMA TypedSplice ==
    ASSUME Typed, NEW p \in Procs, SpliceFill(p)
    PROVE  Typed'
<1> DEFINE original == InFile(tree, FileAt(p))
           held == [cmd[p] EXCEPT !.original = original]
<1>1. pc[p] \in Building /\ pc[p] # "idle"
  BY DEF SpliceFill, Building
<1>2. tree.edits \subseteq Edits /\ original \subseteq Edits /\ tree.there \in BOOLEAN
  BY DEF InFile, Typed, TypeOK
<1>3. CASE tree' = Spliced(tree, original, FileAt(p), FillAt(p)) /\ Goes(p, "check", held)
  <2>1. tree' \in [there: BOOLEAN, edits: SUBSET Edits]
    <3>1. tree \in [there: BOOLEAN, edits: SUBSET Edits]
      BY DEF Typed, TypeOK
    <3>2. <<FileAt(p), FillAt(p)>> \in Edits
      BY <1>1, FillTyped
    <3> QED BY <1>2, <1>3, <3>1, <3>2 DEF Spliced
  <2>2. WorldTyped'
    BY <2>1, TreeMoves DEF SpliceFill
  <2> HIDE DEF original
  <2>3. held \in Commands /\ Same5(held, cmd[p]) /\ held.row = cmd[p].row
    <3>1. cmd[p] \in Commands
      BY <1>1, BuildingHolds
    <3>2. held \in Commands
      BY <1>2, <3>1 DEF Commands
    <3> QED BY <3>1, <3>2 DEF Commands, Same5
  <2>4. pc' = [pc EXCEPT ![p] = "check"] /\ cmd' = [cmd EXCEPT ![p] = held] /\ "check" \in Building
    BY <1>3 DEF Goes, Building
  <2> HIDE DEF held
  <2> QED BY <1>1, <2>2, <2>3, <2>4, BuildingHolds, TypedBuilt
<1>4. CASE UNCHANGED tree /\ Leaves(p)
  <2>1. WorldTyped'
    BY <1>4, WorldKept DEF SpliceFill
  <2> QED BY <1>1, <1>4, <2>1, TypedLeaves
<1> QED BY <1>3, <1>4 DEF SpliceFill

LEMMA TypedCheck ==
    ASSUME Typed, NEW p \in Procs, CheckFill(p)
    PROVE  Typed'
<1>1. pc[p] \in Building
  BY DEF CheckFill, Building
<1>2. WorldTyped'
  BY WorldKept DEF CheckFill
<1>3. PICK verdict \in Verdicts \cup {"skipped"} : Goes(p, "revert", [cmd[p] EXCEPT !.row.compile = verdict])
  BY DEF CheckFill
<1> DEFINE row == [cmd[p].row EXCEPT !.compile = verdict]
           held == [cmd[p] EXCEPT !.row = row]
<1>4. row \in Rows /\ row.key = KeyAt(p)
  BY <1>1, BuildingHolds DEF Rows
<1>5. pc' = [pc EXCEPT ![p] = "revert"] /\ cmd' = [cmd EXCEPT ![p] = held] /\ "revert" \in Building
  BY <1>3 DEF Goes, Building
<1> HIDE DEF row
<1>6. held \in Commands /\ Same5(held, cmd[p]) /\ held.row = row
  <2>1. cmd[p] \in Commands
    BY <1>1, BuildingHolds
  <2>2. held \in Commands
    BY <1>4, <2>1 DEF Commands
  <2> QED BY <2>1, <2>2 DEF Commands, Same5
<1> HIDE DEF held
<1> QED BY <1>1, <1>2, <1>4, <1>5, <1>6, TypedBuilt

LEMMA TypedRevert ==
    ASSUME Typed, NEW p \in Procs, RevertFill(p)
    PROVE  Typed'
<1> DEFINE held == [cmd[p] EXCEPT !.original = {}]
<1>1. pc[p] \in Building /\ pc[p] # "idle"
  BY DEF RevertFill, Building
<1>2. WorldTyped'
  <2>1. tree \in [there: BOOLEAN, edits: SUBSET Edits]
    BY DEF Typed, TypeOK
  <2>2. tree' \in [there: BOOLEAN, edits: SUBSET Edits]
    BY <2>1 DEF RevertFill, Reverted
  <2> QED BY <2>2, TreeMoves DEF RevertFill
<1>3. CASE Goes(p, "append", held)
  <2>1. held \in Commands /\ Same5(held, cmd[p]) /\ held.row = cmd[p].row
    <3>1. cmd[p] \in Commands
      BY <1>1, BuildingHolds
    <3>2. held \in Commands
      BY <3>1 DEF Commands
    <3> QED BY <3>1, <3>2 DEF Commands, Same5
  <2>2. pc' = [pc EXCEPT ![p] = "append"] /\ cmd' = [cmd EXCEPT ![p] = held]
    BY <1>3 DEF Goes
  <2> HIDE DEF held
  <2> QED BY <1>1, <1>2, <2>1, <2>2, BuildingHolds, TypedBuilt
<1>4. CASE Leaves(p)
  BY <1>1, <1>2, <1>4, TypedLeaves
<1> QED BY <1>3, <1>4 DEF RevertFill

LEMMA TypedAppend ==
    ASSUME Typed, NEW p \in Procs, AppendRow(p)
    PROVE  Typed'
<1> DEFINE c == cmd[p]
           held == [c EXCEPT !.row = NoRow, !.at = @ + 1]
           where == IF c.row.key[1] = "judge" THEN "judging" ELSE "tasks"
<1>1. c \in Commands /\ Holds(p) /\ pc[p] = "append"
  BY Own DEF AppendRow
<1>2. c.run \in RunIds /\ c.row \in Rows
  BY <1>1 DEF Holds
<1>3. WorldTyped'
  <2>1. runs[c.run] \in OnDisk
    BY <1>2 DEF Typed, TypeOK
  <2>2. Appended(runs[c.run], c.row) \in OnDisk
    <3>1. Append(runs[c.run].rows, c.row) \in Seq(Rows)
      BY <1>2, <2>1 DEF OnDisk
    <3> QED BY <2>1, <3>1 DEF Appended, OnDisk
  <2>3. runs' = [runs EXCEPT ![c.run] = Appended(runs[c.run], c.row)]
    BY <1>2 DEF AppendRow, Typed, TypeOK
  <2> QED BY <1>2, <2>2, <2>3, RunsMove DEF AppendRow
<1>4. held \in Commands /\ held.todo = c.todo /\ held.stamp = c.stamp /\ held.run = c.run
  <2>1. c.at + 1 \in Nat \ {0}
    BY <1>1 DEF Commands
  <2> QED BY <1>1, <2>1 DEF Commands
<1>5. where \in Places /\ where # "idle" /\ pc' = [pc EXCEPT ![p] = where] /\ cmd' = [cmd EXCEPT ![p] = held]
  BY DEF AppendRow, Goes, Places
<1> HIDE DEF held
<1>6. pc'[p] = where /\ cmd'[p] = held
  BY <1>5, Moves
<1>7. Holds(p)'
  BY <1>1, <1>2, <1>4, <1>6 DEF Holds, Stamping, Crossing, Building, Crossed, Verdict
<1> HIDE DEF where
<1> QED BY <1>3, <1>4, <1>5, <1>7, TypedStep

LEMMA TypedFinishCandidate ==
    ASSUME Typed, NEW p \in Procs, FinishCandidate(p)
    PROVE  Typed'
<1> DEFINE c == cmd[p]
           next == [c EXCEPT !.todo = Tail(@), !.dirs = Append(@, c.run), !.done = {}, !.at = 1, !.latch = {}]
<1>1. c \in Commands /\ Holds(p) /\ pc[p] = "tasks"
  BY Own DEF FinishCandidate
<1>2. c.run \in RunIds /\ c.todo # <<>>
  BY <1>1 DEF Holds, Crossing
<1>3. WorldTyped'
  BY DEF FinishCandidate, Typed, TypeOK, WorldTyped
<1>4. next \in Commands
  <2>1. Tail(c.todo) \in Seq(Models) /\ Append(c.dirs, c.run) \in Seq(RunIds)
    BY <1>1, <1>2 DEF Commands
  <2>2. [c EXCEPT !.todo = Tail(@), !.dirs = Append(@, c.run)] \in Commands
    BY <1>1, <2>1 DEF Commands
  <2>3. 1 \in Nat \ {0} /\ {} \in SUBSET Keys /\ {} \in SUBSET Refusables
    OBVIOUS
  <2> QED BY <1>1, <2>1, <2>2, <2>3 DEF Commands
<1>5. CASE Goes(p, "next", next)
  <2>1. "next" \in Free
    BY DEF Free
  <2> HIDE DEF next
  <2> QED BY <1>3, <1>4, <1>5, <2>1, TypedFree DEF Goes
<1>6. CASE Leaves(p)
  BY <1>1, <1>3, <1>6, TypedLeaves
<1> QED BY <1>5, <1>6 DEF FinishCandidate, AwaitRelease

LEMMA TypedJudgePhase ==
    ASSUME Typed, NEW p \in Procs, JudgePhase(p)
    PROVE  Typed'
<1> DEFINE c == cmd[p]
           held == [c EXCEPT !.left = c.dirs]
<1>1. c \in Commands /\ c.cfg \in Cfgs /\ pc[p] = "judge"
  BY Own DEF JudgePhase
<1>2. WorldTyped'
  <2>1. Started(c.cfg.judge, c.id) \in [model: Models, engine: Nat, by: Nat]
    BY <1>1, ModelsOf, StartedTyped DEF Commands
  <2> QED BY <2>1 DEF JudgePhase, Typed, TypeOK, WorldTyped
<1>3. CASE Goes(p, "finish", c)
  <2>1. "finish" \in Free
    BY DEF Free
  <2> QED BY <1>1, <1>2, <1>3, <2>1, TypedFree DEF Goes
<1>4. CASE Goes(p, "judge ready", held)
  <2>1. "judge ready" \in Free /\ held \in Commands
    BY <1>1 DEF Free, Commands
  <2> HIDE DEF held
  <2> QED BY <1>2, <1>4, <2>1, TypedFree DEF Goes
<1>5. CASE Leaves(p)
  BY <1>1, <1>2, <1>5, TypedLeaves
<1> QED BY <1>3, <1>4, <1>5 DEF JudgePhase

LEMMA TypedJudgeReady ==
    ASSUME Typed, NEW p \in Procs, JudgeReady(p)
    PROVE  Typed'
<1>1. cmd[p] \in Commands
  BY Own DEF JudgeReady
<1>2. WorldTyped'
  BY WorldKept DEF JudgeReady
<1>3. "judge run" \in Free /\ "judge down" \in Free
  BY DEF Free
<1>4. [cmd[p] EXCEPT !.fate = "failed"] \in Commands
  BY <1>1 DEF Commands
<1> QED BY <1>1, <1>2, <1>3, <1>4, TypedFree DEF JudgeReady, Goes

LEMMA TypedJudgeRun ==
    ASSUME Typed, NEW p \in Procs, JudgeRun(p)
    PROVE  Typed'
<1> DEFINE c == cmd[p]
           log == runs[Head(c.left)].rows
           held == [c EXCEPT !.run = Head(c.left), !.log = log, !.left = Tail(@), !.at = 1]
<1>1. c \in Commands
  BY Own DEF JudgeRun
<1>2. WorldTyped'
  BY WorldKept DEF JudgeRun
<1>3. CASE Goes(p, "judge down", c) \/ Goes(p, "judge down", [c EXCEPT !.fate = "failed"])
  <2>1. "judge down" \in Free /\ [c EXCEPT !.fate = "failed"] \in Commands
    BY <1>1 DEF Free, Commands
  <2> QED BY <1>1, <1>2, <1>3, <2>1, TypedFree DEF Goes
<1>4. CASE c.left # <<>> /\ Goes(p, "judging", held)
  <2>1. c.left \in Seq(RunIds)
    BY <1>1 DEF Commands
  <2>2. Head(c.left) \in RunIds /\ Tail(c.left) \in Seq(RunIds)
    BY <1>4, <2>1
  <2>3. log \in Seq(Rows)
    BY <2>2 DEF Typed, TypeOK, OnDisk
  <2> HIDE DEF log
  <2>4. held \in Commands /\ held.run \in RunIds
    <3>1. [c EXCEPT !.run = Head(c.left), !.left = Tail(@)] \in Commands
      BY <1>1, <2>2 DEF Commands
    <3>2. 1 \in Nat \ {0}
      OBVIOUS
    <3> QED BY <1>1, <2>2, <2>3, <3>1, <3>2 DEF Commands
  <2>5. "judging" \in Places /\ pc' = [pc EXCEPT ![p] = "judging"] /\ cmd' = [cmd EXCEPT ![p] = held]
    BY <1>4 DEF Places, Goes, log
  <2> HIDE DEF held
  <2>6. pc'[p] = "judging" /\ cmd'[p] = held
    BY <2>5, Moves
  <2>7. Holds(p)'
    BY <2>4, <2>6 DEF Holds, Stamping, Crossing, Building, Crossed, Verdict
  <2> QED BY <1>2, <2>4, <2>5, <2>7, TypedStep
<1> QED BY <1>3, <1>4 DEF JudgeRun

LEMMA TypedJudgeSkips ==
    ASSUME Typed, NEW p \in Procs, JudgeSkips(p)
    PROVE  Typed'
<1> DEFINE c == cmd[p]
           held == [c EXCEPT !.at = @ + 1]
<1>1. c \in Commands /\ Holds(p) /\ pc[p] = "judging"
  BY Own DEF JudgeSkips
<1>2. WorldTyped'
  BY WorldKept DEF JudgeSkips
<1>3. CASE Goes(p, "judge run", [c EXCEPT !.log = <<>>])
  <2>1. "judge run" \in Free /\ [c EXCEPT !.log = <<>>] \in Commands
    <3>1. <<>> \in Seq(Rows)
      OBVIOUS
    <3> QED BY <1>1, <3>1 DEF Free, Commands
  <2> QED BY <1>2, <1>3, <2>1, TypedFree DEF Goes
<1>4. CASE Goes(p, "judging", held)
  <2>1. held \in Commands /\ held.run \in RunIds
    <3>1. c.at + 1 \in Nat \ {0} /\ c.run \in RunIds
      BY <1>1 DEF Commands, Holds
    <3> QED BY <1>1, <3>1 DEF Commands
  <2>2. "judging" \in Places /\ pc' = [pc EXCEPT ![p] = "judging"] /\ cmd' = [cmd EXCEPT ![p] = held]
    BY <1>4 DEF Places, Goes
  <2> HIDE DEF held
  <2>3. pc'[p] = "judging" /\ cmd'[p] = held
    BY <2>2, Moves
  <2>4. Holds(p)'
    BY <2>1, <2>3 DEF Holds, Stamping, Crossing, Building, Crossed, Verdict
  <2> QED BY <1>2, <2>1, <2>2, <2>4, TypedStep
<1> QED BY <1>3, <1>4 DEF JudgeSkips

LEMMA OwedKey ==
    ASSUME NEW STATE log, log \in Seq(Rows), NEW STATE i, i \in Owed(log)
    PROVE  JudgeKey(log[i]) \in Keys /\ log[i].key \in CodeKeys
<1>1. log[i] \in Rows /\ log[i].key[1] = "codebase"
  BY DEF Owed, Eligible
<1>2. log[i].key \in Keys
  BY <1>1 DEF Rows
<1> QED BY <1>1, <1>2, CodeKey DEF JudgeKey

LEMMA TypedJudgeRow ==
    ASSUME Typed, NEW p \in Procs, JudgeRow(p)
    PROVE  Typed'
<1> DEFINE c == cmd[p]
           key == JudgeKey(c.log[c.at])
           held(out) == [c EXCEPT !.row = Row(key, out, "none", "none", c)]
<1>1. c \in Commands /\ Holds(p) /\ pc[p] = "judging" /\ c.at \in Owed(c.log)
  BY Own DEF JudgeRow
<1>2. WorldTyped'
  BY WorldKept DEF JudgeRow
<1>3. key \in Keys /\ key[1] = "judge"
  <2>1. c.log \in Seq(Rows)
    BY <1>1 DEF Commands
  <2>2. key \in Keys
    BY <1>1, <2>1, OwedKey
  <2> QED BY <2>2 DEF JudgeKey, Key
<1>4. ASSUME NEW out \in {"decided", "skipped"}, Goes(p, "append", held(out))
      PROVE  Typed'
  <2> DEFINE row == Row(key, out, "none", "none", c)
             next == [c EXCEPT !.row = row]
  <2>1. row \in Rows /\ row.key = key
    BY <1>1, <1>3, RowTyped
  <2>2. pc' = [pc EXCEPT ![p] = "append"] /\ cmd' = [cmd EXCEPT ![p] = next] /\ "append" \in Places
    BY <1>4 DEF Goes, Places
  <2> HIDE DEF row
  <2>3. next \in Commands /\ next.row = row /\ next.run = c.run /\ next.log = c.log /\ next.at = c.at
    BY <1>1, <2>1 DEF Commands
  <2>4. c.run \in RunIds
    BY <1>1 DEF Holds
  <2> HIDE DEF next
  <2>5. pc'[p] = "append" /\ cmd'[p] = next
    BY <2>2, Moves
  <2>6. Owed(next.log) = Owed(c.log) /\ JudgeKey(next.log[next.at]) = key
    BY <2>3
  <2>7. ~Crossed(p)' /\ Verdict(p)' /\ next.at \in Owed(next.log)
    BY <1>1, <1>3, <2>1, <2>3, <2>5, <2>6 DEF Crossed, Verdict
  <2>8. (cmd[p].at \in Owed(cmd[p].log) /\ cmd[p].row.key = JudgeKey(cmd[p].log[cmd[p].at]))'
    BY <2>1, <2>3, <2>5, <2>6, <2>7 DEF Owed, Eligible, IsDone, KeysOf, JudgeKey
  <2>9. Holds(p)'
    BY <2>1, <2>3, <2>4, <2>5, <2>7, <2>8 DEF Holds, Stamping, Crossing, Building
  <2> QED BY <1>2, <2>2, <2>3, <2>9, TypedStep
<1>5. CASE Goes(p, "judge down", [c EXCEPT !.fate = "failed"])
  <2>1. "judge down" \in Free /\ [c EXCEPT !.fate = "failed"] \in Commands
    BY <1>1 DEF Free, Commands
  <2> QED BY <1>2, <1>5, <2>1, TypedFree DEF Goes
<1> QED BY <1>4, <1>5 DEF JudgeRow

LEMMA TypedJudgeDown ==
    ASSUME Typed, NEW p \in Procs, JudgeDown(p)
    PROVE  Typed'
<1>1. cmd[p] \in Commands /\ pc[p] # "idle"
  BY Own DEF JudgeDown
<1>2. WorldTyped'
  BY DEF JudgeDown, Typed, TypeOK, WorldTyped
<1>3. CASE Goes(p, "finish", cmd[p])
  <2>1. "finish" \in Free
    BY DEF Free
  <2> QED BY <1>1, <1>2, <1>3, <2>1, TypedFree DEF Goes
<1>4. CASE Leaves(p)
  BY <1>1, <1>2, <1>4, TypedLeaves
<1> QED BY <1>3, <1>4 DEF JudgeDown, AwaitRelease

LEMMA TypedIdle ==
    ASSUME Typed, NEW p \in Procs, Goes(p, "idle", NoCmd), WorldTyped'
    PROVE  Typed'
<1>1. "idle" \in Places /\ pc' = [pc EXCEPT ![p] = "idle"] /\ cmd' = [cmd EXCEPT ![p] = NoCmd]
  BY DEF Places, Goes
<1>2. pc'[p] = "idle"
  BY <1>1, Moves
<1>3. Holds(p)'
  BY <1>2 DEF Holds, Stamping, Crossing, Building, Crossed, Verdict
<1> QED BY <1>1, <1>3, TypedStep

LEMMA TypedFinish ==
    ASSUME Typed, NEW p \in Procs, Finish(p)
    PROVE  Typed'
<1>1. WorldTyped'
  <2>1. tree' = tree \/ tree' = Removed(tree)
    BY DEF Finish
  <2>2. tree' \in [there: BOOLEAN, edits: SUBSET Edits]
    BY <2>1, TreesTyped DEF Typed, TypeOK
  <2> QED BY <2>2, TreeMoves DEF Finish
<1> QED BY <1>1, TypedIdle DEF Finish

LEMMA TypedKill ==
    ASSUME Typed, NEW p \in Procs, Kill(p)
    PROVE  Typed'
<1>1. WorldTyped'
  <2>1. CASE UNCHANGED runs
    BY <2>1, WorldKept DEF Kill
  <2>2. CASE pc[p] = "append" /\ runs' = [runs EXCEPT ![cmd[p].run] = AppendTorn(@)]
    <3>1. cmd[p].run \in RunIds
      BY <2>2, Own DEF Holds
    <3>2. AppendTorn(runs[cmd[p].run]) \in OnDisk
      BY <3>1 DEF Typed, TypeOK, AppendTorn, OnDisk
    <3> QED BY <2>2, <3>1, <3>2, RunsMove DEF Kill
  <2> QED BY <2>1, <2>2 DEF Kill
<1> QED BY <1>1, TypedIdle DEF Kill

LEMMA TypedAround ==
    ASSUME Typed, ServerDies \/ UserStarts \/ Rebuild
    PROVE  Typed'
<1>1. UNCHANGED <<pc, cmd>> /\ WorldTyped'
  <2>1. CASE ServerDies
    BY <2>1 DEF ServerDies, Typed, TypeOK, WorldTyped
  <2>2. CASE Rebuild
    BY <2>2 DEF Rebuild, Typed, TypeOK, WorldTyped
  <2>3. CASE UserStarts
    <3>1. PICK q \in Procs : session[q] # <<>> /\ server' = Started(Head(session[q]).models[1], 0)
      BY <2>3 DEF UserStarts
    <3>2. session[q] \in Seq(Cfgs)
      BY DEF Typed, TypeOK
    <3>3. Head(session[q]) \in Cfgs
      BY <3>1, <3>2
    <3>4. Head(session[q]).models[1] \in Models
      BY <3>3, ModelsOf
    <3>5. server' \in [model: Models, engine: Nat, by: Nat]
      BY <3>1, <3>4, StartedTyped
    <3> QED BY <2>3, <3>5 DEF UserStarts, Typed, TypeOK, WorldTyped
  <2> QED BY <2>1, <2>2, <2>3
<1>2. \A p \in Procs : Holds(p)'
  BY <1>1, HoldsKept DEF Typed
<1> QED BY <1>1, <1>2 DEF Typed, TypeOK, WorldTyped

LEMMA TypedInit ==
    ASSUME Init
    PROVE  Typed
<1>1. TypeOK
  <2>1. session \in [Procs -> Seq(Cfgs)]
    BY SessionsAssumption DEF Init
  <2>2. runs \in [RunIds -> OnDisk]
    <3>1. NoRun \in OnDisk
      BY DEF NoRun, OnDisk
    <3> QED BY <3>1 DEF Init
  <2> QED BY <2>1, <2>2 DEF Init, TypeOK, NoTree, Places, Refusables
<1>2. \A p \in Procs : Holds(p)
  BY DEF Init, Holds, Stamping, Crossing, Building, Crossed, Verdict
<1> QED BY <1>1, <1>2 DEF Typed

LEMMA TypedNextStep ==
    ASSUME Typed, [Next]_vars
    PROVE  Typed'
<1>1. CASE UNCHANGED vars
  <2>1. WorldTyped' /\ UNCHANGED <<pc, cmd>>
    BY <1>1, WorldKept DEF vars
  <2>2. \A p \in Procs : Holds(p)'
    BY <2>1, HoldsKept DEF Typed
  <2> QED BY <2>1, <2>2 DEF Typed, TypeOK, WorldTyped
<1>2. CASE ServerDies \/ UserStarts \/ Rebuild
  BY <1>2, TypedAround
<1>3. ASSUME NEW p \in Procs, Type(p) \/ Step(p) \/ Kill(p)
      PROVE  Typed'
  BY <1>3, TypedType, TypedKill, TypedClear, TypedAdd, TypedExec, TypedResolve, TypedConfirm, TypedNext,
     TypedReady, TypedHead, TypedCreate, TypedWrite, TypedAdopt, TypedAdopted, TypedResume, TypedSkip,
     TypedThroughput, TypedProbe, TypedForced, TypedCodebase, TypedSplice, TypedCheck, TypedRevert,
     TypedAppend, TypedFinishCandidate, TypedJudgePhase, TypedJudgeReady, TypedJudgeRun, TypedJudgeSkips,
     TypedJudgeRow, TypedJudgeDown, TypedFinish DEF Step
<1> QED BY <1>1, <1>2, <1>3 DEF Next

\* Every command holds what its place in the code says it does, and every row,
\* stamp and server is one that the command lines and the tasks account for.
THEOREM TypeCorrect == Spec => []TypeOK
<1>1. Init => Typed
  BY TypedInit
<1>2. Typed /\ [Next]_vars => Typed'
  BY TypedNextStep
<1>3. Typed => TypeOK
  BY DEF Typed
<1> QED BY <1>1, <1>2, <1>3, PTL DEF Spec

-----------------------------------------------------------------------------
(* What no step touches.                                                   *)

\* A step of p moves no other command.
LEMMA OthersKept ==
    ASSUME Typed, NEW p \in Procs, Type(p) \/ Step(p) \/ Kill(p), NEW q \in Procs, q # p
    PROVE  pc'[q] = pc[q] /\ cmd'[q] = cmd[q]
<1> DEFINE kept == pc'[q] = pc[q] /\ cmd'[q] = cmd[q]
<1>1. ASSUME NEW where, NEW STATE held, Goes(p, where, held)
      PROVE  kept
  BY <1>1 DEF Goes, Typed, TypeOK
<1>2. CASE Leaves(p)
  BY <1>2 DEF Leaves, Goes, Typed, TypeOK
<1>3. ASSUME NEW out, NEW fill, NEW STATE held, Records(p, out, fill, held)
      PROVE  kept
  BY <1>3 DEF Records, Goes, Typed, TypeOK
<1>4. CASE ClearTree(p) \/ AddTree(p) \/ ExecState(p) \/ Resolve(p) \/ Confirm(p)
  BY <1>1, <1>2, <1>4 DEF ClearTree, AddTree, ExecState, Resolve, Confirm
<1>5. CASE NextCandidate(p) \/ Ready(p) \/ BuildHead(p) \/ CreateRun(p) \/ WriteStamp(p)
  BY <1>1, <1>2, <1>5 DEF NextCandidate, Ready, BuildHead, CreateRun, WriteStamp
<1>6. CASE AdoptJudge(p) \/ WriteAdopted(p) \/ ResumeRun(p) \/ SkipDone(p)
  BY <1>1, <1>2, <1>6 DEF AdoptJudge, WriteAdopted, ResumeRun, SkipDone
<1>7. CASE CrossThroughput(p) \/ CrossProbe(p) \/ CrossForced(p)
  BY <1>2, <1>3, <1>7 DEF CrossThroughput, CrossProbe, CrossForced
<1>8. CASE CrossCodebase(p)
  <2>1. cmd[p].exec \in {"off", "ready", "unavailable"}
    BY <1>8, Own DEF CrossCodebase, Commands, Execs
  <2> QED BY <1>1, <1>3, <1>8, <2>1 DEF CrossCodebase
<1>9. CASE SpliceFill(p) \/ CheckFill(p) \/ RevertFill(p) \/ AppendRow(p)
  BY <1>1, <1>2, <1>9 DEF SpliceFill, CheckFill, RevertFill, AppendRow
<1>10. CASE FinishCandidate(p) \/ JudgePhase(p) \/ JudgeReady(p) \/ JudgeDown(p)
  BY <1>1, <1>2, <1>10 DEF FinishCandidate, JudgePhase, JudgeReady, JudgeDown, AwaitRelease
<1>11. CASE JudgeRun(p) \/ JudgeSkips(p) \/ JudgeRow(p)
  BY <1>1, <1>11 DEF JudgeRun, JudgeSkips, JudgeRow
<1>12. CASE Finish(p) \/ Kill(p)
  BY <1>1, <1>12 DEF Finish, Kill
<1>13. CASE Type(p)
  BY <1>13 DEF Type, Typed, TypeOK
<1> QED BY <1>4, <1>5, <1>6, <1>7, <1>8, <1>9, <1>10, <1>11, <1>12, <1>13 DEF Step

\* Only a row that is appended changes the rows of a run.
LEMMA RowsKept ==
    ASSUME Typed, NEW p \in Procs, Type(p) \/ Step(p) \/ Kill(p), ~AppendRow(p), NEW r \in RunIds
    PROVE  runs'[r].rows = runs[r].rows
<1>1. runs \in [RunIds -> OnDisk]
  BY DEF Typed, TypeOK
<1>2. ASSUME NEW STATE i, i \in RunIds, NEW STATE stamp,
             runs' = [runs EXCEPT ![i] = StampBlanked(@)] \/ runs' = [runs EXCEPT ![i] = StampWritten(@,
             stamp)]
                \/ runs' = [runs EXCEPT ![i] = AppendTorn(@)]
      PROVE  runs'[r].rows = runs[r].rows
  <2>1. CASE r = i
    BY <1>1, <1>2, <2>1 DEF StampBlanked, StampWritten, AppendTorn, OnDisk
  <2>2. CASE r # i
    BY <1>1, <1>2, <2>2
  <2> QED BY <2>1, <2>2
<1>3. CASE UNCHANGED runs
  BY <1>3
<1>4. CASE CreateRun(p)
  BY <1>2, <1>4 DEF CreateRun
<1>5. CASE WriteStamp(p)
  <2>1. cmd[p].run \in RunIds
    BY <1>5, Own DEF WriteStamp, Holds
  <2> QED BY <1>2, <1>5, <2>1 DEF WriteStamp
<1>6. CASE AdoptJudge(p) \/ WriteAdopted(p)
  <2>1. cmd[p].resume \in RunIds
    BY <1>6, Own DEF AdoptJudge, WriteAdopted, Holds
  <2> QED BY <1>2, <1>3, <1>6, <2>1 DEF AdoptJudge, WriteAdopted
<1>7. CASE Kill(p)
  <2>1. pc[p] = "append" => cmd[p].run \in RunIds
    BY Own DEF Holds
  <2> QED BY <1>2, <1>3, <1>7, <2>1 DEF Kill
<1>8. CASE ClearTree(p) \/ AddTree(p) \/ ExecState(p) \/ Resolve(p) \/ Confirm(p) \/ NextCandidate(p)
           \/ Ready(p) \/ BuildHead(p) \/ ResumeRun(p) \/ SkipDone(p)
  BY <1>3, <1>8 DEF ClearTree, AddTree, ExecState, Resolve, Confirm, NextCandidate, Ready, BuildHead,
     ResumeRun, SkipDone
<1>9. CASE CrossThroughput(p) \/ CrossProbe(p) \/ CrossForced(p) \/ CrossCodebase(p)
           \/ SpliceFill(p) \/ CheckFill(p) \/ RevertFill(p) \/ FinishCandidate(p)
  BY <1>3, <1>9 DEF CrossThroughput, CrossProbe, CrossForced, CrossCodebase, SpliceFill, CheckFill,
     RevertFill, FinishCandidate
<1>10. CASE JudgePhase(p) \/ JudgeReady(p) \/ JudgeRun(p) \/ JudgeSkips(p) \/ JudgeRow(p) \/ JudgeDown(p)
            \/ Finish(p) \/ Type(p)
  BY <1>3, <1>10 DEF JudgePhase, JudgeReady, JudgeRun, JudgeSkips, JudgeRow, JudgeDown, Finish, Type
<1> QED BY <1>4, <1>5, <1>6, <1>7, <1>8, <1>9, <1>10 DEF Step

\* What a server has refused is not forgotten.
LEMMA RefusalsGrow ==
    ASSUME Typed, NEW p \in Procs, Type(p) \/ Step(p) \/ Kill(p), NEW r \in RunIds
    PROVE  refusals[r] \subseteq refusals'[r]
<1>1. CASE UNCHANGED refusals
  BY <1>1
<1>2. CASE CrossForced(p) \/ CrossCodebase(p)
  BY ZenonT(30), <1>1, <1>2 DEF CrossForced, CrossCodebase, Refused, Typed, TypeOK
<1>3. CASE ClearTree(p) \/ AddTree(p) \/ ExecState(p) \/ Resolve(p) \/ Confirm(p) \/ NextCandidate(p)
           \/ Ready(p) \/ BuildHead(p) \/ CreateRun(p) \/ WriteStamp(p) \/ AdoptJudge(p) \/ WriteAdopted(p)
  BY <1>1, <1>3 DEF ClearTree, AddTree, ExecState, Resolve, Confirm, NextCandidate, Ready, BuildHead,
     CreateRun, WriteStamp, AdoptJudge, WriteAdopted
<1>4. CASE ResumeRun(p) \/ SkipDone(p) \/ CrossThroughput(p) \/ CrossProbe(p)
           \/ SpliceFill(p) \/ CheckFill(p) \/ RevertFill(p) \/ AppendRow(p) \/ FinishCandidate(p)
  BY <1>1, <1>4 DEF ResumeRun, SkipDone, CrossThroughput, CrossProbe, SpliceFill, CheckFill, RevertFill,
     AppendRow, FinishCandidate
<1>5. CASE JudgePhase(p) \/ JudgeReady(p) \/ JudgeRun(p) \/ JudgeSkips(p) \/ JudgeRow(p) \/ JudgeDown(p)
           \/ Finish(p) \/ Type(p) \/ Kill(p)
  BY <1>1, <1>5 DEF JudgePhase, JudgeReady, JudgeRun, JudgeSkips, JudgeRow, JudgeDown, Finish, Type, Kill
<1> QED BY <1>2, <1>3, <1>4, <1>5 DEF Step

-----------------------------------------------------------------------------
(* Nobody is exonerated without a refusal, however many terminals there    *)
(* are: a command's latch and the row in its hand are backed by what a     *)
(* server of its run refused, and refusals are not forgotten.              *)

\* Where there is neither a latch that matters nor a row in hand.
Away == {"idle", "judge", "judge ready", "judge run", "judging", "judge down", "finish"}

LEMMA AwayLatched ==
    ASSUME NEW p \in Procs, pc'[p] \in Away
    PROVE  Latched(p)'
BY DEF Away, Latched, Preparing, Crossing, Building, Crossed

LEMMA LeavesAway ==
    ASSUME Typed, NEW p \in Procs, Leaves(p)
    PROVE  Latched(p)'
<1>1. pc'[p] = "finish"
  BY DEF Leaves, Goes, Typed, TypeOK
<1> QED BY <1>1, AwayLatched DEF Away

\* While it prepares, a command believes nothing of its servers.
LEMMA PreparingLatched ==
    ASSUME NEW p \in Procs, pc[p] \in Preparing, Latched(p),
           pc'[p] \in Preparing \cup {"tasks", "judge", "finish"}, cmd'[p].latch = cmd[p].latch
    PROVE  Latched(p)'
BY DEF Latched, Preparing, Crossing, Building, Crossed

LEMMA LatchedPreparing ==
    ASSUME Typed, NEW p \in Procs, Latched(p),
           ClearTree(p) \/ AddTree(p) \/ ExecState(p) \/ Resolve(p) \/ Confirm(p) \/ NextCandidate(p)
             \/ Ready(p) \/ BuildHead(p) \/ CreateRun(p) \/ WriteStamp(p) \/ AdoptJudge(p)
             \/ WriteAdopted(p) \/ ResumeRun(p)
    PROVE  Latched(p)'
<1>1. pc[p] \in Preparing /\ cmd[p] \in Commands /\ p \in DOMAIN pc /\ p \in DOMAIN cmd
  <2>1. pc[p] \in Preparing
    BY DEF ClearTree, AddTree, ExecState, Resolve, Confirm, NextCandidate, Ready, BuildHead,
       CreateRun, WriteStamp, AdoptJudge, WriteAdopted, ResumeRun, Preparing
  <2> QED BY <2>1, Own DEF Preparing, Typed, TypeOK
<1>2. ASSUME NEW where \in Preparing \cup {"tasks", "judge", "finish"}, NEW STATE held, Goes(p, where, held),
             held.latch = cmd[p].latch
      PROVE  Latched(p)'
  <2>1. pc'[p] = where /\ cmd'[p] = held
    BY <1>1, <1>2 DEF Goes
  <2> QED BY <1>1, <1>2, <2>1, PreparingLatched
<1>3. CASE ClearTree(p) \/ AddTree(p)
  BY <1>1, <1>2, <1>3, LeavesAway DEF ClearTree, AddTree, Preparing, Commands
<1>4. CASE ExecState(p)
  BY <1>1, <1>2, <1>4, LeavesAway DEF ExecState, Preparing, Commands
<1>5. CASE Resolve(p) \/ Confirm(p)
  BY <1>1, <1>2, <1>5, LeavesAway DEF Resolve, Confirm, Preparing, Commands
<1>6. CASE NextCandidate(p) \/ Ready(p)
  BY <1>1, <1>2, <1>6, LeavesAway DEF NextCandidate, Ready, Preparing, Commands
<1>7. CASE BuildHead(p)
  BY <1>1, <1>2, <1>7 DEF BuildHead, Preparing, Commands
<1>8. CASE CreateRun(p) \/ WriteStamp(p)
  BY <1>1, <1>2, <1>8 DEF CreateRun, WriteStamp, Preparing, Commands
<1>9. CASE AdoptJudge(p) \/ WriteAdopted(p)
  BY <1>1, <1>2, <1>9, LeavesAway DEF AdoptJudge, WriteAdopted, Preparing, Commands
<1>10. CASE ResumeRun(p)
  BY <1>1, <1>2, <1>10, LeavesAway DEF ResumeRun, Preparing, Commands
<1> QED BY <1>3, <1>4, <1>5, <1>6, <1>7, <1>8, <1>9, <1>10

LEMMA LatchedType ==
    ASSUME Typed, NEW p \in Procs, Type(p)
    PROVE  Latched(p)'
<1>1. PICK where \in {"clear", "resolve"}, resume \in RunIds \cup {NoRunId} :
        pc'[p] = where /\ cmd'[p] = Command(Head(session[p]), resume, typed + 1)
  BY DEF Type, Typed, TypeOK
<1>2. cmd'[p].latch = {}
  BY <1>1 DEF Command
<1> QED BY <1>1, <1>2 DEF Latched, Preparing, Crossing, Building, Crossed

\* A row is put in hand by a server's answer or by the latch.
LEMMA LatchedRecords ==
    ASSUME Typed, NEW p \in Procs, pc[p] = "tasks", Owes(p), Latched(p),
           refusals[cmd[p].run] \subseteq refusals'[cmd[p].run],
           NEW where \in {"append", "splice"}, NEW out \in {"measured", "unavailable", "refused"},
           NEW fill, NEW compile,
           NEW STATE held, held \in {cmd[p], [cmd[p] EXCEPT !.latch = @ \cup {KeyAt(p)[1]}]},
           Goes(p, where, [held EXCEPT !.row = Row(KeyAt(p), out, fill, compile, held)]),
           held # cmd[p] \/ out = "refused" => KeyAt(p)[1] \in refusals'[cmd[p].run]
    PROVE  Latched(p)'
<1> DEFINE next == [held EXCEPT !.row = Row(KeyAt(p), out, fill, compile, held)]
<1>1. cmd[p] \in Commands
  BY Own
<1>2. pc'[p] = where /\ cmd'[p] = next
  BY DEF Goes, Typed, TypeOK
<1>3. cmd[p].latch \subseteq refusals'[cmd[p].run]
  BY DEF Latched, Crossing
<1>4. held.latch \subseteq refusals'[cmd[p].run] /\ held.run = cmd[p].run /\ DOMAIN held = DOMAIN cmd[p]
  <2>1. CASE held = cmd[p]
    BY <1>3, <2>1
  <2>2. CASE held # cmd[p]
    <3>1. held.latch = cmd[p].latch \cup {KeyAt(p)[1]} /\ held.run = cmd[p].run /\ DOMAIN held = DOMAIN cmd[p]
      BY <1>1, <2>2 DEF Commands
    <3> QED BY <1>3, <2>2, <3>1
  <2> QED BY <2>1, <2>2
<1>5. next.latch = held.latch /\ next.run = held.run /\ next.row = Row(KeyAt(p), out, fill, compile, held)
  BY <1>1, <1>4 DEF Commands
<1>6. next.row.out = out /\ next.row.key = KeyAt(p)
  BY <1>5 DEF Row
<1> HIDE DEF next
<1>7. next.latch \subseteq refusals'[next.run] /\ (next.row.out = "refused" => next.row.key[1] \in refusals'[next.run])
  BY <1>4, <1>5, <1>6
<1> QED BY <1>2, <1>7 DEF Latched, Preparing, Crossing, Building, Crossed

LEMMA LatchedCrossing ==
    ASSUME Typed, NEW p \in Procs, Latched(p),
           CrossThroughput(p) \/ CrossProbe(p) \/ CrossForced(p) \/ CrossCodebase(p)
    PROVE  Latched(p)'
<1>1. pc[p] = "tasks" /\ Owes(p) /\ cmd[p] \in Commands /\ cmd[p].run \in RunIds /\ cmd[p].latch \subseteq refusals[cmd[p].run]
  <2>1. pc[p] = "tasks" /\ Owes(p)
    BY DEF CrossThroughput, CrossProbe, CrossForced, CrossCodebase
  <2>2. cmd[p] \in Commands /\ Holds(p)
    BY <2>1, Own
  <2> QED BY <2>1, <2>2 DEF Holds, Latched, Crossing
<1>2. refusals[cmd[p].run] \subseteq refusals'[cmd[p].run]
  BY <1>1, RefusalsGrow DEF Step
<1>3. ASSUME NEW out \in {"measured", "unavailable"}, Records(p, out, "none", cmd[p])
      PROVE  Latched(p)'
  BY <1>1, <1>2, <1>3, LatchedRecords DEF Records
<1>4. ASSUME KeyAt(p)[1] \in cmd[p].latch, Records(p, "refused", "none", cmd[p])
      PROVE  Latched(p)'
  <2>1. KeyAt(p)[1] \in refusals'[cmd[p].run]
    BY <1>1, <1>2, <1>4
  <2> QED BY <1>1, <1>2, <1>4, <2>1, LatchedRecords DEF Records
<1>5. ASSUME Records(p, "refused", "none", [cmd[p] EXCEPT !.latch = @ \cup {KeyAt(p)[1]}]), Refused(p,
             KeyAt(p)[1])
      PROVE  Latched(p)'
  <2>1. KeyAt(p)[1] \in refusals'[cmd[p].run]
    BY <1>1, <1>5 DEF Refused, Typed, TypeOK
  <2> QED BY <1>1, <1>2, <1>5, <2>1, LatchedRecords DEF Records
<1>6. CASE CrossThroughput(p)
  BY <1>3, <1>6, LeavesAway DEF CrossThroughput
<1>7. CASE CrossProbe(p)
  BY <1>3, <1>7 DEF CrossProbe
<1>8. CASE CrossForced(p)
  BY <1>3, <1>4, <1>5, <1>8 DEF CrossForced
<1>9. CASE CrossCodebase(p)
  <2>1. cmd[p].exec \in {"off", "ready", "unavailable"}
    BY <1>1 DEF Commands, Execs
  <2>2. KeyAt(p)[1] = "codebase"
    BY <1>9 DEF CrossCodebase
  <2>3. ASSUME NEW fill \in Fills \cup {"other"}, NEW compile \in {"none", "skipped"}, NEW where \in {"append", "splice"},
               Goes(p, where, [cmd[p] EXCEPT !.row = Row(KeyAt(p), "measured", fill, compile, cmd[p])])
        PROVE  Latched(p)'
    BY <1>1, <1>2, <2>3, LatchedRecords
  <2> QED BY <1>3, <1>4, <1>5, <1>9, <2>1, <2>2, <2>3 DEF CrossCodebase
<1> QED BY <1>6, <1>7, <1>8, <1>9

LEMMA LatchedBuilding ==
    ASSUME Typed, NEW p \in Procs, Latched(p), SpliceFill(p) \/ CheckFill(p) \/ RevertFill(p)
    PROVE  Latched(p)'
<1>1. pc[p] \in Building /\ cmd[p] \in Commands /\ cmd[p].row \in Rows /\ UNCHANGED refusals
  <2>1. pc[p] \in Building /\ UNCHANGED refusals
    BY DEF SpliceFill, CheckFill, RevertFill, Building
  <2> QED BY <2>1, BuildingHolds
<1>2. /\ cmd[p].latch \subseteq refusals[cmd[p].run]
      /\ cmd[p].row.out = "refused" => cmd[p].row.key[1] \in refusals[cmd[p].run]
  BY <1>1 DEF Latched, Crossing
<1>3. ASSUME NEW where \in Building \cup {"append"}, NEW STATE held, Goes(p, where, held),
             held.latch = cmd[p].latch, held.run = cmd[p].run,
             held.row.out = cmd[p].row.out, held.row.key = cmd[p].row.key
      PROVE  Latched(p)'
  <2>1. pc'[p] = where /\ cmd'[p] = held
    BY <1>3 DEF Goes, Typed, TypeOK
  <2> QED BY <1>1, <1>2, <1>3, <2>1 DEF Latched, Preparing, Crossing, Building, Crossed
<1>4. CASE SpliceFill(p) \/ RevertFill(p)
  BY <1>1, <1>3, <1>4, LeavesAway DEF SpliceFill, RevertFill, Commands, Building
<1>5. CASE CheckFill(p)
  <2>1. PICK verdict \in Verdicts \cup {"skipped"} : Goes(p, "revert", [cmd[p] EXCEPT !.row.compile = verdict])
    BY <1>5 DEF CheckFill
  <2> DEFINE held == [cmd[p] EXCEPT !.row.compile = verdict]
  <2>2. /\ held.latch = cmd[p].latch /\ held.run = cmd[p].run
        /\ held.row.out = cmd[p].row.out /\ held.row.key = cmd[p].row.key
    BY <1>1 DEF Commands, Rows
  <2> HIDE DEF held
  <2>3. Goes(p, "revert", held)
    BY <2>1 DEF held
  <2> QED BY <1>3, <2>2, <2>3 DEF Building
<1> QED BY <1>4, <1>5

LEMMA LatchedRest ==
    ASSUME Typed, NEW p \in Procs, Latched(p),
           SkipDone(p) \/ AppendRow(p) \/ FinishCandidate(p) \/ JudgePhase(p) \/ JudgeReady(p) \/ JudgeRun(p)
             \/ JudgeSkips(p) \/ JudgeRow(p) \/ JudgeDown(p) \/ Finish(p) \/ Kill(p)
    PROVE  Latched(p)'
<1>1. pc \in [Procs -> Places] /\ cmd \in [Procs -> Commands \cup {NoCmd}]
  BY DEF Typed, TypeOK
<1>2. ASSUME NEW where \in Away, NEW STATE held, Goes(p, where, held)
      PROVE  Latched(p)'
  BY <1>1, <1>2, AwayLatched DEF Goes
<1>3. CASE SkipDone(p)
  <2>1. cmd[p] \in Commands /\ pc[p] = "tasks" /\ cmd[p].latch \subseteq refusals[cmd[p].run] /\ UNCHANGED refusals
    BY <1>3, Own DEF SkipDone, Latched, Crossing
  <2>2. pc'[p] = "tasks" /\ cmd'[p] = [cmd[p] EXCEPT !.at = @ + 1]
    BY <1>1, <1>3 DEF SkipDone, Goes
  <2>3. cmd'[p].latch = cmd[p].latch /\ cmd'[p].run = cmd[p].run
    BY <2>1, <2>2 DEF Commands
  <2> QED BY <2>1, <2>2, <2>3 DEF Latched, Preparing, Crossing, Building, Crossed
<1>4. CASE AppendRow(p)
  <2>1. cmd[p] \in Commands /\ pc[p] = "append" /\ UNCHANGED refusals
    BY <1>4, Own DEF AppendRow
  <2>2. CASE cmd[p].row.key[1] = "judge"
    BY <1>2, <1>4, <2>2 DEF AppendRow, Away
  <2>3. CASE cmd[p].row.key[1] # "judge"
    <3>1. cmd[p].latch \subseteq refusals[cmd[p].run]
      BY <2>1, <2>3 DEF Latched, Crossing, Crossed
    <3>2. pc'[p] = "tasks" /\ cmd'[p] = [cmd[p] EXCEPT !.row = NoRow, !.at = @ + 1]
      BY <1>1, <1>4, <2>3 DEF AppendRow, Goes
    <3>3. cmd'[p].latch = cmd[p].latch /\ cmd'[p].run = cmd[p].run
      BY <2>1, <3>2 DEF Commands
    <3> QED BY <2>1, <3>1, <3>2, <3>3 DEF Latched, Preparing, Crossing, Building, Crossed
  <2> QED BY <2>2, <2>3
<1>5. CASE FinishCandidate(p)
  <2>1. cmd[p] \in Commands
    BY <1>5, Own DEF FinishCandidate
  <2> DEFINE next == [cmd[p] EXCEPT !.todo = Tail(@), !.dirs = Append(@, cmd[p].run), !.done = {}, !.at = 1, !.latch = {}]
  <2>2. next.latch = {}
    BY <2>1 DEF Commands
  <2>3. CASE Goes(p, "next", next)
    <3>1. pc'[p] = "next" /\ cmd'[p] = next
      BY <1>1, <2>3 DEF Goes
    <3> QED BY <2>2, <3>1 DEF Latched, Preparing, Crossing, Building, Crossed
  <2> QED BY <1>5, <2>3, LeavesAway DEF FinishCandidate, AwaitRelease
<1>6. CASE JudgePhase(p) \/ JudgeReady(p) \/ JudgeRun(p) \/ JudgeSkips(p)
  BY <1>2, <1>6, LeavesAway DEF JudgePhase, JudgeReady, JudgeRun, JudgeSkips, Away
<1>7. CASE JudgeRow(p)
  <2>1. CASE Goes(p, "judge down", [cmd[p] EXCEPT !.fate = "failed"])
    BY <1>2, <2>1 DEF Away
  <2> DEFINE key == JudgeKey(cmd[p].log[cmd[p].at])
  <2>2. ASSUME NEW out \in {"decided", "skipped"}, Goes(p, "append", [cmd[p] EXCEPT !.row = Row(key, out, "none", "none", cmd[p])])
        PROVE  Latched(p)'
    <3>1. cmd[p] \in Commands
      BY <1>7, Own DEF JudgeRow
    <3> DEFINE row == Row(key, out, "none", "none", cmd[p])
    <3>2. row.out = out /\ row.key[1] = "judge"
      BY DEF Row, JudgeKey, Key
    <3>3. pc'[p] = "append" /\ cmd'[p] = [cmd[p] EXCEPT !.row = row]
      BY <1>1, <2>2 DEF Goes
    <3> HIDE DEF row
    <3>4. cmd'[p].row = row
      BY <3>1, <3>3 DEF Commands
    <3> QED BY <3>2, <3>3, <3>4 DEF Latched, Preparing, Crossing, Building, Crossed
  <2> QED BY <1>7, <2>1, <2>2 DEF JudgeRow
<1>8. CASE JudgeDown(p) \/ Finish(p) \/ Kill(p)
  BY <1>2, <1>8, LeavesAway DEF JudgeDown, AwaitRelease, Finish, Kill, Away
<1> QED BY <1>3, <1>4, <1>5, <1>6, <1>7, <1>8

\* The steps of a command, or none.
LEMMA LatchedSteps ==
    ASSUME Typed, NEW p \in Procs, Type(p) \/ Step(p) \/ Kill(p), \A q \in Procs : Latched(q)
    PROVE  \A q \in Procs : Latched(q)'
<1>1. Latched(p)'
  BY LatchedType, LatchedPreparing, LatchedCrossing, LatchedBuilding, LatchedRest DEF Step
<1>2. ASSUME NEW q \in Procs, q # p
      PROVE  Latched(q)'
  <2>1. pc'[q] = pc[q] /\ cmd'[q] = cmd[q]
    BY <1>2, OthersKept
  <2>2. pc[q] = "append" \/ Crossing(q) => cmd[q].run \in RunIds
    BY DEF Typed, Holds
  <2>3. pc[q] = "append" \/ Crossing(q) => refusals[cmd[q].run] \subseteq refusals'[cmd[q].run]
    BY <2>2, RefusalsGrow
  <2>4. Crossing(q)' <=> Crossing(q)
    BY <2>1 DEF Crossing, Crossed
  <2> QED BY <2>1, <2>3, <2>4 DEF Latched, Crossing
<1> QED BY <1>1, <1>2

\* The row that is appended, and no other, is new.
LEMMA AppendedRow ==
    ASSUME Typed, NEW p \in Procs, AppendRow(p), NEW r \in RunIds
    PROVE  /\ cmd[p].run \in RunIds /\ cmd[p].row \in Rows
           /\ runs'[r].head = runs[r].head
           /\ \/ runs'[r].rows = runs[r].rows
              \/ r = cmd[p].run /\ runs'[r].rows = Append(runs[r].rows, cmd[p].row)
<1>1. cmd[p].run \in RunIds /\ cmd[p].row \in Rows
  BY Own DEF AppendRow, Holds
<1>2. runs[r] \in OnDisk /\ runs' = [runs EXCEPT ![cmd[p].run] = Appended(runs[cmd[p].run], cmd[p].row)]
  BY <1>1 DEF AppendRow, Typed, TypeOK
<1>3. CASE r # cmd[p].run
  BY <1>1, <1>2, <1>3 DEF Typed, TypeOK
<1>4. CASE r = cmd[p].run
  <2>1. runs'[r] = Appended(runs[r], cmd[p].row)
    BY <1>1, <1>2, <1>4 DEF Typed, TypeOK
  <2>2. CASE runs[r].torn
    BY <1>1, <1>4, <2>1, <2>2 DEF Appended
  <2>3. CASE ~runs[r].torn
    <3>1. runs'[r] = [runs[r] EXCEPT !.rows = Append(runs[r].rows, cmd[p].row)]
      BY <1>2, <2>1, <2>3 DEF Appended, OnDisk
    <3> QED BY <1>1, <1>2, <1>4, <3>1 DEF OnDisk
  <2> QED BY <2>2, <2>3
<1> QED BY <1>1, <1>3, <1>4

LEMMA RowOfAppended ==
    ASSUME NEW rows \in Seq(Rows), NEW row \in Rows, NEW x \in Range(Append(rows, row))
    PROVE  x \in Range(rows) \/ x = row
<1>1. PICK i \in DOMAIN Append(rows, row) : x = Append(rows, row)[i]
  BY DEF Range
<1>2. i \in 1..Len(rows) + 1 /\ Len(rows) \in Nat /\ DOMAIN rows = 1..Len(rows)
  BY <1>1, AppendProperties
<1>3. CASE i = Len(rows) + 1
  BY <1>1, <1>3, AppendProperties
<1>4. CASE i \in 1..Len(rows)
  BY <1>1, <1>2, <1>4, AppendProperties DEF Range
<1> QED BY <1>2, <1>3, <1>4

LEMMA NeverExoneratedSteps ==
    ASSUME Typed, NEW p \in Procs, Type(p) \/ Step(p) \/ Kill(p), Latched(p), NeverExonerated
    PROVE  NeverExonerated'
<1> SUFFICES ASSUME NEW r \in RunIds, NEW row \in Range(runs'[r].rows), row.out = "refused"
             PROVE  row.key[1] \in refusals'[r]
  BY DEF NeverExonerated
<1>1. refusals[r] \subseteq refusals'[r]
  BY RefusalsGrow
<1>2. CASE row \in Range(runs[r].rows)
  BY <1>1, <1>2 DEF NeverExonerated
<1>3. CASE row \notin Range(runs[r].rows)
  <2>1. AppendRow(p)
    BY <1>3, RowsKept
  <2>2. r = cmd[p].run /\ runs'[r].rows = Append(runs[r].rows, cmd[p].row) /\ cmd[p].row \in Rows
    BY <1>3, <2>1, AppendedRow
  <2>3. runs[r].rows \in Seq(Rows)
    BY DEF Typed, TypeOK, OnDisk
  <2>4. row = cmd[p].row
    BY <1>3, <2>2, <2>3, RowOfAppended
  <2>5. row.key[1] \in refusals[r]
    BY <2>1, <2>2, <2>4 DEF AppendRow, Latched
  <2> QED BY <1>1, <2>5
<1> QED BY <1>2, <1>3

LEMMA LatchedNext ==
    ASSUME Typed, [Next]_vars, \A p \in Procs : Latched(p), NeverExonerated
    PROVE  (\A p \in Procs : Latched(p))' /\ NeverExonerated'
<1>1. CASE UNCHANGED <<pc, cmd, runs, refusals>>
  <2>1. \A p \in Procs : Latched(p)'
    BY <1>1 DEF Latched, Crossing, Crossed
  <2>2. NeverExonerated'
    BY <1>1 DEF NeverExonerated
  <2> QED BY <2>1, <2>2
<1>2. CASE ServerDies \/ UserStarts \/ Rebuild \/ UNCHANGED vars
  BY <1>1, <1>2 DEF ServerDies, UserStarts, Rebuild, vars
<1>3. ASSUME NEW p \in Procs, Type(p) \/ Step(p) \/ Kill(p)
      PROVE  (\A q \in Procs : Latched(q))' /\ NeverExonerated'
  BY <1>3, LatchedSteps, NeverExoneratedSteps
<1> QED BY <1>2, <1>3 DEF Next

\* What is recorded as refused, a server of that run did refuse: for any
\* number of terminals, servers dying and commands killed anywhere.
THEOREM NeverExoneratedAlways == Spec => []NeverExonerated
<1> DEFINE L == Typed /\ (\A p \in Procs : Latched(p)) /\ NeverExonerated
<1>1. Init => L
  <2> SUFFICES ASSUME Init
               PROVE  L
    OBVIOUS
  <2>1. \A p \in Procs : Latched(p)
    BY DEF Init, Latched, Preparing, Crossing, Building, Crossed
  <2>2. NeverExonerated
    BY DEF Init, NeverExonerated, NoRun, Range
  <2> QED BY <2>1, <2>2, TypedInit
<1>2. L /\ [Next]_vars => L'
  BY TypedNextStep, LatchedNext
<1>3. L => NeverExonerated
  OBVIOUS
<1> QED BY <1>1, <1>2, <1>3, PTL DEF Spec

-----------------------------------------------------------------------------
(* What the steps do to the command that takes them.                       *)

\* All that a crossing leaves alone.
SameWork(a, b) ==
    /\ a.cfg = b.cfg /\ a.resume = b.resume /\ a.exec = b.exec /\ a.todo = b.todo
    /\ a.action = b.action /\ a.stamp = b.stamp /\ a.run = b.run /\ a.done = b.done
    /\ a.at = b.at /\ a.dirs = b.dirs /\ a.left = b.left /\ a.log = b.log
    /\ a.id = b.id /\ a.fate = b.fate /\ a.tree = b.tree

\* A row says how bench came by the server, and what answered if anything did.
Witnessed(row, c) ==
    /\ row.action = c.action
    /\ row.by = IF server = NoServer \/ IsForeign(c.cfg) THEN <<"none", 0>>
                ELSE <<server.model, server.engine>>
    /\ row.out = "measured" => server # NoServer \/ IsForeign(c.cfg)

LEMMA CrossingEffect ==
    ASSUME Typed, NEW p \in Procs,
           CrossThroughput(p) \/ CrossProbe(p) \/ CrossForced(p) \/ CrossCodebase(p)
    PROVE  \/ pc'[p] = "finish" /\ cmd'[p] = [cmd[p] EXCEPT !.fate = "failed"]
           \/ /\ pc'[p] \in {"append", "splice"}
              /\ pc'[p] = "splice" => cmd[p].exec = "ready"
              /\ SameWork(cmd'[p], cmd[p])
              /\ cmd'[p].row.key = KeyAt(p) /\ Witnessed(cmd'[p].row, cmd[p])
<1> DEFINE goal ==
             \/ pc'[p] = "finish" /\ cmd'[p] = [cmd[p] EXCEPT !.fate = "failed"]
             \/ /\ pc'[p] \in {"append", "splice"}
                /\ pc'[p] = "splice" => cmd[p].exec = "ready"
                /\ SameWork(cmd'[p], cmd[p])
                /\ cmd'[p].row.key = KeyAt(p) /\ Witnessed(cmd'[p].row, cmd[p])
<1> SUFFICES goal
  OBVIOUS
<1>1. pc[p] = "tasks" /\ cmd[p] \in Commands /\ pc \in [Procs -> Places] /\ cmd \in [Procs -> Commands \cup {NoCmd}]
  <2>1. pc[p] = "tasks"
    BY DEF CrossThroughput, CrossProbe, CrossForced, CrossCodebase
  <2> QED BY <2>1, Own DEF Typed, TypeOK
<1>2. ASSUME NEW where \in {"append", "splice"}, where = "splice" => cmd[p].exec = "ready",
             NEW out \in {"measured", "unavailable", "refused"}, NEW fill, NEW compile,
             out = "measured" => server # NoServer \/ IsForeign(cmd[p].cfg),
             NEW STATE held, held \in {cmd[p], [cmd[p] EXCEPT !.latch = @ \cup {KeyAt(p)[1]}]},
             Goes(p, where, [held EXCEPT !.row = Row(KeyAt(p), out, fill, compile, held)])
      PROVE  goal
  <2> DEFINE row == Row(KeyAt(p), out, fill, compile, held)
             next == [held EXCEPT !.row = row]
  <2>1. pc'[p] = where /\ cmd'[p] = next
    BY <1>1, <1>2 DEF Goes
  <2>2. SameWork(held, cmd[p]) /\ DOMAIN held = DOMAIN cmd[p]
    BY <1>1, <1>2 DEF Commands, SameWork
  <2>3. row.key = KeyAt(p) /\ row.out = out /\ row.action = cmd[p].action
        /\ row.by = IF server = NoServer \/ IsForeign(cmd[p].cfg) THEN <<"none",
        0>> ELSE <<server.model, server.engine>>
    BY <2>2 DEF Row, SameWork
  <2> HIDE DEF row
  <2>4. SameWork(next, cmd[p]) /\ next.row = row
    BY <1>1, <2>2 DEF Commands, SameWork
  <2> HIDE DEF next
  <2> QED BY <1>2, <2>1, <2>3, <2>4 DEF Witnessed
<1> HIDE DEF goal
<1>3. ASSUME NEW out \in {"unavailable", "refused"}, Records(p, out, "none", cmd[p])
      PROVE  goal
  BY <1>2, <1>3 DEF Records
<1>4. ASSUME "answered" \in Answers(cmd[p].cfg), Records(p, "measured", "none", cmd[p])
      PROVE  goal
  <2>1. server # NoServer \/ IsForeign(cmd[p].cfg)
    BY <1>4 DEF Answers
  <2> QED BY <1>2, <1>4, <2>1 DEF Records
<1>5. ASSUME Records(p, "refused", "none", [cmd[p] EXCEPT !.latch = @ \cup {KeyAt(p)[1]}])
      PROVE  goal
  BY <1>2, <1>5 DEF Records
<1>6. CASE Leaves(p)
  BY <1>1, <1>6 DEF Leaves, Goes, goal
<1>7. CASE CrossThroughput(p)
  BY <1>4, <1>6, <1>7 DEF CrossThroughput
<1>8. CASE CrossProbe(p)
  BY <1>3, <1>4, <1>8 DEF CrossProbe
<1>9. CASE CrossForced(p)
  BY <1>3, <1>4, <1>5, <1>9 DEF CrossForced
<1>10. CASE CrossCodebase(p)
  <2>1. cmd[p].exec \in {"off", "ready", "unavailable"} /\ KeyAt(p)[1] = "codebase"
    BY <1>1, <1>10 DEF CrossCodebase, Commands, Execs
  <2>2. ASSUME "answered" \in Answers(cmd[p].cfg), NEW where \in {"append", "splice"}, where = "splice" => cmd[p].exec = "ready",
               NEW fill, NEW compile,
               Goes(p, where, [cmd[p] EXCEPT !.row = Row(KeyAt(p), "measured", fill, compile, cmd[p])])
        PROVE  goal
    <3>1. server # NoServer \/ IsForeign(cmd[p].cfg)
      BY <2>2 DEF Answers
    <3> QED BY <1>2, <2>2, <3>1
  <2> QED BY <1>3, <1>4, <1>5, <1>10, <2>1, <2>2 DEF CrossCodebase
<1> QED BY <1>7, <1>8, <1>9, <1>10

LEMMA BuildingEffect ==
    ASSUME Typed, NEW p \in Procs, SpliceFill(p) \/ CheckFill(p) \/ RevertFill(p)
    PROVE  /\ pc[p] \in Building
           /\ \/ pc'[p] = "finish" /\ cmd'[p] = [cmd[p] EXCEPT !.fate = "failed"]
              \/ /\ pc'[p] = (CASE pc[p] = "splice" -> "check" [] pc[p] = "check" -> "revert" [] pc[p] = "revert" -> "append")
                 /\ SameWork(cmd'[p], cmd[p])
                 /\ cmd'[p].row.key = cmd[p].row.key /\ cmd'[p].row.out = cmd[p].row.out
                 /\ cmd'[p].row.by = cmd[p].row.by /\ cmd'[p].row.action = cmd[p].row.action
<1>1. pc[p] \in Building /\ cmd[p] \in Commands /\ cmd[p].row \in Rows /\ pc \in [Procs -> Places] /\ cmd \in [Procs -> Commands \cup {NoCmd}]
  <2>1. pc[p] \in Building
    BY DEF SpliceFill, CheckFill, RevertFill, Building
  <2> QED BY <2>1, BuildingHolds DEF Typed, TypeOK
<1>2. CASE Leaves(p)
  BY <1>1, <1>2 DEF Leaves, Goes
<1>3. CASE SpliceFill(p) /\ ~Leaves(p)
  BY <1>1, <1>3 DEF SpliceFill, Goes, Commands, SameWork
<1>4. CASE CheckFill(p)
  <2>1. PICK verdict \in Verdicts \cup {"skipped"} : Goes(p, "revert", [cmd[p] EXCEPT !.row.compile = verdict])
    BY <1>4 DEF CheckFill
  <2> DEFINE row == [cmd[p].row EXCEPT !.compile = verdict]
             held == [cmd[p] EXCEPT !.row = row]
  <2>2. row.key = cmd[p].row.key /\ row.out = cmd[p].row.out /\ row.by = cmd[p].row.by /\ row.action = cmd[p].row.action
    BY <1>1 DEF Rows
  <2>3. pc[p] = "check" /\ pc'[p] = "revert" /\ cmd'[p] = held
    BY <1>1, <1>4, <2>1 DEF CheckFill, Goes
  <2> HIDE DEF row
  <2>4. SameWork(held, cmd[p]) /\ held.row = row
    BY <1>1 DEF Commands, SameWork
  <2> HIDE DEF held
  <2> QED BY <1>1, <2>2, <2>3, <2>4
<1>5. CASE RevertFill(p) /\ ~Leaves(p)
  <2> DEFINE held == [cmd[p] EXCEPT !.original = {}]
  <2>1. pc[p] = "revert" /\ Goes(p, "append", held)
    BY <1>5 DEF RevertFill
  <2>2. SameWork(held, cmd[p]) /\ held.row = cmd[p].row
    BY <1>1 DEF Commands, SameWork
  <2> HIDE DEF held
  <2>3. pc'[p] = "append" /\ cmd'[p] = held
    BY <1>1, <2>1 DEF Goes
  <2> QED BY <1>1, <2>1, <2>2, <2>3
<1> QED BY <1>2, <1>3, <1>4, <1>5

\* The heads of the runs change where a run is opened, and nowhere else.
LEMMA HeadsMove ==
    ASSUME Typed, NEW p \in Procs, Type(p) \/ Step(p) \/ Kill(p), NEW r \in RunIds
    PROVE  \/ runs'[r].head = runs[r].head
           \/ CreateRun(p) /\ r = cmd'[p].run /\ runs[r].head = NoDir /\ runs'[r].head = Blank
           \/ WriteStamp(p) /\ r = cmd[p].run /\ runs'[r].head = cmd[p].stamp /\ cmd[p].stamp \in Stamps
           \/ AdoptJudge(p) /\ r = cmd[p].resume /\ runs'[r].head = Blank /\ WouldAdopt(runs[r], cmd[p].stamp)
           \/ WriteAdopted(p) /\ r = cmd[p].resume /\ runs'[r].head = cmd[p].stamp /\ cmd[p].stamp \in Stamps
<1>1. runs \in [RunIds -> OnDisk] /\ pc \in [Procs -> Places] /\ cmd \in [Procs -> Commands \cup {NoCmd}]
  BY DEF Typed, TypeOK
<1>2. ASSUME NEW STATE i, i \in RunIds, NEW STATE stamp,
             runs' = [runs EXCEPT ![i] = StampWritten(@, stamp)]
      PROVE  runs'[r].head = IF r = i THEN stamp ELSE runs[r].head
  BY <1>1, <1>2 DEF StampWritten, OnDisk
<1>3. ASSUME NEW STATE i, i \in RunIds, runs' = [runs EXCEPT ![i] = StampBlanked(@)]
      PROVE  runs'[r].head = IF r = i THEN Blank ELSE runs[r].head
  BY <1>1, <1>3 DEF StampBlanked, OnDisk
<1>4. CASE CreateRun(p)
  <2> DEFINE i == CHOOSE id \in RunIds : runs[id].head = NoDir
  <2>1. i \in RunIds /\ runs[i].head = NoDir
    BY <1>4 DEF CreateRun
  <2>2. runs' = [runs EXCEPT ![i] = StampBlanked(@)] /\ cmd'[p].run = i
    <3>1. cmd[p] \in Commands
      BY <1>4, Own DEF CreateRun
    <3>2. runs' = [runs EXCEPT ![i] = StampBlanked(@)] /\ Goes(p, "stamp", [cmd[p] EXCEPT !.run = i])
      BY <1>4 DEF CreateRun
    <3> HIDE DEF i
    <3>3. cmd'[p] = [cmd[p] EXCEPT !.run = i]
      BY <1>1, <3>2 DEF Goes
    <3> QED BY <3>1, <3>2, <3>3 DEF Commands
  <2> HIDE DEF i
  <2> QED BY <1>3, <1>4, <2>1, <2>2
<1>5. CASE WriteStamp(p)
  <2>1. cmd[p].run \in RunIds /\ cmd[p].stamp \in Stamps
    BY <1>5, Own DEF WriteStamp, Holds, Stamping
  <2> QED BY ZenonT(30), <1>2, <1>5, <2>1 DEF WriteStamp
<1>6. CASE AdoptJudge(p)
  <2>1. cmd[p].resume \in RunIds
    BY <1>6, Own DEF AdoptJudge, Holds
  <2> QED BY <1>3, <1>6, <2>1 DEF AdoptJudge
<1>7. CASE WriteAdopted(p)
  <2>1. cmd[p].resume \in RunIds /\ cmd[p].stamp \in Stamps
    BY <1>7, Own DEF WriteAdopted, Holds, Stamping
  <2> QED BY ZenonT(30), <1>2, <1>7, <2>1 DEF WriteAdopted
<1>8. CASE AppendRow(p)
  BY <1>8, AppendedRow
<1>9. CASE Kill(p)
  <2>1. pc[p] = "append" => cmd[p].run \in RunIds
    BY Own DEF Holds
  <2> QED BY <1>1, <1>9, <2>1 DEF Kill, AppendTorn, OnDisk
<1>10. CASE ClearTree(p) \/ AddTree(p) \/ ExecState(p) \/ Resolve(p) \/ Confirm(p) \/ NextCandidate(p)
            \/ Ready(p) \/ BuildHead(p) \/ ResumeRun(p) \/ SkipDone(p)
  BY <1>10 DEF ClearTree, AddTree, ExecState, Resolve, Confirm, NextCandidate, Ready, BuildHead,
     ResumeRun, SkipDone
<1>11. CASE CrossThroughput(p) \/ CrossProbe(p) \/ CrossForced(p) \/ CrossCodebase(p)
            \/ SpliceFill(p) \/ CheckFill(p) \/ RevertFill(p) \/ FinishCandidate(p)
  BY <1>11 DEF CrossThroughput, CrossProbe, CrossForced, CrossCodebase, SpliceFill, CheckFill,
     RevertFill, FinishCandidate
<1>12. CASE JudgePhase(p) \/ JudgeReady(p) \/ JudgeRun(p) \/ JudgeSkips(p) \/ JudgeRow(p) \/ JudgeDown(p)
            \/ Finish(p) \/ Type(p)
  BY <1>12 DEF JudgePhase, JudgeReady, JudgeRun, JudgeSkips, JudgeRow, JudgeDown, Finish, Type
<1> QED BY <1>4, <1>5, <1>6, <1>7, <1>8, <1>9, <1>10, <1>11, <1>12 DEF Step

-----------------------------------------------------------------------------
(* One row per crossing, where one terminal types.                         *)

LEMMA KeysOfAppended ==
    ASSUME NEW rows \in Seq(Rows), NEW row \in Rows
    PROVE  /\ KeysOf(Append(rows, row)) = KeysOf(rows) \cup {row.key}
           /\ Distinct(rows) /\ row.key \notin KeysOf(rows) => Distinct(Append(rows, row))
<1> DEFINE more == Append(rows, row)
           n == Len(rows)
<1>1. /\ n \in Nat /\ DOMAIN rows = 1..n /\ DOMAIN more = 1..n + 1
      /\ \A i \in 1..n : more[i] = rows[i]
      /\ more[n + 1] = row
  BY AppendProperties
<1> HIDE DEF more, n
<1>0. 1..n + 1 = (1..n) \cup {n + 1}
  BY <1>1
<1>2. KeysOf(more) = KeysOf(rows) \cup {row.key}
  <2>1. KeysOf(more) = {more[i].key : i \in 1..n} \cup {more[n + 1].key}
    BY <1>0, <1>1 DEF KeysOf
  <2>2. {more[i].key : i \in 1..n} = {rows[i].key : i \in 1..n}
    BY <1>1
  <2> QED BY <1>1, <2>1, <2>2 DEF KeysOf
<1>3. ASSUME Distinct(rows), row.key \notin KeysOf(rows), NEW i \in 1..n + 1, NEW j \in 1..n + 1,
             more[i].key = more[j].key
      PROVE  i = j
  BY <1>1, <1>3 DEF Distinct, KeysOf
<1> QED BY <1>1, <1>2, <1>3 DEF Distinct, more

\* What is crossed next is not in the run yet ...
LEMMA FreshCrossing ==
    ASSUME Typed, NEW p \in Procs, Crossed(p), Keyed(p)
    PROVE  cmd[p].row.key \notin KeysOf(runs[cmd[p].run].rows)
<1>1. cmd[p].cfg \in Cfgs /\ cmd[p] \in Commands /\ Holds(p) /\ Crossing(p)
  BY Own DEF Crossed, Crossing
<1>2. Owes(p) /\ cmd[p].row.key = Plan(cmd[p].cfg)[cmd[p].at] /\ cmd[p].at \in Nat \ {0}
  BY <1>1 DEF Holds, KeyAt, Commands
<1>3. cmd[p].at \in 1..Len(Plan(cmd[p].cfg)) /\ cmd[p].row.key \notin cmd[p].done
  BY <1>1, <1>2, PlanOf DEF Owes
<1>4. cmd[p].row.key \notin {Plan(cmd[p].cfg)[j] : j \in 1..cmd[p].at - 1}
  <2> SUFFICES ASSUME NEW j \in 1..cmd[p].at - 1, Plan(cmd[p].cfg)[j] = Plan(cmd[p].cfg)[cmd[p].at]
               PROVE  FALSE
    BY <1>2
  <2>1. j \in 1..Len(Plan(cmd[p].cfg)) /\ j # cmd[p].at
    BY <1>1, <1>3, PlanOf
  <2> QED BY <1>1, <1>3, <2>1, PlanOf
<1> QED BY <1>1, <1>3, <1>4 DEF Keyed

LEMMA JudgeKeysDiffer ==
    ASSUME NEW STATE log, log \in Seq(Rows), Distinct(log), NEW STATE i, i \in DOMAIN log, NEW STATE j,
           j \in DOMAIN log,
           Eligible(log[i]), Eligible(log[j]), JudgeKey(log[i]) = JudgeKey(log[j])
    PROVE  i = j
<1>1. log[i].key \in Keys /\ log[j].key \in Keys /\ log[i].key[1] = "codebase" /\ log[j].key[1] = "codebase"
  <2>1. log[i] \in Rows /\ log[j] \in Rows
    OBVIOUS
  <2>2. log[i].key \in Keys /\ log[j].key \in Keys
    BY <2>1 DEF Rows
  <2> QED BY <2>2 DEF Eligible
<1>2. log[i].key[2] = log[j].key[2]
  BY DEF JudgeKey, Key
<1>3. log[i].key = log[j].key
  BY <1>1, <1>2, CodeKey
<1> QED BY <1>3 DEF Distinct

\* ... and neither is the verdict that is given next.
LEMMA FreshVerdict ==
    ASSUME Typed, NEW p \in Procs, Verdict(p), Keyed(p)
    PROVE  cmd[p].row.key \notin KeysOf(runs[cmd[p].run].rows)
<1> DEFINE c == cmd[p]
           judged == {JudgeKey(c.log[j]) : j \in {i \in DOMAIN c.log : i < c.at /\ Eligible(c.log[i])}}
<1>1. c \in Commands /\ c.at \in Owed(c.log) /\ c.row.key = JudgeKey(c.log[c.at])
  BY Own DEF Verdict, Holds
<1>2. c.log \in Seq(Rows) /\ c.at \in Nat /\ c.at \in DOMAIN c.log /\ Eligible(c.log[c.at]) /\ c.row.key \notin KeysOf(c.log)
  BY <1>1 DEF Commands, Owed, IsDone
<1>3. Distinct(c.log) /\ KeysOf(runs[c.run].rows) \subseteq KeysOf(c.log) \cup judged
  BY DEF Keyed
<1>4. ASSUME NEW j \in DOMAIN c.log, j < c.at, Eligible(c.log[j]), JudgeKey(c.log[j]) = c.row.key
      PROVE  FALSE
  <2>1. j = c.at
    BY <1>1, <1>2, <1>3, <1>4, JudgeKeysDiffer
  <2> QED BY <1>2, <1>4, <2>1
<1> QED BY <1>2, <1>3, <1>4

\* Where nothing is asked of the rows of a command's run.
Resting == Away \ {"judging"}

LEMMA KeyedResting ==
    ASSUME NEW p \in Procs, pc'[p] \in Resting
    PROVE  Keyed(p)'
BY DEF Resting, Away, Keyed, Preparing, Crossing, Building, Crossed, Verdict

LEMMA LeavesResting ==
    ASSUME Typed, NEW p \in Procs, Leaves(p)
    PROVE  pc'[p] = "finish" /\ Keyed(p)'
<1>1. pc'[p] = "finish"
  BY DEF Leaves, Goes, Typed, TypeOK
<1> QED BY <1>1, KeyedResting DEF Resting, Away

LEMMA KeyedType ==
    ASSUME Typed, NEW p \in Procs, Type(p)
    PROVE  Keyed(p)'
<1>1. PICK where \in {"clear", "resolve"}, resume \in RunIds \cup {NoRunId} :
        pc'[p] = where /\ cmd'[p] = Command(Head(session[p]), resume, typed + 1)
  BY DEF Type, Typed, TypeOK
<1>2. cmd'[p].done = {} /\ cmd'[p].at = 1
  BY <1>1 DEF Command
<1> QED BY <1>1, <1>2 DEF Keyed, Preparing, Crossing, Building, Crossed, Verdict

LEMMA KeyedPreparing ==
    ASSUME Typed, NEW p \in Procs, Keyed(p),
           ClearTree(p) \/ AddTree(p) \/ ExecState(p) \/ Resolve(p) \/ Confirm(p) \/ NextCandidate(p)
             \/ Ready(p) \/ BuildHead(p) \/ AdoptJudge(p) \/ WriteAdopted(p)
    PROVE  Keyed(p)'
<1>1. pc[p] \in Preparing /\ cmd[p] \in Commands /\ p \in DOMAIN pc /\ p \in DOMAIN cmd
  <2>1. pc[p] \in Preparing
    BY DEF ClearTree, AddTree, ExecState, Resolve, Confirm, NextCandidate, Ready, BuildHead,
       AdoptJudge, WriteAdopted, Preparing
  <2> QED BY <2>1, Own DEF Preparing, Typed, TypeOK
<1>2. cmd[p].done = {} /\ cmd[p].at = 1
  BY <1>1 DEF Keyed
<1>3. ASSUME NEW where \in (Preparing \cup {"judge", "finish"}) \ {"stamp"}, NEW STATE held, Goes(p,
             where, held),
             held.done = cmd[p].done, held.at = cmd[p].at
      PROVE  Keyed(p)'
  <2>1. pc'[p] = where /\ cmd'[p] = held
    BY <1>1, <1>3 DEF Goes
  <2> QED BY <1>2, <1>3, <2>1 DEF Keyed, Preparing, Crossing, Building, Crossed, Verdict
<1>4. CASE ClearTree(p) \/ AddTree(p)
  BY <1>1, <1>3, <1>4, LeavesResting DEF ClearTree, AddTree, Preparing, Commands
<1>5. CASE ExecState(p)
  BY <1>1, <1>3, <1>5, LeavesResting DEF ExecState, Preparing, Commands
<1>6. CASE Resolve(p) \/ Confirm(p)
  BY <1>1, <1>3, <1>6, LeavesResting DEF Resolve, Confirm, Preparing, Commands
<1>7. CASE NextCandidate(p) \/ Ready(p)
  BY <1>1, <1>3, <1>7, LeavesResting DEF NextCandidate, Ready, Preparing, Commands
<1>8. CASE BuildHead(p)
  BY <1>1, <1>3, <1>8 DEF BuildHead, Preparing, Commands
<1>9. CASE AdoptJudge(p) \/ WriteAdopted(p)
  BY <1>1, <1>3, <1>9, LeavesResting DEF AdoptJudge, WriteAdopted, Preparing, Commands
<1> QED BY <1>4, <1>5, <1>6, <1>7, <1>8, <1>9

LEMMA KeyedOpening ==
    ASSUME Typed, NEW p \in Procs, Keyed(p), NothingUnstamped, CreateRun(p) \/ WriteStamp(p) \/ ResumeRun(p)
    PROVE  Keyed(p)'
<1>1. /\ cmd[p] \in Commands /\ Holds(p) /\ pc \in [Procs -> Places] /\ cmd \in [Procs -> Commands \cup {NoCmd}]
      /\ runs \in [RunIds -> OnDisk]
  <2>1. pc[p] # "idle"
    BY DEF CreateRun, WriteStamp, ResumeRun
  <2> QED BY <2>1, Own DEF Typed, TypeOK
<1>2. cmd[p].done = {} /\ cmd[p].at = 1 /\ pc[p] \in {"create", "stamp", "resume"}
  BY DEF CreateRun, WriteStamp, ResumeRun, Keyed, Preparing
<1>3. CASE CreateRun(p)
  <2> DEFINE r == CHOOSE id \in RunIds : runs[id].head = NoDir
  <2>1. r \in RunIds /\ runs[r].head = NoDir
    BY <1>3 DEF CreateRun
  <2>2. Goes(p, "stamp", [cmd[p] EXCEPT !.run = r])
    BY <1>3 DEF CreateRun
  <2> HIDE DEF r
  <2>3. pc'[p] = "stamp" /\ cmd'[p] = [cmd[p] EXCEPT !.run = r]
    BY <1>1, <2>2 DEF Goes
  <2>4. cmd'[p].done = {} /\ cmd'[p].at = 1 /\ cmd'[p].run = r
    BY <1>1, <1>2, <2>3 DEF Commands
  <2>5. runs'[r].rows = <<>>
    <3>1. ~AppendRow(p)
      BY <1>3 DEF CreateRun, AppendRow
    <3> QED BY <1>3, <2>1, <3>1, RowsKept DEF NothingUnstamped, Step
  <2> QED BY <2>3, <2>4, <2>5 DEF Keyed, Preparing, Crossing, Building, Crossed, Verdict
<1>4. CASE WriteStamp(p)
  <2>1. pc'[p] = "tasks" /\ cmd'[p] = cmd[p] /\ pc[p] = "stamp" /\ ~AppendRow(p)
    BY <1>1, <1>4 DEF WriteStamp, Goes, AppendRow
  <2>2. cmd[p].run \in RunIds /\ cmd[p].stamp \in Stamps /\ runs[cmd[p].run].rows = <<>>
    BY <1>1, <2>1 DEF Holds, Stamping, Keyed
  <2>3. runs'[cmd[p].run].rows = <<>>
    BY <1>4, <2>1, <2>2, RowsKept DEF Step
  <2>4. KeysOf(runs'[cmd[p].run].rows) = {}
    BY <2>3 DEF KeysOf
  <2>5. runs'[cmd[p].run].head # NoDir
    BY <1>1, <1>4, <2>2, StampsAssumption DEF WriteStamp, StampWritten, OnDisk
  <2> QED BY <2>1, <2>4, <2>5 DEF Keyed, Preparing, Crossing, Building, Crossed, Verdict
<1>5. CASE ResumeRun(p)
  <2> DEFINE done == KeysOf(runs[cmd[p].resume].rows)
             held == [cmd[p] EXCEPT !.run = cmd[p].resume, !.done = done]
  <2>1. CASE Leaves(p)
    BY <2>1, LeavesResting
  <2>2. CASE Loads(runs[cmd[p].resume]) /\ Goes(p, "tasks", held)
    <3>1. UNCHANGED runs
      BY <1>5 DEF ResumeRun
    <3> HIDE DEF done
    <3>2. held.run = cmd[p].resume /\ held.done = done
      BY <1>1 DEF Commands
    <3> HIDE DEF held
    <3>3. pc'[p] = "tasks" /\ cmd'[p] = held
      BY <1>1, <2>2 DEF Goes
    <3>4. KeysOf(runs'[held.run].rows) \subseteq held.done /\ runs'[held.run].head # NoDir
      BY <2>2, <3>1, <3>2 DEF done, Loads
    <3> QED BY <3>3, <3>4 DEF Keyed, Preparing, Crossing, Building, Crossed, Verdict
  <2> QED BY <1>5, <2>1, <2>2 DEF ResumeRun, Resumable
<1> QED BY <1>3, <1>4, <1>5

\* A crossing stays the one it is while it is made, built and put in hand.
LEMMA KeyedMade ==
    ASSUME Typed, Typed', NEW p \in Procs, Keyed(p), Crossing(p), UNCHANGED runs,
           pc'[p] \in {"tasks", "append"} \cup Building, SameWork(cmd'[p], cmd[p]),
           pc'[p] = "append" => cmd'[p].row.key[1] # "judge"
    PROVE  Keyed(p)'
BY DEF Keyed, Preparing, Crossing, Building, Crossed, Verdict, SameWork

LEMMA KeyedCrossing ==
    ASSUME Typed, Typed', NEW p \in Procs, Keyed(p),
           CrossThroughput(p) \/ CrossProbe(p) \/ CrossForced(p) \/ CrossCodebase(p)
             \/ SpliceFill(p) \/ CheckFill(p) \/ RevertFill(p)
    PROVE  Keyed(p)'
<1>1. UNCHANGED runs
  BY DEF CrossThroughput, CrossProbe, CrossForced, CrossCodebase, SpliceFill, CheckFill, RevertFill
<1>2. CASE pc'[p] = "finish"
  BY <1>2, KeyedResting DEF Resting, Away
<1>3. CASE CrossThroughput(p) \/ CrossProbe(p) \/ CrossForced(p) \/ CrossCodebase(p)
  <2>1. pc[p] = "tasks" /\ Owes(p) /\ cmd[p] \in Commands
    BY <1>3, Own DEF CrossThroughput, CrossProbe, CrossForced, CrossCodebase
  <2>2. KeyAt(p)[1] # "judge"
    BY <2>1, KeyAtPlan, PlanKey
  <2> QED BY <1>1, <1>2, <1>3, <2>1, <2>2, CrossingEffect, KeyedMade DEF Crossing, Building
<1>4. CASE SpliceFill(p) \/ CheckFill(p) \/ RevertFill(p)
  <2>1. pc[p] \in Building
    BY <1>4, BuildingEffect
  <2>2. cmd[p].row.key[1] # "judge"
    BY <2>1, BuildingHolds DEF CodeKeys
  <2>3. pc'[p] = "finish" \/ (pc'[p] \in Building \cup {"append"} /\ SameWork(cmd'[p], cmd[p]) /\ cmd'[p].row.key = cmd[p].row.key)
    BY <1>4, BuildingEffect DEF Building
  <2> QED BY <1>1, <1>2, <2>1, <2>2, <2>3, KeyedMade DEF Crossing
<1> QED BY <1>3, <1>4

LEMMA KeyedSkip ==
    ASSUME Typed, NEW p \in Procs, Keyed(p), SkipDone(p)
    PROVE  Keyed(p)'
<1> DEFINE c == cmd[p]
<1>1. c \in Commands /\ pc[p] = "tasks" /\ UNCHANGED runs /\ c.at \in Nat
  BY Own DEF SkipDone, Commands
<1>2. pc'[p] = "tasks" /\ cmd'[p] = [c EXCEPT !.at = @ + 1]
  BY DEF SkipDone, Goes, Typed, TypeOK
<1>3. cmd'[p].cfg = c.cfg /\ cmd'[p].run = c.run /\ cmd'[p].done = c.done /\ cmd'[p].at = c.at + 1
  BY <1>1, <1>2 DEF Commands
<1>4. {Plan(c.cfg)[j] : j \in 1..c.at - 1} \subseteq {Plan(c.cfg)[j] : j \in 1..(c.at + 1) - 1}
  BY <1>1
<1>5. KeysOf(runs[c.run].rows) \subseteq c.done \cup {Plan(c.cfg)[j] : j \in 1..c.at - 1} /\ runs[c.run].head # NoDir
  BY <1>1 DEF Keyed, Crossing
<1>6. KeysOf(runs[c.run].rows) \subseteq c.done \cup {Plan(c.cfg)[j] : j \in 1..(c.at + 1) - 1}
  BY <1>4, <1>5
<1> QED BY <1>1, <1>2, <1>3, <1>5, <1>6 DEF Keyed, Preparing, Crossing, Building, Crossed, Verdict

\* The judge goes down the rows it read, and knows which verdicts it gave.
LEMMA KeyedJudging ==
    ASSUME NEW p \in Procs, pc'[p] = "judging" \/ (pc'[p] = "append" /\ cmd'[p].row.key[1] = "judge"),
           NEW log, NEW n, NEW run, cmd'[p].log = log, cmd'[p].at = n, cmd'[p].run = run,
           Distinct(log), runs'[run].head # NoDir,
           KeysOf(runs'[run].rows) \subseteq
             KeysOf(log) \cup {JudgeKey(log[j]) : j \in {i \in DOMAIN log : i < n /\ Eligible(log[i])}}
    PROVE  Keyed(p)'
BY DEF Keyed, Preparing, Crossing, Building, Crossed, Verdict

LEMMA KeyedAppend ==
    ASSUME Typed, NEW p \in Procs, Keyed(p), AppendRow(p)
    PROVE  Keyed(p)'
<1> DEFINE c == cmd[p]
           rows == runs[c.run].rows
           crossed(n) == {Plan(c.cfg)[j] : j \in 1..n - 1}
           judged(n) == {JudgeKey(c.log[j]) : j \in {i \in DOMAIN c.log : i < n /\ Eligible(c.log[i])}}
<1>1. c \in Commands /\ Holds(p) /\ pc[p] = "append" /\ c.at \in Nat \ {0}
  BY Own DEF AppendRow, Commands
<1>2. c.run \in RunIds /\ c.row \in Rows /\ rows \in Seq(Rows)
  BY <1>1 DEF Holds, Typed, TypeOK, OnDisk
<1>3. KeysOf(runs'[c.run].rows) \subseteq KeysOf(rows) \cup {c.row.key}
  <2>1. runs'[c.run].rows = rows \/ runs'[c.run].rows = Append(rows, c.row)
    BY <1>2, AppendedRow
  <2>2. KeysOf(Append(rows, c.row)) = KeysOf(rows) \cup {c.row.key}
    BY <1>2, KeysOfAppended
  <2> QED BY <2>1, <2>2
<1>4. runs'[c.run].head = runs[c.run].head
  BY <1>2, AppendedRow
<1>5. /\ pc'[p] = IF c.row.key[1] = "judge" THEN "judging" ELSE "tasks"
      /\ cmd'[p] = [c EXCEPT !.row = NoRow, !.at = @ + 1]
  BY DEF AppendRow, Goes, Typed, TypeOK
<1>6. cmd'[p].cfg = c.cfg /\ cmd'[p].run = c.run /\ cmd'[p].done = c.done /\ cmd'[p].at = c.at + 1 /\ cmd'[p].log = c.log
  BY <1>1, <1>5 DEF Commands
<1>7. CASE Crossed(p)
  <2>1. KeysOf(rows) \subseteq c.done \cup crossed(c.at) /\ runs[c.run].head # NoDir
    BY <1>7 DEF Keyed, Crossing
  <2>2. c.row.key \in crossed(c.at + 1) /\ crossed(c.at) \subseteq crossed(c.at + 1)
    <3>1. c.row.key = Plan(c.cfg)[c.at]
      BY <1>1, <1>7 DEF Holds, KeyAt
    <3>2. c.at \in 1..(c.at + 1) - 1 /\ 1..c.at - 1 \subseteq 1..(c.at + 1) - 1
      BY <1>1
    <3> QED BY <3>1, <3>2
  <2>3. KeysOf(runs'[c.run].rows) \subseteq c.done \cup crossed(c.at + 1)
    BY <1>3, <2>1, <2>2
  <2>4. pc'[p] = "tasks"
    BY <1>5, <1>7 DEF Crossed
  <2> HIDE DEF rows
  <2> QED BY <1>4, <1>6, <2>1, <2>3, <2>4 DEF Keyed, Preparing, Crossing, Building, Crossed, Verdict
<1>8. CASE Verdict(p)
  <2>1. Distinct(c.log) /\ KeysOf(rows) \subseteq KeysOf(c.log) \cup judged(c.at) /\ runs[c.run].head # NoDir
    BY <1>8 DEF Keyed
  <2>2. c.row.key \in judged(c.at + 1) /\ judged(c.at) \subseteq judged(c.at + 1)
    <3>1. c.row.key = JudgeKey(c.log[c.at]) /\ c.at \in DOMAIN c.log /\ Eligible(c.log[c.at])
      BY <1>1, <1>8 DEF Holds, Owed
    <3>2. c.log \in Seq(Rows)
      BY <1>1 DEF Commands
    <3>3. DOMAIN c.log = 1..Len(c.log) /\ Len(c.log) \in Nat
      BY <3>2
    <3>4. c.at < c.at + 1 /\ \A i \in DOMAIN c.log : i < c.at => i < c.at + 1
      BY <1>1, <3>3
    <3> QED BY <3>1, <3>4
  <2>3. KeysOf(runs'[c.run].rows) \subseteq KeysOf(c.log) \cup judged(c.at + 1)
    BY <1>3, <2>1, <2>2
  <2>4. pc'[p] = "judging"
    BY <1>5, <1>8 DEF Verdict
  <2> HIDE DEF rows
  <2> QED BY <1>4, <1>6, <2>1, <2>3, <2>4, KeyedJudging
<1> QED BY <1>1, <1>7, <1>8 DEF Crossed, Verdict

LEMMA KeyedRest ==
    ASSUME Typed, Typed', NEW p \in Procs, Keyed(p), KeyedOnce,
           FinishCandidate(p) \/ JudgePhase(p) \/ JudgeReady(p) \/ JudgeRun(p)
             \/ JudgeSkips(p) \/ JudgeRow(p) \/ JudgeDown(p) \/ Finish(p) \/ Kill(p)
    PROVE  Keyed(p)'
<1>1. pc \in [Procs -> Places] /\ cmd \in [Procs -> Commands \cup {NoCmd}]
  BY DEF Typed, TypeOK
<1>2. ASSUME NEW where \in Resting, NEW STATE held, Goes(p, where, held)
      PROVE  Keyed(p)'
  BY <1>1, <1>2, KeyedResting DEF Goes, Resting
<1>3. CASE FinishCandidate(p)
  <2>1. cmd[p] \in Commands
    BY <1>3, Own DEF FinishCandidate
  <2> DEFINE next == [cmd[p] EXCEPT !.todo = Tail(@), !.dirs = Append(@, cmd[p].run), !.done = {}, !.at = 1, !.latch = {}]
  <2>2. next.done = {} /\ next.at = 1
    BY <2>1 DEF Commands
  <2>3. CASE Goes(p, "next", next)
    <3>1. pc'[p] = "next" /\ cmd'[p] = next
      BY <1>1, <2>3 DEF Goes
    <3> QED BY <2>2, <3>1 DEF Keyed, Preparing, Crossing, Building, Crossed, Verdict
  <2> QED BY <1>3, <2>3, LeavesResting DEF FinishCandidate, AwaitRelease
<1>4. CASE JudgePhase(p) \/ JudgeReady(p)
  BY <1>2, <1>4, LeavesResting DEF JudgePhase, JudgeReady, Resting, Away
<1>5. CASE JudgeDown(p) \/ Finish(p) \/ Kill(p)
  BY <1>2, <1>5, LeavesResting DEF JudgeDown, AwaitRelease, Finish, Kill, Resting, Away
<1>6. CASE JudgeRun(p)
  <2> DEFINE c == cmd[p]
             log == runs[Head(c.left)].rows
             held == [c EXCEPT !.run = Head(c.left), !.log = log, !.left = Tail(@), !.at = 1]
  <2>1. CASE Goes(p, "judge down", c) \/ Goes(p, "judge down", [c EXCEPT !.fate = "failed"])
    BY <1>2, <2>1 DEF Resting, Away
  <2>2. CASE c.left # <<>> /\ Loads(runs[Head(c.left)]) /\ Goes(p, "judging", held)
    <3>1. c \in Commands /\ UNCHANGED runs
      BY <1>6, Own DEF JudgeRun
    <3>2. c.left \in Seq(RunIds)
      BY <3>1 DEF Commands
    <3>3. Head(c.left) \in RunIds
      BY <2>2, <3>2
    <3>4. Distinct(log)
      BY <3>3 DEF KeyedOnce, Distinct
    <3> HIDE DEF log
    <3>5. held.run = Head(c.left) /\ held.log = log
      BY <3>1 DEF Commands
    <3> HIDE DEF held
    <3>6. pc'[p] = "judging" /\ cmd'[p] = held
      BY <1>1, <2>2 DEF Goes
    <3>7. KeysOf(runs'[held.run].rows) = KeysOf(held.log) /\ runs'[held.run].head # NoDir /\ Distinct(held.log)
      BY <2>2, <3>1, <3>4, <3>5 DEF log, Loads
    <3> QED BY <3>6, <3>7, KeyedJudging
  <2> QED BY <1>6, <2>1, <2>2 DEF JudgeRun
<1>7. CASE JudgeSkips(p)
  <2> DEFINE c == cmd[p]
             judged(n) == {JudgeKey(c.log[j]) : j \in {i \in DOMAIN c.log : i < n /\ Eligible(c.log[i])}}
  <2>1. CASE Goes(p, "judge run", [c EXCEPT !.log = <<>>])
    BY <1>2, <2>1 DEF Resting, Away
  <2>2. CASE Goes(p, "judging", [c EXCEPT !.at = @ + 1])
    <3>1. c \in Commands /\ pc[p] = "judging" /\ UNCHANGED runs /\ c.at \in Nat /\ c.log \in Seq(Rows)
      BY <1>7, Own DEF JudgeSkips, Commands
    <3>2. pc'[p] = "judging" /\ cmd'[p] = [c EXCEPT !.at = @ + 1]
      BY <1>1, <2>2 DEF Goes
    <3>3. cmd'[p].run = c.run /\ cmd'[p].log = c.log /\ cmd'[p].at = c.at + 1
      BY <3>1, <3>2 DEF Commands
    <3>4. Distinct(c.log) /\ KeysOf(runs[c.run].rows) \subseteq KeysOf(c.log) \cup judged(c.at) /\ runs[c.run].head # NoDir
      BY <3>1 DEF Keyed
    <3>5. judged(c.at) \subseteq judged(c.at + 1)
      <4>1. DOMAIN c.log = 1..Len(c.log) /\ Len(c.log) \in Nat
        BY <3>1
      <4>2. \A i \in DOMAIN c.log : i < c.at => i < c.at + 1
        BY <3>1, <4>1
      <4> QED BY <4>2
    <3>6. KeysOf(runs[c.run].rows) \subseteq KeysOf(c.log) \cup judged(c.at + 1)
      BY <3>4, <3>5
    <3> QED BY <3>1, <3>2, <3>3, <3>4, <3>6, KeyedJudging
  <2> QED BY <1>7, <2>1, <2>2 DEF JudgeSkips
<1>8. CASE JudgeRow(p)
  <2> DEFINE c == cmd[p]
             key == JudgeKey(c.log[c.at])
  <2>1. CASE Goes(p, "judge down", [c EXCEPT !.fate = "failed"])
    BY <1>2, <2>1 DEF Resting, Away
  <2>2. ASSUME NEW out \in {"decided", "skipped"}, Goes(p, "append", [c EXCEPT !.row = Row(key, out, "none", "none", c)])
        PROVE  Keyed(p)'
    <3>1. c \in Commands /\ pc[p] = "judging" /\ UNCHANGED runs
      BY <1>8, Own DEF JudgeRow
    <3> DEFINE row == Row(key, out, "none", "none", c)
    <3>2. row.key[1] = "judge"
      BY DEF Row, JudgeKey, Key
    <3>3. pc'[p] = "append" /\ cmd'[p] = [c EXCEPT !.row = row]
      BY <1>1, <2>2 DEF Goes
    <3> HIDE DEF row
    <3>4. cmd'[p].row = row /\ cmd'[p].run = c.run /\ cmd'[p].log = c.log /\ cmd'[p].at = c.at
      BY <3>1, <3>3 DEF Commands
    <3>5. /\ Distinct(c.log) /\ runs[c.run].head # NoDir
          /\ KeysOf(runs[c.run].rows) \subseteq
               KeysOf(c.log) \cup {JudgeKey(c.log[j]) : j \in {i \in DOMAIN c.log : i < c.at /\ Eligible(c.log[i])}}
      BY <3>1 DEF Keyed
    <3> QED BY <3>1, <3>2, <3>3, <3>4, <3>5, KeyedJudging
  <2> QED BY <1>8, <2>1, <2>2 DEF JudgeRow
<1> QED BY <1>3, <1>4, <1>5, <1>6, <1>7, <1>8

LEMMA KeyedStep ==
    ASSUME Typed, Typed', NEW p \in Procs, Keyed(p), KeyedOnce, NothingUnstamped,
           Type(p) \/ Step(p) \/ Kill(p)
    PROVE  Keyed(p)'
BY KeyedType, KeyedPreparing, KeyedOpening, KeyedCrossing, KeyedSkip, KeyedAppend, KeyedRest DEF Step

\* A run gets a row where its command knows the row to be new, and a stamp first.
LEMMA RunsKeyed ==
    ASSUME Typed, NEW p \in Procs, Keyed(p), KeyedOnce, NothingUnstamped, Type(p) \/ Step(p) \/ Kill(p)
    PROVE  KeyedOnce' /\ NothingUnstamped'
<1>1. CASE ~AppendRow(p)
  <2>1. \A r \in RunIds : runs'[r].rows = runs[r].rows
    BY <1>1, RowsKept
  <2>2. \A r \in RunIds : runs'[r].head = NoDir => runs[r].head = NoDir
    BY HeadsMove, StampsAssumption
  <2> QED BY <2>1, <2>2 DEF KeyedOnce, NothingUnstamped
<1>2. CASE AppendRow(p)
  <2>1. cmd[p].row.key \notin KeysOf(runs[cmd[p].run].rows) /\ runs[cmd[p].run].head # NoDir
    BY <1>2, FreshCrossing, FreshVerdict DEF AppendRow, Crossed, Verdict, Keyed, Crossing
  <2>2. ASSUME NEW r \in RunIds
        PROVE  Distinct(runs'[r].rows) /\ (runs'[r].head = NoDir => runs'[r].rows = <<>>)
    <3>1. Distinct(runs[r].rows) /\ runs[r].rows \in Seq(Rows)
      BY DEF KeyedOnce, Distinct, Typed, TypeOK, OnDisk
    <3>2. CASE runs'[r].rows = runs[r].rows
      BY <1>2, <3>1, <3>2, AppendedRow DEF NothingUnstamped
    <3>3. CASE r = cmd[p].run /\ runs'[r].rows = Append(runs[r].rows, cmd[p].row)
      <4>1. Distinct(runs'[r].rows)
        BY <1>2, <2>1, <3>1, <3>3, AppendedRow, KeysOfAppended
      <4> QED BY <1>2, <2>1, <3>3, <4>1, AppendedRow
    <3> QED BY <1>2, <3>2, <3>3, AppendedRow
  <2> QED BY <2>2 DEF KeyedOnce, Distinct, NothingUnstamped
<1> QED BY <1>1, <1>2

\* What goes on around the commands touches neither them nor the runs.
LEMMA Around ==
    ASSUME ServerDies \/ UserStarts \/ Rebuild \/ UNCHANGED vars
    PROVE  UNCHANGED <<runs, tree, pc, cmd, session, refusals>>
BY DEF ServerDies, UserStarts, Rebuild, vars

LEMMA KeyedNext ==
    ASSUME OneTerminal, Typed, [Next]_vars, \A p \in Procs : Keyed(p), KeyedOnce, NothingUnstamped
    PROVE  (\A p \in Procs : Keyed(p))' /\ KeyedOnce' /\ NothingUnstamped'
<1>1. CASE ServerDies \/ UserStarts \/ Rebuild \/ UNCHANGED vars
  <2>1. UNCHANGED <<runs, pc, cmd>>
    BY <1>1, Around
  <2>2. \A p \in Procs : Keyed(p)'
    BY <2>1 DEF Keyed, Crossing, Crossed, Verdict
  <2> QED BY <2>1, <2>2 DEF KeyedOnce, NothingUnstamped
<1>2. ASSUME NEW p \in Procs, Type(p) \/ Step(p) \/ Kill(p)
      PROVE  (\A q \in Procs : Keyed(q))' /\ KeyedOnce' /\ NothingUnstamped'
  <2>1. Keyed(p)'
    BY <1>2, TypedNextStep, KeyedStep
  <2>2. \A q \in Procs : q = p
    BY DEF OneTerminal
  <2> QED BY <1>2, <2>1, <2>2, RunsKeyed
<1> QED BY <1>1, <1>2 DEF Next

LEMMA KeyedInit ==
    ASSUME Init
    PROVE  (\A p \in Procs : Keyed(p)) /\ KeyedOnce /\ NothingUnstamped
BY DEF Init, Keyed, Preparing, Crossing, Building, Crossed, Verdict, KeyedOnce, NothingUnstamped, NoRun

\* No crossing is recorded twice, over any number of resumes and kills, as long
\* as one terminal types: already_done and verdict_for look at a set that holds
\* every key of the run, though it is read once, when the run is opened.  The
\* hypothesis is that a plan names no key twice (PlanAssumption); nothing in the
\* code sees to it: a depth may stand twice in the configuration, and two spans
\* of one line share a task id.
THEOREM KeyedOnceAlways ==
    ASSUME OneTerminal
    PROVE  Spec => []KeyedOnce
<1> DEFINE K == Typed /\ (\A p \in Procs : Keyed(p)) /\ KeyedOnce /\ NothingUnstamped
<1>1. Init => K
  BY TypedInit, KeyedInit
<1>2. K /\ [Next]_vars => K'
  BY TypedNextStep, KeyedNext
<1>3. K => KeyedOnce
  OBVIOUS
<1> QED BY <1>1, <1>2, <1>3, PTL DEF Spec

-----------------------------------------------------------------------------
(* What is built is HEAD with one fill in it, where one terminal types.    *)

\* Where the checkout is not asked about.
Apart == {"idle", "clear", "add", "finish"}

LEMMA ApartFill ==
    ASSUME NEW p \in Procs, pc'[p] \in Apart
    PROVE  OneFill(p)'
BY DEF Apart, OneFill, Building

LEMMA LeavesApart ==
    ASSUME Typed, NEW p \in Procs, Leaves(p)
    PROVE  OneFill(p)'
<1>1. pc'[p] = "finish"
  BY DEF Leaves, Goes, Typed, TypeOK
<1> QED BY <1>1, ApartFill DEF Apart

\* A command that neither builds nor touches the checkout finds it as it was.
LEMMA FillKept ==
    ASSUME NEW p \in Procs, OneFill(p), pc[p] \in Places \ (Apart \cup {"exec", "check", "revert"}),
           pc'[p] \in Places \ ({"exec"} \cup Building), cmd'[p].exec = cmd[p].exec, UNCHANGED tree
    PROVE  OneFill(p)'
BY DEF Apart, OneFill, Building, Places

LEMMA FillMoves ==
    ASSUME Typed, NEW p \in Procs, OneFill(p),
           Resolve(p) \/ Confirm(p) \/ NextCandidate(p)
             \/ Ready(p) \/ BuildHead(p) \/ CreateRun(p) \/ WriteStamp(p) \/ AdoptJudge(p)
             \/ WriteAdopted(p) \/ ResumeRun(p) \/ SkipDone(p) \/ AppendRow(p) \/ FinishCandidate(p)
             \/ JudgePhase(p) \/ JudgeReady(p) \/ JudgeRun(p) \/ JudgeSkips(p) \/ JudgeRow(p) \/ JudgeDown(p)
    PROVE  OneFill(p)'
<1>1. /\ cmd[p] \in Commands /\ pc \in [Procs -> Places] /\ cmd \in [Procs -> Commands \cup {NoCmd}]
      /\ pc[p] \in Places \ (Apart \cup {"exec", "check", "revert"}) /\ UNCHANGED tree
  <2>1. pc[p] \in Places \ (Apart \cup {"exec", "check", "revert"}) /\ UNCHANGED tree
    BY DEF Resolve, Confirm, NextCandidate, Ready, BuildHead, CreateRun, WriteStamp, AdoptJudge,
       WriteAdopted, ResumeRun, SkipDone, AppendRow, FinishCandidate, JudgePhase, JudgeReady,
       JudgeRun, JudgeSkips, JudgeRow, JudgeDown, Places, Apart
  <2> QED BY <2>1, Own DEF Apart, Typed, TypeOK
<1>2. ASSUME NEW where \in Places \ ({"exec"} \cup Building), NEW STATE held, Goes(p, where, held),
             held.exec = cmd[p].exec
      PROVE  OneFill(p)'
  <2>1. pc'[p] = where /\ cmd'[p] = held
    BY <1>1, <1>2 DEF Goes
  <2> QED BY <1>1, <1>2, <2>1, FillKept
<1>3. CASE Resolve(p) \/ Confirm(p)
  BY <1>1, <1>2, <1>3, LeavesApart DEF Resolve, Confirm, Places, Building, Commands
<1>4. CASE NextCandidate(p) \/ Ready(p)
  BY <1>1, <1>2, <1>4, LeavesApart DEF NextCandidate, Ready, Places, Building, Commands
<1>5. CASE BuildHead(p)
  BY <1>1, <1>2, <1>5 DEF BuildHead, Places, Building, Commands
<1>6. CASE CreateRun(p)
  BY <1>1, <1>2, <1>6 DEF CreateRun, Places, Building, Commands
<1>7. CASE WriteStamp(p) \/ AdoptJudge(p) \/ WriteAdopted(p)
  BY <1>1, <1>2, <1>7, LeavesApart DEF WriteStamp, AdoptJudge, WriteAdopted, Places, Building, Commands
<1>8. CASE ResumeRun(p)
  BY <1>1, <1>2, <1>8, LeavesApart DEF ResumeRun, Places, Building, Commands
<1>9. CASE SkipDone(p)
  BY <1>1, <1>2, <1>9, LeavesApart DEF SkipDone, Places, Building, Commands
<1>10. CASE AppendRow(p)
  BY <1>1, <1>2, <1>10 DEF AppendRow, Places, Building, Commands
<1>11. CASE FinishCandidate(p)
  BY <1>1, <1>2, <1>11, LeavesApart DEF FinishCandidate, AwaitRelease, Places, Building, Commands
<1>12. CASE JudgePhase(p) \/ JudgeReady(p)
  BY <1>1, <1>2, <1>12, LeavesApart DEF JudgePhase, JudgeReady, Places, Building, Commands
<1>13. CASE JudgeRun(p)
  BY <1>1, <1>2, <1>13 DEF JudgeRun, Places, Building, Commands
<1>14. CASE JudgeSkips(p) \/ JudgeDown(p)
  BY <1>1, <1>2, <1>14, LeavesApart DEF JudgeSkips, JudgeDown, AwaitRelease, Places, Building, Commands
<1>15. CASE JudgeRow(p)
  BY <1>1, <1>2, <1>15 DEF JudgeRow, Places, Building, Commands
<1> QED BY <1>3, <1>4, <1>5, <1>6, <1>7, <1>8, <1>9, <1>10, <1>11, <1>12, <1>13, <1>14, <1>15

LEMMA FillPrepared ==
    ASSUME Typed, NEW p \in Procs, OneFill(p),
           Type(p) \/ ClearTree(p) \/ AddTree(p) \/ ExecState(p) \/ Finish(p) \/ Kill(p)
    PROVE  OneFill(p)'
<1>1. pc \in [Procs -> Places] /\ cmd \in [Procs -> Commands \cup {NoCmd}]
  BY DEF Typed, TypeOK
<1>2. CASE Finish(p) \/ Kill(p) \/ ClearTree(p)
  BY <1>1, <1>2, ApartFill DEF Finish, Kill, ClearTree, Goes, Apart
<1>3. CASE Type(p)
  <2>1. PICK where \in {"clear", "resolve"}, resume \in RunIds \cup {NoRunId} :
          pc'[p] = where /\ cmd'[p] = Command(Head(session[p]), resume, typed + 1)
    BY <1>1, <1>3 DEF Type
  <2>2. cmd'[p].exec = "off"
    BY <2>1 DEF Command
  <2> QED BY <2>1, <2>2 DEF OneFill, Building
<1>4. CASE AddTree(p)
  <2>1. CASE Leaves(p)
    BY <2>1, LeavesApart
  <2>2. CASE tree' = Added(tree) /\ Goes(p, "exec", [cmd[p] EXCEPT !.tree = TRUE])
    <3>1. pc'[p] = "exec" /\ tree'.edits = {}
      BY <1>1, <2>2 DEF Goes, Added
    <3> QED BY <3>1 DEF OneFill, Building
  <2> QED BY <1>4, <2>1, <2>2 DEF AddTree
<1>5. CASE ExecState(p)
  <2>1. tree.edits = {}
    BY <1>5 DEF ExecState, OneFill
  <2>2. tree'.edits = {}
    BY <1>5, <2>1 DEF ExecState, Removed, NoTree
  <2>3. pc'[p] \in {"resolve", "finish"}
    BY <1>1, <1>5 DEF ExecState, Leaves, Goes
  <2> QED BY <2>2, <2>3 DEF OneFill, Building
<1> QED BY <1>2, <1>3, <1>4, <1>5

LEMMA FillBuilt ==
    ASSUME Typed, NEW p \in Procs, OneFill(p),
           CrossThroughput(p) \/ CrossProbe(p) \/ CrossForced(p) \/ CrossCodebase(p)
             \/ SpliceFill(p) \/ CheckFill(p) \/ RevertFill(p)
    PROVE  OneFill(p)'
<1>1. CASE pc'[p] = "finish"
  BY <1>1, ApartFill DEF Apart
<1>2. CASE CrossThroughput(p) \/ CrossProbe(p) \/ CrossForced(p) \/ CrossCodebase(p)
  <2>1. pc[p] = "tasks" /\ UNCHANGED tree
    BY <1>2 DEF CrossThroughput, CrossProbe, CrossForced, CrossCodebase
  <2> QED BY <1>1, <1>2, <2>1, CrossingEffect DEF OneFill, Building, SameWork
<1>3. CASE (SpliceFill(p) \/ CheckFill(p) \/ RevertFill(p)) /\ pc'[p] # "finish"
  <2>1. /\ pc[p] \in Building /\ cmd[p].exec = "ready" /\ SameWork(cmd'[p], cmd[p])
        /\ pc'[p] = (CASE pc[p] = "splice" -> "check" [] pc[p] = "check" -> "revert" [] pc[p] = "revert" -> "append")
    BY <1>3, BuildingEffect DEF OneFill
  <2>2. FileAt(p)' = FileAt(p) /\ FillAt(p)' = FillAt(p)
    <3>1. KeyAt(p)' = KeyAt(p)
      BY <2>1 DEF KeyAt, SameWork
    <3> QED BY <3>1 DEF FileAt, FillAt
  <2>3. tree \in [there: BOOLEAN, edits: SUBSET Edits]
    BY DEF Typed, TypeOK
  <2>4. CASE SpliceFill(p)
    <3>1. pc[p] = "splice" /\ tree.edits = {}
      BY <1>3, <2>1, <2>4 DEF SpliceFill, OneFill
    <3>2. tree' = Spliced(tree, InFile(tree, FileAt(p)), FileAt(p), FillAt(p))
      <4>1. ~Leaves(p)
        BY <1>3 DEF Leaves, Goes, Typed, TypeOK
      <4> QED BY <2>4, <4>1 DEF SpliceFill
    <3>3. tree'.edits = {<<FileAt(p), FillAt(p)>>}
      <4>1. InFile(tree, FileAt(p)) = {}
        BY <3>1 DEF InFile
      <4> QED BY <2>3, <3>1, <3>2, <4>1 DEF Spliced
    <3> QED BY <2>1, <2>2, <3>1, <3>3 DEF OneFill, Building, SameWork
  <2>5. CASE CheckFill(p)
    <3>1. pc[p] = "check" /\ UNCHANGED tree
      BY <2>5 DEF CheckFill
    <3> QED BY <2>1, <2>2, <3>1 DEF OneFill, Building, SameWork
  <2>6. CASE RevertFill(p)
    <3>1. pc[p] = "revert" /\ tree.edits = {<<FileAt(p), FillAt(p)>>} /\ tree' = Reverted(tree, FileAt(p))
      BY <2>6 DEF RevertFill, OneFill
    <3>2. tree'.edits = {}
      <4>1. InFile(tree, FileAt(p)) = tree.edits
        BY <3>1 DEF InFile
      <4> QED BY <2>3, <3>1, <4>1 DEF Reverted
    <3> QED BY <2>1, <3>1, <3>2 DEF OneFill, Building, SameWork
  <2> QED BY <1>3, <2>4, <2>5, <2>6
<1> QED BY <1>1, <1>2, <1>3

LEMMA OneFillNext ==
    ASSUME OneTerminal, Typed, [Next]_vars, \A p \in Procs : OneFill(p)
    PROVE  \A p \in Procs : OneFill(p)'
<1>1. CASE ServerDies \/ UserStarts \/ Rebuild \/ UNCHANGED vars
  <2>1. UNCHANGED <<tree, pc, cmd>>
    BY <1>1, Around
  <2> QED BY <2>1 DEF OneFill, FileAt, FillAt, KeyAt
<1>2. ASSUME NEW p \in Procs, Type(p) \/ Step(p) \/ Kill(p)
      PROVE  \A q \in Procs : OneFill(q)'
  <2>1. OneFill(p)'
    BY <1>2, FillMoves, FillPrepared, FillBuilt DEF Step
  <2>2. \A q \in Procs : q = p
    BY DEF OneTerminal
  <2> QED BY <2>1, <2>2
<1> QED BY <1>1, <1>2 DEF Next

\* What cargo is asked about is HEAD with the fill of this crossing in it, and
\* nothing of an earlier crossing, command or kill, as long as one terminal
\* types: the revert is what the next splice relies on.
THEOREM ChecksTheFillAlways ==
    ASSUME OneTerminal
    PROVE  Spec => []ChecksTheFill
<1> DEFINE F == Typed /\ \A p \in Procs : OneFill(p)
<1>1. Init => F
  <2>1. Init => \A p \in Procs : OneFill(p)
    BY DEF Init, OneFill, Building
  <2> QED BY <2>1, TypedInit
<1>2. F /\ [Next]_vars => F'
  BY TypedNextStep, OneFillNext
<1>3. F => ChecksTheFill
  BY DEF ChecksTheFill, OneFill, Builds
<1> QED BY <1>1, <1>2, <1>3, PTL DEF Spec


-----------------------------------------------------------------------------
(* A launched bench's rows are what the stamp of their run says, and a     *)
(* bench that ends well has done its plan.                                 *)

LEMMA SameStamps ==
    ASSUME NEW STATE a, a \in Stamps, NEW STATE b, b \in Stamps, FirstMismatch(a, b) = Same
    PROVE  a = b
<1> DEFINE differing == {i \in DOMAIN StampFields : a[StampFields[i]] # b[StampFields[i]]}
<1>1. DOMAIN StampFields = 1..6
  BY DEF StampFields
<1>2. ASSUME differing # {}
      PROVE  FALSE
  <2>1. \E x \in differing : \A y \in differing : x <= y
    <3> DEFINE first(k) == k \in differing /\ \A j \in 1..6 : j < k => j \notin differing
    <3>1. first(1) \/ first(2) \/ first(3) \/ first(4) \/ first(5) \/ first(6)
      BY <1>1, <1>2
    <3>2. PICK k \in 1..6 : first(k)
      BY <3>1
    <3>3. \A y \in differing : k <= y
      BY <1>1, <3>2
    <3> QED BY <3>2, <3>3
  <2>2. Min(differing) \in differing
    BY <2>1 DEF Min
  <2>3. Min(differing) \in 1..6
    BY <1>1, <2>2
  <2>4. \A i \in 1..6 : StampFields[i] # Same
    BY DEF StampFields, Same
  <2> QED BY <1>2, <2>3, <2>4 DEF FirstMismatch
<1>3. \A i \in 1..6 : a[StampFields[i]] = b[StampFields[i]]
  BY <1>1, <1>2
<1>4. /\ a.runtime = b.runtime /\ a.engine = b.engine /\ a.weights = b.weights
      /\ a.exec = b.exec /\ a.corpus = b.corpus /\ a.judge = b.judge
  BY <1>3 DEF StampFields
<1> QED BY <1>4 DEF Stamps

-----------------------------------------------------------------------------
(* What a step does to the command that takes it.                          *)

LEMMA BuildKept ==
    ASSUME NEW p \in Procs, Type(p) \/ Step(p) \/ Kill(p)
    PROVE  UNCHANGED build
<1>1. CASE ClearTree(p) \/ AddTree(p) \/ ExecState(p) \/ Resolve(p) \/ Confirm(p) \/ NextCandidate(p)
           \/ Ready(p) \/ BuildHead(p) \/ CreateRun(p) \/ WriteStamp(p) \/ AdoptJudge(p) \/ WriteAdopted(p)
           \/ ResumeRun(p) \/ SkipDone(p)
  BY <1>1 DEF ClearTree, AddTree, ExecState, Resolve, Confirm, NextCandidate, Ready, BuildHead,
     CreateRun, WriteStamp, AdoptJudge, WriteAdopted, ResumeRun, SkipDone
<1>2. CASE CrossThroughput(p) \/ CrossProbe(p) \/ CrossForced(p) \/ CrossCodebase(p)
           \/ SpliceFill(p) \/ CheckFill(p) \/ RevertFill(p) \/ AppendRow(p) \/ FinishCandidate(p)
  BY <1>2 DEF CrossThroughput, CrossProbe, CrossForced, CrossCodebase, SpliceFill, CheckFill, RevertFill,
     AppendRow, FinishCandidate
<1>3. CASE JudgePhase(p) \/ JudgeReady(p) \/ JudgeRun(p) \/ JudgeSkips(p) \/ JudgeRow(p) \/ JudgeDown(p)
           \/ Finish(p) \/ Type(p) \/ Kill(p)
  BY <1>3 DEF JudgePhase, JudgeReady, JudgeRun, JudgeSkips, JudgeRow, JudgeDown, Finish, Type, Kill
<1> QED BY <1>1, <1>2, <1>3 DEF Step

\* A server is started for a candidate or for the judge, and stopped by whom it
\* was started for.
LEMMA ServerKept ==
    ASSUME NEW p \in Procs, Type(p) \/ Step(p) \/ Kill(p),
           ~NextCandidate(p), ~FinishCandidate(p), ~JudgePhase(p), ~JudgeDown(p)
    PROVE  UNCHANGED server
<1>1. CASE ClearTree(p) \/ AddTree(p) \/ ExecState(p) \/ Resolve(p) \/ Confirm(p)
           \/ Ready(p) \/ BuildHead(p) \/ CreateRun(p) \/ WriteStamp(p) \/ AdoptJudge(p) \/ WriteAdopted(p)
           \/ ResumeRun(p) \/ SkipDone(p)
  BY <1>1 DEF ClearTree, AddTree, ExecState, Resolve, Confirm, Ready, BuildHead,
     CreateRun, WriteStamp, AdoptJudge, WriteAdopted, ResumeRun, SkipDone
<1>2. CASE CrossThroughput(p) \/ CrossProbe(p) \/ CrossForced(p) \/ CrossCodebase(p)
           \/ SpliceFill(p) \/ CheckFill(p) \/ RevertFill(p) \/ AppendRow(p)
  BY <1>2 DEF CrossThroughput, CrossProbe, CrossForced, CrossCodebase, SpliceFill, CheckFill, RevertFill,
     AppendRow
<1>3. CASE JudgeReady(p) \/ JudgeRun(p) \/ JudgeSkips(p) \/ JudgeRow(p) \/ Finish(p) \/ Type(p) \/ Kill(p)
  BY <1>3 DEF JudgeReady, JudgeRun, JudgeSkips, JudgeRow, Finish, Type, Kill
<1> QED BY <1>1, <1>2, <1>3 DEF Step

\* Where a command goes while it prepares, and what it keeps.
Arrows ==
    { <<"clear", "add">>, <<"add", "exec">>, <<"exec", "resolve">>, <<"resolve", "confirm">>,
      <<"confirm", "next">>, <<"next", "ready">>, <<"next", "judge">>, <<"ready", "head">>,
      <<"head", "create">>, <<"head", "adopt">>, <<"create", "stamp">>, <<"stamp", "tasks">>,
      <<"adopt", "adopted">>, <<"adopt", "resume">>, <<"adopted", "resume">>, <<"resume", "tasks">> }

KeepsPlan(a, b) ==
    /\ a.cfg = b.cfg /\ a.resume = b.resume /\ a.todo = b.todo /\ a.dirs = b.dirs
    /\ a.id = b.id /\ a.fate = b.fate

Prepares(p) ==
    \/ ClearTree(p) \/ AddTree(p) \/ ExecState(p) \/ Resolve(p) \/ Confirm(p) \/ NextCandidate(p)
    \/ Ready(p) \/ BuildHead(p) \/ CreateRun(p) \/ WriteStamp(p) \/ AdoptJudge(p)
    \/ WriteAdopted(p) \/ ResumeRun(p)

\* It leaves, or goes on with its plan.
GoesOn(p) ==
    /\ <<pc[p], pc'[p]>> \in Arrows
    /\ KeepsPlan(cmd'[p], cmd[p])
    /\ pc[p] # "resolve" => cmd'[p].action = cmd[p].action
    /\ pc[p] # "head" => cmd'[p].stamp = cmd[p].stamp
    /\ pc[p] \notin {"add", "exec"} => cmd'[p].tree = cmd[p].tree

LEMMA PreparingEffect ==
    ASSUME Typed, NEW p \in Procs, Prepares(p)
    PROVE  /\ pc[p] \in Preparing
           /\ \/ pc'[p] = "finish" /\ pc[p] # "confirm" /\ cmd'[p] = [cmd[p] EXCEPT !.fate = "failed"]
              \/ pc'[p] = "finish" /\ pc[p] = "confirm" /\ ((cmd'[p] = cmd[p] /\ cmd[p].cfg.dry) \/ cmd'[p] = [cmd[p] EXCEPT !.fate = "failed"])
              \/ GoesOn(p)
<1> DEFINE c == cmd[p]
           failed == [cmd[p] EXCEPT !.fate = "failed"]
           goal ==
             \/ pc'[p] = "finish" /\ pc[p] # "confirm" /\ cmd'[p] = failed
             \/ pc'[p] = "finish" /\ pc[p] = "confirm" /\ ((cmd'[p] = cmd[p] /\ cmd[p].cfg.dry) \/ cmd'[p] = failed)
             \/ GoesOn(p)
<1>1. pc[p] \in Preparing /\ cmd[p] \in Commands /\ p \in DOMAIN pc /\ p \in DOMAIN cmd
  <2>1. pc[p] \in Preparing
    BY DEF Prepares, ClearTree, AddTree, ExecState, Resolve, Confirm, NextCandidate, Ready, BuildHead,
       CreateRun, WriteStamp, AdoptJudge, WriteAdopted, ResumeRun, Preparing
  <2> QED BY <2>1, Own DEF Preparing, Typed, TypeOK
<1> SUFFICES goal
  BY <1>1
<1>2. ASSUME NEW where, <<pc[p], where>> \in Arrows, NEW STATE held, Goes(p, where, held), KeepsPlan(held, cmd[p]),
             pc[p] # "resolve" => held.action = cmd[p].action, pc[p] # "head" => held.stamp = cmd[p].stamp,
             pc[p] \notin {"add", "exec"} => held.tree = cmd[p].tree
      PROVE  goal
  <2>1. pc'[p] = where /\ cmd'[p] = held
    BY <1>1, <1>2 DEF Goes
  <2> QED BY <1>2, <2>1 DEF GoesOn
<1>3. CASE Leaves(p)
  BY <1>1, <1>3 DEF Leaves, Goes
<1>4. CASE pc[p] = "confirm" /\ cmd[p].cfg.dry /\ Goes(p, "finish", cmd[p])
  BY <1>1, <1>4 DEF Goes
<1>5. KeepsPlan(cmd[p], cmd[p])
  BY DEF KeepsPlan
<1>6. CASE \/ Goes(p, "add", c) /\ pc[p] = "clear"
           \/ Goes(p, "next", c) /\ pc[p] = "confirm"
           \/ Goes(p, "judge", c) /\ pc[p] = "next"
           \/ Goes(p, "ready", c) /\ pc[p] = "next"
           \/ Goes(p, "head", c) /\ pc[p] = "ready"
           \/ Goes(p, "tasks", c) /\ pc[p] = "stamp"
           \/ Goes(p, "adopted", c) /\ pc[p] = "adopt"
           \/ Goes(p, "resume", c) /\ pc[p] \in {"adopt", "adopted"}
  <2> HIDE DEF goal
  <2> QED BY <1>2, <1>5, <1>6 DEF Arrows
<1> HIDE DEF goal
<1>7. CASE ClearTree(p) \/ NextCandidate(p) \/ Ready(p) \/ WriteStamp(p) \/ AdoptJudge(p) \/ WriteAdopted(p)
  BY <1>3, <1>6, <1>7 DEF ClearTree, NextCandidate, Ready, WriteStamp, AdoptJudge, WriteAdopted
<1>8. CASE Confirm(p)
  BY <1>3, <1>4, <1>6, <1>8 DEF Confirm
<1>9. CASE AddTree(p)
  <2> DEFINE held == [cmd[p] EXCEPT !.tree = TRUE]
  <2>1. KeepsPlan(held, c) /\ held.action = c.action /\ held.stamp = c.stamp
    BY <1>1 DEF KeepsPlan, Commands
  <2>2. pc[p] = "add" /\ (Goes(p, "exec", held) \/ Leaves(p))
    BY <1>9 DEF AddTree
  <2> HIDE DEF held
  <2> QED BY <1>2, <1>3, <2>1, <2>2 DEF Arrows
<1>10. CASE ExecState(p)
  <2> DEFINE ready == [cmd[p] EXCEPT !.exec = "ready"]
             none == [cmd[p] EXCEPT !.exec = "unavailable", !.tree = FALSE]
             off == [cmd[p] EXCEPT !.tree = FALSE]
  <2>1. KeepsPlan(ready, c) /\ ready.action = c.action /\ ready.stamp = c.stamp
    BY <1>1 DEF KeepsPlan, Commands
  <2>2. KeepsPlan(none, c) /\ none.action = c.action /\ none.stamp = c.stamp
    BY <1>1 DEF KeepsPlan, Commands
  <2>3. KeepsPlan(off, c) /\ off.action = c.action /\ off.stamp = c.stamp
    BY <1>1 DEF KeepsPlan, Commands
  <2>4. pc[p] = "exec" /\ (Goes(p, "resolve", ready) \/ Goes(p, "resolve", none) \/ Goes(p, "resolve", off) \/ Leaves(p))
    BY <1>10 DEF ExecState
  <2> HIDE DEF ready, none, off
  <2> QED BY <1>2, <1>3, <2>1, <2>2, <2>3, <2>4 DEF Arrows
<1>11. CASE Resolve(p)
  <2> DEFINE action == IF Uses(c.cfg) THEN "use" ELSE "launch"
             held == [cmd[p] EXCEPT !.action = action]
  <2>1. pc[p] = "resolve" /\ (Goes(p, "confirm", held) \/ Leaves(p))
    BY <1>11 DEF Resolve
  <2> HIDE DEF action
  <2>2. KeepsPlan(held, c) /\ held.stamp = c.stamp /\ held.tree = c.tree
    BY <1>1 DEF KeepsPlan, Commands
  <2> HIDE DEF held
  <2> QED BY <1>2, <1>3, <2>1, <2>2 DEF Arrows
<1>12. CASE BuildHead(p)
  <2> DEFINE stamp == StampOf(c.cfg, Head(c.todo), c.exec)
             held == [cmd[p] EXCEPT !.stamp = stamp]
  <2>1. pc[p] = "head" /\ (Goes(p, "create", held) \/ Goes(p, "adopt", held))
    BY <1>12 DEF BuildHead
  <2> HIDE DEF stamp
  <2>2. KeepsPlan(held, c) /\ held.action = c.action /\ held.tree = c.tree
    BY <1>1 DEF KeepsPlan, Commands
  <2> HIDE DEF held
  <2> QED BY <1>2, <2>1, <2>2 DEF Arrows
<1>13. CASE CreateRun(p)
  <2> DEFINE r == CHOOSE id \in RunIds : runs[id].head = NoDir
             held == [cmd[p] EXCEPT !.run = r]
  <2>1. pc[p] = "create" /\ Goes(p, "stamp", held)
    BY <1>13 DEF CreateRun
  <2> HIDE DEF r
  <2>2. KeepsPlan(held, c) /\ held.action = c.action /\ held.stamp = c.stamp /\ held.tree = c.tree
    BY <1>1 DEF KeepsPlan, Commands
  <2> HIDE DEF held
  <2> QED BY <1>2, <2>1, <2>2 DEF Arrows
<1>14. CASE ResumeRun(p)
  <2> DEFINE done == KeysOf(runs[c.resume].rows)
             held == [cmd[p] EXCEPT !.run = c.resume, !.done = done]
  <2>1. pc[p] = "resume" /\ (Goes(p, "tasks", held) \/ Leaves(p))
    BY <1>14 DEF ResumeRun
  <2> HIDE DEF done
  <2>2. KeepsPlan(held, c) /\ held.action = c.action /\ held.stamp = c.stamp /\ held.tree = c.tree
    BY <1>1 DEF KeepsPlan, Commands
  <2> HIDE DEF held
  <2> QED BY <1>2, <1>3, <2>1, <2>2 DEF Arrows
<1> QED BY <1>7, <1>8, <1>9, <1>10, <1>11, <1>12, <1>13, <1>14 DEF Prepares

\* What the judge's steps keep.
KeepsChoice(a, b) == KeepsPlan(a, b) /\ a.action = b.action /\ a.tree = b.tree
Failed(c) == [c EXCEPT !.fate = "failed"]

LEMMA FailedKeeps ==
    ASSUME NEW STATE c, c \in Commands
    PROVE  /\ Failed(c).cfg = c.cfg /\ Failed(c).id = c.id /\ Failed(c).tree = c.tree
           /\ Failed(c).action = c.action /\ Failed(c).dirs = c.dirs
           /\ Failed(c).fate = "failed"
BY DEF Failed, Commands

\* The step that p takes, put as what p holds after it.
LEMMA Gone ==
    ASSUME Typed, NEW p \in Procs, NEW where, NEW STATE held, Goes(p, where, held)
    PROVE  pc'[p] = where /\ cmd'[p] = held
BY DEF Goes, Typed, TypeOK

LEMMA GoneFailed ==
    ASSUME Typed, NEW p \in Procs, Leaves(p)
    PROVE  pc'[p] = "finish" /\ cmd'[p] = Failed(cmd[p])
BY DEF Leaves, Failed, Goes, Typed, TypeOK

LEMMA JudgePhaseEffect ==
    ASSUME Typed, NEW p \in Procs, JudgePhase(p)
    PROVE  LET c == cmd[p]
               owing == c.cfg.judge # NoJudge /\ \E i \in DOMAIN c.dirs : Owed(runs[c.dirs[i]].rows) # {}
           IN  /\ pc[p] = "judge"
               /\ \/ ~owing /\ pc'[p] = "finish" /\ cmd'[p] = c /\ UNCHANGED server
                  \/ owing /\ server # NoServer /\ pc'[p] = "finish" /\ cmd'[p] = Failed(c) /\ UNCHANGED server
                  \/ /\ owing /\ server = NoServer /\ pc'[p] = "judge ready"
                     /\ server' = Started(c.cfg.judge, c.id)
                     /\ KeepsChoice(cmd'[p], c) /\ cmd'[p].left = c.dirs
<1> DEFINE c == cmd[p]
           owing == c.cfg.judge # NoJudge /\ \E i \in DOMAIN c.dirs : Owed(runs[c.dirs[i]].rows) # {}
           held == [c EXCEPT !.left = c.dirs]
<1>1. pc[p] = "judge" /\ c \in Commands
  BY Own DEF JudgePhase
<1>2. KeepsChoice(held, c) /\ held.left = c.dirs
  BY <1>1 DEF KeepsChoice, KeepsPlan, Commands
<1> HIDE DEF held
<1>3. \/ ~owing /\ Goes(p, "finish", c) /\ UNCHANGED server
      \/ owing /\ server # NoServer /\ Leaves(p) /\ UNCHANGED server
      \/ owing /\ server = NoServer /\ server' = Started(c.cfg.judge, c.id) /\ Goes(p, "judge ready", held)
  BY DEF JudgePhase, held
<1> HIDE DEF owing
<1>4. CASE ~owing /\ Goes(p, "finish", c) /\ UNCHANGED server
  BY <1>1, <1>4, Gone DEF owing
<1>5. CASE owing /\ server # NoServer /\ Leaves(p) /\ UNCHANGED server
  BY <1>1, <1>5, GoneFailed DEF owing
<1>6. CASE owing /\ server = NoServer /\ server' = Started(c.cfg.judge, c.id) /\ Goes(p, "judge ready", held)
  <2>1. pc'[p] = "judge ready" /\ cmd'[p] = held
    BY <1>6, Gone
  <2> QED BY <1>1, <1>2, <1>6, <2>1 DEF owing
<1> QED BY <1>3, <1>4, <1>5, <1>6

LEMMA JudgeReadyEffect ==
    ASSUME Typed, NEW p \in Procs, JudgeReady(p)
    PROVE  /\ pc[p] = "judge ready"
           /\ \/ pc'[p] = "judge run" /\ cmd'[p] = cmd[p]
              \/ pc'[p] = "judge down" /\ cmd'[p] = Failed(cmd[p])
<1>1. CASE Goes(p, "judge run", cmd[p])
  BY <1>1, Gone DEF JudgeReady
<1>2. CASE Goes(p, "judge down", Failed(cmd[p]))
  <2>1. pc'[p] = "judge down" /\ cmd'[p] = Failed(cmd[p])
    BY <1>2 DEF Goes, Typed, TypeOK
  <2> QED BY <2>1 DEF JudgeReady
<1> QED BY <1>1, <1>2 DEF JudgeReady, Failed

LEMMA JudgeRunEffect ==
    ASSUME Typed, NEW p \in Procs, JudgeRun(p)
    PROVE  LET c == cmd[p]
               r == Head(c.left)
           IN  /\ pc[p] = "judge run"
               /\ \/ c.left = <<>> /\ pc'[p] = "judge down" /\ cmd'[p] = c
                  \/ pc'[p] = "judge down" /\ cmd'[p] = Failed(c)
                  \/ /\ c.left # <<>> /\ Loads(runs[r]) /\ pc'[p] = "judging"
                     /\ KeepsChoice(cmd'[p], c) /\ cmd'[p].run = r /\ cmd'[p].left = Tail(c.left)
                     /\ cmd'[p].log = runs[r].rows /\ cmd'[p].at = 1
<1> DEFINE c == cmd[p]
           r == Head(c.left)
           rows == runs[r].rows
           held == [c EXCEPT !.run = r, !.log = rows, !.left = Tail(@), !.at = 1]
<1>1. pc[p] = "judge run" /\ c \in Commands
  BY Own DEF JudgeRun
<1>2. \/ c.left = <<>> /\ Goes(p, "judge down", c)
      \/ Goes(p, "judge down", Failed(c))
      \/ c.left # <<>> /\ Loads(runs[r]) /\ Goes(p, "judging", held)
  BY DEF JudgeRun, Failed
<1> HIDE DEF rows
<1>3. KeepsChoice(held, c) /\ held.run = r /\ held.left = Tail(c.left) /\ held.log = rows /\ held.at = 1
  BY <1>1 DEF KeepsChoice, KeepsPlan, Commands
<1> HIDE DEF held
<1>4. CASE c.left = <<>> /\ Goes(p, "judge down", c)
  BY <1>1, <1>4, Gone
<1>5. CASE Goes(p, "judge down", Failed(c))
  <2>1. pc'[p] = "judge down" /\ cmd'[p] = Failed(c)
    BY <1>5 DEF Goes, Typed, TypeOK
  <2> QED BY <1>1, <2>1
<1>6. CASE c.left # <<>> /\ Loads(runs[r]) /\ Goes(p, "judging", held)
  <2>1. pc'[p] = "judging" /\ cmd'[p] = held
    BY <1>6, Gone
  <2> QED BY <1>1, <1>3, <1>6, <2>1 DEF rows
<1> QED BY <1>2, <1>4, <1>5, <1>6

LEMMA JudgeSkipsEffect ==
    ASSUME Typed, NEW p \in Procs, JudgeSkips(p)
    PROVE  LET c == cmd[p]
           IN  /\ pc[p] = "judging" /\ KeepsChoice(cmd'[p], c) /\ cmd'[p].left = c.left /\ cmd'[p].run = c.run
               /\ \/ c.at > Len(c.log) /\ pc'[p] = "judge run"
                  \/ /\ c.at <= Len(c.log) /\ c.at \notin Owed(c.log) /\ pc'[p] = "judging"
                     /\ cmd'[p].at = c.at + 1 /\ cmd'[p].log = c.log
<1> DEFINE c == cmd[p]
           ends == [c EXCEPT !.log = <<>>]
           goes == [c EXCEPT !.at = @ + 1]
<1>1. pc[p] = "judging" /\ c \in Commands
  BY Own DEF JudgeSkips
<1>2. KeepsChoice(ends, c) /\ ends.left = c.left /\ ends.run = c.run
  BY <1>1 DEF KeepsChoice, KeepsPlan, Commands
<1>3. KeepsChoice(goes, c) /\ goes.left = c.left /\ goes.run = c.run /\ goes.at = c.at + 1 /\ goes.log = c.log
  BY <1>1 DEF KeepsChoice, KeepsPlan, Commands
<1>4. \/ c.at > Len(c.log) /\ Goes(p, "judge run", ends)
      \/ ~(c.at > Len(c.log)) /\ c.at \notin Owed(c.log) /\ Goes(p, "judging", goes)
  BY DEF JudgeSkips
<1>5. c.at \in Nat /\ Len(c.log) \in Nat
  BY <1>1 DEF Commands
<1> HIDE DEF ends, goes
<1>6. CASE c.at > Len(c.log) /\ Goes(p, "judge run", ends)
  BY <1>1, <1>2, <1>6, Gone
<1>7. CASE ~(c.at > Len(c.log)) /\ c.at \notin Owed(c.log) /\ Goes(p, "judging", goes)
  <2>1. pc'[p] = "judging" /\ cmd'[p] = goes
    BY <1>7, Gone
  <2>2. c.at <= Len(c.log)
    BY <1>5, <1>7
  <2> QED BY <1>1, <1>3, <1>7, <2>1, <2>2
<1> QED BY <1>4, <1>6, <1>7

LEMMA JudgeRowEffect ==
    ASSUME Typed, NEW p \in Procs, JudgeRow(p)
    PROVE  LET c == cmd[p]
               row == cmd'[p].row
           IN  /\ pc[p] = "judging" /\ c.at \in Owed(c.log)
               /\ \/ pc'[p] = "judge down" /\ cmd'[p] = Failed(c)
                  \/ /\ pc'[p] = "append" /\ KeepsChoice(cmd'[p], c) /\ cmd'[p].left = c.left /\ cmd'[p].run = c.run
                     /\ cmd'[p].at = c.at /\ cmd'[p].log = c.log
                     /\ row.key = JudgeKey(c.log[c.at]) /\ row.key[1] = "judge" /\ row.action = c.action
                     /\ row.by = IF server = NoServer \/ IsForeign(c.cfg) THEN <<"none", 0>>
                                 ELSE <<server.model, server.engine>>
<1> DEFINE c == cmd[p]
           key == JudgeKey(c.log[c.at])
           row(out) == Row(key, out, "none", "none", c)
           by == IF server = NoServer \/ IsForeign(c.cfg) THEN <<"none", 0>> ELSE <<server.model, server.engine>>
<1>1. pc[p] = "judging" /\ c.at \in Owed(c.log) /\ c \in Commands
  BY Own DEF JudgeRow
<1>2. Goes(p, "judge down", Failed(c)) \/ \E out \in {"decided", "skipped"} : Goes(p, "append", [c EXCEPT !.row = row(out)])
  BY DEF JudgeRow, Failed
<1>3. CASE Goes(p, "judge down", Failed(c))
  <2>1. pc'[p] = "judge down" /\ cmd'[p] = Failed(c)
    BY <1>3 DEF Goes, Typed, TypeOK
  <2> QED BY <1>1, <2>1
<1>4. ASSUME NEW out \in {"decided", "skipped"}, Goes(p, "append", [c EXCEPT !.row = row(out)])
      PROVE  /\ pc'[p] = "append" /\ KeepsChoice(cmd'[p], c) /\ cmd'[p].left = c.left /\ cmd'[p].run = c.run
             /\ cmd'[p].at = c.at /\ cmd'[p].log = c.log
             /\ cmd'[p].row.key = key /\ cmd'[p].row.key[1] = "judge" /\ cmd'[p].row.action = c.action
             /\ cmd'[p].row.by = by
  <2> DEFINE r == row(out)
             held == [c EXCEPT !.row = r]
  <2>1. r.key = key /\ r.key[1] = "judge" /\ r.action = c.action /\ r.by = by
    BY DEF Row, JudgeKey, Key
  <2>2. pc'[p] = "append" /\ cmd'[p] = held
    BY <1>4 DEF Goes, Typed, TypeOK
  <2> HIDE DEF r
  <2>3. KeepsChoice(held, c) /\ held.left = c.left /\ held.run = c.run /\ held.at = c.at /\ held.log = c.log /\ held.row = r
    BY <1>1 DEF KeepsChoice, KeepsPlan, Commands
  <2> QED BY <2>1, <2>2, <2>3
<1> HIDE DEF row, by, key
<1>5. CASE \E out \in {"decided", "skipped"} : Goes(p, "append", [c EXCEPT !.row = row(out)])
  <2>1. PICK out \in {"decided", "skipped"} : Goes(p, "append", [c EXCEPT !.row = row(out)])
    BY <1>5
  <2> QED BY <1>1, <1>4, <2>1 DEF by, key
<1> QED BY <1>2, <1>3, <1>5

LEMMA JudgeDownEffect ==
    ASSUME Typed, NEW p \in Procs, JudgeDown(p)
    PROVE  /\ pc[p] = "judge down" /\ pc'[p] = "finish" /\ (cmd'[p] = cmd[p] \/ cmd'[p] = Failed(cmd[p]))
           /\ server' = IF server # NoServer /\ server.by = cmd[p].id THEN NoServer ELSE server
<1>1. CASE Goes(p, "finish", cmd[p])
  BY <1>1, Gone DEF JudgeDown
<1>2. CASE Leaves(p)
  BY <1>2, GoneFailed DEF JudgeDown
<1> QED BY <1>1, <1>2 DEF JudgeDown, AwaitRelease

-----------------------------------------------------------------------------
(* What the steps of a crossing and of the end of a run do.                *)

\* All that crossing the plan of a run leaves alone.
SameRun(a, b) == KeepsChoice(a, b) /\ a.stamp = b.stamp /\ a.run = b.run /\ a.done = b.done

LEMMA TypeEffect ==
    ASSUME Typed, NEW p \in Procs, Type(p)
    PROVE  /\ pc[p] = "idle"
           /\ \E cfg \in Cfgs, resume \in RunIds \cup {NoRunId} :
                /\ pc'[p] = (IF cfg.codebase THEN "clear" ELSE "resolve")
                /\ cmd'[p] = Command(cfg, resume, typed + 1)
           /\ typed' = typed + 1
<1>1. session[p] # <<>> /\ session[p] \in Seq(Cfgs)
  BY DEF Type, Typed, TypeOK
<1>2. Head(session[p]) \in Cfgs
  BY <1>1
<1> QED BY <1>2 DEF Type, Typed, TypeOK

LEMMA SkipEffect ==
    ASSUME Typed, NEW p \in Procs, SkipDone(p)
    PROVE  /\ pc[p] = "tasks" /\ pc'[p] = "tasks"
           /\ cmd[p].at <= Len(Plan(cmd[p].cfg)) /\ ~Owes(p)
           /\ SameRun(cmd'[p], cmd[p]) /\ cmd'[p].at = cmd[p].at + 1
<1> DEFINE held == [cmd[p] EXCEPT !.at = @ + 1]
<1>1. pc[p] = "tasks" /\ cmd[p].at <= Len(Plan(cmd[p].cfg)) /\ ~Owes(p) /\ Goes(p, "tasks", held)
  BY DEF SkipDone
<1>2. SameRun(held, cmd[p]) /\ held.at = cmd[p].at + 1
  BY <1>1, Own DEF SameRun, KeepsChoice, KeepsPlan, Commands
<1> HIDE DEF held
<1> QED BY <1>1, <1>2, Gone

LEMMA AppendEffect ==
    ASSUME Typed, NEW p \in Procs, AppendRow(p)
    PROVE  /\ pc[p] = "append"
           /\ pc'[p] = IF Verdict(p) THEN "judging" ELSE "tasks"
           /\ SameRun(cmd'[p], cmd[p]) /\ cmd'[p].at = cmd[p].at + 1
           /\ cmd'[p].left = cmd[p].left /\ cmd'[p].log = cmd[p].log
<1> DEFINE held == [cmd[p] EXCEPT !.row = NoRow, !.at = @ + 1]
           where == IF cmd[p].row.key[1] = "judge" THEN "judging" ELSE "tasks"
<1>1. pc[p] = "append" /\ Goes(p, where, held)
  BY DEF AppendRow
<1>2. SameRun(held, cmd[p]) /\ held.at = cmd[p].at + 1 /\ held.left = cmd[p].left /\ held.log = cmd[p].log
  BY <1>1, Own DEF SameRun, KeepsChoice, KeepsPlan, Commands
<1> HIDE DEF held
<1>3. pc'[p] = where /\ cmd'[p] = held
  BY <1>1, Gone
<1> QED BY <1>1, <1>2, <1>3 DEF Verdict

LEMMA FinishCandidateEffect ==
    ASSUME Typed, NEW p \in Procs, FinishCandidate(p)
    PROVE  LET c == cmd[p]
               d == cmd'[p]
           IN  /\ pc[p] = "tasks" /\ c.at > Len(Plan(c.cfg))
               /\ \/ pc'[p] = "finish" /\ d = Failed(c)
                  \/ /\ pc'[p] = "next" /\ Loads(runs[c.run])
                     /\ d.todo = Tail(c.todo) /\ d.dirs = Append(c.dirs, c.run)
                     /\ d.cfg = c.cfg /\ d.resume = c.resume /\ d.action = c.action
                     /\ d.id = c.id /\ d.fate = c.fate /\ d.tree = c.tree
                     /\ d.done = {} /\ d.at = 1
               /\ Loads(runs[c.run]) =>
                     server' = IF c.action = "launch" /\ server # NoServer /\ server.by = c.id
                               THEN NoServer ELSE server
               /\ ~Loads(runs[c.run]) => UNCHANGED server
<1> DEFINE c == cmd[p]
           todo == Tail(c.todo)
           dirs == Append(c.dirs, c.run)
           held == [c EXCEPT !.todo = todo, !.dirs = dirs, !.done = {}, !.at = 1, !.latch = {}]
           stops == server' = IF c.action = "launch" /\ server # NoServer /\ server.by = c.id
                              THEN NoServer ELSE server
<1>1. pc[p] = "tasks" /\ c.at > Len(Plan(c.cfg)) /\ c \in Commands
  BY Own DEF FinishCandidate
<1>2. \/ ~Loads(runs[c.run]) /\ Leaves(p) /\ UNCHANGED server
      \/ Loads(runs[c.run]) /\ stops /\ (Goes(p, "next", held) \/ Leaves(p))
  BY DEF FinishCandidate, AwaitRelease
<1> HIDE DEF todo, dirs
<1>3. /\ held.todo = todo /\ held.dirs = dirs
      /\ held.cfg = c.cfg /\ held.resume = c.resume /\ held.action = c.action
      /\ held.id = c.id /\ held.fate = c.fate /\ held.tree = c.tree
      /\ held.done = {} /\ held.at = 1
  BY <1>1 DEF Commands
<1> HIDE DEF held, stops
<1>4. CASE ~Loads(runs[c.run]) /\ Leaves(p) /\ UNCHANGED server
  BY <1>1, <1>4, GoneFailed
<1>5. CASE Loads(runs[c.run]) /\ stops /\ Leaves(p)
  BY <1>1, <1>5, GoneFailed DEF stops
<1>6. CASE Loads(runs[c.run]) /\ stops /\ Goes(p, "next", held)
  <2>1. pc'[p] = "next" /\ cmd'[p] = held
    BY <1>6, Gone
  <2> QED BY <1>1, <1>3, <1>6, <2>1 DEF stops, todo, dirs
<1> QED BY <1>2, <1>4, <1>5, <1>6

LEMMA RestEffect ==
    ASSUME Typed, NEW p \in Procs, Finish(p) \/ Kill(p)
    PROVE  pc'[p] = "idle"
BY DEF Finish, Kill, Goes, Typed, TypeOK

LEMMA ResolveEffect ==
    ASSUME Typed, NEW p \in Procs, Resolve(p), pc'[p] # "finish"
    PROVE  LET cfg == cmd[p].cfg
           IN  /\ cmd[p].resume # NoRunId => Len(cfg.models) = 1
               /\ cmd'[p].action = IF Uses(cfg) THEN "use" ELSE "launch"
               /\ ~Uses(cfg) => ~IsForeign(cfg)
               /\ cfg.judge # NoJudge => ~Uses(cfg) /\ cfg.judge \notin Range(cfg.models)
<1> DEFINE action == IF Uses(cmd[p].cfg) THEN "use" ELSE "launch"
           held == [cmd[p] EXCEPT !.action = action]
<1>1. CASE Leaves(p)
  BY <1>1, GoneFailed
<1>2. CASE ~Leaves(p)
  <2>1. Goes(p, "confirm", held) /\ pc[p] # "idle" /\ (Uses(cmd[p].cfg) \/ Launches(cmd[p].cfg))
    BY <1>2 DEF Resolve
  <2> HIDE DEF action
  <2>2. held.action = action
    BY <2>1, Own DEF Commands
  <2> HIDE DEF held
  <2>3. cmd'[p].action = action
    BY <2>1, <2>2, Gone
  <2> QED BY <1>2, <2>1, <2>3 DEF Resolve, Launches, action
<1> QED BY <1>1, <1>2

LEMMA NextEffect ==
    ASSUME Typed, NEW p \in Procs, NextCandidate(p)
    PROVE  LET c == cmd[p]
           IN  /\ pc[p] = "next"
               /\ pc'[p] \in {"judge", "ready", "finish"}
               /\ pc'[p] = "judge" => c.todo = <<>>
               /\ pc'[p] = "ready" => c.todo # <<>>
               /\ pc'[p] = "ready" /\ c.action = "launch" =>
                     server = NoServer /\ server' = Started(Head(c.todo), c.id)
               /\ pc'[p] # "ready" \/ c.action = "use" => UNCHANGED server
<1> DEFINE c == cmd[p]
<1>1. pc[p] = "next" /\ c.action \in {"launch", "use"}
  BY Own DEF NextCandidate, Commands
<1>2. \/ Leaves(p) /\ UNCHANGED server
      \/ Goes(p, "judge", c) /\ c.todo = <<>> /\ UNCHANGED server
      \/ /\ Goes(p, "ready", c) /\ c.todo # <<>> /\ c.action = "launch" /\ server = NoServer
         /\ server' = Started(Head(c.todo), c.id)
      \/ Goes(p, "ready", c) /\ c.todo # <<>> /\ c.action = "use" /\ UNCHANGED server
  BY DEF NextCandidate
<1>3. CASE Leaves(p) /\ UNCHANGED server
  BY <1>1, <1>3, GoneFailed
<1>4. CASE Goes(p, "judge", c) /\ c.todo = <<>> /\ UNCHANGED server
  BY <1>1, <1>4, Gone
<1>5. CASE Goes(p, "ready", c)
  <2>1. pc'[p] = "ready"
    BY <1>5, Gone
  <2> QED BY <1>1, <1>2, <1>5, <2>1, GoneFailed, Gone
<1> QED BY <1>2, <1>3, <1>4, <1>5

LEMMA HeadEffect ==
    ASSUME Typed, NEW p \in Procs, BuildHead(p)
    PROVE  /\ pc'[p] = IF cmd[p].resume = NoRunId THEN "create" ELSE "adopt"
           /\ cmd'[p].stamp = StampOf(cmd[p].cfg, Head(cmd[p].todo), cmd[p].exec)
<1> DEFINE stamp == StampOf(cmd[p].cfg, Head(cmd[p].todo), cmd[p].exec)
           held == [cmd[p] EXCEPT !.stamp = stamp]
<1>1. pc[p] # "idle" /\ Goes(p, IF cmd[p].resume = NoRunId THEN "create" ELSE "adopt", held)
  BY DEF BuildHead
<1> HIDE DEF stamp
<1>2. held.stamp = stamp
  BY <1>1, Own DEF Commands
<1> HIDE DEF held
<1> QED BY <1>1, <1>2, Gone DEF stamp

LEMMA AdoptEffect ==
    ASSUME Typed, NEW p \in Procs, AdoptJudge(p), pc'[p] = "adopted"
    PROVE  Loads(runs[cmd[p].resume]) /\ WouldAdopt(runs[cmd[p].resume], cmd[p].stamp)
BY GoneFailed, Gone DEF AdoptJudge

LEMMA ResumeEffect ==
    ASSUME Typed, NEW p \in Procs, ResumeRun(p), pc'[p] # "finish"
    PROVE  /\ pc[p] = "resume" /\ pc'[p] = "tasks"
           /\ Resumable(runs[cmd[p].resume], cmd[p].stamp)
           /\ cmd'[p].run = cmd[p].resume
           /\ cmd'[p].done = KeysOf(runs[cmd[p].resume].rows)
           /\ cmd'[p].at = cmd[p].at
<1> DEFINE done == KeysOf(runs[cmd[p].resume].rows)
           held == [cmd[p] EXCEPT !.run = cmd[p].resume, !.done = done]
<1>1. CASE Leaves(p)
  BY <1>1, GoneFailed
<1>2. CASE ~Leaves(p)
  <2>1. pc[p] = "resume" /\ Goes(p, "tasks", held) /\ Resumable(runs[cmd[p].resume], cmd[p].stamp)
    BY <1>2 DEF ResumeRun
  <2> HIDE DEF done
  <2>2. held.run = cmd[p].resume /\ held.done = done /\ held.at = cmd[p].at
    BY <2>1, Own DEF Commands
  <2> HIDE DEF held
  <2> QED BY <2>1, <2>2, Gone DEF done
<1> QED BY <1>1, <1>2

-----------------------------------------------------------------------------
(* What was launched is what was stamped: the server that answers a        *)
(* launching command is the one it started, of the build that its stamp    *)
(* names, and its run keeps that stamp.                                    *)

\* Once a command knows whose server it is to measure with.
Past(p) == pc[p] \notin {"idle", "clear", "add", "exec", "resolve", "finish"}
Judging == {"judge ready", "judge run", "judging"}

\* The server that answers is the one a launching command means, of this build.
Serves(model) == server = NoServer \/ (server.model = model /\ server.engine = build)

\* A run of the configuration of p, that its judge may be asked about.
Mine(p, r) ==
    /\ runs[r].head \in Stamps
    /\ runs[r].head.judge = cmd[p].cfg.judge
    /\ runs[r].head.engine = StampIdentity(cmd[p].cfg)

\* What a command settled on, and has still to do: a resumed run is the only
\* one of its command.
Chosen(p) ==
    LET c == cmd[p]
    IN  /\ Past(p) => (c.action = "launch" => ~IsForeign(c.cfg))
        /\ Past(p) => (c.resume # NoRunId => Len(c.todo) <= 1 /\ (c.todo = <<>> \/ c.dirs = <<>>))
        /\ ~Past(p) /\ pc[p] \notin {"idle", "finish"} => c.todo = c.cfg.models /\ c.dirs = <<>>
        /\ pc[p] \in {"adopt", "adopted", "resume"} => c.resume # NoRunId

\* Whom a command that launches talks to.
Serving(p) ==
    Past(p) /\ cmd[p].action = "launch" =>
        /\ pc[p] \in {"ready", "head"} \cup Stamping \/ Crossing(p) => Serves(Head(cmd[p].todo))
        /\ pc[p] \in Judging \/ Verdict(p) => Serves(cmd[p].cfg.judge)

\* The stamp says what the command measures with, and is the run's.
Headed(p) ==
    LET c == cmd[p]
    IN  /\ pc[p] \in Stamping \/ Crossing(p) =>
              /\ c.stamp.weights = Head(c.todo) /\ c.stamp.engine = StampIdentity(c.cfg)
              /\ c.stamp.runtime = c.cfg.runtime /\ c.stamp.judge = c.cfg.judge
        /\ Crossing(p) => runs[c.run].head = c.stamp

\* The runs that are judged are of this configuration.
Owned(p) ==
    /\ Past(p) => \A i \in DOMAIN cmd[p].dirs : Mine(p, cmd[p].dirs[i])
    /\ pc[p] \in Judging \/ Verdict(p) =>
          cmd[p].cfg.judge # NoJudge /\ \A i \in DOMAIN cmd[p].left : Mine(p, cmd[p].left[i])
    /\ pc[p] = "judging" \/ Verdict(p) => Mine(p, cmd[p].run)

\* The row in hand is true to the stamp that it goes under, and so are the
\* rows of a run whose stamp is being written again.
Witness(p) ==
    LET c == cmd[p]
    IN  /\ pc[p] = "adopted" =>
              \A row \in Range(runs[c.resume].rows) : row.action = "launch" => Matches(c.stamp, row)
        /\ pc[p] \in Building \/ Crossed(p) => (c.row.action = "launch" => Matches(c.stamp, c.row))
        /\ Verdict(p) => (c.row.action = "launch" => Matches(runs[c.run].head, c.row))

Settled(p) == Chosen(p) /\ Serving(p) /\ Headed(p) /\ Owned(p) /\ Witness(p)

LEMMA AtRest ==
    ASSUME NEW p \in Procs, pc'[p] \in {"idle", "finish"}
    PROVE  Settled(p)'
BY DEF Settled, Chosen, Serving, Headed, Owned, Witness, Past, Judging, Stamping, Building, Crossing,
   Crossed, Verdict

LEMMA SettledType ==
    ASSUME Typed, NEW p \in Procs, Type(p)
    PROVE  Settled(p)'
<1>1. PICK cfg \in Cfgs, resume \in RunIds \cup {NoRunId} :
        pc'[p] \in {"clear", "resolve"} /\ cmd'[p] = Command(cfg, resume, typed + 1)
  BY TypeEffect
<1>2. cmd'[p].todo = cmd'[p].cfg.models /\ cmd'[p].dirs = <<>>
  BY <1>1 DEF Command
<1> QED BY <1>1, <1>2 DEF Settled, Chosen, Serving, Headed, Owned, Witness, Past, Judging, Stamping,
     Building, Crossing, Crossed, Verdict

LEMMA HeadsKept ==
    ASSUME Typed, NEW p \in Procs, Step(p), pc[p] \notin {"create", "stamp", "adopt", "adopted"}
    PROVE  \A r \in RunIds : runs'[r].head = runs[r].head
BY HeadsMove DEF CreateRun, WriteStamp, AdoptJudge, WriteAdopted

\* A run of the configuration stays one, whatever its command writes.
LEMMA MineKept ==
    ASSUME Typed, NEW p \in Procs, Step(p), Headed(p), cmd'[p].cfg = cmd[p].cfg,
           pc[p] \notin {"adopt", "adopted"}
    PROVE  \A r \in RunIds : Mine(p, r) => Mine(p, r)'
<1> SUFFICES ASSUME NEW r \in RunIds, Mine(p, r)
             PROVE  Mine(p, r)'
  OBVIOUS
<1>1. UNCHANGED build
  BY BuildKept
<1>2. CASE runs'[r].head = runs[r].head
  BY <1>1, <1>2 DEF Mine, StampIdentity
<1>3. CASE WriteStamp(p) /\ runs'[r].head = cmd[p].stamp /\ cmd[p].stamp \in Stamps
  <2>1. cmd[p].stamp.engine = StampIdentity(cmd[p].cfg) /\ cmd[p].stamp.judge = cmd[p].cfg.judge
    BY <1>3 DEF WriteStamp, Headed, Stamping
  <2> QED BY <1>1, <1>3, <2>1 DEF Mine, StampIdentity
<1>4. runs[r].head # NoDir
  BY StampsAssumption DEF Mine
<1> QED BY <1>2, <1>3, <1>4, HeadsMove DEF AdoptJudge, WriteAdopted

\* Who prepares is where each step of preparing starts.
LEMMA PreparingPlaces ==
    ASSUME NEW p \in Procs, Prepares(p)
    PROVE  /\ pc[p] = "resolve" => Resolve(p)
           /\ pc[p] = "next" <=> NextCandidate(p)
           /\ pc[p] = "head" => BuildHead(p)
           /\ pc[p] = "create" => CreateRun(p)
           /\ pc[p] = "stamp" => WriteStamp(p)
           /\ pc[p] = "adopt" => AdoptJudge(p)
           /\ pc[p] = "adopted" => WriteAdopted(p)
           /\ pc[p] = "resume" => ResumeRun(p)
           /\ Step(p)
BY DEF Prepares, Step, ClearTree, AddTree, ExecState, Resolve, Confirm, NextCandidate, Ready, BuildHead,
   CreateRun, WriteStamp, AdoptJudge, WriteAdopted, ResumeRun

LEMMA PreparingKeepsServer ==
    ASSUME NEW p \in Procs, Prepares(p), pc[p] # "next"
    PROVE  UNCHANGED server
<1>1. Step(p) /\ ~NextCandidate(p)
  BY PreparingPlaces
<1>2. pc[p] \in Preparing
  BY DEF Prepares, ClearTree, AddTree, ExecState, Resolve, Confirm, NextCandidate, Ready, BuildHead,
     CreateRun, WriteStamp, AdoptJudge, WriteAdopted, ResumeRun, Preparing
<1>3. ~FinishCandidate(p) /\ ~JudgePhase(p) /\ ~JudgeDown(p)
  BY <1>2 DEF FinishCandidate, JudgePhase, JudgeDown, Preparing
<1> QED BY <1>1, <1>3, ServerKept

LEMMA SettledPreparing ==
    ASSUME Typed, Typed', NEW p \in Procs, Prepares(p), GoesOn(p), Settled(p), LaunchedRowsMatchStamp
    PROVE  Settled(p)'
<1> DEFINE c == cmd[p]
           d == cmd'[p]
<1>1. /\ c \in Commands /\ Holds(p) /\ c.cfg \in Cfgs /\ pc[p] \in Preparing
      /\ Chosen(p) /\ Serving(p) /\ Headed(p) /\ Owned(p) /\ Witness(p)
      /\ Step(p) /\ UNCHANGED build
  <2>1. pc[p] \in Preparing /\ pc[p] # "idle" /\ Step(p)
    BY PreparingEffect, PreparingPlaces DEF Preparing
  <2> QED BY <2>1, Own, BuildKept DEF Settled
<1>2. /\ <<pc[p], pc'[p]>> \in Arrows
      /\ d.cfg = c.cfg /\ d.resume = c.resume /\ d.todo = c.todo /\ d.dirs = c.dirs
      /\ pc[p] # "resolve" => d.action = c.action
      /\ pc[p] # "head" => d.stamp = c.stamp
  BY DEF GoesOn, KeepsPlan
<1>3. pc'[p] \notin Judging \cup Building \cup {"append", "judging"}
  BY <1>2 DEF Arrows, Judging, Building
<1>4. Chosen(p)'
  <2>1. CASE pc[p] = "resolve"
    <3>1. Resolve(p) /\ pc'[p] = "confirm"
      BY <1>2, <2>1, PreparingPlaces DEF Arrows
    <3>2. c.todo = c.cfg.models /\ c.dirs = <<>>
      BY <1>1, <2>1 DEF Chosen, Past
    <3>3. /\ c.resume # NoRunId => Len(c.cfg.models) = 1
          /\ d.action = (IF Uses(c.cfg) THEN "use" ELSE "launch")
          /\ ~Uses(c.cfg) => ~IsForeign(c.cfg)
      BY <3>1, ResolveEffect
    <3>4. d.action = "launch" => ~IsForeign(c.cfg)
      BY <3>3
    <3>5. c.resume # NoRunId => Len(c.todo) <= 1
      <4>1. c.resume # NoRunId => Len(c.todo) = 1
        BY <3>2, <3>3
      <4> QED BY <4>1
    <3> QED BY <1>2, <3>1, <3>2, <3>4, <3>5 DEF Chosen, Past, IsForeign
  <2>2. CASE pc[p] \in {"clear", "add", "exec"}
    <3>1. pc'[p] \in {"add", "exec", "resolve"}
      BY <1>2, <2>2 DEF Arrows
    <3> QED BY <1>1, <1>2, <2>2, <3>1 DEF Chosen, Past
  <2>3. CASE pc[p] \notin {"clear", "add", "exec", "resolve"}
    <3>1. Past(p) /\ pc'[p] \notin {"idle", "clear", "add", "exec", "resolve", "finish"}
      BY <1>1, <1>2, <2>3 DEF Arrows, Past, Preparing
    <3>2. pc'[p] \in {"adopt", "adopted", "resume"} => c.resume # NoRunId
      <4>1. CASE pc[p] = "head"
        <5>1. pc'[p] = IF c.resume = NoRunId THEN "create" ELSE "adopt"
          BY <4>1, HeadEffect, PreparingPlaces
        <5> QED BY <5>1
      <4>2. CASE pc[p] # "head"
        BY <1>1, <1>2, <4>2 DEF Arrows, Chosen
      <4> QED BY <4>1, <4>2
    <3> QED BY <1>1, <1>2, <2>3, <3>1, <3>2 DEF Chosen, Past
  <2> QED BY <2>1, <2>2, <2>3
<1>5. Serving(p)'
  <2> SUFFICES ASSUME d.action = "launch", pc'[p] \in {"ready", "head", "tasks"} \cup Stamping
               PROVE  server' = NoServer \/ (server'.model = Head(d.todo) /\ server'.engine = build')
    BY <1>3 DEF Serving, Serves, Crossing, Crossed, Verdict
  <2>1. CASE pc[p] = "next"
    <3>1. NextCandidate(p) /\ pc'[p] = "ready" /\ c.action = "launch"
      BY <1>2, <2>1, PreparingPlaces DEF Arrows, Stamping
    <3> QED BY <1>1, <1>2, <3>1, NextEffect DEF Started
  <2>2. CASE pc[p] # "next"
    <3>1. pc[p] \in {"ready", "head"} \cup Stamping
      BY <1>1, <1>2, <2>2 DEF Arrows, Stamping
    <3>2. Past(p) /\ c.action = "launch"
      BY <1>2, <3>1 DEF Past, Stamping
    <3>3. Serves(Head(c.todo))
      BY <1>1, <3>1, <3>2 DEF Serving
    <3>4. UNCHANGED server
      BY <2>2, PreparingKeepsServer
    <3> QED BY <1>1, <1>2, <3>3, <3>4 DEF Serves
  <2> QED BY <2>1, <2>2
<1>6. Headed(p)'
  <2>1. pc'[p] \in Stamping \cup {"tasks"} =>
          /\ d.stamp.weights = Head(d.todo) /\ d.stamp.engine = StampIdentity(c.cfg)
          /\ d.stamp.runtime = c.cfg.runtime /\ d.stamp.judge = c.cfg.judge
    <3>1. CASE pc[p] = "head"
      <4>1. d.stamp = StampOf(c.cfg, Head(c.todo), c.exec)
        BY <3>1, HeadEffect, PreparingPlaces
      <4> QED BY <1>2, <4>1 DEF StampOf
    <3>2. CASE pc[p] # "head" /\ pc'[p] \in Stamping \cup {"tasks"}
      <4>1. pc[p] \in Stamping
        BY <1>1, <1>2, <3>2 DEF Arrows, Stamping
      <4> QED BY <1>1, <1>2, <3>2, <4>1 DEF Headed
    <3> QED BY <3>1, <3>2
  <2>2. ASSUME pc'[p] = "tasks"
        PROVE  runs'[d.run].head = d.stamp
    <3>1. CASE pc[p] = "stamp"
      <4>1. WriteStamp(p) /\ c.run \in RunIds
        BY <1>1, <3>1, PreparingPlaces DEF Holds
      <4>2. d = c
        BY <4>1, Gone DEF WriteStamp
      <4>3. runs'[c.run].head = c.stamp
        BY <1>1, <4>1 DEF WriteStamp, StampWritten, Typed, TypeOK, OnDisk
      <4> QED BY <4>2, <4>3
    <3>2. CASE pc[p] = "resume"
      <4>1. ResumeRun(p) /\ c.resume \in RunIds /\ c.stamp \in Stamps /\ UNCHANGED runs
        BY <1>1, <3>2, PreparingPlaces DEF Holds, Stamping, ResumeRun
      <4>2. Resumable(runs[c.resume], c.stamp) /\ d.run = c.resume
        BY <2>2, <4>1, ResumeEffect
      <4>3. runs[c.resume].head \in Stamps
        BY <4>1, <4>2 DEF Resumable, Loads, Typed, TypeOK, OnDisk
      <4>4. runs[c.resume].head = c.stamp
        BY <4>1, <4>2, <4>3, SameStamps DEF Resumable
      <4> QED BY <1>2, <3>2, <4>1, <4>2, <4>4
    <3> QED BY <1>2, <2>2, <3>1, <3>2 DEF Arrows
  <2> QED BY <1>1, <1>2, <1>3, <2>1, <2>2 DEF Headed, Crossing, Crossed, StampIdentity
<1>7. Owned(p)'
  <2>1. ASSUME pc'[p] \notin {"clear", "add", "exec", "resolve"}, NEW i \in DOMAIN c.dirs
        PROVE  Mine(p, c.dirs[i])'
    <3>1. Past(p)
      BY <1>1, <1>2, <2>1 DEF Chosen, Past, Preparing, Arrows
    <3>2. c.dirs[i] \in RunIds /\ Mine(p, c.dirs[i])
      BY <1>1, <2>1, <3>1 DEF Owned, Commands
    <3>3. pc[p] \notin {"adopt", "adopted"}
      BY <1>1, <2>1 DEF Chosen, Past, Holds, Stamping
    <3> QED BY <1>1, <1>2, <3>2, <3>3, MineKept DEF Mine
  <2> QED BY <1>2, <1>3, <2>1 DEF Owned, Past, Mine, Verdict, Judging
<1>8. Witness(p)'
  <2> SUFFICES ASSUME pc'[p] = "adopted", NEW row \in Range(runs'[d.resume].rows), row.action = "launch"
               PROVE  Matches(d.stamp, row)
    BY <1>3 DEF Witness, Crossed, Verdict, Building
  <2>1. AdoptJudge(p) /\ c.resume \in RunIds /\ c.stamp \in Stamps
    BY <1>1, <1>2, PreparingPlaces DEF Arrows, Holds, Stamping
  <2>2. runs'[c.resume].rows = runs[c.resume].rows
    BY <1>1, <2>1, RowsKept DEF AdoptJudge, AppendRow
  <2> DEFINE head == runs[c.resume].head
             adopting == [head EXCEPT !.judge = c.stamp.judge]
  <2>3. head \in Stamps /\ head.judge = NoJudge /\ FirstMismatch(adopting, c.stamp) = Same
    BY <2>1, AdoptEffect DEF WouldAdopt, Loads, Typed, TypeOK, OnDisk
  <2>4. adopting \in Stamps
    BY <2>1, <2>3 DEF Stamps
  <2>5. adopting = c.stamp
    BY <2>1, <2>3, <2>4, SameStamps
  <2>6. head.runtime = c.stamp.runtime /\ head.weights = c.stamp.weights /\ head.engine = c.stamp.engine
    BY <2>3, <2>5 DEF Stamps
  <2>7. Matches(head, row)
    BY <1>2, <2>1, <2>2, <2>3, StampsAssumption DEF LaunchedRowsMatchStamp, Whole
  <2> QED BY <1>2, <2>1, <2>3, <2>6, <2>7 DEF Matches, Arrows
<1> QED BY <1>4, <1>5, <1>6, <1>7, <1>8 DEF Settled

LEMMA SameRunOf ==
    ASSUME NEW STATE a, NEW STATE b, SameWork(a, b)
    PROVE  SameRun(a, b)
BY DEF SameWork, SameRun, KeepsChoice, KeepsPlan

\* Crossing after crossing, the command keeps its server, its stamp and its run.
LEMMA SettledMeasuring ==
    ASSUME Typed, NEW p \in Procs, Step(p), Settled(p), Crossing(p), Crossing(p)',
           SameRun(cmd'[p], cmd[p]), UNCHANGED server
    PROVE  Chosen(p)' /\ Serving(p)' /\ Headed(p)' /\ Owned(p)'
<1> DEFINE c == cmd[p]
           d == cmd'[p]
<1>1. /\ c \in Commands /\ Holds(p) /\ c.run \in RunIds
      /\ Chosen(p) /\ Serving(p) /\ Headed(p) /\ Owned(p) /\ UNCHANGED build
  <2>1. pc[p] # "idle"
    BY DEF Crossing, Crossed, Building
  <2> QED BY <2>1, Own, BuildKept DEF Settled, Holds
<1>2. /\ d.cfg = c.cfg /\ d.resume = c.resume /\ d.todo = c.todo /\ d.dirs = c.dirs
      /\ d.action = c.action /\ d.stamp = c.stamp /\ d.run = c.run
  BY DEF SameRun, KeepsChoice, KeepsPlan
<1>3. /\ pc[p] \in {"tasks", "append"} \cup Building /\ ~Verdict(p)
      /\ pc'[p] \in {"tasks", "append"} \cup Building /\ ~Verdict(p)'
  BY DEF Crossing, Crossed, Verdict, Building
<1>4. Past(p) /\ Past(p)'
  BY <1>3 DEF Past, Building
<1>5. Chosen(p)'
  BY <1>1, <1>2, <1>3, <1>4 DEF Chosen, Building
<1>6. Serving(p)'
  <2>1. c.action = "launch" => Serves(Head(c.todo))
    BY <1>1, <1>4 DEF Serving
  <2> QED BY <1>1, <1>2, <1>3, <2>1 DEF Serving, Serves, Judging, Building
<1>7. Headed(p)'
  <2>1. runs'[c.run].head = runs[c.run].head
    BY <1>1, <1>3, HeadsKept DEF Building
  <2> QED BY <1>1, <1>2, <2>1 DEF Headed, StampIdentity
<1>8. Owned(p)'
  <2>1. ASSUME NEW i \in DOMAIN c.dirs
        PROVE  Mine(p, c.dirs[i])'
    <3>1. c.dirs[i] \in RunIds /\ Mine(p, c.dirs[i])
      BY <1>1, <1>4 DEF Owned, Commands
    <3> QED BY <1>1, <1>2, <1>3, <3>1, MineKept DEF Mine, Building
  <2> QED BY <1>2, <1>3, <2>1 DEF Owned, Mine, Judging, Building
<1> QED BY <1>5, <1>6, <1>7, <1>8

LEMMA SettledCrossing ==
    ASSUME Typed, Typed', NEW p \in Procs, Settled(p),
           CrossThroughput(p) \/ CrossProbe(p) \/ CrossForced(p) \/ CrossCodebase(p)
    PROVE  Settled(p)'
<1> DEFINE c == cmd[p]
           row == cmd'[p].row
<1>1. CASE pc'[p] = "finish"
  BY <1>1, AtRest
<1>2. CASE pc'[p] # "finish"
  <2>1. /\ pc'[p] \in {"append", "splice"} /\ SameWork(cmd'[p], c)
        /\ row.key = KeyAt(p) /\ Witnessed(row, c)
    BY <1>2, CrossingEffect
  <2>2. pc[p] = "tasks" /\ Owes(p) /\ Step(p)
    BY DEF CrossThroughput, CrossProbe, CrossForced, CrossCodebase, Step
  <2>3. c \in Commands /\ row.key[1] # "judge"
    BY <2>1, <2>2, Own, KeyAtPlan, PlanKey
  <2>4. UNCHANGED server
    BY <2>2, ServerKept DEF NextCandidate, FinishCandidate, JudgePhase, JudgeDown, Owes,
       CrossThroughput, CrossProbe, CrossForced, CrossCodebase
  <2>5. Crossing(p) /\ Crossing(p)' /\ ~Verdict(p)'
    BY <2>1, <2>2, <2>3 DEF Crossing, Crossed, Building, Verdict
  <2>6. Chosen(p)' /\ Serving(p)' /\ Headed(p)' /\ Owned(p)'
    BY <2>1, <2>2, <2>4, <2>5, SameRunOf, SettledMeasuring
  <2>7. ASSUME row.action = "launch"
        PROVE  Matches(c.stamp, row)
    <3>1. c.action = "launch" /\ Past(p)
      BY <2>1, <2>2, <2>7 DEF Witnessed, Past
    <3>2. ~IsForeign(c.cfg) /\ Serves(Head(c.todo))
      BY <2>5, <3>1 DEF Settled, Chosen, Serving
    <3>3. row.out = "measured" => row.by = <<Head(c.todo), build>>
      BY <2>1, <3>2 DEF Witnessed, Serves
    <3>4. c.stamp.weights = Head(c.todo) /\ c.stamp.engine = build /\ c.stamp.runtime = "llama.cpp"
      BY <2>5, <3>2 DEF Settled, Headed, StampIdentity, IsForeign
    <3> QED BY <2>3, <3>3, <3>4 DEF Matches
  <2>8. Witness(p)'
    BY <2>1, <2>5, <2>7 DEF Witness, SameWork, Building, Matches
  <2> QED BY <2>6, <2>8 DEF Settled
<1> QED BY <1>1, <1>2

LEMMA SettledBuilding ==
    ASSUME Typed, Typed', NEW p \in Procs, Settled(p), SpliceFill(p) \/ CheckFill(p) \/ RevertFill(p)
    PROVE  Settled(p)'
<1> DEFINE c == cmd[p]
           d == cmd'[p]
<1>1. CASE pc'[p] = "finish"
  BY <1>1, AtRest
<1>2. CASE pc'[p] # "finish"
  <2>1. /\ pc[p] \in Building /\ pc'[p] \in Building \cup {"append"}
        /\ SameWork(d, c) /\ d.row.key = c.row.key /\ d.row.out = c.row.out
        /\ d.row.by = c.row.by /\ d.row.action = c.row.action
    BY <1>2, BuildingEffect DEF Building
  <2>2. Step(p)
    BY DEF Step
  <2>3. c \in Commands /\ c.row.key[1] # "judge"
    <3>1. c \in Commands /\ Holds(p)
      BY <2>1, Own DEF Building
    <3>2. Owes(p) /\ c.row.key = KeyAt(p)
      BY <2>1, <3>1 DEF Holds
    <3> QED BY <3>1, <3>2, KeyAtPlan, PlanKey
  <2>4. UNCHANGED server
    BY <2>1, <2>2, ServerKept DEF NextCandidate, FinishCandidate, JudgePhase, JudgeDown, Building
  <2>5. Crossing(p) /\ Crossing(p)' /\ ~Verdict(p)'
    BY <2>1, <2>3 DEF Crossing, Crossed, Building, Verdict
  <2>6. Chosen(p)' /\ Serving(p)' /\ Headed(p)' /\ Owned(p)'
    BY <2>1, <2>2, <2>4, <2>5, SameRunOf, SettledMeasuring
  <2>7. c.row.action = "launch" => Matches(c.stamp, c.row)
    BY <2>1 DEF Settled, Witness
  <2>8. d.row.action = "launch" => Matches(d.stamp, d.row)
    BY <2>1, <2>7 DEF SameWork, Matches
  <2>9. Witness(p)'
    BY <2>1, <2>5, <2>8 DEF Witness, Building, Matches
  <2> QED BY <2>6, <2>9 DEF Settled
<1> QED BY <1>1, <1>2

LEMMA SettledSkip ==
    ASSUME Typed, NEW p \in Procs, Settled(p), SkipDone(p) \/ (AppendRow(p) /\ Crossed(p))
    PROVE  Settled(p)'
<1>1. /\ pc[p] \in {"tasks", "append"} /\ pc'[p] = "tasks" /\ SameRun(cmd'[p], cmd[p])
      /\ Step(p) /\ Crossing(p)
  BY SkipEffect, AppendEffect DEF Step, Crossing, Crossed, Verdict
<1>2. UNCHANGED server
  <2>1. ~FinishCandidate(p)
    <3>1. cmd[p].at \in Nat /\ Len(Plan(cmd[p].cfg)) \in Nat
      BY <1>1, Own, PlanOf DEF Commands
    <3>2. SkipDone(p) => cmd[p].at <= Len(Plan(cmd[p].cfg))
      BY DEF SkipDone
    <3>3. AppendRow(p) => pc[p] = "append"
      BY DEF AppendRow
    <3> QED BY <3>1, <3>2, <3>3 DEF FinishCandidate
  <2> QED BY <1>1, <2>1, ServerKept DEF NextCandidate, JudgePhase, JudgeDown
<1>3. Chosen(p)' /\ Serving(p)' /\ Headed(p)' /\ Owned(p)'
  BY <1>1, <1>2, SettledMeasuring DEF Crossing
<1>4. Witness(p)'
  BY <1>1 DEF Witness, Building, Crossed, Verdict
<1> QED BY <1>3, <1>4 DEF Settled

LEMMA SettledFinishCandidate ==
    ASSUME Typed, NEW p \in Procs, Settled(p), FinishCandidate(p)
    PROVE  Settled(p)'
<1> DEFINE c == cmd[p]
           d == cmd'[p]
<1>1. CASE pc'[p] = "finish"
  BY <1>1, AtRest
<1>2. CASE pc'[p] # "finish"
  <2>1. /\ pc[p] = "tasks" /\ pc'[p] = "next" /\ d.todo = Tail(c.todo) /\ d.dirs = Append(c.dirs, c.run)
        /\ d.cfg = c.cfg /\ d.resume = c.resume /\ d.action = c.action
    BY <1>2, FinishCandidateEffect
  <2>2. /\ c \in Commands /\ Holds(p) /\ c.run \in RunIds /\ c.stamp \in Stamps /\ c.todo # <<>>
        /\ Step(p) /\ UNCHANGED build
    <3>1. c \in Commands /\ Holds(p)
      BY <2>1, Own
    <3>2. Step(p)
      BY DEF Step
    <3> QED BY <2>1, <3>1, <3>2, BuildKept DEF Holds, Crossing
  <2>3. Past(p) /\ Past(p)' /\ Crossing(p)
    BY <2>1 DEF Past, Crossing
  <2>4. Chosen(p)'
    <3>1. ASSUME c.resume # NoRunId
          PROVE  d.todo = <<>>
      <4>1. Len(c.todo) <= 1
        BY <2>3, <3>1 DEF Settled, Chosen
      <4>2. c.todo \in Seq(Models)
        BY <2>2 DEF Commands
      <4> QED BY <2>1, <2>2, <4>1, <4>2
    <3>2. c.action = "launch" => ~IsForeign(c.cfg)
      BY <2>3 DEF Settled, Chosen
    <3>3. Len(<<>>) <= 1
      OBVIOUS
    <3> QED BY <2>1, <2>3, <3>1, <3>2, <3>3 DEF Chosen
  <2>5. Serving(p)' /\ Headed(p)' /\ Witness(p)'
    BY <2>1 DEF Serving, Headed, Witness, Stamping, Crossing, Crossed, Verdict, Judging, Building
  <2> DEFINE mine(r) == /\ runs'[r].head \in Stamps /\ runs'[r].head.judge = c.cfg.judge
                        /\ runs'[r].head.engine = StampIdentity(c.cfg)
  <2>6. \A r \in RunIds : Mine(p, r) => mine(r)
    BY <2>1, <2>2, MineKept DEF Mine, Settled, StampIdentity
  <2>7. ASSUME NEW i \in DOMAIN d.dirs
        PROVE  mine(d.dirs[i])
    <3>1. c.dirs \in Seq(RunIds)
      BY <2>2 DEF Commands
    <3>2. i \in 1..Len(c.dirs) + 1 /\ Len(c.dirs) \in Nat /\ DOMAIN c.dirs = 1..Len(c.dirs)
      BY <2>1, <2>2, <3>1, AppendProperties
    <3>3. CASE i = Len(c.dirs) + 1
      <4>1. d.dirs[i] = c.run
        BY <2>1, <2>2, <3>1, <3>3, AppendProperties
      <4>2. runs[c.run].head = c.stamp /\ c.stamp.judge = c.cfg.judge /\ c.stamp.engine = StampIdentity(c.cfg)
        BY <2>3 DEF Settled, Headed
      <4>3. Mine(p, c.run)
        BY <2>2, <4>2 DEF Mine
      <4> QED BY <2>2, <2>6, <4>1, <4>3
    <3>4. CASE i \in 1..Len(c.dirs)
      <4>1. d.dirs[i] = c.dirs[i]
        BY <2>1, <2>2, <3>1, <3>4, AppendProperties
      <4>2. c.dirs[i] \in RunIds /\ Mine(p, c.dirs[i])
        BY <2>3, <3>1, <3>2, <3>4 DEF Settled, Owned
      <4> QED BY <2>6, <4>1, <4>2
    <3> QED BY <3>2, <3>3, <3>4
  <2>8. Owned(p)'
    BY <2>1, <2>2, <2>7 DEF Owned, Judging, Verdict, Mine, StampIdentity
  <2> QED BY <2>4, <2>5, <2>8 DEF Settled
<1> QED BY <1>1, <1>2

\* What the judge's phase keeps of what the command settled on.
LEMMA SettledPhase ==
    ASSUME Typed, NEW p \in Procs, Step(p), Settled(p), Past(p), pc[p] \notin {"adopt", "adopted"},
           pc'[p] \in {"judge down"} \cup Judging \/ Verdict(p)',
           cmd'[p].cfg = cmd[p].cfg, cmd'[p].resume = cmd[p].resume, cmd'[p].todo = cmd[p].todo,
           cmd'[p].dirs = cmd[p].dirs, cmd'[p].action = cmd[p].action
    PROVE  Chosen(p)' /\ Headed(p)' /\ Past(p)'
<1>1. Past(p)' /\ pc'[p] \notin Stamping \cup Building \cup {"tasks"} /\ ~Crossing(p)'
  BY DEF Past, Judging, Verdict, Stamping, Building, Crossing, Crossed
<1>2. Chosen(p)' /\ Headed(p)'
  BY <1>1 DEF Settled, Chosen, Headed, Stamping
<1> QED BY <1>1, <1>2

LEMMA SettledJudging ==
    ASSUME Typed, Typed', NEW p \in Procs, Settled(p),
           JudgePhase(p) \/ JudgeReady(p) \/ JudgeRun(p) \/ JudgeSkips(p) \/ JudgeRow(p) \/ JudgeDown(p)
             \/ (AppendRow(p) /\ Verdict(p))
    PROVE  Settled(p)'
<1> DEFINE c == cmd[p]
           d == cmd'[p]
           mine(r) == /\ runs'[r].head \in Stamps /\ runs'[r].head.judge = c.cfg.judge
                      /\ runs'[r].head.engine = StampIdentity(c.cfg)
<1>1. CASE pc'[p] = "finish"
  BY <1>1, AtRest
<1>2. CASE pc'[p] # "finish"
  <2>1. /\ pc[p] \in {"judge", "append", "judge down"} \cup Judging /\ (pc[p] = "append" => Verdict(p))
        /\ Step(p) /\ UNCHANGED build /\ pc[p] # "idle"
    <3>1. Step(p)
      BY DEF Step
    <3>2. pc[p] \in {"judge", "append", "judge down"} \cup Judging /\ (pc[p] = "append" => Verdict(p))
      BY DEF JudgePhase, JudgeReady, JudgeRun, JudgeSkips, JudgeRow, JudgeDown, AppendRow, Verdict, Judging
    <3> QED BY <3>1, <3>2, BuildKept DEF Judging
  <2>2. c \in Commands /\ Holds(p) /\ Past(p) /\ Chosen(p) /\ Serving(p) /\ Owned(p) /\ Witness(p)
    BY <2>1, Own DEF Past, Judging, Settled
  <2>3. \A r \in RunIds : Mine(p, r) => mine(r)
    <3>1. \A r \in RunIds : runs'[r].head = runs[r].head
      BY <2>1, HeadsKept DEF Judging
    <3> QED BY <3>1 DEF Mine
  <2>4. ASSUME pc'[p] \in {"judge down"} \cup Judging \/ Verdict(p)',
               d.cfg = c.cfg, d.resume = c.resume, d.todo = c.todo, d.dirs = c.dirs, d.action = c.action,
               pc'[p] \in Judging \/ Verdict(p)' =>
                  /\ c.cfg.judge # NoJudge
                  /\ \A i \in DOMAIN d.left : mine(d.left[i])
                  /\ c.action = "launch" => server' = NoServer \/ (server'.model = c.cfg.judge /\ server'.engine = build),
               pc'[p] = "judging" \/ Verdict(p)' => mine(d.run),
               Verdict(p)' => (d.row.action = "launch" => Matches(runs'[d.run].head, d.row))
        PROVE  Settled(p)'
    <3>1. /\ Chosen(p)' /\ Headed(p)' /\ Past(p)'
          /\ \A i \in DOMAIN d.dirs : mine(d.dirs[i])
      <4>1. Chosen(p)' /\ Headed(p)' /\ Past(p)'
        BY <2>1, <2>2, <2>4, SettledPhase DEF Judging
      <4>2. \A i \in DOMAIN c.dirs : c.dirs[i] \in RunIds /\ Mine(p, c.dirs[i])
        BY <2>2 DEF Owned, Commands
      <4> QED BY <2>3, <2>4, <4>1, <4>2
    <3>2. pc'[p] \notin Stamping \cup Building \cup {"tasks", "ready", "head"} /\ ~Crossing(p)'
      BY <2>4 DEF Judging, Verdict, Stamping, Building, Crossing, Crossed
    <3>3. Serving(p)'
      BY <2>1, <2>4, <3>2 DEF Serving, Serves
    <3>4. Owned(p)'
      BY <2>1, <2>4, <3>1 DEF Owned, Mine, StampIdentity
    <3>5. Witness(p)'
      BY <2>4, <3>2 DEF Witness, Crossing, Stamping, Matches
    <3> QED BY <3>1, <3>3, <3>4, <3>5 DEF Settled
  <2>5. pc[p] \in Judging \/ Verdict(p) =>
          /\ c.cfg.judge # NoJudge
          /\ \A i \in DOMAIN c.left : c.left[i] \in RunIds /\ mine(c.left[i])
          /\ c.action = "launch" => Serves(c.cfg.judge)
    BY <2>2, <2>3 DEF Owned, Serving, Commands
  <2>6. pc[p] = "judging" \/ Verdict(p) => mine(c.run)
    BY <2>2, <2>3 DEF Owned, Holds, Verdict
  <2>7. pc[p] \in Judging \/ pc[p] = "append" => UNCHANGED server
    BY <2>1, ServerKept DEF NextCandidate, FinishCandidate, JudgePhase, JudgeDown, Judging
  <2> HIDE DEF mine
  <2>8. CASE JudgePhase(p)
    <3>1. /\ pc'[p] = "judge ready" /\ server' = Started(c.cfg.judge, c.id) /\ KeepsChoice(d, c) /\ d.left = c.dirs
          /\ c.cfg.judge # NoJudge
      BY <1>2, <2>8, JudgePhaseEffect
    <3>2. \A i \in DOMAIN c.dirs : mine(c.dirs[i])
      <4>1. \A i \in DOMAIN c.dirs : c.dirs[i] \in RunIds /\ Mine(p, c.dirs[i])
        BY <2>2 DEF Owned, Commands
      <4> QED BY <2>3, <4>1
    <3> QED BY <2>4, <3>1, <3>2 DEF KeepsChoice, KeepsPlan, Started, Judging, Verdict
  <2>9. CASE JudgeReady(p)
    <3>1. /\ pc[p] = "judge ready"
          /\ \/ pc'[p] = "judge run" /\ d = c
             \/ pc'[p] = "judge down" /\ d = Failed(c)
      BY <2>9, JudgeReadyEffect
    <3>2. KeepsPlan(c, c) /\ Failed(c).cfg = c.cfg /\ Failed(c).resume = c.resume /\ Failed(c).todo = c.todo
          /\ Failed(c).dirs = c.dirs /\ Failed(c).action = c.action
      BY <2>2 DEF Failed, Commands, KeepsPlan
    <3>3. CASE pc'[p] = "judge run" /\ d = c
      BY <2>1, <2>4, <2>5, <2>7, <3>1, <3>3 DEF Judging, Verdict, Serves
    <3>4. CASE pc'[p] = "judge down" /\ d = Failed(c)
      BY <2>4, <3>2, <3>4 DEF Judging, Verdict
    <3> QED BY <3>1, <3>3, <3>4
  <2>10. CASE JudgeRun(p)
    <3>1. /\ pc[p] = "judge run"
          /\ \/ c.left = <<>> /\ pc'[p] = "judge down" /\ d = c
             \/ pc'[p] = "judge down" /\ d = Failed(c)
             \/ /\ c.left # <<>> /\ pc'[p] = "judging" /\ KeepsChoice(d, c)
                /\ d.run = Head(c.left) /\ d.left = Tail(c.left)
      BY <2>10, JudgeRunEffect
    <3>2. Failed(c).cfg = c.cfg /\ Failed(c).resume = c.resume /\ Failed(c).todo = c.todo
          /\ Failed(c).dirs = c.dirs /\ Failed(c).action = c.action
      BY <2>2 DEF Failed, Commands
    <3>3. CASE pc'[p] = "judge down"
      BY <2>4, <3>1, <3>2, <3>3 DEF Judging, Verdict
    <3>4. CASE c.left # <<>> /\ pc'[p] = "judging" /\ KeepsChoice(d, c) /\ d.run = Head(c.left) /\ d.left = Tail(c.left)
      <4>1. c.left \in Seq(RunIds)
        BY <2>2 DEF Commands
      <4>2. 1 \in DOMAIN c.left /\ Head(c.left) = c.left[1]
        BY <3>4, <4>1
      <4>3. \A i \in DOMAIN d.left : i + 1 \in DOMAIN c.left /\ d.left[i] = c.left[i + 1]
        BY <3>4, <4>1
      <4>4. mine(d.run) /\ \A i \in DOMAIN d.left : mine(d.left[i])
        BY <2>5, <3>1, <3>4, <4>2, <4>3 DEF Judging
      <4> QED BY <2>1, <2>4, <2>5, <2>7, <3>1, <3>4, <4>4 DEF KeepsChoice, KeepsPlan, Judging, Verdict, Serves
    <3> QED BY <3>1, <3>3, <3>4
  <2>11. CASE JudgeSkips(p)
    <3>1. pc[p] = "judging" /\ pc'[p] \in {"judging", "judge run"} /\ KeepsChoice(d, c) /\ d.left = c.left /\ d.run = c.run
      BY <2>11, JudgeSkipsEffect
    <3> QED BY <2>1, <2>4, <2>5, <2>6, <2>7, <3>1 DEF KeepsChoice, KeepsPlan, Judging, Verdict, Serves
  <2>12. CASE AppendRow(p)
    <3>1. Verdict(p) /\ pc'[p] = "judging" /\ KeepsChoice(d, c) /\ d.left = c.left /\ d.run = c.run
      BY <2>1, <2>12, AppendEffect DEF SameRun
    <3> QED BY <2>1, <2>4, <2>5, <2>6, <2>7, <3>1 DEF KeepsChoice, KeepsPlan, Judging, Verdict, Serves
  <2>13. CASE JudgeRow(p)
    <3>1. CASE pc'[p] = "judge down"
      <4>1. d = Failed(c)
        BY <2>13, <3>1, JudgeRowEffect
      <4>2. Failed(c).cfg = c.cfg /\ Failed(c).resume = c.resume /\ Failed(c).todo = c.todo
            /\ Failed(c).dirs = c.dirs /\ Failed(c).action = c.action
        BY <2>2 DEF Failed, Commands
      <4> QED BY <2>4, <3>1, <4>1, <4>2 DEF Judging, Verdict
    <3>2. CASE pc'[p] # "judge down"
      <4>1. /\ pc[p] = "judging" /\ pc'[p] = "append" /\ KeepsChoice(d, c) /\ d.left = c.left /\ d.run = c.run
            /\ d.row.key[1] = "judge" /\ d.row.action = c.action
            /\ d.row.by = IF server = NoServer \/ IsForeign(c.cfg) THEN <<"none", 0>>
                          ELSE <<server.model, server.engine>>
        BY <2>13, <3>2, JudgeRowEffect
      <4>2. ASSUME c.action = "launch"
            PROVE  Matches(runs'[c.run].head, d.row)
        <5>1. ~IsForeign(c.cfg) /\ Serves(c.cfg.judge)
          BY <2>2, <2>5, <4>1, <4>2 DEF Chosen, Judging
        <5>2. d.row.by \in {<<c.cfg.judge, build>>, <<"none", 0>>}
          BY <4>1, <5>1 DEF Serves
        <5>3. runs'[c.run].head.judge = c.cfg.judge /\ runs'[c.run].head.engine = build
          BY <2>6, <4>1, <5>1 DEF StampIdentity, mine
        <5> QED BY <2>5, <4>1, <5>2, <5>3 DEF Matches, Judging
      <4> QED BY <2>1, <2>4, <2>5, <2>6, <2>7, <4>1, <4>2 DEF KeepsChoice, KeepsPlan, Judging, Verdict, Serves
    <3> QED BY <3>1, <3>2
  <2>14. CASE JudgeDown(p)
    BY <1>2, <2>14, JudgeDownEffect
  <2> QED BY <2>8, <2>9, <2>10, <2>11, <2>12, <2>13, <2>14
<1> QED BY <1>1, <1>2

LEMMA SettledStep ==
    ASSUME Typed, Typed', NEW p \in Procs, Settled(p), LaunchedRowsMatchStamp, Type(p) \/ Step(p) \/ Kill(p)
    PROVE  Settled(p)'
<1>1. CASE Type(p)
  BY <1>1, SettledType
<1>2. CASE Finish(p) \/ Kill(p)
  BY <1>2, RestEffect, AtRest
<1>3. CASE Prepares(p)
  <2>1. CASE pc'[p] = "finish"
    BY <2>1, AtRest
  <2>2. CASE pc'[p] # "finish"
    BY <1>3, <2>2, PreparingEffect, SettledPreparing
  <2> QED BY <2>1, <2>2
<1>4. CASE CrossThroughput(p) \/ CrossProbe(p) \/ CrossForced(p) \/ CrossCodebase(p)
  BY <1>4, SettledCrossing
<1>5. CASE SpliceFill(p) \/ CheckFill(p) \/ RevertFill(p)
  BY <1>5, SettledBuilding
<1>6. CASE SkipDone(p) \/ AppendRow(p)
  BY <1>6, SettledSkip, SettledJudging DEF AppendRow, Crossed, Verdict
<1>7. CASE FinishCandidate(p)
  BY <1>7, SettledFinishCandidate
<1>8. CASE JudgePhase(p) \/ JudgeReady(p) \/ JudgeRun(p) \/ JudgeSkips(p) \/ JudgeRow(p) \/ JudgeDown(p)
  BY <1>8, SettledJudging
<1> QED BY <1>1, <1>2, <1>3, <1>4, <1>5, <1>6, <1>7, <1>8 DEF Step, Prepares

\* Around a command that runs, a server may die and nothing else happens.
LEMMA SettledAround ==
    ASSUME Quiet = TRUE, Typed, NEW p \in Procs, Settled(p), ServerDies \/ UserStarts \/ Rebuild \/ UNCHANGED vars
    PROVE  Settled(p)'
<1>1. CASE pc[p] = "idle"
  <2>1. pc'[p] = "idle"
    BY <1>1, Around
  <2> QED BY <2>1, AtRest
<1>2. CASE pc[p] # "idle"
  <2>1. ServerDies \/ UNCHANGED vars
    BY <1>2 DEF UserStarts, Rebuild, Idle
  <2>2. UNCHANGED <<runs, pc, cmd, build>> /\ (server' = server \/ server' = NoServer)
    BY <2>1 DEF ServerDies, vars
  <2>3. Chosen(p)' /\ Headed(p)'
    BY <2>2 DEF Settled, Chosen, Headed, Past, Crossing, Crossed, Verdict, Mine, StampIdentity, Matches
  <2>5. Owned(p)'
    BY <2>2 DEF Settled, Owned, Past, Crossing, Crossed, Verdict, Mine, StampIdentity, Matches
  <2>6. Witness(p)'
    BY <2>2 DEF Settled, Witness, Past, Crossing, Crossed, Verdict, Mine, StampIdentity, Matches
  <2>4. Serving(p)'
    BY <2>2 DEF Settled, Serving, Serves, Past, Crossing, Crossed, Verdict
  <2> QED BY <2>3, <2>4, <2>5, <2>6 DEF Settled
<1> QED BY <1>1, <1>2

\* A row is appended under the stamp it was measured for, and a stamp is
\* written over no row that it does not describe.
LEMMA RowsMatch ==
    ASSUME Typed, NEW p \in Procs, Settled(p), Keyed(p), LaunchedRowsMatchStamp, Type(p) \/ Step(p) \/ Kill(p)
    PROVE  LaunchedRowsMatchStamp'
<1> SUFFICES ASSUME NEW r \in RunIds, Whole(runs[r])', NEW row \in Range(runs'[r].rows), row.action = "launch"
             PROVE  Matches(runs'[r].head, row)
  BY DEF LaunchedRowsMatchStamp, Matches
<1>1. runs[r].rows \in Seq(Rows) /\ runs'[r].head \notin {NoDir, Blank}
  BY DEF Typed, TypeOK, OnDisk, Whole
<1>2. CASE runs'[r].head = runs[r].head
  <2>1. row \in Range(runs[r].rows) => Matches(runs[r].head, row)
    BY <1>1, <1>2 DEF LaunchedRowsMatchStamp, Whole
  <2>2. CASE ~AppendRow(p)
    BY <1>2, <2>1, <2>2, RowsKept
  <2>3. CASE AppendRow(p)
    <3>1. /\ cmd[p].run \in RunIds /\ cmd[p].row \in Rows
          /\ \/ runs'[r].rows = runs[r].rows
             \/ r = cmd[p].run /\ runs'[r].rows = Append(runs[r].rows, cmd[p].row)
      BY <2>3, AppendedRow
    <3>2. row \in Range(runs[r].rows) \/ (r = cmd[p].run /\ row = cmd[p].row)
      BY <1>1, <3>1, RowOfAppended
    <3>3. Crossed(p) \/ Verdict(p)
      BY <2>3 DEF AppendRow, Crossed, Verdict
    <3>4. cmd[p].row.action = "launch" => Matches(runs[cmd[p].run].head, cmd[p].row)
      BY <3>3 DEF Settled, Witness, Headed, Crossing
    <3> QED BY <1>2, <2>1, <3>2, <3>4
  <2> QED BY <2>2, <2>3
<1>3. CASE WriteStamp(p) /\ r = cmd[p].run
  <2>1. runs'[r].rows = <<>>
    BY <1>3, RowsKept DEF Keyed, WriteStamp, AppendRow
  <2> QED BY <2>1 DEF Range
<1>4. CASE WriteAdopted(p) /\ r = cmd[p].resume /\ runs'[r].head = cmd[p].stamp
  <2>1. runs'[r].rows = runs[r].rows /\ pc[p] = "adopted"
    BY <1>4, RowsKept DEF WriteAdopted, AppendRow
  <2> QED BY <1>4, <2>1 DEF Settled, Witness
<1> QED BY <1>1, <1>2, <1>3, <1>4, HeadsMove

\* The rows of a run are one per crossing and, where bench launched the server
\* itself, of the model and build that the stamp of the run names, whichever
\* commands are killed, resumed and rebuilt between: as long as one terminal
\* types and nobody starts a server or rebuilds the engine under a bench, and for
\* plans that name no key twice (PlanAssumption, as for KeyedOnceAlways).
THEOREM RowsAreTrueAlways ==
    ASSUME OneTerminal, Quiet = TRUE
    PROVE  Spec => []RowsAreTrue
<1> DEFINE K == Typed /\ (\A p \in Procs : Keyed(p)) /\ KeyedOnce /\ NothingUnstamped
           S == (\A p \in Procs : Settled(p)) /\ LaunchedRowsMatchStamp
<1>1. Init => K /\ S
  <2>1. ASSUME Init, NEW p \in Procs
        PROVE  Settled(p)
    <3>1. pc[p] = "idle"
      BY <2>1 DEF Init
    <3> QED BY <3>1 DEF Settled, Chosen, Serving, Headed, Owned, Witness, Past, Judging, Stamping,
         Building, Crossing, Crossed, Verdict
  <2>2. Init => LaunchedRowsMatchStamp
    BY DEF Init, LaunchedRowsMatchStamp, Whole, NoRun
  <2> QED BY <2>1, <2>2, TypedInit, KeyedInit
<1>2. K /\ S /\ [Next]_vars => (K /\ S)'
  <2> SUFFICES ASSUME K, S, [Next]_vars
               PROVE  (K /\ S)'
    OBVIOUS
  <2>1. K'
    BY TypedNextStep, KeyedNext
  <2>2. ASSUME NEW p \in Procs, Type(p) \/ Step(p) \/ Kill(p)
        PROVE  S'
    <3>1. Settled(p)'
      BY <2>1, <2>2, SettledStep
    <3>2. \A q \in Procs : q = p
      BY DEF OneTerminal
    <3>3. LaunchedRowsMatchStamp'
      BY <2>2, RowsMatch
    <3> QED BY <3>1, <3>2, <3>3
  <2>3. CASE ServerDies \/ UserStarts \/ Rebuild \/ UNCHANGED vars
    <3>1. \A p \in Procs : Settled(p)'
      BY <2>3, SettledAround
    <3>2. UNCHANGED runs
      BY <2>3, Around
    <3>3. LaunchedRowsMatchStamp'
      BY <3>2 DEF LaunchedRowsMatchStamp, Whole, Matches
    <3> QED BY <2>1, <3>1, <3>3
  <2> QED BY <2>1, <2>2, <2>3 DEF Next
<1>3. K /\ S => RowsAreTrue
  BY DEF RowsAreTrue
<1> QED BY <1>1, <1>2, <1>3, PTL DEF Spec

-----------------------------------------------------------------------------
(* A bench that ends well has done its plan: what was crossed is in its    *)
(* run, what is owed a verdict is in hand, and whatever server it launched *)
(* is down where it may say that it is through.                            *)

\* The plan of p up to where it is, and the places where its candidates are over.
Crossings(p) == {Plan(cmd[p].cfg)[j] : j \in 1..cmd[p].at - 1}
Over(p) == pc[p] \in {"judge", "judge down"} \cup Judging \/ Verdict(p)

\* Every candidate is to be measured or has its run.
Counted(p) ==
    LET c == cmd[p]
    IN  /\ pc[p] \notin {"idle", "finish"} =>
              /\ Len(c.dirs) + Len(c.todo) = Len(c.cfg.models)
              /\ \A i \in DOMAIN c.todo : c.todo[i] \in Range(c.cfg.models)
        /\ Over(p) => c.todo = <<>>

\* A run holds what was crossed, unless a line of it is torn.
Covered(p) ==
    LET c == cmd[p]
    IN  /\ pc[p] \notin {"idle", "finish"} =>
              \A i \in DOMAIN c.dirs : Range(Plan(c.cfg)) \subseteq KeysOf(runs[c.dirs[i]].rows)
        /\ Crossing(p) =>
              /\ c.done \subseteq KeysOf(runs[c.run].rows)
              /\ ~runs[c.run].torn => Crossings(p) \subseteq KeysOf(runs[c.run].rows)

\* The judge has decided the runs behind it, and of the run in hand the rows
\* behind it.
Decided(p) ==
    LET c == cmd[p]
        rows == runs[c.run].rows
    IN  /\ pc[p] \in Judging \/ Verdict(p) =>
              \A i \in DOMAIN c.dirs :
                  \/ Owed(runs[c.dirs[i]].rows) = {}
                  \/ \E j \in DOMAIN c.left : c.left[j] = c.dirs[i]
                  \/ pc[p] \notin {"judge ready", "judge run"} /\ c.run = c.dirs[i]
        /\ pc[p] = "judging" \/ Verdict(p) =>
              /\ ~runs[c.run].torn
              /\ KeysOf(c.log) \subseteq KeysOf(rows)
              /\ \A i \in DOMAIN rows : Eligible(rows[i]) => \E j \in DOMAIN c.log : c.log[j] = rows[i]
              /\ \A j \in DOMAIN c.log : j < c.at /\ Eligible(c.log[j]) => JudgeKey(c.log[j]) \in KeysOf(rows)
        /\ pc[p] = "judge down" /\ c.fate = "ok" => \A i \in DOMAIN c.dirs : Owed(runs[c.dirs[i]].rows) = {}

\* What a bench that comes to its end without an error has done.
Finished(p) ==
    Through(p) =>
        LET c == cmd[p]
        IN  /\ Len(c.dirs) = Len(c.cfg.models)
            /\ \A i \in DOMAIN c.dirs :
                /\ Range(Plan(c.cfg)) \subseteq KeysOf(runs[c.dirs[i]].rows)
                /\ c.cfg.judge # NoJudge => Owed(runs[c.dirs[i]].rows) = {}

\* Where a server of this command may be up, and which.
Numbered(p) ==
    /\ server # NoServer => server.by <= typed
    /\ pc[p] # "idle" => 1 <= cmd[p].id /\ cmd[p].id <= typed
    /\ ended[p].id <= typed
Tended(p) ==
    LET c == cmd[p]
        up == server # NoServer /\ server.by = c.id
    IN  /\ Past(p) /\ c.cfg.judge # NoJudge => c.cfg.judge \notin Range(c.cfg.models)
        /\ pc[p] # "idle" /\ up =>
              \/ /\ pc[p] \in {"ready", "head"} \cup Stamping \/ Crossing(p)
                 /\ c.action = "launch" /\ server.model \in Range(c.cfg.models)
              \/ pc[p] \in {"judge down"} \cup Judging \/ Verdict(p)
              \/ /\ pc[p] = "finish" /\ c.fate = "failed"
                 /\ c.cfg.judge # NoJudge => server.model # c.cfg.judge

LEMMA KeysGrow ==
    ASSUME Typed, NEW p \in Procs, Type(p) \/ Step(p) \/ Kill(p)
    PROVE  \A r \in RunIds : KeysOf(runs[r].rows) \subseteq KeysOf(runs'[r].rows)
<1> SUFFICES ASSUME NEW r \in RunIds
             PROVE  KeysOf(runs[r].rows) \subseteq KeysOf(runs'[r].rows)
  OBVIOUS
<1>1. runs[r].rows \in Seq(Rows)
  BY DEF Typed, TypeOK, OnDisk
<1>2. CASE ~AppendRow(p)
  BY <1>2, RowsKept
<1>3. CASE AppendRow(p)
  BY <1>1, <1>3, AppendedRow, KeysOfAppended
<1> QED BY <1>2, <1>3

\* Only a command that is killed tears a line.
LEMMA TornKept ==
    ASSUME Typed, NEW p \in Procs, Step(p)
    PROVE  \A r \in RunIds : runs'[r].torn = runs[r].torn
<1> SUFFICES ASSUME NEW r \in RunIds
             PROVE  runs'[r].torn = runs[r].torn
  OBVIOUS
<1>1. runs \in [RunIds -> OnDisk]
  BY DEF Typed, TypeOK
<1>2. ASSUME NEW STATE i, i \in RunIds, NEW STATE stamp,
             \/ runs' = [runs EXCEPT ![i] = StampBlanked(@)]
             \/ runs' = [runs EXCEPT ![i] = StampWritten(@, stamp)]
             \/ runs' = [runs EXCEPT ![i] = Appended(@, stamp)]
      PROVE  runs'[r].torn = runs[r].torn
  <2>1. CASE r = i
    BY <1>1, <1>2, <2>1 DEF StampBlanked, StampWritten, Appended, OnDisk
  <2>2. CASE r # i
    BY <1>1, <1>2, <2>2
  <2> QED BY <2>1, <2>2
<1>3. CASE UNCHANGED runs
  BY <1>3
<1>4. CASE CreateRun(p)
  BY <1>2, <1>4 DEF CreateRun
<1>5. CASE WriteStamp(p) \/ AppendRow(p)
  <2>1. cmd[p].run \in RunIds
    BY <1>5, Own DEF WriteStamp, AppendRow, Holds
  <2> QED BY <1>2, <1>5, <2>1 DEF WriteStamp, AppendRow
<1>6. CASE AdoptJudge(p) \/ WriteAdopted(p)
  <2>1. cmd[p].resume \in RunIds
    BY <1>6, Own DEF AdoptJudge, WriteAdopted, Holds
  <2> QED BY <1>2, <1>3, <1>6, <2>1 DEF AdoptJudge, WriteAdopted
<1>7. CASE ClearTree(p) \/ AddTree(p) \/ ExecState(p) \/ Resolve(p) \/ Confirm(p) \/ NextCandidate(p)
           \/ Ready(p) \/ BuildHead(p) \/ ResumeRun(p) \/ SkipDone(p)
  BY <1>3, <1>7 DEF ClearTree, AddTree, ExecState, Resolve, Confirm, NextCandidate, Ready, BuildHead,
     ResumeRun, SkipDone
<1>8. CASE CrossThroughput(p) \/ CrossProbe(p) \/ CrossForced(p) \/ CrossCodebase(p)
           \/ SpliceFill(p) \/ CheckFill(p) \/ RevertFill(p) \/ FinishCandidate(p)
  BY <1>3, <1>8 DEF CrossThroughput, CrossProbe, CrossForced, CrossCodebase, SpliceFill, CheckFill,
     RevertFill, FinishCandidate
<1>9. CASE JudgePhase(p) \/ JudgeReady(p) \/ JudgeRun(p) \/ JudgeSkips(p) \/ JudgeRow(p) \/ JudgeDown(p)
           \/ Finish(p)
  BY <1>3, <1>9 DEF JudgePhase, JudgeReady, JudgeRun, JudgeSkips, JudgeRow, JudgeDown, Finish
<1> QED BY <1>4, <1>5, <1>6, <1>7, <1>8, <1>9 DEF Step

LEMMA AppendedWhole ==
    ASSUME Typed, NEW p \in Procs, AppendRow(p), ~runs[cmd[p].run].torn
    PROVE  runs'[cmd[p].run].rows = Append(runs[cmd[p].run].rows, cmd[p].row)
<1>1. cmd[p].run \in RunIds
  BY Own DEF AppendRow, Holds
<1>2. runs'[cmd[p].run] = [runs[cmd[p].run] EXCEPT !.rows = Append(@, cmd[p].row)]
  BY <1>1 DEF AppendRow, Appended, Typed, TypeOK
<1> QED BY <1>1, <1>2 DEF Typed, TypeOK, OnDisk

\* A verdict is no function body.
LEMMA OwedAppended ==
    ASSUME NEW rows \in Seq(Rows), NEW row \in Rows, row.key[1] = "judge", Owed(rows) = {}
    PROVE  Owed(Append(rows, row)) = {}
<1> DEFINE more == Append(rows, row)
<1>1. KeysOf(rows) \subseteq KeysOf(more)
  BY KeysOfAppended
<1>2. ~Eligible(row)
  BY DEF Eligible
<1>3. ASSUME NEW i \in DOMAIN more, Eligible(more[i])
      PROVE  IsDone(more, JudgeKey(more[i]))
  <2>1. Len(rows) \in Nat /\ DOMAIN rows = 1..Len(rows) /\ i \in 1..Len(rows) + 1
    BY AppendProperties
  <2>2. i # Len(rows) + 1
    BY <1>2, <1>3, AppendProperties
  <2>3. i \in DOMAIN rows /\ more[i] = rows[i]
    BY <2>1, <2>2, AppendProperties
  <2>4. IsDone(rows, JudgeKey(rows[i]))
    BY <1>3, <2>3 DEF Owed
  <2> QED BY <1>1, <2>3, <2>4 DEF IsDone
<1> QED BY <1>3 DEF Owed

\* Runs that owe no verdict still owe none when a verdict is appended.
LEMMA OwedKept ==
    ASSUME Typed, NEW p \in Procs, Step(p), pc[p] = "append" => Verdict(p), NEW STATE r, r \in RunIds,
           Owed(runs[r].rows) = {}
    PROVE  Owed(runs'[r].rows) = {}
<1>1. CASE ~AppendRow(p)
  BY <1>1, RowsKept
<1>2. CASE AppendRow(p)
  <2>1. runs[r].rows \in Seq(Rows)
    BY DEF Typed, TypeOK, OnDisk
  <2>2. cmd[p].row.key[1] = "judge"
    BY <1>2 DEF AppendRow, Verdict
  <2> QED BY <1>2, <2>1, <2>2, AppendedRow, OwedAppended
<1> QED BY <1>1, <1>2

\* A command is the same one until its prompt comes back.
LEMMA IdKept ==
    ASSUME Typed, NEW p \in Procs, Step(p)
    PROVE  pc[p] # "idle" /\ (pc'[p] = "idle" \/ (cmd'[p].id = cmd[p].id /\ cmd'[p].cfg = cmd[p].cfg))
<1>1. pc[p] # "idle"
  BY DEF Step, ClearTree, AddTree, ExecState, Resolve, Confirm, NextCandidate, Ready, BuildHead,
     CreateRun, WriteStamp, AdoptJudge, WriteAdopted, ResumeRun, SkipDone, CrossThroughput, CrossProbe,
     CrossForced, CrossCodebase, SpliceFill, CheckFill, RevertFill, AppendRow, FinishCandidate,
     JudgePhase, JudgeReady, JudgeRun, JudgeSkips, JudgeRow, JudgeDown, Finish
<1>2. Failed(cmd[p]).id = cmd[p].id /\ Failed(cmd[p]).cfg = cmd[p].cfg
  BY <1>1, Own, FailedKeeps
<1>3. CASE Prepares(p)
  BY <1>1, <1>2, <1>3, PreparingEffect DEF GoesOn, KeepsPlan, Failed
<1>4. CASE CrossThroughput(p) \/ CrossProbe(p) \/ CrossForced(p) \/ CrossCodebase(p)
  BY <1>1, <1>2, <1>4, CrossingEffect DEF SameWork, Failed
<1>5. CASE SpliceFill(p) \/ CheckFill(p) \/ RevertFill(p)
  BY <1>1, <1>2, <1>5, BuildingEffect DEF SameWork, Failed
<1>6. CASE SkipDone(p) \/ AppendRow(p)
  BY <1>1, <1>6, SkipEffect, AppendEffect DEF SameRun, KeepsChoice, KeepsPlan
<1>7. CASE FinishCandidate(p)
  BY <1>1, <1>2, <1>7, FinishCandidateEffect
<1>8. CASE JudgePhase(p)
  BY <1>1, <1>2, <1>8, JudgePhaseEffect DEF KeepsChoice, KeepsPlan
<1>9. CASE JudgeReady(p) \/ JudgeRun(p)
  BY <1>1, <1>2, <1>9, JudgeReadyEffect, JudgeRunEffect DEF KeepsChoice, KeepsPlan
<1>10. CASE JudgeSkips(p) \/ JudgeRow(p) \/ JudgeDown(p)
  BY <1>1, <1>2, <1>10, JudgeSkipsEffect, JudgeRowEffect, JudgeDownEffect DEF KeepsChoice, KeepsPlan
<1>11. CASE Finish(p)
  BY <1>1, <1>11, RestEffect
<1> QED BY <1>3, <1>4, <1>5, <1>6, <1>7, <1>8, <1>9, <1>10, <1>11 DEF Step, Prepares

LEMMA TypedKept ==
    ASSUME NEW p \in Procs, Step(p) \/ Kill(p)
    PROVE  UNCHANGED typed
<1>1. CASE ClearTree(p) \/ AddTree(p) \/ ExecState(p) \/ Resolve(p) \/ Confirm(p) \/ NextCandidate(p)
           \/ Ready(p) \/ BuildHead(p) \/ CreateRun(p) \/ WriteStamp(p) \/ AdoptJudge(p) \/ WriteAdopted(p)
           \/ ResumeRun(p) \/ SkipDone(p)
  BY <1>1 DEF ClearTree, AddTree, ExecState, Resolve, Confirm, NextCandidate, Ready, BuildHead,
     CreateRun, WriteStamp, AdoptJudge, WriteAdopted, ResumeRun, SkipDone
<1>2. CASE CrossThroughput(p) \/ CrossProbe(p) \/ CrossForced(p) \/ CrossCodebase(p)
           \/ SpliceFill(p) \/ CheckFill(p) \/ RevertFill(p) \/ AppendRow(p) \/ FinishCandidate(p)
  BY <1>2 DEF CrossThroughput, CrossProbe, CrossForced, CrossCodebase, SpliceFill, CheckFill, RevertFill,
     AppendRow, FinishCandidate
<1>3. CASE JudgePhase(p) \/ JudgeReady(p) \/ JudgeRun(p) \/ JudgeSkips(p) \/ JudgeRow(p) \/ JudgeDown(p)
           \/ Finish(p) \/ Kill(p)
  BY <1>3 DEF JudgePhase, JudgeReady, JudgeRun, JudgeSkips, JudgeRow, JudgeDown, Finish, Kill
<1> QED BY <1>1, <1>2, <1>3 DEF Step

LEMMA EndedKept ==
    ASSUME NEW p \in Procs, Type(p) \/ Step(p), ~Finish(p)
    PROVE  UNCHANGED ended
<1>1. CASE ClearTree(p) \/ AddTree(p) \/ ExecState(p) \/ Resolve(p) \/ Confirm(p) \/ NextCandidate(p)
           \/ Ready(p) \/ BuildHead(p) \/ CreateRun(p) \/ WriteStamp(p) \/ AdoptJudge(p) \/ WriteAdopted(p)
           \/ ResumeRun(p) \/ SkipDone(p)
  BY <1>1 DEF ClearTree, AddTree, ExecState, Resolve, Confirm, NextCandidate, Ready, BuildHead,
     CreateRun, WriteStamp, AdoptJudge, WriteAdopted, ResumeRun, SkipDone
<1>2. CASE CrossThroughput(p) \/ CrossProbe(p) \/ CrossForced(p) \/ CrossCodebase(p)
           \/ SpliceFill(p) \/ CheckFill(p) \/ RevertFill(p) \/ AppendRow(p) \/ FinishCandidate(p)
  BY <1>2 DEF CrossThroughput, CrossProbe, CrossForced, CrossCodebase, SpliceFill, CheckFill, RevertFill,
     AppendRow, FinishCandidate
<1>3. CASE JudgePhase(p) \/ JudgeReady(p) \/ JudgeRun(p) \/ JudgeSkips(p) \/ JudgeRow(p) \/ JudgeDown(p)
           \/ Type(p)
  BY <1>3 DEF JudgePhase, JudgeReady, JudgeRun, JudgeSkips, JudgeRow, JudgeDown, Type
<1> QED BY <1>1, <1>2, <1>3 DEF Step

\* The last bench of each terminal, as its end is recorded: ended keeps every
\* field of every record.
Recorded ==
    ended \in [Procs -> [ how: {"none", "done", "failed", "killed"}, id: Nat, tree: BOOLEAN,
                           judge: {cfg.judge : cfg \in Cfgs} \cup {NoJudge} ]]

\* What answers afterwards was there before, or is down, or was started by p.
LEMMA ServersOf ==
    ASSUME Typed, NEW p \in Procs, Type(p) \/ Step(p) \/ Kill(p)
    PROVE  server' \in {server, NoServer} \/ (server'.by = cmd[p].id /\ pc[p] # "idle")
<1>1. CASE NextCandidate(p)
  BY <1>1 DEF NextCandidate, Started
<1>2. CASE JudgePhase(p)
  <2>1. pc[p] = "judge"
    BY <1>2 DEF JudgePhase
  <2>2. UNCHANGED server \/ server' = Started(cmd[p].cfg.judge, cmd[p].id)
    BY <1>2 DEF JudgePhase
  <2> QED BY <2>1, <2>2 DEF Started
<1>3. CASE FinishCandidate(p)
  BY <1>3 DEF FinishCandidate
<1>4. CASE JudgeDown(p)
  BY <1>4 DEF JudgeDown
<1>5. CASE UNCHANGED server
  BY <1>5
<1> QED BY <1>1, <1>2, <1>3, <1>4, <1>5, ServerKept

LEMMA NumberedStep ==
    ASSUME Typed, Recorded, NEW p \in Procs, Numbered(p), Type(p) \/ Step(p) \/ Kill(p)
    PROVE  Recorded' /\ Numbered(p)'
<1>1. typed \in Nat /\ server \in [model: Models, engine: Nat, by: Nat] \cup {NoServer}
  BY DEF Typed, TypeOK
<1>2. CASE Type(p)
  <2>1. typed' = typed + 1 /\ UNCHANGED <<server, ended>> /\ cmd'[p].id = typed + 1
    <3>1. typed' = typed + 1 /\ UNCHANGED <<server, ended>>
      BY <1>2 DEF Type
    <3>2. PICK cfg \in Cfgs, resume \in RunIds \cup {NoRunId} : cmd'[p] = Command(cfg, resume, typed + 1)
      BY <1>2, TypeEffect
    <3>3. Command(cfg, resume, typed + 1).id = typed + 1
      BY DEF Command
    <3> QED BY <3>1, <3>2, <3>3
  <2>2. ended[p].id \in Nat
    BY DEF Recorded
  <2>3. server # NoServer => server.by \in Nat
    BY <1>1
  <2> QED BY <1>1, <2>1, <2>2, <2>3 DEF Numbered, Recorded
<1>3. CASE Step(p) /\ ~Finish(p)
  <2>1. UNCHANGED <<typed, ended>> /\ pc[p] # "idle" /\ (pc'[p] = "idle" \/ cmd'[p].id = cmd[p].id)
    BY <1>3, TypedKept, EndedKept, IdKept
  <2> QED BY <1>1, <1>3, <2>1, ServersOf DEF Numbered, Recorded
<1>4. CASE Finish(p) \/ Kill(p)
  <2>1. /\ UNCHANGED <<typed, server>> /\ pc[p] # "idle" /\ pc'[p] = "idle"
        /\ \E how \in {"done", "failed", "killed"}, tr \in BOOLEAN, judge \in {cmd[p].cfg.judge, NoJudge} :
             ended' = [ended EXCEPT ![p] = [how |-> how, id |-> cmd[p].id, tree |-> tr, judge |-> judge]]
    <3>1. CASE Finish(p)
      <4>1. pc[p] # "idle" /\ cmd[p].tree \in BOOLEAN
        BY <3>1, Own DEF Finish, Commands
      <4> QED BY <3>1, <4>1, RestEffect, TypedKept DEF Finish, Step
    <3>2. CASE Kill(p)
      BY <3>2, RestEffect, TypedKept DEF Kill
    <3> QED BY <1>4, <3>1, <3>2
  <2>2. cmd[p].id \in Nat /\ cmd[p].cfg \in Cfgs
    BY <2>1, Own DEF Commands
  <2>3. Recorded'
    BY <2>1, <2>2 DEF Recorded
  <2>4. ended'[p].id = cmd[p].id
    BY <2>1 DEF Recorded
  <2> QED BY <1>1, <2>1, <2>3, <2>4 DEF Numbered
<1> QED BY <1>2, <1>3, <1>4

Done(p) == Counted(p) /\ Covered(p) /\ Decided(p) /\ Finished(p) /\ Tended(p)

LEMMA DoneIdle ==
    ASSUME NEW p \in Procs, pc'[p] = "idle"
    PROVE  Done(p)'
BY DEF Done, Counted, Covered, Decided, Finished, Tended, Through, Over, Past, Judging, Preparing,
   Building, Crossing, Crossed, Verdict

\* A command that fails before it has a judge leaves at most its candidate up.
LEMMA DoneFailed ==
    ASSUME Typed, NEW p \in Procs, Step(p), Done(p), pc'[p] = "finish", cmd'[p] = Failed(cmd[p]),
           pc[p] \notin {"judge down", "finish"} \cup Judging, ~Verdict(p), server' \in {server, NoServer}
    PROVE  Done(p)'
<1>1. pc[p] # "idle" /\ cmd[p] \in Commands
  BY IdKept, Own
<1>2. /\ cmd'[p].fate = "failed" /\ cmd'[p].id = cmd[p].id /\ cmd'[p].cfg = cmd[p].cfg
  BY <1>1, FailedKeeps
<1>3. Counted(p)' /\ Covered(p)' /\ Decided(p)'
  BY DEF Counted, Covered, Decided, Over, Judging, Preparing, Building, Crossing, Crossed, Verdict
<1>4. Finished(p)'
  BY <1>2 DEF Finished, Through
<1>5. Tended(p)'
  <2> SUFFICES ASSUME server' # NoServer, server'.by = cmd[p].id, cmd[p].cfg.judge # NoJudge
               PROVE  server'.model # cmd[p].cfg.judge
    BY <1>2 DEF Tended, Past
  <2>1. server' = server
    OBVIOUS
  <2>2. /\ pc[p] \in {"ready", "head"} \cup Stamping \/ Crossing(p)
        /\ server.model \in Range(cmd[p].cfg.models)
    BY <1>1, <2>1 DEF Done, Tended
  <2>3. Past(p)
    BY <2>2 DEF Past, Stamping, Building, Crossing, Crossed
  <2>4. cmd[p].cfg.judge \notin Range(cmd[p].cfg.models)
    BY <2>3 DEF Done, Tended
  <2> QED BY <2>1, <2>2, <2>4
<1> QED BY <1>3, <1>4, <1>5 DEF Done

LEMMA DoneType ==
    ASSUME Typed, NEW p \in Procs, Numbered(p), Type(p)
    PROVE  Done(p)'
<1>1. PICK cfg \in Cfgs, resume \in RunIds \cup {NoRunId} :
        pc'[p] \in {"clear", "resolve"} /\ cmd'[p] = Command(cfg, resume, typed + 1)
  BY TypeEffect
<1> DEFINE d == cmd'[p]
<1>2. d.cfg = cfg /\ d.todo = cfg.models /\ d.dirs = <<>> /\ d.id = typed + 1
  BY <1>1 DEF Command
<1>3. cfg.models \in Seq(Models) /\ \A i \in DOMAIN cfg.models : cfg.models[i] \in Range(cfg.models)
  BY ModelsOf DEF Range
<1>4. Len(d.dirs) + Len(d.todo) = Len(d.cfg.models)
  <2>1. Len(<<>>) = 0 /\ Len(cfg.models) \in Nat
    BY <1>3
  <2> QED BY <1>2, <2>1
<1>5. Counted(p)'
  BY <1>1, <1>2, <1>3, <1>4 DEF Counted, Over, Judging, Verdict
<1>6. Covered(p)' /\ Decided(p)' /\ Finished(p)'
  <2>1. DOMAIN d.dirs = {}
    BY <1>2
  <2>2. Covered(p)'
    BY <1>1, <2>1 DEF Covered, Building, Crossing, Crossed
  <2>3. Decided(p)' /\ Finished(p)'
    BY <1>1 DEF Decided, Finished, Through, Judging, Verdict
  <2> QED BY <2>2, <2>3
<1>7. Tended(p)'
  <2>1. server' = server /\ typed \in Nat /\ (server # NoServer => server.by \in Nat /\ server.by <= typed)
    BY DEF Type, Numbered, Typed, TypeOK
  <2>2. server' # NoServer => server'.by # d.id
    BY <1>2, <2>1
  <2> QED BY <1>1, <2>2 DEF Tended, Past
<1> QED BY <1>5, <1>6, <1>7 DEF Done

LEMMA DonePreparing ==
    ASSUME Typed, Typed', NEW p \in Procs, Prepares(p), GoesOn(p), Done(p), Keyed(p)
    PROVE  Done(p)'
<1> DEFINE c == cmd[p]
           d == cmd'[p]
<1>1. /\ c \in Commands /\ Holds(p) /\ pc[p] \in Preparing /\ Step(p) /\ pc[p] # "idle"
      /\ Counted(p) /\ Covered(p) /\ Tended(p)
  <2>1. pc[p] \in Preparing /\ pc[p] # "idle" /\ Step(p)
    BY PreparingEffect, PreparingPlaces DEF Preparing
  <2> QED BY <2>1, Own DEF Done
<1>2. /\ <<pc[p], pc'[p]>> \in Arrows
      /\ d.cfg = c.cfg /\ d.resume = c.resume /\ d.todo = c.todo /\ d.dirs = c.dirs /\ d.id = c.id
      /\ pc[p] # "resolve" => d.action = c.action
      /\ pc[p] # "head" => d.stamp = c.stamp
  BY DEF GoesOn, KeepsPlan
<1>3. pc'[p] \notin Judging \cup Building \cup {"append", "judging", "judge down", "finish", "idle"}
  BY <1>2 DEF Arrows, Judging, Building
<1>4. Counted(p)'
  <2>1. pc'[p] = "judge" => c.todo = <<>>
    <3>1. pc'[p] = "judge" => NextCandidate(p)
      BY <1>2, PreparingPlaces DEF Arrows
    <3> QED BY <3>1, NextEffect
  <2> QED BY <1>1, <1>2, <1>3, <2>1 DEF Counted, Over, Verdict, Preparing
<1>5. Covered(p)'
  <2>1. ASSUME NEW i \in DOMAIN c.dirs
        PROVE  Range(Plan(c.cfg)) \subseteq KeysOf(runs'[c.dirs[i]].rows)
    <3>1. c.dirs[i] \in RunIds /\ Range(Plan(c.cfg)) \subseteq KeysOf(runs[c.dirs[i]].rows)
      BY <1>1 DEF Covered, Commands, Preparing
    <3> QED BY <1>1, <3>1, KeysGrow
  <2>2. ASSUME pc'[p] = "tasks"
        PROVE  d.done \subseteq KeysOf(runs'[d.run].rows) /\ d.at = 1
    <3>1. c.done = {} /\ c.at = 1
      BY <1>1 DEF Keyed
    <3>2. CASE pc[p] = "stamp"
      <4>1. d = c
        BY <3>2, Gone, PreparingPlaces DEF WriteStamp
      <4> QED BY <3>1, <4>1
    <3>3. CASE pc[p] = "resume"
      <4>1. ResumeRun(p) /\ UNCHANGED runs
        BY <3>3, PreparingPlaces DEF ResumeRun
      <4> QED BY <2>2, <3>1, <4>1, ResumeEffect
    <3> QED BY <1>2, <2>2, <3>2, <3>3 DEF Arrows
  <2>3. pc'[p] = "tasks" => Crossings(p)' = {}
    <3>1. 1..(1 - 1) = {}
      OBVIOUS
    <3> QED BY <2>2, <3>1 DEF Crossings
  <2>4. Crossing(p)' => pc'[p] = "tasks"
    BY <1>3 DEF Crossing, Crossed
  <2>5. \A i \in DOMAIN d.dirs : Range(Plan(d.cfg)) \subseteq KeysOf(runs'[d.dirs[i]].rows)
    BY <1>2, <2>1
  <2>6. Crossing(p)' => Crossings(p)' \subseteq KeysOf(runs'[d.run].rows)
    BY <2>3, <2>4
  <2> QED BY <2>2, <2>4, <2>5, <2>6 DEF Covered
<1>6. Decided(p)' /\ Finished(p)'
  BY <1>3 DEF Decided, Finished, Through, Verdict
<1>7. Tended(p)'
  <2>1. Past(p)' /\ d.cfg.judge # NoJudge => d.cfg.judge \notin Range(d.cfg.models)
    <3>1. CASE pc[p] = "resolve"
      BY <1>2, <1>3, <3>1, ResolveEffect, PreparingPlaces
    <3>2. CASE pc[p] \in {"clear", "add", "exec"}
      BY <1>2, <3>2 DEF Arrows, Past
    <3>3. CASE pc[p] \notin {"clear", "add", "exec", "resolve"}
      BY <1>1, <1>2, <3>3 DEF Tended, Past, Preparing
    <3> QED BY <3>1, <3>2, <3>3
  <2>2. ASSUME server' # NoServer, server'.by = c.id
        PROVE  /\ pc'[p] \in {"ready", "head"} \cup Stamping \/ Crossing(p)'
               /\ d.action = "launch" /\ server'.model \in Range(c.cfg.models)
    <3>1. CASE pc[p] = "next"
      <4>1. NextCandidate(p) /\ c.todo \in Seq(Models) /\ c.action \in {"launch", "use"}
        BY <1>1, <3>1, PreparingPlaces DEF Commands
      <4>2. ~(server # NoServer /\ server.by = c.id)
        BY <1>1, <3>1 DEF Tended, Stamping, Judging, Verdict, Crossing, Crossed, Building
      <4>3. pc'[p] = "ready" /\ c.action = "launch" /\ server' = Started(Head(c.todo), c.id)
        BY <1>2, <2>2, <3>1, <4>1, <4>2, NextEffect DEF Arrows
      <4>4. c.todo # <<>>
        BY <4>1, <4>3, NextEffect
      <4>5. Head(c.todo) \in Range(c.cfg.models)
        BY <1>1, <3>1, <4>1, <4>4 DEF Counted
      <4> QED BY <1>2, <3>1, <4>3, <4>5 DEF Started
    <3>2. CASE pc[p] # "next"
      <4>1. server' = server
        BY <3>2, PreparingKeepsServer
      <4>2. /\ pc[p] \in {"ready", "head"} \cup Stamping
            /\ c.action = "launch" /\ server.model \in Range(c.cfg.models)
        BY <1>1, <2>2, <4>1 DEF Tended, Preparing, Judging, Verdict, Crossing, Crossed, Building
      <4>3. pc'[p] \in {"ready", "head", "tasks"} \cup Stamping
        BY <1>2, <4>2 DEF Arrows, Stamping
      <4> QED BY <1>2, <4>1, <4>2, <4>3 DEF Crossing, Stamping
    <3> QED BY <3>1, <3>2
  <2> QED BY <1>2, <2>1, <2>2 DEF Tended
<1> QED BY <1>4, <1>5, <1>6, <1>7 DEF Done

\* The command moves one crossing down its plan.
LEMMA CrossingsGrow ==
    ASSUME NEW p \in Procs, cmd[p].at \in Nat \ {0}, cmd'[p].at = cmd[p].at + 1, cmd'[p].cfg = cmd[p].cfg
    PROVE  Crossings(p)' \subseteq Crossings(p) \cup {KeyAt(p)}
<1> SUFFICES ASSUME NEW j \in 1..cmd'[p].at - 1
             PROVE  Plan(cmd[p].cfg)[j] \in Crossings(p) \cup {KeyAt(p)}
  BY DEF Crossings
<1>1. j \in 1..cmd[p].at - 1 \/ j = cmd[p].at
  OBVIOUS
<1> QED BY <1>1 DEF Crossings, KeyAt

\* Crossing after crossing, the command covers its plan.
LEMMA DoneMeasuring ==
    ASSUME Typed, NEW p \in Procs, Step(p), Done(p), Crossing(p), Crossing(p)',
           SameRun(cmd'[p], cmd[p]), UNCHANGED server,
           ~runs'[cmd[p].run].torn => Crossings(p)' \subseteq KeysOf(runs'[cmd[p].run].rows)
    PROVE  Done(p)'
<1> DEFINE c == cmd[p]
           d == cmd'[p]
<1>1. /\ pc[p] \in {"tasks", "append"} \cup Building /\ ~Verdict(p)
      /\ pc'[p] \in {"tasks", "append"} \cup Building /\ ~Verdict(p)'
  BY DEF Crossing, Crossed, Verdict, Building
<1>2. /\ c \in Commands /\ c.run \in RunIds /\ c.done \subseteq KeysOf(runs[c.run].rows)
      /\ Counted(p) /\ Covered(p) /\ Tended(p)
  <2>1. pc[p] # "idle"
    BY <1>1 DEF Building
  <2> QED BY <2>1, Own DEF Done, Holds, Covered
<1>3. /\ d.cfg = c.cfg /\ d.todo = c.todo /\ d.dirs = c.dirs /\ d.id = c.id
      /\ d.action = c.action /\ d.run = c.run /\ d.done = c.done
  BY DEF SameRun, KeepsChoice, KeepsPlan
<1>4. Counted(p)'
  <2>1. ~Over(p)'
    BY <1>1 DEF Over, Judging, Building
  <2>2. pc[p] \notin {"idle", "finish"}
    BY <1>1 DEF Building
  <2> QED BY <1>2, <1>3, <2>1, <2>2 DEF Counted
<1>5. Covered(p)'
  <2>1. ASSUME NEW i \in DOMAIN c.dirs
        PROVE  Range(Plan(c.cfg)) \subseteq KeysOf(runs'[c.dirs[i]].rows)
    <3>1. c.dirs[i] \in RunIds /\ Range(Plan(c.cfg)) \subseteq KeysOf(runs[c.dirs[i]].rows)
      BY <1>1, <1>2 DEF Covered, Commands, Building
    <3> QED BY <3>1, KeysGrow
  <2>2. c.done \subseteq KeysOf(runs'[c.run].rows)
    BY <1>2, KeysGrow
  <2> QED BY <1>3, <2>1, <2>2 DEF Covered
<1>6. Decided(p)' /\ Finished(p)'
  BY <1>1 DEF Decided, Finished, Through, Judging, Building
<1>7. Tended(p)'
  <2>1. Past(p)
    BY <1>1 DEF Past, Building
  <2>2. server # NoServer /\ server.by = c.id => c.action = "launch" /\ server.model \in Range(c.cfg.models)
    BY <1>1, <1>2 DEF Tended, Judging, Building
  <2> QED BY <1>1, <1>2, <1>3, <2>1, <2>2 DEF Tended, Building
<1> QED BY <1>4, <1>5, <1>6, <1>7 DEF Done

LEMMA DoneCrossing ==
    ASSUME Typed, Typed', NEW p \in Procs, Done(p),
           CrossThroughput(p) \/ CrossProbe(p) \/ CrossForced(p) \/ CrossCodebase(p)
             \/ SpliceFill(p) \/ CheckFill(p) \/ RevertFill(p)
    PROVE  Done(p)'
<1> DEFINE c == cmd[p]
           d == cmd'[p]
<1>1. /\ Step(p) /\ pc[p] \in {"tasks"} \cup Building
      /\ UNCHANGED server /\ Crossing(p) /\ ~Verdict(p) /\ c \in Commands /\ c.run \in RunIds
  <2>1. Step(p) /\ pc[p] \in {"tasks"} \cup Building
    BY DEF Step, CrossThroughput, CrossProbe, CrossForced, CrossCodebase, SpliceFill, CheckFill, RevertFill, Building
  <2>2. UNCHANGED server
    BY DEF CrossThroughput, CrossProbe, CrossForced, CrossCodebase, SpliceFill, CheckFill, RevertFill
  <2> QED BY <2>1, <2>2, Own DEF Crossing, Verdict, Building, Holds
<1>2. CASE pc'[p] = "finish" /\ d = Failed(c)
  BY <1>1, <1>2, DoneFailed DEF Judging, Building
<1>3. CASE Crossing(p)' /\ SameRun(d, c) /\ d.at = c.at
  <2>1. Crossings(p)' = Crossings(p)
    BY <1>3 DEF Crossings, SameRun, KeepsChoice, KeepsPlan
  <2>2. ~runs[c.run].torn => Crossings(p) \subseteq KeysOf(runs[c.run].rows)
    BY <1>1 DEF Done, Covered
  <2>3. ~runs'[c.run].torn => Crossings(p)' \subseteq KeysOf(runs'[c.run].rows)
    BY <1>1, <2>1, <2>2, TornKept, KeysGrow
  <2> QED BY <1>1, <1>3, <2>3, DoneMeasuring
<1>4. CASE CrossThroughput(p) \/ CrossProbe(p) \/ CrossForced(p) \/ CrossCodebase(p)
  <2>1. CASE pc'[p] # "finish"
    <3>1. pc'[p] \in {"append", "splice"} /\ SameWork(d, c) /\ d.row.key = KeyAt(p)
      BY <1>4, <2>1, CrossingEffect
    <3>2. Owes(p)
      BY <1>4 DEF CrossThroughput, CrossProbe, CrossForced, CrossCodebase
    <3>3. KeyAt(p)[1] # "judge"
      BY <1>1, <3>2, KeyAtPlan, PlanKey
    <3> QED BY <1>3, <3>1, <3>3, SameRunOf DEF Crossing, Crossed, Building, SameWork
  <2>2. CASE pc'[p] = "finish"
    BY <1>2, <1>4, <2>2, CrossingEffect DEF Failed
  <2> QED BY <2>1, <2>2
<1>5. CASE SpliceFill(p) \/ CheckFill(p) \/ RevertFill(p)
  <2>1. CASE pc'[p] # "finish"
    <3>1. pc'[p] \in Building \cup {"append"} /\ SameWork(d, c) /\ d.row.key = c.row.key /\ pc[p] \in Building
      BY <1>5, <2>1, BuildingEffect DEF Building
    <3>2. Owes(p) /\ c.row.key = KeyAt(p)
      BY <3>1, Own DEF Holds, Building
    <3>3. KeyAt(p)[1] # "judge"
      BY <1>1, <3>2, KeyAtPlan, PlanKey
    <3> QED BY <1>3, <3>1, <3>2, <3>3, SameRunOf DEF Crossing, Crossed, Building, SameWork
  <2>2. CASE pc'[p] = "finish"
    BY <1>2, <1>5, <2>2, BuildingEffect DEF Failed, Building
  <2> QED BY <2>1, <2>2
<1> QED BY <1>4, <1>5

LEMMA DoneSkip ==
    ASSUME Typed, NEW p \in Procs, Done(p), SkipDone(p) \/ (AppendRow(p) /\ Crossed(p))
    PROVE  Done(p)'
<1> DEFINE c == cmd[p]
           d == cmd'[p]
<1>1. /\ pc[p] \in {"tasks", "append"} /\ pc'[p] = "tasks" /\ SameRun(d, c) /\ d.at = c.at + 1
      /\ Step(p) /\ Crossing(p) /\ Crossing(p)'
  BY SkipEffect, AppendEffect DEF Step, Crossing, Crossed, Verdict
<1>2. c \in Commands /\ c.run \in RunIds /\ c.at \in Nat \ {0} /\ UNCHANGED server
  <2>1. c \in Commands /\ Holds(p)
    BY <1>1, Own
  <2>2. UNCHANGED server
    BY DEF SkipDone, AppendRow
  <2> QED BY <1>1, <2>1, <2>2 DEF Commands, Holds
<1>3. Crossings(p)' \subseteq Crossings(p) \cup {KeyAt(p)}
  BY <1>1, <1>2, CrossingsGrow DEF SameRun, KeepsChoice, KeepsPlan
<1>4. ASSUME ~runs'[c.run].torn
      PROVE  KeyAt(p) \in KeysOf(runs'[c.run].rows)
  <2>1. CASE SkipDone(p)
    <3>1. KeyAt(p) \in c.done
      BY <2>1, SkipEffect DEF Owes, KeyAt
    <3>2. c.done \subseteq KeysOf(runs[c.run].rows)
      BY <1>1 DEF Done, Covered
    <3> QED BY <1>1, <1>2, <3>1, <3>2, KeysGrow
  <2>2. CASE AppendRow(p) /\ Crossed(p)
    <3>1. ~runs[c.run].torn
      BY <1>1, <1>2, <1>4, TornKept
    <3>2. c.row \in Rows /\ c.row.key = KeyAt(p)
      BY <1>1, <2>2, Own DEF Holds, Crossed
    <3>3. runs[c.run].rows \in Seq(Rows)
      BY <1>2 DEF Typed, TypeOK, OnDisk
    <3>4. runs'[c.run].rows = Append(runs[c.run].rows, c.row)
      BY <2>2, <3>1, AppendedWhole
    <3>5. KeysOf(Append(runs[c.run].rows, c.row)) = KeysOf(runs[c.run].rows) \cup {c.row.key}
      BY <3>2, <3>3, KeysOfAppended
    <3> QED BY <3>2, <3>4, <3>5
  <2> QED BY <2>1, <2>2
<1>5. ~runs'[c.run].torn => Crossings(p)' \subseteq KeysOf(runs'[c.run].rows)
  <2>1. ~runs[c.run].torn => Crossings(p) \subseteq KeysOf(runs[c.run].rows)
    BY <1>1 DEF Done, Covered
  <2> QED BY <1>1, <1>2, <1>3, <1>4, <2>1, TornKept, KeysGrow
<1> QED BY <1>1, <1>2, <1>5, DoneMeasuring

LEMMA DoneFinishCandidate ==
    ASSUME Typed, NEW p \in Procs, Done(p), FinishCandidate(p)
    PROVE  Done(p)'
<1> DEFINE c == cmd[p]
           d == cmd'[p]
           plan == Plan(c.cfg)
<1>1. /\ pc[p] = "tasks" /\ Step(p) /\ c \in Commands /\ c.run \in RunIds /\ c.cfg \in Cfgs /\ c.todo # <<>>
      /\ UNCHANGED runs
  <2>1. pc[p] = "tasks" /\ Step(p) /\ UNCHANGED runs
    BY DEF FinishCandidate, Step
  <2> QED BY <2>1, Own DEF Holds, Crossing
<1>2. CASE pc'[p] = "finish"
  <2>1. d = Failed(c) /\ server' \in {server, NoServer}
    BY <1>2, FinishCandidateEffect
  <2> QED BY <1>1, <1>2, <2>1, DoneFailed DEF Judging, Verdict
<1>3. CASE pc'[p] # "finish"
  <2>1. /\ pc'[p] = "next" /\ c.at > Len(plan) /\ Loads(runs[c.run])
        /\ d.todo = Tail(c.todo) /\ d.dirs = Append(c.dirs, c.run)
        /\ d.cfg = c.cfg /\ d.action = c.action /\ d.id = c.id
        /\ server' = IF c.action = "launch" /\ server # NoServer /\ server.by = c.id THEN NoServer ELSE server
    BY <1>3, FinishCandidateEffect
  <2>2. /\ c.todo \in Seq(Models) /\ c.dirs \in Seq(RunIds) /\ c.at \in Nat
        /\ Len(c.todo) \in Nat /\ Len(c.dirs) \in Nat /\ Counted(p) /\ Covered(p) /\ Tended(p)
    BY <1>1 DEF Commands, Done
  <2>3. Len(d.todo) = Len(c.todo) - 1 /\ Len(d.dirs) = Len(c.dirs) + 1
    BY <1>1, <2>1, <2>2
  <2>4. \A i \in DOMAIN d.todo : i + 1 \in DOMAIN c.todo /\ d.todo[i] = c.todo[i + 1]
    BY <1>1, <2>1, <2>2
  <2>5. Counted(p)'
    <3>1. ~Over(p)'
      BY <2>1 DEF Over, Judging, Verdict
    <3>2. /\ Len(c.dirs) + Len(c.todo) = Len(c.cfg.models)
          /\ \A i \in DOMAIN c.todo : c.todo[i] \in Range(c.cfg.models)
      BY <1>1, <2>2 DEF Counted
    <3>3. Len(d.dirs) + Len(d.todo) = Len(d.cfg.models)
      <4>1. \A m, n \in Nat : (m + 1) + (n - 1) = m + n
        OBVIOUS
      <4>2. Len(d.dirs) + Len(d.todo) = Len(c.dirs) + Len(c.todo)
        BY <2>2, <2>3, <4>1
      <4> QED BY <2>1, <3>2, <4>2
    <3>4. \A i \in DOMAIN d.todo : d.todo[i] \in Range(d.cfg.models)
      BY <2>1, <2>4, <3>2
    <3> QED BY <3>1, <3>3, <3>4 DEF Counted
  <2>6. Range(plan) \subseteq KeysOf(runs[c.run].rows)
    <3>1. Crossings(p) \subseteq KeysOf(runs[c.run].rows)
      BY <1>1, <2>1, <2>2 DEF Covered, Crossing, Loads
    <3>2. DOMAIN plan = 1..Len(plan) /\ Len(plan) \in Nat
      <4>1. plan \in Seq(Range(plan))
        BY <1>1, PlanAssumption
      <4> QED BY <4>1
    <3>3. ASSUME NEW j \in DOMAIN plan
          PROVE  plan[j] \in Crossings(p)
      <4>1. j \in 1..c.at - 1
        BY <2>1, <2>2, <3>2
      <4> QED BY <4>1 DEF Crossings
    <3> QED BY <3>1, <3>3 DEF Range
  <2>7. Covered(p)'
    <3>1. ASSUME NEW i \in DOMAIN d.dirs
          PROVE  Range(plan) \subseteq KeysOf(runs[d.dirs[i]].rows)
      <4>1. i \in 1..Len(c.dirs) + 1 /\ DOMAIN c.dirs = 1..Len(c.dirs)
        BY <1>1, <2>1, <2>2, AppendProperties
      <4>2. CASE i = Len(c.dirs) + 1
        <5>1. d.dirs[i] = c.run
          BY <1>1, <2>1, <2>2, <4>2, AppendProperties
        <5> QED BY <2>6, <5>1
      <4>3. CASE i \in 1..Len(c.dirs)
        <5>1. d.dirs[i] = c.dirs[i]
          BY <1>1, <2>1, <2>2, <4>3, AppendProperties
        <5>2. Range(plan) \subseteq KeysOf(runs[c.dirs[i]].rows)
          BY <1>1, <2>2, <4>1, <4>3 DEF Covered
        <5> QED BY <5>1, <5>2
      <4> QED BY <2>2, <4>1, <4>2, <4>3
    <3> QED BY <1>1, <2>1, <3>1 DEF Covered, Crossing, Crossed, Building
  <2>8. Decided(p)' /\ Finished(p)'
    BY <2>1 DEF Decided, Finished, Through, Judging, Verdict
  <2>9. Tended(p)'
    <3>1. Past(p) /\ (c.cfg.judge # NoJudge => c.cfg.judge \notin Range(c.cfg.models))
      BY <1>1, <2>2 DEF Past, Tended
    <3>2. server # NoServer /\ server.by = c.id => c.action = "launch"
      BY <1>1, <2>2 DEF Tended, Judging, Verdict
    <3> QED BY <2>1, <3>1, <3>2 DEF Tended
  <2> QED BY <2>5, <2>7, <2>8, <2>9 DEF Done
<1> QED BY <1>2, <1>3

LEMMA DirsOf ==
    ASSUME NEW STATE c, c \in Commands
    PROVE  \A i \in DOMAIN c.dirs : c.dirs[i] \in RunIds
BY DEF Commands

\* What the judge's phase keeps of what the bench has done.
LEMMA DonePhase ==
    ASSUME Typed, NEW p \in Procs, Step(p), Done(p), Over(p),
           pc'[p] \in {"judge down"} \cup Judging \/ Verdict(p)',
           cmd'[p].cfg = cmd[p].cfg, cmd'[p].todo = cmd[p].todo, cmd'[p].dirs = cmd[p].dirs
    PROVE  Counted(p)' /\ Covered(p)' /\ Finished(p)' /\ Tended(p)'
<1> DEFINE c == cmd[p]
<1>1. /\ pc[p] \in {"judge", "judge down", "append"} \cup Judging
      /\ pc'[p] \in {"judge down", "append"} \cup Judging /\ ~Crossing(p)'
  BY DEF Over, Verdict, Crossing, Crossed, Judging, Building
<1>2. c \in Commands /\ Counted(p) /\ Covered(p) /\ Tended(p)
  BY <1>1, Own DEF Done, Judging
<1>3. Counted(p)'
  BY <1>1, <1>2 DEF Counted, Judging
<1>4. Covered(p)'
  <2>0. \A i \in DOMAIN c.dirs : c.dirs[i] \in RunIds
    BY <1>2, DirsOf
  <2>1. ASSUME NEW i \in DOMAIN c.dirs
        PROVE  Range(Plan(c.cfg)) \subseteq KeysOf(runs'[c.dirs[i]].rows)
    <3>1. c.dirs[i] \in RunIds
      BY <2>0
    <3>2. pc[p] \notin {"idle", "finish"}
      BY <1>1 DEF Judging
    <3>3. Range(Plan(c.cfg)) \subseteq KeysOf(runs[c.dirs[i]].rows)
      BY <1>2, <3>2 DEF Covered
    <3> QED BY <3>1, <3>3, KeysGrow
  <2> QED BY <1>1, <2>1 DEF Covered
<1>5. Finished(p)'
  BY <1>1 DEF Finished, Through, Judging
<1>6. Tended(p)'
  <2>1. Past(p)
    BY <1>1 DEF Past, Judging
  <2> QED BY <1>2, <2>1 DEF Tended
<1> QED BY <1>3, <1>4, <1>5, <1>6

LEMMA DoneJudgePhase ==
    ASSUME Typed, NEW p \in Procs, Done(p), JudgePhase(p)
    PROVE  Done(p)'
<1> DEFINE c == cmd[p]
           d == cmd'[p]
           owing == c.cfg.judge # NoJudge /\ \E i \in DOMAIN c.dirs : Owed(runs[c.dirs[i]].rows) # {}
<1>1. /\ pc[p] = "judge" /\ Step(p) /\ Over(p) /\ c \in Commands /\ UNCHANGED runs
      /\ Counted(p) /\ Covered(p) /\ Tended(p)
  <2>1. pc[p] = "judge" /\ Step(p) /\ UNCHANGED runs
    BY DEF JudgePhase, Step
  <2> QED BY <2>1, Own DEF Over, Done
<1>2. \/ ~owing /\ pc'[p] = "finish" /\ d = c /\ UNCHANGED server
      \/ owing /\ server # NoServer /\ pc'[p] = "finish" /\ d = Failed(c) /\ UNCHANGED server
      \/ /\ owing /\ server = NoServer /\ pc'[p] = "judge ready"
         /\ server' = Started(c.cfg.judge, c.id)
         /\ KeepsChoice(d, c) /\ d.left = c.dirs
  BY JudgePhaseEffect
<1>3. CASE ~owing /\ pc'[p] = "finish" /\ d = c /\ UNCHANGED server
  <2>1. Finished(p)'
    <3>1. Len(c.dirs) = Len(c.cfg.models)
      <4>1. c.todo = <<>> /\ Len(c.dirs) + Len(c.todo) = Len(c.cfg.models)
        BY <1>1 DEF Counted
      <4>3. Len(c.dirs) \in Nat
        BY <1>1 DEF Commands
      <4>2. Len(<<>>) = 0
        OBVIOUS
      <4> QED BY <4>1, <4>2, <4>3
    <3>2. \A i \in DOMAIN c.dirs : Range(Plan(c.cfg)) \subseteq KeysOf(runs[c.dirs[i]].rows)
      BY <1>1 DEF Covered
    <3>3. c.cfg.judge # NoJudge => \A i \in DOMAIN c.dirs : Owed(runs[c.dirs[i]].rows) = {}
      BY <1>3
    <3> QED BY <1>1, <1>3, <3>1, <3>2, <3>3 DEF Finished
  <2>2. Counted(p)' /\ Covered(p)' /\ Decided(p)'
    BY <1>3 DEF Counted, Covered, Decided, Over, Judging, Crossing, Crossed, Building, Verdict
  <2>3. Tended(p)'
    <3>1. ~(server # NoServer /\ server.by = c.id)
      BY <1>1 DEF Tended, Judging, Verdict, Crossing, Crossed, Building, Stamping
    <3> QED BY <1>3, <3>1 DEF Tended, Past
  <2> QED BY <2>1, <2>2, <2>3 DEF Done
<1>4. CASE pc'[p] = "finish" /\ d = Failed(c) /\ UNCHANGED server
  BY <1>1, <1>4, DoneFailed DEF Judging, Verdict
<1>5. CASE pc'[p] = "judge ready" /\ KeepsChoice(d, c) /\ d.left = c.dirs
  <2>1. Counted(p)' /\ Covered(p)' /\ Finished(p)' /\ Tended(p)'
    BY <1>1, <1>5, DonePhase DEF KeepsChoice, KeepsPlan, Judging
  <2>2. Decided(p)'
    BY <1>5 DEF Decided, KeepsChoice, KeepsPlan, Verdict
  <2> QED BY <2>1, <2>2 DEF Done
<1> HIDE DEF owing
<1> QED BY <1>2, <1>3, <1>4, <1>5

\* The rows in hand are all behind the judge: nothing is owed.
LEMMA DecidedAll ==
    ASSUME NEW p \in Procs, pc[p] = "judging", cmd[p] \in Commands, Decided(p), cmd[p].at > Len(cmd[p].log)
    PROVE  Owed(runs[cmd[p].run].rows) = {}
<1> DEFINE c == cmd[p]
           rows == runs[c.run].rows
<1>1. c.log \in Seq(Rows) /\ c.at \in Nat
  BY DEF Commands
<1>2. ASSUME NEW i \in DOMAIN rows, Eligible(rows[i])
      PROVE  IsDone(rows, JudgeKey(rows[i]))
  <2>1. PICK j \in DOMAIN c.log : c.log[j] = rows[i]
    BY <1>2 DEF Decided
  <2>2. j < c.at
    BY <1>1
  <2> QED BY <1>2, <2>1, <2>2 DEF Decided, IsDone
<1> QED BY <1>2 DEF Owed

LEMMA DoneJudgeReads ==
    ASSUME Typed, NEW p \in Procs, Done(p), JudgeReady(p) \/ JudgeRun(p)
    PROVE  Done(p)'
<1> DEFINE c == cmd[p]
           d == cmd'[p]
<1>1. /\ pc[p] \in {"judge ready", "judge run"} /\ Step(p) /\ Over(p) /\ c \in Commands /\ UNCHANGED runs /\ Decided(p)
  <2>1. pc[p] \in {"judge ready", "judge run"} /\ Step(p) /\ UNCHANGED runs
    BY DEF JudgeReady, JudgeRun, Step
  <2> QED BY <2>1, Own DEF Over, Done, Judging
<1>2. Failed(c).cfg = c.cfg /\ Failed(c).todo = c.todo /\ Failed(c).dirs = c.dirs /\ Failed(c).fate = "failed"
  BY <1>1 DEF Failed, Commands
<1>3. CASE pc'[p] = "judge down" /\ d = Failed(c)
  <2>1. Counted(p)' /\ Covered(p)' /\ Finished(p)' /\ Tended(p)'
    BY <1>1, <1>2, <1>3, DonePhase
  <2>2. Decided(p)'
    BY <1>2, <1>3 DEF Decided, Verdict, Judging
  <2> QED BY <2>1, <2>2 DEF Done
<1>4. \A i \in DOMAIN c.dirs :
        Owed(runs[c.dirs[i]].rows) = {} \/ \E j \in DOMAIN c.left : c.left[j] = c.dirs[i]
  BY <1>1 DEF Decided, Judging
<1>5. CASE JudgeReady(p) /\ ~(pc'[p] = "judge down" /\ d = Failed(c))
  <2>1. pc'[p] = "judge run" /\ d = c
    BY <1>5, JudgeReadyEffect
  <2>2. Counted(p)' /\ Covered(p)' /\ Finished(p)' /\ Tended(p)'
    BY <1>1, <2>1, DonePhase DEF Judging
  <2>3. Decided(p)'
    BY <1>1, <1>4, <2>1 DEF Decided, Verdict
  <2> QED BY <2>2, <2>3 DEF Done
<1>6. CASE JudgeRun(p) /\ c.left = <<>> /\ pc'[p] = "judge down" /\ d = c
  <2>1. Counted(p)' /\ Covered(p)' /\ Finished(p)' /\ Tended(p)'
    BY <1>1, <1>6, DonePhase
  <2>2. \A i \in DOMAIN c.dirs : Owed(runs[c.dirs[i]].rows) = {}
    <3>1. c.left = <<>>
      BY <1>6
    <3>2. DOMAIN <<>> = {}
      OBVIOUS
    <3>3. ~\E j \in DOMAIN c.left : TRUE
      BY <3>1, <3>2
    <3> QED BY <1>4, <3>3
  <2>3. Decided(p)'
    BY <1>1, <1>6, <2>2 DEF Decided, Verdict, Judging
  <2> QED BY <2>1, <2>3 DEF Done
<1>7. ASSUME JudgeRun(p), c.left # <<>>, Loads(runs[Head(c.left)]), pc'[p] = "judging", KeepsChoice(d, c),
             d.run = Head(c.left), d.left = Tail(c.left), d.log = runs[Head(c.left)].rows, d.at = 1
      PROVE  Done(p)'
  <2>1. Counted(p)' /\ Covered(p)' /\ Finished(p)' /\ Tended(p)'
    BY <1>1, <1>7, DonePhase DEF KeepsChoice, KeepsPlan, Judging
  <2>2. c.left \in Seq(RunIds) /\ d.dirs = c.dirs
    BY <1>1, <1>7 DEF Commands, KeepsChoice, KeepsPlan
  <2>3. ASSUME NEW i \in DOMAIN c.dirs, NEW j \in DOMAIN c.left, c.left[j] = c.dirs[i]
        PROVE  d.run = c.dirs[i] \/ \E k \in DOMAIN d.left : d.left[k] = c.dirs[i]
    <3>1. CASE j = 1
      BY <1>7, <2>2, <2>3, <3>1
    <3>2. CASE j # 1
      <4>1. j - 1 \in DOMAIN Tail(c.left) /\ Tail(c.left)[j - 1] = c.left[j]
        BY <1>7, <2>2, <3>2
      <4> QED BY <1>7, <2>3, <4>1
    <3> QED BY <3>1, <3>2
  <2>4. \A i \in DOMAIN c.dirs :
          Owed(runs[c.dirs[i]].rows) = {} \/ (\E k \in DOMAIN d.left : d.left[k] = c.dirs[i]) \/ d.run = c.dirs[i]
    BY <1>4, <2>3
  <2>5. ~runs[d.run].torn /\ d.log = runs[d.run].rows
    BY <1>7 DEF Loads
  <2>6. runs[d.run].rows \in Seq(Rows)
    BY <1>7, <2>2 DEF Typed, TypeOK, OnDisk
  <2>7. \A j \in DOMAIN d.log : ~(j < 1)
    BY <2>5, <2>6
  <2>8. Decided(p)'
    BY <1>1, <1>7, <2>2, <2>4, <2>5, <2>7 DEF Decided, Verdict, Judging
  <2> QED BY <2>1, <2>8 DEF Done
<1> QED BY <1>3, <1>5, <1>6, <1>7, JudgeRunEffect

\* The judge goes down the rows of a run and leaves none undecided behind it.
LEMMA DoneJudging ==
    ASSUME Typed, NEW p \in Procs, Done(p), JudgeSkips(p) \/ JudgeRow(p)
    PROVE  Done(p)'
<1> DEFINE c == cmd[p]
           d == cmd'[p]
           rows == runs[c.run].rows
<1>1. /\ pc[p] = "judging" /\ Step(p) /\ Over(p) /\ c \in Commands /\ UNCHANGED runs /\ Decided(p)
  <2>1. pc[p] = "judging" /\ Step(p) /\ UNCHANGED runs
    BY DEF JudgeSkips, JudgeRow, Step
  <2> QED BY <2>1, Own DEF Over, Done, Judging
<1>2. /\ c.at \in Nat /\ c.log \in Seq(Rows)
      /\ Failed(c).cfg = c.cfg /\ Failed(c).todo = c.todo /\ Failed(c).dirs = c.dirs /\ Failed(c).fate = "failed"
  BY <1>1 DEF Failed, Commands
<1>3. /\ \A i \in DOMAIN c.dirs :
           \/ Owed(runs[c.dirs[i]].rows) = {}
           \/ \E j \in DOMAIN c.left : c.left[j] = c.dirs[i]
           \/ c.run = c.dirs[i]
      /\ ~runs[c.run].torn
      /\ KeysOf(c.log) \subseteq KeysOf(rows)
      /\ \A i \in DOMAIN rows : Eligible(rows[i]) => \E j \in DOMAIN c.log : c.log[j] = rows[i]
      /\ \A j \in DOMAIN c.log : j < c.at /\ Eligible(c.log[j]) => JudgeKey(c.log[j]) \in KeysOf(rows)
  BY <1>1 DEF Decided, Judging
<1>4. CASE pc'[p] = "judge down" /\ d = Failed(c)
  <2>1. Counted(p)' /\ Covered(p)' /\ Finished(p)' /\ Tended(p)'
    BY <1>1, <1>2, <1>4, DonePhase
  <2>2. Decided(p)'
    BY <1>2, <1>4 DEF Decided, Verdict, Judging
  <2> QED BY <2>1, <2>2 DEF Done
<1>5. CASE JudgeSkips(p) /\ pc'[p] = "judge run"
  <2>1. KeepsChoice(d, c) /\ d.left = c.left /\ c.at > Len(c.log)
    BY <1>5, JudgeSkipsEffect
  <2>2. Counted(p)' /\ Covered(p)' /\ Finished(p)' /\ Tended(p)'
    BY <1>1, <1>5, <2>1, DonePhase DEF KeepsChoice, KeepsPlan, Judging
  <2>3. Owed(rows) = {}
    BY <1>1, <2>1, DecidedAll
  <2>4. Decided(p)'
    BY ZenonT(60), <1>1, <1>3, <1>5, <2>1, <2>3 DEF Decided, Verdict, KeepsChoice, KeepsPlan
  <2> QED BY <2>2, <2>4 DEF Done
<1>6. CASE JudgeSkips(p) /\ pc'[p] # "judge run"
  <2>1. /\ KeepsChoice(d, c) /\ d.left = c.left /\ d.run = c.run /\ pc'[p] = "judging"
        /\ c.at <= Len(c.log) /\ c.at \notin Owed(c.log) /\ d.at = c.at + 1 /\ d.log = c.log
    BY <1>6, JudgeSkipsEffect
  <2>2. Counted(p)' /\ Covered(p)' /\ Finished(p)' /\ Tended(p)'
    BY <1>1, <2>1, DonePhase DEF KeepsChoice, KeepsPlan, Judging
  <2>3. ASSUME NEW j \in DOMAIN c.log, j < c.at + 1, Eligible(c.log[j])
        PROVE  JudgeKey(c.log[j]) \in KeysOf(rows)
    <3>1. CASE j < c.at
      BY <1>3, <2>3, <3>1
    <3>2. CASE j = c.at
      <4>1. IsDone(c.log, JudgeKey(c.log[j]))
        BY <2>1, <2>3, <3>2 DEF Owed
      <4> QED BY <1>3, <4>1 DEF IsDone
    <3>3. j \in Nat
      BY <1>2
    <3> QED BY <1>2, <2>3, <3>1, <3>2, <3>3
  <2>4. Decided(p)'
    BY ZenonT(30), <1>1, <1>3, <2>1, <2>3 DEF Decided, Verdict, KeepsChoice, KeepsPlan
  <2> QED BY <2>2, <2>4 DEF Done
<1>7. CASE JudgeRow(p) /\ pc'[p] # "judge down"
  <2>1. /\ pc'[p] = "append" /\ KeepsChoice(d, c) /\ d.left = c.left /\ d.run = c.run
        /\ d.at = c.at /\ d.log = c.log /\ d.row.key[1] = "judge"
    BY <1>7, JudgeRowEffect
  <2>2. Counted(p)' /\ Covered(p)' /\ Finished(p)' /\ Tended(p)'
    BY <1>1, <2>1, DonePhase DEF KeepsChoice, KeepsPlan, Verdict
  <2>3. Decided(p)'
    BY <1>1, <1>3, <2>1 DEF Decided, KeepsChoice, KeepsPlan, Judging
  <2> QED BY <2>2, <2>3 DEF Done
<1>8. JudgeRow(p) /\ pc'[p] = "judge down" => d = Failed(c)
  BY JudgeRowEffect
<1> QED BY <1>4, <1>5, <1>6, <1>7, <1>8

LEMMA DoneVerdict ==
    ASSUME Typed, NEW p \in Procs, Done(p), AppendRow(p), Verdict(p)
    PROVE  Done(p)'
<1> DEFINE c == cmd[p]
           d == cmd'[p]
           rows == runs[c.run].rows
           more == runs'[c.run].rows
<1>1. /\ pc[p] = "append" /\ Step(p) /\ Over(p) /\ c \in Commands /\ Holds(p) /\ Decided(p)
  <2>1. pc[p] = "append" /\ Step(p)
    BY DEF AppendRow, Step
  <2> QED BY <2>1, Own DEF Over, Done
<1>2. /\ c.run \in RunIds /\ c.row \in Rows /\ c.row.key = JudgeKey(c.log[c.at])
      /\ c.row.key[1] = "judge" /\ c.at \in Nat /\ c.log \in Seq(Rows) /\ rows \in Seq(Rows)
  <2>1. c.run \in RunIds /\ c.row \in Rows /\ c.row.key = JudgeKey(c.log[c.at]) /\ c.row.key[1] = "judge"
    BY <1>1 DEF Holds, Verdict
  <2>2. c.at \in Nat /\ c.log \in Seq(Rows)
    BY <1>1 DEF Commands
  <2>3. rows \in Seq(Rows)
    BY <2>1 DEF Typed, TypeOK, OnDisk
  <2> QED BY <2>1, <2>2, <2>3
<1>3. /\ \A i \in DOMAIN c.dirs :
           \/ Owed(runs[c.dirs[i]].rows) = {}
           \/ \E j \in DOMAIN c.left : c.left[j] = c.dirs[i]
           \/ c.run = c.dirs[i]
      /\ ~runs[c.run].torn
      /\ KeysOf(c.log) \subseteq KeysOf(rows)
      /\ \A i \in DOMAIN rows : Eligible(rows[i]) => \E j \in DOMAIN c.log : c.log[j] = rows[i]
      /\ \A j \in DOMAIN c.log : j < c.at /\ Eligible(c.log[j]) => JudgeKey(c.log[j]) \in KeysOf(rows)
  BY <1>1 DEF Decided
<1>4. /\ pc'[p] = "judging" /\ KeepsChoice(d, c) /\ d.run = c.run /\ d.at = c.at + 1
      /\ d.left = c.left /\ d.log = c.log
  BY AppendEffect DEF SameRun
<1>5. Counted(p)' /\ Covered(p)' /\ Finished(p)' /\ Tended(p)'
  BY <1>1, <1>4, DonePhase DEF KeepsChoice, KeepsPlan, Judging
<1>6. more = Append(rows, c.row) /\ ~runs'[c.run].torn
  BY <1>1, <1>2, <1>3, AppendedWhole, TornKept
<1>7. KeysOf(more) = KeysOf(rows) \cup {c.row.key}
  BY <1>2, <1>6, KeysOfAppended
<1>8. ASSUME NEW i \in DOMAIN more, Eligible(more[i])
      PROVE  \E j \in DOMAIN c.log : c.log[j] = more[i]
  <2>1. Len(rows) \in Nat /\ DOMAIN rows = 1..Len(rows) /\ i \in 1..Len(rows) + 1
    BY <1>2, <1>6, AppendProperties
  <2>2. i # Len(rows) + 1
    <3>1. ~Eligible(c.row)
      BY <1>2 DEF Eligible
    <3> QED BY <1>2, <1>6, <1>8, <3>1, AppendProperties
  <2>3. i \in DOMAIN rows /\ more[i] = rows[i]
    BY <1>2, <1>6, <2>1, <2>2, AppendProperties
  <2> QED BY <1>3, <1>8, <2>3
<1>9. ASSUME NEW j \in DOMAIN c.log, j < c.at + 1, Eligible(c.log[j])
      PROVE  JudgeKey(c.log[j]) \in KeysOf(more)
  <2>1. j \in Nat
    BY <1>2
  <2>2. CASE j < c.at
    BY <1>3, <1>7, <1>9, <2>2
  <2>3. CASE j = c.at
    BY <1>2, <1>7, <2>3
  <2> QED BY <1>2, <1>9, <2>1, <2>2, <2>3
<1>10. ASSUME NEW i \in DOMAIN c.dirs
       PROVE  \/ Owed(runs'[c.dirs[i]].rows) = {}
              \/ \E j \in DOMAIN c.left : c.left[j] = c.dirs[i]
              \/ c.run = c.dirs[i]
  <2>1. c.dirs[i] \in RunIds
    BY <1>1, DirsOf
  <2>2. Owed(runs[c.dirs[i]].rows) = {} => Owed(runs'[c.dirs[i]].rows) = {}
    BY <1>1, <2>1, OwedKept
  <2> QED BY <1>3, <2>2
<1>11. KeysOf(c.log) \subseteq KeysOf(more)
  BY <1>3, <1>7
<1> HIDE DEF rows
<1>12. Decided(p)'
  BY <1>4, <1>6, <1>8, <1>9, <1>10, <1>11 DEF Decided, KeepsChoice, KeepsPlan, Judging
<1> QED BY <1>5, <1>12 DEF Done

LEMMA DoneJudgeDown ==
    ASSUME Typed, NEW p \in Procs, Done(p), JudgeDown(p)
    PROVE  Done(p)'
<1> DEFINE c == cmd[p]
           d == cmd'[p]
<1>1. /\ pc[p] = "judge down" /\ pc'[p] = "finish" /\ (d = c \/ d = Failed(c)) /\ UNCHANGED runs
      /\ server' = IF server # NoServer /\ server.by = c.id THEN NoServer ELSE server
  BY JudgeDownEffect DEF JudgeDown
<1>2. c \in Commands /\ Counted(p) /\ Covered(p) /\ Decided(p)
  BY <1>1, Own DEF Done
<1>3. d.id = c.id /\ d.cfg = c.cfg /\ (d = c \/ d.fate = "failed")
  BY <1>1, <1>2, FailedKeeps
<1>4. Finished(p)'
  <2> SUFFICES ASSUME d = c, c.fate = "ok"
               PROVE  Finished(p)'
    BY <1>3 DEF Finished, Through
  <2>1. Len(c.dirs) = Len(c.cfg.models)
    <3>1. c.todo = <<>> /\ Len(c.dirs) + Len(c.todo) = Len(c.cfg.models)
      BY <1>1, <1>2 DEF Counted, Over
    <3>2. Len(c.dirs) \in Nat
      BY <1>2 DEF Commands
    <3>3. Len(<<>>) = 0
      OBVIOUS
    <3> QED BY <3>1, <3>2, <3>3
  <2>2. \A i \in DOMAIN c.dirs : Range(Plan(c.cfg)) \subseteq KeysOf(runs[c.dirs[i]].rows)
    BY <1>1, <1>2 DEF Covered
  <2>3. \A i \in DOMAIN c.dirs : Owed(runs[c.dirs[i]].rows) = {}
    BY <1>1, <1>2 DEF Decided
  <2> QED BY <1>1, <2>1, <2>2, <2>3 DEF Finished
<1>5. Counted(p)' /\ Covered(p)' /\ Decided(p)'
  BY <1>1 DEF Counted, Covered, Decided, Over, Judging, Crossing, Crossed, Building, Verdict
<1>6. Tended(p)'
  BY <1>1, <1>3 DEF Tended, Past
<1> QED BY <1>4, <1>5, <1>6 DEF Done

LEMMA DoneStep ==
    ASSUME Typed, Typed', NEW p \in Procs, Done(p), Keyed(p), Numbered(p), Type(p) \/ Step(p) \/ Kill(p)
    PROVE  Done(p)'
<1>1. CASE Type(p)
  BY <1>1, DoneType
<1>2. CASE Finish(p) \/ Kill(p)
  BY <1>2, RestEffect, DoneIdle
<1>3. CASE Prepares(p)
  <2>1. /\ pc[p] \in Preparing /\ Step(p)
        /\ pc[p] \notin {"judge down", "finish"} \cup Judging /\ ~Verdict(p)
    BY <1>3, PreparingEffect, PreparingPlaces DEF Preparing, Judging, Verdict
  <2>2. CASE pc'[p] = "finish" /\ cmd'[p] = Failed(cmd[p])
    <3>1. server' = server
      BY <1>3, <2>2, PreparingKeepsServer, PreparingPlaces, NextEffect
    <3> QED BY <2>1, <2>2, <3>1, DoneFailed
  <2>3. CASE pc[p] = "confirm" /\ pc'[p] = "finish" /\ cmd'[p] = cmd[p] /\ cmd[p].cfg.dry
    <3>1. server' = server
      BY <1>3, <2>3, PreparingKeepsServer
    <3>2. ~(server # NoServer /\ server.by = cmd[p].id)
      BY <2>3 DEF Done, Tended, Stamping, Crossing, Crossed, Building, Verdict, Judging
    <3>3. Tended(p)'
      BY <2>3, <3>1, <3>2 DEF Tended, Past
    <3>4. Counted(p)' /\ Covered(p)' /\ Decided(p)' /\ Finished(p)'
      BY <2>3 DEF Counted, Covered, Decided, Finished, Through, Over, Judging, Crossing, Crossed,
         Building, Verdict
    <3> QED BY <3>3, <3>4 DEF Done
  <2>4. CASE GoesOn(p)
    BY <1>3, <2>4, DonePreparing
  <2> QED BY <1>3, <2>2, <2>3, <2>4, PreparingEffect DEF Failed
<1>4. CASE CrossThroughput(p) \/ CrossProbe(p) \/ CrossForced(p) \/ CrossCodebase(p)
           \/ SpliceFill(p) \/ CheckFill(p) \/ RevertFill(p)
  BY <1>4, DoneCrossing
<1>5. CASE SkipDone(p) \/ AppendRow(p)
  BY <1>5, DoneSkip, DoneVerdict DEF AppendRow, Crossed, Verdict
<1>6. CASE FinishCandidate(p)
  BY <1>6, DoneFinishCandidate
<1>7. CASE JudgePhase(p)
  BY <1>7, DoneJudgePhase
<1>8. CASE JudgeReady(p) \/ JudgeRun(p)
  BY <1>8, DoneJudgeReads
<1>9. CASE JudgeSkips(p) \/ JudgeRow(p)
  BY <1>9, DoneJudging
<1>10. CASE JudgeDown(p)
  BY <1>10, DoneJudgeDown
<1> QED BY <1>1, <1>2, <1>3, <1>4, <1>5, <1>6, <1>7, <1>8, <1>9, <1>10 DEF Step, Prepares

\* Around a command servers come and go, none of them under its number.
LEMMA DoneAround ==
    ASSUME Typed, Recorded, NEW p \in Procs, Done(p), Numbered(p),
           ServerDies \/ UserStarts \/ Rebuild \/ UNCHANGED vars
    PROVE  Done(p)' /\ Recorded' /\ Numbered(p)'
<1>1. UNCHANGED <<runs, pc, cmd, typed, ended>>
  BY DEF ServerDies, UserStarts, Rebuild, vars
<1>2. server' = server \/ server' = NoServer \/ server'.by = 0
  BY DEF ServerDies, UserStarts, Rebuild, vars, Started
<1>3. typed \in Nat
  BY DEF Typed, TypeOK
<1>4. Recorded' /\ Numbered(p)'
  BY <1>1, <1>2, <1>3 DEF Recorded, Numbered
<1>5. Counted(p)' /\ Covered(p)' /\ Decided(p)' /\ Finished(p)'
  <2>1. Crossings(p)' = Crossings(p) /\ Crossing(p)' = Crossing(p) /\ Over(p)' = Over(p) /\ Verdict(p)' = Verdict(p)
    BY <1>1 DEF Crossings, Crossing, Crossed, Over, Verdict
  <2>2. Counted(p)'
    BY <1>1, <2>1 DEF Done, Counted
  <2>3. Covered(p)'
    BY <1>1, <2>1 DEF Done, Covered
  <2>4. Decided(p)'
    BY <1>1, <2>1 DEF Done, Decided
  <2>5. Finished(p)'
    BY <1>1 DEF Done, Finished, Through
  <2> QED BY <2>2, <2>3, <2>4, <2>5
<1>6. Tended(p)'
  <2>1. pc[p] # "idle" /\ server' # NoServer /\ server'.by = cmd[p].id => server' = server
    BY <1>2 DEF Numbered
  <2> QED BY <1>1, <2>1 DEF Done, Tended, Past, Crossing, Crossed, Verdict
<1> QED BY <1>4, <1>5, <1>6 DEF Done

\* Only the end of a command and a kill give the prompt back.
LEMMA PromptKept ==
    ASSUME Typed, NEW p \in Procs, Type(p) \/ Step(p), ~Finish(p)
    PROVE  pc'[p] # "idle"
<1>1. CASE Type(p)
  BY <1>1, TypeEffect
<1>2. CASE Prepares(p)
  BY <1>2, PreparingEffect DEF GoesOn, Arrows
<1>3. CASE CrossThroughput(p) \/ CrossProbe(p) \/ CrossForced(p) \/ CrossCodebase(p)
  BY <1>3, CrossingEffect
<1>4. CASE SpliceFill(p) \/ CheckFill(p) \/ RevertFill(p)
  BY <1>4, BuildingEffect DEF Building
<1>5. CASE SkipDone(p) \/ AppendRow(p) \/ FinishCandidate(p)
  BY <1>5, SkipEffect, AppendEffect, FinishCandidateEffect
<1>6. CASE JudgePhase(p) \/ JudgeReady(p)
  BY <1>6, JudgePhaseEffect, JudgeReadyEffect
<1>7. CASE JudgeRun(p) \/ JudgeSkips(p)
  BY <1>7, JudgeRunEffect, JudgeSkipsEffect
<1>8. CASE JudgeRow(p) \/ JudgeDown(p)
  BY <1>8, JudgeRowEffect, JudgeDownEffect
<1> QED BY <1>1, <1>2, <1>3, <1>4, <1>5, <1>6, <1>7, <1>8 DEF Step, Prepares

\* What a terminal's last bench left, once its prompt is back.
LEMMA CleansUpStep ==
    ASSUME OneTerminal, Typed, Recorded, NEW p \in Procs, Tended(p), Type(p) \/ Step(p) \/ Kill(p)
    PROVE  CleansUp'
<1> DEFINE c == cmd[p]
           e == ended'[p]
<1>1. \A q \in Procs : q = p
  BY DEF OneTerminal
<1>2. CASE (Type(p) \/ Step(p)) /\ ~Finish(p)
  BY <1>1, <1>2, PromptKept DEF CleansUp
<1>3. CASE Kill(p)
  <2>1. e.how = "killed"
    BY <1>3 DEF Kill, Recorded
  <2> QED BY <1>1, <2>1 DEF CleansUp
<1>4. CASE Finish(p)
  <2> DEFINE left == IF c.tree /\ ~CanRemove(tree) THEN "failed" ELSE IF c.fate = "ok" THEN "done" ELSE "failed"
  <2>1. /\ pc[p] = "finish" /\ tree' = (IF c.tree THEN Removed(tree) ELSE tree) /\ UNCHANGED server
        /\ ended' = [ended EXCEPT ![p] = [how |-> left, id |-> c.id, tree |-> c.tree, judge |-> c.cfg.judge]]
    BY <1>4 DEF Finish
  <2> HIDE DEF left
  <2>2. e.how = left /\ e.id = c.id /\ e.tree = c.tree /\ e.judge = c.cfg.judge
    BY <2>1 DEF Recorded
  <2>3. e.tree => ~tree'.there
    BY <2>1, <2>2 DEF Removed, NoTree
  <2>4. ASSUME server # NoServer, server.by = c.id
        PROVE  left = "failed" /\ (c.cfg.judge # NoJudge => server.model # c.cfg.judge)
    <3>1. c.fate = "failed" /\ (c.cfg.judge # NoJudge => server.model # c.cfg.judge)
      BY <2>1, <2>4 DEF Tended, Stamping, Judging, Crossing, Crossed, Building, Verdict
    <3> QED BY <3>1 DEF left
  <2> QED BY <1>1, <2>1, <2>2, <2>3, <2>4 DEF CleansUp
<1> QED BY <1>2, <1>3, <1>4

\* A bench that comes to its end without an error has a row for every crossing
\* of its plan in the run of every candidate, and a verdict or its reason for
\* every function body its judge could be asked about; and once the prompt is
\* back no scratch checkout is left, no server of a bench that ended well, and
\* no judge: however often the server died, a line was torn or a run was
\* resumed before, as long as one terminal types.
THEOREM EndsWellAlways ==
    ASSUME OneTerminal
    PROVE  Spec => []EndsWell
<1> DEFINE K == Typed /\ (\A p \in Procs : Keyed(p)) /\ KeyedOnce /\ NothingUnstamped
           D == Recorded /\ (\A p \in Procs : Done(p) /\ Numbered(p)) /\ CleansUp
<1>1. Init => K /\ D
  <2> SUFFICES ASSUME Init
               PROVE  K /\ D
    OBVIOUS
  <2>1. /\ server = NoServer /\ typed = 0 /\ \A p \in Procs : pc[p] = "idle"
        /\ ended = [p \in Procs |-> [how |-> "none", id |-> 0, tree |-> FALSE, judge |-> NoJudge]]
    BY DEF Init
  <2>2. Recorded
    BY <2>1 DEF Recorded
  <2>3. ASSUME NEW p \in Procs
        PROVE  Done(p) /\ Numbered(p)
    <3>1. ended[p].id = 0 /\ 0 <= 0
      BY <2>1
    <3>2. Numbered(p)
      BY <2>1, <3>1 DEF Numbered
    <3>3. Done(p)
      BY <2>1 DEF Done, Counted, Covered, Decided, Finished, Tended, Through, Over, Past, Judging,
         Building, Crossing, Crossed, Verdict
    <3> QED BY <3>2, <3>3
  <2>4. CleansUp
    BY <2>1 DEF CleansUp
  <2> QED BY <2>2, <2>3, <2>4, TypedInit, KeyedInit
<1>2. K /\ D /\ [Next]_vars => (K /\ D)'
  <2> SUFFICES ASSUME K, D, [Next]_vars
               PROVE  (K /\ D)'
    OBVIOUS
  <2>1. K'
    BY TypedNextStep, KeyedNext
  <2>2. ASSUME NEW p \in Procs, Type(p) \/ Step(p) \/ Kill(p)
        PROVE  D'
    <3>1. Done(p)' /\ Recorded' /\ Numbered(p)'
      BY <2>1, <2>2, DoneStep, NumberedStep
    <3>2. \A q \in Procs : q = p
      BY DEF OneTerminal
    <3>3. CleansUp'
      BY <2>2, CleansUpStep DEF Done
    <3> QED BY <3>1, <3>2, <3>3
  <2>3. CASE ServerDies \/ UserStarts \/ Rebuild \/ UNCHANGED vars
    <3>1. Recorded' /\ \A p \in Procs : Done(p)' /\ Numbered(p)'
      <4>1. UNCHANGED ended
        BY <2>3 DEF ServerDies, UserStarts, Rebuild, vars
      <4>2. Recorded'
        BY <4>1 DEF Recorded
      <4>3. ASSUME NEW p \in Procs
            PROVE  Done(p)' /\ Numbered(p)'
        BY <2>3, DoneAround
      <4> QED BY <4>2, <4>3
    <3>2. UNCHANGED <<tree, pc, ended>> /\ (server' = server \/ server' = NoServer \/ server'.by = 0)
      BY <2>3 DEF ServerDies, UserStarts, Rebuild, vars, Started
    <3>3. CleansUp'
      BY <3>2 DEF CleansUp
    <3> QED BY <2>1, <3>1, <3>3
  <2> QED BY <2>1, <2>2, <2>3 DEF Next
<1>3. K /\ D => EndsWell
  <2> SUFFICES ASSUME K, D, NEW p \in Procs, Through(p)
               PROVE  /\ Len(cmd[p].dirs) = Len(cmd[p].cfg.models)
                      /\ \A r \in Range(cmd[p].dirs) :
                            /\ Range(Plan(cmd[p].cfg)) \subseteq KeysOf(runs[r].rows)
                            /\ cmd[p].cfg.judge # NoJudge => Owed(runs[r].rows) = {}
    BY DEF EndsWell, PlanDone
  <2>1. Finished(p)
    BY DEF Done
  <2> QED BY <2>1 DEF Finished, Range
<1> QED BY <1>1, <1>2, <1>3, PTL DEF Spec

=============================================================================
