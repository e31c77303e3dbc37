--------------------------- MODULE Registry_proofs ---------------------------
(***************************************************************************)
(* Theorems about Registry, for any terminals, models, revisions and       *)
(* quantisations.                                                          *)
(***************************************************************************)
EXTENDS Registry, TLAPS

-----------------------------------------------------------------------------
(* Type correctness.                                                       *)

\* A command knows its model from the beginning, and a download its revision
\* and its quantisation.
Informed(c) ==
    c.pc # "idle" =>
        /\ c.name \in Names
        /\ c.cmd \in {"pull", "update"} => c.rev \in Revs /\ c.quant \in Quants
        /\ c.pc \in {"look", "first", "rest"} => c.cmd \in {"pull", "update"}
        /\ c.pc = "look" => c.cmd = "pull"
        /\ c.pc \in {"confirm", "delete"} => c.cmd \in {"rm", "tune"}

Known == \A p \in Clis : Informed(cli[p])

\* What a step makes of the command of terminal `p`.
Becomes(p, c) == cli' = [q \in Clis |-> IF q = p THEN c ELSE cli[q]]

LEMMA GotoBecomes ==
    ASSUME TypeOK, NEW p \in Clis, NEW step \in Steps, Goto(p, step)
    PROVE  Becomes(p, [cli[p] EXCEPT !.pc = step])
BY DEF Goto, Becomes, TypeOK

LEMMA EndBecomes ==
    ASSUME TypeOK, NEW p \in Clis, End(p)
    PROVE  Becomes(p, Idle)
BY DEF End, Becomes, TypeOK

LEMMA EmptyType == Empty \in Registries
BY DEF Empty, Registries

LEMMA IdleType == Idle \in Invocations
BY EmptyType DEF Idle, Invocations, Steps

LEMMA ParsedType ==
    ASSUME TypeOK, Readable
    PROVE  Parsed \in Registries
BY EmptyType DEF TypeOK, Readable, Parsed

\* The files are told apart from the registries, and a name from none.
LEMMA Apartness ==
    /\ NoName \notin Names
    /\ Absent \notin Entries /\ Absent \notin Revs /\ Absent \notin Quants
    /\ NoFile \notin Registries /\ Blank \notin Registries /\ Torn \notin Registries
    /\ Torn # NoFile /\ Torn # Blank
BY NamesAssumption, AbsentAssumption, FilesAssumption

\* What Load asks of the registry before it edits it.
Allowed(reg, c) ==
    /\ c.cmd # "pull" => reg.models[c.name] # Absent
    /\ c.cmd = "rm" => reg.active # c.name

\* The edit of a registry is a registry, and changes nothing but the active
\* model or the entry of the command's name.
LEMMA EditedType ==
    ASSUME NEW reg \in Registries, NEW c \in Invocations, c.name \in Names,
           c.cmd \in {"pull", "update"} => c.rev \in Revs /\ c.quant \in Quants,
           Allowed(reg, c)
    PROVE  /\ Edited(reg, c) \in Registries
           /\ \A n \in Names \ {c.name} : Edited(reg, c).models[n] = reg.models[n]
<1>0. c.cmd \in {"use", "rm", "pull", "update", "tune"}
  BY DEF Invocations
<1>1. reg.models \in [Names -> Entries \cup {Absent}] /\ reg.active \in Names \cup {NoName}
  BY DEF Registries
<1>2. ASSUME NEW e \in Entries \cup {Absent}
      PROVE  /\ [reg EXCEPT !.models[c.name] = e] \in Registries
             /\ \A n \in Names \ {c.name} : [reg EXCEPT !.models[c.name] = e].models[n] = reg.models[n]
  BY <1>1 DEF Registries
<1>3. CASE c.cmd = "use"
  BY <1>1, <1>3 DEF Edited, Registries
<1>4. CASE c.cmd = "rm"
  BY <1>2, <1>4 DEF Edited
<1>5. CASE c.cmd = "pull"
  <2>1. [rev |-> c.rev, quant |-> c.quant, tuned |-> FALSE] \in Entries
    BY <1>5 DEF Entries
  <2> QED BY <1>2, <1>5, <2>1 DEF Edited
<1>6. CASE c.cmd = "update"
  <2> DEFINE e == [reg.models[c.name] EXCEPT !.rev = c.rev]
  <2>1. reg.models[c.name] \in Entries
    BY <1>1, <1>6 DEF Allowed
  <2>2. e \in Entries
    BY <1>6, <2>1 DEF Entries
  <2>3. Edited(reg, c) = [reg EXCEPT !.models[c.name] = e]
    BY <1>1, <1>6 DEF Edited, Registries
  <2> HIDE DEF e
  <2> QED BY <1>2, <2>2, <2>3
<1>7. CASE c.cmd = "tune"
  <2> DEFINE e == [reg.models[c.name] EXCEPT !.tuned = TRUE]
  <2>1. reg.models[c.name] \in Entries
    BY <1>1, <1>7 DEF Allowed
  <2>2. e \in Entries
    BY <2>1 DEF Entries
  <2>3. Edited(reg, c) = [reg EXCEPT !.models[c.name] = e]
    BY <1>1, <1>7 DEF Edited, Registries
  <2> HIDE DEF e
  <2> QED BY <1>2, <2>2, <2>3
<1> QED BY <1>0, <1>3, <1>4, <1>5, <1>6, <1>7

\* A step of one command, by what it makes of that command.
LEMMA BecomesType ==
    ASSUME TypeOK, Known, NEW p \in Clis, NEW c \in Invocations, Informed(c), Becomes(p, c)
    PROVE  /\ cli' \in [Clis -> Invocations] /\ Known'
           /\ cli'[p] = c /\ \A q \in Clis \ {p} : cli'[q] = cli[q]
BY DEF Becomes, TypeOK, Known

LEMMA IdleInformed == Informed(Idle)
BY DEF Informed, Idle

\* A step of a command that only moves on, or ends.
LEMMA StepType ==
    ASSUME TypeOK, Known, NEW p \in Clis, NEW step \in Steps, Goto(p, step),
           step \in {"done", "load", "open", "rename"}
               \/ (step = "rest" /\ cli[p].pc = "first")
               \/ (step = "delete" /\ cli[p].pc = "confirm"),
           cli[p].pc # "idle"
    PROVE  cli' \in [Clis -> Invocations] /\ Known'
<1>1. [cli[p] EXCEPT !.pc = step] \in Invocations /\ Informed([cli[p] EXCEPT !.pc = step])
  BY DEF TypeOK, Known, Informed, Invocations
<1> QED BY <1>1, GotoBecomes, BecomesType

LEMMA EndType ==
    ASSUME TypeOK, Known, NEW p \in Clis, End(p)
    PROVE  cli' \in [Clis -> Invocations] /\ Known'
BY IdleType, IdleInformed, EndBecomes, BecomesType

\* A command as it begins: Idle with its first five fields set.
Fresh(c, step, n, r, q) ==
    [cmd |-> c, pc |-> step, name |-> n, rev |-> r, quant |-> q,
     seen |-> Absent, copy |-> Empty, file |-> "none"]

LEMMA FreshRecord ==
    ASSUME NEW c, NEW step, NEW n, NEW r, NEW q
    PROVE  [Idle EXCEPT !.cmd = c, !.pc = step, !.name = n, !.rev = r, !.quant = q]
               = Fresh(c, step, n, r, q)
<1> DEFINE new0 == Idle
           new1 == [new0 EXCEPT !.cmd = c]
           new2 == [new1 EXCEPT !.pc = step]
           new3 == [new2 EXCEPT !.name = n]
           new4 == [new3 EXCEPT !.rev = r]
           new5 == [new4 EXCEPT !.quant = q]
<1>0. new5 = [Idle EXCEPT !.cmd = c, !.pc = step, !.name = n, !.rev = r, !.quant = q]
  OBVIOUS
<1>1. new0 = Fresh("use", "idle", NoName, Absent, Absent)
  BY DEF Idle, Fresh
<1> HIDE DEF new0
<1>2. new1 = Fresh(c, "idle", NoName, Absent, Absent)
  BY <1>1 DEF Fresh
<1> HIDE DEF new1
<1>3. new2 = Fresh(c, step, NoName, Absent, Absent)
  BY <1>2 DEF Fresh
<1> HIDE DEF new2
<1>4. new3 = Fresh(c, step, n, Absent, Absent)
  BY <1>3 DEF Fresh
<1> HIDE DEF new3
<1>5. new4 = Fresh(c, step, n, r, Absent)
  BY <1>4 DEF Fresh
<1> HIDE DEF new4
<1>6. new5 = Fresh(c, step, n, r, q)
  BY <1>5 DEF Fresh
<1> HIDE DEF new5
<1> QED BY <1>0, <1>6

\* A command begins.
LEMMA BeginType ==
    ASSUME TypeOK, Known, NEW p \in Clis, NEW c, NEW n \in Names, NEW r, NEW q, NEW step,
           Begin(p, c, n, r, q, step),
           \/ c \in {"use", "rm", "tune"} /\ r = Absent /\ q = Absent /\ step = "load"
           \/ c = "pull" /\ r \in Revs /\ q \in Quants /\ step = "look"
           \/ c = "update" /\ r \in Revs /\ q \in Quants /\ step = "first"
    PROVE  TypeOK' /\ Known'
<1> DEFINE new == Fresh(c, step, n, r, q)
<1>1. Becomes(p, new)
  BY FreshRecord DEF Begin, Becomes, TypeOK
<1>2. new \in Invocations /\ Informed(new)
  BY EmptyType DEF Invocations, Informed, Steps, Fresh
<1> HIDE DEF new
<1>3. cli' \in [Clis -> Invocations] /\ Known'
  BY <1>1, <1>2, BecomesType
<1>4. typed' \in 0..MaxCommands
  BY BoundsAssumption DEF Begin, TypeOK
<1>5. upset' \subseteq Names
  BY DEF Begin, TypeOK
<1> QED BY <1>3, <1>4, <1>5 DEF Begin, TypeOK

\* One step of a command that is under way.
LEMMA WorkType ==
    ASSUME TypeOK, Known, NEW p \in Clis,
           \/ Look(p) \/ FetchFirst(p) \/ FetchRest(p) \/ Done(p) \/ Load(p) \/ Confirm(p)
           \/ Delete(p) \/ Open(p) \/ Write(p) \/ Rename(p) \/ Crash(p)
    PROVE  TypeOK' /\ Known'
<1>0. /\ cli[p] \in Invocations /\ Informed(cli[p])
      /\ cli \in [Clis -> Invocations]
      /\ toml \in Registries \cup {NoFile, Blank, Torn} /\ tmp \in Registries \cup {NoFile, Blank, Torn}
      /\ disk \subseteq Shards /\ typed \in 0..MaxCommands /\ upset \subseteq Names
  BY DEF TypeOK, Known
<1>1. CASE Look(p)
  <2> DEFINE e    == Parsed.models[cli[p].name]
             seen == IF e = Absent THEN Absent ELSE e.rev
             new  == [cli[p] EXCEPT !.seen = seen, !.pc = "first"]
  <2>1. CASE End(p)
    BY <1>0, <1>1, <2>1, EndType DEF Look, TypeOK
  <2>2. CASE Goto(p, "done")
    BY <1>0, <1>1, <2>2, StepType DEF Look, At, TypeOK, Steps
  <2>3. CASE Readable /\ cli' = [cli EXCEPT ![p].seen = seen, ![p].pc = "first"]
    <3>1. seen \in Revs \cup {Absent}
      BY <1>0, <1>1, <2>3, ParsedType DEF Look, At, Informed, Registries, Entries
    <3> HIDE DEF seen
    <3>2. new \in Invocations /\ Informed(new)
      BY <1>0, <1>1, <3>1 DEF Look, At, Informed, Invocations, Steps
    <3>3. Becomes(p, new)
      BY <1>0, <2>3 DEF Becomes
    <3> HIDE DEF new
    <3>4. cli' \in [Clis -> Invocations] /\ Known'
      BY <3>2, <3>3, BecomesType
    <3> QED BY <1>0, <1>1, <3>4 DEF Look, TypeOK
  <2> QED BY <1>1, <2>1, <2>2, <2>3 DEF Look
<1>2. CASE FetchFirst(p)
  <2>1. Shard(p, "first") \in Shards
    BY <1>0, <1>2 DEF FetchFirst, At, Informed, Shard, Shards
  <2>2. cli' \in [Clis -> Invocations] /\ Known'
    BY <1>0, <1>2, StepType DEF FetchFirst, At, Steps
  <2> QED BY <1>0, <1>2, <2>1, <2>2 DEF FetchFirst, TypeOK
<1>3. CASE FetchRest(p)
  <2>1. Shard(p, "rest") \in Shards
    BY <1>0, <1>3 DEF FetchRest, At, Informed, Shard, Shards
  <2>2. cli' \in [Clis -> Invocations] /\ Known'
    BY <1>0, <1>3, StepType, EndType DEF FetchRest, At, Steps
  <2> QED BY <1>0, <1>3, <2>1, <2>2 DEF FetchRest, TypeOK
<1>4. CASE Done(p)
  BY <1>0, <1>4, EndType DEF Done, TypeOK
<1>5. CASE Load(p)
  <2>1. CASE End(p)
    BY <1>0, <1>5, <2>1, EndType DEF Load, TypeOK
  <2>2. CASE ~End(p)
    <3> DEFINE c   == cli[p]
               rev == IF c.cmd = "rm" THEN Parsed.models[c.name].rev ELSE c.rev
               pc  == IF c.cmd \in {"rm", "tune"} THEN "confirm" ELSE "open"
               reg == Edited(Parsed, c)
               new == [c EXCEPT !.copy = reg, !.rev = rev, !.pc = pc]
    <3>1. /\ Readable /\ Allowed(Parsed, c)
          /\ cli' = [cli EXCEPT ![p].copy = reg, ![p].rev = rev, ![p].pc = pc]
      BY <1>0, <1>5, <2>2 DEF Load, Allowed
    <3>2. Parsed \in Registries /\ c.name \in Names
      BY <1>0, <1>5, <3>1, ParsedType DEF Load, At, Informed
    <3>3. reg \in Registries
      BY <1>0, <1>5, <3>1, <3>2, EditedType DEF Load, At, Informed
    <3>4. rev \in Revs \cup {Absent} /\ (c.cmd # "rm" => rev = c.rev)
      <4>1. CASE c.cmd = "rm"
        <5>1. Parsed.models[c.name] \in Entries
          BY <3>1, <3>2, <4>1 DEF Allowed, Registries
        <5> QED BY <4>1, <5>1 DEF Entries
      <4> QED BY <1>0, <4>1 DEF Invocations
    <3>5. Becomes(p, new)
      BY <1>0, <3>1 DEF Becomes
    <3> HIDE DEF reg, rev
    <3>6. new \in Invocations /\ Informed(new)
      BY ZenonT(30), <1>0, <1>5, <3>3, <3>4 DEF Load, At, Informed, Invocations, Steps
    <3> HIDE DEF new
    <3>7. cli' \in [Clis -> Invocations] /\ Known'
      BY <3>5, <3>6, BecomesType
    <3> QED BY <1>0, <1>5, <3>7 DEF Load, TypeOK
  <2> QED BY <2>1, <2>2
<1>6. CASE Confirm(p)
  <2>1. cli' \in [Clis -> Invocations] /\ Known'
    BY <1>0, <1>6, StepType, EndType DEF Confirm, At, Steps
  <2> QED BY <1>0, <1>6, <2>1 DEF Confirm, TypeOK
<1>7. CASE Delete(p)
  <2>1. cli' \in [Clis -> Invocations] /\ Known'
    BY <1>0, <1>7, StepType DEF Delete, At, Steps, Known
  <2>2. disk' \subseteq disk
    BY <1>7 DEF Delete
  <2> QED BY <1>0, <1>7, <2>1, <2>2 DEF Delete, TypeOK
<1>8. CASE Open(p)
  <2> DEFINE new == [cli[p] EXCEPT !.file = "tmp", !.pc = "write"]
  <2>1. Becomes(p, new)
    BY <1>0, <1>8 DEF Open, Becomes
  <2>2. new \in Invocations /\ Informed(new)
    BY <1>0, <1>8 DEF Open, At, Informed, Invocations, Steps
  <2> HIDE DEF new
  <2>3. cli' \in [Clis -> Invocations] /\ Known'
    BY <2>1, <2>2, BecomesType
  <2> QED BY <1>0, <1>8, <2>3 DEF Open, TypeOK
<1>9. CASE Write(p)
  <2> DEFINE new == [cli[p] EXCEPT !.pc = "rename", !.file = "none"]
  <2>1. Becomes(p, new)
    BY <1>0, <1>9 DEF Write, Becomes
  <2>2. new \in Invocations /\ Informed(new)
    BY <1>0, <1>9 DEF Write, At, Informed, Invocations, Steps
  <2> HIDE DEF new
  <2>3. cli' \in [Clis -> Invocations] /\ Known'
    BY <2>1, <2>2, BecomesType
  <2>4. cli[p].copy \in Registries
    BY <1>0 DEF Invocations
  <2>5. toml' \in Registries \cup {NoFile, Blank, Torn} /\ tmp' \in Registries \cup {NoFile, Blank, Torn}
    BY <1>0, <1>9, <2>4 DEF Write, Overwritten
  <2> QED BY <1>0, <1>9, <2>3, <2>5 DEF Write, TypeOK
<1>10. CASE Rename(p)
  <2>1. CASE tmp = NoFile
    BY <1>0, <1>10, <2>1, EndType DEF Rename, TypeOK
  <2>2. CASE tmp # NoFile
    <3> DEFINE done == [Idle EXCEPT !.cmd = "pull", !.name = cli[p].name, !.rev = cli[p].rev,
                                    !.quant = cli[p].quant, !.pc = "done"]
    <3>1. Idle \in Invocations /\ Informed(Idle)
      BY IdleType, IdleInformed
    <3>2. cli[p].cmd = "pull" => done \in Invocations /\ Informed(done)
      BY <1>0, <1>10, <3>1 DEF Rename, At, Informed, Invocations, Steps
    <3>3. ASSUME NEW q \in Clis
          PROVE  cli'[q] \in Invocations /\ Informed(cli'[q])
      <4>1. CASE q = p
        BY <1>10, <2>2, <3>1, <3>2, <4>1 DEF Rename
      <4>2. CASE q # p
        <5> DEFINE file == CASE cli[q].file = "tmp"  -> "toml"
                             [] cli[q].file = "toml" -> "gone"
                             [] OTHER                -> cli[q].file
        <5>1. cli[q] \in Invocations /\ Informed(cli[q])
          BY DEF TypeOK, Known
        <5>2. file \in {"none", "tmp", "toml", "gone"}
          BY <5>1 DEF Invocations
        <5>3. cli'[q] = [cli[q] EXCEPT !.file = file]
          BY <1>10, <2>2, <4>2 DEF Rename
        <5> HIDE DEF file
        <5> QED BY <5>1, <5>2, <5>3 DEF Invocations, Informed
      <4> QED BY <4>1, <4>2
    <3>4. cli' = [q \in Clis |-> cli'[q]]
      BY <1>10, <2>2 DEF Rename
    <3>5. cli' \in [Clis -> Invocations] /\ Known'
      BY <3>3, <3>4 DEF Known
    <3> QED BY <1>0, <1>10, <2>2, <3>5 DEF Rename, TypeOK
  <2> QED BY <2>1, <2>2
<1>11. CASE Crash(p)
  BY <1>0, <1>11, EndType DEF Crash, TypeOK, Informed, At
<1> QED
  BY <1>1, <1>2, <1>3, <1>4, <1>5, <1>6, <1>7, <1>8, <1>9, <1>10, <1>11

\* One step of the system.
LEMMA NextType ==
    ASSUME TypeOK, Known, [Next]_vars
    PROVE  TypeOK' /\ Known'
<1>1. CASE UNCHANGED vars
  BY <1>1 DEF vars, TypeOK, Known
<1>2. ASSUME NEW p \in Clis, NEW n \in Names, Use(p, n) \/ Rm(p, n) \/ Tune(p, n)
      PROVE  TypeOK' /\ Known'
  BY <1>2, BeginType DEF Use, Rm, Tune
<1>3. ASSUME NEW p \in Clis, NEW n \in Names, NEW r \in Revs, NEW q \in Quants, Pull(p, n, r, q)
      PROVE  TypeOK' /\ Known'
  BY <1>3, BeginType DEF Pull
<1>4. ASSUME NEW p \in Clis, NEW r \in Revs, Update(p, r)
      PROVE  TypeOK' /\ Known'
  <2> DEFINE n == Parsed.active
             q == Parsed.models[n].quant
  <2>1. n \in Names /\ Parsed.models[n] \in Entries
    BY <1>4, ParsedType DEF Update, Registries
  <2>2. q \in Quants
    BY <2>1 DEF Entries
  <2>3. Begin(p, "update", n, r, q, "first")
    BY <1>4 DEF Update
  <2> HIDE DEF n, q
  <2> QED BY <2>1, <2>2, <2>3, BeginType
<1>5. ASSUME NEW p \in Clis,
             \/ Look(p) \/ FetchFirst(p) \/ FetchRest(p) \/ Done(p) \/ Load(p) \/ Confirm(p)
             \/ Delete(p) \/ Open(p) \/ Write(p) \/ Rename(p) \/ Crash(p)
      PROVE  TypeOK' /\ Known'
  BY <1>5, WorkType
<1> QED
  BY <1>1, <1>2, <1>3, <1>4, <1>5 DEF Next

LEMMA InitType ==
    ASSUME Init
    PROVE  TypeOK /\ Known
<1>1. cli \in [Clis -> Invocations] /\ Known
  BY IdleType, IdleInformed DEF Init, Known
<1> QED BY <1>1, BoundsAssumption DEF Init, TypeOK

\* Every file holds a registry, is empty, is torn or is not there, and every
\* command holds what its kind needs (Registry::load and Registry::save).
THEOREM TypeCorrect == Spec => []TypeOK
<1>1. Init => TypeOK /\ Known
  BY InitType
<1>2. (TypeOK /\ Known) /\ [Next]_vars => (TypeOK /\ Known)'
  BY NextType
<1> QED BY <1>1, <1>2, PTL DEF Spec

-----------------------------------------------------------------------------
(* Atomic saves: as long as loads do not overlap saves, one command at a   *)
(* time is between the two, and it holds the edit of what models.toml says *)
(* now; models.toml is never seen blank or torn.                           *)

SavingSteps == {"confirm", "delete", "open", "write", "rename"}

\* The part of a command that the others depend on, for the registry `reg`
\* and the temporary file `t`.
Orderly(c, reg, t) ==
    /\ c.file = IF c.pc = "write" THEN "tmp" ELSE "none"
    /\ c.pc \in SavingSteps => c.copy = Edited(reg, c) /\ Allowed(reg, c)
    /\ c.pc = "write" => t = Blank
    /\ c.pc = "rename" => t = c.copy

OneSaver == \A p, q \in Clis : Saving(p) /\ Saving(q) => p = q

Saves ==
    /\ OneSaver
    /\ toml \in Registries \cup {NoFile}
    /\ \A p \in Clis : Orderly(cli[p], Parsed, tmp)

\* What an edit depends on.
LEMMA EditedBy ==
    ASSUME NEW reg, NEW c, NEW d, c.cmd = d.cmd, c.name = d.name,
           c.cmd = "rm" \/ (c.rev = d.rev /\ c.quant = d.quant)
    PROVE  Edited(reg, c) = Edited(reg, d) /\ (Allowed(reg, c) <=> Allowed(reg, d))
BY DEF Edited, Allowed

LEMMA IdleOrderly == ASSUME NEW reg, NEW t PROVE Orderly(Idle, reg, t)
BY DEF Orderly, Idle, SavingSteps

\* A step of one command that leaves models.toml alone.
LEMMA OrderlyStep ==
    ASSUME TypeOK, Saves, NEW p \in Clis, NEW c \in Invocations, Becomes(p, c), toml' = toml,
           Orderly(c, Parsed, tmp'), tmp' = tmp \/ Saving(p),
           c.pc \in SavingSteps => Saving(p) \/ \A q \in Clis \ {p} : ~Saving(q)
    PROVE  Saves'
<1>1. cli'[p] = c /\ \A q \in Clis \ {p} : cli'[q] = cli[q]
  BY DEF Becomes, TypeOK
<1>2. Parsed' = Parsed
  BY DEF Parsed
<1>3. OneSaver'
  BY <1>1 DEF Saves, OneSaver, Saving, SavingSteps
<1>4. ASSUME NEW q \in Clis PROVE Orderly(cli'[q], Parsed, tmp')
  <2>1. CASE q = p
    BY <1>1, <2>1
  <2>2. CASE q # p
    <3>1. Orderly(cli[q], Parsed, tmp) /\ cli'[q] = cli[q]
      BY <1>1, <2>2 DEF Saves
    <3>2. CASE tmp' = tmp
      BY <3>1, <3>2
    <3>3. CASE Saving(p)
      <4>1. ~Saving(q)
        BY <2>2, <3>3 DEF Saves, OneSaver
      <4> QED BY <3>1, <4>1 DEF Orderly, Saving
    <3> QED BY <3>2, <3>3
  <2> QED BY <2>1, <2>2
<1>5. toml' \in Registries \cup {NoFile}
  BY DEF Saves
<1> QED BY <1>2, <1>3, <1>4, <1>5 DEF Saves

\* A command that begins, ends, or goes on with its download.
LEMMA QuietStep ==
    ASSUME TypeOK, Saves, NEW p \in Clis, NEW c \in Invocations, Becomes(p, c),
           UNCHANGED <<toml, tmp>>, c.pc \notin SavingSteps, c.file = "none"
    PROVE  Saves'
<1>1. Orderly(c, Parsed, tmp')
  BY DEF Orderly, SavingSteps
<1> QED BY <1>1, OrderlyStep

LEMMA EndSaves ==
    ASSUME TypeOK, Saves, NEW p \in Clis, End(p), UNCHANGED <<toml, tmp>>
    PROVE  Saves'
BY IdleType, EndBecomes, QuietStep DEF Idle, SavingSteps

LEMMA QuietGoto ==
    ASSUME TypeOK, Saves, NEW p \in Clis, NEW step \in Steps \ SavingSteps, Goto(p, step),
           cli[p].pc # "write", UNCHANGED <<toml, tmp>>
    PROVE  Saves'
<1> DEFINE new == [cli[p] EXCEPT !.pc = step]
<1>1. new \in Invocations /\ new.pc = step /\ new.file = cli[p].file
  BY DEF TypeOK, Invocations
<1>2. cli[p].file = "none"
  BY DEF Saves, Orderly
<1>3. Becomes(p, new)
  BY GotoBecomes
<1> HIDE DEF new
<1> QED BY <1>1, <1>2, <1>3, QuietStep

\* A command about to save goes on.
LEMMA SavingGoto ==
    ASSUME TypeOK, Saves, NEW p \in Clis, Saving(p), NEW step \in {"delete", "open"},
           Goto(p, step), cli[p].pc # "write", UNCHANGED <<toml, tmp>>
    PROVE  Saves'
<1> DEFINE new == [cli[p] EXCEPT !.pc = step]
<1>1. /\ new \in Invocations /\ new.pc = step /\ new.file = cli[p].file /\ new.copy = cli[p].copy
      /\ new.cmd = cli[p].cmd /\ new.name = cli[p].name
      /\ new.rev = cli[p].rev /\ new.quant = cli[p].quant
  BY DEF TypeOK, Invocations, Steps
<1>2. Becomes(p, new)
  BY GotoBecomes DEF Steps
<1>3. Orderly(cli[p], Parsed, tmp)
  BY DEF Saves
<1> HIDE DEF new
<1>4. Edited(Parsed, new) = Edited(Parsed, cli[p]) /\ (Allowed(Parsed, new) <=> Allowed(Parsed, cli[p]))
  BY <1>1, EditedBy
<1>5. Orderly(new, Parsed, tmp')
  BY <1>1, <1>3, <1>4 DEF Orderly, Saving, SavingSteps
<1> QED BY <1>1, <1>2, <1>5, OrderlyStep

\* One command loads the registry when no other is about to save.
LEMMA LoadSaves ==
    ASSUME Overlap = FALSE, TypeOK, Known, Saves, NEW p \in Clis, Load(p)
    PROVE  Saves'
<1> DEFINE c   == cli[p]
           rev == IF c.cmd = "rm" THEN Parsed.models[c.name].rev ELSE c.rev
           pc  == IF c.cmd \in {"rm", "tune"} THEN "confirm" ELSE "open"
           reg == Edited(Parsed, c)
           new == [c EXCEPT !.copy = reg, !.rev = rev, !.pc = pc]
<1>0. c \in Invocations /\ cli \in [Clis -> Invocations] /\ Informed(c) /\ c.pc = "load"
  BY DEF TypeOK, Known, Load, At
<1>1. CASE End(p)
  BY <1>1, EndSaves DEF Load
<1>2. CASE ~End(p)
  <2>1. /\ Readable /\ Allowed(Parsed, c)
        /\ cli' = [cli EXCEPT ![p].copy = reg, ![p].rev = rev, ![p].pc = pc]
    BY <1>2 DEF Load, Allowed
  <2>2. Becomes(p, new)
    BY <1>0, <2>1 DEF Becomes
  <2>3. \A q \in Clis \ {p} : ~Saving(q)
    BY DEF Load, Alone
  <2>4. TypeOK'
    BY WorkType
  <2> HIDE DEF reg, rev, pc
  <2>5. /\ new.copy = reg /\ new.rev = rev /\ new.pc = pc /\ new.file = c.file
        /\ new.cmd = c.cmd /\ new.name = c.name /\ new.quant = c.quant
    BY <1>0 DEF Invocations
  <2>6. new \in Invocations
    BY <2>2, <2>4 DEF Becomes, TypeOK
  <2> HIDE DEF new
  <2>7. pc \in {"confirm", "open"} /\ (c.cmd # "rm" => rev = c.rev)
    BY DEF pc, rev
  <2>8. Edited(Parsed, new) = Edited(Parsed, c) /\ (Allowed(Parsed, new) <=> Allowed(Parsed, c))
    BY <2>5, <2>7, EditedBy
  <2>9. c.file = "none"
    BY <1>0 DEF Saves, Orderly
  <2>10. Orderly(new, Parsed, tmp')
    BY <2>1, <2>5, <2>7, <2>8, <2>9 DEF Orderly, reg
  <2> QED BY <2>2, <2>3, <2>6, <2>10, OrderlyStep DEF Load
<1> QED BY <1>1, <1>2

\* The new text goes to the temporary file.
LEMMA OpenSaves ==
    ASSUME TypeOK, Saves, NEW p \in Clis, Open(p)
    PROVE  Saves'
<1> DEFINE new == [cli[p] EXCEPT !.file = "tmp", !.pc = "write"]
<1>1. /\ new \in Invocations /\ new.pc = "write" /\ new.file = "tmp" /\ new.copy = cli[p].copy
      /\ new.cmd = cli[p].cmd /\ new.name = cli[p].name
      /\ new.rev = cli[p].rev /\ new.quant = cli[p].quant
  BY ZenonT(30) DEF TypeOK, Invocations, Steps
<1>2. Becomes(p, new)
  BY DEF Open, TypeOK, Becomes
<1>3. Orderly(cli[p], Parsed, tmp) /\ cli[p].pc = "open" /\ Saving(p)
  BY DEF Saves, Open, At, Saving
<1> HIDE DEF new
<1>4. Edited(Parsed, new) = Edited(Parsed, cli[p]) /\ (Allowed(Parsed, new) <=> Allowed(Parsed, cli[p]))
  BY <1>1, EditedBy
<1>5. Orderly(new, Parsed, tmp')
  BY <1>1, <1>3, <1>4 DEF Orderly, SavingSteps, Open
<1> QED BY <1>1, <1>2, <1>3, <1>5, OrderlyStep DEF Open

LEMMA WriteSaves ==
    ASSUME TypeOK, Saves, NEW p \in Clis, Write(p)
    PROVE  Saves'
<1> DEFINE new == [cli[p] EXCEPT !.pc = "rename", !.file = "none"]
<1>1. /\ new \in Invocations /\ new.pc = "rename" /\ new.file = "none" /\ new.copy = cli[p].copy
      /\ new.cmd = cli[p].cmd /\ new.name = cli[p].name
      /\ new.rev = cli[p].rev /\ new.quant = cli[p].quant
  BY ZenonT(30) DEF TypeOK, Invocations, Steps
<1>2. Becomes(p, new)
  BY DEF Write, TypeOK, Becomes
<1>3. Orderly(cli[p], Parsed, tmp) /\ cli[p].pc = "write" /\ Saving(p)
  BY DEF Saves, Write, At, Saving
<1>4. tmp' = cli[p].copy /\ toml' = toml
  BY <1>3 DEF Orderly, Write, Overwritten
<1> HIDE DEF new
<1>5. Edited(Parsed, new) = Edited(Parsed, cli[p]) /\ (Allowed(Parsed, new) <=> Allowed(Parsed, cli[p]))
  BY <1>1, EditedBy
<1>6. Orderly(new, Parsed, tmp')
  BY <1>1, <1>3, <1>4, <1>5 DEF Orderly, SavingSteps
<1> QED BY <1>1, <1>2, <1>3, <1>4, <1>6, OrderlyStep

\* The rename is the moment of the edit: what models.toml says becomes the
\* edit of what it said.
LEMMA RenameEdits ==
    ASSUME TypeOK, Known, Saves, NEW p \in Clis, Rename(p)
    PROVE  /\ toml' \in Registries /\ Parsed' = Edited(Parsed, cli[p])
           /\ Allowed(Parsed, cli[p]) /\ Parsed \in Registries /\ tmp # NoFile
           /\ cli[p] \in Invocations /\ Informed(cli[p]) /\ cli[p].pc = "rename"
<1>1. cli[p] \in Invocations /\ Informed(cli[p]) /\ cli[p].pc = "rename"
  BY DEF TypeOK, Known, Rename, At
<1>2. Orderly(cli[p], Parsed, tmp)
  BY DEF Saves
<1>3. tmp = cli[p].copy /\ cli[p].copy = Edited(Parsed, cli[p]) /\ Allowed(Parsed, cli[p])
  BY <1>1, <1>2 DEF Orderly, SavingSteps
<1>4. cli[p].copy \in Registries
  BY <1>1 DEF Invocations
<1>5. tmp # NoFile
  BY <1>3, <1>4, Apartness
<1>6. toml' = tmp /\ toml' \notin {NoFile, Blank}
  BY <1>3, <1>4, <1>5, Apartness DEF Rename
<1>7. Parsed' = toml'
  BY <1>6 DEF Parsed
<1>8. Parsed \in Registries
  BY EmptyType DEF Saves, Parsed
<1> QED BY <1>1, <1>3, <1>4, <1>5, <1>6, <1>7, <1>8

LEMMA RenameSaves ==
    ASSUME TypeOK, Known, Saves, NEW p \in Clis, Rename(p)
    PROVE  Saves'
<1>1. toml' \in Registries /\ tmp # NoFile /\ Saving(p)
  BY RenameEdits DEF Saving
<1>2. ASSUME NEW q \in Clis
      PROVE  cli'[q].file = "none" /\ cli'[q].pc \notin SavingSteps
  <2>1. CASE q = p
    <3> DEFINE done == [Idle EXCEPT !.cmd = "pull", !.name = cli[p].name, !.rev = cli[p].rev,
                                    !.quant = cli[p].quant, !.pc = "done"]
    <3>1. cli'[q] \in {Idle, done}
      BY <1>1, <2>1 DEF Rename
    <3>2. Idle.file = "none" /\ Idle.pc = "idle"
      BY DEF Idle
    <3>3. done.file = "none" /\ done.pc = "done"
      BY DEF Idle
    <3> HIDE DEF done
    <3> QED BY <3>1, <3>2, <3>3 DEF SavingSteps
  <2>2. CASE q # p
    <3>1. ~Saving(q) /\ Orderly(cli[q], Parsed, tmp) /\ cli[q] \in Invocations
      BY <1>1, <2>2 DEF Saves, OneSaver, TypeOK
    <3>2. cli[q].file = "none" /\ cli[q].pc \notin SavingSteps
      BY <3>1 DEF Orderly, Saving, SavingSteps
    <3>3. cli'[q] = [cli[q] EXCEPT !.file = "none"]
      BY <1>1, <2>2, <3>2 DEF Rename
    <3> QED BY <3>1, <3>2, <3>3 DEF Invocations
  <2> QED BY <2>1, <2>2
<1>3. OneSaver'
  BY <1>2 DEF OneSaver, Saving, SavingSteps
<1>4. \A q \in Clis : Orderly(cli'[q], Parsed', tmp')
  BY <1>2 DEF Orderly, SavingSteps
<1> QED BY <1>1, <1>3, <1>4 DEF Saves

LEMMA SavesPreserved ==
    ASSUME Overlap = FALSE, TypeOK, Known, Saves, [Next]_vars
    PROVE  Saves'
<1>1. CASE UNCHANGED vars
  BY <1>1 DEF vars, Saves, OneSaver, Saving, Parsed
<1>2. ASSUME NEW p \in Clis, NEW c, NEW n, NEW r, NEW q, NEW step, Begin(p, c, n, r, q, step),
             step \in {"load", "look", "first"}, TypeOK'
      PROVE  Saves'
  <2> DEFINE new == Fresh(c, step, n, r, q)
  <2>1. Becomes(p, new)
    BY <1>2, FreshRecord DEF Begin, Becomes, TypeOK
  <2>2. new.pc = step /\ new.file = "none"
    BY DEF Fresh
  <2> HIDE DEF new
  <2>3. new \in Invocations
    BY <1>2, <2>1 DEF Becomes, TypeOK
  <2> QED BY <1>2, <2>1, <2>2, <2>3, QuietStep DEF Begin, SavingSteps
<1>3. TypeOK'
  BY NextType
<1>4. ASSUME NEW p \in Clis, NEW n \in Names,
             Use(p, n) \/ Rm(p, n) \/ Tune(p, n) \/ \E r \in Revs, q \in Quants : Pull(p, n, r, q)
      PROVE  Saves'
  BY <1>2, <1>3, <1>4 DEF Use, Rm, Tune, Pull
<1>5. ASSUME NEW p \in Clis, NEW r \in Revs, Update(p, r)
      PROVE  Saves'
  BY <1>2, <1>3, <1>5 DEF Update
<1>6. ASSUME NEW p \in Clis, Look(p)
      PROVE  Saves'
  <2> DEFINE e    == Parsed.models[cli[p].name]
             seen == IF e = Absent THEN Absent ELSE e.rev
             new  == [cli[p] EXCEPT !.seen = seen, !.pc = "first"]
  <2>1. CASE End(p)
    BY <1>6, <2>1, EndSaves DEF Look
  <2>2. CASE Goto(p, "done")
    BY <1>6, <2>2, QuietGoto DEF Look, At, Steps, SavingSteps
  <2>3. CASE cli' = [cli EXCEPT ![p].seen = seen, ![p].pc = "first"]
    <3>1. Becomes(p, new)
      BY <2>3 DEF Becomes, TypeOK
    <3> HIDE DEF seen
    <3>2. new.pc = "first" /\ new.file = cli[p].file
      BY DEF TypeOK, Invocations
    <3>3. cli[p].file = "none"
      BY <1>6 DEF Saves, Orderly, Look, At
    <3> HIDE DEF new
    <3>4. new \in Invocations
      BY <1>3, <3>1 DEF Becomes, TypeOK
    <3> QED BY <1>6, <3>1, <3>2, <3>3, <3>4, QuietStep DEF Look, SavingSteps
  <2> QED BY <1>6, <2>1, <2>2, <2>3 DEF Look
<1>7. ASSUME NEW p \in Clis, FetchFirst(p) \/ FetchRest(p)
      PROVE  Saves'
  BY <1>7, QuietGoto, EndSaves DEF FetchFirst, FetchRest, At, Steps, SavingSteps
<1>8. ASSUME NEW p \in Clis, Done(p) \/ Crash(p)
      PROVE  Saves'
  BY <1>8, EndSaves DEF Done, Crash
<1>9. ASSUME NEW p \in Clis, Confirm(p) \/ Delete(p)
      PROVE  Saves'
  <2>1. CASE cli' = cli
    BY <1>9, <2>1 DEF Confirm, Delete, Saves, OneSaver, Saving, Parsed
  <2>2. CASE cli' # cli
    BY <1>9, <2>2, SavingGoto, EndSaves DEF Confirm, Delete, At, Saving
  <2> QED BY <2>1, <2>2
<1> QED
  BY <1>1, <1>4, <1>5, <1>6, <1>7, <1>8, <1>9, LoadSaves, OpenSaves, WriteSaves, RenameSaves
  DEF Next

\* Only a rename changes what models.toml says.
LEMMA OnlyRenameEdits ==
    ASSUME Saves, [Next]_vars
    PROVE  \/ Parsed' = Parsed
           \/ \E p \in Clis : Rename(p)
<1>1. CASE toml' = toml
  BY <1>1 DEF Parsed
<1>2. CASE toml' # toml
  <2>1. \A p \in Clis : ~(At(p, "write") /\ cli[p].file = "toml")
    BY DEF Saves, Orderly, At
  <2> QED
    BY ZenonT(30), <1>2, <2>1 DEF Next, vars, Use, Rm, Tune, Pull, Update, Begin, Look, FetchFirst, FetchRest,
                      Done, Load, Confirm, Delete, Open, Write, Crash
<1> QED BY <1>1, <1>2

\* A rename is one of the abstract commands.
LEMMA RenameIsCommand ==
    ASSUME TypeOK, Known, Saves, NEW p \in Clis, Rename(p)
    PROVE  Promise!Next
<1> DEFINE c == cli[p]
<1>1. /\ Parsed' = Edited(Parsed, c) /\ Allowed(Parsed, c)
      /\ c.cmd \in {"use", "rm", "pull", "update", "tune"} /\ c.name \in Names
      /\ c.cmd \in {"pull", "update"} => c.rev \in Revs /\ c.quant \in Quants
  BY RenameEdits DEF Invocations, Informed
<1>2. CASE c.cmd = "use"
  <2>1. Promise!SetActive(c.name)
    BY <1>1, <1>2 DEF Edited, Allowed, Promise!SetActive, Promise!Registered
  <2> QED BY <1>1, <2>1 DEF Promise!Next
<1>3. CASE c.cmd = "rm"
  <2>1. Promise!Remove(c.name)
    BY <1>1, <1>3 DEF Edited, Allowed, Promise!Remove, Promise!Registered
  <2> QED BY <1>1, <2>1 DEF Promise!Next
<1>4. CASE c.cmd = "pull"
  <2>1. Promise!Register(c.name, c.rev, c.quant)
    BY <1>1, <1>4 DEF Edited, Promise!Register, Promise!Fresh
  <2> QED BY <1>1, <1>4, <2>1 DEF Promise!Next
<1>5. CASE c.cmd = "update"
  <2>1. Promise!Repoint(c.name, c.rev)
    BY <1>1, <1>5 DEF Edited, Allowed, Promise!Repoint, Promise!Registered
  <2> QED BY <1>1, <1>5, <2>1 DEF Promise!Next
<1>6. CASE c.cmd = "tune"
  <2>1. Promise!Tune(c.name)
    BY <1>1, <1>6 DEF Edited, Allowed, Promise!Tune, Promise!Registered
  <2> QED BY <1>1, <2>1 DEF Promise!Next
<1> QED BY <1>1, <1>2, <1>3, <1>4, <1>5, <1>6

LEMMA InitSaves ==
    ASSUME Init
    PROVE  Saves
<1>1. \A p \in Clis : cli[p] = Idle /\ ~Saving(p)
  BY DEF Init, Saving, Idle
<1> QED BY <1>1, IdleOrderly DEF Init, Saves, OneSaver

\* Provided that no command loads while another is between its load and its
\* save, models.toml is edited atomically: the commands implement
\* ModelRegistry, wherever they are killed (Registry::save, "Atomic save").
THEOREM SavesAreAtomicAlways ==
    ASSUME Overlap = FALSE
    PROVE  Spec => SavesAreAtomic
<1>1. Init => TypeOK /\ Known /\ Saves
  BY InitType, InitSaves
<1>2. (TypeOK /\ Known /\ Saves) /\ [Next]_vars => (TypeOK /\ Known /\ Saves)'
  BY NextType, SavesPreserved
<1>3. Init => Parsed = Promise!Empty
  BY DEF Init, Parsed, Empty, Promise!Empty
<1>4. (TypeOK /\ Known /\ Saves) /\ [Next]_vars => [Promise!Next]_Parsed
  BY OnlyRenameEdits, RenameIsCommand
<1> QED BY <1>1, <1>2, <1>3, <1>4, PTL DEF Spec, SavesAreAtomic, Promise!Spec

-----------------------------------------------------------------------------
(* Registered models have their files, and only update repoints.  The      *)
(* invariant relates a download to the entry it was begun for and to the   *)
(* shards it has fetched; it holds for the models that no two commands     *)
(* have worked on at once, because a command's entry and shards then       *)
(* change by its own steps only.                                           *)

ShardOf(c, part) == [name |-> c.name, rev |-> c.rev, quant |-> c.quant, part |-> part]

RevOf(e) == IF e = Absent THEN Absent ELSE e.rev

\* A command whose model has entry `e`, for the shards `d`.
Placed(c, e, d) ==
    /\ c.pc = "delete" => c.cmd = "rm"
    /\ c.cmd = "update" => e # Absent /\ e.quant = c.quant
    /\ c.pc = "rest" => ShardOf(c, "first") \in d
    /\ c.cmd \in {"pull", "update"} /\ c.pc \in {"load", "open", "write", "rename"} =>
           ShardOf(c, "first") \in d /\ ShardOf(c, "rest") \in d
    /\ c.cmd = "pull" /\ c.pc \in {"first", "rest", "load", "open", "write", "rename"} =>
           c.seen = RevOf(e)
    /\ c.cmd = "pull" /\ c.pc \in {"load", "open", "write", "rename"} =>
           c.seen \in {Absent, c.rev}

Working(c) == c.pc # "idle"

Apart ==
    \A p, q \in Clis :
        /\ Working(cli[p]) /\ Working(cli[q])
        /\ cli[p].name = cli[q].name /\ cli[p].name \notin upset
        => p = q

EntryFiles(n) ==
    LET e == Parsed.models[n]
    IN e # Absent /\ ~Removing(n) =>
        \A part \in {"first", "rest"} :
            [name |-> n, rev |-> e.rev, quant |-> e.quant, part |-> part] \in disk

Places ==
    /\ Apart
    /\ \A p \in Clis :
           Working(cli[p]) /\ cli[p].name \notin upset =>
               Placed(cli[p], Parsed.models[cli[p].name], disk)
    /\ \A n \in Names \ upset : EntryFiles(n)

\* A step leaves the entry of `n` alone, and none of its shards is removed.
Kept(n) ==
    /\ Parsed'.models[n] = Parsed.models[n]
    /\ \A s \in disk : s.name = n => s \in disk'

Removes(c) == c.cmd = "rm" /\ c.pc \in {"delete", "open", "write", "rename"}

LEMMA PlacedKept ==
    ASSUME NEW c, NEW e, NEW d, NEW f, Placed(c, e, d),
           \A s \in d : s.name = c.name => s \in f
    PROVE  Placed(c, e, f)
<1>1. \A part \in {"first", "rest"} : ShardOf(c, part).name = c.name
  BY DEF ShardOf
<1> QED BY <1>1 DEF Placed

\* A model whose entry and shards stay has its files, as before, unless its
\* removal ends.
LEMMA FilesKept ==
    ASSUME NEW n \in Names, EntryFiles(n), Kept(n), Removing(n) => Removing(n)'
    PROVE  EntryFiles(n)'
<1> DEFINE e == Parsed.models[n]
           shard(part) == [name |-> n, rev |-> e.rev, quant |-> e.quant, part |-> part]
<1>1. \A part \in {"first", "rest"} : shard(part).name = n
  OBVIOUS
<1>2. ASSUME e # Absent, ~Removing(n)', NEW part \in {"first", "rest"}
      PROVE  shard(part) \in disk'
  <2>1. shard(part) \in disk
    BY <1>2 DEF EntryFiles
  <2> QED BY <1>1, <2>1 DEF Kept
<1> QED BY <1>2 DEF EntryFiles, Kept

\* A step of one command, by what it makes of that command, of its model's
\* entry and of its model's shards.
LEMMA PlacesStep ==
    ASSUME TypeOK, Known, Places, NEW p \in Clis, NEW c \in Invocations, Becomes(p, c),
           upset \subseteq upset',
           \A n \in Names : (~Working(cli[p]) \/ n # cli[p].name) => Kept(n),
           Working(c) /\ c.name \notin upset' => Placed(c, Parsed'.models[c.name], disk'),
           Working(c) =>
               \/ Working(cli[p]) /\ c.name = cli[p].name
               \/ c.name \in upset'
               \/ \A q \in Clis \ {p} : Working(cli[q]) => cli[q].name # c.name,
           \A n \in Names \ upset' : Working(cli[p]) /\ n = cli[p].name => EntryFiles(n)'
    PROVE  Places'
<1>1. cli'[p] = c /\ \A q \in Clis \ {p} : cli'[q] = cli[q]
  BY DEF Becomes, TypeOK
<1>2. Apart'
  BY <1>1 DEF Places, Apart
<1>3. ASSUME NEW q \in Clis, Working(cli'[q]), cli'[q].name \notin upset'
      PROVE  Placed(cli'[q], Parsed'.models[cli'[q].name], disk')
  <2>1. CASE q = p
    BY <1>1, <1>3, <2>1
  <2>2. CASE q # p
    <3>1. cli'[q] = cli[q] /\ cli[q].name \notin upset /\ cli[q].name \in Names
      BY <1>1, <1>3, <2>2 DEF Known, Informed, Working
    <3>2. Placed(cli[q], Parsed.models[cli[q].name], disk)
      BY <1>3, <3>1 DEF Places
    <3>3. Kept(cli[q].name)
      BY <1>3, <2>2, <3>1 DEF Places, Apart
    <3> QED BY <3>1, <3>2, <3>3, PlacedKept DEF Kept
  <2> QED BY <2>1, <2>2
<1>4. ASSUME NEW n \in Names \ upset'
      PROVE  EntryFiles(n)'
  <2>1. CASE Working(cli[p]) /\ n = cli[p].name
    BY <1>4, <2>1
  <2>2. CASE ~(Working(cli[p]) /\ n = cli[p].name)
    <3>1. EntryFiles(n) /\ Kept(n)
      BY <1>4, <2>2 DEF Places
    <3>2. Removing(n) => Removing(n)'
      BY <1>1, <2>2 DEF Removing, Working
    <3> QED BY <3>1, <3>2, FilesKept
  <2> QED BY <2>1, <2>2
<1> QED BY <1>2, <1>3, <1>4 DEF Places

\* A step of one command that edits nothing and removes no shard.
LEMMA KeepStep ==
    ASSUME TypeOK, Known, Places, NEW p \in Clis, NEW c \in Invocations, Becomes(p, c),
           upset \subseteq upset', toml' = toml, disk \subseteq disk',
           Working(c) /\ c.name \notin upset' => Placed(c, Parsed.models[c.name], disk'),
           Working(c) => Working(cli[p]) /\ c.name = cli[p].name,
           Removes(cli[p]) => Removes(c) \/ cli[p].name \in upset'
    PROVE  Places'
<1>1. Parsed' = Parsed
  BY DEF Parsed
<1>2. \A n \in Names : Kept(n)
  BY <1>1 DEF Kept
<1>3. ASSUME NEW n \in Names \ upset', Working(cli[p]), n = cli[p].name
      PROVE  EntryFiles(n)'
  <2>1. cli'[p] = c /\ \A q \in Clis \ {p} : cli'[q] = cli[q]
    BY DEF Becomes, TypeOK
  <2>2. Removing(n) => Removing(n)'
    <3>1. SUFFICES ASSUME NEW q \in Clis, Removes(cli[q]), cli[q].name = n
                   PROVE  Removes(cli'[q]) /\ cli'[q].name = n
      BY DEF Removing, Removes
    <3>2. CASE q = p
      BY <1>3, <2>1, <3>1, <3>2 DEF Removes, Working
    <3>3. CASE q # p
      BY <2>1, <3>1, <3>3
    <3> QED BY <3>2, <3>3
  <2>3. EntryFiles(n)
    BY <1>3 DEF Places
  <2> QED BY <1>2, <2>2, <2>3, FilesKept
<1> QED BY <1>1, <1>2, <1>3, PlacesStep

LEMMA EndPlaces ==
    ASSUME TypeOK, Known, Places, NEW p \in Clis, End(p), upset \subseteq upset', toml' = toml,
           disk \subseteq disk', ~Removes(cli[p]) \/ cli[p].name \in upset'
    PROVE  Places'
<1>1. Idle \in Invocations /\ ~Working(Idle) /\ Becomes(p, Idle)
  BY IdleType, EndBecomes DEF Working, Idle
<1> QED BY <1>1, KeepStep

\* A command moves on.
LEMMA GotoPlaces ==
    ASSUME TypeOK, Known, Places, NEW p \in Clis, NEW step \in Steps, Goto(p, step),
           UNCHANGED <<upset, toml>>, disk \subseteq disk', Working(cli[p]),
           Removes(cli[p]) => step \in {"delete", "open", "write", "rename"},
           LET e == Parsed.models[cli[p].name]
           IN Placed(cli[p], e, disk) => Placed([cli[p] EXCEPT !.pc = step], e, disk')
    PROVE  Places'
<1> DEFINE c == [cli[p] EXCEPT !.pc = step]
<1>1. c \in Invocations /\ c.name = cli[p].name /\ c.cmd = cli[p].cmd /\ c.pc = step
  BY DEF TypeOK, Invocations
<1>2. Becomes(p, c)
  BY GotoBecomes
<1>3. cli[p].name \notin upset => Placed(c, Parsed.models[cli[p].name], disk')
  BY DEF Places
<1>4. Removes(cli[p]) => Removes(c)
  BY <1>1 DEF Removes
<1> HIDE DEF c
<1> QED BY <1>1, <1>2, <1>3, <1>4, KeepStep

LEMMA BeginPlaces ==
    ASSUME TypeOK, Known, Places, NEW p \in Clis, NEW c, NEW n \in Names, NEW r, NEW q, NEW step,
           Begin(p, c, n, r, q, step), TypeOK',
           \/ c \in {"use", "rm", "tune"} /\ step = "load"
           \/ c = "pull" /\ step = "look"
           \/ c = "update" /\ step = "first" /\ Parsed.models[n] # Absent /\ Parsed.models[n].quant = q
    PROVE  Places'
<1> DEFINE new == Fresh(c, step, n, r, q)
<1>1. Becomes(p, new)
  BY FreshRecord DEF Begin, Becomes, TypeOK
<1>2. new.cmd = c /\ new.pc = step /\ new.name = n /\ new.quant = q
  BY DEF Fresh
<1> HIDE DEF new
<1>3. new \in Invocations
  BY <1>1 DEF Becomes, TypeOK
<1>4. Parsed' = Parsed /\ disk' = disk /\ upset \subseteq upset' /\ ~Working(cli[p])
  BY DEF Begin, Parsed, At, Working
<1>5. \A m \in Names : Kept(m)
  BY <1>4 DEF Kept
<1>6. Placed(new, Parsed'.models[new.name], disk')
  BY <1>2, <1>4 DEF Placed
<1>7. n \in upset' \/ \A k \in Clis \ {p} : Working(cli[k]) => cli[k].name # n
  BY DEF Begin, WorksOn, Working
<1> QED BY <1>1, <1>2, <1>3, <1>4, <1>5, <1>6, <1>7, PlacesStep

LEMMA LookPlaces ==
    ASSUME TypeOK, Known, Places, NEW p \in Clis, Look(p), TypeOK'
    PROVE  Places'
<1> DEFINE e    == Parsed.models[cli[p].name]
           seen == IF e = Absent THEN Absent ELSE e.rev
           new  == [cli[p] EXCEPT !.seen = seen, !.pc = "first"]
<1>0. /\ cli[p].cmd = "pull" /\ cli[p].pc = "look" /\ cli[p].name \in Names
      /\ ~Removes(cli[p]) /\ Working(cli[p])
  BY DEF Look, At, Known, Informed, Removes, Working
<1>1. CASE End(p)
  BY <1>0, <1>1, EndPlaces DEF Look
<1>2. CASE Goto(p, "done")
  <2>1. Placed([cli[p] EXCEPT !.pc = "done"], e, disk)
    BY <1>0 DEF Placed, TypeOK, Invocations
  <2> QED BY <1>0, <1>2, <2>1, GotoPlaces DEF Look, Steps
<1>3. CASE cli' = [cli EXCEPT ![p].seen = seen, ![p].pc = "first"]
  <2>1. Becomes(p, new)
    BY <1>3 DEF Becomes, TypeOK
  <2>2. seen = RevOf(e)
    BY DEF RevOf
  <2> HIDE DEF seen
  <2>3. /\ new.pc = "first" /\ new.name = cli[p].name /\ new.cmd = "pull" /\ new.seen = seen
    BY <1>0 DEF TypeOK, Invocations
  <2> HIDE DEF new
  <2>4. new \in Invocations
    BY <2>1 DEF Becomes, TypeOK
  <2>5. Placed(new, e, disk)
    BY <2>2, <2>3 DEF Placed
  <2> QED BY <1>0, <2>1, <2>3, <2>4, <2>5, KeepStep DEF Look
<1> QED BY <1>1, <1>2, <1>3 DEF Look

LEMMA FetchPlaces ==
    ASSUME TypeOK, Known, Places, NEW p \in Clis, FetchFirst(p) \/ FetchRest(p)
    PROVE  Places'
<1> DEFINE e == Parsed.models[cli[p].name]
           c(step) == [cli[p] EXCEPT !.pc = step]
<1>0. /\ cli[p].cmd \in {"pull", "update"} /\ ~Removes(cli[p]) /\ Working(cli[p])
      /\ cli[p] \in Invocations
  BY DEF FetchFirst, FetchRest, At, Known, Informed, Removes, Working, TypeOK
<1>1. ASSUME NEW step \in Steps
      PROVE  /\ c(step).pc = step /\ c(step).cmd = cli[p].cmd /\ c(step).quant = cli[p].quant
             /\ c(step).seen = cli[p].seen /\ c(step).rev = cli[p].rev
             /\ \A part : ShardOf(c(step), part) = Shard(p, part)
  BY <1>0 DEF Invocations, ShardOf, Shard
<1>2. \A part : ShardOf(cli[p], part) = Shard(p, part)
  BY DEF ShardOf, Shard
<1> HIDE DEF c
<1>3. CASE FetchFirst(p)
  <2>1. Placed(cli[p], e, disk) => Placed(c("rest"), e, disk')
    BY <1>0, <1>1, <1>3 DEF FetchFirst, At, Placed, Steps
  <2> QED BY <1>0, <1>3, <2>1, GotoPlaces DEF FetchFirst, Steps, c
<1>4. CASE FetchRest(p)
  <2>1. CASE End(p)
    BY <1>0, <1>4, <2>1, EndPlaces DEF FetchRest
  <2>2. CASE Goto(p, "done")
    <3>1. Placed(cli[p], e, disk) => Placed(c("done"), e, disk')
      BY <1>0, <1>1 DEF Placed, Steps
    <3> QED BY <1>0, <1>4, <2>2, <3>1, GotoPlaces DEF FetchRest, Steps, c
  <2>3. CASE Goto(p, "load") /\ ~(cli[p].cmd = "pull" /\ cli[p].seen \notin {Absent, cli[p].rev})
    <3>1. Placed(cli[p], e, disk) => Placed(c("load"), e, disk')
      BY <1>0, <1>1, <1>2, <1>4, <2>3 DEF FetchRest, At, Placed, Steps
    <3> QED BY <1>0, <1>4, <2>3, <3>1, GotoPlaces DEF FetchRest, Steps, c
  <2> QED BY <1>4, <2>1, <2>2, <2>3 DEF FetchRest
<1> QED BY <1>3, <1>4

LEMMA LoadPlaces ==
    ASSUME TypeOK, Known, Places, NEW p \in Clis, Load(p), TypeOK'
    PROVE  Places'
<1> DEFINE c   == cli[p]
           e   == Parsed.models[c.name]
           rev == IF c.cmd = "rm" THEN Parsed.models[c.name].rev ELSE c.rev
           pc  == IF c.cmd \in {"rm", "tune"} THEN "confirm" ELSE "open"
           reg == Edited(Parsed, c)
           new == [c EXCEPT !.copy = reg, !.rev = rev, !.pc = pc]
<1>0. c \in Invocations /\ c.pc = "load" /\ ~Removes(c) /\ Working(c)
  BY DEF TypeOK, Load, At, Removes, Working
<1>1. CASE End(p)
  BY <1>0, <1>1, EndPlaces DEF Load
<1>2. CASE ~End(p)
  <2>1. cli' = [cli EXCEPT ![p].copy = reg, ![p].rev = rev, ![p].pc = pc]
    BY <1>2 DEF Load
  <2>2. Becomes(p, new)
    BY <2>1 DEF Becomes, TypeOK
  <2> HIDE DEF reg, rev, pc
  <2>3. /\ new.pc = pc /\ new.rev = rev /\ new.cmd = c.cmd /\ new.name = c.name
        /\ new.quant = c.quant /\ new.seen = c.seen
    BY <1>0 DEF Invocations
  <2>4. new \in Invocations
    BY <2>2 DEF Becomes, TypeOK
  <2> HIDE DEF new
  <2>5. ASSUME Placed(c, e, disk) PROVE Placed(new, e, disk)
    <3>1. CASE c.cmd \in {"rm", "tune"}
      BY <2>3, <2>5, <3>1 DEF Placed, pc
    <3>2. CASE c.cmd \notin {"rm", "tune"}
      <4>1. pc = "open" /\ rev = c.rev
        BY <3>2 DEF pc, rev
      <4>2. \A part : ShardOf(new, part) = ShardOf(c, part)
        BY <2>3, <4>1 DEF ShardOf
      <4> QED BY <1>0, <2>3, <2>5, <4>1, <4>2 DEF Placed
    <3> QED BY <3>1, <3>2
  <2>6. c.name \notin upset => Placed(c, e, disk)
    BY <1>0 DEF Places
  <2> QED BY <1>0, <2>2, <2>3, <2>4, <2>5, <2>6, KeepStep DEF Load
<1> QED BY <1>1, <1>2

LEMMA ConfirmPlaces ==
    ASSUME TypeOK, Known, Places, NEW p \in Clis, Confirm(p)
    PROVE  Places'
<1> DEFINE step == IF cli[p].cmd = "rm" THEN "delete" ELSE "open"
           e    == Parsed.models[cli[p].name]
           c    == [cli[p] EXCEPT !.pc = step]
<1>0. /\ cli[p] \in Invocations /\ cli[p].cmd \in {"rm", "tune"} /\ ~Removes(cli[p])
      /\ Working(cli[p])
  BY DEF TypeOK, Confirm, At, Known, Informed, Removes, Working
<1>1. CASE End(p)
  BY <1>0, <1>1, EndPlaces DEF Confirm
<1>2. CASE Goto(p, step)
  <2>1. c.pc = step /\ c.cmd = cli[p].cmd
    BY <1>0 DEF Invocations
  <2> HIDE DEF c
  <2>2. Placed(c, e, disk)
    BY <1>0, <2>1 DEF Placed
  <2> QED BY <1>0, <1>2, <2>2, GotoPlaces DEF Confirm, Steps, c
<1> QED BY <1>1, <1>2 DEF Confirm

\* rm deletes shards of its own model only, and is still removing it then.
LEMMA DeletePlaces ==
    ASSUME TypeOK, Known, Places, NEW p \in Clis, Delete(p)
    PROVE  Places'
<1> DEFINE e == Parsed.models[cli[p].name]
           c == [cli[p] EXCEPT !.pc = "open"]
<1>0. /\ cli[p] \in Invocations /\ cli[p].pc = "delete" /\ cli[p].cmd \in {"rm", "tune"}
      /\ Working(cli[p]) /\ cli[p].name \in Names
  BY DEF TypeOK, Delete, At, Known, Informed, Working
<1>1. CASE Goto(p, "open") /\ UNCHANGED disk
  <2>1. c.pc = "open" /\ c.cmd = cli[p].cmd
    BY <1>0 DEF Invocations
  <2> HIDE DEF c
  <2>2. Placed(c, e, disk)
    BY <1>0, <2>1 DEF Placed
  <2> QED BY <1>0, <1>1, <2>2, GotoPlaces DEF Delete, Steps, c
<1>2. ASSUME NEW s \in Directory(cli[p].name, cli[p].rev), disk' = disk \ {s}, UNCHANGED cli
      PROVE  Places'
  <2>1. Becomes(p, cli[p])
    BY <1>2 DEF Becomes, TypeOK
  <2>2. Parsed' = Parsed /\ upset' = upset
    BY DEF Delete, Parsed
  <2>3. ASSUME NEW n \in Names, n # cli[p].name PROVE Kept(n)
    BY <1>2, <2>2, <2>3 DEF Kept, Directory
  <2>4. cli[p].name \notin upset => cli[p].cmd = "rm" /\ Placed(cli[p], e, disk')
    BY <1>0 DEF Places, Placed
  <2>5. ASSUME NEW n \in Names \ upset', n = cli[p].name PROVE EntryFiles(n)'
    <3>1. Removing(n)'
      BY <1>0, <1>2, <2>2, <2>4, <2>5 DEF Removing
    <3> QED BY <3>1 DEF EntryFiles
  <2> QED BY <1>0, <2>1, <2>2, <2>3, <2>4, <2>5, PlacesStep
<1> QED BY <1>1, <1>2 DEF Delete

LEMMA OpenWritePlaces ==
    ASSUME TypeOK, Known, Saves, Places, NEW p \in Clis, Open(p) \/ Write(p), TypeOK'
    PROVE  Places'
<1> DEFINE pc == IF Open(p) THEN "write" ELSE "rename"
           c  == IF Open(p) THEN [cli[p] EXCEPT !.file = "tmp", !.pc = "write"]
                            ELSE [cli[p] EXCEPT !.pc = "rename", !.file = "none"]
<1>0. cli[p] \in Invocations /\ cli[p].pc \in {"open", "write"} /\ Working(cli[p])
  BY DEF TypeOK, Open, Write, At, Working
<1>1. Becomes(p, c)
  BY DEF Becomes, TypeOK, Open, Write
<1>2. toml' = toml /\ upset' = upset /\ disk' = disk
  BY DEF Open, Write, Saves, Orderly, At
<1>3. pc \in {"write", "rename"}
  OBVIOUS
<1>4. /\ c.pc = pc /\ c.cmd = cli[p].cmd /\ c.name = cli[p].name /\ c.rev = cli[p].rev
      /\ c.quant = cli[p].quant /\ c.seen = cli[p].seen
  BY <1>0 DEF Invocations
<1> HIDE DEF c, pc
<1>5. c \in Invocations
  BY <1>1 DEF Becomes, TypeOK
<1>6. \A part : ShardOf(c, part) = ShardOf(cli[p], part)
  BY <1>4 DEF ShardOf
<1>7. cli[p].name \notin upset => Placed(cli[p], Parsed.models[cli[p].name], disk)
  BY <1>0 DEF Places
<1>8. cli[p].name \notin upset => Placed(c, Parsed.models[cli[p].name], disk)
  BY <1>0, <1>3, <1>4, <1>6, <1>7 DEF Placed
<1>9. Removes(cli[p]) => Removes(c)
  BY <1>3, <1>4 DEF Removes
<1> QED BY <1>0, <1>1, <1>2, <1>4, <1>5, <1>8, <1>9, KeepStep

\* What a rename registers has been downloaded: the entry of a pull, or of an
\* update, is that of the shards it fetched.
LEMMA RenamePlaces ==
    ASSUME TypeOK, Known, Saves, Places, NEW p \in Clis, Rename(p), TypeOK'
    PROVE  Places'
<1> DEFINE c    == cli[p]
           e    == Parsed.models[c.name]
           done == [Idle EXCEPT !.cmd = "pull", !.name = c.name, !.rev = c.rev,
                                !.quant = c.quant, !.pc = "done"]
           new  == IF c.cmd = "pull" THEN done ELSE Idle
<1>1. /\ Parsed' = Edited(Parsed, c) /\ Allowed(Parsed, c) /\ Parsed \in Registries /\ tmp # NoFile
      /\ c \in Invocations /\ Informed(c) /\ c.pc = "rename"
  BY RenameEdits
<1>2. disk' = disk /\ upset' = upset /\ Working(c) /\ c.name \in Names
  BY <1>1 DEF Rename, Working, Informed
<1>3. Becomes(p, new)
  <2>1. ASSUME NEW q \in Clis \ {p}
        PROVE  cli'[q] = cli[q]
    <3>1. ~Saving(q) /\ Orderly(cli[q], Parsed, tmp) /\ cli[q] \in Invocations
      BY <1>1 DEF Saves, OneSaver, TypeOK, Saving
    <3>2. cli[q].file = "none"
      BY <3>1 DEF Orderly, Saving
    <3>3. cli'[q] = [cli[q] EXCEPT !.file = "none"]
      BY <1>1, <3>2 DEF Rename
    <3>4. [cli[q] EXCEPT !.file = "none"] = cli[q]
      BY <3>1, <3>2 DEF Invocations
    <3> QED BY <3>3, <3>4
  <2>2. cli'[p] = new
    BY <1>1 DEF Rename
  <2>3. cli' = [q \in Clis |-> cli'[q]]
    BY <1>1 DEF Rename
  <2> QED BY <2>1, <2>2, <2>3 DEF Becomes
<1>4. new.pc \in {"idle", "done"} /\ (Working(new) => new.cmd = "pull" /\ new.name = c.name)
  BY DEF Idle, Working
<1> HIDE DEF new
<1>5. new \in Invocations
  BY <1>3 DEF Becomes, TypeOK
<1>6. ASSUME NEW n \in Names, n # c.name PROVE Kept(n)
  BY <1>1, <1>2, <1>6, EditedType DEF Kept, Informed
<1>7. ASSUME NEW x PROVE Working(new) => Placed(new, x, disk')
  BY <1>4 DEF Placed, Working
<1>8. ASSUME NEW n \in Names \ upset', n = c.name PROVE EntryFiles(n)'
  <2> DEFINE f == Parsed'.models[n]
             shard(r, q, part) == [name |-> n, rev |-> r, quant |-> q, part |-> part]
  <2>1. Placed(c, e, disk) /\ EntryFiles(n)
    BY <1>2, <1>8 DEF Places
  <2>2. \A part : ShardOf(c, part) = shard(c.rev, c.quant, part)
    BY <1>8 DEF ShardOf
  <2>3. c.cmd \in {"use", "rm", "pull", "update", "tune"} /\ Parsed.models \in [Names -> Entries \cup {Absent}]
    BY <1>1 DEF Invocations, Registries
  <2>4. ASSUME NEW x, Parsed' = [Parsed EXCEPT !.models[c.name] = x]
        PROVE  f = x
    BY <1>1, <1>2, <1>8, <2>4 DEF Registries
  <2>5. CASE c.cmd = "pull"
    <3> DEFINE x == [rev |-> c.rev, quant |-> c.quant, tuned |-> FALSE]
    <3>1. Parsed' = [Parsed EXCEPT !.models[c.name] = x]
      BY <1>1, <2>5 DEF Edited
    <3>2. x.rev = c.rev /\ x.quant = c.quant
      OBVIOUS
    <3> HIDE DEF x
    <3>3. f = x
      BY <2>4, <3>1
    <3>4. \A part \in {"first", "rest"} : shard(f.rev, f.quant, part) \in disk'
      BY <1>1, <1>2, <2>1, <2>2, <2>5, <3>2, <3>3 DEF Placed
    <3> QED BY <3>4 DEF EntryFiles
  <2>6. CASE c.cmd = "update"
    <3> DEFINE x == [e EXCEPT !.rev = c.rev]
    <3>1. Parsed' = [Parsed EXCEPT !.models[c.name] = x]
      BY <1>1, <1>2, <2>6 DEF Edited, Registries
    <3>2. e \in Entries /\ e.quant = c.quant
      BY <1>1, <1>2, <2>1, <2>3, <2>6 DEF Placed
    <3>3. x.rev = c.rev /\ x.quant = c.quant
      BY <3>2 DEF Entries
    <3> HIDE DEF x
    <3>4. f = x
      BY <2>4, <3>1
    <3>5. \A part \in {"first", "rest"} : shard(f.rev, f.quant, part) \in disk'
      BY <1>1, <1>2, <2>1, <2>2, <2>6, <3>3, <3>4 DEF Placed
    <3> QED BY <3>5 DEF EntryFiles
  <2>7. CASE c.cmd = "rm"
    <3>1. f = Absent
      BY <1>1, <2>4, <2>7 DEF Edited
    <3> QED BY <3>1 DEF EntryFiles
  <2>8. CASE c.cmd \in {"use", "tune"}
    <3> DEFINE x == [e EXCEPT !.tuned = TRUE]
    <3>1. e \in Entries
      BY <1>1, <1>2, <2>3, <2>8 DEF Allowed
    <3>2. x.rev = e.rev /\ x.quant = e.quant
      BY <3>1 DEF Entries
    <3> HIDE DEF x
    <3>3. c.cmd = "tune" => f = x
      <4>1. c.cmd = "tune" => Parsed' = [Parsed EXCEPT !.models[c.name] = x]
        BY <1>1, <1>2 DEF Edited, Registries, x
      <4> QED BY <2>4, <4>1
    <3>4. c.cmd = "use" => f = e
      BY <1>1, <1>8 DEF Edited, Registries
    <3>5. f.rev = e.rev /\ f.quant = e.quant
      BY <2>8, <3>2, <3>3, <3>4
    <3>6. ~Removing(n)
      BY <1>1, <1>2, <1>8, <2>8 DEF Removing, Places, Apart, Working
    <3>7. \A part \in {"first", "rest"} : shard(f.rev, f.quant, part) \in disk'
      BY <1>2, <1>8, <2>1, <3>1, <3>5, <3>6, Apartness DEF EntryFiles
    <3> QED BY <3>7 DEF EntryFiles
  <2> QED BY <2>3, <2>5, <2>6, <2>7, <2>8
<1> QED BY <1>2, <1>3, <1>4, <1>5, <1>6, <1>7, <1>8, PlacesStep

LEMMA PlacesPreserved ==
    ASSUME TypeOK, Known, Saves, Places, [Next]_vars
    PROVE  Places'
<1>1. CASE UNCHANGED vars
  BY <1>1 DEF vars, Places, Apart, EntryFiles, Removing, Parsed
<1>2. TypeOK'
  BY NextType
<1>3. ASSUME NEW p \in Clis, NEW n \in Names,
             Use(p, n) \/ Rm(p, n) \/ Tune(p, n) \/ \E r \in Revs, q \in Quants : Pull(p, n, r, q)
      PROVE  Places'
  BY <1>2, <1>3, BeginPlaces DEF Use, Rm, Tune, Pull
<1>4. ASSUME NEW p \in Clis, NEW r \in Revs, Update(p, r)
      PROVE  Places'
  <2> DEFINE n == Parsed.active
             q == Parsed.models[n].quant
  <2>1. n \in Names /\ Parsed.models[n] # Absent /\ Begin(p, "update", n, r, q, "first")
    BY <1>4, ParsedType DEF Update, Registries
  <2>2. Parsed.models[n].quant = q
    OBVIOUS
  <2> HIDE DEF n, q
  <2> QED BY <1>2, <2>1, <2>2, BeginPlaces
<1>5. ASSUME NEW p \in Clis, Done(p)
      PROVE  Places'
  BY <1>5, EndPlaces DEF Done, At, Removes
<1>6. ASSUME NEW p \in Clis, Crash(p)
      PROVE  Places'
  BY <1>6, EndPlaces DEF Crash, Removes
<1> QED
  BY <1>1, <1>2, <1>3, <1>4, <1>5, <1>6, LookPlaces, FetchPlaces, LoadPlaces, ConfirmPlaces,
     DeletePlaces, OpenWritePlaces, RenamePlaces
  DEF Next

LEMMA InitPlaces ==
    ASSUME Init
    PROVE  Places
<1>1. \A p \in Clis : ~Working(cli[p])
  BY DEF Init, Working, Idle
<1>2. \A n \in Names : Parsed.models[n] = Absent
  BY DEF Init, Parsed, Empty
<1> QED BY <1>1, <1>2 DEF Places, Apart, EntryFiles

\* Where a rename moves a registered model to another revision, it is that
\* of an update of the model.
LEMMA RepointStep ==
    ASSUME TypeOK, Known, Saves, Places, [Next]_vars, NEW n \in Names \ upset',
           Parsed.models[n] # Absent, Parsed'.models[n] # Absent,
           Parsed.models[n].rev # Parsed'.models[n].rev
    PROVE  \E p \in Clis : At(p, "rename") /\ cli[p].cmd = "update" /\ cli[p].name = n
<1>1. PICK p \in Clis : Rename(p)
  BY OnlyRenameEdits
<1> DEFINE c == cli[p]
           e == Parsed.models[n]
<1>2. /\ Parsed' = Edited(Parsed, c) /\ Allowed(Parsed, c) /\ Parsed \in Registries
      /\ c \in Invocations /\ Informed(c) /\ c.pc = "rename"
  BY <1>1, RenameEdits
<1>3. c.name = n
  BY <1>2, EditedType DEF Informed
<1>4. Placed(c, e, disk)
  BY <1>1, <1>2, <1>3 DEF Places, Working, Rename
<1>5. e \in Entries /\ Parsed.models \in [Names -> Entries \cup {Absent}]
  BY <1>2 DEF Registries
<1>6. c.cmd \in {"use", "rm", "pull", "update", "tune"}
  BY <1>2 DEF Invocations
<1>7. ASSUME NEW x, Parsed' = [Parsed EXCEPT !.models[c.name] = x]
      PROVE  Parsed'.models[n] = x
  BY <1>2, <1>3, <1>7 DEF Registries
<1>8. c.cmd # "use"
  BY <1>2 DEF Edited, Registries
<1>9. c.cmd # "rm"
  BY <1>2, <1>7 DEF Edited
<1>10. ASSUME c.cmd = "tune" PROVE FALSE
  <2> DEFINE x == [e EXCEPT !.tuned = TRUE]
  <2>1. Parsed' = [Parsed EXCEPT !.models[c.name] = x]
    BY <1>2, <1>3, <1>10 DEF Edited, Registries
  <2>2. x.rev = e.rev
    BY <1>5 DEF Entries
  <2> HIDE DEF x
  <2> QED BY <1>7, <2>1, <2>2
<1>11. ASSUME c.cmd = "pull" PROVE FALSE
  <2> DEFINE x == [rev |-> c.rev, quant |-> c.quant, tuned |-> FALSE]
  <2>1. Parsed' = [Parsed EXCEPT !.models[c.name] = x]
    BY <1>2, <1>11 DEF Edited
  <2>2. x.rev = c.rev
    OBVIOUS
  <2> HIDE DEF x
  <2>3. e.rev = c.seen /\ c.seen \in {Absent, c.rev}
    BY <1>2, <1>4, <1>11 DEF Placed, RevOf
  <2>4. e.rev \in Revs
    BY <1>5 DEF Entries
  <2> QED BY <1>7, <2>1, <2>2, <2>3, <2>4, Apartness
<1> QED BY <1>1, <1>2, <1>3, <1>6, <1>8, <1>9, <1>10, <1>11 DEF At

\* With no load between another command's load and its save: a registered
\* model that no two commands have worked on at once, and whose removal did
\* not die, has both its shards on disk, unless it is being removed.
THEOREM EntryHasFilesAlways ==
    ASSUME Overlap = FALSE
    PROVE  Spec => []EntryHasFiles
<1> DEFINE IInv == TypeOK /\ Known /\ Saves /\ Places
<1>1. Init => IInv
  BY InitType, InitSaves, InitPlaces
<1>2. IInv /\ [Next]_vars => IInv'
  BY NextType, SavesPreserved, PlacesPreserved
<1>3. IInv => EntryHasFiles
  BY DEF Places, EntryFiles, EntryHasFiles
<1> HIDE DEF IInv
<1> QED BY <1>1, <1>2, <1>3, PTL DEF Spec

\* Under the same assumption, nothing but update moves such a model to
\* another revision (register_or_notice).
THEOREM RepointsAreGatedAlways ==
    ASSUME Overlap = FALSE
    PROVE  Spec => RepointsAreGated
<1> DEFINE IInv == TypeOK /\ Known /\ Saves /\ Places
           Gated ==
               \A n \in Names \ upset' :
                   LET e == Parsed.models[n]  f == Parsed'.models[n]
                   IN e # Absent /\ f # Absent /\ e.rev # f.rev =>
                       \E p \in Clis : At(p, "rename") /\ cli[p].cmd = "update" /\ cli[p].name = n
<1>1. Init => IInv
  BY InitType, InitSaves, InitPlaces
<1>2. IInv /\ [Next]_vars => IInv'
  BY NextType, SavesPreserved, PlacesPreserved
<1>3. IInv /\ [Next]_vars => [Gated]_vars
  BY RepointStep
<1>4. RepointsAreGated <=> [][Gated]_vars
  BY DEF RepointsAreGated
<1> HIDE DEF IInv, Gated
<1> QED BY <1>1, <1>2, <1>3, <1>4, PTL DEF Spec

=============================================================================
