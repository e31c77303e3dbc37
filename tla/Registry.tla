------------------------------ MODULE Registry ------------------------------
(***************************************************************************)
(* models.toml and the commands that edit it: use, rm, pull, update and    *)
(* tune --apply.  Each is a process of its own that loads the registry,    *)
(* edits its copy and saves it: the new text is written to models.toml.tmp *)
(* and that file is renamed over models.toml.  Nothing is locked, and the  *)
(* temporary file has one name, whoever writes it.                         *)
(*                                                                         *)
(* pull and update download a model before they load the registry they     *)
(* save; rm deletes a model's directory after it has loaded it.            *)
(*                                                                         *)
(* Defaults, hermes_ok and the repository of an entry are left out, and    *)
(* `tuned` stands for all that a user adds to it (flags, context, role).   *)
(* A model has two shards, the first and the rest.                         *)
(***************************************************************************)
EXTENDS Naturals

CONSTANTS
    Clis,        \* the terminals
    Names, Revs, Quants, NoName, Absent,
    NoFile,      \* a file that does not exist
    Blank,       \* a file of length zero
    Torn,        \* a file that does not parse
    MaxCommands, \* the bound on commands typed
    Overlap      \* whether a command may load while another is about to save

Entries == [rev : Revs, quant : Quants, tuned : BOOLEAN]

Registries == [active : Names \cup {NoName}, models : [Names -> Entries \cup {Absent}]]

ASSUME NamesAssumption == NoName \notin Names
ASSUME AbsentAssumption == Absent \notin Entries \cup Revs \cup Quants
ASSUME FilesAssumption == {NoFile, Blank, Torn} \cap Registries = {} /\ Torn \notin {NoFile, Blank}
ASSUME BoundsAssumption == Overlap \in BOOLEAN /\ MaxCommands \in Nat

VARIABLES
    toml,        \* models.toml
    tmp,         \* models.toml.tmp
    disk,        \* the shards in the models directory
    cli,         \* the running commands
    typed,       \* history: how many commands have been typed
    upset        \* history: models that two commands worked on at once, or
                 \* whose removal was cut short

vars == <<toml, tmp, disk, cli, typed, upset>>

Empty == [active |-> NoName, models |-> [n \in Names |-> Absent]]

Shards == [name : Names, rev : Revs, quant : Quants, part : {"first", "rest"}]

Steps == {"idle", "look", "first", "rest", "done", "load", "confirm", "delete",
          "open", "write", "rename"}

Invocations ==
    [cmd : {"use", "rm", "pull", "update", "tune"}, pc : Steps, name : Names \cup {NoName},
     rev : Revs \cup {Absent}, quant : Quants \cup {Absent}, seen : Revs \cup {Absent},
     copy : Registries, file : {"none", "tmp", "toml", "gone"}]

TypeOK ==
    /\ toml \in Registries \cup {NoFile, Blank, Torn}
    /\ tmp \in Registries \cup {NoFile, Blank, Torn}
    /\ disk \subseteq Shards
    /\ cli \in [Clis -> Invocations]
    /\ typed \in 0..MaxCommands
    /\ upset \subseteq Names

Idle == [cmd |-> "use", pc |-> "idle", name |-> NoName, rev |-> Absent, quant |-> Absent,
         seen |-> Absent, copy |-> Empty, file |-> "none"]

Init ==
    /\ toml = NoFile
    /\ tmp = NoFile
    /\ disk = {}
    /\ cli = [p \in Clis |-> Idle]
    /\ typed = 0
    /\ upset = {}

-----------------------------------------------------------------------------

At(p, step) == cli[p].pc = step

Goto(p, step) == cli' = [cli EXCEPT ![p].pc = step]

\* The command ends, its files are closed.
End(p) == cli' = [cli EXCEPT ![p] = Idle]

\* Registry::load: a missing file is an empty registry, and so is a blank one.
Parsed == IF toml \in {NoFile, Blank} THEN Empty ELSE toml

Readable == toml # Torn

\* From its last load until its rename a command would overwrite another's save.
Saving(p) == cli[p].pc \in {"confirm", "delete", "open", "write", "rename"}
Alone(p) == Overlap \/ \A q \in Clis \ {p} : ~Saving(q)

\* The models a command works on from its beginning to its end.
WorksOn(n) == {q \in Clis : cli[q].pc # "idle" /\ cli[q].name = n}

\* Command `c` begins on the model `n`.
Begin(p, c, n, r, q, step) ==
    /\ At(p, "idle")
    /\ typed < MaxCommands
    /\ typed' = typed + 1
    /\ cli' = [cli EXCEPT ![p] = [Idle EXCEPT !.cmd = c, !.pc = step, !.name = n,
                                              !.rev = r, !.quant = q]]
    /\ upset' = upset \cup (IF WorksOn(n) = {} THEN {} ELSE {n})
    /\ UNCHANGED <<toml, tmp, disk>>

Use(p, n)  == Begin(p, "use", n, Absent, Absent, "load")
Rm(p, n)   == Begin(p, "rm", n, Absent, Absent, "load")
Tune(p, n) == Begin(p, "tune", n, Absent, Absent, "load")

\* The hub resolves the spec to one revision.
Pull(p, n, r, q) == Begin(p, "pull", n, r, q, "look")

\* update works on the active model, and finds a revision other than its own.
Update(p, r) ==
    /\ Readable /\ Parsed.active # NoName
    /\ LET n == Parsed.active
       IN /\ Parsed.models[n] # Absent /\ Parsed.models[n].rev # r
          /\ Begin(p, "update", n, r, Parsed.models[n].quant, "first")

-----------------------------------------------------------------------------
(* pull and update up to the end of the download.                          *)

Shard(p, part) ==
    [name |-> cli[p].name, rev |-> cli[p].rev, quant |-> cli[p].quant, part |-> part]

\* pull: the registered revision, and whether there is nothing to do.
Look(p) ==
    /\ At(p, "look")
    /\ LET e    == Parsed.models[cli[p].name]
           seen == IF e = Absent THEN Absent ELSE e.rev
       IN IF ~Readable THEN End(p)
          ELSE IF seen = cli[p].rev /\ Shard(p, "first") \in disk THEN Goto(p, "done")
          ELSE cli' = [cli EXCEPT ![p].seen = seen, ![p].pc = "first"]
    /\ UNCHANGED <<toml, tmp, disk, typed, upset>>

\* download_plan: a shard that is there already is skipped (module
\* ShardDownload has the rest).
FetchFirst(p) ==
    /\ At(p, "first")
    /\ disk' = disk \cup {Shard(p, "first")}
    /\ Goto(p, "rest")
    /\ UNCHANGED <<toml, tmp, typed, upset>>

\* Mutant: the first shard is all there is.
FetchNoRest(p) ==
    /\ At(p, "rest")
    /\ Goto(p, "load")
    /\ UNCHANGED <<toml, tmp, disk, typed, upset>>

\* The registry is not touched when the name had another revision; update
\* goes on only with its licence gate passed.
FetchRest(p) ==
    /\ At(p, "rest")
    /\ disk' = disk \cup {Shard(p, "rest")}
    /\ IF cli[p].cmd = "pull" /\ cli[p].seen \notin {Absent, cli[p].rev}
       THEN Goto(p, "done")
       ELSE Goto(p, "load") \/ (cli[p].cmd = "update" /\ End(p))
    /\ UNCHANGED <<toml, tmp, typed, upset>>

\* pull reports success.
Done(p) ==
    /\ At(p, "done")
    /\ End(p)
    /\ UNCHANGED <<toml, tmp, disk, typed, upset>>

-----------------------------------------------------------------------------
(* The edit of a freshly loaded registry.                                  *)

Edited(reg, c) ==
    CASE c.cmd = "use"    -> [reg EXCEPT !.active = c.name]
      [] c.cmd = "rm"     -> [reg EXCEPT !.models[c.name] = Absent]
      [] c.cmd = "pull"   ->
            [reg EXCEPT !.models[c.name] = [rev |-> c.rev, quant |-> c.quant, tuned |-> FALSE]]
      [] c.cmd = "update" -> [reg EXCEPT !.models[c.name].rev = c.rev]
      [] OTHER            -> [reg EXCEPT !.models[c.name].tuned = TRUE]

\* The registry must have the name, except for a pull; rm refuses the active
\* model.  rm and tune go on to ask the user.
Load(p) ==
    /\ At(p, "load")
    /\ Alone(p)
    /\ LET c  == cli[p]
           ok == /\ Readable
                 /\ c.cmd # "pull" => Parsed.models[c.name] # Absent
                 /\ c.cmd = "rm" => Parsed.active # c.name
       IN IF ok
          THEN cli' = [cli EXCEPT
                  ![p].copy = Edited(Parsed, c),
                  ![p].rev = IF c.cmd = "rm" THEN Parsed.models[c.name].rev ELSE @,
                  ![p].pc = IF c.cmd \in {"rm", "tune"} THEN "confirm" ELSE "open"]
          ELSE End(p)
    /\ UNCHANGED <<toml, tmp, disk, typed, upset>>

Confirm(p) ==
    /\ At(p, "confirm")
    /\ \/ Goto(p, IF cli[p].cmd = "rm" THEN "delete" ELSE "open")
       \/ End(p)
    /\ UNCHANGED <<toml, tmp, disk, typed, upset>>

\* remove_dir_all takes the files of the entry's directory one at a time.
Directory(n, r) == {s \in disk : s.name = n /\ s.rev = r}

Delete(p) ==
    /\ At(p, "delete")
    /\ LET dir == Directory(cli[p].name, cli[p].rev)
       IN IF dir = {} THEN Goto(p, "open") /\ UNCHANGED disk
          ELSE (\E s \in dir : disk' = disk \ {s}) /\ UNCHANGED cli
    /\ UNCHANGED <<toml, tmp, typed, upset>>

-----------------------------------------------------------------------------
(* Registry::save.                                                         *)

\* Mutant: the registry is written in place.
OpenInPlace(p) ==
    /\ At(p, "open")
    /\ toml' = Blank
    /\ cli' = [cli EXCEPT ![p].file = "toml", ![p].pc = "write"]
    /\ UNCHANGED <<tmp, disk, typed, upset>>

\* fs::write creates the temporary file, or empties the one that is there.
Open(p) ==
    /\ At(p, "open")
    /\ tmp' = Blank
    /\ cli' = [cli EXCEPT ![p].file = "tmp", ![p].pc = "write"]
    /\ UNCHANGED <<toml, disk, typed, upset>>

\* A text written over another leaves the tail of a longer one.
Overwritten(file, text) == IF file = Blank THEN {text} ELSE {text, Torn}

Write(p) ==
    /\ At(p, "write")
    /\ IF cli[p].file = "tmp" THEN tmp' \in Overwritten(tmp, cli[p].copy) ELSE UNCHANGED tmp
    /\ IF cli[p].file = "toml" THEN toml' \in Overwritten(toml, cli[p].copy) ELSE UNCHANGED toml
    /\ cli' = [cli EXCEPT ![p].pc = "rename", ![p].file = "none"]
    /\ UNCHANGED <<disk, typed, upset>>

\* Whoever has the temporary file open has models.toml open now, and the old
\* models.toml is gone.
Rename(p) ==
    /\ At(p, "rename")
    /\ IF tmp = NoFile THEN End(p) /\ UNCHANGED <<toml, tmp>>
       ELSE /\ toml' = tmp
            /\ tmp' = NoFile
            /\ cli' = [q \in Clis |->
                   IF q = p THEN IF cli[p].cmd = "pull" THEN [Idle EXCEPT !.cmd = "pull",
                                        !.name = cli[p].name, !.rev = cli[p].rev,
                                        !.quant = cli[p].quant, !.pc = "done"] ELSE Idle
                   ELSE [cli[q] EXCEPT !.file = CASE @ = "tmp"  -> "toml"
                                                  [] @ = "toml" -> "gone"
                                                  [] OTHER      -> @]]
    /\ UNCHANGED <<disk, typed, upset>>

\* The command is killed, or its next file operation fails.
Crash(p) ==
    /\ ~At(p, "idle")
    /\ End(p)
    /\ upset' = upset \cup (IF cli[p].cmd = "rm" THEN {cli[p].name} ELSE {})
    /\ UNCHANGED <<toml, tmp, disk, typed>>

-----------------------------------------------------------------------------

Next ==
    \E p \in Clis :
        \/ \E n \in Names :
            Use(p, n) \/ Rm(p, n) \/ Tune(p, n) \/ \E r \in Revs, q \in Quants : Pull(p, n, r, q)
        \/ \E r \in Revs : Update(p, r)
        \/ Look(p) \/ FetchFirst(p) \/ FetchRest(p) \/ Done(p) \/ Load(p) \/ Confirm(p)
        \/ Delete(p) \/ Open(p) \/ Write(p) \/ Rename(p) \/ Crash(p)

Spec == Init /\ [][Next]_vars

-----------------------------------------------------------------------------
(* What the commands guarantee.                                            *)

\* As long as no command loads between another's load and its save, every
\* command's edit is atomic, wherever it dies and however long it downloads:
\* what models.toml says changes by whole edits only (Registry::save, "Atomic
\* save").
Promise == INSTANCE ModelRegistry WITH reg <- Parsed
SavesAreAtomic == Promise!Spec

\* A removal of the model is between its deletion and its save.
Removing(n) ==
    \E p \in Clis : /\ cli[p].cmd = "rm" /\ cli[p].name = n
                   /\ cli[p].pc \in {"delete", "open", "write", "rename"}

\* A registered model has all its shards on disk, unless a removal of it died
\* or another command worked on it meanwhile: pull and update register only
\* what they have downloaded, and rm saves what it has deleted.
EntryHasFiles ==
    \A n \in Names \ upset :
        LET e == Parsed.models[n]
        IN e # Absent /\ ~Removing(n) =>
            \A part \in {"first", "rest"} :
                [name |-> n, rev |-> e.rev, quant |-> e.quant, part |-> part] \in disk

\* Only update moves a registered model to another revision, unless two
\* commands worked on that model at once (register_or_notice: "repointing is
\* `update`'s gated job").
RepointsAreGated ==
    [][\A n \in Names \ upset' :
        LET e == Parsed.models[n]  f == Parsed'.models[n]
        IN e # Absent /\ f # Absent /\ e.rev # f.rev =>
            \E p \in Clis : At(p, "rename") /\ cli[p].cmd = "update" /\ cli[p].name = n]_vars

=============================================================================
