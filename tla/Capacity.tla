------------------------------ MODULE Capacity ------------------------------
(***************************************************************************)
(* What chekov says this machine can hold, between the commands that       *)
(* change what it says it from: pull installs a quant, setup builds the    *)
(* engine whose device list is the budget, bench stores runs, and the      *)
(* registry, the wired limit and the configured floor are edited.          *)
(*                                                                         *)
(* Three commands answer from that state: the gate of `run`,               *)
(* `capability recommend` and `capability graph`, whose cells show either  *)
(* the verdict or a decode rate some stored run measured.                  *)
(***************************************************************************)
EXTENDS Footprint, Stats

CONSTANTS
    Repos,      \* [model -> snapshot]: the files of its repository
    Templates,  \* [model -> what the list endpoint says of its chat template]
    Ladder,     \* the contexts of the graph
    Wireds,     \* values of iogpu.wired_limit_mb
    Engines,    \* what the engine may report as the device's memory
    Memories,   \* physical bytes, or Unknown when they could not be read
    Cores,      \* GPU cores, or Unknown
    Floors,     \* values of limits.wired_limit_mb
    Caches,     \* extra_flags, as far as they name a cache type
    Defaults,   \* [ctx, flags] of the registry
    Sweeps,     \* what a throughput run may record: a set of [depth, samples]
    MaxRuns,
    MaxBuilds

VARIABLES
    machine,    \* [engine, wired, memory, cores]
    floor,      \* limits.wired_limit_mb or Unknown
    models,     \* the registry and the files of each model
    commit,     \* the installed engine build
    stored      \* the bench runs of eval/, in the order of their ids

vars == <<machine, floor, models, commit, stored>>

Registered == DOMAIN models
Quants == UNION {Tags(Repos[m]) : m \in DOMAIN Repos}

\* Bounds: a limit and a floor are tried before any run is stored, a floor
\* on one model, and runs are stored for one model under the default limit.
Unmeasured == stored = <<>>
Alone == Cardinality(Registered) < 2
Plain == floor = Unknown /\ Alone /\ machine.wired = 0

\* The machines chekov may find itself on, before an engine is built.
Machines == [engine: {Unknown}, wired: Wireds, memory: Memories, cores: Cores]

Init ==
    /\ machine \in Machines
    /\ floor = Unknown
    /\ models = <<>>
    /\ commit = 0
    /\ stored = <<>>

Installed(files) == {[name |-> f.name, bytes |-> f.true, header |-> f.header, shard |-> f.shard] : f \in files}
OnDisk(m) == IF m \in Registered THEN models[m].files ELSE {}

\* pull: every file of the plan on disk, then a fresh entry in the registry.
\* The directory is named for the model and its revision, so a second quant
\* joins the first one's files; a first shard that is there is a no-op.
Pull(m, tag) ==
    /\ m \in Registered \/ Registered = {} \/ (Unmeasured /\ floor = Unknown)
    /\ CanPlan(Repos[m], tag)
    /\ LET files == PlanFiles(Repos[m], tag)
           first == FirstShard(files)
       IN  /\ first.name \notin {f.name : f \in OnDisk(m)}
           /\ models' = (m :> [ quant |-> DerivedQuant(first), ctx |-> Unknown, extra |-> <<>>,
                                files |-> OnDisk(m) \cup Installed(files), header |-> first.header ]) @@ models
    /\ UNCHANGED <<machine, floor, commit, stored>>

\* The rows of models.toml are edited by hand, and by tune.
Edit(m, ctx, extra) ==
    /\ models' = [models EXCEPT ![m].ctx = ctx, ![m].extra = extra]
    /\ UNCHANGED <<machine, floor, commit, stored>>

\* setup and update build an engine; its device list is then authoritative.
Build(mib) ==
    /\ commit < MaxBuilds
    /\ commit' = commit + 1
    /\ machine' = [machine EXCEPT !.engine = mib]
    /\ UNCHANGED <<floor, models, stored>>

\* sysctl iogpu.wired_limit_mb, outside chekov.
SetWired(mib) ==
    /\ Unmeasured
    /\ machine' = [machine EXCEPT !.wired = mib]
    /\ UNCHANGED <<floor, models, commit, stored>>

\* The root may be an external disk that is plugged into another machine.
MoveTo(memory) == machine' = [machine EXCEPT !.memory = memory] /\ UNCHANGED <<floor, models, commit, stored>>

SetFloor(mib) ==
    /\ Unmeasured /\ Alone
    /\ floor' = mib
    /\ UNCHANGED <<machine, models, commit, stored>>

-----------------------------------------------------------------------------
(* Three views of one model at one context.                                *)

Budget == GpuBudget(machine)
Flags(m) == Defaults.flags \o models[m].extra
CtxOf(m) == IF models[m].ctx = Unknown THEN Defaults.ctx ELSE models[m].ctx
Geometry(m) == ParseGeometry(models[m].header)
KvOf(m, ctx) == IF Geometry(m) = NoHeader THEN Unknown ELSE KvBytes(Geometry(m), ctx, WantsQ8(Flags(m)))

\* Mutant: the gate leaves out the compute buffers.
PredictedTotalBare(m) ==
    LET parts == {WeightsOnDisk(models[m].files), KvOf(m, CtxOf(m))}
    IN  IF Known(parts) THEN WeightsOnDisk(models[m].files) + KvOf(m, CtxOf(m)) ELSE Unknown

\* predicted_total, at the context the model is launched with.
PredictedTotal(m) == Sized(WeightsOnDisk(models[m].files), KvOf(m, CtxOf(m)))

\* wired_gate: unverified without a budget; a floor replaces the footprint.
Gate(m) ==
    IF Budget.mib = Unknown THEN [gate |-> "unverified"]
    ELSE IF floor # Unknown THEN [gate |-> WiredVerdict(floor, Budget.mib, machine.memory)]
    ELSE Decide(PredictedTotal(m), Budget.mib)
\* setup_verdict: a budget that reads, and that reaches the floor if one is set.
SetupCompletes == Budget.mib # Unknown /\ (floor # Unknown => Budget.mib >= floor)

Refuses(m) == Gate(m).gate \in {"exceeds", "low", "unreachable"}

\* candidate_for: the classification comes from the model's own template.
Candidate(m, ctx) ==
    [ name |-> <<"registered", m>>, total |-> Sized(WeightsOnDisk(models[m].files), KvOf(m, ctx)),
      parser |-> IF Geometry(m) = NoHeader THEN Autoparser ELSE Classify(Geometry(m).chat_template) ]

\* discovered: the largest quant whose size is fully known, and the reserve.
Sizes(m) == {o.bytes : o \in QuantOptions(Repos[m])} \ {NoSize}
Discovered(m, ctx) == [name |-> <<"listed", m>>, total |-> Max(Sizes(m)) + KvReserve(ctx), parser |-> Classify(Templates[m])]

Recommended(ctx, role, refresh) ==
    Rank([i \in 1..Cardinality(Registered) |-> Candidate(SetToSeq(Registered)[i], ctx)]
         \o (IF ~refresh THEN <<>>
             ELSE LET listed == {m \in DOMAIN Repos : Sizes(m) # {}}
                  IN  [i \in 1..Cardinality(listed) |-> Discovered(SetToSeq(listed)[i], ctx)]),
         Budget.mib, role)

\* kv_for: the header when it was read, the reserve when it was not, and
\* nothing when it says too little.
Cell(m, ctx) ==
    LET kv == IF Geometry(m) = NoHeader THEN KvReserve(ctx) ELSE KvOf(m, ctx)
    IN  [ total |-> Sized(WeightsOnDisk(models[m].files), kv),
          inputs |-> IF Geometry(m) = NoHeader \/ kv = Unknown THEN "predicted" ELSE "measured" ]

-----------------------------------------------------------------------------
(* Stored runs in the cells they were measured in.                         *)

\* bench, as far as the graph reads it: what the server loaded, and the
\* build and machine it was stamped with.  A crash leaves a run that does
\* not read.
Bench(m) ==
    /\ Plain
    /\ commit > 0
    /\ ~Refuses(m)
    /\ MachineId(machine) # Unknown
    /\ Len(stored) < MaxRuns
    /\ \E sweep \in Sweeps \cup {Unknown} :
          stored' = Append(stored, [ model |-> m, quant |-> models[m].quant, ctx |-> CtxOf(m),
                                     machine |-> MachineId(machine), commit |-> commit, sweep |-> sweep ])
    /\ UNCHANGED <<machine, floor, models, commit>>

\* speed_of: the deepest depth with samples enough.
Reads(i) == stored[i].sweep # Unknown
Summarised(run) == {d \in run.sweep : Summarize(d.samples) # NoSummary}
SpeedOf(run) == Max({d.depth : d \in Summarised(run)})

Matches(i, m, ctx) ==
    /\ Reads(i)
    /\ Summarised(stored[i]) # {}
    /\ stored[i].model = m
    /\ stored[i].quant = models[m].quant
    /\ stored[i].ctx = ctx
    /\ stored[i].machine = MachineId(machine)

Matching(m, ctx) == {i \in DOMAIN stored : Matches(i, m, ctx)}

\* pick: run ids begin with a timestamp, so the latest is the greatest.
Pick(runs) == Max(runs)

\* attach: the run a cell shows, or none.
Shown(m, ctx) == IF MachineId(machine) = Unknown \/ Matching(m, ctx) = {} THEN 0 ELSE Pick(Matching(m, ctx))

ShownRuns == {Shown(m, c) : m \in Registered, c \in Ladder} \ {0}

\* stale_line: builds other than the installed one that some cell is from.
StaleNamed == {stored[i].commit : i \in ShownRuns} \ {commit}

\* Footnotes: runs that do not read, an identity that is incomplete, and a
\* choice among several.
FootNotes ==
    {<<"unread", i>> : i \in {j \in DOMAIN stored : ~Reads(j)}}
    \cup (IF MachineId(machine) = Unknown THEN {<<"identity">>} ELSE {})
    \cup {<<"chosen", m, c>> : <<m, c>> \in
             {q \in Registered \X Ladder : Shown(q[1], q[2]) # 0 /\ Cardinality(Matching(q[1], q[2])) > 1}}

Next ==
    \/ \E m \in DOMAIN Repos, tag \in Quants : Pull(m, tag)
    \/ \E m \in Registered, c \in Ladder, extra \in Caches : Edit(m, c, extra)
    \/ \E mib \in Engines : Build(mib)
    \/ \E mib \in Wireds : SetWired(mib)
    \/ \E memory \in Memories : MoveTo(memory)
    \/ \E mib \in Floors : SetFloor(mib)
    \/ \E m \in Registered : Bench(m)

Spec == Init /\ [][Next]_vars

-----------------------------------------------------------------------------
(* Properties.                                                             *)

\* A model cannot fit in one command's arithmetic and exceed in another's
\* (footprint.rs): with a header that reads, the gate of run at the context
\* it launches with, recommend and the graph's cell at that context give one
\* verdict; without one the gate says it did not check, recommend rejects,
\* and the cell says it is predicted; a floor that setup found met is one that
\* run finds met.  And recommend drops nobody, puts no
\* rejected candidate above a ranked one and no caveat above fewer, and ranks no repository
\* whose every quant the rule of pull's table calls too large for the budget.
ViewsAgree ==
    Budget.mib # Unknown =>
        /\ \A m \in Registered :
              LET c == CtxOf(m)
                  fit == FitFor(Candidate(m, c).total, Budget.mib)
              IN  /\ Cell(m, c).inputs = "measured" => FitFor(Cell(m, c).total, Budget.mib) = fit
                  /\ floor = Unknown => Gate(m).gate = (CASE fit = "fits" -> "proceed" [] fit = "unknown" -> "unverified" [] OTHER -> fit)
                  /\ floor # Unknown => SetupCompletes = ~Refuses(m)
                  /\ Geometry(m) = NoHeader =>
                        fit = "unknown" /\ Rejected(Candidate(m, c), Budget.mib) /\ Cell(m, c).inputs = "predicted"
        /\ \A c \in Ladder, role \in {"agent", "chat"} :
              LET out == Recommended(c, role, TRUE)
                  rejected(i) == Rejected(out[i], Budget.mib)
              IN  /\ {out[i].name : i \in DOMAIN out} =
                        {<<"registered", m>> : m \in Registered} \cup {<<"listed", m>> : m \in {r \in DOMAIN Repos : Sizes(r) # {}}}
                  /\ \A i, j \in DOMAIN out : i < j =>
                        /\ rejected(i) => rejected(j)
                        /\ rejected(i) = rejected(j) =>
                              ~(Notes(out[j], Budget.mib, role) \subseteq Notes(out[i], Budget.mib, role)
                                /\ Notes(out[j], Budget.mib, role) # Notes(out[i], Budget.mib, role))
                  /\ \A i \in DOMAIN out, m \in DOMAIN Repos : out[i].name = <<"listed", m>> /\ ~rejected(i) =>
                        \E o \in QuantOptions(Repos[m]) : TableVerdict(o.bytes, Budget.mib * MiB) \in {"fits", "tight"}

\* The cache a model needs: one entry per attention layer, head and padded
\* position, of two bytes, or of thirty-four for thirty-two.
KvNeeded(g, ctx, q8) ==
    LET every == IF OrZero(g.full_attention_interval) > 0 THEN g.full_attention_interval ELSE 1
        layers == {l \in 1..Positive(g.block_count - OrZero(g.nextn_predict_layers)) : l % every = 0}
        cells == CHOOSE n \in ctx..ctx + PadTo - 1 : n % PadTo = 0
        elems == Cardinality(layers) * g.head_count_kv * cells
                 * (IF g.key_length_mla = Unknown THEN g.key_length + g.value_length ELSE g.key_length)
    IN  IF q8 THEN (elems * 34) \div 32 ELSE 2 * elems

\* When run has checked the footprint and starts, the quant as its repository
\* lists it, the cache at that context and the compute buffers do fit the
\* budget.  Stated where the flags name one cache type, for any name of q8_0
\* counts for both caches and every later one.
VerifiedLaunchesFit ==
    \A m \in Registered :
        LET flags == Flags(m)
            listed == BytesOf(PlanFiles(Repos[m], models[m].quant))
            g == Geometry(m)
        IN  /\ floor = Unknown /\ Gate(m).gate \in {"proceed", "tight"} /\ listed # NoSize
            /\ \A i \in DOMAIN flags : flags[i] = flags[1]
            => listed + KvNeeded(g, CtxOf(m), flags # <<>> /\ flags[1] = "q8_0") + OverheadBytes <= Budget.mib * MiB

\* A rate in a cell was measured there: by a run of that model, in the quant
\* now registered, at that context, on this machine, at the deepest depth it
\* has; no later such run is passed over; a build that is no longer installed
\* is named, and so is every run left out and every choice made.
SpeedsAreTheCells ==
    \A m \in Registered, c \in Ladder :
        LET i == Shown(m, c)
            own(j) == stored[j].model = m /\ stored[j].quant = models[m].quant /\ stored[j].ctx = c
                      /\ Reads(j) /\ \E d \in stored[j].sweep : Len(d.samples) > 1
        IN  /\ i = 0 => \/ <<"identity">> \in FootNotes
                        \/ \A j \in DOMAIN stored : own(j) => stored[j].machine # MachineId(machine)
            /\ i # 0 =>
                  /\ own(i) /\ stored[i].machine = MachineId(machine)
                  /\ \A d \in stored[i].sweep : Len(d.samples) > 1 => d.depth <= SpeedOf(stored[i])
                  /\ stored[i].commit = commit \/ stored[i].commit \in StaleNamed
                  /\ \A j \in DOMAIN stored : own(j) /\ stored[j].machine = stored[i].machine =>
                        j <= i /\ (j < i => <<"chosen", m, c>> \in FootNotes)
            /\ \A j \in DOMAIN stored : ~Reads(j) => <<"unread", j>> \in FootNotes

\* What recommend, graph and run say of a model agrees, and what they call
\* measured was measured.  (Nothing is said of explain, whose totals leave out
\* the overhead, or of what recommend says of models that are not registered.)
FrontierIsTrue == ViewsAgree /\ SpeedsAreTheCells
=============================================================================
