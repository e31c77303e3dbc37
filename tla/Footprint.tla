----------------------------- MODULE Footprint ------------------------------
(***************************************************************************)
(* Which quants a repository offers (core/hub.rs), what a model will       *)
(* occupy and whether this machine can hold it: core/gguf.rs (the header   *)
(* and the KV cache), machine.rs and checks.rs (the budget), footprint.rs  *)
(* and frontier.rs (the verdict), toolparser.rs and recommend.rs (the      *)
(* ranking).                                                               *)
(*                                                                         *)
(* Bytes and MiB are exact integers; a header is a sequence of entries     *)
(* [key, value], a template the set of markers it contains.  A file is     *)
(*                                                                         *)
(*   [dir: its directory or "", dirTag: the tag that is, or NoTag, name,   *)
(*    tag: the one in its name or NoTag, weights: BOOLEAN, shard: its      *)
(*    number or 0, size: the bytes the API lists or NoSize, true: the      *)
(*    bytes it has, header: of a .gguf]                                    *)
(*                                                                         *)
(* and a tag is [of: its letters, upper: BOOLEAN], because a tag matches   *)
(* whatever case its publisher typed and keeps that spelling.              *)
(***************************************************************************)
EXTENDS Integers, FiniteSets, FiniteSetsExt, Sequences, SequencesExt

CONSTANTS
    NoTag,          \* a file or a directory with no quant in its name
    NoSize,         \* a size the API withheld
    Unknown,        \* a number that could not be read
    NoHeader,       \* a file that is no GGUF, or whose header is truncated
    MiB,            \* bytes in a MiB
    OverheadBytes,  \* compute buffers: a flat 3 GiB
    PadTo,          \* llama.cpp pads the context to a multiple of 256
    ReservePerToken \* the coarse KV reserve of a header that was not read

ASSUME SizesAssumption ==
    /\ {MiB, PadTo, ReservePerToken} \subseteq Nat \ {0}
    /\ OverheadBytes \in Nat

-----------------------------------------------------------------------------
(* The files of a repository: what a quant weighs, and which files a pull  *)
(* of one of them fetches.                                                 *)

Limit == 85    \* TIGHT_FRACTION_PCT, of hub and frontier both

\* is_weights: projectors, calibration data and draft models are not.
IsWeights(file) == file.weights /\ file.dir # "MTP"

\* derived_quant: the directory when it is a tag, else what the name says.
DerivedQuant(file) ==
    IF ~IsWeights(file) THEN NoTag ELSE IF file.dirTag # NoTag THEN file.dirTag ELSE file.tag

FilesOf(snapshot, tag) == {f \in snapshot : DerivedQuant(f) = tag}
Tags(snapshot) == {DerivedQuant(f) : f \in snapshot} \ {NoTag}

\* quant_options: a partial sum would understate the download.
BytesOf(files) ==
    IF \E f \in files : f.size = NoSize THEN NoSize ELSE MapThenSumSet(LAMBDA f : f.size, files)
QuantOptions(snapshot) == {[tag |-> t, bytes |-> BytesOf(FilesOf(snapshot, t))] : t \in Tags(snapshot)}

\* verdict_for: the table judges weights alone.
TableVerdict(bytes, limit) ==
    IF NoSize \in {bytes, limit} THEN ""
    ELSE IF bytes > limit THEN "exceeds" ELSE IF bytes * 100 >= limit * Limit THEN "tight" ELSE "fits"

\* select_spelling: an exact match, else the only one that differs in case.
Spellings(snapshot, tag) ==
    IF tag \in Tags(snapshot) THEN {tag} ELSE {t \in Tags(snapshot) : t.of = tag.of}

\* plan_pull: a tag that names one spelling, its files, and what loads first.
CanPlan(snapshot, tag) == Cardinality(Spellings(snapshot, tag)) = 1
PlanFiles(snapshot, tag) == FilesOf(snapshot, CHOOSE t \in Spellings(snapshot, tag) : TRUE)
FirstShard(files) ==
    IF \E f \in files : f.shard = 1 THEN CHOOSE f \in files : f.shard = 1 ELSE CHOOSE f \in files : TRUE

-----------------------------------------------------------------------------
(* The header.                                                             *)

GeometryFields ==
    {"block_count", "nextn_predict_layers", "full_attention_interval", "head_count_kv",
     "key_length", "value_length", "key_length_mla"}
NoGeometry == [f \in GeometryFields \cup {"chat_template"} |-> Unknown]

\* absorb: keys match by their suffix, and the last entry of a key stands.
\* An array counts as its first element.
Scalar(value) == IF DOMAIN value = {"array"} THEN (IF value.array = <<>> THEN Unknown ELSE value.array[1]) ELSE value.u32
Absorb(g, entry) ==
    IF entry.key = "chat_template" THEN [g EXCEPT !.chat_template = entry.value]
    ELSE IF entry.key \in GeometryFields /\ Scalar(entry.value) # Unknown THEN [g EXCEPT ![entry.key] = Scalar(entry.value)]
    ELSE g

ParseGeometry(header) == IF header = NoHeader THEN NoHeader ELSE FoldLeft(Absorb, NoGeometry, header)

Known(values) == Unknown \notin values
OrZero(n) == IF n = Unknown THEN 0 ELSE n
Positive(n) == IF n < 0 THEN 0 ELSE n

\* Mutant: a hybrid model caches every layer but one in the interval.
KvLayersAll(g) == Positive(g.block_count - OrZero(g.nextn_predict_layers)) \div (OrZero(g.full_attention_interval) + 1)

\* kv_layers: without the MTP block, one layer in every interval.
KvLayers(g) ==
    LET layers == Positive(g.block_count - OrZero(g.nextn_predict_layers))
    IN  IF OrZero(g.full_attention_interval) > 0 THEN layers \div g.full_attention_interval ELSE layers

Pad(ctx) == PadTo * ((ctx + PadTo - 1) \div PadTo)

\* kv_bytes: MLA allocates K only; q8_0 is 34 bytes per 32 elements.
KvBytes(g, ctx, q8) ==
    LET mla == g.key_length_mla # Unknown
        widths == g.head_count_kv * (g.key_length + (IF mla THEN 0 ELSE g.value_length))
        elems == KvLayers(g) * widths * Pad(ctx)
    IN  IF ~Known({g.block_count, g.head_count_kv, g.key_length} \cup (IF mla THEN {} ELSE {g.value_length})) THEN Unknown
        ELSE IF q8 THEN (elems * 17) \div 16 ELSE elems * 2

KvReserve(ctx) == (ctx * ReservePerToken * 17) \div 16

-----------------------------------------------------------------------------
(* The parts, the total and the verdict.                                   *)

\* weights_on_disk: the .gguf files one level down; none is absent, not zero.
WeightsOnDisk(files) ==
    LET bytes == MapThenSumSet(LAMBDA f : f.bytes, files)
    IN  IF bytes = 0 THEN Unknown ELSE bytes

WantsQ8(flags) == \E i \in DOMAIN flags : flags[i] = "q8_0"

Sized(weights, kv) == IF Known({weights, kv}) THEN weights + kv + OverheadBytes ELSE Unknown

FitFor(total, budget) ==
    IF total = Unknown THEN "unknown"
    ELSE IF total > budget * MiB THEN "exceeds"
    ELSE IF total * 100 >= budget * MiB * Limit THEN "tight" ELSE "fits"

\* decide: a zero budget is an unreadable one.
Decide(total, budget) ==
    LET fit == FitFor(total, budget)
    IN  IF budget = 0 \/ fit = "unknown" THEN [gate |-> "unverified"]
        ELSE CASE fit = "fits" -> [gate |-> "proceed"]
               [] fit = "tight" -> [gate |-> "tight", pct |-> (total * 100) \div (budget * MiB)]
               [] fit = "exceeds" -> [gate |-> "exceeds", need |-> (total + MiB - 1) \div MiB]

-----------------------------------------------------------------------------
(* The budget, and a floor the configuration may put under it.             *)

\* effective_wired_mb: 0 is the system default, three quarters of memory.
EffectiveWired(raw, memory) == IF raw = 0 THEN ((memory \div 4) * 3) \div MiB ELSE raw

\* gpu_budget: the first rung that answers, and where it came from.
GpuBudget(m) ==
    IF m.engine # Unknown THEN [mib |-> m.engine, from |-> "engine"]
    ELSE IF m.wired \notin {Unknown, 0} THEN [mib |-> m.wired, from |-> "measured"]
    ELSE IF m.memory # Unknown THEN [mib |-> EffectiveWired(0, m.memory), from |-> "predicted"]
    ELSE [mib |-> Unknown, from |-> "unknown"]

\* wired_verdict and floor_gate: unreadable memory never makes it unreachable.
WiredVerdict(required, actual, memory) ==
    IF actual >= required THEN "satisfied"
    ELSE IF memory # Unknown /\ required > memory \div MiB THEN "unreachable" ELSE "low"

\* machine_id: a partial identity is none.
MachineId(m) == IF m.memory = Unknown \/ m.cores = Unknown THEN Unknown ELSE <<m.memory, m.cores>>

-----------------------------------------------------------------------------
(* The ranking.                                                            *)

Autoparser == "autoparser-fallthrough"

\* classify: [parser, needs, bars], in the order llama.cpp tries them.
Cascade == <<
    [p |-> "ministral", needs |-> {"[SYSTEM_PROMPT]", "[TOOL_CALLS]", "[ARGS]"}, bars |-> {"[CALL_ID]"}],
    [p |-> "gpt-oss", needs |-> {"<|channel|>"}, bars |-> {}],
    [p |-> "muse-glimmer", needs |-> {"<atem:function_calls>", "<|eom|>"}, bars |-> {}],
    [p |-> "functionary-v3.2", needs |-> {">>>all", ">>>${recipient}"}, bars |-> {}],
    [p |-> "kimi-k2-thinking", needs |-> {"<|tool_calls_section_begin|>", "<|tool_call_begin|>"}, bars |-> {}],
    [p |-> "kimi-k3", needs |-> {"<|open|>", "<|close|>", "<|end_of_msg|>"}, bars |-> {}],
    [p |-> "cohere2-moe", needs |-> {"<|START_TEXT|>", "<|START_ACTION|>"}, bars |-> {}],
    [p |-> "lfm2.5", needs |-> {"List of tools: ["}, bars |-> {"<|tool_list_start|>"}],
    [p |-> "gigachat-v3", needs |-> {"<|role_sep|>", "<|message_sep|>"}, bars |-> {"<|function_call|>"}],
    [p |-> "minimax-m3", needs |-> {"]<]minimax[>[", "<tool_call>", "<invoke name="}, bars |-> {}],
    [p |-> "deepseek-v3.2", needs |-> {"dsml_token", "DSML", "function_calls"}, bars |-> {}],
    [p |-> "deepseek-v3.2", needs |-> {"dsml_token", "DSML", "tool_calls"}, bars |-> {}],
    [p |-> "minicpm5", needs |-> {"Tool usage guidelines:", "<function name=", "<param name="}, bars |-> {}],
    [p |-> "qwen3-coder-xml", needs |-> {"<tool_call>", "<function=", "<parameter="}, bars |-> {}] >>

Classify(template) ==
    LET arms == {i \in DOMAIN Cascade : Cascade[i].needs \subseteq template /\ Cascade[i].bars \cap template = {}}
    IN  IF template = Unknown \/ arms = {} THEN Autoparser ELSE Cascade[Min(arms)].p

\* judge: a candidate is rejected with its reason, never dropped.
Rejected(candidate, budget) == FitFor(candidate.total, budget) \in {"unknown", "exceeds"}

\* notes_for: the caveats that lower a candidate without excluding it.
Notes(candidate, budget, role) ==
    (IF role = "agent" /\ candidate.parser = Autoparser THEN {"no dedicated tool parser"} ELSE {})
    \cup (IF FitFor(candidate.total, budget) = "tight" THEN {"tight"} ELSE {})

\* sort_key: rejected last, a tool parser before none for agents, comfortable
\* before tight, then the largest.
SortKey(c, budget, role) ==
    << IF Rejected(c, budget) THEN 1 ELSE 0,
       IF role = "agent" /\ c.parser = Autoparser THEN 1 ELSE 0,
       IF FitFor(c.total, budget) = "tight" THEN 1 ELSE 0,
       -OrZero(c.total) >>

KeyBefore(k, l) ==
    \E i \in DOMAIN k : k[i] < l[i] /\ \A j \in 1..i - 1 : k[j] = l[j]

\* rank: the sort is stable.
Rank(candidates, budget, role) ==
    LET key(i) == SortKey(candidates[i], budget, role)
        before(i, j) == KeyBefore(key(i), key(j)) \/ (key(i) = key(j) /\ i < j)
        order == SortSeq([i \in DOMAIN candidates |-> i], before)
    IN  [n \in DOMAIN order |-> candidates[order[n]]]
=============================================================================
