---------------------------- MODULE LaunchFlags -----------------------------
(***************************************************************************)
(* Launch command lines as sequences of tokens: how chekov rewrites and    *)
(* reads them (core/tune.rs, core/bench/stamp.rs, commands/tune.rs), the   *)
(* values each stage of a tune tries, and how llama-server reads them      *)
(* (external: of a flag given twice, the last one counts).                 *)
(*                                                                         *)
(* A numeric value is a token in the domain of Number; `mtp:<n>` is one in *)
(* the domain of DraftLength.                                              *)
(***************************************************************************)
EXTENDS Naturals, Sequences, FiniteSetsExt, SequencesExt

CONSTANTS
    Number,          \* the tokens that parse as a number, with their values
    DraftLength,     \* the spec drafts mtp:<n>, with the token of n
    NoValue          \* no value

Names ==
    [ FlashAttn |-> <<"-fa", "--flash-attn">>, CacheTypeK |-> <<"-ctk", "--cache-type-k">>,
      CacheTypeV |-> <<"-ctv", "--cache-type-v">>, BatchSize |-> <<"-b", "--batch-size">>,
      UbatchSize |-> <<"-ub", "--ubatch-size">>, SpecType |-> <<"--spec-type">>,
      SpecDraftNMax |-> <<"--spec-draft-n-max">> ]
AppliedFlags ==
    <<"FlashAttn", "CacheTypeK", "CacheTypeV", "BatchSize", "UbatchSize", "SpecType", "SpecDraftNMax">>

Spells(token, flag) == token \in Range(Names[flag])

\* A token that follows a flag, and is not one.
IsValue(token) == token # NoValue /\ \A flag \in DOMAIN Names : ~Spells(token, flag)

\* Where a flag stands: the token behind a flag is its value, whatever it is.
Heads(argv, flag) ==
    LET head[i \in 0..Len(argv)] == i > 0 /\ Spells(argv[i], flag) /\ ~head[i - 1]
    IN  {i \in 1..Len(argv) : head[i]}

\* The first occurrence takes the value, later ones are dropped, and an absent
\* flag is appended under its long spelling.
Rewrite(argv, flag, value) ==
    LET heads == Heads(argv, flag)
        piece(i) == IF heads # {} /\ i = Min(heads) THEN <<argv[i], value>>
                    ELSE IF i \in heads \/ i - 1 \in heads THEN <<>>
                    ELSE <<argv[i]>>
        kept == FlattenSeq([i \in 1..Len(argv) |-> piece(i)])
    IN  IF heads = {} THEN kept \o <<Last(Names[flag]), value>> ELSE kept

Strip(argv, flag) ==
    LET heads == Heads(argv, flag)
    IN  FlattenSeq([i \in 1..Len(argv) |-> IF i \in heads \/ i - 1 \in heads THEN <<>> ELSE <<argv[i]>>])

StripSpec(argv) == Strip(Strip(argv, "SpecType"), "SpecDraftNMax")

ValueOf(argv, flag) ==
    LET at == {i \in DOMAIN argv : Spells(argv[i], flag)}
    IN  IF at = {} \/ Min(at) = Len(argv) THEN NoValue ELSE argv[Min(at) + 1]

\* llama-server: the last occurrence of a flag counts.
EngineValue(argv, flag) ==
    LET heads == {i \in Heads(argv, flag) : i < Len(argv)}
    IN  IF heads = {} THEN NoValue ELSE argv[Max(heads) + 1]

-----------------------------------------------------------------------------
(* The stages.                                                             *)

Order == <<"spec", "fa", "kv", "batch", "ubatch">>
Metric(stage) == IF stage \in {"spec", "fa", "kv"} THEN "decode" ELSE "prefill"
Other(metric) == IF metric = "decode" THEN "prefill" ELSE "decode"

\* stages: in the fixed order, however they were asked for.
StagesOf(requested) ==
    LET piece(stage) == IF stage \in requested THEN <<stage>> ELSE <<>>
    IN  piece("spec") \o piece("fa") \o piece("kv") \o piece("batch") \o piece("ubatch")

IsDraft(value) == value = "off" \/ value \in DOMAIN DraftLength

Parsed(token, otherwise) == IF token \in DOMAIN Number THEN Number[token] ELSE otherwise
EngineDefaultBatch == 2048

\* The tokens that chekov writes itself.
ASSUME TokensAssumption ==
    /\ \A token \in DOMAIN Number : Number[token] \in Nat
    /\ "2048" \in DOMAIN Number /\ Number["2048"] = EngineDefaultBatch
    /\ NoValue \notin DOMAIN Number /\ NoValue # "draft-mtp"
    /\ \A draft \in DOMAIN DraftLength : IsValue(DraftLength[draft])

IncumbentBatch(argv) == Parsed(ValueOf(argv, "BatchSize"), EngineDefaultBatch)

\* values_for: the list of the stage, for ubatch no wider than the batch.
Offers(stage, argv, value) == stage = "ubatch" => Number[value] <= IncumbentBatch(argv)

ApplySpec(argv, value) ==
    IF value \in DOMAIN DraftLength
    THEN Rewrite(Rewrite(argv, "SpecType", "draft-mtp"), "SpecDraftNMax", DraftLength[value])
    ELSE StripSpec(argv)

ApplyValue(stage, argv, value) ==
    CASE stage = "spec"   -> ApplySpec(argv, value)
      [] stage = "fa"     -> Rewrite(argv, "FlashAttn", value)
      [] stage = "kv"     -> Rewrite(Rewrite(argv, "CacheTypeK", value), "CacheTypeV", value)
      [] stage = "batch"  -> Rewrite(argv, "BatchSize", value)
      [] stage = "ubatch" -> Rewrite(argv, "UbatchSize", value)

\* engine_default and incumbent_value: what an absent flag stands for.
EngineDefault == [spec |-> "off", fa |-> "auto", kv |-> "f16", batch |-> "2048", ubatch |-> "512"]
FlagOf == [fa |-> "FlashAttn", kv |-> "CacheTypeK", batch |-> "BatchSize", ubatch |-> "UbatchSize"]

SpecIncumbent(argv) ==
    IF ValueOf(argv, "SpecType") # "draft-mtp" THEN EngineDefault.spec
    ELSE LET length == ValueOf(argv, "SpecDraftNMax")
             drafts == {d \in DOMAIN DraftLength : DraftLength[d] = IF length \in DOMAIN Number THEN length ELSE "3"}
         IN  IF drafts = {} THEN "mtp:?" ELSE CHOOSE d \in drafts : TRUE

IncumbentValue(stage, argv) ==
    IF stage = "spec" THEN SpecIncumbent(argv)
    ELSE LET value == ValueOf(argv, FlagOf[stage]) IN IF value = NoValue THEN EngineDefault[stage] ELSE value

\* A value tried in place of the incumbent's.
Candidate(stage, argv, value) == [stage |-> stage, value |-> value, argv |-> ApplyValue(stage, argv, value)]

\* candidates and planned: the values that are not the incumbent already.
IsCandidate(stage, argv, value) ==
    Offers(stage, argv, value) /\ ApplyValue(stage, argv, value) # argv /\ value # IncumbentValue(stage, argv)

Planned(stage, argv, lists) ==
    FlattenSeq([i \in DOMAIN lists[stage] |->
        IF IsCandidate(stage, argv, lists[stage][i]) THEN <<lists[stage][i]>> ELSE <<>>])

\* counted_against: ubatch is counted under the widest batch that may win.
WidestBatch(argv, lists) ==
    LET current == IncumbentValue("batch", argv)
        widths == {current} \cup Range(lists.batch)
    IN  CHOOSE w \in widths : \A v \in widths : Parsed(v, 0) <= Parsed(w, 0)

CountedAgainst(stage, stages, argv, lists) ==
    IF stage # "ubatch" \/ "batch" \notin Range(stages) THEN argv
    ELSE Rewrite(argv, "BatchSize", WidestBatch(argv, lists))

\* Mutant: every stage is counted against the current flags.
MaxLaunchesNow(stages, gated, argv, lists) ==
    1 + Len(FlattenSeq([i \in DOMAIN stages |->
                IF stages[i] = "spec" /\ gated THEN <<>> ELSE Planned(stages[i], argv, lists)]))

\* max_launches: the baseline, and each candidate of the stages not gated.
MaxLaunches(stages, gated, argv, lists) ==
    1 + Len(FlattenSeq([i \in DOMAIN stages |->
                IF stages[i] = "spec" /\ gated THEN <<>>
                ELSE Planned(stages[i], CountedAgainst(stages[i], stages, argv, lists), lists)]))

\* kv_skip, fa_skip and spec_skip: what llama-server would refuse to load, and
\* what the model, the engine or the user's own flags leave nothing to tune.
KvSkip(c, argv) == c.stage = "kv" /\ c.value = "q8_0" /\ ValueOf(argv, "FlashAttn") = "off"
FaSkip(c, argv) == c.stage = "fa" /\ c.value = "off" /\ ValueOf(argv, "CacheTypeV") \notin {NoValue, "f16", "bf16", "f32"}
SpecSkip(c, argv, gated) ==
    /\ c.stage = "spec"
    /\ \/ gated /\ c.value # "off"
       \/ ValueOf(argv, "SpecType") \notin {NoValue, "draft-mtp"}
Skips(c, argv, gated) == SpecSkip(c, argv, gated) \/ KvSkip(c, argv) \/ FaSkip(c, argv)

-----------------------------------------------------------------------------
(* --apply.                                                                *)

\* The winner's value of a flag that it carries.
CarryOver(argv, flag, winner) ==
    IF ValueOf(winner, flag) = NoValue THEN argv ELSE Rewrite(argv, flag, ValueOf(winner, flag))

CarriedOver(current, winner) ==
    FoldLeft(LAMBDA argv, flag : CarryOver(argv, flag, winner), current, AppliedFlags)

\* Mutant: a winner without a draft keeps the drafts of the current flags.
AppliedKeepsSpec(current, winner) == CarriedOver(current, winner)

\* applied_extra_flags: the winner's value of every tuned flag it carries, and
\* no draft that it does not.
AppliedExtraFlags(current, winner) ==
    LET out == CarriedOver(current, winner)
    IN  IF ValueOf(winner, "SpecType") = NoValue THEN StripSpec(out) ELSE out
=============================================================================
