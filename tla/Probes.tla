------------------------------- MODULE Probes -------------------------------
(***************************************************************************)
(* The cases a bench asks (core/bench/probeset.rs, fixture.rs), the        *)
(* request each is sent as (probes.rs), and the grade of the message that  *)
(* comes back (grade.rs).                                                  *)
(*                                                                         *)
(* A case is [suite, id, prompt] and, for a tool case, [expect, name,      *)
(* args, tools], for an instruction case [checks], for a fixture probe     *)
(* [contains, max_tokens].  In a text a fence, a line end and a banned     *)
(* call are tokens.                                                        *)
(***************************************************************************)
EXTENDS Messages

Fence == "fence"
FenceRust == "fence_rust"
Fences == {Fence, FenceRust}
Unwrap == ".unwrap("

-----------------------------------------------------------------------------
(* Texts.                                                                  *)

HasToken(text, tok) == \E i \in DOMAIN text : text[i] = tok
Count(text, toks) == Cardinality({i \in DOMAIN text : text[i] \in toks})

Solid(text) == {i \in DOMAIN text : text[i] # NewLine}
TrimEnd(text) == SubSeq(text, 1, IF Solid(text) = {} THEN 0 ELSE Max(Solid(text)))
Trim(text) == IF Solid(text) = {} THEN <<>> ELSE SubSeq(text, Min(Solid(text)), Max(Solid(text)))

\* A last line without its line end counts, an empty one does not.
LineCount(text) == Count(text, {NewLine}) + (IF text # <<>> /\ Last(text) # NewLine THEN 1 ELSE 0)

\* extract_code: the first fenced block, or all of it.
ExtractCode(raw) ==
    LET open == SelectInSeq(raw, LAMBDA t : t \in Fences)
        after == SubSeq(raw, open + 1, Len(raw))
        eol == SelectInSeq(after, LAMBDA t : t = NewLine)
        body == SubSeq(after, eol + 1, Len(after))
        close == SelectInSeq(body, LAMBDA t : t \in Fences)
    IN  IF open = 0 \/ eol = 0 THEN [code |-> Trim(raw), fenced |-> FALSE]
        ELSE [code |-> TrimEnd(IF close = 0 THEN body ELSE SubSeq(body, 1, close - 1)), fenced |-> TRUE]

-----------------------------------------------------------------------------
(* Instruction checks: what the whole reply and its code say of each.      *)

Both(ok) == [strict |-> ok, loose |-> ok]
CheckNames == {"max_lines", "contains", "not_contains", "fenced_rust_only", "no_unwrap", "brace_balanced"}

\* known_check
KnownCheck(check) == check.name \in CheckNames

\* check_one
CheckOne(check, raw) ==
    LET x == ExtractCode(raw)
        trimmed == Trim(raw)
    IN  CASE check.name = "max_lines" ->
               [strict |-> LineCount(trimmed) <= check.n, loose |-> LineCount(x.code) <= check.n]
          [] check.name = "contains" ->
               [strict |-> HasToken(raw, check.want), loose |-> HasToken(x.code, check.want)]
          [] check.name = "not_contains" ->
               [strict |-> ~HasToken(raw, check.want), loose |-> ~HasToken(x.code, check.want)]
          [] check.name = "fenced_rust_only" ->
               [strict |-> /\ trimmed # <<>> /\ Head(trimmed) = FenceRust
                           /\ Last(trimmed) = Fence /\ Count(trimmed, Fences) = 2,
                loose |-> x.fenced]
          [] check.name = "no_unwrap" -> Both(~HasToken(x.code, Unwrap))
          [] check.name = "brace_balanced" -> Both(Count(x.code, {"{"}) = Count(x.code, {"}"}))

GradeOf(ok) == IF ok THEN "pass" ELSE "fail"

\* grade_instruction, of the text of a reply.
InstructionGrade(checks, raw) ==
    [ strict |-> GradeOf(\A i \in DOMAIN checks : CheckOne(checks[i], raw).strict),
      loose |-> GradeOf(\A i \in DOMAIN checks : CheckOne(checks[i], raw).loose) ]

-----------------------------------------------------------------------------
(* Grading reads the Anthropic message.                                    *)

\* artifact_text: the text blocks, each on lines of its own.
ArtifactText(message) ==
    LET texts == OfType(message.content, "text")
    IN  Flat([i \in DOMAIN texts |-> IF i = 1 THEN texts[i].text ELSE <<NewLine>> \o texts[i].text])

\* grade_call: exactly one call, of that name, with those arguments.
GradeCall(calls, case) ==
    GradeOf(Len(calls) = 1 /\ calls[1].name = case.name /\ calls[1].input = case.args)

\* grade_tool_emit and tool_uses.
GradeToolEmit(message, case) ==
    LET calls == OfType(message.content, "tool_use")
    IN  IF case.expect = "abstain" THEN GradeOf(calls = <<>>) ELSE GradeCall(calls, case)

\* grade_forced: the text is the call, { name arguments }.
ForcedCall(text) ==
    IF IsJson(text) /\ Len(text) > 2
    THEN <<[name |-> text[2], input |-> SubSeq(text, 3, Len(text) - 1)]>> ELSE <<>>
GradeForced(message, case) == GradeCall(ForcedCall(Trim(ArtifactText(message))), case)

\* grade: a fixture probe reads the first block, whatever it is.
GradeFixture(message, case) ==
    LET first == IF message.content = <<>> THEN Thinking(<<>>) ELSE Head(message.content)
    IN  GradeOf(/\ first.type = "text"
                /\ Trim(first.text) # <<>>
                /\ \A i \in DOMAIN case.contains : HasToken(first.text, case.contains[i]))

-----------------------------------------------------------------------------
(* The case sets, refused as a whole when one case is malformed.           *)

\* validate_tool_cases
ValidToolCase(case) ==
    /\ \A i \in DOMAIN case.tools : IsJson(case.tools[i].schema)
    /\ case.expect = "call" =>
         /\ case.name # Absent
         /\ \E i \in DOMAIN case.tools : case.tools[i].name = case.name
         /\ case.args # Absent
         /\ IsJson(case.args)

\* agentic_v0, validate_checks and validate_ids.
SupportedSet == 0
AgenticSet(set) ==
    LET cases == set.tool_emit \o set.instruction
        valid == /\ set.version = SupportedSet
                 /\ \A i \in DOMAIN set.tool_emit : ValidToolCase(set.tool_emit[i])
                 /\ \A i \in DOMAIN set.instruction :
                      \A j \in DOMAIN set.instruction[i].checks : KnownCheck(set.instruction[i].checks[j])
                 /\ \A i, j \in DOMAIN cases : cases[i].id = cases[j].id => i = j
    IN  IF valid THEN Range(cases) ELSE {}

\* fixture::load
SupportedFixture == 1
LoadFixture(file) ==
    IF file.version = SupportedFixture /\ file.probes # <<>> THEN Range(file.probes) ELSE {}

-----------------------------------------------------------------------------
(* Requests, as Claude Code would send them.                               *)

NoSampling == [temperature |-> Absent, top_k |-> Absent, seed |-> Absent]

\* anthropic_post
AnthropicPost(max, system, tools, prompt) ==
    [ system |-> [plain |-> system], messages |-> <<[role |-> "user", content |-> [plain |-> prompt]]>>,
      max_tokens |-> max, sampling |-> NoSampling, tools |-> tools, choice |-> Absent, stream |-> FALSE ]

ToolProbe(case) == AnthropicPost(256, <<>>, case.tools, case.prompt)

\* forced_probe: the palette is shown in the system prompt, not sent as tools.
ForcedProbe(case) ==
    AnthropicPost(256, <<"one of">> \o [i \in DOMAIN case.tools |-> case.tools[i].name], <<>>, case.prompt)

InstructionProbe(case) == AnthropicPost(512, <<>>, <<>>, case.prompt)
FixtureProbe(case) == AnthropicPost(case.max_tokens, <<>>, <<>>, case.prompt)

\* throughput_probe: filler up to the depth.
ThroughputProbe(case) == AnthropicPost(64, [i \in 1..case.depth |-> "lorem"], <<>>, case.prompt)

\* forced_schema: one arm for each tool of the case.
ForcedSchema(case) == {case.tools[i].name : i \in DOMAIN case.tools}
=============================================================================
