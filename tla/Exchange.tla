------------------------------ MODULE Exchange ------------------------------
(***************************************************************************)
(* One exchange with the model server, from either of the two sides that   *)
(* cross the translator: an agent through the proxy (core/proxy/serve.rs,  *)
(* http.rs) and a bench crossing (core/bench/runner.rs, the doors that     *)
(* commands/capability.rs picks for it).                                   *)
(*                                                                         *)
(* The server answers with one of Answers, whole or in frames that merge   *)
(* any number of its atoms; it may be down, refuse, break off, close       *)
(* early or send an error instead.  An answer is regular: reasoning first, *)
(* at most one <think> span, and it leads, each call in one piece.         *)
(***************************************************************************)
EXTENDS Probes, Streamed

CONSTANTS Asks,      \* what an agent or a bench run may ask for
          Answers,   \* what the model may answer
          Listings,  \* what a server of another kind lists as served, or Absent
          Contexts   \* the context llama-server may say it has loaded

VARIABLES ask,       \* the one exchange's request
          stage,     \* read, route, ready, cross, post, reply, relay or done
          model,     \* the name the model goes by upstream
          posted,    \* the body chekov sent upstream, or Absent
          fate,      \* what became of the server's reply
          answer,    \* the model's answer, or Absent
          sent,      \* how many of its atoms are sent
          frames,    \* what a bench crossing has read
          tr,        \* the translator an agent is streamed through
          status,    \* what the agent was answered, or Absent
          here,      \* the agent still reads
          marks,     \* what the bench's own clock saw of the stream
          timings,   \* what the server measured: all, partial or none
          row        \* the row a bench crossing records, or Absent

vars == <<ask, stage, model, posted, fate, answer, sent, frames, tr, status, here, marks, timings, row>>

Agent == ask.by = "agent"

IsList(s) == s \in Seq(Range(s))

\* A regular answer says why it ends, and only the first token of its text may
\* open a span.
Regular(a) ==
    /\ IsList(a.reasoning) /\ IsList(a.content) /\ IsList(a.calls)
    /\ \A m \in 1..Len(a.calls) : IsList(a.calls[m].args)
    /\ \A i \in 1..Len(a.content) : a.content[i] = ThinkOpen => i = 1
    /\ a.finish # Absent /\ StopReason(a.finish) # Absent

\* The name the configuration gives the model.
Registered == "registered"
Forwarded(req, name) == [to |-> "chat", body |-> ToOpenAiRequest(req, name)]

\* The suites a bench runs, and what a forced case asks to be called.
Suites == {"throughput", "codebase", "fixture", "tool_emit", "grammar_gap", "instruction"}

\* A conversation as an agent sends it: each result in a message answers a call
\* of the message before.
IsContent(content) ==
    IF "plain" \in DOMAIN content THEN IsList(content.plain)
    ELSE /\ IsList(content.blocks)
         /\ \A b \in Range(content.blocks) : b.type = "text" => IsList(b.text)

CallsIn(content) ==
    IF "plain" \in DOMAIN content THEN {}
    ELSE {b.id : b \in {b \in Range(content.blocks) : b.type = "tool_use"}}

Conversation(req) ==
    /\ IsContent(req.system) /\ IsList(req.messages)
    /\ \A i \in 1..Len(req.messages) :
         LET m == req.messages[i]
         IN  /\ m.role \in {"user", "assistant"}
             /\ IsContent(m.content)
             /\ "plain" \notin DOMAIN m.content =>
                  \A b \in Range(m.content.blocks) : b.type = "tool_result" =>
                      IsContent(b.content) /\ i > 1 /\ b.of \in CallsIn(req.messages[i - 1].content)

ASSUME AnswersAssumption == \A a \in Answers : Regular(a)
ASSUME AbsentAssumption ==
    \A a \in Asks : IF a.by = "agent" THEN Forwarded(a.req, Registered) # Absent
                   ELSE a.case.suite = "grammar_gap" => ForcedSchema(a.case) # Absent
ASSUME ConversationsAssumption == \A a \in Asks : a.by = "agent" => Conversation(a.req)
ASSUME CasesAssumption ==
    \A a \in Asks : a.by # "agent" =>
        a.case.suite \in Suites /\ (a.case.suite = "grammar_gap" => IsList(a.case.args))

-----------------------------------------------------------------------------
(* Which door a bench crossing takes: its runtime and its suite decide.    *)

\* TimingClock, agentic_cross, forced_cross, fim_for and cross_fim.
Door ==
    LET foreign == ask.runtime = "foreign"
        suite == ask.case.suite
    IN  CASE suite = "codebase" -> IF foreign THEN "timed" ELSE "infill"
          [] suite = "grammar_gap" -> IF foreign THEN "untimed" ELSE "buffered"
          [] suite \in {"throughput", "fixture"} -> IF foreign THEN "timed" ELSE "buffered"
          [] OTHER -> IF ask.transport = "streamed" THEN (IF foreign THEN "timed" ELSE "streamed")
                      ELSE IF foreign THEN "untimed" ELSE "buffered"

Streaming == IF Agent THEN ask.req.stream ELSE Door \in {"streamed", "timed"}

-----------------------------------------------------------------------------
(* What is sent upstream.                                                  *)

Pins == [temperature |-> 0, top_k |-> 1, seed |-> "seed"]

\* adjust_body: greedy, seeded and, when forced, shaped, with the reasoning apart.
AdjustBody(body, schema) ==
    [to |-> "chat", body |-> [body EXCEPT !.sampling = Pins], response_format |-> schema,
     reasoning_format |-> IF schema = Absent THEN Absent ELSE "deepseek"]

\* n_predict_for
NPredict(lines) == IF lines * 36 > 64 THEN lines * 36 ELSE 64

\* cross_infill and infill_body
InfillBody(case) ==
    [to |-> "infill", prefix |-> case.prefix, suffix |-> case.rest, extra |-> case.extra,
     n_predict |-> NPredict(case.lines), sampling |-> Pins]

\* chat_fim_prompt and cross_fim_chat
ChatFimProbe(case) ==
    AnthropicPost(NPredict(case.lines), <<>>, <<>>,
                  <<"complete">> \o case.extra \o <<"PREFIX">> \o case.prefix \o <<"SUFFIX">> \o case.rest \o <<"MIDDLE">>)

ProbeFor(case) ==
    CASE case.suite = "throughput" -> ThroughputProbe(case)
      [] case.suite = "fixture" -> FixtureProbe(case)
      [] case.suite = "tool_emit" -> ToolProbe(case)
      [] case.suite = "grammar_gap" -> ForcedProbe(case)
      [] case.suite = "instruction" -> InstructionProbe(case)
      [] case.suite = "codebase" -> ChatFimProbe(case)

\* with_stream_flag: the probe as it was, to be streamed where its door streams.
WithStreamFlag(req) == [req EXCEPT !.stream = Streaming]

BenchBody(case) ==
    IF Door = "infill" THEN InfillBody(case)
    ELSE AdjustBody(ToOpenAiRequest(WithStreamFlag(ProbeFor(case)), model),
                    IF case.suite = "grammar_gap" THEN ForcedSchema(case) ELSE Absent)

-----------------------------------------------------------------------------
(* What the server sends.                                                  *)

Atom == [type |-> "data", reasoning |-> <<>>, content |-> <<>>, calls |-> <<>>,
         finish |-> Absent, usage |-> Absent, timings |-> "none"]
ErrorFrame == [Atom EXCEPT !.type = "error"]

\* A call's first fragment names it, the others only go on with its arguments.
CallAtoms(call, slot) ==
    <<[Atom EXCEPT !.calls = <<[slot |-> slot, id |-> call.id, name |-> call.name, args |-> <<>>]>>]>>
    \o [i \in DOMAIN call.args |->
          [Atom EXCEPT !.calls = <<[slot |-> slot, id |-> Absent, name |-> Absent, args |-> <<call.args[i]>>]>>]]

Atoms(a) ==
    [i \in DOMAIN a.reasoning |-> [Atom EXCEPT !.reasoning = <<a.reasoning[i]>>]]
    \o [i \in DOMAIN a.content |-> [Atom EXCEPT !.content = <<a.content[i]>>]]
    \o Flat([i \in DOMAIN a.calls |-> CallAtoms(a.calls[i], i)])
    \o <<[Atom EXCEPT !.finish = a.finish], [Atom EXCEPT !.usage = a.usage]>>

Merge(f, g) ==
    [f EXCEPT !.reasoning = @ \o g.reasoning, !.content = @ \o g.content, !.calls = @ \o g.calls,
              !.finish = IF g.finish = Absent THEN @ ELSE g.finish,
              !.usage = IF g.usage = Absent THEN @ ELSE g.usage]

\* A server of another kind than llama-server reports no timings.
Measures == IF ~Agent /\ ask.runtime = "foreign" THEN {"none"} ELSE {"all", "partial", "none"}

-----------------------------------------------------------------------------
(* What a crossing makes of the reply.                                     *)

Error == [ok |-> FALSE]
Crossed(message, timed) == [ok |-> TRUE, message |-> message, timed |-> timed]

\* Mutant: a count that is not there is a zero.
ReadTimingsZeros(t) == t # "none"

\* read_timings and timings_from: all the numbers or none.
ReadTimings(t) == t = "all"

LastOf(field, none) ==
    LET with == {i \in DOMAIN frames : frames[i][field] # none}
    IN  IF with = {} THEN none ELSE frames[Max(with)][field]

\* timings_from_stream: a window with no decoding in it is not a measure.
TimingsFromStream(usage, zero) ==
    /\ usage # Absent
    /\ usage.prompt > 0
    /\ usage.completion > 1
    /\ marks.reads > 1
    /\ ~zero

\* cross_inner and cross_untimed
CrossBuffered(message, measured) ==
    IF Door = "untimed" THEN Crossed(message, FALSE)
    ELSE IF ReadTimings(measured) THEN Crossed(message, TRUE) ELSE Error

\* cross_streaming and cross_stream_timed
CrossStream(zero) ==
    LET message == Assemble(Finish(Translated(frames)).events)
        timed == IF Door = "timed" THEN frames # <<>> /\ TimingsFromStream(LastOf("usage", Absent), zero)
                 ELSE ReadTimings(LastOf("timings", "none"))
    IN  IF message = Failed \/ ~timed THEN Error ELSE Crossed(message, TRUE)

\* strip_whole_fence and normalize_chat_fill: only a fence around all of it goes.
NormalizeChatFill(reply) ==
    LET trimmed == TrimEnd(reply)
        whole == Len(trimmed) > 1 /\ Head(trimmed) \in Fences /\ Last(trimmed) = Fence
        body == SubSeq(trimmed, 2, Len(trimmed) - 1)
        eol == SelectInSeq(body, LAMBDA t : t = NewLine)
        unfenced == IF ~whole THEN reply ELSE IF eol = 0 THEN <<>> ELSE SubSeq(body, eol + 1, Len(body))
    IN  IF unfenced # <<>> /\ Last(unfenced) = NewLine THEN Front(unfenced) ELSE unfenced

NoRow == [verdict |-> "none", loose |-> "none", measured |-> FALSE, fill |-> <<>>]
Unavailable == [NoRow EXCEPT !.verdict = "unavailable"]

\* chat_text_of: the first text block, reasoning passed over.
ChatRow(message) ==
    LET texts == OfType(message.content, "text")
    IN  IF texts = <<>> THEN Unavailable
        ELSE [NoRow EXCEPT !.verdict = "filled", !.measured = TRUE, !.fill = NormalizeChatFill(texts[1].text)]

GradeMessage(case, message) ==
    CASE case.suite = "throughput" -> Both("measured")
      [] case.suite = "fixture" -> Both(GradeFixture(message, case))
      [] case.suite = "tool_emit" -> Both(GradeToolEmit(message, case))
      [] case.suite = "grammar_gap" -> Both(GradeForced(message, case))
      [] case.suite = "instruction" -> InstructionGrade(case.checks, ArtifactText(message))

\* outcome_row, failed_probe and instruction_row: a crossing that failed is
\* unavailable, with no measure; a failed throughput crossing ends the command.
RowOf(c) ==
    CASE ~c.ok -> IF ask.case.suite = "throughput" THEN NoRow ELSE Unavailable
      [] c.ok /\ ask.case.suite = "codebase" -> ChatRow(c.message)
      [] OTHER -> LET g == GradeMessage(ask.case, c.message)
                  IN  [NoRow EXCEPT !.verdict = g.strict, !.loose = g.loose, !.measured = c.timed]

\* cross_infill: the raw content is the fill.
InfillRow(content, measured) ==
    IF ReadTimings(measured) THEN [NoRow EXCEPT !.verdict = "filled", !.measured = TRUE, !.fill = content]
    ELSE Unavailable

-----------------------------------------------------------------------------
(* The agent's side, up to the server.                                     *)

Init ==
    /\ ask \in Asks
    /\ stage = IF Agent THEN "read" ELSE "ready"
    /\ model = Registered
    /\ posted = Absent /\ fate = "none" /\ answer = Absent /\ sent = 0
    /\ frames = <<>> /\ tr = FreshTranslator /\ status = Absent /\ here = TRUE
    /\ marks = [reads |-> 0, zero |-> FALSE] /\ timings = "none" /\ row = Absent

\* What is written to an agent that has gone is lost.
Answer(code) ==
    /\ status' = IF here THEN code ELSE Absent
    /\ stage' = "done"

MaxHeaders == 100
MaxBody == 64

\* read_request, read_content_length, parse_length and read_line.
Readable(http) ==
    /\ http.line = "whole"
    /\ http.headers < MaxHeaders
    /\ http.declared <= MaxBody
    /\ http.received >= http.declared

ReadRequest ==
    /\ stage = "read"
    /\ IF Readable(ask.http) THEN stage' = "route" /\ UNCHANGED status ELSE Answer(400)
    /\ UNCHANGED <<ask, model, posted, fate, answer, sent, frames, tr, here, marks, timings, row>>

\* ClaudeFacade::route: what is not forwarded is answered here.
LocalStatus ==
    IF ask.path \in {"messages", "count_tokens"} /\ ~ask.json THEN 400
    ELSE IF ask.path \in {"count_tokens", "models"} THEN 200 ELSE 404

Route ==
    /\ stage = "route"
    /\ IF ask.path = "messages" /\ ask.json
       THEN /\ posted' = Forwarded(ask.req, model)
            /\ stage' = "post"
            /\ UNCHANGED status
       ELSE Answer(LocalStatus) /\ UNCHANGED posted
    /\ UNCHANGED <<ask, model, fate, answer, sent, frames, tr, here, marks, timings, row>>

Record(r) == row' = r /\ stage' = "done"

\* foreign_ready and served_model: the name given, or the only one served.
Addressed(listing) ==
    IF listing = Absent THEN Absent
    ELSE IF ask.served # Absent THEN ask.served
    ELSE IF Len(listing) = 1 THEN listing[1] ELSE Absent

\* measure_candidate: a run begins on a server that says it is what the
\* configuration says (foreign_props, read_props, assert_props_ctx).
Ready ==
    /\ stage = "ready"
    /\ IF ask.runtime = "foreign"
       THEN \E listing \in Listings :
              IF Addressed(listing) = Absent THEN Record(NoRow) /\ UNCHANGED model
              ELSE model' = Addressed(listing) /\ stage' = "cross" /\ UNCHANGED row
       ELSE /\ \E context \in Contexts :
                 IF context = ask.ctx THEN stage' = "cross" /\ UNCHANGED row ELSE Record(NoRow)
            /\ UNCHANGED model
    /\ UNCHANGED <<ask, posted, fate, answer, sent, frames, tr, status, here, marks, timings>>

\* post_upstream, with_stream_flag and forward_of.
Cross ==
    /\ stage = "cross"
    /\ posted' = BenchBody(ask.case)
    /\ stage' = "post"
    /\ UNCHANGED <<ask, model, fate, answer, sent, frames, tr, status, here, marks, timings, row>>

ClientLeaves ==
    /\ Agent /\ here /\ stage # "done"
    /\ here' = FALSE
    /\ UNCHANGED <<ask, stage, model, posted, fate, answer, sent, frames, tr, status, marks, timings, row>>

-----------------------------------------------------------------------------
(* The server's answer to the request.                                     *)

\* Bridge::post and post_json: a dead socket, or a status of its own.
Refuse(why) ==
    /\ stage = "post"
    /\ fate' = why
    /\ IF Agent THEN Answer(502) /\ UNCHANGED row
       ELSE /\ Record(IF Door = "infill" /\ why = "no infill" THEN [NoRow EXCEPT !.verdict = "unsupported"]
                      ELSE RowOf(Error))
            /\ UNCHANGED status
    /\ UNCHANGED <<ask, model, posted, answer, sent, frames, tr, here, marks, timings>>

\* A stream's head is written before anything is relayed.
Accept ==
    /\ stage = "post"
    /\ fate' = "answering"
    /\ answer' \in Answers
    /\ IF Agent /\ Streaming
       THEN /\ status' = IF here THEN 200 ELSE Absent
            /\ stage' = IF here THEN "relay" ELSE "done"
       ELSE stage' = (IF Streaming THEN "relay" ELSE "reply") /\ UNCHANGED status
    /\ UNCHANGED <<ask, model, posted, sent, frames, tr, here, marks, timings, row>>

\* forward_once and the buffered doors: the whole body.
WholeReply ==
    /\ stage = "reply"
    /\ fate' = "whole"
    /\ timings' \in Measures
    /\ IF Agent THEN Answer(200) /\ UNCHANGED row
       ELSE /\ Record(IF Door = "infill" THEN InfillRow(answer.content, timings')
                      ELSE RowOf(CrossBuffered(ToAnthropicResponse(answer), timings')))
            /\ UNCHANGED status
    /\ UNCHANGED <<ask, model, posted, answer, sent, frames, tr, here, marks>>

\* A body that cannot be read, or is not all there: the agent is told nothing.
BreakReply ==
    /\ stage = "reply"
    /\ fate' = "broken"
    /\ IF Agent THEN stage' = "done" /\ UNCHANGED row ELSE Record(RowOf(Error))
    /\ UNCHANGED <<ask, model, posted, answer, sent, frames, tr, status, here, marks, timings>>

-----------------------------------------------------------------------------
(* A streamed reply.                                                       *)

\* relay: an agent that has gone is noticed at the next event written.
Relayed(next) ==
    IF ~here /\ next.events # tr.events THEN stage' = "done" /\ UNCHANGED tr
    ELSE tr' = next /\ UNCHANGED stage

\* read_stream_timed: one read may bring several frames.
ReadMarks ==
    IF ~Agent /\ Door = "timed"
    THEN \E reads \in {marks.reads, 2} : marks' = [marks EXCEPT !.reads = IF reads = 0 THEN 1 ELSE reads]
    ELSE UNCHANGED marks

SendFrame ==
    /\ stage = "relay" /\ fate = "answering"
    /\ \E n \in 1..(Len(Atoms(answer)) - sent) :
         LET frame == FoldLeft(Merge, Atom, SubSeq(Atoms(answer), sent + 1, sent + n))
         IN  /\ sent' = sent + n
             /\ \E t \in IF sent' = Len(Atoms(answer)) THEN Measures ELSE {"none"} :
                  /\ timings' = t
                  /\ IF Agent THEN Relayed(OnChunk(tr, frame)) /\ UNCHANGED frames
                     ELSE frames' = Append(frames, [frame EXCEPT !.timings = t]) /\ UNCHANGED <<tr, stage>>
    /\ ReadMarks
    /\ UNCHANGED <<ask, model, posted, fate, answer, status, here, row>>

SendError ==
    /\ stage = "relay" /\ fate = "answering" /\ sent < Len(Atoms(answer))
    /\ fate' = "errored"
    /\ IF Agent THEN Relayed(OnChunk(tr, ErrorFrame)) /\ UNCHANGED frames
       ELSE frames' = Append(frames, ErrorFrame) /\ UNCHANGED <<tr, stage>>
    /\ ReadMarks
    /\ UNCHANGED <<ask, model, posted, answer, sent, status, here, timings, row>>

\* The body ends: all of it, or the server closed early without a word.
EndStream ==
    /\ stage = "relay"
    /\ fate' = IF fate = "errored" THEN fate ELSE IF sent = Len(Atoms(answer)) THEN "whole" ELSE "cut"
    /\ IF Agent THEN /\ tr' = IF here THEN Finish(tr) ELSE tr
                     /\ stage' = "done"
                     /\ UNCHANGED <<row, marks>>
       ELSE \E zero \in IF Door = "timed" THEN BOOLEAN ELSE {FALSE} :
              /\ marks' = [marks EXCEPT !.zero = zero]
              /\ Record(RowOf(CrossStream(zero)))
              /\ UNCHANGED tr
    /\ UNCHANGED <<ask, model, posted, answer, sent, frames, status, here, timings>>

\* Mutant: a stream that broke off is finished like any other.
BreakStreamFinishes ==
    /\ stage = "relay"
    /\ fate' = "broken"
    /\ IF Agent THEN /\ tr' = IF here THEN Finish(tr) ELSE tr
                     /\ stage' = "done"
                     /\ UNCHANGED row
       ELSE Record(RowOf(Error)) /\ UNCHANGED tr
    /\ UNCHANGED <<ask, model, posted, answer, sent, frames, status, here, marks, timings>>

\* The read fails: an agent is sent the error, a crossing has no reply.
BreakStream ==
    /\ stage = "relay"
    /\ fate' = "broken"
    /\ IF Agent THEN /\ tr' = IF here THEN Abort(tr) ELSE tr
                     /\ stage' = "done"
                     /\ UNCHANGED row
       ELSE Record(RowOf(Error)) /\ UNCHANGED tr
    /\ UNCHANGED <<ask, model, posted, answer, sent, frames, status, here, marks, timings>>

Done == stage = "done" /\ UNCHANGED vars

Next ==
    \/ ReadRequest \/ Route \/ Ready \/ Cross \/ ClientLeaves
    \/ \E why \in {"dead", "refused", "no infill"} : Refuse(why)
    \/ Accept \/ WholeReply \/ BreakReply
    \/ SendFrame \/ SendError \/ EndStream \/ BreakStream
    \/ Done

Spec == Init /\ [][Next]_vars

-----------------------------------------------------------------------------
(* Properties.                                                             *)

Held == IF Agent THEN tr.events ELSE Finish(Translated(frames)).events

\* However the server cuts its reply into frames, what the agent or the grader
\* holds at the end is the message the buffered door makes of the same reply.
SameMessage ==
    stage = "done" /\ fate = "whole" /\ Streaming /\ here =>
        Assemble(Held) = ToAnthropicResponse(answer)

Visible == StripThinking(answer.content)
CallsOf(a) == [i \in DOMAIN a.calls |-> [name |-> a.calls[i].name, input |-> ParseArgs(a.calls[i].args)]]

\* What the model's own answer deserves, read off the answer itself.  A fixture
\* probe fails an answer that begins with reasoning of its own.
Deserved ==
    LET case == ask.case
    IN  CASE case.suite = "throughput" -> "measured"
          [] case.suite = "codebase" -> IF Door = "infill" \/ Visible # <<>> THEN "filled" ELSE "unavailable"
          [] case.suite = "fixture" ->
               GradeOf(/\ answer.reasoning = <<>>
                       /\ Solid(Visible) # {}
                       /\ Range(case.contains) \subseteq Range(Visible))
          [] case.suite = "tool_emit" ->
               GradeOf(CallsOf(answer) = IF case.expect = "abstain" THEN <<>>
                                         ELSE <<[name |-> case.name, input |-> case.args]>>)
          [] case.suite = "grammar_gap" -> GradeOf(Trim(Visible) = <<"{", case.name>> \o case.args \o <<"}">>)
          [] case.suite = "instruction" -> InstructionGrade(case.checks, Visible).strict

\* The reply has what the door's clock needs.
Measurable ==
    CASE Door = "untimed" -> TRUE
      [] Door = "timed" -> /\ answer.usage # Absent /\ answer.usage.prompt > 0 /\ answer.usage.completion > 1
                           /\ marks.reads > 1 /\ ~marks.zero
      [] OTHER -> timings = "all"

\* A bench row is the model's only when the reply was whole and could be timed:
\* then it is what the answer deserves by whichever door it came, with a measure
\* of the clock that door has.  A reply that never came whole is unavailable and
\* measures nothing.
VerdictIsTheModels ==
    stage = "done" /\ ~Agent =>
        IF fate = "whole" /\ Measurable
        THEN /\ row.verdict = Deserved
             /\ row.measured <=> (Door # "untimed" /\ row.verdict # "unavailable")
             /\ row.verdict = "filled" =>
                  row.fill = IF Door = "infill" THEN answer.content ELSE NormalizeChatFill(Visible)
        ELSE /\ row.verdict \in {"unavailable", "unsupported", "none"}
             /\ ~row.measured
             /\ row.verdict = "unsupported" => fate = "no infill"

Told(event) == \E i \in DOMAIN tr.events : tr.events[i].event = event

\* An agent that stays is told what happened: a bad request or an unreachable
\* server by its status; of a stream, an end when the body ended and an error,
\* and never an end, when it broke or the server said so.  A whole-body reply
\* that breaks leaves the agent with nothing (serve.rs:95).
ClientIsAnswered ==
    stage = "done" /\ Agent /\ here =>
        CASE ~Readable(ask.http) -> status = 400
          [] Readable(ask.http) /\ posted = Absent -> status = LocalStatus
          [] fate \in {"dead", "refused", "no infill"} -> status = 502
          [] fate \in {"whole", "cut"} ->
               status = 200 /\ (Streaming => Told("message_stop") /\ ~Told("error"))
          [] fate = "errored" \/ (fate = "broken" /\ Streaming) -> Told("error") /\ ~Told("message_stop")
          [] OTHER -> status = Absent

\* A tool result follows the message that holds its call, with nothing but other
\* results in between, and every result the agent gave is sent, once.
ResultsFollowCalls(messages) ==
    \A i \in DOMAIN messages :
        messages[i].role = "tool" =>
            \E j \in 1..(i - 1) :
                /\ \E k \in DOMAIN messages[j].calls : messages[j].calls[k].id = messages[i].of
                /\ \A k \in (j + 1)..(i - 1) : messages[k].role = "tool"

AnsweredIn(messages) ==
    Flat([i \in DOMAIN messages |-> IF messages[i].role = "tool" THEN <<messages[i].of>> ELSE <<>>])

ResultsIn(req) ==
    Flat([i \in DOMAIN req.messages |->
            LET content == req.messages[i].content
            IN  IF "plain" \in DOMAIN content THEN <<>>
                ELSE Flat([j \in DOMAIN content.blocks |->
                             IF content.blocks[j].type = "tool_result" THEN <<content.blocks[j].of>> ELSE <<>>])])

Asked(messages, role) ==
    Flat([i \in DOMAIN messages |->
            IF messages[i].role # role THEN <<>>
            ELSE Flat([j \in DOMAIN messages[i].content |->
                         IF messages[i].content[j].type = "text" THEN messages[i].content[j].text ELSE <<>>])])

Spoken(req, role) ==
    Flat([i \in DOMAIN req.messages |->
            IF req.messages[i].role = role THEN Words(req.messages[i].content) ELSE <<>>])

\* The newlines put between the texts of a system prompt and of results.
Joints(content) ==
    IF "plain" \in DOMAIN content THEN 0
    ELSE LET texts == Worded(content.blocks) IN Total([i \in DOMAIN texts |-> IF i = 1 THEN 0 ELSE 1])
JointsOf(content) ==
    IF "plain" \in DOMAIN content THEN 0
    ELSE Total([j \in DOMAIN content.blocks |->
                  IF content.blocks[j].type = "tool_result" THEN Joints(content.blocks[j].content) ELSE 0])
JointsIn(req) == Joints(req.system) + Total([i \in DOMAIN req.messages |-> JointsOf(req.messages[i].content)])

\* What goes upstream is what was asked: a conversation keeps its words and its
\* tool results, in an order the server accepts, and count_tokens counts all of it
\* but the newlines that are put between the texts of the system prompt or of a
\* result; a bench crossing is greedy and seeded whatever its probe says, shaped
\* only when it is the forced one.
AsksWhatWasAsked ==
    posted # Absent =>
        /\ posted.to = "chat" => (posted.body.stream <=> Streaming)
        /\ ~Agent =>
             /\ posted.to = "infill" <=> (ask.runtime # "foreign" /\ ask.case.suite = "codebase")
             /\ (IF posted.to = "infill" THEN posted.sampling ELSE posted.body.sampling) = Pins
             /\ posted.to = "chat" =>
                  /\ posted.body.model \in IF ask.runtime = "foreign" THEN {Addressed(l) : l \in Listings} \ {Absent}
                                           ELSE {Registered}
                  /\ posted.response_format # Absent <=> ask.case.suite = "grammar_gap"
        /\ Agent =>
             LET sentOn == posted.body.messages
                 chars(role) == Len(Asked(sentOn, role))
                 all == chars("system") + chars("tool") + chars("user") + chars("assistant")
             IN  /\ ResultsFollowCalls(sentOn)
                 /\ AnsweredIn(sentOn) = ResultsIn(ask.req)
                 /\ \A role \in {"user", "assistant"} : Asked(sentOn, role) = Spoken(ask.req, role)
                 /\ CountTokens(ask.req) = (all - JointsIn(ask.req) + 3) \div 4
=============================================================================
