------------------------------ MODULE Messages ------------------------------
(***************************************************************************)
(* core/proxy/claude.rs: an Anthropic request as the OpenAI request it is  *)
(* forwarded as, and a whole OpenAI reply as an Anthropic message.         *)
(*                                                                         *)
(* A text is a sequence of tokens, a tag or a fence being one of them.  An *)
(* Anthropic message is [role, content], its content a text or a sequence  *)
(* of blocks; an OpenAI message is [role, content, calls, of], `of` naming *)
(* the call that a tool message answers.                                   *)
(***************************************************************************)
EXTENDS Integers, Sequences, SequencesExt, FiniteSets

CONSTANTS Absent   \* a field that is not there

Text(t) == [type |-> "text", text |-> t]
Thinking(t) == [type |-> "thinking", text |-> t]
ToolUse(id, name, input) == [type |-> "tool_use", id |-> id, name |-> name, input |-> input]

Total(numbers) == FoldLeft(LAMBDA n, k : n + k, 0, numbers)
Flat(seqs) == FoldLeft(LAMBDA all, s : all \o s, <<>>, seqs)
OfType(blocks, type) == Flat([i \in DOMAIN blocks |-> IF blocks[i].type = type THEN <<blocks[i]>> ELSE <<>>])

-----------------------------------------------------------------------------
(* Requests.                                                               *)

\* A content is a text or blocks: its words, one after the other.
Words(content) ==
    IF "plain" \in DOMAIN content THEN content.plain
    ELSE Flat([i \in DOMAIN content.blocks |-> IF content.blocks[i].type = "text" THEN content.blocks[i].text ELSE <<>>])

\* flatten_text: the texts that are not empty, each on a line of its own.
NewLine == "nl"
HasWords(b) == b.type = "text" /\ b.text # <<>>
Worded(blocks) == Flat([i \in DOMAIN blocks |-> IF HasWords(blocks[i]) THEN <<blocks[i]>> ELSE <<>>])
FlattenText(content) ==
    IF "plain" \in DOMAIN content THEN content.plain
    ELSE LET texts == Worded(content.blocks)
         IN  Flat([i \in DOMAIN texts |-> IF i = 1 THEN texts[i].text ELSE <<NewLine>> \o texts[i].text])

OpenAi(role, content) == [role |-> role, content |-> content, calls |-> <<>>, of |-> Absent]

\* tool_result_message: an error mark and an image in a result are lost.
ToolResultMessage(b) == [OpenAi("tool", <<Text(FlattenText(b.content))>>) EXCEPT !.of = b.of]

\* split_blocks: reasoning and images of unknown source are left out.
Sendable(b) == b.type = "text" \/ (b.type = "image" /\ b.source \in {"base64", "url"})
Parts(blocks) == Flat([i \in DOMAIN blocks |-> IF Sendable(blocks[i]) THEN <<blocks[i]>> ELSE <<>>])

\* Mutant: the results follow what the user says beside them.
PushMessageResultsLast(m) ==
    IF "plain" \in DOMAIN m.content THEN <<OpenAi(m.role, <<Text(m.content.plain)>>)>>
    ELSE LET results == OfType(m.content.blocks, "tool_result")
             said == [OpenAi(m.role, Parts(m.content.blocks)) EXCEPT !.calls = OfType(m.content.blocks, "tool_use")]
         IN  (IF said.content = <<>> /\ said.calls = <<>> THEN <<>> ELSE <<said>>)
             \o [i \in DOMAIN results |-> ToolResultMessage(results[i])]

\* push_message: tool results become messages of their own, ahead of the
\* rest, which is sent when there is any.
PushMessage(m) ==
    IF "plain" \in DOMAIN m.content THEN <<OpenAi(m.role, <<Text(m.content.plain)>>)>>
    ELSE LET results == OfType(m.content.blocks, "tool_result")
             said == [OpenAi(m.role, Parts(m.content.blocks)) EXCEPT !.calls = OfType(m.content.blocks, "tool_use")]
         IN  [i \in DOMAIN results |-> ToolResultMessage(results[i])]
             \o (IF said.content = <<>> /\ said.calls = <<>> THEN <<>> ELSE <<said>>)

\* to_openai_messages: the system prompt first, unless it is empty.
ToOpenAiMessages(req) ==
    (IF FlattenText(req.system) = <<>> THEN <<>> ELSE <<OpenAi("system", <<Text(FlattenText(req.system))>>)>>)
    \o Flat([i \in DOMAIN req.messages |-> PushMessage(req.messages[i])])

\* to_openai_tool_choice: whatever is not one of three is left to the model.
ToolChoice(choice) ==
    CASE choice = "any" -> "required" [] choice \in {"none", "tool"} -> choice [] OTHER -> "auto"

DefaultMaxTokens == 4096

\* to_openai_request, copy_sampling and copy_tools.
ToOpenAiRequest(req, model) ==
    [ model |-> model, messages |-> ToOpenAiMessages(req),
      max_tokens |-> IF req.max_tokens = Absent THEN DefaultMaxTokens ELSE req.max_tokens,
      sampling |-> req.sampling, tools |-> req.tools,
      choice |-> IF req.choice = Absent THEN Absent ELSE ToolChoice(req.choice),
      stream |-> req.stream, usage |-> req.stream ]

\* count_tokens_reply: four characters to a token, of what bears a prompt.  What
\* flatten_text puts between two texts is not counted.
CharsIn(content) ==
    IF "plain" \in DOMAIN content THEN Len(content.plain)
    ELSE Total([i \in DOMAIN content.blocks |->
                  LET b == content.blocks[i]
                  IN  IF b.type = "text" THEN Len(b.text) ELSE IF b.type = "tool_result" THEN Len(Words(b.content)) ELSE 0])
CountTokens(req) ==
    (Len(Words(req.system)) + Total([i \in DOMAIN req.messages |-> CharsIn(req.messages[i].content)]) + 3) \div 4

-----------------------------------------------------------------------------
(* Replies: [reasoning, content, calls, finish, usage], each call          *)
(* [id, name, args].  Arguments are a text that is JSON or is not.         *)

ThinkOpen == "<think>"
ThinkClose == "</think>"

\* strip_thinking: nothing at all when the span never closes.
StripThinking(text) ==
    LET open == SelectInSeq(text, LAMBDA t : t = ThinkOpen)
        rest == SubSeq(text, open + 1, Len(text))
        close == SelectInSeq(rest, LAMBDA t : t = ThinkClose)
    IN  CASE open = 0 -> text
          [] open > 0 /\ close = 0 -> <<>>
          [] OTHER -> SubSeq(text, 1, open - 1) \o SubSeq(rest, close + 1, Len(rest))

IsJson(args) == Len(args) > 1 /\ args[1] = "{" /\ Last(args) = "}"
ParseArgs(args) == IF IsJson(args) THEN args ELSE <<"{", "}">>

StopReason(finish) ==
    CASE finish = "length" -> "max_tokens" [] finish = "tool_calls" -> "tool_use"
      [] finish = "stop" -> "end_turn" [] OTHER -> finish

UsageOf(usage) == IF usage = Absent THEN [prompt |-> 0, completion |-> 0] ELSE usage

NonEmpty(block) == IF block.text = <<>> THEN <<>> ELSE <<block>>

\* to_anthropic_response: reasoning, then the answer, then the calls.
ToAnthropicResponse(reply) ==
    [ content |-> NonEmpty(Thinking(reply.reasoning)) \o NonEmpty(Text(StripThinking(reply.content)))
                  \o [i \in DOMAIN reply.calls |-> ToolUse(reply.calls[i].id, reply.calls[i].name, ParseArgs(reply.calls[i].args))],
      stop |-> StopReason(reply.finish), usage |-> UsageOf(reply.usage) ]
=============================================================================
