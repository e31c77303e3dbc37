---------------------------- MODULE ClaudeStream ----------------------------
(***************************************************************************)
(* One streamed reply on its way through the proxy: stream_upstream reads  *)
(* the upstream server's SSE frames, ClaudeStream translates each of them  *)
(* into a batch of Anthropic events, and the batch is written to the       *)
(* client one event at a time.                                             *)
(*                                                                         *)
(* A frame can fail upstream (an `error` object), the upstream connection  *)
(* can break, and the client can go away between any two events.           *)
(*                                                                         *)
(* Text is a sequence of tokens.  The tags <think> and </think> are two    *)
(* tokens each, so that a frame boundary can fall inside one: `split`      *)
(* records that it fell inside an opening tag.  At most                    *)
(* MaxCalls tool-call fragments arrive in one frame.                       *)
(***************************************************************************)
EXTENDS Naturals, Sequences

CONSTANTS
    Slots,        \* the upstream's tool_calls[].index values
    Frames,       \* the frames the upstream may send
    MaxFrames,    \* the bound on the frames of a reply
    AfterError    \* whether the upstream goes on after an `error` frame

Tokens == {"text", "<thi", "nk>", "</thi", "nk/>"}
ThinkOpen == <<"<thi", "nk>">>
ThinkClose == <<"</thi", "nk/>">>

NoKind == "none"
Kinds == {"text", "thinking"} \cup Slots

\* A tool-call fragment: its slot, and whether it brings arguments.
Calls == [slot : Slots, args : BOOLEAN]
MaxCalls == 2

\* A "skip" frame is [DONE] or does not parse; an "error" frame holds an
\* `error` object; "data" frames may carry any of the three kinds of delta.
FrameType == [type : {"skip", "error", "data"}, thinking : BOOLEAN,
              content : Seq(Tokens), calls : UNION {[1..n -> Calls] : n \in 0..MaxCalls}]

ASSUME SlotsAssumption == Slots \cap {"none", "text", "thinking"} = {}
ASSUME FramesAssumption == Frames \subseteq FrameType
ASSUME BoundsAssumption == MaxFrames \in Nat /\ AfterError \in BOOLEAN

VARIABLES
    tr,           \* the translator (struct ClaudeStream)
    queue,        \* the events of the current batch that are not yet written
    relay,        \* where stream_upstream is
    wire,         \* what the client has received
    frames,       \* history: how many frames have come
    content,      \* history: all the text the upstream has sent
    split,        \* history: an opening tag has come in two frames
    failed        \* history: an `error` frame has come, or the connection broke

vars == <<tr, queue, relay, wire, frames, content, split, failed>>

EventTypes == {"none", "message_start", "content_block_start", "content_block_delta",
               "content_block_stop", "message_delta", "message_stop", "error"}

Events == [type : EventTypes, index : Nat, kind : Kinds \cup {NoKind}, text : Seq(Tokens)]

Event(type) == [type |-> type, index |-> 0, kind |-> NoKind, text |-> <<>>]

Translators == [started : BOOLEAN, open : Kinds \cup {NoKind}, next_index : Nat,
                index : Nat, think_pending : Seq(Tokens), finished : BOOLEAN]

Wires == [phase : {"idle", "message", "closing", "stopped", "failed"},
          open : Kinds \cup {NoKind}, next : Nat,
          last : [type : EventTypes, index : Nat, kind : Kinds \cup {NoKind}],
          text : Seq(Tokens)]

RelaySteps == {"reading", "failing", "finishing", "done", "gone"}

TypeOK ==
    /\ tr \in Translators
    /\ queue \in Seq(Events)
    /\ relay \in RelaySteps
    /\ wire \in Wires
    /\ frames \in 0..MaxFrames
    /\ content \in Seq(Tokens)
    /\ split \in BOOLEAN
    /\ failed \in BOOLEAN

Init ==
    /\ tr = [started |-> FALSE, open |-> NoKind, next_index |-> 0, index |-> 0,
             think_pending |-> <<>>, finished |-> FALSE]
    /\ queue = <<>>
    /\ relay = "reading"
    /\ wire = [phase |-> "idle", open |-> NoKind, next |-> 0,
               last |-> [type |-> "none", index |-> 0, kind |-> NoKind], text |-> <<>>]
    /\ frames = 0
    /\ content = <<>>
    /\ split = FALSE
    /\ failed = FALSE

-----------------------------------------------------------------------------
(* The translator.  Each operator maps a translator `t` and the batch `out` *)
(* gathered so far to the translator and the batch after it.               *)

Step(t, out) == [t |-> t, out |-> out]

Start(s) ==
    IF s.t.started THEN s
    ELSE Step([s.t EXCEPT !.started = TRUE], Append(s.out, Event("message_start")))

CloseBlock(s) ==
    IF s.t.open = NoKind THEN s
    ELSE Step([s.t EXCEPT !.open = NoKind],
              Append(s.out, [Event("content_block_stop") EXCEPT !.index = s.t.index]))

\* Mutant: the open block is not closed.
EnsureOpenNested(s, want) ==
    IF s.t.open = want THEN s
    ELSE Step([s.t EXCEPT !.index = s.t.next_index, !.next_index = @ + 1, !.open = want],
              Append(s.out, [Event("content_block_start") EXCEPT
                                 !.index = s.t.next_index, !.kind = want]))

EnsureOpen(s, want) ==
    IF s.t.open = want THEN s
    ELSE LET c == CloseBlock(s)
         IN Step([c.t EXCEPT !.index = c.t.next_index, !.next_index = c.t.next_index + 1, !.open = want],
                 Append(c.out, [Event("content_block_start") EXCEPT
                                    !.index = c.t.next_index, !.kind = want]))

\* One delta inside the open block.
Delta(s, kind, text) ==
    Step(s.t, Append(s.out, [Event("content_block_delta") EXCEPT
                                !.index = s.t.index, !.kind = kind, !.text = text]))

EmitText(s, text) == Delta(EnsureOpen(s, "text"), "text", text)

OnThinking(s) == Delta(EnsureOpen(s, "thinking"), "thinking", <<>>)

OnToolCall(s, call) ==
    LET o == EnsureOpen(s, call.slot)
    IN IF call.args THEN Delta(o, call.slot, <<>>) ELSE o

OnToolCalls(s, calls) ==
    CASE Len(calls) = 0 -> s
      [] Len(calls) = 1 -> OnToolCall(s, calls[1])
      [] OTHER          -> OnToolCall(OnToolCall(s, calls[1]), calls[2])

\* str::find: the first place of a tag, or 0.
Find(text, tag) ==
    LET hits == {i \in 1..Len(text) : i < Len(text) /\ <<text[i], text[i + 1]>> = tag}
    IN IF hits = {} THEN 0 ELSE CHOOSE i \in hits : \A j \in hits : i <= j

From(text, i) == SubSeq(text, i, Len(text))
Before(text, i) == SubSeq(text, 1, i - 1)

\* The first </think> after the <think> at `open`, or 0.
FindClose(text, open) ==
    LET close == Find(From(text, open), ThinkClose)
    IN IF close = 0 THEN 0 ELSE open + close - 1

\* Mutant: the text before a thinking span is dropped with it.
EmitRestOnly(s, pre, rest) == IF rest = <<>> THEN s ELSE EmitText(s, rest)

EmitAfterThinking(s, pre, rest) ==
    LET p == IF pre = <<>> THEN s ELSE EmitText(s, pre)
    IN IF rest = <<>> THEN p ELSE EmitText(p, rest)

\* Text is held back from an opening tag until its closing tag has come.
OnText(s, text) ==
    LET buf   == s.t.think_pending \o text
        taken == [s EXCEPT !.t.think_pending = <<>>]
        open  == Find(buf, ThinkOpen)
        close == FindClose(buf, open)
    IN CASE open = 0  -> EmitText(taken, buf)
         [] open > 0 /\ close = 0 -> [s EXCEPT !.t.think_pending = buf]
         [] OTHER -> EmitAfterThinking(taken, Before(buf, open), From(buf, close + 2))

\* Mutant: an abort does not finish the stream.
AbortUnfinished(s) == Step(CloseBlock(Start(s)).t, Append(CloseBlock(Start(s)).out, Event("error")))

Abort(s) ==
    LET c == CloseBlock(Start(s))
    IN Step([c.t EXCEPT !.finished = TRUE], Append(c.out, Event("error")))

\* An `error` frame aborts; any other frame is translated, whatever came
\* before it.
OnChunk(t, f) ==
    LET s0 == Step(t, <<>>)
        s1 == IF f.thinking THEN OnThinking(Start(s0)) ELSE Start(s0)
        s2 == IF f.content = <<>> THEN s1 ELSE OnText(s1, f.content)
    IN CASE f.type = "skip"  -> s0
         [] f.type = "error" -> Abort(s0)
         [] OTHER            -> OnToolCalls(s2, f.calls)

Finish(t) ==
    IF t.finished THEN Step(t, <<>>)
    ELSE LET c == CloseBlock(Start(Step(t, <<>>)))
         IN Step([c.t EXCEPT !.finished = TRUE],
                 Append(Append(c.out, Event("message_delta")), Event("message_stop")))

-----------------------------------------------------------------------------
(* stream_upstream and relay.                                              *)

\* The next upstream line is read once the last batch is written.
Reading == relay = "reading" /\ queue = <<>>

Batch(s) == tr' = s.t /\ queue' = s.out

\* An opening tag ends one text and begins the next.
Splits(before, text) ==
    before # <<>> /\ text # <<>> /\ <<before[Len(before)], text[1]>> = ThinkOpen

Chunk(f) ==
    /\ Reading
    /\ frames < MaxFrames
    /\ failed => AfterError
    /\ Batch(OnChunk(tr, f))
    /\ frames' = frames + 1
    /\ content' = IF f.type = "data" THEN content \o f.content ELSE content
    /\ split' = (split \/ (f.type = "data" /\ Splits(content, f.content)))
    /\ failed' = (failed \/ f.type = "error")
    /\ UNCHANGED <<relay, wire>>

\* The upstream ends its reply.
Eof ==
    /\ Reading
    /\ Batch(Finish(tr))
    /\ relay' = "finishing"
    /\ UNCHANGED <<wire, frames, content, split, failed>>

\* The upstream connection breaks.
ReadError ==
    /\ Reading
    /\ failed => AfterError
    /\ Batch(Abort(Step(tr, <<>>)))
    /\ relay' = "failing"
    /\ failed' = TRUE
    /\ UNCHANGED <<wire, frames, content, split>>

\* What an event changes in a client that takes every event at its word.
Receive(w, e) ==
    [phase |-> CASE e.type = "message_start" -> "message"
                 [] e.type = "message_delta" -> "closing"
                 [] e.type = "message_stop"  -> "stopped"
                 [] e.type = "error"         -> "failed"
                 [] OTHER                    -> w.phase,
     open |-> CASE e.type = "content_block_start" -> e.kind
                [] e.type = "content_block_stop"  -> NoKind
                [] OTHER                          -> w.open,
     next |-> IF e.type = "content_block_start" THEN w.next + 1 ELSE w.next,
     last |-> [type |-> e.type, index |-> e.index, kind |-> e.kind],
     text |-> IF e.kind = "text" THEN w.text \o e.text ELSE w.text]

Write ==
    /\ queue # <<>>
    /\ wire' = Receive(wire, Head(queue))
    /\ queue' = Tail(queue)
    /\ UNCHANGED <<tr, relay, frames, content, split, failed>>

\* A failed write ends the relay like a failed read, and the events of that
\* are written to the same closed socket: the rest is lost.
ClientGone ==
    /\ queue # <<>>
    /\ tr' = IF relay = "reading" THEN Abort(Step(tr, <<>>)).t ELSE tr
    /\ queue' = <<>>
    /\ relay' = "gone"
    /\ UNCHANGED <<wire, frames, content, split, failed>>

\* Mutant: a broken connection does not end the relay.
DoneFinishingOnly ==
    /\ relay = "finishing" /\ queue = <<>>
    /\ relay' = "done"
    /\ UNCHANGED <<tr, queue, wire, frames, content, split, failed>>

Done ==
    /\ relay \in {"failing", "finishing"} /\ queue = <<>>
    /\ relay' = "done"
    /\ UNCHANGED <<tr, queue, wire, frames, content, split, failed>>

Next ==
    \/ \E f \in Frames : Chunk(f)
    \/ Eof \/ ReadError \/ Write \/ ClientGone \/ Done

Spec == Init /\ [][Next]_vars

\* The handler's thread keeps running, and every upstream reply ends.
FairSpec == Spec /\ WF_vars(Write) /\ WF_vars(Done) /\ WF_vars(Eof)

-----------------------------------------------------------------------------
(* What the client can rely on.                                            *)

Promise == INSTANCE AnthropicStream
               WITH phase <- wire.phase, open <- wire.open, next <- wire.next, last <- wire.last

\* The events reach the client in Anthropic's grammar, each block closed
\* before the next begins and the numbers in step (ClaudeStream's module
\* comment: "Claude Code parses this strictly").
WellFormed == Promise!Spec

\* A client that is still there when the proxy is through has a closed
\* envelope: no open block, and an end or an error (finish, on_upstream_error).
EnvelopeClosed ==
    relay = "done" => wire.open = NoKind /\ wire.phase \in {"stopped", "failed"}

\* A turn that failed upstream is never reported as a clean end (abort).
CleanEndIsTrue == wire.phase \in {"closing", "stopped"} => ~failed

\* A reply ends properly, and truly.
EndsProperly == EnvelopeClosed /\ CleanEndIsTrue

\* strip_thinking, the other translation path's reading of the whole reply.
Stripped(text) ==
    LET open  == Find(text, ThinkOpen)
        close == FindClose(text, open)
    IN CASE open = 0  -> text
         [] open > 0 /\ close = 0 -> <<>>
         [] OTHER -> Before(text, open) \o From(text, close + 2)

\* The reply has one thinking span, and it is closed.
OneSpan(text) ==
    LET open  == Find(text, ThinkOpen)
        close == FindClose(text, open)
    IN open > 0 /\ close > 0 /\ Find(From(text, close + 2), ThinkOpen) = 0

\* A reply with one closed thinking span reads the same streamed and
\* unstreamed (strip_thinking: "Shared with the streaming translator so a
\* client sees the same text either way").
SameText == wire.phase = "stopped" /\ OneSpan(content) => wire.text = Stripped(content)

\* No reasoning is ever shown as text: nothing of an open span has been sent.
NoReasoningShown ==
    LET open  == Find(content, ThinkOpen)
    IN open > 0 /\ FindClose(content, open) = 0 => Len(wire.text) < open

\* A client reads the same text from either path, and no reasoning in it,
\* wherever the frames are cut but inside an opening tag.  on_text looks for
\* whole opening tags, so a cut one shows the client the tag and the reasoning
\* behind it: of such a reply nothing is claimed.
TextIsFaithful == ~split => SameText /\ NoReasoningShown

\* Every reply comes to an end, at the client or without it.
ReplyEnds == <>(relay \in {"done", "gone"})

=============================================================================
