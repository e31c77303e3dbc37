------------------------------ MODULE Streamed ------------------------------
(***************************************************************************)
(* A streamed reply by its content: what ClaudeStream makes of the frames  *)
(* (core/proxy/claude/stream.rs; the module ClaudeStream has the events    *)
(* one by one), and what the agent holds when it has folded the events     *)
(* back into a message (assemble, core/bench/runner.rs).                   *)
(*                                                                         *)
(* A frame is [type: "data", "error", "done" or "junk", reasoning, content *)
(* and calls of its delta, finish, usage, timings], and a fragment of a    *)
(* call [slot, id, name, args].                                            *)
(***************************************************************************)
EXTENDS Messages

NoBlock == <<"none">>

\* ClaudeStream::new
FreshTranslator ==
    [ started |-> FALSE, open |-> NoBlock, next |-> 0, index |-> 0, pending |-> <<>>,
      stop |-> Absent, usage |-> UsageOf(Absent), finished |-> FALSE, events |-> <<>> ]

Emit(t, event) == [t EXCEPT !.events = Append(@, event)]
Start(t) == IF t.started THEN t ELSE [Emit(t, [event |-> "message_start"]) EXCEPT !.started = TRUE]
CloseBlock(t) ==
    IF t.open = NoBlock THEN t
    ELSE [Emit(t, [event |-> "content_block_stop", index |-> t.index]) EXCEPT !.open = NoBlock]

EnsureOpen(t, want, block) ==
    IF t.open = want THEN t
    ELSE LET c == CloseBlock(t)
         IN  [Emit(c, [event |-> "content_block_start", index |-> c.next, block |-> block])
                EXCEPT !.index = c.next, !.next = c.next + 1, !.open = want]

Delta(t, kind, text) == Emit(t, [event |-> "content_block_delta", index |-> t.index, kind |-> kind, text |-> text])

EmitText(t, text) == Delta(EnsureOpen(t, <<"text">>, Text(<<>>)), "text", text)
EmitIfAny(t, text) == IF text = <<>> THEN t ELSE EmitText(t, text)

\* on_text and emit_after_thinking: an open span is held back.
OnText(t, text) ==
    LET buf == t.pending \o text
        taken == [t EXCEPT !.pending = <<>>]
        open == SelectInSeq(buf, LAMBDA k : k = ThinkOpen)
        rest == SubSeq(buf, open + 1, Len(buf))
        close == SelectInSeq(rest, LAMBDA k : k = ThinkClose)
    IN  CASE open = 0 -> EmitText(taken, buf)
          [] open > 0 /\ close = 0 -> [t EXCEPT !.pending = buf]
          [] OTHER -> EmitIfAny(EmitIfAny(taken, SubSeq(buf, 1, open - 1)), SubSeq(rest, close + 1, Len(rest)))

OnThinking(t, text) == Delta(EnsureOpen(t, <<"thinking">>, Thinking(<<>>)), "thinking", text)

\* on_tool_calls: a block of its own for each slot, named by its first fragment.
OnToolCall(t, call) ==
    LET o == EnsureOpen(t, <<"tool", call.slot>>, ToolUse(call.id, call.name, <<"{", "}">>))
    IN  IF call.args = <<>> THEN o ELSE Delta(o, "input", call.args)

\* abort and on_upstream_error
Abort(t) == [Emit(CloseBlock(Start(t)), [event |-> "error"]) EXCEPT !.finished = TRUE]

AbsorbTerminal(t, f) ==
    [t EXCEPT !.stop = IF f.finish = Absent THEN @ ELSE StopReason(f.finish),
              !.usage = IF f.usage = Absent THEN @ ELSE f.usage]

OnChunk(t, f) ==
    LET s1 == AbsorbTerminal(Start(t), f)
        s2 == IF f.reasoning = <<>> THEN s1 ELSE OnThinking(s1, f.reasoning)
        s3 == IF f.content = <<>> THEN s2 ELSE OnText(s2, f.content)
    IN  CASE f.type \in {"done", "junk"} -> t
          [] f.type = "error" -> Abort(t)
          [] OTHER -> FoldLeft(OnToolCall, s3, f.calls)

\* finish: what is held back is dropped, and no reason is a clean end.
Finish(t) ==
    LET c == CloseBlock(Start(t))
        stop == IF c.stop = Absent THEN "end_turn" ELSE c.stop
    IN  IF t.finished THEN t
        ELSE [Emit(Emit(c, [event |-> "message_delta", stop |-> stop, usage |-> c.usage]), [event |-> "message_stop"])
                EXCEPT !.finished = TRUE]

Translated(frames) == FoldLeft(OnChunk, FreshTranslator, frames)

-----------------------------------------------------------------------------
(* assemble: the message an SDK client holds after message_stop.           *)

Failed == [failed |-> TRUE]
FreshAssembly == [content |-> <<>>, partial |-> <<>>, stop |-> Absent, usage |-> UsageOf(Absent), failed |-> FALSE]

Resized(s, n, fill) == [i \in 1..n |-> IF i <= Len(s) THEN s[i] ELSE fill]

\* Assembly::open, delta, close and terminal.
AssembleOpen(a, e) ==
    [a EXCEPT !.content = [Resized(@, e.index + 1, Text(<<>>)) EXCEPT ![e.index + 1] = e.block],
              !.partial = Resized(@, e.index + 1, <<>>)]

\* Mutant: a delta replaces what came before it.
AssembleDeltaReplaces(a, e) ==
    LET at == e.index + 1
    IN  IF at \notin DOMAIN a.content THEN a
        ELSE IF e.kind = "input" THEN [a EXCEPT !.partial[at] = e.text]
        ELSE [a EXCEPT !.content[at].text = e.text]

AssembleDelta(a, e) ==
    LET at == e.index + 1
    IN  IF at \notin DOMAIN a.content THEN a
        ELSE IF e.kind = "input" THEN [a EXCEPT !.partial[at] = @ \o e.text]
        ELSE [a EXCEPT !.content[at].text = @ \o e.text]

AssembleClose(a, e) ==
    LET at == e.index + 1
    IN  IF at \in DOMAIN a.content /\ a.content[at].type = "tool_use"
        THEN [a EXCEPT !.content[at].input = ParseArgs(a.partial[at])] ELSE a

AssembleStep(a, e) ==
    IF a.failed THEN a ELSE
    CASE e.event = "content_block_start" -> AssembleOpen(a, e)
      [] e.event = "content_block_delta" -> AssembleDelta(a, e)
      [] e.event = "content_block_stop" -> AssembleClose(a, e)
      [] e.event = "message_delta" -> [a EXCEPT !.stop = e.stop, !.usage = e.usage]
      [] e.event = "error" -> [a EXCEPT !.failed = TRUE]
      [] OTHER -> a

\* An error event is a turn that was never answered.
Assemble(events) ==
    LET a == FoldLeft(AssembleStep, FreshAssembly, events)
    IN  IF a.failed THEN Failed ELSE [content |-> a.content, stop |-> a.stop, usage |-> a.usage]
=============================================================================
