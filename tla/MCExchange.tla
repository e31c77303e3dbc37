----------------------------- MODULE MCExchange -----------------------------
(***************************************************************************)
(* Every door and every suite against answers of every kind: text, a       *)
(* fenced block, reasoning apart and in the text, a span that never        *)
(* closes, one call, two, a call whose arguments are not JSON, and a       *)
(* constrained call.  Four conversations an agent may send, and requests   *)
(* that are refused.                                                       *)
(***************************************************************************)
EXTENDS Exchange

Schema == <<"{", "}">>
Palette == <<[name |-> "grep", schema |-> Schema], [name |-> "read", schema |-> Schema]>>
Args == <<"{", "x", "}">>

ProbeSet ==
    [ version |-> 0,
      tool_emit |-> <<[suite |-> "tool_emit", id |-> "te-1", prompt |-> <<"find">>, expect |-> "call",
                       name |-> "grep", args |-> Args, tools |-> Palette],
                      [suite |-> "tool_emit", id |-> "te-2", prompt |-> <<"hello">>, expect |-> "abstain",
                       name |-> Absent, args |-> Absent, tools |-> Palette]>>,
      instruction |-> <<[suite |-> "instruction", id |-> "in-1", prompt |-> <<"write">>,
                         checks |-> <<[name |-> "fenced_rust_only"], [name |-> "no_unwrap"],
                                      [name |-> "max_lines", n |-> 3], [name |-> "not_contains", want |-> "hm"]>>],
                        [suite |-> "instruction", id |-> "in-2", prompt |-> <<"say">>,
                         checks |-> <<[name |-> "contains", want |-> "ok"], [name |-> "brace_balanced"]>>]>> ]
Repeated == [ProbeSet EXCEPT !.instruction[2].id = "te-1"]
Unknown == [ProbeSet EXCEPT !.instruction[1].checks[1].name = "polite"]

Fixture == [version |-> 1, probes |-> <<[suite |-> "fixture", id |-> "fx", prompt |-> <<"say">>,
                                         contains |-> <<"ok">>, max_tokens |-> 32]>>]

Agentic == AgenticSet(ProbeSet) \cup AgenticSet(Repeated) \cup AgenticSet(Unknown)
Forced == {[c EXCEPT !.suite = "grammar_gap"] : c \in {c \in Agentic : c.suite = "tool_emit" /\ c.expect = "call"}}
Fill == [suite |-> "codebase", id |-> "cb", prefix |-> <<"fn">>, rest |-> <<"}">>, extra |-> <<>>, lines |-> 2]
Depth == [suite |-> "throughput", id |-> "depth", prompt |-> <<"count">>, depth |-> 2]

Cross1 == {[by |-> "bench", runtime |-> r, transport |-> t, case |-> c, served |-> Absent, ctx |-> 8] :
             r \in {"llama", "foreign"}, t \in {"buffered", "streamed"}, c \in Agentic}
Cross2 == {[by |-> "bench", runtime |-> r, transport |-> "buffered", case |-> c, ctx |-> 8,
            served |-> IF r = "foreign" /\ c.suite = "fixture" THEN "named" ELSE Absent] :
             r \in {"llama", "foreign"}, c \in Forced \cup LoadFixture(Fixture) \cup {Fill, Depth}}

-----------------------------------------------------------------------------
User(blocks) == [role |-> "user", content |-> [blocks |-> blocks]]
Says(role, text) == [role |-> role, content |-> [plain |-> text]]
Result(of) == [type |-> "tool_result", of |-> of, content |-> [blocks |-> <<Text(<<>>), Text(<<of>>), Text(<<"end">>)>>]]
Calling == [role |-> "assistant",
            content |-> [blocks |-> <<Thinking(<<"hm">>), Text(<<"looking">>), ToolUse("a", "grep", Args), ToolUse("b", "read", Args)>>]]

Conversations ==
    { <<Says("user", <<"hello">>)>>,
      <<Says("user", <<"find">>), Calling, User(<<Result("a"), Result("b")>>)>>,
      <<Says("user", <<"find">>), Calling, User(<<Result("b"), Text(<<"and">>), Result("a")>>), Says("assistant", <<"so">>)>>,
      <<User(<<[type |-> "image", source |-> "base64"], Text(<<"this">>)>>), Calling,
        User(<<Result("a"), Result("b"), Text(<<"now">>)>>), Calling, User(<<Result("a"), Result("b")>>)>> }

Request(messages, stream) ==
    [ system |-> [blocks |-> <<Text(<<"be brief">>), Text(<<>>), Text(<<"and", "kind">>)>>],
      messages |-> messages, max_tokens |-> Absent, sampling |-> NoSampling,
      tools |-> Palette, choice |-> "any", stream |-> stream ]

Whole == [line |-> "whole", headers |-> 3, declared |-> 2, received |-> 2]
From(http, path, json, messages, stream) ==
    [by |-> "agent", http |-> http, path |-> path, json |-> json, req |-> Request(messages, stream)]
Hello == <<Says("user", <<"hello">>)>>

AgentAsks ==
    {From(Whole, "messages", TRUE, m, s) : m \in Conversations, s \in BOOLEAN}
    \cup {From(Whole, p, j, Hello, FALSE) : p \in {"messages", "count_tokens", "models", "other"}, j \in BOOLEAN}
    \cup {From(h, "messages", TRUE, Hello, TRUE) :
            h \in {[Whole EXCEPT !.line = "cut"], [Whole EXCEPT !.headers = MaxHeaders - 1],
                   [Whole EXCEPT !.headers = MaxHeaders], [Whole EXCEPT !.declared = MaxBody + 1, !.received = MaxBody + 1],
                   [Whole EXCEPT !.received = 1]}}

MCAsks == Cross1 \cup Cross2 \cup AgentAsks

-----------------------------------------------------------------------------
Reply(reasoning, content, calls, finish, completion) ==
    [ reasoning |-> reasoning, content |-> content, calls |-> calls, finish |-> finish,
      usage |-> [prompt |-> 4, completion |-> completion] ]
Call(id, name, args) == [id |-> id, name |-> name, args |-> args]

MCListings == {Absent, <<>>, <<"only">>, <<"one", "two">>}

MCAnswers ==
    { Reply(<<>>, <<"ok">>, <<>>, "stop", 2),
      Reply(<<>>, <<FenceRust, NewLine, "ok", NewLine, Fence>>, <<>>, "stop", 5),
      Reply(<<"hm">>, <<"ok", "{">>, <<>>, "stop", 3),
      Reply(<<>>, <<ThinkOpen, "hm", ThinkClose, "ok">>, <<>>, "stop", 4),
      Reply(<<>>, <<ThinkOpen, "hm", "ok">>, <<>>, "length", 3),
      Reply(<<>>, <<>>, <<Call("c", "grep", Args)>>, "tool_calls", 3),
      Reply(<<"hm">>, <<"ok">>, <<Call("c", "grep", <<"{", "x">>)>>, "tool_calls", 4),
      Reply(<<>>, <<>>, <<Call("c", "grep", Args), Call("d", "read", <<>>)>>, "tool_calls", 4),
      Reply(<<>>, <<"{", "grep">> \o Args \o <<"}">>, <<>>, "stop", 6),
      Reply(<<>>, <<NewLine, Unwrap, NewLine>>, <<>>, "stop", 3),
      [Reply(<<>>, <<>>, <<>>, "stop", 0) EXCEPT !.usage = Absent] }
=============================================================================
