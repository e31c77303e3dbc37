------------------------------ MODULE MCClients ------------------------------
(***************************************************************************)
(* Two launches and the commands around them, on small files.              *)
(***************************************************************************)
EXTENDS Clients

CONSTANTS s1, s2, Cloud, Pinned

TwoSessions == {s1, s2}
Alike == Permutations(TwoSessions)
TwoCommits == 1..2

\* a plugin that moved: the old directory and the new one declare one name
OnePlugin == [old |-> "reviews", new |-> "reviews"]

Marketplace(dir) == [local |-> [kind |-> "directory", path |-> dir], hub |-> [kind |-> "git", path |-> NoFile]]
UserEnv == [base_url |-> Cloud, model |-> Pinned, haiku |-> Pinned, max_context |-> Cloud]

\* the user pins a model and declares a plugin, has no settings at all, or
\* moved the plugin and added servers to ~/.claude.json
ThreeConfigs ==
    { [settings |-> [env |-> UserEnv, hooks |-> Pinned, extraKnownMarketplaces |-> Marketplace("old")], servers |-> NoFile],
      [settings |-> NoFile, servers |-> NoFile],
      [settings |-> [env |-> UserEnv, mcpServers |-> [web |-> Pinned], extraKnownMarketplaces |-> Marketplace("new")],
       servers |-> [web |-> Cloud, db |-> Cloud]] }

\* The launches, Hermes and the build share no state but the registry, and each
\* kind of disturbance meets the launches in a behaviour of its own.
Nothing == [launch |-> 0, edit |-> 0, registry |-> 0, server |-> 0, hermes |-> 0, build |-> 0, doctor |-> 0]
SomeBudgets ==
    { [Nothing EXCEPT !.launch = 2, !.edit = 2],
      [Nothing EXCEPT !.launch = 2, !.server = 1, !.registry = 1],
      [Nothing EXCEPT !.hermes = 3, !.registry = 2],
      [Nothing EXCEPT !.build = 5],
      [Nothing EXCEPT !.doctor = 2, !.server = 2, !.registry = 1] }

\* an ordinary answer, one with its reasoning, one that repeats itself, one of
\* broken characters, and one without the field
SomeReplies ==
    LET reply(content, think, words, bad) ==
            [content |-> content, think |-> think, words |-> words, chars |-> 40, bad |-> bad]
    IN  { reply(TRUE, FALSE, <<"a", "b", "a">>, 2), reply(TRUE, TRUE, <<"a", "b", "b">>, 0),
          reply(TRUE, TRUE, <<"a", "b", "b", "b">>, 0), reply(TRUE, FALSE, <<"a">>, 3),
          reply(FALSE, FALSE, <<>>, 0) }

Block(indent, key) == Line(indent, "block", key, NoValue)
Inline(indent, key, value) == Line(indent, "inline", key, value)
Note == Line(0, "note", NoValue, NoValue)

\* as tests and users write them: empty; another provider; a stale entry of
\* chekov's among others; one behind it on a single line, and one alone; headers
\* with a comment; notes where the merge runs over them; no last newline; an
\* indentation of four; a line that is not UTF-8
SomeFiles ==
    LET stale == <<Block(2, "chekov"), Inline(4, "default_model", "gone")>>
        mcp == <<Block(0, "mcp"), Inline(2, "web", "on")>>
        other == <<Block(2, "nous"), Inline(4, "api", "web")>>
        noted(key) == <<Line(2, "noted", key, NoValue), Inline(4, "api", "x")>>
    IN  { <<>>,
          <<Block(0, "model"), Inline(2, "provider", "nous"), Note>> \o mcp \o <<Block(0, "providers")>> \o other,
          <<Block(0, "providers")>> \o other \o stale \o <<Block(2, "late"), Inline(4, "api", "x")>> \o mcp,
          mcp \o <<Block(0, "providers")>> \o stale \o <<Inline(2, "nous", "web")>>,
          <<Block(0, "providers"), Inline(2, "nous", "web")>> \o mcp,
          <<Line(0, "noted", "providers", NoValue)>> \o noted("chekov") \o noted("nous") \o other,
          <<Note>> \o mcp \o <<Block(0, "providers"), Note>> \o other,
          mcp \o <<[Inline(0, "theme", "dark") EXCEPT !.open = TRUE]>>,
          <<Block(0, "providers"), Block(4, "nous"), Inline(6, "api", "web")>> \o mcp,
          mcp \o <<Line(2, "bytes", NoValue, NoValue), Block(0, "providers")>> \o other }
=============================================================================
