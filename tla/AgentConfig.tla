----------------------------- MODULE AgentConfig -----------------------------
(***************************************************************************)
(* What `chekov launch` writes into the configuration directory it gives   *)
(* to an agent: the settings, the MCP servers and the local plugins it     *)
(* carries over from the user's own configuration (core/launch.rs,         *)
(* core/plugins.rs, core/proxy/mod.rs).                                    *)
(*                                                                         *)
(* A JSON object is a function from its keys.  A file that is absent or    *)
(* does not parse reads as NoFile: every reader here treats the two alike. *)
(***************************************************************************)
EXTENDS Sequences, FiniteSetsExt, SequencesExt

CONSTANTS
    NoFile,          \* nothing readable
    Manifest         \* of a directory, the name its plugin.json declares, or NoFile

Directories == DOMAIN Manifest

\* of two objects, the keys of both; `ours` wins where they clash
Over(ours, theirs) ==
    [k \in DOMAIN ours \cup DOMAIN theirs |-> IF k \in DOMAIN ours THEN ours[k] ELSE theirs[k]]
Empty == [k \in {} |-> NoFile]
Field(object, key) == IF object # NoFile /\ key \in DOMAIN object THEN object[key] ELSE Empty

-----------------------------------------------------------------------------
(* settings.json                                                           *)

CarriedKeys == {"mcpServers", "hooks", "enabledPlugins", "permissions", "extraKnownMarketplaces"}

\* The block that points the agent at this session's proxy; the api key is left out.
EnvBlock(session) ==
    [base_url |-> session.port, model |-> session.model, haiku |-> session.model, max_context |-> session.ctx]

\* As a mutant, the user's block is carried like the other keys.
LocalSettingsUserWins(session, source) ==
    IF source = NoFile THEN [env |-> EnvBlock(session)] ELSE Over(source, [env |-> EnvBlock(session)])

LocalSettings(session, source) ==
    LET carried == IF source = NoFile THEN {} ELSE CarriedKeys \cap DOMAIN source
    IN  [k \in carried \cup {"env"} |-> IF k = "env" THEN EnvBlock(session) ELSE source[k]]

\* The servers of ~/.claude.json (NoFile when it holds none) folded into the
\* settings, whose own entries win.
MergeMcpServers(settings, extra) ==
    IF extra = NoFile THEN settings
    ELSE LET merged == [mcpServers |-> Over(Field(settings, "mcpServers"), extra)]
         IN  IF settings = NoFile THEN merged ELSE Over(merged, settings)

\* read_user_settings: what a launch carries, from the user's two files.
ReadUserSettings(user) == MergeMcpServers(user.settings, user.servers)

-----------------------------------------------------------------------------
(* .claude.json                                                            *)

McpServersOf(source) == Field(source, "mcpServers")

\* As a mutant, the file is written anew.
InjectMcpServersAnew(existing, servers) == [mcpServers |-> servers]

InjectMcpServers(existing, servers) ==
    LET kept == IF existing = NoFile THEN Empty ELSE existing
    IN  Over([mcpServers |-> Over(servers, Field(kept, "mcpServers"))], kept)

-----------------------------------------------------------------------------
(* plugins/                                                                *)

LocalMarketplaces(source) ==
    LET declared == Field(source, "extraKnownMarketplaces")
    IN  {[name |-> m, dir |-> declared[m].path] : m \in {n \in DOMAIN declared : declared[n].kind = "directory"}}

MergeKnownMarketplaces(existing, source) ==
    Over(Field(source, "extraKnownMarketplaces"), IF existing = NoFile THEN Empty ELSE existing)

\* The link of a marketplace's plugin: the manifest's name, which falls back on
\* the marketplace's when there is none or it is not one path component.
PluginName(market) == IF Manifest[market.dir] = NoFile THEN market.name ELSE Manifest[market.dir]
LinkOf(market) == <<market.name, PluginName(market)>>

\* A row per link and marketplace: a relaunch adds none.
UpsertPluginEntry(installed, market) ==
    LET rows == IF market.name \in DOMAIN installed THEN installed[market.name] ELSE <<>>
        entry == LinkOf(market)
    IN  Over([m \in {market.name} |-> IF entry \in Range(rows) THEN rows ELSE Append(rows, entry)], installed)
=============================================================================
