----------------------------- MODULE HermesConfig ----------------------------
(***************************************************************************)
(* The merge `chekov integrate hermes` makes into the user's Hermes        *)
(* configuration (commands/integrate.rs): a YAML file edited as lines,     *)
(* never parsed.                                                           *)
(*                                                                         *)
(* A line has an indentation, a form, a key and a value: "block" is a line *)
(* that ends in its key's colon, "noted" has a comment behind that colon,  *)
(* "inline" a value, "note" is a comment or a blank line, "item" a list    *)
(* item without a colon, "bytes" a line that is not UTF-8.  Only the last  *)
(* line of a file can be without its newline, `open`.                      *)
(***************************************************************************)
EXTENDS Naturals, Sequences, FiniteSetsExt, SequencesExt

CONSTANT NoValue

Line(indent, form, key, value) ==
    [indent |-> indent, form |-> form, key |-> key, value |-> value, open |-> FALSE]

\* Text behind text: a line without newline takes the next one as its value.
Join(a, b) ==
    IF a = <<>> \/ b = <<>> \/ ~Last(a).open THEN a \o b
    ELSE Front(a) \o <<[Last(a) EXCEPT !.form = "inline", !.open = Head(b).open]>> \o Tail(b)

\* What chekov writes, of an effective model: the endpoint and the key are left out.
ModelBlock(eff) ==
    <<Line(0, "block", "model", NoValue), Line(2, "inline", "context_length", eff.ctx),
      Line(2, "inline", "default", eff.model), Line(2, "inline", "provider", "chekov")>>
ProviderEntry(eff) ==
    <<Line(2, "block", "chekov", NoValue), Line(4, "inline", "default_model", eff.model),
      Line(4, "block", "models", NoValue), Line(6, "item", NoValue, eff.model)>>

IsTop(line) == line.indent = 0 /\ line.form \in {"block", "noted", "inline"}

\* The block of a top-level key: its lines, as <<first, last>>; <<>> without one.
TopBlock(file, key) ==
    LET starts == {i \in DOMAIN file : IsTop(file[i]) /\ file[i].key = key}
        start == Min(starts)
        next == {i \in DOMAIN file : i > start /\ IsTop(file[i])}
    IN  IF starts = {} THEN <<>> ELSE <<start, IF next = {} THEN Len(file) ELSE Min(next) - 1>>

Splice(file, from, to, lines) ==
    Join(Join(SubSeq(file, 1, from - 1), lines), SubSeq(file, to + 1, Len(file)))

\* The indentation of a block's first child; 2, chekov's own, when it has none.
ChildIndent(block) ==
    LET children == {i \in 2..Len(block) : block[i].indent > 0}
    IN  IF children = {} THEN 2 ELSE block[Min(children)].indent

\* As a mutant, the entry ends with its block.
ReplaceChildToTheEnd(block, key, entry) ==
    LET starts == {i \in DOMAIN block : block[i].indent = 2 /\ block[i].form = "block" /\ block[i].key = key}
    IN  IF starts = {} THEN Splice(block, 2, 1, entry) ELSE Splice(block, Min(starts), Len(block), entry)

\* Replace the child entry, or insert it behind the header.
ReplaceChild(block, key, entry) ==
    LET isChild(i) == block[i].indent = 2 /\ block[i].form = "block"
        starts == {i \in DOMAIN block : isChild(i) /\ block[i].key = key}
        start == Min(starts)
        next == {i \in DOMAIN block : i > start /\ isChild(i)}
    IN  IF starts = {} THEN Splice(block, 2, 1, entry)
        ELSE Splice(block, start, IF next = {} THEN Len(block) ELSE Min(next) - 1, entry)

WithModel(file, eff) ==
    LET range == TopBlock(file, "model")
    IN  IF range = <<>> THEN Join(ModelBlock(eff), file) ELSE Splice(file, range[1], range[2], ModelBlock(eff))

ProvidersOf(file) ==
    LET range == TopBlock(file, "providers") IN IF range = <<>> THEN <<>> ELSE SubSeq(file, range[1], range[2])

\* merge_hermes_config refuses a providers block with another indentation.
HermesShapeSupported(file, eff) == ChildIndent(ProvidersOf(WithModel(file, eff))) = 2

MergeHermesConfig(file, eff) ==
    LET text == WithModel(file, eff)
        range == TopBlock(text, "providers")
    IN  IF range = <<>>
        THEN Join(text, <<Line(0, "block", "providers", NoValue)>> \o ProviderEntry(eff))
        ELSE Splice(text, range[1], range[2], ReplaceChild(ProvidersOf(text), "chekov", ProviderEntry(eff)))

\* What the command makes of the file: one it cannot read is an empty one.
Legible(file) == \A i \in DOMAIN file : file[i].form # "bytes"
Existing(file) == IF Legible(file) THEN file ELSE <<>>

CurrentProvider(file) ==
    LET range == TopBlock(file, "model")
        named == IF range = <<>> THEN {} ELSE {i \in range[1]..range[2] : file[i].key = "provider"}
    IN  IF named = {} THEN NoValue ELSE file[Min(named)].value

-----------------------------------------------------------------------------
(* What a reader of YAML makes of the same lines.                          *)

\* the top-level key a line belongs to
Owner(file, i) ==
    LET tops == {j \in 1..i : IsTop(file[j])} IN IF tops = {} THEN NoValue ELSE file[Max(tops)].key

\* the settings of the user: what is not chekov's to write
Settings(file) == {i \in DOMAIN file : file[i].form # "note" /\ Owner(file, i) \notin {"model", "providers"}}
Providers(file) ==
    {i \in DOMAIN file : Owner(file, i) = "providers" /\ file[i].indent = 2
                         /\ file[i].form \in {"block", "noted", "inline"} /\ file[i].key # "chekov"}

\* The shapes of a file that the merge, which reads lines, takes for what they are.
Terminated(file) == file = <<>> \/ ~Last(file).open
HeadersEndInColons(file) ==
    \A i \in DOMAIN file : Owner(file, i) = "providers" /\ file[i].indent = 2 => file[i].form = "block"
NoteInTheWay(file) ==
    \/ \E i \in DOMAIN file : file[i].form = "note" /\ Owner(file, i) = "providers"
    \/ TopBlock(file, "model") = <<>> /\ file # <<>> /\ Head(file).form = "note"
LinesAt(file, at) == LET sorted == SetToSortSeq(at, <) IN [i \in DOMAIN sorted |-> file[sorted[i]]]
=============================================================================
