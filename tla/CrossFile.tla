----------------------------- MODULE CrossFile ------------------------------
(***************************************************************************)
(* codebase/crossfile.rs: the first call-shaped use, in one file, of a     *)
(* name another file declares, and what of that other file a task is       *)
(* shown.  `files` is a function from paths to elided texts.               *)
(***************************************************************************)
EXTENDS CodeText

CONSTANTS
    Stem,      \* the module a path is named by: its file stem, or its directory
    Common,    \* prelude names: declaring one teaches nothing
    ExtraCap   \* the most of a defining file that is shown (32 KiB)

DeclarationKeywords == {"fn", "struct", "enum", "trait", "type", "const", "static"}
TypeKeywords == {"struct", "enum"}

\* The words that follow a keyword on a line.
NamesAfter(text, keywords) ==
    { text[i + 1] : i \in {k \in 1..Len(text) - 1 : text[k] \in keywords /\ text[k + 1] \in Names} }

Declares(text) == NamesAfter(text, DeclarationKeywords) \ Common
DeclaresType(files, name) == \E p \in DOMAIN files : name \in NamesAfter(files[p], TypeKeywords)
DeclaringFiles(files, name) == {p \in DOMAIN files : name \in Declares(files[p])}

\* Mutant: the first of several declaring files will do.
DefinedInAny(files, name, notIn) ==
    LET others == DeclaringFiles(files, name)
    IN  IF notIn \in others \/ others = {} THEN {} ELSE {CHOOSE p \in others : TRUE}

\* Rules 1 and 2: the one other file that declares a name, when one does.
DefinedIn(files, name, notIn) ==
    LET others == DeclaringFiles(files, name)
    IN  IF notIn \notin others /\ Cardinality(others) = 1 THEN others ELSE {}

\* Whole `use` statements, which may run over several lines.
UseStatements(text) ==
    LET braces(i, j) == Cardinality({k \in i..j : text[k] = "{"}) - Cardinality({k \in i..j : text[k] = "}"})
        end(i) == Min({Len(text) + 1} \cup {j + 1 : j \in {k \in i..Len(text) : text[k] = ";" /\ braces(i, k) <= 0}})
        starts == {i \in DOMAIN text : text[i] = "use" /\ \A b \in LineStart(text, i)..(i - 1) : text[b] = "pub"}
    IN  {Span(LineStart(text, i), end(i)) : i \in starts}
InUse(text, at) == \E u \in UseStatements(text) : Within(at, u)

\* Every module a file names: inside its imports, and before every `::`.
ModuleReferences(text) ==
    { text[i] : i \in {k \in DOMAIN text : text[k] \in Names /\ InUse(text, k)} }
    \cup { text[i] : i \in {k \in 1..Len(text) - 1 : text[k] \in Names /\ text[k + 1] = "::"} }

\* A `{` after a name in a type position opens a block, not a literal.
OpensALiteral(text, at) ==
    LET before == {i \in 1..at - 1 : text[i] # NL}
        words == {i \in before : text[i] \in Names \cup {"impl", "for", "in", "as", "dyn", "where", "fn", "let", "return"}}
    IN  /\ before # {} => text[Max(before)] \notin {"->", ".", ":"}
        /\ words # {} => text[Max(words)] \notin {"impl", "for", "in", "as", "dyn", "where"}

\* name(  name::  .name(  name {
CallShaped(text, at, isType) ==
    LET after == Min({Len(text) + 1} \cup {i \in at + 1..Len(text) : text[i] # NL})
    IN  /\ after <= Len(text)
        /\ text[after] \in {"(", "::"} \/ (text[after] = "{" /\ isType /\ OpensALiteral(text, at))

\* Rule 4: the call-shaped uses of a name outside imports.
UsesOf(text, name, isType) == {i \in DOMAIN text : text[i] = name /\ ~InUse(text, i) /\ CallShaped(text, i, isType)}

\* Rule 5: the file names the module that declares the name.
Imports(files, path, other) == Stem[other] \in ModuleReferences(files[path])

\* Where each of a file's span names is first used, and the file it is from.
FirstUseOffsets(files, path, names) ==
    LET text == files[path]
        uses(n) == UsesOf(text, n, DeclaresType(files, n))
        hit == {n \in names : /\ DefinedIn(files, n, path) # {}
                              /\ Imports(files, path, CHOOSE g \in DefinedIn(files, n, path) : TRUE)
                              /\ uses(n) # {}}
    IN  [n \in hit |-> [at |-> Min(uses(n)), from |-> CHOOSE g \in DefinedIn(files, n, path) : TRUE]]

\* Of the names first used in a span, the earliest is what a task is keyed on.
FirstIn(span, firsts) == {n \in DOMAIN firsts : Within(firsts[n].at, span)}
KeyOf(span, firsts) ==
    CHOOSE n \in FirstIn(span, firsts) : \A m \in FirstIn(span, firsts) : firsts[n].at <= firsts[m].at

\* The candidate, and where its name is from; the other names are kept beside it.
UseAt(c, firsts, key) ==
    [ candidate |-> [c EXCEPT !.tier = "cross_file_first"],
      meta |-> [name |-> key, definedIn |-> firsts[key].from, also |-> FirstIn(c.span, firsts) \ {key}] ]

\* One task for each span that first-uses a name, and for each name.
KeyedUses(spans, firsts) ==
    LET key == [i \in {k \in DOMAIN spans : FirstIn(spans[k].span, firsts) # {}} |-> KeyOf(spans[i].span, firsts)]
        order == Ascending({i \in DOMAIN key : \A k \in DOMAIN key : k < i => key[k] # key[i]})
    IN  [i \in DOMAIN order |-> UseAt(spans[order[i]], firsts, key[order[i]])]

\* first_uses: of the names an in_file span holds.
FirstUses(files, path, candidates) ==
    LET text == files[path]
        spans == SelectSeq(candidates, LAMBDA c : c.tier = "in_file")
        names == {text[i] : i \in {k \in DOMAIN text : text[k] \in Names /\ \E s \in DOMAIN spans : Within(k, spans[s].span)}}
    IN  KeyedUses(spans, FirstUseOffsets(files, path, names))

-----------------------------------------------------------------------------
(* What the arm with the extra file is shown.                              *)

Normalise(text) == SelectSeq(text, LAMBDA tok : tok # NL)
Includes(text, part) == \E i \in 0..Len(text) - Len(part) : SubSeq(text, i + 1, i + Len(part)) = part

\* The start of the line that declares a name, the middle of the file when
\* no line does.
DeclarationOffset(text, name) ==
    LET at == {i \in 2..Len(text) : text[i] = name /\ text[i - 1] \in DeclarationKeywords}
    IN  IF at = {} THEN Len(text) \div 2 ELSE LineStart(text, Min(at)) - 1

\* Whole lines around the declaration, no more than the cap.
Window(text, name) ==
    LET at == Max({0, DeclarationOffset(text, name) - ExtraCap \div 2})
        start == Max({1} \cup {i + 1 : i \in {k \in 1..at : text[k] = NL}})
        ends == {i \in start..start + ExtraCap - 1 : i <= Len(text) /\ (text[i] = NL \/ i = Len(text))}
    IN  IF Len(text) <= ExtraCap THEN text
        ELSE SubSeq(text, start, IF ends = {} THEN start + ExtraCap - 1 ELSE Max(ends))

\* Rule (b): the other files that hold the answer word for word.
WithheldCount(files, gold, defining, path) ==
    IF Normalise(gold) = <<>> THEN 0
    ELSE Cardinality({p \in DOMAIN files \ {defining, path} : Includes(Normalise(files[p]), Normalise(gold))})
=============================================================================
