------------------------------ MODULE CodeText ------------------------------
(***************************************************************************)
(* codebase/masker.rs and codebase/filter.rs: where a Rust file can be     *)
(* masked without parsing it, and what its #[cfg(test)] items leave behind *)
(* when they are cut.                                                      *)
(*                                                                         *)
(* A text is a sequence of tokens.  A string, a char or a comment is one   *)
(* token that is no bracket, which is what the source's Scanner makes of   *)
(* it; blanks other than the newline are left out.  A span is the half     *)
(* open range [from, to) of positions, counted from 1.                     *)
(***************************************************************************)
EXTENDS Integers, Sequences, FiniteSets, SequencesExt, FiniteSetsExt

CONSTANTS
    Names,       \* the identifiers a text may hold
    BodyLines,   \* line counts of a body worth masking (3..40)
    SpanLines    \* line counts of a statement worth masking (1..8)

NL == "\n"
TestAttr == "#[cfg(test)]"
Attr == "#[must_use]"
Doc == "///"
Opens == {"{", "(", "["}
Closes == {"}", ")", "]"}

Span(from, to) == [from |-> from, to |-> to]
Within(at, span) == span.from <= at /\ at < span.to
Slice(text, span) == SubSeq(text, span.from, span.to - 1)

\* A set of positions in ascending order.
Ascending(positions) ==
    [i \in 1..Cardinality(positions) |-> CHOOSE x \in positions : Cardinality({y \in positions : y <= x}) = i]

\* The first position from `at` on that holds one of `tokens`, else the end.
Find(text, tokens, at) == Min({Len(text) + 1} \cup {i \in at..Len(text) : text[i] \in tokens})

\* A newline at `at` itself already is the boundary.
LineStart(text, at) == Max({0} \cup {i \in DOMAIN text : i <= at /\ text[i] = NL}) + 1
LineOf(text, at) == Cardinality({i \in DOMAIN text : i < at /\ text[i] = NL}) + 1

TrimNewlines(text) ==
    LET code == {i \in DOMAIN text : text[i] # NL}
    IN  IF code = {} THEN <<>> ELSE SubSeq(text, Min(code), Max(code))
LineCount(text) == IF TrimNewlines(text) = <<>> THEN 0 ELSE LineOf(TrimNewlines(text), Len(TrimNewlines(text)) + 1)

Depth(text, first, last) ==
    Cardinality({i \in first..last : text[i] \in Opens}) - Cardinality({i \in first..last : text[i] \in Closes})
Balanced(text) == Depth(text, 1, Len(text)) = 0 /\ \A last \in DOMAIN text : Depth(text, 1, last) >= 0

\* The brace that closes the one at `open`, 0 when there is none.
MatchingClose(text, open) ==
    LET braces(tok, last) == Cardinality({i \in open..last : text[i] = tok})
        closing == {i \in open..Len(text) : text[i] = "}" /\ braces("{", i) = braces("}", i)}
    IN  IF closing = {} THEN 0 ELSE Min(closing)

(* ---- the #[cfg(test)] cutter ------------------------------------------ *)

\* With the newline an item leaves behind, when nothing else is on its line.
ToLineEnd(text, at) == IF at <= Len(text) /\ text[at] = NL THEN at + 1 ELSE at

ItemEnd(text, from) ==
    LET at == Find(text, {"{", ";"}, from)
        close == MatchingClose(text, at)
    IN  IF at > Len(text) THEN at
        ELSE IF text[at] = ";" THEN ToLineEnd(text, at + 1)
        ELSE IF close = 0 THEN Len(text) + 1 ELSE ToLineEnd(text, close + 1)

DropOneBlankLine(text, start, end) ==
    IF start > 2 /\ text[start - 1] = NL /\ text[start - 2] = NL /\ end <= Len(text) /\ text[end] = NL
    THEN end + 1 ELSE end

\* From the start of the attribute's line through the item it decorates.
CutRange(text, at) ==
    LET start == LineStart(text, at)
    IN  Span(start, DropOneBlankLine(text, start, ItemEnd(text, at + 1)))

CfgTestCuts(text) ==
    LET cuts[from \in 1..Len(text) + 1] ==
            LET at == Find(text, {TestAttr}, from)
                cut == CutRange(text, at)
            IN  IF at > Len(text) THEN <<>> ELSE <<cut>> \o cuts[cut.to]
    IN  cuts[1]

\* The positions a list of cuts keeps, and the text they spell.
Kept(text, cuts) == {i \in DOMAIN text : \A k \in DOMAIN cuts : ~Within(i, cuts[k])}
ElideCfgTest(text) ==
    LET cuts == CfgTestCuts(text)
        kept == Ascending(Kept(text, cuts))
    IN  [ text |-> [i \in DOMAIN kept |-> text[kept[i]]],
          cuts |-> cuts,
          lines |-> Cardinality({i \in DOMAIN text : text[i] = NL /\ i \notin Kept(text, cuts)}) ]

\* Mutant: the end of a span takes a cut that begins where the span ends.
OriginalRangeSwallows(cuts, span) ==
    LET shift(at) == FoldLeft(LAMBDA out, cut : IF cut.from <= out THEN out + cut.to - cut.from ELSE out, at, cuts)
    IN  Span(shift(span.from), shift(span.to))

\* A span of the elided text as a span of the file on disk: its start goes
\* past a cut that begins at it, its end does not.
OriginalRange(cuts, span) ==
    LET shift(at, precedes(_, _)) ==
            FoldLeft(LAMBDA out, cut : IF precedes(cut.from, out) THEN out + cut.to - cut.from ELSE out, at, cuts)
    IN  Span(shift(span.from, <=), shift(span.to, <))

(* ---- signatures and bodies -------------------------------------------- *)

\* `fn name(` at the start of a line, after its visibility.
FnSignatures(text) ==
    { Span(i, i + 2) : i \in { k \in DOMAIN text :
        /\ text[k] = "fn" /\ k + 2 <= Len(text) /\ text[k + 1] \in Names /\ text[k + 2] = "("
        /\ \A b \in LineStart(text, k)..(k - 1) : text[b] = "pub" } }

\* The braces after a signature, none for a method without a body.
BodyAfter(text, from) ==
    LET open == Find(text, {"{", ";"}, from)
        close == MatchingClose(text, open)
    IN  IF open > Len(text) \/ text[open] = ";" \/ close = 0 THEN {} ELSE {Span(open, close + 1)}

\* The function whose body holds `at`, the innermost one; "" outside them all.
EnclosingFn(text, at) ==
    LET around == {s \in FnSignatures(text) : \E b \in BodyAfter(text, s.to) : Within(at, b)}
    IN  IF around = {} THEN "" ELSE text[Max({s.from : s \in around}) + 1]

Above(text, at) == Span(LineStart(text, at - 2), at - 1)   \* the line that ends at the boundary `at`

\* Walking up from the boundary `at`: over attributes, then over `///` lines.
DocCommentBefore(text, boundary) ==
    LET head(at) == text[Above(text, at).from]
        tail(at) == text[Above(text, at).to - 1]
        blank(at) == at = 1 \/ Above(text, at).from = Above(text, at).to
        opening[at \in 1..Len(text) + 1] ==   \* the boundary above one attribute, 0 when a doc or the top comes first
            IF at = 1 THEN 0
            ELSE IF blank(at) THEN opening[Above(text, at).from]
            ELSE IF head(at) \in {Attr, TestAttr} THEN Above(text, at).from
            ELSE IF head(at) = Doc THEN 0 ELSE opening[Above(text, at).from]
        attributes[at \in 1..Len(text) + 1] ==
            IF blank(at) \/ tail(at) \notin {Attr, TestAttr, "]"} \/ opening[at] = 0 THEN at
            ELSE attributes[opening[at]]
        docs[at \in 1..Len(text) + 1] ==
            IF blank(at) \/ head(at) # Doc THEN at ELSE docs[Above(text, at).from]
        end == attributes[boundary]
    IN  IF docs[end] = end THEN {} ELSE {Span(docs[end], end)}

(* ---- statements -------------------------------------------------------- *)

\* The brace just closed belongs to an `if` that is not done yet.
ContinuesWithElse(text, at) ==
    LET next == Min({Len(text) + 1} \cup {i \in at..Len(text) : text[i] # NL})
    IN  next <= Len(text) /\ text[next] = "else"

\* Widened to whole lines, leading blank ones dropped.
TrimToLines(text, raw) ==
    LET start == LineStart(text, raw.from)
        end == Find(text, {NL}, raw.to)
    IN  Span(Min({end} \cup {i \in start..end - 1 : text[i] # NL}), end)

\* push_span keeps a span of a few lines that is balanced on its own.
WorthMasking(text, span) == LineCount(Slice(text, span)) \in SpanLines /\ Balanced(Slice(text, span))

\* A statement ends at a `;` or a `}` that leaves the body at its own depth.
StatementSpans(text, body) ==
    LET ends == {i \in body.from..body.to - 1 :
                    /\ Depth(text, body.from, i) = 0
                    /\ text[i] = ";" \/ (text[i] = "}" /\ ~ContinuesWithElse(text, i + 1))}
        begins(end) == Max({body.from} \cup {i + 1 : i \in {e \in ends : e < end}})
        spans == [i \in 1..Cardinality(ends) |->
                    LET end == Ascending(ends)[i] IN TrimToLines(text, Span(begins(end), end + 1))]
    IN  SelectSeq(spans, LAMBDA s : WorthMasking(text, s))

(* ---- candidates -------------------------------------------------------- *)

Candidate(text, tier, span, doc) ==
    [ tier |-> tier, span |-> span, doc |-> doc,
      line |-> LineOf(text, IF tier = "function_body" THEN span.from + 1 ELSE span.from) ]

\* Of one function: its body, then the statements in it.
CandidatesOf(text, sig, body) ==
    LET interior == Span(body.from + 1, body.to - 1)
        whole == Candidate(text, "function_body", interior, DocCommentBefore(text, LineStart(text, sig.from)))
        inside == StatementSpans(text, interior)
    IN  (IF LineCount(Slice(text, interior)) \in BodyLines THEN <<whole>> ELSE <<>>)
        \o [i \in DOMAIN inside |-> Candidate(text, "in_file", inside[i], {})]

\* One span is one candidate, and a body of one statement is the body.
Dedupe(text, found) ==
    LET trimmed(c) == TrimNewlines(Slice(text, c.span))
        bodies == {trimmed(found[i]) : i \in {k \in DOMAIN found : found[k].tier = "function_body"}}
        first == {i \in DOMAIN found : \A k \in 1..i - 1 : found[k].span # found[i].span}
        kept == {i \in first : found[i].tier = "in_file" => trimmed(found[i]) \notin bodies}
    IN  [i \in 1..Cardinality(kept) |-> found[Ascending(kept)[i]]]

Candidates(text) ==
    LET bodied == {s.from : s \in {f \in FnSignatures(text) : BodyAfter(text, f.to) # {}}}
        of(from) == CandidatesOf(text, Span(from, from + 2), CHOOSE b \in BodyAfter(text, from + 2) : TRUE)
    IN  Dedupe(text, FoldLeft(LAMBDA out, from : out \o of(from), <<>>, Ascending(bodied)))

(* ---- what a task shows ------------------------------------------------- *)

\* The doc comment above a masked body says what the body does, so it goes.
PrefixWithoutDoc(text, c) ==
    IF c.tier = "function_body" /\ c.doc # {}
    THEN LET doc == CHOOSE d \in c.doc : TRUE
         IN  SubSeq(text, 1, doc.from - 1) \o SubSeq(text, doc.to, c.span.from - 1)
    ELSE SubSeq(text, 1, c.span.from - 1)
Suffix(text, c) == SubSeq(text, c.span.to, Len(text))
=============================================================================
