------------------------------ MODULE Ladder --------------------------------
(***************************************************************************)
(* The tiers a fill is scored on: those that do not run it                 *)
(* (codebase/ladder.rs), where a value is a fraction                       *)
(* <<numerator, denominator>>; and what tiers 6 and 7 do with a fill that  *)
(* was given a build (codebase/exec.rs): the splice, the verdict on        *)
(* cargo's diagnostics, the tests that cover the masked symbol, and the    *)
(* verdict on running them.                                                *)
(***************************************************************************)
EXTENDS CrossFile

CONSTANTS
    Skipped,    \* a tier that does not apply
    Roots,      \* files whose items have no module path: lib, main, tests/*
    DirOf,      \* the directory of each file, a sequence of names from the root
    Packages,   \* the directories whose Cargo.toml names a package
    TestCap     \* the most covering tests that are run (5)

One == <<1, 1>>
Zero == <<0, 1>>
Truth(b) == IF b THEN One ELSE Zero

Lines(text) == IF text = <<>> THEN 0 ELSE LineOf(text, Len(text))   \* str::lines().count()

\* The first n lines, the newlines that end them included.
TakeLines(text, n) ==
    LET breaks == {i \in DOMAIN text : text[i] = NL}
        nth == {i \in breaks : Cardinality({b \in breaks : b <= i}) = n}
    IN  IF n = 0 THEN <<>> ELSE IF nth = {} THEN text ELSE SubSeq(text, 1, Max(nth))

EndsWithNewline(text) == text # <<>> /\ text[Len(text)] = NL
TrimEnd(text) == LET code == {i \in DOMAIN text : text[i] # NL} IN SubSeq(text, 1, Max({0} \cup code))

\* Mutant: the whole prediction is scored, what runs on past the gold too.
KeepsRunOn(gold, prediction) == prediction

\* As many lines as the gold has, ending the way the gold ends.
TrimmedToGold(gold, prediction) ==
    LET kept == TakeLines(prediction, Lines(gold))
    IN  IF EndsWithNewline(gold) /\ ~EndsWithNewline(kept) /\ kept # <<>> THEN Append(kept, NL)
        ELSE IF ~EndsWithNewline(gold) /\ EndsWithNewline(kept) THEN TrimEnd(kept)
        ELSE kept

Exact(gold, fill) == Truth(Normalise(gold) = Normalise(fill))

\* 1 - Levenshtein distance / the longer length.
EditSim(gold, fill) ==
    LET a == Normalise(gold)
        b == Normalise(fill)
        longest == Max({Len(a), Len(b)})
        distance[i \in 0..Len(a), j \in 0..Len(b)] ==
            IF i = 0 THEN j ELSE IF j = 0 THEN i
            ELSE Min({ distance[i - 1, j - 1] + (IF a[i] = b[j] THEN 0 ELSE 1),
                       distance[i, j - 1] + 1, distance[i - 1, j] + 1 })
    IN  IF longest = 0 THEN One ELSE <<longest - distance[Len(a), Len(b)], longest>>

Identifiers(text) == ToSet(text) \cap Names

\* The harmonic mean of precision and recall.
IdentF1(gold, fill) ==
    LET g == Identifiers(gold)
        p == Identifiers(fill)
    IN  IF g \cup p = {} THEN One
        ELSE IF g \cap p = {} THEN Zero ELSE <<2 * Cardinality(g \cap p), Cardinality(g) + Cardinality(p)>>

Parse(prefix, fill, suffix) == Truth(Balanced(prefix \o fill \o suffix))

\* Struct fields (`name :`) count as declared here; enum variants are left out.
RepoSymbols(files) ==
    UNION { NamesAfter(files[p], DeclarationKeywords \cup {"mod"})
            \cup {files[p][i] : i \in {k \in 1..Len(files[p]) - 1 : files[p][k] \in Names /\ files[p][k + 1] = ":"}}
            : p \in DOMAIN files }

\* The share of a fill's names that exist: declared in the repository, on the
\* page the model was shown, common, or the gold's own.
Symbols(prediction, gold, known, context) ==
    LET ids == Identifiers(prediction)
    IN  IF ids = {} THEN Zero
        ELSE <<Cardinality(ids \cap (known \cup Common \cup Identifiers(gold) \cup Identifiers(context))), Cardinality(ids)>>

\* stored_tier: tiers 1 to 4 read the trimmed fill, and a function body, for
\* which many fills are right, skips the first two.
StoredTier(tier, task, prediction) ==
    LET fill == TrimmedToGold(task.gold, prediction)
        lineLevel == task.tier # "function_body"
    IN  CASE tier = "exact" -> IF lineLevel THEN Exact(task.gold, fill) ELSE Skipped
          [] tier = "edit_sim" -> IF lineLevel THEN EditSim(task.gold, fill) ELSE Skipped
          [] tier = "ident_f1" -> IdentF1(task.gold, fill)
          [] tier = "parse" -> Parse(task.prefix, fill, task.suffix)
          [] OTHER -> Skipped

StoredTiers == {"exact", "edit_sim", "ident_f1", "parse"}

\* score_all: the tiers of one arm.  The whole prediction is asked for its
\* names, and the extra file counts as context on the arm that was shown it.
ScoreAll(task, prediction, known, extra) ==
    [ tier \in StoredTiers \cup {"symbols"} |->
        IF tier = "symbols" THEN Symbols(prediction, task.gold, known, task.prefix \o task.suffix \o extra)
        ELSE StoredTier(tier, task, prediction) ]

TestLine == "#[test]"

-----------------------------------------------------------------------------
(* Running cargo.  A child is spawned in a group of its own, its pipes are *)
(* read to the end, and at the deadline the group is killed: it then has   *)
(* no exit status.                                                         *)

NotSpawned == [ran |-> FALSE, timedOut |-> FALSE, network |-> FALSE, error |-> FALSE, status |-> 0]
Ended(status) == [NotSpawned EXCEPT !.ran = TRUE, !.status = status]
Killed == [NotSpawned EXCEPT !.ran = TRUE, !.timedOut = TRUE, !.status = -1]
\* cargo that wants the registry, and cargo whose diagnostics hold an error
Offline == [Ended(101) EXCEPT !.network = TRUE]
Diagnosed == [Ended(101) EXCEPT !.error = TRUE]

\* probe: a manifest at the root, and a cargo that answers --version.
Probed(manifest, version) == manifest /\ version.ran /\ version.status = 0

\* exec_state: without --allow-exec nothing is built; a machine that cannot
\* build skips, and a fetch that fails stops nothing.
ExecState(allow, manifest, version) ==
    IF ~allow THEN "off" ELSE IF Probed(manifest, version) THEN "ready" ELSE "unavailable"

-----------------------------------------------------------------------------
(* Tier 6.                                                                 *)

\* Every other byte is kept, test modules included.
Spliced(original, span, fill) ==
    SubSeq(original, 1, span.from - 1) \o fill \o SubSeq(original, span.to, Len(original))

\* The diagnostics are the verdict, the exit status is not.
CheckScore(outcome) ==
    IF ~outcome.ran \/ outcome.timedOut \/ outcome.network THEN Skipped ELSE Truth(~outcome.error)

-----------------------------------------------------------------------------
(* Tier 7.                                                                 *)

\* As a mutant, a test that was killed has failed.
TestVerdictBlames(outcome) ==
    IF ~outcome.ran \/ outcome.network THEN "skipped" ELSE IF outcome.status = 0 THEN "passed" ELSE "failed"

\* A timeout or a registry is nothing the fill is blamed for; any other exit
\* but success is, a test module that does not build included.
TestVerdict(outcome) ==
    IF ~outcome.ran \/ outcome.timedOut \/ outcome.network THEN "skipped"
    ELSE IF outcome.status = 0 THEN "passed" ELSE "failed"

\* The nearest directory at or above a file's with a package; {} without one.
CrateOf(path) ==
    LET above == {dir \in Packages : IsPrefix(dir, DirOf[path])}
    IN  {dir \in above : \A other \in above : Len(other) <= Len(dir)}
InCrate(path, root) == IsPrefix(root, DirOf[path])

\* tests_in: the #[test] functions of a file, in order, with their bodies.
TestFns(text) ==
    LET between(i, k) == \A j \in i..k - 1 : text[j] \in {NL, Attr}
        fns == { k \in DOMAIN text : /\ text[k] = "fn" /\ k + 1 <= Len(text)
                                     /\ \E i \in 1..k - 1 : text[i] = TestLine /\ between(i + 1, k) }
        open(k) == Find(text, {"{"}, k)
    IN  { [name |-> text[k + 1], at |-> k, body |-> Span(open(k) + 1, MatchingClose(text, open(k)))]
          : k \in {f \in fns : MatchingClose(text, open(f)) # 0} }

Mentions(text, span, symbols) == \E i \in DOMAIN text : Within(i, span) /\ text[i] \in symbols

\* Those that mention a symbol, the first TestCap of them in path order.
CoveringTests(files, order, symbols) ==
    LET tests(p) == {t \in TestFns(files[p]) : Mentions(files[p], t.body, symbols)}
        sorted(p) == Ascending({t.at : t \in tests(p)})
        all == FoldLeft(LAMBDA out, p : out \o [i \in DOMAIN sorted(p) |-> files[p][sorted(p)[i] + 1]], <<>>, order)
    IN  SubSeq(all, 1, Min({TestCap, Len(all)}))

\* The enclosing function of a span, and the symbol its task is keyed on.
TierSevenSymbols(original, task) ==
    LET enclosing == EnclosingFn(original, task.byteRange.from)
    IN  IF enclosing = "" THEN {} ELSE {enclosing} \cup task.name

\* cargo test -p <crate> -- <name> --exact (external): runs the tests of that
\* package whose whole path is the name, so only those outside every module.
CargoRuns(files, crate, name) ==
    LET inModule(p, at) == \E m \in 1..at - 1 :
            files[p][m] = "mod" /\ MatchingClose(files[p], Find(files[p], {"{"}, m)) > at
        targets == {p \in Roots : CrateOf(p) = crate}
    IN  UNION { {<<p, t.at>> : t \in {u \in TestFns(files[p]) : u.name = name /\ ~inModule(p, u.at)}} : p \in targets }

\* Every candidate in turn, up to the first that does not pass.  `cargo` is how
\* the machine fares: `build` is what cargo makes of the tests before it runs
\* any, `fails` are the tests that fail when run, `hangs` those that do not end.
RunTests(files, crate, tests, cargo) ==
    LET outcome(name) == LET ran == CargoRuns(files, crate, name)
                         IN  IF cargo.build # Ended(0) THEN cargo.build
                             ELSE IF ran \cap cargo.hangs # {} THEN Killed
                             ELSE Ended(IF ran \cap cargo.fails = {} THEN 0 ELSE 101)
        stops == {i \in DOMAIN tests : TestVerdict(outcome(tests[i])) # "passed"}
    IN  IF stops = {} THEN "passed" ELSE TestVerdict(outcome(tests[Min(stops)]))

SevenFrom(verdict) ==
    CASE verdict = "passed" -> One [] verdict = "failed" -> Zero [] verdict = "skipped" -> Skipped

NoTests == [tests |-> <<>>, score |-> Skipped]

\* The tests and the score: none for a span outside every function, a file of
\* no crate, and a symbol no test below the crate's directory mentions.
TestTier(files, order, task, original, cargo) ==
    LET symbols == TierSevenSymbols(original, task)
        crate == CrateOf(task.file)
        below == SelectSeq(order, LAMBDA p : \A root \in crate : InCrate(p, root))
        tests == CoveringTests(files, below, symbols)
    IN  IF symbols = {} \/ crate = {} \/ tests = <<>> THEN NoTests
        ELSE [tests |-> tests, score |-> SevenFrom(RunTests(files, crate, tests, cargo))]

\* tiers: tier 7 only behind a tier 6 that passed.
Tiers67(files, order, task, original, cargo) ==
    LET compile == CheckScore(cargo.check)
        seven == IF compile = One THEN TestTier(files, order, task, original, cargo) ELSE NoTests
    IN  [compile |-> compile, tests |-> seven.tests, test |-> seven.score]

\* exec_row: the row of one answered crossing; {} when the tiers are off.
ExecRow(state, files, order, task, prediction, cargo) ==
    LET original == files[task.file]
        built == [files EXCEPT ![task.file] = Spliced(original, task.byteRange, TrimmedToGold(task.gold, prediction))]
    IN  CASE state = "off" -> {}
          [] state = "unavailable" -> {[compile |-> Skipped, tests |-> <<>>, test |-> Skipped]}
          [] state = "ready" -> {Tiers67(built, order, task, original, cargo)}
=============================================================================
