----------------------------- MODULE Codebase -------------------------------
(***************************************************************************)
(* capability bench --codebase, from a repository to its tasks             *)
(* (codebase/mod.rs, codebase/sample.rs): the #[cfg(test)] items are cut,  *)
(* every file is masked, the cross-file uses are found, the lanes of the   *)
(* three tiers are sampled round robin, and each pick is assembled into    *)
(* what a model will be shown.                                             *)
(*                                                                         *)
(* One file of the repository is written line by line; the others are      *)
(* given.  The seed of the sampler stands for any order it may yield.      *)
(***************************************************************************)
EXTENDS Ladder

CONSTANTS
    Paths, Written,   \* the files, and the one that is written
    PathOrder,        \* the files in the order of their paths
    Given,            \* what the repository may hold to begin with
    Lines0,           \* the lines that may be written
    MaxLines,         \* lines written
    Totals,           \* numbers of tasks that may be asked for
    Fills             \* what a model may answer

VARIABLES
    disk,     \* the files of the checkout
    phase,    \* "writing", "sampling", "ready", or "no tasks"
    corpus,   \* per file, once prepared: text, cuts, candidates, cross-file metas
    want,     \* the quota of each tier
    lane,     \* the tier being sampled
    order,    \* its files, in the order the seed gave
    queue,    \* the files this pass has left
    left,     \* the candidates each file's lane still holds
    picked    \* the picks so far, [path, candidate], in no order

vars == <<disk, phase, corpus, want, lane, order, queue, left, picked>>

Tiers == <<"in_file", "function_body", "cross_file_first">>

\* Half in_file, the rest split; every odd task goes to the earlier lane.
Quota(total) ==
    LET inFile == (total + 1) \div 2
        body == (total - inFile + 1) \div 2
    IN  [ in_file |-> inFile, function_body |-> body, cross_file_first |-> total - inFile - body ]

\* all_candidates, of one file: the masker's, then the cross-file ones.
CandidatesIn(files, path) ==
    LET spans == Candidates(files[path])
        uses == FirstUses(files, path, spans)
    IN  [ candidates |-> spans \o [i \in DOMAIN uses |-> uses[i].candidate], uses |-> uses ]

Init ==
    /\ disk \in Given
    /\ phase = "writing"
    /\ corpus = <<>> /\ want = [t \in ToSet(Tiers) |-> 0]
    /\ lane = 1 /\ order = <<>> /\ queue = <<>> /\ left = <<>> /\ picked = {}

\* A line a file that compiles may go on with.
Fits(text, line) ==
    LET open == Depth(text, 1, Len(text))
        after == IF text = <<>> THEN NL ELSE text[LineStart(text, Len(text) - 1)]
    IN  /\ line[1] \in {"fn", "pub", "use"} => open = 0
        /\ line[1] = "}" => open > 0 /\ (Len(line) > 2 => open > 1)
        /\ line[1] \in {"if", "let", "make"} => open > 0
        /\ after \in {TestAttr, Attr, Doc} => line[1] \notin {NL, "}"}
        /\ line[1] \in {Attr, Doc} => open = 0

Write ==
    /\ phase = "writing"
    /\ LineOf(disk[Written], Len(disk[Written]) + 1) <= MaxLines
    /\ \E line \in Lines0 :
        /\ Fits(disk[Written], line)
        /\ disk' = [disk EXCEPT ![Written] = @ \o line]
    /\ UNCHANGED <<phase, corpus, want, lane, order, queue, left, picked>>

\* prepare, up to the sampler: elide, index, mask.
Prepare ==
    /\ phase = "writing"
    /\ Depth(disk[Written], 1, Len(disk[Written])) = 0
    /\ LET elided == [p \in Paths |-> ElideCfgTest(disk[p])]
           files == [p \in Paths |-> elided[p].text]
           found == [p \in Paths |-> CandidatesIn(files, p)]
       IN  corpus' = [p \in Paths |-> [ text |-> elided[p].text, cuts |-> elided[p].cuts, lines |-> elided[p].lines,
                                        candidates |-> found[p].candidates, uses |-> found[p].uses ]]
    /\ \E total \in Totals : want' = Quota(total)
    /\ phase' = "sampling"
    /\ UNCHANGED <<disk, lane, order, queue, left, picked>>

LaneOf(path, tier) == {i \in DOMAIN corpus[path].candidates : corpus[path].candidates[i].tier = tier}
Have(tier) == FoldSet(LAMBDA p, sum : sum + Cardinality(LaneOf(p, tier)), 0, Paths)

\* per_file_lanes: one shuffled lane per file that has candidates, files shuffled.
OpenLane ==
    /\ phase = "sampling" /\ order = <<>> /\ lane <= Len(Tiers)
    /\ LET tier == Tiers[lane]
           some == {p \in Paths : LaneOf(p, tier) # {}}
       IN  IF some = {} \/ want[tier] = 0
           THEN lane' = lane + 1 /\ UNCHANGED <<order, queue, left>>
           ELSE /\ order' \in SetToSeqs(some)
                /\ queue' = order'
                /\ left' = [p \in some |-> LaneOf(p, tier)]
                /\ UNCHANGED lane
    /\ UNCHANGED <<disk, phase, corpus, want, picked>>

Taken(tier) == Cardinality({pick \in picked : pick.candidate.tier = tier})

\* Mutant: a file is drained before the next one is asked.
TakeDrains ==
    /\ phase = "sampling" /\ queue # <<>>
    /\ Taken(Tiers[lane]) < want[Tiers[lane]] /\ left[Head(queue)] # {}
    /\ \E i \in left[Head(queue)] :
        /\ picked' = picked \cup {[path |-> Head(queue), candidate |-> corpus[Head(queue)].candidates[i]]}
        /\ left' = [left EXCEPT ![Head(queue)] = @ \ {i}]
    /\ queue' = IF left'[Head(queue)] = {} THEN Tail(queue) ELSE queue
    /\ UNCHANGED <<disk, phase, corpus, want, lane, order>>

\* round_robin: one candidate from the next file of the pass.
Take ==
    /\ phase = "sampling" /\ queue # <<>>
    /\ Taken(Tiers[lane]) < want[Tiers[lane]] /\ left[Head(queue)] # {}
    /\ \E i \in left[Head(queue)] :
        /\ picked' = picked \cup {[path |-> Head(queue), candidate |-> corpus[Head(queue)].candidates[i]]}
        /\ left' = [left EXCEPT ![Head(queue)] = @ \ {i}]
    /\ queue' = Tail(queue)
    /\ UNCHANGED <<disk, phase, corpus, want, lane, order>>

\* A file whose lane is empty is passed over.
PassOver ==
    /\ phase = "sampling" /\ queue # <<>>
    /\ Taken(Tiers[lane]) < want[Tiers[lane]] /\ left[Head(queue)] = {}
    /\ queue' = Tail(queue)
    /\ UNCHANGED <<disk, phase, corpus, want, lane, order, left, picked>>

\* Another pass, while one may still give a pick.
NextPass ==
    /\ phase = "sampling" /\ order # <<>> /\ queue = <<>>
    /\ Taken(Tiers[lane]) < want[Tiers[lane]] /\ \E p \in DOMAIN left : left[p] # {}
    /\ queue' = order
    /\ UNCHANGED <<disk, phase, corpus, want, lane, order, left, picked>>

CloseLane ==
    /\ phase = "sampling" /\ order # <<>>
    /\ Taken(Tiers[lane]) = want[Tiers[lane]] \/ (queue = <<>> /\ \A p \in DOMAIN left : left[p] = {})
    /\ lane' = lane + 1
    /\ order' = <<>> /\ queue' = <<>> /\ left' = <<>>
    /\ UNCHANGED <<disk, phase, corpus, want, picked>>

\* The lanes are done: a run without a task is refused.
Sampled ==
    /\ phase = "sampling" /\ lane > Len(Tiers)
    /\ phase' = IF picked = {} THEN "no tasks" ELSE "ready"
    /\ UNCHANGED <<disk, corpus, want, lane, order, queue, left, picked>>

Next == Write \/ Prepare \/ OpenLane \/ Take \/ PassOver \/ NextPass \/ CloseLane \/ Sampled

Spec == Init /\ [][Next]_vars

-----------------------------------------------------------------------------
(* What the picks are assembled into.                                      *)

Files == [p \in Paths |-> corpus[p].text]

\* cross_for: what a cross-file pick is keyed on, looked up by where its span
\* starts.
MetaOf(pick) ==
    LET uses == corpus[pick.path].uses
        at == {i \in DOMAIN uses : uses[i].candidate.span.from = pick.candidate.span.from}
    IN  IF pick.candidate.tier = "cross_file_first" THEN {uses[Max(at)].meta} ELSE {}

Assemble(pick) ==
    LET c == pick.candidate
        text == corpus[pick.path].text
    IN  [ file |-> pick.path, tier |-> c.tier, line |-> c.line, span |-> c.span,
          byteRange |-> OriginalRange(corpus[pick.path].cuts, c.span),
          gold |-> Slice(text, c.span),
          prefix |-> PrefixWithoutDoc(text, c), suffix |-> Suffix(text, c),
          name |-> {m.name : m \in MetaOf(pick)},
          defines |-> {m.definedIn : m \in MetaOf(pick)},
          extra |-> {Window(corpus[m.definedIn].text, m.name) : m \in MetaOf(pick)},
          withheld |-> {WithheldCount(Files, Slice(text, c.span), m.definedIn, pick.path) : m \in MetaOf(pick)} ]

Tasks == {Assemble(pick) : pick \in picked}
Ready == phase = "ready"

-----------------------------------------------------------------------------

\* The lines of the doc comment that documents the function of `sig`: above
\* the attributes that stand directly above it.
HiddenDoc(text, sig) ==
    LET line(i) == LineOf(text, i)
        above(i) == {k \in DOMAIN text : line(i) < line(k) /\ line(k) < line(sig)}
        starts(i) == text[Min({k \in DOMAIN text : line(k) = line(i)})]
    IN  { i \in DOMAIN text :
            /\ line(i) < line(sig) /\ starts(i) = Doc
            /\ \A k \in above(i) : starts(k) \in {Doc, Attr}
            /\ \A k, m \in above(i) : starts(k) = Attr /\ starts(m) = Doc => m < k }

\* A task hides its span and nothing else but the comment that names the
\* answer, and shows no test.  Its span on disk begins and ends with what was
\* hidden, and what is on disk before it, inside it and after it spells what
\* was shown, hidden and shown once the test items are left out.
MasksAreSound ==
    Ready => \A t \in Tasks :
        LET text == corpus[t.file].text
            sig == Max({0} \cup {s.from : s \in {f \in FnSignatures(text) : f.from < t.span.from}})
            shown == {k \in 1..t.span.from - 1 : t.tier = "function_body" => k \notin HiddenDoc(text, sig)}
            kept == Kept(disk[t.file], corpus[t.file].cuts)
            spelled(from, to) == [k \in 1..Cardinality(kept \cap (from..to - 1)) |->
                                     disk[t.file][Ascending(kept \cap (from..to - 1))[k]]]
        IN  /\ Balanced(t.gold) /\ Normalise(t.gold) # <<>>
            /\ t.prefix = [k \in 1..Cardinality(shown) |-> text[Ascending(shown)[k]]]
            /\ TestAttr \notin ToSet(t.prefix \o t.gold \o t.suffix)
            /\ {t.byteRange.from, t.byteRange.to - 1} \subseteq kept
            /\ spelled(1, t.byteRange.from) = SubSeq(text, 1, t.span.from - 1)
            /\ spelled(t.byteRange.from, t.byteRange.to) = t.gold
            /\ spelled(t.byteRange.to, Len(disk[t.file]) + 1) = t.suffix

\* The answer itself scores full marks on every tier that scores, and what a
\* model writes past the lines that were asked for costs it none of the first
\* four; built, the answer is the file as it was.
GoldIsPerfect ==
    Ready => \A t \in Tasks, fill \in Fills :
        LET scores(p) == ScoreAll(t, p, RepoSymbols(Files), <<>>)
            full(tier, p) == scores(p)[tier] # Skipped => scores(p)[tier][1] = scores(p)[tier][2]
            whole == \A k \in DOMAIN corpus[t.file].cuts : ~Within(corpus[t.file].cuts[k].from, t.byteRange)
        IN  /\ \A tier \in StoredTiers : full(tier, t.gold) /\ full(tier, t.gold \o <<NL>> \o fill)
            /\ Identifiers(t.gold) # {} => full("symbols", t.gold)
            /\ whole => Spliced(disk[t.file], t.byteRange, TrimmedToGold(t.gold, t.gold)) = disk[t.file]

\* Every lane holds what was asked for or all there is, and no file
\* gives two more than another that has some left.
SampleIsFair ==
    Ready =>
        /\ \A t \in ToSet(Tiers) : Taken(t) = Min({want[t], Have(t)})
        /\ \A t \in ToSet(Tiers), p, q \in Paths :
            LET of(f) == Cardinality({k \in picked : k.path = f /\ k.candidate.tier = t})
            IN  of(p) > of(q) + 1 => of(q) = Cardinality(LaneOf(q, t))

\* A cross-file task asks for the first call of a name this file imports and
\* only one other file declares, and that file's declaration is in the window
\* that its second arm is shown, where no line of the file is longer than a
\* quarter of the window: a long one ahead of the declaration may fill it.
CrossFileIsHonest ==
    Ready => \A t \in Tasks : \A n \in t.name :
        LET declares(text) == \E k \in 1..Len(text) - 1 : text[k] \in DeclarationKeywords /\ text[k + 1] = n
            calls(text) == \E k \in 1..Len(text) - 1 : text[k] = n /\ text[k + 1] \in {"(", "::"} /\ ~InUse(text, k)
            quarter == ExtraCap \div 4
            shortLines(text) == \A i \in 0..Len(text) - quarter : \E k \in 1..quarter : text[i + k] = NL
        IN  /\ {p \in Paths : declares(corpus[p].text)} = t.defines
            /\ t.file \notin t.defines
            /\ \A g \in t.defines : \E k \in DOMAIN corpus[t.file].text : corpus[t.file].text[k] = Stem[g]
            /\ ~calls(SubSeq(corpus[t.file].text, 1, t.span.from - 1))
            /\ n \in ToSet(t.gold)
            /\ \A extra \in t.extra :
                 /\ Len(extra) <= ExtraCap
                 /\ (\A g \in t.defines : shortLines(corpus[g].text)) => declares(extra)
            /\ \A u \in Tasks : u.file = t.file /\ u.name = t.name => u = t

\* Tier 7 blames a fill only when a test of its crate that is named as one that
\* covers it ran and failed, or when cargo could not build the tests: never for
\* a test or a build that hangs, a registry that is out of reach, a cargo that
\* does not start, a check that was stopped or a machine that cannot build.
\* (TestVerdict's comment counts a test module that will not build among what a
\* fill cannot be blamed for; test_verdict fails the fill for it, so that case
\* is left out of the promise.)  It passes a fill only when each test it names,
\* up to the cap, ran and passed, but for two kinds that are named and never
\* run: the tests in a module, whose path is not their bare name, and those of
\* a package nested in the crate's directory.
VerdictIsTheTests ==
    Ready => \A t \in Tasks, fill \in Fills, version \in {NotSpawned, Ended(0)} :
        LET exec == ExecState(TRUE, TRUE, version)
            built == [disk EXCEPT ![t.file] = Spliced(@, t.byteRange, TrimmedToGold(t.gold, fill))]
            fns == UNION {{<<p, f>> : f \in TestFns(built[p])} : p \in Paths}
            at(tests) == {<<test[1], test[2].at>> : test \in tests}
            symbols == {EnclosingFn(disk[t.file], t.byteRange.from)} \cup t.name
            covers(test) == Mentions(built[test[1]], test[2].body, symbols)
            unrun(test) == \/ CrateOf(test[1]) # CrateOf(t.file)
                           \/ Depth(built[test[1]], 1, test[2].at) > 0
            \* what would run matters little to a cargo that runs nothing
            builds(check, fails, hangs) ==
                IF check = Ended(101) /\ fails \in {{}, fns} /\ hangs = {}
                THEN {Ended(0), NotSpawned, Killed, Offline, Diagnosed} ELSE {Ended(0)}
        IN  \A fails \in SUBSET fns, check \in {Ended(101), Killed, Offline, Diagnosed} :
            \A hangs \in {{}} \cup {{test} : test \in fns \ fails} :
            \A build \in builds(check, fails, hangs) :
            \A row \in ExecRow(exec, disk, PathOrder, t, fill,
                                [check |-> check, build |-> build, fails |-> at(fails), hangs |-> at(hangs)]) :
                LET named == {test \in fns : test[2].name \in ToSet(row.tests)}
                    ran == {test \in named : ~unrun(test)}
                    unbuilt == build = Diagnosed
                    stopped == build \in {NotSpawned, Killed, Offline}
                IN  /\ row.test = Zero => unbuilt \/ (~stopped /\ fails \cap ran # {})
                    /\ row.test = One => ~unbuilt /\ ~stopped /\ (fails \cup hangs) \cap ran = {}
                    /\ row.test = Skipped /\ row.tests # <<>> => stopped \/ hangs \cap ran # {}
                    /\ row.test # Skipped => row.compile = One /\ exec = "ready"
                    /\ check.timedOut => row.compile = Skipped
                    /\ \A i \in DOMAIN row.tests : \E test \in named : test[2].name = row.tests[i] /\ covers(test)
=============================================================================
