------------------------------ MODULE RunStore ------------------------------
(***************************************************************************)
(* What a bench keeps on disk.                                             *)
(*                                                                         *)
(* A run (core/bench/store.rs, stamp.rs) is a directory eval/<run id> with *)
(* stamp.json, which says under what configuration every row was measured, *)
(* and results.jsonl, one row per recorded crossing.  The 25 fields of the *)
(* stamp are compared in declaration order; the ones that this model lets  *)
(* vary are kept, in that order, and each stands for its neighbours:       *)
(* runtime for timing_source, engine for the launch flags, weights for     *)
(* quant and ctx, exec for allow_exec, cargo_version and exec_target,      *)
(* corpus for prompt_set_hash.                                             *)
(*                                                                         *)
(* The scratch checkout a codebase bench builds in                         *)
(* (core/bench/codebase/tree.rs, exec.rs) is a detached git worktree of    *)
(* HEAD at eval/.scratch/codebase-tree-<head>, one path for every bench of *)
(* that HEAD.  What is kept of it is whether it is there and where its     *)
(* files differ from HEAD: pairs of a file and the fill spliced into it.   *)
(***************************************************************************)
EXTENDS Naturals, Sequences, FiniteSetsExt

CONSTANTS
    NoDir,           \* the stamp.json of a run that does not exist
    Blank            \* a stamp.json created and not yet written

-----------------------------------------------------------------------------
(* The run.                                                                *)

NoJudge == "no judge"
Same == "same"

StampFields == <<"runtime", "engine", "weights", "exec", "corpus", "judge">>

\* A run on disk; a torn results.jsonl ends in a line that does not parse.
NoRun == [head |-> NoDir, rows |-> <<>>, torn |-> FALSE]

FirstMismatch(a, b) ==
    LET differing == {i \in DOMAIN StampFields : a[StampFields[i]] # b[StampFields[i]]}
    IN  IF differing = {} THEN Same ELSE StampFields[Min(differing)]

\* A crossing is recorded under its suite, its case and the door it took.
Buffered == "buffered"
Streamed == "streamed"
Key(suite, id, door) == <<suite, id, door>>

KeysOf(rows) == {rows[i].key : i \in DOMAIN rows}
IsDone(rows, key) == key \in KeysOf(rows)

\* RunLog::load: a stamp that parses and rows that all parse.
Loads(run) == run.head \notin {NoDir, Blank} /\ ~run.torn

\* Mutant: a run is resumed under whatever configuration.
ResumableAnyway(run, stamp) == Loads(run)

\* RunWriter::resume opens the run only under the stamp it was made with.
Resumable(run, stamp) == Loads(run) /\ FirstMismatch(run.head, stamp) = Same

\* adopt_judge takes the judge of a resume if everything else agrees already.
WouldAdopt(run, stamp) ==
    /\ stamp.judge # NoJudge
    /\ run.head.judge = NoJudge
    /\ FirstMismatch([run.head EXCEPT !.judge = stamp.judge], stamp) = Same

\* fs::write truncates stamp.json before it writes it.
StampBlanked(run) == [run EXCEPT !.head = Blank]
StampWritten(run, stamp) == [run EXCEPT !.head = stamp]

\* One write of one line behind whatever the file ends with.
Appended(run, row) == IF run.torn THEN run ELSE [run EXCEPT !.rows = Append(@, row)]
AppendTorn(run) == [run EXCEPT !.torn = TRUE]

-----------------------------------------------------------------------------
(* The scratch checkout.                                                   *)

NoTree == [there |-> FALSE, edits |-> {}]

\* Worktree::add clears what is at its path before git adds the checkout ...
Cleared(tree) == NoTree
\* ... which git refuses when something stands there again.
CanAdd(tree) == ~tree.there
Added(tree) == [there |-> TRUE, edits |-> {}]

\* Worktree::remove fails when the checkout is gone; its Drop does not mind.
CanRemove(tree) == tree.there
Removed(tree) == NoTree

\* exec_crossing reads the file and writes it back with the fill in the span.
InFile(tree, file) == {e \in tree.edits : e[1] = file}
Spliced(tree, original, file, fill) ==
    [tree EXCEPT !.edits = (@ \ InFile(tree, file)) \cup original \cup {<<file, fill>>}]

\* revert takes the file from HEAD and wants the bytes it was spliced over.
Reverted(tree, file) == [tree EXCEPT !.edits = @ \ InFile(tree, file)]
RevertRestores(original) == original = {}

\* What cargo check builds is the whole checkout.
Builds(tree, file, fill) == tree.there /\ tree.edits = {<<file, fill>>}
=============================================================================
