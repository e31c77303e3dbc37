------------------------------- MODULE Stats --------------------------------
(***************************************************************************)
(* core/stats.rs and core/bench/sweep.rs: what a few noisy samples are     *)
(* summarised to and when two summaries differ.  Samples are naturals; a   *)
(* percentile is interpolated linearly, so a summary is in tenths.         *)
(***************************************************************************)
EXTENDS Integers, Sequences, SequencesExt

CONSTANT NoSummary   \* too few samples to summarise

\* Linear interpolation at tenths/10 of the way along an ascending sequence.
Percentile(sorted, tenths) ==
    LET last == Len(sorted) - 1
        pos == tenths * last
        lo == sorted[pos \div 10 + 1]
        hi == sorted[IF pos \div 10 + 1 > last THEN last + 1 ELSE pos \div 10 + 2]
    IN  10 * lo + (hi - lo) * (pos % 10)

\* The first sample is dropped as warmup.
Summarize(samples) ==
    IF Len(samples) < 2 THEN NoSummary
    ELSE LET sorted == SortSeq(Tail(samples), <)
         IN [ median |-> Percentile(sorted, 5), p10 |-> Percentile(sorted, 1), p90 |-> Percentile(sorted, 9) ]

Faster == "faster"
Slower == "slower"
NoDifference == "no significant difference"

Larger(m, n) == IF m < n THEN n ELSE m

\* Indistinguishable when the p10-p90 intervals overlap or the medians are
\* within `significance` percent of the larger one.
Compare(a, b, significance) ==
    LET overlap == a.p10 <= b.p90 /\ b.p10 <= a.p90
        apart == Larger(a.median - b.median, b.median - a.median)
    IN  IF overlap \/ 100 * apart < significance * Larger(a.median, b.median) THEN NoDifference
        ELSE IF a.median > b.median THEN Faster ELSE Slower

\* measure_depth: the repetitions of one probe, as far as the server answered.
Measure(run) ==
    [ decode |-> Summarize(run.decode), prefill |-> Summarize(run.prefill), promptN |-> run.promptN ]
=============================================================================
