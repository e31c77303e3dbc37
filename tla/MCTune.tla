------------------------------- MODULE MCTune -------------------------------
(***************************************************************************)
(* Instances of Tune for TLC: two values a stage, the defaults that chekov *)
(* ships, and samples that are level, traded, noisy and too thin.          *)
(***************************************************************************)
EXTENDS Tune

MCNumber == ("1" :> 1) @@ ("512" :> 512) @@ ("1024" :> 1024) @@ ("2048" :> 2048) @@ ("4096" :> 4096)
MCDraftLength == ("mtp:1" :> "1")

MCDefaults == <<"--jinja", "--flash-attn", "on", "--cache-type-k", "q8_0", "--cache-type-v", "q8_0">>
MCExtras == { <<>>, <<"--spec-type", "draft-mtp", "--spec-draft-n-max", "1", "-b", "1024">>,
              <<"-b", "512", "-b", "1024">>, <<"-fa", "off">> }
MCLists == [ spec |-> <<"off", "mtp:1">>, fa |-> <<"on", "off">>, kv |-> <<"q8_0", "f16">>,
             batch |-> <<"512", "4096">>, ubatch |-> <<"512", "2048">> ]
MCRequests == { {"spec"}, {"spec", "fa"}, {"fa", "kv"}, {"kv", "batch"}, {"batch", "ubatch"} }

Steady(decode, prefill) == [decode |-> <<1, decode, decode>>, prefill |-> <<1, prefill, prefill>>, promptN |-> 4096]
MCRuns ==
    { Steady(100, 100), Steady(110, 90), Steady(95, 95), Steady(80, 120),
      [decode |-> <<1, 90, 130>>, prefill |-> <<1, 100, 100>>, promptN |-> 4096],
      [decode |-> <<100>>, prefill |-> <<100>>, promptN |-> 4096] }
=============================================================================
