----------------------------- MODULE MCCapacity -----------------------------
(***************************************************************************)
(* An instance of Capacity for TLC.  A MiB is 8 bytes and the context is   *)
(* padded to 4 tokens; "dense" comes in three quants, two of them spelled  *)
(* alike and one with a shard whose size is withheld, beside a projector   *)
(* and a draft; "hybrid" has a header to be read with care.                *)
(***************************************************************************)
EXTENDS Capacity

Q(of, upper) == [of |-> of, upper |-> upper]
Gguf(name, tag, size, header) ==
    [ dir |-> "", dirTag |-> NoTag, name |-> name, tag |-> tag, weights |-> TRUE, shard |-> 0,
      size |-> size, true |-> size, header |-> header ]
U(key, n) == [key |-> key, value |-> [u32 |-> n]]
Template(markers) == [key |-> "chat_template", value |-> markers]

QwenTools == {"<tool_call>", "<function=", "<parameter="}
DenseHeader == <<U("block_count", 4), U("nextn_predict_layers", 1), U("head_count_kv", 1), U("key_length", 1),
                 U("value_length", 1), Template({"plain"})>>
HybridHeader == <<U("block_count", 4), U("full_attention_interval", 2), U("key_length", 2), U("key_length_mla", 1),
                  [key |-> "head_count_kv", value |-> [array |-> <<1, 1>>]], U("other", 9), Template(QwenTools)>>
\* No key_length: the cache cannot be computed.
ShortHeader == <<U("block_count", 4), U("head_count_kv", 1), [key |-> "key_length", value |-> [array |-> <<>>]]>>

Dense == {
    Gguf("d-Q4.gguf", Q("q4", TRUE), 40, DenseHeader),
    Gguf("d-q4.gguf", Q("q4", FALSE), 36, ShortHeader),
    [Gguf("Q8/d-1.gguf", NoTag, 48, NoHeader) EXCEPT !.dir = "Q8", !.dirTag = Q("q8", TRUE), !.shard = 1],
    [Gguf("Q8/d-2.gguf", NoTag, NoSize, NoHeader) EXCEPT !.dir = "Q8", !.dirTag = Q("q8", TRUE), !.shard = 2, !.true = 32],
    [Gguf("mmproj-Q8.gguf", Q("q8", TRUE), 8, NoHeader) EXCEPT !.weights = FALSE],
    [Gguf("MTP/d-Q4.gguf", Q("q4", TRUE), 8, DenseHeader) EXCEPT !.dir = "MTP"],
    [Gguf("README.md", NoTag, 1, NoHeader) EXCEPT !.weights = FALSE] }
Hybrid == { Gguf("h-Q4.gguf", Q("q4", TRUE), 40, HybridHeader) }

MCRepos == [m \in {"dense", "hybrid"} |-> IF m = "dense" THEN Dense ELSE Hybrid]
MCTemplates == [m \in {"dense", "hybrid"} |-> IF m = "dense" THEN Unknown ELSE QwenTools]
MCDefaults == [ctx |-> 4, flags |-> <<"f16">>]
MCCaches == {<<>>, <<"q8_0">>}
MCWireds == {Unknown, 0, 12}
MCEngines == {Unknown, 14}
MCMemories == {Unknown, 176}
MCFloors == {Unknown, 13, 30}
MCSweeps == { {[depth |-> 1, samples |-> <<0, 10, 12>>], [depth |-> 2, samples |-> <<0, 8, 8>>], [depth |-> 3, samples |-> <<0>>]},
              {[depth |-> 1, samples |-> <<0>>]} }
=============================================================================
