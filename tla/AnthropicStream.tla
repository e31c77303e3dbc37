--------------------------- MODULE AnthropicStream ---------------------------
(***************************************************************************)
(* What a strict client accepts on an Anthropic event stream:              *)
(*                                                                         *)
(*   message_start                                                         *)
(*     (content_block_start content_block_delta* content_block_stop)*      *)
(*   message_delta message_stop                                            *)
(*                                                                         *)
(* with the blocks numbered 0, 1, 2, ..., every delta of its block's kind, *)
(* and an `error` event, between two blocks, as the other way to end.      *)
(***************************************************************************)
EXTENDS Naturals

CONSTANTS
    Kinds,     \* what a content block can hold
    NoKind     \* no block is open

VARIABLES
    phase,     \* how far the message is
    open,      \* the kind of the open block, or NoKind
    next,      \* how many blocks have been started
    last       \* the last event received: its type, index and kind

stream == <<phase, open, next, last>>

Init ==
    /\ phase = "idle"
    /\ open = NoKind
    /\ next = 0
    /\ last = [type |-> "none", index |-> 0, kind |-> NoKind]

Received(type, i, k) == last' = [type |-> type, index |-> i, kind |-> k]

MessageStart ==
    /\ phase = "idle"
    /\ phase' = "message"
    /\ Received("message_start", 0, NoKind)
    /\ UNCHANGED <<open, next>>

BlockStart(k) ==
    /\ phase = "message" /\ open = NoKind
    /\ open' = k
    /\ next' = next + 1
    /\ Received("content_block_start", next, k)
    /\ UNCHANGED phase

BlockDelta ==
    /\ phase = "message" /\ open # NoKind
    /\ Received("content_block_delta", next - 1, open)
    /\ UNCHANGED <<phase, open, next>>

BlockStop ==
    /\ phase = "message" /\ open # NoKind
    /\ open' = NoKind
    /\ Received("content_block_stop", next - 1, NoKind)
    /\ UNCHANGED <<phase, next>>

MessageDelta ==
    /\ phase = "message" /\ open = NoKind
    /\ phase' = "closing"
    /\ Received("message_delta", 0, NoKind)
    /\ UNCHANGED <<open, next>>

MessageStop ==
    /\ phase = "closing"
    /\ phase' = "stopped"
    /\ Received("message_stop", 0, NoKind)
    /\ UNCHANGED <<open, next>>

Error ==
    /\ phase = "message" /\ open = NoKind
    /\ phase' = "failed"
    /\ Received("error", 0, NoKind)
    /\ UNCHANGED <<open, next>>

Next ==
    \/ MessageStart \/ (\E k \in Kinds : BlockStart(k)) \/ BlockDelta \/ BlockStop
    \/ MessageDelta \/ MessageStop \/ Error

Spec == Init /\ [][Next]_stream

=============================================================================
