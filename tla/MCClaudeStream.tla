--------------------------- MODULE MCClaudeStream ---------------------------
(***************************************************************************)
(* Instances of ClaudeStream for TLC.                                      *)
(***************************************************************************)
EXTENDS ClaudeStream

CONSTANTS t1, t2      \* two tool-call slots

Data(thinking, text, calls) ==
    [type |-> "data", thinking |-> thinking, content |-> text, calls |-> calls]

Fragment(slot, args) == [slot |-> slot, args |-> args]

Skip  == [type |-> "skip", thinking |-> FALSE, content |-> <<>>, calls |-> <<>>]
Fail  == [Skip EXCEPT !.type = "error"]
Texts(set) == {Data(FALSE, text, <<>>) : text \in set}

\* Opening and closing tags arrive in one frame or cut in two.
TextPieces ==
    {<<"text">>, <<"<thi", "nk>">>, <<"text", "<thi", "nk>", "text">>, <<"text", "</thi">>,
     <<"nk/>", "text">>, <<"text", "<thi">>, <<"nk>", "text">>, <<"<thi", "nk>", "text", "</thi", "nk/>", "text">>}

MCFrames ==
    Texts(TextPieces) \cup
    {Skip, Fail, Data(FALSE, <<>>, <<>>), Data(TRUE, <<>>, <<>>), Data(TRUE, <<"text">>, <<>>),
     Data(FALSE, <<>>, <<Fragment(t1, TRUE)>>), Data(FALSE, <<>>, <<Fragment(t2, FALSE)>>),
     Data(FALSE, <<"text">>, <<Fragment(t1, TRUE), Fragment(t2, TRUE)>>)}

MCSlots == {t1, t2}

=============================================================================
