--------------------------- MODULE ModelRegistry ---------------------------
(***************************************************************************)
(* What the registry's users may take for granted: each command changes it *)
(* in one step, by its own edit and by nothing else, or not at all.        *)
(***************************************************************************)
CONSTANTS
    Names,     \* model names
    Revs,      \* revisions of their repositories
    Quants,    \* quantisations
    NoName,    \* no active model
    Absent     \* the entry of a name that is not registered

VARIABLE reg   \* the active model, and the entry of every name

Empty == [active |-> NoName, models |-> [n \in Names |-> Absent]]

Fresh(r, q) == [rev |-> r, quant |-> q, tuned |-> FALSE]

Registered(n) == reg.models[n] # Absent

SetActive(n) ==
    /\ Registered(n)
    /\ reg' = [reg EXCEPT !.active = n]

Remove(n) ==
    /\ Registered(n) /\ reg.active # n
    /\ reg' = [reg EXCEPT !.models[n] = Absent]

\* A pull replaces what the user has made of an entry, flags and all.
Register(n, r, q) == reg' = [reg EXCEPT !.models[n] = Fresh(r, q)]

\* An update leaves the quantisation and the user's flags as they are.
Repoint(n, r) ==
    /\ Registered(n)
    /\ reg' = [reg EXCEPT !.models[n].rev = r]

Tune(n) ==
    /\ Registered(n)
    /\ reg' = [reg EXCEPT !.models[n].tuned = TRUE]

Next ==
    \E n \in Names :
        \/ SetActive(n) \/ Remove(n) \/ Tune(n)
        \/ \E r \in Revs : Repoint(n, r) \/ \E q \in Quants : Register(n, r, q)

Spec == reg = Empty /\ [][Next]_reg

=============================================================================
