--------------------------- MODULE Exchange_proofs ---------------------------
(***************************************************************************)
(* What an agent and a bench get of any regular answer, for any requests,  *)
(* answers, listings and contexts and however a reply is cut into frames:  *)
(* proofs about Exchange.  Lists and folds come first, then what one frame *)
(* does to a translator, the exchange, what a grade reads of a message,    *)
(* what a bench crossing records, and what goes upstream of a conversation.*)
(***************************************************************************)
EXTENDS Exchange, SequenceTheorems, WellFoundedInduction, TLAPS

-----------------------------------------------------------------------------
(* Lists and folds.                                                        *)

LEMMA ListPlaces ==
    ASSUME NEW s, IsList(s)
    PROVE  Len(s) \in Nat /\ DOMAIN s = 1..Len(s)
BY DEF IsList

LEMMA Appended ==
    ASSUME NEW s, IsList(s), NEW e
    PROVE  LET t == Append(s, e)
           IN  /\ IsList(t) /\ Len(t) = Len(s) + 1
               /\ \A n \in 1..Len(s) : t[n] = s[n]
               /\ t[Len(s) + 1] = e
<1> DEFINE S == Range(s) \cup {e}
           t == Append(s, e)
<1>1. s \in Seq(S) /\ e \in S
  <2>1. s \in Seq(Range(s))
    BY DEF IsList
  <2>2. Range(s) \subseteq S
    OBVIOUS
  <2> QED BY <2>1, <2>2, SeqMonotonic
<1> HIDE DEF S
<1>2. /\ t \in Seq(S) /\ Len(t) = Len(s) + 1
      /\ \A n \in 1..Len(s) : t[n] = s[n]
      /\ t[Len(s) + 1] = e
  BY <1>1, AppendProperties
<1> HIDE DEF t
<1>3. IsList(t)
  BY <1>2, SeqOfRange DEF IsList
<1>4. IsList(t) /\ Len(t) = Len(s) + 1 /\ (\A n \in 1..Len(s) : t[n] = s[n]) /\ t[Len(s) + 1] = e
  BY <1>2, <1>3
<1> QED BY <1>4 DEF t

LEMMA HighestIs ==
    ASSUME NEW m \in Nat, NEW t \in SUBSET (1..m), m \in t
    PROVE  Max(t) = m
<1>1. \A y \in t : m >= y /\ y \in Nat
  OBVIOUS
<1>2. \E x \in t : \A y \in t : x >= y
  BY <1>1
<1>3. Max(t) \in t /\ \A y \in t : Max(t) >= y
  BY <1>2, Zenon DEF Max
<1>4. Max(t) >= m /\ m >= Max(t) /\ Max(t) \in Nat
  BY <1>1, <1>3
<1> HIDE DEF Max
<1> QED BY <1>4

LEMMA LeastNumber ==
    ASSUME NEW T \in SUBSET Nat, T # {}
    PROVE  \E i \in T : \A j \in T : i <= j
<1>1. PICK i \in T : \A j \in T : ~(<<j, i>> \in OpToRel(<, Nat))
  BY NatLessThanWellFounded, WFMin, Zenon
<1>2. ASSUME NEW j \in T PROVE ~(j < i)
  <2>1. <<j, i>> \in Nat \X Nat
    OBVIOUS
  <2>2. <<j, i>>[1] = j /\ <<j, i>>[2] = i
    OBVIOUS
  <2> QED BY <1>1, <2>1, <2>2, Zenon DEF OpToRel
<1>3. \A j \in T : i <= j
  BY <1>2
<1> QED BY <1>3

\* What on_tool_calls makes of the fragments of a frame, one after another.
LEMMA FoldCalls ==
    ASSUME NEW base, NEW s, IsList(s)
    PROVE  \E h : /\ h[0] = base
                  /\ \A n \in 1..Len(s) : h[n] = OnToolCall(h[n - 1], s[n])
                  /\ h[Len(s)] = FoldLeft(OnToolCall, base, s)
<1> DEFINE IsFold(g, S) ==
             g = [t \in SUBSET S |-> IF t = {} THEN base ELSE OnToolCall(g[t \ {Max(t)}], s[Max(t)])]
           Bad == {m \in Nat : ~\E g : IsFold(g, 1..m)}
<1>0. Len(s) \in Nat /\ DOMAIN s = 1..Len(s)
  BY ListPlaces
<1>1. FoldLeft(OnToolCall, base, s) = (CHOOSE g : IsFold(g, DOMAIN s))[DOMAIN s]
  BY Zenon DEF FoldLeft, MapThenFoldSet
<1>2. Bad = {}
  <2> SUFFICES ASSUME Bad # {} PROVE FALSE
    OBVIOUS
  <2>1. PICK m \in Bad : \A j \in Bad : m <= j
    BY LeastNumber
  <2>2. m # 0
    <3>1. IsFold([t \in SUBSET (1..0) |-> base], 1..0)
      <4>1. SUBSET (1..0) = {{}}
        OBVIOUS
      <4> QED BY <4>1
    <3> QED BY <3>1, <2>1
  <2>3. m - 1 \in Nat /\ m \in Nat /\ m - 1 \notin Bad
    <3>1. m \in Nat
      OBVIOUS
    <3>2. m - 1 \in Nat /\ ~(m <= m - 1)
      BY <2>2, <3>1
    <3> QED BY <2>1, <3>1, <3>2, Zenon
  <2>4. PICK g : IsFold(g, 1..(m - 1))
    BY <2>3
  <2> DEFINE e == [t \in SUBSET (1..m) |-> IF m \in t THEN OnToolCall(g[t \ {m}], s[m]) ELSE g[t]]
  <2>5. ASSUME NEW t \in SUBSET (1..m)
        PROVE  e[t] = IF t = {} THEN base ELSE OnToolCall(e[t \ {Max(t)}], s[Max(t)])
    <3>1. CASE m \in t
      <4>1. Max(t) = m /\ t # {} /\ m \notin t \ {m} /\ t \ {m} \in SUBSET (1..m)
        BY <2>3, <3>1, HighestIs
      <4>2. e[t] = OnToolCall(g[t \ {m}], s[m]) /\ e[t \ {m}] = g[t \ {m}]
        BY <3>1, <4>1
      <4> HIDE DEF e
      <4> QED BY <4>1, <4>2
    <3>2. CASE m \notin t
      <4>1. t \in SUBSET (1..(m - 1))
        BY <2>3, <3>2
      <4>2. e[t] = g[t]
        BY <3>2
      <4>3. g[t] = IF t = {} THEN base ELSE OnToolCall(g[t \ {Max(t)}], s[Max(t)])
        BY <2>4, <4>1
      <4>4. t \ {Max(t)} \in SUBSET (1..m) /\ m \notin t \ {Max(t)}
        BY <3>2
      <4>5. e[t \ {Max(t)}] = g[t \ {Max(t)}]
        BY <4>4
      <4> HIDE DEF e
      <4> QED BY <4>2, <4>3, <4>5
    <3> QED BY <3>1, <3>2
  <2>6. IsFold(e, 1..m)
    <3>1. e = [t \in SUBSET (1..m) |-> e[t]]
      OBVIOUS
    <3> HIDE DEF e
    <3> QED BY <2>5, <3>1
  <2> QED BY <2>1, <2>6
<1> DEFINE f == CHOOSE g : IsFold(g, DOMAIN s)
<1>3. IsFold(f, 1..Len(s))
  <2>1. \E g : IsFold(g, 1..Len(s))
    BY <1>0, <1>2
  <2> HIDE DEF IsFold
  <2>2. IsFold(f, DOMAIN s)
    BY <1>0, <2>1
  <2> QED BY <1>0, <2>2
<1>4. f[1..Len(s)] = FoldLeft(OnToolCall, base, s)
  BY <1>0, <1>1
<1> HIDE DEF f
<1> DEFINE h == [n \in 0..Len(s) |-> f[1..n]]
<1>5. h[0] = base
  <2>1. 1..0 = {} /\ 1..0 \in SUBSET (1..Len(s)) /\ 0 \in 0..Len(s)
    BY <1>0
  <2>2. f[1..0] = base
    BY <1>3, <2>1
  <2> QED BY <2>1, <2>2
<1>6. ASSUME NEW n \in 1..Len(s) PROVE h[n] = OnToolCall(h[n - 1], s[n])
  <2>1. /\ n \in Nat /\ n \in 1..n /\ n \in 0..Len(s) /\ n - 1 \in 0..Len(s)
        /\ 1..n \in SUBSET (1..Len(s)) /\ 1..n # {}
    BY <1>0
  <2>2. Max(1..n) = n
    BY <2>1, HighestIs
  <2>3. (1..n) \ {n} = 1..(n - 1)
    BY <2>1
  <2>4. f[1..n] = OnToolCall(f[1..n \ {Max(1..n)}], s[Max(1..n)])
    BY <1>3, <2>1
  <2> QED BY <2>1, <2>2, <2>3, <2>4
<1>7. h[Len(s)] = FoldLeft(OnToolCall, base, s)
  BY <1>0, <1>4
<1> HIDE DEF h
<1> QED BY <1>5, <1>6, <1>7

\* A frame merges its atoms one after another.
LEMMA FoldMerge ==
    ASSUME NEW s, IsList(s)
    PROVE  \E h : /\ h[0] = Atom
                  /\ \A n \in 1..Len(s) : h[n] = Merge(h[n - 1], s[n])
                  /\ h[Len(s)] = FoldLeft(Merge, Atom, s)
<1> DEFINE IsFold(g, S) ==
             g = [t \in SUBSET S |-> IF t = {} THEN Atom ELSE Merge(g[t \ {Max(t)}], s[Max(t)])]
           Bad == {m \in Nat : ~\E g : IsFold(g, 1..m)}
<1>0. Len(s) \in Nat /\ DOMAIN s = 1..Len(s)
  BY ListPlaces
<1>1. FoldLeft(Merge, Atom, s) = (CHOOSE g : IsFold(g, DOMAIN s))[DOMAIN s]
  BY Zenon DEF FoldLeft, MapThenFoldSet
<1>2. Bad = {}
  <2> SUFFICES ASSUME Bad # {} PROVE FALSE
    OBVIOUS
  <2>1. PICK m \in Bad : \A j \in Bad : m <= j
    BY LeastNumber
  <2>2. m # 0
    <3>1. IsFold([t \in SUBSET (1..0) |-> Atom], 1..0)
      <4>1. SUBSET (1..0) = {{}}
        OBVIOUS
      <4> QED BY <4>1
    <3> QED BY <3>1, <2>1
  <2>3. m - 1 \in Nat /\ m \in Nat /\ m - 1 \notin Bad
    <3>1. m \in Nat
      OBVIOUS
    <3>2. m - 1 \in Nat /\ ~(m <= m - 1)
      BY <2>2, <3>1
    <3> QED BY <2>1, <3>1, <3>2, Zenon
  <2>4. PICK g : IsFold(g, 1..(m - 1))
    BY <2>3
  <2> DEFINE e == [t \in SUBSET (1..m) |-> IF m \in t THEN Merge(g[t \ {m}], s[m]) ELSE g[t]]
  <2>5. ASSUME NEW t \in SUBSET (1..m)
        PROVE  e[t] = IF t = {} THEN Atom ELSE Merge(e[t \ {Max(t)}], s[Max(t)])
    <3>1. CASE m \in t
      <4>1. Max(t) = m /\ t # {} /\ m \notin t \ {m} /\ t \ {m} \in SUBSET (1..m)
        BY <2>3, <3>1, HighestIs
      <4>2. e[t] = Merge(g[t \ {m}], s[m]) /\ e[t \ {m}] = g[t \ {m}]
        BY <3>1, <4>1
      <4> HIDE DEF e
      <4> QED BY <4>1, <4>2
    <3>2. CASE m \notin t
      <4>1. t \in SUBSET (1..(m - 1))
        BY <2>3, <3>2
      <4>2. e[t] = g[t]
        BY <3>2
      <4>3. g[t] = IF t = {} THEN Atom ELSE Merge(g[t \ {Max(t)}], s[Max(t)])
        BY <2>4, <4>1
      <4>4. t \ {Max(t)} \in SUBSET (1..m) /\ m \notin t \ {Max(t)}
        BY <3>2
      <4>5. e[t \ {Max(t)}] = g[t \ {Max(t)}]
        BY <4>4
      <4> HIDE DEF e
      <4> QED BY <4>2, <4>3, <4>5
    <3> QED BY <3>1, <3>2
  <2>6. IsFold(e, 1..m)
    <3>1. e = [t \in SUBSET (1..m) |-> e[t]]
      OBVIOUS
    <3> HIDE DEF e
    <3> QED BY <2>5, <3>1
  <2> QED BY <2>1, <2>6
<1> DEFINE f == CHOOSE g : IsFold(g, DOMAIN s)
<1>3. IsFold(f, 1..Len(s))
  <2>1. \E g : IsFold(g, 1..Len(s))
    BY <1>0, <1>2
  <2> HIDE DEF IsFold
  <2>2. IsFold(f, DOMAIN s)
    BY <1>0, <2>1
  <2> QED BY <1>0, <2>2
<1>4. f[1..Len(s)] = FoldLeft(Merge, Atom, s)
  BY <1>0, <1>1
<1> HIDE DEF f
<1> DEFINE h == [n \in 0..Len(s) |-> f[1..n]]
<1>5. h[0] = Atom
  <2>1. 1..0 = {} /\ 1..0 \in SUBSET (1..Len(s)) /\ 0 \in 0..Len(s)
    BY <1>0
  <2>2. f[1..0] = Atom
    BY <1>3, <2>1
  <2> QED BY <2>1, <2>2
<1>6. ASSUME NEW n \in 1..Len(s) PROVE h[n] = Merge(h[n - 1], s[n])
  <2>1. /\ n \in Nat /\ n \in 1..n /\ n \in 0..Len(s) /\ n - 1 \in 0..Len(s)
        /\ 1..n \in SUBSET (1..Len(s)) /\ 1..n # {}
    BY <1>0
  <2>2. Max(1..n) = n
    BY <2>1, HighestIs
  <2>3. (1..n) \ {n} = 1..(n - 1)
    BY <2>1
  <2>4. f[1..n] = Merge(f[1..n \ {Max(1..n)}], s[Max(1..n)])
    BY <1>3, <2>1
  <2> QED BY <2>1, <2>2, <2>3, <2>4
<1>7. h[Len(s)] = FoldLeft(Merge, Atom, s)
  BY <1>0, <1>4
<1> HIDE DEF h
<1> QED BY <1>5, <1>6, <1>7

\* Sequences laid end to end, one after another.
LEMMA FoldFlat ==
    ASSUME NEW s, IsList(s)
    PROVE  \E h : /\ h[0] = <<>>
                  /\ \A n \in 1..Len(s) : h[n] = h[n - 1] \o s[n]
                  /\ h[Len(s)] = Flat(s)
<1> DEFINE IsFold(g, S) ==
             g = [t \in SUBSET S |-> IF t = {} THEN <<>> ELSE g[t \ {Max(t)}] \o s[Max(t)]]
           Bad == {m \in Nat : ~\E g : IsFold(g, 1..m)}
<1>0. Len(s) \in Nat /\ DOMAIN s = 1..Len(s)
  BY ListPlaces
<1>1. Flat(s) = (CHOOSE g : IsFold(g, DOMAIN s))[DOMAIN s]
  BY Zenon DEF FoldLeft, MapThenFoldSet, Flat
<1>2. Bad = {}
  <2> SUFFICES ASSUME Bad # {} PROVE FALSE
    OBVIOUS
  <2>1. PICK m \in Bad : \A j \in Bad : m <= j
    BY LeastNumber
  <2>2. m # 0
    <3>1. IsFold([t \in SUBSET (1..0) |-> <<>>], 1..0)
      <4>1. SUBSET (1..0) = {{}}
        OBVIOUS
      <4> QED BY <4>1
    <3> QED BY <3>1, <2>1
  <2>3. m - 1 \in Nat /\ m \in Nat /\ m - 1 \notin Bad
    <3>1. m \in Nat
      OBVIOUS
    <3>2. m - 1 \in Nat /\ ~(m <= m - 1)
      BY <2>2, <3>1
    <3> QED BY <2>1, <3>1, <3>2, Zenon
  <2>4. PICK g : IsFold(g, 1..(m - 1))
    BY <2>3
  <2> DEFINE e == [t \in SUBSET (1..m) |-> IF m \in t THEN g[t \ {m}] \o s[m] ELSE g[t]]
  <2>5. ASSUME NEW t \in SUBSET (1..m)
        PROVE  e[t] = IF t = {} THEN <<>> ELSE e[t \ {Max(t)}] \o s[Max(t)]
    <3>1. CASE m \in t
      <4>1. Max(t) = m /\ t # {} /\ m \notin t \ {m} /\ t \ {m} \in SUBSET (1..m)
        BY <2>3, <3>1, HighestIs
      <4>2. e[t] = g[t \ {m}] \o s[m] /\ e[t \ {m}] = g[t \ {m}]
        BY <3>1, <4>1
      <4> HIDE DEF e
      <4> QED BY <4>1, <4>2
    <3>2. CASE m \notin t
      <4>1. t \in SUBSET (1..(m - 1))
        BY <2>3, <3>2
      <4>2. e[t] = g[t]
        BY <3>2
      <4>3. g[t] = IF t = {} THEN <<>> ELSE g[t \ {Max(t)}] \o s[Max(t)]
        BY <2>4, <4>1
      <4>4. t \ {Max(t)} \in SUBSET (1..m) /\ m \notin t \ {Max(t)}
        BY <3>2
      <4>5. e[t \ {Max(t)}] = g[t \ {Max(t)}]
        BY <4>4
      <4> HIDE DEF e
      <4> QED BY <4>2, <4>3, <4>5
    <3> QED BY <3>1, <3>2
  <2>6. IsFold(e, 1..m)
    <3>1. e = [t \in SUBSET (1..m) |-> e[t]]
      OBVIOUS
    <3> HIDE DEF e
    <3> QED BY <2>5, <3>1
  <2> QED BY <2>1, <2>6
<1> DEFINE f == CHOOSE g : IsFold(g, DOMAIN s)
<1>3. IsFold(f, 1..Len(s))
  <2>1. \E g : IsFold(g, 1..Len(s))
    BY <1>0, <1>2
  <2> HIDE DEF IsFold
  <2>2. IsFold(f, DOMAIN s)
    BY <1>0, <2>1
  <2> QED BY <1>0, <2>2
<1>4. f[1..Len(s)] = Flat(s)
  BY <1>0, <1>1
<1> HIDE DEF f
<1> DEFINE h == [n \in 0..Len(s) |-> f[1..n]]
<1>5. h[0] = <<>>
  <2>1. 1..0 = {} /\ 1..0 \in SUBSET (1..Len(s)) /\ 0 \in 0..Len(s)
    BY <1>0
  <2>2. f[1..0] = <<>>
    BY <1>3, <2>1
  <2> QED BY <2>1, <2>2
<1>6. ASSUME NEW n \in 1..Len(s) PROVE h[n] = h[n - 1] \o s[n]
  <2>1. /\ n \in Nat /\ n \in 1..n /\ n \in 0..Len(s) /\ n - 1 \in 0..Len(s)
        /\ 1..n \in SUBSET (1..Len(s)) /\ 1..n # {}
    BY <1>0
  <2>2. Max(1..n) = n
    BY <2>1, HighestIs
  <2>3. (1..n) \ {n} = 1..(n - 1)
    BY <2>1
  <2>4. f[1..n] = f[1..n \ {Max(1..n)}] \o s[Max(1..n)]
    BY <1>3, <2>1
  <2> QED BY <2>1, <2>2, <2>3, <2>4
<1>7. h[Len(s)] = Flat(s)
  BY <1>0, <1>4
<1> HIDE DEF h
<1> QED BY <1>5, <1>6, <1>7

\* One element more is one step more.
LEMMA FoldFlatMore ==
    ASSUME NEW s, IsList(s), NEW e
    PROVE  Flat(Append(s, e)) = Flat(s) \o e
<1> DEFINE t == Append(s, e)
<1>0. /\ Len(s) \in Nat /\ IsList(t) /\ Len(t) = Len(s) + 1
      /\ \A n \in 1..Len(s) : t[n] = s[n]
      /\ t[Len(s) + 1] = e
  BY Appended, ListPlaces
<1> HIDE DEF t
<1>1. PICK h : /\ h[0] = <<>>
               /\ \A n \in 1..Len(s) : h[n] = h[n - 1] \o s[n]
               /\ h[Len(s)] = Flat(s)
  BY FoldFlat
<1>2. PICK g : /\ g[0] = <<>>
               /\ \A n \in 1..Len(t) : g[n] = g[n - 1] \o t[n]
               /\ g[Len(t)] = Flat(t)
  BY <1>0, FoldFlat
<1> DEFINE Bad == {n \in 0..Len(s) : g[n] # h[n]}
<1>3. Bad = {}
  <2> SUFFICES ASSUME Bad # {} PROVE FALSE
    OBVIOUS
  <2>0. Bad \in SUBSET Nat
    BY <1>0
  <2>1. PICK m \in Bad : \A j \in Bad : m <= j
    BY <2>0, LeastNumber, Zenon
  <2>2. m \in 1..Len(s) /\ m - 1 \in 0..Len(s) /\ ~(m <= m - 1) /\ m \in 1..Len(t)
    BY <1>0, <1>1, <1>2
  <2>3. g[m - 1] = h[m - 1]
    BY <2>1, <2>2
  <2>4. t[m] = s[m]
    BY <1>0, <2>2
  <2>5. g[m] = h[m]
    BY <1>1, <1>2, <2>2, <2>3, <2>4
  <2> QED BY <2>5
<1>4. g[Len(s)] = h[Len(s)]
  BY <1>0, <1>3
<1>5. Len(t) \in 1..Len(t) /\ Len(t) - 1 = Len(s)
  BY <1>0
<1>6. g[Len(t)] = g[Len(t) - 1] \o t[Len(t)]
  BY <1>2, <1>5
<1>7. Flat(t) = Flat(s) \o e
  BY <1>0, <1>1, <1>2, <1>4, <1>5, <1>6
<1> QED BY <1>7 DEF t

LEMMA FoldFlatNone == Flat(<<>>) = <<>>
<1>1. IsList(<<>>) /\ Len(<<>>) = 0
  BY DEF IsList
<1> QED BY <1>1, FoldFlat

\* An agent folds the events one after another.
LEMMA FoldAssembly ==
    ASSUME NEW s, IsList(s)
    PROVE  \E h : /\ h[0] = FreshAssembly
                  /\ \A n \in 1..Len(s) : h[n] = AssembleStep(h[n - 1], s[n])
                  /\ h[Len(s)] = FoldLeft(AssembleStep, FreshAssembly, s)
<1> DEFINE IsFold(g, S) ==
             g = [t \in SUBSET S |-> IF t = {} THEN FreshAssembly ELSE AssembleStep(g[t \ {Max(t)}], s[Max(t)])]
           Bad == {m \in Nat : ~\E g : IsFold(g, 1..m)}
<1>0. Len(s) \in Nat /\ DOMAIN s = 1..Len(s)
  BY ListPlaces
<1>1. FoldLeft(AssembleStep, FreshAssembly, s) = (CHOOSE g : IsFold(g, DOMAIN s))[DOMAIN s]
  BY Zenon DEF FoldLeft, MapThenFoldSet
<1>2. Bad = {}
  <2> SUFFICES ASSUME Bad # {} PROVE FALSE
    OBVIOUS
  <2>1. PICK m \in Bad : \A j \in Bad : m <= j
    BY LeastNumber
  <2>2. m # 0
    <3>1. IsFold([t \in SUBSET (1..0) |-> FreshAssembly], 1..0)
      <4>1. SUBSET (1..0) = {{}}
        OBVIOUS
      <4> QED BY <4>1
    <3> QED BY <3>1, <2>1
  <2>3. m - 1 \in Nat /\ m \in Nat /\ m - 1 \notin Bad
    <3>1. m \in Nat
      OBVIOUS
    <3>2. m - 1 \in Nat /\ ~(m <= m - 1)
      BY <2>2, <3>1
    <3> QED BY <2>1, <3>1, <3>2, Zenon
  <2>4. PICK g : IsFold(g, 1..(m - 1))
    BY <2>3
  <2> DEFINE e == [t \in SUBSET (1..m) |-> IF m \in t THEN AssembleStep(g[t \ {m}], s[m]) ELSE g[t]]
  <2>5. ASSUME NEW t \in SUBSET (1..m)
        PROVE  e[t] = IF t = {} THEN FreshAssembly ELSE AssembleStep(e[t \ {Max(t)}], s[Max(t)])
    <3>1. CASE m \in t
      <4>1. Max(t) = m /\ t # {} /\ m \notin t \ {m} /\ t \ {m} \in SUBSET (1..m)
        BY <2>3, <3>1, HighestIs
      <4>2. e[t] = AssembleStep(g[t \ {m}], s[m]) /\ e[t \ {m}] = g[t \ {m}]
        BY <3>1, <4>1
      <4> HIDE DEF e
      <4> QED BY <4>1, <4>2
    <3>2. CASE m \notin t
      <4>1. t \in SUBSET (1..(m - 1))
        BY <2>3, <3>2
      <4>2. e[t] = g[t]
        BY <3>2
      <4>3. g[t] = IF t = {} THEN FreshAssembly ELSE AssembleStep(g[t \ {Max(t)}], s[Max(t)])
        BY <2>4, <4>1
      <4>4. t \ {Max(t)} \in SUBSET (1..m) /\ m \notin t \ {Max(t)}
        BY <3>2
      <4>5. e[t \ {Max(t)}] = g[t \ {Max(t)}]
        BY <4>4
      <4> HIDE DEF e
      <4> QED BY <4>2, <4>3, <4>5
    <3> QED BY <3>1, <3>2
  <2>6. IsFold(e, 1..m)
    <3>1. e = [t \in SUBSET (1..m) |-> e[t]]
      OBVIOUS
    <3> HIDE DEF e
    <3> QED BY <2>5, <3>1
  <2> QED BY <2>1, <2>6
<1> DEFINE f == CHOOSE g : IsFold(g, DOMAIN s)
<1>3. IsFold(f, 1..Len(s))
  <2>1. \E g : IsFold(g, 1..Len(s))
    BY <1>0, <1>2
  <2> HIDE DEF IsFold
  <2>2. IsFold(f, DOMAIN s)
    BY <1>0, <2>1
  <2> QED BY <1>0, <2>2
<1>4. f[1..Len(s)] = FoldLeft(AssembleStep, FreshAssembly, s)
  BY <1>0, <1>1
<1> HIDE DEF f
<1> DEFINE h == [n \in 0..Len(s) |-> f[1..n]]
<1>5. h[0] = FreshAssembly
  <2>1. 1..0 = {} /\ 1..0 \in SUBSET (1..Len(s)) /\ 0 \in 0..Len(s)
    BY <1>0
  <2>2. f[1..0] = FreshAssembly
    BY <1>3, <2>1
  <2> QED BY <2>1, <2>2
<1>6. ASSUME NEW n \in 1..Len(s) PROVE h[n] = AssembleStep(h[n - 1], s[n])
  <2>1. /\ n \in Nat /\ n \in 1..n /\ n \in 0..Len(s) /\ n - 1 \in 0..Len(s)
        /\ 1..n \in SUBSET (1..Len(s)) /\ 1..n # {}
    BY <1>0
  <2>2. Max(1..n) = n
    BY <2>1, HighestIs
  <2>3. (1..n) \ {n} = 1..(n - 1)
    BY <2>1
  <2>4. f[1..n] = AssembleStep(f[1..n \ {Max(1..n)}], s[Max(1..n)])
    BY <1>3, <2>1
  <2> QED BY <2>1, <2>2, <2>3, <2>4
<1>7. h[Len(s)] = FoldLeft(AssembleStep, FreshAssembly, s)
  BY <1>0, <1>4
<1> HIDE DEF h
<1> QED BY <1>5, <1>6, <1>7

\* One element more is one step more.
LEMMA FoldAssemblyMore ==
    ASSUME NEW s, IsList(s), NEW e
    PROVE  FoldLeft(AssembleStep, FreshAssembly, Append(s, e)) = AssembleStep(FoldLeft(AssembleStep, FreshAssembly, s), e)
<1> DEFINE t == Append(s, e)
<1>0. /\ Len(s) \in Nat /\ IsList(t) /\ Len(t) = Len(s) + 1
      /\ \A n \in 1..Len(s) : t[n] = s[n]
      /\ t[Len(s) + 1] = e
  BY Appended, ListPlaces
<1> HIDE DEF t
<1>1. PICK h : /\ h[0] = FreshAssembly
               /\ \A n \in 1..Len(s) : h[n] = AssembleStep(h[n - 1], s[n])
               /\ h[Len(s)] = FoldLeft(AssembleStep, FreshAssembly, s)
  BY FoldAssembly
<1>2. PICK g : /\ g[0] = FreshAssembly
               /\ \A n \in 1..Len(t) : g[n] = AssembleStep(g[n - 1], t[n])
               /\ g[Len(t)] = FoldLeft(AssembleStep, FreshAssembly, t)
  BY <1>0, FoldAssembly
<1> DEFINE Bad == {n \in 0..Len(s) : g[n] # h[n]}
<1>3. Bad = {}
  <2> SUFFICES ASSUME Bad # {} PROVE FALSE
    OBVIOUS
  <2>0. Bad \in SUBSET Nat
    BY <1>0
  <2>1. PICK m \in Bad : \A j \in Bad : m <= j
    BY <2>0, LeastNumber, Zenon
  <2>2. m \in 1..Len(s) /\ m - 1 \in 0..Len(s) /\ ~(m <= m - 1) /\ m \in 1..Len(t)
    BY <1>0, <1>1, <1>2
  <2>3. g[m - 1] = h[m - 1]
    BY <2>1, <2>2
  <2>4. t[m] = s[m]
    BY <1>0, <2>2
  <2>5. g[m] = h[m]
    BY <1>1, <1>2, <2>2, <2>3, <2>4
  <2> QED BY <2>5
<1>4. g[Len(s)] = h[Len(s)]
  BY <1>0, <1>3
<1>5. Len(t) \in 1..Len(t) /\ Len(t) - 1 = Len(s)
  BY <1>0
<1>6. g[Len(t)] = AssembleStep(g[Len(t) - 1], t[Len(t)])
  BY <1>2, <1>5
<1>7. FoldLeft(AssembleStep, FreshAssembly, t) = AssembleStep(FoldLeft(AssembleStep, FreshAssembly, s), e)
  BY <1>0, <1>1, <1>2, <1>4, <1>5, <1>6
<1> QED BY <1>7 DEF t

LEMMA FoldAssemblyNone == FoldLeft(AssembleStep, FreshAssembly, <<>>) = FreshAssembly
<1>1. IsList(<<>>) /\ Len(<<>>) = 0
  BY DEF IsList
<1> QED BY <1>1, FoldAssembly

\* A bench crossing translates its frames one after another.
LEMMA FoldChunks ==
    ASSUME NEW s, IsList(s)
    PROVE  \E h : /\ h[0] = FreshTranslator
                  /\ \A n \in 1..Len(s) : h[n] = OnChunk(h[n - 1], s[n])
                  /\ h[Len(s)] = Translated(s)
<1> DEFINE IsFold(g, S) ==
             g = [t \in SUBSET S |-> IF t = {} THEN FreshTranslator ELSE OnChunk(g[t \ {Max(t)}], s[Max(t)])]
           Bad == {m \in Nat : ~\E g : IsFold(g, 1..m)}
<1>0. Len(s) \in Nat /\ DOMAIN s = 1..Len(s)
  BY ListPlaces
<1>1. Translated(s) = (CHOOSE g : IsFold(g, DOMAIN s))[DOMAIN s]
  BY Zenon DEF FoldLeft, MapThenFoldSet, Translated
<1>2. Bad = {}
  <2> SUFFICES ASSUME Bad # {} PROVE FALSE
    OBVIOUS
  <2>1. PICK m \in Bad : \A j \in Bad : m <= j
    BY LeastNumber
  <2>2. m # 0
    <3>1. IsFold([t \in SUBSET (1..0) |-> FreshTranslator], 1..0)
      <4>1. SUBSET (1..0) = {{}}
        OBVIOUS
      <4> QED BY <4>1
    <3> QED BY <3>1, <2>1
  <2>3. m - 1 \in Nat /\ m \in Nat /\ m - 1 \notin Bad
    <3>1. m \in Nat
      OBVIOUS
    <3>2. m - 1 \in Nat /\ ~(m <= m - 1)
      BY <2>2, <3>1
    <3> QED BY <2>1, <3>1, <3>2, Zenon
  <2>4. PICK g : IsFold(g, 1..(m - 1))
    BY <2>3
  <2> DEFINE e == [t \in SUBSET (1..m) |-> IF m \in t THEN OnChunk(g[t \ {m}], s[m]) ELSE g[t]]
  <2>5. ASSUME NEW t \in SUBSET (1..m)
        PROVE  e[t] = IF t = {} THEN FreshTranslator ELSE OnChunk(e[t \ {Max(t)}], s[Max(t)])
    <3>1. CASE m \in t
      <4>1. Max(t) = m /\ t # {} /\ m \notin t \ {m} /\ t \ {m} \in SUBSET (1..m)
        BY <2>3, <3>1, HighestIs
      <4>2. e[t] = OnChunk(g[t \ {m}], s[m]) /\ e[t \ {m}] = g[t \ {m}]
        BY <3>1, <4>1
      <4> HIDE DEF e
      <4> QED BY <4>1, <4>2
    <3>2. CASE m \notin t
      <4>1. t \in SUBSET (1..(m - 1))
        BY <2>3, <3>2
      <4>2. e[t] = g[t]
        BY <3>2
      <4>3. g[t] = IF t = {} THEN FreshTranslator ELSE OnChunk(g[t \ {Max(t)}], s[Max(t)])
        BY <2>4, <4>1
      <4>4. t \ {Max(t)} \in SUBSET (1..m) /\ m \notin t \ {Max(t)}
        BY <3>2
      <4>5. e[t \ {Max(t)}] = g[t \ {Max(t)}]
        BY <4>4
      <4> HIDE DEF e
      <4> QED BY <4>2, <4>3, <4>5
    <3> QED BY <3>1, <3>2
  <2>6. IsFold(e, 1..m)
    <3>1. e = [t \in SUBSET (1..m) |-> e[t]]
      OBVIOUS
    <3> HIDE DEF e
    <3> QED BY <2>5, <3>1
  <2> QED BY <2>1, <2>6
<1> DEFINE f == CHOOSE g : IsFold(g, DOMAIN s)
<1>3. IsFold(f, 1..Len(s))
  <2>1. \E g : IsFold(g, 1..Len(s))
    BY <1>0, <1>2
  <2> HIDE DEF IsFold
  <2>2. IsFold(f, DOMAIN s)
    BY <1>0, <2>1
  <2> QED BY <1>0, <2>2
<1>4. f[1..Len(s)] = Translated(s)
  BY <1>0, <1>1
<1> HIDE DEF f
<1> DEFINE h == [n \in 0..Len(s) |-> f[1..n]]
<1>5. h[0] = FreshTranslator
  <2>1. 1..0 = {} /\ 1..0 \in SUBSET (1..Len(s)) /\ 0 \in 0..Len(s)
    BY <1>0
  <2>2. f[1..0] = FreshTranslator
    BY <1>3, <2>1
  <2> QED BY <2>1, <2>2
<1>6. ASSUME NEW n \in 1..Len(s) PROVE h[n] = OnChunk(h[n - 1], s[n])
  <2>1. /\ n \in Nat /\ n \in 1..n /\ n \in 0..Len(s) /\ n - 1 \in 0..Len(s)
        /\ 1..n \in SUBSET (1..Len(s)) /\ 1..n # {}
    BY <1>0
  <2>2. Max(1..n) = n
    BY <2>1, HighestIs
  <2>3. (1..n) \ {n} = 1..(n - 1)
    BY <2>1
  <2>4. f[1..n] = OnChunk(f[1..n \ {Max(1..n)}], s[Max(1..n)])
    BY <1>3, <2>1
  <2> QED BY <2>1, <2>2, <2>3, <2>4
<1>7. h[Len(s)] = Translated(s)
  BY <1>0, <1>4
<1> HIDE DEF h
<1> QED BY <1>5, <1>6, <1>7

\* One element more is one step more.
LEMMA FoldChunksMore ==
    ASSUME NEW s, IsList(s), NEW e
    PROVE  Translated(Append(s, e)) = OnChunk(Translated(s), e)
<1> DEFINE t == Append(s, e)
<1>0. /\ Len(s) \in Nat /\ IsList(t) /\ Len(t) = Len(s) + 1
      /\ \A n \in 1..Len(s) : t[n] = s[n]
      /\ t[Len(s) + 1] = e
  BY Appended, ListPlaces
<1> HIDE DEF t
<1>1. PICK h : /\ h[0] = FreshTranslator
               /\ \A n \in 1..Len(s) : h[n] = OnChunk(h[n - 1], s[n])
               /\ h[Len(s)] = Translated(s)
  BY FoldChunks
<1>2. PICK g : /\ g[0] = FreshTranslator
               /\ \A n \in 1..Len(t) : g[n] = OnChunk(g[n - 1], t[n])
               /\ g[Len(t)] = Translated(t)
  BY <1>0, FoldChunks
<1> DEFINE Bad == {n \in 0..Len(s) : g[n] # h[n]}
<1>3. Bad = {}
  <2> SUFFICES ASSUME Bad # {} PROVE FALSE
    OBVIOUS
  <2>0. Bad \in SUBSET Nat
    BY <1>0
  <2>1. PICK m \in Bad : \A j \in Bad : m <= j
    BY <2>0, LeastNumber, Zenon
  <2>2. m \in 1..Len(s) /\ m - 1 \in 0..Len(s) /\ ~(m <= m - 1) /\ m \in 1..Len(t)
    BY <1>0, <1>1, <1>2
  <2>3. g[m - 1] = h[m - 1]
    BY <2>1, <2>2
  <2>4. t[m] = s[m]
    BY <1>0, <2>2
  <2>5. g[m] = h[m]
    BY <1>1, <1>2, <2>2, <2>3, <2>4
  <2> QED BY <2>5
<1>4. g[Len(s)] = h[Len(s)]
  BY <1>0, <1>3
<1>5. Len(t) \in 1..Len(t) /\ Len(t) - 1 = Len(s)
  BY <1>0
<1>6. g[Len(t)] = OnChunk(g[Len(t) - 1], t[Len(t)])
  BY <1>2, <1>5
<1>7. Translated(t) = OnChunk(Translated(s), e)
  BY <1>0, <1>1, <1>2, <1>4, <1>5, <1>6
<1> QED BY <1>7 DEF t

LEMMA FoldChunksNone == Translated(<<>>) = FreshTranslator
<1>1. IsList(<<>>) /\ Len(<<>>) = 0
  BY DEF IsList
<1> QED BY <1>1, FoldChunks

\* Two lists are equal when their places are.
LEMMA Alike ==
    ASSUME NEW s, IsList(s), NEW t, IsList(t), Len(s) = Len(t), \A i \in 1..Len(s) : s[i] = t[i]
    PROVE  s = t
<1> DEFINE S == Range(s) \cup Range(t)
<1>1. s \in Seq(S) /\ t \in Seq(S)
  <2>1. s \in Seq(Range(s)) /\ t \in Seq(Range(t))
    BY DEF IsList
  <2>2. Range(s) \subseteq S /\ Range(t) \subseteq S
    OBVIOUS
  <2> QED BY <2>1, <2>2, SeqMonotonic
<1> HIDE DEF S
<1> QED BY <1>1, SeqEqual

LEMMA Built ==
    ASSUME NEW n \in Nat, NEW f, f = [i \in 1..n |-> f[i]]
    PROVE  IsList(f) /\ Len(f) = n
<1> DEFINE S == {f[i] : i \in 1..n}
<1>1. \A i \in 1..n : f[i] \in S
  OBVIOUS
<1> HIDE DEF S
<1>2. [i \in 1..n |-> f[i]] \in Seq(S) /\ Len([i \in 1..n |-> f[i]]) = n
  BY <1>1, IsASeq
<1>3. f \in Seq(S) /\ Len(f) = n
  BY <1>2, Zenon
<1> QED BY <1>3, SeqOfRange DEF IsList

-----------------------------------------------------------------------------
(* What an agent holds of the events a translator has written.             *)

Fields == {"started", "open", "next", "index", "pending", "stop", "usage", "finished", "events"}
Holding == {"content", "partial", "stop", "usage", "failed"}

Asm(t) == FoldLeft(AssembleStep, FreshAssembly, t.events)

Shaped(t) == DOMAIN t = Fields /\ IsList(t.events)

Sound(a) ==
    /\ DOMAIN a = Holding /\ a.failed = FALSE
    /\ IsList(a.content) /\ IsList(a.partial) /\ Len(a.partial) = Len(a.content)

\* The agent holds the blocks that were opened, and the last one may be open.
Carries(t) ==
    /\ Shaped(t) /\ t.finished = FALSE
    /\ Sound(Asm(t))
    /\ t.next = Len(Asm(t).content)
    /\ t.open # NoBlock => t.index \in Nat /\ t.index + 1 = Len(Asm(t).content)

\* What it would hold were the open block closed.
Settled(t) ==
    LET a == Asm(t)
        n == Len(a.content)
    IN  IF t.open = NoBlock \/ a.content[n].type # "tool_use" THEN a.content
        ELSE [a.content EXCEPT ![n].input = ParseArgs(a.partial[n])]

\* The block that is open.
At(u, want) == u.open = want

\* Of the rest of a translator only the fields of S have changed.
Keeps(u, t, S) == \A f \in Fields \ S : u[f] = t[f]

LEMMA EmitIs ==
    ASSUME NEW t, Shaped(t), NEW e
    PROVE  /\ Shaped(Emit(t, e)) /\ Keeps(Emit(t, e), t, {"events"})
           /\ Asm(Emit(t, e)) = AssembleStep(Asm(t), e)
<1> DEFINE u == Emit(t, e)
<1>1. u.events = Append(t.events, e) /\ DOMAIN u = Fields
  BY DEF Emit, Shaped, Fields
<1>2. Keeps(u, t, {"events"})
  BY DEF Emit, Shaped, Keeps
<1> HIDE DEF u
<1>3. Shaped(u)
  BY <1>1, Appended DEF Shaped
<1>4. Asm(u) = AssembleStep(Asm(t), e)
  BY <1>1, FoldAssemblyMore DEF Shaped, Asm
<1> QED BY <1>2, <1>3, <1>4 DEF u

\* Closing the open block settles what it holds.
LEMMA CloseIs ==
    ASSUME NEW t, Carries(t)
    PROVE  LET u == CloseBlock(t)
           IN  /\ Carries(u) /\ u.open = NoBlock
               /\ Asm(u).content = Settled(t) /\ Asm(u).partial = Asm(t).partial
               /\ Keeps(u, t, {"events", "open"})
<1> DEFINE u == CloseBlock(t)
           e == [event |-> "content_block_stop", index |-> t.index]
           v == Emit(t, e)
           a == Asm(t)
           n == Len(a.content)
<1>1. CASE t.open = NoBlock
  <2>1. u = t
    BY <1>1 DEF CloseBlock
  <2>2. Settled(t) = a.content
    BY <1>1 DEF Settled
  <2> QED BY <1>1, <2>1, <2>2 DEF Keeps
<1>2. CASE t.open # NoBlock
  <2>1. u = [v EXCEPT !.open = NoBlock]
    BY <1>2 DEF CloseBlock
  <2>2. Shaped(v) /\ Keeps(v, t, {"events"}) /\ Asm(v) = AssembleStep(a, e)
    BY EmitIs DEF Carries
  <2>3. t.index + 1 = n /\ n \in 1..n /\ DOMAIN a.content = 1..n
    <3>1. n \in Nat /\ DOMAIN a.content = 1..n /\ t.index \in Nat /\ t.index + 1 = n
      BY <1>2, ListPlaces DEF Carries, Sound
    <3> QED BY <3>1
  <2>4. AssembleStep(a, e) = AssembleClose(a, e)
    BY DEF AssembleStep, Carries, Sound
  <2>5. /\ Sound(AssembleClose(a, e))
        /\ AssembleClose(a, e).content = Settled(t)
        /\ AssembleClose(a, e).partial = a.partial
        /\ Len(AssembleClose(a, e).content) = n
    <3>1. CASE a.content[n].type = "tool_use"
      <4> DEFINE w == [a.content[n] EXCEPT !.input = ParseArgs(a.partial[n])]
                 c == [a.content EXCEPT ![n] = w]
      <4>0. IsList(a.content)
        BY DEF Carries, Sound
      <4>1. IsList(c) /\ Len(c) = n
        <5> HIDE DEF w, a
        <5>1. n \in Nat /\ c = [i \in 1..n |-> c[i]]
          BY <2>3
        <5> HIDE DEF c
        <5> QED BY <5>1, Built
      <4>2. AssembleClose(a, e) = [a EXCEPT !.content = c]
        BY <2>3, <3>1 DEF AssembleClose, Carries, Sound, Holding
      <4>3. Settled(t) = c
        BY <1>2, <3>1 DEF Settled
      <4> HIDE DEF c
      <4> QED BY <4>1, <4>2, <4>3 DEF Carries, Sound, Holding
    <3>2. CASE a.content[n].type # "tool_use"
      <4>1. AssembleClose(a, e) = a
        BY <2>3, <3>2 DEF AssembleClose
      <4>2. Settled(t) = a.content
        BY <3>2 DEF Settled
      <4> QED BY <4>1, <4>2 DEF Carries
    <3> QED BY <3>1, <3>2
  <2> HIDE DEF v, a, e
  <2>6. u.events = v.events /\ u.open = NoBlock /\ Shaped(u) /\ Keeps(u, v, {"open"})
    BY <2>1, <2>2 DEF Shaped, Keeps, Fields
  <2> HIDE DEF u
  <2>7. Asm(u) = Asm(v)
    BY <2>6 DEF Asm
  <2>8. Keeps(u, t, {"events", "open"})
    BY <2>2, <2>6 DEF Keeps
  <2>9. u.next = t.next /\ u.finished = t.finished
    BY <2>8 DEF Keeps, Fields
  <2>10. Carries(u)
    BY <2>2, <2>4, <2>5, <2>6, <2>7, <2>9 DEF Carries, a
  <2>11. Asm(u).content = Settled(t) /\ Asm(u).partial = Asm(t).partial
    BY <2>2, <2>4, <2>5, <2>7 DEF a
  <2> QED BY <2>6, <2>8, <2>10, <2>11 DEF u
<1> QED BY <1>1, <1>2

LEMMA ResizedIs ==
    ASSUME NEW s, IsList(s), NEW x, NEW b
    PROVE  /\ Resized(s, Len(s) + 1, x) = Append(s, x)
           /\ [Resized(s, Len(s) + 1, x) EXCEPT ![Len(s) + 1] = b] = Append(s, b)
<1> DEFINE n == Len(s)
           r == Resized(s, n + 1, x)
           e == [r EXCEPT ![n + 1] = b]
<1>0. n \in Nat /\ n + 1 \in Nat /\ n + 1 \in 1..(n + 1) /\ DOMAIN s = 1..n
  BY ListPlaces
<1>1. /\ \A v : IsList(Append(s, v)) /\ Len(Append(s, v)) = n + 1 /\ Append(s, v)[n + 1] = v
      /\ \A v : \A i \in 1..n : Append(s, v)[i] = s[i]
  BY Appended
<1>2. r = [i \in 1..(n + 1) |-> IF i <= n THEN s[i] ELSE x]
  BY DEF Resized
<1>3. /\ r = [i \in 1..(n + 1) |-> r[i]] /\ r[n + 1] = x
      /\ \A i \in 1..(n + 1) : i # n + 1 => i \in 1..n /\ r[i] = s[i]
  BY <1>0, <1>2
<1> HIDE DEF r
<1>4. IsList(r) /\ Len(r) = n + 1
  BY <1>0, <1>3, Built
<1>5. IsList(e) /\ Len(e) = n + 1 /\ e[n + 1] = b /\ \A i \in 1..(n + 1) : i # n + 1 => e[i] = r[i]
  <2>1. /\ e = [i \in 1..(n + 1) |-> e[i]] /\ e[n + 1] = b
        /\ \A i \in 1..(n + 1) : i # n + 1 => e[i] = r[i]
    BY <1>0, <1>4, ListPlaces
  <2> HIDE DEF e, n
  <2> QED BY <1>0, <2>1, Built
<1> HIDE DEF e, n
<1>6. r = Append(s, x)
  <2>1. \A i \in 1..Len(r) : r[i] = Append(s, x)[i]
    BY <1>1, <1>3, <1>4
  <2>2. IsList(Append(s, x)) /\ Len(r) = Len(Append(s, x))
    BY <1>1, <1>4
  <2> QED BY <1>4, <2>1, <2>2, Alike
<1>7. e = Append(s, b)
  <2>1. \A i \in 1..Len(e) : e[i] = Append(s, b)[i]
    BY <1>1, <1>3, <1>5
  <2>2. IsList(Append(s, b)) /\ Len(e) = Len(Append(s, b))
    BY <1>1, <1>5
  <2> QED BY <1>5, <2>1, <2>2, Alike
<1> QED BY <1>6, <1>7 DEF r, e, n

\* A block an agent may be told to open: one that is closed as it is opened.
Openable(block) == block.type # "tool_use" \/ \E id, name : block = ToolUse(id, name, <<"{", "}">>)

LEMMA EmptyArgs == ParseArgs(<<>>) = <<"{", "}">>
<1>1. ~IsJson(<<>>)
  <2>1. ~(Len(<<>>) > 1)
    OBVIOUS
  <2> QED BY <2>1 DEF IsJson
<1> QED BY <1>1 DEF ParseArgs

LEMMA InputOf == \A id, name, x, y : [ToolUse(id, name, x) EXCEPT !.input = y] = ToolUse(id, name, y)
BY DEF ToolUse

LEMMA OpenIs ==
    ASSUME NEW t, Carries(t), NEW want, want # NoBlock, t.open # want, NEW block, Openable(block)
    PROVE  LET u == EnsureOpen(t, want, block)
           IN  /\ Carries(u) /\ At(u, want)
               /\ Settled(u) = Append(Settled(t), block)
               /\ Asm(u).partial = Append(Asm(t).partial, <<>>)
               /\ Keeps(u, t, {"events", "open", "index", "next"})
<1> DEFINE u == EnsureOpen(t, want, block)
           c == CloseBlock(t)
           e == [event |-> "content_block_start", index |-> c.next, block |-> block]
           v == Emit(c, e)
           a == Asm(c)
           n == Len(a.content)
           b == AssembleOpen(a, e)
<1>1. u = [v EXCEPT !.index = c.next, !.next = c.next + 1, !.open = want]
  BY DEF EnsureOpen
<1>2. /\ Carries(c) /\ c.open = NoBlock /\ a.content = Settled(t) /\ a.partial = Asm(t).partial
      /\ Keeps(c, t, {"events", "open"})
  BY CloseIs
<1> HIDE DEF c
<1>3. Shaped(v) /\ Keeps(v, c, {"events"}) /\ Asm(v) = AssembleStep(a, e)
  BY <1>2, EmitIs DEF Carries
<1>4. AssembleStep(a, e) = b
  BY <1>2 DEF AssembleStep, Carries, Sound
<1>5. /\ n \in Nat /\ c.next = n /\ DOMAIN a = Holding /\ a.failed = FALSE
      /\ IsList(a.content) /\ IsList(a.partial) /\ Len(a.partial) = n
  BY <1>2, ListPlaces DEF Carries, Sound
<1>6. b.content = Append(a.content, block) /\ b.partial = Append(a.partial, <<>>) /\ DOMAIN b = Holding /\ b.failed = FALSE
  <2>1. /\ [Resized(a.content, n + 1, Text(<<>>)) EXCEPT ![n + 1] = block] = Append(a.content, block)
        /\ Resized(a.partial, n + 1, <<>>) = Append(a.partial, <<>>)
    <3> DEFINE x == a.content
               y == a.partial
    <3>1. IsList(x) /\ Len(x) = n /\ IsList(y) /\ Len(y) = n
      BY <1>5
    <3> HIDE DEF a, n, x, y
    <3>2. [Resized(x, Len(x) + 1, Text(<<>>)) EXCEPT ![Len(x) + 1] = block] = Append(x, block)
      BY <3>1, ResizedIs
    <3>3. Resized(y, Len(y) + 1, <<>>) = Append(y, <<>>)
      BY <3>1, ResizedIs
    <3> QED BY <3>1, <3>2, <3>3 DEF x, y
  <2>2. e.index + 1 = n + 1 /\ e.block = block
    BY <1>5
  <2> HIDE DEF e, a, n
  <2> QED BY <1>5, <2>1, <2>2 DEF AssembleOpen, Holding
<1> HIDE DEF v, a, b, e
<1>7. /\ u.events = v.events /\ u.open = want /\ Shaped(u) /\ u.next = n + 1 /\ u.index = n
      /\ Keeps(u, v, {"open", "index", "next"})
  BY <1>1, <1>3, <1>5 DEF Shaped, Keeps, Fields
<1> HIDE DEF u
<1>8. Asm(u) = b
  BY <1>3, <1>4, <1>7 DEF Asm
<1>9. Keeps(u, t, {"events", "open", "index", "next"})
  BY <1>2, <1>3, <1>7 DEF Keeps
<1>10. /\ IsList(b.content) /\ IsList(b.partial) /\ Len(b.content) = n + 1 /\ Len(b.partial) = n + 1
       /\ b.content[n + 1] = block /\ b.partial[n + 1] = <<>>
  BY <1>5, <1>6, Appended
<1>11. Carries(u)
  <2>1. u.finished = FALSE
    BY <1>2, <1>3, <1>7 DEF Keeps, Fields, Carries
  <2>2. Sound(b)
    BY <1>6, <1>10 DEF Sound
  <2> QED BY <1>5, <1>7, <1>8, <1>10, <2>1, <2>2 DEF Carries
<1>12. Settled(u) = b.content
  <2>1. CASE block.type # "tool_use"
    BY <1>5, <1>8, <1>10, <2>1 DEF Settled
  <2>2. CASE block.type = "tool_use"
    <3>1. PICK id, name : block = ToolUse(id, name, <<"{", "}">>)
      BY <2>2 DEF Openable
    <3> DEFINE d == [block EXCEPT !.input = ParseArgs(<<>>)]
               s == [b.content EXCEPT ![n + 1] = d]
    <3>2. d = block
      <4>1. d = [block EXCEPT !.input = <<"{", "}">>]
        BY EmptyArgs
      <4> HIDE DEF d
      <4> QED BY <3>1, <4>1, InputOf
    <3>3. Settled(u) = s
      BY <1>5, <1>7, <1>8, <1>10, <2>2 DEF Settled
    <3> HIDE DEF d
    <3>4. n + 1 \in 1..Len(b.content)
      BY <1>5, <1>10
    <3>5. IsList(s) /\ Len(s) = Len(b.content) /\ \A i \in 1..Len(s) : s[i] = b.content[i]
      <4>1. /\ n + 1 \in Nat /\ s = [i \in 1..(n + 1) |-> s[i]] /\ s[n + 1] = d
            /\ \A i \in 1..(n + 1) : i # n + 1 => s[i] = b.content[i]
        BY <1>5, <1>10, <3>4, ListPlaces
      <4> HIDE DEF s, n
      <4>2. IsList(s) /\ Len(s) = n + 1
        BY <4>1, Built
      <4> QED BY <1>10, <3>2, <4>1, <4>2
    <3> HIDE DEF s
    <3> QED BY <1>10, <3>3, <3>5, Alike
  <2> QED BY <2>1, <2>2
<1>13. Settled(u) = Append(Settled(t), block) /\ Asm(u).partial = Append(Asm(t).partial, <<>>)
  BY <1>2, <1>6, <1>8, <1>12 DEF a
<1> QED BY <1>7, <1>9, <1>11, <1>13 DEF u, At

\* The last place of what an agent holds: what it would be if it were closed.
LEMMA LastHeld ==
    ASSUME NEW t, Carries(t), t.open # NoBlock
    PROVE  LET a == Asm(t)
               n == Len(a.content)
           IN  /\ n \in Nat \ {0} /\ n \in 1..n /\ t.index + 1 = n /\ n - 1 \in Nat
               /\ IsList(Settled(t)) /\ Len(Settled(t)) = n
               /\ \A i \in 1..n : i # n => Settled(t)[i] = a.content[i]
               /\ Settled(t)[n] = IF a.content[n].type # "tool_use" THEN a.content[n]
                                  ELSE [a.content[n] EXCEPT !.input = ParseArgs(a.partial[n])]
<1> DEFINE a == Asm(t)
           n == Len(a.content)
           d == [a.content[n] EXCEPT !.input = ParseArgs(a.partial[n])]
<1>1. n \in Nat /\ t.index \in Nat /\ t.index + 1 = n /\ IsList(a.content)
  BY ListPlaces DEF Carries, Sound
<1>2. n \in Nat \ {0} /\ n \in 1..n /\ n - 1 \in Nat
  BY <1>1
<1>3. Settled(t) = IF a.content[n].type # "tool_use" THEN a.content ELSE [a.content EXCEPT ![n] = d]
  BY DEF Settled
<1> HIDE DEF d, a
<1> DEFINE s == [a.content EXCEPT ![n] = d]
<1>4. IsList(s) /\ Len(s) = n /\ s[n] = d /\ \A i \in 1..n : i # n => s[i] = a.content[i]
  <2>1. s = [i \in 1..n |-> s[i]] /\ s[n] = d /\ \A i \in 1..n : i # n => s[i] = a.content[i]
    BY <1>1, <1>2, ListPlaces
  <2> HIDE DEF s
  <2> QED BY <1>1, <2>1, Built
<1>5. /\ IsList(Settled(t)) /\ Len(Settled(t)) = n
      /\ \A i \in 1..n : i # n => Settled(t)[i] = a.content[i]
      /\ Settled(t)[n] = IF a.content[n].type # "tool_use" THEN a.content[n] ELSE d
  BY <1>1, <1>3, <1>4
<1> QED BY <1>1, <1>2, <1>5 DEF d, a

\* A block of text or of reasoning.
Block(ty, x) == [type |-> ty, text |-> x]

LEMMA WithText == \A ty, x, y : [Block(ty, x) EXCEPT !.text = y] = Block(ty, y)
BY DEF Block

\* The last block is one of text or of reasoning, after those of front.
Ends(t, front, ty, x) == Settled(t) = Append(front, Block(ty, x))
\* The last block is a call, its arguments so far p.
EndsCall(t, front, id, name, p) ==
    Settled(t) = Append(front, ToolUse(id, name, ParseArgs(p))) /\ Asm(t).partial[Len(front) + 1] = p

\* A delta of text goes on with the block that is open.
LEMMA DeltaTextIs ==
    ASSUME NEW t, Carries(t), t.open # NoBlock, NEW kind, kind # "input", NEW more,
           NEW front, IsList(front), NEW ty, ty # "tool_use", NEW x,
           Ends(t, front, ty, x)
    PROVE  LET u == Delta(t, kind, more)
           IN  /\ Carries(u) /\ Keeps(u, t, {"events"})
               /\ Ends(u, front, ty, x \o more)
<1> USE DEF Ends
<1> DEFINE e == [event |-> "content_block_delta", index |-> t.index, kind |-> kind, text |-> more]
           u == Emit(t, e)
           a == Asm(t)
           n == Len(a.content)
           b == AssembleStep(a, e)
<1>1. Delta(t, kind, more) = u
  BY DEF Delta
<1>2. Shaped(u) /\ Keeps(u, t, {"events"}) /\ Asm(u) = b
  BY EmitIs DEF Carries
<1>3. /\ n \in Nat \ {0} /\ n \in 1..n /\ t.index + 1 = n
      /\ IsList(Settled(t)) /\ Len(Settled(t)) = n
      /\ \A i \in 1..n : i # n => Settled(t)[i] = a.content[i]
      /\ Settled(t)[n] = IF a.content[n].type # "tool_use" THEN a.content[n]
                         ELSE [a.content[n] EXCEPT !.input = ParseArgs(a.partial[n])]
  BY LastHeld
<1>4. /\ DOMAIN a = Holding /\ a.failed = FALSE /\ IsList(a.content) /\ IsList(a.partial) /\ Len(a.partial) = n
      /\ DOMAIN a.content = 1..n
  BY ListPlaces DEF Carries, Sound
<1>5. Len(front) = n - 1 /\ Settled(t)[n] = Block(ty, x) /\ \A i \in 1..(n - 1) : Settled(t)[i] = front[i]
  <2>1. /\ Len(Settled(t)) = Len(front) + 1 /\ Settled(t)[Len(front) + 1] = Block(ty, x)
        /\ \A i \in 1..Len(front) : Settled(t)[i] = front[i] /\ Len(front) \in Nat
    BY Appended, ListPlaces
  <2>2. Len(front) \in Nat
    BY ListPlaces
  <2> QED BY <1>3, <2>1, <2>2
<1> HIDE DEF u, a, n
<1>6. a.content[n] = Block(ty, x)
  <2>1. CASE a.content[n].type # "tool_use"
    BY <1>3, <1>5, <2>1
  <2>2. CASE a.content[n].type = "tool_use"
    <3>1. [a.content[n] EXCEPT !.input = ParseArgs(a.partial[n])] = Block(ty, x)
      BY <1>3, <1>5, <2>2
    <3>2. DOMAIN [a.content[n] EXCEPT !.input = ParseArgs(a.partial[n])] = DOMAIN a.content[n]
      OBVIOUS
    <3>3. "type" \in DOMAIN a.content[n]
      <4>1. "type" \in DOMAIN Block(ty, x)
        BY DEF Block
      <4> QED BY <3>1, <3>2, <4>1, Zenon
    <3>4. [a.content[n] EXCEPT !.input = ParseArgs(a.partial[n])].type = "tool_use"
      BY <2>2, <3>3
    <3>5. Block(ty, x).type = ty
      BY DEF Block
    <3> QED BY <3>1, <3>4, <3>5
  <2> QED BY <2>1, <2>2
<1> DEFINE w == Block(ty, x \o more)
           c == [a.content EXCEPT ![n] = w]
<1>7. b = [a EXCEPT !.content = c]
  <2>1. b = AssembleDelta(a, e)
    BY <1>4 DEF AssembleStep
  <2>2. t.index + 1 \in DOMAIN a.content /\ t.index + 1 = n
    BY <1>3, <1>4
  <2>3. b = [a EXCEPT !.content[n].text = a.content[n].text \o more]
    <3> HIDE DEF b
    <3> QED BY <2>1, <2>2 DEF AssembleDelta
  <2>4. [a.content[n] EXCEPT !.text = a.content[n].text \o more] = w
    <3>1. a.content[n].text = x
      BY <1>6 DEF Block
    <3>2. [Block(ty, x) EXCEPT !.text = x \o more] = w
      BY WithText
    <3> HIDE DEF w
    <3> QED BY <1>6, <3>1, <3>2, Zenon
  <2>5. b = [a EXCEPT !.content = [a.content EXCEPT ![n] = [a.content[n] EXCEPT !.text = a.content[n].text \o more]]]
    <3> HIDE DEF b
    <3> QED BY <2>3
  <2> HIDE DEF b, w
  <2> QED BY <2>4, <2>5
<1>8. /\ c = [i \in 1..n |-> c[i]] /\ c[n] = w /\ \A i \in 1..n : i # n => c[i] = a.content[i]
  BY <1>3, <1>4
<1> HIDE DEF w, c, b
<1>9. IsList(c) /\ Len(c) = n
  BY <1>3, <1>8, Built
<1>10. /\ DOMAIN b = Holding /\ b.failed = FALSE /\ b.content = c /\ b.partial = a.partial
  BY <1>4, <1>7 DEF Holding
<1>11. /\ u.finished = FALSE /\ u.next = n /\ u.open = t.open /\ u.index = t.index
  BY <1>2 DEF Carries, Keeps, Fields, n, a
<1>12. Carries(u)
  BY <1>2, <1>3, <1>4, <1>9, <1>10, <1>11 DEF Carries, Sound
<1>13. Settled(u) = c
  <2>1. c[n].type # "tool_use"
    BY <1>8 DEF w, Block
  <2> QED BY <1>2, <1>9, <1>10, <2>1 DEF Settled
<1>14. c = Append(front, w)
  <2>1. IsList(Append(front, w)) /\ Len(Append(front, w)) = n /\ Append(front, w)[n] = w
        /\ \A i \in 1..(n - 1) : Append(front, w)[i] = front[i]
    <3>1. Len(front) + 1 = n
      BY <1>3, <1>5
    <3> QED BY <1>5, <3>1, Appended
  <2>2. \A i \in 1..n : c[i] = Append(front, w)[i]
    <3>1. \A i \in 1..n : i # n => i \in 1..(n - 1)
      BY <1>3
    <3> QED BY <1>3, <1>5, <1>8, <2>1, <3>1
  <2> QED BY <1>9, <2>1, <2>2, Alike
<1>15. Settled(u) = Append(front, Block(ty, x \o more))
  BY <1>13, <1>14 DEF w
<1> QED BY <1>1, <1>2, <1>12, <1>15 DEF u

\* A delta of arguments goes on with those of the call that is open.
LEMMA DeltaInputIs ==
    ASSUME NEW t, Carries(t), t.open # NoBlock, NEW more, NEW front, IsList(front), NEW id, NEW name, NEW p,
           EndsCall(t, front, id, name, p)
    PROVE  LET u == Delta(t, "input", more)
           IN  /\ Carries(u) /\ Keeps(u, t, {"events"})
               /\ EndsCall(u, front, id, name, p \o more)
<1> USE DEF EndsCall
<1> DEFINE e == [event |-> "content_block_delta", index |-> t.index, kind |-> "input", text |-> more]
           u == Emit(t, e)
           a == Asm(t)
           n == Len(a.content)
           b == AssembleStep(a, e)
<1>1. Delta(t, "input", more) = u
  BY DEF Delta
<1>2. Shaped(u) /\ Keeps(u, t, {"events"}) /\ Asm(u) = b
  BY EmitIs DEF Carries
<1>3. /\ n \in Nat \ {0} /\ n \in 1..n /\ t.index + 1 = n
      /\ IsList(Settled(t)) /\ Len(Settled(t)) = n
      /\ \A i \in 1..n : i # n => Settled(t)[i] = a.content[i]
      /\ Settled(t)[n] = IF a.content[n].type # "tool_use" THEN a.content[n]
                         ELSE [a.content[n] EXCEPT !.input = ParseArgs(a.partial[n])]
  BY LastHeld
<1>4. /\ DOMAIN a = Holding /\ a.failed = FALSE /\ IsList(a.content) /\ IsList(a.partial) /\ Len(a.partial) = n
      /\ DOMAIN a.content = 1..n /\ DOMAIN a.partial = 1..n
  BY ListPlaces DEF Carries, Sound
<1> DEFINE w == ToolUse(id, name, ParseArgs(p))
<1>5. Len(front) = n - 1 /\ Len(front) + 1 = n /\ Settled(t)[n] = w /\ \A i \in 1..(n - 1) : Settled(t)[i] = front[i]
  <2>1. /\ Len(Settled(t)) = Len(front) + 1 /\ Settled(t)[Len(front) + 1] = w
        /\ \A i \in 1..Len(front) : Settled(t)[i] = front[i]
    BY Appended
  <2>2. Len(front) \in Nat
    BY ListPlaces
  <2> QED BY <1>3, <2>1, <2>2
<1> HIDE DEF u, a, n
<1>6. /\ a.content[n].type = "tool_use" /\ a.partial[n] = p
      /\ [a.content[n] EXCEPT !.input = ParseArgs(p)] = w
  <2>1. a.partial[n] = p
    BY <1>5 DEF a
  <2>2. w.type = "tool_use"
    BY DEF ToolUse
  <2>3. a.content[n].type = "tool_use"
    BY <1>3, <1>5, <2>2
  <2> QED BY <1>3, <1>5, <2>1, <2>3
<1> DEFINE q == [a.partial EXCEPT ![n] = p \o more]
<1>7. b = [a EXCEPT !.partial = q]
  <2>1. b = AssembleDelta(a, e)
    BY <1>4 DEF AssembleStep
  <2>2. t.index + 1 \in DOMAIN a.content /\ t.index + 1 = n
    BY <1>3, <1>4
  <2>3. b = [a EXCEPT !.partial[n] = a.partial[n] \o more]
    <3> HIDE DEF b
    <3> QED BY <2>1, <2>2 DEF AssembleDelta
  <2> HIDE DEF b
  <2> QED BY <1>6, <2>3
<1>8. /\ q = [i \in 1..n |-> q[i]] /\ q[n] = p \o more
  BY <1>3, <1>4
<1> HIDE DEF q, b, w
<1>9. IsList(q) /\ Len(q) = n
  BY <1>3, <1>8, Built
<1>10. /\ DOMAIN b = Holding /\ b.failed = FALSE /\ b.partial = q /\ b.content = a.content
  BY <1>4, <1>7 DEF Holding
<1>11. /\ u.finished = FALSE /\ u.next = n /\ u.open = t.open /\ u.index = t.index
  BY <1>2 DEF Carries, Keeps, Fields, n, a
<1>12. Carries(u)
  BY <1>2, <1>3, <1>4, <1>9, <1>10, <1>11, n = Len(a.content) DEF Carries, Sound, n
<1> DEFINE z == ToolUse(id, name, ParseArgs(p \o more))
<1>13. /\ IsList(Settled(u)) /\ Len(Settled(u)) = n /\ Settled(u)[n] = z
       /\ \A i \in 1..n : i # n => Settled(u)[i] = a.content[i]
  <2>1. Asm(u).content = a.content /\ Asm(u).partial = q /\ u.open # NoBlock
    BY <1>2, <1>10, <1>11
  <2>2. [a.content[n] EXCEPT !.input = ParseArgs(p \o more)] = z
    <3>1. [[a.content[n] EXCEPT !.input = ParseArgs(p)] EXCEPT !.input = ParseArgs(p \o more)]
          = [a.content[n] EXCEPT !.input = ParseArgs(p \o more)]
      OBVIOUS
    <3>2. [w EXCEPT !.input = ParseArgs(p \o more)] = z
      BY InputOf DEF w
    <3> HIDE DEF z
    <3> QED BY <1>6, <3>1, <3>2
  <2> HIDE DEF z
  <2>3. /\ IsList(Settled(u)) /\ Len(Settled(u)) = Len(Asm(u).content)
        /\ \A i \in 1..Len(Asm(u).content) : i # Len(Asm(u).content) => Settled(u)[i] = Asm(u).content[i]
        /\ Settled(u)[Len(Asm(u).content)] =
             IF Asm(u).content[Len(Asm(u).content)].type # "tool_use" THEN Asm(u).content[Len(Asm(u).content)]
             ELSE [Asm(u).content[Len(Asm(u).content)] EXCEPT !.input = ParseArgs(Asm(u).partial[Len(Asm(u).content)])]
    BY <1>12, <2>1, LastHeld
  <2>4. Len(Asm(u).content) = n
    BY <2>1 DEF n
  <2> QED BY <1>6, <1>8, <2>1, <2>2, <2>3, <2>4
<1> HIDE DEF z
<1>14. Settled(u) = Append(front, z)
  <2>1. IsList(Append(front, z)) /\ Len(Append(front, z)) = n /\ Append(front, z)[n] = z
        /\ \A i \in 1..(n - 1) : Append(front, z)[i] = front[i]
    BY <1>5, Appended
  <2>2. \A i \in 1..n : Settled(u)[i] = Append(front, z)[i]
    <3>1. \A i \in 1..n : i # n => i \in 1..(n - 1)
      BY <1>3
    <3> QED BY <1>3, <1>5, <1>13, <2>1, <3>1
  <2> QED BY <1>13, <2>1, <2>2, Alike
<1>15. /\ Settled(u) = Append(front, ToolUse(id, name, ParseArgs(p \o more)))
       /\ Asm(u).partial[Len(front) + 1] = p \o more
  BY <1>2, <1>5, <1>8, <1>10, <1>14 DEF z
<1> QED BY <1>1, <1>2, <1>12, <1>15 DEF u

-----------------------------------------------------------------------------
(* Lists laid end to end, and cut.                                         *)

Joins(d, c, x) == d = c \o x

LEMMA Joined ==
    ASSUME NEW s, IsList(s), NEW t, IsList(t)
    PROVE  /\ IsList(s \o t) /\ Len(s \o t) = Len(s) + Len(t)
           /\ \A i \in 1..Len(s) : (s \o t)[i] = s[i]
           /\ \A i \in 1..Len(t) : (s \o t)[Len(s) + i] = t[i]
<1> DEFINE S == Range(s) \cup Range(t)
           u == s \o t
<1>1. s \in Seq(S) /\ t \in Seq(S)
  <2>1. s \in Seq(Range(s)) /\ t \in Seq(Range(t))
    BY DEF IsList
  <2>2. Range(s) \subseteq S /\ Range(t) \subseteq S
    OBVIOUS
  <2> QED BY <2>1, <2>2, SeqMonotonic
<1> HIDE DEF S
<1>2. /\ u \in Seq(S) /\ Len(u) = Len(s) + Len(t)
      /\ \A i \in 1..(Len(s) + Len(t)) : u[i] = IF i <= Len(s) THEN s[i] ELSE t[i - Len(s)]
  BY <1>1, ConcatProperties
<1> HIDE DEF u
<1>3. IsList(u)
  BY <1>2, SeqOfRange DEF IsList
<1>4. Len(s) \in Nat /\ Len(t) \in Nat
  BY ListPlaces
<1>5. \A i \in 1..Len(s) : u[i] = s[i]
  BY <1>2, <1>4
<1>6. \A i \in 1..Len(t) : u[Len(s) + i] = t[i]
  <2> SUFFICES ASSUME NEW i \in 1..Len(t) PROVE u[Len(s) + i] = t[i]
    OBVIOUS
  <2>1. Len(s) + i \in 1..(Len(s) + Len(t)) /\ ~(Len(s) + i <= Len(s)) /\ (Len(s) + i) - Len(s) = i
    BY <1>4
  <2> QED BY <1>2, <2>1
<1>7. IsList(u) /\ Len(u) = Len(s) + Len(t) /\ (\A i \in 1..Len(s) : u[i] = s[i]) /\ \A i \in 1..Len(t) : u[Len(s) + i] = t[i]
  BY <1>2, <1>3, <1>5, <1>6
<1> QED BY <1>7 DEF u

LEMMA Empty == IsList(<<>>) /\ Len(<<>>) = 0
BY DEF IsList

LEMMA JoinedNone ==
    ASSUME NEW s, IsList(s)
    PROVE  s \o <<>> = s /\ <<>> \o s = s
<1>1. s \in Seq(Range(s))
  BY DEF IsList
<1> QED BY <1>1, ConcatEmptySeq

LEMMA NoneLeft ==
    ASSUME NEW s, IsList(s)
    PROVE  /\ s = <<>> <=> Len(s) = 0
           /\ s # <<>> => Len(s) \in Nat \ {0}
<1>1. Len(s) \in Nat
  BY ListPlaces
<1>2. Len(s) = 0 => s = <<>>
  <2> SUFFICES ASSUME Len(s) = 0 PROVE s = <<>>
    OBVIOUS
  <2>1. \A i \in 1..Len(s) : s[i] = <<>>[i]
    OBVIOUS
  <2> QED BY <2>1, Empty, Alike
<1>3. Len(<<>>) = 0
  BY Empty
<1> QED BY <1>1, <1>2, <1>3

LEMMA Cut ==
    ASSUME NEW s, IsList(s), NEW m \in 1..(Len(s) + 1), NEW n \in (m - 1)..Len(s)
    PROVE  /\ IsList(SubSeq(s, m, n)) /\ Len(SubSeq(s, m, n)) = n - m + 1
           /\ \A i \in 1..(n - m + 1) : SubSeq(s, m, n)[i] = s[m + i - 1]
<1> DEFINE S == Range(s)
           u == SubSeq(s, m, n)
<1>1. s \in Seq(S)
  BY DEF IsList
<1> HIDE DEF S
<1>2. u \in Seq(S) /\ Len(u) = IF m <= n THEN n - m + 1 ELSE 0
  BY <1>1, SubSeqProperties, ListPlaces
<1>3. \A i \in 1..(n - m + 1) : u[i] = s[m + i - 1]
  BY <1>1, SubSeqProperties, ListPlaces
<1> HIDE DEF u
<1>4. Len(u) = n - m + 1
  BY <1>2, ListPlaces
<1>5. IsList(u)
  BY <1>2, SeqOfRange DEF IsList
<1>6. IsList(u) /\ Len(u) = n - m + 1 /\ \A i \in 1..(n - m + 1) : u[i] = s[m + i - 1]
  BY <1>3, <1>4, <1>5
<1> QED BY <1>6 DEF u

\* What was sent and what follows is what was sent then.
LEMMA CutOn ==
    ASSUME NEW s, IsList(s), NEW m \in 0..Len(s), NEW n \in m..Len(s)
    PROVE  SubSeq(s, 1, m) \o SubSeq(s, m + 1, n) = SubSeq(s, 1, n)
<1> DEFINE u == SubSeq(s, 1, m)
           v == SubSeq(s, m + 1, n)
           w == SubSeq(s, 1, n)
           x == u \o v
<1>0. Len(s) \in Nat /\ m \in Nat /\ n \in Nat /\ n - m \in Nat
  BY ListPlaces
<1>1. IsList(u) /\ Len(u) = m /\ \A i \in 1..m : u[i] = s[i]
  <2>1. 1 \in 1..(Len(s) + 1) /\ m \in (1 - 1)..Len(s) /\ m - 1 + 1 = m /\ \A i \in 1..m : 1 + i - 1 = i
    BY <1>0
  <2> QED BY <2>1, Cut
<1>2. IsList(w) /\ Len(w) = n /\ \A i \in 1..n : w[i] = s[i]
  <2>1. 1 \in 1..(Len(s) + 1) /\ n \in (1 - 1)..Len(s) /\ n - 1 + 1 = n /\ \A i \in 1..n : 1 + i - 1 = i
    BY <1>0
  <2> QED BY <2>1, Cut
<1>3. IsList(v) /\ Len(v) = n - m /\ \A i \in 1..(n - m) : v[i] = s[m + i]
  <2>1. m + 1 \in 1..(Len(s) + 1) /\ n \in ((m + 1) - 1)..Len(s) /\ n - (m + 1) + 1 = n - m /\ \A i \in 1..(n - m) : (m + 1) + i - 1 = m + i
    BY <1>0
  <2> QED BY <2>1, Cut
<1> HIDE DEF u, v, w
<1>4. /\ IsList(x) /\ Len(x) = n
      /\ \A i \in 1..m : x[i] = u[i]
      /\ \A i \in 1..(n - m) : x[m + i] = v[i]
  <2>1. /\ IsList(x) /\ Len(x) = Len(u) + Len(v)
        /\ \A i \in 1..Len(u) : x[i] = u[i]
        /\ \A i \in 1..Len(v) : x[Len(u) + i] = v[i]
    <3>1. IsList(u) /\ IsList(v)
      BY <1>1, <1>3
    <3> QED BY <3>1, Joined
  <2>2. m + (n - m) = n
    BY <1>0
  <2> QED BY <1>1, <1>3, <2>1, <2>2
<1> HIDE DEF x
<1>5. \A i \in 1..n : x[i] = w[i]
  <2> SUFFICES ASSUME NEW i \in 1..n PROVE x[i] = w[i]
    OBVIOUS
  <2>1. CASE i <= m
    BY <1>0, <1>1, <1>2, <1>4, <2>1
  <2>2. CASE ~(i <= m)
    <3>1. i - m \in 1..(n - m) /\ m + (i - m) = i /\ i \in 1..n
      BY <1>0, <2>2
    <3>2. x[m + (i - m)] = v[i - m] /\ v[i - m] = s[m + (i - m)]
      BY <1>3, <1>4, <3>1
    <3> QED BY <1>2, <3>1, <3>2
  <2> QED BY <2>1, <2>2
<1>6. x = w
  BY <1>2, <1>4, <1>5, Alike
<1> QED BY <1>6 DEF u, v, w, x

-----------------------------------------------------------------------------
(* A leading <think> span, in a whole text and in one that arrives.        *)

\* Only the first token may open a span.
Leads(c) == \A i \in 1..Len(c) : c[i] = ThinkOpen => i = 1
Leading(c) == Len(c) > 0 /\ c[1] = ThinkOpen
Closes(c, d) == d \in 2..Len(c) /\ c[d] = ThinkClose /\ \A i \in 2..(d - 1) : c[i] # ThinkClose
Withheld(c) == Leading(c) /\ \A i \in 2..Len(c) : c[i] # ThinkClose

FirstOpen(s) == SelectInSeq(s, LAMBDA k : k = ThinkOpen)
FirstClose(s) == SelectInSeq(s, LAMBDA k : k = ThinkClose)

LEMMA FirstOpenIs ==
    ASSUME NEW s, IsList(s), Leads(s)
    PROVE  FirstOpen(s) = IF Leading(s) THEN 1 ELSE 0
<1> DEFINE I == {i \in 1..Len(s) : s[i] = ThinkOpen}
<1>0. Len(s) \in Nat
  BY ListPlaces
<1>1. FirstOpen(s) = IF I # {} THEN Min(I) ELSE 0
  BY Zenon DEF FirstOpen, SelectInSeq
<1>2. CASE Leading(s)
  <2>1. I = {1}
    BY <1>0, <1>2 DEF Leads, Leading
  <2>2. Min({1}) = 1
    BY DEF Min
  <2> HIDE DEF I
  <2> QED BY <1>1, <1>2, <2>1, <2>2
<1>3. CASE ~Leading(s)
  <2>1. I = {}
    BY <1>0, <1>3 DEF Leads, Leading
  <2> HIDE DEF I
  <2> QED BY <1>1, <1>3, <2>1
<1> QED BY <1>2, <1>3

\* Where a leading span closes, counted in what follows its opening.
LEMMA FirstCloseIs ==
    ASSUME NEW c, IsList(c), Leading(c)
    PROVE  LET rest == SubSeq(c, 2, Len(c))
           IN  /\ IsList(rest) /\ Len(rest) = Len(c) - 1
               /\ Withheld(c) => FirstClose(rest) = 0
               /\ \A d : Closes(c, d) => FirstClose(rest) = d - 1
               /\ ~Withheld(c) => \E d : Closes(c, d)
<1> DEFINE rest == SubSeq(c, 2, Len(c))
           I == {i \in 1..Len(rest) : rest[i] = ThinkClose}
<1>0. Len(c) \in Nat \ {0} /\ Len(c) - 1 \in Nat
  BY ListPlaces DEF Leading
<1>1. IsList(rest) /\ Len(rest) = Len(c) - 1 /\ \A i \in 1..(Len(c) - 1) : rest[i] = c[i + 1]
  <2>1. 2 \in 1..(Len(c) + 1) /\ Len(c) \in (2 - 1)..Len(c) /\ Len(c) - 2 + 1 = Len(c) - 1
        /\ \A i \in 1..(Len(c) - 1) : 2 + i - 1 = i + 1
    BY <1>0
  <2> QED BY <2>1, Cut
<1> HIDE DEF rest
<1>2. FirstClose(rest) = IF I # {} THEN Min(I) ELSE 0
  BY Zenon DEF FirstClose, SelectInSeq
<1>3. ASSUME Withheld(c) PROVE FirstClose(rest) = 0
  <2>1. I = {}
    BY <1>0, <1>1, <1>3 DEF Withheld
  <2> HIDE DEF I
  <2> QED BY <1>2, <2>1
<1>4. ASSUME NEW d, Closes(c, d) PROVE FirstClose(rest) = d - 1
  <2>1. d \in Nat /\ d - 1 \in 1..Len(rest) /\ (d - 1) + 1 = d
    BY <1>0, <1>1, <1>4 DEF Closes
  <2>2. d - 1 \in I
    BY <1>1, <1>4, <2>1 DEF Closes
  <2>3. \A i \in I : d - 1 <= i
    <3> SUFFICES ASSUME NEW i \in I, ~(d - 1 <= i) PROVE FALSE
      BY <2>1
    <3>1. i + 1 \in 2..(d - 1) /\ c[i + 1] = ThinkClose
      BY <1>0, <1>1, <2>1
    <3> QED BY <1>4, <3>1 DEF Closes
  <2>4. I \in SUBSET Nat
    BY <1>0, <1>1
  <2>5. Min(I) \in I /\ \A i \in I : Min(I) <= i
    <3> HIDE DEF I
    <3>1. \E x \in I : \A y \in I : x <= y
      BY <2>2, <2>3
    <3> QED BY <3>1, Zenon DEF Min
  <2> HIDE DEF I
  <2>6. Min(I) <= d - 1 /\ d - 1 <= Min(I) /\ Min(I) \in Nat
    BY <2>2, <2>3, <2>4, <2>5
  <2> HIDE DEF Min
  <2> QED BY <1>2, <2>1, <2>2, <2>6
<1>5. ASSUME ~Withheld(c) PROVE \E d : Closes(c, d)
  <2> DEFINE J == {i \in 2..Len(c) : c[i] = ThinkClose}
  <2>1. J # {} /\ J \in SUBSET Nat
    BY <1>0, <1>5 DEF Withheld
  <2>2. PICK d \in J : \A j \in J : d <= j
    BY <2>1, LeastNumber
  <2>3. Closes(c, d)
    BY <1>0, <2>2 DEF Closes
  <2> QED BY <2>3
<1>6. /\ IsList(rest) /\ Len(rest) = Len(c) - 1
      /\ Withheld(c) => FirstClose(rest) = 0
      /\ \A d : Closes(c, d) => FirstClose(rest) = d - 1
      /\ ~Withheld(c) => \E d : Closes(c, d)
  BY <1>1, <1>3, <1>4, <1>5
<1> QED BY <1>6 DEF rest

\* What follows the span, cut from all of it or from what follows its opening.
LEMMA AfterSpan ==
    ASSUME NEW c, IsList(c), Leading(c), NEW d, Closes(c, d)
    PROVE  LET rest == SubSeq(c, 2, Len(c))
               tail == SubSeq(c, d + 1, Len(c))
           IN  /\ SubSeq(rest, d, Len(rest)) = tail
               /\ SubSeq(c, 1, 0) = <<>>
               /\ IsList(tail) /\ Len(tail) = Len(c) - d
               /\ \A i \in 1..(Len(c) - d) : tail[i] = c[d + i]
<1> DEFINE rest == SubSeq(c, 2, Len(c))
           tail == SubSeq(c, d + 1, Len(c))
           other == SubSeq(rest, d, Len(rest))
           none == SubSeq(c, 1, 0)
<1>0. Len(c) \in Nat \ {0} /\ d \in 2..Len(c) /\ d \in Nat /\ Len(c) - d \in Nat /\ Len(c) - 1 \in Nat
  BY ListPlaces DEF Leading, Closes
<1>1. IsList(rest) /\ Len(rest) = Len(c) - 1 /\ \A i \in 1..(Len(c) - 1) : rest[i] = c[i + 1]
  <2>1. 2 \in 1..(Len(c) + 1) /\ Len(c) \in (2 - 1)..Len(c) /\ Len(c) - 2 + 1 = Len(c) - 1
        /\ \A i \in 1..(Len(c) - 1) : 2 + i - 1 = i + 1
    BY <1>0
  <2> QED BY <2>1, Cut
<1>2. IsList(tail) /\ Len(tail) = Len(c) - d /\ \A i \in 1..(Len(c) - d) : tail[i] = c[d + i]
  <2>1. d + 1 \in 1..(Len(c) + 1) /\ Len(c) \in ((d + 1) - 1)..Len(c) /\ Len(c) - (d + 1) + 1 = Len(c) - d
        /\ \A i \in 1..(Len(c) - d) : (d + 1) + i - 1 = d + i
    BY <1>0
  <2> QED BY <2>1, Cut
<1>3. none = <<>>
  <2>1. 1 \in 1..(Len(c) + 1) /\ 0 \in (1 - 1)..Len(c) /\ 0 - 1 + 1 = 0
    BY <1>0
  <2>2. IsList(none) /\ Len(none) = 0
    BY <2>1, Cut
  <2> HIDE DEF none
  <2> QED BY <2>2, NoneLeft
<1> HIDE DEF rest, tail, none
<1>4. IsList(other) /\ Len(other) = Len(c) - d /\ \A i \in 1..(Len(c) - d) : other[i] = rest[d + i - 1]
  <2>1. d \in 1..(Len(rest) + 1) /\ Len(rest) \in (d - 1)..Len(rest) /\ Len(rest) - d + 1 = Len(c) - d
    BY <1>0, <1>1
  <2> QED BY <1>1, <2>1, Cut
<1> HIDE DEF other
<1>5. \A i \in 1..(Len(c) - d) : other[i] = tail[i]
  <2> SUFFICES ASSUME NEW i \in 1..(Len(c) - d) PROVE other[i] = tail[i]
    OBVIOUS
  <2>1. d + i - 1 \in 1..(Len(c) - 1) /\ (d + i - 1) + 1 = d + i
    BY <1>0
  <2> QED BY <1>1, <1>2, <1>4, <2>1
<1>6. other = tail
  BY <1>2, <1>4, <1>5, Alike
<1> QED BY <1>2, <1>3, <1>6 DEF rest, tail, none, other

LEMMA StripIs ==
    ASSUME NEW c, IsList(c), Leads(c)
    PROVE  /\ ~Leading(c) => StripThinking(c) = c
           /\ Withheld(c) => StripThinking(c) = <<>>
           /\ \A d : Leading(c) /\ Closes(c, d) => StripThinking(c) = SubSeq(c, d + 1, Len(c))
<1> DEFINE open == FirstOpen(c)
           rest == SubSeq(c, open + 1, Len(c))
           close == FirstClose(rest)
<1>1. StripThinking(c) = CASE open = 0 -> c
                           [] open > 0 /\ close = 0 -> <<>>
                           [] OTHER -> SubSeq(c, 1, open - 1) \o SubSeq(rest, close + 1, Len(rest))
  BY Zenon DEF StripThinking, FirstOpen, FirstClose
<1>2. open = IF Leading(c) THEN 1 ELSE 0
  BY FirstOpenIs
<1>3. ASSUME ~Leading(c) PROVE StripThinking(c) = c
  <2> HIDE DEF open, rest, close
  <2> QED BY <1>1, <1>2, <1>3
<1>4. ASSUME Leading(c) PROVE rest = SubSeq(c, 2, Len(c)) /\ open = 1
  <2>1. open = 1 /\ open + 1 = 2
    BY <1>2, <1>4
  <2> HIDE DEF open
  <2> QED BY <2>1
<1>5. ASSUME Withheld(c) PROVE StripThinking(c) = <<>>
  <2>1. Leading(c)
    BY <1>5 DEF Withheld
  <2>2. FirstClose(SubSeq(c, 2, Len(c))) = 0
    BY <1>5, <2>1, FirstCloseIs
  <2>3. close = 0 /\ open = 1
    BY <1>4, <2>1, <2>2, Zenon
  <2> HIDE DEF open, rest, close
  <2> QED BY <1>1, <2>3
<1>6. ASSUME NEW d, Leading(c), Closes(c, d) PROVE StripThinking(c) = SubSeq(c, d + 1, Len(c))
  <2> DEFINE tail == SubSeq(c, d + 1, Len(c))
  <2>1. FirstClose(SubSeq(c, 2, Len(c))) = d - 1
    BY <1>6, FirstCloseIs
  <2>2. d \in 2..Len(c) /\ d - 1 > 0 /\ (d - 1) + 1 = d
    BY <1>6, ListPlaces DEF Closes
  <2>3. close = d - 1 /\ open = 1
    BY <1>4, <1>6, <2>1, Zenon
  <2>4. SubSeq(SubSeq(c, 2, Len(c)), d, Len(SubSeq(c, 2, Len(c)))) = tail /\ SubSeq(c, 1, 0) = <<>> /\ IsList(tail)
    BY <1>6, AfterSpan
  <2>5. SubSeq(rest, d, Len(rest)) = tail
    BY <1>4, <1>6, <2>4, Zenon
  <2>6. <<>> \o tail = tail
    BY <2>4, JoinedNone
  <2> HIDE DEF open, rest, close, tail
  <2>7. StripThinking(c) = SubSeq(c, 1, open - 1) \o SubSeq(rest, close + 1, Len(rest))
    BY <1>1, <2>2, <2>3
  <2>8. open - 1 = 0 /\ close + 1 = d
    BY <2>2, <2>3
  <2>9. StripThinking(c) = tail
    BY <2>4, <2>5, <2>6, <2>7, <2>8
  <2> QED BY <2>9 DEF tail
<1> QED BY <1>3, <1>5, <1>6

LEMMA OnTextIs ==
    ASSUME NEW t, NEW x, NEW buf, Joins(buf, t.pending, x), IsList(buf), Leads(buf)
    PROVE  LET taken == [t EXCEPT !.pending = <<>>]
           IN  /\ ~Leading(buf) => OnText(t, x) = EmitText(taken, buf)
               /\ Withheld(buf) => OnText(t, x) = [t EXCEPT !.pending = buf]
               /\ \A d : Leading(buf) /\ Closes(buf, d) => OnText(t, x) = EmitIfAny(taken, SubSeq(buf, d + 1, Len(buf)))
<1> DEFINE taken == [t EXCEPT !.pending = <<>>]
           open == FirstOpen(buf)
           rest == SubSeq(buf, open + 1, Len(buf))
           close == FirstClose(rest)
<1>1. OnText(t, x) = CASE open = 0 -> EmitText(taken, buf)
                       [] open > 0 /\ close = 0 -> [t EXCEPT !.pending = buf]
                       [] OTHER -> EmitIfAny(EmitIfAny(taken, SubSeq(buf, 1, open - 1)), SubSeq(rest, close + 1, Len(rest)))
  BY Zenon DEF OnText, FirstOpen, FirstClose, Joins
<1>2. open = IF Leading(buf) THEN 1 ELSE 0
  BY FirstOpenIs
<1> HIDE DEF taken
<1>3. ASSUME ~Leading(buf) PROVE OnText(t, x) = EmitText(taken, buf)
  <2> HIDE DEF open, rest, close
  <2> QED BY <1>1, <1>2, <1>3
<1>4. ASSUME Leading(buf) PROVE rest = SubSeq(buf, 2, Len(buf)) /\ open = 1
  <2>1. open = 1 /\ open + 1 = 2
    BY <1>2, <1>4
  <2> HIDE DEF open
  <2> QED BY <2>1
<1>5. ASSUME Withheld(buf) PROVE OnText(t, x) = [t EXCEPT !.pending = buf]
  <2>1. Leading(buf)
    BY <1>5 DEF Withheld
  <2>2. FirstClose(SubSeq(buf, 2, Len(buf))) = 0
    BY <1>5, <2>1, FirstCloseIs
  <2>3. close = 0 /\ open = 1
    BY <1>4, <2>1, <2>2, Zenon
  <2> HIDE DEF open, rest, close
  <2> QED BY <1>1, <2>3
<1>6. ASSUME NEW d, Leading(buf), Closes(buf, d) PROVE OnText(t, x) = EmitIfAny(taken, SubSeq(buf, d + 1, Len(buf)))
  <2> DEFINE tail == SubSeq(buf, d + 1, Len(buf))
  <2>1. FirstClose(SubSeq(buf, 2, Len(buf))) = d - 1
    BY <1>6, FirstCloseIs
  <2>2. d \in 2..Len(buf) /\ d - 1 > 0 /\ (d - 1) + 1 = d
    BY <1>6, ListPlaces DEF Closes
  <2>3. close = d - 1 /\ open = 1
    BY <1>4, <1>6, <2>1, Zenon
  <2>4. SubSeq(SubSeq(buf, 2, Len(buf)), d, Len(SubSeq(buf, 2, Len(buf)))) = tail /\ SubSeq(buf, 1, 0) = <<>>
    BY <1>6, AfterSpan
  <2>5. SubSeq(rest, d, Len(rest)) = tail
    BY <1>4, <1>6, <2>4, Zenon
  <2> HIDE DEF open, rest, close, tail
  <2>6. OnText(t, x) = EmitIfAny(EmitIfAny(taken, SubSeq(buf, 1, open - 1)), SubSeq(rest, close + 1, Len(rest)))
    BY <1>1, <2>2, <2>3
  <2>7. open - 1 = 0 /\ close + 1 = d
    BY <2>2, <2>3
  <2>8. EmitIfAny(taken, <<>>) = taken
    BY DEF EmitIfAny
  <2>9. OnText(t, x) = EmitIfAny(taken, tail)
    BY <2>4, <2>5, <2>6, <2>7, <2>8
  <2> QED BY <2>9 DEF tail
<1>7. /\ ~Leading(buf) => OnText(t, x) = EmitText(taken, buf)
      /\ Withheld(buf) => OnText(t, x) = [t EXCEPT !.pending = buf]
      /\ \A d : Leading(buf) /\ Closes(buf, d) => OnText(t, x) = EmitIfAny(taken, SubSeq(buf, d + 1, Len(buf)))
  BY <1>3, <1>5, <1>6
<1> QED BY <1>7 DEF taken

-----------------------------------------------------------------------------
(* Reasoning and text as an agent holds them while they arrive.            *)

Reasoned(r) == IF r = <<>> THEN <<>> ELSE Append(<<>>, Thinking(r))
Blocks(r, v) == IF v = <<>> THEN Reasoned(r) ELSE Append(Reasoned(r), Text(v))
KeyOf(r, v) == IF v # <<>> THEN <<"text">> ELSE IF r # <<>> THEN <<"thinking">> ELSE NoBlock

\* The agent holds the reasoning r and then the visible text v.
Speaks(t, r, v) == Carries(t) /\ t.open = KeyOf(r, v) /\ Settled(t) = Blocks(r, v)

Written == {"events", "open", "index", "next"}

LEMMA KeysDiffer ==
    /\ NoBlock # <<"text">> /\ NoBlock # <<"thinking">> /\ <<"text">> # <<"thinking">>
    /\ \A i : <<"tool", i>> # NoBlock /\ <<"tool", i>> # <<"text">> /\ <<"tool", i>> # <<"thinking">>
    /\ \A i, j : <<"tool", i>> = <<"tool", j>> => i = j
<1>1. /\ NoBlock[1] = "none" /\ <<"text">>[1] = "text" /\ <<"thinking">>[1] = "thinking"
      /\ \A i : <<"tool", i>>[1] = "tool" /\ <<"tool", i>>[2] = i
  BY DEF NoBlock
<1>2. "none" # "text" /\ "none" # "thinking" /\ "text" # "thinking" /\ "tool" # "none" /\ "tool" # "text" /\ "tool" # "thinking"
  OBVIOUS
<1> QED BY <1>1, <1>2, Zenon

LEMMA ReasonedList == ASSUME NEW r PROVE IsList(Reasoned(r)) /\ Len(Reasoned(r)) = IF r = <<>> THEN 0 ELSE 1
<1>1. IsList(Append(<<>>, Thinking(r))) /\ Len(Append(<<>>, Thinking(r))) = 0 + 1
  BY Empty, Appended
<1> QED BY <1>1, Empty DEF Reasoned

LEMMA BlocksList == ASSUME NEW r, NEW v PROVE IsList(Blocks(r, v))
<1>1. IsList(Append(Reasoned(r), Text(v)))
  BY ReasonedList, Appended
<1> QED BY <1>1, ReasonedList DEF Blocks

\* A translator that differs in what it has not written holds the same.
LEMMA CarriesSame ==
    ASSUME NEW t, Carries(t), NEW u, DOMAIN u = Fields,
           u.events = t.events, u.open = t.open, u.index = t.index, u.next = t.next, u.finished = t.finished
    PROVE  Carries(u) /\ Settled(u) = Settled(t) /\ Asm(u) = Asm(t)
<1>1. Asm(u) = Asm(t)
  BY DEF Asm
<1>2. Carries(u)
  BY <1>1 DEF Carries, Shaped
<1>3. Settled(u) = Settled(t)
  BY <1>1 DEF Settled
<1> QED BY <1>1, <1>2, <1>3

\* A block to go on with: the one that is open, or none of its kind yet.
Goes(t, want, front, ty, y) ==
    /\ y = <<>> => t.open # want /\ Settled(t) = front
    /\ y # <<>> => t.open = want /\ Ends(t, front, ty, y)

\* Opening a block, unless it is open, and going on with it.
LEMMA GoesOn ==
    ASSUME NEW t, Carries(t), NEW want, want # NoBlock, NEW kind, kind # "input", NEW ty, ty # "tool_use",
           NEW front, IsList(front), NEW y, IsList(y), NEW x, IsList(x), Goes(t, want, front, ty, y)
    PROVE  LET u == Delta(EnsureOpen(t, want, Block(ty, <<>>)), kind, x)
           IN  /\ Carries(u) /\ At(u, want) /\ Keeps(u, t, Written)
               /\ Ends(u, front, ty, y \o x)
<1> DEFINE o == EnsureOpen(t, want, Block(ty, <<>>))
           u == Delta(o, kind, x)
<1>1. /\ Carries(o) /\ o.open = want /\ Keeps(o, t, Written)
      /\ Ends(o, front, ty, y)
  <2>1. CASE y = <<>>
    <3>1. Openable(Block(ty, <<>>))
      BY DEF Openable, Block
    <3>2. t.open # want
      BY <2>1 DEF Goes
    <3>3. /\ Carries(o) /\ At(o, want) /\ Keeps(o, t, {"events", "open", "index", "next"})
          /\ Settled(o) = Append(Settled(t), Block(ty, <<>>))
      BY <3>1, <3>2, OpenIs
    <3>4. Settled(t) = front
      BY <2>1 DEF Goes
    <3> HIDE DEF o
    <3> QED BY <2>1, <3>3, <3>4 DEF Written, Ends, At
  <2>2. CASE y # <<>>
    <3>1. o = t /\ Ends(t, front, ty, y) /\ t.open = want
      BY <2>2 DEF EnsureOpen, Goes
    <3> HIDE DEF o
    <3> QED BY <3>1 DEF Keeps
  <2> QED BY <2>1, <2>2
<1> HIDE DEF o
<1>2. Carries(u) /\ Keeps(u, o, {"events"}) /\ Ends(u, front, ty, y \o x)
  <2>1. o.open # NoBlock
    BY <1>1
  <2> QED BY <1>1, <2>1, DeltaTextIs
<1> HIDE DEF u
<1>3. u.open = want /\ Keeps(u, t, Written)
  BY <1>1, <1>2 DEF Keeps, Written, Fields
<1>4. /\ Carries(u) /\ At(u, want) /\ Keeps(u, t, Written)
      /\ Ends(u, front, ty, y \o x)
  BY <1>2, <1>3 DEF At
<1> QED BY <1>4 DEF u, o

LEMMA ThinksOn ==
    ASSUME NEW t, NEW r, IsList(r), Speaks(t, r, <<>>), NEW x, IsList(x), x # <<>>
    PROVE  Speaks(OnThinking(t, x), r \o x, <<>>) /\ Keeps(OnThinking(t, x), t, Written)
<1> DEFINE u == OnThinking(t, x)
<1>1. u = Delta(EnsureOpen(t, <<"thinking">>, Block("thinking", <<>>)), "thinking", x)
  BY DEF OnThinking, Thinking, Block
<1>2. Goes(t, <<"thinking">>, <<>>, "thinking", r)
  BY KeysDiffer DEF Speaks, KeyOf, Blocks, Reasoned, Thinking, Block, Goes, Ends
<1>3. Carries(t) /\ <<"thinking">> # NoBlock
  BY KeysDiffer DEF Speaks
<1>4. /\ Carries(u) /\ At(u, <<"thinking">>) /\ Keeps(u, t, Written)
      /\ Ends(u, <<>>, "thinking", r \o x)
  <2>1. "thinking" # "input" /\ "thinking" # "tool_use"
    OBVIOUS
  <2> HIDE DEF u
  <2> QED BY <1>1, <1>2, <1>3, <2>1, Empty, GoesOn
<1> HIDE DEF u
<1>5. r \o x # <<>>
  <2>1. Len(r \o x) = Len(r) + Len(x) /\ IsList(r \o x)
    BY Joined
  <2>2. Len(r) \in Nat /\ Len(x) \in Nat \ {0}
    BY ListPlaces, NoneLeft
  <2> QED BY <2>1, <2>2, NoneLeft
<1>6. Speaks(u, r \o x, <<>>)
  BY <1>4, <1>5 DEF Speaks, KeyOf, Blocks, Reasoned, Thinking, Block, Ends, At
<1> QED BY <1>4, <1>6 DEF u

LEMMA SaysOn ==
    ASSUME NEW t, NEW r, NEW v, IsList(v), Speaks(t, r, v), NEW x, IsList(x), x # <<>>
    PROVE  Speaks(EmitText(t, x), r, v \o x) /\ Keeps(EmitText(t, x), t, Written)
<1> DEFINE u == EmitText(t, x)
<1>1. u = Delta(EnsureOpen(t, <<"text">>, Block("text", <<>>)), "text", x)
  BY DEF EmitText, Text, Block
<1>2. Goes(t, <<"text">>, Reasoned(r), "text", v)
  BY KeysDiffer DEF Speaks, KeyOf, Blocks, Text, Block, Goes, Ends
<1>3. Carries(t) /\ <<"text">> # NoBlock /\ IsList(Reasoned(r))
  BY KeysDiffer, ReasonedList DEF Speaks
<1>4. /\ Carries(u) /\ At(u, <<"text">>) /\ Keeps(u, t, Written)
      /\ Ends(u, Reasoned(r), "text", v \o x)
  <2>1. "text" # "input" /\ "text" # "tool_use"
    OBVIOUS
  <2> HIDE DEF u
  <2> QED BY <1>1, <1>2, <1>3, <2>1, GoesOn
<1> HIDE DEF u
<1>5. v \o x # <<>>
  <2>1. Len(v \o x) = Len(v) + Len(x) /\ IsList(v \o x)
    BY Joined
  <2>2. Len(v) \in Nat /\ Len(x) \in Nat \ {0}
    BY ListPlaces, NoneLeft
  <2> QED BY <2>1, <2>2, NoneLeft
<1>6. Speaks(u, r, v \o x)
  BY <1>4, <1>5 DEF Speaks, KeyOf, Blocks, Text, Block, Ends, At
<1> QED BY <1>4, <1>6 DEF u

-----------------------------------------------------------------------------
(* Text as it arrives, behind a leading span.                              *)

Pend(c) == IF Withheld(c) THEN c ELSE <<>>

LEMMA SpeaksSame ==
    ASSUME NEW t, NEW r, NEW v, Speaks(t, r, v), NEW p
    PROVE  LET u == [t EXCEPT !.pending = p]
           IN  Speaks(u, r, v) /\ u.pending = p /\ Keeps(u, t, {"pending"})
<1> DEFINE u == [t EXCEPT !.pending = p]
<1>1. Carries(t) /\ DOMAIN t = Fields
  BY DEF Speaks, Carries, Shaped
<1>2. /\ DOMAIN u = Fields /\ u.events = t.events /\ u.open = t.open /\ u.index = t.index
      /\ u.next = t.next /\ u.finished = t.finished /\ u.pending = p
  BY <1>1 DEF Fields
<1>3. Keeps(u, t, {"pending"})
  BY <1>1 DEF Keeps, Fields
<1> HIDE DEF u
<1>4. Carries(u) /\ Settled(u) = Settled(t)
  BY <1>1, <1>2, CarriesSame
<1>5. Speaks(u, r, v) /\ u.pending = p /\ Keeps(u, t, {"pending"})
  BY <1>2, <1>3, <1>4 DEF Speaks
<1> QED BY <1>5 DEF u

\* What of a text precedes what comes next to it.
LEMMA JoinedPlaces ==
    ASSUME NEW c, IsList(c), NEW x, IsList(x), x # <<>>, NEW d, Joins(d, c, x), Leads(d)
    PROVE  /\ IsList(d) /\ Len(d) = Len(c) + Len(x) /\ Len(c) \in Nat /\ Len(x) \in Nat \ {0}
           /\ \A i \in 1..Len(c) : d[i] = c[i]
           /\ \A i \in 1..Len(x) : d[Len(c) + i] = x[i]
           /\ Leads(c) /\ Leads(x)
           /\ c # <<>> => (Leading(d) <=> Leading(c)) /\ ~Leading(x)
           /\ c = <<>> => d = x /\ ~Leading(c) /\ ~Withheld(c)
<1>1. /\ IsList(d) /\ Len(d) = Len(c) + Len(x) /\ Len(c) \in Nat /\ Len(x) \in Nat \ {0}
      /\ \A i \in 1..Len(c) : d[i] = c[i]
      /\ \A i \in 1..Len(x) : d[Len(c) + i] = x[i]
  BY Joined, ListPlaces, NoneLeft DEF Joins
<1>2. Leads(c)
  BY <1>1 DEF Leads
<1>3. ASSUME c # <<>> PROVE \A i \in 1..Len(x) : x[i] # ThinkOpen
  <2>1. Len(c) \in Nat \ {0}
    BY <1>3, NoneLeft
  <2> SUFFICES ASSUME NEW i \in 1..Len(x) PROVE x[i] # ThinkOpen
    OBVIOUS
  <2>2. Len(c) + i \in 1..Len(d) /\ Len(c) + i # 1
    BY <1>1, <2>1
  <2> QED BY <1>1, <2>2 DEF Leads
<1>4. ASSUME c = <<>> PROVE d = x /\ ~Leading(c) /\ ~Withheld(c)
  <2>1. Len(c) = 0
    BY <1>4, NoneLeft
  <2>2. d = x
    BY <1>4, JoinedNone DEF Joins
  <2> QED BY <2>1, <2>2 DEF Leading, Withheld
<1>5. Leads(x)
  <2>1. CASE c = <<>>
    BY <1>4, <2>1
  <2>2. CASE c # <<>>
    BY <1>3, <2>2 DEF Leads
  <2> QED BY <2>1, <2>2
<1>6. ASSUME c # <<>> PROVE (Leading(d) <=> Leading(c)) /\ ~Leading(x)
  <2>1. Len(c) \in Nat \ {0} /\ 1 \in 1..Len(c) /\ 1 \in 1..Len(x) /\ Len(d) > 0
    BY <1>1, <1>6, NoneLeft
  <2> QED BY <1>1, <1>3, <1>6, <2>1 DEF Leading
<1> QED BY <1>1, <1>2, <1>4, <1>5, <1>6

\* A span that closes in what had come stays closed, and its tail goes on.
LEMMA TailOn ==
    ASSUME NEW c, IsList(c), NEW x, IsList(x), x # <<>>, NEW d, Joins(d, c, x), Leads(d), NEW k, Closes(d, k), k <= Len(c),
           Leading(d)
    PROVE  /\ Leading(c) /\ Closes(c, k) /\ ~Withheld(c) /\ c # <<>>
           /\ SubSeq(d, k + 1, Len(d)) = SubSeq(c, k + 1, Len(c)) \o x
           /\ IsList(SubSeq(c, k + 1, Len(c)))
<1>1. /\ IsList(d) /\ Len(d) = Len(c) + Len(x) /\ Len(c) \in Nat /\ Len(x) \in Nat \ {0}
      /\ \A i \in 1..Len(c) : d[i] = c[i]
      /\ \A i \in 1..Len(x) : d[Len(c) + i] = x[i]
  BY JoinedPlaces
<1>2. k \in Nat /\ k \in 2..Len(c) /\ Len(c) > 0
  BY <1>1 DEF Closes
<1>3. Closes(c, k)
  <2>1. \A i \in 2..k : d[i] = c[i]
    BY <1>1, <1>2
  <2>2. k \in 2..k /\ \A i \in 2..(k - 1) : i \in 2..k
    BY <1>2
  <2> QED BY <1>2, <2>1, <2>2 DEF Closes
<1>4. Leading(c)
  BY <1>1, <1>2 DEF Leading
<1>5. c # <<>> /\ ~Withheld(c)
  BY <1>2, <1>3, NoneLeft DEF Withheld, Closes
<1> DEFINE u == SubSeq(d, k + 1, Len(d))
           v == SubSeq(c, k + 1, Len(c))
           w == v \o x
<1>6. IsList(u) /\ Len(u) = Len(d) - k /\ \A i \in 1..(Len(d) - k) : u[i] = d[k + i]
  BY <1>1, AfterSpan
<1>7. IsList(v) /\ Len(v) = Len(c) - k /\ \A i \in 1..(Len(c) - k) : v[i] = c[k + i]
  BY <1>3, <1>4, AfterSpan
<1> HIDE DEF u, v
<1>8. /\ IsList(w) /\ Len(w) = (Len(c) - k) + Len(x)
      /\ \A i \in 1..(Len(c) - k) : w[i] = v[i]
      /\ \A i \in 1..Len(x) : w[(Len(c) - k) + i] = x[i]
  <2>1. /\ IsList(w) /\ Len(w) = Len(v) + Len(x)
        /\ \A i \in 1..Len(v) : w[i] = v[i]
        /\ \A i \in 1..Len(x) : w[Len(v) + i] = x[i]
    <3>1. IsList(v) /\ IsList(x)
      BY <1>7
    <3> QED BY <3>1, Joined
  <2> HIDE DEF w
  <2> QED BY <1>7, <2>1
<1> HIDE DEF w
<1>9. \A i \in 1..(Len(d) - k) : u[i] = w[i]
  <2> SUFFICES ASSUME NEW i \in 1..(Len(d) - k) PROVE u[i] = w[i]
    OBVIOUS
  <2>1. CASE i \in 1..(Len(c) - k)
    <3>1. k + i \in 1..Len(c)
      BY <1>1, <1>2, <2>1
    <3> QED BY <1>1, <1>6, <1>7, <1>8, <2>1, <3>1
  <2>2. CASE i \notin 1..(Len(c) - k)
    <3>1. i - (Len(c) - k) \in 1..Len(x) /\ (Len(c) - k) + (i - (Len(c) - k)) = i
          /\ Len(c) + (i - (Len(c) - k)) = k + i
      BY <1>1, <1>2, <2>2
    <3>2. w[(Len(c) - k) + (i - (Len(c) - k))] = x[i - (Len(c) - k)]
          /\ d[Len(c) + (i - (Len(c) - k))] = x[i - (Len(c) - k)]
      BY <1>1, <1>8, <3>1
    <3>3. w[i] = d[k + i]
      BY <3>1, <3>2
    <3> QED BY <1>6, <3>3
  <2> QED BY <2>1, <2>2
<1>10. u = w
  <2>1. Len(u) = Len(w)
    BY <1>1, <1>2, <1>6, <1>8
  <2> QED BY <1>6, <1>8, <1>9, <2>1, Alike
<1> QED BY <1>3, <1>4, <1>5, <1>7, <1>10 DEF u, v, w

\* A span that had not closed is held back whole.
LEMMA HeldBack ==
    ASSUME NEW c, IsList(c), NEW x, IsList(x), x # <<>>, NEW d, Joins(d, c, x), Leads(d), Leading(d),
           Withheld(d) \/ \E k : Closes(d, k) /\ ~(k <= Len(c))
    PROVE  Pend(c) = c /\ StripThinking(c) = <<>>
<1>1. /\ IsList(d) /\ Len(d) = Len(c) + Len(x) /\ Len(c) \in Nat /\ Len(x) \in Nat \ {0}
      /\ \A i \in 1..Len(c) : d[i] = c[i]
      /\ Leads(c)
      /\ c # <<>> => (Leading(d) <=> Leading(c))
      /\ c = <<>> => ~Leading(c) /\ ~Withheld(c)
  BY JoinedPlaces
<1>2. CASE c = <<>>
  <2>1. StripThinking(c) = c
    BY <1>1, <1>2, StripIs
  <2> QED BY <1>1, <1>2, <2>1 DEF Pend
<1>3. CASE c # <<>>
  <2>1. Leading(c)
    BY <1>1, <1>3
  <2>2. \A i \in 2..Len(c) : c[i] # ThinkClose
    <3> SUFFICES ASSUME NEW i \in 2..Len(c) PROVE c[i] # ThinkClose
      OBVIOUS
    <3>1. i \in 1..Len(c) /\ i \in 2..Len(d) /\ d[i] = c[i]
      BY <1>1
    <3>2. CASE Withheld(d)
      BY <3>1, <3>2 DEF Withheld
    <3>3. CASE \E k : Closes(d, k) /\ ~(k <= Len(c))
      <4>1. PICK k : Closes(d, k) /\ ~(k <= Len(c))
        BY <3>3
      <4>2. k \in 2..Len(d) /\ i \in 2..(k - 1)
        BY <1>1, <4>1 DEF Closes
      <4> QED BY <3>1, <4>1, <4>2 DEF Closes
    <3> QED BY <3>2, <3>3
  <2>3. Withheld(c)
    BY <2>1, <2>2 DEF Withheld
  <2> QED BY <1>1, <2>3, StripIs DEF Pend
<1> QED BY <1>2, <1>3

LEMMA EmitsIfAny ==
    ASSUME NEW t, NEW r, Speaks(t, r, <<>>), NEW x, IsList(x)
    PROVE  Speaks(EmitIfAny(t, x), r, x) /\ Keeps(EmitIfAny(t, x), t, Written)
<1>1. CASE x = <<>>
  <2>1. EmitIfAny(t, x) = t
    BY <1>1 DEF EmitIfAny
  <2> QED BY <1>1, <2>1 DEF Keeps
<1>2. CASE x # <<>>
  <2>1. EmitIfAny(t, x) = EmitText(t, x)
    BY <1>2 DEF EmitIfAny
  <2>2. Speaks(EmitText(t, x), r, <<>> \o x) /\ Keeps(EmitText(t, x), t, Written)
    BY <1>2, Empty, SaysOn
  <2>3. <<>> \o x = x
    BY JoinedNone
  <2> QED BY <2>1, <2>2, <2>3
<1> QED BY <1>1, <1>2

\* Text that arrives is seen as the whole reading of it would have it.
LEMMA TextOn ==
    ASSUME NEW t, NEW r, NEW c, IsList(c), NEW x, IsList(x), x # <<>>, Leads(c \o x),
           Speaks(t, r, StripThinking(c)), t.pending = Pend(c)
    PROVE  LET u == OnText(t, x)
           IN  /\ Speaks(u, r, StripThinking(c \o x)) /\ u.pending = Pend(c \o x)
               /\ Keeps(u, t, Written \cup {"pending"})
<1> DEFINE d == c \o x
           u == OnText(t, x)
           taken == [t EXCEPT !.pending = <<>>]
           Good == /\ Speaks(u, r, StripThinking(d)) /\ u.pending = Pend(d)
                   /\ Keeps(u, t, Written \cup {"pending"})
<1>0. d = c \o x /\ Joins(d, c, x) /\ Leads(d)
  BY DEF Joins
<1> HIDE DEF d
<1>1. /\ IsList(d) /\ Leads(c) /\ Leads(x)
      /\ c # <<>> => (Leading(d) <=> Leading(c)) /\ ~Leading(x)
      /\ c = <<>> => d = x /\ ~Leading(c) /\ ~Withheld(c)
  <2>1. IsList(c) /\ IsList(x) /\ x # <<>> /\ Joins(d, c, x) /\ Leads(d)
    BY <1>0
  <2> QED BY ONLY <2>1, JoinedPlaces
<1>2. Speaks(taken, r, StripThinking(c)) /\ taken.pending = <<>> /\ Keeps(taken, t, {"pending"})
  <2> DEFINE v == StripThinking(c)
  <2>1. Speaks(t, r, v)
    OBVIOUS
  <2> HIDE DEF v
  <2>2. Speaks(taken, r, v) /\ taken.pending = <<>> /\ Keeps(taken, t, {"pending"})
    BY <2>1, SpeaksSame
  <2> QED BY <2>2 DEF v
<1>3. /\ t.pending = <<>> => Joins(x, t.pending, x)
      /\ t.pending = c => Joins(d, t.pending, x)
  BY <1>0, JoinedNone DEF Joins
<1> HIDE DEF taken
<1>4. ASSUME NEW z, Keeps(z, taken, Written)
      PROVE  z.pending = <<>> /\ Keeps(z, t, Written \cup {"pending"})
  BY <1>2, <1>4 DEF Keeps, Written, Fields
<1>5. ASSUME ~Leading(x), Pend(c) = <<>>, IsList(StripThinking(c)), StripThinking(c) \o x = StripThinking(d), Pend(d) = <<>>
      PROVE  Good
  <2>0. Joins(x, t.pending, x) /\ IsList(x) /\ Leads(x)
    BY <1>1, <1>3, <1>5
  <2>1. u = EmitText(taken, x)
    BY <1>5, <2>0, OnTextIs DEF taken
  <2>2. Speaks(EmitText(taken, x), r, StripThinking(c) \o x) /\ Keeps(EmitText(taken, x), taken, Written)
    BY <1>2, <1>5, SaysOn
  <2> HIDE DEF u
  <2> QED BY <1>4, <1>5, <2>1, <2>2
<1>6. ASSUME ~Leading(d) PROVE Good
  <2>1. ~Withheld(d) /\ ~Leading(x) /\ ~Leading(c) /\ ~Withheld(c)
    BY <1>1, <1>6 DEF Withheld
  <2>2. StripThinking(c) = c /\ StripThinking(d) = d
    BY <1>0, <1>1, <2>1, <1>6, StripIs
  <2>3. Pend(c) = <<>> /\ Pend(d) = <<>>
    BY <2>1 DEF Pend
  <2>4. IsList(StripThinking(c)) /\ StripThinking(c) \o x = StripThinking(d)
    BY <1>0, <2>2
  <2> HIDE DEF Good
  <2> QED BY <1>5, <2>1, <2>3, <2>4
<1>7. ASSUME Withheld(d) PROVE Good
  <2>1. Leading(d)
    BY <1>7 DEF Withheld
  <2>2. Pend(c) = c /\ StripThinking(c) = <<>>
    BY <1>0, <1>7, <2>1, HeldBack
  <2>3. u = [t EXCEPT !.pending = d]
    <3>1. Joins(d, t.pending, x)
      BY <1>3, <2>2
    <3> QED BY <1>0, <1>1, <1>7, <3>1, OnTextIs
  <2>4. StripThinking(d) = <<>> /\ Pend(d) = d
    BY <1>0, <1>1, <1>7, StripIs DEF Pend
  <2>5. Speaks([t EXCEPT !.pending = d], r, StripThinking(c)) /\ [t EXCEPT !.pending = d].pending = d
        /\ Keeps([t EXCEPT !.pending = d], t, {"pending"})
    BY SpeaksSame
  <2> HIDE DEF u
  <2>6. Speaks(u, r, StripThinking(d)) /\ u.pending = Pend(d) /\ Keeps(u, t, {"pending"})
    BY <2>2, <2>3, <2>4, <2>5
  <2>7. Keeps(u, t, Written \cup {"pending"})
    BY <2>6 DEF Keeps
  <2> QED BY <2>6, <2>7
<1>8. ASSUME Leading(d) /\ ~Withheld(d) PROVE Good
  <2>1. PICK k : Closes(d, k)
    BY <1>1, <1>8, FirstCloseIs
  <2>2. StripThinking(d) = SubSeq(d, k + 1, Len(d)) /\ Pend(d) = <<>>
    BY <1>0, <1>1, <1>8, <2>1, StripIs DEF Pend
  <2>3. CASE k <= Len(c)
    <3>1. /\ Leading(c) /\ Closes(c, k) /\ ~Withheld(c) /\ c # <<>>
          /\ SubSeq(d, k + 1, Len(d)) = SubSeq(c, k + 1, Len(c)) \o x
          /\ IsList(SubSeq(c, k + 1, Len(c)))
      BY <1>0, <1>8, <2>1, <2>3, TailOn
    <3>2. StripThinking(c) = SubSeq(c, k + 1, Len(c))
      BY <1>1, <3>1, StripIs
    <3>3. Pend(c) = <<>> /\ ~Leading(x)
      BY <1>1, <3>1 DEF Pend
    <3>4. IsList(StripThinking(c)) /\ StripThinking(c) \o x = StripThinking(d)
      BY <2>2, <3>1, <3>2
    <3> HIDE DEF Good
    <3> QED BY <1>5, <2>2, <3>3, <3>4
  <2>4. CASE ~(k <= Len(c))
    <3> DEFINE tail == SubSeq(d, k + 1, Len(d))
    <3>1. Pend(c) = c /\ StripThinking(c) = <<>>
      BY <1>0, <1>8, <2>1, <2>4, HeldBack
    <3>2. u = EmitIfAny(taken, tail)
      <4>1. Joins(d, t.pending, x)
        BY <1>3, <3>1
      <4> QED
        <5>1. OnText(t, x) = EmitIfAny([t EXCEPT !.pending = <<>>], SubSeq(d, k + 1, Len(d)))
          <6>1. IsList(d) /\ Leads(d) /\ Leading(d)
            BY <1>0, <1>1, <1>8
          <6>2. \A j : Leading(d) /\ Closes(d, j) =>
                  OnText(t, x) = EmitIfAny([t EXCEPT !.pending = <<>>], SubSeq(d, j + 1, Len(d)))
            BY <4>1, <6>1, OnTextIs, Zenon
          <6> QED BY <2>1, <6>1, <6>2
        <5> QED BY <5>1 DEF taken
    <3>3. IsList(tail)
      BY <1>1, <1>8, <2>1, AfterSpan
    <3> HIDE DEF u, tail
    <3>4. Speaks(u, r, tail) /\ Keeps(u, taken, Written)
      BY <1>2, <3>1, <3>2, <3>3, EmitsIfAny
    <3>5. u.pending = <<>> /\ Keeps(u, t, Written \cup {"pending"})
      BY <1>4, <3>4
    <3>6. Speaks(u, r, StripThinking(d))
      BY <2>2, <3>4 DEF tail
    <3>7. u.pending = Pend(d)
      BY <2>2, <3>5
    <3> QED BY <3>5, <3>6, <3>7
  <2> QED BY <2>3, <2>4
<1> HIDE DEF Good
<1>9. Good
  BY <1>6, <1>7, <1>8
<1> QED BY <1>9 DEF Good, d

-----------------------------------------------------------------------------
(* Slices of a list.                                                       *)

LEMMA One == ASSUME NEW e PROVE IsList(<<e>>) /\ Len(<<e>>) = 1 /\ <<e>>[1] = e
<1>1. <<e>> = [i \in 1..1 |-> <<e>>[i]]
  OBVIOUS
<1>2. 1 \in Nat
  OBVIOUS
<1> QED BY <1>1, <1>2, Built

LEMMA NoSlice ==
    ASSUME NEW s, IsList(s), NEW m \in 0..Len(s)
    PROVE  SubSeq(s, m + 1, m) = <<>>
<1>1. m + 1 \in 1..(Len(s) + 1) /\ m \in ((m + 1) - 1)..Len(s) /\ m - (m + 1) + 1 = 0
  BY ListPlaces
<1>2. IsList(SubSeq(s, m + 1, m)) /\ Len(SubSeq(s, m + 1, m)) = 0
  BY <1>1, Cut
<1> QED BY <1>2, NoneLeft

LEMMA SliceIs ==
    ASSUME NEW s, IsList(s), NEW m \in 0..Len(s), NEW n \in m..Len(s)
    PROVE  /\ IsList(SubSeq(s, m + 1, n)) /\ Len(SubSeq(s, m + 1, n)) = n - m
           /\ \A i \in 1..(n - m) : SubSeq(s, m + 1, n)[i] = s[m + i]
<1>1. /\ m + 1 \in 1..(Len(s) + 1) /\ n \in ((m + 1) - 1)..Len(s) /\ n - (m + 1) + 1 = n - m
      /\ \A i \in 1..(n - m) : (m + 1) + i - 1 = m + i
  BY ListPlaces
<1> QED BY <1>1, Cut

\* One place more is one element more.
LEMMA SliceOn ==
    ASSUME NEW s, IsList(s), NEW m \in 0..Len(s), NEW n \in m..Len(s), n + 1 <= Len(s)
    PROVE  SubSeq(s, m + 1, n + 1) = SubSeq(s, m + 1, n) \o <<s[n + 1]>>
<1> DEFINE u == SubSeq(s, m + 1, n)
           v == SubSeq(s, m + 1, n + 1)
           e == <<s[n + 1]>>
           w == u \o e
<1>0. Len(s) \in Nat /\ m \in Nat /\ n \in Nat /\ n - m \in Nat /\ n + 1 \in m..Len(s) /\ (n + 1) - m = (n - m) + 1
  BY ListPlaces
<1>1. IsList(u) /\ Len(u) = n - m /\ \A i \in 1..(n - m) : u[i] = s[m + i]
  BY SliceIs
<1>2. IsList(v) /\ Len(v) = (n - m) + 1 /\ \A i \in 1..((n - m) + 1) : v[i] = s[m + i]
  BY <1>0, SliceIs
<1>3. IsList(e) /\ Len(e) = 1 /\ e[1] = s[n + 1]
  BY One
<1> HIDE DEF u, v, e
<1>4. /\ IsList(w) /\ Len(w) = (n - m) + 1
      /\ \A i \in 1..(n - m) : w[i] = u[i]
      /\ \A i \in 1..1 : w[(n - m) + i] = e[i]
  <2>1. IsList(u) /\ IsList(e)
    BY <1>1, <1>3
  <2>2. /\ IsList(w) /\ Len(w) = Len(u) + Len(e)
        /\ \A i \in 1..Len(u) : w[i] = u[i]
        /\ \A i \in 1..Len(e) : w[Len(u) + i] = e[i]
    BY <2>1, Joined
  <2> HIDE DEF w
  <2> QED BY <1>1, <1>3, <2>2
<1> HIDE DEF w
<1>5. \A i \in 1..((n - m) + 1) : v[i] = w[i]
  <2> SUFFICES ASSUME NEW i \in 1..((n - m) + 1) PROVE v[i] = w[i]
    OBVIOUS
  <2>1. CASE i \in 1..(n - m)
    BY <1>1, <1>2, <1>4, <2>1
  <2>2. CASE i \notin 1..(n - m)
    <3>1. i = (n - m) + 1 /\ 1 \in 1..1 /\ m + i = n + 1
      BY <1>0, <2>2
    <3>2. w[(n - m) + 1] = e[1]
      BY <1>4, <3>1
    <3> QED BY <1>2, <1>3, <3>1, <3>2
  <2> QED BY <2>1, <2>2
<1>6. v = w
  BY <1>2, <1>4, <1>5, Alike
<1> QED BY <1>6 DEF u, v, e, w

Take(s, n) == SubSeq(s, 1, n)

LEMMA TakeIs ==
    ASSUME NEW s, IsList(s)
    PROVE  /\ Take(s, 0) = <<>> /\ Take(s, Len(s)) = s
           /\ \A n \in 0..Len(s) : IsList(Take(s, n)) /\ Len(Take(s, n)) = n /\ \A i \in 1..n : Take(s, n)[i] = s[i]
           /\ \A m \in 0..Len(s) : \A n \in m..Len(s) : Take(s, m) \o SubSeq(s, m + 1, n) = Take(s, n)
<1>0. Len(s) \in Nat /\ 0 \in 0..Len(s) /\ 0 + 1 = 1 /\ Len(s) \in 0..Len(s)
  BY ListPlaces
<1>1. Take(s, 0) = <<>>
  BY <1>0, NoSlice DEF Take
<1>2. ASSUME NEW n \in 0..Len(s)
      PROVE  IsList(Take(s, n)) /\ Len(Take(s, n)) = n /\ \A i \in 1..n : Take(s, n)[i] = s[i]
  <2>1. n - 0 = n /\ \A i \in 1..n : 0 + i = i
    BY <1>0
  <2>2. /\ IsList(SubSeq(s, 0 + 1, n)) /\ Len(SubSeq(s, 0 + 1, n)) = n - 0
        /\ \A i \in 1..(n - 0) : SubSeq(s, 0 + 1, n)[i] = s[0 + i]
    BY <1>0, SliceIs
  <2> QED BY <1>0, <2>1, <2>2 DEF Take
<1>3. Take(s, Len(s)) = s
  <2>1. IsList(Take(s, Len(s))) /\ Len(Take(s, Len(s))) = Len(s) /\ \A i \in 1..Len(s) : Take(s, Len(s))[i] = s[i]
    BY <1>0, <1>2
  <2> QED BY <2>1, Alike
<1>4. ASSUME NEW m \in 0..Len(s), NEW n \in m..Len(s)
      PROVE  Take(s, m) \o SubSeq(s, m + 1, n) = Take(s, n)
  BY CutOn DEF Take
<1> QED BY <1>1, <1>2, <1>3, <1>4

-----------------------------------------------------------------------------
(* The fragments of an answer's calls, one after another.                  *)

Bearing(frag) == [Atom EXCEPT !.calls = <<frag>>]
Piece(a, m, j) ==
    IF j = 0 THEN [slot |-> m, id |-> a.calls[m].id, name |-> a.calls[m].name, args |-> <<>>]
    ELSE [slot |-> m, id |-> Absent, name |-> Absent, args |-> <<a.calls[m].args[j]>>]
Upto(a, m) == [i \in 1..m |-> CallAtoms(a.calls[i], i)]
Off(a, m) == Len(Flat(Upto(a, m)))

\* Piece j of call m is that fragment of all of them.
Place(a, m, j) == Off(a, m - 1) + 1 + j

LEMMA CallAtomsIs ==
    ASSUME NEW a, IsList(a.calls), NEW m \in 1..Len(a.calls), IsList(a.calls[m].args)
    PROVE  LET c == CallAtoms(a.calls[m], m)
           IN  /\ IsList(c) /\ Len(c) = 1 + Len(a.calls[m].args)
               /\ \A j \in 0..Len(a.calls[m].args) : c[1 + j] = Bearing(Piece(a, m, j))
<1> DEFINE args == a.calls[m].args
           n == Len(args)
           one == <<Bearing(Piece(a, m, 0))>>
           more == [i \in DOMAIN args |-> [Atom EXCEPT !.calls = <<[slot |-> m, id |-> Absent, name |-> Absent, args |-> <<args[i]>>]>>]]
           c == one \o more
<1>0. n \in Nat /\ DOMAIN args = 1..n
  BY ListPlaces
<1>1. CallAtoms(a.calls[m], m) = c
  BY DEF CallAtoms, Bearing, Piece
<1>2. IsList(one) /\ Len(one) = 1 /\ one[1] = Bearing(Piece(a, m, 0))
  BY One
<1>3. IsList(more) /\ Len(more) = n /\ \A i \in 1..n : more[i] = Bearing(Piece(a, m, i))
  <2>1. more = [i \in 1..n |-> more[i]]
    BY <1>0
  <2>2. \A i \in 1..n : more[i] = Bearing(Piece(a, m, i))
    BY <1>0 DEF Bearing, Piece
  <2> HIDE DEF more, n
  <2> QED BY <1>0, <2>1, <2>2, Built
<1> HIDE DEF one, more, n
<1>4. /\ IsList(c) /\ Len(c) = 1 + n
      /\ \A i \in 1..1 : c[i] = one[i]
      /\ \A i \in 1..n : c[1 + i] = more[i]
  <2>1. IsList(one) /\ IsList(more)
    BY <1>2, <1>3
  <2>2. /\ IsList(c) /\ Len(c) = Len(one) + Len(more)
        /\ \A i \in 1..Len(one) : c[i] = one[i]
        /\ \A i \in 1..Len(more) : c[Len(one) + i] = more[i]
    BY <2>1, Joined
  <2> HIDE DEF c
  <2> QED BY <1>2, <1>3, <2>2
<1> HIDE DEF c
<1>5. \A j \in 0..n : c[1 + j] = Bearing(Piece(a, m, j))
  <2> SUFFICES ASSUME NEW j \in 0..n PROVE c[1 + j] = Bearing(Piece(a, m, j))
    OBVIOUS
  <2>1. CASE j = 0
    <3>1. 1 + j = 1 /\ 1 \in 1..1
      BY <2>1
    <3> QED BY <1>2, <1>4, <2>1, <3>1
  <2>2. CASE j # 0
    <3>1. j \in 1..n
      BY <1>0, <2>2
    <3> QED BY <1>3, <1>4, <3>1
  <2> QED BY <2>1, <2>2
<1>6. IsList(c) /\ Len(c) = 1 + Len(args) /\ \A j \in 0..Len(args) : c[1 + j] = Bearing(Piece(a, m, j))
  BY <1>4, <1>5 DEF n
<1> QED BY <1>1, <1>6

Callable(a) == IsList(a.calls) /\ \A m \in 1..Len(a.calls) : IsList(a.calls[m].args)

LEMMA UptoIs ==
    ASSUME NEW a, Callable(a)
    PROVE  /\ Flat(Upto(a, 0)) = <<>>
           /\ \A m \in 1..Len(a.calls) : Flat(Upto(a, m)) = Flat(Upto(a, m - 1)) \o CallAtoms(a.calls[m], m)
           /\ Flat(Upto(a, Len(a.calls))) = Flat([i \in DOMAIN a.calls |-> CallAtoms(a.calls[i], i)])
<1>0. Len(a.calls) \in Nat /\ DOMAIN a.calls = 1..Len(a.calls)
  BY ListPlaces DEF Callable
<1>1. ASSUME NEW m \in Nat PROVE IsList(Upto(a, m)) /\ Len(Upto(a, m)) = m
  <2>1. Upto(a, m) = [i \in 1..m |-> Upto(a, m)[i]]
    BY DEF Upto
  <2> QED BY <2>1, Built
<1>2. Flat(Upto(a, 0)) = <<>>
  <2>1. IsList(Upto(a, 0)) /\ Len(Upto(a, 0)) = 0
    BY <1>1
  <2>2. Upto(a, 0) = <<>>
    BY <2>1, NoneLeft
  <2> QED BY <2>2, FoldFlatNone
<1>3. ASSUME NEW m \in 1..Len(a.calls)
      PROVE  Flat(Upto(a, m)) = Flat(Upto(a, m - 1)) \o CallAtoms(a.calls[m], m)
  <2> DEFINE s == Upto(a, m - 1)
             c == CallAtoms(a.calls[m], m)
             t == Append(s, c)
  <2>0. m \in Nat /\ m - 1 \in Nat /\ m \in 1..m /\ \A i \in 1..m : i # m => i \in 1..(m - 1)
    BY <1>0
  <2>1. IsList(s) /\ Len(s) = m - 1 /\ \A i \in 1..(m - 1) : s[i] = Upto(a, m)[i]
    BY <1>1, <2>0 DEF Upto
  <2>2. IsList(Upto(a, m)) /\ Len(Upto(a, m)) = m /\ Upto(a, m)[m] = c
    BY <1>1, <2>0 DEF Upto
  <2> HIDE DEF s, c
  <2>3. IsList(t) /\ Len(t) = m /\ t[m] = c /\ \A i \in 1..(m - 1) : t[i] = s[i]
    <3>1. (m - 1) + 1 = m
      BY <2>0
    <3> QED BY <2>1, <3>1, Appended
  <2> HIDE DEF t
  <2>4. \A i \in 1..m : t[i] = Upto(a, m)[i]
    BY <2>0, <2>1, <2>2, <2>3
  <2>5. Upto(a, m) = t
    BY <2>2, <2>3, <2>4, Alike
  <2>6. Flat(t) = Flat(s) \o c
    BY <2>1, FoldFlatMore DEF t
  <2> QED BY <2>5, <2>6 DEF s, c
<1>4. Upto(a, Len(a.calls)) = [i \in DOMAIN a.calls |-> CallAtoms(a.calls[i], i)]
  BY <1>0 DEF Upto
<1> QED BY <1>2, <1>3, <1>4

\* Where the pieces of the first calls are.
Pieced(a, m) ==
    LET f == Flat(Upto(a, m))
    IN  /\ IsList(f)
        /\ \A n \in 1..m : \A j \in 0..Len(a.calls[n].args) :
             Place(a, n, j) \in 1..Len(f) /\ f[Place(a, n, j)] = Bearing(Piece(a, n, j))
        /\ \A q \in 1..Len(f) : \E n \in 1..m : \E j \in 0..Len(a.calls[n].args) : f[q] = Bearing(Piece(a, n, j))

LEMMA PiecedOn ==
    ASSUME NEW a, Callable(a), NEW m \in 1..Len(a.calls), Pieced(a, m - 1)
    PROVE  Pieced(a, m)
<1> DEFINE e == Flat(Upto(a, m - 1))
           c == CallAtoms(a.calls[m], m)
           f == e \o c
           k == Len(a.calls[m].args)
<1>0. m \in Nat /\ m - 1 \in Nat /\ k \in Nat /\ (\A n \in 1..m : n # m => n \in 1..(m - 1)) /\ \A n \in 1..(m - 1) : n \in 1..m
  BY ListPlaces DEF Callable
<1>1. f = Flat(Upto(a, m))
  BY UptoIs
<1>2. /\ IsList(e)
      /\ \A n \in 1..(m - 1) : \A j \in 0..Len(a.calls[n].args) :
             Place(a, n, j) \in 1..Len(e) /\ e[Place(a, n, j)] = Bearing(Piece(a, n, j))
      /\ \A q \in 1..Len(e) : \E n \in 1..(m - 1) : \E j \in 0..Len(a.calls[n].args) : e[q] = Bearing(Piece(a, n, j))
  BY DEF Pieced
<1>3. IsList(c) /\ Len(c) = 1 + k /\ \A j \in 0..k : c[1 + j] = Bearing(Piece(a, m, j))
  BY CallAtomsIs DEF Callable
<1>4. \A j : Place(a, m, j) = Len(e) + 1 + j
  BY DEF Place, Off
<1> HIDE DEF e, c
<1>5. /\ IsList(f) /\ Len(f) = Len(e) + (1 + k) /\ Len(e) \in Nat
      /\ \A i \in 1..Len(e) : f[i] = e[i]
      /\ \A i \in 1..(1 + k) : f[Len(e) + i] = c[i]
  <2>1. IsList(e) /\ IsList(c)
    BY <1>2, <1>3
  <2>2. /\ IsList(f) /\ Len(f) = Len(e) + Len(c)
        /\ \A i \in 1..Len(e) : f[i] = e[i]
        /\ \A i \in 1..Len(c) : f[Len(e) + i] = c[i]
    BY <2>1, Joined
  <2>3. Len(e) \in Nat
    BY <2>1, ListPlaces
  <2> HIDE DEF f
  <2> QED BY <1>3, <2>2, <2>3
<1> HIDE DEF f
<1>6. ASSUME NEW j \in 0..k
      PROVE  Place(a, m, j) \in 1..Len(f) /\ f[Place(a, m, j)] = Bearing(Piece(a, m, j))
  <2>1. 1 + j \in 1..(1 + k) /\ Len(e) + (1 + j) = Len(e) + 1 + j /\ Len(e) + 1 + j \in 1..Len(f)
    BY <1>0, <1>5
  <2>2. f[Len(e) + (1 + j)] = c[1 + j]
    BY <1>5, <2>1
  <2> QED BY <1>3, <1>4, <2>1, <2>2
<1>7. ASSUME NEW n \in 1..m, NEW j \in 0..Len(a.calls[n].args)
      PROVE  Place(a, n, j) \in 1..Len(f) /\ f[Place(a, n, j)] = Bearing(Piece(a, n, j))
  <2>1. CASE n = m
    BY <1>6, <2>1 DEF k
  <2>2. CASE n # m
    <3>1. n \in 1..(m - 1)
      BY <1>0, <2>2
    <3>2. Place(a, n, j) \in 1..Len(e) /\ e[Place(a, n, j)] = Bearing(Piece(a, n, j))
      BY <1>2, <3>1
    <3>3. \A i \in 1..Len(e) : i \in 1..Len(f)
      BY <1>0, <1>5
    <3> QED BY <1>5, <3>2, <3>3
  <2> QED BY <2>1, <2>2
<1>8. ASSUME NEW q \in 1..Len(f)
      PROVE  \E n \in 1..m : \E j \in 0..Len(a.calls[n].args) : f[q] = Bearing(Piece(a, n, j))
  <2>1. CASE q \in 1..Len(e)
    <3>1. PICK n \in 1..(m - 1) : \E j \in 0..Len(a.calls[n].args) : e[q] = Bearing(Piece(a, n, j))
      BY <1>2, <2>1
    <3>2. n \in 1..m /\ f[q] = e[q]
      BY <1>0, <1>5, <2>1
    <3> QED BY <3>1, <3>2
  <2>2. CASE q \notin 1..Len(e)
    <3>1. q - Len(e) - 1 \in 0..k /\ Len(e) + 1 + (q - Len(e) - 1) = q
      BY <1>0, <1>5, <2>2
    <3>2. Place(a, m, q - Len(e) - 1) = q /\ m \in 1..m
      BY <1>0, <1>4, <3>1
    <3> QED BY <1>6, <3>1, <3>2 DEF k
  <2> QED BY <2>1, <2>2
<1>9. Flat(Upto(a, m)) = f
  BY <1>1
<1> QED BY <1>5, <1>7, <1>8, <1>9 DEF Pieced

LEMMA PiecesAre ==
    ASSUME NEW a, Callable(a)
    PROVE  \A m \in 0..Len(a.calls) : Pieced(a, m)
<1> DEFINE Bad == {m \in 0..Len(a.calls) : ~Pieced(a, m)}
<1>0. Len(a.calls) \in Nat
  BY ListPlaces DEF Callable
<1> SUFFICES ASSUME Bad # {} PROVE FALSE
  OBVIOUS
<1>1. Bad \in SUBSET Nat
  BY <1>0
<1>2. PICK m \in Bad : \A j \in Bad : m <= j
  BY <1>1, LeastNumber, Zenon
<1>3. Pieced(a, 0)
  <2>1. Flat(Upto(a, 0)) = <<>> /\ IsList(<<>>) /\ Len(<<>>) = 0
    BY UptoIs, Empty
  <2> QED BY <2>1 DEF Pieced
<1>4. m \in 1..Len(a.calls) /\ m - 1 \in 0..Len(a.calls) /\ ~(m <= m - 1)
  BY <1>0, <1>3
<1>5. Pieced(a, m - 1)
  BY <1>2, <1>4
<1>6. Pieced(a, m)
  BY <1>4, <1>5, PiecedOn
<1> QED BY <1>6

\* The first fragment is the first call's, each follows the one before it, and
\* the last one is the last call's.
LEMMA PlacesAre ==
    ASSUME NEW a, Callable(a)
    PROVE  LET M == Len(a.calls)
               K == Off(a, M)
               f == Flat(Upto(a, M))
           IN  /\ IsList(f) /\ K \in Nat
               /\ \A q \in 1..K : \E frag : f[q] = Bearing(frag)
               /\ \A m \in 1..M : \A j \in 0..Len(a.calls[m].args) :
                    Place(a, m, j) \in 1..K /\ f[Place(a, m, j)] = Bearing(Piece(a, m, j))
               /\ M = 0 => K = 0
               /\ M > 0 => Place(a, 1, 0) = 1
               /\ \A m \in 1..M : \A j \in Nat : Place(a, m, j) \in Nat /\ Place(a, m, j + 1) = Place(a, m, j) + 1
               /\ \A m \in 1..M : m < M => Place(a, m + 1, 0) = Place(a, m, Len(a.calls[m].args)) + 1
               /\ M > 0 => Place(a, M, Len(a.calls[M].args)) = K
<1> DEFINE M == Len(a.calls)
           K == Off(a, M)
           f == Flat(Upto(a, M))
<1>0. M \in Nat /\ M \in 0..M /\ K = Len(f) /\ 0 \in 0..M
  BY ListPlaces DEF Callable, Off
<1>1. \A m \in 0..M : IsList(Flat(Upto(a, m))) /\ Off(a, m) \in Nat
  BY PiecesAre, ListPlaces DEF Pieced, Off
<1>2. /\ IsList(f) /\ K \in Nat
      /\ \A q \in 1..K : \E frag : f[q] = Bearing(frag)
      /\ \A m \in 1..M : \A j \in 0..Len(a.calls[m].args) :
           Place(a, m, j) \in 1..K /\ f[Place(a, m, j)] = Bearing(Piece(a, m, j))
  <2>1. Pieced(a, M) /\ K \in Nat
    BY <1>0, <1>1, PiecesAre
  <2>2. /\ IsList(f)
        /\ \A m \in 1..M : \A j \in 0..Len(a.calls[m].args) :
             Place(a, m, j) \in 1..Len(f) /\ f[Place(a, m, j)] = Bearing(Piece(a, m, j))
        /\ \A q \in 1..Len(f) : \E n \in 1..M : \E j \in 0..Len(a.calls[n].args) : f[q] = Bearing(Piece(a, n, j))
    BY <2>1 DEF Pieced
  <2> QED BY <1>0, <2>1, <2>2
<1>3. Off(a, 0) = 0
  <2>1. Flat(Upto(a, 0)) = <<>> /\ Len(<<>>) = 0
    BY UptoIs, Empty
  <2> QED BY <2>1 DEF Off
<1>4. ASSUME NEW m \in 1..M
      PROVE  /\ Off(a, m) = Off(a, m - 1) + (1 + Len(a.calls[m].args)) /\ Off(a, m - 1) \in Nat
             /\ Len(a.calls[m].args) \in Nat
  <2>1. Flat(Upto(a, m)) = Flat(Upto(a, m - 1)) \o CallAtoms(a.calls[m], m)
    BY UptoIs
  <2>2. IsList(CallAtoms(a.calls[m], m)) /\ Len(CallAtoms(a.calls[m], m)) = 1 + Len(a.calls[m].args)
    BY CallAtomsIs DEF Callable
  <2>3. m - 1 \in 0..M
    BY <1>0
  <2>4. IsList(Flat(Upto(a, m - 1))) /\ Off(a, m - 1) \in Nat
    BY <1>1, <2>3
  <2>5. Len(a.calls[m].args) \in Nat
    BY ListPlaces DEF Callable
  <2>6. Len(Flat(Upto(a, m - 1)) \o CallAtoms(a.calls[m], m)) = Len(Flat(Upto(a, m - 1))) + Len(CallAtoms(a.calls[m], m))
    BY <2>2, <2>4, Joined
  <2> QED BY <2>1, <2>2, <2>4, <2>5, <2>6 DEF Off
<1>5. \A m \in 1..M : \A j \in Nat : Place(a, m, j) \in Nat /\ Place(a, m, j + 1) = Place(a, m, j) + 1
  BY <1>4 DEF Place
<1>6. ASSUME NEW m \in 1..M PROVE Place(a, m, Len(a.calls[m].args)) = Off(a, m)
  <2> DEFINE o == Off(a, m - 1)
             n == Len(a.calls[m].args)
  <2>1. Off(a, m) = o + (1 + n) /\ o \in Nat /\ n \in Nat
    BY <1>4
  <2>2. Place(a, m, n) = o + 1 + n
    BY DEF Place
  <2> HIDE DEF o, n
  <2>3. o + (1 + n) = o + 1 + n
    BY <2>1
  <2>4. Place(a, m, n) = Off(a, m)
    BY <2>1, <2>2, <2>3
  <2> QED BY <2>4 DEF n
<1>7. ASSUME NEW m \in 1..M, m < M PROVE Place(a, m + 1, 0) = Place(a, m, Len(a.calls[m].args)) + 1
  <2>1. (m + 1) - 1 = m /\ m \in 0..M
    BY <1>0
  <2>2. Off(a, m) + 1 + 0 = Off(a, m) + 1
    BY <1>1, <2>1
  <2> QED BY <1>6, <2>1, <2>2 DEF Place
<1>8. M > 0 => Place(a, 1, 0) = 1
  BY <1>3 DEF Place
<1>9. M = 0 => K = 0
  BY <1>3
<1>10. M > 0 => Place(a, M, Len(a.calls[M].args)) = K
  BY <1>0, <1>6
<1> HIDE DEF M, K, f
<1>11. /\ IsList(f) /\ K \in Nat
       /\ \A q \in 1..K : \E frag : f[q] = Bearing(frag)
       /\ \A m \in 1..M : \A j \in 0..Len(a.calls[m].args) :
            Place(a, m, j) \in 1..K /\ f[Place(a, m, j)] = Bearing(Piece(a, m, j))
       /\ M = 0 => K = 0
       /\ M > 0 => Place(a, 1, 0) = 1
       /\ \A m \in 1..M : \A j \in Nat : Place(a, m, j) \in Nat /\ Place(a, m, j + 1) = Place(a, m, j) + 1
       /\ \A m \in 1..M : m < M => Place(a, m + 1, 0) = Place(a, m, Len(a.calls[m].args)) + 1
       /\ M > 0 => Place(a, M, Len(a.calls[M].args)) = K
  BY <1>2, <1>5, <1>7, <1>8, <1>9, <1>10
<1> QED BY <1>11 DEF M, K, f

-----------------------------------------------------------------------------
(* Calls as an agent holds them while their fragments arrive.              *)

Used(a, i) == ToolUse(a.calls[i].id, a.calls[i].name, ParseArgs(a.calls[i].args))

\* The message with its first m calls.
Base(a) == Blocks(a.reasoning, StripThinking(a.content))
Full(a, m) == Base(a) \o [i \in 1..m |-> Used(a, i)]

LEMMA FullIs ==
    ASSUME NEW a
    PROVE  /\ Full(a, 0) = Base(a)
           /\ \A m \in Nat : IsList(Full(a, m))
           /\ \A m \in Nat \ {0} : Full(a, m) = Append(Full(a, m - 1), Used(a, m))
<1> DEFINE calls(m) == [i \in 1..m |-> Used(a, i)]
<1>1. IsList(Base(a)) /\ Len(Base(a)) \in Nat
  BY BlocksList, ListPlaces DEF Base
<1>2. ASSUME NEW m \in Nat
      PROVE  IsList(calls(m)) /\ Len(calls(m)) = m
  <2>1. calls(m) = [i \in 1..m |-> calls(m)[i]]
    OBVIOUS
  <2> HIDE DEF calls
  <2> QED BY <2>1, Built
<1>3. \A m : Full(a, m) = Base(a) \o calls(m)
  BY DEF Full
<1>4. \A m \in Nat : \A i \in 1..m : calls(m)[i] = Used(a, i)
  OBVIOUS
<1> HIDE DEF calls
<1>5. ASSUME NEW m \in Nat
      PROVE  /\ IsList(Full(a, m)) /\ Len(Full(a, m)) = Len(Base(a)) + m
             /\ \A i \in 1..Len(Base(a)) : Full(a, m)[i] = Base(a)[i]
             /\ \A i \in 1..m : Full(a, m)[Len(Base(a)) + i] = Used(a, i)
  <2>1. /\ IsList(Base(a) \o calls(m)) /\ Len(Base(a) \o calls(m)) = Len(Base(a)) + Len(calls(m))
        /\ \A i \in 1..Len(Base(a)) : (Base(a) \o calls(m))[i] = Base(a)[i]
        /\ \A i \in 1..Len(calls(m)) : (Base(a) \o calls(m))[Len(Base(a)) + i] = calls(m)[i]
    BY <1>1, <1>2, Joined
  <2> QED BY <1>2, <1>3, <1>4, <2>1
<1>6. Full(a, 0) = Base(a)
  <2>1. calls(0) = <<>>
    BY <1>2, NoneLeft
  <2> QED BY <1>1, <1>3, <2>1, JoinedNone
<1>7. ASSUME NEW m \in Nat \ {0} PROVE Full(a, m) = Append(Full(a, m - 1), Used(a, m))
  <2> DEFINE n == Len(Base(a))
             s == Full(a, m - 1)
             t == Append(s, Used(a, m))
             u == Full(a, m)
  <2>0. m \in Nat /\ m - 1 \in Nat /\ n \in Nat /\ n + (m - 1) + 1 = n + m
        /\ \A i \in 1..(n + m) : i \in 1..n \/ i - n \in 1..m
    BY <1>1
  <2>1. /\ IsList(s) /\ Len(s) = n + (m - 1)
        /\ \A i \in 1..n : s[i] = Base(a)[i]
        /\ \A i \in 1..(m - 1) : s[n + i] = Used(a, i)
    BY <1>5, <2>0
  <2>2. /\ IsList(u) /\ Len(u) = n + m
        /\ \A i \in 1..n : u[i] = Base(a)[i]
        /\ \A i \in 1..m : u[n + i] = Used(a, i)
    BY <1>5, <2>0
  <2> HIDE DEF n, s, u
  <2>3. IsList(t) /\ Len(t) = n + m /\ t[n + m] = Used(a, m) /\ \A i \in 1..(n + (m - 1)) : t[i] = s[i]
    BY <2>0, <2>1, Appended
  <2> HIDE DEF t
  <2>4. ASSUME NEW i \in 1..(n + m) PROVE u[i] = t[i]
    <3>1. CASE i \in 1..n
      <4>1. i \in 1..(n + (m - 1))
        BY <2>0, <3>1
      <4> QED BY <2>1, <2>2, <2>3, <3>1, <4>1
    <3>2. CASE i = n + m
      <4>1. m \in 1..m
        BY <2>0
      <4> QED BY <2>2, <2>3, <3>2, <4>1
    <3>3. CASE i \notin 1..n /\ i # n + m
      <4>1. i - n \in 1..(m - 1) /\ i - n \in 1..m /\ n + (i - n) = i /\ i \in 1..(n + (m - 1))
        BY <2>0, <3>3
      <4>2. s[n + (i - n)] = Used(a, i - n) /\ u[n + (i - n)] = Used(a, i - n)
        BY <2>1, <2>2, <4>1
      <4> QED BY <2>3, <4>1, <4>2
    <3> QED BY <3>1, <3>2, <3>3
  <2>5. u = t
    BY <2>2, <2>3, <2>4, Alike
  <2> QED BY <2>5 DEF s, t, u
<1> QED BY <1>5, <1>6, <1>7

\* All that an agent holds, were the open block closed, is front.
Stands(t, front) == Settled(t) = front

LEMMA HeldLength ==
    ASSUME NEW t, Carries(t)
    PROVE  IsList(Settled(t)) /\ Len(Settled(t)) = Len(Asm(t).partial) /\ IsList(Asm(t).partial)
<1>1. /\ IsList(Asm(t).content) /\ IsList(Asm(t).partial) /\ Len(Asm(t).partial) = Len(Asm(t).content)
  BY DEF Carries, Sound
<1>2. CASE t.open = NoBlock
  <2>1. Settled(t) = Asm(t).content
    BY <1>2 DEF Settled
  <2> QED BY <1>1, <2>1
<1>3. CASE t.open # NoBlock
  BY <1>1, <1>3, LastHeld
<1> QED BY <1>2, <1>3

LEMMA OpensCall ==
    ASSUME NEW t, Carries(t), NEW want, want # NoBlock, t.open # want, NEW front, IsList(front), Stands(t, front),
           NEW id, NEW name
    PROVE  LET u == EnsureOpen(t, want, ToolUse(id, name, <<"{", "}">>))
           IN  /\ Carries(u) /\ At(u, want) /\ Keeps(u, t, Written)
               /\ EndsCall(u, front, id, name, <<>>)
<1> DEFINE block == ToolUse(id, name, <<"{", "}">>)
           u == EnsureOpen(t, want, block)
<1>1. Openable(block)
  BY DEF Openable
<1>2. block = ToolUse(id, name, ParseArgs(<<>>))
  BY EmptyArgs
<1> HIDE DEF block
<1>3. /\ Carries(u) /\ At(u, want) /\ Settled(u) = Append(Settled(t), block)
      /\ Asm(u).partial = Append(Asm(t).partial, <<>>)
      /\ Keeps(u, t, {"events", "open", "index", "next"})
  BY <1>1, OpenIs
<1> HIDE DEF u
<1>4. Settled(t) = front
  BY DEF Stands
<1>5. IsList(Asm(t).partial) /\ Len(Asm(t).partial) = Len(front)
  BY <1>4, HeldLength
<1>6. Append(Asm(t).partial, <<>>)[Len(Asm(t).partial) + 1] = <<>>
  BY <1>5, Appended
<1>7. Settled(u) = Append(front, ToolUse(id, name, ParseArgs(<<>>))) /\ Asm(u).partial[Len(front) + 1] = <<>>
  BY <1>2, <1>3, <1>4, <1>5, <1>6
<1>8. /\ Carries(u) /\ At(u, want) /\ Keeps(u, t, Written) /\ EndsCall(u, front, id, name, <<>>)
  BY <1>3, <1>7 DEF Written, EndsCall
<1> QED BY <1>8 DEF u, block

\* The agent holds m calls, of the last one j pieces of its arguments.
Called(t, a, m, j) ==
    /\ Carries(t) /\ At(t, <<"tool", m>>)
    /\ EndsCall(t, Full(a, m - 1), a.calls[m].id, a.calls[m].name, Take(a.calls[m].args, j))

LEMMA CallOn ==
    ASSUME NEW a, Callable(a), NEW m \in 1..Len(a.calls), NEW t, Carries(t), t.open # <<"tool", m>>, Stands(t, Full(a, m - 1))
    PROVE  LET u == OnToolCall(t, Piece(a, m, 0))
           IN  Called(u, a, m, 0) /\ Keeps(u, t, Written)
<1> DEFINE want == <<"tool", m>>
           id == a.calls[m].id
           name == a.calls[m].name
           front == Full(a, m - 1)
           v == EnsureOpen(t, want, ToolUse(id, name, <<"{", "}">>))
           u == OnToolCall(t, Piece(a, m, 0))
<1>1. u = v
  BY DEF OnToolCall, Piece
<1>2. m - 1 \in Nat /\ want # NoBlock /\ t.open # want
  <2>1. m \in 1..Len(a.calls) /\ Len(a.calls) \in Nat
    BY ListPlaces DEF Callable
  <2> QED BY <2>1, KeysDiffer
<1>3. IsList(front)
  BY <1>2, FullIs
<1>4. Stands(t, front)
  OBVIOUS
<1>5. Take(a.calls[m].args, 0) = <<>>
  BY TakeIs DEF Callable
<1> HIDE DEF want, id, name, front
<1>6. /\ Carries(v) /\ At(v, want) /\ Keeps(v, t, Written)
      /\ EndsCall(v, front, id, name, <<>>)
  BY <1>2, <1>3, <1>4, OpensCall
<1> HIDE DEF u, v
<1>7. Called(u, a, m, 0) /\ Keeps(u, t, Written)
  BY <1>1, <1>5, <1>6 DEF Called, want, id, name, front
<1> QED BY <1>7 DEF u

LEMMA ArgOn ==
    ASSUME NEW a, Callable(a), NEW m \in 1..Len(a.calls), NEW j \in Nat, j + 1 <= Len(a.calls[m].args),
           NEW t, Called(t, a, m, j)
    PROVE  LET u == OnToolCall(t, Piece(a, m, j + 1))
           IN  Called(u, a, m, j + 1) /\ Keeps(u, t, Written)
<1> DEFINE want == <<"tool", m>>
           id == a.calls[m].id
           name == a.calls[m].name
           args == a.calls[m].args
           front == Full(a, m - 1)
           p == Take(args, j)
           more == <<args[j + 1]>>
           v == Delta(t, "input", more)
           u == OnToolCall(t, Piece(a, m, j + 1))
<1>0. IsList(args) /\ Len(args) \in Nat /\ j \in 0..Len(args) /\ m \in Nat /\ m - 1 \in Nat
  BY ListPlaces DEF Callable
<1>1. Carries(t) /\ t.open = want /\ EndsCall(t, front, id, name, p)
  BY DEF Called, At
<1>2. u = v
  <2>1. EnsureOpen(t, want, ToolUse(Absent, Absent, <<"{", "}">>)) = t
    BY <1>1 DEF EnsureOpen
  <2>2. more # <<>>
    OBVIOUS
  <2>3. Piece(a, m, j + 1) = [slot |-> m, id |-> Absent, name |-> Absent, args |-> more]
    <3>1. j + 1 # 0
      OBVIOUS
    <3> QED BY <3>1 DEF Piece
  <2> DEFINE c == Piece(a, m, j + 1)
  <2>4. c.slot = m /\ c.id = Absent /\ c.name = Absent /\ c.args = more
    BY <2>3
  <2> HIDE DEF more, c
  <2>5. OnToolCall(t, c) = v
    BY <2>1, <2>2, <2>4 DEF OnToolCall
  <2> QED BY <2>5 DEF c
<1>3. t.open # NoBlock
  BY <1>1, KeysDiffer
<1>4. IsList(front)
  BY <1>0, FullIs
<1>5. p \o more = Take(args, j + 1)
  <2>1. j \in 0..Len(args) /\ j + 1 \in j..Len(args) /\ 0 \in 0..Len(args) /\ 0 + 1 = 1
    BY <1>0
  <2>2. SubSeq(args, 0 + 1, j + 1) = SubSeq(args, 0 + 1, j) \o <<args[j + 1]>>
    BY <1>0, <2>1, SliceOn
  <2> QED BY <2>1, <2>2 DEF Take
<1> HIDE DEF want, id, name, front, p, more
<1>6. /\ Carries(v) /\ Keeps(v, t, {"events"})
      /\ EndsCall(v, front, id, name, p \o more)
  BY <1>1, <1>3, <1>4, DeltaInputIs
<1> HIDE DEF u, v
<1>7. At(u, want) /\ Keeps(u, t, Written)
  BY <1>1, <1>2, <1>6 DEF Keeps, Written, Fields, At
<1>8. Called(u, a, m, j + 1)
  BY <1>2, <1>5, <1>6, <1>7 DEF Called, want, id, name, front, args
<1> QED BY <1>7, <1>8 DEF u

LEMMA CalledAll ==
    ASSUME NEW a, Callable(a), NEW m \in 1..Len(a.calls), NEW t, Called(t, a, m, Len(a.calls[m].args))
    PROVE  Stands(t, Full(a, m)) /\ t.open = <<"tool", m>> /\ Carries(t)
<1>1. Take(a.calls[m].args, Len(a.calls[m].args)) = a.calls[m].args
  BY TakeIs DEF Callable
<1>2. m \in Nat \ {0}
  BY ListPlaces DEF Callable
<1>3. Full(a, m) = Append(Full(a, m - 1), Used(a, m))
  BY <1>2, FullIs
<1>4. Settled(t) = Append(Full(a, m - 1), ToolUse(a.calls[m].id, a.calls[m].name, ParseArgs(a.calls[m].args)))
  BY <1>1 DEF Called, EndsCall
<1> QED BY <1>3, <1>4 DEF Called, At, Stands, Used

\* The translator after q fragments.
Calling(t, a, q) ==
    IF q = 0 THEN Speaks(t, a.reasoning, StripThinking(a.content))
    ELSE \E m \in 1..Len(a.calls) : \E j \in 0..Len(a.calls[m].args) : q = Place(a, m, j) /\ Called(t, a, m, j)

Frag(a, q) == Flat(Upto(a, Len(a.calls)))[q].calls[1]

LEMMA BearingIs == \A frag : Bearing(frag).calls[1] = frag
<1> TAKE frag
<1>1. Bearing(frag).calls = <<frag>>
  BY DEF Bearing, Atom
<1> QED BY <1>1, One

LEMMA NextCall ==
    ASSUME NEW a, Callable(a), NEW q \in Nat, q + 1 <= Off(a, Len(a.calls)), NEW t, Calling(t, a, q)
    PROVE  LET u == OnToolCall(t, Frag(a, q + 1))
           IN  Calling(u, a, q + 1) /\ Keeps(u, t, Written)
<1> DEFINE M == Len(a.calls)
           K == Off(a, M)
           f == Flat(Upto(a, M))
           u == OnToolCall(t, Frag(a, q + 1))
<1>0. /\ IsList(f) /\ K \in Nat
      /\ \A m \in 1..M : \A j \in 0..Len(a.calls[m].args) :
           Place(a, m, j) \in 1..K /\ f[Place(a, m, j)] = Bearing(Piece(a, m, j))
      /\ M = 0 => K = 0
      /\ M > 0 => Place(a, 1, 0) = 1
      /\ \A m \in 1..M : \A j \in Nat : Place(a, m, j) \in Nat /\ Place(a, m, j + 1) = Place(a, m, j) + 1
      /\ \A m \in 1..M : m < M => Place(a, m + 1, 0) = Place(a, m, Len(a.calls[m].args)) + 1
      /\ M > 0 => Place(a, M, Len(a.calls[M].args)) = K
  BY PlacesAre
<1>1. M \in Nat /\ \A m \in 1..M : Len(a.calls[m].args) \in Nat
  BY ListPlaces DEF Callable
<1>2. q + 1 \in Nat /\ q + 1 # 0 /\ q + 1 <= K
  OBVIOUS
<1>3. \A g : f[q + 1] = Bearing(g) => Frag(a, q + 1) = g
  BY BearingIs DEF Frag
<1> HIDE DEF f, K
<1>4. ASSUME NEW m \in 1..M, NEW j \in 0..Len(a.calls[m].args), q + 1 = Place(a, m, j)
      PROVE  /\ u = OnToolCall(t, Piece(a, m, j))
             /\ Called(u, a, m, j) => Calling(u, a, q + 1)
  <2>1. Frag(a, q + 1) = Piece(a, m, j)
    <3>1. f[Place(a, m, j)] = Bearing(Piece(a, m, j))
      BY <1>0, <1>4
    <3>2. f[q + 1] = Bearing(Piece(a, m, j))
      BY <1>4, <3>1, Zenon
    <3> QED BY <1>3, <3>2
  <2>2. Called(u, a, m, j) => Calling(u, a, q + 1)
    <3> HIDE DEF u
    <3> QED BY <1>2, <1>4 DEF Calling
  <2> QED BY <2>1, <2>2
<1> DEFINE Good == Calling(u, a, q + 1) /\ Keeps(u, t, Written)
<1>5. ASSUME NEW m \in 1..M, q + 1 = Place(a, m, 0), Carries(t), t.open # <<"tool", m>>, Stands(t, Full(a, m - 1))
      PROVE  Good
  <2>1. 0 \in 0..Len(a.calls[m].args)
    BY <1>1
  <2>2. u = OnToolCall(t, Piece(a, m, 0)) /\ (Called(u, a, m, 0) => Calling(u, a, q + 1))
    BY <1>4, <1>5, <2>1
  <2>3. LET w == OnToolCall(t, Piece(a, m, 0)) IN Called(w, a, m, 0) /\ Keeps(w, t, Written)
    BY <1>5, CallOn
  <2> HIDE DEF u
  <2> QED BY <2>2, <2>3
<1>6. ASSUME q = 0 PROVE Good
  <2>1. Speaks(t, a.reasoning, StripThinking(a.content))
    BY <1>6 DEF Calling
  <2>2. M > 0 /\ 1 \in 1..M /\ 1 - 1 = 0 /\ q + 1 = Place(a, 1, 0)
    BY <1>0, <1>1, <1>2, <1>6
  <2>3. Carries(t) /\ t.open # <<"tool", 1>> /\ Stands(t, Full(a, 1 - 1))
    <3>1. KeyOf(a.reasoning, StripThinking(a.content)) # <<"tool", 1>>
      BY KeysDiffer DEF KeyOf
    <3>2. Full(a, 1 - 1) = Base(a)
      BY <2>2, FullIs
    <3> QED BY <2>1, <3>1, <3>2 DEF Speaks, Stands, Base
  <2> HIDE DEF Good, M
  <2> QED BY <1>5, <2>2, <2>3
<1>7. ASSUME q # 0 PROVE Good
  <2>1. PICK m \in 1..M : \E j \in 0..Len(a.calls[m].args) : q = Place(a, m, j) /\ Called(t, a, m, j)
    BY <1>7 DEF Calling
  <2>2. PICK j \in 0..Len(a.calls[m].args) : q = Place(a, m, j) /\ Called(t, a, m, j)
    BY <2>1
  <2>3. CASE j + 1 <= Len(a.calls[m].args)
    <3>1. j \in Nat /\ j + 1 \in 0..Len(a.calls[m].args) /\ q + 1 = Place(a, m, j + 1)
      BY <1>0, <1>1, <2>2, <2>3
    <3>2. u = OnToolCall(t, Piece(a, m, j + 1)) /\ (Called(u, a, m, j + 1) => Calling(u, a, q + 1))
      BY <1>4, <3>1
    <3>3. LET w == OnToolCall(t, Piece(a, m, j + 1)) IN Called(w, a, m, j + 1) /\ Keeps(w, t, Written)
      BY <2>2, <2>3, <3>1, ArgOn
    <3> HIDE DEF u
    <3> QED BY <3>2, <3>3
  <2>4. CASE ~(j + 1 <= Len(a.calls[m].args))
    <3>1. j = Len(a.calls[m].args)
      BY <1>1, <2>2, <2>4
    <3>2. m # M
      <4> SUFFICES ASSUME m = M PROVE FALSE
        OBVIOUS
      <4>1. M > 0 /\ q = K
        <5>1. Place(a, m, Len(a.calls[m].args)) = q
          BY <2>2, <3>1
        <5>2. M > 0
          BY <1>1
        <5>3. Place(a, M, Len(a.calls[M].args)) = K
          BY <1>0, <5>2
        <5> HIDE DEF M
        <5> QED BY <5>1, <5>2, <5>3
      <4> QED BY <1>0, <1>2, <4>1
    <3>3. m < M /\ m + 1 \in 1..M /\ (m + 1) - 1 = m /\ m \in Nat
      BY <1>1, <3>2
    <3>4. q + 1 = Place(a, m + 1, 0)
      BY <1>0, <2>2, <3>1, <3>3
    <3>5. Stands(t, Full(a, m)) /\ t.open = <<"tool", m>> /\ Carries(t)
      BY <2>2, <3>1, CalledAll
    <3>6. t.open # <<"tool", m + 1>>
      <4>1. m # m + 1
        BY <3>3
      <4> QED BY <3>5, <4>1, KeysDiffer
    <3> HIDE DEF Good, M
    <3> QED BY <1>5, <3>3, <3>4, <3>5, <3>6
  <2> QED BY <2>3, <2>4
<1>8. Good
  <2> HIDE DEF Good
  <2> QED BY <1>6, <1>7
<1> QED BY <1>8

LEMMA KeepsOn ==
    ASSUME NEW t, NEW u, NEW v, NEW S, Keeps(u, t, S), Keeps(v, u, S)
    PROVE  Keeps(v, t, S)
BY DEF Keeps

\* The fragments of a frame, one after another.
LEMMA CallsOn ==
    ASSUME NEW a, Callable(a), NEW q \in Nat, NEW s, IsList(s), q + Len(s) <= Off(a, Len(a.calls)),
           \A i \in 1..Len(s) : s[i] = Frag(a, q + i), NEW t, Calling(t, a, q)
    PROVE  LET u == FoldLeft(OnToolCall, t, s)
           IN  Calling(u, a, q + Len(s)) /\ Keeps(u, t, Written)
<1>0. Len(s) \in Nat /\ Off(a, Len(a.calls)) \in Nat
  BY ListPlaces, PlacesAre
<1>1. PICK h : /\ h[0] = t
               /\ \A n \in 1..Len(s) : h[n] = OnToolCall(h[n - 1], s[n])
               /\ h[Len(s)] = FoldLeft(OnToolCall, t, s)
  BY FoldCalls
<1> DEFINE Good(n) == Calling(h[n], a, q + n) /\ Keeps(h[n], t, Written)
           Bad == {n \in 0..Len(s) : ~Good(n)}
<1>2. Good(0)
  <2>1. q + 0 = q
    OBVIOUS
  <2> QED BY <1>1, <2>1 DEF Keeps
<1>3. ASSUME NEW n \in 1..Len(s), Good(n - 1) PROVE Good(n)
  <2>1. n \in Nat /\ n - 1 \in Nat /\ q + (n - 1) \in Nat /\ (q + (n - 1)) + 1 = q + n
        /\ q + n <= Off(a, Len(a.calls))
    BY <1>0
  <2>2. Calling(h[n - 1], a, q + (n - 1)) /\ Keeps(h[n - 1], t, Written)
    BY <1>3
  <2>3. LET u == OnToolCall(h[n - 1], Frag(a, (q + (n - 1)) + 1))
        IN  Calling(u, a, (q + (n - 1)) + 1) /\ Keeps(u, h[n - 1], Written)
    BY <2>1, <2>2, NextCall
  <2>4. h[n] = OnToolCall(h[n - 1], Frag(a, q + n))
    BY <1>1
  <2>5. Calling(h[n], a, q + n) /\ Keeps(h[n], h[n - 1], Written)
    BY <2>1, <2>3, <2>4
  <2> QED BY <2>2, <2>5, KeepsOn
<1>4. Bad = {}
  <2> HIDE DEF Good
  <2> SUFFICES ASSUME Bad # {} PROVE FALSE
    OBVIOUS
  <2>1. Bad \in SUBSET Nat
    BY <1>0
  <2>2. PICK m \in Bad : \A j \in Bad : m <= j
    BY <2>1, LeastNumber, Zenon
  <2>3. m \in 1..Len(s) /\ m - 1 \in 0..Len(s) /\ ~(m <= m - 1)
    BY <1>0, <1>2
  <2>4. Good(m - 1)
    BY <2>2, <2>3
  <2>5. Good(m)
    BY <1>3, <2>3, <2>4
  <2> QED BY <2>5
<1>5. Good(Len(s))
  <2> HIDE DEF Good
  <2> QED BY <1>0, <1>4
<1> QED BY <1>1, <1>5

\* When all the fragments have come, so have all the calls.
LEMMA AllCalled ==
    ASSUME NEW a, Callable(a), NEW t, Calling(t, a, Off(a, Len(a.calls)))
    PROVE  Carries(t) /\ Stands(t, Full(a, Len(a.calls)))
<1> DEFINE M == Len(a.calls)
           K == Off(a, M)
<1>0. /\ K \in Nat
      /\ \A m \in 1..M : \A j \in 0..Len(a.calls[m].args) : Place(a, m, j) \in 1..K
      /\ M > 0 => Place(a, 1, 0) = 1
      /\ \A m \in 1..M : \A j \in Nat : Place(a, m, j) \in Nat /\ Place(a, m, j + 1) = Place(a, m, j) + 1
      /\ \A m \in 1..M : m < M => Place(a, m + 1, 0) = Place(a, m, Len(a.calls[m].args)) + 1
      /\ M > 0 => Place(a, M, Len(a.calls[M].args)) = K
  BY PlacesAre
<1>1. M \in Nat /\ \A m \in 1..M : Len(a.calls[m].args) \in Nat
  BY ListPlaces DEF Callable
<1> HIDE DEF K
<1>2. CASE K = 0
  <2>1. M = 0
    <3> SUFFICES ASSUME M # 0 PROVE FALSE
      OBVIOUS
    <3>1. M > 0 /\ 1 \in 1..M /\ 0 \in 0..Len(a.calls[1].args)
      BY <1>1
    <3> QED BY <1>0, <1>2, <3>1
  <2>2. Speaks(t, a.reasoning, StripThinking(a.content))
    BY <1>2 DEF Calling, K
  <2>3. Full(a, M) = Base(a)
    BY <2>1, FullIs
  <2> QED BY <2>2, <2>3 DEF Speaks, Stands, Base
<1>3. CASE K # 0
  <2>1. PICK m \in 1..M : \E j \in 0..Len(a.calls[m].args) : K = Place(a, m, j) /\ Called(t, a, m, j)
    BY <1>3 DEF Calling, K
  <2>2. PICK j \in 0..Len(a.calls[m].args) : K = Place(a, m, j) /\ Called(t, a, m, j)
    BY <2>1
  <2>3. j = Len(a.calls[m].args)
    <3> SUFFICES ASSUME j # Len(a.calls[m].args) PROVE FALSE
      OBVIOUS
    <3>1. j \in Nat /\ j + 1 \in 0..Len(a.calls[m].args)
      BY <1>1
    <3>2. Place(a, m, j + 1) = K + 1 /\ Place(a, m, j + 1) \in 1..K
      BY <1>0, <2>2, <3>1
    <3> QED BY <1>0, <3>2
  <2>4. m = M
    <3> SUFFICES ASSUME m # M PROVE FALSE
      OBVIOUS
    <3>1. m < M /\ m + 1 \in 1..M
      BY <1>1
    <3>2. 0 \in 0..Len(a.calls[m + 1].args)
      BY <1>1, <3>1
    <3>3. Place(a, m + 1, 0) = K + 1 /\ Place(a, m + 1, 0) \in 1..K
      BY <1>0, <2>2, <2>3, <3>1, <3>2
    <3> QED BY <1>0, <3>3
  <2> QED BY <2>2, <2>3, <2>4, CalledAll
<1> QED BY <1>2, <1>3

-----------------------------------------------------------------------------
(* The atoms of an answer, and the frames that merge them.                 *)

LEMMA RegularIs ==
    ASSUME NEW a, Regular(a)
    PROVE  /\ IsList(a.reasoning) /\ IsList(a.content) /\ Callable(a)
           /\ Leads(a.content)
           /\ a.finish # Absent /\ StopReason(a.finish) # Absent
BY DEF Regular, Callable, Leads

\* How many pieces of reasoning, of text and of calls are among the first l.
R(a) == Len(a.reasoning)
C(a) == Len(a.content)
K(a) == Off(a, Len(a.calls))
NR(a, l) == IF l <= R(a) THEN l ELSE R(a)
NC(a, l) == IF l <= R(a) THEN 0 ELSE IF l <= R(a) + C(a) THEN l - R(a) ELSE C(a)
NQ(a, l) == IF l <= R(a) + C(a) THEN 0 ELSE IF l <= R(a) + C(a) + K(a) THEN l - (R(a) + C(a)) ELSE K(a)
NF(a) == R(a) + C(a) + K(a) + 1

Frame(r, c, q, finish, usage) ==
    [type |-> "data", reasoning |-> r, content |-> c, calls |-> q,
     finish |-> finish, usage |-> usage, timings |-> "none"]
Frags(a) == [q \in 1..K(a) |-> Frag(a, q)]

\* The atoms k + 1 to l in one frame.
FrameOf(a, k, l) ==
    Frame(SubSeq(a.reasoning, NR(a, k) + 1, NR(a, l)), SubSeq(a.content, NC(a, k) + 1, NC(a, l)),
          SubSeq(Frags(a), NQ(a, k) + 1, NQ(a, l)),
          IF k < NF(a) /\ NF(a) <= l THEN a.finish ELSE Absent,
          IF k < NF(a) + 1 /\ NF(a) + 1 <= l THEN a.usage ELSE Absent)

LEMMA Sizes ==
    ASSUME NEW a, Regular(a)
    PROVE  R(a) \in Nat /\ C(a) \in Nat /\ K(a) \in Nat /\ NF(a) \in Nat
<1>1. R(a) \in Nat /\ C(a) \in Nat /\ K(a) \in Nat
  BY ListPlaces, PlacesAre, RegularIs DEF R, C, K
<1> QED BY <1>1 DEF NF

LEMMA FragsAre ==
    ASSUME NEW a, Regular(a)
    PROVE  IsList(Frags(a)) /\ Len(Frags(a)) = K(a) /\ \A q \in 1..K(a) : Frags(a)[q] = Frag(a, q)
<1>1. Frags(a) = [q \in 1..K(a) |-> Frags(a)[q]] /\ \A q \in 1..K(a) : Frags(a)[q] = Frag(a, q)
  BY DEF Frags
<1> QED BY <1>1, Sizes, Built

LEMMA AtomIs ==
    /\ Atom = Frame(<<>>, <<>>, <<>>, Absent, Absent)
    /\ \A x : [Atom EXCEPT !.reasoning = x] = Frame(x, <<>>, <<>>, Absent, Absent)
    /\ \A x : [Atom EXCEPT !.content = x] = Frame(<<>>, x, <<>>, Absent, Absent)
    /\ \A x : [Atom EXCEPT !.calls = x] = Frame(<<>>, <<>>, x, Absent, Absent)
    /\ \A x : [Atom EXCEPT !.finish = x] = Frame(<<>>, <<>>, <<>>, x, Absent)
    /\ \A x : [Atom EXCEPT !.usage = x] = Frame(<<>>, <<>>, <<>>, Absent, x)
BY DEF Atom, Frame

Or(g, f) == IF g = Absent THEN f ELSE g

LEMMA OrIs == (\A f : Or(Absent, f) = f) /\ (\A f, g : g # Absent => Or(g, f) = g)
BY DEF Or

Merged(r, c, q, fi, us, x, y, z, gi, vs) ==
    Merge(Frame(r, c, q, fi, us), Frame(x, y, z, gi, vs))
    = Frame(r \o x, c \o y, q \o z, Or(gi, fi), Or(vs, us))

LEMMA MergeIs ==
    ASSUME NEW r, NEW c, NEW q, NEW fi, NEW us, NEW x, NEW y, NEW z, NEW gi, NEW vs
    PROVE  Merged(r, c, q, fi, us, x, y, z, gi, vs)
<1> DEFINE f == Frame(r, c, q, fi, us)
           g == Frame(x, y, z, gi, vs)
           m == Merge(f, g)
           h == Frame(r \o x, c \o y, q \o z, Or(gi, fi), Or(vs, us))
           D == {"type", "reasoning", "content", "calls", "finish", "usage", "timings"}
<1>1. /\ g.reasoning = x /\ g.content = y /\ g.calls = z /\ g.finish = gi /\ g.usage = vs
  BY DEF Frame
<1>2. /\ f.type = "data" /\ f.timings = "none" /\ f.reasoning = r /\ f.content = c /\ f.calls = q /\ f.finish = fi /\ f.usage = us
      /\ f = [i \in D |-> f[i]]
  BY DEF Frame
<1>3. /\ h.type = "data" /\ h.timings = "none" /\ h.reasoning = r \o x /\ h.content = c \o y /\ h.calls = q \o z
      /\ h.finish = Or(gi, fi) /\ h.usage = Or(vs, us)
      /\ h = [i \in D |-> h[i]]
  BY DEF Frame
<1> HIDE DEF g, h, f
<1>4. m = [f EXCEPT !.reasoning = f.reasoning \o x, !.content = f.content \o y, !.calls = f.calls \o z,
                    !.finish = Or(gi, f.finish), !.usage = Or(vs, f.usage)]
  BY <1>1 DEF Merge, Or
<1> HIDE DEF m
<1>5. DOMAIN f = D
  BY <1>2
<1>6. m = [i \in D |-> CASE i = "reasoning" -> r \o x [] i = "content" -> c \o y [] i = "calls" -> q \o z
                        [] i = "finish" -> Or(gi, fi) [] i = "usage" -> Or(vs, us) [] OTHER -> f[i]]
  BY <1>2, <1>4, <1>5
<1>7. m = [i \in D |-> m[i]]
  BY <1>6
<1>8. /\ m.type = "data" /\ m.timings = "none" /\ m.reasoning = r \o x /\ m.content = c \o y /\ m.calls = q \o z
      /\ m.finish = Or(gi, fi) /\ m.usage = Or(vs, us)
  BY <1>6, <1>2
<1>9. \A i \in D : m[i] = h[i]
  BY <1>3, <1>8
<1>10. m = h
  BY <1>3, <1>7, <1>9
<1> QED BY <1>10 DEF f, g, h, m, Merged

LEMMA AtomsAre ==
    ASSUME NEW a, Regular(a)
    PROVE  /\ IsList(Atoms(a)) /\ Len(Atoms(a)) = NF(a) + 1
           /\ \A p \in 1..R(a) : Atoms(a)[p] = Frame(<<a.reasoning[p]>>, <<>>, <<>>, Absent, Absent)
           /\ \A p \in 1..C(a) : Atoms(a)[R(a) + p] = Frame(<<>>, <<a.content[p]>>, <<>>, Absent, Absent)
           /\ \A p \in 1..K(a) : Atoms(a)[R(a) + C(a) + p] = Frame(<<>>, <<>>, <<Frags(a)[p]>>, Absent, Absent)
           /\ Atoms(a)[NF(a)] = Frame(<<>>, <<>>, <<>>, a.finish, Absent)
           /\ Atoms(a)[NF(a) + 1] = Frame(<<>>, <<>>, <<>>, Absent, a.usage)
<1> DEFINE s == [i \in DOMAIN a.reasoning |-> [Atom EXCEPT !.reasoning = <<a.reasoning[i]>>]]
           t == [i \in DOMAIN a.content |-> [Atom EXCEPT !.content = <<a.content[i]>>]]
           u == Flat([i \in DOMAIN a.calls |-> CallAtoms(a.calls[i], i)])
           v == <<[Atom EXCEPT !.finish = a.finish], [Atom EXCEPT !.usage = a.usage]>>
           st == s \o t
           stu == st \o u
           all == stu \o v
<1>0. /\ R(a) \in Nat /\ C(a) \in Nat /\ K(a) \in Nat
      /\ DOMAIN a.reasoning = 1..R(a) /\ DOMAIN a.content = 1..C(a)
  BY Sizes, ListPlaces, RegularIs DEF R, C
<1>1. IsList(s) /\ Len(s) = R(a) /\ \A p \in 1..R(a) : s[p] = Frame(<<a.reasoning[p]>>, <<>>, <<>>, Absent, Absent)
  <2>1. s = [i \in 1..R(a) |-> s[i]] /\ \A p \in 1..R(a) : s[p] = Frame(<<a.reasoning[p]>>, <<>>, <<>>, Absent, Absent)
    BY <1>0, AtomIs
  <2> HIDE DEF s
  <2> QED BY <1>0, <2>1, Built
<1>2. IsList(t) /\ Len(t) = C(a) /\ \A p \in 1..C(a) : t[p] = Frame(<<>>, <<a.content[p]>>, <<>>, Absent, Absent)
  <2>1. t = [i \in 1..C(a) |-> t[i]] /\ \A p \in 1..C(a) : t[p] = Frame(<<>>, <<a.content[p]>>, <<>>, Absent, Absent)
    BY <1>0, AtomIs
  <2> HIDE DEF t
  <2> QED BY <1>0, <2>1, Built
<1>3. IsList(u) /\ Len(u) = K(a) /\ \A p \in 1..K(a) : u[p] = Frame(<<>>, <<>>, <<Frags(a)[p]>>, Absent, Absent)
  <2> DEFINE f == Flat(Upto(a, Len(a.calls)))
  <2>1. u = f
    BY UptoIs, RegularIs
  <2>2. IsList(f) /\ K(a) = Len(f) /\ \A q \in 1..K(a) : \E frag : f[q] = Bearing(frag)
    BY PlacesAre, RegularIs DEF K, Off
  <2> HIDE DEF u, f
  <2>3. ASSUME NEW p \in 1..K(a) PROVE f[p] = Frame(<<>>, <<>>, <<Frags(a)[p]>>, Absent, Absent)
    <3>1. PICK frag : f[p] = Bearing(frag)
      BY <2>2
    <3>2. Frag(a, p) = frag
      BY <3>1, BearingIs DEF Frag, f
    <3>3. Frags(a)[p] = frag
      BY <3>2, FragsAre
    <3> QED BY <3>1, <3>3, AtomIs DEF Bearing
  <2> QED BY <2>1, <2>2, <2>3
<1>4. /\ IsList(v) /\ Len(v) = 2 /\ v[1] = Frame(<<>>, <<>>, <<>>, a.finish, Absent)
      /\ v[2] = Frame(<<>>, <<>>, <<>>, Absent, a.usage)
  <2>1. v = [i \in 1..2 |-> v[i]] /\ v[1] = [Atom EXCEPT !.finish = a.finish] /\ v[2] = [Atom EXCEPT !.usage = a.usage]
    OBVIOUS
  <2>2. v[1] = Frame(<<>>, <<>>, <<>>, a.finish, Absent) /\ v[2] = Frame(<<>>, <<>>, <<>>, Absent, a.usage)
    BY <2>1, AtomIs
  <2> HIDE DEF v
  <2>3. 2 \in Nat
    OBVIOUS
  <2> QED BY <2>1, <2>2, <2>3, Built
<1>5. Atoms(a) = all
  BY DEF Atoms
<1> HIDE DEF s, t, u, v
<1>6. /\ IsList(st) /\ Len(st) = R(a) + C(a)
      /\ \A i \in 1..R(a) : st[i] = s[i]
      /\ \A i \in 1..C(a) : st[R(a) + i] = t[i]
  <2>1. IsList(s) /\ IsList(t)
    BY <1>1, <1>2
  <2>2. /\ IsList(st) /\ Len(st) = Len(s) + Len(t)
        /\ \A i \in 1..Len(s) : st[i] = s[i]
        /\ \A i \in 1..Len(t) : st[Len(s) + i] = t[i]
    BY <2>1, Joined
  <2> HIDE DEF st
  <2> QED BY <1>1, <1>2, <2>2
<1> HIDE DEF st
<1>7. /\ IsList(stu) /\ Len(stu) = R(a) + C(a) + K(a)
      /\ \A i \in 1..(R(a) + C(a)) : stu[i] = st[i]
      /\ \A i \in 1..K(a) : stu[R(a) + C(a) + i] = u[i]
  <2>1. IsList(st) /\ IsList(u)
    BY <1>3, <1>6
  <2>2. /\ IsList(stu) /\ Len(stu) = Len(st) + Len(u)
        /\ \A i \in 1..Len(st) : stu[i] = st[i]
        /\ \A i \in 1..Len(u) : stu[Len(st) + i] = u[i]
    BY <2>1, Joined
  <2> HIDE DEF stu
  <2> QED BY <1>3, <1>6, <2>2
<1> HIDE DEF stu
<1>8. /\ IsList(all) /\ Len(all) = R(a) + C(a) + K(a) + 2
      /\ \A i \in 1..(R(a) + C(a) + K(a)) : all[i] = stu[i]
      /\ \A i \in 1..2 : all[R(a) + C(a) + K(a) + i] = v[i]
  <2>1. IsList(stu) /\ IsList(v)
    BY <1>4, <1>7
  <2>2. /\ IsList(all) /\ Len(all) = Len(stu) + Len(v)
        /\ \A i \in 1..Len(stu) : all[i] = stu[i]
        /\ \A i \in 1..Len(v) : all[Len(stu) + i] = v[i]
    BY <2>1, Joined
  <2> HIDE DEF all
  <2> QED BY <1>4, <1>7, <2>2
<1> HIDE DEF all
<1>9. NF(a) = R(a) + C(a) + K(a) + 1 /\ NF(a) + 1 = R(a) + C(a) + K(a) + 2 /\ 1 \in 1..2 /\ 2 \in 1..2
  BY <1>0 DEF NF
<1>10. ASSUME NEW p \in 1..R(a) PROVE all[p] = Frame(<<a.reasoning[p]>>, <<>>, <<>>, Absent, Absent)
  <2>1. p \in 1..(R(a) + C(a)) /\ p \in 1..(R(a) + C(a) + K(a))
    BY <1>0
  <2> QED BY <1>1, <1>6, <1>7, <1>8, <2>1
<1>11. ASSUME NEW p \in 1..C(a) PROVE all[R(a) + p] = Frame(<<>>, <<a.content[p]>>, <<>>, Absent, Absent)
  <2>1. R(a) + p \in 1..(R(a) + C(a)) /\ R(a) + p \in 1..(R(a) + C(a) + K(a))
    BY <1>0
  <2> QED BY <1>2, <1>6, <1>7, <1>8, <2>1
<1>12. ASSUME NEW p \in 1..K(a) PROVE all[R(a) + C(a) + p] = Frame(<<>>, <<>>, <<Frags(a)[p]>>, Absent, Absent)
  <2>1. R(a) + C(a) + p \in 1..(R(a) + C(a) + K(a))
    BY <1>0
  <2> QED BY <1>3, <1>7, <1>8, <2>1
<1>13. all[NF(a)] = v[1] /\ all[NF(a) + 1] = v[2]
  BY <1>8, <1>9
<1> QED BY <1>4, <1>5, <1>8, <1>9, <1>10, <1>11, <1>12, <1>13

LEMMA Counts ==
    ASSUME NEW a, Regular(a), NEW k \in 0..(NF(a) + 1), NEW l \in k..(NF(a) + 1)
    PROVE  /\ l \in Nat /\ k \in Nat /\ l \in 0..(NF(a) + 1)
           /\ NR(a, k) \in 0..R(a) /\ NR(a, l) \in NR(a, k)..R(a)
           /\ NC(a, k) \in 0..C(a) /\ NC(a, l) \in NC(a, k)..C(a)
           /\ NQ(a, k) \in 0..K(a) /\ NQ(a, l) \in NQ(a, k)..K(a)
           /\ NR(a, k) # NR(a, l) => NC(a, k) = 0 /\ NQ(a, k) = 0
           /\ NC(a, k) # NC(a, l) => NQ(a, k) = 0 /\ NR(a, l) = R(a)
           /\ NQ(a, l) # 0 => NC(a, l) = C(a) /\ NR(a, l) = R(a)
BY Sizes DEF NR, NC, NQ, NF

\* Which piece comes next.
LEMMA NextCount ==
    ASSUME NEW a, Regular(a), NEW l \in 0..NF(a)
    PROVE  \/ /\ l + 1 \in 1..R(a)
              /\ NR(a, l + 1) = NR(a, l) + 1 /\ NR(a, l) = l /\ NC(a, l + 1) = NC(a, l) /\ NQ(a, l + 1) = NQ(a, l)
              /\ l + 1 < NF(a)
           \/ \E p \in 1..C(a) :
              /\ l + 1 = R(a) + p
              /\ NC(a, l + 1) = NC(a, l) + 1 /\ NC(a, l) + 1 = p /\ NR(a, l + 1) = NR(a, l) /\ NQ(a, l + 1) = NQ(a, l)
              /\ l + 1 < NF(a)
           \/ \E p \in 1..K(a) :
              /\ l + 1 = R(a) + C(a) + p
              /\ NQ(a, l + 1) = NQ(a, l) + 1 /\ NQ(a, l) + 1 = p /\ NR(a, l + 1) = NR(a, l) /\ NC(a, l + 1) = NC(a, l)
              /\ l + 1 < NF(a)
           \/ /\ l + 1 \in {NF(a), NF(a) + 1}
              /\ NR(a, l + 1) = NR(a, l) /\ NC(a, l + 1) = NC(a, l) /\ NQ(a, l + 1) = NQ(a, l)
<1>0. R(a) \in Nat /\ C(a) \in Nat /\ K(a) \in Nat /\ NF(a) = R(a) + C(a) + K(a) + 1
  BY Sizes DEF NF
<1>1. CASE l < R(a)
  BY <1>0, <1>1 DEF NR, NC, NQ
<1>2. CASE ~(l < R(a)) /\ l < R(a) + C(a)
  <2>1. l + 1 - R(a) \in 1..C(a) /\ l + 1 = R(a) + (l + 1 - R(a))
    BY <1>0, <1>2
  <2>2. /\ NC(a, l + 1) = NC(a, l) + 1 /\ NC(a, l) + 1 = l + 1 - R(a) /\ NR(a, l + 1) = NR(a, l) /\ NQ(a, l + 1) = NQ(a, l)
        /\ l + 1 < NF(a)
    BY <1>0, <1>2 DEF NR, NC, NQ
  <2> QED BY <2>1, <2>2
<1>3. CASE ~(l < R(a) + C(a)) /\ l < R(a) + C(a) + K(a)
  <2>1. l + 1 - (R(a) + C(a)) \in 1..K(a) /\ l + 1 = R(a) + C(a) + (l + 1 - (R(a) + C(a)))
    BY <1>0, <1>3
  <2>2. /\ NQ(a, l + 1) = NQ(a, l) + 1 /\ NQ(a, l) + 1 = l + 1 - (R(a) + C(a)) /\ NR(a, l + 1) = NR(a, l) /\ NC(a, l + 1) = NC(a, l)
        /\ l + 1 < NF(a)
    BY <1>0, <1>3 DEF NR, NC, NQ
  <2> QED BY <2>1, <2>2
<1>4. CASE ~(l < R(a) + C(a) + K(a))
  BY <1>0, <1>4 DEF NR, NC, NQ
<1> QED BY <1>0, <1>1, <1>2, <1>3, <1>4

LEMMA NoFrame ==
    ASSUME NEW a, Regular(a), NEW k \in 0..(NF(a) + 1)
    PROVE  FrameOf(a, k, k) = Atom
<1>0. /\ NR(a, k) \in 0..Len(a.reasoning) /\ NC(a, k) \in 0..Len(a.content) /\ NQ(a, k) \in 0..Len(Frags(a)) /\ k \in Nat
      /\ IsList(a.reasoning) /\ IsList(a.content) /\ IsList(Frags(a)) /\ NF(a) \in Nat
  <2>1. k \in k..(NF(a) + 1)
    BY Sizes
  <2> QED BY <2>1, Sizes, Counts, FragsAre, RegularIs DEF R, C
<1>1. /\ SubSeq(a.reasoning, NR(a, k) + 1, NR(a, k)) = <<>>
      /\ SubSeq(a.content, NC(a, k) + 1, NC(a, k)) = <<>>
      /\ SubSeq(Frags(a), NQ(a, k) + 1, NQ(a, k)) = <<>>
  BY <1>0, NoSlice
<1>2. ~(k < NF(a) /\ NF(a) <= k) /\ ~(k < NF(a) + 1 /\ NF(a) + 1 <= k)
  BY <1>0
<1> QED BY <1>1, <1>2, AtomIs DEF FrameOf

LEMMA FrameOn ==
    ASSUME NEW a, Regular(a), NEW k \in 0..NF(a), NEW l \in k..NF(a)
    PROVE  Merge(FrameOf(a, k, l), Atoms(a)[l + 1]) = FrameOf(a, k, l + 1)
<1> DEFINE r == a.reasoning
           c == a.content
           q == Frags(a)
           r1 == SubSeq(r, NR(a, k) + 1, NR(a, l))
           c1 == SubSeq(c, NC(a, k) + 1, NC(a, l))
           q1 == SubSeq(q, NQ(a, k) + 1, NQ(a, l))
           fi(n) == IF k < NF(a) /\ NF(a) <= n THEN a.finish ELSE Absent
           us(n) == IF k < NF(a) + 1 /\ NF(a) + 1 <= n THEN a.usage ELSE Absent
           A == Atoms(a)[l + 1]
<1>0. /\ R(a) \in Nat /\ C(a) \in Nat /\ K(a) \in Nat /\ NF(a) \in Nat /\ l \in Nat /\ k \in Nat
      /\ l \in 0..NF(a) /\ l + 1 \in Nat
      /\ IsList(r) /\ IsList(c) /\ IsList(q) /\ Len(r) = R(a) /\ Len(c) = C(a) /\ Len(q) = K(a)
  BY Sizes, FragsAre, RegularIs DEF R, C
<1>1. /\ NR(a, k) \in 0..R(a) /\ NR(a, l) \in NR(a, k)..R(a)
      /\ NC(a, k) \in 0..C(a) /\ NC(a, l) \in NC(a, k)..C(a)
      /\ NQ(a, k) \in 0..K(a) /\ NQ(a, l) \in NQ(a, k)..K(a)
  <2>1. k \in 0..(NF(a) + 1) /\ l \in k..(NF(a) + 1)
    BY <1>0
  <2> QED BY <2>1, Counts
<1>2. FrameOf(a, k, l) = Frame(r1, c1, q1, fi(l), us(l))
  BY DEF FrameOf
<1>3. FrameOf(a, k, l + 1) = Frame(SubSeq(r, NR(a, k) + 1, NR(a, l + 1)), SubSeq(c, NC(a, k) + 1, NC(a, l + 1)),
                                   SubSeq(q, NQ(a, k) + 1, NQ(a, l + 1)), fi(l + 1), us(l + 1))
  BY DEF FrameOf
<1>4. IsList(r1) /\ IsList(c1) /\ IsList(q1)
  BY <1>0, <1>1, SliceIs
<1>5. r1 \o <<>> = r1 /\ c1 \o <<>> = c1 /\ q1 \o <<>> = q1
  BY <1>4, JoinedNone
<1>6. l + 1 < NF(a) => fi(l + 1) = fi(l) /\ us(l + 1) = us(l)
  BY <1>0
<1> DEFINE Good == Merge(FrameOf(a, k, l), A) = FrameOf(a, k, l + 1)
<1>7. ASSUME l + 1 \in 1..R(a), NR(a, l + 1) = NR(a, l) + 1, NR(a, l) = l, NC(a, l + 1) = NC(a, l), NQ(a, l + 1) = NQ(a, l),
             l + 1 < NF(a)
      PROVE  Good
  <2>1. A = Frame(<<r[l + 1]>>, <<>>, <<>>, Absent, Absent)
    BY <1>7, AtomsAre
  <2>2. SubSeq(r, NR(a, k) + 1, NR(a, l) + 1) = r1 \o <<r[NR(a, l) + 1]>>
    <3>1. NR(a, l) + 1 <= Len(r)
      BY <1>0, <1>1, <1>7
    <3> QED BY <1>0, <1>1, <3>1, SliceOn
  <2>3. SubSeq(r, NR(a, k) + 1, NR(a, l + 1)) = r1 \o <<r[l + 1]>>
    BY <1>7, <2>2
  <2> HIDE DEF r, c, q, r1, c1, q1, fi, us, A
  <2>4. Merge(Frame(r1, c1, q1, fi(l), us(l)), A) = Frame(r1 \o <<r[l + 1]>>, c1 \o <<>>, q1 \o <<>>, fi(l), us(l))
    <3>1. Merged(r1, c1, q1, fi(l), us(l), <<r[l + 1]>>, <<>>, <<>>, Absent, Absent)
      BY MergeIs
    <3>2. Or(Absent, fi(l)) = fi(l) /\ Or(Absent, us(l)) = us(l)
      BY OrIs
    <3> QED BY <2>1, <3>1, <3>2 DEF Merged
  <2>5. FrameOf(a, k, l + 1) = Frame(r1 \o <<r[l + 1]>>, c1, q1, fi(l), us(l))
    <3>1. SubSeq(c, NC(a, k) + 1, NC(a, l + 1)) = c1 /\ SubSeq(q, NQ(a, k) + 1, NQ(a, l + 1)) = q1
      BY <1>7 DEF c1, q1
    <3> QED BY <1>3, <1>6, <1>7, <2>3, <3>1
  <2> QED BY <1>2, <1>5, <2>4, <2>5
<1>8. ASSUME NEW p \in 1..C(a), l + 1 = R(a) + p, NC(a, l + 1) = NC(a, l) + 1, NC(a, l) + 1 = p, NR(a, l + 1) = NR(a, l),
             NQ(a, l + 1) = NQ(a, l), l + 1 < NF(a)
      PROVE  Good
  <2>1. A = Frame(<<>>, <<c[p]>>, <<>>, Absent, Absent)
    BY <1>8, AtomsAre
  <2>2. SubSeq(c, NC(a, k) + 1, NC(a, l) + 1) = c1 \o <<c[NC(a, l) + 1]>>
    <3>1. NC(a, l) + 1 <= Len(c)
      BY <1>0, <1>1, <1>8
    <3> QED BY <1>0, <1>1, <3>1, SliceOn
  <2>3. SubSeq(c, NC(a, k) + 1, NC(a, l + 1)) = c1 \o <<c[p]>>
    BY <1>8, <2>2
  <2> HIDE DEF r, c, q, r1, c1, q1, fi, us, A
  <2>4. Merge(Frame(r1, c1, q1, fi(l), us(l)), A) = Frame(r1 \o <<>>, c1 \o <<c[p]>>, q1 \o <<>>, fi(l), us(l))
    <3>1. Merged(r1, c1, q1, fi(l), us(l), <<>>, <<c[p]>>, <<>>, Absent, Absent)
      BY MergeIs
    <3>2. Or(Absent, fi(l)) = fi(l) /\ Or(Absent, us(l)) = us(l)
      BY OrIs
    <3> QED BY <2>1, <3>1, <3>2 DEF Merged
  <2>5. FrameOf(a, k, l + 1) = Frame(r1, c1 \o <<c[p]>>, q1, fi(l), us(l))
    <3>1. SubSeq(r, NR(a, k) + 1, NR(a, l + 1)) = r1 /\ SubSeq(q, NQ(a, k) + 1, NQ(a, l + 1)) = q1
      BY <1>8 DEF r1, q1
    <3> QED BY <1>3, <1>6, <1>8, <2>3, <3>1
  <2> QED BY <1>2, <1>5, <2>4, <2>5
<1>9. ASSUME NEW p \in 1..K(a), l + 1 = R(a) + C(a) + p, NQ(a, l + 1) = NQ(a, l) + 1, NQ(a, l) + 1 = p,
             NR(a, l + 1) = NR(a, l), NC(a, l + 1) = NC(a, l), l + 1 < NF(a)
      PROVE  Good
  <2>1. A = Frame(<<>>, <<>>, <<q[p]>>, Absent, Absent)
    BY <1>9, AtomsAre
  <2>2. SubSeq(q, NQ(a, k) + 1, NQ(a, l) + 1) = q1 \o <<q[NQ(a, l) + 1]>>
    <3>1. NQ(a, l) + 1 <= Len(q)
      BY <1>0, <1>1, <1>9
    <3> HIDE DEF q
    <3> QED BY <1>0, <1>1, <3>1, SliceOn
  <2>3. SubSeq(q, NQ(a, k) + 1, NQ(a, l + 1)) = q1 \o <<q[p]>>
    BY <1>9, <2>2
  <2> HIDE DEF r, c, q, r1, c1, q1, fi, us, A
  <2>4. Merge(Frame(r1, c1, q1, fi(l), us(l)), A) = Frame(r1 \o <<>>, c1 \o <<>>, q1 \o <<q[p]>>, fi(l), us(l))
    <3>1. Merged(r1, c1, q1, fi(l), us(l), <<>>, <<>>, <<q[p]>>, Absent, Absent)
      BY MergeIs
    <3>2. Or(Absent, fi(l)) = fi(l) /\ Or(Absent, us(l)) = us(l)
      BY OrIs
    <3> QED BY <2>1, <3>1, <3>2 DEF Merged
  <2>5. FrameOf(a, k, l + 1) = Frame(r1, c1, q1 \o <<q[p]>>, fi(l), us(l))
    <3>1. SubSeq(r, NR(a, k) + 1, NR(a, l + 1)) = r1 /\ SubSeq(c, NC(a, k) + 1, NC(a, l + 1)) = c1
      BY <1>9 DEF r1, c1
    <3> QED BY <1>3, <1>6, <1>9, <2>3, <3>1
  <2> QED BY <1>2, <1>5, <2>4, <2>5
<1>10. ASSUME l + 1 \in {NF(a), NF(a) + 1}, NR(a, l + 1) = NR(a, l), NC(a, l + 1) = NC(a, l), NQ(a, l + 1) = NQ(a, l)
       PROVE  Good
  <2>1. FrameOf(a, k, l + 1) = Frame(r1, c1, q1, fi(l + 1), us(l + 1))
    <3>1. SubSeq(r, NR(a, k) + 1, NR(a, l + 1)) = r1 /\ SubSeq(c, NC(a, k) + 1, NC(a, l + 1)) = c1
          /\ SubSeq(q, NQ(a, k) + 1, NQ(a, l + 1)) = q1
      BY <1>10
    <3> HIDE DEF r, c, q, r1, c1, q1, fi, us
    <3> QED BY <1>3, <3>1
  <2>2. CASE l + 1 = NF(a)
    <3>1. A = Frame(<<>>, <<>>, <<>>, a.finish, Absent)
      BY <2>2, AtomsAre
    <3>2. k < NF(a) /\ fi(l + 1) = a.finish /\ us(l + 1) = Absent /\ us(l) = Absent /\ a.finish # Absent
      BY <1>0, <2>2, RegularIs
    <3> HIDE DEF r, c, q, r1, c1, q1, fi, us, A
    <3>3. Merge(Frame(r1, c1, q1, fi(l), us(l)), A) = Frame(r1 \o <<>>, c1 \o <<>>, q1 \o <<>>, a.finish, us(l))
      <4>1. Merged(r1, c1, q1, fi(l), us(l), <<>>, <<>>, <<>>, a.finish, Absent)
        BY MergeIs
      <4>2. Or(a.finish, fi(l)) = a.finish /\ Or(Absent, us(l)) = us(l)
        BY <3>2, OrIs
      <4> QED BY <3>1, <4>1, <4>2 DEF Merged
    <3> QED BY <1>2, <1>5, <2>1, <3>2, <3>3
  <2>3. CASE l + 1 = NF(a) + 1
    <3>1. A = Frame(<<>>, <<>>, <<>>, Absent, a.usage)
      BY <2>3, AtomsAre
    <3>2. l = NF(a) /\ fi(l + 1) = fi(l) /\ us(l) = Absent /\ us(l + 1) = a.usage
      BY <1>0, <2>3
    <3> HIDE DEF r, c, q, r1, c1, q1, fi, us, A
    <3>3. Merge(Frame(r1, c1, q1, fi(l), us(l)), A)
          = Frame(r1 \o <<>>, c1 \o <<>>, q1 \o <<>>, fi(l), Or(a.usage, us(l)))
      <4>1. Merged(r1, c1, q1, fi(l), us(l), <<>>, <<>>, <<>>, Absent, a.usage)
        BY MergeIs
      <4>2. Or(Absent, fi(l)) = fi(l)
        BY OrIs
      <4> QED BY <3>1, <4>1, <4>2 DEF Merged
    <3>4. Or(a.usage, us(l)) = us(l + 1)
      BY <3>2 DEF Or
    <3> QED BY <1>2, <1>5, <2>1, <3>2, <3>3, <3>4
  <2> QED BY <1>10, <2>2, <2>3
<1>11. Good
  <2> HIDE DEF Good
  <2> QED BY <1>0, <1>7, <1>8, <1>9, <1>10, NextCount
<1> QED BY <1>11

LEMMA FrameIs ==
    ASSUME NEW a, Regular(a), NEW k \in 0..(NF(a) + 1), NEW l \in k..(NF(a) + 1)
    PROVE  FoldLeft(Merge, Atom, SubSeq(Atoms(a), k + 1, l)) = FrameOf(a, k, l)
<1> DEFINE A == Atoms(a)
           s == SubSeq(A, k + 1, l)
<1>0. /\ NF(a) \in Nat /\ k \in Nat /\ l \in Nat /\ l - k \in Nat /\ IsList(A) /\ Len(A) = NF(a) + 1
  BY Sizes, AtomsAre
<1>1. IsList(s) /\ Len(s) = l - k /\ \A i \in 1..(l - k) : s[i] = A[k + i]
  <2>1. k \in 0..Len(A) /\ l \in k..Len(A)
    BY <1>0
  <2> HIDE DEF A
  <2> QED BY <1>0, <2>1, SliceIs
<1> HIDE DEF s, A
<1>2. PICK h : /\ h[0] = Atom
               /\ \A n \in 1..Len(s) : h[n] = Merge(h[n - 1], s[n])
               /\ h[Len(s)] = FoldLeft(Merge, Atom, s)
  BY <1>1, FoldMerge
<1> DEFINE Good(n) == h[n] = FrameOf(a, k, k + n)
           Bad == {n \in 0..(l - k) : ~Good(n)}
<1>3. Good(0)
  <2>1. k + 0 = k
    BY <1>0
  <2> QED BY <1>2, <2>1, NoFrame
<1>4. ASSUME NEW n \in 1..(l - k), Good(n - 1) PROVE Good(n)
  <2>1. k \in 0..NF(a) /\ k + (n - 1) \in k..NF(a) /\ (k + (n - 1)) + 1 = k + n
    BY <1>0
  <2>2. Merge(FrameOf(a, k, k + (n - 1)), A[(k + (n - 1)) + 1]) = FrameOf(a, k, (k + (n - 1)) + 1)
    BY <2>1, FrameOn DEF A
  <2>3. h[n] = Merge(FrameOf(a, k, k + (n - 1)), A[k + n])
    BY <1>1, <1>2, <1>4
  <2> QED BY <2>1, <2>2, <2>3
<1>5. Bad = {}
  <2> HIDE DEF Good
  <2> SUFFICES ASSUME Bad # {} PROVE FALSE
    OBVIOUS
  <2>1. Bad \in SUBSET Nat
    BY <1>0
  <2>2. PICK m \in Bad : \A j \in Bad : m <= j
    BY <2>1, LeastNumber, Zenon
  <2>3. m \in 1..(l - k) /\ m - 1 \in 0..(l - k) /\ ~(m <= m - 1)
    BY <1>0, <1>3
  <2>4. Good(m - 1)
    BY <2>2, <2>3
  <2>5. Good(m)
    BY <1>4, <2>3, <2>4
  <2> QED BY <2>5
<1>6. Good(l - k)
  <2> HIDE DEF Good
  <2> QED BY <1>0, <1>5
<1>7. k + (l - k) = l
  BY <1>0
<1> QED BY <1>1, <1>2, <1>6, <1>7 DEF s, A

-----------------------------------------------------------------------------
(* A frame of the answer.                                                  *)

\* The agent holds the same, with the same block open.
Same(u, t) ==
    /\ Carries(u) /\ u.open = t.open /\ Settled(u) = Settled(t) /\ Asm(u).partial = Asm(t).partial

LEMMA StartIs ==
    ASSUME NEW t, Carries(t)
    PROVE  LET u == Start(t) IN Same(u, t) /\ Keeps(u, t, {"events", "started"})
<1> DEFINE e == [event |-> "message_start"]
           v == Emit(t, e)
           u == Start(t)
<1>1. CASE t.started
  <2>1. u = t
    BY <1>1 DEF Start
  <2> QED BY <2>1 DEF Same, Keeps
<1>2. CASE ~t.started
  <2>1. u = [v EXCEPT !.started = TRUE]
    BY <1>2 DEF Start
  <2>2. Shaped(v) /\ Keeps(v, t, {"events"}) /\ Asm(v) = AssembleStep(Asm(t), e)
    BY EmitIs DEF Carries
  <2>3. AssembleStep(Asm(t), e) = Asm(t)
    BY DEF AssembleStep, Carries, Sound
  <2> HIDE DEF v, e
  <2>4. u.events = v.events /\ Shaped(u) /\ Keeps(u, v, {"started"})
    BY <2>1, <2>2 DEF Shaped, Keeps, Fields
  <2> HIDE DEF u
  <2>5. Asm(u) = Asm(t)
    BY <2>2, <2>3, <2>4 DEF Asm
  <2>6. Keeps(u, t, {"events", "started"})
    BY <2>2, <2>4 DEF Keeps
  <2>7. u.open = t.open /\ u.index = t.index /\ u.next = t.next /\ u.finished = t.finished
    BY <2>6 DEF Keeps, Fields
  <2>8. Carries(u)
    BY <2>4, <2>5, <2>7 DEF Carries
  <2>9. Settled(u) = Settled(t)
    BY <2>5, <2>7 DEF Settled
  <2> QED BY <2>5, <2>6, <2>7, <2>8, <2>9 DEF Same, u
<1> QED BY <1>1, <1>2

LEMMA AbsorbIs ==
    ASSUME NEW t, Carries(t), NEW f
    PROVE  LET u == AbsorbTerminal(t, f)
           IN  /\ Same(u, t) /\ Keeps(u, t, {"stop", "usage"})
               /\ u.stop = IF f.finish = Absent THEN t.stop ELSE StopReason(f.finish)
               /\ u.usage = IF f.usage = Absent THEN t.usage ELSE f.usage
<1> DEFINE u == AbsorbTerminal(t, f)
           stop == IF f.finish = Absent THEN t.stop ELSE StopReason(f.finish)
           usage == IF f.usage = Absent THEN t.usage ELSE f.usage
<1>1. u = [t EXCEPT !.stop = stop, !.usage = usage]
  BY DEF AbsorbTerminal
<1>2. DOMAIN t = Fields
  BY DEF Carries, Shaped
<1> HIDE DEF stop, usage, u
<1>3. DOMAIN u = Fields /\ Keeps(u, t, {"stop", "usage"}) /\ u.stop = stop /\ u.usage = usage
  BY <1>1, <1>2 DEF Keeps, Fields
<1>4. u.events = t.events /\ u.open = t.open /\ u.index = t.index /\ u.next = t.next /\ u.finished = t.finished
  BY <1>3 DEF Keeps, Fields
<1>5. Carries(u) /\ Settled(u) = Settled(t) /\ Asm(u) = Asm(t)
  BY <1>3, <1>4, CarriesSame
<1> QED BY <1>3, <1>4, <1>5 DEF Same, stop, usage, u

LEMMA SameOn == ASSUME NEW t, NEW u, NEW v, Same(u, t), Same(v, u) PROVE Same(v, t)
BY DEF Same

LEMMA SameSpeaks == ASSUME NEW t, NEW u, Same(u, t), NEW r, NEW v, Speaks(t, r, v) PROVE Speaks(u, r, v)
BY DEF Same, Speaks

LEMMA SameCalling == ASSUME NEW t, NEW u, Same(u, t), NEW a, NEW q, Calling(t, a, q) PROVE Calling(u, a, q)
<1>1. CASE q = 0
  <2>1. Speaks(t, a.reasoning, StripThinking(a.content))
    BY <1>1 DEF Calling
  <2> QED BY <1>1, <2>1, SameSpeaks DEF Calling
<1>2. CASE q # 0
  <2>1. PICK m \in 1..Len(a.calls) : \E j \in 0..Len(a.calls[m].args) : q = Place(a, m, j) /\ Called(t, a, m, j)
    BY <1>2 DEF Calling
  <2>2. PICK j \in 0..Len(a.calls[m].args) : q = Place(a, m, j) /\ Called(t, a, m, j)
    BY <2>1
  <2>3. Called(u, a, m, j)
    BY <2>2 DEF Called, Same, At, EndsCall
  <2> QED BY <1>2, <2>2, <2>3 DEF Calling
<1> QED BY <1>1, <1>2

\* The agent holds the first nr pieces of reasoning, nc of text, nq of calls.
Holds(t, a, nr, nc, nq) ==
    /\ t.pending = Pend(Take(a.content, nc))
    /\ nq = 0 => Speaks(t, Take(a.reasoning, nr), StripThinking(Take(a.content, nc)))
    /\ nq # 0 => Calling(t, a, nq)

LEMMA CallingCarries == ASSUME NEW t, NEW a, NEW q, Calling(t, a, q) PROVE Carries(t)
BY DEF Calling, Speaks, Called

LEMMA HoldsCarries == ASSUME NEW t, NEW a, NEW nr, NEW nc, NEW nq, Holds(t, a, nr, nc, nq) PROVE Carries(t)
BY CallingCarries DEF Holds, Speaks

LEMMA SameHolds ==
    ASSUME NEW t, NEW u, Same(u, t), u.pending = t.pending, NEW a, NEW nr, NEW nc, NEW nq, Holds(t, a, nr, nc, nq)
    PROVE  Holds(u, a, nr, nc, nq)
<1>1. ASSUME nq = 0 PROVE Speaks(u, Take(a.reasoning, nr), StripThinking(Take(a.content, nc)))
  <2>1. Speaks(t, Take(a.reasoning, nr), StripThinking(Take(a.content, nc)))
    BY <1>1 DEF Holds
  <2> QED BY <2>1, SameSpeaks
<1>2. ASSUME nq # 0 PROVE Calling(u, a, nq)
  <2>1. Calling(t, a, nq)
    BY <1>2 DEF Holds
  <2> QED BY <2>1, SameCalling
<1> QED BY <1>1, <1>2 DEF Holds

Slice(s, m, n) == SubSeq(s, m + 1, n)

LEMMA TakeOn ==
    ASSUME NEW s, IsList(s), NEW m \in 0..Len(s), NEW n \in m..Len(s)
    PROVE  IsList(Take(s, m)) /\ Take(s, m) \o Slice(s, m, n) = Take(s, n)
BY TakeIs DEF Slice

LEMMA ThinkStep ==
    ASSUME NEW a, Regular(a), NEW m \in 0..R(a), NEW n \in m..R(a), NEW nc, NEW nq, NEW t, Holds(t, a, m, nc, nq),
           m # n => nc = 0 /\ nq = 0
    PROVE  LET x == Slice(a.reasoning, m, n)
               u == IF x = <<>> THEN t ELSE OnThinking(t, x)
           IN  Holds(u, a, n, nc, nq) /\ Keeps(u, t, Written)
<1> DEFINE x == Slice(a.reasoning, m, n)
           u == IF x = <<>> THEN t ELSE OnThinking(t, x)
<1>0. IsList(a.reasoning) /\ Len(a.reasoning) = R(a) /\ R(a) \in Nat /\ IsList(a.content) /\ C(a) \in Nat /\ Len(a.content) = C(a)
  BY Sizes, RegularIs DEF R, C
<1>1. IsList(x) /\ Len(x) = n - m
  BY <1>0, SliceIs DEF Slice
<1>2. CASE m = n
  <2>1. x = <<>>
    BY <1>0, <1>2, NoSlice DEF Slice
  <2> QED BY <1>2, <2>1 DEF Keeps
<1>3. CASE m # n
  <2>1. x # <<>>
    BY <1>0, <1>1, <1>3, NoneLeft
  <2>2. StripThinking(Take(a.content, nc)) = <<>>
    <3>1. Take(a.content, nc) = <<>>
      BY <1>0, <1>3, TakeIs
    <3>2. ~Leading(<<>>) /\ Leads(<<>>)
      BY DEF Leading, Leads
    <3> QED BY <3>1, <3>2, Empty, StripIs
  <2>3. Speaks(t, Take(a.reasoning, m), <<>>)
    BY <1>3, <2>2 DEF Holds
  <2>4. IsList(Take(a.reasoning, m)) /\ Take(a.reasoning, m) \o x = Take(a.reasoning, n)
    <3>1. m \in 0..Len(a.reasoning) /\ n \in m..Len(a.reasoning)
      BY <1>0
    <3> QED BY <1>0, <3>1, TakeOn
  <2> HIDE DEF x
  <2>5. Speaks(OnThinking(t, x), Take(a.reasoning, m) \o x, <<>>) /\ Keeps(OnThinking(t, x), t, Written)
    BY <1>1, <2>1, <2>3, <2>4, ThinksOn
  <2>6. u = OnThinking(t, x)
    BY <2>1
  <2>7. u.pending = t.pending
    BY <2>5, <2>6 DEF Keeps, Fields, Written
  <2>8. Speaks(u, Take(a.reasoning, n), <<>>)
    BY <2>4, <2>5, <2>6
  <2> HIDE DEF u
  <2>9. Holds(u, a, n, nc, nq)
    BY <1>3, <2>2, <2>7, <2>8 DEF Holds
  <2> QED BY <2>5, <2>6, <2>9 DEF u, x
<1> QED BY <1>2, <1>3

LEMMA LeadsTake ==
    ASSUME NEW c, IsList(c), Leads(c), NEW n \in 0..Len(c)
    PROVE  Leads(Take(c, n))
<1>1. Len(Take(c, n)) = n /\ (\A i \in 1..n : Take(c, n)[i] = c[i]) /\ Len(c) \in Nat
  BY TakeIs, ListPlaces
<1> QED BY <1>1 DEF Leads

LEMMA TextStep ==
    ASSUME NEW a, Regular(a), NEW m \in 0..C(a), NEW n \in m..C(a), NEW nr, NEW nq, NEW t, Holds(t, a, nr, m, nq),
           m # n => nq = 0
    PROVE  LET x == Slice(a.content, m, n)
               u == IF x = <<>> THEN t ELSE OnText(t, x)
           IN  Holds(u, a, nr, n, nq) /\ Keeps(u, t, Written \cup {"pending"})
<1> DEFINE x == Slice(a.content, m, n)
           u == IF x = <<>> THEN t ELSE OnText(t, x)
           c == Take(a.content, m)
           r == Take(a.reasoning, nr)
<1>0. IsList(a.content) /\ C(a) \in Nat /\ Len(a.content) = C(a) /\ Leads(a.content)
  BY Sizes, RegularIs DEF C
<1>1. IsList(x) /\ Len(x) = n - m
  BY <1>0, SliceIs DEF Slice
<1>2. CASE m = n
  <2>1. x = <<>>
    BY <1>0, <1>2, NoSlice DEF Slice
  <2> QED BY <1>2, <2>1 DEF Keeps
<1>3. CASE m # n
  <2>1. x # <<>>
    BY <1>0, <1>1, <1>3, NoneLeft
  <2>2. Speaks(t, r, StripThinking(c)) /\ t.pending = Pend(c)
    BY <1>3 DEF Holds
  <2>3. IsList(c) /\ c \o x = Take(a.content, n)
    <3>1. m \in 0..Len(a.content) /\ n \in m..Len(a.content)
      BY <1>0
    <3> QED BY <1>0, <3>1, TakeOn
  <2>4. Leads(c \o x)
    BY <1>0, <2>3, LeadsTake
  <2> HIDE DEF x, c, r
  <2>5. /\ Speaks(OnText(t, x), r, StripThinking(c \o x)) /\ OnText(t, x).pending = Pend(c \o x)
        /\ Keeps(OnText(t, x), t, Written \cup {"pending"})
    BY <1>1, <2>1, <2>2, <2>3, <2>4, TextOn
  <2>6. u = OnText(t, x)
    BY <2>1
  <2> HIDE DEF u
  <2>7. Holds(u, a, nr, n, nq)
    BY <1>3, <2>3, <2>5, <2>6 DEF Holds, r
  <2> QED BY <2>5, <2>6, <2>7 DEF u, x
<1> QED BY <1>2, <1>3

LEMMA CallStep ==
    ASSUME NEW a, Regular(a), NEW m \in 0..K(a), NEW n \in m..K(a), NEW nr, NEW nc, NEW t, Holds(t, a, nr, nc, m),
           n # 0 => nr = R(a) /\ nc = C(a)
    PROVE  LET u == FoldLeft(OnToolCall, t, Slice(Frags(a), m, n))
           IN  Holds(u, a, nr, nc, n) /\ Keeps(u, t, Written)
<1> DEFINE x == Slice(Frags(a), m, n)
           u == FoldLeft(OnToolCall, t, x)
<1>0. IsList(Frags(a)) /\ Len(Frags(a)) = K(a) /\ K(a) \in Nat /\ \A q \in 1..K(a) : Frags(a)[q] = Frag(a, q)
  BY Sizes, FragsAre
<1>1. IsList(x) /\ Len(x) = n - m /\ \A i \in 1..(n - m) : x[i] = Frags(a)[m + i]
  BY <1>0, SliceIs DEF Slice
<1>2. CASE n = 0
  <2>1. Len(x) = 0 /\ m = 0
    BY <1>0, <1>1, <1>2
  <2> HIDE DEF x
  <2>2. PICK h : h[0] = t /\ h[Len(x)] = FoldLeft(OnToolCall, t, x)
    <3>1. IsList(x)
      BY <1>1
    <3> QED BY ONLY <3>1, FoldCalls
  <2>3. u = t
    BY <2>1, <2>2
  <2> HIDE DEF u
  <2>4. Keeps(u, t, Written)
    BY <2>3 DEF Keeps
  <2> QED BY <1>2, <2>1, <2>3, <2>4 DEF u, x
<1>3. CASE n # 0
  <2>1. Take(a.reasoning, nr) = a.reasoning /\ Take(a.content, nc) = a.content
    BY <1>3, TakeIs, RegularIs DEF R, C
  <2>2. Calling(t, a, m)
    <3>1. CASE m = 0
      <4>1. Speaks(t, a.reasoning, StripThinking(a.content))
        BY <2>1, <3>1 DEF Holds
      <4> QED BY <3>1, <4>1 DEF Calling
    <3>2. CASE m # 0
      BY <3>2 DEF Holds
    <3> QED BY <3>1, <3>2
  <2>3. \A i \in 1..Len(x) : x[i] = Frag(a, m + i)
    <3> HIDE DEF x
    <3>1. SUFFICES ASSUME NEW i \in 1..(n - m) PROVE x[i] = Frag(a, m + i)
      BY <1>1
    <3>2. m + i \in 1..K(a)
      BY <1>0
    <3> QED BY <1>0, <1>1, <3>2
  <2>4. m \in Nat /\ m + Len(x) = n /\ m + Len(x) <= Off(a, Len(a.calls))
    BY <1>0, <1>1 DEF K
  <2>5. Callable(a)
    BY RegularIs
  <2> HIDE DEF x
  <2>6. Calling(u, a, m + Len(x)) /\ Keeps(u, t, Written)
    BY <1>1, <2>2, <2>3, <2>4, <2>5, CallsOn
  <2> HIDE DEF u
  <2>7. u.pending = t.pending
    BY <2>6 DEF Keeps, Fields, Written
  <2>8. Calling(u, a, n)
    BY <2>4, <2>6
  <2>9. Holds(u, a, nr, nc, n)
    BY <1>3, <2>7, <2>8 DEF Holds
  <2> QED BY <2>6, <2>9 DEF u, x
<1> QED BY <1>2, <1>3

\* What absorb_terminal has kept.
StopAt(a, l) == IF NF(a) <= l THEN StopReason(a.finish) ELSE Absent
UsageAt(a, l) == IF NF(a) + 1 <= l THEN UsageOf(a.usage) ELSE UsageOf(Absent)

\* The translator after l atoms of the answer, in however many frames.
Progress(t, a, l) ==
    /\ Holds(t, a, NR(a, l), NC(a, l), NQ(a, l))
    /\ t.stop = StopAt(a, l) /\ t.usage = UsageAt(a, l)

\* A bench crossing notes the timings in the last frame it reads.
Like(f, g) ==
    /\ f.type = "data" /\ f.reasoning = g.reasoning /\ f.content = g.content /\ f.calls = g.calls
    /\ f.finish = g.finish /\ f.usage = g.usage

LEMMA Terminal ==
    ASSUME NEW a, Regular(a), NEW k \in 0..(NF(a) + 1), NEW l \in k..(NF(a) + 1)
    PROVE  LET finish == FrameOf(a, k, l).finish
               usage == FrameOf(a, k, l).usage
           IN  /\ StopAt(a, l) = IF finish = Absent THEN StopAt(a, k) ELSE StopReason(finish)
               /\ UsageAt(a, l) = IF usage = Absent THEN UsageAt(a, k) ELSE usage
<1> DEFINE finish == IF k < NF(a) /\ NF(a) <= l THEN a.finish ELSE Absent
           usage == IF k < NF(a) + 1 /\ NF(a) + 1 <= l THEN a.usage ELSE Absent
<1>1. FrameOf(a, k, l).finish = finish /\ FrameOf(a, k, l).usage = usage
  BY DEF FrameOf, Frame
<1>2. k \in Nat /\ l \in Nat /\ k <= l /\ NF(a) \in Nat /\ a.finish # Absent
  BY Sizes, RegularIs
<1>3. StopAt(a, l) = IF finish = Absent THEN StopAt(a, k) ELSE StopReason(finish)
  BY <1>2 DEF StopAt
<1>4. UsageAt(a, l) = IF usage = Absent THEN UsageAt(a, k) ELSE usage
  BY <1>2 DEF UsageAt, UsageOf
<1> QED BY <1>1, <1>3, <1>4

\* A frame of the answer, whatever it merges, and what the agent holds after it.
LEMMA ChunkIs ==
    ASSUME NEW a, Regular(a), NEW k \in 0..(NF(a) + 1), NEW l \in k..(NF(a) + 1), NEW t, Progress(t, a, k),
           NEW f, Like(f, FrameOf(a, k, l))
    PROVE  Progress(OnChunk(t, f), a, l)
<1> DEFINE s0 == Start(t)
           s1 == AbsorbTerminal(s0, f)
           s2 == IF f.reasoning = <<>> THEN s1 ELSE OnThinking(s1, f.reasoning)
           s3 == IF f.content = <<>> THEN s2 ELSE OnText(s2, f.content)
           u == FoldLeft(OnToolCall, s3, f.calls)
           x == Slice(a.reasoning, NR(a, k), NR(a, l))
           y == Slice(a.content, NC(a, k), NC(a, l))
           z == Slice(Frags(a), NQ(a, k), NQ(a, l))
<1>1. OnChunk(t, f) = u
  <2>1. f.type = "data"
    BY DEF Like
  <2>2. ~(f.type \in {"done", "junk"}) /\ f.type # "error"
    BY <2>1
  <2> QED BY <2>2 DEF OnChunk
<1>2. f.reasoning = x /\ f.content = y /\ f.calls = z
  BY DEF Like, FrameOf, Frame, Slice
<1>3. f.finish = FrameOf(a, k, l).finish /\ f.usage = FrameOf(a, k, l).usage
  BY DEF Like
<1>4. /\ NR(a, k) \in 0..R(a) /\ NR(a, l) \in NR(a, k)..R(a)
      /\ NC(a, k) \in 0..C(a) /\ NC(a, l) \in NC(a, k)..C(a)
      /\ NQ(a, k) \in 0..K(a) /\ NQ(a, l) \in NQ(a, k)..K(a)
      /\ NR(a, k) # NR(a, l) => NC(a, k) = 0 /\ NQ(a, k) = 0
      /\ NC(a, k) # NC(a, l) => NQ(a, k) = 0
      /\ NQ(a, l) # 0 => NR(a, l) = R(a) /\ NC(a, l) = C(a)
  BY Counts
<1> HIDE DEF x, y, z
<1>5. Carries(t) /\ Holds(t, a, NR(a, k), NC(a, k), NQ(a, k))
  BY HoldsCarries DEF Progress
<1>6. Same(s0, t) /\ Keeps(s0, t, {"events", "started"}) /\ Carries(s0)
  BY <1>5, StartIs DEF Same
<1>7. /\ Same(s1, s0) /\ Keeps(s1, s0, {"stop", "usage"})
      /\ s1.stop = IF f.finish = Absent THEN s0.stop ELSE StopReason(f.finish)
      /\ s1.usage = IF f.usage = Absent THEN s0.usage ELSE f.usage
  <2> HIDE DEF s0
  <2> QED BY <1>6, AbsorbIs
<1>8. s0.stop = t.stop /\ s0.usage = t.usage /\ s0.pending = t.pending
  <2> HIDE DEF s0
  <2> QED BY <1>6 DEF Keeps, Fields
<1> HIDE DEF s0, s1
<1>9. Same(s1, t) /\ s1.pending = t.pending
  BY <1>6, <1>7, <1>8, SameOn DEF Keeps, Fields
<1>10. s1.stop = StopAt(a, l) /\ s1.usage = UsageAt(a, l)
  <2>1. t.stop = StopAt(a, k) /\ t.usage = UsageAt(a, k)
    BY DEF Progress
  <2> QED BY <1>3, <1>7, <1>8, <2>1, Terminal
<1>11. Holds(s1, a, NR(a, k), NC(a, k), NQ(a, k))
  BY <1>5, <1>9, SameHolds
<1>12. Holds(s2, a, NR(a, l), NC(a, k), NQ(a, k)) /\ Keeps(s2, s1, Written)
  <2>1. s2 = IF x = <<>> THEN s1 ELSE OnThinking(s1, x)
    BY <1>2
  <2>2. x = Slice(a.reasoning, NR(a, k), NR(a, l))
    BY DEF x
  <2> HIDE DEF s2
  <2> QED BY <1>4, <1>11, <2>1, <2>2, ThinkStep
<1> HIDE DEF s2
<1>13. Holds(s3, a, NR(a, l), NC(a, l), NQ(a, k)) /\ Keeps(s3, s2, Written \cup {"pending"})
  <2>1. s3 = IF y = <<>> THEN s2 ELSE OnText(s2, y)
    BY <1>2
  <2>2. y = Slice(a.content, NC(a, k), NC(a, l))
    BY DEF y
  <2> HIDE DEF s3
  <2> QED BY <1>4, <1>12, <2>1, <2>2, TextStep
<1> HIDE DEF s3
<1>14. Holds(u, a, NR(a, l), NC(a, l), NQ(a, l)) /\ Keeps(u, s3, Written)
  <2>1. u = FoldLeft(OnToolCall, s3, z)
    BY <1>2
  <2>2. z = Slice(Frags(a), NQ(a, k), NQ(a, l))
    BY DEF z
  <2> HIDE DEF u
  <2> QED BY <1>4, <1>13, <2>1, <2>2, CallStep
<1> HIDE DEF u
<1>15. u.stop = s1.stop /\ u.usage = s1.usage
  BY <1>12, <1>13, <1>14 DEF Keeps, Fields, Written
<1> QED BY <1>1, <1>10, <1>14, <1>15 DEF Progress

LEMMA FreshIs ==
    ASSUME NEW a, Regular(a)
    PROVE  Progress(FreshTranslator, a, 0)
<1> DEFINE t == FreshTranslator
<1>1. /\ t.events = <<>> /\ t.open = NoBlock /\ t.pending = <<>> /\ t.stop = Absent /\ t.usage = UsageOf(Absent)
      /\ t.next = 0 /\ t.finished = FALSE /\ DOMAIN t = Fields
  BY DEF FreshTranslator, Fields
<1>2. Asm(t) = FreshAssembly
  BY <1>1, FoldAssemblyNone DEF Asm
<1> HIDE DEF t
<1>3. Sound(FreshAssembly) /\ FreshAssembly.content = <<>>
  BY Empty DEF Sound, FreshAssembly, Holding
<1>4. Carries(t) /\ Settled(t) = <<>>
  BY <1>1, <1>2, <1>3, Empty DEF Carries, Settled, Shaped
<1>5. NR(a, 0) = 0 /\ NC(a, 0) = 0 /\ NQ(a, 0) = 0 /\ ~(NF(a) <= 0) /\ ~(NF(a) + 1 <= 0)
  BY Sizes DEF NR, NC, NQ, NF
<1>6. Take(a.reasoning, 0) = <<>> /\ Take(a.content, 0) = <<>>
  BY TakeIs, RegularIs
<1>7. ~Leading(<<>>) /\ Leads(<<>>) /\ ~Withheld(<<>>)
  BY DEF Leading, Leads, Withheld
<1>8. StripThinking(<<>>) = <<>> /\ Pend(<<>>) = <<>>
  BY <1>7, Empty, StripIs DEF Pend
<1>9. Speaks(t, <<>>, <<>>)
  BY <1>1, <1>4 DEF Speaks, KeyOf, Blocks, Reasoned
<1>10. Holds(t, a, 0, 0, 0)
  BY <1>1, <1>6, <1>8, <1>9 DEF Holds
<1>11. t.stop = StopAt(a, 0) /\ t.usage = UsageAt(a, 0)
  BY <1>1, <1>5 DEF StopAt, UsageAt
<1>12. Progress(t, a, 0)
  BY <1>5, <1>10, <1>11 DEF Progress
<1> QED BY <1>12 DEF t

LEMMA FinishIs ==
    ASSUME NEW t, Carries(t), t.stop # Absent
    PROVE  Assemble(Finish(t).events) = [content |-> Settled(t), stop |-> t.stop, usage |-> t.usage]
<1> DEFINE s == Start(t)
           c == CloseBlock(s)
           e == [event |-> "message_delta", stop |-> c.stop, usage |-> c.usage]
           v == Emit(c, e)
           w == Emit(v, [event |-> "message_stop"])
           u == [w EXCEPT !.finished = TRUE]
<1>1. Same(s, t) /\ Keeps(s, t, {"events", "started"}) /\ Carries(s)
  BY StartIs DEF Same
<1>2. /\ Carries(c) /\ Asm(c).content = Settled(s) /\ Keeps(c, s, {"events", "open"})
  <2> HIDE DEF s
  <2> QED BY <1>1, CloseIs
<1>3. c.stop = t.stop /\ c.usage = t.usage /\ t.finished = FALSE
  <2> HIDE DEF c, s
  <2> QED BY <1>1, <1>2 DEF Keeps, Fields, Carries
<1>4. Finish(t) = u
  BY <1>3 DEF Finish
<1> HIDE DEF s, c
<1>5. Shaped(v) /\ Asm(v) = AssembleStep(Asm(c), e)
  BY <1>2, EmitIs DEF Carries
<1>6. AssembleStep(Asm(c), e) = [Asm(c) EXCEPT !.stop = t.stop, !.usage = t.usage]
  BY <1>2, <1>3 DEF AssembleStep, Carries, Sound
<1> HIDE DEF v
<1>7. Shaped(w) /\ Asm(w) = AssembleStep(Asm(v), [event |-> "message_stop"])
  BY <1>5, EmitIs
<1> HIDE DEF w
<1>8. DOMAIN Asm(c) = Holding /\ Asm(c).failed = FALSE /\ Asm(c).content = Settled(t)
  BY <1>1, <1>2 DEF Carries, Sound, Same
<1>9. Asm(v).failed = FALSE /\ Asm(v).content = Settled(t) /\ Asm(v).stop = t.stop /\ Asm(v).usage = t.usage
  BY <1>5, <1>6, <1>8 DEF Holding
<1>10. AssembleStep(Asm(v), [event |-> "message_stop"]) = Asm(v)
  BY <1>9 DEF AssembleStep
<1>11. u.events = w.events
  BY <1>7 DEF Shaped, Fields
<1> HIDE DEF u
<1>12. FoldLeft(AssembleStep, FreshAssembly, u.events) = Asm(v)
  BY <1>7, <1>10, <1>11 DEF Asm
<1>13. Assemble(u.events) = [content |-> Asm(v).content, stop |-> Asm(v).stop, usage |-> Asm(v).usage]
  BY <1>9, <1>12 DEF Assemble
<1> QED BY <1>4, <1>9, <1>13

\* A whole reply as the message that the buffered door makes of it.
LEMMA BufferedIs ==
    ASSUME NEW a, Regular(a)
    PROVE  ToAnthropicResponse(a) = [content |-> Full(a, Len(a.calls)), stop |-> StopReason(a.finish), usage |-> UsageOf(a.usage)]
<1> DEFINE M == Len(a.calls)
           r == a.reasoning
           v == StripThinking(a.content)
<1>0. Callable(a)
  BY RegularIs
<1>1. NonEmpty(Thinking(r)) \o NonEmpty(Text(v)) = Blocks(r, v)
  <2>1. Thinking(r).text = r /\ Text(v).text = v
    BY DEF Thinking, Text
  <2>2. NonEmpty(Thinking(r)) = Reasoned(r)
    BY <2>1 DEF NonEmpty, Reasoned
  <2>3. NonEmpty(Text(v)) = IF v = <<>> THEN <<>> ELSE <<Text(v)>>
    BY <2>1 DEF NonEmpty
  <2>4. IsList(Reasoned(r))
    BY ReasonedList
  <2> HIDE DEF r, v
  <2>5. Reasoned(r) \o <<>> = Reasoned(r)
    BY <2>4, JoinedNone
  <2>6. Reasoned(r) \o <<Text(v)>> = Append(Reasoned(r), Text(v))
    <3>1. Reasoned(r) \in Seq(Range(Reasoned(r)) \cup {Text(v)})
      <4>1. Reasoned(r) \in Seq(Range(Reasoned(r))) /\ Range(Reasoned(r)) \subseteq Range(Reasoned(r)) \cup {Text(v)}
        BY <2>4 DEF IsList
      <4> QED BY <4>1, SeqMonotonic
    <3> QED BY <3>1
  <2> QED BY <2>2, <2>3, <2>5, <2>6 DEF Blocks
<1>2. DOMAIN a.calls = 1..M
  BY <1>0, ListPlaces DEF Callable
<1>3. [i \in DOMAIN a.calls |-> ToolUse(a.calls[i].id, a.calls[i].name, ParseArgs(a.calls[i].args))] = [i \in 1..M |-> Used(a, i)]
  BY <1>2 DEF Used
<1> QED BY <1>1, <1>3 DEF ToAnthropicResponse, Full, Base

\* The whole answer, streamed, is the message the buffered translation makes.
LEMMA StreamedIsBuffered ==
    ASSUME NEW a, Regular(a), NEW t, Progress(t, a, NF(a) + 1)
    PROVE  Assemble(Finish(t).events) = ToAnthropicResponse(a)
<1> DEFINE M == Len(a.calls)
<1>0. R(a) \in Nat /\ C(a) \in Nat /\ K(a) \in Nat /\ NF(a) = R(a) + C(a) + K(a) + 1 /\ Callable(a)
  BY Sizes, RegularIs DEF NF
<1>1. NR(a, NF(a) + 1) = R(a) /\ NC(a, NF(a) + 1) = C(a) /\ NQ(a, NF(a) + 1) = K(a)
  BY <1>0 DEF NR, NC, NQ
<1>2. Holds(t, a, R(a), C(a), K(a)) /\ t.stop = StopReason(a.finish) /\ t.usage = UsageOf(a.usage) /\ t.stop # Absent
  BY <1>0, <1>1, RegularIs DEF Progress, StopAt, UsageAt
<1>3. Take(a.reasoning, R(a)) = a.reasoning /\ Take(a.content, C(a)) = a.content
  BY TakeIs, RegularIs DEF R, C
<1>4. Calling(t, a, K(a))
  BY <1>2, <1>3 DEF Holds, Calling
<1>5. Carries(t) /\ Stands(t, Full(a, M))
  BY <1>0, <1>4, AllCalled DEF K
<1>6. Assemble(Finish(t).events) = [content |-> Full(a, M), stop |-> StopReason(a.finish), usage |-> UsageOf(a.usage)]
  BY <1>2, <1>5, FinishIs DEF Stands
<1> QED BY <1>6, BufferedIs

-----------------------------------------------------------------------------
(* What an agent is told of how its stream went.                           *)

Ending == {"error", "message_stop"}

\* Nothing yet.
Silent(t) == Shaped(t) /\ t.finished = FALSE /\ \A i \in 1..Len(t.events) : t.events[i].event \notin Ending

Heard(t, event) == \E i \in DOMAIN t.events : t.events[i].event = event

\* That it failed.
Aborted(t) == Shaped(t) /\ t.finished /\ Heard(t, "error") /\ ~Heard(t, "message_stop")

LEMMA SilentEmit == ASSUME NEW t, Silent(t), NEW e, e.event \notin Ending PROVE Silent(Emit(t, e))
<1> DEFINE u == Emit(t, e)
<1>1. Shaped(u) /\ Keeps(u, t, {"events"})
  BY EmitIs DEF Silent
<1>2. u.events = Append(t.events, e) /\ IsList(t.events)
  BY DEF Emit, Silent, Shaped, Fields
<1> HIDE DEF u
<1>3. u.finished = FALSE
  BY <1>1 DEF Keeps, Fields, Silent
<1>4. ASSUME NEW i \in 1..Len(u.events) PROVE u.events[i].event \notin Ending
  <2>1. /\ Len(u.events) = Len(t.events) + 1 /\ \A n \in 1..Len(t.events) : u.events[n] = t.events[n]
        /\ u.events[Len(t.events) + 1] = e /\ Len(t.events) \in Nat
    BY <1>2, Appended, ListPlaces
  <2>2. CASE i = Len(t.events) + 1
    BY <2>1, <2>2
  <2>3. CASE i # Len(t.events) + 1
    <3>1. i \in 1..Len(t.events)
      BY <2>1, <2>3
    <3> QED BY <2>1, <3>1 DEF Silent
  <2> QED BY <2>2, <2>3
<1>5. Silent(u)
  BY <1>1, <1>3, <1>4 DEF Silent
<1> QED BY <1>5 DEF u

LEMMA SilentSame ==
    ASSUME NEW t, Silent(t), NEW u, DOMAIN u = Fields, u.events = t.events, u.finished = t.finished
    PROVE  Silent(u)
BY DEF Silent, Shaped

LEMMA SilentStart == ASSUME NEW t, Silent(t) PROVE Silent(Start(t))
<1> DEFINE v == Emit(t, [event |-> "message_start"])
<1>1. Silent(v)
  BY SilentEmit DEF Ending
<1> HIDE DEF v
<1>2. Silent([v EXCEPT !.started = TRUE])
  BY <1>1 DEF Silent, Shaped, Fields
<1>3. Start(t) = t \/ Start(t) = [v EXCEPT !.started = TRUE]
  BY DEF Start, v
<1> QED BY <1>2, <1>3

LEMMA SilentClose == ASSUME NEW t, Silent(t) PROVE Silent(CloseBlock(t))
<1> DEFINE v == Emit(t, [event |-> "content_block_stop", index |-> t.index])
<1>1. Silent(v)
  BY SilentEmit DEF Ending
<1> HIDE DEF v
<1>2. Silent([v EXCEPT !.open = NoBlock])
  BY <1>1 DEF Silent, Shaped, Fields
<1>3. CloseBlock(t) = t \/ CloseBlock(t) = [v EXCEPT !.open = NoBlock]
  BY DEF CloseBlock, v
<1> QED BY <1>2, <1>3

LEMMA SilentOpen == ASSUME NEW t, Silent(t), NEW want, NEW block PROVE Silent(EnsureOpen(t, want, block))
<1> DEFINE c == CloseBlock(t)
           v == Emit(c, [event |-> "content_block_start", index |-> c.next, block |-> block])
           u == [v EXCEPT !.index = c.next, !.next = c.next + 1, !.open = want]
<1>1. Silent(c)
  BY SilentClose
<1>2. EnsureOpen(t, want, block) = t \/ EnsureOpen(t, want, block) = u
  BY DEF EnsureOpen
<1> HIDE DEF c
<1>3. Silent(v)
  BY <1>1, SilentEmit DEF Ending
<1> HIDE DEF v
<1>4. DOMAIN u = Fields /\ u.events = v.events /\ u.finished = v.finished
  BY <1>3 DEF Silent, Shaped, Fields
<1> HIDE DEF u
<1>5. Silent(u)
  BY <1>3, <1>4, SilentSame
<1> QED BY <1>2, <1>5

LEMMA SilentDelta == ASSUME NEW t, Silent(t), NEW kind, NEW x PROVE Silent(Delta(t, kind, x))
BY SilentEmit DEF Delta, Ending

LEMMA SilentText == ASSUME NEW t, Silent(t), NEW x PROVE Silent(EmitText(t, x)) /\ Silent(EmitIfAny(t, x))
BY SilentOpen, SilentDelta DEF EmitText, EmitIfAny

LEMMA SilentOnText == ASSUME NEW t, Silent(t), NEW x PROVE Silent(OnText(t, x))
<1>1. ASSUME NEW p PROVE Silent([t EXCEPT !.pending = p])
  <2>1. DOMAIN [t EXCEPT !.pending = p] = Fields /\ [t EXCEPT !.pending = p].events = t.events
        /\ [t EXCEPT !.pending = p].finished = t.finished
    BY DEF Silent, Shaped, Fields
  <2> QED BY <2>1, SilentSame
<1> DEFINE taken == [t EXCEPT !.pending = <<>>]
<1>2. Silent(taken)
  BY <1>1
<1>3. \/ \E y : OnText(t, x) = EmitText(taken, y)
      \/ \E p : OnText(t, x) = [t EXCEPT !.pending = p]
      \/ \E y, z : OnText(t, x) = EmitIfAny(EmitIfAny(taken, y), z)
  <2> DEFINE buf == t.pending \o x
             open == SelectInSeq(buf, LAMBDA k : k = ThinkOpen)
             rest == SubSeq(buf, open + 1, Len(buf))
             close == SelectInSeq(rest, LAMBDA k : k = ThinkClose)
             y == SubSeq(buf, 1, open - 1)
             z == SubSeq(rest, close + 1, Len(rest))
  <2>1. OnText(t, x) = CASE open = 0 -> EmitText(taken, buf)
                         [] open > 0 /\ close = 0 -> [t EXCEPT !.pending = buf]
                         [] OTHER -> EmitIfAny(EmitIfAny(taken, y), z)
    BY Zenon DEF OnText
  <2> HIDE DEF buf, open, close, y, z, taken
  <2> QED BY <2>1
<1> HIDE DEF taken
<1> QED BY <1>1, <1>2, <1>3, SilentText

LEMMA SilentThinking == ASSUME NEW t, Silent(t), NEW x PROVE Silent(OnThinking(t, x))
BY SilentOpen, SilentDelta DEF OnThinking

LEMMA SilentCall == ASSUME NEW t, Silent(t), NEW call PROVE Silent(OnToolCall(t, call))
BY SilentOpen, SilentDelta DEF OnToolCall

LEMMA SilentCalls == ASSUME NEW t, Silent(t), NEW s, IsList(s) PROVE Silent(FoldLeft(OnToolCall, t, s))
<1>0. Len(s) \in Nat
  BY ListPlaces
<1>1. PICK h : h[0] = t /\ (\A n \in 1..Len(s) : h[n] = OnToolCall(h[n - 1], s[n])) /\ h[Len(s)] = FoldLeft(OnToolCall, t, s)
  BY FoldCalls
<1> DEFINE Bad == {n \in 0..Len(s) : ~Silent(h[n])}
<1>2. Bad = {}
  <2> SUFFICES ASSUME Bad # {} PROVE FALSE
    OBVIOUS
  <2>1. Bad \in SUBSET Nat
    BY <1>0
  <2>2. PICK m \in Bad : \A j \in Bad : m <= j
    BY <2>1, LeastNumber, Zenon
  <2>3. m \in 1..Len(s) /\ m - 1 \in 0..Len(s) /\ ~(m <= m - 1)
    BY <1>0, <1>1
  <2>4. Silent(h[m - 1])
    BY <2>2, <2>3
  <2>5. Silent(h[m])
    BY <1>1, <2>3, <2>4, SilentCall
  <2> QED BY <2>5
<1>3. Silent(h[Len(s)])
  BY <1>0, <1>2
<1> QED BY <1>1, <1>3

\* Nor by any frame that is not an error.
LEMMA SilentChunk ==
    ASSUME NEW t, Silent(t), NEW f, f.type = "data", IsList(f.calls)
    PROVE  Silent(OnChunk(t, f))
<1> DEFINE s0 == Start(t)
           s1 == AbsorbTerminal(s0, f)
           s2 == IF f.reasoning = <<>> THEN s1 ELSE OnThinking(s1, f.reasoning)
           s3 == IF f.content = <<>> THEN s2 ELSE OnText(s2, f.content)
           u == FoldLeft(OnToolCall, s3, f.calls)
<1>1. OnChunk(t, f) = u
  <2>1. ~(f.type \in {"done", "junk"}) /\ f.type # "error"
    OBVIOUS
  <2> QED BY <2>1 DEF OnChunk
<1>2. Silent(s0)
  BY SilentStart
<1> HIDE DEF s0
<1>3. DOMAIN s1 = Fields /\ s1.events = s0.events /\ s1.finished = s0.finished
  BY <1>2 DEF AbsorbTerminal, Silent, Shaped, Fields
<1> HIDE DEF s1
<1>4. Silent(s1)
  BY <1>2, <1>3, SilentSame
<1>5. Silent(s2)
  BY <1>4, SilentThinking
<1> HIDE DEF s2
<1>6. Silent(s3)
  BY <1>5, SilentOnText
<1> HIDE DEF s3
<1> QED BY <1>1, <1>6, SilentCalls

LEMMA SilentFresh == Silent(FreshTranslator)
<1>1. FreshTranslator.events = <<>> /\ FreshTranslator.finished = FALSE /\ DOMAIN FreshTranslator = Fields
  BY DEF FreshTranslator, Fields
<1> QED BY <1>1, Empty DEF Silent, Shaped

\* The end of the body is told as the end, unless there was an error.
LEMMA FinishTells ==
    ASSUME NEW t, Silent(t)
    PROVE  Heard(Finish(t), "message_stop") /\ ~Heard(Finish(t), "error")
<1> DEFINE c == CloseBlock(Start(t))
           e == [event |-> "message_delta", stop |-> IF c.stop = Absent THEN "end_turn" ELSE c.stop, usage |-> c.usage]
           v == Emit(c, e)
           w == Emit(v, [event |-> "message_stop"])
           u == [w EXCEPT !.finished = TRUE]
<1>1. Finish(t) = u
  BY DEF Finish, Silent
<1>2. Silent(c)
  BY SilentStart, SilentClose
<1> HIDE DEF c
<1>3. Silent(v)
  BY <1>2, SilentEmit DEF Ending
<1> HIDE DEF v
<1>4. w.events = Append(v.events, [event |-> "message_stop"]) /\ IsList(v.events) /\ DOMAIN w = Fields
  BY <1>3 DEF Emit, Silent, Shaped, Fields
<1> HIDE DEF w
<1>5. u.events = w.events
  BY <1>4 DEF Fields
<1> HIDE DEF u
<1>6. /\ IsList(u.events) /\ Len(u.events) = Len(v.events) + 1 /\ DOMAIN u.events = 1..Len(u.events)
      /\ \A n \in 1..Len(v.events) : u.events[n] = v.events[n]
      /\ u.events[Len(v.events) + 1] = [event |-> "message_stop"] /\ Len(v.events) \in Nat
  BY <1>4, <1>5, Appended, ListPlaces
<1>7. Heard(u, "message_stop")
  BY <1>6 DEF Heard
<1>8. ASSUME NEW i \in DOMAIN u.events PROVE u.events[i].event # "error"
  <2>1. CASE i = Len(v.events) + 1
    BY <1>6, <2>1
  <2>2. CASE i # Len(v.events) + 1
    <3>1. i \in 1..Len(v.events)
      BY <1>6, <2>2
    <3> QED BY <1>3, <1>6, <3>1 DEF Silent, Ending
  <2> QED BY <2>1, <2>2
<1> QED BY <1>1, <1>7, <1>8 DEF Heard

LEMMA AbortTells ==
    ASSUME NEW t, Silent(t) \/ Aborted(t)
    PROVE  Aborted(Abort(t))
<1> DEFINE NoStop(x) == Shaped(x) /\ ~Heard(x, "message_stop")
<1>1. NoStop(t)
  <2>1. Silent(t) => DOMAIN t.events = 1..Len(t.events)
    BY ListPlaces DEF Silent, Shaped
  <2> QED BY <2>1 DEF Aborted, Silent, Heard, Ending
<1>2. ASSUME NEW x, NoStop(x), NEW e, e.event # "message_stop"
      PROVE  NoStop(Emit(x, e)) /\ Heard(Emit(x, e), e.event)
  <2> DEFINE y == Emit(x, e)
  <2>1. y.events = Append(x.events, e) /\ IsList(x.events) /\ Shaped(y)
    BY <1>2, EmitIs DEF Emit, Shaped, Fields
  <2> HIDE DEF y
  <2>2. /\ IsList(y.events) /\ Len(y.events) = Len(x.events) + 1 /\ DOMAIN y.events = 1..Len(y.events)
        /\ \A n \in 1..Len(x.events) : y.events[n] = x.events[n]
        /\ y.events[Len(x.events) + 1] = e /\ Len(x.events) \in Nat /\ DOMAIN x.events = 1..Len(x.events)
    BY <2>1, Appended, ListPlaces
  <2>3. Heard(y, e.event)
    BY <2>2 DEF Heard
  <2>4. ASSUME NEW i \in DOMAIN y.events PROVE y.events[i].event # "message_stop"
    <3>1. CASE i = Len(x.events) + 1
      BY <1>2, <2>2, <3>1
    <3>2. CASE i # Len(x.events) + 1
      <4>1. i \in DOMAIN x.events /\ y.events[i] = x.events[i]
        BY <2>2, <3>2
      <4> QED BY <1>2, <4>1 DEF Heard
    <3> QED BY <3>1, <3>2
  <2>5. NoStop(y)
    BY <2>1, <2>4 DEF Heard
  <2> QED BY <2>3, <2>5 DEF y
<1>3. ASSUME NEW x, NoStop(x), NEW y, DOMAIN y = Fields, y.events = x.events PROVE NoStop(y)
  BY <1>3 DEF Shaped, Heard
<1>4. ASSUME NEW x, NoStop(x) PROVE DOMAIN x = Fields
  BY <1>4 DEF Shaped
<1> DEFINE s == Start(t)
           c == CloseBlock(s)
           w == Emit(c, [event |-> "error"])
           u == [w EXCEPT !.finished = TRUE]
<1> HIDE DEF NoStop
<1>5. NoStop(s)
  <2> DEFINE v == Emit(t, [event |-> "message_start"])
  <2>1. NoStop(v)
    BY <1>1, <1>2
  <2>2. s = t \/ s = [v EXCEPT !.started = TRUE]
    BY DEF Start
  <2> HIDE DEF v
  <2>3. DOMAIN [v EXCEPT !.started = TRUE] = Fields /\ [v EXCEPT !.started = TRUE].events = v.events
    BY <1>4, <2>1 DEF Fields
  <2>4. NoStop([v EXCEPT !.started = TRUE])
    BY <1>3, <2>1, <2>3
  <2> QED BY <1>1, <2>2, <2>4
<1> HIDE DEF s
<1>6. NoStop(c)
  <2> DEFINE v == Emit(s, [event |-> "content_block_stop", index |-> s.index])
  <2>1. NoStop(v)
    BY <1>2, <1>5
  <2>2. c = s \/ c = [v EXCEPT !.open = NoBlock]
    BY DEF CloseBlock
  <2> HIDE DEF v
  <2>3. DOMAIN [v EXCEPT !.open = NoBlock] = Fields /\ [v EXCEPT !.open = NoBlock].events = v.events
    BY <1>4, <2>1 DEF Fields
  <2>4. NoStop([v EXCEPT !.open = NoBlock])
    BY <1>3, <2>1, <2>3
  <2> QED BY <1>5, <2>2, <2>4
<1>7. Abort(t) = u
  BY DEF Abort, s, c
<1> HIDE DEF c
<1>8. NoStop(w) /\ Heard(w, "error")
  BY <1>2, <1>6
<1> HIDE DEF w
<1>9. DOMAIN u = Fields /\ u.events = w.events /\ u.finished = TRUE
  BY <1>4, <1>8 DEF Fields
<1> HIDE DEF u
<1>10. NoStop(u)
  BY <1>3, <1>8, <1>9
<1>11. Heard(u, "error")
  BY <1>8, <1>9 DEF Heard
<1> QED BY <1>7, <1>9, <1>10, <1>11 DEF NoStop, Aborted

-----------------------------------------------------------------------------
(* The exchange.                                                           *)

LEMMA FrameSent ==
    ASSUME NEW a, Regular(a), NEW k \in 0..(NF(a) + 1), NEW n \in 1..(Len(Atoms(a)) - k), NEW t, Progress(t, a, k)
    PROVE  LET frame == FoldLeft(Merge, Atom, SubSeq(Atoms(a), k + 1, k + n))
           IN  /\ k + n \in 0..(NF(a) + 1)
               /\ Progress(OnChunk(t, frame), a, k + n)
               /\ \A x : Progress(OnChunk(t, [frame EXCEPT !.timings = x]), a, k + n)
               /\ frame.type = "data" /\ IsList(frame.calls)
<1> DEFINE l == k + n
           frame == FoldLeft(Merge, Atom, SubSeq(Atoms(a), k + 1, l))
           g == FrameOf(a, k, l)
<1>1. Len(Atoms(a)) = NF(a) + 1 /\ NF(a) \in Nat
  BY AtomsAre, Sizes
<1>2. l \in k..(NF(a) + 1) /\ l \in 0..(NF(a) + 1)
  BY <1>1
<1> HIDE DEF l
<1>3. frame = g
  BY <1>2, FrameIs
<1> HIDE DEF frame
<1>4. Like(g, g) /\ \A x : Like([g EXCEPT !.timings = x], g)
  BY DEF Like, FrameOf, Frame
<1>5. g.type = "data" /\ IsList(g.calls)
  <2>1. g.type = "data" /\ g.calls = SubSeq(Frags(a), NQ(a, k) + 1, NQ(a, l))
    BY DEF FrameOf, Frame
  <2>2. /\ NQ(a, k) \in 0..Len(Frags(a)) /\ NQ(a, l) \in NQ(a, k)..Len(Frags(a)) /\ IsList(Frags(a))
    BY <1>2, Counts, FragsAre
  <2> QED BY <2>1, <2>2, SliceIs
<1> HIDE DEF g
<1>6. Progress(OnChunk(t, g), a, l)
  BY <1>2, <1>4, ChunkIs DEF g
<1>7. ASSUME NEW x PROVE Progress(OnChunk(t, [g EXCEPT !.timings = x]), a, l)
  BY <1>2, <1>4, ChunkIs DEF g
<1> QED BY <1>2, <1>3, <1>5, <1>6, <1>7 DEF l, frame

Before == {"read", "route", "ready", "cross", "post"}

\* Until the server has answered there is nothing of an answer.
Early ==
    stage \in Before =>
        /\ fate = "none" /\ sent = 0 /\ frames = <<>> /\ tr = FreshTranslator /\ status = Absent

\* What each stage has behind it.
Order ==
    /\ ask \in Asks
    /\ stage \in Before \cup {"reply", "relay", "done"}
    /\ Agent => stage \notin {"ready", "cross"}
    /\ Agent => model = Registered
    /\ Agent /\ stage \in {"read", "route"} => posted = Absent
    /\ Agent /\ stage \in {"route", "post", "reply", "relay"} => Readable(ask.http)
    /\ Agent /\ stage \in {"post", "reply", "relay"} => posted # Absent
    /\ stage \in {"reply", "relay"} => answer \in Answers
    /\ stage = "reply" => ~Streaming /\ fate = "answering" /\ status = Absent
    /\ stage = "relay" => Streaming /\ fate \in {"answering", "errored"} /\ sent \in 0..(NF(answer) + 1)
    /\ stage = "relay" /\ Agent /\ here => status = 200

Reading == IF Agent THEN tr ELSE Translated(frames)

\* What a stream has brought so far.
Streams ==
    stage = "relay" /\ here =>
        /\ fate = "answering" => IsList(frames) /\ Progress(Reading, answer, sent) /\ (Agent => Silent(tr))
        /\ fate = "errored" /\ Agent => Aborted(tr)

\* How an exchange with an agent ends.
Outcome ==
    \/ ~Readable(ask.http) /\ posted = Absent /\ fate = "none" /\ status = 400
    \/ Readable(ask.http) /\ posted = Absent /\ fate = "none" /\ status = LocalStatus
    \/ /\ Readable(ask.http) /\ posted # Absent
       /\ \/ fate \in {"dead", "refused", "no infill"} /\ status = 502
          \/ /\ fate \in {"whole", "cut"} /\ status = 200
             /\ Streaming => Heard(tr, "message_stop") /\ ~Heard(tr, "error")
          \/ fate \in {"errored", "broken"} /\ Streaming /\ Heard(tr, "error") /\ ~Heard(tr, "message_stop")
          \/ fate = "broken" /\ ~Streaming /\ status = Absent

Closing ==
    stage = "done" =>
        /\ fate = "whole" /\ Streaming /\ here => Assemble(Held) = ToAnthropicResponse(answer)
        /\ Agent /\ here => Outcome

IInv == Early /\ Order /\ Streams /\ Closing

LEMMA Answerable == ASSUME NEW a \in Answers PROVE Regular(a)
BY AnswersAssumption

LEMMA StagesDiffer ==
    /\ "read" \in Before /\ "route" \in Before /\ "ready" \in Before /\ "cross" \in Before /\ "post" \in Before
    /\ "reply" \notin Before /\ "relay" \notin Before /\ "done" \notin Before
BY DEF Before

\* The question stays the same, and with it what it decides.
LEMMA Fixed ==
    ASSUME ask' = ask
    PROVE  (Agent' <=> Agent) /\ (Streaming' <=> Streaming) /\ LocalStatus' = LocalStatus
           /\ (Readable(ask.http)' <=> Readable(ask.http))
BY DEF Agent, Streaming, Door, LocalStatus

LEMMA InitIInv == Init => IInv
<1> SUFFICES ASSUME Init PROVE IInv
  OBVIOUS
<1>1. stage \in {"read", "ready"} /\ (Agent => stage = "read")
  BY DEF Init
<1> QED BY <1>1, StagesDiffer DEF Init, IInv, Early, Order, Streams, Closing

LEMMA ReadRequestKeeps == IInv /\ ReadRequest => IInv'
<1> SUFFICES ASSUME IInv, ReadRequest PROVE IInv'
  OBVIOUS
<1>1. /\ stage = "read" /\ ask' = ask
      /\ UNCHANGED <<model, posted, fate, answer, sent, frames, tr, here>>
      /\ \/ Readable(ask.http) /\ stage' = "route" /\ status' = status
         \/ ~Readable(ask.http) /\ stage' = "done" /\ status' = IF here THEN 400 ELSE Absent
  BY DEF ReadRequest, Answer
<1>2. fate = "none" /\ sent = 0 /\ frames = <<>> /\ tr = FreshTranslator /\ status = Absent /\ (Agent => posted = Absent /\ model = Registered)
  BY <1>1, StagesDiffer DEF IInv, Early, Order
<1>3. Early' /\ Streams'
  BY <1>1, <1>2, StagesDiffer DEF Early, Streams
<1>4. Order'
  BY <1>1, <1>2, Fixed, StagesDiffer DEF IInv, Order
<1>5. Closing'
  BY <1>1, <1>2, Fixed DEF Closing, Outcome
<1> QED BY <1>3, <1>4, <1>5 DEF IInv

LEMMA RouteKeeps == IInv /\ Route => IInv'
<1> SUFFICES ASSUME IInv, Route PROVE IInv'
  OBVIOUS
<1>1. /\ stage = "route" /\ ask' = ask
      /\ UNCHANGED <<model, fate, answer, sent, frames, tr, here>>
      /\ \/ posted' = Forwarded(ask.req, model) /\ stage' = "post" /\ status' = status
         \/ stage' = "done" /\ status' = (IF here THEN LocalStatus ELSE Absent) /\ posted' = posted
  BY DEF Route, Answer
<1>2. /\ fate = "none" /\ sent = 0 /\ frames = <<>> /\ tr = FreshTranslator /\ status = Absent
      /\ Agent => posted = Absent /\ model = Registered /\ Readable(ask.http)
  BY <1>1, StagesDiffer DEF IInv, Early, Order
<1>3. Early' /\ Streams'
  BY <1>1, <1>2, StagesDiffer DEF Early, Streams
<1>4. Agent => Forwarded(ask.req, model) # Absent
  <2>1. ask \in Asks /\ (Agent => ask.by = "agent" /\ model = Registered)
    BY <1>2 DEF IInv, Order, Agent
  <2> QED BY <2>1, AbsentAssumption
<1>5. Order'
  BY <1>1, <1>2, <1>4, Fixed, StagesDiffer DEF IInv, Order
<1>6. Closing'
  BY <1>1, <1>2, Fixed DEF Closing, Outcome
<1> QED BY <1>3, <1>5, <1>6 DEF IInv

LEMMA ReadyKeeps == IInv /\ Ready => IInv'
<1> SUFFICES ASSUME IInv, Ready PROVE IInv'
  OBVIOUS
<1>1. /\ stage = "ready" /\ ask' = ask
      /\ UNCHANGED <<posted, fate, answer, sent, frames, tr, here, status>>
      /\ stage' \in {"cross", "done"}
  BY DEF Ready, Record
<1>2. /\ fate = "none" /\ sent = 0 /\ frames = <<>> /\ tr = FreshTranslator /\ status = Absent /\ ~Agent
  BY <1>1, StagesDiffer DEF IInv, Early, Order
<1>3. Early' /\ Streams'
  BY <1>1, <1>2, StagesDiffer DEF Early, Streams
<1>4. Order'
  BY <1>1, <1>2, Fixed, StagesDiffer DEF IInv, Order
<1>5. Closing'
  BY <1>1, <1>2, Fixed DEF Closing
<1> QED BY <1>3, <1>4, <1>5 DEF IInv

LEMMA CrossKeeps == IInv /\ Cross => IInv'
<1> SUFFICES ASSUME IInv, Cross PROVE IInv'
  OBVIOUS
<1>1. /\ stage = "cross" /\ ask' = ask /\ stage' = "post"
      /\ UNCHANGED <<fate, answer, sent, frames, tr, here, status>>
  BY DEF Cross
<1>2. /\ fate = "none" /\ sent = 0 /\ frames = <<>> /\ tr = FreshTranslator /\ status = Absent /\ ~Agent
  BY <1>1, StagesDiffer DEF IInv, Early, Order
<1>3. Early' /\ Streams' /\ Closing'
  BY <1>1, <1>2, StagesDiffer DEF Early, Streams, Closing
<1>4. Order'
  BY <1>1, <1>2, Fixed, StagesDiffer DEF IInv, Order
<1> QED BY <1>3, <1>4 DEF IInv

LEMMA ClientLeavesKeeps == IInv /\ ClientLeaves => IInv'
<1> SUFFICES ASSUME IInv, ClientLeaves PROVE IInv'
  OBVIOUS
<1>1. /\ ask' = ask /\ here' = FALSE
      /\ UNCHANGED <<stage, model, posted, fate, answer, sent, frames, tr, status>>
  BY DEF ClientLeaves
<1>2. Early' /\ Streams' /\ Closing'
  BY <1>1 DEF IInv, Early, Streams, Closing
<1>3. Order'
  BY <1>1, Fixed DEF IInv, Order
<1> QED BY <1>2, <1>3 DEF IInv

LEMMA RefuseKeeps == ASSUME NEW why \in {"dead", "refused", "no infill"} PROVE IInv /\ Refuse(why) => IInv'
<1> SUFFICES ASSUME IInv, Refuse(why) PROVE IInv'
  OBVIOUS
<1>1. /\ stage = "post" /\ ask' = ask /\ fate' = why /\ stage' = "done"
      /\ UNCHANGED <<model, posted, answer, sent, frames, tr, here>>
      /\ Agent => status' = IF here THEN 502 ELSE Absent
  BY DEF Refuse, Answer, Record
<1>2. Agent => posted # Absent /\ Readable(ask.http)
  BY <1>1 DEF IInv, Order
<1>3. Early' /\ Streams'
  BY <1>1, StagesDiffer DEF Early, Streams
<1>4. Order'
  BY <1>1, Fixed, StagesDiffer DEF IInv, Order
<1>5. Closing'
  BY <1>1, <1>2, Fixed DEF Closing, Outcome
<1> QED BY <1>3, <1>4, <1>5 DEF IInv

LEMMA AcceptKeeps == IInv /\ Accept => IInv'
<1> SUFFICES ASSUME IInv, Accept PROVE IInv'
  OBVIOUS
<1>1. /\ stage = "post" /\ ask' = ask /\ fate' = "answering" /\ answer' \in Answers
      /\ UNCHANGED <<model, posted, sent, frames, tr, here>>
      /\ \/ /\ Agent /\ Streaming /\ status' = (IF here THEN 200 ELSE Absent)
            /\ stage' = IF here THEN "relay" ELSE "done"
         \/ /\ ~(Agent /\ Streaming) /\ status' = status
            /\ stage' = IF Streaming THEN "relay" ELSE "reply"
  BY DEF Accept
<1>2. /\ fate = "none" /\ sent = 0 /\ frames = <<>> /\ tr = FreshTranslator /\ status = Absent
      /\ Agent => posted # Absent /\ Readable(ask.http)
  BY <1>1, StagesDiffer DEF IInv, Early, Order
<1>3. Early'
  BY <1>1, StagesDiffer DEF Early
<1>4. Regular(answer') /\ NF(answer') \in Nat
  BY <1>1, Answerable, Sizes
<1>5. Order'
  <2>1. sent' \in 0..(NF(answer') + 1)
    BY <1>1, <1>2, <1>4
  <2>2. NF(answer)' = NF(answer')
    OBVIOUS
  <2> QED BY <1>1, <1>2, <2>1, <2>2, Fixed, StagesDiffer DEF IInv, Order
<1>6. Streams'
  <2>1. Progress(FreshTranslator, answer', 0)
    BY <1>4, FreshIs
  <2>2. Reading' = FreshTranslator
    BY <1>1, <1>2, Fixed, FoldChunksNone DEF Reading
  <2>3. IsList(frames') /\ Silent(tr')
    BY <1>1, <1>2, Empty, SilentFresh
  <2> QED BY <1>1, <1>2, <2>1, <2>2, <2>3 DEF Streams
<1>7. Closing'
  BY <1>1, StagesDiffer DEF Closing
<1> QED BY <1>3, <1>5, <1>6, <1>7 DEF IInv

LEMMA WholeReplyKeeps == IInv /\ WholeReply => IInv'
<1> SUFFICES ASSUME IInv, WholeReply PROVE IInv'
  OBVIOUS
<1>1. /\ stage = "reply" /\ ask' = ask /\ fate' = "whole" /\ stage' = "done"
      /\ UNCHANGED <<model, posted, answer, sent, frames, tr, here>>
      /\ Agent => status' = IF here THEN 200 ELSE Absent
  BY DEF WholeReply, Answer, Record
<1>2. ~Streaming /\ (Agent => posted # Absent /\ Readable(ask.http))
  BY <1>1 DEF IInv, Order
<1>3. Early' /\ Streams'
  BY <1>1, StagesDiffer DEF Early, Streams
<1>4. Order'
  BY <1>1, Fixed, StagesDiffer DEF IInv, Order
<1>5. Closing'
  BY <1>1, <1>2, Fixed DEF Closing, Outcome
<1> QED BY <1>3, <1>4, <1>5 DEF IInv

LEMMA BreakReplyKeeps == IInv /\ BreakReply => IInv'
<1> SUFFICES ASSUME IInv, BreakReply PROVE IInv'
  OBVIOUS
<1>1. /\ stage = "reply" /\ ask' = ask /\ fate' = "broken" /\ stage' = "done"
      /\ UNCHANGED <<model, posted, answer, sent, frames, tr, here, status>>
  BY DEF BreakReply, Record
<1>2. ~Streaming /\ status = Absent /\ (Agent => posted # Absent /\ Readable(ask.http))
  BY <1>1 DEF IInv, Order
<1>3. Early' /\ Streams'
  BY <1>1, StagesDiffer DEF Early, Streams
<1>4. Order'
  BY <1>1, Fixed, StagesDiffer DEF IInv, Order
<1>5. Closing'
  BY <1>1, <1>2, Fixed DEF Closing, Outcome
<1> QED BY <1>3, <1>4, <1>5 DEF IInv

LEMMA SendFrameKeeps == IInv /\ SendFrame => IInv'
<1> SUFFICES ASSUME IInv, SendFrame PROVE IInv'
  OBVIOUS
<1> DEFINE frame(n) == FoldLeft(Merge, Atom, SubSeq(Atoms(answer), sent + 1, sent + n))
<1>1. /\ stage = "relay" /\ fate = "answering" /\ ask' = ask
      /\ UNCHANGED <<model, posted, fate, answer, status, here>>
      /\ \E n \in 1..(Len(Atoms(answer)) - sent) :
           /\ sent' = sent + n
           /\ \E t : IF Agent THEN Relayed(OnChunk(tr, frame(n))) /\ frames' = frames
                     ELSE frames' = Append(frames, [frame(n) EXCEPT !.timings = t]) /\ tr' = tr /\ stage' = stage
  BY DEF SendFrame
<1>2. PICK n \in 1..(Len(Atoms(answer)) - sent) :
           /\ sent' = sent + n
           /\ \E t : IF Agent THEN Relayed(OnChunk(tr, frame(n))) /\ frames' = frames
                     ELSE frames' = Append(frames, [frame(n) EXCEPT !.timings = t]) /\ tr' = tr /\ stage' = stage
  BY <1>1
<1> DEFINE f == frame(n)
<1>3. PICK t : IF Agent THEN Relayed(OnChunk(tr, f)) /\ frames' = frames
               ELSE frames' = Append(frames, [f EXCEPT !.timings = t]) /\ tr' = tr /\ stage' = stage
  BY <1>2
<1>4. stage' \in {"relay", "done"} /\ (~Agent \/ here => stage' = "relay") /\ (Agent /\ here => tr' = OnChunk(tr, f))
  <2> HIDE DEF f, frame
  <2> QED BY <1>1, <1>3 DEF Relayed
<1>5. /\ Regular(answer) /\ sent \in 0..(NF(answer) + 1) /\ Streaming
  BY <1>1, Answerable DEF IInv, Order
<1>6. Len(Atoms(answer)) = NF(answer) + 1 /\ NF(answer) \in Nat
  BY <1>5, AtomsAre, Sizes
<1>7. sent' \in 0..(NF(answer) + 1)
  BY <1>2, <1>5, <1>6
<1>8. Early'
  BY <1>4, StagesDiffer DEF Early
<1>9. Order'
  <2>1. NF(answer)' = NF(answer)
    BY <1>1
  <2> HIDE DEF frame, f
  <2> QED BY <1>1, <1>4, <1>5, <1>7, <2>1, Fixed, StagesDiffer DEF IInv, Order
<1>10. Streams'
  <2> SUFFICES ASSUME here
               PROVE  IsList(frames') /\ Progress(Reading', answer, sent') /\ (Agent => Silent(tr'))
    BY <1>1, Fixed DEF Streams
  <2>1. IsList(frames) /\ Progress(Reading, answer, sent) /\ (Agent => Silent(tr))
    BY <1>1 DEF IInv, Streams
  <2>2. /\ Progress(OnChunk(Reading, f), answer, sent + n)
        /\ Progress(OnChunk(Reading, [f EXCEPT !.timings = t]), answer, sent + n)
        /\ f.type = "data" /\ IsList(f.calls)
    BY <1>2, <1>5, <2>1, FrameSent
  <2> HIDE DEF f, frame
  <2>3. CASE Agent
    <3>1. tr' = OnChunk(tr, f) /\ Reading = tr /\ Reading' = tr' /\ frames' = frames
      BY <1>1, <1>3, <1>4, <2>3, Fixed DEF Reading
    <3> QED BY <1>2, <2>1, <2>2, <2>3, <3>1, SilentChunk
  <2>4. CASE ~Agent
    <3>1. /\ frames' = Append(frames, [f EXCEPT !.timings = t])
          /\ Reading = Translated(frames) /\ Reading' = Translated(frames')
      BY <1>1, <1>3, <2>4, Fixed DEF Reading
    <3>2. IsList(frames')
      BY <2>1, <3>1, Appended
    <3>3. Reading' = OnChunk(Reading, [f EXCEPT !.timings = t])
      BY <2>1, <3>1, FoldChunksMore
    <3> QED BY <1>2, <2>2, <2>4, <3>2, <3>3
  <2> QED BY <2>3, <2>4
<1>11. Closing'
  <2> HIDE DEF frame, f
  <2>1. stage' = "done" => Agent /\ ~here
    BY <1>4
  <2> QED BY <1>1, <2>1, Fixed DEF Closing
<1> QED BY <1>8, <1>9, <1>10, <1>11 DEF IInv

LEMMA SendErrorKeeps == IInv /\ SendError => IInv'
<1> SUFFICES ASSUME IInv, SendError PROVE IInv'
  OBVIOUS
<1>1. /\ stage = "relay" /\ fate = "answering" /\ ask' = ask /\ fate' = "errored"
      /\ UNCHANGED <<model, posted, answer, sent, status, here>>
      /\ IF Agent THEN Relayed(OnChunk(tr, ErrorFrame)) ELSE tr' = tr /\ stage' = stage
  BY DEF SendError
<1>2. stage' \in {"relay", "done"} /\ (~Agent \/ here => stage' = "relay") /\ (Agent /\ here => tr' = OnChunk(tr, ErrorFrame))
  BY <1>1 DEF Relayed
<1>3. OnChunk(tr, ErrorFrame) = Abort(tr)
  <2>1. ErrorFrame.type = "error"
    BY DEF ErrorFrame, Atom
  <2>2. ~(ErrorFrame.type \in {"done", "junk"})
    BY <2>1
  <2> HIDE DEF ErrorFrame
  <2> QED BY <2>1, <2>2 DEF OnChunk
<1>4. Early'
  BY <1>2, StagesDiffer DEF Early
<1>5. Order'
  <2>1. NF(answer)' = NF(answer)
    BY <1>1
  <2> QED BY <1>1, <1>2, <2>1, Fixed, StagesDiffer DEF IInv, Order
<1>6. Streams'
  <2>1. Agent /\ here => Aborted(tr')
    BY <1>1, <1>2, <1>3, AbortTells DEF IInv, Streams
  <2> QED BY <1>1, <2>1, Fixed DEF Streams
<1>7. Closing'
  BY <1>1, <1>2, Fixed DEF Closing
<1> QED BY <1>4, <1>5, <1>6, <1>7 DEF IInv

LEMMA EndStreamKeeps == IInv /\ EndStream => IInv'
<1> SUFFICES ASSUME IInv, EndStream PROVE IInv'
  OBVIOUS
<1>1. /\ stage = "relay" /\ ask' = ask /\ stage' = "done"
      /\ fate' = (IF fate = "errored" THEN fate ELSE IF sent = Len(Atoms(answer)) THEN "whole" ELSE "cut")
      /\ UNCHANGED <<model, posted, answer, sent, frames, status, here>>
      /\ Agent /\ here => tr' = Finish(tr)
  BY DEF EndStream, Record
<1>2. /\ Streaming /\ fate \in {"answering", "errored"} /\ Regular(answer)
      /\ Agent => posted # Absent /\ Readable(ask.http)
      /\ Agent /\ here => status = 200
  BY <1>1, Answerable DEF IInv, Order
<1>3. Early' /\ Streams'
  BY <1>1, StagesDiffer DEF Early, Streams
<1>4. Order'
  BY <1>1, Fixed, StagesDiffer DEF IInv, Order
<1>5. ASSUME fate' = "whole", here PROVE Assemble(Held') = ToAnthropicResponse(answer)
  <2>1. fate = "answering" /\ sent = NF(answer) + 1
    BY <1>1, <1>2, <1>5, AtomsAre
  <2>2. Progress(Reading, answer, NF(answer) + 1)
    BY <1>1, <1>5, <2>1 DEF IInv, Streams
  <2>3. Held' = Finish(Reading).events
    BY <1>1, <1>5, Fixed DEF Held, Reading
  <2> QED BY <1>2, <2>2, <2>3, StreamedIsBuffered
<1>6. ASSUME Agent, here PROVE Outcome'
  <2>1. CASE fate = "errored"
    <3>1. Aborted(tr)
      BY <1>1, <1>6, <2>1 DEF IInv, Streams
    <3>2. Finish(tr) = tr
      BY <3>1 DEF Finish, Aborted
    <3>3. Heard(tr', "error") /\ ~Heard(tr', "message_stop")
      BY <1>1, <1>6, <3>1, <3>2 DEF Aborted
    <3> QED BY <1>1, <1>2, <1>6, <2>1, <3>3, Fixed DEF Outcome
  <2>2. CASE fate = "answering"
    <3>1. Silent(tr)
      BY <1>1, <1>6, <2>2 DEF IInv, Streams
    <3>2. Heard(tr', "message_stop") /\ ~Heard(tr', "error")
      BY <1>1, <1>6, <3>1, FinishTells
    <3>3. fate' \in {"whole", "cut"}
      BY <1>1, <2>2
    <3> QED BY <1>1, <1>2, <1>6, <3>2, <3>3, Fixed DEF Outcome
  <2> QED BY <1>2, <2>1, <2>2
<1>7. Closing'
  <2>1. Assemble(Held') = Assemble(Held)' /\ ToAnthropicResponse(answer)' = ToAnthropicResponse(answer)
    BY <1>1
  <2> QED BY <1>1, <1>5, <1>6, <2>1, Fixed DEF Closing
<1> QED BY <1>3, <1>4, <1>7 DEF IInv

LEMMA BreakStreamKeeps == IInv /\ BreakStream => IInv'
<1> SUFFICES ASSUME IInv, BreakStream PROVE IInv'
  OBVIOUS
<1>1. /\ stage = "relay" /\ ask' = ask /\ stage' = "done" /\ fate' = "broken"
      /\ UNCHANGED <<model, posted, answer, sent, frames, status, here>>
      /\ Agent /\ here => tr' = Abort(tr)
  BY DEF BreakStream, Record
<1>2. /\ Streaming /\ fate \in {"answering", "errored"}
      /\ Agent => posted # Absent /\ Readable(ask.http)
  BY <1>1 DEF IInv, Order
<1>3. Early' /\ Streams'
  BY <1>1, StagesDiffer DEF Early, Streams
<1>4. Order'
  BY <1>1, Fixed, StagesDiffer DEF IInv, Order
<1>5. ASSUME Agent, here PROVE Outcome'
  <2>1. Silent(tr) \/ Aborted(tr)
    BY <1>1, <1>2, <1>5 DEF IInv, Streams
  <2>2. Aborted(tr')
    BY <1>1, <1>5, <2>1, AbortTells
  <2>3. Heard(tr', "error") /\ ~Heard(tr', "message_stop")
    BY <2>2 DEF Aborted
  <2> QED BY <1>1, <1>2, <1>5, <2>3, Fixed DEF Outcome
<1>6. Closing'
  BY <1>1, <1>5, Fixed DEF Closing
<1> QED BY <1>3, <1>4, <1>6 DEF IInv

LEMMA StutterKeeps == IInv /\ UNCHANGED vars => IInv'
<1> SUFFICES ASSUME IInv, UNCHANGED vars PROVE IInv'
  OBVIOUS
<1>1. /\ ask' = ask /\ stage' = stage /\ model' = model /\ posted' = posted /\ fate' = fate /\ answer' = answer
      /\ sent' = sent /\ frames' = frames /\ tr' = tr /\ status' = status /\ here' = here
  BY DEF vars
<1>2. Early' /\ Streams'
  BY <1>1, Fixed DEF IInv, Early, Streams, Reading
<1>3. Order'
  BY <1>1, Fixed DEF IInv, Order
<1>4. Outcome' <=> Outcome
  <2>1. /\ Readable(ask.http)' <=> Readable(ask.http)
        /\ Heard(tr, "error")' <=> Heard(tr, "error")
        /\ Heard(tr, "message_stop")' <=> Heard(tr, "message_stop")
    BY <1>1
  <2>2. LocalStatus' = LocalStatus /\ (Streaming' <=> Streaming)
    BY <1>1, Fixed
  <2> DEFINE Refused == ~Readable(ask.http) /\ posted = Absent /\ fate = "none" /\ status = 400
             Local == Readable(ask.http) /\ posted = Absent /\ fate = "none" /\ status = LocalStatus
             Unreached == fate \in {"dead", "refused", "no infill"} /\ status = 502
             Ended == /\ fate \in {"whole", "cut"} /\ status = 200
                      /\ Streaming => Heard(tr, "message_stop") /\ ~Heard(tr, "error")
             Broken == fate \in {"errored", "broken"} /\ Streaming /\ Heard(tr, "error") /\ ~Heard(tr, "message_stop")
             Lost == fate = "broken" /\ ~Streaming /\ status = Absent
             Reached == Readable(ask.http) /\ posted # Absent /\ (Unreached \/ Ended \/ Broken \/ Lost)
  <2>3. Refused' <=> Refused
    BY <1>1, <2>1
  <2>4. Local' <=> Local
    BY <1>1, <2>1, <2>2
  <2>5. Reached' <=> Reached
    <3>1. Unreached' <=> Unreached
      BY <1>1
    <3>2. Ended' <=> Ended
      BY <1>1, <2>1, <2>2
    <3>3. Broken' <=> Broken
      BY <1>1, <2>1, <2>2
    <3>4. Lost' <=> Lost
      BY <1>1, <2>2
    <3> HIDE DEF Unreached, Ended, Broken, Lost
    <3> QED BY <1>1, <2>1, <3>1, <3>2, <3>3, <3>4
  <2>6. Outcome <=> Refused \/ Local \/ Reached
    BY DEF Outcome
  <2>7. Outcome' <=> Refused' \/ Local' \/ Reached'
    BY DEF Outcome
  <2> HIDE DEF Refused, Local, Reached, Unreached, Ended, Broken, Lost
  <2> QED BY <2>3, <2>4, <2>5, <2>6, <2>7
<1>5. Held' = Held
  BY <1>1, Fixed DEF Held
<1>6. Closing'
  <2>1. Assemble(Held)' = Assemble(Held) /\ ToAnthropicResponse(answer)' = ToAnthropicResponse(answer)
    BY <1>1, <1>5
  <2> QED BY <1>1, <1>4, <2>1, Fixed DEF IInv, Closing
<1> QED BY <1>2, <1>3, <1>6 DEF IInv

LEMMA NextKeeps == IInv /\ [Next]_vars => IInv'
<1>1. \A why \in {"dead", "refused", "no infill"} : IInv /\ Refuse(why) => IInv'
  BY RefuseKeeps
<1> HIDE DEF IInv
<1>2. Done => UNCHANGED vars
  BY DEF Done
<1> QED BY <1>1, <1>2, ReadRequestKeeps, RouteKeeps, ReadyKeeps, CrossKeeps, ClientLeavesKeeps, AcceptKeeps,
           WholeReplyKeeps, BreakReplyKeeps, SendFrameKeeps, SendErrorKeeps, EndStreamKeeps, BreakStreamKeeps, StutterKeeps
        DEF Next

LEMMA IInvAlways == Spec => []IInv
BY InitIInv, NextKeeps, PTL DEF Spec

-----------------------------------------------------------------------------
(* What a grade reads of a message.                                        *)

LEMMA Squeezed ==
    ASSUME NEW x \in Nat, NEW y \in Nat, NEW z \in Nat, x <= y, y <= z
    PROVE  (z <= x => x = y) /\ (z <= y => z = y)
OBVIOUS

\* The blocks of a type, when they stand together.
LEMMA OfTypeIs ==
    ASSUME NEW s, IsList(s), NEW ty, NEW m \in 0..Len(s), NEW n \in m..Len(s),
           \A i \in 1..Len(s) : s[i].type = ty <=> i \in (m + 1)..n
    PROVE  OfType(s, ty) = SubSeq(s, m + 1, n)
<1> DEFINE w == [i \in DOMAIN s |-> IF s[i].type = ty THEN <<s[i]>> ELSE <<>>]
           at(k) == IF k <= m THEN m ELSE IF k <= n THEN k ELSE n
<1>0. Len(s) \in Nat /\ DOMAIN s = 1..Len(s) /\ m \in Nat /\ n \in Nat /\ m <= n /\ n <= Len(s)
  BY ListPlaces
<1>1. IsList(w) /\ Len(w) = Len(s)
  <2>1. w = [i \in 1..Len(s) |-> w[i]]
    BY <1>0
  <2> HIDE DEF w
  <2> QED BY <1>0, <2>1, Built
<1>2. ASSUME NEW k \in 1..Len(s) PROVE w[k] = IF k \in (m + 1)..n THEN <<s[k]>> ELSE <<>>
  BY <1>0, <1>2
<1>3. OfType(s, ty) = Flat(w)
  BY DEF OfType
<1> HIDE DEF w
<1>4. PICK h : h[0] = <<>> /\ (\A k \in 1..Len(s) : h[k] = h[k - 1] \o w[k]) /\ h[Len(s)] = Flat(w)
  <2>1. \E h : h[0] = <<>> /\ (\A k \in 1..Len(w) : h[k] = h[k - 1] \o w[k]) /\ h[Len(w)] = Flat(w)
    BY <1>1, FoldFlat
  <2> QED BY <1>1, <2>1
<1> DEFINE part(k) == SubSeq(s, m + 1, at(k))
           Bad == {k \in 0..Len(s) : h[k] # part(k)}
<1>5. ASSUME NEW k \in 1..Len(s), h[k - 1] = part(k - 1) PROVE h[k] = part(k)
  <2>1. k \in Nat /\ k - 1 \in Nat /\ h[k] = h[k - 1] \o w[k]
    <3>1. k \in Nat /\ k - 1 \in Nat
      BY <1>0
    <3> QED BY <1>4, <3>1, Zenon
  <2>2. CASE k \in (m + 1)..n
    <3>1. at(k) = k /\ at(k - 1) = k - 1 /\ k - 1 \in m..Len(s) /\ (k - 1) + 1 = k /\ (k - 1) + 1 <= Len(s)
      BY <1>0, <2>2
    <3>2. SubSeq(s, m + 1, (k - 1) + 1) = SubSeq(s, m + 1, k - 1) \o <<s[(k - 1) + 1]>>
      BY <3>1, SliceOn
    <3>3. w[k] = <<s[k]>>
      BY <1>2, <2>2
    <3>4. part(k) = SubSeq(s, m + 1, k) /\ part(k - 1) = SubSeq(s, m + 1, k - 1)
      BY <3>1
    <3> HIDE DEF part
    <3> QED BY <1>5, <2>1, <3>1, <3>2, <3>3, <3>4
  <2>3. CASE k \notin (m + 1)..n
    <3>1. at(k) = at(k - 1) /\ at(k) \in m..Len(s)
      BY <1>0, <2>3
    <3>2. w[k] = <<>>
      BY <1>2, <2>3
    <3>3. part(k) = part(k - 1)
      BY <3>1
    <3>4. IsList(part(k))
      BY <3>1, SliceIs
    <3> HIDE DEF part
    <3>5. part(k) \o <<>> = part(k)
      BY <3>4, JoinedNone
    <3> QED BY <1>5, <2>1, <3>2, <3>3, <3>5
  <2> QED BY <2>2, <2>3
<1>6. h[0] = part(0)
  <2>1. at(0) = m
    BY <1>0
  <2> QED BY <1>4, <2>1, NoSlice
<1>7. part(Len(s)) = SubSeq(s, m + 1, n)
  <2>1. (Len(s) <= m => m = n) /\ (Len(s) <= n => Len(s) = n)
    BY <1>0, Squeezed
  <2>2. at(Len(s)) = n
    BY <2>1
  <2> QED BY <2>2
<1> HIDE DEF part
<1>8. Bad = {}
  <2> SUFFICES ASSUME Bad # {} PROVE FALSE
    OBVIOUS
  <2>1. PICK k \in Bad : \A j \in Bad : k <= j
    <3>1. Bad \in SUBSET Nat
      BY <1>0
    <3> QED BY <3>1, LeastNumber
  <2>2. k # 0
    BY <1>6, <2>1
  <2>3. k \in 1..Len(s) /\ k - 1 \in 0..Len(s) /\ ~(k <= k - 1)
    BY <1>0, <2>1, <2>2
  <2>4. h[k - 1] = part(k - 1)
    BY <2>1, <2>3
  <2> QED BY <1>5, <2>1, <2>3, <2>4
<1>9. h[Len(s)] = part(Len(s))
  BY <1>0, <1>8
<1> QED BY <1>3, <1>4, <1>7, <1>9

LEMMA StrippedList == ASSUME NEW c, IsList(c), Leads(c) PROVE IsList(StripThinking(c))
<1>1. CASE ~Leading(c)
  BY <1>1, StripIs
<1>2. CASE Withheld(c)
  BY <1>2, StripIs, Empty
<1>3. CASE Leading(c) /\ ~Withheld(c)
  <2>1. PICK d : Closes(c, d)
    BY <1>3, FirstCloseIs
  <2>2. StripThinking(c) = SubSeq(c, d + 1, Len(c)) /\ IsList(SubSeq(c, d + 1, Len(c)))
    BY <1>3, <2>1, StripIs, AfterSpan
  <2> QED BY <2>2
<1> QED BY <1>1, <1>2, <1>3 DEF Withheld

\* A message: its reasoning, then its text, then its calls, as far as there are any.
Laid(s, a, m, n) ==
    LET M == Len(a.calls)
        v == StripThinking(a.content)
    IN  /\ IsList(s) /\ Len(s) = n + M /\ M \in Nat /\ m \in 0..1 /\ n \in m..2
        /\ m = (IF a.reasoning = <<>> THEN 0 ELSE 1)
        /\ n = (IF v = <<>> THEN m ELSE m + 1)
        /\ \A i \in 1..m : s[i] = Thinking(a.reasoning)
        /\ \A i \in (m + 1)..n : s[i] = Text(v)
        /\ \A i \in 1..M : s[n + i] = Used(a, i)

LEMMA LaidOut ==
    ASSUME NEW a, Regular(a)
    PROVE  \E m, n : Laid(Full(a, Len(a.calls)), a, m, n)
<1> DEFINE M == Len(a.calls)
           v == StripThinking(a.content)
           r == a.reasoning
           m == IF r = <<>> THEN 0 ELSE 1
           n == IF v = <<>> THEN m ELSE m + 1
           f == Reasoned(r)
           b == Blocks(r, v)
           c == [i \in 1..M |-> Used(a, i)]
           s == Full(a, M)
<1>0. M \in Nat
  BY RegularIs, ListPlaces DEF Callable
<1>1. IsList(f) /\ Len(f) = m /\ \A i \in 1..m : f[i] = Thinking(r)
  <2>1. /\ IsList(Append(<<>>, Thinking(r))) /\ Len(Append(<<>>, Thinking(r))) = 0 + 1
        /\ Append(<<>>, Thinking(r))[0 + 1] = Thinking(r)
    BY Empty, Appended
  <2>2. CASE r = <<>>
    BY <2>2, Empty DEF Reasoned
  <2>3. CASE r # <<>>
    <3>1. f = Append(<<>>, Thinking(r)) /\ m = 1
      BY <2>3 DEF Reasoned
    <3> HIDE DEF f, m
    <3>2. \A i \in 1..m : i = 0 + 1
      BY <3>1
    <3> QED BY <2>1, <3>1, <3>2
  <2> QED BY <2>2, <2>3
<1>2. m \in 0..1 /\ m \in Nat /\ n \in m..2 /\ n \in Nat
  OBVIOUS
<1> HIDE DEF f, m
<1>3. /\ IsList(b) /\ Len(b) = n
      /\ \A i \in 1..m : b[i] = Thinking(r)
      /\ \A i \in (m + 1)..n : b[i] = Text(v)
  <2>1. CASE v = <<>>
    <3>1. b = f /\ n = m
      BY <2>1 DEF Blocks, f
    <3> HIDE DEF b, n
    <3> QED BY <1>1, <1>2, <3>1
  <2>2. CASE v # <<>>
    <3>1. b = Append(f, Text(v)) /\ n = m + 1
      BY <2>2 DEF Blocks, f
    <3> HIDE DEF b, n
    <3>2. /\ IsList(b) /\ Len(b) = m + 1
          /\ \A i \in 1..m : b[i] = f[i]
          /\ b[m + 1] = Text(v)
      BY <1>1, <3>1, Appended
    <3>3. \A i \in (m + 1)..n : i = m + 1
      BY <1>2, <3>1
    <3> QED BY <1>1, <3>1, <3>2, <3>3
  <2> QED BY <2>1, <2>2
<1> HIDE DEF b
<1>4. IsList(c) /\ Len(c) = M /\ \A i \in 1..M : c[i] = Used(a, i)
  <2>1. c = [i \in 1..M |-> c[i]] /\ \A i \in 1..M : c[i] = Used(a, i)
    OBVIOUS
  <2> HIDE DEF c
  <2> QED BY <1>0, <2>1, Built
<1>5. s = b \o c
  BY DEF Full, Base, b
<1> HIDE DEF c, s, n
<1>6. /\ IsList(s) /\ Len(s) = n + M
      /\ \A i \in 1..n : s[i] = b[i]
      /\ \A i \in 1..M : s[n + i] = c[i]
  <2>1. IsList(b) /\ IsList(c)
    BY <1>3, <1>4
  <2>2. /\ IsList(b \o c) /\ Len(b \o c) = Len(b) + Len(c)
        /\ \A i \in 1..Len(b) : (b \o c)[i] = b[i]
        /\ \A i \in 1..Len(c) : (b \o c)[Len(b) + i] = c[i]
    BY <2>1, Joined
  <2>3. Len(b) = n /\ Len(c) = M
    BY <1>3, <1>4
  <2> QED BY <1>5, <2>2, <2>3
<1>7. Laid(s, a, m, n)
  <2>1. \A i \in 1..m : s[i] = Thinking(r)
    BY <1>2, <1>3, <1>6
  <2>2. \A i \in (m + 1)..n : s[i] = Text(v)
    BY <1>2, <1>3, <1>6
  <2>3. \A i \in 1..M : s[n + i] = Used(a, i)
    BY <1>4, <1>6
  <2>4. m = (IF r = <<>> THEN 0 ELSE 1) /\ n = (IF v = <<>> THEN m ELSE m + 1)
    BY DEF m, n
  <2> QED BY <1>0, <1>2, <1>6, <2>1, <2>2, <2>3, <2>4 DEF Laid
<1> QED BY <1>7 DEF s

\* The types of the blocks.
LEMMA TypesAre ==
    /\ \A x : Thinking(x).type = "thinking" /\ Thinking(x).text = x
    /\ \A x : Text(x).type = "text" /\ Text(x).text = x
    /\ \A a, i : /\ Used(a, i).type = "tool_use" /\ Used(a, i).name = a.calls[i].name
                 /\ Used(a, i).input = ParseArgs(a.calls[i].args)
BY DEF Thinking, Text, Used, ToolUse

LEMMA TypePlaces ==
    ASSUME NEW a, NEW s, NEW m, NEW n, Laid(s, a, m, n), NEW i \in 1..Len(s)
    PROVE  /\ s[i].type = "text" <=> i \in (m + 1)..n
           /\ s[i].type = "tool_use" <=> i \in (n + 1)..Len(s)
<1> DEFINE M == Len(a.calls)
<1>0. Len(s) = n + M /\ M \in Nat /\ m \in Nat /\ n \in Nat /\ m <= n /\ i \in Nat
  BY DEF Laid
<1>1. CASE i \in 1..m
  <2>1. s[i].type = "thinking"
    BY <1>1, TypesAre DEF Laid
  <2> QED BY <1>0, <1>1, <2>1
<1>2. CASE i \in (m + 1)..n
  <2>1. s[i].type = "text"
    BY <1>2, TypesAre DEF Laid
  <2> QED BY <1>0, <1>2, <2>1
<1>3. CASE i > n
  <2>1. i - n \in 1..M /\ n + (i - n) = i
    BY <1>0, <1>3
  <2>2. s[n + (i - n)] = Used(a, i - n)
    BY <2>1 DEF Laid
  <2>3. s[i].type = "tool_use"
    BY <2>1, <2>2, TypesAre
  <2> QED BY <1>0, <1>3, <2>3
<1> QED BY <1>0, <1>1, <1>2, <1>3

\* What a grade finds in the message of an answer.
LEMMA MessageHas ==
    ASSUME NEW a, Regular(a)
    PROVE  LET s == ToAnthropicResponse(a).content
               M == Len(a.calls)
               v == StripThinking(a.content)
           IN  /\ OfType(s, "text") = IF v = <<>> THEN <<>> ELSE <<Text(v)>>
               /\ OfType(s, "tool_use") = [i \in 1..M |-> Used(a, i)]
               /\ s = <<>> => v = <<>>
               /\ s # <<>> =>
                    /\ Head(s).type = "text" <=> a.reasoning = <<>> /\ v # <<>>
                    /\ Head(s).type = "text" => Head(s).text = v
<1> DEFINE M == Len(a.calls)
           v == StripThinking(a.content)
           s == Full(a, M)
<1>1. ToAnthropicResponse(a).content = s
  BY BufferedIs
<1>2. PICK m, n : Laid(s, a, m, n)
  BY LaidOut
<1> HIDE DEF s
<1>3. /\ IsList(s) /\ Len(s) = n + M /\ M \in Nat /\ m \in Nat /\ n \in Nat
      /\ m \in 0..Len(s) /\ n \in m..Len(s) /\ n \in 0..Len(s) /\ Len(s) \in n..Len(s)
  <2>1. IsList(s) /\ Len(s) = n + M /\ M \in Nat /\ m \in 0..1 /\ n \in m..2
    BY <1>2 DEF Laid
  <2>2. m \in Nat /\ n \in Nat /\ m <= n
    BY <2>1
  <2>3. n + M \in Nat /\ n <= n + M
    BY <2>1, <2>2
  <2> QED BY <2>1, <2>2, <2>3
<1>4. OfType(s, "text") = SubSeq(s, m + 1, n)
  <2>1. \A i \in 1..Len(s) : s[i].type = "text" <=> i \in (m + 1)..n
    BY <1>2, TypePlaces
  <2> QED BY <1>3, <2>1, OfTypeIs
<1>5. OfType(s, "tool_use") = SubSeq(s, n + 1, Len(s))
  <2>1. \A i \in 1..Len(s) : s[i].type = "tool_use" <=> i \in (n + 1)..Len(s)
    BY <1>2, TypePlaces
  <2> QED BY <1>3, <2>1, OfTypeIs
<1>6. SubSeq(s, m + 1, n) = IF v = <<>> THEN <<>> ELSE <<Text(v)>>
  <2>1. CASE v = <<>>
    <3>1. n = m
      BY <1>2, <2>1 DEF Laid
    <3> QED BY <1>3, <2>1, <3>1, NoSlice
  <2>2. CASE v # <<>>
    <3> DEFINE u == SubSeq(s, m + 1, n)
    <3>1. n = m + 1 /\ m + 1 \in (m + 1)..n /\ s[m + 1] = Text(v)
      <4>1. n = m + 1
        BY <1>2, <2>2 DEF Laid
      <4>2. m + 1 \in (m + 1)..n
        BY <1>3, <4>1
      <4> QED BY <1>2, <4>1, <4>2 DEF Laid
    <3>2. IsList(u) /\ Len(u) = n - m /\ \A i \in 1..(n - m) : u[i] = s[m + i]
      BY <1>3, SliceIs
    <3> HIDE DEF u
    <3>3. IsList(u) /\ Len(u) = 1 /\ u[1] = Text(v)
      <4>1. n - m = 1 /\ 1 \in 1..(n - m)
        BY <1>3, <3>1
      <4> QED BY <3>1, <3>2, <4>1
    <3>4. IsList(<<Text(v)>>) /\ Len(<<Text(v)>>) = 1 /\ <<Text(v)>>[1] = Text(v)
      BY One
    <3>5. \A i \in 1..1 : i = 1
      OBVIOUS
    <3>6. u = <<Text(v)>>
      <4> DEFINE w == <<Text(v)>>
      <4> HIDE DEF w
      <4>1. IsList(u) /\ IsList(w) /\ Len(u) = Len(w) /\ \A i \in 1..Len(u) : u[i] = w[i]
        BY <3>3, <3>4, <3>5 DEF w
      <4>2. u = w
        BY <4>1, Alike
      <4> QED BY <4>2 DEF w
    <3> QED BY <2>2, <3>6 DEF u
  <2> QED BY <2>1, <2>2
<1>7. SubSeq(s, n + 1, Len(s)) = [i \in 1..M |-> Used(a, i)]
  <2> DEFINE u == SubSeq(s, n + 1, Len(s))
             w == [i \in 1..M |-> Used(a, i)]
  <2>1. IsList(u) /\ Len(u) = Len(s) - n /\ \A i \in 1..(Len(s) - n) : u[i] = s[n + i]
    BY <1>3, SliceIs
  <2>2. w = [i \in 1..M |-> w[i]] /\ \A i \in 1..M : w[i] = Used(a, i)
    OBVIOUS
  <2> HIDE DEF u, w
  <2>3. IsList(w) /\ Len(w) = M
    BY <1>3, <2>2, Built
  <2>4. Len(s) - n = M
    BY <1>3
  <2>5. \A i \in 1..M : s[n + i] = Used(a, i)
    BY <1>2 DEF Laid
  <2>6. \A i \in 1..Len(u) : u[i] = w[i]
    BY <2>1, <2>2, <2>4, <2>5
  <2>7. u = w
    BY <2>1, <2>3, <2>4, <2>6, Alike
  <2> QED BY <2>7 DEF u, w
<1>8. s = <<>> => v = <<>>
  <2> SUFFICES ASSUME s = <<>>, v # <<>> PROVE FALSE
    OBVIOUS
  <2>1. Len(s) = 0 /\ n = m + 1
    BY <1>2, Empty DEF Laid
  <2> QED BY <1>3, <2>1
<1>9. ASSUME s # <<>>
      PROVE  /\ Head(s).type = "text" <=> a.reasoning = <<>> /\ v # <<>>
             /\ Head(s).type = "text" => Head(s).text = v
  <2>1. Head(s) = s[1] /\ 1 \in 1..Len(s)
    <3>1. Len(s) # 0 /\ 1 \in 1..Len(s)
      BY <1>3, <1>9, NoneLeft
    <3>2. s \in Seq(Range(s))
      BY <1>3 DEF IsList
    <3> QED BY <1>9, <3>1, <3>2, HeadTailProperties
  <2>2. s[1].type = "text" <=> 1 \in (m + 1)..n
    BY <1>2, <2>1, TypePlaces
  <2>3. 1 \in (m + 1)..n <=> m = 0 /\ n = 1
    BY <1>2, <1>3 DEF Laid
  <2>4. m = 0 /\ n = 1 <=> a.reasoning = <<>> /\ v # <<>>
    BY <1>2 DEF Laid
  <2>5. 1 \in (m + 1)..n => s[1] = Text(v)
    BY <1>2 DEF Laid
  <2> QED BY <2>1, <2>2, <2>3, <2>4, <2>5, TypesAre
<1> QED BY <1>1, <1>4, <1>5, <1>6, <1>7, <1>8, <1>9

LEMMA ArtifactIs ==
    ASSUME NEW a, Regular(a)
    PROVE  ArtifactText(ToAnthropicResponse(a)) = StripThinking(a.content)
<1> DEFINE v == StripThinking(a.content)
           m == ToAnthropicResponse(a)
           texts == OfType(m.content, "text")
           w == [i \in DOMAIN texts |-> IF i = 1 THEN texts[i].text ELSE <<NewLine>> \o texts[i].text]
<1>1. texts = IF v = <<>> THEN <<>> ELSE <<Text(v)>>
  BY MessageHas
<1>2. IsList(v)
  BY RegularIs, StrippedList
<1>3. ArtifactText(m) = Flat(w)
  BY DEF ArtifactText
<1> HIDE DEF v, texts
<1>4. CASE v = <<>>
  <2>1. w = <<>>
    <3>1. DOMAIN texts = {} /\ DOMAIN <<>> = {}
      BY <1>1, <1>4
    <3> QED BY <3>1
  <2> HIDE DEF w
  <2>2. PICK h : h[0] = <<>> /\ h[Len(w)] = Flat(w)
    BY <2>1, Empty, FoldFlat
  <2> QED BY <1>3, <1>4, <2>1, <2>2, Empty DEF v
<1>5. CASE v # <<>>
  <2>1. DOMAIN texts = 1..1 /\ texts[1] = Text(v)
    BY <1>1, <1>5
  <2>2. w = [i \in 1..1 |-> w[i]] /\ w[1] = v
    BY <2>1, TypesAre
  <2> HIDE DEF w
  <2>3. IsList(w) /\ Len(w) = 1
    BY <2>2, Built
  <2>4. PICK h : h[0] = <<>> /\ (\A k \in 1..Len(w) : h[k] = h[k - 1] \o w[k]) /\ h[Len(w)] = Flat(w)
    BY <2>3, FoldFlat
  <2>5. 1 \in 1..Len(w) /\ 1 - 1 = 0
    BY <2>3
  <2>6. h[1] = <<>> \o v
    BY <2>2, <2>4, <2>5
  <2>7. <<>> \o v = v
    BY <1>2, JoinedNone
  <2> QED BY <1>3, <2>3, <2>4, <2>6, <2>7 DEF v
<1> QED BY <1>4, <1>5

\* The first and the last of some places.
LEMMA Extremes ==
    ASSUME NEW n \in Nat, NEW S \in SUBSET (1..n), S # {}
    PROVE  /\ Min(S) \in S /\ Max(S) \in S
           /\ \A i \in S : Min(S) <= i /\ i <= Max(S)
<1>0. S \in SUBSET Nat
  OBVIOUS
<1>1. \E i \in S : \A j \in S : i <= j
  BY <1>0, LeastNumber
<1>2. Min(S) \in S /\ \A j \in S : Min(S) <= j
  BY <1>1, Zenon DEF Min
<1>3. \E i \in S : \A j \in S : i >= j
  <2> DEFINE T == {n - i : i \in S}
  <2>1. T \in SUBSET Nat /\ T # {}
    <3>1. \A i \in S : i \in Nat /\ i <= n
      OBVIOUS
    <3>2. \A i \in S : n - i \in Nat
      BY <3>1
    <3> QED BY <3>2
  <2>2. PICK k \in T : \A j \in T : k <= j
    BY <2>1, LeastNumber
  <2>3. PICK i \in S : k = n - i
    BY <2>2
  <2>4. ASSUME NEW j \in S PROVE i >= j
    <3>1. n - j \in T
      OBVIOUS
    <3>2. n - i <= n - j
      BY <2>2, <2>3, <3>1
    <3> HIDE DEF T
    <3> QED BY <1>0, <2>3, <3>2
  <2> QED BY <2>4
<1>4. Max(S) \in S /\ \A j \in S : Max(S) >= j
  BY <1>3, Zenon DEF Max
<1> HIDE DEF Min, Max
<1> QED BY <1>0, <1>2, <1>4

LEMMA TrimIs ==
    ASSUME NEW v, IsList(v)
    PROVE  IsList(Trim(v)) /\ (Trim(v) # <<>> <=> Solid(v) # {})
<1>0. Len(v) \in Nat /\ DOMAIN v = 1..Len(v)
  BY ListPlaces
<1>1. CASE Solid(v) = {}
  BY <1>1, Empty DEF Trim
<1>2. CASE Solid(v) # {}
  <2> DEFINE i == Min(Solid(v))
             j == Max(Solid(v))
             u == SubSeq(v, i, j)
  <2>1. Solid(v) \in SUBSET (1..Len(v))
    BY <1>0 DEF Solid
  <2>2. i \in Solid(v) /\ j \in Solid(v) /\ i <= j
    BY <1>0, <1>2, <2>1, Extremes
  <2>3. Trim(v) = u
    BY <1>2 DEF Trim
  <2> HIDE DEF i, j
  <2>4. i \in 1..(Len(v) + 1) /\ j \in (i - 1)..Len(v) /\ j - i + 1 \in Nat \ {0}
    BY <1>0, <2>1, <2>2
  <2>5. IsList(u) /\ Len(u) = j - i + 1
    BY <2>4, Cut
  <2> HIDE DEF u
  <2>6. u # <<>>
    BY <2>4, <2>5, Empty
  <2> QED BY <1>2, <2>3, <2>5, <2>6
<1> QED BY <1>1, <1>2

\* A text is a name and its arguments between braces.
LEMMA Braced ==
    ASSUME NEW t, IsList(t), NEW name, NEW x, IsList(x)
    PROVE  t = <<"{", name>> \o x \o <<"}">>
           <=> IsJson(t) /\ Len(t) > 2 /\ t[2] = name /\ SubSeq(t, 3, Len(t) - 1) = x
<1> DEFINE b == <<"{", name>>
           d == <<"}">>
           e == b \o x \o d
           n == Len(x)
<1>0. n \in Nat /\ Len(t) \in Nat /\ Len(x) = n
  BY ListPlaces
<1> HIDE DEF n
<1>1. IsList(b) /\ Len(b) = 2 /\ b[1] = "{" /\ b[2] = name
  <2>1. b = [i \in 1..2 |-> b[i]] /\ b[1] = "{" /\ b[2] = name
    OBVIOUS
  <2> HIDE DEF b
  <2> QED BY <2>1, Built
<1>2. IsList(d) /\ Len(d) = 1 /\ d[1] = "}"
  BY One
<1> HIDE DEF b, d
<1> DEFINE f == b \o x
<1>3. /\ IsList(f) /\ Len(f) = 2 + n /\ f[1] = "{" /\ f[2] = name
      /\ \A i \in 1..n : f[2 + i] = x[i]
  <2>1. /\ IsList(f) /\ Len(f) = Len(b) + Len(x)
        /\ \A i \in 1..Len(b) : f[i] = b[i]
        /\ \A i \in 1..Len(x) : f[Len(b) + i] = x[i]
    <3>1. IsList(b) /\ IsList(x)
      BY <1>1
    <3> QED BY ONLY <3>1, Joined
  <2>2. 1 \in 1..2 /\ 2 \in 1..2
    OBVIOUS
  <2> HIDE DEF f
  <2> QED BY <1>0, <1>1, <2>1, <2>2
<1>4. e = f \o d
  OBVIOUS
<1> HIDE DEF f
<1>5. /\ IsList(e) /\ Len(e) = 3 + n /\ e[1] = "{" /\ e[2] = name /\ e[3 + n] = "}"
      /\ \A i \in 1..n : e[2 + i] = x[i]
  <2>1. /\ IsList(e) /\ Len(e) = Len(f) + Len(d)
        /\ \A i \in 1..Len(f) : e[i] = f[i]
        /\ \A i \in 1..Len(d) : e[Len(f) + i] = d[i]
    <3>1. IsList(f) /\ IsList(d)
      BY <1>2, <1>3
    <3>2. /\ IsList(f \o d) /\ Len(f \o d) = Len(f) + Len(d)
          /\ \A i \in 1..Len(f) : (f \o d)[i] = f[i]
          /\ \A i \in 1..Len(d) : (f \o d)[Len(f) + i] = d[i]
      BY ONLY <3>1, Joined
    <3> QED BY <1>4, <3>2
  <2> HIDE DEF e
  <2>0. Len(f) = 2 + n /\ Len(d) = 1
    BY <1>2, <1>3
  <2>5. /\ 1 \in 1..(2 + n) /\ 2 \in 1..(2 + n) /\ 1 \in 1..1 /\ (2 + n) + 1 = 3 + n
        /\ \A i \in 1..n : 2 + i \in 1..(2 + n)
    BY ONLY <1>0
  <2>2. 1 \in 1..Len(f) /\ 2 \in 1..Len(f) /\ 1 \in 1..Len(d) /\ Len(f) + 1 = 3 + n /\ \A i \in 1..n : 2 + i \in 1..Len(f)
    BY <2>0, <2>5
  <2>3. Len(e) = 3 + n
    BY <2>0, <2>1, <2>5
  <2>4. e[1] = f[1] /\ e[2] = f[2] /\ e[Len(f) + 1] = d[1] /\ \A i \in 1..n : e[2 + i] = f[2 + i]
    BY <2>1, <2>2
  <2> QED BY <1>2, <1>3, <2>1, <2>2, <2>3, <2>4
<1> HIDE DEF e
<1> DEFINE Like3(s) == /\ IsList(s) /\ Len(s) = 3 + n /\ s[1] = "{" /\ s[2] = name /\ s[3 + n] = "}"
                       /\ \A i \in 1..n : s[2 + i] = x[i]
<1>6. ASSUME Like3(t) PROVE t = e
  <2>1. ASSUME NEW i \in 1..(3 + n) PROVE t[i] = e[i]
    <3>1. CASE i \in {1, 2, 3 + n}
      BY <1>5, <1>6, <3>1
    <3>2. CASE i \notin {1, 2, 3 + n}
      <4>1. i - 2 \in 1..n /\ 2 + (i - 2) = i
        BY <1>0, <3>2
      <4> QED BY <1>5, <1>6, <4>1
    <3> QED BY <3>1, <3>2
  <2> QED BY <1>5, <1>6, <2>1, Alike
<1>7. IsJson(t) <=> Len(t) > 1 /\ t[1] = "{" /\ t[Len(t)] = "}"
  BY DEF IsJson, Last
<1>8. ASSUME Like3(t) PROVE IsJson(t) /\ Len(t) > 2 /\ t[2] = name /\ SubSeq(t, 3, Len(t) - 1) = x
  <2> DEFINE u == SubSeq(t, 3, Len(t) - 1)
  <2>1. /\ 3 \in 1..(Len(t) + 1) /\ Len(t) - 1 \in (3 - 1)..Len(t) /\ (Len(t) - 1) - 3 + 1 = n
        /\ Len(t) > 2 /\ Len(t) > 1
        /\ \A i \in 1..n : 3 + i - 1 = 2 + i
    <3>1. Len(t) = 3 + n
      BY <1>8
    <3>2. /\ 3 \in 1..((3 + n) + 1) /\ (3 + n) - 1 \in (3 - 1)..(3 + n) /\ ((3 + n) - 1) - 3 + 1 = n
          /\ 3 + n > 2 /\ 3 + n > 1
          /\ \A i \in 1..n : 3 + i - 1 = 2 + i
      BY ONLY <1>0
    <3> QED BY <3>1, <3>2
  <2>2. IsList(u) /\ Len(u) = n /\ \A i \in 1..n : u[i] = t[3 + i - 1]
    BY <2>1, Cut
  <2> HIDE DEF u
  <2>3. \A i \in 1..n : u[i] = x[i]
    BY <1>8, <2>1, <2>2
  <2>4. u = x
    <3>1. IsList(u) /\ IsList(x) /\ Len(u) = Len(x) /\ \A i \in 1..Len(u) : u[i] = x[i]
      BY <1>0, <2>2, <2>3
    <3> QED BY ONLY <3>1, Alike
  <2> QED BY <1>7, <1>8, <2>1, <2>4 DEF u
<1>9. ASSUME IsJson(t), Len(t) > 2, t[2] = name, SubSeq(t, 3, Len(t) - 1) = x PROVE Like3(t)
  <2>1. 3 \in 1..(Len(t) + 1) /\ Len(t) - 1 \in (3 - 1)..Len(t)
    BY <1>0, <1>9
  <2>2. n = (Len(t) - 1) - 3 + 1 /\ \A i \in 1..((Len(t) - 1) - 3 + 1) : x[i] = t[3 + i - 1]
    <3> DEFINE k == Len(t) - 1
    <3>1. Len(SubSeq(t, 3, k)) = k - 3 + 1 /\ \A i \in 1..(k - 3 + 1) : SubSeq(t, 3, k)[i] = t[3 + i - 1]
      <4> HIDE DEF k
      <4>1. IsList(t) /\ 3 \in 1..(Len(t) + 1) /\ k \in (3 - 1)..Len(t)
        BY <2>1 DEF k
      <4> QED BY ONLY <4>1, Cut
    <3> QED BY <1>0, <1>9, <3>1
  <2>3. Len(t) = 3 + n
    BY <1>0, <2>2
  <2>4. \A i \in 1..n : t[2 + i] = x[i]
    <3>1. ASSUME NEW i \in 1..n PROVE 3 + i - 1 = 2 + i /\ i \in 1..((Len(t) - 1) - 3 + 1)
      BY <1>0, <2>2
    <3> QED BY <2>2, <3>1
  <2> QED BY <1>7, <1>9, <2>3, <2>4
<1> HIDE DEF Like3
<1>10. t = e => Like3(t)
  BY <1>5 DEF Like3
<1>11. t = e <=> IsJson(t) /\ Len(t) > 2 /\ t[2] = name /\ SubSeq(t, 3, Len(t) - 1) = x
  BY <1>6, <1>8, <1>9, <1>10
<1> QED BY <1>11 DEF e, b, d

-----------------------------------------------------------------------------
(* What an answer's message is graded.                                     *)

\* A tool probe.
LEMMA ToolGrade ==
    ASSUME NEW a, Regular(a), NEW case
    PROVE  GradeToolEmit(ToAnthropicResponse(a), case)
           = GradeOf(CallsOf(a) = IF case.expect = "abstain" THEN <<>> ELSE <<[name |-> case.name, input |-> case.args]>>)
<1> DEFINE M == Len(a.calls)
           c == [i \in 1..M |-> Used(a, i)]
           d == CallsOf(a)
           e == <<[name |-> case.name, input |-> case.args]>>
<1>1. M \in Nat /\ DOMAIN a.calls = 1..M
  BY RegularIs, ListPlaces DEF Callable
<1>2. OfType(ToAnthropicResponse(a).content, "tool_use") = c
  BY MessageHas
<1>3. IsList(c) /\ Len(c) = M /\ \A i \in 1..M : c[i].name = a.calls[i].name /\ c[i].input = ParseArgs(a.calls[i].args)
  <2>1. c = [i \in 1..M |-> c[i]] /\ \A i \in 1..M : c[i] = Used(a, i)
    OBVIOUS
  <2> HIDE DEF c
  <2>2. IsList(c) /\ Len(c) = M
    BY <1>1, <2>1, Built
  <2>3. \A i \in 1..M : Used(a, i).name = a.calls[i].name /\ Used(a, i).input = ParseArgs(a.calls[i].args)
    BY TypesAre
  <2> QED BY <2>1, <2>2, <2>3
<1>4. /\ IsList(d) /\ Len(d) = M
      /\ \A i \in 1..M : d[i] = [name |-> a.calls[i].name, input |-> ParseArgs(a.calls[i].args)]
  <2>1. /\ d = [i \in 1..M |-> d[i]]
        /\ \A i \in 1..M : d[i] = [name |-> a.calls[i].name, input |-> ParseArgs(a.calls[i].args)]
    BY <1>1 DEF CallsOf
  <2> HIDE DEF d
  <2> QED BY <1>1, <2>1, Built
<1>5. IsList(e) /\ Len(e) = 1 /\ e[1] = [name |-> case.name, input |-> case.args]
  BY One
<1> DEFINE AsExpected == Len(c) = 1 /\ c[1].name = case.name /\ c[1].input = case.args
<1>6. GradeToolEmit(ToAnthropicResponse(a), case) = IF case.expect = "abstain" THEN GradeOf(c = <<>>) ELSE GradeOf(AsExpected)
  BY <1>2 DEF GradeToolEmit, GradeCall
<1> HIDE DEF c, d, e
<1>7. c = <<>> <=> d = <<>>
  BY <1>3, <1>4, NoneLeft
<1>8. AsExpected <=> d = e
  <2>1. CASE M = 1
    <3>1. 1 \in 1..M /\ \A i \in 1..M : i = 1
      BY <2>1
    <3>2. AsExpected <=> d[1] = e[1]
      BY <1>3, <1>4, <1>5, <2>1, <3>1
    <3>3. d[1] = e[1] => d = e
      <4> SUFFICES ASSUME d[1] = e[1] PROVE d = e
        OBVIOUS
      <4>1. IsList(d) /\ IsList(e) /\ Len(d) = Len(e) /\ \A i \in 1..Len(d) : d[i] = e[i]
        BY <1>4, <1>5, <2>1, <3>1
      <4> QED BY ONLY <4>1, Alike
    <3> QED BY <3>2, <3>3
  <2>2. CASE M # 1
    BY <1>3, <1>4, <1>5, <2>2
  <2> QED BY <2>1, <2>2
<1> HIDE DEF AsExpected
<1>9. GradeOf(c = <<>>) = GradeOf(d = <<>>) /\ GradeOf(AsExpected) = GradeOf(d = e)
  BY <1>7, <1>8 DEF GradeOf
<1>10. CASE case.expect = "abstain"
  BY <1>6, <1>9, <1>10 DEF d
<1>11. CASE case.expect # "abstain"
  BY <1>6, <1>9, <1>11 DEF d, e
<1> QED BY <1>10, <1>11

\* A constrained call.
LEMMA ForcedGrade ==
    ASSUME NEW a, Regular(a), NEW case, IsList(case.args)
    PROVE  GradeForced(ToAnthropicResponse(a), case)
           = GradeOf(Trim(StripThinking(a.content)) = <<"{", case.name>> \o case.args \o <<"}">>)
<1> DEFINE t == Trim(StripThinking(a.content))
           name == case.name
           x == case.args
           c == ForcedCall(t)
           Is == IsJson(t) /\ Len(t) > 2 /\ t[2] = name /\ SubSeq(t, 3, Len(t) - 1) = x
<1>1. GradeForced(ToAnthropicResponse(a), case) = GradeOf(Len(c) = 1 /\ c[1].name = name /\ c[1].input = x)
  BY ArtifactIs DEF GradeForced, GradeCall
<1>2. IsList(t)
  BY RegularIs, StrippedList, TrimIs
<1> HIDE DEF t, x, name
<1>3. Is <=> t = <<"{", name>> \o x \o <<"}">>
  <2>1. IsList(x)
    BY DEF x
  <2> HIDE DEF Is
  <2>2. t = <<"{", name>> \o x \o <<"}">>
        <=> IsJson(t) /\ Len(t) > 2 /\ t[2] = name /\ SubSeq(t, 3, Len(t) - 1) = x
    BY ONLY <1>2, <2>1, Braced
  <2> QED BY <2>2 DEF Is
<1>4. Len(c) = 1 /\ c[1].name = name /\ c[1].input = x <=> Is
  <2>1. CASE IsJson(t) /\ Len(t) > 2
    <3>1. c = <<[name |-> t[2], input |-> SubSeq(t, 3, Len(t) - 1)]>>
      BY <2>1 DEF ForcedCall
    <3>2. Len(c) = 1 /\ c[1] = [name |-> t[2], input |-> SubSeq(t, 3, Len(t) - 1)]
      BY <3>1, One
    <3> HIDE DEF c
    <3> QED BY <2>1, <3>2
  <2>2. CASE ~(IsJson(t) /\ Len(t) > 2)
    <3>1. c = <<>>
      BY <2>2 DEF ForcedCall
    <3> HIDE DEF c
    <3>2. Len(c) # 1
      BY <3>1, Empty
    <3> QED BY <2>2, <3>2
  <2> QED BY <2>1, <2>2
<1> DEFINE Got == Len(c) = 1 /\ c[1].name = name /\ c[1].input = x
           Due == t = <<"{", name>> \o x \o <<"}">>
<1>5. Got <=> Due
  BY <1>3, <1>4
<1>6. GradeForced(ToAnthropicResponse(a), case) = GradeOf(Got)
  BY <1>1
<1> HIDE DEF c, Is, Got, Due
<1>7. GradeOf(Got) = GradeOf(Due)
  BY <1>5 DEF GradeOf
<1> QED BY <1>6, <1>7 DEF Due, t, x, name

\* A fixture probe.
LEMMA FixtureGrade ==
    ASSUME NEW a, Regular(a), NEW case
    PROVE  GradeFixture(ToAnthropicResponse(a), case)
           = GradeOf(/\ a.reasoning = <<>>
                     /\ Solid(StripThinking(a.content)) # {}
                     /\ Range(case.contains) \subseteq Range(StripThinking(a.content)))
<1> DEFINE v == StripThinking(a.content)
           s == ToAnthropicResponse(a).content
           first == IF s = <<>> THEN Thinking(<<>>) ELSE Head(s)
           Got == /\ first.type = "text"
                  /\ Trim(first.text) # <<>>
                  /\ \A i \in DOMAIN case.contains : HasToken(first.text, case.contains[i])
           Due == /\ a.reasoning = <<>>
                  /\ Solid(v) # {}
                  /\ Range(case.contains) \subseteq Range(v)
<1>1. GradeFixture(ToAnthropicResponse(a), case) = GradeOf(Got)
  BY DEF GradeFixture
<1>2. IsList(v) /\ (Trim(v) # <<>> <=> Solid(v) # {})
  BY RegularIs, StrippedList, TrimIs
<1>3. v = <<>> => Solid(v) = {}
  BY DEF Solid
<1>4. /\ first.type = "text" <=> a.reasoning = <<>> /\ v # <<>>
      /\ first.type = "text" => first.text = v
  <2>1. CASE s = <<>>
    <3>1. v = <<>> /\ first.type = "thinking"
      BY <2>1, MessageHas, TypesAre
    <3> QED BY <3>1
  <2>2. CASE s # <<>>
    <3>1. first = Head(s)
      BY <2>2
    <3> HIDE DEF first, s
    <3>2. /\ Head(s).type = "text" <=> a.reasoning = <<>> /\ v # <<>>
          /\ Head(s).type = "text" => Head(s).text = v
      BY <2>2, MessageHas DEF s
    <3> QED BY <3>1, <3>2
  <2> QED BY <2>1, <2>2
<1> HIDE DEF first, s, v
<1>5. (\A i \in DOMAIN case.contains : HasToken(v, case.contains[i])) <=> Range(case.contains) \subseteq Range(v)
  BY DEF HasToken, Range
<1>6. Got <=> Due
  <2>1. CASE first.type = "text"
    BY <1>2, <1>4, <1>5, <2>1
  <2>2. CASE first.type # "text"
    BY <1>3, <1>4, <2>2
  <2> QED BY <2>1, <2>2
<1> HIDE DEF Got, Due
<1>7. GradeOf(Got) = GradeOf(Due)
  BY <1>6 DEF GradeOf
<1> QED BY <1>1, <1>7 DEF Due, v

-----------------------------------------------------------------------------
(* What a bench crossing records of a reply.                               *)

\* An error event is a turn that was never answered.
LEMMA AbortedFails ==
    ASSUME NEW t, Carries(t)
    PROVE  Assemble(Finish(Abort(t)).events) = Failed
<1> DEFINE s == Start(t)
           c == CloseBlock(s)
           e == [event |-> "error"]
           w == Emit(c, e)
           u == [w EXCEPT !.finished = TRUE]
<1>1. Carries(s)
  BY StartIs DEF Same
<1>2. Carries(c)
  <2> HIDE DEF s
  <2> QED BY <1>1, CloseIs
<1>3. Abort(t) = u
  BY DEF Abort
<1> HIDE DEF s, c
<1>4. Shaped(w) /\ Asm(w) = AssembleStep(Asm(c), e)
  BY <1>2, EmitIs DEF Carries
<1>5. AssembleStep(Asm(c), e) = [Asm(c) EXCEPT !.failed = TRUE]
  BY <1>2 DEF AssembleStep, Carries, Sound
<1>6. Asm(w).failed = TRUE
  BY <1>2, <1>4, <1>5 DEF Carries, Sound, Holding
<1> HIDE DEF w
<1>7. u.events = w.events /\ u.finished = TRUE
  BY <1>4 DEF Shaped, Fields
<1> HIDE DEF u
<1>8. Finish(u) = u
  BY <1>7 DEF Finish
<1>9. FoldLeft(AssembleStep, FreshAssembly, u.events).failed = TRUE
  BY <1>6, <1>7 DEF Asm
<1> QED BY <1>3, <1>8, <1>9 DEF Assemble

LEMMA NotFailed == \A a : ToAnthropicResponse(a) # Failed
<1> SUFFICES ASSUME NEW a PROVE ToAnthropicResponse(a) # Failed
  OBVIOUS
<1>1. "content" \in DOMAIN ToAnthropicResponse(a)
  BY DEF ToAnthropicResponse
<1>2. "content" \notin DOMAIN Failed
  BY DEF Failed
<1> QED BY <1>1, <1>2

\* A field that only the last frame has.
LEMMA LastOfIs ==
    ASSUME NEW field, NEW none, NEW x, IsList(frames), frames # <<>>,
           \A i \in 1..Len(frames) : frames[i][field] = IF i = Len(frames) THEN x ELSE none
    PROVE  LastOf(field, none) = x
<1> DEFINE n == Len(frames)
           with == {i \in DOMAIN frames : frames[i][field] # none}
<1>1. n \in Nat /\ DOMAIN frames = 1..n /\ n # 0
  BY ListPlaces, NoneLeft
<1>2. LastOf(field, none) = IF with = {} THEN none ELSE frames[Max(with)][field]
  BY DEF LastOf
<1> HIDE DEF n
<1>3. n \in 1..n
  BY <1>1
<1>4. CASE x = none
  <2>1. with = {}
    BY <1>1, <1>4 DEF n
  <2> QED BY <1>2, <1>4, <2>1
<1>5. CASE x # none
  <2>1. with = {n}
    BY <1>1, <1>3, <1>5 DEF n
  <2>2. with \in SUBSET (1..n) /\ n \in with
    BY <1>3, <2>1
  <2> HIDE DEF with
  <2>3. Max(with) = n
    BY <1>1, <2>2, HighestIs
  <2>4. frames[n][field] = x
    BY <1>3 DEF n
  <2> QED BY <1>2, <2>1, <2>3, <2>4
<1> QED BY <1>4, <1>5

LEMMA NoLast ==
    ASSUME NEW field, NEW none, IsList(frames), \A i \in 1..Len(frames) : frames[i][field] = none
    PROVE  LastOf(field, none) = none
<1>1. DOMAIN frames = 1..Len(frames)
  BY ListPlaces
<1> QED BY <1>1 DEF LastOf

\* Which doors there are, and which a codebase case goes through.
LEMMA Doors ==
    /\ Door \in {"infill", "timed", "untimed", "buffered", "streamed"}
    /\ ask.case.suite = "codebase" => Door \in {"infill", "timed"}
    /\ Door = "infill" => ask.case.suite = "codebase"
    /\ ~Agent => (Streaming <=> Door \in {"streamed", "timed"})
<1> DEFINE foreign == ask.runtime = "foreign"
           suite == ask.case.suite
<1>1. Door = CASE suite = "codebase" -> (IF foreign THEN "timed" ELSE "infill")
               [] suite = "grammar_gap" -> (IF foreign THEN "untimed" ELSE "buffered")
               [] suite \in {"throughput", "fixture"} -> (IF foreign THEN "timed" ELSE "buffered")
               [] OTHER -> IF ask.transport = "streamed" THEN (IF foreign THEN "timed" ELSE "streamed")
                           ELSE IF foreign THEN "untimed" ELSE "buffered"
  BY DEF Door
<1>2. ~Agent => (Streaming <=> Door \in {"streamed", "timed"})
  BY DEF Streaming
<1>3. suite = "codebase" => Door = IF foreign THEN "timed" ELSE "infill"
  <2> HIDE DEF foreign, suite
  <2> QED BY <1>1
<1>4. suite # "codebase" => Door \in {"timed", "untimed", "buffered", "streamed"}
  <2> HIDE DEF foreign, suite
  <2>1. CASE suite = "grammar_gap"
    BY <1>1, <2>1
  <2>2. CASE suite \in {"throughput", "fixture"}
    BY <1>1, <2>2
  <2>3. CASE suite \notin {"codebase", "grammar_gap", "throughput", "fixture"}
    BY <1>1, <2>3
  <2> QED BY <2>1, <2>2, <2>3
<1> HIDE DEF foreign, suite
<1>5. Door \in {"infill", "timed", "untimed", "buffered", "streamed"}
  BY <1>3, <1>4
<1> QED BY <1>2, <1>3, <1>4, <1>5 DEF suite

\* The row is the model's, or it is nobody's.
Theirs ==
    /\ row.verdict = Deserved
    /\ row.measured <=> (Door # "untimed" /\ row.verdict # "unavailable")
    /\ row.verdict = "filled" =>
         row.fill = IF Door = "infill" THEN answer.content ELSE NormalizeChatFill(Visible)
Nobodys ==
    /\ row.verdict \in {"unavailable", "unsupported", "none"}
    /\ ~row.measured
    /\ row.verdict = "unsupported" => fate = "no infill"

LEMMA VerdictIs ==
    VerdictIsTheModels <=> (stage = "done" /\ ~Agent => IF fate = "whole" /\ Measurable THEN Theirs ELSE Nobodys)
BY DEF VerdictIsTheModels, Theirs, Nobodys

\* A crossing that failed.
LEMMA RowFailed ==
    /\ RowOf(Error).verdict \in {"unavailable", "none"} /\ RowOf(Error).measured = FALSE
    /\ NoRow.verdict = "none" /\ NoRow.measured = FALSE
    /\ [NoRow EXCEPT !.verdict = "unsupported"].verdict = "unsupported"
    /\ [NoRow EXCEPT !.verdict = "unsupported"].measured = FALSE
    /\ Unavailable.verdict = "unavailable" /\ Unavailable.measured = FALSE
<1>1. RowOf(Error) = IF ask.case.suite = "throughput" THEN NoRow ELSE Unavailable
  BY DEF RowOf, Error
<1> QED BY <1>1 DEF NoRow, Unavailable

\* The grade of the message, and what the answer deserves.
LEMMA Graded ==
    ASSUME Regular(answer), ask.case.suite \in Suites \ {"codebase"},
           ask.case.suite = "grammar_gap" => IsList(ask.case.args)
    PROVE  GradeMessage(ask.case, ToAnthropicResponse(answer)).strict = Deserved /\ Deserved \in {"measured", "pass", "fail"}
<1> DEFINE case == ask.case
           m == ToAnthropicResponse(answer)
<1>0. \A x : Both(x).strict = x
  BY DEF Both
<1>1. \A x : GradeOf(x) \in {"pass", "fail"}
  BY DEF GradeOf
<1>2. CASE case.suite = "throughput"
  <2>1. GradeMessage(case, m) = Both("measured") /\ Deserved = "measured"
    BY <1>2 DEF GradeMessage, Deserved
  <2> QED BY <1>0, <2>1
<1>3. CASE case.suite = "fixture"
  <2>1. GradeMessage(case, m) = Both(GradeFixture(m, case))
    BY <1>3 DEF GradeMessage
  <2>2. Deserved = GradeOf(/\ answer.reasoning = <<>>
                           /\ Solid(StripThinking(answer.content)) # {}
                           /\ Range(case.contains) \subseteq Range(StripThinking(answer.content)))
    BY <1>3 DEF Deserved, Visible
  <2>3. GradeFixture(m, case) = Deserved
    BY <2>2, FixtureGrade
  <2> QED BY <1>0, <1>1, <2>1, <2>2, <2>3
<1>4. CASE case.suite = "tool_emit"
  <2>1. GradeMessage(case, m) = Both(GradeToolEmit(m, case))
    BY <1>4 DEF GradeMessage
  <2>2. Deserved = GradeOf(CallsOf(answer) = IF case.expect = "abstain" THEN <<>>
                                             ELSE <<[name |-> case.name, input |-> case.args]>>)
    BY <1>4 DEF Deserved
  <2>3. GradeToolEmit(m, case) = Deserved
    BY <2>2, ToolGrade
  <2> QED BY <1>0, <1>1, <2>1, <2>2, <2>3
<1>5. CASE case.suite = "grammar_gap"
  <2>1. GradeMessage(case, m) = Both(GradeForced(m, case))
    BY <1>5 DEF GradeMessage
  <2>2. Deserved = GradeOf(Trim(StripThinking(answer.content)) = <<"{", case.name>> \o case.args \o <<"}">>)
    BY <1>5 DEF Deserved, Visible
  <2>3. GradeForced(m, case) = Deserved
    BY <1>5, <2>2, ForcedGrade
  <2> QED BY <1>0, <1>1, <2>1, <2>2, <2>3
<1>6. CASE case.suite = "instruction"
  <2>1. GradeMessage(case, m) = InstructionGrade(case.checks, ArtifactText(m))
    BY <1>6 DEF GradeMessage
  <2>2. Deserved = InstructionGrade(case.checks, StripThinking(answer.content)).strict
    BY <1>6 DEF Deserved, Visible
  <2>3. ArtifactText(m) = StripThinking(answer.content)
    BY ArtifactIs
  <2>4. \A x, y : InstructionGrade(x, y).strict \in {"pass", "fail"}
    BY <1>1 DEF InstructionGrade
  <2> QED BY <2>1, <2>2, <2>3, <2>4
<1> QED BY <1>2, <1>3, <1>4, <1>5, <1>6 DEF Suites

\* The row of a crossing that has the whole message.
LEMMA RowIs ==
    ASSUME Regular(answer), ask.case.suite \in Suites,
           ask.case.suite = "grammar_gap" => IsList(ask.case.args),
           Door # "infill", NEW timed \in BOOLEAN, timed <=> Door # "untimed"
    PROVE  LET r == RowOf(Crossed(ToAnthropicResponse(answer), timed))
           IN  /\ r.verdict = Deserved
               /\ r.measured <=> (Door # "untimed" /\ r.verdict # "unavailable")
               /\ r.verdict = "filled" => r.fill = NormalizeChatFill(Visible)
<1> DEFINE m == ToAnthropicResponse(answer)
           c == Crossed(m, timed)
           r == RowOf(c)
           v == StripThinking(answer.content)
<1>1. c.ok = TRUE /\ c.message = m /\ c.timed = timed
  BY DEF Crossed
<1> HIDE DEF c
<1>2. CASE ask.case.suite = "codebase"
  <2>1. r = ChatRow(m)
    BY <1>1, <1>2 DEF RowOf
  <2>2. Door = "timed"
    BY <1>2, Doors
  <2>3. OfType(m.content, "text") = IF v = <<>> THEN <<>> ELSE <<Text(v)>>
    BY MessageHas
  <2>4. Deserved = IF v # <<>> THEN "filled" ELSE "unavailable"
    BY <1>2 DEF Deserved, Visible
  <2> HIDE DEF m, r
  <2>5. CASE v = <<>>
    <3>1. r = Unavailable
      BY <2>1, <2>3, <2>5 DEF ChatRow
    <3> QED BY <2>2, <2>4, <2>5, <3>1, RowFailed DEF r, c, m
  <2>6. CASE v # <<>>
    <3>1. OfType(m.content, "text") # <<>> /\ OfType(m.content, "text")[1].text = v
      <4>1. Len(<<Text(v)>>) = 1 /\ <<Text(v)>>[1] = Text(v) /\ Text(v).text = v
        BY One, TypesAre
      <4> QED BY <2>3, <2>6, <4>1, Empty
    <3>2. r = [NoRow EXCEPT !.verdict = "filled", !.measured = TRUE, !.fill = NormalizeChatFill(v)]
      BY <2>1, <3>1 DEF ChatRow
    <3>3. r.verdict = "filled" /\ r.measured = TRUE /\ r.fill = NormalizeChatFill(v)
      BY <3>2 DEF NoRow
    <3> QED BY <2>2, <2>4, <2>6, <3>3 DEF r, c, Visible, m
  <2> QED BY <2>5, <2>6
<1>3. CASE ask.case.suite # "codebase"
  <2> DEFINE g == GradeMessage(ask.case, m)
  <2>1. r = [NoRow EXCEPT !.verdict = g.strict, !.loose = g.loose, !.measured = timed]
    BY <1>1, <1>3 DEF RowOf
  <2>2. g.strict = Deserved /\ Deserved \in {"measured", "pass", "fail"}
    BY <1>3, Graded
  <2> HIDE DEF g, r
  <2>3. r.verdict = g.strict /\ r.measured = timed
    BY <2>1 DEF NoRow
  <2> QED BY <2>2, <2>3 DEF r, c
<1> QED BY <1>2, <1>3

-----------------------------------------------------------------------------
(* The bench crossing.                                                     *)

\* Only the frame that ends a whole answer has its usage and its timings.
Noted(f, a, ends, t) ==
    f.usage = (IF ends THEN a.usage ELSE Absent) /\ f.timings = (IF ends THEN t ELSE "none")

Noting ==
    ~Agent /\ stage = "relay" =>
        /\ fate = "answering" =>
             /\ \A i \in 1..Len(frames) : Noted(frames[i], answer, i = Len(frames) /\ sent = NF(answer) + 1, timings)
             /\ sent = NF(answer) + 1 => frames # <<>>
        /\ fate = "errored" => Assemble(Finish(Translated(frames)).events) = Failed

\* What a bench crossing has seen of its stream.
Clocked ==
    /\ ~Agent => here /\ stage \notin {"read", "route"}
    /\ DOMAIN marks = {"reads", "zero"}
    /\ Noting

VInv == Clocked /\ VerdictIsTheModels

\* What the door's clock needs.
Suits(door, a, m, t) ==
    CASE door = "untimed" -> TRUE
      [] door = "timed" -> /\ a.usage # Absent /\ a.usage.prompt > 0 /\ a.usage.completion > 1
                           /\ m.reads > 1 /\ ~m.zero
      [] OTHER -> t = "all"

LEMMA SuitsIs ==
    /\ Measurable <=> Suits(Door, answer, marks, timings)
    /\ Measurable' <=> Suits(Door', answer', marks', timings')
BY DEF Measurable, Suits

LEMMA FixedVerdict ==
    ASSUME ask' = ask, answer' = answer
    PROVE  Deserved' = Deserved /\ Door' = Door /\ Visible' = Visible
<1>1. Door' = Door
  BY DEF Door
<1>2. Visible' = Visible
  BY DEF Visible
<1>3. CallsOf(answer)' = CallsOf(answer)
  OBVIOUS
<1>4. Deserved' = Deserved
  BY <1>1, <1>2, <1>3 DEF Deserved
<1> QED BY <1>1, <1>2, <1>4

LEMMA Quiet ==
    ASSUME Agent' \/ stage' # "done"
    PROVE  VerdictIsTheModels'
BY DEF VerdictIsTheModels

LEMMA ClockedOn ==
    ASSUME Clocked, ask' = ask, here' = here \/ Agent, DOMAIN marks' = {"reads", "zero"},
           Agent \/ stage' \notin {"read", "route", "relay"}
    PROVE  Clocked'
BY Fixed DEF Clocked, Noting

\* An exchange that ends without an answer that could be measured.
LEMMA EndsNobodys ==
    ASSUME Clocked, ask' = ask, here' = here, DOMAIN marks' = {"reads", "zero"}, stage' = "done", ~Agent,
           fate' # "whole" \/ ~Measurable',
           row'.verdict \in {"unavailable", "unsupported", "none"}, row'.measured = FALSE,
           row'.verdict = "unsupported" => fate' = "no infill"
    PROVE  VInv'
<1>1. Clocked'
  BY ClockedOn
<1>2. Nobodys'
  BY DEF Nobodys
<1>3. ~(fate' = "whole" /\ Measurable')
  OBVIOUS
<1> HIDE DEF Measurable
<1>4. VerdictIsTheModels'
  BY <1>2, <1>3 DEF VerdictIsTheModels, Nobodys
<1> QED BY <1>1, <1>4 DEF VInv

\* An exchange that ends with the model's own.
LEMMA EndsTheirs ==
    ASSUME Clocked, ask' = ask, here' = here, DOMAIN marks' = {"reads", "zero"}, stage' = "done", ~Agent,
           answer' = answer, fate' = "whole", Measurable',
           row'.verdict = Deserved,
           row'.measured <=> (Door # "untimed" /\ row'.verdict # "unavailable"),
           row'.verdict = "filled" => row'.fill = IF Door = "infill" THEN answer.content ELSE NormalizeChatFill(Visible)
    PROVE  VInv'
<1>1. Clocked'
  BY ClockedOn
<1>2. Deserved' = Deserved /\ Door' = Door /\ Visible' = Visible
  BY FixedVerdict
<1>3. Theirs'
  BY <1>2 DEF Theirs
<1> HIDE DEF Measurable
<1>4. VerdictIsTheModels'
  BY <1>3 DEF VerdictIsTheModels, Theirs
<1> QED BY <1>1, <1>4 DEF VInv

LEMMA BenchCase ==
    ASSUME IInv, ~Agent
    PROVE  ask.case.suite \in Suites /\ (ask.case.suite = "grammar_gap" => IsList(ask.case.args))
<1>1. ask \in Asks /\ ask.by # "agent"
  BY DEF IInv, Order, Agent
<1> QED BY <1>1, CasesAssumption

LEMMA InitVInv == Init => VInv
<1> SUFFICES ASSUME Init PROVE VInv
  OBVIOUS
<1>1. /\ stage = (IF Agent THEN "read" ELSE "ready") /\ here = TRUE /\ marks = [reads |-> 0, zero |-> FALSE]
  BY DEF Init
<1>2. Clocked
  BY <1>1 DEF Clocked, Noting
<1>3. VerdictIsTheModels
  BY <1>1 DEF VerdictIsTheModels
<1> QED BY <1>2, <1>3 DEF VInv

LEMMA AgentSteps == IInv /\ VInv /\ (ReadRequest \/ Route \/ ClientLeaves) => VInv'
<1> SUFFICES ASSUME IInv, VInv, ReadRequest \/ Route \/ ClientLeaves PROVE VInv'
  OBVIOUS
<1>1. Agent /\ ask' = ask /\ marks' = marks
  BY DEF ReadRequest, Route, ClientLeaves, VInv, Clocked
<1>2. Agent'
  BY <1>1, Fixed
<1>3. Clocked'
  BY <1>1, ClockedOn DEF VInv, Clocked
<1> QED BY <1>2, <1>3, Quiet DEF VInv

LEMMA ReadyVerdict == IInv /\ VInv /\ Ready => VInv'
<1> SUFFICES ASSUME IInv, VInv, Ready PROVE VInv'
  OBVIOUS
<1>1. /\ stage = "ready" /\ ask' = ask /\ here' = here /\ marks' = marks /\ fate' = fate
      /\ stage' = "cross" \/ (stage' = "done" /\ row' = NoRow)
  BY DEF Ready, Record
<1>2. fate = "none" /\ ~Agent
  BY <1>1, StagesDiffer DEF IInv, Early, Order
<1>3. Clocked /\ DOMAIN marks = {"reads", "zero"}
  BY DEF VInv, Clocked
<1>4. CASE stage' = "cross"
  BY <1>1, <1>3, <1>4, ClockedOn, Quiet DEF VInv
<1>5. CASE stage' = "done" /\ row' = NoRow
  BY <1>1, <1>2, <1>3, <1>5, RowFailed, EndsNobodys
<1> QED BY <1>1, <1>4, <1>5

LEMMA CrossVerdict == IInv /\ VInv /\ Cross => VInv'
<1> SUFFICES ASSUME IInv, VInv, Cross PROVE VInv'
  OBVIOUS
<1>1. stage' = "post" /\ ask' = ask /\ here' = here /\ marks' = marks
  BY DEF Cross
<1> QED BY <1>1, ClockedOn, Quiet DEF VInv, Clocked

LEMMA RefuseVerdict == ASSUME NEW why \in {"dead", "refused", "no infill"} PROVE IInv /\ VInv /\ Refuse(why) => VInv'
<1> SUFFICES ASSUME IInv, VInv, Refuse(why) PROVE VInv'
  OBVIOUS
<1>1. /\ ask' = ask /\ here' = here /\ marks' = marks /\ fate' = why
      /\ ~Agent => /\ stage' = "done"
                   /\ row' = IF Door = "infill" /\ why = "no infill" THEN [NoRow EXCEPT !.verdict = "unsupported"]
                             ELSE RowOf(Error)
  BY DEF Refuse, Record
<1>2. Clocked /\ DOMAIN marks = {"reads", "zero"}
  BY DEF VInv, Clocked
<1>3. CASE Agent
  BY <1>1, <1>2, <1>3, ClockedOn, Quiet, Fixed DEF VInv
<1>4. CASE ~Agent
  <2>1. /\ row'.verdict \in {"unavailable", "unsupported", "none"} /\ row'.measured = FALSE
        /\ row'.verdict = "unsupported" => why = "no infill"
    BY <1>1, <1>4, RowFailed
  <2> QED BY <1>1, <1>2, <1>4, <2>1, EndsNobodys
<1> QED BY <1>3, <1>4

LEMMA AcceptVerdict == IInv /\ VInv /\ Accept => VInv'
<1> SUFFICES ASSUME IInv, VInv, Accept PROVE VInv'
  OBVIOUS
<1>1. /\ stage = "post" /\ ask' = ask /\ here' = here /\ marks' = marks /\ fate' = "answering"
      /\ answer' \in Answers /\ sent' = sent /\ frames' = frames
      /\ ~Agent => stage' \in {"relay", "reply"}
  BY DEF Accept
<1>2. Clocked /\ DOMAIN marks = {"reads", "zero"}
  BY DEF VInv, Clocked
<1>3. CASE Agent
  BY <1>1, <1>2, <1>3, ClockedOn, Quiet, Fixed DEF VInv
<1>4. CASE ~Agent
  <2>1. sent = 0 /\ frames = <<>>
    BY <1>1, StagesDiffer DEF IInv, Early
  <2>2. NF(answer') \in Nat /\ NF(answer)' = NF(answer')
    BY <1>1, Answerable, Sizes
  <2>3. sent' # NF(answer)' + 1
    BY <1>1, <2>1, <2>2
  <2>4. Len(frames') = 0
    BY <1>1, <2>1, Empty
  <2>5. \A i \in 1..Len(frames') : FALSE
    BY <2>4
  <2>6. Noting'
    BY <1>1, <2>3, <2>5 DEF Noting
  <2>7. Clocked'
    BY <1>1, <1>2, <1>4, <2>6, Fixed DEF Clocked
  <2> QED BY <1>1, <1>4, <2>7, Quiet DEF VInv
<1> QED BY <1>3, <1>4

LEMMA BreakVerdict == IInv /\ VInv /\ (BreakReply \/ BreakStream) => VInv'
<1> SUFFICES ASSUME IInv, VInv, BreakReply \/ BreakStream PROVE VInv'
  OBVIOUS
<1>1. /\ ask' = ask /\ here' = here /\ marks' = marks /\ fate' = "broken"
      /\ ~Agent => stage' = "done" /\ row' = RowOf(Error)
  BY DEF BreakReply, BreakStream, Record
<1>2. Clocked /\ DOMAIN marks = {"reads", "zero"}
  BY DEF VInv, Clocked
<1>3. CASE Agent
  BY <1>1, <1>2, <1>3, ClockedOn, Quiet, Fixed DEF VInv
<1>4. CASE ~Agent
  BY <1>1, <1>2, <1>4, RowFailed, EndsNobodys
<1> QED BY <1>3, <1>4

LEMMA WholeReplyVerdict == IInv /\ VInv /\ WholeReply => VInv'
<1> SUFFICES ASSUME IInv, VInv, WholeReply PROVE VInv'
  OBVIOUS
<1>1. /\ stage = "reply" /\ ask' = ask /\ here' = here /\ marks' = marks /\ fate' = "whole" /\ answer' = answer
      /\ stage' = "done"
      /\ ~Agent => row' = IF Door = "infill" THEN InfillRow(answer.content, timings')
                          ELSE RowOf(CrossBuffered(ToAnthropicResponse(answer), timings'))
  BY DEF WholeReply, Record, Answer
<1>2. Clocked /\ DOMAIN marks = {"reads", "zero"}
  BY DEF VInv, Clocked
<1>3. CASE Agent
  BY <1>1, <1>2, <1>3, ClockedOn, Quiet, Fixed DEF VInv
<1>4. CASE ~Agent
  <2>1. Regular(answer) /\ ~Streaming
    BY <1>1, Answerable DEF IInv, Order
  <2>2. Door \in {"infill", "untimed", "buffered"}
    BY <1>4, <2>1, Doors
  <2>3. Door' = Door
    BY <1>1, FixedVerdict
  <2>4. Measurable' <=> Door = "untimed" \/ timings' = "all"
    BY <2>2, <2>3, SuitsIs DEF Suits
  <2>5. CASE Door = "infill" /\ timings' = "all"
    <3>1. InfillRow(answer.content, timings') = [NoRow EXCEPT !.verdict = "filled", !.measured = TRUE, !.fill = answer.content]
      BY <2>5 DEF InfillRow, ReadTimings
    <3>2. row'.verdict = "filled" /\ row'.measured = TRUE /\ row'.fill = answer.content
      BY <1>1, <1>4, <2>5, <3>1 DEF NoRow
    <3>3. ask.case.suite = "codebase"
      BY <2>5, Doors
    <3>4. Deserved = "filled"
      BY <2>5, <3>3 DEF Deserved
    <3> QED BY <1>1, <1>2, <1>4, <2>4, <2>5, <3>2, <3>4, EndsTheirs
  <2>6. CASE Door = "infill" /\ timings' # "all"
    <3>1. row' = Unavailable
      BY <1>1, <1>4, <2>6 DEF InfillRow, ReadTimings
    <3> QED BY <1>1, <1>2, <1>4, <2>4, <2>6, <3>1, RowFailed, EndsNobodys
  <2>7. CASE Door # "infill" /\ (Door = "untimed" \/ timings' = "all")
    <3> DEFINE timed == Door # "untimed"
    <3>1. CrossBuffered(ToAnthropicResponse(answer), timings') = Crossed(ToAnthropicResponse(answer), timed)
      BY <2>7 DEF CrossBuffered, ReadTimings
    <3>2. row' = RowOf(Crossed(ToAnthropicResponse(answer), timed))
      BY <1>1, <1>4, <2>7, <3>1
    <3>3. timed \in BOOLEAN /\ (timed <=> Door # "untimed")
      OBVIOUS
    <3> HIDE DEF timed
    <3>4. /\ row'.verdict = Deserved
          /\ row'.measured <=> (Door # "untimed" /\ row'.verdict # "unavailable")
          /\ row'.verdict = "filled" => row'.fill = NormalizeChatFill(Visible)
      BY <1>4, <2>1, <2>7, <3>2, <3>3, BenchCase, RowIs
    <3> QED BY <1>1, <1>2, <1>4, <2>4, <2>7, <3>4, EndsTheirs
  <2>8. CASE Door = "buffered" /\ timings' # "all"
    <3>1. CrossBuffered(ToAnthropicResponse(answer), timings') = Error
      BY <2>8 DEF CrossBuffered, ReadTimings
    <3> QED BY <1>1, <1>2, <1>4, <2>4, <2>8, <3>1, RowFailed, EndsNobodys
  <2> QED BY <2>2, <2>5, <2>6, <2>7, <2>8
<1> QED BY <1>3, <1>4

LEMMA SendFrameVerdict == IInv /\ VInv /\ SendFrame => VInv'
<1> SUFFICES ASSUME IInv, VInv, SendFrame PROVE VInv'
  OBVIOUS
<1> DEFINE frame(n) == FoldLeft(Merge, Atom, SubSeq(Atoms(answer), sent + 1, sent + n))
<1>1. /\ stage = "relay" /\ fate = "answering" /\ ask' = ask /\ here' = here /\ fate' = fate /\ answer' = answer
      /\ DOMAIN marks' = DOMAIN marks
  <2>1. ReadMarks
    BY DEF SendFrame
  <2>2. DOMAIN marks' = DOMAIN marks
    BY <2>1 DEF ReadMarks
  <2> QED BY <2>2 DEF SendFrame
<1>2. Clocked /\ DOMAIN marks = {"reads", "zero"}
  BY DEF VInv, Clocked
<1>3. CASE Agent
  BY <1>1, <1>2, <1>3, ClockedOn, Quiet, Fixed DEF VInv
<1>4. CASE ~Agent
  <2>1. /\ Regular(answer) /\ sent \in 0..(NF(answer) + 1) /\ IsList(frames)
        /\ \A i \in 1..Len(frames) : Noted(frames[i], answer, i = Len(frames) /\ sent = NF(answer) + 1, timings)
    BY <1>1, <1>2, <1>4, Answerable DEF IInv, Order, Streams, Clocked, Noting
  <2>2. PICK n \in 1..(Len(Atoms(answer)) - sent) :
             /\ sent' = sent + n
             /\ timings' \in (IF sent' = Len(Atoms(answer)) THEN Measures ELSE {"none"})
             /\ frames' = Append(frames, [frame(n) EXCEPT !.timings = timings'])
             /\ stage' = stage
    BY <1>4 DEF SendFrame
  <2> DEFINE k == sent
             l == sent + n
             g == FrameOf(answer, k, l)
             f == [frame(n) EXCEPT !.timings = timings']
  <2>3. Len(Atoms(answer)) = NF(answer) + 1 /\ NF(answer) \in Nat
    BY <2>1, AtomsAre, Sizes
  <2>4. k \in Nat /\ k < NF(answer) + 1 /\ l \in k..(NF(answer) + 1) /\ k \in 0..(NF(answer) + 1)
    BY <2>1, <2>2, <2>3
  <2>5. frame(n) = g
    BY <2>1, <2>4, FrameIs
  <2>6. f.timings = timings' /\ f.usage = g.usage
    <3> HIDE DEF frame
    <3> QED BY <2>5 DEF FrameOf, Frame
  <2>7. frames' = Append(frames, f) /\ sent' = l
    BY <2>2
  <2> HIDE DEF f, frame
  <2>8. g.usage = IF l = NF(answer) + 1 THEN answer.usage ELSE Absent
    <3>1. g.usage = IF k < NF(answer) + 1 /\ NF(answer) + 1 <= l THEN answer.usage ELSE Absent
      BY DEF FrameOf, Frame
    <3>2. k < NF(answer) + 1 /\ NF(answer) + 1 <= l <=> l = NF(answer) + 1
      BY <2>3, <2>4
    <3> QED BY <3>1, <3>2
  <2> HIDE DEF g
  <2>9. l # NF(answer) + 1 => timings' = "none"
    BY <2>2, <2>3
  <2>10. Noted(f, answer, l = NF(answer) + 1, timings')
    BY <2>6, <2>8, <2>9 DEF Noted
  <2>11. k # NF(answer) + 1
    BY <2>3, <2>4
  <2> HIDE DEF l
  <2>12. /\ IsList(frames') /\ Len(frames') = Len(frames) + 1 /\ Len(frames) \in Nat
         /\ \A i \in 1..Len(frames) : frames'[i] = frames[i]
         /\ frames'[Len(frames) + 1] = f
    BY <2>1, <2>7, Appended, ListPlaces
  <2>13. ASSUME NEW i \in 1..Len(frames')
         PROVE  Noted(frames'[i], answer, i = Len(frames') /\ sent' = NF(answer) + 1, timings')
    <3>1. CASE i = Len(frames')
      BY <2>7, <2>10, <2>12, <3>1
    <3>2. CASE i # Len(frames')
      <4>1. i \in 1..Len(frames)
        BY <2>12, <3>2
      <4>2. Noted(frames[i], answer, FALSE, timings)
        BY <2>1, <2>11, <4>1 DEF Noted
      <4>3. Noted(frames'[i], answer, FALSE, timings')
        BY <2>12, <4>1, <4>2 DEF Noted
      <4> QED BY <3>2, <4>3 DEF Noted
    <3> QED BY <3>1, <3>2
  <2>14. frames' # <<>>
    BY <2>12, Empty
  <2>15. NF(answer)' = NF(answer)
    BY <1>1
  <2>16. Noting'
    BY <1>1, <1>4, <2>13, <2>14, <2>15, Fixed DEF Noting
  <2>17. Clocked'
    BY <1>1, <1>2, <1>4, <2>2, <2>16, Fixed DEF Clocked
  <2> QED BY <1>1, <2>2, <2>17, Quiet DEF VInv
<1> QED BY <1>3, <1>4

LEMMA SendErrorVerdict == IInv /\ VInv /\ SendError => VInv'
<1> SUFFICES ASSUME IInv, VInv, SendError PROVE VInv'
  OBVIOUS
<1>1. /\ stage = "relay" /\ fate = "answering" /\ ask' = ask /\ here' = here /\ fate' = "errored" /\ answer' = answer
      /\ DOMAIN marks' = DOMAIN marks
      /\ ~Agent => frames' = Append(frames, ErrorFrame) /\ stage' = stage
  <2>1. ReadMarks
    BY DEF SendError
  <2>2. DOMAIN marks' = DOMAIN marks
    BY <2>1 DEF ReadMarks
  <2> QED BY <2>2 DEF SendError
<1>2. Clocked /\ DOMAIN marks = {"reads", "zero"}
  BY DEF VInv, Clocked
<1>3. CASE Agent
  BY <1>1, <1>2, <1>3, ClockedOn, Quiet, Fixed DEF VInv
<1>4. CASE ~Agent
  <2>1. IsList(frames) /\ Progress(Reading, answer, sent) /\ Reading = Translated(frames)
    BY <1>1, <1>2, <1>4 DEF IInv, Streams, Clocked, Reading
  <2>2. Carries(Translated(frames))
    BY <2>1, HoldsCarries DEF Progress
  <2>3. \A t : OnChunk(t, ErrorFrame) = Abort(t)
    <3>1. ErrorFrame.type = "error"
      BY DEF ErrorFrame, Atom
    <3> HIDE DEF ErrorFrame
    <3>2. ~(ErrorFrame.type \in {"done", "junk"})
      BY <3>1
    <3> QED BY <3>1, <3>2 DEF OnChunk
  <2>4. Translated(frames') = Abort(Translated(frames))
    BY <1>1, <1>4, <2>1, <2>3, FoldChunksMore
  <2>5. Assemble(Finish(Translated(frames')).events) = Failed
    BY <2>2, <2>4, AbortedFails
  <2>6. Noting'
    BY <1>1, <2>5 DEF Noting
  <2>7. Clocked'
    BY <1>1, <1>2, <1>4, <2>6, Fixed DEF Clocked
  <2> QED BY <1>1, <1>4, <2>7, Quiet DEF VInv
<1> QED BY <1>3, <1>4

LEMMA EndStreamVerdict == IInv /\ VInv /\ EndStream => VInv'
<1> SUFFICES ASSUME IInv, VInv, EndStream PROVE VInv'
  OBVIOUS
<1>1. /\ stage = "relay" /\ ask' = ask /\ here' = here /\ answer' = answer /\ timings' = timings /\ stage' = "done"
      /\ fate' = (IF fate = "errored" THEN fate ELSE IF sent = Len(Atoms(answer)) THEN "whole" ELSE "cut")
      /\ Agent => marks' = marks
      /\ ~Agent => \E zero \in BOOLEAN : marks' = [marks EXCEPT !.zero = zero] /\ row' = RowOf(CrossStream(zero))
  BY DEF EndStream, Record
<1>2. Clocked /\ DOMAIN marks = {"reads", "zero"}
  BY DEF VInv, Clocked
<1>3. CASE Agent
  BY <1>1, <1>2, <1>3, ClockedOn, Quiet, Fixed DEF VInv
<1>4. CASE ~Agent
  <2>1. PICK zero \in BOOLEAN : marks' = [marks EXCEPT !.zero = zero] /\ row' = RowOf(CrossStream(zero))
    BY <1>1, <1>4
  <2>2. marks'.reads = marks.reads /\ marks'.zero = zero /\ DOMAIN marks' = {"reads", "zero"}
    BY <1>2, <2>1
  <2>3. Regular(answer) /\ Streaming /\ fate \in {"answering", "errored"} /\ sent \in 0..(NF(answer) + 1)
    BY <1>1, Answerable DEF IInv, Order
  <2>4. Door \in {"streamed", "timed"} /\ Door' = Door
    BY <1>1, <1>4, <2>3, Doors, FixedVerdict
  <2> DEFINE message == Assemble(Finish(Translated(frames)).events)
             timed == IF Door = "timed" THEN frames # <<>> /\ TimingsFromStream(LastOf("usage", Absent), zero)
                      ELSE ReadTimings(LastOf("timings", "none"))
  <2>5. CrossStream(zero) = IF message = Failed \/ ~timed THEN Error ELSE Crossed(message, TRUE)
    BY DEF CrossStream
  <2>6. Len(Atoms(answer)) = NF(answer) + 1 /\ NF(answer) \in Nat
    BY <2>3, AtomsAre, Sizes
  <2>7. CASE fate = "errored"
    <3>1. message = Failed
      BY <1>1, <1>2, <1>4, <2>7 DEF Clocked, Noting
    <3>2. row' = RowOf(Error) /\ fate' = "errored"
      BY <1>1, <2>1, <2>5, <2>7, <3>1
    <3> QED BY <1>1, <1>2, <1>4, <2>2, <3>2, RowFailed, EndsNobodys
  <2>8. CASE fate = "answering"
    <3>1. /\ IsList(frames) /\ Progress(Reading, answer, sent) /\ Reading = Translated(frames)
          /\ \A i \in 1..Len(frames) : Noted(frames[i], answer, i = Len(frames) /\ sent = NF(answer) + 1, timings)
          /\ sent = NF(answer) + 1 => frames # <<>>
      BY <1>1, <1>2, <1>4, <2>8 DEF IInv, Streams, Reading, Clocked, Noting
    <3>2. CASE sent = NF(answer) + 1
      <4>1. message = ToAnthropicResponse(answer) /\ message # Failed
        BY <2>3, <3>1, <3>2, StreamedIsBuffered, NotFailed
      <4>2. LastOf("usage", Absent) = answer.usage
        <5>1. \A i \in 1..Len(frames) : frames[i]["usage"] = IF i = Len(frames) THEN answer.usage ELSE Absent
          BY <3>1, <3>2 DEF Noted
        <5> QED BY <3>1, <3>2, <5>1, LastOfIs
      <4>3. LastOf("timings", "none") = timings
        <5>1. \A i \in 1..Len(frames) : frames[i]["timings"] = IF i = Len(frames) THEN timings ELSE "none"
          BY <3>1, <3>2 DEF Noted
        <5> QED BY <3>1, <3>2, <5>1, LastOfIs
      <4>4. timed <=> Measurable'
        <5>1. CASE Door = "timed"
          <6>1. timed <=> TimingsFromStream(answer.usage, zero)
            BY <3>1, <3>2, <4>2, <5>1
          <6>2. Measurable' <=> /\ answer.usage # Absent /\ answer.usage.prompt > 0 /\ answer.usage.completion > 1
                                /\ marks.reads > 1 /\ ~zero
            BY <1>1, <2>2, <2>4, <5>1, SuitsIs DEF Suits
          <6> QED BY <6>1, <6>2 DEF TimingsFromStream
        <5>2. CASE Door = "streamed"
          <6>1. timed <=> timings = "all"
            BY <4>3, <5>2 DEF ReadTimings
          <6>2. Measurable' <=> timings = "all"
            BY <1>1, <2>4, <5>2, SuitsIs DEF Suits
          <6> QED BY <6>1, <6>2
        <5> QED BY <2>4, <5>1, <5>2
      <4>5. fate' = "whole"
        BY <1>1, <2>6, <2>8, <3>2
      <4> HIDE DEF message, timed
      <4>6. CASE timed
        <5>1. row' = RowOf(Crossed(ToAnthropicResponse(answer), TRUE))
          BY <2>1, <2>5, <4>1, <4>6
        <5>2. TRUE \in BOOLEAN /\ (TRUE <=> Door # "untimed") /\ Door # "infill"
          BY <2>4
        <5>3. /\ row'.verdict = Deserved
              /\ row'.measured <=> (Door # "untimed" /\ row'.verdict # "unavailable")
              /\ row'.verdict = "filled" => row'.fill = NormalizeChatFill(Visible)
          BY <1>4, <2>3, <5>1, <5>2, BenchCase, RowIs
        <5> QED BY <1>1, <1>2, <1>4, <2>2, <4>4, <4>5, <4>6, <5>2, <5>3, EndsTheirs
      <4>7. CASE ~timed
        <5>1. row' = RowOf(Error)
          BY <2>1, <2>5, <4>7
        <5> QED BY <1>1, <1>2, <1>4, <2>2, <4>4, <4>7, <5>1, RowFailed, EndsNobodys
      <4> QED BY <4>6, <4>7
    <3>3. CASE sent # NF(answer) + 1
      <4>1. LastOf("usage", Absent) = Absent
        <5>1. \A i \in 1..Len(frames) : frames[i]["usage"] = Absent
          BY <3>1, <3>3 DEF Noted
        <5> QED BY <3>1, <5>1, NoLast
      <4>2. LastOf("timings", "none") = "none"
        <5>1. \A i \in 1..Len(frames) : frames[i]["timings"] = "none"
          BY <3>1, <3>3 DEF Noted
        <5> QED BY <3>1, <5>1, NoLast
      <4>3. ~timed
        BY <4>1, <4>2 DEF TimingsFromStream, ReadTimings
      <4>4. row' = RowOf(Error)
        BY <2>1, <2>5, <4>3
      <4>5. fate' = "cut"
        BY <1>1, <2>6, <2>8, <3>3
      <4> QED BY <1>1, <1>2, <1>4, <2>2, <4>4, <4>5, RowFailed, EndsNobodys
    <3> QED BY <3>2, <3>3
  <2> QED BY <2>3, <2>7, <2>8
<1> QED BY <1>3, <1>4

LEMMA StutterVerdict == IInv /\ VInv /\ UNCHANGED vars => VInv'
<1> SUFFICES ASSUME VInv, UNCHANGED vars PROVE VInv'
  OBVIOUS
<1>1. /\ ask' = ask /\ stage' = stage /\ fate' = fate /\ answer' = answer /\ sent' = sent /\ frames' = frames
      /\ here' = here /\ marks' = marks /\ timings' = timings /\ row' = row
  BY DEF vars
<1>2. Noting'
  <2>1. NF(answer)' = NF(answer) /\ Assemble(Finish(Translated(frames)).events)' = Assemble(Finish(Translated(frames)).events)
    BY <1>1
  <2> QED BY <1>1, <2>1, Fixed DEF VInv, Clocked, Noting
<1>3. Clocked'
  BY <1>1, <1>2, Fixed DEF VInv, Clocked
<1>4. Deserved' = Deserved /\ Door' = Door /\ Visible' = Visible
  BY <1>1, FixedVerdict
<1>5. Measurable' <=> Measurable
  BY <1>1, <1>4, SuitsIs
<1>6. (Theirs' <=> Theirs) /\ (Nobodys' <=> Nobodys)
  BY <1>1, <1>4 DEF Theirs, Nobodys
<1>7. VerdictIsTheModels' <=> (stage' = "done" /\ ~Agent' => IF fate' = "whole" /\ Measurable' THEN Theirs' ELSE Nobodys')
  BY DEF VerdictIsTheModels, Theirs, Nobodys
<1>8. VerdictIsTheModels'
  BY <1>1, <1>5, <1>6, <1>7, VerdictIs, Fixed DEF VInv
<1> QED BY <1>3, <1>8 DEF VInv

LEMMA NextVerdict == IInv /\ VInv /\ [Next]_vars => VInv'
<1>1. \A why \in {"dead", "refused", "no infill"} : IInv /\ VInv /\ Refuse(why) => VInv'
  BY RefuseVerdict
<1>2. Done => UNCHANGED vars
  BY DEF Done
<1> HIDE DEF IInv, VInv
<1> QED BY <1>1, <1>2, AgentSteps, ReadyVerdict, CrossVerdict, AcceptVerdict, WholeReplyVerdict, BreakVerdict,
           SendFrameVerdict, SendErrorVerdict, EndStreamVerdict, StutterVerdict
        DEF Next

-----------------------------------------------------------------------------
(* The theorems.                                                           *)

\* However a reply is cut into frames, the agent or the grader that holds all
\* of it holds the message that the buffered translation makes of the same
\* reply (ClaudeStream and to_anthropic_response): for every regular answer.
THEOREM SameMessageAlways == Spec => []SameMessage
<1>1. IInv => SameMessage
  BY DEF IInv, Closing, SameMessage
<1> QED BY <1>1, IInvAlways, PTL

\* An agent that stays is told what happened (serve_connection and relay).
THEOREM ClientIsAnsweredAlways == Spec => []ClientIsAnswered
<1>1. IInv => ClientIsAnswered
  <2> SUFFICES ASSUME IInv, stage = "done", Agent, here
               PROVE  CASE ~Readable(ask.http) -> status = 400
                        [] Readable(ask.http) /\ posted = Absent -> status = LocalStatus
                        [] fate \in {"dead", "refused", "no infill"} -> status = 502
                        [] fate \in {"whole", "cut"} ->
                             status = 200 /\ (Streaming => Told("message_stop") /\ ~Told("error"))
                        [] fate = "errored" \/ (fate = "broken" /\ Streaming) -> Told("error") /\ ~Told("message_stop")
                        [] OTHER -> status = Absent
    BY Zenon DEF ClientIsAnswered
  <2>1. Outcome
    BY DEF IInv, Closing
  <2>2. \A e : Told(e) <=> Heard(tr, e)
    BY DEF Told, Heard
  <2>3. CASE posted = Absent
    BY <2>1, <2>3 DEF Outcome
  <2>4. CASE posted # Absent
    <3>1. Readable(ask.http)
      BY <2>1, <2>4 DEF Outcome
    <3>2. CASE fate \in {"dead", "refused", "no infill"}
      BY <2>1, <2>4, <3>1, <3>2 DEF Outcome
    <3>3. CASE fate \in {"whole", "cut"}
      <4>1. status = 200 /\ (Streaming => Heard(tr, "message_stop") /\ ~Heard(tr, "error"))
        BY <2>1, <2>4, <3>3 DEF Outcome
      <4> QED BY <2>2, <2>4, <3>1, <3>3, <4>1
    <3>4. CASE fate \in {"errored", "broken"}
      BY <2>1, <2>2, <2>4, <3>1, <3>4 DEF Outcome
    <3> QED BY <2>1, <2>4, <3>2, <3>3, <3>4 DEF Outcome
  <2> QED BY <2>3, <2>4
<1> QED BY <1>1, IInvAlways, PTL

\* A bench row is the model's only when the reply came whole and could be timed,
\* and then what the answer deserves by whichever door it came; a reply that
\* never came whole is nobody's verdict and measures nothing (cross_inner,
\* cross_untimed, cross_streaming, cross_stream_timed, outcome_row).
THEOREM VerdictIsTheModelsAlways == Spec => []VerdictIsTheModels
<1>1. Spec => []VInv
  BY IInvAlways, InitVInv, NextVerdict, PTL DEF Spec
<1>2. VInv => VerdictIsTheModels
  BY DEF VInv
<1> QED BY <1>1, <1>2, PTL

-----------------------------------------------------------------------------
(* Lists mapped and laid end to end.                                       *)

Lists(s) == IsList(s) /\ \A i \in 1..Len(s) : IsList(s[i])
Mapped(f, s) == [i \in DOMAIN s |-> f[s[i]]]
FlatMap(f, s) == Flat(Mapped(f, s))
Valued(f, s) == IsList(s) /\ \A i \in 1..Len(s) : s[i] \in DOMAIN f /\ IsList(f[s[i]])

\* What goes as a fold goes is the fold.
LEMMA FlatIs ==
    ASSUME NEW s, IsList(s), NEW g, g[0] = <<>>, \A n \in 1..Len(s) : g[n] = g[n - 1] \o s[n]
    PROVE  g[Len(s)] = Flat(s)
<1>0. Len(s) \in Nat
  BY ListPlaces
<1>1. PICK h : /\ h[0] = <<>>
               /\ \A n \in 1..Len(s) : h[n] = h[n - 1] \o s[n]
               /\ h[Len(s)] = Flat(s)
  BY FoldFlat
<1> DEFINE Bad == {n \in 0..Len(s) : g[n] # h[n]}
<1>2. Bad = {}
  <2> SUFFICES ASSUME Bad # {} PROVE FALSE
    OBVIOUS
  <2>1. Bad \in SUBSET Nat
    BY <1>0
  <2>2. PICK m \in Bad : \A j \in Bad : m <= j
    BY <2>1, LeastNumber, Zenon
  <2>3. m \in 1..Len(s) /\ m - 1 \in 0..Len(s) /\ ~(m <= m - 1)
    BY <1>0, <1>1
  <2>4. g[m - 1] = h[m - 1]
    BY <2>2, <2>3
  <2> QED BY <1>1, <2>3, <2>4
<1> QED BY <1>0, <1>1, <1>2

\* The prefixes a fold goes through are lists.
LEMMA FlatPrefixes ==
    ASSUME NEW s, Lists(s)
    PROVE  \E h : /\ h[0] = <<>>
                  /\ \A n \in 1..Len(s) : h[n] = h[n - 1] \o s[n]
                  /\ h[Len(s)] = Flat(s)
                  /\ \A n \in 0..Len(s) : IsList(h[n])
<1>0. Len(s) \in Nat /\ IsList(s)
  BY ListPlaces DEF Lists
<1>1. PICK h : /\ h[0] = <<>>
               /\ \A n \in 1..Len(s) : h[n] = h[n - 1] \o s[n]
               /\ h[Len(s)] = Flat(s)
  BY <1>0, FoldFlat
<1> DEFINE Bad == {n \in 0..Len(s) : ~IsList(h[n])}
<1>2. Bad = {}
  <2> SUFFICES ASSUME Bad # {} PROVE FALSE
    OBVIOUS
  <2>1. Bad \in SUBSET Nat
    BY <1>0
  <2>2. PICK m \in Bad : \A j \in Bad : m <= j
    BY <2>1, LeastNumber, Zenon
  <2>3. m \in 1..Len(s) /\ m - 1 \in 0..Len(s) /\ ~(m <= m - 1)
    BY <1>0, <1>1, Empty
  <2>4. IsList(h[m - 1]) /\ IsList(s[m]) /\ h[m] = h[m - 1] \o s[m]
    BY <1>1, <2>2, <2>3 DEF Lists
  <2>5. IsList(h[m])
    BY <2>4, Joined
  <2> QED BY <2>5
<1> QED BY <1>1, <1>2

LEMMA FlatList ==
    ASSUME NEW s, Lists(s)
    PROVE  IsList(Flat(s))
<1>1. Len(s) \in 0..Len(s)
  BY ListPlaces DEF Lists
<1> QED BY <1>1, FlatPrefixes

LEMMA JoinedThrice ==
    ASSUME NEW s, IsList(s), NEW t, IsList(t), NEW u, IsList(u)
    PROVE  (s \o t) \o u = s \o (t \o u)
<1> DEFINE S == Range(s) \cup Range(t) \cup Range(u)
<1>1. s \in Seq(Range(s)) /\ t \in Seq(Range(t)) /\ u \in Seq(Range(u))
  BY DEF IsList
<1>2. Range(s) \subseteq S /\ Range(t) \subseteq S /\ Range(u) \subseteq S
  OBVIOUS
<1>3. s \in Seq(S) /\ t \in Seq(S) /\ u \in Seq(S)
  BY <1>1, <1>2, SeqMonotonic
<1> HIDE DEF S
<1> QED BY <1>3, ConcatAssociative

LEMMA FlatJoin ==
    ASSUME NEW s, Lists(s), NEW t, Lists(t)
    PROVE  Lists(s \o t) /\ Flat(s \o t) = Flat(s) \o Flat(t)
<1>0. /\ IsList(s) /\ IsList(t) /\ Len(s) \in Nat /\ Len(t) \in Nat
      /\ IsList(s \o t) /\ Len(s \o t) = Len(s) + Len(t)
      /\ \A i \in 1..Len(s) : (s \o t)[i] = s[i]
      /\ \A i \in 1..Len(t) : (s \o t)[Len(s) + i] = t[i]
  BY ListPlaces, Joined DEF Lists
<1>1. PICK h : /\ h[0] = <<>>
               /\ \A n \in 1..Len(s) : h[n] = h[n - 1] \o s[n]
               /\ h[Len(s)] = Flat(s)
               /\ \A n \in 0..Len(s) : IsList(h[n])
  BY FlatPrefixes
<1>2. PICK k : /\ k[0] = <<>>
               /\ \A n \in 1..Len(t) : k[n] = k[n - 1] \o t[n]
               /\ k[Len(t)] = Flat(t)
               /\ \A n \in 0..Len(t) : IsList(k[n])
  BY FlatPrefixes
<1> DEFINE g == [n \in 0..(Len(s) + Len(t)) |-> IF n <= Len(s) THEN h[n] ELSE Flat(s) \o k[n - Len(s)]]
<1>3. IsList(Flat(s))
  BY FlatList
<1>4. Flat(s) \o k[0] = Flat(s)
  BY <1>2, <1>3, JoinedNone
<1>5. \A n \in 0..Len(s) : g[n] = h[n]
  BY <1>0
<1>6. \A n \in 0..Len(t) : g[Len(s) + n] = Flat(s) \o k[n]
  <2> SUFFICES ASSUME NEW n \in 0..Len(t) PROVE g[Len(s) + n] = Flat(s) \o k[n]
    OBVIOUS
  <2>1. CASE n = 0
    <3>1. Len(s) + n = Len(s) /\ Len(s) \in 0..Len(s)
      BY <1>0, <2>1
    <3> QED BY <1>1, <1>4, <1>5, <2>1, <3>1
  <2>2. CASE n # 0
    <3>1. Len(s) + n \in 0..(Len(s) + Len(t)) /\ ~(Len(s) + n <= Len(s)) /\ (Len(s) + n) - Len(s) = n
      BY <1>0, <2>2
    <3> QED BY <3>1
  <2> QED BY <2>1, <2>2
<1> HIDE DEF g
<1>7. ASSUME NEW n \in 1..(Len(s) + Len(t)) PROVE g[n] = g[n - 1] \o (s \o t)[n]
  <2>1. CASE n <= Len(s)
    <3>1. n \in 1..Len(s) /\ n \in 0..Len(s) /\ n - 1 \in 0..Len(s)
      BY <1>0, <2>1
    <3>2. h[n] = h[n - 1] \o s[n] /\ (s \o t)[n] = s[n] /\ g[n] = h[n] /\ g[n - 1] = h[n - 1]
      BY <1>0, <1>1, <1>5, <3>1
    <3> QED BY <3>2
  <2>2. CASE ~(n <= Len(s))
    <3> DEFINE m == n - Len(s)
    <3>1. m \in 1..Len(t) /\ m \in 0..Len(t) /\ m - 1 \in 0..Len(t) /\ n = Len(s) + m /\ n - 1 = Len(s) + (m - 1)
      BY <1>0, <2>2
    <3> HIDE DEF m
    <3>2. /\ g[n] = Flat(s) \o k[m] /\ g[n - 1] = Flat(s) \o k[m - 1]
          /\ (s \o t)[n] = t[m] /\ k[m] = k[m - 1] \o t[m] /\ IsList(k[m - 1]) /\ IsList(t[m])
      BY <1>0, <1>2, <1>6, <3>1 DEF Lists
    <3>3. PICK x, y, z, gn, gm, u : x = Flat(s) /\ y = k[m - 1] /\ z = t[m] /\ gn = g[n] /\ gm = g[n - 1] /\ u = (s \o t)[n]
      OBVIOUS
    <3>4. IsList(x) /\ IsList(y) /\ IsList(z) /\ gn = x \o (y \o z) /\ gm = x \o y /\ u = z
      BY <1>3, <3>2, <3>3
    <3>5. (x \o y) \o z = x \o (y \o z)
      BY ONLY <3>4, JoinedThrice
    <3>6. gn = gm \o u
      BY ONLY <3>4, <3>5
    <3> QED BY <3>3, <3>6
  <2> QED BY <2>1, <2>2
<1>8. 0 \in 0..Len(s) /\ g[0] = <<>>
  BY <1>0, <1>1, <1>5
<1>9. g[Len(s \o t)] = Flat(s \o t)
  <2>1. \A n \in 1..Len(s \o t) : g[n] = g[n - 1] \o (s \o t)[n]
    BY <1>0, <1>7
  <2> QED BY ONLY <1>0, <1>8, <2>1, FlatIs
<1>10. g[Len(s \o t)] = Flat(s) \o Flat(t)
  <2>1. Len(t) \in 0..Len(t)
    BY <1>0
  <2> QED BY <1>0, <1>2, <1>6, <2>1
<1>11. ASSUME NEW i \in 1..Len(s \o t) PROVE IsList((s \o t)[i])
  <2>1. CASE i <= Len(s)
    BY <1>0, <2>1 DEF Lists
  <2>2. CASE ~(i <= Len(s))
    <3>1. i - Len(s) \in 1..Len(t) /\ i = Len(s) + (i - Len(s))
      BY <1>0, <2>2
    <3> QED BY <1>0, <3>1 DEF Lists
  <2> QED BY <2>1, <2>2
<1> QED BY <1>0, <1>9, <1>10, <1>11 DEF Lists

\* A list of one, and a list of nothing but empty ones.
LEMMA FlatOne ==
    ASSUME NEW s, IsList(s)
    PROVE  Flat(<<s>>) = s
<1>1. IsList(<<s>>) /\ Len(<<s>>) = 1 /\ <<s>>[1] = s
  BY One
<1> DEFINE g == [n \in 0..1 |-> IF n = 0 THEN <<>> ELSE s]
<1>2. g[0] = <<>> /\ \A n \in 1..Len(<<s>>) : g[n] = g[n - 1] \o <<s>>[n]
  <2>1. <<>> \o s = s
    BY JoinedNone
  <2>2. g[0] = <<>> /\ g[1] = s
    OBVIOUS
  <2> HIDE DEF g
  <2>3. \A n \in 1..1 : n = 1 /\ n - 1 = 0
    OBVIOUS
  <2> QED BY <1>1, <2>1, <2>2, <2>3
<1>3. g[Len(<<s>>)] = s
  BY <1>1
<1> HIDE DEF g
<1>4. g[Len(<<s>>)] = Flat(<<s>>)
  BY ONLY <1>1, <1>2, FlatIs
<1> QED BY <1>3, <1>4

LEMMA FlatNothing ==
    ASSUME NEW s, IsList(s), \A i \in 1..Len(s) : s[i] = <<>>
    PROVE  Flat(s) = <<>>
<1>0. Len(s) \in Nat
  BY ListPlaces
<1> DEFINE g == [n \in 0..Len(s) |-> <<>>]
<1>1. <<>> \o <<>> = <<>>
  BY Empty, JoinedNone
<1>2. g[0] = <<>> /\ \A n \in 1..Len(s) : g[n] = g[n - 1] \o s[n]
  BY <1>0, <1>1
<1>3. g[Len(s)] = <<>>
  BY <1>0
<1> HIDE DEF g
<1> QED BY <1>2, <1>3, FlatIs

LEMMA MappedIs ==
    ASSUME NEW f, NEW s, IsList(s)
    PROVE  IsList(Mapped(f, s)) /\ Len(Mapped(f, s)) = Len(s) /\ \A i \in 1..Len(s) : Mapped(f, s)[i] = f[s[i]]
<1>1. Len(s) \in Nat /\ DOMAIN s = 1..Len(s)
  BY ListPlaces
<1> DEFINE m == [i \in 1..Len(s) |-> f[s[i]]]
<1>2. m = [i \in 1..Len(s) |-> m[i]] /\ \A i \in 1..Len(s) : m[i] = f[s[i]]
  OBVIOUS
<1>3. Mapped(f, s) = m
  BY <1>1 DEF Mapped
<1> HIDE DEF m
<1>4. IsList(m) /\ Len(m) = Len(s)
  BY <1>1, <1>2, Built
<1> QED BY <1>2, <1>3, <1>4

LEMMA ValuedMapped == ASSUME NEW f, NEW s, Valued(f, s) PROVE Lists(Mapped(f, s))
BY MappedIs DEF Valued, Lists

LEMMA FlatMapNone == ASSUME NEW f PROVE FlatMap(f, <<>>) = <<>>
<1>1. IsList(Mapped(f, <<>>)) /\ Len(Mapped(f, <<>>)) = 0
  BY Empty, MappedIs
<1>2. \A i \in 1..Len(Mapped(f, <<>>)) : Mapped(f, <<>>)[i] = <<>>
  BY <1>1
<1> QED BY <1>1, <1>2, FlatNothing DEF FlatMap

LEMMA FlatMapOne ==
    ASSUME NEW f, NEW x, IsList(f[x])
    PROVE  FlatMap(f, <<x>>) = f[x]
<1>1. IsList(<<x>>) /\ Len(<<x>>) = 1 /\ <<x>>[1] = x
  BY One
<1>2. IsList(Mapped(f, <<x>>)) /\ Len(Mapped(f, <<x>>)) = 1 /\ Mapped(f, <<x>>)[1] = f[x]
  BY <1>1, MappedIs
<1>3. IsList(<<f[x]>>) /\ Len(<<f[x]>>) = 1 /\ <<f[x]>>[1] = f[x]
  BY One
<1>4. Mapped(f, <<x>>) = <<f[x]>>
  BY <1>2, <1>3, Alike
<1> QED BY <1>4, FlatOne DEF FlatMap

LEMMA FlatMapJoin ==
    ASSUME NEW f, NEW s, Valued(f, s), NEW t, Valued(f, t)
    PROVE  Valued(f, s \o t) /\ FlatMap(f, s \o t) = FlatMap(f, s) \o FlatMap(f, t)
<1>0. /\ IsList(s) /\ IsList(t) /\ Len(s) \in Nat /\ Len(t) \in Nat
      /\ IsList(s \o t) /\ Len(s \o t) = Len(s) + Len(t)
      /\ \A i \in 1..Len(s) : (s \o t)[i] = s[i]
      /\ \A i \in 1..Len(t) : (s \o t)[Len(s) + i] = t[i]
  BY ListPlaces, Joined DEF Valued
<1> DEFINE ms == Mapped(f, s)
           mt == Mapped(f, t)
           mu == Mapped(f, s \o t)
<1>1. /\ Lists(ms) /\ Lists(mt) /\ Len(ms) = Len(s) /\ Len(mt) = Len(t)
      /\ \A i \in 1..Len(s) : ms[i] = f[s[i]]
      /\ \A i \in 1..Len(t) : mt[i] = f[t[i]]
  BY <1>0, ValuedMapped, MappedIs
<1>2. IsList(mu) /\ Len(mu) = Len(s) + Len(t) /\ \A i \in 1..(Len(s) + Len(t)) : mu[i] = f[(s \o t)[i]]
  <2>1. PICK u : u = s \o t
    OBVIOUS
  <2>2. IsList(Mapped(f, u)) /\ Len(Mapped(f, u)) = Len(u) /\ \A i \in 1..Len(u) : Mapped(f, u)[i] = f[u[i]]
    <3>1. IsList(u)
      BY <1>0, <2>1
    <3> QED BY ONLY <3>1, MappedIs
  <2>3. mu = Mapped(f, u)
    BY <2>1
  <2>4. Len(u) = Len(s) + Len(t)
    BY <1>0, <2>1
  <2>5. \A i \in 1..(Len(s) + Len(t)) : Mapped(f, u)[i] = f[(s \o t)[i]]
    BY ONLY <2>1, <2>2, <2>4
  <2> HIDE DEF mu
  <2> QED BY ONLY <2>2, <2>3, <2>4, <2>5
<1> HIDE DEF ms, mt, mu
<1>3. /\ IsList(ms \o mt) /\ Len(ms \o mt) = Len(s) + Len(t)
      /\ \A i \in 1..Len(s) : (ms \o mt)[i] = ms[i]
      /\ \A i \in 1..Len(t) : (ms \o mt)[Len(s) + i] = mt[i]
  <2>1. IsList(ms) /\ IsList(mt)
    BY <1>1 DEF Lists
  <2>2. /\ IsList(ms \o mt) /\ Len(ms \o mt) = Len(ms) + Len(mt)
        /\ \A i \in 1..Len(ms) : (ms \o mt)[i] = ms[i]
        /\ \A i \in 1..Len(mt) : (ms \o mt)[Len(ms) + i] = mt[i]
    BY ONLY <2>1, Joined
  <2> QED BY <1>1, <2>2
<1>4. ASSUME NEW i \in 1..Len(mu) PROVE mu[i] = (ms \o mt)[i]
  <2>1. CASE i <= Len(s)
    <3>1. i \in 1..Len(s)
      BY <1>0, <1>2, <2>1
    <3> QED BY <1>0, <1>1, <1>2, <1>3, <3>1
  <2>2. CASE ~(i <= Len(s))
    <3> DEFINE j == i - Len(s)
    <3>1. j \in 1..Len(t) /\ i = Len(s) + j
      BY <1>0, <1>2, <2>2
    <3> HIDE DEF j
    <3> QED BY <1>0, <1>1, <1>2, <1>3, <3>1
  <2> QED BY <2>1, <2>2
<1>5. mu = ms \o mt
  BY <1>2, <1>3, <1>4, Alike
<1>6. Flat(mu) = Flat(ms) \o Flat(mt) /\ Lists(mu)
  BY <1>1, <1>5, FlatJoin
<1>7. Valued(f, s \o t)
  <2>1. ASSUME NEW i \in 1..(Len(s) + Len(t)) PROVE (s \o t)[i] \in DOMAIN f /\ IsList(f[(s \o t)[i]])
    <3>1. CASE i <= Len(s)
      <4>1. i \in 1..Len(s)
        BY <1>0, <3>1
      <4> QED BY <1>0, <4>1 DEF Valued
    <3>2. CASE ~(i <= Len(s))
      <4>1. i - Len(s) \in 1..Len(t) /\ Len(s) + (i - Len(s)) = i
        BY <1>0, <3>2
      <4> QED BY <1>0, <4>1 DEF Valued
    <3> QED BY <3>1, <3>2
  <2>2. PICK u : u = s \o t
    OBVIOUS
  <2>3. IsList(u) /\ Len(u) = Len(s) + Len(t) /\ \A i \in 1..(Len(s) + Len(t)) : u[i] \in DOMAIN f /\ IsList(f[u[i]])
    BY <1>0, <2>1, <2>2
  <2>4. Valued(f, u)
    BY ONLY <2>3 DEF Valued
  <2> QED BY <2>2, <2>4
<1> QED BY <1>6, <1>7 DEF FlatMap, ms, mt, mu

\* What is laid end to end is mapped piece by piece.
LEMMA FlatMapFlat ==
    ASSUME NEW f, NEW ss, IsList(ss), \A i \in 1..Len(ss) : Valued(f, ss[i]),
           NEW r, IsList(r), Len(r) = Len(ss), \A i \in 1..Len(ss) : r[i] = FlatMap(f, ss[i])
    PROVE  FlatMap(f, Flat(ss)) = Flat(r) /\ Valued(f, Flat(ss)) /\ Lists(r)
<1>0. Len(ss) \in Nat /\ Lists(ss)
  BY ListPlaces DEF Lists, Valued
<1>1. PICK h : /\ h[0] = <<>>
               /\ \A n \in 1..Len(ss) : h[n] = h[n - 1] \o ss[n]
               /\ h[Len(ss)] = Flat(ss)
               /\ \A n \in 0..Len(ss) : IsList(h[n])
  BY <1>0, FlatPrefixes
<1> DEFINE Bad == {n \in 0..Len(ss) : ~Valued(f, h[n])}
<1>2. Bad = {}
  <2> SUFFICES ASSUME Bad # {} PROVE FALSE
    OBVIOUS
  <2>1. Bad \in SUBSET Nat
    BY <1>0
  <2>2. PICK m \in Bad : \A j \in Bad : m <= j
    BY <2>1, LeastNumber, Zenon
  <2>3. m # 0
    <3>1. Valued(f, <<>>)
      BY Empty DEF Valued
    <3> QED BY <1>1, <2>2, <3>1
  <2>4. m \in 1..Len(ss) /\ m - 1 \in 0..Len(ss) /\ ~(m <= m - 1)
    BY <1>0, <2>3
  <2>5. Valued(f, h[m - 1]) /\ Valued(f, ss[m]) /\ h[m] = h[m - 1] \o ss[m]
    BY <1>1, <2>2, <2>4
  <2>6. Valued(f, h[m])
    BY <2>5, FlatMapJoin
  <2> QED BY <2>6
<1> DEFINE g == [n \in 0..Len(ss) |-> FlatMap(f, h[n])]
<1>3. g[0] = <<>>
  BY <1>0, <1>1, FlatMapNone
<1>4. ASSUME NEW n \in 1..Len(r) PROVE g[n] = g[n - 1] \o r[n]
  <2>1. n \in 1..Len(ss) /\ n \in 0..Len(ss) /\ n - 1 \in 0..Len(ss)
    BY <1>0
  <2>2. Valued(f, h[n - 1]) /\ Valued(f, ss[n]) /\ h[n] = h[n - 1] \o ss[n]
    BY <1>1, <1>2, <2>1
  <2>3. FlatMap(f, h[n]) = FlatMap(f, h[n - 1]) \o FlatMap(f, ss[n])
    <3>1. PICK x, y, z : x = h[n - 1] /\ y = ss[n] /\ z = h[n]
      OBVIOUS
    <3>2. Valued(f, x) /\ Valued(f, y) /\ z = x \o y
      BY <2>2, <3>1
    <3>3. FlatMap(f, z) = FlatMap(f, x) \o FlatMap(f, y)
      BY ONLY <3>2, FlatMapJoin
    <3> QED BY <3>1, <3>3
  <2> QED BY <2>1, <2>3
<1>5. g[Len(r)] = FlatMap(f, Flat(ss)) /\ Valued(f, Flat(ss))
  BY <1>0, <1>1, <1>2
<1>6. Lists(r)
  <2> SUFFICES ASSUME NEW i \in 1..Len(r) PROVE IsList(r[i])
    BY DEF Lists
  <2>1. Lists(Mapped(f, ss[i])) /\ r[i] = Flat(Mapped(f, ss[i]))
    BY ValuedMapped DEF FlatMap
  <2> QED BY <2>1, FlatList
<1> HIDE DEF g
<1>7. g[Len(r)] = Flat(r)
  BY ONLY <1>3, <1>4, IsList(r), FlatIs
<1> QED BY <1>5, <1>6, <1>7

\* Numbers added up.
LEMMA FoldTotal ==
    ASSUME NEW s, IsList(s)
    PROVE  \E h : /\ h[0] = 0
                  /\ \A n \in 1..Len(s) : h[n] = h[n - 1] + s[n]
                  /\ h[Len(s)] = Total(s)
<1> DEFINE IsFold(g, S) ==
             g = [t \in SUBSET S |-> IF t = {} THEN 0 ELSE g[t \ {Max(t)}] + s[Max(t)]]
           Bad == {m \in Nat : ~\E g : IsFold(g, 1..m)}
<1>0. Len(s) \in Nat /\ DOMAIN s = 1..Len(s)
  BY ListPlaces
<1>1. Total(s) = (CHOOSE g : IsFold(g, DOMAIN s))[DOMAIN s]
  BY Zenon DEF FoldLeft, MapThenFoldSet, Total
<1>2. Bad = {}
  <2> SUFFICES ASSUME Bad # {} PROVE FALSE
    OBVIOUS
  <2>1. PICK m \in Bad : \A j \in Bad : m <= j
    BY LeastNumber
  <2>2. m # 0
    <3>1. IsFold([t \in SUBSET (1..0) |-> 0], 1..0)
      <4>1. SUBSET (1..0) = {{}}
        OBVIOUS
      <4> QED BY <4>1
    <3> QED BY <3>1, <2>1
  <2>3. m - 1 \in Nat /\ m \in Nat /\ m - 1 \notin Bad
    <3>1. m \in Nat
      OBVIOUS
    <3>2. m - 1 \in Nat /\ ~(m <= m - 1)
      BY <2>2, <3>1
    <3> QED BY <2>1, <3>1, <3>2, Zenon
  <2>4. PICK g : IsFold(g, 1..(m - 1))
    BY <2>3
  <2> DEFINE e == [t \in SUBSET (1..m) |-> IF m \in t THEN g[t \ {m}] + s[m] ELSE g[t]]
  <2>5. ASSUME NEW t \in SUBSET (1..m)
        PROVE  e[t] = IF t = {} THEN 0 ELSE e[t \ {Max(t)}] + s[Max(t)]
    <3>1. CASE m \in t
      <4>1. Max(t) = m /\ t # {} /\ m \notin t \ {m} /\ t \ {m} \in SUBSET (1..m)
        BY <2>3, <3>1, HighestIs
      <4>2. e[t] = g[t \ {m}] + s[m] /\ e[t \ {m}] = g[t \ {m}]
        BY <3>1, <4>1
      <4> HIDE DEF e
      <4> QED BY <4>1, <4>2
    <3>2. CASE m \notin t
      <4>1. t \in SUBSET (1..(m - 1))
        BY <2>3, <3>2
      <4>2. e[t] = g[t]
        BY <3>2
      <4>3. g[t] = IF t = {} THEN 0 ELSE g[t \ {Max(t)}] + s[Max(t)]
        BY <2>4, <4>1
      <4>4. t \ {Max(t)} \in SUBSET (1..m) /\ m \notin t \ {Max(t)}
        BY <3>2
      <4>5. e[t \ {Max(t)}] = g[t \ {Max(t)}]
        BY <4>4
      <4> HIDE DEF e
      <4> QED BY <4>2, <4>3, <4>5
    <3> QED BY <3>1, <3>2
  <2>6. IsFold(e, 1..m)
    <3>1. e = [t \in SUBSET (1..m) |-> e[t]]
      OBVIOUS
    <3> HIDE DEF e
    <3> QED BY <2>5, <3>1
  <2> QED BY <2>1, <2>6
<1> DEFINE f == CHOOSE g : IsFold(g, DOMAIN s)
<1>3. IsFold(f, 1..Len(s))
  <2>1. \E g : IsFold(g, 1..Len(s))
    BY <1>0, <1>2
  <2> HIDE DEF IsFold
  <2>2. IsFold(f, DOMAIN s)
    BY <1>0, <2>1
  <2> QED BY <1>0, <2>2
<1>4. f[1..Len(s)] = Total(s)
  BY <1>0, <1>1
<1> HIDE DEF f
<1> DEFINE h == [n \in 0..Len(s) |-> f[1..n]]
<1>5. h[0] = 0
  <2>1. 1..0 = {} /\ 1..0 \in SUBSET (1..Len(s)) /\ 0 \in 0..Len(s)
    BY <1>0
  <2>2. f[1..0] = 0
    BY <1>3, <2>1
  <2> QED BY <2>1, <2>2
<1>6. ASSUME NEW n \in 1..Len(s) PROVE h[n] = h[n - 1] + s[n]
  <2>1. /\ n \in Nat /\ n \in 1..n /\ n \in 0..Len(s) /\ n - 1 \in 0..Len(s)
        /\ 1..n \in SUBSET (1..Len(s)) /\ 1..n # {}
    BY <1>0
  <2>2. Max(1..n) = n
    BY <2>1, HighestIs
  <2>3. (1..n) \ {n} = 1..(n - 1)
    BY <2>1
  <2>4. f[1..n] = f[1..n \ {Max(1..n)}] + s[Max(1..n)]
    BY <1>3, <2>1
  <2> QED BY <2>1, <2>2, <2>3, <2>4
<1>7. h[Len(s)] = Total(s)
  BY <1>0, <1>4
<1> HIDE DEF h
<1> QED BY <1>5, <1>6, <1>7

\* What goes as the sum goes is the sum.
LEMMA TotalIs ==
    ASSUME NEW s, IsList(s), NEW g, g[0] = 0, \A n \in 1..Len(s) : g[n] = g[n - 1] + s[n]
    PROVE  g[Len(s)] = Total(s)
<1>0. Len(s) \in Nat
  BY ListPlaces
<1>1. PICK h : /\ h[0] = 0
               /\ \A n \in 1..Len(s) : h[n] = h[n - 1] + s[n]
               /\ h[Len(s)] = Total(s)
  BY FoldTotal
<1> DEFINE Bad == {n \in 0..Len(s) : g[n] # h[n]}
<1>2. Bad = {}
  <2> SUFFICES ASSUME Bad # {} PROVE FALSE
    OBVIOUS
  <2>1. Bad \in SUBSET Nat
    BY <1>0
  <2>2. PICK m \in Bad : \A j \in Bad : m <= j
    BY <2>1, LeastNumber, Zenon
  <2>3. m \in 1..Len(s) /\ m - 1 \in 0..Len(s) /\ ~(m <= m - 1)
    BY <1>0, <1>1
  <2>4. g[m - 1] = h[m - 1]
    BY <2>2, <2>3
  <2> QED BY <1>1, <2>3, <2>4
<1> QED BY <1>0, <1>1, <1>2

Numbers(s) == IsList(s) /\ \A i \in 1..Len(s) : s[i] \in Nat

\* The prefixes a sum goes through are numbers.
LEMMA TotalPrefixes ==
    ASSUME NEW s, Numbers(s)
    PROVE  \E h : /\ h[0] = 0
                  /\ \A n \in 1..Len(s) : h[n] = h[n - 1] + s[n]
                  /\ h[Len(s)] = Total(s)
                  /\ \A n \in 0..Len(s) : h[n] \in Nat
<1>0. Len(s) \in Nat /\ IsList(s)
  BY ListPlaces DEF Numbers
<1>1. PICK h : /\ h[0] = 0
               /\ \A n \in 1..Len(s) : h[n] = h[n - 1] + s[n]
               /\ h[Len(s)] = Total(s)
  BY <1>0, FoldTotal
<1> DEFINE Bad == {n \in 0..Len(s) : ~(h[n] \in Nat)}
<1>2. Bad = {}
  <2> SUFFICES ASSUME Bad # {} PROVE FALSE
    OBVIOUS
  <2>1. Bad \in SUBSET Nat
    BY <1>0
  <2>2. PICK m \in Bad : \A j \in Bad : m <= j
    BY <2>1, LeastNumber, Zenon
  <2>3. m \in 1..Len(s) /\ m - 1 \in 0..Len(s) /\ ~(m <= m - 1)
    BY <1>0, <1>1
  <2>4. h[m - 1] \in Nat /\ s[m] \in Nat /\ h[m] = h[m - 1] + s[m]
    BY <1>1, <2>2, <2>3 DEF Numbers
  <2> QED BY <2>2, <2>4
<1> QED BY <1>1, <1>2

LEMMA TotalNat == ASSUME NEW s, Numbers(s) PROVE Total(s) \in Nat
<1>1. Len(s) \in 0..Len(s)
  BY ListPlaces DEF Numbers
<1> QED BY <1>1, TotalPrefixes

LEMMA TotalSum ==
    ASSUME NEW s, Numbers(s), NEW t, Numbers(t), Len(t) = Len(s),
           NEW u, IsList(u), Len(u) = Len(s), \A i \in 1..Len(s) : u[i] = s[i] + t[i]
    PROVE  Total(u) = Total(s) + Total(t) /\ Numbers(u)
<1>0. Len(s) \in Nat
  BY ListPlaces DEF Numbers
<1>1. PICK h : /\ h[0] = 0
               /\ \A n \in 1..Len(s) : h[n] = h[n - 1] + s[n]
               /\ h[Len(s)] = Total(s)
               /\ \A n \in 0..Len(s) : h[n] \in Nat
  BY TotalPrefixes
<1>2. PICK k : /\ k[0] = 0
               /\ \A n \in 1..Len(t) : k[n] = k[n - 1] + t[n]
               /\ k[Len(t)] = Total(t)
               /\ \A n \in 0..Len(t) : k[n] \in Nat
  BY TotalPrefixes
<1> DEFINE g == [n \in 0..Len(s) |-> h[n] + k[n]]
<1>3. g[0] = 0
  BY <1>0, <1>1, <1>2
<1>4. ASSUME NEW n \in 1..Len(u) PROVE g[n] = g[n - 1] + u[n]
  <2>1. n \in 1..Len(s) /\ n \in 0..Len(s) /\ n - 1 \in 0..Len(s)
    BY <1>0
  <2>2. h[n] = h[n - 1] + s[n] /\ k[n] = k[n - 1] + t[n] /\ u[n] = s[n] + t[n] /\ s[n] \in Nat /\ t[n] \in Nat
    BY <1>1, <1>2, <2>1 DEF Numbers
  <2>3. h[n - 1] \in Nat /\ k[n - 1] \in Nat
    BY <1>1, <1>2, <2>1
  <2> QED BY <2>1, <2>2, <2>3
<1>5. g[Len(u)] = Total(s) + Total(t)
  BY <1>0, <1>1, <1>2
<1> HIDE DEF g
<1>6. g[Len(u)] = Total(u)
  BY <1>3, <1>4, TotalIs
<1>7. Numbers(u)
  BY DEF Numbers
<1> QED BY <1>5, <1>6, <1>7

\* Laid end to end, lists are as long as they are together.
LEMMA LenFlat ==
    ASSUME NEW s, Lists(s), NEW r, IsList(r), Len(r) = Len(s), \A i \in 1..Len(s) : r[i] = Len(s[i])
    PROVE  Len(Flat(s)) = Total(r) /\ Numbers(r)
<1>0. Len(s) \in Nat /\ IsList(s)
  BY ListPlaces DEF Lists
<1>1. PICK h : /\ h[0] = <<>>
               /\ \A n \in 1..Len(s) : h[n] = h[n - 1] \o s[n]
               /\ h[Len(s)] = Flat(s)
               /\ \A n \in 0..Len(s) : IsList(h[n])
  BY FlatPrefixes
<1> DEFINE g == [n \in 0..Len(s) |-> Len(h[n])]
<1>2. g[0] = 0
  BY <1>0, <1>1, Empty
<1>3. ASSUME NEW n \in 1..Len(r) PROVE g[n] = g[n - 1] + r[n]
  <2>1. n \in 1..Len(s) /\ n \in 0..Len(s) /\ n - 1 \in 0..Len(s)
    BY <1>0
  <2>2. PICK x, y, z : x = h[n - 1] /\ y = s[n] /\ z = h[n]
    OBVIOUS
  <2>3. IsList(x) /\ IsList(y) /\ z = x \o y
    BY <1>1, <2>1, <2>2 DEF Lists
  <2>4. Len(z) = Len(x) + Len(y)
    BY ONLY <2>3, Joined
  <2> QED BY <2>1, <2>2, <2>4
<1>4. g[Len(r)] = Len(Flat(s))
  BY <1>0, <1>1
<1> HIDE DEF g
<1>5. g[Len(r)] = Total(r)
  BY <1>2, <1>3, TotalIs
<1>6. Numbers(r)
  <2>1. \A i \in 1..Len(s) : Len(s[i]) \in Nat
    BY ListPlaces DEF Lists
  <2> QED BY <2>1 DEF Numbers
<1> QED BY <1>4, <1>5, <1>6

\* Of the places that are kept, each one's own.
LEMMA KeptMap ==
    ASSUME NEW bs, IsList(bs), NEW Ks, NEW f, \A j \in 1..Len(bs) : j \in Ks => bs[j] \in DOMAIN f /\ IsList(f[bs[j]]),
           NEW ss, IsList(ss), Len(ss) = Len(bs), \A j \in 1..Len(bs) : ss[j] = IF j \in Ks THEN <<bs[j]>> ELSE <<>>,
           NEW r, IsList(r), Len(r) = Len(bs), \A j \in 1..Len(bs) : r[j] = IF j \in Ks THEN f[bs[j]] ELSE <<>>
    PROVE  FlatMap(f, Flat(ss)) = Flat(r) /\ Valued(f, Flat(ss)) /\ Lists(r)
<1>1. ASSUME NEW j \in 1..Len(ss) PROVE Valued(f, ss[j]) /\ r[j] = FlatMap(f, ss[j])
  <2>1. CASE j \in Ks
    <3>1. PICK x : x = bs[j]
      OBVIOUS
    <3>2. ss[j] = <<x>> /\ r[j] = f[x] /\ x \in DOMAIN f /\ IsList(f[x])
      BY <2>1, <3>1
    <3>3. IsList(<<x>>) /\ Len(<<x>>) = 1 /\ <<x>>[1] = x
      BY One
    <3>4. Valued(f, <<x>>)
      BY <3>2, <3>3 DEF Valued
    <3>5. FlatMap(f, <<x>>) = f[x]
      BY <3>2, FlatMapOne
    <3> QED BY <3>2, <3>4, <3>5
  <2>2. CASE j \notin Ks
    <3>1. ss[j] = <<>> /\ r[j] = <<>>
      BY <2>2
    <3>2. Valued(f, <<>>)
      BY Empty DEF Valued
    <3> QED BY <3>1, <3>2, FlatMapNone
  <2> QED BY <2>1, <2>2
<1> QED BY <1>1, FlatMapFlat

-----------------------------------------------------------------------------
(* What goes upstream of a message.                                        *)

Texts(bs) == Flat([j \in DOMAIN bs |-> IF bs[j].type = "text" THEN bs[j].text ELSE <<>>])
TextIn(D) == [b \in D |-> IF b.type = "text" THEN b.text ELSE <<>>]
Texty(bs) == IsList(bs) /\ \A j \in 1..Len(bs) : bs[j].type = "text" => IsList(bs[j].text)

LEMMA WordsIs ==
    ASSUME NEW c, IsContent(c)
    PROVE  /\ "plain" \in DOMAIN c => Words(c) = c.plain /\ IsList(Words(c))
           /\ "plain" \notin DOMAIN c => Words(c) = Texts(c.blocks) /\ Texty(c.blocks)
<1>1. "plain" \notin DOMAIN c => Texty(c.blocks)
  <2>1. SUFFICES ASSUME "plain" \notin DOMAIN c PROVE Texty(c.blocks)
    OBVIOUS
  <2>2. IsList(c.blocks) /\ \A b \in Range(c.blocks) : b.type = "text" => IsList(b.text)
    BY <2>1 DEF IsContent
  <2>3. \A j \in 1..Len(c.blocks) : c.blocks[j] \in Range(c.blocks)
    BY <2>2, ListPlaces DEF Range
  <2> QED BY <2>2, <2>3 DEF Texty
<1> QED BY <1>1 DEF Words, Texts, IsContent

LEMMA TextsAre ==
    ASSUME NEW bs, Texty(bs), NEW D, \A j \in 1..Len(bs) : bs[j] \in D
    PROVE  Texts(bs) = FlatMap(TextIn(D), bs) /\ Valued(TextIn(D), bs) /\ IsList(Texts(bs))
<1> DEFINE f == TextIn(D)
<1>0. IsList(bs) /\ DOMAIN bs = 1..Len(bs) /\ DOMAIN f = D
  BY ListPlaces DEF Texty, TextIn
<1>1. \A j \in 1..Len(bs) : f[bs[j]] = IF bs[j].type = "text" THEN bs[j].text ELSE <<>>
  BY DEF TextIn
<1> HIDE DEF f
<1>2. Mapped(f, bs) = [j \in DOMAIN bs |-> IF bs[j].type = "text" THEN bs[j].text ELSE <<>>]
  BY <1>0, <1>1 DEF Mapped
<1>3. Valued(f, bs)
  BY <1>0, <1>1, Empty DEF Valued, Texty
<1>4. Texts(bs) = FlatMap(f, bs)
  BY <1>2 DEF Texts, FlatMap
<1>5. IsList(Texts(bs))
  BY <1>3, <1>4, ValuedMapped, FlatList DEF FlatMap
<1> QED BY <1>3, <1>4, <1>5 DEF f

LEMMA WordsList == ASSUME NEW c, IsContent(c) PROVE IsList(Words(c))
<1>1. "plain" \notin DOMAIN c => IsList(Texts(c.blocks))
  <2>1. "plain" \notin DOMAIN c => Texty(c.blocks) /\ \A j \in 1..Len(c.blocks) : c.blocks[j] \in Range(c.blocks)
    BY WordsIs, ListPlaces DEF Texty, Range
  <2> QED BY <2>1, TextsAre
<1> QED BY <1>1, WordsIs

\* What is left out of a message has no words.
LEMMA PartsAre ==
    ASSUME NEW bs, Texty(bs)
    PROVE  Texty(Parts(bs)) /\ Texts(Parts(bs)) = Texts(bs)
<1> DEFINE D == Range(bs)
           f == TextIn(D)
           Ks == {j \in 1..Len(bs) : Sendable(bs[j])}
           ss == [j \in 1..Len(bs) |-> IF Sendable(bs[j]) THEN <<bs[j]>> ELSE <<>>]
<1>0. IsList(bs) /\ Len(bs) \in Nat /\ DOMAIN bs = 1..Len(bs) /\ (\A j \in 1..Len(bs) : bs[j] \in D)
  BY ListPlaces DEF Texty, Range
<1>1. Texts(bs) = FlatMap(f, bs) /\ Valued(f, bs)
  BY <1>0, TextsAre
<1>2. /\ IsList(Mapped(f, bs)) /\ Len(Mapped(f, bs)) = Len(bs)
      /\ \A j \in 1..Len(bs) : Mapped(f, bs)[j] = f[bs[j]]
  BY <1>0, MappedIs
<1>3. IsList(ss) /\ Len(ss) = Len(bs) /\ \A j \in 1..Len(bs) : ss[j] = IF j \in Ks THEN <<bs[j]>> ELSE <<>>
  <2>1. ss = [j \in 1..Len(bs) |-> ss[j]]
    OBVIOUS
  <2>2. IsList(ss) /\ Len(ss) = Len(bs)
    <3> HIDE DEF ss
    <3> QED BY <1>0, <2>1, Built
  <2> QED BY <2>2
<1>4. Parts(bs) = Flat(ss)
  BY <1>0 DEF Parts
<1>5. \A j \in 1..Len(bs) : Mapped(f, bs)[j] = IF j \in Ks THEN f[bs[j]] ELSE <<>>
  <2>1. \A j \in 1..Len(bs) : j \notin Ks => f[bs[j]] = <<>>
    BY <1>0 DEF Sendable, TextIn
  <2> HIDE DEF f, Ks
  <2> QED BY <1>2, <2>1
<1>6. \A j \in 1..Len(bs) : bs[j] \in DOMAIN f /\ IsList(f[bs[j]])
  BY <1>1 DEF Valued
<1>7. DOMAIN f = D
  BY DEF TextIn
<1> HIDE DEF f, Ks, ss, D
<1>8. FlatMap(f, Flat(ss)) = Flat(Mapped(f, bs)) /\ Valued(f, Flat(ss))
  <2>1. PICK r, k, t, g : r = Mapped(f, bs) /\ k = Ks /\ t = ss /\ g = f
    OBVIOUS
  <2>2. IsList(r) /\ Len(r) = Len(bs) /\ \A j \in 1..Len(bs) : r[j] = IF j \in k THEN g[bs[j]] ELSE <<>>
    BY ONLY <1>2, <1>5, <2>1
  <2>3. IsList(t) /\ Len(t) = Len(bs) /\ \A j \in 1..Len(bs) : t[j] = IF j \in k THEN <<bs[j]>> ELSE <<>>
    BY ONLY <1>3, <2>1
  <2>4. \A j \in 1..Len(bs) : j \in k => bs[j] \in DOMAIN g /\ IsList(g[bs[j]])
    BY ONLY <1>6, <2>1
  <2>5. IsList(bs)
    BY ONLY <1>0
  <2>6. FlatMap(g, Flat(t)) = Flat(r) /\ Valued(g, Flat(t)) /\ Lists(r)
    BY ONLY <2>2, <2>3, <2>4, <2>5, KeptMap
  <2> QED BY ONLY <2>1, <2>6
<1>9. Valued(f, Parts(bs)) /\ FlatMap(f, Parts(bs)) = Texts(bs)
  BY <1>1, <1>4, <1>8 DEF FlatMap
<1>10. IsList(Parts(bs)) /\ \A i \in 1..Len(Parts(bs)) : Parts(bs)[i] \in D
  BY <1>7, <1>9 DEF Valued
<1>11. Texty(Parts(bs))
  <2> SUFFICES ASSUME NEW i \in 1..Len(Parts(bs)), Parts(bs)[i].type = "text" PROVE IsList(Parts(bs)[i].text)
    BY <1>10 DEF Texty
  <2>1. PICK j \in 1..Len(bs) : bs[j] = Parts(bs)[i]
    BY <1>0, <1>10 DEF D, Range
  <2> QED BY <2>1 DEF Texty
<1>12. Texts(Parts(bs)) = FlatMap(f, Parts(bs))
  BY <1>10, <1>11, TextsAre DEF f
<1> QED BY <1>9, <1>11, <1>12

\* The texts of blocks that are not empty are all the words there are.
LEMMA WordedAre ==
    ASSUME NEW bs, Texty(bs)
    PROVE  \E t : /\ IsList(Worded(bs)) /\ Lists(t) /\ Len(t) = Len(Worded(bs))
                  /\ \A i \in 1..Len(t) : t[i] = Worded(bs)[i].text
                  /\ Texts(bs) = Flat(t)
<1> DEFINE D == {b \in Range(bs) : HasWords(b)}
           f == [b \in D |-> b.text]
           Ks == {j \in 1..Len(bs) : HasWords(bs[j])}
           ss == [j \in 1..Len(bs) |-> IF HasWords(bs[j]) THEN <<bs[j]>> ELSE <<>>]
           r == [j \in 1..Len(bs) |-> IF bs[j].type = "text" THEN bs[j].text ELSE <<>>]
<1>0. IsList(bs) /\ Len(bs) \in Nat /\ DOMAIN bs = 1..Len(bs) /\ (\A j \in 1..Len(bs) : bs[j] \in Range(bs))
  BY ListPlaces DEF Texty, Range
<1>1. IsList(ss) /\ Len(ss) = Len(bs) /\ \A j \in 1..Len(bs) : ss[j] = IF j \in Ks THEN <<bs[j]>> ELSE <<>>
  <2>1. ss = [j \in 1..Len(bs) |-> ss[j]]
    OBVIOUS
  <2>2. IsList(ss) /\ Len(ss) = Len(bs)
    <3> HIDE DEF ss
    <3> QED BY <1>0, <2>1, Built
  <2> QED BY <2>2
<1>2. IsList(r) /\ Len(r) = Len(bs)
  <2>1. r = [j \in 1..Len(bs) |-> r[j]]
    OBVIOUS
  <2> HIDE DEF r
  <2> QED BY <1>0, <2>1, Built
<1>3. \A j \in 1..Len(bs) : j \in Ks => bs[j] \in DOMAIN f /\ IsList(f[bs[j]])
  BY <1>0 DEF HasWords, Texty
<1>4. \A j \in 1..Len(bs) : r[j] = IF j \in Ks THEN f[bs[j]] ELSE <<>>
  BY <1>0 DEF HasWords
<1>5. Worded(bs) = Flat(ss) /\ Texts(bs) = Flat(r)
  BY <1>0 DEF Worded, Texts
<1>6. DOMAIN f = D /\ \A b \in D : f[b] = b.text
  OBVIOUS
<1> HIDE DEF D, f, Ks, ss, r
<1>7. FlatMap(f, Flat(ss)) = Flat(r) /\ Valued(f, Flat(ss))
  <2>1. PICK q, k, t, g : q = r /\ k = Ks /\ t = ss /\ g = f
    OBVIOUS
  <2>2. IsList(q) /\ Len(q) = Len(bs) /\ \A j \in 1..Len(bs) : q[j] = IF j \in k THEN g[bs[j]] ELSE <<>>
    BY ONLY <1>2, <1>4, <2>1
  <2>3. IsList(t) /\ Len(t) = Len(bs) /\ \A j \in 1..Len(bs) : t[j] = IF j \in k THEN <<bs[j]>> ELSE <<>>
    BY ONLY <1>1, <2>1
  <2>4. \A j \in 1..Len(bs) : j \in k => bs[j] \in DOMAIN g /\ IsList(g[bs[j]])
    BY ONLY <1>3, <2>1
  <2>5. IsList(bs)
    BY ONLY <1>0
  <2>6. FlatMap(g, Flat(t)) = Flat(q) /\ Valued(g, Flat(t)) /\ Lists(q)
    BY ONLY <2>2, <2>3, <2>4, <2>5, KeptMap
  <2> QED BY ONLY <2>1, <2>6
<1>8. PICK ws : ws = Worded(bs)
  OBVIOUS
<1>9. Valued(f, ws) /\ FlatMap(f, ws) = Texts(bs)
  BY <1>5, <1>7, <1>8
<1>10. IsList(ws) /\ \A i \in 1..Len(ws) : ws[i] \in D
  BY <1>6, <1>9 DEF Valued
<1>11. PICK t : t = Mapped(f, ws)
  OBVIOUS
<1>12. IsList(t) /\ Len(t) = Len(ws) /\ \A i \in 1..Len(ws) : t[i] = f[ws[i]]
  BY <1>10, <1>11, MappedIs
<1>13. Lists(t) /\ Texts(bs) = Flat(t)
  BY <1>9, <1>11, ValuedMapped DEF FlatMap
<1>14. \A i \in 1..Len(t) : t[i] = ws[i].text
  BY <1>6, <1>10, <1>12
<1> QED BY <1>8, <1>10, <1>12, <1>13, <1>14

\* flatten_text is the words, and the newlines put between them.
LEMMA FlattenAre ==
    ASSUME NEW c, IsContent(c)
    PROVE  /\ IsList(FlattenText(c)) /\ IsList(Words(c)) /\ Joints(c) \in Nat
           /\ Len(FlattenText(c)) = Len(Words(c)) + Joints(c)
<1>0. IsList(Words(c)) /\ Len(Words(c)) \in Nat
  BY WordsList, ListPlaces
<1>1. CASE "plain" \in DOMAIN c
  BY <1>0, <1>1 DEF FlattenText, Words, Joints
<1>2. CASE "plain" \notin DOMAIN c
  <2>1. PICK bs, ws, n : bs = c.blocks /\ ws = Worded(bs) /\ n = Len(ws)
    OBVIOUS
  <2>2. Texty(bs) /\ Words(c) = Texts(bs)
    BY <1>2, <2>1, WordsIs
  <2>3. PICK t : /\ IsList(ws) /\ Lists(t) /\ Len(t) = n
                 /\ \A i \in 1..Len(t) : t[i] = ws[i].text
                 /\ Texts(bs) = Flat(t)
    BY <2>1, <2>2, WordedAre
  <2>4. n \in Nat /\ DOMAIN ws = 1..n
    BY <2>1, <2>3, ListPlaces
  <2>5. PICK p, k, lt, lp : /\ p = [i \in 1..n |-> IF i = 1 THEN ws[i].text ELSE <<NewLine>> \o ws[i].text]
                            /\ k = [i \in 1..n |-> IF i = 1 THEN 0 ELSE 1]
                            /\ lt = [i \in 1..n |-> Len(t[i])] /\ lp = [i \in 1..n |-> Len(p[i])]
    OBVIOUS
  <2>6. FlattenText(c) = Flat(p) /\ Joints(c) = Total(k)
    BY <1>2, <2>1, <2>4, <2>5 DEF FlattenText, Joints
  <2>7. /\ IsList(p) /\ Len(p) = n /\ IsList(k) /\ Len(k) = n
        /\ IsList(lt) /\ Len(lt) = n /\ IsList(lp) /\ Len(lp) = n
    <3>1. /\ p = [i \in 1..n |-> p[i]] /\ k = [i \in 1..n |-> k[i]]
          /\ lt = [i \in 1..n |-> lt[i]] /\ lp = [i \in 1..n |-> lp[i]]
      BY <2>5
    <3> QED BY <2>4, <3>1, Built
  <2>8. ASSUME NEW i \in 1..n PROVE IsList(p[i]) /\ lp[i] = lt[i] + k[i]
    <3>1. PICK x, y : x = t[i] /\ y = <<NewLine>> \o x
      OBVIOUS
    <3>2. IsList(x) /\ Len(x) \in Nat /\ x = ws[i].text
      BY <2>3, <3>1, ListPlaces DEF Lists
    <3>3. IsList(y) /\ Len(y) = Len(x) + 1
      <4>1. PICK o : o = <<NewLine>>
        OBVIOUS
      <4>2. IsList(o) /\ Len(o) = 1
        BY <4>1, One
      <4> QED BY <3>1, <3>2, <4>1, <4>2, Joined
    <3>4. p[i] = IF i = 1 THEN x ELSE y
      BY <2>5, <3>1, <3>2
    <3>5. k[i] = (IF i = 1 THEN 0 ELSE 1) /\ lt[i] = Len(x) /\ lp[i] = Len(p[i])
      BY <2>5, <3>1
    <3>6. IsList(p[i])
      BY <3>2, <3>3, <3>4, Zenon
    <3>7. PICK g, q, z : g = k[i] /\ q = lt[i] /\ z = lp[i]
      OBVIOUS
    <3>8. (i = 1 => g = 0 /\ z = Len(x)) /\ (i # 1 => g = 1 /\ z = Len(y)) /\ q = Len(x)
      BY <3>4, <3>5, <3>7
    <3>9. z = q + g
      BY ONLY <3>2, <3>3, <3>8
    <3> QED BY <3>6, <3>7, <3>9
  <2>9. Lists(p) /\ Numbers(k)
    BY <2>5, <2>7, <2>8 DEF Lists, Numbers
  <2>10. Len(Flat(t)) = Total(lt) /\ Numbers(lt)
    <3>1. \A i \in 1..Len(t) : lt[i] = Len(t[i])
      BY <2>3, <2>5
    <3> QED BY <2>3, <2>7, <3>1, LenFlat
  <2>11. Len(Flat(p)) = Total(lp)
    <3>1. \A i \in 1..Len(p) : lp[i] = Len(p[i])
      BY <2>5, <2>7
    <3> QED BY <2>7, <2>9, <3>1, LenFlat
  <2>12. Total(lp) = Total(lt) + Total(k)
    <3>1. Len(k) = Len(lt) /\ Len(lp) = Len(lt) /\ \A i \in 1..Len(lt) : lp[i] = lt[i] + k[i]
      BY <2>7, <2>8
    <3> QED BY <2>7, <2>9, <2>10, <3>1, TotalSum
  <2>13. IsList(Flat(p)) /\ Total(k) \in Nat
    BY <2>9, FlatList, TotalNat
  <2> QED BY <1>0, <2>2, <2>3, <2>6, <2>10, <2>11, <2>12, <2>13
<1> QED BY <1>1, <1>2

\* The blocks of one type, each with what it is worth.
LEMMA OfTypeAre ==
    ASSUME NEW bs, IsList(bs), NEW ty, NEW f, \A j \in 1..Len(bs) : bs[j].type = ty => bs[j] \in DOMAIN f /\ IsList(f[bs[j]]),
           NEW r, r = [j \in DOMAIN bs |-> IF bs[j].type = ty THEN f[bs[j]] ELSE <<>>]
    PROVE  FlatMap(f, OfType(bs, ty)) = Flat(r) /\ Valued(f, OfType(bs, ty)) /\ Lists(r)
<1> DEFINE Ks == {j \in 1..Len(bs) : bs[j].type = ty}
           ss == [j \in 1..Len(bs) |-> IF bs[j].type = ty THEN <<bs[j]>> ELSE <<>>]
<1>0. Len(bs) \in Nat /\ DOMAIN bs = 1..Len(bs)
  BY ListPlaces
<1>1. IsList(ss) /\ Len(ss) = Len(bs) /\ \A j \in 1..Len(bs) : ss[j] = IF j \in Ks THEN <<bs[j]>> ELSE <<>>
  <2>1. ss = [j \in 1..Len(bs) |-> ss[j]]
    OBVIOUS
  <2>2. IsList(ss) /\ Len(ss) = Len(bs)
    <3> HIDE DEF ss
    <3> QED BY <1>0, <2>1, Built
  <2> QED BY <2>2
<1>2. IsList(r) /\ Len(r) = Len(bs) /\ \A j \in 1..Len(bs) : r[j] = IF j \in Ks THEN f[bs[j]] ELSE <<>>
  <2>1. r = [j \in 1..Len(bs) |-> r[j]]
    BY <1>0
  <2>2. IsList(r) /\ Len(r) = Len(bs)
    BY <1>0, <2>1, Built
  <2> QED BY <1>0, <2>2
<1>3. OfType(bs, ty) = Flat(ss)
  BY <1>0 DEF OfType
<1>4. \A j \in 1..Len(bs) : j \in Ks => bs[j] \in DOMAIN f /\ IsList(f[bs[j]])
  OBVIOUS
<1> HIDE DEF Ks, ss
<1>5. FlatMap(f, Flat(ss)) = Flat(r) /\ Valued(f, Flat(ss)) /\ Lists(r)
  <2>1. PICK k, t : k = Ks /\ t = ss
    OBVIOUS
  <2>2. IsList(t) /\ Len(t) = Len(bs) /\ \A j \in 1..Len(bs) : t[j] = IF j \in k THEN <<bs[j]>> ELSE <<>>
    BY ONLY <1>1, <2>1
  <2>3. IsList(r) /\ Len(r) = Len(bs) /\ \A j \in 1..Len(bs) : r[j] = IF j \in k THEN f[bs[j]] ELSE <<>>
    BY ONLY <1>2, <2>1
  <2>4. \A j \in 1..Len(bs) : j \in k => bs[j] \in DOMAIN f /\ IsList(f[bs[j]])
    BY ONLY <1>4, <2>1
  <2>5. IsList(bs)
    OBVIOUS
  <2>6. FlatMap(f, Flat(t)) = Flat(r) /\ Valued(f, Flat(t)) /\ Lists(r)
    BY ONLY <2>2, <2>3, <2>4, <2>5, KeptMap
  <2> QED BY ONLY <2>1, <2>6
<1> QED BY <1>3, <1>5

LEMMA OfTypeHolds ==
    ASSUME NEW bs, IsList(bs), NEW ty
    PROVE  /\ IsList(OfType(bs, ty))
           /\ \A i \in 1..Len(OfType(bs, ty)) : OfType(bs, ty)[i] \in {b \in Range(bs) : b.type = ty}
<1> DEFINE D == {b \in Range(bs) : b.type = ty}
           f == [b \in D |-> <<>>]
<1>1. \A j \in 1..Len(bs) : bs[j].type = ty => bs[j] \in DOMAIN f /\ IsList(f[bs[j]])
  BY ListPlaces, Empty DEF Range
<1>2. DOMAIN f = D
  OBVIOUS
<1> HIDE DEF f, D
<1>3. Valued(f, OfType(bs, ty))
  BY <1>1, OfTypeAre
<1>4. IsList(OfType(bs, ty)) /\ \A i \in 1..Len(OfType(bs, ty)) : OfType(bs, ty)[i] \in D
  BY <1>2, <1>3 DEF Valued
<1> QED BY <1>4 DEF D

\* Messages as a server takes them: each holds a list of parts.
Wordy(p) == IsList(p) /\ \A i \in 1..Len(p) : Texty(p[i].content)
SaidIn(D, role) == [m \in D |-> IF m.role # role THEN <<>> ELSE Texts(m.content)]
AnsweredOf(D) == [m \in D |-> IF m.role = "tool" THEN <<m.of>> ELSE <<>>]

LEMMA TextsList == ASSUME NEW bs, Texty(bs) PROVE IsList(Texts(bs))
<1>1. \A j \in 1..Len(bs) : bs[j] \in Range(bs)
  BY ListPlaces DEF Texty, Range
<1> QED BY <1>1, TextsAre

LEMMA AskedIs ==
    ASSUME NEW p, Wordy(p), NEW D, \A i \in 1..Len(p) : p[i] \in D, NEW role
    PROVE  Asked(p, role) = FlatMap(SaidIn(D, role), p) /\ Valued(SaidIn(D, role), p)
<1> DEFINE f == SaidIn(D, role)
<1>0. IsList(p) /\ DOMAIN p = 1..Len(p) /\ DOMAIN f = D
  BY ListPlaces DEF Wordy, SaidIn
<1>1. \A i \in 1..Len(p) : f[p[i]] = IF p[i].role # role THEN <<>> ELSE Texts(p[i].content)
  BY DEF SaidIn
<1> HIDE DEF f
<1>2. Mapped(f, p) = [i \in DOMAIN p |-> IF p[i].role # role THEN <<>> ELSE Texts(p[i].content)]
  BY <1>0, <1>1 DEF Mapped
<1>3. \A i \in 1..Len(p) : IsList(f[p[i]])
  BY <1>1, TextsList, Empty DEF Wordy
<1>4. Valued(f, p)
  BY <1>0, <1>3 DEF Valued
<1>5. Asked(p, role) = FlatMap(f, p)
  BY <1>2 DEF Asked, FlatMap, Texts
<1> QED BY <1>4, <1>5 DEF f

LEMMA AnsweredAre ==
    ASSUME NEW p, IsList(p), NEW D, \A i \in 1..Len(p) : p[i] \in D
    PROVE  AnsweredIn(p) = FlatMap(AnsweredOf(D), p) /\ Valued(AnsweredOf(D), p)
<1> DEFINE f == AnsweredOf(D)
<1>0. DOMAIN p = 1..Len(p) /\ DOMAIN f = D
  BY ListPlaces DEF AnsweredOf
<1>1. \A i \in 1..Len(p) : f[p[i]] = IF p[i].role = "tool" THEN <<p[i].of>> ELSE <<>>
  BY DEF AnsweredOf
<1> HIDE DEF f
<1>2. Mapped(f, p) = [i \in DOMAIN p |-> IF p[i].role = "tool" THEN <<p[i].of>> ELSE <<>>]
  BY <1>0, <1>1 DEF Mapped
<1>3. \A i \in 1..Len(p) : IsList(f[p[i]])
  <2> SUFFICES ASSUME NEW i \in 1..Len(p) PROVE IsList(f[p[i]])
    OBVIOUS
  <2>1. PICK x : x = p[i].of
    OBVIOUS
  <2>2. IsList(<<x>>)
    BY One
  <2> QED BY <1>1, <2>1, <2>2, Empty
<1>4. Valued(f, p)
  BY <1>0, <1>3 DEF Valued
<1>5. AnsweredIn(p) = FlatMap(f, p)
  BY <1>2 DEF AnsweredIn, FlatMap
<1> QED BY <1>4, <1>5 DEF f

LEMMA AskedLists ==
    ASSUME NEW p, Wordy(p), NEW role
    PROVE  IsList(Asked(p, role)) /\ IsList(AnsweredIn(p))
<1> DEFINE D == Range(p)
<1>1. IsList(p) /\ \A i \in 1..Len(p) : p[i] \in D
  BY ListPlaces DEF Wordy, Range
<1> HIDE DEF D
<1>2. PICK f, g : f = SaidIn(D, role) /\ g = AnsweredOf(D)
  OBVIOUS
<1>3. Asked(p, role) = FlatMap(f, p) /\ Valued(f, p) /\ AnsweredIn(p) = FlatMap(g, p) /\ Valued(g, p)
  BY <1>1, <1>2, AskedIs, AnsweredAre
<1> QED BY <1>3, ValuedMapped, FlatList DEF FlatMap

\* What is asked of messages laid end to end.
LEMMA AskedJoin ==
    ASSUME NEW s, Wordy(s), NEW t, Wordy(t), NEW role
    PROVE  /\ Wordy(s \o t)
           /\ Asked(s \o t, role) = Asked(s, role) \o Asked(t, role)
           /\ AnsweredIn(s \o t) = AnsweredIn(s) \o AnsweredIn(t)
<1> DEFINE D == Range(s) \cup Range(t)
<1>1. IsList(s) /\ IsList(t) /\ (\A i \in 1..Len(s) : s[i] \in D) /\ (\A i \in 1..Len(t) : t[i] \in D)
  BY ListPlaces DEF Wordy, Range
<1>2. \A x \in D : Texty(x.content)
  BY ListPlaces DEF Wordy, Range
<1> HIDE DEF D
<1>3. PICK f, g, u : f = SaidIn(D, role) /\ g = AnsweredOf(D) /\ u = s \o t
  OBVIOUS
<1>4. DOMAIN f = D
  BY <1>3 DEF SaidIn
<1>5. /\ Asked(s, role) = FlatMap(f, s) /\ Valued(f, s) /\ AnsweredIn(s) = FlatMap(g, s) /\ Valued(g, s)
      /\ Asked(t, role) = FlatMap(f, t) /\ Valued(f, t) /\ AnsweredIn(t) = FlatMap(g, t) /\ Valued(g, t)
  BY <1>1, <1>3, AskedIs, AnsweredAre
<1>6. Valued(f, s \o t) /\ FlatMap(f, s \o t) = FlatMap(f, s) \o FlatMap(f, t)
  BY ONLY <1>5, FlatMapJoin
<1>7. Valued(g, s \o t) /\ FlatMap(g, s \o t) = FlatMap(g, s) \o FlatMap(g, t)
  BY ONLY <1>5, FlatMapJoin
<1>8. IsList(u) /\ \A i \in 1..Len(u) : u[i] \in D
  BY ONLY <1>3, <1>4, <1>6 DEF Valued
<1>9. Wordy(u)
  BY ONLY <1>2, <1>8 DEF Wordy
<1>10. Asked(u, role) = FlatMap(f, u) /\ AnsweredIn(u) = FlatMap(g, u)
  BY <1>3, <1>8, <1>9, AskedIs, AnsweredAre
<1> QED BY ONLY <1>3, <1>5, <1>6, <1>7, <1>9, <1>10

LEMMA AskedFlat ==
    ASSUME NEW ss, IsList(ss), \A i \in 1..Len(ss) : Wordy(ss[i]), NEW role,
           NEW r, IsList(r), Len(r) = Len(ss), \A i \in 1..Len(ss) : r[i] = Asked(ss[i], role),
           NEW a, IsList(a), Len(a) = Len(ss), \A i \in 1..Len(ss) : a[i] = AnsweredIn(ss[i])
    PROVE  Wordy(Flat(ss)) /\ Asked(Flat(ss), role) = Flat(r) /\ AnsweredIn(Flat(ss)) = Flat(a) /\ Lists(r) /\ Lists(a)
<1> DEFINE D == UNION {Range(ss[i]) : i \in 1..Len(ss)}
<1>1. \A i \in 1..Len(ss) : IsList(ss[i]) /\ \A j \in 1..Len(ss[i]) : ss[i][j] \in D
  <2> SUFFICES ASSUME NEW i \in 1..Len(ss) PROVE IsList(ss[i]) /\ \A j \in 1..Len(ss[i]) : ss[i][j] \in D
    OBVIOUS
  <2>1. IsList(ss[i]) /\ \A j \in 1..Len(ss[i]) : ss[i][j] \in Range(ss[i])
    BY ListPlaces DEF Wordy, Range
  <2> QED BY <2>1
<1>2. \A x \in D : Texty(x.content)
  <2> SUFFICES ASSUME NEW i \in 1..Len(ss), NEW x \in Range(ss[i]) PROVE Texty(x.content)
    OBVIOUS
  <2> QED BY ListPlaces DEF Wordy, Range
<1> HIDE DEF D
<1>3. PICK f, g, u : f = SaidIn(D, role) /\ g = AnsweredOf(D) /\ u = Flat(ss)
  OBVIOUS
<1>4. DOMAIN f = D
  BY <1>3 DEF SaidIn
<1>5. ASSUME NEW i \in 1..Len(ss)
      PROVE  Valued(f, ss[i]) /\ r[i] = FlatMap(f, ss[i]) /\ Valued(g, ss[i]) /\ a[i] = FlatMap(g, ss[i])
  <2>1. PICK p : p = ss[i]
    OBVIOUS
  <2>2. Wordy(p) /\ IsList(p) /\ (\A j \in 1..Len(p) : p[j] \in D) /\ r[i] = Asked(p, role) /\ a[i] = AnsweredIn(p)
    BY <1>1, <2>1
  <2>3. Asked(p, role) = FlatMap(f, p) /\ Valued(f, p) /\ AnsweredIn(p) = FlatMap(g, p) /\ Valued(g, p)
    BY <1>3, <2>2, AskedIs, AnsweredAre
  <2> QED BY ONLY <2>1, <2>2, <2>3
<1>6. FlatMap(f, Flat(ss)) = Flat(r) /\ Valued(f, Flat(ss)) /\ Lists(r)
  <2>1. /\ IsList(ss) /\ (\A i \in 1..Len(ss) : Valued(f, ss[i]))
        /\ IsList(r) /\ Len(r) = Len(ss) /\ \A i \in 1..Len(ss) : r[i] = FlatMap(f, ss[i])
    BY <1>5
  <2> QED BY ONLY <2>1, FlatMapFlat
<1>7. FlatMap(g, Flat(ss)) = Flat(a) /\ Valued(g, Flat(ss)) /\ Lists(a)
  <2>1. /\ IsList(ss) /\ (\A i \in 1..Len(ss) : Valued(g, ss[i]))
        /\ IsList(a) /\ Len(a) = Len(ss) /\ \A i \in 1..Len(ss) : a[i] = FlatMap(g, ss[i])
    BY <1>5
  <2> QED BY ONLY <2>1, FlatMapFlat
<1>8. IsList(u) /\ \A i \in 1..Len(u) : u[i] \in D
  BY ONLY <1>3, <1>4, <1>6 DEF Valued
<1>9. Wordy(u)
  BY ONLY <1>2, <1>8 DEF Wordy
<1>10. Asked(u, role) = FlatMap(f, u) /\ AnsweredIn(u) = FlatMap(g, u)
  BY <1>3, <1>8, <1>9, AskedIs, AnsweredAre
<1> QED BY ONLY <1>3, <1>6, <1>7, <1>9, <1>10

LEMMA TextOne ==
    ASSUME NEW t, IsList(t)
    PROVE  Texty(<<Text(t)>>) /\ Texts(<<Text(t)>>) = t
<1>1. PICK x : x = Text(t)
  OBVIOUS
<1>2. x.type = "text" /\ x.text = t
  BY <1>1 DEF Text
<1>3. IsList(<<x>>) /\ Len(<<x>>) = 1 /\ <<x>>[1] = x
  BY One
<1>4. Texty(<<x>>)
  BY <1>2, <1>3 DEF Texty
<1> DEFINE D == {x}
<1>5. PICK f : f = TextIn(D)
  OBVIOUS
<1>6. f[x] = t
  BY <1>2, <1>5 DEF TextIn
<1>7. Texts(<<x>>) = FlatMap(f, <<x>>)
  BY <1>3, <1>4, <1>5, TextsAre
<1>8. FlatMap(f, <<x>>) = f[x]
  BY <1>6, FlatMapOne
<1> QED BY <1>1, <1>4, <1>6, <1>7, <1>8

LEMMA AskedOne ==
    ASSUME NEW x, Texty(x.content), NEW role
    PROVE  /\ Wordy(<<x>>)
           /\ Asked(<<x>>, role) = IF x.role = role THEN Texts(x.content) ELSE <<>>
           /\ AnsweredIn(<<x>>) = IF x.role = "tool" THEN <<x.of>> ELSE <<>>
<1>1. IsList(<<x>>) /\ Len(<<x>>) = 1 /\ <<x>>[1] = x
  BY One
<1>2. Wordy(<<x>>)
  BY <1>1 DEF Wordy
<1> DEFINE D == {x}
<1>3. PICK f, g : f = SaidIn(D, role) /\ g = AnsweredOf(D)
  OBVIOUS
<1>4. /\ f[x] = IF x.role = role THEN Texts(x.content) ELSE <<>>
      /\ g[x] = IF x.role = "tool" THEN <<x.of>> ELSE <<>>
  BY <1>3 DEF SaidIn, AnsweredOf
<1>5. PICK e : e = x.of
  OBVIOUS
<1>6. IsList(f[x])
  BY <1>4, TextsList, Empty
<1>7. IsList(g[x])
  <2>1. IsList(<<e>>)
    BY One
  <2> QED BY <1>4, <1>5, <2>1, Empty
<1>8. Asked(<<x>>, role) = FlatMap(f, <<x>>) /\ AnsweredIn(<<x>>) = FlatMap(g, <<x>>)
  BY <1>1, <1>2, <1>3, AskedIs, AnsweredAre
<1>9. FlatMap(f, <<x>>) = f[x] /\ FlatMap(g, <<x>>) = g[x]
  BY <1>6, <1>7, FlatMapOne
<1> QED BY <1>2, <1>4, <1>8, <1>9

LEMMA AskedNone == ASSUME NEW role PROVE Wordy(<<>>) /\ Asked(<<>>, role) = <<>> /\ AnsweredIn(<<>>) = <<>>
<1>1. Wordy(<<>>)
  BY Empty DEF Wordy
<1>2. PICK f, g : f = SaidIn({}, role) /\ g = AnsweredOf({})
  OBVIOUS
<1>3. Asked(<<>>, role) = FlatMap(f, <<>>) /\ AnsweredIn(<<>>) = FlatMap(g, <<>>)
  BY <1>1, <1>2, Empty, AskedIs, AnsweredAre
<1> QED BY <1>1, <1>3, FlatMapNone

\* The tool results of a message: what they say, and the calls they answer.
ResultTexts(bs) == Flat([j \in DOMAIN bs |-> IF bs[j].type = "tool_result" THEN FlattenText(bs[j].content) ELSE <<>>])
ResultCalls(bs) == Flat([j \in DOMAIN bs |-> IF bs[j].type = "tool_result" THEN <<bs[j].of>> ELSE <<>>])
Resulting(bs) == IsList(bs) /\ \A b \in Range(bs) : b.type = "tool_result" => IsContent(b.content)

LEMMA ToolMessageIs ==
    ASSUME NEW b
    PROVE  LET m == ToolResultMessage(b)
           IN  m.role = "tool" /\ m.of = b.of /\ m.content = <<Text(FlattenText(b.content))>>
<1>1. PICK c : c = <<Text(FlattenText(b.content))>>
  OBVIOUS
<1>2. ToolResultMessage(b) = [OpenAi("tool", c) EXCEPT !.of = b.of]
  BY <1>1 DEF ToolResultMessage
<1> QED BY <1>1, <1>2 DEF OpenAi

LEMMA ResultsAre ==
    ASSUME NEW bs, Resulting(bs), NEW q, q = [i \in DOMAIN OfType(bs, "tool_result") |-> ToolResultMessage(OfType(bs, "tool_result")[i])]
    PROVE  /\ Wordy(q) /\ Len(q) = Len(OfType(bs, "tool_result"))
           /\ \A i \in 1..Len(q) : q[i].role = "tool" /\ q[i].of = OfType(bs, "tool_result")[i].of
           /\ Asked(q, "tool") = ResultTexts(bs)
           /\ \A role : role # "tool" => Asked(q, role) = <<>>
           /\ AnsweredIn(q) = ResultCalls(bs)
           /\ IsList(ResultTexts(bs)) /\ IsList(ResultCalls(bs))
<1> DEFINE Rs == {b \in Range(bs) : b.type = "tool_result"}
           say == [b \in Rs |-> FlattenText(b.content)]
           of == [b \in Rs |-> <<b.of>>]
<1>1. PICK rs : rs = OfType(bs, "tool_result")
  OBVIOUS
<1>2. IsList(rs) /\ Len(rs) \in Nat /\ DOMAIN rs = 1..Len(rs) /\ \A i \in 1..Len(rs) : rs[i] \in Rs
  <2>1. IsList(bs)
    BY DEF Resulting
  <2>2. IsList(rs) /\ \A i \in 1..Len(rs) : rs[i] \in Rs
    BY <1>1, <2>1, OfTypeHolds
  <2> QED BY <2>2, ListPlaces
<1>3. q = [i \in 1..Len(rs) |-> ToolResultMessage(rs[i])]
  BY <1>1, <1>2
<1>4. IsList(q) /\ Len(q) = Len(rs) /\ DOMAIN q = 1..Len(q)
  <2>1. q = [i \in 1..Len(rs) |-> q[i]]
    BY <1>3
  <2>2. IsList(q) /\ Len(q) = Len(rs)
    BY <1>2, <2>1, Built
  <2> QED BY <2>2, ListPlaces
<1>5. \A i \in 1..Len(q) : /\ q[i].role = "tool" /\ q[i].of = rs[i].of
                           /\ q[i].content = <<Text(FlattenText(rs[i].content))>>
  <2>1. \A i \in 1..Len(q) : q[i] = ToolResultMessage(rs[i])
    BY <1>3, <1>4
  <2> QED BY <2>1, ToolMessageIs
<1>6. \A b \in Rs : IsContent(b.content) /\ IsList(FlattenText(b.content))
  BY FlattenAre DEF Resulting
<1>7. \A i \in 1..Len(q) : Texty(q[i].content) /\ Texts(q[i].content) = FlattenText(rs[i].content)
  <2> SUFFICES ASSUME NEW i \in 1..Len(q) PROVE Texty(q[i].content) /\ Texts(q[i].content) = FlattenText(rs[i].content)
    OBVIOUS
  <2>1. PICK t : t = FlattenText(rs[i].content)
    OBVIOUS
  <2>2. IsList(t)
    BY <1>2, <1>4, <1>6, <2>1
  <2>3. Texty(<<Text(t)>>) /\ Texts(<<Text(t)>>) = t
    BY ONLY <2>2, TextOne
  <2> QED BY <1>5, <2>1, <2>3
<1>8. Wordy(q)
  BY <1>4, <1>7 DEF Wordy
<1>9. \A j \in 1..Len(bs) : bs[j].type = "tool_result" => /\ bs[j] \in Rs
  BY ListPlaces DEF Resulting, Range
<1>10. \A b \in Rs : IsList(<<b.of>>)
  <2> SUFFICES ASSUME NEW b \in Rs PROVE IsList(<<b.of>>)
    OBVIOUS
  <2>1. PICK e : e = b.of
    OBVIOUS
  <2>2. IsList(<<e>>)
    BY One
  <2> QED BY <2>1, <2>2
<1>11. DOMAIN bs = 1..Len(bs) /\ IsList(bs)
  BY ListPlaces DEF Resulting
<1>12. DOMAIN say = Rs /\ DOMAIN of = Rs /\ \A b \in Rs : say[b] = FlattenText(b.content) /\ of[b] = <<b.of>>
  OBVIOUS
<1> HIDE DEF Rs, say, of
<1>13. FlatMap(say, rs) = ResultTexts(bs) /\ Valued(say, rs)
  <2>1. PICK r, f : r = [j \in DOMAIN bs |-> IF bs[j].type = "tool_result" THEN f[bs[j]] ELSE <<>>] /\ f = say
    OBVIOUS
  <2>2. \A j \in 1..Len(bs) : bs[j].type = "tool_result" => bs[j] \in DOMAIN f /\ IsList(f[bs[j]])
    BY <1>6, <1>9, <1>12, <2>1
  <2>3. FlatMap(f, OfType(bs, "tool_result")) = Flat(r) /\ Valued(f, OfType(bs, "tool_result")) /\ Lists(r)
    <3>1. IsList(bs) /\ r = [j \in DOMAIN bs |-> IF bs[j].type = "tool_result" THEN f[bs[j]] ELSE <<>>]
      BY ONLY <1>11, <2>1
    <3> QED BY ONLY <2>2, <3>1, OfTypeAre
  <2>4. r = [j \in DOMAIN bs |-> IF bs[j].type = "tool_result" THEN FlattenText(bs[j].content) ELSE <<>>]
    BY <1>9, <1>11, <1>12, <2>1
  <2> QED BY <1>1, <2>1, <2>3, <2>4 DEF ResultTexts
<1>14. FlatMap(of, rs) = ResultCalls(bs) /\ Valued(of, rs)
  <2>1. PICK r, f : r = [j \in DOMAIN bs |-> IF bs[j].type = "tool_result" THEN f[bs[j]] ELSE <<>>] /\ f = of
    OBVIOUS
  <2>2. \A j \in 1..Len(bs) : bs[j].type = "tool_result" => bs[j] \in DOMAIN f /\ IsList(f[bs[j]])
    BY <1>9, <1>10, <1>12, <2>1
  <2>3. FlatMap(f, OfType(bs, "tool_result")) = Flat(r) /\ Valued(f, OfType(bs, "tool_result")) /\ Lists(r)
    <3>1. IsList(bs) /\ r = [j \in DOMAIN bs |-> IF bs[j].type = "tool_result" THEN f[bs[j]] ELSE <<>>]
      BY ONLY <1>11, <2>1
    <3> QED BY ONLY <2>2, <3>1, OfTypeAre
  <2>4. r = [j \in DOMAIN bs |-> IF bs[j].type = "tool_result" THEN <<bs[j].of>> ELSE <<>>]
    BY <1>9, <1>11, <1>12, <2>1
  <2> QED BY <1>1, <2>1, <2>3, <2>4 DEF ResultCalls
<1>15. Asked(q, "tool") = FlatMap(say, rs)
  <2>1. Mapped(say, rs) = [i \in DOMAIN q |-> Texts(q[i].content)]
    BY <1>2, <1>4, <1>7, <1>12 DEF Mapped
  <2>2. [i \in DOMAIN q |-> Texts(q[i].content)] = [i \in DOMAIN q |-> IF q[i].role # "tool" THEN <<>> ELSE Texts(q[i].content)]
    BY <1>4, <1>5
  <2> QED BY <2>1, <2>2 DEF Asked, Texts, FlatMap
<1>16. ASSUME NEW role, role # "tool" PROVE Asked(q, role) = <<>>
  <2>1. PICK r : r = [i \in DOMAIN q |-> IF q[i].role # role THEN <<>> ELSE Texts(q[i].content)]
    OBVIOUS
  <2>2. r = [i \in 1..Len(q) |-> r[i]] /\ \A i \in 1..Len(q) : r[i] = <<>>
    BY <1>4, <1>5, <1>16, <2>1
  <2>3. IsList(r) /\ Len(r) = Len(q)
    BY <1>2, <1>4, <2>2, Built
  <2>4. Flat(r) = <<>>
    BY <2>2, <2>3, FlatNothing
  <2> QED BY <2>1, <2>4 DEF Asked, Texts
<1>17. AnsweredIn(q) = FlatMap(of, rs)
  <2>1. \A i \in 1..Len(q) : of[rs[i]] = <<rs[i].of>> /\ q[i].role = "tool" /\ q[i].of = rs[i].of
    BY <1>2, <1>4, <1>5, <1>12
  <2>2. \A i \in 1..Len(q) : of[rs[i]] = IF q[i].role = "tool" THEN <<q[i].of>> ELSE <<>>
    BY <2>1
  <2>3. Mapped(of, rs) = [i \in 1..Len(q) |-> of[rs[i]]]
    BY <1>2, <1>4 DEF Mapped
  <2>4. Mapped(of, rs) = [i \in DOMAIN q |-> IF q[i].role = "tool" THEN <<q[i].of>> ELSE <<>>]
    BY <1>4, <2>2, <2>3
  <2> QED BY <2>4 DEF AnsweredIn, FlatMap
<1>18. IsList(FlatMap(say, rs)) /\ IsList(FlatMap(of, rs))
  BY <1>13, <1>14, ValuedMapped, FlatList DEF FlatMap
<1> QED BY <1>1, <1>4, <1>5, <1>8, <1>13, <1>14, <1>15, <1>16, <1>17, <1>18

\* What a piece holds, the whole holds.
LEMMA FlatHas ==
    ASSUME NEW s, Lists(s), NEW i \in 1..Len(s), NEW e, \E j \in 1..Len(s[i]) : s[i][j] = e
    PROVE  \E k \in 1..Len(Flat(s)) : Flat(s)[k] = e
<1>0. Len(s) \in Nat
  BY ListPlaces DEF Lists
<1>1. PICK h : /\ h[0] = <<>>
               /\ \A n \in 1..Len(s) : h[n] = h[n - 1] \o s[n]
               /\ h[Len(s)] = Flat(s)
               /\ \A n \in 0..Len(s) : IsList(h[n])
  BY FlatPrefixes
<1> DEFINE Bad == {n \in i..Len(s) : ~\E k \in 1..Len(h[n]) : h[n][k] = e}
<1>2. Bad = {}
  <2> SUFFICES ASSUME Bad # {} PROVE FALSE
    OBVIOUS
  <2>1. Bad \in SUBSET Nat
    BY <1>0
  <2>2. PICK n \in Bad : \A m \in Bad : n <= m
    BY <2>1, LeastNumber
  <2>3. PICK x, y : x = h[n - 1] /\ y = s[n]
    OBVIOUS
  <2>4. n \in 1..Len(s) /\ n - 1 \in 0..Len(s) /\ IsList(x) /\ IsList(y) /\ h[n] = x \o y
    <3>1. n \in 1..Len(s) /\ n - 1 \in 0..Len(s)
      BY <1>0, <2>2
    <3>2. IsList(x) /\ IsList(y)
      BY <1>1, <2>3, <3>1 DEF Lists
    <3>3. h[n] = h[n - 1] \o s[n]
      BY <1>1, <3>1
    <3> QED BY <2>3, <3>1, <3>2, <3>3
  <2>5. /\ IsList(x \o y) /\ Len(x \o y) = Len(x) + Len(y) /\ Len(x) \in Nat /\ Len(y) \in Nat
        /\ \A k \in 1..Len(x) : (x \o y)[k] = x[k]
        /\ \A k \in 1..Len(y) : (x \o y)[Len(x) + k] = y[k]
    <3>1. IsList(x) /\ IsList(y)
      BY <2>4
    <3>2. Len(x) \in Nat /\ Len(y) \in Nat
      BY ONLY <3>1, ListPlaces
    <3> QED BY ONLY <3>1, <3>2, Joined
  <2>6. CASE n = i
    <3>1. PICK j \in 1..Len(y) : y[j] = e
      BY <2>3, <2>6
    <3>2. Len(x) + j \in 1..Len(x \o y) /\ (x \o y)[Len(x) + j] = e
      BY <2>5, <3>1
    <3> QED BY <2>2, <2>4, <3>2
  <2>7. CASE n # i
    <3>1. n - 1 \in i..Len(s) /\ n - 1 \notin Bad
      <4>1. n - 1 \in i..Len(s) /\ ~(n <= n - 1)
        BY <1>0, <2>2, <2>7
      <4> QED BY <2>2, <4>1
    <3>2. PICK k \in 1..Len(x) : x[k] = e
      BY <2>3, <3>1
    <3>3. k \in 1..Len(x \o y) /\ (x \o y)[k] = e
      BY <2>5, <3>2
    <3> QED BY <2>2, <2>4, <3>3
  <2> QED BY <2>6, <2>7
<1>3. Len(s) \in i..Len(s)
  BY <1>0
<1> QED BY <1>1, <1>2, <1>3

LEMMA OfTypeHas ==
    ASSUME NEW bs, IsList(bs), NEW ty, NEW b \in Range(bs), b.type = ty
    PROVE  \E k \in 1..Len(OfType(bs, ty)) : OfType(bs, ty)[k] = b
<1> DEFINE ss == [j \in 1..Len(bs) |-> IF bs[j].type = ty THEN <<bs[j]>> ELSE <<>>]
<1>0. Len(bs) \in Nat /\ DOMAIN bs = 1..Len(bs)
  BY ListPlaces
<1>1. IsList(ss) /\ Len(ss) = Len(bs) /\ \A j \in 1..Len(bs) : ss[j] = IF bs[j].type = ty THEN <<bs[j]>> ELSE <<>>
  <2>1. ss = [j \in 1..Len(bs) |-> ss[j]]
    OBVIOUS
  <2>2. IsList(ss) /\ Len(ss) = Len(bs)
    <3> HIDE DEF ss
    <3> QED BY <1>0, <2>1, Built
  <2> QED BY <2>2
<1>2. OfType(bs, ty) = Flat(ss)
  BY <1>0 DEF OfType
<1>3. PICK i \in 1..Len(bs) : bs[i] = b
  BY <1>0 DEF Range
<1> HIDE DEF ss
<1>4. ss[i] = <<b>> /\ Len(<<b>>) = 1 /\ <<b>>[1] = b
  BY <1>1, <1>3, One
<1>5. \E j \in 1..Len(ss[i]) : ss[i][j] = b
  <2>1. 1 \in 1..Len(ss[i]) /\ ss[i][1] = b
    BY <1>4
  <2> QED BY <2>1
<1>6. Lists(ss)
  <2> SUFFICES ASSUME NEW j \in 1..Len(ss) PROVE IsList(ss[j])
    BY <1>1 DEF Lists
  <2>1. PICK x : x = bs[j]
    OBVIOUS
  <2>2. ss[j] = <<x>> \/ ss[j] = <<>>
    BY <1>1, <2>1
  <2> QED BY <2>2, One, Empty
<1>7. i \in 1..Len(ss)
  BY <1>1
<1> QED BY <1>2, <1>5, <1>6, <1>7, FlatHas

\* A message as an agent sends it, and what its tool results say and answer.
Sayable(m) ==
    /\ m.role \in {"user", "assistant"}
    /\ IsContent(m.content)
    /\ "plain" \notin DOMAIN m.content => Resulting(m.content.blocks)

ResultTextsOf(c) == IF "plain" \in DOMAIN c THEN <<>> ELSE ResultTexts(c.blocks)
ResultCallsOf(c) == IF "plain" \in DOMAIN c THEN <<>> ELSE ResultCalls(c.blocks)

\* What is sent of a message: its results, then one message with its calls.
ResultsThen(c, q, l) ==
    /\ IsList(q) /\ IsList(l)
    /\ \A i \in 1..Len(q) : q[i].role = "tool" /\ \E b \in Range(c.blocks) : b.type = "tool_result" /\ q[i].of = b.of
    /\ \A i \in 1..Len(l) : l[i].role # "tool"
    /\ Len(q) > 0 => "plain" \notin DOMAIN c
    /\ \A id \in CallsIn(c) : Len(l) = 1 /\ \E k \in DOMAIN l[1].calls : l[1].calls[k].id = id

SaidOf(m) == [OpenAi(m.role, Parts(m.content.blocks)) EXCEPT !.calls = OfType(m.content.blocks, "tool_use")]

LEMMA SaidIs ==
    ASSUME NEW m
    PROVE  /\ SaidOf(m).role = m.role /\ SaidOf(m).content = Parts(m.content.blocks)
           /\ SaidOf(m).calls = OfType(m.content.blocks, "tool_use")
<1>1. PICK p, c : p = Parts(m.content.blocks) /\ c = OfType(m.content.blocks, "tool_use")
  OBVIOUS
<1>2. SaidOf(m) = [OpenAi(m.role, p) EXCEPT !.calls = c]
  BY <1>1 DEF SaidOf
<1> QED BY <1>1, <1>2 DEF OpenAi

LEMMA PushedPlain ==
    ASSUME NEW m, Sayable(m), "plain" \in DOMAIN m.content
    PROVE  /\ Wordy(PushMessage(m))
           /\ \A role : Asked(PushMessage(m), role) =
                  IF role = m.role THEN Words(m.content) ELSE IF role = "tool" THEN ResultTextsOf(m.content) ELSE <<>>
           /\ AnsweredIn(PushMessage(m)) = ResultCallsOf(m.content)
           /\ \E q, l : PushMessage(m) = q \o l /\ ResultsThen(m.content, q, l)
<1>1. PICK t, x : t = m.content.plain /\ x = OpenAi(m.role, <<Text(t)>>)
  OBVIOUS
<1>2. PushMessage(m) = <<x>> /\ IsList(t) /\ Words(m.content) = t
  BY <1>1, WordsIs DEF Sayable, IsContent, PushMessage
<1>3. x.role = m.role /\ x.content = <<Text(t)>> /\ m.role # "tool"
  BY <1>1 DEF OpenAi, Sayable
<1>4. Texty(x.content) /\ Texts(x.content) = t
  BY <1>2, <1>3, TextOne
<1>5. ResultTextsOf(m.content) = <<>> /\ ResultCallsOf(m.content) = <<>> /\ CallsIn(m.content) = {}
  BY DEF ResultTextsOf, ResultCallsOf, CallsIn
<1>6. \A role : Asked(<<x>>, role) = IF x.role = role THEN Texts(x.content) ELSE <<>>
  BY <1>4, AskedOne
<1>7. Wordy(<<x>>) /\ AnsweredIn(<<x>>) = <<>>
  BY <1>3, <1>4, AskedOne
<1>8. <<x>> = <<>> \o <<x>> /\ IsList(<<x>>) /\ Len(<<x>>) = 1 /\ <<x>>[1] = x
  BY One, JoinedNone
<1>9. ResultsThen(m.content, <<>>, <<x>>)
  BY <1>3, <1>5, <1>8, Empty DEF ResultsThen
<1> QED BY <1>2, <1>3, <1>4, <1>5, <1>6, <1>7, <1>8, <1>9

LEMMA PushedBlocks ==
    ASSUME NEW m, Sayable(m), "plain" \notin DOMAIN m.content
    PROVE  /\ Wordy(PushMessage(m))
           /\ \A role : Asked(PushMessage(m), role) =
                  IF role = m.role THEN Words(m.content) ELSE IF role = "tool" THEN ResultTextsOf(m.content) ELSE <<>>
           /\ AnsweredIn(PushMessage(m)) = ResultCallsOf(m.content)
           /\ \E q, l : PushMessage(m) = q \o l /\ ResultsThen(m.content, q, l)
<1>1. PICK bs, q, x : /\ bs = m.content.blocks /\ x = SaidOf(m)
                      /\ q = [i \in DOMAIN OfType(bs, "tool_result") |-> ToolResultMessage(OfType(bs, "tool_result")[i])]
  OBVIOUS
<1>2. x.role = m.role /\ x.content = Parts(bs) /\ x.calls = OfType(bs, "tool_use")
  BY <1>1, SaidIs
<1>3. PICK l : l = IF Parts(bs) = <<>> /\ OfType(bs, "tool_use") = <<>> THEN <<>> ELSE <<x>>
  OBVIOUS
<1>4. PushMessage(m) = q \o l
  <2>1. [OpenAi(m.role, Parts(bs)) EXCEPT !.calls = OfType(bs, "tool_use")] = x
    BY <1>1 DEF SaidOf
  <2>2. l = IF x.content = <<>> /\ x.calls = <<>> THEN <<>> ELSE <<x>>
    BY <1>2, <1>3
  <2> QED BY <1>1, <2>1, <2>2 DEF PushMessage
<1>5. Resulting(bs) /\ IsList(bs) /\ Texty(bs) /\ Words(m.content) = Texts(bs) /\ m.role # "tool"
  BY <1>1, WordsIs DEF Sayable, Resulting
<1>6. /\ Wordy(q) /\ Len(q) = Len(OfType(bs, "tool_result"))
      /\ \A i \in 1..Len(q) : q[i].role = "tool" /\ q[i].of = OfType(bs, "tool_result")[i].of
      /\ Asked(q, "tool") = ResultTexts(bs)
      /\ \A role : role # "tool" => Asked(q, role) = <<>>
      /\ AnsweredIn(q) = ResultCalls(bs)
      /\ IsList(ResultTexts(bs)) /\ IsList(ResultCalls(bs))
  BY <1>1, <1>5, ResultsAre
<1>7. Texty(Parts(bs)) /\ Texts(Parts(bs)) = Texts(bs) /\ IsList(Texts(bs))
  BY <1>5, PartsAre, TextsList
<1>8. Wordy(l) /\ AnsweredIn(l) = <<>> /\ \A role : Asked(l, role) = IF role = m.role THEN Texts(bs) ELSE <<>>
  <2>1. CASE l = <<>>
    <3>1. Texts(<<>>) = <<>>
      <4>1. PICK f : f = TextIn({})
        OBVIOUS
      <4>2. Texty(<<>>)
        BY Empty DEF Texty
      <4>3. Texts(<<>>) = FlatMap(f, <<>>)
        BY <4>1, <4>2, Empty, TextsAre
      <4> QED BY <4>3, FlatMapNone
    <3>2. IsList(<<x>>) /\ Len(<<x>>) = 1 /\ Len(<<>>) = 0
      BY One, Empty
    <3>3. <<x>> # <<>>
      BY <3>2
    <3>4. Texts(bs) = <<>>
      BY <1>3, <1>7, <2>1, <3>1, <3>3
    <3> QED BY <2>1, <3>4, AskedNone
  <2>2. CASE l = <<x>>
    <3>1. Texty(x.content) /\ Texts(x.content) = Texts(bs) /\ x.role = m.role
      BY <1>2, <1>7
    <3>2. Wordy(<<x>>) /\ AnsweredIn(<<x>>) = <<>>
      BY <1>5, <3>1, AskedOne
    <3>3. \A role : Asked(<<x>>, role) = IF x.role = role THEN Texts(x.content) ELSE <<>>
      BY <3>1, AskedOne
    <3> QED BY <2>2, <3>1, <3>2, <3>3
  <2> QED BY <1>3, <2>1, <2>2
<1>9. Wordy(q \o l) /\ AnsweredIn(q \o l) = AnsweredIn(q) \o AnsweredIn(l)
  BY <1>6, <1>8, AskedJoin
<1>10. AnsweredIn(q \o l) = ResultCallsOf(m.content)
  <2>1. AnsweredIn(q \o l) = ResultCalls(bs) \o <<>>
    BY <1>6, <1>8, <1>9
  <2>2. ResultCalls(bs) \o <<>> = ResultCalls(bs)
    BY <1>6, JoinedNone
  <2> QED BY <1>1, <2>1, <2>2 DEF ResultCallsOf
<1>11. ASSUME NEW role
       PROVE  Asked(q \o l, role) =
                  IF role = m.role THEN Words(m.content) ELSE IF role = "tool" THEN ResultTextsOf(m.content) ELSE <<>>
  <2>1. Asked(q \o l, role) = Asked(q, role) \o Asked(l, role)
    <3>1. Wordy(q) /\ Wordy(l)
      BY <1>6, <1>8
    <3>2. Wordy(q) /\ Wordy(l) => Asked(q \o l, role) = Asked(q, role) \o Asked(l, role)
      BY ONLY AskedJoin
    <3> QED BY <3>1, <3>2
  <2>2. PICK t, r : t = Texts(bs) /\ r = ResultTexts(bs)
    OBVIOUS
  <2>3. t \o <<>> = t /\ <<>> \o t = t /\ r \o <<>> = r /\ <<>> \o <<>> = <<>>
    BY <1>6, <1>7, <2>2, JoinedNone, Empty
  <2>4. ResultTextsOf(m.content) = r
    BY <1>1, <2>2 DEF ResultTextsOf
  <2>5. CASE role = m.role
    <3>1. Asked(q, role) = <<>> /\ Asked(l, role) = t
      BY <1>5, <1>6, <1>8, <2>2, <2>5
    <3> QED BY <1>5, <2>1, <2>2, <2>3, <2>5, <3>1
  <2>6. CASE role = "tool"
    <3>1. Asked(q, role) = r /\ Asked(l, role) = <<>>
      BY <1>5, <1>6, <1>8, <2>2, <2>6
    <3> QED BY <1>5, <2>1, <2>3, <2>4, <2>6, <3>1
  <2>7. CASE role # m.role /\ role # "tool"
    <3>1. Asked(q, role) = <<>> /\ Asked(l, role) = <<>>
      BY <1>6, <1>8, <2>7
    <3> QED BY <2>1, <2>3, <2>7, <3>1
  <2> QED BY <2>5, <2>6, <2>7
<1>12. ResultsThen(m.content, q, l)
  <2>1. IsList(q) /\ IsList(l)
    BY <1>6, <1>8 DEF Wordy
  <2>2. \A i \in 1..Len(q) : q[i].role = "tool" /\ \E b \in Range(bs) : b.type = "tool_result" /\ q[i].of = b.of
    BY <1>5, <1>6, OfTypeHolds
  <2>3. \A i \in 1..Len(l) : l[i].role # "tool"
    <3>1. IsList(<<x>>) /\ Len(<<x>>) = 1 /\ <<x>>[1] = x /\ Len(<<>>) = 0
      BY One, Empty
    <3>2. Len(l) = 0 \/ (Len(l) = 1 /\ l[1] = x)
      BY <1>3, <3>1
    <3> QED BY <1>2, <1>5, <3>2
  <2>4. ASSUME NEW id \in CallsIn(m.content) PROVE Len(l) = 1 /\ \E k \in DOMAIN l[1].calls : l[1].calls[k].id = id
    <3>1. PICK b \in Range(bs) : b.type = "tool_use" /\ b.id = id
      BY <1>1 DEF CallsIn
    <3>2. PICK u : u = OfType(bs, "tool_use")
      OBVIOUS
    <3>3. IsList(u) /\ \E k \in 1..Len(u) : u[k] = b
      BY <1>5, <3>1, <3>2, OfTypeHas, OfTypeHolds
    <3>4. DOMAIN u = 1..Len(u) /\ u # <<>>
      BY <3>3, ListPlaces, Empty
    <3>5. IsList(<<x>>) /\ Len(<<x>>) = 1 /\ <<x>>[1] = x
      BY One
    <3>6. l = <<x>> /\ x.calls = u
      BY <1>2, <1>3, <3>2, <3>4
    <3> QED BY <3>1, <3>3, <3>4, <3>5, <3>6
  <2> QED BY <1>1, <2>1, <2>2, <2>3, <2>4 DEF ResultsThen
<1> QED BY <1>4, <1>9, <1>10, <1>11, <1>12

LEMMA Pushed ==
    ASSUME NEW m, Sayable(m)
    PROVE  /\ Wordy(PushMessage(m))
           /\ \A role : Asked(PushMessage(m), role) =
                  IF role = m.role THEN Words(m.content) ELSE IF role = "tool" THEN ResultTextsOf(m.content) ELSE <<>>
           /\ AnsweredIn(PushMessage(m)) = ResultCallsOf(m.content)
           /\ \E q, l : PushMessage(m) = q \o l /\ ResultsThen(m.content, q, l)
<1>1. CASE "plain" \in DOMAIN m.content
  BY <1>1, PushedPlain
<1>2. CASE "plain" \notin DOMAIN m.content
  BY <1>2, PushedBlocks
<1> QED BY <1>1, <1>2

\* The characters counted of a message are those of its words and its results, but
\* for the newlines put between the texts of a result.
LEMMA CharsAre ==
    ASSUME NEW m, Sayable(m)
    PROVE  /\ IsList(Words(m.content)) /\ IsList(ResultTextsOf(m.content)) /\ JointsOf(m.content) \in Nat
           /\ CharsIn(m.content) \in Nat
           /\ CharsIn(m.content) + JointsOf(m.content) = Len(Words(m.content)) + Len(ResultTextsOf(m.content))
<1>0. IsContent(m.content) /\ IsList(Words(m.content))
  BY WordsList DEF Sayable
<1>1. CASE "plain" \in DOMAIN m.content
  <2>1. Words(m.content) = m.content.plain /\ IsList(m.content.plain)
    BY <1>0, <1>1, WordsIs
  <2>2. Len(m.content.plain) \in Nat
    BY <2>1, ListPlaces
  <2>3. ResultTextsOf(m.content) = <<>> /\ CharsIn(m.content) = Len(m.content.plain) /\ JointsOf(m.content) = 0
    BY <1>1 DEF ResultTextsOf, CharsIn, JointsOf
  <2> QED BY <2>1, <2>2, <2>3, Empty
<1>2. CASE "plain" \notin DOMAIN m.content
  <2>1. PICK bs : bs = m.content.blocks
    OBVIOUS
  <2>2. /\ Texty(bs) /\ Resulting(bs) /\ IsList(bs) /\ DOMAIN bs = 1..Len(bs) /\ Len(bs) \in Nat
        /\ Words(m.content) = Texts(bs)
    BY <1>0, <1>2, <2>1, WordsIs, ListPlaces DEF Sayable, Texty
  <2> DEFINE say(b) == IF b.type = "text" THEN b.text ELSE <<>>
             tell(b) == IF b.type = "tool_result" THEN FlattenText(b.content) ELSE <<>>
             both(b) == IF b.type = "text" THEN Len(b.text)
                        ELSE IF b.type = "tool_result" THEN Len(Words(b.content)) ELSE 0
             join(b) == IF b.type = "tool_result" THEN Joints(b.content) ELSE 0
  <2>3. PICK s, t, u, v, w, z, x : /\ s = [j \in DOMAIN bs |-> say(bs[j])] /\ t = [j \in DOMAIN bs |-> tell(bs[j])]
                             /\ u = [j \in DOMAIN bs |-> both(bs[j])]
                             /\ v = [j \in DOMAIN bs |-> Len(say(bs[j]))] /\ w = [j \in DOMAIN bs |-> Len(tell(bs[j]))]
                             /\ z = [j \in DOMAIN bs |-> join(bs[j])] /\ x = [j \in DOMAIN bs |-> both(bs[j]) + join(bs[j])]
    OBVIOUS
  <2>4. /\ CharsIn(m.content) = Total(u) /\ Texts(bs) = Flat(s) /\ ResultTextsOf(m.content) = Flat(t)
        /\ JointsOf(m.content) = Total(z)
    BY <1>2, <2>1, <2>3 DEF CharsIn, Texts, ResultTextsOf, ResultTexts, JointsOf
  <2>5. ASSUME NEW j \in 1..Len(bs)
        PROVE  /\ IsList(say(bs[j])) /\ IsList(tell(bs[j])) /\ both(bs[j]) \in Nat /\ join(bs[j]) \in Nat
               /\ both(bs[j]) + join(bs[j]) = Len(say(bs[j])) + Len(tell(bs[j]))
    <3>1. PICK b : b = bs[j] /\ b \in Range(bs)
      BY <2>2 DEF Range
    <3>2. b.type = "text" => IsList(b.text)
      BY <2>2, <3>1 DEF Texty
    <3>3. b.type = "tool_result" => /\ IsList(FlattenText(b.content)) /\ IsList(Words(b.content)) /\ Joints(b.content) \in Nat
                                    /\ Len(FlattenText(b.content)) = Len(Words(b.content)) + Joints(b.content)
      BY <2>2, <3>1, FlattenAre DEF Resulting
    <3>4. b.type = "text" => Len(b.text) \in Nat
      BY <3>2, ListPlaces
    <3>5. b.type = "tool_result" => Len(Words(b.content)) \in Nat
      BY <3>3, ListPlaces
    <3>6. IsList(say(b)) /\ IsList(tell(b)) /\ both(b) \in Nat /\ join(b) \in Nat /\ both(b) + join(b) = Len(say(b)) + Len(tell(b))
      <4>1. CASE b.type = "text"
        <5>1. say(b) = b.text /\ tell(b) = <<>> /\ both(b) = Len(b.text) /\ join(b) = 0
          BY <4>1
        <5> HIDE DEF say, tell, both, join
        <5> QED BY <3>2, <3>4, <4>1, <5>1, Empty
      <4>2. CASE b.type = "tool_result"
        <5>1. /\ say(b) = <<>> /\ tell(b) = FlattenText(b.content) /\ both(b) = Len(Words(b.content))
              /\ join(b) = Joints(b.content)
          BY <4>2
        <5> HIDE DEF say, tell, both, join
        <5> QED BY <3>3, <3>5, <4>2, <5>1, Empty
      <4>3. CASE b.type \notin {"text", "tool_result"}
        <5>1. say(b) = <<>> /\ tell(b) = <<>> /\ both(b) = 0 /\ join(b) = 0
          BY <4>3
        <5> HIDE DEF say, tell, both, join
        <5> QED BY <5>1, Empty
      <4> QED BY <4>1, <4>2, <4>3
    <3> QED BY <3>1, <3>6
  <2> HIDE DEF say, tell, both, join
  <2>6. /\ IsList(s) /\ Len(s) = Len(bs) /\ \A j \in 1..Len(bs) : s[j] = say(bs[j])
        /\ IsList(t) /\ Len(t) = Len(bs) /\ \A j \in 1..Len(bs) : t[j] = tell(bs[j])
    <3>1. s = [j \in 1..Len(bs) |-> s[j]] /\ t = [j \in 1..Len(bs) |-> t[j]]
      BY <2>2, <2>3
    <3>2. IsList(s) /\ Len(s) = Len(bs) /\ IsList(t) /\ Len(t) = Len(bs)
      BY <2>2, <3>1, Built
    <3> QED BY <2>2, <2>3, <3>2
  <2>7. /\ IsList(u) /\ Len(u) = Len(bs) /\ \A j \in 1..Len(bs) : u[j] = both(bs[j])
        /\ IsList(v) /\ Len(v) = Len(bs) /\ \A j \in 1..Len(bs) : v[j] = Len(say(bs[j]))
        /\ IsList(w) /\ Len(w) = Len(bs) /\ \A j \in 1..Len(bs) : w[j] = Len(tell(bs[j]))
        /\ IsList(z) /\ Len(z) = Len(bs) /\ \A j \in 1..Len(bs) : z[j] = join(bs[j])
        /\ IsList(x) /\ Len(x) = Len(bs) /\ \A j \in 1..Len(bs) : x[j] = both(bs[j]) + join(bs[j])
    <3>1. /\ u = [j \in 1..Len(bs) |-> u[j]] /\ v = [j \in 1..Len(bs) |-> v[j]] /\ w = [j \in 1..Len(bs) |-> w[j]]
          /\ z = [j \in 1..Len(bs) |-> z[j]] /\ x = [j \in 1..Len(bs) |-> x[j]]
      BY <2>2, <2>3
    <3>2. /\ IsList(u) /\ Len(u) = Len(bs) /\ IsList(v) /\ Len(v) = Len(bs) /\ IsList(w) /\ Len(w) = Len(bs)
          /\ IsList(z) /\ Len(z) = Len(bs) /\ IsList(x) /\ Len(x) = Len(bs)
      BY <2>2, <3>1, Built
    <3> QED BY <2>2, <2>3, <3>2
  <2>8. Lists(s) /\ Lists(t)
    BY <2>5, <2>6 DEF Lists
  <2>9. \A j \in 1..Len(s) : v[j] = Len(s[j])
    BY <2>6, <2>7
  <2>10. \A j \in 1..Len(t) : w[j] = Len(t[j])
    BY <2>6, <2>7
  <2>11. Len(Flat(s)) = Total(v) /\ Numbers(v)
    BY <2>6, <2>7, <2>8, <2>9, LenFlat
  <2>12. Len(Flat(t)) = Total(w) /\ Numbers(w)
    BY <2>6, <2>7, <2>8, <2>10, LenFlat
  <2>13. \A j \in 1..Len(v) : x[j] = v[j] + w[j]
    BY <2>5, <2>7
  <2>14. Total(x) = Total(v) + Total(w)
    BY <2>7, <2>11, <2>12, <2>13, TotalSum
  <2>15. Numbers(u) /\ Numbers(z)
    BY <2>5, <2>7 DEF Numbers
  <2>16. Total(x) = Total(u) + Total(z)
    <3>1. Len(z) = Len(u) /\ Len(x) = Len(u) /\ \A j \in 1..Len(u) : x[j] = u[j] + z[j]
      BY <2>7
    <3> QED BY <2>7, <2>15, <3>1, TotalSum
  <2>17. IsList(Flat(t)) /\ Total(u) \in Nat /\ Total(z) \in Nat
    BY <2>8, <2>15, FlatList, TotalNat
  <2> QED BY <1>0, <2>2, <2>4, <2>11, <2>12, <2>14, <2>16, <2>17
<1> QED BY <1>1, <1>2

-----------------------------------------------------------------------------
(* What goes upstream of a conversation.                                   *)

SystemOf(req) == IF FlattenText(req.system) = <<>> THEN <<>> ELSE <<OpenAi("system", <<Text(FlattenText(req.system))>>)>>
PushesOf(req) == [i \in DOMAIN req.messages |-> PushMessage(req.messages[i])]

LEMMA SystemIs ==
    ASSUME NEW req, IsContent(req.system), NEW sys, sys = SystemOf(req)
    PROVE  /\ Wordy(sys) /\ AnsweredIn(sys) = <<>>
           /\ \A role : Asked(sys, role) = IF role = "system" THEN FlattenText(req.system) ELSE <<>>
           /\ \A i \in 1..Len(sys) : sys[i].role # "tool"
<1>1. CASE FlattenText(req.system) = <<>>
  <2>1. sys = <<>>
    BY <1>1 DEF SystemOf
  <2> QED BY <1>1, <2>1, AskedNone, Empty
<1>2. CASE FlattenText(req.system) # <<>>
  <2>1. PICK t, x : t = FlattenText(req.system) /\ x = OpenAi("system", <<Text(t)>>)
    OBVIOUS
  <2>2. sys = <<x>> /\ IsList(t)
    BY <1>2, <2>1, FlattenAre DEF SystemOf
  <2>3. x.role = "system" /\ x.content = <<Text(t)>>
    BY <2>1 DEF OpenAi
  <2>4. Texty(x.content) /\ Texts(x.content) = t
    BY <2>2, <2>3, TextOne
  <2>5. \A role : Asked(<<x>>, role) = IF x.role = role THEN Texts(x.content) ELSE <<>>
    BY <2>4, AskedOne
  <2>6. Wordy(<<x>>) /\ AnsweredIn(<<x>>) = <<>>
    BY <2>3, <2>4, AskedOne
  <2>7. Len(<<x>>) = 1 /\ <<x>>[1] = x
    BY One
  <2> QED BY <2>1, <2>2, <2>3, <2>4, <2>5, <2>6, <2>7
<1> QED BY <1>1, <1>2

LEMMA AllHeard ==
    ASSUME NEW req, Conversation(req)
    PROVE  /\ IsContent(req.system) /\ IsList(req.messages) /\ DOMAIN req.messages = 1..Len(req.messages) /\ Len(req.messages) \in Nat
           /\ \A i \in 1..Len(req.messages) : Sayable(req.messages[i])
<1>1. IsContent(req.system) /\ IsList(req.messages)
  BY DEF Conversation
<1>2. DOMAIN req.messages = 1..Len(req.messages) /\ Len(req.messages) \in Nat
  BY <1>1, ListPlaces
<1>3. ASSUME NEW i \in 1..Len(req.messages) PROVE Sayable(req.messages[i])
  <2>1. PICK m : m = req.messages[i]
    OBVIOUS
  <2>2. /\ m.role \in {"user", "assistant"} /\ IsContent(m.content)
        /\ "plain" \notin DOMAIN m.content => \A b \in Range(m.content.blocks) : b.type = "tool_result" => IsContent(b.content)
    BY <2>1 DEF Conversation
  <2>3. "plain" \notin DOMAIN m.content => IsList(m.content.blocks)
    BY <2>2 DEF IsContent
  <2> QED BY <2>1, <2>2, <2>3 DEF Sayable, Resulting
<1> QED BY <1>1, <1>2, <1>3

\* The words of a role, message by message.
WordsOf(m, role) ==
    IF role = m.role THEN Words(m.content) ELSE IF role = "tool" THEN ResultTextsOf(m.content) ELSE <<>>

LEMMA SentOn ==
    ASSUME NEW req, Conversation(req), NEW role,
           NEW r, r = [i \in DOMAIN req.messages |-> WordsOf(req.messages[i], role)]
    PROVE  /\ Asked(ToOpenAiMessages(req), role) = Asked(SystemOf(req), role) \o Flat(r)
           /\ Lists(r) /\ Len(r) = Len(req.messages) /\ IsList(Flat(r))
           /\ AnsweredIn(ToOpenAiMessages(req)) = ResultsIn(req)
<1>1. PICK ms, n : ms = req.messages /\ n = Len(req.messages)
  OBVIOUS
<1>2. /\ IsContent(req.system) /\ IsList(ms) /\ DOMAIN ms = 1..n /\ n = Len(ms) /\ n \in Nat
      /\ \A i \in 1..n : Sayable(ms[i])
  BY <1>1, AllHeard
<1>3. PICK P, a, sys : /\ P = [i \in 1..n |-> PushMessage(ms[i])] /\ a = [i \in 1..n |-> ResultCallsOf(ms[i].content)]
                       /\ sys = SystemOf(req)
  OBVIOUS
<1>4. /\ IsList(P) /\ Len(P) = n /\ \A i \in 1..n : P[i] = PushMessage(ms[i])
  <2>1. P = [i \in 1..n |-> P[i]]
    BY <1>3
  <2>2. IsList(P) /\ Len(P) = n
    BY <1>2, <2>1, Built
  <2> QED BY <1>3, <2>2
<1>5. /\ IsList(a) /\ Len(a) = n /\ \A i \in 1..n : a[i] = ResultCallsOf(ms[i].content)
  <2>1. a = [i \in 1..n |-> a[i]]
    BY <1>3
  <2>2. IsList(a) /\ Len(a) = n
    BY <1>2, <2>1, Built
  <2> QED BY <1>3, <2>2
<1>6. /\ IsList(r) /\ Len(r) = n /\ \A i \in 1..n : r[i] = WordsOf(ms[i], role)
  <2>1. r = [i \in 1..n |-> r[i]]
    BY <1>1, <1>2
  <2>2. IsList(r) /\ Len(r) = n
    BY <1>2, <2>1, Built
  <2> QED BY <1>1, <1>2, <2>2
<1>7. \A i \in 1..n : Wordy(P[i]) /\ r[i] = Asked(P[i], role) /\ a[i] = AnsweredIn(P[i])
  <2> SUFFICES ASSUME NEW i \in 1..n PROVE Wordy(P[i]) /\ r[i] = Asked(P[i], role) /\ a[i] = AnsweredIn(P[i])
    OBVIOUS
  <2>1. PICK m : m = ms[i]
    OBVIOUS
  <2>2. Sayable(m)
    BY <1>2, <2>1
  <2>3. Wordy(PushMessage(m)) /\ Asked(PushMessage(m), role) = WordsOf(m, role) /\ AnsweredIn(PushMessage(m)) = ResultCallsOf(m.content)
    BY <2>2, Pushed DEF WordsOf
  <2> QED BY <1>4, <1>5, <1>6, <2>1, <2>3
<1>8. PICK all : all = Flat(P)
  OBVIOUS
<1>9. Wordy(all) /\ Asked(all, role) = Flat(r) /\ AnsweredIn(all) = Flat(a) /\ Lists(r) /\ Lists(a)
  <2>1. IsList(P) /\ \A i \in 1..Len(P) : Wordy(P[i])
    BY <1>4, <1>7
  <2>2. IsList(r) /\ Len(r) = Len(P) /\ \A i \in 1..Len(P) : r[i] = Asked(P[i], role)
    BY <1>4, <1>6, <1>7
  <2>3. IsList(a) /\ Len(a) = Len(P) /\ \A i \in 1..Len(P) : a[i] = AnsweredIn(P[i])
    BY <1>4, <1>5, <1>7
  <2>4. Wordy(Flat(P)) /\ Asked(Flat(P), role) = Flat(r) /\ AnsweredIn(Flat(P)) = Flat(a) /\ Lists(r) /\ Lists(a)
    BY ONLY <2>1, <2>2, <2>3, AskedFlat
  <2> QED BY <1>8, <2>4
<1>10. Wordy(sys) /\ AnsweredIn(sys) = <<>>
  BY <1>2, <1>3, SystemIs
<1>11. Wordy(sys) /\ Wordy(all) => Asked(sys \o all, role) = Asked(sys, role) \o Asked(all, role)
  BY ONLY AskedJoin
<1>12. Wordy(sys) /\ Wordy(all) => AnsweredIn(sys \o all) = AnsweredIn(sys) \o AnsweredIn(all)
  BY ONLY AskedJoin
<1>13. ToOpenAiMessages(req) = sys \o all
  <2>1. P = [i \in DOMAIN req.messages |-> PushMessage(req.messages[i])]
    BY <1>1, <1>2, <1>3
  <2> QED BY <1>3, <1>8, <2>1 DEF ToOpenAiMessages, SystemOf
<1>14. Flat(a) = ResultsIn(req)
  <2>1. a = [i \in DOMAIN req.messages |->
               LET content == req.messages[i].content
               IN  IF "plain" \in DOMAIN content THEN <<>>
                   ELSE Flat([j \in DOMAIN content.blocks |->
                                IF content.blocks[j].type = "tool_result" THEN <<content.blocks[j].of>> ELSE <<>>])]
    BY <1>1, <1>2, <1>3 DEF ResultCallsOf, ResultCalls
  <2> QED BY <2>1 DEF ResultsIn
<1>15. IsList(Flat(a)) /\ IsList(Flat(r))
  BY <1>9, FlatList
<1>16. <<>> \o Flat(a) = Flat(a)
  <2>1. PICK y : y = Flat(a)
    OBVIOUS
  <2> QED BY <1>15, <2>1, JoinedNone
<1> QED BY <1>1, <1>3, <1>6, <1>9, <1>10, <1>11, <1>12, <1>13, <1>14, <1>15, <1>16

\* A conversation keeps its words, and every result it gives.
LEMMA WordsKept ==
    ASSUME NEW req, Conversation(req), NEW role \in {"user", "assistant"}
    PROVE  Asked(ToOpenAiMessages(req), role) = Spoken(req, role)
<1>1. PICK r : r = [i \in DOMAIN req.messages |-> WordsOf(req.messages[i], role)]
  OBVIOUS
<1>2. PICK sys, y : sys = SystemOf(req) /\ y = Flat(r)
  OBVIOUS
<1>3. Asked(ToOpenAiMessages(req), role) = Asked(sys, role) \o y /\ IsList(y)
  BY <1>1, <1>2, SentOn
<1>4. Asked(sys, role) = <<>>
  BY <1>2, AllHeard, SystemIs
<1>5. <<>> \o y = y
  BY <1>3, JoinedNone
<1>6. r = [i \in DOMAIN req.messages |-> IF req.messages[i].role = role THEN Words(req.messages[i].content) ELSE <<>>]
  <2>1. \A m : WordsOf(m, role) = IF m.role = role THEN Words(m.content) ELSE <<>>
    BY DEF WordsOf
  <2> QED BY <1>1, <2>1
<1>7. y = Spoken(req, role)
  BY <1>2, <1>6 DEF Spoken
<1> QED BY <1>3, <1>4, <1>5, <1>7

LEMMA SystemKept ==
    ASSUME NEW req, Conversation(req)
    PROVE  Asked(ToOpenAiMessages(req), "system") = FlattenText(req.system)
<1>1. PICK r : r = [i \in DOMAIN req.messages |-> WordsOf(req.messages[i], "system")]
  OBVIOUS
<1>2. PICK sys, t : sys = SystemOf(req) /\ t = FlattenText(req.system)
  OBVIOUS
<1>3. Asked(ToOpenAiMessages(req), "system") = Asked(sys, "system") \o Flat(r) /\ Lists(r) /\ Len(r) = Len(req.messages)
  BY <1>1, <1>2, SentOn
<1>4. Asked(sys, "system") = t /\ IsList(t)
  BY <1>2, AllHeard, SystemIs, FlattenAre
<1>5. \A i \in 1..Len(r) : r[i] = <<>>
  <2>1. \A i \in 1..Len(req.messages) : Sayable(req.messages[i]) /\ DOMAIN req.messages = 1..Len(req.messages)
    BY AllHeard
  <2>2. \A m : Sayable(m) => WordsOf(m, "system") = <<>>
    BY DEF Sayable, WordsOf
  <2> QED BY <1>1, <1>3, <2>1, <2>2
<1>6. IsList(r)
  BY <1>3 DEF Lists
<1>7. Flat(r) = <<>>
  BY <1>5, <1>6, FlatNothing
<1>8. t \o <<>> = t
  BY <1>4, JoinedNone
<1> QED BY <1>2, <1>3, <1>4, <1>7, <1>8

LEMMA ResultsKept ==
    ASSUME NEW req, Conversation(req)
    PROVE  /\ Asked(ToOpenAiMessages(req), "tool") = Flat([i \in DOMAIN req.messages |-> ResultTextsOf(req.messages[i].content)])
           /\ AnsweredIn(ToOpenAiMessages(req)) = ResultsIn(req)
<1>1. PICK r : r = [i \in DOMAIN req.messages |-> WordsOf(req.messages[i], "tool")]
  OBVIOUS
<1>2. PICK sys, y : sys = SystemOf(req) /\ y = Flat(r)
  OBVIOUS
<1>3. Asked(ToOpenAiMessages(req), "tool") = Asked(sys, "tool") \o y /\ IsList(y) /\ AnsweredIn(ToOpenAiMessages(req)) = ResultsIn(req)
  BY <1>1, <1>2, SentOn
<1>4. Asked(sys, "tool") = <<>>
  BY <1>2, AllHeard, SystemIs
<1>5. <<>> \o y = y
  BY <1>3, JoinedNone
<1>6. r = [i \in DOMAIN req.messages |-> ResultTextsOf(req.messages[i].content)]
  <2>1. \A m : Sayable(m) => WordsOf(m, "tool") = ResultTextsOf(m.content)
    BY DEF Sayable, WordsOf
  <2>2. \A i \in DOMAIN req.messages : Sayable(req.messages[i])
    BY AllHeard
  <2> QED BY <1>1, <2>1, <2>2
<1> QED BY <1>2, <1>3, <1>4, <1>5, <1>6

\* count_tokens counts what goes upstream, but for the newlines put between texts.
LEMMA CountedIs ==
    ASSUME NEW req, Conversation(req), NEW sentOn, sentOn = ToOpenAiMessages(req)
    PROVE  CountTokens(req) = ((Len(Asked(sentOn, "system")) + Len(Asked(sentOn, "tool")) + Len(Asked(sentOn, "user"))
                                + Len(Asked(sentOn, "assistant"))) - JointsIn(req) + 3) \div 4
<1>1. PICK ms, n : ms = req.messages /\ n = Len(req.messages)
  OBVIOUS
<1>2. /\ IsContent(req.system) /\ IsList(ms) /\ DOMAIN ms = 1..n /\ n = Len(ms) /\ n \in Nat
      /\ \A i \in 1..n : Sayable(ms[i])
  BY <1>1, AllHeard
<1> DEFINE told(i, role) == IF ms[i].role = role THEN Words(ms[i].content) ELSE <<>>
           res(i) == ResultTextsOf(ms[i].content)
<1>3. PICK u, a, t, c : /\ u = [i \in 1..n |-> told(i, "user")] /\ a = [i \in 1..n |-> told(i, "assistant")]
                        /\ t = [i \in 1..n |-> res(i)] /\ c = [i \in 1..n |-> CharsIn(ms[i].content)]
  OBVIOUS
<1>4. PICK lu, la, lt, w, x, j : /\ lu = [i \in 1..n |-> Len(u[i])] /\ la = [i \in 1..n |-> Len(a[i])]
                           /\ lt = [i \in 1..n |-> Len(t[i])] /\ w = [i \in 1..n |-> lu[i] + la[i]]
                           /\ x = [i \in 1..n |-> w[i] + lt[i]] /\ j = [i \in 1..n |-> JointsOf(ms[i].content)]
  OBVIOUS
<1>5. ASSUME NEW i \in 1..n
      PROVE  /\ IsList(told(i, "user")) /\ IsList(told(i, "assistant")) /\ IsList(res(i))
             /\ CharsIn(ms[i].content) \in Nat /\ JointsOf(ms[i].content) \in Nat
             /\ CharsIn(ms[i].content) + JointsOf(ms[i].content) = Len(told(i, "user")) + Len(told(i, "assistant")) + Len(res(i))
  <2>1. PICK m : m = ms[i]
    OBVIOUS
  <2>2. PICK y, z, k, g : y = Words(m.content) /\ z = ResultTextsOf(m.content) /\ k = CharsIn(m.content) /\ g = JointsOf(m.content)
    OBVIOUS
  <2>3. Sayable(m) /\ m.role \in {"user", "assistant"}
    BY <1>2, <2>1 DEF Sayable
  <2>4. IsList(y) /\ IsList(z) /\ k \in Nat /\ g \in Nat /\ k + g = Len(y) + Len(z)
    BY <2>2, <2>3, CharsAre
  <2>5. Len(y) \in Nat /\ Len(z) \in Nat
    BY <2>4, ListPlaces
  <2>6. /\ told(i, "user") = IF m.role = "user" THEN y ELSE <<>>
        /\ told(i, "assistant") = IF m.role = "assistant" THEN y ELSE <<>>
        /\ res(i) = z
    BY <2>1, <2>2
  <2> HIDE DEF told, res
  <2>7. CASE m.role = "user"
    <3>1. told(i, "user") = y /\ told(i, "assistant") = <<>>
      BY <2>6, <2>7
    <3> QED BY <2>1, <2>2, <2>4, <2>5, <2>6, <3>1, Empty
  <2>8. CASE m.role = "assistant"
    <3>1. told(i, "user") = <<>> /\ told(i, "assistant") = y
      BY <2>6, <2>8
    <3> QED BY <2>1, <2>2, <2>4, <2>5, <2>6, <3>1, Empty
  <2> QED BY <2>3, <2>7, <2>8
<1> HIDE DEF told, res
<1>6. /\ IsList(u) /\ Len(u) = n /\ IsList(a) /\ Len(a) = n /\ IsList(t) /\ Len(t) = n /\ IsList(c) /\ Len(c) = n
  <2>1. u = [i \in 1..n |-> u[i]] /\ a = [i \in 1..n |-> a[i]] /\ t = [i \in 1..n |-> t[i]] /\ c = [i \in 1..n |-> c[i]]
    BY <1>3
  <2> QED BY <1>2, <2>1, Built
<1>7. /\ IsList(lu) /\ Len(lu) = n /\ IsList(la) /\ Len(la) = n /\ IsList(lt) /\ Len(lt) = n /\ IsList(w) /\ Len(w) = n
      /\ IsList(x) /\ Len(x) = n /\ IsList(j) /\ Len(j) = n
  <2>1. /\ lu = [i \in 1..n |-> lu[i]] /\ la = [i \in 1..n |-> la[i]] /\ lt = [i \in 1..n |-> lt[i]] /\ w = [i \in 1..n |-> w[i]]
        /\ x = [i \in 1..n |-> x[i]] /\ j = [i \in 1..n |-> j[i]]
    BY <1>4
  <2> QED BY <1>2, <2>1, Built
<1>8. Lists(u) /\ Lists(a) /\ Lists(t)
  BY <1>3, <1>5, <1>6 DEF Lists
<1>9. Len(Flat(u)) = Total(lu) /\ Numbers(lu)
  <2>1. \A i \in 1..Len(u) : lu[i] = Len(u[i])
    BY <1>4, <1>6
  <2> QED BY <1>6, <1>7, <1>8, <2>1, LenFlat
<1>10. Len(Flat(a)) = Total(la) /\ Numbers(la)
  <2>1. \A i \in 1..Len(a) : la[i] = Len(a[i])
    BY <1>4, <1>6
  <2> QED BY <1>6, <1>7, <1>8, <2>1, LenFlat
<1>11. Len(Flat(t)) = Total(lt) /\ Numbers(lt)
  <2>1. \A i \in 1..Len(t) : lt[i] = Len(t[i])
    BY <1>4, <1>6
  <2> QED BY <1>6, <1>7, <1>8, <2>1, LenFlat
<1>12. Total(w) = Total(lu) + Total(la) /\ Numbers(w)
  <2>1. \A i \in 1..Len(lu) : w[i] = lu[i] + la[i]
    BY <1>4, <1>7
  <2>2. Len(la) = Len(lu) /\ Len(w) = Len(lu)
    BY <1>7
  <2> QED BY <1>7, <1>9, <1>10, <2>1, <2>2, TotalSum
<1>13. Total(x) = Total(w) + Total(lt)
  <2>1. Len(lt) = Len(w) /\ Len(x) = Len(w) /\ \A i \in 1..Len(w) : x[i] = w[i] + lt[i]
    BY <1>4, <1>7
  <2> QED BY <1>7, <1>11, <1>12, <2>1, TotalSum
<1>14. Numbers(c) /\ Numbers(j) /\ Total(x) = Total(c) + Total(j)
  <2>1. \A i \in 1..n : c[i] \in Nat /\ j[i] \in Nat
    BY <1>3, <1>4, <1>5
  <2>2. ASSUME NEW i \in 1..n PROVE x[i] = c[i] + j[i]
    <3>1. c[i] + j[i] = Len(u[i]) + Len(a[i]) + Len(t[i])
      BY <1>3, <1>4, <1>5
    <3> QED BY <1>4, <3>1
  <2>3. Numbers(c) /\ Numbers(j)
    BY <1>6, <1>7, <2>1 DEF Numbers
  <2>4. Len(j) = Len(c) /\ Len(x) = Len(c) /\ \A i \in 1..Len(c) : x[i] = c[i] + j[i]
    BY <1>6, <1>7, <2>2
  <2> QED BY <1>7, <2>3, <2>4, TotalSum
<1>15. /\ Asked(sentOn, "user") = Flat(u) /\ Asked(sentOn, "assistant") = Flat(a) /\ Asked(sentOn, "tool") = Flat(t)
       /\ Asked(sentOn, "system") = FlattenText(req.system)
  <2>1. Asked(sentOn, "user") = Spoken(req, "user") /\ Asked(sentOn, "assistant") = Spoken(req, "assistant")
    BY WordsKept
  <2>2. /\ u = [i \in DOMAIN req.messages |-> IF req.messages[i].role = "user" THEN Words(req.messages[i].content) ELSE <<>>]
        /\ a = [i \in DOMAIN req.messages |-> IF req.messages[i].role = "assistant" THEN Words(req.messages[i].content) ELSE <<>>]
        /\ t = [i \in DOMAIN req.messages |-> ResultTextsOf(req.messages[i].content)]
    BY <1>1, <1>2, <1>3 DEF told, res
  <2>3. Spoken(req, "user") = Flat(u) /\ Spoken(req, "assistant") = Flat(a)
    BY <2>2 DEF Spoken
  <2> QED BY <2>1, <2>2, <2>3, ResultsKept, SystemKept
<1>16. CountTokens(req) = (Len(Words(req.system)) + Total(c) + 3) \div 4 /\ JointsIn(req) = Joints(req.system) + Total(j)
  <2>1. /\ c = [i \in DOMAIN req.messages |-> CharsIn(req.messages[i].content)]
        /\ j = [i \in DOMAIN req.messages |-> JointsOf(req.messages[i].content)]
    BY <1>1, <1>2, <1>3, <1>4
  <2> QED BY <2>1 DEF CountTokens, JointsIn
<1>17. /\ Len(Words(req.system)) \in Nat /\ Joints(req.system) \in Nat
       /\ Len(FlattenText(req.system)) = Len(Words(req.system)) + Joints(req.system)
  BY <1>2, FlattenAre, ListPlaces
<1>18. PICK f, s, g, k, q, y, z, v : /\ f = Len(FlattenText(req.system)) /\ s = Len(Words(req.system)) /\ g = Joints(req.system)
                                     /\ k = Total(c) /\ q = Total(j) /\ y = Total(lu) /\ z = Total(la) /\ v = Total(lt)
  OBVIOUS
<1>19. f = s + g /\ s \in Nat /\ g \in Nat /\ k \in Nat /\ q \in Nat /\ y \in Nat /\ z \in Nat /\ v \in Nat /\ k + q = y + z + v
  <2>1. k \in Nat /\ q \in Nat /\ y \in Nat /\ z \in Nat /\ v \in Nat
    BY <1>9, <1>10, <1>11, <1>14, <1>18, TotalNat
  <2> QED BY <1>12, <1>13, <1>14, <1>17, <1>18, <2>1
<1>20. (f + v + y + z) - (g + q) + 3 = s + k + 3
  BY ONLY <1>19
<1>21. CountTokens(req) = (s + k + 3) \div 4 /\ JointsIn(req) = g + q
  BY <1>16, <1>18
<1>22. /\ Len(Asked(sentOn, "system")) = f /\ Len(Asked(sentOn, "tool")) = v
       /\ Len(Asked(sentOn, "user")) = y /\ Len(Asked(sentOn, "assistant")) = z
  BY <1>9, <1>10, <1>11, <1>15, <1>18
<1> QED BY ONLY <1>20, <1>21, <1>22

\* Results that answer the last message before them, then what is no result.
LEMMA FollowsOn ==
    ASSUME NEW s, IsList(s), ResultsFollowCalls(s), NEW q, IsList(q), NEW l, IsList(l),
           \A i \in 1..Len(q) : /\ q[i].role = "tool" /\ Len(s) > 0
                                /\ \E k \in DOMAIN s[Len(s)].calls : s[Len(s)].calls[k].id = q[i].of,
           \A i \in 1..Len(l) : l[i].role # "tool",
           NEW all, all = s \o (q \o l)
    PROVE  ResultsFollowCalls(all)
<1>1. PICK p : p = q \o l
  OBVIOUS
<1>2. Len(s) \in Nat /\ Len(q) \in Nat /\ Len(l) \in Nat /\ DOMAIN s = 1..Len(s)
  BY ListPlaces
<1>3. /\ IsList(p) /\ Len(p) = Len(q) + Len(l)
      /\ \A i \in 1..Len(q) : p[i] = q[i]
      /\ \A i \in 1..Len(l) : p[Len(q) + i] = l[i]
  BY <1>1, Joined
<1>4. all = s \o p
  BY <1>1
<1>5. /\ IsList(all) /\ Len(all) = Len(s) + Len(p)
      /\ \A i \in 1..Len(s) : all[i] = s[i]
      /\ \A i \in 1..Len(p) : all[Len(s) + i] = p[i]
  <2>1. IsList(s) /\ IsList(p)
    BY <1>3
  <2>2. /\ IsList(s \o p) /\ Len(s \o p) = Len(s) + Len(p)
        /\ \A i \in 1..Len(s) : (s \o p)[i] = s[i]
        /\ \A i \in 1..Len(p) : (s \o p)[Len(s) + i] = p[i]
    BY ONLY <2>1, Joined
  <2> QED BY <1>4, <2>2
<1>6. DOMAIN all = 1..(Len(s) + Len(q) + Len(l))
  BY <1>2, <1>3, <1>5, ListPlaces
<1>7. \A i \in 1..Len(q) : all[Len(s) + i] = q[i]
  BY <1>2, <1>3, <1>5
<1>8. \A i \in 1..Len(l) : all[Len(s) + Len(q) + i] = l[i]
  <2> SUFFICES ASSUME NEW i \in 1..Len(l) PROVE all[Len(s) + Len(q) + i] = l[i]
    OBVIOUS
  <2>1. Len(q) + i \in 1..Len(p) /\ p[Len(q) + i] = l[i]
    BY <1>2, <1>3
  <2>2. all[Len(s) + (Len(q) + i)] = l[i]
    BY <1>5, <2>1
  <2>3. Len(s) + (Len(q) + i) = Len(s) + Len(q) + i
    BY <1>2
  <2> QED BY <2>2, <2>3
<1>9. SUFFICES ASSUME NEW i \in 1..(Len(s) + Len(q) + Len(l)), all[i].role = "tool"
      PROVE  \E j \in 1..(i - 1) :
                 /\ \E k \in DOMAIN all[j].calls : all[j].calls[k].id = all[i].of
                 /\ \A k \in (j + 1)..(i - 1) : all[k].role = "tool"
  BY <1>6 DEF ResultsFollowCalls
<1>10. CASE i <= Len(s)
  <2>1. i \in 1..Len(s) /\ all[i] = s[i]
    BY <1>2, <1>5, <1>10
  <2>2. PICK j \in 1..(i - 1) : /\ \E k \in DOMAIN s[j].calls : s[j].calls[k].id = s[i].of
                                /\ \A k \in (j + 1)..(i - 1) : s[k].role = "tool"
    BY <1>2, <1>9, <2>1 DEF ResultsFollowCalls
  <2>3. j \in 1..Len(s) /\ \A k \in (j + 1)..(i - 1) : k \in 1..Len(s)
    BY <1>2, <2>1, <2>2
  <2>4. all[j] = s[j] /\ \A k \in (j + 1)..(i - 1) : all[k] = s[k]
    BY <1>5, <2>3
  <2> QED BY <2>1, <2>2, <2>4
<1>11. CASE i > Len(s) /\ i <= Len(s) + Len(q)
  <2>1. PICK m : m = i - Len(s)
    OBVIOUS
  <2>2. m \in 1..Len(q) /\ i = Len(s) + m /\ all[i] = q[m]
    <3>1. m \in 1..Len(q) /\ i = Len(s) + m
      BY <1>2, <1>9, <1>11, <2>1
    <3> QED BY <1>7, <3>1
  <2>3. Len(s) \in 1..(i - 1) /\ all[Len(s)] = s[Len(s)]
    BY <1>2, <1>5, <2>2
  <2>4. \E k \in DOMAIN all[Len(s)].calls : all[Len(s)].calls[k].id = all[i].of
    <3>1. PICK x : x = s[Len(s)]
      OBVIOUS
    <3>2. all[Len(s)] = x /\ \E k \in DOMAIN x.calls : x.calls[k].id = q[m].of
      BY <2>2, <2>3, <3>1
    <3> QED BY <2>2, <3>2
  <2>5. ASSUME NEW k \in (Len(s) + 1)..(i - 1) PROVE all[k].role = "tool"
    <3>1. PICK e : e = k - Len(s)
      OBVIOUS
    <3>2. e \in 1..Len(q) /\ Len(s) + e = k
      BY <1>2, <2>2, <3>1
    <3>3. q[e].role = "tool" /\ all[Len(s) + e] = q[e]
      BY <1>7, <3>2
    <3> QED BY <3>2, <3>3
  <2> QED BY ONLY <2>3, <2>4, <2>5
<1>12. CASE i > Len(s) + Len(q)
  <2>1. i - (Len(s) + Len(q)) \in 1..Len(l) /\ Len(s) + Len(q) + (i - (Len(s) + Len(q))) = i
    BY <1>2, <1>9, <1>12
  <2>2. all[i].role # "tool"
    BY <1>8, <2>1
  <2> QED BY <1>9, <2>2
<1>13. i \in Nat /\ Len(s) + Len(q) \in Nat
  BY <1>2, <1>9
<1>14. i <= Len(s) \/ (i > Len(s) /\ i <= Len(s) + Len(q)) \/ i > Len(s) + Len(q)
  BY <1>2, <1>13
<1> QED BY <1>10, <1>11, <1>12, <1>14, Zenon

LEMMA LastJoined ==
    ASSUME NEW s, IsList(s), NEW q, IsList(q), NEW l, IsList(l), Len(l) = 1, NEW all, all = s \o (q \o l)
    PROVE  Len(all) > 0 /\ all[Len(all)] = l[1]
<1>1. PICK p : p = q \o l
  OBVIOUS
<1>2. Len(s) \in Nat /\ Len(q) \in Nat
  BY ListPlaces
<1>3. IsList(p) /\ Len(p) = Len(q) + 1 /\ p[Len(q) + 1] = l[1]
  <2>2. IsList(q) /\ IsList(l)
    OBVIOUS
  <2>1. /\ IsList(q \o l) /\ Len(q \o l) = Len(q) + Len(l)
        /\ \A i \in 1..Len(q) : (q \o l)[i] = q[i]
        /\ \A i \in 1..Len(l) : (q \o l)[Len(q) + i] = l[i]
    BY ONLY <2>2, Joined
  <2> QED BY <1>1, <2>1
<1>4. Len(all) = Len(s) + Len(p) /\ all[Len(s) + Len(p)] = p[Len(p)]
  <2>1. IsList(s) /\ IsList(p)
    BY <1>3
  <2>2. /\ IsList(s \o p) /\ Len(s \o p) = Len(s) + Len(p)
        /\ \A i \in 1..Len(s) : (s \o p)[i] = s[i]
        /\ \A i \in 1..Len(p) : (s \o p)[Len(s) + i] = p[i]
    BY ONLY <2>1, Joined
  <2>3. Len(p) \in 1..Len(p)
    BY <1>2, <1>3
  <2> QED BY <1>1, <2>2, <2>3
<1> QED BY <1>2, <1>3, <1>4

LEMMA ResultsFollow ==
    ASSUME NEW req, Conversation(req)
    PROVE  ResultsFollowCalls(ToOpenAiMessages(req))
<1>1. PICK ms, n, sys : ms = req.messages /\ n = Len(req.messages) /\ sys = SystemOf(req)
  OBVIOUS
<1>2. /\ IsContent(req.system) /\ IsList(ms) /\ DOMAIN ms = 1..n /\ n = Len(ms) /\ n \in Nat
      /\ \A i \in 1..n : Sayable(ms[i])
  BY <1>1, AllHeard
<1>3. PICK P : P = [i \in 1..n |-> PushMessage(ms[i])]
  OBVIOUS
<1>4. Lists(P) /\ Len(P) = n /\ \A i \in 1..n : P[i] = PushMessage(ms[i])
  <2>1. P = [i \in 1..n |-> P[i]]
    BY <1>3
  <2>2. IsList(P) /\ Len(P) = n
    BY <1>2, <2>1, Built
  <2>3. ASSUME NEW i \in 1..n PROVE IsList(P[i])
    <3>1. Wordy(PushMessage(ms[i]))
      BY <1>2, Pushed
    <3> QED BY <1>3, <3>1 DEF Wordy
  <2> QED BY <1>3, <2>2, <2>3 DEF Lists
<1>5. IsList(sys) /\ \A i \in 1..Len(sys) : sys[i].role # "tool"
  BY <1>1, <1>2, SystemIs DEF Wordy
<1>6. PICK h : /\ h[0] = <<>>
               /\ \A m \in 1..Len(P) : h[m] = h[m - 1] \o P[m]
               /\ h[Len(P)] = Flat(P)
               /\ \A m \in 0..Len(P) : IsList(h[m])
  BY <1>4, FlatPrefixes
<1>7. ToOpenAiMessages(req) = sys \o h[n]
  <2>1. P = [i \in DOMAIN req.messages |-> PushMessage(req.messages[i])]
    BY <1>1, <1>2, <1>3
  <2> QED BY <1>1, <1>4, <1>6, <2>1 DEF ToOpenAiMessages, SystemOf
<1> DEFINE EndsWithCall(s, id) == Len(s) > 0 /\ \E k \in DOMAIN s[Len(s)].calls : s[Len(s)].calls[k].id = id
           Good(m) == /\ ResultsFollowCalls(sys \o h[m])
                      /\ m > 0 => \A id \in CallsIn(ms[m].content) : EndsWithCall(sys \o h[m], id)
           Bad == {m \in 0..n : ~Good(m)}
<1>8. Good(0)
  <2>1. sys \o h[0] = sys
    BY <1>5, <1>6, JoinedNone
  <2>2. ResultsFollowCalls(sys)
    BY <1>5, ListPlaces DEF ResultsFollowCalls
  <2> QED BY <2>1, <2>2
<1>9. ASSUME NEW m \in 1..n, Good(m - 1) PROVE Good(m)
  <2>1. PICK s, c, t : s = sys \o h[m - 1] /\ c = ms[m].content /\ t = sys \o h[m]
    OBVIOUS
  <2>2. PICK q, l : PushMessage(ms[m]) = q \o l /\ ResultsThen(c, q, l)
    BY <1>2, <2>1, Pushed
  <2>3. IsList(q) /\ IsList(l)
    BY <2>2 DEF ResultsThen
  <2>4. PICK x, y : x = h[m - 1] /\ y = P[m]
    OBVIOUS
  <2>5. IsList(x) /\ IsList(y) /\ h[m] = x \o y /\ y = q \o l
    <3>1. m \in 1..Len(P) /\ m - 1 \in 0..Len(P)
      BY <1>2, <1>4
    <3> QED BY <1>4, <1>6, <2>2, <2>4, <3>1 DEF Lists
  <2>6. t = s \o (q \o l) /\ IsList(s)
    <3>1. IsList(sys) /\ IsList(x) /\ IsList(y)
      BY <1>5, <2>5
    <3>2. (sys \o x) \o y = sys \o (x \o y)
      BY ONLY <3>1, JoinedThrice
    <3>3. IsList(sys \o x)
      BY ONLY <3>1, Joined
    <3> QED BY <2>1, <2>4, <2>5, <3>2, <3>3
  <2>7. ResultsFollowCalls(s)
    BY <1>9, <2>1
  <2>8. ASSUME NEW i \in 1..Len(q) PROVE q[i].role = "tool" /\ EndsWithCall(s, q[i].of)
    <3>1. "plain" \notin DOMAIN c
      BY <2>2, <2>3, <2>8, ListPlaces DEF ResultsThen
    <3>2. PICK b \in Range(c.blocks) : b.type = "tool_result" /\ q[i].of = b.of /\ q[i].role = "tool"
      BY <2>2 DEF ResultsThen
    <3>3. m > 1 /\ b.of \in CallsIn(ms[m - 1].content)
      BY <1>1, <2>1, <3>1, <3>2 DEF Conversation
    <3>4. m - 1 > 0
      BY <3>3
    <3>5. EndsWithCall(s, b.of)
      BY <1>9, <2>1, <3>3, <3>4
    <3> QED BY <3>2, <3>5
  <2>9. \A i \in 1..Len(l) : l[i].role # "tool"
    BY <2>2 DEF ResultsThen
  <2>10. ResultsFollowCalls(t)
    BY ONLY <2>3, <2>6, <2>7, <2>8, <2>9, FollowsOn
  <2>11. ASSUME NEW id \in CallsIn(c) PROVE EndsWithCall(t, id)
    <3>1. Len(l) = 1 /\ \E k \in DOMAIN l[1].calls : l[1].calls[k].id = id
      BY <2>2 DEF ResultsThen
    <3>2. Len(t) > 0 /\ t[Len(t)] = l[1]
      <4>1. Len(l) = 1
        BY <3>1
      <4> QED BY ONLY <2>3, <2>6, <4>1, LastJoined, ZenonT(30)
    <3> QED BY <3>1, <3>2
  <2> QED BY <2>1, <2>10, <2>11
<1> HIDE DEF Good
<1>10. Bad = {}
  <2> SUFFICES ASSUME Bad # {} PROVE FALSE
    OBVIOUS
  <2>1. Bad \in SUBSET Nat
    BY <1>2
  <2>2. PICK m \in Bad : \A j \in Bad : m <= j
    BY <2>1, LeastNumber
  <2>3. m \in 1..n /\ m - 1 \in 0..n
    BY <1>2, <1>8, <2>2
  <2>4. Good(m - 1)
    <3>1. ~(m <= m - 1)
      BY <2>3
    <3> QED BY <2>2, <2>3, <3>1
  <2>5. Good(m)
    BY <1>9, <2>3, <2>4
  <2> QED BY <2>2, <2>5
<1>11. Good(n)
  BY <1>2, <1>10
<1> QED BY <1>7, <1>11 DEF Good

-----------------------------------------------------------------------------
(* What goes upstream is what was asked.                                   *)

Allowed == IF ask.runtime = "foreign" THEN {Addressed(l) : l \in Listings} \ {Absent} ELSE {Registered}

\* What AsksWhatWasAsked says of a body.
Faithful(p) ==
    /\ p.to = "chat" => (p.body.stream <=> Streaming)
    /\ ~Agent =>
         /\ p.to = "infill" <=> (ask.runtime # "foreign" /\ ask.case.suite = "codebase")
         /\ (IF p.to = "infill" THEN p.sampling ELSE p.body.sampling) = Pins
         /\ p.to = "chat" =>
              /\ p.body.model \in IF ask.runtime = "foreign" THEN {Addressed(l) : l \in Listings} \ {Absent} ELSE {Registered}
              /\ p.response_format # Absent <=> ask.case.suite = "grammar_gap"
    /\ Agent =>
         LET sentOn == p.body.messages
             chars(role) == Len(Asked(sentOn, role))
             all == chars("system") + chars("tool") + chars("user") + chars("assistant")
         IN  /\ ResultsFollowCalls(sentOn)
             /\ AnsweredIn(sentOn) = ResultsIn(ask.req)
             /\ \A role \in {"user", "assistant"} : Asked(sentOn, role) = Spoken(ask.req, role)
             /\ CountTokens(ask.req) = (all - JointsIn(ask.req) + 3) \div 4

\* The conversation an agent sends is forwarded whole.
LEMMA ForwardedIs ==
    ASSUME ask \in Asks, Agent
    PROVE  Faithful(Forwarded(ask.req, Registered))
<1>1. PICK p, req : p = Forwarded(ask.req, Registered) /\ req = ask.req
  OBVIOUS
<1>2. Conversation(req)
  BY <1>1, ConversationsAssumption DEF Agent
<1>3. p.to = "chat" /\ p.body.messages = ToOpenAiMessages(req) /\ p.body.stream = req.stream
  BY <1>1 DEF Forwarded, ToOpenAiRequest
<1>4. Streaming = req.stream
  BY <1>1 DEF Streaming
<1>5. PICK sentOn : sentOn = ToOpenAiMessages(req)
  OBVIOUS
<1>6. /\ ResultsFollowCalls(sentOn) /\ AnsweredIn(sentOn) = ResultsIn(req)
      /\ \A role \in {"user", "assistant"} : Asked(sentOn, role) = Spoken(req, role)
  BY <1>2, <1>5, ResultsFollow, ResultsKept, WordsKept
<1>7. CountTokens(req) = ((Len(Asked(sentOn, "system")) + Len(Asked(sentOn, "tool")) + Len(Asked(sentOn, "user"))
                           + Len(Asked(sentOn, "assistant"))) - JointsIn(req) + 3) \div 4
  BY <1>2, <1>5, CountedIs
<1>8. Faithful(p)
  <2>1. p.to = "chat" => (p.body.stream <=> Streaming)
    BY <1>1, <1>3, <1>4, Zenon
  <2>2. p.body.messages = sentOn
    BY <1>3, <1>5
  <2>3. /\ ResultsFollowCalls(p.body.messages) /\ AnsweredIn(p.body.messages) = ResultsIn(ask.req)
        /\ \A role \in {"user", "assistant"} : Asked(p.body.messages, role) = Spoken(ask.req, role)
    BY <1>1, <1>6, <2>2, Zenon
  <2>4. CountTokens(ask.req) = ((Len(Asked(p.body.messages, "system")) + Len(Asked(p.body.messages, "tool"))
                                 + Len(Asked(p.body.messages, "user")) + Len(Asked(p.body.messages, "assistant")))
                                - JointsIn(ask.req) + 3) \div 4
    BY <1>1, <1>7, <2>2, Zenon
  <2> QED BY <2>1, <2>3, <2>4, Zenon DEF Faithful
<1> QED BY <1>1, <1>8

LEMMA ProbesAre == ASSUME NEW case, case.suite \in Suites PROVE "stream" \in DOMAIN ProbeFor(case)
<1>1. \A max, system, tools, prompt : "stream" \in DOMAIN AnthropicPost(max, system, tools, prompt)
  BY DEF AnthropicPost
<1>2. /\ "stream" \in DOMAIN ThroughputProbe(case) /\ "stream" \in DOMAIN FixtureProbe(case)
      /\ "stream" \in DOMAIN ToolProbe(case) /\ "stream" \in DOMAIN ForcedProbe(case)
      /\ "stream" \in DOMAIN InstructionProbe(case) /\ "stream" \in DOMAIN ChatFimProbe(case)
  <2>1. "stream" \in DOMAIN ThroughputProbe(case)
    BY <1>1, ZenonT(30) DEF ThroughputProbe
  <2>2. "stream" \in DOMAIN FixtureProbe(case)
    BY <1>1, ZenonT(30) DEF FixtureProbe
  <2>3. "stream" \in DOMAIN ToolProbe(case)
    BY <1>1, ZenonT(30) DEF ToolProbe
  <2>4. "stream" \in DOMAIN ForcedProbe(case)
    BY <1>1, ZenonT(30) DEF ForcedProbe
  <2>5. "stream" \in DOMAIN InstructionProbe(case)
    BY <1>1, ZenonT(30) DEF InstructionProbe
  <2>6. "stream" \in DOMAIN ChatFimProbe(case)
    BY <1>1, ZenonT(30) DEF ChatFimProbe
  <2> QED BY <2>1, <2>2, <2>3, <2>4, <2>5, <2>6
<1>3. /\ case.suite = "throughput" => ProbeFor(case) = ThroughputProbe(case)
      /\ case.suite = "fixture" => ProbeFor(case) = FixtureProbe(case)
      /\ case.suite = "tool_emit" => ProbeFor(case) = ToolProbe(case)
      /\ case.suite = "grammar_gap" => ProbeFor(case) = ForcedProbe(case)
      /\ case.suite = "instruction" => ProbeFor(case) = InstructionProbe(case)
      /\ case.suite = "codebase" => ProbeFor(case) = ChatFimProbe(case)
  BY DEF ProbeFor
<1> QED BY <1>2, <1>3 DEF Suites

\* A bench crossing asks greedily, of the model it was told to ask.
LEMMA BenchBodyIs ==
    ASSUME ask \in Asks, ~Agent, model \in Allowed
    PROVE  Faithful(BenchBody(ask.case))
<1>1. PICK p, case : p = BenchBody(ask.case) /\ case = ask.case
  OBVIOUS
<1>2. case.suite \in Suites /\ (case.suite = "grammar_gap" => ForcedSchema(case) # Absent)
  BY <1>1, CasesAssumption, AbsentAssumption DEF Agent
<1>3. Door = "infill" <=> (ask.runtime # "foreign" /\ case.suite = "codebase")
  BY <1>1, <1>2 DEF Door, Suites
<1>4. CASE Door = "infill"
  <2>1. p.to = "infill" /\ p.sampling = Pins
    BY <1>1, <1>4 DEF BenchBody, InfillBody
  <2> QED BY <1>1, <1>3, <1>4, <2>1 DEF Faithful
<1>5. CASE Door # "infill"
  <2>1. PICK probe, body, schema : /\ probe = ProbeFor(case) /\ body = ToOpenAiRequest(WithStreamFlag(probe), model)
                                   /\ schema = IF case.suite = "grammar_gap" THEN ForcedSchema(case) ELSE Absent
    OBVIOUS
  <2>2. WithStreamFlag(probe).stream = Streaming
    BY <1>2, <2>1, ProbesAre DEF WithStreamFlag
  <2>3. body.stream = Streaming /\ body.model = model /\ {"sampling", "stream", "model"} \subseteq DOMAIN body
    BY <2>1, <2>2 DEF ToOpenAiRequest
  <2>4. p = AdjustBody(body, schema)
    BY <1>1, <1>5, <2>1 DEF BenchBody
  <2>5. p.to = "chat" /\ p.body = [body EXCEPT !.sampling = Pins] /\ p.response_format = schema
    BY <2>4 DEF AdjustBody
  <2>6. p.body.stream = Streaming /\ p.body.model = model /\ p.body.sampling = Pins
    BY <2>3, <2>5
  <2>7. schema # Absent <=> case.suite = "grammar_gap"
    BY <1>2, <2>1
  <2> QED BY <1>1, <1>3, <1>5, <2>5, <2>6, <2>7, Zenon DEF Faithful, Allowed
<1> QED BY <1>1, <1>4, <1>5

\* Which side is at which stage, what the model is called then, and what is sent.
Questions ==
    /\ ask \in Asks
    /\ Agent => model = Registered /\ stage \notin {"ready", "cross"}
    /\ ~Agent => stage \notin {"read", "route"}
    /\ stage = "ready" => model = Registered
    /\ stage = "cross" => model \in Allowed
    /\ posted # Absent => Faithful(posted)

LEMMA Unasked == ASSUME ask' = ask PROVE Allowed' = Allowed /\ \A p : Faithful(p)' <=> Faithful(p)
BY DEF Allowed, Faithful, Agent, Streaming, Door, Addressed

LEMMA QuestionsInit == Init => Questions
BY DEF Init, Questions, Agent

LEMMA QuestionsNext == Questions /\ [Next]_vars => Questions'
<1> SUFFICES ASSUME Questions, [Next]_vars PROVE Questions'
  OBVIOUS
<1> USE DEF Questions
<1>1. CASE ReadRequest
  <2>1. stage' \in {"route", "done"} /\ stage = "read" /\ UNCHANGED <<ask, model, posted>>
    BY <1>1 DEF ReadRequest, Answer
  <2> QED BY <2>1, Fixed, Unasked
<1>2. CASE Route
  <2>1. /\ stage = "route" /\ stage' \in {"post", "done"} /\ UNCHANGED <<ask, model>>
        /\ posted' = posted \/ posted' = Forwarded(ask.req, model)
    BY <1>2 DEF Route, Answer
  <2>2. Agent /\ Faithful(Forwarded(ask.req, model))
    BY <2>1, ForwardedIs
  <2>3. posted' # Absent => Faithful(posted')
    BY <2>1, <2>2
  <2> QED BY <2>1, <2>3, Fixed, Unasked
<1>3. CASE Ready
  <2>1. /\ stage = "ready" /\ UNCHANGED <<ask, posted>> /\ stage' \in {"cross", "done"}
        /\ stage' = "cross" => model' \in Allowed
    <3>1. CASE ask.runtime = "foreign"
      BY <1>3, <3>1 DEF Ready, Record, Allowed
    <3>2. CASE ask.runtime # "foreign"
      BY <1>3, <3>2 DEF Ready, Record, Allowed
    <3> QED BY <3>1, <3>2
  <2> QED BY <2>1, Fixed, Unasked
<1>4. CASE Cross
  <2>1. stage = "cross" /\ stage' = "post" /\ posted' = BenchBody(ask.case) /\ UNCHANGED <<ask, model>>
    BY <1>4 DEF Cross
  <2>2. ~Agent /\ Faithful(posted')
    BY <2>1, BenchBodyIs
  <2> QED BY <2>1, <2>2, Fixed, Unasked
<1>5. ASSUME UNCHANGED <<ask, model, posted>>, stage' \in {stage, "reply", "relay", "done"} PROVE Questions'
  BY <1>5, Fixed, Unasked
<1>6. CASE ClientLeaves
  BY <1>5, <1>6 DEF ClientLeaves
<1>7. ASSUME NEW why \in {"dead", "refused", "no infill"}, Refuse(why) PROVE Questions'
  BY <1>5, <1>7 DEF Refuse, Answer, Record
<1>8. CASE Accept
  BY <1>5, <1>8 DEF Accept
<1>9. CASE WholeReply
  BY <1>5, <1>9 DEF WholeReply, Answer, Record
<1>10. CASE BreakReply
  BY <1>5, <1>10 DEF BreakReply, Record
<1>11. CASE SendFrame
  BY <1>5, <1>11 DEF SendFrame, Relayed
<1>12. CASE SendError
  BY <1>5, <1>12 DEF SendError, Relayed
<1>13. CASE EndStream
  BY <1>5, <1>13 DEF EndStream, Record
<1>14. CASE BreakStream
  BY <1>5, <1>14 DEF BreakStream, Record
<1>15. CASE UNCHANGED vars
  BY <1>5, <1>15 DEF vars
<1>16. Done => UNCHANGED vars
  BY DEF Done
<1> QED BY <1>1, <1>2, <1>3, <1>4, <1>6, <1>7, <1>8, <1>9, <1>10, <1>11, <1>12, <1>13, <1>14, <1>15, <1>16 DEF Next

\* What goes upstream is what was asked: of any conversation every word, every
\* tool result behind its call, and what count_tokens counts but for the newlines
\* put between the texts of the system prompt or of a result; of any
\* bench case a greedy, seeded request to the model it was told to ask
\* (to_openai_messages, count_tokens_reply, adjust_body, served_model).
THEOREM AsksWhatWasAskedAlways == Spec => []AsksWhatWasAsked
<1>1. Questions => AsksWhatWasAsked
  BY DEF Questions, AsksWhatWasAsked, Faithful
<1> QED BY <1>1, QuestionsInit, QuestionsNext, PTL DEF Spec
=============================================================================
