----------------------------- MODULE Tune_proofs -----------------------------
(***************************************************************************)
(* Theorems about Tune: the record a descent leaves, how often it          *)
(* launches, and what the command lines it rewrites are read as, for any   *)
(* lists of values, any samples and any number of runs.                    *)
(***************************************************************************)
EXTENDS Tune, SequenceTheorems, FiniteSetTheorems, WellFoundedInduction, TLAPS

-----------------------------------------------------------------------------
(* Sequences of any elements, and the extremes of finite sets.             *)

LEMMA ListPlaces ==
    ASSUME NEW s, IsList(s)
    PROVE  Len(s) \in Nat /\ DOMAIN s = 1..Len(s)
BY DEF IsList

LEMMA NoList == IsList(<<>>) /\ Len(<<>>) = 0
BY DEF IsList

Extends(longer, s, e) ==
    /\ IsList(longer) /\ Len(longer) = Len(s) + 1 /\ longer # <<>>
    /\ DOMAIN longer = DOMAIN s \cup {Len(longer)} /\ Len(longer) \notin DOMAIN s
    /\ \A i \in DOMAIN s : longer[i] = s[i]
    /\ longer[Len(longer)] = e

LEMMA Appended ==
    ASSUME NEW s, IsList(s), NEW e
    PROVE  Extends(Append(s, e), s, e)
<1> DEFINE S == Range(s) \cup {e}
           t == Append(s, e)
<1>1. s \in Seq(S) /\ e \in S
  <2>1. s \in Seq(Range(s))
    BY DEF IsList
  <2>2. Range(s) \subseteq S
    OBVIOUS
  <2> QED BY <2>1, <2>2, SeqMonotonic
<1> HIDE DEF S
<1>2. /\ t \in Seq(S) /\ t # <<>> /\ Len(t) = Len(s) + 1
      /\ \A i \in 1..Len(s) : t[i] = s[i]
      /\ t[Len(s) + 1] = e
  BY <1>1, AppendProperties
<1> HIDE DEF t
<1>3. Len(s) \in Nat /\ DOMAIN s = 1..Len(s) /\ DOMAIN t = 1..Len(t)
  BY <1>1, <1>2, LenProperties
<1>4. IsList(t)
  BY <1>2, SeqOfRange DEF IsList
<1>5. Extends(t, s, e)
  BY <1>2, <1>3, <1>4 DEF Extends
<1> QED BY <1>5 DEF t

LEMMA LeastOf ==
    ASSUME NEW T \in SUBSET Nat, T # {}
    PROVE  Min(T) \in T /\ \A j \in T : Min(T) <= j
<1>1. \E i \in T : \A j \in T : ~(j < i)
  <2>1. PICK i \in T : \A j \in T : ~(<<j, i>> \in OpToRel(<, Nat))
    BY NatLessThanWellFounded, WFMin, Zenon
  <2>2. ASSUME NEW j \in T PROVE ~(j < i)
    <3>1. <<j, i>> \in Nat \X Nat
      OBVIOUS
    <3>2. <<j, i>>[1] = j /\ <<j, i>>[2] = i
      OBVIOUS
    <3> QED BY <2>1, <3>1, <3>2, Zenon DEF OpToRel
  <2> QED BY <2>2, Zenon
<1>2. \E i \in T : \A j \in T : i =< j
  BY <1>1
<1> QED BY <1>2, Zenon DEF Min

LEMMA LeastIs ==
    ASSUME NEW T \in SUBSET Nat, NEW i \in T, \A j \in T : i <= j
    PROVE  Min(T) = i
<1>1. Min(T) \in T /\ Min(T) <= i
  BY LeastOf
<1>2. i <= Min(T) /\ i \in Nat /\ Min(T) \in Nat
  BY <1>1
<1> HIDE DEF Min
<1> QED BY <1>1, <1>2

\* Of finitely many numbers one is the highest.
LEMMA HighestOf ==
    ASSUME NEW n \in Nat, NEW W \in SUBSET (1..n), W # {}, NEW g, \A i \in W : g[i] \in Int
    PROVE  \E i \in W : \A j \in W : g[j] <= g[i]
<1> DEFINE Topped(V) == \E i \in V : \A j \in V : g[j] <= g[i]
           Bad == {m \in Nat : \E V \in SUBSET W : V # {} /\ V \subseteq 1..m /\ ~Topped(V)}
<1>1. /\ Bad \in SUBSET Nat
      /\ \A m \in Nat : m \notin Bad => \A V \in SUBSET W : V # {} /\ V \subseteq 1..m => Topped(V)
      /\ \A m \in Bad : \E V \in SUBSET W : V # {} /\ V \subseteq 1..m /\ ~Topped(V)
  OBVIOUS
<1>2. \A V : Topped(V) <=> \E i \in V : \A j \in V : g[j] <= g[i]
  OBVIOUS
<1> HIDE DEF Bad, Topped
<1>3. CASE Bad = {}
  <2>1. Topped(W)
    BY <1>1, <1>3
  <2> QED BY <1>2, <2>1
<1>4. CASE Bad # {}
  <2> DEFINE m == Min(Bad)
  <2>1. m \in Bad /\ m \in Nat /\ \A k \in Bad : m <= k
    BY <1>1, <1>4, LeastOf
  <2> HIDE DEF m
  <2>2. PICK V \in SUBSET W : V # {} /\ V \subseteq 1..m /\ ~Topped(V)
    BY <1>1, <2>1
  <2>3. m # 0
    <3>1. PICK v \in V : v \in 1..m
      BY <2>2
    <3> QED BY <2>1, <3>1
  <2>4. m - 1 \in Nat /\ m - 1 \notin Bad
    <3>1. m - 1 \in Nat /\ ~(m <= m - 1)
      BY <2>1, <2>3
    <3> QED BY <2>1, <3>1, Zenon
  <2>5. m \in V
    <3>1. SUFFICES ASSUME m \notin V PROVE FALSE
      OBVIOUS
    <3>2. V \subseteq 1..(m - 1)
      BY <2>1, <2>2, <2>3, <3>1
    <3> QED BY <1>1, <2>2, <2>4, <3>2
  <2> DEFINE U == V \ {m}
  <2>6. CASE U = {}
    <3>1. V = {m} /\ g[m] \in Int
      BY <2>5, <2>6
    <3>2. Topped(V)
      BY <1>2, <3>1
    <3> QED BY <2>2, <3>2
  <2>7. CASE U # {}
    <3>1. U \in SUBSET W /\ U \subseteq 1..(m - 1)
      BY <2>1, <2>2, <2>3
    <3>2. Topped(U)
      BY <1>1, <2>4, <2>7, <3>1
    <3>3. PICK i \in U : \A j \in U : g[j] <= g[i]
      BY <1>2, <3>2
    <3>4. /\ i \in V /\ g[i] \in Int /\ g[m] \in Int /\ \A j \in V : g[j] \in Int
          /\ \A j \in V : j = m \/ g[j] <= g[i]
      BY <2>5, <3>3
    <3>5. CASE g[i] <= g[m]
      <4>1. ASSUME NEW j \in V PROVE g[j] <= g[m]
        BY <3>4, <3>5
      <4>2. Topped(V)
        BY <1>2, <2>5, <4>1
      <4> QED BY <2>2, <4>2
    <3>6. CASE ~(g[i] <= g[m])
      <4>1. ASSUME NEW j \in V PROVE g[j] <= g[i]
        BY <3>4, <3>6
      <4>2. Topped(V)
        BY <1>2, <3>4, <4>1
      <4> QED BY <2>2, <4>2
    <3> QED BY <3>5, <3>6
  <2> QED BY <2>6, <2>7
<1> QED BY <1>3, <1>4

-----------------------------------------------------------------------------
(* The order of the stages, and which trial stands after some of them.     *)

Stages == {"spec", "fa", "kv", "batch", "ubatch"}

LEMMA Places ==
    /\ Len(Order) = 5 /\ DOMAIN Order = 1..5
    /\ \A n \in 1..5 : Order[n] \in Stages /\ Place(Order[n]) = n
    /\ \A stage \in Stages : Place(stage) \in 1..5 /\ Order[Place(stage)] = stage
<1>1. Len(Order) = 5 /\ DOMAIN Order = 1..5
  BY DEF Order
<1>2. \A n \in 1..5 : n = 1 \/ n = 2 \/ n = 3 \/ n = 4 \/ n = 5
  OBVIOUS
<1>3. /\ Order[1] = "spec" /\ Order[2] = "fa" /\ Order[3] = "kv"
      /\ Order[4] = "batch" /\ Order[5] = "ubatch"
  BY DEF Order
<1>4. \A n \in 1..5 : Order[n] \in Stages
  BY <1>2, <1>3 DEF Stages
<1>5. \A n, m \in 1..5 : Order[n] = Order[m] => n = m
  BY <1>2, <1>3
<1>6. \A stage \in Stages : \E n \in 1..5 : Order[n] = stage
  BY <1>3 DEF Stages
<1>7. ASSUME NEW stage \in Stages PROVE Place(stage) \in 1..5 /\ Order[Place(stage)] = stage
  <2>1. \E n \in DOMAIN Order : Order[n] = stage
    BY <1>1, <1>6
  <2>2. Place(stage) \in DOMAIN Order /\ Order[Place(stage)] = stage
    BY <2>1, Zenon DEF Place
  <2> QED BY <1>1, <2>2
<1>8. ASSUME NEW n \in 1..5 PROVE Place(Order[n]) = n
  BY <1>4, <1>5, <1>7
<1> QED BY <1>1, <1>4, <1>7, <1>8

Typed(m) == m.decode.median \in Int /\ m.prefill.median \in Int

LEMMA MetricTyped ==
    ASSUME NEW m, Typed(m), NEW stage
    PROVE  m[Metric(stage)].median \in Int
BY DEF Typed, Metric

LEMMA WinsPlaces ==
    ASSUME NEW trials, NEW stage, NEW i
    PROVE  i \in WinsAt(trials, stage) <=> i \in DOMAIN trials /\ trials[i].stage = stage /\ trials[i].wins
BY DEF WinsAt, TrialsAt

\* The best trial of a stage that something has won is one of those that won.
BestOf(trials, stage, i) ==
    /\ i \in WinsAt(trials, stage)
    /\ \A j \in WinsAt(trials, stage) :
         LET here == trials[i].measured[Metric(stage)].median
             there == trials[j].measured[Metric(stage)].median
         IN  there <= here /\ (here <= there => i <= j)

LEMMA BestIs ==
    ASSUME NEW trials, IsList(trials), NEW stage,
           \A i \in WinsAt(trials, stage) : Typed(trials[i].measured)
    PROVE  /\ WinsAt(trials, stage) # {} => BestOf(trials, stage, BestAt(trials, stage))
           /\ \A i : BestOf(trials, stage, i) => BestAt(trials, stage) = i
<1> DEFINE W == WinsAt(trials, stage)
           g == [i \in W |-> trials[i].measured[Metric(stage)].median]
           B == {i \in W : \A j \in W : g[j] <= g[i]}
<1>1. /\ Len(trials) \in Nat /\ W \in SUBSET (1..Len(trials)) /\ W \in SUBSET Nat
      /\ \A i \in W : g[i] \in Int
  <2>1. Len(trials) \in Nat /\ DOMAIN trials = 1..Len(trials)
    BY ListPlaces
  <2>2. W \in SUBSET (1..Len(trials))
    BY <2>1, WinsPlaces
  <2>3. ASSUME NEW i \in W PROVE g[i] \in Int
    <3>1. trials[i].measured[Metric(stage)].median \in Int
      BY MetricTyped
    <3> QED BY <3>1
  <2> QED BY <2>1, <2>2, <2>3
<1>2. BestAt(trials, stage) = Min(B)
  BY DEF BestAt
<1>3. \A i \in W : g[i] = trials[i].measured[Metric(stage)].median
  OBVIOUS
<1>4. \A i : BestOf(trials, stage, i) <=> i \in W /\ \A j \in W : g[j] <= g[i] /\ (g[i] <= g[j] => i <= j)
  BY <1>3, Zenon DEF BestOf
<1>5. /\ B \in SUBSET W
      /\ \A i \in W : i \in B <=> \A j \in W : g[j] <= g[i]
  OBVIOUS
<1> HIDE DEF W, g, B
<1>6. ASSUME W # {} PROVE BestOf(trials, stage, BestAt(trials, stage))
  <2> DEFINE b == Min(B)
  <2>1. B # {}
    <3>1. PICK i \in W : \A j \in W : g[j] <= g[i]
      BY <1>1, <1>6, HighestOf, Zenon
    <3> QED BY <1>5, <3>1
  <2>2. B \in SUBSET Nat
    BY <1>1, <1>5
  <2>3. b \in B /\ \A j \in B : b <= j
    BY <2>1, <2>2, LeastOf
  <2> HIDE DEF b
  <2>4. b \in W /\ \A j \in W : g[j] <= g[b]
    BY <1>5, <2>3
  <2>5. ASSUME NEW j \in W, g[b] <= g[j] PROVE b <= j
    <3>1. ASSUME NEW k \in W PROVE g[k] <= g[j]
      BY <1>1, <2>4, <2>5, <3>1
    <3>2. j \in B
      BY <1>5, <3>1
    <3> QED BY <2>3, <3>2
  <2>6. BestOf(trials, stage, b)
    BY <1>4, <2>4, <2>5
  <2> QED BY <1>2, <2>6 DEF b
<1>7. ASSUME NEW i, BestOf(trials, stage, i) PROVE BestAt(trials, stage) = i
  <2>1. i \in W /\ \A j \in W : g[j] <= g[i] /\ (g[i] <= g[j] => i <= j)
    BY <1>4, <1>7
  <2>2. i \in B /\ B \in SUBSET Nat
    BY <1>1, <1>5, <2>1
  <2>3. \A j \in B : i <= j
    BY <1>5, <2>1
  <2> QED BY <1>2, <2>2, <2>3, LeastIs
<1> QED BY <1>6, <1>7 DEF W

\* A stage that nothing has won leaves the trial that stood before.
LEMMA StandsOn ==
    ASSUME NEW trials, NEW m \in 0..5, NEW k \in 0..5, k <= m,
           \A n \in (k + 1)..m : WinsAt(trials, Order[n]) = {}
    PROVE  StandsAfter(trials, m) = StandsAfter(trials, k)
<1>1. {n \in 1..m : WinsAt(trials, Order[n]) # {}} = {n \in 1..k : WinsAt(trials, Order[n]) # {}}
  <2>1. \A n : n \in 1..m <=> n \in 1..k \/ n \in (k + 1)..m
    OBVIOUS
  <2>2. \A n \in 1..m : WinsAt(trials, Order[n]) # {} => n \in 1..k
    BY <2>1
  <2> QED BY <2>1, <2>2
<1> QED BY <1>1 DEF StandsAfter

LEMMA StandsNew ==
    ASSUME NEW trials, NEW m \in 1..5, WinsAt(trials, Order[m]) # {}
    PROVE  StandsAfter(trials, m) = BestAt(trials, Order[m])
<1> DEFINE won == {n \in 1..m : WinsAt(trials, Order[n]) # {}}
<1>1. m \in won /\ won \in SUBSET (1..m)
  OBVIOUS
<1>2. StandsAfter(trials, m) = IF won = {} THEN 1 ELSE BestAt(trials, Order[Max(won)])
  BY DEF StandsAfter
<1> HIDE DEF won
<1>3. \E x \in won : \A y \in won : x >= y
  BY <1>1
<1>4. Max(won) \in won /\ \A y \in won : Max(won) >= y
  BY <1>3, Zenon DEF Max
<1>5. Max(won) = m
  <2>1. Max(won) \in 1..m /\ Max(won) >= m
    BY <1>1, <1>4
  <2> HIDE DEF Max
  <2> QED BY <2>1
<1> QED BY <1>1, <1>2, <1>5

-----------------------------------------------------------------------------
(* The trials of a run, as they grow.                                      *)

\* The baseline, with the flags that were current, then trials of stages that
\* are not behind the m-th.
Listed(trials, flags, m) ==
    /\ IsList(trials)
    /\ trials # <<>> => trials[1].stage = "baseline" /\ ~trials[1].wins /\ trials[1].argv = flags
    /\ \A i \in 2..Len(trials) : trials[i].stage \in Stages /\ Place(trials[i].stage) <= m
    /\ \A i \in DOMAIN trials : trials[i].wins => Typed(trials[i].measured)

\* What the record says of one trial, given the trials before it.
Earned(trials, t) ==
    LET from == StartOf(trials, t)
    IN  /\ t.argv = ApplyValue(t.stage, from.argv, t.value)
        /\ t.wins = (t.outcome = "measured" /\ Wins(t.measured, from.measured, t.stage))

Audited(trials) == \A i \in 2..Len(trials) : Earned(trials, trials[i])

Probed(trials) == Cardinality({i \in DOMAIN trials : trials[i].probed})

LEMMA NothingListed == \A flags, m : Listed(<<>>, flags, m) /\ Audited(<<>>) /\ Probed(<<>>) = 0
<1>1. Len(<<>>) = 0 /\ DOMAIN <<>> = {} /\ 2..0 = {}
  BY NoList
<1>2. Probed(<<>>) = 0
  BY <1>1, FS_EmptySet DEF Probed
<1> QED BY <1>1, <1>2, NoList DEF Listed, Audited

\* Nothing has won so far, or what stands is the best of the last stage won.
LEMMA StandsWhere ==
    ASSUME NEW trials, NEW m \in 0..5
    PROVE  \/ StandsAfter(trials, m) = 1 /\ \A n \in 1..m : WinsAt(trials, Order[n]) = {}
           \/ \E n \in 1..m : /\ WinsAt(trials, Order[n]) # {}
                              /\ StandsAfter(trials, m) = BestAt(trials, Order[n])
                              /\ \A k \in (n + 1)..m : WinsAt(trials, Order[k]) = {}
<1> DEFINE won == {n \in 1..m : WinsAt(trials, Order[n]) # {}}
<1>1. StandsAfter(trials, m) = IF won = {} THEN 1 ELSE BestAt(trials, Order[Max(won)])
  BY DEF StandsAfter
<1>2. won \in SUBSET (1..m) /\ \A n \in 1..m : n \in won <=> WinsAt(trials, Order[n]) # {}
  OBVIOUS
<1> HIDE DEF won
<1>3. CASE won = {}
  BY <1>1, <1>2, <1>3
<1>4. CASE won # {}
  <2>1. \E x \in won : \A y \in won : x >= y
    <3>1. m \in Nat /\ \A i \in won : [i1 \in won |-> i1][i] \in Int
      BY <1>2
    <3>2. PICK x \in won : \A y \in won : [i1 \in won |-> i1][y] <= [i1 \in won |-> i1][x]
      BY <1>2, <1>4, <3>1, HighestOf, Zenon
    <3> QED BY <1>2, <3>2
  <2> DEFINE n == Max(won)
  <2>2. n \in won /\ \A y \in won : n >= y
    BY <2>1, Zenon DEF Max
  <2>3. StandsAfter(trials, m) = BestAt(trials, Order[n])
    BY <1>1, <1>4
  <2> HIDE DEF n
  <2>4. n \in 1..m /\ WinsAt(trials, Order[n]) # {}
    BY <1>2, <2>2
  <2>5. ASSUME NEW k \in (n + 1)..m PROVE WinsAt(trials, Order[k]) = {}
    <3>1. k \in 1..m /\ ~(n >= k)
      BY <2>4
    <3> QED BY <1>2, <2>2, <3>1
  <2> QED BY <2>3, <2>4, <2>5
<1> QED BY <1>3, <1>4

LEMMA StandsIn ==
    ASSUME NEW trials, trials # <<>>, IsList(trials), NEW m \in 0..5,
           \A i \in DOMAIN trials : trials[i].wins => Typed(trials[i].measured)
    PROVE  StandsAfter(trials, m) \in DOMAIN trials
<1>1. 1 \in DOMAIN trials
  <2>1. Len(trials) \in Nat /\ DOMAIN trials = 1..Len(trials) /\ trials \in Seq(Range(trials))
    BY ListPlaces DEF IsList
  <2>2. Len(trials) # 0
    BY <2>1, EmptySeq
  <2> QED BY <2>1, <2>2
<1>2. ASSUME NEW n \in 1..m, WinsAt(trials, Order[n]) # {}
      PROVE  BestAt(trials, Order[n]) \in DOMAIN trials
  <2>1. \A i \in WinsAt(trials, Order[n]) : Typed(trials[i].measured)
    BY WinsPlaces
  <2>2. BestOf(trials, Order[n], BestAt(trials, Order[n]))
    BY <1>2, <2>1, BestIs
  <2> QED BY <2>2, WinsPlaces DEF BestOf
<1> QED BY <1>1, <1>2, StandsWhere

\* A trial of a stage that is not one of the first m leaves what stood after them.
LEMMA StandsKept ==
    ASSUME NEW trials, trials # <<>>, IsList(trials), NEW m \in 0..5, NEW e, NEW longer,
           Extends(longer, trials, e),
           \A i \in DOMAIN trials : trials[i].wins => Typed(trials[i].measured),
           \A n \in 1..m : e.stage # Order[n]
    PROVE  /\ StandsAfter(longer, m) = StandsAfter(trials, m)
           /\ longer[StandsAfter(longer, m)] = trials[StandsAfter(trials, m)]
<1>1. /\ DOMAIN longer = DOMAIN trials \cup {Len(longer)} /\ Len(longer) \notin DOMAIN trials
      /\ \A i \in DOMAIN trials : longer[i] = trials[i]
      /\ longer[Len(longer)] = e
  BY DEF Extends
<1>2. ASSUME NEW n \in 1..m PROVE WinsAt(longer, Order[n]) = WinsAt(trials, Order[n])
  <2> DEFINE stage == Order[n]
  <2>1. e.stage # stage
    OBVIOUS
  <2> HIDE DEF stage
  <2>2. ASSUME NEW i PROVE i \in WinsAt(longer, stage) <=> i \in WinsAt(trials, stage)
    <3>1. i \in WinsAt(longer, stage) <=> i \in DOMAIN longer /\ longer[i].stage = stage /\ longer[i].wins
      BY WinsPlaces
    <3>2. i \in WinsAt(trials, stage) <=> i \in DOMAIN trials /\ trials[i].stage = stage /\ trials[i].wins
      BY WinsPlaces
    <3>3. CASE i \in DOMAIN trials
      BY <1>1, <3>1, <3>2, <3>3
    <3>4. CASE i \notin DOMAIN trials
      BY <1>1, <2>1, <3>1, <3>2, <3>4
    <3> QED BY <3>3, <3>4
  <2> QED BY <2>2 DEF stage
<1>3. ASSUME NEW n \in 1..m PROVE BestAt(longer, Order[n]) = BestAt(trials, Order[n])
  <2>1. \A i \in WinsAt(trials, Order[n]) : longer[i] = trials[i]
    BY <1>1, WinsPlaces
  <2> HIDE DEF WinsAt
  <2> QED BY <1>2, <2>1 DEF BestAt
<1>4. StandsAfter(longer, m) = StandsAfter(trials, m)
  <2> DEFINE won == {n \in 1..m : WinsAt(trials, Order[n]) # {}}
             wonNow == {n \in 1..m : WinsAt(longer, Order[n]) # {}}
  <2>1. wonNow = won
    BY <1>2
  <2>2. CASE \A n \in 1..m : WinsAt(trials, Order[n]) = {}
    <3>1. won = {}
      BY <2>2
    <3> QED BY <2>1, <3>1 DEF StandsAfter
  <2>3. CASE \E n \in 1..m : WinsAt(trials, Order[n]) # {}
    <3>1. PICK n \in 1..m : /\ WinsAt(trials, Order[n]) # {}
                            /\ StandsAfter(trials, m) = BestAt(trials, Order[n])
                            /\ \A k \in (n + 1)..m : WinsAt(trials, Order[k]) = {}
      BY <2>3, StandsWhere
    <3>2. n \in 1..5 /\ n \in 0..5 /\ n <= m
      OBVIOUS
    <3>3. \A k \in (n + 1)..m : WinsAt(longer, Order[k]) = {}
      BY <1>2, <3>1
    <3>4. StandsAfter(longer, m) = StandsAfter(longer, n)
      BY <3>2, <3>3, StandsOn
    <3>5. StandsAfter(longer, n) = BestAt(longer, Order[n])
      BY <1>2, <3>1, <3>2, StandsNew
    <3> QED BY <1>3, <3>1, <3>4, <3>5
  <2> QED BY <2>2, <2>3
<1>5. StandsAfter(trials, m) \in DOMAIN trials
  BY StandsIn
<1> QED BY <1>1, <1>4, <1>5

\* A trial of the next stage, or of the one that is going on, joins the record.
LEMMA ListedMore ==
    ASSUME NEW trials, trials # <<>>, NEW flags, NEW m \in 1..5, NEW e, NEW longer,
           Listed(trials, flags, m), Audited(trials), Extends(longer, trials, e),
           e.stage = Order[m], e.wins => Typed(e.measured),
           e.argv = ApplyValue(e.stage, trials[StandsAfter(trials, m - 1)].argv, e.value),
           e.wins = (e.outcome = "measured"
                      /\ Wins(e.measured, trials[StandsAfter(trials, m - 1)].measured, e.stage))
    PROVE  Listed(longer, flags, m) /\ Audited(longer)
<1>1. IsList(trials) /\ \A i \in DOMAIN trials : trials[i].wins => Typed(trials[i].measured)
  BY DEF Listed
<1>2. Len(trials) \in Nat /\ DOMAIN trials = 1..Len(trials) /\ 1 \in DOMAIN trials
  <2>1. Len(trials) \in Nat /\ DOMAIN trials = 1..Len(trials) /\ trials \in Seq(Range(trials))
    BY <1>1, ListPlaces DEF IsList
  <2>2. Len(trials) # 0
    BY <2>1, EmptySeq
  <2> QED BY <2>1, <2>2
<1>3. /\ IsList(longer) /\ Len(longer) = Len(trials) + 1
      /\ DOMAIN longer = DOMAIN trials \cup {Len(longer)}
      /\ \A i \in DOMAIN trials : longer[i] = trials[i]
      /\ longer[Len(longer)] = e
  BY <1>1 DEF Extends
<1>4. e.stage \in Stages /\ Place(e.stage) = m
  BY Places
<1>5. \A i \in 2..Len(longer) : i \in 2..Len(trials) \/ i = Len(longer)
  BY <1>2, <1>3
<1>6. Listed(longer, flags, m)
  <2>1. longer[1] = trials[1]
    BY <1>2, <1>3
  <2>2. longer[1].stage = "baseline" /\ ~longer[1].wins /\ longer[1].argv = flags
    BY <2>1 DEF Listed
  <2>3. ASSUME NEW i \in 2..Len(longer) PROVE longer[i].stage \in Stages /\ Place(longer[i].stage) <= m
    <3>1. CASE i \in 2..Len(trials)
      BY <1>2, <1>3, <3>1 DEF Listed
    <3>2. CASE i = Len(longer)
      BY <1>3, <1>4, <3>2
    <3> QED BY <1>5, <3>1, <3>2
  <2>4. ASSUME NEW i \in DOMAIN longer, longer[i].wins PROVE Typed(longer[i].measured)
    BY <1>1, <1>3, <2>4
  <2> QED BY <1>3, <2>2, <2>3, <2>4 DEF Listed
<1>7. ASSUME NEW i \in 2..Len(longer) PROVE Earned(longer, longer[i])
  <2> DEFINE k == Place(longer[i].stage) - 1
  <2>1. k \in 0..5 /\ \A n \in 1..k : e.stage # Order[n]
    <3>1. longer[i].stage \in Stages /\ Place(longer[i].stage) <= m
      BY <1>6 DEF Listed
    <3>2. Place(longer[i].stage) \in 1..5
      BY <3>1, Places
    <3>3. ASSUME NEW n \in 1..k PROVE e.stage # Order[n]
      <4>1. n \in 1..5 /\ n # m
        BY <3>1, <3>2
      <4> QED BY <4>1, Places
    <3> QED BY <3>2, <3>3
  <2>2. longer[StandsAfter(longer, k)] = trials[StandsAfter(trials, k)]
    <3> HIDE DEF k
    <3> QED BY <1>1, <2>1, StandsKept, Zenon
  <2>3. StartOf(longer, longer[i]) = StartOf(trials, longer[i])
    BY <2>2 DEF StartOf
  <2>4. CASE i \in 2..Len(trials)
    <3>1. longer[i] = trials[i] /\ Earned(trials, trials[i])
      BY <1>2, <1>3, <2>4 DEF Audited
    <3> QED BY <2>3, <3>1 DEF Earned
  <2>5. CASE i = Len(longer)
    <3>1. longer[i] = e
      BY <1>3, <2>5
    <3>2. StartOf(trials, e) = trials[StandsAfter(trials, m - 1)]
      BY <1>4 DEF StartOf
    <3>3. Earned(trials, e)
      <4> HIDE DEF StandsAfter, ApplyValue, Wins
      <4> QED BY <3>2 DEF Earned
    <3> QED BY <2>3, <3>1, <3>3 DEF Earned
  <2> QED BY <1>5, <2>4, <2>5
<1> QED BY <1>6, <1>7 DEF Audited

\* The baseline opens the record.
LEMMA ListedFirst ==
    ASSUME NEW flags, NEW m, NEW e, NEW longer, Extends(longer, <<>>, e),
           e.stage = "baseline", ~e.wins, e.argv = flags
    PROVE  Listed(longer, flags, m) /\ Audited(longer) /\ Len(longer) = 1
<1>1. IsList(longer) /\ Len(longer) = 1 /\ DOMAIN longer = {1} /\ longer[1] = e
  BY NoList DEF Extends
<1>2. 2..1 = {}
  OBVIOUS
<1> QED BY <1>1, <1>2 DEF Listed, Audited

LEMMA ProbedMore ==
    ASSUME NEW trials, IsList(trials), NEW e, NEW longer, Extends(longer, trials, e)
    PROVE  /\ Probed(trials) \in Nat
           /\ e.probed => Probed(longer) = Probed(trials) + 1
           /\ ~e.probed => Probed(longer) = Probed(trials)
<1> DEFINE S == {i \in DOMAIN trials : trials[i].probed}
           T == {i \in DOMAIN longer : longer[i].probed}
<1>1. /\ DOMAIN longer = DOMAIN trials \cup {Len(longer)} /\ Len(longer) \notin DOMAIN trials
      /\ \A i \in DOMAIN trials : longer[i] = trials[i]
      /\ longer[Len(longer)] = e
  BY DEF Extends
<1>2. IsFiniteSet(S)
  <2>1. Len(trials) \in Nat /\ DOMAIN trials = 1..Len(trials)
    BY ListPlaces
  <2>2. IsFiniteSet(DOMAIN trials)
    BY <2>1, FS_Interval
  <2>3. S \subseteq DOMAIN trials
    OBVIOUS
  <2> QED BY <2>2, <2>3, FS_Subset
<1>3. e.probed => T = S \cup {Len(longer)}
  BY <1>1
<1>4. ~e.probed => T = S
  BY <1>1
<1>5. Len(longer) \notin S
  BY <1>1
<1>6. Probed(trials) = Cardinality(S) /\ Probed(longer) = Cardinality(T)
  BY DEF Probed
<1> HIDE DEF S, T
<1>7. Cardinality(S) \in Nat
  BY <1>2, FS_CardinalityType
<1>8. Cardinality(S \cup {Len(longer)}) = Cardinality(S) + 1
  BY <1>2, <1>5, FS_AddElement
<1> QED BY <1>3, <1>4, <1>6, <1>7, <1>8

-----------------------------------------------------------------------------
(* What a stage has scored: the measured trials of the stage, in order.    *)

\* The k-th of `scored` is the trial f[k]; no trial that wins is missing.
Follows(f, trials, n, stage, scored) ==
    /\ \A k, l \in DOMAIN scored : k < l => f[k] < f[l]
    /\ \A k \in DOMAIN scored :
         /\ trials[f[k]].stage = stage /\ scored[k].candidate.stage = stage
         /\ scored[k].candidate.argv = trials[f[k]].argv
         /\ scored[k].measured = trials[f[k]].measured
         /\ scored[k].wins <=> trials[f[k]].wins
    /\ \A i \in 1..n : trials[i].stage = stage /\ trials[i].wins => \E k \in DOMAIN scored : f[k] = i

Mirrors(trials, n, stage, scored) ==
    /\ IsList(scored)
    /\ \E f \in [DOMAIN scored -> 1..n] : Follows(f, trials, n, stage, scored)

LEMMA MirrorsNone ==
    ASSUME NEW trials, NEW n, NEW stage,
           \A i \in 1..n : trials[i].stage # stage
    PROVE  Mirrors(trials, n, stage, <<>>)
<1>1. DOMAIN <<>> = {} /\ IsList(<<>>)
  BY NoList
<1> DEFINE f == [k \in {} |-> 1]
<1>2. f \in [DOMAIN <<>> -> 1..n]
  BY <1>1
<1>3. Follows(f, trials, n, stage, <<>>)
  BY <1>1 DEF Follows
<1> QED BY <1>1, <1>2, <1>3, Zenon DEF Mirrors

LEMMA MirrorsMore ==
    ASSUME NEW trials, NEW n \in Nat, NEW stage, NEW scored, Mirrors(trials, n, stage, scored),
           trials[n + 1].stage = stage, NEW s, NEW more, Extends(more, scored, s),
           s.candidate.stage = stage, s.candidate.argv = trials[n + 1].argv,
           s.measured = trials[n + 1].measured, s.wins <=> trials[n + 1].wins
    PROVE  Mirrors(trials, n + 1, stage, more)
<1>1. PICK f \in [DOMAIN scored -> 1..n] : Follows(f, trials, n, stage, scored)
  BY DEF Mirrors
<1>2. /\ IsList(more) /\ DOMAIN more = DOMAIN scored \cup {Len(more)} /\ Len(more) \notin DOMAIN scored
      /\ \A k \in DOMAIN scored : more[k] = scored[k]
      /\ more[Len(more)] = s
  BY DEF Extends
<1>3. DOMAIN more \subseteq Nat /\ Len(more) \in Nat /\ \A k \in DOMAIN scored : k < Len(more)
  <2>1. /\ Len(scored) \in Nat /\ DOMAIN scored = 1..Len(scored)
        /\ Len(more) \in Nat /\ DOMAIN more = 1..Len(more) /\ Len(more) = Len(scored) + 1
    BY ListPlaces DEF Mirrors, Extends
  <2> QED BY <2>1
<1> DEFINE g == [k \in DOMAIN more |-> IF k = Len(more) THEN n + 1 ELSE f[k]]
<1>4. /\ \A k \in DOMAIN scored : g[k] = f[k] /\ f[k] \in 1..n
      /\ g[Len(more)] = n + 1 /\ g \in [DOMAIN more -> 1..(n + 1)]
  <2> DEFINE z == Len(more)
  <2>1. z \in DOMAIN more /\ z \notin DOMAIN scored /\ \A k \in DOMAIN more : k = z \/ k \in DOMAIN scored
    BY <1>2
  <2> HIDE DEF z
  <2>2. g = [k \in DOMAIN more |-> IF k = z THEN n + 1 ELSE f[k]]
    BY DEF z
  <2> HIDE DEF g
  <2>3. \A k \in DOMAIN scored : g[k] = f[k] /\ f[k] \in 1..n
    BY <1>2, <2>1, <2>2
  <2>4. g[z] = n + 1
    BY <2>1, <2>2
  <2>5. \A k \in DOMAIN more : g[k] \in 1..(n + 1)
    <3>1. n + 1 \in 1..(n + 1) /\ \A x \in 1..n : x \in 1..(n + 1)
      OBVIOUS
    <3> QED BY <2>1, <2>3, <2>4, <3>1
  <2> QED BY <2>2, <2>3, <2>4, <2>5 DEF z
<1> HIDE DEF g
<1>5. ASSUME NEW k \in DOMAIN more, NEW l \in DOMAIN more, k < l PROVE g[k] < g[l]
  <2>1. k \in DOMAIN scored
    <3>1. SUFFICES ASSUME k = Len(more) PROVE FALSE
      BY <1>2
    <3>2. l \in Nat /\ Len(more) \in Nat /\ (l = Len(more) \/ l < Len(more))
      BY <1>2, <1>3
    <3> HIDE DEF Extends
    <3> QED BY <1>5, <3>1, <3>2
  <2>2. CASE l \in DOMAIN scored
    BY <1>1, <1>4, <1>5, <2>1, <2>2 DEF Follows
  <2>3. CASE l = Len(more)
    BY <1>4, <2>1, <2>3
  <2> QED BY <1>2, <2>2, <2>3
<1>6. ASSUME NEW k \in DOMAIN more
      PROVE  /\ trials[g[k]].stage = stage /\ more[k].candidate.stage = stage
             /\ more[k].candidate.argv = trials[g[k]].argv
             /\ more[k].measured = trials[g[k]].measured
             /\ more[k].wins <=> trials[g[k]].wins
  <2>1. CASE k \in DOMAIN scored
    BY <1>1, <1>2, <1>4, <2>1 DEF Follows
  <2>2. CASE k = Len(more)
    BY <1>2, <1>4, <2>2
  <2> QED BY <1>2, <2>1, <2>2
<1>7. ASSUME NEW i \in 1..(n + 1), trials[i].stage = stage, trials[i].wins
      PROVE  \E k \in DOMAIN more : g[k] = i
  <2>1. CASE i \in 1..n
    <3>1. PICK k \in DOMAIN scored : f[k] = i
      BY <1>1, <1>7, <2>1 DEF Follows
    <3> QED BY <1>2, <1>4, <3>1
  <2>2. CASE i = n + 1
    BY <1>2, <1>4, <2>2
  <2> QED BY <2>1, <2>2
<1>8. Follows(g, trials, n + 1, stage, more)
  BY <1>5, <1>6, <1>7 DEF Follows
<1> QED BY <1>2, <1>4, <1>8 DEF Mirrors

LEMMA MirrorsPass ==
    ASSUME NEW trials, NEW n \in Nat, NEW stage, NEW scored, Mirrors(trials, n, stage, scored),
           ~trials[n + 1].wins
    PROVE  Mirrors(trials, n + 1, stage, scored)
<1>1. PICK f \in [DOMAIN scored -> 1..n] : Follows(f, trials, n, stage, scored)
  BY DEF Mirrors
<1>2. f \in [DOMAIN scored -> 1..(n + 1)]
  BY <1>1
<1>3. \A i \in 1..(n + 1) : i \in 1..n \/ i = n + 1
  OBVIOUS
<1>4. Follows(f, trials, n + 1, stage, scored)
  BY <1>1, <1>3 DEF Follows
<1> QED BY <1>2, <1>4 DEF Mirrors

LEMMA MirrorsLonger ==
    ASSUME NEW trials, IsList(trials), NEW stage, NEW scored,
           Mirrors(trials, Len(trials), stage, scored), NEW e, NEW longer, Extends(longer, trials, e)
    PROVE  Mirrors(longer, Len(trials), stage, scored)
<1> DEFINE n == Len(trials)
<1>1. PICK f \in [DOMAIN scored -> 1..n] : Follows(f, trials, n, stage, scored)
  BY DEF Mirrors
<1>2. \A i \in 1..n : longer[i] = trials[i]
  BY ListPlaces DEF Extends
<1> HIDE DEF n
<1>3. \A k \in DOMAIN scored : longer[f[k]] = trials[f[k]]
  BY <1>1, <1>2
<1>4. Follows(f, longer, n, stage, scored)
  BY <1>1, <1>2, <1>3 DEF Follows
<1> QED BY <1>1, <1>4 DEF Mirrors, n

\* pick_winner picks the best trial of the stage, or nothing if nothing won.
LEMMA PickIs ==
    ASSUME NEW trials, IsList(trials), NEW stage, NEW scored,
           Mirrors(trials, Len(trials), stage, scored),
           \A i \in WinsAt(trials, stage) : Typed(trials[i].measured)
    PROVE  LET k == PickWinner(scored)
               best == trials[BestAt(trials, stage)]
           IN  IF WinsAt(trials, stage) = {} THEN k = 0
               ELSE k # 0 /\ scored[k].candidate.argv = best.argv /\ scored[k].measured = best.measured
<1> DEFINE n == Len(trials)
           won == {k \in DOMAIN scored : scored[k].wins}
           best == {k \in won : \A l \in won : MedianOf(scored[l]) <= MedianOf(scored[k])}
           med(i) == trials[i].measured[Metric(stage)].median
<1>1. PICK f \in [DOMAIN scored -> 1..n] : Follows(f, trials, n, stage, scored)
  BY DEF Mirrors
<1>2. /\ \A k, l \in DOMAIN scored : k < l => f[k] < f[l]
      /\ \A k \in DOMAIN scored : f[k] \in DOMAIN trials /\ trials[f[k]].stage = stage
      /\ \A k \in DOMAIN scored : scored[k].wins <=> trials[f[k]].wins
      /\ \A k \in DOMAIN scored : /\ scored[k].candidate.argv = trials[f[k]].argv
                                  /\ scored[k].measured = trials[f[k]].measured
      /\ \A i \in WinsAt(trials, stage) : \E k \in DOMAIN scored : f[k] = i
  BY <1>1, ListPlaces, WinsPlaces DEF Follows
<1>3. \A k \in won : f[k] \in WinsAt(trials, stage)
  BY <1>2, WinsPlaces
<1>4. \A i \in WinsAt(trials, stage) : \E k \in won : f[k] = i
  BY <1>2, WinsPlaces
<1>5. \A k \in won : MedianOf(scored[k]) = med(f[k]) /\ med(f[k]) \in Int
  <2>1. ASSUME NEW k \in won PROVE MedianOf(scored[k]) = med(f[k]) /\ med(f[k]) \in Int
    <3>1. scored[k].candidate.stage = stage /\ scored[k].measured = trials[f[k]].measured
      BY <1>1 DEF Follows
    <3>2. Typed(trials[f[k]].measured)
      BY <1>3
    <3> QED BY <3>1, <3>2, MetricTyped DEF MedianOf
  <2> QED BY <2>1
<1>6. PickWinner(scored) = IF won = {} THEN 0 ELSE Min(best)
  BY DEF PickWinner
<1>7. won \in SUBSET DOMAIN scored /\ DOMAIN scored \in SUBSET (Nat \ {0}) /\ best \in SUBSET won
  <2>1. Len(scored) \in Nat /\ DOMAIN scored = 1..Len(scored)
    BY ListPlaces DEF Mirrors
  <2> QED BY <2>1
<1>8. \A k \in won : k \in best <=> \A l \in won : MedianOf(scored[l]) <= MedianOf(scored[k])
  OBVIOUS
<1>9. \A i, j : BestOf(trials, stage, i) /\ j \in WinsAt(trials, stage) =>
          i \in WinsAt(trials, stage) /\ med(j) <= med(i) /\ (med(i) <= med(j) => i <= j)
  BY Zenon DEF BestOf
<1> HIDE DEF won, best, med, n, WinsAt
<1>10. CASE WinsAt(trials, stage) = {}
  <2>1. won = {}
    BY <1>3, <1>10
  <2> QED BY <1>6, <1>10, <2>1
<1>11. CASE WinsAt(trials, stage) # {}
  <2> DEFINE b == BestAt(trials, stage)
  <2>1. BestOf(trials, stage, b)
    BY <1>11, BestIs
  <2> HIDE DEF b
  <2>2. b \in WinsAt(trials, stage)
    BY <2>1 DEF BestOf
  <2>3. PICK k \in won : f[k] = b
    BY <1>4, <2>2
  <2>4. ASSUME NEW l \in won PROVE med(f[l]) <= med(b) /\ (med(b) <= med(f[l]) => b <= f[l])
    BY <1>3, <1>9, <2>1
  <2>5. k \in best
    <3>1. ASSUME NEW l \in won PROVE MedianOf(scored[l]) <= MedianOf(scored[k])
      BY <1>5, <2>3, <2>4
    <3> QED BY <1>8, <3>1
  <2>6. ASSUME NEW l \in best PROVE k <= l
    <3>1. l \in won /\ l \in DOMAIN scored /\ k \in DOMAIN scored /\ l \in Nat /\ k \in Nat
      BY <1>7
    <3>2. med(b) <= med(f[l])
      BY <1>5, <1>8, <2>3, <3>1
    <3>3. f[k] <= f[l]
      BY <2>3, <2>4, <3>1, <3>2
    <3>4. f[l] \in Nat /\ f[k] \in Nat
      BY <3>1, <1>1
    <3>5. ~(l < k)
      <4>1. SUFFICES ASSUME l < k PROVE FALSE
        OBVIOUS
      <4>2. f[l] < f[k]
        BY <1>2, <3>1, <4>1
      <4> QED BY <3>3, <3>4, <4>2
    <3> QED BY <3>1, <3>5
  <2>7. PickWinner(scored) = k
    <3>1. best \in SUBSET Nat
      BY <1>7
    <3>2. Min(best) = k
      BY <2>5, <2>6, <3>1, LeastIs
    <3> QED BY <1>6, <2>3, <3>2
  <2>8. k # 0 /\ scored[k].candidate.argv = trials[b].argv /\ scored[k].measured = trials[b].measured
    BY <1>2, <1>7, <2>3
  <2> QED BY <1>11, <2>7, <2>8 DEF b
<1> QED BY <1>10, <1>11

-----------------------------------------------------------------------------
(* The stages of a plan follow the fixed order.                            *)

Rising(s) ==
    /\ s \in Seq(Stages)
    /\ \A i, j \in 1..Len(s) : i < j => Place(s[i]) < Place(s[j])

RisingTo(s, n) == Rising(s) /\ \A i \in 1..Len(s) : Place(s[i]) <= n

LEMMA RisesMore ==
    ASSUME NEW s, NEW n \in 0..4, RisingTo(s, n), NEW piece, piece \in {<<>>, <<Order[n + 1]>>}
    PROVE  RisingTo(s \o piece, n + 1)
<1>1. s \in Seq(Stages) /\ Len(s) \in Nat
  BY DEF RisingTo, Rising
<1>2. \A i \in 1..Len(s) : s[i] \in Stages /\ Place(s[i]) \in 1..5
  BY <1>1, Places
<1>3. CASE piece = <<>>
  <2>1. s \o piece = s
    BY <1>1, <1>3, ConcatEmptySeq
  <2> QED BY <1>2, <2>1 DEF RisingTo
<1>4. CASE piece = <<Order[n + 1]>>
  <2> DEFINE o == Order[n + 1]
             t == s \o piece
  <2>1. o \in Stages /\ Place(o) = n + 1
    BY Places
  <2> HIDE DEF o
  <2>2. piece = <<o>>
    BY <1>4 DEF o
  <2>3. t = Append(s, o)
    BY <1>1, <2>1, <2>2, AppendIsConcat
  <2> HIDE DEF t
  <2>4. /\ t \in Seq(Stages) /\ Len(t) = Len(s) + 1
        /\ \A i \in 1..Len(s) : t[i] = s[i]
        /\ t[Len(s) + 1] = o
    BY <1>1, <2>1, <2>3, AppendProperties
  <2>5. ASSUME NEW i \in 1..Len(t), NEW j \in 1..Len(t), i < j PROVE Place(t[i]) < Place(t[j])
    <3>1. i \in 1..Len(s)
      BY <1>1, <2>4, <2>5
    <3>2. CASE j \in 1..Len(s)
      BY <2>4, <2>5, <3>1, <3>2 DEF RisingTo, Rising
    <3>3. CASE j = Len(s) + 1
      <4>1. Place(s[i]) <= n /\ Place(s[i]) \in 1..5
        BY <1>2, <3>1 DEF RisingTo
      <4> QED BY <2>1, <2>4, <3>1, <3>3, <4>1
    <3> QED BY <1>1, <2>4, <3>2, <3>3
  <2>6. ASSUME NEW i \in 1..Len(t) PROVE Place(t[i]) <= n + 1
    <3>1. CASE i \in 1..Len(s)
      <4>1. Place(s[i]) <= n /\ Place(s[i]) \in 1..5
        BY <1>2, <3>1 DEF RisingTo
      <4> QED BY <2>4, <3>1, <4>1
    <3>2. CASE i = Len(s) + 1
      BY <2>1, <2>4, <3>2
    <3> QED BY <1>1, <2>4, <3>1, <3>2
  <2>7. RisingTo(t, n + 1)
    BY <2>4, <2>5, <2>6 DEF RisingTo, Rising
  <2> QED BY <2>7 DEF t
<1> QED BY <1>3, <1>4

LEMMA StagesRise == ASSUME NEW requested PROVE Rising(StagesOf(requested))
<1> DEFINE piece(stage) == IF stage \in requested THEN <<stage>> ELSE <<>>
           p1 == piece("spec")
           p2 == piece("fa")
           p3 == piece("kv")
           p4 == piece("batch")
           p5 == piece("ubatch")
<1>1. StagesOf(requested) = p1 \o p2 \o p3 \o p4 \o p5
  BY DEF StagesOf
<1>2. /\ p1 \in {<<>>, <<Order[0 + 1]>>} /\ p2 \in {<<>>, <<Order[1 + 1]>>}
      /\ p3 \in {<<>>, <<Order[2 + 1]>>} /\ p4 \in {<<>>, <<Order[3 + 1]>>}
      /\ p5 \in {<<>>, <<Order[4 + 1]>>}
  <2>1. /\ Order[0 + 1] = "spec" /\ Order[1 + 1] = "fa" /\ Order[2 + 1] = "kv"
        /\ Order[3 + 1] = "batch" /\ Order[4 + 1] = "ubatch"
    BY DEF Order
  <2> QED BY <2>1
<1>3. p1 \in Seq(Stages)
  <2>1. <<>> \in Seq(Stages) /\ <<"spec">> \in Seq(Stages)
    BY EmptySeq DEF Stages
  <2> QED BY <2>1
<1> HIDE DEF p1, p2, p3, p4, p5
<1>4. RisingTo(<<>>, 0)
  <2>1. <<>> \in Seq(Stages) /\ Len(<<>>) = 0
    BY EmptySeq
  <2> QED BY <2>1 DEF RisingTo, Rising
<1>5. RisingTo(<<>> \o p1, 0 + 1)
  <2>1. 0 \in 0..4
    OBVIOUS
  <2> QED BY <1>2, <1>4, <2>1, RisesMore, Zenon
<1>6. <<>> \o p1 = p1 /\ 0 + 1 = 1 /\ 1 + 1 = 2 /\ 2 + 1 = 3 /\ 3 + 1 = 4
  BY <1>3, ConcatEmptySeq
<1>7. RisingTo(p1 \o p2, 1 + 1)
  BY <1>2, <1>5, <1>6, RisesMore
<1>8. RisingTo(p1 \o p2 \o p3, 2 + 1)
  BY <1>2, <1>6, <1>7, RisesMore
<1>9. RisingTo(p1 \o p2 \o p3 \o p4, 3 + 1)
  BY <1>2, <1>6, <1>8, RisesMore
<1>10. RisingTo(p1 \o p2 \o p3 \o p4 \o p5, 4 + 1)
  BY <1>2, <1>6, <1>9, RisesMore
<1> QED BY <1>1, <1>10 DEF RisingTo

-----------------------------------------------------------------------------
(* The invariant.                                                          *)

Fields == {"stages", "gated", "flags", "ceiling", "incumbent", "at", "queue", "scored", "candidate",
           "outcome", "measured", "released", "launches", "trials", "winner"}

InShape(r) ==
    /\ r = [f \in Fields |-> r[f]]
    /\ r.incumbent = [argv |-> r.incumbent.argv, measured |-> r.incumbent.measured]
    /\ Rising(r.stages)
    /\ r.at \in 0..Len(r.stages)
    /\ r.outcome = "measured" => Typed(r.measured)

\* The place of the stage that the run has reached.
Reached(r) == IF r.at = 0 THEN 0 ELSE Place(r.stages[r.at])

Kept(r) == Listed(r.trials, r.flags, Reached(r)) /\ Audited(r.trials)

\* The incumbent is what the record says stands after the first m stages.
Stands(r, m) ==
    LET from == r.trials[StandsAfter(r.trials, m)]
    IN  r.incumbent.argv = from.argv /\ r.incumbent.measured = from.measured

\* Before the baseline has been recorded ...
Begun(r) == r.trials = <<>> /\ r.at = 0 /\ r.candidate = Current /\ r.incumbent.argv = r.flags

\* ... and in a stage, of which the first n trials count.
InStage(r, n) ==
    /\ r.at # 0 /\ r.trials # <<>>
    /\ Stands(r, Place(r.stages[r.at]) - 1)
    /\ Mirrors(r.trials, n, r.stages[r.at], r.scored)

\* A candidate of the stage is being tried.
Trying(r) == r.candidate = Candidate(r.stages[r.at], r.incumbent.argv, r.candidate.value)

Underway(r) == Begun(r) \/ (InStage(r, Len(r.trials)) /\ Trying(r))

\* The last trial has just been recorded.
Recorded(r) ==
    /\ r.trials # <<>> /\ r.trials[Len(r.trials)] = TrialOf(r)
    /\ \/ Len(r.trials) = 1 /\ r.at = 0 /\ r.candidate = Current /\ r.incumbent.argv = r.flags
       \/ InStage(r, Len(r.trials) - 1) /\ Trying(r)

\* What a record may name as the winner.
WinnerStands(trials, winner) ==
    LET last == trials[StandsAfter(trials, Len(Order))]
    IN  winner # NoValue => last.wins /\ winner = last.argv

Trials == {"start", "probe", "teardown", "record"}
Over == {"settle", "apply", "applied"}

Phase(p, r) ==
    /\ p \in {"idle", "confirm", "baseline", "next", "stage", "write"} \cup Trials \cup Over
    /\ p # "idle" => InShape(r) /\ Kept(r)
    /\ p \in {"confirm", "baseline"} => Begun(r)
    /\ p \in Trials => Underway(r)
    /\ p = "write" => Recorded(r)
    /\ p = "stage" => InStage(r, Len(r.trials))
    /\ p = "next" => r.trials # <<>> /\ Stands(r, Reached(r))
    /\ p \in Over => WinnerStands(r.trials, r.winner)

\* What is on disk, and how many of the trials were probed.
Counted(p, r, d, n, how) ==
    /\ p \in {"confirm", "baseline"} => n = 0
    /\ p \in {"next", "stage", "start", "probe", "write"} \cup Over => n = Probed(r.trials)
    /\ p = "teardown" => n = Probed(r.trials) + 1 /\ r.outcome # "skipped"
    /\ p = "record" => n = Probed(r.trials) + (IF r.outcome = "skipped" THEN 0 ELSE 1)
    /\ p \in {"next", "stage"} \cup Trials /\ r.trials # <<>> => d = Written(r.trials, NoValue)
    /\ p \in {"apply", "applied"} => d = Written(r.trials, r.winner)
    /\ p = "idle" /\ how = "ended" /\ n > 0 => d.is = "written" /\ n = Probed(d.trials)

DiskTold(d) == d.is = "written" => Audited(d.trials) /\ WinnerStands(d.trials, d.winner)

IInv == Phase(pc, run) /\ Counted(pc, run, disk, probes, fate) /\ DiskTold(disk)

\* What of a run the invariant speaks about apart from the trial under way.
Alike(r, s) ==
    /\ s.trials = r.trials /\ s.stages = r.stages /\ s.at = r.at /\ s.flags = r.flags
    /\ s.incumbent = r.incumbent /\ s.scored = r.scored

LEMMA AlikeKeeps ==
    ASSUME NEW r, NEW s, Alike(r, s)
    PROVE  /\ Kept(r) => Kept(s)
           /\ \A n : InStage(r, n) => InStage(s, n)
           /\ \A m : Stands(r, m) => Stands(s, m)
           /\ Reached(s) = Reached(r)
<1>1. Reached(s) = Reached(r)
  BY DEF Alike, Reached
<1>2. Kept(r) => Kept(s)
  BY <1>1 DEF Alike, Kept
<1>3. ASSUME NEW m, Stands(r, m) PROVE Stands(s, m)
  BY <1>3 DEF Alike, Stands
<1>4. ASSUME NEW n, InStage(r, n) PROVE InStage(s, n)
  <2>1. Stands(s, Place(r.stages[r.at]) - 1)
    BY <1>3, <1>4 DEF InStage
  <2> QED BY <1>4, <2>1 DEF Alike, InStage
<1> QED BY <1>1, <1>2, <1>3, <1>4

LEMMA InitInv == ASSUME Init PROVE IInv
BY DEF Init, IInv, Phase, Counted, DiskTold, NoRecord, Over, Trials

LEMMA BeginInv == ASSUME IInv, Begin PROVE IInv'
<1>1. PICK requested \in Requests, gated \in BOOLEAN :
        pc' = "confirm" /\ run' = PlanOf(StagesOf(requested), gated, Effective(extra)) /\ fate' = fate
  BY DEF Begin, Goes
<1> DEFINE stages == StagesOf(requested)
           argv == Effective(extra)
           r == PlanOf(stages, gated, argv)
<1>2. Rising(stages)
  BY StagesRise
<1> HIDE DEF stages, argv
<1>3. /\ r.trials = <<>> /\ r.at = 0 /\ r.candidate = Current /\ r.incumbent.argv = r.flags
      /\ r.incumbent = [argv |-> r.incumbent.argv, measured |-> r.incumbent.measured]
      /\ r.stages = stages /\ r.outcome = "none"
      /\ r = [f \in Fields |-> r[f]]
  BY DEF PlanOf, Fields
<1> HIDE DEF r
<1>4. 0 \in 0..Len(stages)
  BY <1>2 DEF Rising
<1>5. InShape(r)
  BY <1>2, <1>3, <1>4 DEF InShape
<1>6. Kept(r) /\ Begun(r)
  BY <1>3, NothingListed DEF Kept, Begun
<1>7. Phase("confirm", r)
  BY <1>5, <1>6 DEF Phase, Trials, Over
<1>8. disk' = NoRecord /\ probes' = 0
  BY DEF Begin
<1>9. Counted("confirm", r, NoRecord, 0, fate) /\ DiskTold(NoRecord)
  BY DEF Counted, DiskTold, NoRecord, Trials, Over
<1>10. run' = r
  BY <1>1 DEF r, stages, argv
<1> QED BY <1>1, <1>7, <1>8, <1>9, <1>10 DEF IInv

\* A run that is over leaves what is on disk.
LEMMA EndInv ==
    ASSUME IInv, pc' = "idle", disk' = disk, probes' = probes,
           fate' = "ended" /\ probes > 0 => disk.is = "written" /\ probes = Probed(disk.trials)
    PROVE  IInv'
<1>1. Phase("idle", run')
  BY DEF Phase, Trials, Over
<1>2. Counted("idle", run', disk, probes, fate')
  BY DEF Counted, Trials, Over
<1> QED BY <1>1, <1>2 DEF IInv

LEMMA KillInv == ASSUME IInv, Kill PROVE IInv'
<1>1. pc' = "idle" /\ disk' = disk /\ probes' = probes /\ fate' = "killed"
  BY DEF Kill, EndsAs
<1> QED BY <1>1, EndInv

LEMMA ConfirmInv == ASSUME IInv, Confirm PROVE IInv'
<1>1. /\ pc = "confirm" /\ disk' = disk /\ probes' = probes
      /\ \/ pc' = "idle"
         \/ pc' = "baseline" /\ run' = run /\ fate' = fate
  BY DEF Confirm, Ends, EndsAs, Goes
<1>2. probes = 0 /\ InShape(run) /\ Kept(run) /\ Begun(run)
  BY <1>1 DEF IInv, Phase, Counted
<1>3. CASE pc' = "idle"
  BY <1>1, <1>2, <1>3, EndInv
<1>4. CASE pc' = "baseline" /\ run' = run /\ fate' = fate
  <2>1. Phase("baseline", run)
    BY <1>2 DEF Phase, Trials, Over
  <2>2. Counted("baseline", run, disk, probes, fate)
    BY <1>2 DEF Counted, Trials, Over
  <2> QED BY <1>1, <1>4, <2>1, <2>2 DEF IInv
<1> QED BY <1>1, <1>3, <1>4

LEMMA BaselineInv == ASSUME IInv, Baseline PROVE IInv'
<1> DEFINE r == [run EXCEPT !.candidate = Current]
<1>1. pc = "baseline" /\ pc' = "start" /\ run' = r /\ disk' = disk /\ probes' = probes /\ fate' = fate
  BY DEF Baseline, Goes
<1>2. probes = 0 /\ InShape(run) /\ Kept(run) /\ Begun(run)
  BY <1>1 DEF IInv, Phase, Counted
<1>3. Alike(run, r) /\ InShape(r) /\ Begun(r)
  BY <1>2 DEF Alike, InShape, Begun, Fields
<1> HIDE DEF r
<1>4. Kept(r)
  BY <1>2, <1>3, AlikeKeeps
<1>5. Phase("start", r)
  BY <1>3, <1>4 DEF Phase, Trials, Over, Underway
<1>6. r.trials = <<>> /\ Probed(<<>>) = 0
  BY <1>3, NothingListed DEF Begun
<1>7. Counted("start", r, disk, probes, fate)
  BY <1>2, <1>6 DEF Counted, Trials, Over
<1> QED BY <1>1, <1>5, <1>7 DEF IInv

LEMMA NextTrialInv == ASSUME IInv, NextTrial PROVE IInv'
<1> DEFINE c == Candidate(run.stages[run.at], run.incumbent.argv, Head(run.queue))
           held == [run EXCEPT !.candidate = c, !.queue = Tail(@), !.released = TRUE]
           skipped == [held EXCEPT !.outcome = "skipped"]
<1>1. /\ pc = "stage" /\ disk' = disk /\ probes' = probes /\ fate' = fate
      /\ (pc' = "record" /\ run' = skipped) \/ (pc' = "start" /\ run' = held)
  BY DEF NextTrial, Goes
<1>2. /\ InShape(run) /\ Kept(run) /\ InStage(run, Len(run.trials))
      /\ probes = Probed(run.trials) /\ (run.trials # <<>> => disk = Written(run.trials, NoValue))
  BY <1>1 DEF IInv, Phase, Counted
<1> DEFINE v == Head(run.queue)
<1>3. Candidate(run.stages[run.at], run.incumbent.argv, v).value = v
  BY DEF Candidate
<1> HIDE DEF v
<1>4. Alike(run, held) /\ InShape(held) /\ held.candidate = c
  BY <1>2 DEF Alike, InShape, Fields
<1>5. Alike(run, skipped) /\ InShape(skipped) /\ skipped.candidate = c /\ skipped.outcome = "skipped"
  BY <1>2 DEF Alike, InShape, Fields
<1>6. c = Candidate(run.stages[run.at], run.incumbent.argv, c.value)
  BY <1>3 DEF v
<1> HIDE DEF c, held, skipped
<1>7. /\ Kept(held) /\ InStage(held, Len(held.trials)) /\ Trying(held)
      /\ Kept(skipped) /\ InStage(skipped, Len(skipped.trials)) /\ Trying(skipped)
  <2>1. held.trials = run.trials /\ skipped.trials = run.trials
    BY <1>4, <1>5 DEF Alike
  <2>2. Trying(held) /\ Trying(skipped)
    BY <1>4, <1>5, <1>6 DEF Trying, Alike
  <2> QED BY <1>2, <1>4, <1>5, <2>1, <2>2, AlikeKeeps
<1>8. Phase("record", skipped) /\ Phase("start", held)
  BY <1>4, <1>5, <1>7 DEF Phase, Trials, Over, Underway
<1>9. Counted("record", skipped, disk, probes, fate) /\ Counted("start", held, disk, probes, fate)
  <2>1. Probed(run.trials) \in Nat
    BY <1>2, ProbedMore, Appended DEF Kept, Listed
  <2>2. held.trials = run.trials /\ skipped.trials = run.trials
    BY <1>4, <1>5 DEF Alike
  <2> QED BY <1>2, <1>5, <2>1, <2>2 DEF Counted, Trials, Over
<1> QED BY <1>1, <1>8, <1>9 DEF IInv

\* A trial goes on: nothing of the record changes.
LEMMA TrialGoesOn ==
    ASSUME NEW r, InShape(r), Kept(r), Underway(r), NEW s, Alike(r, s), InShape(s),
           s.candidate = r.candidate, NEW p \in Trials
    PROVE  Phase(p, s) /\ Underway(s)
<1>1. Kept(s)
  BY AlikeKeeps
<1>2. Underway(s)
  <2>1. CASE Begun(r)
    BY <2>1 DEF Underway, Begun, Alike
  <2>2. CASE InStage(r, Len(r.trials)) /\ Trying(r)
    <3>1. InStage(s, Len(r.trials)) /\ s.trials = r.trials
      BY <2>2, AlikeKeeps DEF Alike
    <3>2. Trying(s)
      BY <2>2 DEF Trying, Alike
    <3> QED BY <3>1, <3>2 DEF Underway
  <2> QED BY <2>1, <2>2 DEF Underway
<1>3. p # "idle" /\ p # "confirm" /\ p # "baseline" /\ p # "write" /\ p # "stage" /\ p # "next" /\ p \notin Over
  BY DEF Trials, Over
<1> QED BY <1>1, <1>2, <1>3 DEF Phase

LEMMA ProbedNat == ASSUME NEW r, Kept(r) PROVE Probed(r.trials) \in Nat
BY ProbedMore, Appended DEF Kept, Listed

LEMMA StartInv == ASSUME IInv, Start PROVE IInv'
<1> DEFINE skipped == [run EXCEPT !.outcome = "skipped", !.released = TRUE]
           launched == [run EXCEPT !.launches = @ + 1]
<1>1. /\ pc = "start" /\ disk' = disk /\ probes' = probes
      /\ \/ pc' = "record" /\ run' = skipped /\ fate' = fate
         \/ pc' = "probe" /\ run' = launched /\ fate' = fate
         \/ pc' = "idle"
  BY DEF Start, Goes, Ends, EndsAs
<1>2. /\ InShape(run) /\ Kept(run) /\ Underway(run)
      /\ probes = Probed(run.trials) /\ (run.trials # <<>> => disk = Written(run.trials, NoValue))
  BY <1>1 DEF IInv, Phase, Counted, Trials
<1>3. /\ Alike(run, skipped) /\ InShape(skipped) /\ skipped.candidate = run.candidate
      /\ skipped.outcome = "skipped" /\ skipped.trials = run.trials
  BY <1>2 DEF Alike, InShape, Fields
<1>4. /\ Alike(run, launched) /\ InShape(launched) /\ launched.candidate = run.candidate
      /\ launched.trials = run.trials
  BY <1>2 DEF Alike, InShape, Fields
<1>5. Probed(run.trials) \in Nat
  BY <1>2, ProbedNat
<1> HIDE DEF skipped, launched
<1>6. CASE pc' = "record" /\ run' = skipped /\ fate' = fate
  <2>1. Phase("record", skipped)
    BY <1>2, <1>3, TrialGoesOn DEF Trials
  <2>2. Counted("record", skipped, disk, probes, fate)
    BY <1>2, <1>3, <1>5 DEF Counted, Trials, Over
  <2> QED BY <1>1, <1>6, <2>1, <2>2 DEF IInv
<1>7. CASE pc' = "probe" /\ run' = launched /\ fate' = fate
  <2>1. Phase("probe", launched)
    BY <1>2, <1>4, TrialGoesOn DEF Trials
  <2>2. Counted("probe", launched, disk, probes, fate)
    BY <1>2, <1>4 DEF Counted, Trials, Over
  <2> QED BY <1>1, <1>7, <2>1, <2>2 DEF IInv
<1>8. CASE pc' = "idle"
  <2>1. CASE run.trials = <<>>
    <3>1. probes = 0
      BY <1>2, <2>1, NothingListed
    <3> QED BY <1>1, <1>8, <3>1, EndInv
  <2>2. CASE run.trials # <<>>
    <3>1. disk.is = "written" /\ disk.trials = run.trials
      BY <1>2, <2>2 DEF Written
    <3> QED BY <1>1, <1>2, <1>8, <3>1, EndInv
  <2> QED BY <2>1, <2>2
<1> QED BY <1>1, <1>6, <1>7, <1>8

LEMMA ProbeInv == ASSUME IInv, Probe PROVE IInv'
<1> DEFINE failed == [run EXCEPT !.outcome = "degenerate", !.measured = NoSummary]
<1>1. /\ pc = "probe" /\ disk' = disk /\ probes' = probes + 1 /\ pc' = "teardown" /\ fate' = fate
      /\ \/ run' = failed
         \/ \E r \in Runs : run' = [run EXCEPT !.outcome = Classify(Measure(r)), !.measured = Measure(r)]
  BY DEF Probe, Goes
<1>2. /\ InShape(run) /\ Kept(run) /\ Underway(run)
      /\ probes = Probed(run.trials) /\ (run.trials # <<>> => disk = Written(run.trials, NoValue))
  BY <1>1 DEF IInv, Phase, Counted, Trials
<1>3. ASSUME NEW s, s = run', Alike(run, s), InShape(s), s.candidate = run.candidate, s.outcome # "skipped"
      PROVE  IInv'
  <2>1. Phase("teardown", s)
    BY <1>2, <1>3, TrialGoesOn DEF Trials
  <2>2. s.trials = run.trials
    BY <1>3 DEF Alike
  <2>3. Counted("teardown", s, disk, probes + 1, fate)
    BY <1>2, <1>3, <2>2 DEF Counted, Trials, Over
  <2> QED BY <1>1, <1>3, <2>1, <2>3 DEF IInv
<1>4. CASE run' = failed
  <2>1. /\ Alike(run, failed) /\ InShape(failed) /\ failed.candidate = run.candidate
        /\ failed.outcome # "skipped"
    BY <1>2 DEF Alike, InShape, Fields
  <2> HIDE DEF failed
  <2> QED BY <1>3, <1>4, <2>1
<1>5. CASE \E r \in Runs : run' = [run EXCEPT !.outcome = Classify(Measure(r)), !.measured = Measure(r)]
  <2>1. PICK r \in Runs : run' = [run EXCEPT !.outcome = Classify(Measure(r)), !.measured = Measure(r)]
    BY <1>5
  <2> DEFINE m == Measure(r)
             o == Classify(m)
             done == [run EXCEPT !.outcome = o, !.measured = m]
  <2>2. o # "skipped" /\ (o = "measured" => Typed(m))
    <3>1. /\ m.decode # NoSummary /\ m.prefill # NoSummary =>
               m.decode.median \in Int /\ m.prefill.median \in Int
      BY MediansAssumption
    <3> HIDE DEF m
    <3> QED BY <3>1 DEF Classify, Typed
  <2> HIDE DEF m, o
  <2>3. Alike(run, done) /\ InShape(done) /\ done.candidate = run.candidate /\ done.outcome = o
    BY <1>2, <2>2 DEF Alike, InShape, Fields
  <2>4. run' = done
    BY <2>1 DEF m, o
  <2> HIDE DEF done
  <2> QED BY <1>3, <2>2, <2>3, <2>4
<1> QED BY <1>1, <1>4, <1>5

LEMMA TeardownInv == ASSUME IInv, Teardown PROVE IInv'
<1>1. /\ pc = "teardown" /\ disk' = disk /\ probes' = probes /\ pc' = "record" /\ fate' = fate
      /\ \E released \in BOOLEAN : run' = [run EXCEPT !.released = released]
  BY DEF Teardown, Goes
<1>2. /\ InShape(run) /\ Kept(run) /\ Underway(run)
      /\ probes = Probed(run.trials) + 1 /\ run.outcome # "skipped"
      /\ (run.trials # <<>> => disk = Written(run.trials, NoValue))
  BY <1>1 DEF IInv, Phase, Counted, Trials
<1>3. PICK released \in BOOLEAN : run' = [run EXCEPT !.released = released]
  BY <1>1
<1> DEFINE s == [run EXCEPT !.released = released]
<1>4. /\ Alike(run, s) /\ InShape(s) /\ s.candidate = run.candidate
      /\ s.outcome = run.outcome /\ s.trials = run.trials
  BY <1>2 DEF Alike, InShape, Fields
<1> HIDE DEF s
<1>5. Phase("record", s)
  BY <1>2, <1>4, TrialGoesOn DEF Trials
<1>6. Counted("record", s, disk, probes, fate)
  BY <1>2, <1>4 DEF Counted, Trials, Over
<1> QED BY <1>1, <1>3, <1>5, <1>6 DEF IInv, s

-----------------------------------------------------------------------------
(* A trial is recorded.                                                    *)

LEMMA ReachedPlace ==
    ASSUME NEW r, InShape(r)
    PROVE  /\ Reached(r) \in 0..5
           /\ r.at = 0 => Reached(r) = 0
           /\ r.at # 0 => /\ r.stages[r.at] \in Stages /\ Reached(r) = Place(r.stages[r.at])
                          /\ Reached(r) \in 1..5 /\ Order[Reached(r)] = r.stages[r.at]
<1>1. r.stages \in Seq(Stages) /\ r.at \in 0..Len(r.stages)
  BY DEF InShape, Rising
<1>2. CASE r.at = 0
  BY <1>2 DEF Reached
<1>3. CASE r.at # 0
  <2>1. r.stages[r.at] \in Stages
    BY <1>1, <1>3
  <2> QED BY <1>3, <2>1, Places DEF Reached
<1> QED BY <1>2, <1>3

LEMMA TrialFields ==
    ASSUME NEW r
    PROVE  LET t == TrialOf(r)
           IN  /\ t.stage = r.candidate.stage /\ t.value = r.candidate.value
               /\ t.argv = ArgvOf(r) /\ t.outcome = r.outcome
               /\ t.probed <=> r.outcome # "skipped"
               /\ r.outcome = "measured" => t.measured = r.measured
               /\ t.wins = VerdictFor(r)
BY DEF TrialOf

LEMMA BaselineTrial ==
    ASSUME NEW r, r.candidate = Current
    PROVE  LET t == TrialOf(r) IN t.stage = "baseline" /\ t.argv = r.flags /\ ~t.wins
<1>1. ArgvOf(r) = r.flags /\ ~VerdictFor(r)
  BY DEF ArgvOf, VerdictFor
<1>2. r.candidate.stage = "baseline"
  BY DEF Current
<1> QED BY <1>1, <1>2, TrialFields

LEMMA StageTrial ==
    ASSUME NEW r, InShape(r), r.at # 0, Trying(r)
    PROVE  LET t == TrialOf(r)
           IN  /\ r.candidate # Current /\ r.candidate.stage = r.stages[r.at]
               /\ t.stage = r.stages[r.at] /\ t.argv = r.candidate.argv
               /\ t.argv = ApplyValue(t.stage, r.incumbent.argv, t.value)
               /\ t.wins => Typed(t.measured)
               /\ t.wins = (t.outcome = "measured" /\ Wins(t.measured, r.incumbent.measured, t.stage))
<1> DEFINE t == TrialOf(r)
           stage == r.stages[r.at]
<1>1. stage \in Stages
  BY ReachedPlace
<1>2. /\ r.candidate.stage = stage
      /\ r.candidate.argv = ApplyValue(stage, r.incumbent.argv, r.candidate.value)
  BY DEF Trying, Candidate
<1>3. r.candidate # Current
  <2>1. Current.stage = "baseline" /\ "baseline" \notin Stages
    BY DEF Current, Stages
  <2> QED BY <1>1, <1>2, <2>1
<1>4. /\ t.stage = r.candidate.stage /\ t.value = r.candidate.value
      /\ t.argv = ArgvOf(r) /\ t.outcome = r.outcome
      /\ r.outcome = "measured" => t.measured = r.measured
      /\ t.wins = VerdictFor(r)
  BY TrialFields
<1> HIDE DEF t, stage
<1>5. ArgvOf(r) = r.candidate.argv
  BY <1>3 DEF ArgvOf
<1>6. VerdictFor(r) = (r.outcome = "measured" /\ Wins(r.measured, r.incumbent.measured, stage))
  BY <1>2, <1>3 DEF VerdictFor
<1>7. VerdictFor(r) = (t.outcome = "measured" /\ Wins(t.measured, r.incumbent.measured, t.stage))
  <2>1. CASE r.outcome = "measured"
    <3>1. t.measured = r.measured /\ t.stage = stage /\ t.outcome = "measured"
      BY <1>2, <1>4, <2>1
    <3> QED BY <1>6, <2>1, <3>1
  <2>2. CASE r.outcome # "measured"
    BY <1>4, <1>6, <2>2
  <2> QED BY <2>1, <2>2
<1>8. t.wins => Typed(t.measured)
  BY <1>4, <1>6 DEF InShape
<1>9. t.argv = ApplyValue(t.stage, r.incumbent.argv, t.value)
  BY <1>2, <1>4, <1>5
<1> QED BY <1>2, <1>3, <1>4, <1>5, <1>7, <1>8, <1>9 DEF t, stage

LEMMA RecordInv == ASSUME IInv, Record PROVE IInv'
<1> DEFINE t == TrialOf(run)
           longer == Append(run.trials, t)
           s == [run EXCEPT !.trials = Append(@, t)]
           n == Len(run.trials)
<1>1. /\ pc = "record" /\ disk' = Torn /\ probes' = probes /\ pc' = "write" /\ fate' = fate
      /\ run' = s
  BY DEF Record, Goes
<1>2. /\ InShape(run) /\ Kept(run) /\ Underway(run)
      /\ probes = Probed(run.trials) + (IF run.outcome = "skipped" THEN 0 ELSE 1)
  BY <1>1 DEF IInv, Phase, Counted, Trials
<1>3. Listed(run.trials, run.flags, Reached(run)) /\ Audited(run.trials) /\ IsList(run.trials)
  BY <1>2 DEF Kept, Listed
<1>4. Extends(longer, run.trials, t)
  BY <1>3, Appended
<1>5. n \in Nat
  BY <1>3, ListPlaces
<1>6. /\ InShape(s) /\ s.trials = longer /\ s.candidate = run.candidate /\ s.flags = run.flags
      /\ s.at = run.at /\ s.stages = run.stages /\ s.incumbent = run.incumbent /\ s.scored = run.scored
      /\ s.outcome = run.outcome /\ s.measured = run.measured
  BY <1>2 DEF InShape, Fields
<1>7. TrialOf(s) = t
  BY <1>6 DEF TrialOf, ArgvOf, VerdictFor
<1> HIDE DEF t, longer, s, n
<1>8. longer # <<>> /\ longer[Len(longer)] = t /\ Len(longer) = n + 1 /\ Len(longer) - 1 = n
  BY <1>4, <1>5 DEF Extends, n
<1>9. Reached(s) = Reached(run)
  BY <1>6 DEF Reached
<1>10. Kept(s) /\ Recorded(s)
  <2>1. CASE Begun(run)
    <3>1. run.trials = <<>> /\ run.at = 0 /\ run.candidate = Current /\ run.incumbent.argv = run.flags
      BY <2>1 DEF Begun
    <3>2. t.stage = "baseline" /\ t.argv = run.flags /\ ~t.wins
      BY <3>1, BaselineTrial DEF t
    <3>3. Listed(longer, run.flags, Reached(run)) /\ Audited(longer) /\ Len(longer) = 1
      BY <1>4, <3>1, <3>2, ListedFirst
    <3>4. Kept(s)
      BY <1>6, <1>9, <3>3 DEF Kept
    <3>5. Recorded(s)
      BY <1>6, <1>7, <1>8, <3>1, <3>3 DEF Recorded
    <3> QED BY <3>4, <3>5
  <2>2. CASE InStage(run, Len(run.trials)) /\ Trying(run)
    <3> DEFINE m == Reached(run)
               stage == run.stages[run.at]
    <3>1. run.at # 0 /\ run.trials # <<>>
      BY <2>2 DEF InStage
    <3>2. m \in 1..5 /\ stage \in Stages /\ m = Place(stage) /\ Order[m] = stage
      BY <1>2, <3>1, ReachedPlace
    <3>3. /\ Stands(run, m - 1)
          /\ Mirrors(run.trials, n, stage, run.scored)
      BY <2>2, <3>2 DEF InStage, n
    <3>4. /\ t.stage = stage /\ (t.wins => Typed(t.measured))
          /\ t.argv = ApplyValue(t.stage, run.incumbent.argv, t.value)
          /\ t.wins = (t.outcome = "measured" /\ Wins(t.measured, run.incumbent.measured, t.stage))
      BY <1>2, <2>2, <3>1, StageTrial DEF t
    <3> DEFINE from == run.trials[StandsAfter(run.trials, m - 1)]
    <3>5. run.incumbent.argv = from.argv /\ run.incumbent.measured = from.measured
      BY <3>3 DEF Stands
    <3> HIDE DEF m, stage
    <3>6. /\ t.argv = ApplyValue(t.stage, from.argv, t.value)
          /\ t.wins = (t.outcome = "measured" /\ Wins(t.measured, from.measured, t.stage))
          /\ t.stage = Order[m] /\ (t.wins => Typed(t.measured))
      BY <3>2, <3>4, <3>5
    <3>7. Listed(longer, run.flags, m) /\ Audited(longer)
      BY <1>3, <1>4, <3>1, <3>2, <3>6, ListedMore DEF m
    <3>8. longer[StandsAfter(longer, m - 1)] = from
      <4> DEFINE k == m - 1
      <4>1. k \in 0..5 /\ \A j \in 1..k : t.stage # Order[j]
        <5>1. ASSUME NEW j \in 1..k PROVE t.stage # Order[j]
          <6>1. j \in 1..5 /\ j # m
            BY <3>2
          <6> QED BY <3>2, <3>6, <6>1, Places
        <5> QED BY <3>2, <5>1
      <4>2. \A i \in DOMAIN run.trials : run.trials[i].wins => Typed(run.trials[i].measured)
        BY <1>3 DEF Listed
      <4> HIDE DEF k
      <4>3. longer[StandsAfter(longer, k)] = run.trials[StandsAfter(run.trials, k)]
        BY <1>3, <1>4, <3>1, <4>1, <4>2, StandsKept, SMT
      <4> QED BY <4>3 DEF k
    <3>9. Mirrors(longer, n, stage, run.scored)
      BY <1>3, <1>4, <3>3, MirrorsLonger DEF n
    <3>10. Stands(s, m - 1)
      BY <1>6, <3>5, <3>8 DEF Stands
    <3>11. InStage(s, n)
      BY <1>6, <1>8, <3>1, <3>2, <3>9, <3>10 DEF InStage, stage
    <3>12. Trying(s)
      BY <1>6, <2>2 DEF Trying
    <3>13. Recorded(s)
      BY <1>6, <1>7, <1>8, <3>11, <3>12 DEF Recorded
    <3>14. Kept(s)
      BY <1>6, <1>9, <3>7 DEF Kept, m
    <3> QED BY <3>13, <3>14
  <2> QED BY <1>2, <2>1, <2>2 DEF Underway
<1>11. Phase("write", s)
  BY <1>6, <1>10 DEF Phase, Trials, Over
<1>12. probes = Probed(longer)
  <2>1. t.probed <=> run.outcome # "skipped"
    BY TrialFields DEF t
  <2>2. /\ Probed(run.trials) \in Nat
        /\ t.probed => Probed(longer) = Probed(run.trials) + 1
        /\ ~t.probed => Probed(longer) = Probed(run.trials)
    BY <1>3, <1>4, ProbedMore
  <2> QED BY <1>2, <2>1, <2>2
<1>13. Counted("write", s, Torn, probes, fate) /\ DiskTold(Torn)
  BY <1>6, <1>12 DEF Counted, DiskTold, Torn, Trials, Over
<1> QED BY <1>1, <1>11, <1>13 DEF IInv

-----------------------------------------------------------------------------
(* The record is written.                                                  *)

LEMMA EndsWith ==
    ASSUME pc' = "idle", DiskTold(disk'),
           fate' = "ended" /\ probes' > 0 => disk'.is = "written" /\ probes' = Probed(disk'.trials)
    PROVE  IInv'
<1>1. Phase("idle", run')
  BY DEF Phase, Trials, Over
<1>2. Counted("idle", run', disk', probes', fate')
  BY DEF Counted, Trials, Over
<1> QED BY <1>1, <1>2 DEF IInv

\* What tune writes between trials has no winner.
LEMMA ToldSoFar == ASSUME NEW r, Kept(r) PROVE DiskTold(Written(r.trials, NoValue))
<1> DEFINE d == Written(r.trials, NoValue)
<1>1. d.trials = r.trials /\ d.winner = NoValue
  BY DEF Written
<1> HIDE DEF d
<1>2. WinnerStands(d.trials, d.winner)
  BY <1>1 DEF WinnerStands
<1>3. DiskTold(d)
  BY <1>1, <1>2 DEF DiskTold, Kept
<1> QED BY <1>3 DEF d

\* The baseline has been recorded: it is what the first stage starts from.
LEMMA OpensWith ==
    ASSUME NEW r, InShape(r), Kept(r), Len(r.trials) = 1, r.at = 0, r.trials # <<>>,
           r.incumbent.argv = r.flags
    PROVE  LET s == [r EXCEPT !.incumbent.measured = r.trials[1].measured]
           IN  InShape(s) /\ Kept(s) /\ s.trials = r.trials /\ Stands(s, Reached(s))
<1> DEFINE s == [r EXCEPT !.incumbent.measured = r.trials[1].measured]
<1>1. /\ InShape(s) /\ s.trials = r.trials /\ s.flags = r.flags /\ s.at = r.at /\ s.stages = r.stages
      /\ s.incumbent.argv = r.incumbent.argv /\ s.incumbent.measured = r.trials[1].measured
  BY DEF InShape, Fields
<1> HIDE DEF s
<1>2. Reached(s) = 0 /\ Reached(r) = 0
  BY <1>1 DEF Reached
<1>3. Kept(s)
  BY <1>1, <1>2 DEF Kept
<1>4. StandsAfter(s.trials, 0) = 1
  <2>1. 0 \in 0..5 /\ ~\E n \in 1..0 : TRUE
    OBVIOUS
  <2> QED BY <2>1, StandsWhere, Zenon
<1>5. r.trials[1].argv = r.flags
  BY DEF Kept, Listed
<1>6. Stands(s, 0)
  BY <1>1, <1>4, <1>5 DEF Stands
<1> QED BY <1>1, <1>2, <1>3, <1>6 DEF s

\* A measured trial is scored for its stage; any other leaves the stage as it is.
LEMMA ScoresIt ==
    ASSUME NEW r, InShape(r), Kept(r), InStage(r, Len(r.trials) - 1), Trying(r),
           r.trials[Len(r.trials)] = TrialOf(r), NEW s,
           LET t == TrialOf(r)
           IN  s = IF t.outcome # "measured" THEN r
                   ELSE [r EXCEPT !.scored = Append(@, [candidate |-> r.candidate,
                                                        measured |-> t.measured, wins |-> t.wins])]
    PROVE  InShape(s) /\ Kept(s) /\ s.trials = r.trials /\ InStage(s, Len(s.trials))
<1> DEFINE t == TrialOf(r)
           stage == r.stages[r.at]
           n == Len(r.trials) - 1
           e == [candidate |-> r.candidate, measured |-> t.measured, wins |-> t.wins]
           more == Append(r.scored, e)
<1>1. s = IF t.outcome # "measured" THEN r ELSE [r EXCEPT !.scored = more]
  OBVIOUS
<1>2. /\ r.at # 0 /\ r.trials # <<>> /\ Stands(r, Place(stage) - 1)
      /\ Mirrors(r.trials, n, stage, r.scored)
  BY DEF InStage
<1>3. /\ t.stage = stage /\ r.candidate.stage = stage /\ t.argv = r.candidate.argv
      /\ t.wins = (t.outcome = "measured" /\ Wins(t.measured, r.incumbent.measured, t.stage))
  BY <1>2, StageTrial
<1>4. e.candidate = r.candidate /\ e.measured = t.measured /\ e.wins = t.wins
  OBVIOUS
<1>5. n \in Nat /\ Len(r.trials) = n + 1
  <2>1. Len(r.trials) \in Nat /\ r.trials \in Seq(Range(r.trials))
    BY ListPlaces DEF Kept, Listed, IsList
  <2>2. Len(r.trials) # 0
    BY <1>2, <2>1, EmptySeq
  <2> QED BY <2>1, <2>2
<1>6. IsList(r.scored)
  BY <1>2 DEF Mirrors
<1>7. Extends(more, r.scored, e)
  BY <1>6, Appended
<1> HIDE DEF t, stage, n, e, more
<1>8. r.trials[n + 1] = t
  BY <1>5 DEF t
<1>9. CASE t.outcome # "measured"
  <2>1. s = r
    BY <1>1, <1>9
  <2>2. ~r.trials[n + 1].wins
    BY <1>3, <1>8, <1>9
  <2>3. Mirrors(r.trials, n + 1, stage, r.scored)
    BY <1>2, <1>5, <2>2, MirrorsPass
  <2>4. InStage(r, n + 1)
    BY <1>2, <2>3 DEF InStage, stage
  <2> QED BY <1>5, <2>1, <2>4
<1>10. CASE t.outcome = "measured"
  <2>1. s = [r EXCEPT !.scored = more]
    BY <1>1, <1>10
  <2>2. /\ InShape(s) /\ s.trials = r.trials /\ s.flags = r.flags /\ s.at = r.at /\ s.stages = r.stages
        /\ s.incumbent = r.incumbent /\ s.scored = more
    BY <2>1 DEF InShape, Fields
  <2>3. /\ e.candidate.stage = stage /\ e.candidate.argv = r.trials[n + 1].argv
        /\ e.measured = r.trials[n + 1].measured /\ (e.wins <=> r.trials[n + 1].wins)
        /\ r.trials[n + 1].stage = stage
    BY <1>3, <1>4, <1>8
  <2>4. Mirrors(r.trials, n + 1, stage, more)
    BY <1>2, <1>5, <1>7, <2>3, MirrorsMore, ZenonT(30)
  <2>5. Stands(s, Place(stage) - 1)
    BY <1>2, <2>2 DEF Stands
  <2>6. InStage(s, Len(s.trials))
    BY <1>2, <1>5, <2>2, <2>4, <2>5 DEF InStage, stage
  <2>7. Kept(s)
    BY <2>2 DEF Kept, Reached
  <2> QED BY <2>2, <2>6, <2>7
<1> QED BY <1>9, <1>10

LEMMA WriteInv == ASSUME IInv, Write PROVE IInv'
<1> DEFINE t == TrialOf(run)
           opened == [run EXCEPT !.incumbent.measured = t.measured]
           scored == IF t.outcome # "measured" THEN run
                     ELSE [run EXCEPT !.scored = Append(@, [candidate |-> run.candidate,
                                                            measured |-> t.measured, wins |-> t.wins])]
<1>1. pc = "write" /\ disk' = Written(run.trials, NoValue) /\ probes' = probes
  BY DEF Write
<1>2. InShape(run) /\ Kept(run) /\ Recorded(run) /\ probes = Probed(run.trials)
  BY <1>1 DEF IInv, Phase, Counted
<1>3. run.trials # <<>> /\ run.trials[Len(run.trials)] = t
  BY <1>2 DEF Recorded
<1>4. Last(run.trials) = t
  BY <1>3 DEF Last
<1>5. \/ pc' = "idle"
      \/ t.stage = "baseline" /\ pc' = "next" /\ run' = opened /\ fate' = fate
      \/ t.stage # "baseline" /\ pc' = "stage" /\ run' = scored /\ fate' = fate
  BY <1>4 DEF Write, Goes, Ends, EndsAs
<1>6. DiskTold(disk')
  BY <1>1, <1>2, ToldSoFar
<1>7. disk'.is = "written" /\ disk'.trials = run.trials
  BY <1>1 DEF Written
<1>8. \/ Len(run.trials) = 1 /\ run.at = 0 /\ run.candidate = Current /\ run.incumbent.argv = run.flags
      \/ InStage(run, Len(run.trials) - 1) /\ Trying(run)
  BY <1>2 DEF Recorded
<1>9. run.candidate = Current => t.stage = "baseline"
  BY BaselineTrial
<1>10. InStage(run, Len(run.trials) - 1) /\ Trying(run) => t.stage # "baseline"
  <2>1. SUFFICES ASSUME InStage(run, Len(run.trials) - 1), Trying(run) PROVE t.stage # "baseline"
    OBVIOUS
  <2>2. run.at # 0
    BY <2>1 DEF InStage
  <2>3. t.stage = run.stages[run.at]
    BY <1>2, <2>1, <2>2, StageTrial
  <2>4. run.stages[run.at] \in Stages
    BY <1>2, <2>2, ReachedPlace
  <2> QED BY <2>3, <2>4 DEF Stages
<1>11. CASE pc' = "idle"
  <2>1. fate' = "ended" /\ probes' > 0 => disk'.is = "written" /\ probes' = Probed(disk'.trials)
    BY <1>1, <1>2, <1>7
  <2> QED BY <1>6, <1>11, <2>1, EndsWith
<1>12. CASE t.stage = "baseline" /\ pc' = "next" /\ run' = opened /\ fate' = fate
  <2>1. Len(run.trials) = 1 /\ run.at = 0 /\ run.incumbent.argv = run.flags
    BY <1>8, <1>10, <1>12
  <2>2. t = run.trials[1]
    BY <1>3, <2>1
  <2>3. /\ InShape(opened) /\ Kept(opened) /\ opened.trials = run.trials
        /\ Stands(opened, Reached(opened))
    BY <1>2, <1>3, <2>1, <2>2, OpensWith
  <2> HIDE DEF opened
  <2>4. Phase("next", opened)
    BY <1>3, <2>3 DEF Phase, Trials, Over
  <2>5. Counted("next", opened, Written(run.trials, NoValue), probes, fate)
    BY <1>2, <2>3 DEF Counted, Trials, Over
  <2> QED BY <1>1, <1>6, <1>12, <2>4, <2>5 DEF IInv
<1>13. CASE t.stage # "baseline" /\ pc' = "stage" /\ run' = scored /\ fate' = fate
  <2>1. InStage(run, Len(run.trials) - 1) /\ Trying(run)
    BY <1>8, <1>9, <1>13
  <2>2. run.trials[Len(run.trials)] = TrialOf(run)
    BY <1>3
  <2>3. InShape(scored) /\ Kept(scored) /\ scored.trials = run.trials /\ InStage(scored, Len(scored.trials))
    BY <1>2, <2>1, <2>2, ScoresIt
  <2> HIDE DEF scored
  <2>4. Phase("stage", scored)
    BY <2>3 DEF Phase, Trials, Over
  <2>5. Counted("stage", scored, Written(run.trials, NoValue), probes, fate)
    BY <1>2, <2>3 DEF Counted, Trials, Over
  <2> QED BY <1>1, <1>6, <1>13, <2>4, <2>5 DEF IInv
<1> QED BY <1>5, <1>11, <1>12, <1>13

-----------------------------------------------------------------------------
(* From stage to stage, and the winner.                                    *)

\* Nothing of the stages to come has been tried.
LEMMA NoneBeyond ==
    ASSUME NEW r, InShape(r), Kept(r), NEW n \in 1..5, Reached(r) < n
    PROVE  /\ WinsAt(r.trials, Order[n]) = {}
           /\ \A i \in 1..Len(r.trials) : r.trials[i].stage # Order[n]
<1>1. Listed(r.trials, r.flags, Reached(r)) /\ IsList(r.trials)
  BY DEF Kept, Listed
<1>2. Len(r.trials) \in Nat /\ DOMAIN r.trials = 1..Len(r.trials) /\ r.trials \in Seq(Range(r.trials))
  BY <1>1, ListPlaces DEF IsList
<1>3. Order[n] \in Stages /\ Place(Order[n]) = n /\ Order[n] # "baseline"
  BY Places DEF Stages
<1>4. Reached(r) \in 0..5
  BY ReachedPlace
<1>5. ASSUME NEW i \in 1..Len(r.trials) PROVE r.trials[i].stage # Order[n]
  <2>1. CASE i = 1
    <3>1. r.trials # <<>>
      BY <1>2, EmptySeq
    <3> QED BY <1>1, <1>3, <2>1, <3>1 DEF Listed
  <2>2. CASE i # 1
    <3>1. i \in 2..Len(r.trials)
      BY <1>2, <2>2
    <3>2. r.trials[i].stage \in Stages /\ Place(r.trials[i].stage) <= Reached(r)
      BY <1>1, <3>1 DEF Listed
    <3>3. Place(r.trials[i].stage) \in 1..5
      BY <3>2, Places
    <3> QED BY <1>3, <1>4, <3>2, <3>3
  <2> QED BY <2>1, <2>2
<1>6. WinsAt(r.trials, Order[n]) = {}
  <2>1. \A i : i \notin WinsAt(r.trials, Order[n])
    BY <1>2, <1>5, WinsPlaces
  <2> QED BY <2>1
<1> QED BY <1>5, <1>6

\* What stands after the stage that the run has reached stands until the next.
LEMMA StandsUntil ==
    ASSUME NEW r, InShape(r), Kept(r), NEW m \in 0..5, Reached(r) <= m
    PROVE  StandsAfter(r.trials, m) = StandsAfter(r.trials, Reached(r))
<1> DEFINE k == Reached(r)
<1>1. k \in 0..5 /\ k <= m
  BY ReachedPlace
<1>2. ASSUME NEW n \in (k + 1)..m PROVE WinsAt(r.trials, Order[n]) = {}
  <2>1. n \in 1..5 /\ k < n
    BY <1>1
  <2> QED BY <2>1, NoneBeyond
<1> HIDE DEF k
<1>3. StandsAfter(r.trials, m) = StandsAfter(r.trials, k)
  BY <1>1, <1>2, StandsOn
<1> QED BY <1>3 DEF k

LEMMA ListedOn ==
    ASSUME NEW trials, NEW flags, NEW m \in 0..5, NEW n \in 0..5, m <= n, Listed(trials, flags, m)
    PROVE  Listed(trials, flags, n)
<1>1. ASSUME NEW i \in 2..Len(trials) PROVE Place(trials[i].stage) <= n
  <2>1. trials[i].stage \in Stages /\ Place(trials[i].stage) <= m
    BY DEF Listed
  <2>2. Place(trials[i].stage) \in 1..5
    BY <2>1, Places
  <2> QED BY <2>1, <2>2
<1> QED BY <1>1 DEF Listed

\* The flags a stage starts from are those that stand after every earlier one.
LEMMA StageOpens ==
    ASSUME NEW r, InShape(r), Kept(r), r.trials # <<>>, Stands(r, Reached(r)), r.at < Len(r.stages), NEW q
    PROVE  LET s == [r EXCEPT !.at = @ + 1, !.scored = <<>>, !.queue = q]
           IN  InShape(s) /\ Kept(s) /\ s.trials = r.trials /\ InStage(s, Len(s.trials))
<1> DEFINE s == [r EXCEPT !.at = @ + 1, !.scored = <<>>, !.queue = q]
           z == r.at + 1
           m == Reached(r)
           o == Place(r.stages[z])
<1> HIDE DEF s, m, o
<1>1. /\ r.stages \in Seq(Stages) /\ Len(r.stages) \in Nat /\ r.at \in 0..Len(r.stages)
      /\ \A i, j \in 1..Len(r.stages) : i < j => Place(r.stages[i]) < Place(r.stages[j])
  <2>1. Rising(r.stages) /\ r.at \in 0..Len(r.stages)
    BY DEF InShape
  <2> QED BY <2>1, LenProperties DEF Rising
<1>2. z \in 1..Len(r.stages) /\ z # 0 /\ (r.at # 0 => r.at \in 1..Len(r.stages) /\ r.at < z)
  BY <1>1
<1>3. r.stages[z] \in Stages /\ o \in 1..5 /\ Order[o] = r.stages[z]
  <2>1. r.stages[z] \in Stages
    BY <1>1, <1>2
  <2> QED BY <2>1, Places DEF o
<1>4. m \in 0..5 /\ m < o
  <2>1. m \in 0..5 /\ (r.at = 0 => m = 0) /\ (r.at # 0 => m = Place(r.stages[r.at]))
    BY ReachedPlace DEF m
  <2>2. r.at # 0 => Place(r.stages[r.at]) < Place(r.stages[z])
    BY <1>1, <1>2
  <2> QED BY <1>3, <2>1, <2>2 DEF o
<1> HIDE DEF z
<1>5. /\ InShape(s) /\ s.trials = r.trials /\ s.flags = r.flags /\ s.at = z /\ s.stages = r.stages
      /\ s.incumbent = r.incumbent /\ s.scored = <<>>
  <2>1. s = [r EXCEPT !.at = z, !.scored = <<>>, !.queue = q]
    BY DEF s, z
  <2>2. z \in 0..Len(r.stages)
    BY <1>1, <1>2
  <2> QED BY <2>1, <2>2 DEF InShape, Fields
<1>6. Kept(s)
  <2>1. Listed(r.trials, r.flags, m) /\ Audited(r.trials)
    BY DEF Kept, m
  <2>2. m <= o /\ o \in 0..5
    BY <1>3, <1>4
  <2>3. Listed(r.trials, r.flags, o)
    BY <1>4, <2>1, <2>2, ListedOn
  <2>4. Reached(s) = o
    BY <1>2, <1>5 DEF Reached, o
  <2> QED BY <1>5, <2>1, <2>3, <2>4 DEF Kept
<1>7. Stands(s, o - 1)
  <2>1. o - 1 \in 0..5 /\ m <= o - 1
    BY <1>3, <1>4
  <2>2. StandsAfter(r.trials, o - 1) = StandsAfter(r.trials, m)
    BY <2>1, StandsUntil DEF m
  <2> QED BY <1>5, <2>2 DEF Stands, m
<1>8. Mirrors(r.trials, Len(r.trials), r.stages[z], <<>>)
  <2>1. \A i \in 1..Len(r.trials) : r.trials[i].stage # Order[o]
    BY <1>3, <1>4, NoneBeyond DEF m
  <2> QED BY <1>3, <2>1, MirrorsNone
<1>9. InStage(s, Len(s.trials))
  BY <1>2, <1>5, <1>7, <1>8 DEF InStage, o
<1> QED BY <1>5, <1>6, <1>9 DEF s

LEMMA NextStageInv == ASSUME IInv, NextStage PROVE IInv'
<1> DEFINE q == Planned(run.stages[run.at + 1], run.incumbent.argv, Lists)
           s == [run EXCEPT !.at = @ + 1, !.scored = <<>>, !.queue = q]
<1>1. /\ pc = "next" /\ run.at < Len(run.stages) /\ disk' = disk /\ probes' = probes
      /\ pc' = "stage" /\ run' = s /\ fate' = fate
  BY DEF NextStage, Goes
<1>2. /\ InShape(run) /\ Kept(run) /\ run.trials # <<>> /\ Stands(run, Reached(run))
      /\ probes = Probed(run.trials) /\ disk = Written(run.trials, NoValue)
  BY <1>1 DEF IInv, Phase, Counted
<1> HIDE DEF q
<1>3. InShape(s) /\ Kept(s) /\ s.trials = run.trials /\ InStage(s, Len(s.trials))
  BY <1>1, <1>2, StageOpens
<1> HIDE DEF s
<1>4. Phase("stage", s)
  BY <1>3 DEF Phase, Trials, Over
<1>5. Counted("stage", s, disk, probes, fate)
  BY <1>2, <1>3 DEF Counted, Trials, Over
<1> QED BY <1>1, <1>4, <1>5 DEF IInv

\* A stage is over: its best winner is what stands after it.
LEMMA StageCloses ==
    ASSUME NEW r, InShape(r), Kept(r), InStage(r, Len(r.trials)), NEW s,
           LET best == PickWinner(r.scored)
           IN  s = IF best = 0 THEN r
                   ELSE [r EXCEPT !.incumbent = [argv |-> r.scored[best].candidate.argv,
                                                 measured |-> r.scored[best].measured]]
    PROVE  InShape(s) /\ Kept(s) /\ s.trials = r.trials /\ Stands(s, Reached(s))
<1> DEFINE stage == r.stages[r.at]
           m == Reached(r)
           best == PickWinner(r.scored)
           a == r.scored[best].candidate.argv
           d == r.scored[best].measured
           top == r.trials[BestAt(r.trials, stage)]
<1>1. /\ stage \in Stages /\ m = Place(stage) /\ m \in 1..5 /\ Order[m] = stage
  BY ReachedPlace DEF InStage
<1>2. IsList(r.trials) /\ \A i \in WinsAt(r.trials, stage) : Typed(r.trials[i].measured)
  BY WinsPlaces DEF Kept, Listed
<1>3. Stands(r, m - 1) /\ Mirrors(r.trials, Len(r.trials), stage, r.scored)
  BY <1>1 DEF InStage
<1>4. s = IF best = 0 THEN r ELSE [r EXCEPT !.incumbent = [argv |-> a, measured |-> d]]
  OBVIOUS
<1>5. /\ WinsAt(r.trials, stage) = {} => best = 0
      /\ WinsAt(r.trials, stage) # {} => best # 0 /\ a = top.argv /\ d = top.measured
  BY <1>2, <1>3, PickIs
<1> HIDE DEF stage, best, a, d, m
<1>6. CASE WinsAt(r.trials, stage) = {}
  <2>1. s = r
    BY <1>4, <1>5, <1>6
  <2>2. StandsAfter(r.trials, m) = StandsAfter(r.trials, m - 1)
    <3> DEFINE k == m - 1
    <3>1. k \in 0..5 /\ m \in 0..5 /\ k <= m /\ \A n \in (k + 1)..m : n = m
      BY <1>1
    <3> HIDE DEF k
    <3>2. \A n \in (k + 1)..m : WinsAt(r.trials, Order[n]) = {}
      BY <1>1, <1>6, <3>1
    <3>3. StandsAfter(r.trials, m) = StandsAfter(r.trials, k)
      BY <3>1, <3>2, StandsOn
    <3> QED BY <3>3 DEF k
  <2>3. Stands(r, m)
    BY <1>3, <2>2 DEF Stands
  <2> QED BY <2>1, <2>3 DEF m
<1>7. CASE WinsAt(r.trials, stage) # {}
  <2>1. s = [r EXCEPT !.incumbent = [argv |-> a, measured |-> d]]
    BY <1>4, <1>5, <1>7
  <2>2. /\ InShape(s) /\ s.trials = r.trials /\ s.flags = r.flags /\ s.at = r.at /\ s.stages = r.stages
        /\ s.incumbent.argv = a /\ s.incumbent.measured = d
    BY <2>1 DEF InShape, Fields
  <2>3. Reached(s) = m
    BY <2>2 DEF Reached, m
  <2>4. Kept(s)
    BY <2>2, <2>3 DEF Kept, m
  <2>5. StandsAfter(r.trials, m) = BestAt(r.trials, stage)
    BY <1>1, <1>7, StandsNew
  <2>6. Stands(s, m)
    BY <1>5, <1>7, <2>2, <2>5 DEF Stands
  <2> QED BY <2>2, <2>3, <2>4, <2>6
<1> QED BY <1>6, <1>7

LEMMA StageEndsInv == ASSUME IInv, StageEnds PROVE IInv'
<1> DEFINE s == LET best == PickWinner(run.scored)
                IN  IF best = 0 THEN run
                    ELSE [run EXCEPT !.incumbent = [argv |-> run.scored[best].candidate.argv,
                                                    measured |-> run.scored[best].measured]]
<1>1. pc = "stage" /\ disk' = disk /\ probes' = probes /\ pc' = "next" /\ run' = s /\ fate' = fate
  BY DEF StageEnds, Goes
<1>2. /\ InShape(run) /\ Kept(run) /\ InStage(run, Len(run.trials))
      /\ probes = Probed(run.trials) /\ (run.trials # <<>> => disk = Written(run.trials, NoValue))
  BY <1>1 DEF IInv, Phase, Counted
<1>3. InShape(s) /\ Kept(s) /\ s.trials = run.trials /\ Stands(s, Reached(s))
  BY <1>2, StageCloses
<1>4. run.trials # <<>>
  BY <1>2 DEF InStage
<1> HIDE DEF s
<1>5. Phase("next", s)
  BY <1>3, <1>4 DEF Phase, Trials, Over
<1>6. Counted("next", s, disk, probes, fate)
  BY <1>2, <1>3 DEF Counted, Trials, Over
<1> QED BY <1>1, <1>5, <1>6 DEF IInv

\* After the last stage the incumbent, if it is not the baseline, is what stands.
LEMMA LastStands ==
    ASSUME NEW r, InShape(r), Kept(r), r.trials # <<>>, Stands(r, Reached(r))
    PROVE  WinnerStands(r.trials, IF r.incumbent.argv = r.trials[1].argv THEN NoValue ELSE r.incumbent.argv)
<1> DEFINE at == StandsAfter(r.trials, 5)
           winner == IF r.incumbent.argv = r.trials[1].argv THEN NoValue ELSE r.incumbent.argv
<1>1. Len(Order) = 5
  BY Places
<1>2. at = StandsAfter(r.trials, Reached(r))
  <2>1. Reached(r) \in 0..5 /\ 5 \in 0..5 /\ Reached(r) <= 5
    BY ReachedPlace
  <2> QED BY <2>1, StandsUntil
<1>3. r.incumbent.argv = r.trials[at].argv
  BY <1>2 DEF Stands
<1>4. ASSUME r.incumbent.argv # r.trials[1].argv PROVE r.trials[at].wins
  <2>1. at # 1
    BY <1>3, <1>4
  <2>2. PICK n \in 1..5 : WinsAt(r.trials, Order[n]) # {} /\ at = BestAt(r.trials, Order[n])
    <3>1. 5 \in 0..5
      OBVIOUS
    <3> QED BY <2>1, <3>1, StandsWhere
  <2>3. IsList(r.trials) /\ \A i \in WinsAt(r.trials, Order[n]) : Typed(r.trials[i].measured)
    BY WinsPlaces DEF Kept, Listed
  <2>4. BestOf(r.trials, Order[n], at)
    BY <2>2, <2>3, BestIs
  <2> QED BY <2>4, WinsPlaces DEF BestOf
<1>5. winner # NoValue => winner = r.incumbent.argv /\ r.incumbent.argv # r.trials[1].argv
  OBVIOUS
<1> HIDE DEF winner, at
<1>6. winner # NoValue => r.trials[at].wins /\ winner = r.trials[at].argv
  BY <1>3, <1>4, <1>5
<1>7. WinnerStands(r.trials, winner)
  BY <1>1, <1>6 DEF WinnerStands, at
<1> QED BY <1>7 DEF winner

LEMMA SettleInv == ASSUME IInv, Settle PROVE IInv'
<1> DEFINE winner == IF run.incumbent.argv = run.trials[1].argv THEN NoValue ELSE run.incumbent.argv
           s == [run EXCEPT !.winner = winner]
<1>1. pc = "next" /\ disk' = Torn /\ probes' = probes /\ pc' = "settle" /\ run' = s /\ fate' = fate
  BY DEF Settle, Goes
<1>2. /\ InShape(run) /\ Kept(run) /\ run.trials # <<>> /\ Stands(run, Reached(run))
      /\ probes = Probed(run.trials)
  BY <1>1 DEF IInv, Phase, Counted
<1>3. WinnerStands(run.trials, winner)
  BY <1>2, LastStands
<1> HIDE DEF winner
<1>4. InShape(s) /\ s.trials = run.trials /\ s.winner = winner /\ Alike(run, s)
  BY <1>2 DEF InShape, Fields, Alike
<1> HIDE DEF s
<1>5. Kept(s)
  BY <1>2, <1>4, AlikeKeeps
<1>6. Phase("settle", s)
  BY <1>3, <1>4, <1>5 DEF Phase, Trials, Over
<1>7. Counted("settle", s, Torn, probes, fate) /\ DiskTold(Torn)
  BY <1>2, <1>4 DEF Counted, DiskTold, Torn, Trials, Over
<1> QED BY <1>1, <1>6, <1>7 DEF IInv

LEMMA SettledInv == ASSUME IInv, Settled PROVE IInv'
<1> DEFINE d == Written(run.trials, run.winner)
<1>1. /\ pc = "settle" /\ disk' = d /\ probes' = probes
      /\ pc' = "idle" \/ (pc' = "apply" /\ run' = run /\ fate' = fate)
  BY DEF Settled, Goes, Ends, EndsAs
<1>2. InShape(run) /\ Kept(run) /\ WinnerStands(run.trials, run.winner) /\ probes = Probed(run.trials)
  BY <1>1 DEF IInv, Phase, Counted, Over
<1>3. d.is = "written" /\ d.trials = run.trials /\ d.winner = run.winner
  BY DEF Written
<1>4. DiskTold(d)
  BY <1>2, <1>3 DEF DiskTold, Kept
<1>5. CASE pc' = "idle"
  BY <1>1, <1>2, <1>3, <1>4, <1>5, EndsWith
<1>6. CASE pc' = "apply" /\ run' = run /\ fate' = fate
  <2>1. Phase("apply", run)
    BY <1>2 DEF Phase, Trials, Over
  <2>2. Counted("apply", run, d, probes, fate)
    BY <1>2 DEF Counted, Trials, Over
  <2> QED BY <1>1, <1>4, <1>6, <2>1, <2>2 DEF IInv
<1> QED BY <1>1, <1>5, <1>6

LEMMA ApplyInv == ASSUME IInv, Apply PROVE IInv'
<1>1. /\ pc = "apply" /\ disk' = disk /\ probes' = probes
      /\ pc' = "idle" \/ (pc' = "applied" /\ run' = run /\ fate' = fate)
  BY DEF Apply, Goes, Ends, EndsAs
<1>2. /\ InShape(run) /\ Kept(run) /\ WinnerStands(run.trials, run.winner) /\ probes = Probed(run.trials)
      /\ disk = Written(run.trials, run.winner)
  BY <1>1 DEF IInv, Phase, Counted, Over
<1>3. disk.is = "written" /\ disk.trials = run.trials
  BY <1>2 DEF Written
<1>4. CASE pc' = "idle"
  BY <1>1, <1>2, <1>3, <1>4, EndInv
<1>5. CASE pc' = "applied" /\ run' = run /\ fate' = fate
  <2>1. Phase("applied", run)
    BY <1>2 DEF Phase, Trials, Over
  <2>2. Counted("applied", run, disk, probes, fate)
    BY <1>2 DEF Counted, Trials, Over
  <2> QED BY <1>1, <1>5, <2>1, <2>2 DEF IInv
<1> QED BY <1>1, <1>4, <1>5

LEMMA LeaveInv == ASSUME IInv, Leave PROVE IInv'
<1>1. pc = "applied" /\ disk' = disk /\ probes' = probes /\ pc' = "idle"
  BY DEF Leave, Ends, EndsAs
<1>2. probes = Probed(run.trials) /\ disk = Written(run.trials, run.winner)
  BY <1>1 DEF IInv, Counted, Over
<1>3. disk.is = "written" /\ disk.trials = run.trials
  BY <1>2 DEF Written
<1> QED BY <1>1, <1>2, <1>3, EndInv

LEMMA NextInv == ASSUME IInv, [Next]_vars PROVE IInv'
<1>1. CASE Stop
  BY <1>1 DEF Stop, IInv
<1>2. CASE UNCHANGED vars
  BY <1>2 DEF vars, IInv
<1> QED BY <1>1, <1>2, BeginInv, ConfirmInv, BaselineInv, NextTrialInv, StartInv, ProbeInv, TeardownInv,
           RecordInv, WriteInv, NextStageInv, StageEndsInv, SettleInv, SettledInv, ApplyInv, LeaveInv,
           KillInv DEF Next

-----------------------------------------------------------------------------
(* The theorems.                                                           *)

LEMMA IInvAlways == Spec => []IInv
BY InitInv, NextInv, PTL DEF Spec

LEMMA IInvTells == ASSUME IInv PROVE RecordIsTrue
<1>1. RecordTellsTheDescent
  <2>1. disk.is = "written" => Audited(disk.trials) /\ WinnerStands(disk.trials, disk.winner)
    BY DEF IInv, DiskTold
  <2> QED BY <2>1 DEF RecordTellsTheDescent, Audited, Earned, WinnerStands
<1>2. TrialsOnDisk
  BY DEF IInv, Counted, TrialsOnDisk, Trials, Probed
<1> QED BY <1>1, <1>2 DEF RecordIsTrue

\* Between trials the record on disk is the one in memory; a run that was not
\* killed, however it ended, left a trial there for every probe it made; and
\* from the record alone the descent can be told: each candidate's flags are
\* its value applied to the flags that stood when its stage began, each verdict
\* is the one its samples earn against that trial, and the winner is the best
\* of the last stage won (core/tune.rs write_record, core/tune.rs pick_winner).
THEOREM RecordIsTrueAlways == Spec => []RecordIsTrue
BY IInvAlways, IInvTells, PTL

-----------------------------------------------------------------------------
(* Lists laid end to end.                                                  *)

\* Two lists are equal when their places are.
LEMMA SameList ==
    ASSUME NEW s, IsList(s), NEW t, IsList(t), Len(s) = Len(t), \A i \in 1..Len(s) : s[i] = t[i]
    PROVE  s = t
<1> DEFINE S == Range(s) \cup Range(t)
<1>1. s \in Seq(S) /\ t \in Seq(S)
  <2>1. s \in Seq(Range(s)) /\ t \in Seq(Range(t))
    BY DEF IsList
  <2>2. Range(s) \subseteq S /\ Range(t) \subseteq S
    OBVIOUS
  <2> QED BY <2>1, <2>2, SeqMonotonic
<1> HIDE DEF S
<1> QED BY <1>1, SeqEqual

LEMMA Built ==
    ASSUME NEW n \in Nat, NEW f, f = [i \in 1..n |-> f[i]]
    PROVE  IsList(f) /\ Len(f) = n
<1> DEFINE S == {f[i] : i \in 1..n}
<1>1. \A i \in 1..n : f[i] \in S
  OBVIOUS
<1> HIDE DEF S
<1>2. [i \in 1..n |-> f[i]] \in Seq(S) /\ Len([i \in 1..n |-> f[i]]) = n
  BY <1>1, IsASeq
<1>3. f \in Seq(S) /\ Len(f) = n
  BY <1>2, Zenon
<1> QED BY <1>3, SeqOfRange DEF IsList

LEMMA One == ASSUME NEW e PROVE IsList(<<e>>) /\ Len(<<e>>) = 1 /\ <<e>>[1] = e
<1>1. <<e>> = [i \in 1..1 |-> <<e>>[i]]
  OBVIOUS
<1>2. 1 \in Nat
  OBVIOUS
<1> QED BY <1>1, <1>2, Built

LEMMA Two == ASSUME NEW d, NEW e PROVE IsList(<<d, e>>) /\ Len(<<d, e>>) = 2 /\ <<d, e>>[1] = d /\ <<d, e>>[2] = e
<1>1. <<d, e>> = [i \in 1..2 |-> <<d, e>>[i]]
  OBVIOUS
<1>2. 2 \in Nat
  OBVIOUS
<1>3. IsList(<<d, e>>) /\ Len(<<d, e>>) = 2
  BY <1>1, <1>2, Built
<1> QED BY <1>3

LEMMA Joined ==
    ASSUME NEW s, IsList(s), NEW t, IsList(t)
    PROVE  /\ IsList(s \o t) /\ Len(s \o t) = Len(s) + Len(t)
           /\ \A i \in 1..Len(s) : (s \o t)[i] = s[i]
           /\ \A i \in 1..Len(t) : (s \o t)[Len(s) + i] = t[i]
<1> DEFINE S == Range(s) \cup Range(t)
           u == s \o t
<1>1. s \in Seq(S) /\ t \in Seq(S)
  <2>1. s \in Seq(Range(s)) /\ t \in Seq(Range(t))
    BY DEF IsList
  <2>2. Range(s) \subseteq S /\ Range(t) \subseteq S
    OBVIOUS
  <2> QED BY <2>1, <2>2, SeqMonotonic
<1> HIDE DEF S
<1>2. /\ u \in Seq(S) /\ Len(u) = Len(s) + Len(t)
      /\ \A i \in 1..(Len(s) + Len(t)) : u[i] = IF i <= Len(s) THEN s[i] ELSE t[i - Len(s)]
  BY <1>1, ConcatProperties
<1> HIDE DEF u
<1>3. IsList(u)
  BY <1>2, SeqOfRange DEF IsList
<1>4. Len(s) \in Nat /\ Len(t) \in Nat
  BY ListPlaces
<1>5. \A i \in 1..Len(s) : u[i] = s[i]
  BY <1>2, <1>4
<1>6. \A i \in 1..Len(t) : u[Len(s) + i] = t[i]
  <2> SUFFICES ASSUME NEW i \in 1..Len(t) PROVE u[Len(s) + i] = t[i]
    OBVIOUS
  <2>1. Len(s) + i \in 1..(Len(s) + Len(t)) /\ ~(Len(s) + i <= Len(s)) /\ (Len(s) + i) - Len(s) = i
    BY <1>4
  <2> QED BY <1>2, <2>1
<1>7. IsList(u) /\ Len(u) = Len(s) + Len(t) /\ (\A i \in 1..Len(s) : u[i] = s[i]) /\ \A i \in 1..Len(t) : u[Len(s) + i] = t[i]
  BY <1>2, <1>3, <1>5, <1>6
<1> QED BY <1>7 DEF u

\* What is flattened grows by one element at a time.
LEMMA FlattenIs ==
    ASSUME NEW ps, IsList(ps), \A i \in 1..Len(ps) : IsList(ps[i])
    PROVE  \E h : /\ h[0] = <<>>
                  /\ \A n \in 1..Len(ps) : h[n] = h[n - 1] \o ps[n]
                  /\ h[Len(ps)] = FlattenSeq(ps)
<1> DEFINE N == Len(ps)
           IsFlat(g, m) == g = [i \in 1..m |-> IF i = 1 THEN ps[i] ELSE g[i - 1] \o ps[i]]
           Bad == {m \in Nat : ~\E g : IsFlat(g, m)}
<1>0. N \in Nat /\ DOMAIN ps = 1..N
  BY ListPlaces
<1>1. FlattenSeq(ps) = IF N = 0 THEN ps ELSE (CHOOSE g : IsFlat(g, N))[N]
  BY Zenon DEF FlattenSeq
<1>2. Bad = {}
  <2> SUFFICES ASSUME Bad # {} PROVE FALSE
    OBVIOUS
  <2> DEFINE m == Min(Bad)
  <2>1. m \in Bad /\ m \in Nat /\ \A k \in Bad : m <= k
    BY LeastOf
  <2> HIDE DEF m
  <2>2. m # 0
    <3>1. 1..0 = {}
      OBVIOUS
    <3>2. IsFlat([i \in 1..0 |-> <<>>], 0)
      BY <3>1
    <3> QED BY <3>2, <2>1
  <2>3. m - 1 \in Nat /\ m - 1 \notin Bad
    <3>1. m - 1 \in Nat /\ ~(m <= m - 1)
      BY <2>1, <2>2
    <3> QED BY <2>1, <3>1, Zenon
  <2>4. PICK g : IsFlat(g, m - 1)
    BY <2>3
  <2> DEFINE e == [i \in 1..m |-> IF i = 1 THEN ps[i] ELSE g[i - 1] \o ps[i]]
  <2>5. ASSUME NEW i \in 1..m PROVE e[i] = IF i = 1 THEN ps[i] ELSE e[i - 1] \o ps[i]
    <3>1. CASE i = 1
      BY <3>1
    <3>2. CASE i # 1
      <4>1. i - 1 \in 1..m /\ i - 1 \in 1..(m - 1)
        BY <2>1, <3>2
      <4>2. g[i - 1] = IF i - 1 = 1 THEN ps[i - 1] ELSE g[i - 1 - 1] \o ps[i - 1]
        BY <2>4, <4>1
      <4>3. e[i - 1] = g[i - 1]
        BY <4>1, <4>2
      <4> QED BY <3>2, <4>3
    <3> QED BY <3>1, <3>2
  <2>6. IsFlat(e, m)
    <3>1. e = [i \in 1..m |-> e[i]]
      OBVIOUS
    <3> HIDE DEF e
    <3> QED BY <2>5, <3>1
  <2> QED BY <2>1, <2>6
<1> DEFINE f == CHOOSE g : IsFlat(g, N)
<1>3. IsFlat(f, N)
  <2>1. \E g : IsFlat(g, N)
    BY <1>0, <1>2
  <2> HIDE DEF IsFlat
  <2> QED BY <2>1
<1>4. N # 0 => FlattenSeq(ps) = f[N]
  BY <1>1
<1> HIDE DEF f
<1> DEFINE h == [n \in 0..N |-> IF n = 0 THEN <<>> ELSE f[n]]
<1>5. h[0] = <<>>
  BY <1>0
<1>6. ASSUME NEW n \in 1..N PROVE h[n] = h[n - 1] \o ps[n]
  <2>1. n \in 0..N /\ n - 1 \in 0..N /\ n # 0
    BY <1>0
  <2>2. f[n] = IF n = 1 THEN ps[n] ELSE f[n - 1] \o ps[n]
    BY <1>3
  <2>3. h[n] = f[n] /\ (n = 1 => h[n - 1] = <<>>) /\ (n # 1 => h[n - 1] = f[n - 1])
    BY <1>0, <2>1
  <2> HIDE DEF h
  <2>4. CASE n = 1
    <3>1. <<>> \o ps[n] = ps[n]
      <4>1. ps[n] \in Seq(Range(ps[n]))
        BY DEF IsList
      <4> QED BY <4>1, ConcatEmptySeq
    <3> QED BY <2>2, <2>3, <2>4, <3>1
  <2>5. CASE n # 1
    BY <2>2, <2>3, <2>5, Zenon
  <2> QED BY <2>4, <2>5
<1>7. h[N] = FlattenSeq(ps)
  <2>1. CASE N = 0
    <3>1. ps = <<>>
      BY <2>1, NoList, SameList
    <3>2. FlattenSeq(ps) = ps
      BY <1>1, <2>1
    <3> QED BY <1>5, <2>1, <3>1, <3>2
  <2>2. CASE N # 0
    <3>1. N \in 0..N
      BY <1>0
    <3> QED BY <1>4, <2>2, <3>1
  <2> QED BY <2>1, <2>2
<1> HIDE DEF h, N
<1>8. \E h1 : h1[0] = <<>> /\ (\A n \in 1..N : h1[n] = h1[n - 1] \o ps[n]) /\ h1[N] = FlattenSeq(ps)
  BY <1>5, <1>6, <1>7
<1> QED BY <1>8 DEF N

\* A list made up of the pieces, each where the lengths before it put it, is
\* what they are flattened to.
Gathers(ps, c, out) ==
    /\ IsList(ps) /\ IsList(out)
    /\ c[0] = 0 /\ c[Len(ps)] = Len(out)
    /\ \A i \in 1..Len(ps) : IsList(ps[i])
    /\ \A i \in 1..Len(ps) : c[i] = c[i - 1] + Len(ps[i])
    /\ \A i \in 1..Len(ps) : \A j \in 1..Len(ps[i]) : out[c[i - 1] + j] = ps[i][j]

LEMMA Gathered ==
    ASSUME NEW ps, NEW c, NEW out, Gathers(ps, c, out)
    PROVE  FlattenSeq(ps) = out
<1> DEFINE N == Len(ps)
<1> USE DEF Gathers
<1>0. N \in Nat
  BY ListPlaces
<1>1. PICK h : /\ h[0] = <<>>
               /\ \A n \in 1..N : h[n] = h[n - 1] \o ps[n]
               /\ h[N] = FlattenSeq(ps)
  BY FlattenIs
<1> DEFINE Fits(s, n) == IsList(s) /\ Len(s) = n /\ \A k \in 1..n : s[k] = out[k]
           Bad == {n \in 0..N : ~Fits(h[n], c[n])}
<1>2. Bad = {}
  <2> SUFFICES ASSUME Bad # {} PROVE FALSE
    OBVIOUS
  <2> DEFINE m == Min(Bad)
  <2>0. Bad \in SUBSET Nat
    BY <1>0
  <2>1. m \in Bad /\ \A k \in Bad : m <= k
    BY <2>0, LeastOf
  <2> HIDE DEF m
  <2>2. m # 0
    BY <1>1, <2>1, NoList
  <2>3. m \in 1..N /\ m - 1 \in 0..N /\ ~(m <= m - 1)
    BY <1>0, <2>1, <2>2
  <2> DEFINE s == h[m - 1]
             t == ps[m]
             k == c[m - 1]
  <2>4. Fits(s, k)
    BY <2>1, <2>3
  <2>5. IsList(s) /\ Len(s) = k /\ k \in Nat /\ \A i \in 1..k : s[i] = out[i]
    BY <2>4, ListPlaces
  <2>6. IsList(t) /\ c[m] = k + Len(t) /\ Len(t) \in Nat /\ \A j \in 1..Len(t) : out[k + j] = t[j]
    BY <2>3, ListPlaces
  <2>7. h[m] = s \o t
    BY <1>1, <2>3
  <2> HIDE DEF s, t, k
  <2> DEFINE u == s \o t
  <2>8. /\ IsList(u) /\ Len(u) = k + Len(t)
        /\ \A i \in 1..k : u[i] = s[i]
        /\ \A i \in 1..Len(t) : u[k + i] = t[i]
    <3>1. /\ IsList(u) /\ Len(u) = Len(s) + Len(t)
          /\ \A i \in 1..Len(s) : u[i] = s[i]
          /\ \A i \in 1..Len(t) : u[Len(s) + i] = t[i]
      <4>1. IsList(s) /\ IsList(t)
        BY <2>5, <2>6
      <4> QED BY <4>1, Joined
    <3> HIDE DEF u
    <3> QED BY <2>5, <3>1
  <2> HIDE DEF u
  <2>9. ASSUME NEW i \in 1..(k + Len(t)) PROVE u[i] = out[i]
    <3>1. CASE i <= k
      <4>1. i \in 1..k
        BY <2>5, <2>6, <3>1
      <4> QED BY <2>5, <2>8, <4>1
    <3>2. CASE ~(i <= k)
      <4>1. i - k \in 1..Len(t) /\ k + (i - k) = i
        BY <2>5, <2>6, <3>2
      <4>2. u[k + (i - k)] = t[i - k] /\ out[k + (i - k)] = t[i - k]
        BY <2>6, <2>8, <4>1
      <4> QED BY <4>1, <4>2
    <3> QED BY <3>1, <3>2
  <2>10. Fits(u, c[m])
    BY <2>6, <2>8, <2>9
  <2>11. h[m] = u
    BY <2>7 DEF u
  <2> QED BY <2>1, <2>10, <2>11
<1>3. Fits(h[N], Len(out))
  BY <1>0, <1>2
<1> QED BY <1>1, <1>3, SameList

\* How long what is flattened is, and where its elements come from.
LEMMA FlattenLen ==
    ASSUME NEW ps, IsList(ps), \A i \in 1..Len(ps) : IsList(ps[i])
    PROVE  \E c : /\ c[0] = 0 /\ \A i \in 0..Len(ps) : c[i] \in Nat
                  /\ \A i \in 1..Len(ps) : c[i] = c[i - 1] + Len(ps[i])
                  /\ c[Len(ps)] = Len(FlattenSeq(ps))
<1> DEFINE N == Len(ps)
<1>0. N \in Nat
  BY ListPlaces
<1>1. PICK h : /\ h[0] = <<>>
               /\ \A n \in 1..N : h[n] = h[n - 1] \o ps[n]
               /\ h[N] = FlattenSeq(ps)
  BY FlattenIs
<1> DEFINE Bad == {n \in 0..N : ~IsList(h[n])}
<1>2. Bad = {}
  <2> SUFFICES ASSUME Bad # {} PROVE FALSE
    OBVIOUS
  <2> DEFINE m == Min(Bad)
  <2>0. Bad \in SUBSET Nat
    BY <1>0
  <2>1. m \in Bad /\ \A k \in Bad : m <= k
    BY <2>0, LeastOf
  <2> HIDE DEF m
  <2>2. m # 0
    BY <1>1, <2>1, NoList
  <2>3. m \in 1..N /\ m - 1 \in 0..N /\ ~(m <= m - 1)
    BY <1>0, <2>1, <2>2
  <2>4. IsList(h[m - 1]) /\ IsList(ps[m])
    BY <2>1, <2>3
  <2>5. IsList(h[m - 1] \o ps[m])
    BY <2>4, Joined
  <2> QED BY <1>1, <2>1, <2>3, <2>5
<1> DEFINE c == [n \in 0..N |-> Len(h[n])]
<1>3. c[0] = 0
  BY <1>0, <1>1, NoList
<1>4. ASSUME NEW i \in 0..N PROVE c[i] \in Nat
  BY <1>2, ListPlaces
<1>5. ASSUME NEW i \in 1..N PROVE c[i] = c[i - 1] + Len(ps[i])
  <2>1. i \in 0..N /\ i - 1 \in 0..N
    BY <1>0
  <2>2. IsList(h[i - 1]) /\ IsList(ps[i])
    BY <1>2, <2>1
  <2>3. Len(h[i - 1] \o ps[i]) = Len(h[i - 1]) + Len(ps[i])
    BY <2>2, Joined
  <2> QED BY <1>1, <2>1, <2>3
<1>6. c[N] = Len(FlattenSeq(ps))
  BY <1>0, <1>1
<1> HIDE DEF c
<1> QED BY <1>3, <1>4, <1>5, <1>6

LEMMA FlattenHas ==
    ASSUME NEW ps, IsList(ps), \A i \in 1..Len(ps) : IsList(ps[i])
    PROVE  /\ IsList(FlattenSeq(ps))
           /\ \A k \in 1..Len(FlattenSeq(ps)) :
                \E i \in 1..Len(ps) : \E j \in 1..Len(ps[i]) : FlattenSeq(ps)[k] = ps[i][j]
<1> DEFINE N == Len(ps)
           Holds(x) == \E i \in 1..N : \E j \in 1..Len(ps[i]) : x = ps[i][j]
           Good(s) == IsList(s) /\ \A k \in 1..Len(s) : Holds(s[k])
<1>0. N \in Nat
  BY ListPlaces
<1>1. PICK h : /\ h[0] = <<>>
               /\ \A n \in 1..N : h[n] = h[n - 1] \o ps[n]
               /\ h[N] = FlattenSeq(ps)
  BY FlattenIs
<1> DEFINE Bad == {n \in 0..N : ~Good(h[n])}
<1>2. Bad = {}
  <2> SUFFICES ASSUME Bad # {} PROVE FALSE
    OBVIOUS
  <2> DEFINE m == Min(Bad)
  <2>0. Bad \in SUBSET Nat
    BY <1>0
  <2>1. m \in Bad /\ \A k \in Bad : m <= k
    BY <2>0, LeastOf
  <2> HIDE DEF m
  <2>2. m # 0
    <3>1. Good(<<>>)
      BY NoList
    <3> HIDE DEF Good
    <3> QED BY <1>1, <2>1, <3>1
  <2>3. m \in 1..N /\ m - 1 \in 0..N /\ ~(m <= m - 1)
    BY <1>0, <2>1, <2>2
  <2> DEFINE s == h[m - 1]
             t == ps[m]
             u == s \o t
  <2>4. Good(s) /\ IsList(t)
    BY <2>1, <2>3
  <2>5. \A j \in 1..Len(t) : Holds(t[j])
    BY <2>3
  <2>6. h[m] = u
    BY <1>1, <2>3
  <2> HIDE DEF s, t, Holds
  <2>7. /\ IsList(u) /\ Len(u) = Len(s) + Len(t) /\ Len(s) \in Nat /\ Len(t) \in Nat
        /\ \A i \in 1..Len(s) : u[i] = s[i]
        /\ \A i \in 1..Len(t) : u[Len(s) + i] = t[i]
    BY <2>4, Joined, ListPlaces
  <2> HIDE DEF u
  <2>8. ASSUME NEW k \in 1..Len(u) PROVE Holds(u[k])
    <3>1. CASE k <= Len(s)
      BY <2>4, <2>7, <3>1
    <3>2. CASE ~(k <= Len(s))
      <4>1. k - Len(s) \in 1..Len(t) /\ Len(s) + (k - Len(s)) = k
        BY <2>7, <3>2
      <4>2. u[Len(s) + (k - Len(s))] = t[k - Len(s)]
        BY <2>7, <4>1
      <4> QED BY <2>5, <4>1, <4>2
    <3> QED BY <3>1, <3>2
  <2>9. Good(u)
    BY <2>7, <2>8
  <2> HIDE DEF Good
  <2> QED BY <2>1, <2>6, <2>9
<1>3. Good(FlattenSeq(ps))
  <2>1. N \in 0..N
    BY <1>0
  <2> HIDE DEF Good
  <2> QED BY <1>1, <1>2, <2>1
<1> QED BY <1>3

-----------------------------------------------------------------------------
(* Lines that name a flag at most once, and a value behind it.             *)

LEMMA FlagNames ==
    /\ Flags = {"FlashAttn", "CacheTypeK", "CacheTypeV", "BatchSize", "UbatchSize", "SpecType", "SpecDraftNMax"}
    /\ \A token :
        /\ Spells(token, "FlashAttn") <=> token \in {"-fa", "--flash-attn"}
        /\ Spells(token, "CacheTypeK") <=> token \in {"-ctk", "--cache-type-k"}
        /\ Spells(token, "CacheTypeV") <=> token \in {"-ctv", "--cache-type-v"}
        /\ Spells(token, "BatchSize") <=> token \in {"-b", "--batch-size"}
        /\ Spells(token, "UbatchSize") <=> token \in {"-ub", "--ubatch-size"}
        /\ Spells(token, "SpecType") <=> token = "--spec-type"
        /\ Spells(token, "SpecDraftNMax") <=> token = "--spec-draft-n-max"
<1>1. ASSUME NEW d, NEW e PROVE Range(<<d, e>>) = {d, e}
  <2>1. DOMAIN <<d, e>> = {1, 2} /\ <<d, e>>[1] = d /\ <<d, e>>[2] = e
    BY Two, ListPlaces
  <2> QED BY <2>1 DEF Range
<1>2. ASSUME NEW e PROVE Range(<<e>>) = {e}
  <2>1. DOMAIN <<e>> = {1} /\ <<e>>[1] = e
    BY One, ListPlaces
  <2> QED BY <2>1 DEF Range
<1>3. Flags = {"FlashAttn", "CacheTypeK", "CacheTypeV", "BatchSize", "UbatchSize", "SpecType", "SpecDraftNMax"}
  BY DEF Flags, Names
<1>4. /\ Names["FlashAttn"] = <<"-fa", "--flash-attn">> /\ Names["CacheTypeK"] = <<"-ctk", "--cache-type-k">>
      /\ Names["CacheTypeV"] = <<"-ctv", "--cache-type-v">> /\ Names["BatchSize"] = <<"-b", "--batch-size">>
      /\ Names["UbatchSize"] = <<"-ub", "--ubatch-size">> /\ Names["SpecType"] = <<"--spec-type">>
      /\ Names["SpecDraftNMax"] = <<"--spec-draft-n-max">>
  BY DEF Names
<1>5. /\ Range(Names["FlashAttn"]) = {"-fa", "--flash-attn"}
      /\ Range(Names["CacheTypeK"]) = {"-ctk", "--cache-type-k"}
      /\ Range(Names["CacheTypeV"]) = {"-ctv", "--cache-type-v"}
      /\ Range(Names["BatchSize"]) = {"-b", "--batch-size"}
      /\ Range(Names["UbatchSize"]) = {"-ub", "--ubatch-size"}
      /\ Range(Names["SpecType"]) = {"--spec-type"}
      /\ Range(Names["SpecDraftNMax"]) = {"--spec-draft-n-max"}
  BY <1>1, <1>2, <1>4, Zenon
<1> QED BY <1>3, <1>5 DEF Spells

\* No token spells two flags.
LEMMA SpellsOne ==
    ASSUME NEW token, NEW f \in Flags, NEW g \in Flags, Spells(token, f), Spells(token, g)
    PROVE  f = g
<1>1. CASE token \in {"-fa", "--flash-attn", "-ctk", "--cache-type-k", "-ctv", "--cache-type-v"}
  BY <1>1, FlagNames
<1>2. CASE token \in {"-b", "--batch-size", "-ub", "--ubatch-size", "--spec-type", "--spec-draft-n-max"}
  BY <1>2, FlagNames
<1>3. token \in {"-fa", "--flash-attn", "-ctk", "--cache-type-k", "-ctv", "--cache-type-v"}
      \/ token \in {"-b", "--batch-size", "-ub", "--ubatch-size", "--spec-type", "--spec-draft-n-max"}
  BY FlagNames
<1> QED BY <1>1, <1>2, <1>3

\* The spelling under which a flag is appended.
LEMMA LongName == ASSUME NEW f \in Flags PROVE Spells(Last(Names[f]), f)
<1>1. ASSUME NEW d, NEW e PROVE Last(<<d, e>>) \in Range(<<d, e>>)
  <2>1. DOMAIN <<d, e>> = 1..2 /\ Len(<<d, e>>) = 2 /\ Last(<<d, e>>) = <<d, e>>[Len(<<d, e>>)]
    BY Two, ListPlaces DEF Last
  <2> QED BY <2>1 DEF Range
<1>2. ASSUME NEW e PROVE Last(<<e>>) \in Range(<<e>>)
  <2>1. DOMAIN <<e>> = 1..1 /\ Len(<<e>>) = 1 /\ Last(<<e>>) = <<e>>[Len(<<e>>)]
    BY One, ListPlaces DEF Last
  <2> QED BY <2>1 DEF Range
<1>3. (\E d, e : Names[f] = <<d, e>>) \/ (\E e : Names[f] = <<e>>)
  BY FlagNames DEF Names
<1> QED BY <1>1, <1>2, <1>3, Zenon DEF Spells

LEMMA AtPlaces ==
    ASSUME NEW argv, IsList(argv), NEW f
    PROVE  /\ At(argv, f) = {i \in DOMAIN argv : Spells(argv[i], f)}
           /\ At(argv, f) \in SUBSET Nat /\ Len(argv) \in Nat
           /\ \A i : i \in At(argv, f) <=> i \in 1..Len(argv) /\ Spells(argv[i], f)
BY ListPlaces DEF At

\* What stands behind a flag is no flag.
LEMMA AtApart ==
    ASSUME NEW argv, WellFormed(argv), NEW f \in Flags, NEW g \in Flags, NEW i \in At(argv, f)
    PROVE  i + 1 \notin At(argv, g) /\ i + 1 \in 1..Len(argv) /\ i \in 1..Len(argv) /\ Len(argv) \in Nat
<1>1. IsList(argv) /\ i < Len(argv) /\ IsValue(argv[i + 1])
  BY DEF WellFormed
<1>2. ~Spells(argv[i + 1], g)
  BY <1>1 DEF IsValue, Flags
<1> QED BY <1>1, <1>2, AtPlaces

\* A flag that never stands behind itself is found wherever it stands.
LEMMA HeadsOf ==
    ASSUME NEW argv, IsList(argv), NEW f \in Flags, \A i \in At(argv, f) : i + 1 \notin At(argv, f)
    PROVE  Heads(argv, f) = At(argv, f)
<1> DEFINE n == Len(argv)
           IsHead(h) == h = [i \in 0..n |-> i > 0 /\ Spells(argv[i], f) /\ ~h[i - 1]]
           g == [i \in 0..n |-> i > 0 /\ Spells(argv[i], f)]
           head == CHOOSE h : IsHead(h)
<1>0. IsList(argv) /\ n \in Nat
  BY ListPlaces
<1>1. Heads(argv, f) = {i \in 1..n : head[i]}
  BY Zenon DEF Heads
<1>2. ASSUME NEW i \in 0..n PROVE g[i] = (i > 0 /\ Spells(argv[i], f) /\ ~g[i - 1])
  <2>0. \A j \in 0..n : g[j] = (j > 0 /\ Spells(argv[j], f))
    BY Zenon
  <2> HIDE DEF g
  <2>1. CASE i = 0
    BY <2>0, <2>1
  <2>2. CASE i # 0
    <3>1. i - 1 \in 0..n /\ i > 0 /\ i \in 1..n /\ (i - 1) + 1 = i
      BY <1>0, <2>2
    <3>2. g[i] = (i > 0 /\ Spells(argv[i], f)) /\ g[i - 1] = (i - 1 > 0 /\ Spells(argv[i - 1], f))
      BY <2>0, <3>1, Zenon
    <3>3. ASSUME Spells(argv[i], f), g[i - 1] PROVE FALSE
      <4>0. i - 1 > 0 /\ Spells(argv[i - 1], f)
        BY <3>2, <3>3, Zenon
      <4>1. i - 1 \in At(argv, f) /\ i \in At(argv, f)
        BY <1>0, <3>1, <3>3, <4>0, AtPlaces
      <4> QED BY <3>1, <4>1
    <3> QED BY <3>1, <3>2, <3>3, Zenon
  <2> QED BY <2>1, <2>2
<1>3. IsHead(g)
  <2>1. g = [i \in 0..n |-> g[i]]
    OBVIOUS
  <2> HIDE DEF g
  <2> QED BY <1>2, <2>1
<1>4. IsHead(head)
  <2> HIDE DEF IsHead, g
  <2> QED BY <1>3
<1> HIDE DEF head
<1>5. ASSUME NEW i \in 0..n PROVE head[i] = (i > 0 /\ Spells(argv[i], f) /\ ~head[i - 1])
  BY <1>4
<1> HIDE DEF IsHead, g
<1>6. ASSUME NEW i \in 1..n PROVE head[i] <=> i \in At(argv, f)
  <2>1. i \in 0..n /\ i - 1 \in 0..n /\ i > 0 /\ (i - 1) + 1 = i
    BY <1>0
  <2>2. head[i] = (Spells(argv[i], f) /\ ~head[i - 1])
    BY <1>5, <2>1
  <2>3. ASSUME Spells(argv[i], f), head[i - 1] PROVE FALSE
    <3>1. i - 1 > 0 /\ Spells(argv[i - 1], f)
      BY <1>5, <2>1, <2>3
    <3>2. i - 1 \in 1..n
      BY <1>0, <2>1, <3>1
    <3>3. i - 1 \in At(argv, f) /\ i \in At(argv, f)
      BY <1>0, <2>3, <3>1, <3>2, AtPlaces
    <3> QED BY <2>1, <3>3
  <2>4. i \in At(argv, f) <=> Spells(argv[i], f)
    BY <1>0, AtPlaces
  <2> QED BY <2>2, <2>3, <2>4
<1>7. At(argv, f) \in SUBSET (1..n)
  BY <1>0, AtPlaces
<1> QED BY <1>1, <1>6, <1>7

LEMMA HeadsAre ==
    ASSUME NEW argv, WellFormed(argv), NEW f \in Flags
    PROVE  Heads(argv, f) = At(argv, f)
BY AtApart, HeadsOf DEF WellFormed

\* What a flag carries, as chekov and as llama-server read it.
LEMMA ValueIs ==
    ASSUME NEW argv, WellFormed(argv), NEW f \in Flags
    PROVE  /\ At(argv, f) = {} => ValueOf(argv, f) = NoValue
           /\ \A i \in At(argv, f) : ValueOf(argv, f) = argv[i + 1] /\ IsValue(ValueOf(argv, f))
           /\ EngineValue(argv, f) = ValueOf(argv, f)
<1> DEFINE at == At(argv, f)
<1>1. IsList(argv) /\ at \in SUBSET Nat /\ Len(argv) \in Nat
  BY AtPlaces DEF WellFormed
<1>2. ValueOf(argv, f) = IF at = {} \/ Min(at) = Len(argv) THEN NoValue ELSE argv[Min(at) + 1]
  BY <1>1, AtPlaces DEF ValueOf
<1>3. Heads(argv, f) = at
  BY HeadsAre
<1>4. {i \in at : i < Len(argv)} = at
  BY DEF WellFormed
<1>5. EngineValue(argv, f) = IF at = {} THEN NoValue ELSE argv[Max(at) + 1]
  BY <1>3, <1>4 DEF EngineValue
<1>6. ASSUME NEW i \in at
      PROVE  ValueOf(argv, f) = argv[i + 1] /\ EngineValue(argv, f) = argv[i + 1] /\ IsValue(argv[i + 1])
  <2>1. i < Len(argv) /\ IsValue(argv[i + 1]) /\ (\A j \in at : j = i) /\ i \in Nat
    BY <1>1 DEF WellFormed
  <2> HIDE DEF at
  <2>2. at = {i}
    BY <2>1
  <2>3. Min({i}) = i
    BY <2>1, LeastIs
  <2>4. Max({i}) = i
    BY <2>1 DEF Max
  <2>5. i # Len(argv)
    BY <1>1, <2>1
  <2> QED BY <1>2, <1>5, <2>1, <2>2, <2>3, <2>4, <2>5
<1>7. at = {} => ValueOf(argv, f) = NoValue /\ EngineValue(argv, f) = NoValue
  BY <1>2, <1>5
<1> QED BY <1>6, <1>7

-----------------------------------------------------------------------------
(* A flag rewritten, and a flag taken out.                                 *)

LEMMA RewriteNamed ==
    ASSUME NEW argv, WellFormed(argv), NEW f \in Flags, NEW p \in At(argv, f), NEW value
    PROVE  Rewrite(argv, f, value) = [argv EXCEPT ![p + 1] = value]
<1> DEFINE n == Len(argv)
           ps == [i \in 1..n |-> IF i = p THEN <<argv[i], value>>
                                 ELSE IF i = p + 1 THEN <<>> ELSE <<argv[i]>>]
           out == [argv EXCEPT ![p + 1] = value]
           c == [i \in 0..n |-> IF i = p THEN p + 1 ELSE i]
<1>0. /\ IsList(argv) /\ n \in Nat /\ DOMAIN argv = 1..n
      /\ p \in Nat /\ p >= 1 /\ p + 1 <= n /\ p \in 1..n /\ p + 1 \in 1..n
      /\ \A j \in At(argv, f) : j = p
  <2>1. IsList(argv) /\ \A j \in At(argv, f) : j = p
    BY DEF WellFormed
  <2>2. p + 1 \in 1..n /\ p \in 1..n /\ n \in Nat
    BY AtApart
  <2> QED BY <2>1, <2>2, ListPlaces
<1>1. Rewrite(argv, f, value) = FlattenSeq(ps)
  <2>1. Heads(argv, f) = {p}
    BY <1>0, HeadsAre
  <2>2. Min({p}) = p
    BY <1>0, LeastIs
  <2>3. {p} # {} /\ \A i \in 1..n : (i \in {p} <=> i = p) /\ (i - 1 \in {p} <=> i = p + 1)
    BY <1>0
  <2>4. Rewrite(argv, f, value) =
          FlattenSeq([i \in 1..n |-> IF {p} # {} /\ i = Min({p}) THEN <<argv[i], value>>
                                     ELSE IF i \in {p} \/ i - 1 \in {p} THEN <<>> ELSE <<argv[i]>>])
    BY <2>1, <2>3, Zenon DEF Rewrite
  <2>5. ASSUME NEW i \in 1..n
        PROVE  (IF {p} # {} /\ i = Min({p}) THEN <<argv[i], value>>
                ELSE IF i \in {p} \/ i - 1 \in {p} THEN <<>> ELSE <<argv[i]>>) = ps[i]
    BY <2>2, <2>3, Zenon
  <2>6. [i \in 1..n |-> IF {p} # {} /\ i = Min({p}) THEN <<argv[i], value>>
                        ELSE IF i \in {p} \/ i - 1 \in {p} THEN <<>> ELSE <<argv[i]>>] = ps
    BY <2>2, <2>3, Zenon
  <2> QED BY <2>4, <2>6, Zenon
<1>2. IsList(ps) /\ Len(ps) = n
  <2>1. ps = [i \in 1..n |-> ps[i]]
    OBVIOUS
  <2> HIDE DEF ps
  <2> QED BY <1>0, <2>1, Built
<1>3. ASSUME NEW i \in 1..n
      PROVE  /\ IsList(ps[i])
             /\ i = p => Len(ps[i]) = 2 /\ ps[i][1] = argv[p] /\ ps[i][2] = value
             /\ i = p + 1 => Len(ps[i]) = 0
             /\ i # p /\ i # p + 1 => Len(ps[i]) = 1 /\ ps[i][1] = argv[i]
  <2>1. CASE i = p
    <3>1. ps[i] = <<argv[p], value>>
      BY <2>1
    <3> HIDE DEF ps
    <3> QED BY <1>0, <2>1, <3>1, Two
  <2>2. CASE i = p + 1
    <3>1. ps[i] = <<>>
      BY <1>0, <2>2
    <3> HIDE DEF ps
    <3> QED BY <1>0, <2>2, <3>1, NoList
  <2>3. CASE i # p /\ i # p + 1
    <3>1. ps[i] = <<argv[i]>>
      BY <2>3
    <3> HIDE DEF ps
    <3> QED BY <1>0, <2>3, <3>1, One
  <2> QED BY <2>1, <2>2, <2>3
<1> HIDE DEF ps
<1>4. IsList(out) /\ Len(out) = n /\ out[p + 1] = value /\ \A i \in 1..n : i # p + 1 => out[i] = argv[i]
  <2>1. out = [i \in 1..n |-> out[i]]
    BY <1>0
  <2>2. out[p + 1] = value /\ \A i \in 1..n : i # p + 1 => out[i] = argv[i]
    BY <1>0
  <2> HIDE DEF out
  <2> QED BY <1>0, <2>1, <2>2, Built
<1> HIDE DEF out
<1>5. \A i \in 0..n : c[i] = IF i = p THEN p + 1 ELSE i
  OBVIOUS
<1> HIDE DEF c
<1>6. c[0] = 0 /\ c[n] = n
  BY <1>0, <1>5
<1>7. ASSUME NEW i \in 1..n PROVE c[i] = c[i - 1] + Len(ps[i])
  <2>1. i \in 0..n /\ i - 1 \in 0..n /\ i \in Nat
    BY <1>0
  <2>2. CASE i = p
    <3>1. Len(ps[i]) = 2
      BY <1>3, <2>2
    <3> QED BY <1>0, <1>5, <2>1, <2>2, <3>1
  <2>3. CASE i = p + 1
    <3>1. Len(ps[i]) = 0
      BY <1>3, <2>3
    <3> QED BY <1>0, <1>5, <2>1, <2>3, <3>1
  <2>4. CASE i # p /\ i # p + 1
    <3>1. Len(ps[i]) = 1
      BY <1>3, <2>4
    <3> QED BY <1>0, <1>5, <2>1, <2>4, <3>1
  <2> QED BY <2>2, <2>3, <2>4
<1>8. ASSUME NEW i \in 1..n, NEW j \in 1..Len(ps[i]) PROVE out[c[i - 1] + j] = ps[i][j]
  <2>1. i \in 0..n /\ i - 1 \in 0..n /\ i \in Nat
    BY <1>0
  <2>2. CASE i = p
    <3>0. Len(ps[i]) = 2
      BY <1>3, <2>2
    <3>1. c[i - 1] = p - 1 /\ (j = 1 \/ j = 2)
      BY <1>0, <1>5, <2>1, <2>2, <3>0
    <3>2. CASE j = 1
      <4>1. c[i - 1] + j = p
        BY <1>0, <3>1, <3>2
      <4> QED BY <1>0, <1>3, <1>4, <2>2, <3>2, <4>1
    <3>3. CASE j = 2
      <4>1. c[i - 1] + j = p + 1
        BY <1>0, <3>1, <3>3
      <4> QED BY <1>0, <1>3, <1>4, <2>2, <3>3, <4>1
    <3> QED BY <3>1, <3>2, <3>3
  <2>3. CASE i = p + 1
    BY <1>3, <2>3
  <2>4. CASE i # p /\ i # p + 1
    <3>0. Len(ps[i]) = 1
      BY <1>3, <2>4
    <3>1. c[i - 1] = i - 1 /\ j = 1
      BY <1>0, <1>5, <2>1, <2>4, <3>0
    <3>2. c[i - 1] + j = i
      BY <2>1, <3>1
    <3> QED BY <1>0, <1>3, <1>4, <2>4, <3>1, <3>2
  <2> QED BY <2>2, <2>3, <2>4
<1>9. FlattenSeq(ps) = out
  <2>1. n = Len(ps) /\ IsList(ps) /\ IsList(out) /\ c[0] = 0 /\ c[n] = Len(out)
    BY <1>0, <1>2, <1>4, <1>6
  <2> HIDE DEF n
  <2>2. Gathers(ps, c, out)
    BY <1>3, <1>7, <1>8, <2>1, Zenon DEF Gathers
  <2> QED BY <2>2, Gathered, Zenon
<1> QED BY <1>1, <1>9 DEF out

LEMMA RewriteAbsent ==
    ASSUME NEW argv, WellFormed(argv), NEW f \in Flags, At(argv, f) = {}, NEW value
    PROVE  Rewrite(argv, f, value) = argv \o <<Last(Names[f]), value>>
<1> DEFINE n == Len(argv)
           ps == [i \in 1..n |-> <<argv[i]>>]
           c == [i \in 0..n |-> i]
<1>0. IsList(argv) /\ n \in Nat
  BY ListPlaces DEF WellFormed
<1>1. Rewrite(argv, f, value) = FlattenSeq(ps) \o <<Last(Names[f]), value>>
  <2>1. Heads(argv, f) = {}
    BY HeadsAre
  <2>2. Rewrite(argv, f, value) =
          FlattenSeq([i \in 1..n |-> IF {} # {} /\ i = Min({}) THEN <<argv[i], value>>
                                     ELSE IF i \in {} \/ i - 1 \in {} THEN <<>> ELSE <<argv[i]>>])
            \o <<Last(Names[f]), value>>
    BY <2>1, Zenon DEF Rewrite
  <2>3. [i \in 1..n |-> IF {} # {} /\ i = Min({}) THEN <<argv[i], value>>
                        ELSE IF i \in {} \/ i - 1 \in {} THEN <<>> ELSE <<argv[i]>>] = ps
    BY Zenon
  <2> QED BY <2>2, <2>3, Zenon
<1>2. IsList(ps) /\ Len(ps) = n
  <2>1. ps = [i \in 1..n |-> ps[i]]
    OBVIOUS
  <2> HIDE DEF ps
  <2> QED BY <1>0, <2>1, Built
<1>3. ASSUME NEW i \in 1..n PROVE IsList(ps[i]) /\ Len(ps[i]) = 1 /\ ps[i][1] = argv[i]
  <2>1. ps[i] = <<argv[i]>>
    OBVIOUS
  <2> HIDE DEF ps
  <2> QED BY <2>1, One
<1> HIDE DEF ps
<1>4. c[0] = 0 /\ c[n] = n /\ \A i \in 1..n : c[i] = i /\ c[i - 1] = i - 1
  BY <1>0
<1> HIDE DEF c
<1>5. ASSUME NEW i \in 1..n PROVE c[i] = c[i - 1] + Len(ps[i])
  <2>1. Len(ps[i]) = 1 /\ c[i] = i /\ c[i - 1] = i - 1
    BY <1>3, <1>4
  <2> QED BY <1>0, <2>1
<1>6. ASSUME NEW i \in 1..n, NEW j \in 1..Len(ps[i]) PROVE argv[c[i - 1] + j] = ps[i][j]
  <2>1. Len(ps[i]) = 1 /\ ps[i][1] = argv[i] /\ c[i - 1] = i - 1
    BY <1>3, <1>4
  <2>2. j = 1 /\ c[i - 1] + j = i
    BY <1>0, <2>1
  <2> QED BY <2>1, <2>2
<1>7. FlattenSeq(ps) = argv
  <2>1. n = Len(ps) /\ IsList(ps) /\ IsList(argv) /\ c[0] = 0 /\ c[n] = Len(argv)
    BY <1>0, <1>2, <1>4
  <2> HIDE DEF n
  <2>2. Gathers(ps, c, argv)
    BY <1>3, <1>5, <1>6, <2>1, Zenon DEF Gathers
  <2> QED BY <2>2, Gathered, Zenon
<1> QED BY <1>1, <1>7

\* The list without the p-th place and the next one.
StripAt(argv, p) == [i \in 1..(Len(argv) - 2) |-> IF i < p THEN argv[i] ELSE argv[i + 2]]

LEMMA StripNamed ==
    ASSUME NEW argv, WellFormed(argv), NEW f \in Flags, NEW p \in At(argv, f)
    PROVE  Strip(argv, f) = StripAt(argv, p)
<1> DEFINE n == Len(argv)
           ps == [i \in 1..n |-> IF i = p \/ i = p + 1 THEN <<>> ELSE <<argv[i]>>]
           out == StripAt(argv, p)
           c == [i \in 0..n |-> IF i < p THEN i ELSE IF i = p THEN p - 1 ELSE i - 2]
<1>0. /\ IsList(argv) /\ n \in Nat /\ DOMAIN argv = 1..n
      /\ p \in Nat /\ p >= 1 /\ p + 1 <= n /\ p \in 1..n /\ p + 1 \in 1..n
      /\ \A j \in At(argv, f) : j = p
  <2>1. IsList(argv) /\ \A j \in At(argv, f) : j = p
    BY DEF WellFormed
  <2>2. p + 1 \in 1..n /\ p \in 1..n /\ n \in Nat
    BY AtApart
  <2> QED BY <2>1, <2>2, ListPlaces
<1>1. Strip(argv, f) = FlattenSeq(ps)
  <2>1. Heads(argv, f) = {p}
    BY <1>0, HeadsAre
  <2>3. \A i \in 1..n : (i \in {p} <=> i = p) /\ (i - 1 \in {p} <=> i = p + 1)
    BY <1>0
  <2>4. Strip(argv, f) = FlattenSeq([i \in 1..n |-> IF i \in {p} \/ i - 1 \in {p} THEN <<>> ELSE <<argv[i]>>])
    BY <2>1, Zenon DEF Strip
  <2>5. [i \in 1..n |-> IF i \in {p} \/ i - 1 \in {p} THEN <<>> ELSE <<argv[i]>>] = ps
    BY <2>3, Zenon
  <2> QED BY <2>4, <2>5, Zenon
<1>2. IsList(ps) /\ Len(ps) = n
  <2>1. ps = [i \in 1..n |-> ps[i]]
    OBVIOUS
  <2> HIDE DEF ps
  <2> QED BY <1>0, <2>1, Built
<1>3. ASSUME NEW i \in 1..n
      PROVE  /\ IsList(ps[i])
             /\ i = p \/ i = p + 1 => Len(ps[i]) = 0
             /\ i # p /\ i # p + 1 => Len(ps[i]) = 1 /\ ps[i][1] = argv[i]
  <2>1. CASE i = p \/ i = p + 1
    <3>1. ps[i] = <<>>
      BY <2>1
    <3> HIDE DEF ps
    <3> QED BY <2>1, <3>1, NoList
  <2>2. CASE i # p /\ i # p + 1
    <3>1. ps[i] = <<argv[i]>>
      BY <2>2
    <3> HIDE DEF ps
    <3> QED BY <2>2, <3>1, One
  <2> QED BY <2>1, <2>2
<1> HIDE DEF ps
<1>4. /\ IsList(out) /\ Len(out) = n - 2
      /\ \A i \in 1..(n - 2) : (i < p => out[i] = argv[i]) /\ (p <= i => out[i] = argv[i + 2])
  <2>1. out = [i \in 1..(n - 2) |-> out[i]] /\ n - 2 \in Nat
    BY <1>0 DEF StripAt
  <2>2. \A i \in 1..(n - 2) : (i < p => out[i] = argv[i]) /\ (p <= i => out[i] = argv[i + 2])
    BY <1>0 DEF StripAt
  <2> HIDE DEF out
  <2> QED BY <2>1, <2>2, Built
<1> HIDE DEF out
<1>5. \A i \in 0..n : c[i] = IF i < p THEN i ELSE IF i = p THEN p - 1 ELSE i - 2
  OBVIOUS
<1> HIDE DEF c
<1>6. c[0] = 0 /\ c[n] = n - 2
  BY <1>0, <1>5
<1>7. ASSUME NEW i \in 1..n PROVE c[i] = c[i - 1] + Len(ps[i])
  <2>1. i \in 0..n /\ i - 1 \in 0..n /\ i \in Nat
    BY <1>0
  <2>2. CASE i = p
    <3>1. Len(ps[i]) = 0
      BY <1>3, <2>2
    <3> QED BY <1>0, <1>5, <2>1, <2>2, <3>1
  <2>3. CASE i = p + 1
    <3>1. Len(ps[i]) = 0
      BY <1>3, <2>3
    <3> QED BY <1>0, <1>5, <2>1, <2>3, <3>1
  <2>4. CASE i # p /\ i # p + 1
    <3>1. Len(ps[i]) = 1
      BY <1>3, <2>4
    <3> QED BY <1>0, <1>5, <2>1, <2>4, <3>1
  <2> QED BY <2>2, <2>3, <2>4
<1>8. ASSUME NEW i \in 1..n, NEW j \in 1..Len(ps[i]) PROVE out[c[i - 1] + j] = ps[i][j]
  <2>1. i \in 0..n /\ i - 1 \in 0..n /\ i \in Nat
    BY <1>0
  <2>2. i # p /\ i # p + 1 /\ j = 1 /\ ps[i][j] = argv[i]
    <3>1. Len(ps[i]) = 0 => FALSE
      <4>1. j \in 1..Len(ps[i])
        OBVIOUS
      <4> QED BY <4>1
    <3>2. i # p /\ i # p + 1
      BY <1>3, <3>1
    <3>3. Len(ps[i]) = 1 /\ ps[i][1] = argv[i]
      BY <1>3, <3>2
    <3>4. j = 1
      BY <3>3
    <3> QED BY <3>2, <3>3, <3>4
  <2>3. CASE i < p
    <3>1. c[i - 1] + j = i /\ i \in 1..(n - 2)
      BY <1>0, <1>5, <2>1, <2>2, <2>3
    <3> QED BY <1>4, <2>2, <2>3, <3>1
  <2>4. CASE ~(i < p)
    <3>1. c[i - 1] + j = i - 2 /\ i - 2 \in 1..(n - 2) /\ p <= i - 2 /\ (i - 2) + 2 = i
      BY <1>0, <1>5, <2>1, <2>2, <2>4
    <3> QED BY <1>4, <2>2, <3>1
  <2> QED BY <2>3, <2>4
<1>9. FlattenSeq(ps) = out
  <2>1. n = Len(ps) /\ IsList(ps) /\ IsList(out) /\ c[0] = 0 /\ c[n] = Len(out)
    BY <1>0, <1>2, <1>4, <1>6
  <2> HIDE DEF n
  <2>2. Gathers(ps, c, out)
    BY <1>3, <1>7, <1>8, <2>1, Zenon DEF Gathers
  <2> QED BY <2>2, Gathered, Zenon
<1> QED BY <1>1, <1>9 DEF out

LEMMA StripAbsent ==
    ASSUME NEW argv, WellFormed(argv), NEW f \in Flags, At(argv, f) = {}
    PROVE  Strip(argv, f) = argv
<1> DEFINE n == Len(argv)
           ps == [i \in 1..n |-> <<argv[i]>>]
           c == [i \in 0..n |-> i]
<1>0. IsList(argv) /\ n \in Nat
  BY ListPlaces DEF WellFormed
<1>1. Strip(argv, f) = FlattenSeq(ps)
  <2>1. Heads(argv, f) = {}
    BY HeadsAre
  <2>2. Strip(argv, f) = FlattenSeq([i \in 1..n |-> IF i \in {} \/ i - 1 \in {} THEN <<>> ELSE <<argv[i]>>])
    BY <2>1, Zenon DEF Strip
  <2>3. [i \in 1..n |-> IF i \in {} \/ i - 1 \in {} THEN <<>> ELSE <<argv[i]>>] = ps
    BY Zenon
  <2> QED BY <2>2, <2>3, Zenon
<1>2. IsList(ps) /\ Len(ps) = n
  <2>1. ps = [i \in 1..n |-> ps[i]]
    OBVIOUS
  <2> HIDE DEF ps
  <2> QED BY <1>0, <2>1, Built
<1>3. ASSUME NEW i \in 1..n PROVE IsList(ps[i]) /\ Len(ps[i]) = 1 /\ ps[i][1] = argv[i]
  <2>1. ps[i] = <<argv[i]>>
    OBVIOUS
  <2> HIDE DEF ps
  <2> QED BY <2>1, One
<1> HIDE DEF ps
<1>4. c[0] = 0 /\ c[n] = n /\ \A i \in 1..n : c[i] = i /\ c[i - 1] = i - 1
  BY <1>0
<1> HIDE DEF c
<1>5. ASSUME NEW i \in 1..n PROVE c[i] = c[i - 1] + Len(ps[i])
  <2>1. Len(ps[i]) = 1 /\ c[i] = i /\ c[i - 1] = i - 1
    BY <1>3, <1>4
  <2> QED BY <1>0, <2>1
<1>6. ASSUME NEW i \in 1..n, NEW j \in 1..Len(ps[i]) PROVE argv[c[i - 1] + j] = ps[i][j]
  <2>1. Len(ps[i]) = 1 /\ ps[i][1] = argv[i] /\ c[i - 1] = i - 1
    BY <1>3, <1>4
  <2>2. j = 1 /\ c[i - 1] + j = i
    BY <1>0, <2>1
  <2> QED BY <2>1, <2>2
<1>7. FlattenSeq(ps) = argv
  <2>1. n = Len(ps) /\ IsList(ps) /\ IsList(argv) /\ c[0] = 0 /\ c[n] = Len(argv)
    BY <1>0, <1>2, <1>4
  <2> HIDE DEF n
  <2>2. Gathers(ps, c, argv)
    BY <1>3, <1>5, <1>6, <2>1, Zenon DEF Gathers
  <2> QED BY <2>2, Gathered, Zenon
<1> QED BY <1>1, <1>7

LEMMA NoneNamed ==
    ASSUME NEW argv, WellFormed(argv), NEW f \in Flags
    PROVE  At(argv, f) = {} <=> ValueOf(argv, f) = NoValue
BY ValueIs DEF IsValue

LEMMA RewriteIs ==
    ASSUME NEW argv, WellFormed(argv), NEW f \in Flags, NEW value, IsValue(value)
    PROVE  /\ WellFormed(Rewrite(argv, f, value))
           /\ ValueOf(Rewrite(argv, f, value), f) = value
           /\ \A g \in Flags \ {f} : ValueOf(Rewrite(argv, f, value), g) = ValueOf(argv, g)
           /\ Rewrite(argv, f, value) = argv <=> ValueOf(argv, f) = value
<1> DEFINE b == Rewrite(argv, f, value)
           n == Len(argv)
<1>0. IsList(argv) /\ n \in Nat /\ DOMAIN argv = 1..n
  BY ListPlaces DEF WellFormed
<1>1. ASSUME NEW p \in At(argv, f)
      PROVE  /\ WellFormed(b) /\ ValueOf(b, f) = value /\ \A g \in Flags \ {f} : ValueOf(b, g) = ValueOf(argv, g)
             /\ ValueOf(argv, f) = value => b = argv
  <2>1. b = [argv EXCEPT ![p + 1] = value]
    BY RewriteNamed
  <2>2. /\ p \in Nat /\ p + 1 \in 1..n /\ p \in 1..n /\ (\A g \in Flags : p + 1 \notin At(argv, g))
        /\ \A j \in At(argv, f) : j = p
    BY AtApart DEF WellFormed
  <2> HIDE DEF b
  <2>3. IsList(b) /\ Len(b) = n
    <3>1. b = [i \in 1..n |-> b[i]]
      BY <1>0, <2>1
    <3> QED BY <1>0, <3>1, Built
  <2>4. b[p + 1] = value /\ \A i \in 1..n : i # p + 1 => b[i] = argv[i]
    BY <1>0, <2>1, <2>2
  <2>5. ASSUME NEW g \in Flags PROVE At(b, g) = At(argv, g)
    <3>1. ~Spells(value, g)
      BY DEF IsValue, Flags
    <3>2. ASSUME NEW i PROVE i \in At(b, g) <=> i \in At(argv, g)
      <4>1. CASE i = p + 1
        BY <2>2, <2>3, <2>4, <3>1, <4>1, AtPlaces
      <4>2. CASE i # p + 1
        BY <1>0, <2>3, <2>4, <4>2, AtPlaces
      <4> QED BY <4>1, <4>2
    <3> QED BY <3>2
  <2>6. ASSUME NEW g \in Flags, NEW i \in At(b, g)
        PROVE  /\ i < n /\ i \in At(argv, g) /\ IsValue(b[i + 1]) /\ \A j \in At(b, g) : j = i
               /\ g = f => b[i + 1] = value
               /\ g # f => b[i + 1] = argv[i + 1]
    <3>1. i \in At(argv, g) /\ i < n /\ IsValue(argv[i + 1]) /\ \A j \in At(argv, g) : j = i
      BY <2>5 DEF WellFormed
    <3>2. i \in 1..n /\ i + 1 \in 1..n /\ i \in Nat
      BY <1>0, <3>1, AtPlaces
    <3>3. CASE i = p
      <4>1. g = f
        <5>1. Spells(argv[p], f) /\ Spells(argv[p], g)
          BY <1>0, <3>1, <3>3, AtPlaces
        <5> QED BY <5>1, SpellsOne
      <4> QED BY <2>4, <2>5, <3>1, <3>3, <4>1
    <3>4. CASE i # p
      <4>1. g # f
        BY <2>2, <3>1, <3>4
      <4>2. i + 1 # p + 1
        BY <2>2, <3>2, <3>4
      <4> QED BY <2>4, <2>5, <3>1, <3>2, <4>1, <4>2
    <3> QED BY <3>3, <3>4
  <2>7. WellFormed(b)
    BY <2>3, <2>6 DEF WellFormed
  <2>8. ValueOf(b, f) = value
    <3>1. p \in At(b, f)
      BY <2>5
    <3> QED BY <2>6, <2>7, <3>1, ValueIs
  <2>9. ASSUME NEW g \in Flags \ {f} PROVE ValueOf(b, g) = ValueOf(argv, g)
    <3>1. CASE At(argv, g) = {}
      BY <2>5, <2>7, <3>1, NoneNamed
    <3>2. CASE At(argv, g) # {}
      <4>1. PICK i : i \in At(argv, g)
        BY <3>2
      <4>2. i \in At(b, g) /\ b[i + 1] = argv[i + 1]
        BY <2>5, <2>6, <4>1
      <4> QED BY <2>7, <4>1, <4>2, ValueIs
    <3> QED BY <3>1, <3>2
  <2>10. ASSUME ValueOf(argv, f) = value PROVE b = argv
    <3>1. argv[p + 1] = value
      BY <2>10, ValueIs
    <3>2. \A i \in 1..n : b[i] = argv[i]
      BY <2>4, <3>1
    <3> QED BY <1>0, <2>3, <3>2, SameList
  <2> QED BY <2>7, <2>8, <2>9, <2>10
<1>2. ASSUME At(argv, f) = {}
      PROVE  /\ WellFormed(b) /\ ValueOf(b, f) = value /\ \A g \in Flags \ {f} : ValueOf(b, g) = ValueOf(argv, g)
             /\ ValueOf(argv, f) # value
  <2> DEFINE name == Last(Names[f])
             t == <<name, value>>
  <2>1. b = argv \o t
    BY <1>2, RewriteAbsent
  <2>2. IsList(t) /\ Len(t) = 2 /\ t[1] = name /\ t[2] = value
    BY Two
  <2> HIDE DEF b, t
  <2>3. /\ IsList(b) /\ Len(b) = n + 2
        /\ \A i \in 1..n : b[i] = argv[i]
        /\ b[n + 1] = name /\ b[n + 2] = value
    <3> DEFINE u == argv \o t
    <3>1. /\ IsList(u) /\ Len(u) = Len(argv) + Len(t)
          /\ \A i \in 1..Len(argv) : u[i] = argv[i]
          /\ \A i \in 1..Len(t) : u[Len(argv) + i] = t[i]
      <4>1. IsList(argv) /\ IsList(t)
        BY <1>0, <2>2
      <4> QED BY <4>1, Joined
    <3>2. 1 \in 1..Len(t) /\ 2 \in 1..Len(t)
      BY <2>2
    <3>3. u = b
      BY <2>1
    <3> HIDE DEF u
    <3> QED BY <2>2, <3>1, <3>2, <3>3
  <2>4. Spells(name, f)
    BY LongName
  <2> HIDE DEF name
  <2>5. ASSUME NEW g \in Flags, NEW i PROVE i \in At(b, g) <=> i \in At(argv, g) \/ (g = f /\ i = n + 1)
    <3>1. ~Spells(value, g) /\ (Spells(name, g) <=> g = f)
      BY <2>4, SpellsOne DEF IsValue, Flags
    <3>2. i \in At(b, g) <=> i \in 1..(n + 2) /\ Spells(b[i], g)
      BY <2>3, AtPlaces
    <3>3. i \in At(argv, g) <=> i \in 1..n /\ Spells(argv[i], g)
      BY <1>0, AtPlaces
    <3>4. i \in 1..(n + 2) <=> i \in 1..n \/ i = n + 1 \/ i = n + 2
      BY <1>0
    <3>5. n + 1 \notin 1..n /\ n + 2 \notin 1..n /\ n + 1 # n + 2
      BY <1>0
    <3> QED BY <2>3, <3>1, <3>2, <3>3, <3>4, <3>5
  <2>6. ASSUME NEW g \in Flags, NEW i \in At(b, g)
        PROVE  /\ i < n + 2 /\ IsValue(b[i + 1]) /\ \A j \in At(b, g) : j = i
               /\ g = f => b[i + 1] = value
               /\ g # f => i \in At(argv, g) /\ b[i + 1] = argv[i + 1]
    <3>1. CASE g = f
      <4>1. i = n + 1 /\ \A j \in At(b, g) : j = n + 1
        BY <1>2, <2>5, <3>1
      <4>2. (n + 1) + 1 = n + 2 /\ n + 1 < n + 2
        BY <1>0
      <4> QED BY <2>3, <3>1, <4>1, <4>2
    <3>2. CASE g # f
      <4>1. i \in At(argv, g) /\ \A j \in At(b, g) : j \in At(argv, g)
        BY <2>5, <3>2
      <4>2. i < n /\ IsValue(argv[i + 1]) /\ \A j \in At(argv, g) : j = i
        BY <4>1 DEF WellFormed
      <4>3. i + 1 \in 1..n /\ i < n + 2
        BY <1>0, <4>1, <4>2, AtPlaces
      <4> QED BY <2>3, <3>2, <4>1, <4>2, <4>3
    <3> QED BY <3>1, <3>2
  <2>7. WellFormed(b)
    BY <2>3, <2>6 DEF WellFormed
  <2>8. ValueOf(b, f) = value
    <3>1. n + 1 \in At(b, f)
      BY <2>5
    <3> QED BY <2>6, <2>7, <3>1, ValueIs
  <2>9. ASSUME NEW g \in Flags \ {f} PROVE ValueOf(b, g) = ValueOf(argv, g)
    <3>1. CASE At(argv, g) = {}
      <4>1. At(b, g) = {}
        BY <2>5, <3>1
      <4> QED BY <2>7, <3>1, <4>1, NoneNamed
    <3>2. CASE At(argv, g) # {}
      <4>1. PICK i : i \in At(argv, g)
        BY <3>2
      <4>2. i \in At(b, g) /\ b[i + 1] = argv[i + 1]
        BY <2>5, <2>6, <4>1
      <4> QED BY <2>7, <4>1, <4>2, ValueIs
    <3> QED BY <3>1, <3>2
  <2>10. ValueOf(argv, f) # value
    <3>1. ValueOf(argv, f) = NoValue
      BY <1>2, NoneNamed
    <3> QED BY <3>1 DEF IsValue
  <2> QED BY <2>7, <2>8, <2>9, <2>10
<1> HIDE DEF b
<1>3. /\ WellFormed(b) /\ ValueOf(b, f) = value /\ \A g \in Flags \ {f} : ValueOf(b, g) = ValueOf(argv, g)
      /\ ValueOf(argv, f) = value => b = argv
  <2>1. CASE At(argv, f) = {}
    BY <1>2, <2>1
  <2>2. CASE At(argv, f) # {}
    BY <1>1, <2>2
  <2> QED BY <2>1, <2>2
<1>4. b = argv => ValueOf(argv, f) = value
  BY <1>3
<1> QED BY <1>3, <1>4 DEF b

LEMMA StripIs ==
    ASSUME NEW argv, WellFormed(argv), NEW f \in Flags
    PROVE  /\ WellFormed(Strip(argv, f))
           /\ ValueOf(Strip(argv, f), f) = NoValue
           /\ \A g \in Flags \ {f} : ValueOf(Strip(argv, f), g) = ValueOf(argv, g)
           /\ Strip(argv, f) = argv <=> ValueOf(argv, f) = NoValue
<1> DEFINE b == Strip(argv, f)
           n == Len(argv)
<1>0. IsList(argv) /\ n \in Nat /\ DOMAIN argv = 1..n
  BY ListPlaces DEF WellFormed
<1>1. ASSUME NEW p \in At(argv, f)
      PROVE  WellFormed(b) /\ ValueOf(b, f) = NoValue /\ \A g \in Flags \ {f} : ValueOf(b, g) = ValueOf(argv, g)
  <2>1. b = StripAt(argv, p)
    BY StripNamed
  <2>2. /\ p \in Nat /\ p >= 1 /\ p + 1 <= n /\ (\A g \in Flags : p + 1 \notin At(argv, g))
        /\ \A j \in At(argv, f) : j = p
    <3>1. p \in 1..n /\ p + 1 \in 1..n /\ \A g \in Flags : p + 1 \notin At(argv, g)
      BY AtApart
    <3> QED BY <1>0, <3>1 DEF WellFormed
  <2> HIDE DEF b
  <2>3. /\ IsList(b) /\ Len(b) = n - 2 /\ n - 2 \in Nat
        /\ \A i \in 1..(n - 2) : b[i] = IF i < p THEN argv[i] ELSE argv[i + 2]
    <3>1. b = [i \in 1..(n - 2) |-> b[i]] /\ n - 2 \in Nat
      BY <1>0, <2>1, <2>2 DEF StripAt
    <3>2. \A i \in 1..(n - 2) : b[i] = IF i < p THEN argv[i] ELSE argv[i + 2]
      BY <1>0, <2>1, <2>2 DEF StripAt
    <3> QED BY <3>1, <3>2, Built
  <2> DEFINE up(i) == IF i < p THEN i ELSE i + 2
  <2>4. ASSUME NEW g \in Flags, NEW i \in 1..(n - 2)
        PROVE  i \in At(b, g) <=> up(i) \in At(argv, g)
    <3>1. up(i) \in 1..n /\ b[i] = argv[up(i)]
      BY <1>0, <2>2, <2>3
    <3> QED BY <1>0, <2>3, <3>1, AtPlaces
  <2>5. ASSUME NEW g \in Flags PROVE At(b, g) \in SUBSET (1..(n - 2))
    BY <2>3, AtPlaces
  <2>6. ASSUME NEW g \in Flags, NEW i \in At(b, g)
        PROVE  /\ i < n - 2 /\ IsValue(b[i + 1]) /\ (\A j \in At(b, g) : j = i)
               /\ g # f /\ up(i) \in At(argv, g) /\ b[i + 1] = argv[up(i) + 1]
    <3>1. i \in 1..(n - 2) /\ i \in Nat
      BY <2>3, <2>5
    <3>2. up(i) \in At(argv, g)
      BY <2>4, <3>1
    <3>3. up(i) < n /\ IsValue(argv[up(i) + 1]) /\ (\A j \in At(argv, g) : j = up(i)) /\ up(i) \in Nat
      BY <1>0, <3>2, AtPlaces DEF WellFormed
    <3>4. g # f
      <4>1. up(i) # p
        BY <2>2, <3>1
      <4> QED BY <2>2, <3>2, <4>1
    <3>5. up(i) + 1 # p
      <4>1. SUFFICES ASSUME up(i) + 1 = p PROVE FALSE
        OBVIOUS
      <4>2. IsValue(argv[p]) /\ Spells(argv[p], f)
        BY <1>0, <3>3, <4>1, AtPlaces
      <4> QED BY <4>2 DEF IsValue, Flags
    <3>6. i + 1 \in 1..(n - 2) /\ up(i + 1) = up(i) + 1
      <4>1. CASE i < p
        <5>1. i + 1 < p
          BY <2>2, <3>1, <3>5, <4>1
        <5> QED BY <1>0, <2>2, <3>1, <4>1, <5>1
      <4>2. CASE ~(i < p)
        BY <1>0, <2>2, <3>1, <3>3, <4>2
      <4> QED BY <4>1, <4>2
    <3>7. b[i + 1] = argv[up(i) + 1]
      <4>1. b[i + 1] = argv[up(i + 1)]
        BY <2>3, <3>6
      <4> QED BY <3>6, <4>1
    <3>8. i < n - 2
      BY <1>0, <2>3, <3>1, <3>6
    <3>9. ASSUME NEW j \in At(b, g) PROVE j = i
      <4>1. j \in 1..(n - 2)
        BY <2>5
      <4>2. up(j) = up(i)
        BY <2>4, <3>3, <4>1
      <4> QED BY <2>2, <2>3, <3>1, <4>1, <4>2
    <3> HIDE DEF up
    <3> QED BY <3>2, <3>3, <3>4, <3>7, <3>8, <3>9
  <2>7. WellFormed(b)
    BY <2>3, <2>6 DEF WellFormed
  <2>8. ValueOf(b, f) = NoValue
    <3>1. At(b, f) = {}
      BY <2>6
    <3> QED BY <2>7, <3>1, NoneNamed
  <2>9. ASSUME NEW g \in Flags \ {f} PROVE ValueOf(b, g) = ValueOf(argv, g)
    <3>1. CASE At(b, g) # {}
      <4>1. PICK i \in At(b, g) : TRUE
        BY <3>1
      <4>2. up(i) \in At(argv, g) /\ b[i + 1] = argv[up(i) + 1]
        BY <2>6
      <4> HIDE DEF up
      <4>3. ValueOf(argv, g) = argv[up(i) + 1]
        BY <4>2, ValueIs
      <4>4. ValueOf(b, g) = b[i + 1]
        BY <2>7, ValueIs
      <4> QED BY <4>2, <4>3, <4>4
    <3>2. CASE At(b, g) = {}
      <4>1. At(argv, g) = {}
        <5>1. SUFFICES ASSUME NEW k \in At(argv, g) PROVE FALSE
          OBVIOUS
        <5>2. k \in 1..n /\ k \in Nat
          BY <1>0, AtPlaces
        <5>3. k # p
          <6>1. SUFFICES ASSUME k = p PROVE FALSE
            OBVIOUS
          <6>2. Spells(argv[p], f) /\ Spells(argv[p], g)
            BY <1>0, <6>1, AtPlaces
          <6> QED BY <6>2, SpellsOne
        <5>4. k # p + 1
          BY <2>2
        <5>5. CASE k < p
          <6>1. k \in 1..(n - 2) /\ up(k) = k
            BY <1>0, <2>2, <5>2, <5>5
          <6> QED BY <2>4, <3>2, <6>1
        <5>6. CASE k > p + 1
          <6>1. k - 2 \in 1..(n - 2) /\ up(k - 2) = k
            BY <1>0, <2>2, <5>2, <5>6
          <6> QED BY <2>4, <3>2, <6>1
        <5> QED BY <2>2, <5>2, <5>3, <5>4, <5>5, <5>6
      <4> QED BY <2>7, <3>2, <4>1, NoneNamed
    <3> QED BY <3>1, <3>2
  <2> QED BY <2>7, <2>8, <2>9
<1>2. ASSUME At(argv, f) = {} PROVE b = argv /\ ValueOf(argv, f) = NoValue
  BY <1>2, StripAbsent, NoneNamed
<1> HIDE DEF b
<1>3. WellFormed(b) /\ ValueOf(b, f) = NoValue /\ \A g \in Flags \ {f} : ValueOf(b, g) = ValueOf(argv, g)
  <2>1. CASE At(argv, f) = {}
    BY <1>2, <2>1
  <2>2. CASE At(argv, f) # {}
    BY <1>1, <2>2
  <2> QED BY <2>1, <2>2
<1>4. b = argv <=> ValueOf(argv, f) = NoValue
  <2>1. ValueOf(argv, f) = NoValue => b = argv
    BY <1>2, NoneNamed
  <2>2. b = argv => ValueOf(argv, f) = NoValue
    BY <1>3
  <2> QED BY <2>1, <2>2
<1> QED BY <1>3, <1>4 DEF b

-----------------------------------------------------------------------------
(* A value of a stage, applied.                                            *)

LEMMA StageFlags ==
    /\ FlagsOf["spec"] = {"SpecType", "SpecDraftNMax"} /\ FlagsOf["fa"] = {"FlashAttn"}
    /\ FlagsOf["kv"] = {"CacheTypeK", "CacheTypeV"} /\ FlagsOf["batch"] = {"BatchSize"}
    /\ FlagsOf["ubatch"] = {"UbatchSize"}
    /\ DOMAIN EngineDefault = Stages
    /\ \A stage \in Stages : FlagsOf[stage] \subseteq Flags
    /\ \A s, t \in Stages : \A f \in FlagsOf[s] : f \in FlagsOf[t] => s = t
<1>1. /\ FlagsOf["spec"] = {"SpecType", "SpecDraftNMax"} /\ FlagsOf["fa"] = {"FlashAttn"}
      /\ FlagsOf["kv"] = {"CacheTypeK", "CacheTypeV"} /\ FlagsOf["batch"] = {"BatchSize"}
      /\ FlagsOf["ubatch"] = {"UbatchSize"}
  BY DEF FlagsOf
<1>2. DOMAIN EngineDefault = Stages
  BY DEF EngineDefault, Stages
<1>3. \A stage \in Stages : FlagsOf[stage] \subseteq Flags
  BY <1>1, FlagNames DEF Stages
<1>4. \A s, t \in Stages : \A f \in FlagsOf[s] : f \in FlagsOf[t] => s = t
  BY <1>1 DEF Stages
<1> QED BY <1>1, <1>2, <1>3, <1>4

\* What the flags of a stage carry once a value of it has been applied.
Given(stage, value, flag) ==
    IF stage # "spec" THEN value
    ELSE IF value \notin DOMAIN DraftLength THEN NoValue
    ELSE IF flag = "SpecType" THEN "draft-mtp" ELSE DraftLength[value]

Holds(b, argv, stage, value) ==
    /\ WellFormed(b)
    /\ \A f \in FlagsOf[stage] : ValueOf(b, f) = Given(stage, value, f)
    /\ \A f \in Flags \ FlagsOf[stage] : ValueOf(b, f) = ValueOf(argv, f)
    /\ b = argv <=> \A f \in FlagsOf[stage] : ValueOf(argv, f) = Given(stage, value, f)

LEMMA RewriteOne ==
    ASSUME NEW argv, WellFormed(argv), NEW stage \in Stages \ {"spec"}, NEW f, FlagsOf[stage] = {f},
           NEW value, IsValue(value)
    PROVE  Holds(Rewrite(argv, f, value), argv, stage, value)
<1>1. f \in Flags
  BY StageFlags
<1>2. Given(stage, value, f) = value
  BY DEF Given
<1> DEFINE b == Rewrite(argv, f, value)
<1>3. /\ WellFormed(b) /\ ValueOf(b, f) = value /\ (\A g \in Flags \ {f} : ValueOf(b, g) = ValueOf(argv, g))
      /\ b = argv <=> ValueOf(argv, f) = value
  BY <1>1, RewriteIs
<1> HIDE DEF b
<1>4. Holds(b, argv, stage, value)
  BY <1>2, <1>3 DEF Holds
<1> QED BY <1>4 DEF b

LEMMA RewriteBoth ==
    ASSUME NEW argv, WellFormed(argv), NEW stage \in Stages, NEW f, NEW g, f # g, FlagsOf[stage] = {f, g},
           NEW value, NEW v, IsValue(v), NEW w, IsValue(w), Given(stage, value, f) = v, Given(stage, value, g) = w
    PROVE  Holds(Rewrite(Rewrite(argv, f, v), g, w), argv, stage, value)
<1>1. f \in Flags /\ g \in Flags
  BY StageFlags
<1> DEFINE a == Rewrite(argv, f, v)
           b == Rewrite(a, g, w)
<1>2. /\ WellFormed(a) /\ ValueOf(a, f) = v /\ (\A h \in Flags \ {f} : ValueOf(a, h) = ValueOf(argv, h))
      /\ a = argv <=> ValueOf(argv, f) = v
  BY <1>1, RewriteIs
<1> HIDE DEF a
<1>3. /\ WellFormed(b) /\ ValueOf(b, g) = w /\ (\A h \in Flags \ {g} : ValueOf(b, h) = ValueOf(a, h))
      /\ b = a <=> ValueOf(a, g) = w
  BY <1>1, <1>2, RewriteIs
<1> HIDE DEF b
<1>4. ValueOf(b, f) = v /\ \A h \in Flags \ {f, g} : ValueOf(b, h) = ValueOf(argv, h)
  BY <1>1, <1>2, <1>3
<1>5. b = argv => ValueOf(argv, f) = v /\ ValueOf(argv, g) = w
  BY <1>3, <1>4
<1>6. ASSUME ValueOf(argv, f) = v, ValueOf(argv, g) = w PROVE b = argv
  BY <1>2, <1>3, <1>6
<1>7. Holds(b, argv, stage, value)
  BY <1>3, <1>4, <1>5, <1>6 DEF Holds
<1> QED BY <1>7 DEF a, b

LEMMA StripBoth ==
    ASSUME NEW argv, WellFormed(argv)
    PROVE  /\ WellFormed(StripSpec(argv))
           /\ \A f \in FlagsOf["spec"] : ValueOf(StripSpec(argv), f) = NoValue
           /\ \A f \in Flags \ FlagsOf["spec"] : ValueOf(StripSpec(argv), f) = ValueOf(argv, f)
           /\ StripSpec(argv) = argv <=> \A f \in FlagsOf["spec"] : ValueOf(argv, f) = NoValue
<1> DEFINE f == "SpecType"
           g == "SpecDraftNMax"
<1>1. f \in Flags /\ g \in Flags /\ FlagsOf["spec"] = {f, g} /\ f # g
  BY StageFlags, FlagNames
<1> DEFINE a == Strip(argv, f)
           b == Strip(a, g)
<1>0. StripSpec(argv) = b
  BY DEF StripSpec
<1> HIDE DEF f, g
<1>2. /\ WellFormed(a) /\ ValueOf(a, f) = NoValue /\ (\A h \in Flags \ {f} : ValueOf(a, h) = ValueOf(argv, h))
      /\ a = argv <=> ValueOf(argv, f) = NoValue
  BY <1>1, StripIs
<1> HIDE DEF a
<1>3. /\ WellFormed(b) /\ ValueOf(b, g) = NoValue /\ (\A h \in Flags \ {g} : ValueOf(b, h) = ValueOf(a, h))
      /\ b = a <=> ValueOf(a, g) = NoValue
  BY <1>1, <1>2, StripIs
<1> HIDE DEF b
<1>4. ValueOf(b, f) = NoValue /\ \A h \in Flags \ {f, g} : ValueOf(b, h) = ValueOf(argv, h)
  BY <1>1, <1>2, <1>3
<1>5. b = argv => ValueOf(argv, f) = NoValue /\ ValueOf(argv, g) = NoValue
  BY <1>3, <1>4
<1>6. ASSUME ValueOf(argv, f) = NoValue, ValueOf(argv, g) = NoValue PROVE b = argv
  BY <1>1, <1>2, <1>3, <1>6
<1> QED BY <1>0, <1>1, <1>3, <1>4, <1>5, <1>6

LEMMA AppliedIs ==
    ASSUME NEW argv, WellFormed(argv), NEW stage \in Stages, NEW value, stage # "spec" => IsValue(value)
    PROVE  Holds(ApplyValue(stage, argv, value), argv, stage, value)
<1>1. CASE stage = "fa"
  <2>1. ApplyValue(stage, argv, value) = Rewrite(argv, "FlashAttn", value)
    BY <1>1 DEF ApplyValue
  <2>2. FlagsOf[stage] = {"FlashAttn"} /\ stage \in Stages \ {"spec"}
    BY <1>1, StageFlags
  <2> QED BY <2>1, <2>2, RewriteOne
<1>2. CASE stage = "batch"
  <2>1. ApplyValue(stage, argv, value) = Rewrite(argv, "BatchSize", value)
    BY <1>2 DEF ApplyValue
  <2>2. FlagsOf[stage] = {"BatchSize"} /\ stage \in Stages \ {"spec"}
    BY <1>2, StageFlags
  <2> QED BY <2>1, <2>2, RewriteOne
<1>3. CASE stage = "ubatch"
  <2>1. ApplyValue(stage, argv, value) = Rewrite(argv, "UbatchSize", value)
    BY <1>3 DEF ApplyValue
  <2>2. FlagsOf[stage] = {"UbatchSize"} /\ stage \in Stages \ {"spec"}
    BY <1>3, StageFlags
  <2> QED BY <2>1, <2>2, RewriteOne
<1>4. CASE stage = "kv"
  <2>1. ApplyValue(stage, argv, value) = Rewrite(Rewrite(argv, "CacheTypeK", value), "CacheTypeV", value)
    BY <1>4 DEF ApplyValue
  <2>2. /\ FlagsOf[stage] = {"CacheTypeK", "CacheTypeV"} /\ "CacheTypeK" # "CacheTypeV" /\ IsValue(value)
        /\ Given(stage, value, "CacheTypeK") = value /\ Given(stage, value, "CacheTypeV") = value
    BY <1>4, StageFlags DEF Given
  <2> QED BY <2>1, <2>2, RewriteBoth
<1>5. CASE stage = "spec" /\ value \in DOMAIN DraftLength
  <2>1. ApplyValue(stage, argv, value)
          = Rewrite(Rewrite(argv, "SpecType", "draft-mtp"), "SpecDraftNMax", DraftLength[value])
    BY <1>5 DEF ApplyValue, ApplySpec
  <2>2. /\ FlagsOf[stage] = {"SpecType", "SpecDraftNMax"} /\ "SpecType" # "SpecDraftNMax"
        /\ Given(stage, value, "SpecType") = "draft-mtp" /\ Given(stage, value, "SpecDraftNMax") = DraftLength[value]
    BY <1>5, StageFlags DEF Given
  <2>3. IsValue("draft-mtp") /\ IsValue(DraftLength[value])
    <3>1. "draft-mtp" # NoValue /\ IsValue(DraftLength[value])
      BY <1>5, TokensAssumption
    <3>2. \A f \in Flags : ~Spells("draft-mtp", f)
      BY FlagNames
    <3> QED BY <3>1, <3>2 DEF IsValue, Flags
  <2> QED BY <2>1, <2>2, <2>3, RewriteBoth
<1>6. CASE stage = "spec" /\ value \notin DOMAIN DraftLength
  <2>1. ApplyValue(stage, argv, value) = StripSpec(argv)
    BY <1>6 DEF ApplyValue, ApplySpec
  <2>2. \A f : Given(stage, value, f) = NoValue
    BY <1>6 DEF Given
  <2> HIDE DEF StripSpec
  <2>3. Holds(StripSpec(argv), argv, stage, value)
    BY <1>6, <2>2, StripBoth DEF Holds
  <2> QED BY <2>1, <2>3
<1> QED BY <1>1, <1>2, <1>3, <1>4, <1>5, <1>6 DEF Stages

-----------------------------------------------------------------------------
(* The winner's flags, carried over.                                       *)

Carries(b, argv, f, w) ==
    /\ WellFormed(b)
    /\ ValueOf(w, f) = NoValue => ValueOf(b, f) = ValueOf(argv, f)
    /\ ValueOf(w, f) # NoValue => ValueOf(b, f) = ValueOf(w, f)
    /\ \A g \in Flags \ {f} : ValueOf(b, g) = ValueOf(argv, g)

LEMMA CarryIs ==
    ASSUME NEW argv, WellFormed(argv), NEW w, WellFormed(w), NEW f \in Flags
    PROVE  Carries(CarryOver(argv, f, w), argv, f, w)
<1>1. CASE ValueOf(w, f) = NoValue
  BY <1>1 DEF CarryOver, Carries
<1>2. CASE ValueOf(w, f) # NoValue
  <2> DEFINE v == ValueOf(w, f)
             b == Rewrite(argv, f, v)
  <2>1. IsValue(v)
    BY <1>2, ValueIs, NoneNamed
  <2>2. CarryOver(argv, f, w) = b
    BY <1>2 DEF CarryOver
  <2> HIDE DEF v
  <2>3. WellFormed(b) /\ ValueOf(b, f) = v /\ \A g \in Flags \ {f} : ValueOf(b, g) = ValueOf(argv, g)
    BY <2>1, RewriteIs
  <2> HIDE DEF b
  <2> QED BY <1>2, <2>2, <2>3 DEF v, Carries
<1> QED BY <1>1, <1>2

\* The flags are carried over one after another.
LEMMA FoldCarry ==
    ASSUME IsList(AppliedFlags), NEW current, NEW w
    PROVE  \E h : /\ h[0] = current
                  /\ \A n \in 1..Len(AppliedFlags) : h[n] = CarryOver(h[n - 1], AppliedFlags[n], w)
                  /\ h[Len(AppliedFlags)] = CarriedOver(current, w)
<1> DEFINE s == AppliedFlags
<1> DEFINE IsFold(g, S) ==
             g = [t \in SUBSET S |-> IF t = {} THEN current ELSE CarryOver(g[t \ {Max(t)}], s[Max(t)], w)]
           Bad == {m \in Nat : ~\E g : IsFold(g, 1..m)}
           folded == CarriedOver(current, w)
<1>0. Len(s) \in Nat /\ DOMAIN s = 1..Len(s)
  BY ListPlaces
<1>1. folded = (CHOOSE g : IsFold(g, DOMAIN s))[DOMAIN s]
  BY Zenon DEF FoldLeft, MapThenFoldSet, CarriedOver
<1>H. ASSUME NEW t \in SUBSET Nat, NEW m \in t, \A j \in t : j <= m PROVE Max(t) = m
  <2>1. \E x \in t : \A y \in t : x >= y
    BY <1>H
  <2> DEFINE x == Max(t)
  <2>2. x \in t /\ \A y \in t : x >= y
    BY <2>1, Zenon DEF Max
  <2> HIDE DEF x
  <2>3. x \in Nat /\ m \in Nat /\ x >= m /\ x <= m
    BY <1>H, <2>2
  <2>4. x = m
    BY <2>3
  <2> QED BY <2>4 DEF x
<1>2. Bad = {}
  <2> SUFFICES ASSUME Bad # {} PROVE FALSE
    OBVIOUS
  <2> DEFINE m == Min(Bad)
  <2>1. m \in Bad /\ m \in Nat /\ \A j \in Bad : m <= j
    BY LeastOf
  <2> HIDE DEF m
  <2>2. m # 0
    <3>1. IsFold([t \in SUBSET (1..0) |-> current], 1..0)
      <4>1. SUBSET (1..0) = {{}}
        OBVIOUS
      <4> QED BY <4>1
    <3> QED BY <3>1, <2>1
  <2>3. m - 1 \in Nat /\ m \in Nat /\ m - 1 \notin Bad
    <3>2. m - 1 \in Nat /\ ~(m <= m - 1)
      BY <2>1, <2>2
    <3> QED BY <2>1, <3>2, Zenon
  <2>4. PICK g : IsFold(g, 1..(m - 1))
    BY <2>3
  <2> DEFINE e == [t \in SUBSET (1..m) |-> IF m \in t THEN CarryOver(g[t \ {m}], s[m], w) ELSE g[t]]
  <2>5. ASSUME NEW t \in SUBSET (1..m)
        PROVE  e[t] = IF t = {} THEN current ELSE CarryOver(e[t \ {Max(t)}], s[Max(t)], w)
    <3>1. CASE m \in t
      <4>1. Max(t) = m /\ t # {} /\ m \notin t \ {m} /\ t \ {m} \in SUBSET (1..m)
        <5>1. t \in SUBSET Nat /\ \A j \in t : j <= m
          BY <2>3
        <5> QED BY <3>1, <5>1, <1>H
      <4>2. e[t] = CarryOver(g[t \ {m}], s[m], w) /\ e[t \ {m}] = g[t \ {m}]
        BY <3>1, <4>1
      <4> HIDE DEF e
      <4> QED BY <4>1, <4>2
    <3>2. CASE m \notin t
      <4>1. t \in SUBSET (1..(m - 1))
        BY <2>3, <3>2
      <4>2. e[t] = g[t]
        BY <3>2
      <4>3. g[t] = IF t = {} THEN current ELSE CarryOver(g[t \ {Max(t)}], s[Max(t)], w)
        BY <2>4, <4>1
      <4>4. t \ {Max(t)} \in SUBSET (1..m) /\ m \notin t \ {Max(t)}
        BY <3>2
      <4>5. e[t \ {Max(t)}] = g[t \ {Max(t)}]
        BY <4>4
      <4> HIDE DEF e
      <4> QED BY <4>2, <4>3, <4>5
    <3> QED BY <3>1, <3>2
  <2>6. IsFold(e, 1..m)
    <3>1. e = [t \in SUBSET (1..m) |-> e[t]]
      OBVIOUS
    <3> HIDE DEF e
    <3> QED BY <2>5, <3>1
  <2> QED BY <2>1, <2>6
<1> DEFINE f == CHOOSE g : IsFold(g, DOMAIN s)
<1>3. IsFold(f, 1..Len(s))
  <2>1. \E g : IsFold(g, 1..Len(s))
    BY <1>0, <1>2
  <2> HIDE DEF IsFold
  <2>2. IsFold(f, DOMAIN s)
    BY <1>0, <2>1
  <2> QED BY <1>0, <2>2
<1>4. f[1..Len(s)] = folded
  BY <1>0, <1>1
<1> HIDE DEF f, folded
<1> DEFINE h == [n \in 0..Len(s) |-> f[1..n]]
<1>5. h[0] = current
  <2>1. 1..0 = {} /\ 1..0 \in SUBSET (1..Len(s)) /\ 0 \in 0..Len(s)
    BY <1>0
  <2>2. f[1..0] = current
    BY <1>3, <2>1
  <2> QED BY <2>1, <2>2
<1>6. ASSUME NEW n \in 1..Len(s) PROVE h[n] = CarryOver(h[n - 1], s[n], w)
  <2>1. /\ n \in Nat /\ n \in 1..n /\ n \in 0..Len(s) /\ n - 1 \in 0..Len(s)
        /\ 1..n \in SUBSET (1..Len(s)) /\ 1..n # {} /\ 1..n \in SUBSET Nat /\ \A j \in 1..n : j <= n
    <3>1. n \in Nat /\ n \in 1..n /\ n \in 0..Len(s) /\ n - 1 \in 0..Len(s)
      BY <1>0
    <3>2. 1..n \in SUBSET (1..Len(s)) /\ 1..n \in SUBSET Nat /\ \A j \in 1..n : j <= n
      BY <1>0, <3>1
    <3> QED BY <3>1, <3>2
  <2>2. Max(1..n) = n
    BY <2>1, <1>H
  <2>3. (1..n) \ {n} = 1..(n - 1)
    BY <2>1
  <2>4. f[1..n] = CarryOver(f[1..n \ {Max(1..n)}], s[Max(1..n)], w)
    BY <1>3, <2>1
  <2> QED BY <2>1, <2>2, <2>3, <2>4
<1>7. h[Len(s)] = folded
  BY <1>0, <1>4
<1> HIDE DEF h
<1> QED BY <1>5, <1>6, <1>7 DEF folded

LEMMA CarriedIs ==
    ASSUME NEW current, WellFormed(current), NEW w, WellFormed(w)
    PROVE  LET out == CarriedOver(current, w)
           IN  /\ WellFormed(out)
               /\ \A g \in Flags : ValueOf(out, g) = IF ValueOf(w, g) = NoValue THEN ValueOf(current, g) ELSE ValueOf(w, g)
<1> DEFINE out == CarriedOver(current, w)
           Before(g, n) == \E i \in 1..n : AppliedFlags[i] = g
           Carried(x, n) ==
             /\ WellFormed(x)
             /\ \A g \in Flags : /\ Before(g, n) /\ ValueOf(w, g) # NoValue => ValueOf(x, g) = ValueOf(w, g)
                                 /\ ~Before(g, n) \/ ValueOf(w, g) = NoValue => ValueOf(x, g) = ValueOf(current, g)
<1>0. /\ IsList(AppliedFlags) /\ Len(AppliedFlags) = 7 /\ \A n \in 1..7 : AppliedFlags[n] \in Flags
      /\ \A g \in Flags : Before(g, 7)
  <2>1. AppliedFlags = [i \in 1..7 |-> AppliedFlags[i]]
    BY DEF AppliedFlags
  <2>2. /\ AppliedFlags[1] = "FlashAttn" /\ AppliedFlags[2] = "CacheTypeK" /\ AppliedFlags[3] = "CacheTypeV"
        /\ AppliedFlags[4] = "BatchSize" /\ AppliedFlags[5] = "UbatchSize" /\ AppliedFlags[6] = "SpecType"
        /\ AppliedFlags[7] = "SpecDraftNMax"
    BY DEF AppliedFlags
  <2>3. \A n \in 1..7 : AppliedFlags[n] \in Flags
    BY <2>2, FlagNames
  <2>4. \A g \in Flags : \E i \in 1..7 : AppliedFlags[i] = g
    BY <2>2, FlagNames
  <2>5. 7 \in Nat
    OBVIOUS
  <2> QED BY <2>1, <2>3, <2>4, <2>5, Built
<1>1. PICK h : /\ h[0] = current
               /\ \A n \in 1..Len(AppliedFlags) : h[n] = CarryOver(h[n - 1], AppliedFlags[n], w)
               /\ h[Len(AppliedFlags)] = out
  BY <1>0, FoldCarry
<1> HIDE DEF out
<1> DEFINE Bad == {n \in 0..7 : ~Carried(h[n], n)}
<1>2. Bad = {}
  <2> SUFFICES ASSUME Bad # {} PROVE FALSE
    OBVIOUS
  <2> DEFINE m == Min(Bad)
  <2>1. m \in Bad /\ m \in 0..7 /\ \A k \in Bad : m <= k
    <3>1. Bad \in SUBSET Nat
      OBVIOUS
    <3> QED BY <3>1, LeastOf
  <2> HIDE DEF m
  <2>2. m # 0
    <3>1. \A g : ~Before(g, 0)
      OBVIOUS
    <3>2. Carried(current, 0)
      BY <3>1
    <3> HIDE DEF Carried
    <3> QED BY <1>1, <2>1, <3>2
  <2>3. m \in 1..7 /\ m - 1 \in 0..7 /\ ~(m <= m - 1)
    BY <2>1, <2>2
  <2> DEFINE a == h[m - 1]
             f == AppliedFlags[m]
             b == h[m]
  <2>4. Carried(a, m - 1)
    BY <2>1, <2>3
  <2>5. b = CarryOver(a, f, w) /\ f \in Flags
    BY <1>0, <1>1, <2>3
  <2>6. \A g : Before(g, m) <=> Before(g, m - 1) \/ g = f
    <3>1. \A i : i \in 1..m <=> i \in 1..(m - 1) \/ i = m
      BY <2>3
    <3> QED BY <3>1
  <2>7. ~Carried(b, m)
    BY <2>1
  <2> HIDE DEF a, b, f, Before
  <2>8. /\ WellFormed(b)
        /\ ValueOf(w, f) = NoValue => ValueOf(b, f) = ValueOf(a, f)
        /\ ValueOf(w, f) # NoValue => ValueOf(b, f) = ValueOf(w, f)
        /\ \A g \in Flags \ {f} : ValueOf(b, g) = ValueOf(a, g)
    <3>1. WellFormed(a)
      BY <2>4
    <3>2. Carries(CarryOver(a, f, w), a, f, w)
      BY <2>5, <3>1, CarryIs
    <3>3. Carries(b, a, f, w)
      BY <2>5, <3>2, Zenon
    <3> QED BY <3>3 DEF Carries
  <2>9. ASSUME NEW g \in Flags
        PROVE  /\ Before(g, m) /\ ValueOf(w, g) # NoValue => ValueOf(b, g) = ValueOf(w, g)
               /\ ~Before(g, m) \/ ValueOf(w, g) = NoValue => ValueOf(b, g) = ValueOf(current, g)
    <3>1. CASE g = f
      BY <2>4, <2>6, <2>8, <3>1
    <3>2. CASE g # f
      BY <2>4, <2>6, <2>8, <3>2
    <3> QED BY <3>1, <3>2
  <2> QED BY <2>7, <2>8, <2>9
<1>3. Carried(out, 7)
  <2> HIDE DEF Carried
  <2>1. 7 \in 0..7
    OBVIOUS
  <2> QED BY <1>0, <1>1, <1>2, <2>1
<1>4. WellFormed(out) /\ \A g \in Flags : ValueOf(out, g) = IF ValueOf(w, g) = NoValue THEN ValueOf(current, g) ELSE ValueOf(w, g)
  BY <1>0, <1>3
<1> QED BY <1>4 DEF out

LEMMA AppliedExtraIs ==
    ASSUME NEW current, WellFormed(current), NEW w, WellFormed(w)
    PROVE  LET out == AppliedExtraFlags(current, w)
               dropped == IF ValueOf(w, "SpecType") = NoValue THEN FlagsOf["spec"] ELSE {}
           IN  /\ WellFormed(out)
               /\ \A g \in Flags : ValueOf(out, g) = IF g \in dropped THEN NoValue
                                                     ELSE IF ValueOf(w, g) = NoValue THEN ValueOf(current, g) ELSE ValueOf(w, g)
<1> DEFINE mid == CarriedOver(current, w)
           out == AppliedExtraFlags(current, w)
<1>1. WellFormed(mid) /\ \A g \in Flags : ValueOf(mid, g) = IF ValueOf(w, g) = NoValue THEN ValueOf(current, g) ELSE ValueOf(w, g)
  BY CarriedIs, Zenon
<1>2. out = IF ValueOf(w, "SpecType") = NoValue THEN StripSpec(mid) ELSE mid
  BY DEF AppliedExtraFlags
<1> HIDE DEF mid, out, StripSpec
<1>3. CASE ValueOf(w, "SpecType") = NoValue
  <2>1. /\ WellFormed(out) /\ \A g \in FlagsOf["spec"] : ValueOf(out, g) = NoValue
        /\ \A g \in Flags \ FlagsOf["spec"] : ValueOf(out, g) = ValueOf(mid, g)
    BY <1>1, <1>2, <1>3, StripBoth
  <2>2. \A g \in Flags : ValueOf(out, g) = IF g \in FlagsOf["spec"] THEN NoValue
                                           ELSE IF ValueOf(w, g) = NoValue THEN ValueOf(current, g) ELSE ValueOf(w, g)
    BY <1>1, <2>1
  <2> QED BY <1>3, <2>1, <2>2 DEF out
<1>4. CASE ValueOf(w, "SpecType") # NoValue
  BY <1>1, <1>2, <1>4 DEF out
<1> QED BY <1>3, <1>4

\* Of two lines laid end to end llama-server reads the second, then the first.
LEMMA LaidEndToEnd ==
    ASSUME NEW d, WellFormed(d), NEW x, WellFormed(x), NEW f \in Flags
    PROVE  EngineValue(d \o x, f) = IF ValueOf(x, f) = NoValue THEN ValueOf(d, f) ELSE ValueOf(x, f)
<1> DEFINE n == Len(d)
           k == Len(x)
           b == d \o x
<1>0. IsList(d) /\ IsList(x) /\ n \in Nat /\ k \in Nat
  BY ListPlaces DEF WellFormed
<1>1. IsList(b) /\ Len(b) = n + k /\ (\A i \in 1..n : b[i] = d[i]) /\ \A i \in 1..k : b[n + i] = x[i]
  BY <1>0, Joined
<1> HIDE DEF b
<1>2. ASSUME NEW i PROVE i \in At(b, f) <=> i \in At(d, f) \/ (i - n \in At(x, f) /\ i \in Nat)
  <2>1. i \in At(d, f) <=> i \in 1..n /\ Spells(d[i], f)
    BY <1>0, AtPlaces
  <2>2. i - n \in At(x, f) <=> i - n \in 1..k /\ Spells(x[i - n], f)
    BY <1>0, AtPlaces
  <2>3. i \in At(b, f) <=> i \in 1..(n + k) /\ Spells(b[i], f)
    BY <1>1, AtPlaces
  <2>4. CASE i \in 1..n
    <3>1. i - n \notin 1..k /\ i \in 1..(n + k)
      BY <1>0, <2>4
    <3> QED BY <1>1, <2>1, <2>2, <2>3, <2>4, <3>1
  <2>5. CASE i \in 1..(n + k) /\ i \notin 1..n
    <3>1. i - n \in 1..k /\ n + (i - n) = i /\ i \in Nat
      BY <1>0, <2>5
    <3>2. b[i] = x[i - n]
      BY <1>1, <3>1
    <3> QED BY <2>1, <2>2, <2>3, <2>5, <3>1, <3>2
  <2>6. CASE i \notin 1..(n + k)
    <3>1. i \notin 1..n /\ ~(i - n \in 1..k /\ i \in Nat)
      BY <1>0, <2>6
    <3> QED BY <2>1, <2>2, <2>3, <2>6, <3>1
  <2> QED BY <2>4, <2>5, <2>6
<1>3. ASSUME NEW i \in At(d, f)
      PROVE  /\ i \in 1..n /\ i + 1 \in 1..n /\ i + 1 \notin At(d, f) /\ b[i + 1] = ValueOf(d, f)
             /\ \A j \in At(d, f) : j = i
  <2>1. i \in 1..n /\ i + 1 \in 1..n /\ i + 1 \notin At(d, f)
    BY AtApart
  <2> QED BY <1>1, <2>1, ValueIs DEF WellFormed
<1>4. ASSUME NEW i \in At(x, f)
      PROVE  /\ i \in 1..k /\ i + 1 \in 1..k /\ i + 1 \notin At(x, f) /\ b[n + (i + 1)] = ValueOf(x, f)
             /\ \A j \in At(x, f) : j = i
  <2>1. i \in 1..k /\ i + 1 \in 1..k /\ i + 1 \notin At(x, f)
    BY AtApart
  <2> QED BY <1>1, <2>1, ValueIs DEF WellFormed
<1>5. ASSUME NEW i \in At(b, f) PROVE i + 1 \notin At(b, f) /\ i < n + k
  <2>1. CASE i \in At(d, f)
    <3>0. i \in 1..n /\ i + 1 \in 1..n
      BY <1>3, <2>1
    <3>1. (i + 1) - n \notin 1..k /\ i < n + k
      BY <1>0, <3>0
    <3>2. (i + 1) - n \notin At(x, f)
      BY <1>0, <3>1, AtPlaces
    <3> QED BY <1>2, <1>3, <2>1, <3>1, <3>2
  <2>2. CASE i - n \in At(x, f) /\ i \in Nat
    <3>1. (i + 1) - n = (i - n) + 1 /\ i + 1 \notin 1..n /\ i < n + k
      BY <1>0, <1>4, <2>2
    <3>2. i + 1 \notin At(d, f)
      BY <1>0, <3>1, AtPlaces
    <3> QED BY <1>2, <1>4, <2>2, <3>1, <3>2
  <2> QED BY <1>2, <2>1, <2>2
<1>6. EngineValue(b, f) = IF At(b, f) = {} THEN NoValue ELSE b[Max(At(b, f)) + 1]
  <2>1. Heads(b, f) = At(b, f)
    BY <1>1, <1>5, HeadsOf
  <2>2. {i \in At(b, f) : i < Len(b)} = At(b, f)
    BY <1>1, <1>5
  <2> QED BY <2>1, <2>2 DEF EngineValue
<1>7. ASSUME NEW m \in At(b, f), \A j \in At(b, f) : j <= m PROVE Max(At(b, f)) = m
  <2>0. At(b, f) \in SUBSET Nat
    BY <1>1, AtPlaces
  <2>1. \E i \in At(b, f) : \A j \in At(b, f) : i >= j
    BY <1>7, <2>0
  <2>2. Max(At(b, f)) \in At(b, f) /\ \A j \in At(b, f) : Max(At(b, f)) >= j
    BY <2>1, Zenon DEF Max
  <2> HIDE DEF Max
  <2> QED BY <1>7, <2>0, <2>2
<1>8. CASE At(x, f) # {}
  <2>1. PICK i : i \in At(x, f)
    BY <1>8
  <2>2. i \in 1..k /\ n + i \in Nat /\ (n + i) - n = i /\ (n + i) + 1 = n + (i + 1)
    BY <1>0, <1>4, <2>1
  <2>3. n + i \in At(b, f)
    BY <1>2, <2>1, <2>2
  <2>4. ASSUME NEW j \in At(b, f) PROVE j <= n + i
    <3>1. CASE j \in At(d, f)
      <4>1. j \in 1..n
        BY <1>3, <3>1
      <4> QED BY <1>0, <2>2, <4>1
    <3>2. CASE j - n \in At(x, f) /\ j \in Nat
      <4>1. j - n = i
        BY <1>4, <2>1, <3>2
      <4> QED BY <1>0, <2>2, <3>2, <4>1
    <3> QED BY <1>2, <3>1, <3>2
  <2>5. Max(At(b, f)) = n + i
    BY <1>7, <2>3, <2>4
  <2>6. ValueOf(x, f) # NoValue
    BY <1>8, NoneNamed
  <2>7. b[(n + i) + 1] = ValueOf(x, f)
    BY <1>4, <2>1, <2>2
  <2> HIDE DEF Max
  <2> QED BY <1>6, <2>3, <2>5, <2>6, <2>7 DEF b
<1>9. CASE At(x, f) = {} /\ At(d, f) # {}
  <2>1. PICK i : i \in At(d, f)
    BY <1>9
  <2>2. At(b, f) = {i} /\ i \in Nat
    BY <1>2, <1>3, <1>9, <2>1
  <2>3. Max(At(b, f)) = i
    BY <1>7, <2>2
  <2>4. ValueOf(x, f) = NoValue
    BY <1>9, NoneNamed
  <2>5. b[i + 1] = ValueOf(d, f)
    BY <1>3, <2>1
  <2> HIDE DEF Max
  <2> QED BY <1>6, <2>2, <2>3, <2>4, <2>5 DEF b
<1>10. CASE At(x, f) = {} /\ At(d, f) = {}
  <2>1. At(b, f) = {}
    BY <1>2, <1>10
  <2>2. ValueOf(x, f) = NoValue /\ ValueOf(d, f) = NoValue
    BY <1>10, NoneNamed
  <2> HIDE DEF Max
  <2> QED BY <1>6, <2>1, <2>2 DEF b
<1> QED BY <1>8, <1>9, <1>10

-----------------------------------------------------------------------------
(* What a stage tries, and what it was counted as.                         *)

LEMMA ListIs ==
    ASSUME NEW stage \in Stages
    PROVE  /\ IsList(Lists[stage]) /\ Len(Lists[stage]) \in Nat /\ DOMAIN Lists[stage] = 1..Len(Lists[stage])
           /\ \A i \in 1..Len(Lists[stage]) : Lists[stage][i] \in Range(Lists[stage])
           /\ \A v \in Range(Lists[stage]) :
                /\ \E i \in 1..Len(Lists[stage]) : v = Lists[stage][i]
                /\ stage # "spec" => IsValue(v)
                /\ stage \in {"batch", "ubatch"} => v \in DOMAIN Number /\ Number[v] \in Nat
<1>1. /\ Lists[stage] \in Seq(Range(Lists[stage]))
      /\ stage # "spec" => \A value \in Range(Lists[stage]) : IsValue(value)
      /\ stage \in {"batch", "ubatch"} => Range(Lists[stage]) \subseteq DOMAIN Number
  BY ListsAssumption, StageFlags
<1>2. IsList(Lists[stage])
  BY <1>1 DEF IsList
<1>3. \A token \in DOMAIN Number : Number[token] \in Nat
  BY TokensAssumption
<1>4. Len(Lists[stage]) \in Nat /\ DOMAIN Lists[stage] = 1..Len(Lists[stage])
  BY <1>2, ListPlaces
<1>5. \A v : v \in Range(Lists[stage]) <=> \E i \in 1..Len(Lists[stage]) : v = Lists[stage][i]
  BY <1>4, Zenon DEF Range
<1> QED BY <1>1, <1>2, <1>3, <1>4, <1>5

\* Two lines that carry the same flags of a stage are changed by the same values.
LEMMA AsBefore ==
    ASSUME NEW a, WellFormed(a), NEW b, WellFormed(b), NEW stage \in Stages,
           \A f \in FlagsOf[stage] : ValueOf(a, f) = ValueOf(b, f)
    PROVE  /\ \A value : (stage # "spec" => IsValue(value)) =>
                (ApplyValue(stage, a, value) = a <=> ApplyValue(stage, b, value) = b)
           /\ IncumbentValue(stage, a) = IncumbentValue(stage, b)
<1>1. ASSUME NEW value, stage # "spec" => IsValue(value)
      PROVE  ApplyValue(stage, a, value) = a <=> ApplyValue(stage, b, value) = b
  <2>1. Holds(ApplyValue(stage, a, value), a, stage, value) /\ Holds(ApplyValue(stage, b, value), b, stage, value)
    BY <1>1, AppliedIs
  <2> QED BY <2>1 DEF Holds
<1>2. CASE stage = "spec"
  <2>1. ValueOf(a, "SpecType") = ValueOf(b, "SpecType") /\ ValueOf(a, "SpecDraftNMax") = ValueOf(b, "SpecDraftNMax")
    BY <1>2, StageFlags
  <2>2. SpecIncumbent(a) = SpecIncumbent(b)
    <3> DEFINE Read(type, length) ==
                 IF type # "draft-mtp" THEN EngineDefault.spec
                 ELSE LET drafts == {d \in DOMAIN DraftLength :
                                       DraftLength[d] = IF length \in DOMAIN Number THEN length ELSE "3"}
                      IN  IF drafts = {} THEN "mtp:?" ELSE CHOOSE d \in drafts : TRUE
    <3>1. /\ SpecIncumbent(a) = Read(ValueOf(a, "SpecType"), ValueOf(a, "SpecDraftNMax"))
          /\ SpecIncumbent(b) = Read(ValueOf(b, "SpecType"), ValueOf(b, "SpecDraftNMax"))
      BY DEF SpecIncumbent
    <3> HIDE DEF Read
    <3> QED BY <2>1, <3>1
  <2> QED BY <1>1, <1>2, <2>2 DEF IncumbentValue
<1>3. CASE stage # "spec"
  <2>1. FlagOf[stage] \in FlagsOf[stage]
    BY <1>3, StageFlags DEF FlagOf, Stages
  <2>2. ValueOf(a, FlagOf[stage]) = ValueOf(b, FlagOf[stage])
    BY <2>1
  <2> QED BY <1>1, <1>3, <2>2, Zenon DEF IncumbentValue
<1> QED BY <1>2, <1>3

\* The widest batch that may win is a number no other batch exceeds.
LEMMA WidestIs ==
    ASSUME NEW flags, Plain(flags)
    PROVE  LET w == WidestBatch(flags, Lists)
           IN  /\ IsValue(w) /\ w \in DOMAIN Number /\ Number[w] \in Nat
               /\ IncumbentBatch(flags) \in Nat /\ IncumbentBatch(flags) <= Number[w]
               /\ \A v \in Range(Lists["batch"]) : Number[v] <= Number[w]
<1> DEFINE batches == Lists["batch"]
           n == Len(batches)
           value == ValueOf(flags, "BatchSize")
           current == IncumbentValue("batch", flags)
           widths == {current} \cup Range(batches)
           w == WidestBatch(flags, Lists)
<1>1. /\ IsList(batches) /\ n \in Nat /\ \A i \in 1..n : batches[i] \in Range(batches)
      /\ \A v \in Range(batches) : IsValue(v) /\ v \in DOMAIN Number /\ \E i \in 1..n : v = batches[i]
  BY ListIs DEF Stages
<1>2. /\ \A token \in DOMAIN Number : Number[token] \in Nat
      /\ "2048" \in DOMAIN Number /\ Number["2048"] = EngineDefaultBatch /\ NoValue \notin DOMAIN Number
  BY TokensAssumption
<1>3. IsValue("2048")
  <2>1. \A f \in Flags : ~Spells("2048", f)
    BY FlagNames
  <2> QED BY <1>2, <2>1 DEF IsValue, Flags
<1>4. current = IF value = NoValue THEN "2048" ELSE value
  BY DEF IncumbentValue, FlagOf, EngineDefault
<1>5. value # NoValue => IsValue(value) /\ value \in DOMAIN Number
  <2>1. "BatchSize" \in Flags
    BY FlagNames
  <2> QED BY <2>1, ValueIs DEF Plain
<1> HIDE DEF value, current
<1>6. IsValue(current) /\ current \in DOMAIN Number /\ IncumbentBatch(flags) = Number[current]
  <2>1. CASE value = NoValue
    BY <1>2, <1>3, <1>4, <2>1 DEF IncumbentBatch, Parsed, value
  <2>2. CASE value # NoValue
    BY <1>4, <1>5, <2>2 DEF IncumbentBatch, Parsed, value
  <2> QED BY <2>1, <2>2
<1>7. \A v \in widths : v \in DOMAIN Number /\ IsValue(v) /\ Parsed(v, 0) = Number[v] /\ Number[v] \in Nat
  BY <1>1, <1>2, <1>6 DEF Parsed
<1>8. w = CHOOSE x \in widths : \A v \in widths : Parsed(v, 0) <= Parsed(x, 0)
  BY DEF WidestBatch, current
<1>9. \E x \in widths : \A v \in widths : Number[v] <= Number[x]
  <2>1. CASE n = 0
    <3>1. widths = {current}
      BY <1>1, <2>1
    <3> HIDE DEF widths
    <3> QED BY <1>7, <3>1
  <2>2. CASE n # 0
    <3> DEFINE g == [i \in 1..n |-> Number[batches[i]]]
    <3>1. \A i \in 1..n : g[i] = Number[batches[i]] /\ g[i] \in Int
      BY <1>1, <1>2
    <3> HIDE DEF g
    <3>2. 1..n # {} /\ 1..n \in SUBSET (1..n)
      BY <1>1, <2>2
    <3>3. PICK i \in 1..n : \A j \in 1..n : g[j] <= g[i]
      BY <1>1, <3>1, <3>2, HighestOf, Zenon
    <3>4. \A v \in Range(batches) : Number[v] <= Number[batches[i]]
      BY <1>1, <3>1, <3>3
    <3>5. batches[i] \in widths /\ current \in widths /\ Number[batches[i]] \in Nat /\ Number[current] \in Nat
      BY <1>1, <1>7
    <3>6. CASE Number[current] <= Number[batches[i]]
      BY <3>4, <3>5, <3>6
    <3>7. CASE Number[batches[i]] <= Number[current]
      <4>1. ASSUME NEW v \in widths PROVE Number[v] <= Number[current]
        BY <1>7, <3>4, <3>5, <3>7
      <4> QED BY <3>5, <4>1
    <3> QED BY <3>5, <3>6, <3>7
  <2> QED BY <2>1, <2>2
<1>10. w \in widths /\ \A v \in widths : Parsed(v, 0) <= Parsed(w, 0)
  <2>1. \E x \in widths : \A v \in widths : Parsed(v, 0) <= Parsed(x, 0)
    BY <1>7, <1>9
  <2> HIDE DEF widths, w
  <2> QED BY <1>8, <2>1, Zenon
<1> HIDE DEF w
<1>11. current \in widths /\ \A v \in Range(batches) : v \in widths
  OBVIOUS
<1> HIDE DEF widths
<1>12. w \in DOMAIN Number /\ IsValue(w) /\ \A v \in widths : Number[v] <= Number[w]
  BY <1>7, <1>10
<1> QED BY <1>2, <1>6, <1>11, <1>12 DEF w

\* What an incumbent is tried against was counted: only the batch may differ.
LEMMA CountedIs ==
    ASSUME NEW flags, Plain(flags), NEW stages, NEW stage \in Stages, NEW a, WellFormed(a),
           \A f \in FlagsOf[stage] : ValueOf(a, f) = ValueOf(flags, f),
           \/ ValueOf(a, "BatchSize") = ValueOf(flags, "BatchSize")
           \/ "batch" \in Range(stages) /\ ValueOf(a, "BatchSize") \in Range(Lists["batch"]),
           NEW value \in Range(Lists[stage]), IsCandidate(stage, a, value)
    PROVE  IsCandidate(stage, CountedAgainst(stage, stages, flags, Lists), value)
<1> DEFINE counted == CountedAgainst(stage, stages, flags, Lists)
           w == WidestBatch(flags, Lists)
<1>1. WellFormed(flags) /\ (stage # "spec" => IsValue(value))
  BY ListIs DEF Plain
<1>2. Offers(stage, a, value) /\ ApplyValue(stage, a, value) # a /\ value # IncumbentValue(stage, a)
  BY DEF IsCandidate
<1>3. CASE stage # "ubatch"
  <2>1. counted = flags
    BY <1>3 DEF CountedAgainst
  <2>2. Offers(stage, flags, value)
    BY <1>3 DEF Offers
  <2>3. ApplyValue(stage, flags, value) # flags /\ value # IncumbentValue(stage, flags)
    BY <1>1, <1>2, AsBefore
  <2>4. IsCandidate(stage, flags, value)
    BY <2>2, <2>3 DEF IsCandidate
  <2> QED BY <2>1, <2>4
<1>4. CASE stage = "ubatch"
  <2>1. Number[value] <= IncumbentBatch(a) /\ Number[value] \in Nat
    BY <1>2, <1>4, ListIs DEF Offers
  <2>2. CASE "batch" \notin Range(stages)
    <3>1. counted = flags
      BY <2>2 DEF CountedAgainst
    <3>2. IncumbentBatch(a) = IncumbentBatch(flags)
      BY <2>2 DEF IncumbentBatch
    <3>3. Offers(stage, flags, value)
      BY <2>1, <3>2 DEF Offers
    <3>4. ApplyValue(stage, flags, value) # flags /\ value # IncumbentValue(stage, flags)
      BY <1>1, <1>2, AsBefore
    <3>5. IsCandidate(stage, flags, value)
      BY <3>3, <3>4 DEF IsCandidate
    <3> QED BY <3>1, <3>5
  <2>3. CASE "batch" \in Range(stages)
    <3>1. /\ IsValue(w) /\ w \in DOMAIN Number /\ Number[w] \in Nat
          /\ IncumbentBatch(flags) \in Nat /\ IncumbentBatch(flags) <= Number[w]
          /\ \A v \in Range(Lists["batch"]) : Number[v] <= Number[w]
      BY WidestIs
    <3> DEFINE b == Rewrite(flags, "BatchSize", w)
    <3>2. counted = b
      BY <1>4, <2>3 DEF CountedAgainst
    <3> HIDE DEF w
    <3>3. WellFormed(b) /\ ValueOf(b, "BatchSize") = w /\ ValueOf(b, "UbatchSize") = ValueOf(flags, "UbatchSize")
      <4>1. "BatchSize" \in Flags /\ "UbatchSize" \in Flags \ {"BatchSize"}
        BY FlagNames
      <4> QED BY <1>1, <3>1, <4>1, RewriteIs
    <3> HIDE DEF b
    <3>4. \A f \in FlagsOf[stage] : ValueOf(a, f) = ValueOf(b, f)
      BY <1>4, <3>3, StageFlags
    <3>5. ApplyValue(stage, b, value) # b /\ value # IncumbentValue(stage, b)
      BY <1>1, <1>2, <3>3, <3>4, AsBefore
    <3>6. IncumbentBatch(b) = Number[w]
      BY <3>1, <3>3 DEF IncumbentBatch, Parsed
    <3>7. IncumbentBatch(a) \in Nat /\ IncumbentBatch(a) <= Number[w]
      <4>1. CASE ValueOf(a, "BatchSize") = ValueOf(flags, "BatchSize")
        <5>1. IncumbentBatch(a) = IncumbentBatch(flags)
          BY <4>1 DEF IncumbentBatch
        <5> QED BY <3>1, <5>1
      <4>2. CASE ValueOf(a, "BatchSize") \in Range(Lists["batch"])
        <5> DEFINE v == ValueOf(a, "BatchSize")
        <5>1. v \in DOMAIN Number /\ Number[v] \in Nat
          BY <4>2, ListIs DEF Stages
        <5>2. IncumbentBatch(a) = Number[v]
          BY <5>1 DEF IncumbentBatch, Parsed
        <5> QED BY <3>1, <4>2, <5>1, <5>2
      <4> QED BY <4>1, <4>2
    <3>8. Offers(stage, b, value)
      BY <2>1, <3>1, <3>6, <3>7 DEF Offers
    <3>9. IsCandidate(stage, b, value)
      BY <3>5, <3>8 DEF IsCandidate
    <3> QED BY <3>2, <3>9
  <2> QED BY <2>2, <2>3
<1> QED BY <1>3, <1>4

\* The values of a stage that are tried are the candidates on its list ...
LEMMA PlannedIs ==
    ASSUME NEW stage \in Stages, NEW argv
    PROVE  /\ IsList(Planned(stage, argv, Lists))
           /\ \A k \in 1..Len(Planned(stage, argv, Lists)) :
                LET v == Planned(stage, argv, Lists)[k]
                IN  v \in Range(Lists[stage]) /\ IsCandidate(stage, argv, v)
<1> DEFINE list == Lists[stage]
           n == Len(list)
           ps == [i \in DOMAIN list |-> IF IsCandidate(stage, argv, list[i]) THEN <<list[i]>> ELSE <<>>]
<1>1. IsList(list) /\ n \in Nat /\ DOMAIN list = 1..n /\ \A i \in 1..n : list[i] \in Range(list)
  BY ListIs
<1>2. Planned(stage, argv, Lists) = FlattenSeq(ps)
  BY DEF Planned
<1>3. \A i \in 1..n : ps[i] = IF IsCandidate(stage, argv, list[i]) THEN <<list[i]>> ELSE <<>>
  BY <1>1
<1>4. ps = [i \in 1..n |-> ps[i]]
  BY <1>1
<1> HIDE DEF ps, list, n
<1>5. IsList(ps) /\ Len(ps) = n
  BY <1>1, <1>4, Built
<1>6. ASSUME NEW i \in 1..n
      PROVE  IsList(ps[i]) /\ \A j \in 1..Len(ps[i]) : ps[i][j] \in Range(list) /\ IsCandidate(stage, argv, ps[i][j])
  <2>1. CASE IsCandidate(stage, argv, list[i])
    <3>1. ps[i] = <<list[i]>>
      BY <1>3, <2>1
    <3>2. IsList(<<list[i]>>) /\ Len(<<list[i]>>) = 1 /\ <<list[i]>>[1] = list[i]
      BY One
    <3> QED BY <1>1, <2>1, <3>1, <3>2
  <2>2. CASE ~IsCandidate(stage, argv, list[i])
    <3>1. ps[i] = <<>> /\ IsList(<<>>) /\ Len(<<>>) = 0
      BY <1>3, <2>2, NoList
    <3> QED BY <3>1
  <2> QED BY <2>1, <2>2
<1> DEFINE out == FlattenSeq(ps)
<1>7. /\ IsList(out)
      /\ \A k \in 1..Len(out) : \E i \in 1..n : \E j \in 1..Len(ps[i]) : out[k] = ps[i][j]
  BY <1>5, <1>6, FlattenHas
<1> HIDE DEF out
<1>8. \A k \in 1..Len(out) : out[k] \in Range(list) /\ IsCandidate(stage, argv, out[k])
  BY <1>6, <1>7
<1> QED BY <1>2, <1>7, <1>8 DEF out, list

\* ... and fewer of them are tried where fewer are candidates.
LEMMA PlannedFewer ==
    ASSUME NEW stage \in Stages, NEW a, NEW b,
           \A v \in Range(Lists[stage]) : IsCandidate(stage, a, v) => IsCandidate(stage, b, v)
    PROVE  /\ Len(Planned(stage, a, Lists)) \in Nat /\ Len(Planned(stage, b, Lists)) \in Nat
           /\ Len(Planned(stage, a, Lists)) <= Len(Planned(stage, b, Lists))
<1> DEFINE list == Lists[stage]
           n == Len(list)
           p(argv) == [i \in DOMAIN list |-> IF IsCandidate(stage, argv, list[i]) THEN <<list[i]>> ELSE <<>>]
           sized(argv, c) == /\ c[0] = 0 /\ (\A i \in 0..n : c[i] \in Nat)
                             /\ \A i \in 1..n : c[i] = c[i - 1] + (IF IsCandidate(stage, argv, list[i]) THEN 1 ELSE 0)
                             /\ c[n] = Len(Planned(stage, argv, Lists))
<1>1. IsList(list) /\ n \in Nat /\ DOMAIN list = 1..n /\ \A i \in 1..n : list[i] \in Range(list)
  BY ListIs
<1>2. ASSUME NEW argv PROVE \E c : sized(argv, c)
  <2> DEFINE ps == p(argv)
  <2>1. Planned(stage, argv, Lists) = FlattenSeq(ps)
    BY DEF Planned
  <2>2. /\ \A i \in 1..n : ps[i] = IF IsCandidate(stage, argv, list[i]) THEN <<list[i]>> ELSE <<>>
        /\ ps = [i \in 1..n |-> ps[i]]
    BY <1>1
  <2> HIDE DEF ps, list, n
  <2>3. IsList(ps) /\ Len(ps) = n
    BY <1>1, <2>2, Built
  <2>4. ASSUME NEW i \in 1..n
        PROVE  IsList(ps[i]) /\ Len(ps[i]) = IF IsCandidate(stage, argv, list[i]) THEN 1 ELSE 0
    <3>1. CASE IsCandidate(stage, argv, list[i])
      <4>1. ps[i] = <<list[i]>>
        BY <2>2, <3>1
      <4>2. IsList(<<list[i]>>) /\ Len(<<list[i]>>) = 1
        BY One
      <4> QED BY <3>1, <4>1, <4>2
    <3>2. CASE ~IsCandidate(stage, argv, list[i])
      <4>1. ps[i] = <<>> /\ IsList(<<>>) /\ Len(<<>>) = 0
        BY <2>2, <3>2, NoList
      <4> QED BY <3>2, <4>1
    <3> QED BY <3>1, <3>2
  <2>5. PICK c : /\ c[0] = 0 /\ (\A i \in 0..n : c[i] \in Nat)
                 /\ \A i \in 1..n : c[i] = c[i - 1] + Len(ps[i])
                 /\ c[n] = Len(FlattenSeq(ps))
    <3>1. \A i \in 1..Len(ps) : IsList(ps[i])
      BY <2>3, <2>4
    <3> QED BY <2>3, <3>1, FlattenLen
  <2>6. \A i \in 1..n : c[i] = c[i - 1] + (IF IsCandidate(stage, argv, list[i]) THEN 1 ELSE 0)
    BY <2>4, <2>5
  <2>7. sized(argv, c)
    BY <2>1, <2>5, <2>6
  <2> QED BY <2>7
<1>3. PICK c : sized(a, c)
  BY <1>2
<1>4. PICK d : sized(b, d)
  BY <1>2
<1>5. /\ c[0] = 0 /\ d[0] = 0 /\ (\A i \in 0..n : c[i] \in Nat /\ d[i] \in Nat)
      /\ \A i \in 1..n : /\ c[i] = c[i - 1] + (IF IsCandidate(stage, a, list[i]) THEN 1 ELSE 0)
                         /\ d[i] = d[i - 1] + (IF IsCandidate(stage, b, list[i]) THEN 1 ELSE 0)
      /\ c[n] = Len(Planned(stage, a, Lists)) /\ d[n] = Len(Planned(stage, b, Lists))
  BY <1>3, <1>4
<1>6. \A i \in 1..n : IsCandidate(stage, a, list[i]) => IsCandidate(stage, b, list[i])
  BY <1>1
<1> HIDE DEF n, list
<1> DEFINE Bad == {i \in 0..n : ~(c[i] <= d[i])}
<1>7. Bad = {}
  <2> SUFFICES ASSUME Bad # {} PROVE FALSE
    OBVIOUS
  <2> DEFINE m == Min(Bad)
  <2>1. m \in Bad /\ \A k \in Bad : m <= k
    <3>1. Bad \in SUBSET Nat
      BY <1>1
    <3> QED BY <3>1, LeastOf
  <2> HIDE DEF m
  <2>2. m \in 0..n /\ ~(c[m] <= d[m])
    BY <2>1
  <2>3. m # 0
    BY <1>5, <2>2
  <2>4. m \in 1..n /\ m - 1 \in 0..n /\ ~(m <= m - 1)
    BY <1>1, <2>2, <2>3
  <2>5. c[m - 1] <= d[m - 1]
    BY <2>1, <2>4
  <2>6. /\ c[m] = c[m - 1] + (IF IsCandidate(stage, a, list[m]) THEN 1 ELSE 0)
        /\ d[m] = d[m - 1] + (IF IsCandidate(stage, b, list[m]) THEN 1 ELSE 0)
        /\ c[m - 1] \in Nat /\ d[m - 1] \in Nat
    BY <1>5, <2>4
  <2>7. CASE IsCandidate(stage, a, list[m])
    BY <1>6, <2>2, <2>4, <2>5, <2>6, <2>7
  <2>8. CASE ~IsCandidate(stage, a, list[m])
    BY <2>2, <2>5, <2>6, <2>8
  <2> QED BY <2>7, <2>8
<1>8. n \in 0..n
  BY <1>1
<1>9. c[n] <= d[n] /\ c[n] \in Nat /\ d[n] \in Nat
  BY <1>5, <1>7, <1>8
<1> QED BY <1>5, <1>9

\* What each stage of a run was counted as.
PlanFor(r, i) == Planned(r.stages[i], CountedAgainst(r.stages[i], r.stages, r.flags, Lists), Lists)

\* c[i]: what the first i stages were counted as.
Sums(r, c) ==
    /\ c[0] = 0 /\ \A i \in 0..Len(r.stages) : c[i] \in Nat
    /\ \A i \in 1..Len(r.stages) : c[i] = c[i - 1] + Len(PlanFor(r, i))
    /\ r.ceiling = 1 + c[Len(r.stages)]

LEMMA CeilingIs ==
    ASSUME NEW r, Rising(r.stages), ~r.gated, r.ceiling = MaxLaunches(r.stages, r.gated, r.flags, Lists)
    PROVE  \E c : Sums(r, c)
<1> DEFINE n == Len(r.stages)
           ps == [i \in DOMAIN r.stages |->
                    IF r.stages[i] = "spec" /\ r.gated THEN <<>>
                    ELSE Planned(r.stages[i], CountedAgainst(r.stages[i], r.stages, r.flags, Lists), Lists)]
<1>1. r.stages \in Seq(Stages) /\ n \in Nat /\ DOMAIN r.stages = 1..n
  BY DEF Rising
<1>2. r.ceiling = 1 + Len(FlattenSeq(ps))
  BY DEF MaxLaunches
<1>3. \A i \in 1..n : ps[i] = PlanFor(r, i)
  BY <1>1 DEF PlanFor
<1>4. ps = [i \in 1..n |-> ps[i]]
  BY <1>1
<1> HIDE DEF ps
<1>5. IsList(ps) /\ Len(ps) = n
  <2> HIDE DEF n
  <2> QED BY <1>1, <1>4, Built
<1>6. \A i \in 1..n : IsList(ps[i])
  BY <1>1, <1>3, PlannedIs DEF PlanFor
<1>7. PICK c : /\ c[0] = 0 /\ (\A i \in 0..n : c[i] \in Nat)
               /\ \A i \in 1..n : c[i] = c[i - 1] + Len(ps[i])
               /\ c[n] = Len(FlattenSeq(ps))
  <2>1. \A i \in 1..Len(ps) : IsList(ps[i])
    BY <1>5, <1>6
  <2> HIDE DEF n
  <2> QED BY <1>5, <2>1, FlattenLen
<1>8. Sums(r, c)
  BY <1>2, <1>3, <1>7 DEF Sums
<1> QED BY <1>8

\* Every stage adds to what the stages before it were counted as.
LEMMA SumsRise ==
    ASSUME NEW r, Rising(r.stages), NEW c, Sums(r, c), NEW k \in 0..Len(r.stages)
    PROVE  1 + c[k] <= r.ceiling
<1> DEFINE n == Len(r.stages)
           Bad == {m \in 0..n : ~(c[n - m] <= c[n])}
<1>1. n \in Nat /\ r.stages \in Seq(Stages)
  BY DEF Rising
<1>2. /\ \A i \in 0..n : c[i] \in Nat
      /\ \A i \in 1..n : c[i] = c[i - 1] + Len(PlanFor(r, i))
      /\ r.ceiling = 1 + c[n]
  BY DEF Sums
<1>3. ASSUME NEW i \in 1..n PROVE Len(PlanFor(r, i)) \in Nat
  <2>1. r.stages[i] \in Stages
    BY <1>1
  <2>2. IsList(PlanFor(r, i))
    BY <2>1, PlannedIs DEF PlanFor
  <2> QED BY <2>2, ListPlaces
<1> HIDE DEF n
<1>4. Bad = {}
  <2> SUFFICES ASSUME Bad # {} PROVE FALSE
    OBVIOUS
  <2> DEFINE m == Min(Bad)
  <2>1. m \in Bad /\ \A j \in Bad : m <= j
    <3>1. Bad \in SUBSET Nat
      BY <1>1
    <3> QED BY <3>1, LeastOf
  <2> HIDE DEF m
  <2>2. m \in 0..n /\ ~(c[n - m] <= c[n])
    BY <2>1
  <2>3. m # 0
    BY <1>1, <1>2, <2>2
  <2>4. m - 1 \in 0..n /\ ~(m <= m - 1) /\ n - (m - 1) \in 1..n /\ (n - (m - 1)) - 1 = n - m /\ n - m \in 0..n
    BY <1>1, <2>2, <2>3
  <2>5. c[n - (m - 1)] <= c[n]
    BY <2>1, <2>4
  <2>6. c[n - (m - 1)] = c[n - m] + Len(PlanFor(r, n - (m - 1))) /\ Len(PlanFor(r, n - (m - 1))) \in Nat
    BY <1>2, <1>3, <2>4
  <2>7. c[n - m] \in Nat /\ n \in 0..n
    BY <1>1, <1>2, <2>4
  <2>8. c[n] \in Nat
    BY <1>2, <2>7
  <2> QED BY <2>2, <2>5, <2>6, <2>7, <2>8
<1>5. k \in 0..n /\ n - k \in 0..n /\ n - (n - k) = k
  BY <1>1 DEF n
<1>6. c[k] <= c[n]
  BY <1>4, <1>5
<1>7. n \in 0..n
  BY <1>1
<1>8. c[k] \in Nat /\ c[n] \in Nat
  BY <1>2, <1>5, <1>7
<1> QED BY <1>2, <1>6, <1>8

-----------------------------------------------------------------------------
(* The lines of a run.                                                     *)

\* A line of a run whose stages up to the m-th of the order have begun: no flag
\* of the first line is lost, but for drafts, no later stage has touched it,
\* and its batch is the first line's or one on the list.
Line(r, m, a) ==
    /\ WellFormed(a)
    /\ ValueOf(a, "SpecType") = NoValue => ValueOf(a, "SpecDraftNMax") = NoValue
    /\ \A f \in Flags : ValueOf(a, f) = NoValue =>
            \/ ValueOf(r.flags, f) = NoValue
            \/ f \in FlagsOf["spec"] /\ ValueOf(a, "SpecType") = NoValue
    /\ \A stage \in Stages : Place(stage) > m => \A f \in FlagsOf[stage] : ValueOf(a, f) = ValueOf(r.flags, f)
    /\ \/ ValueOf(a, "BatchSize") = ValueOf(r.flags, "BatchSize")
       \/ "batch" \in Range(r.stages) /\ ValueOf(a, "BatchSize") \in Range(Lists["batch"])

\* Every trial ran such a line ...
Lined(r) == \A i \in DOMAIN r.trials : Line(r, Reached(r), r.trials[i].argv)

\* ... and every candidate changed the one that it was tried against.
Moves(trials) ==
    /\ \A i \in DOMAIN trials : WellFormed(trials[i].argv)
    /\ \A i \in 2..Len(trials) :
         LET t == trials[i]
         IN  /\ t.stage \in Stages /\ (t.stage # "spec" => IsValue(t.value))
             /\ t.argv # StartOf(trials, t).argv /\ WellFormed(StartOf(trials, t).argv)

\* A value that the stage under way tries.
Choice(r, value) ==
    value \in Range(Lists[r.stages[r.at]]) /\ IsCandidate(r.stages[r.at], r.incumbent.argv, value)

Queued(r) == IsList(r.queue) /\ \A k \in 1..Len(r.queue) : Choice(r, r.queue[k])

\* What has been launched, and what may be before the stage is over.
Within(r, more) ==
    /\ r.launches \in Nat
    /\ ~r.gated => \E c : Sums(r, c) /\ r.launches + Len(r.queue) + more <= 1 + c[r.at]

\* The first line is the defaults with the model's own flags behind them.
Behind(flags, extras) ==
    /\ WellFormed(Defaults) /\ WellFormed(extras) /\ flags = Effective(extras)
    /\ \A f \in FlagsOf["spec"] : ValueOf(Defaults, f) = NoValue

Due(p) == IF p \in {"confirm", "baseline", "start"} THEN 1 ELSE 0

\* What the run holds apart from what it has launched.
Meant(r) == Plain(r.flags) /\ Lined(r) /\ Moves(r.trials) /\ Queued(r)

LPhase(p, r, extras) ==
    /\ p # "idle" => Meant(r) /\ Within(r, Due(p))
    /\ p \in Trials /\ r.at # 0 => Choice(r, r.candidate.value)
    /\ p \notin {"idle", "applied"} => Behind(r.flags, extras)
    /\ p \in Over => r.trials # <<>>
    /\ p = "apply" => r.winner # NoValue

LInv ==
    /\ LPhase(pc, run, extra)
    /\ disk.is = "written" => Moves(disk.trials)
    /\ AppliedRunsWinner

\* The first line is one of them.
LEMMA FirstLine ==
    ASSUME NEW r, Plain(r.flags), NEW m
    PROVE  Line(r, m, r.flags)
BY DEF Line, Plain

LEMMA LineLater ==
    ASSUME NEW r, NEW m \in 0..5, NEW a, Line(r, m, a), NEW s, s.flags = r.flags, s.stages = r.stages,
           NEW n \in 0..5, m <= n
    PROVE  Line(s, n, a)
<1>1. ASSUME NEW stage \in Stages, Place(stage) > n PROVE Place(stage) > m
  <2>1. Place(stage) \in 1..5
    BY Places
  <2> QED BY <1>1, <2>1
<1> QED BY <1>1 DEF Line

\* A value of the stage under way leads from one such line to another.
LEMMA LineApplied ==
    ASSUME NEW r, NEW m \in 1..5, NEW a, Line(r, m, a), Order[m] \in Range(r.stages),
           NEW value \in Range(Lists[Order[m]])
    PROVE  Line(r, m, ApplyValue(Order[m], a, value))
<1> DEFINE stage == Order[m]
           b == ApplyValue(stage, a, value)
<1>1. stage \in Stages /\ Place(stage) = m
  BY Places
<1>2. stage # "spec" => IsValue(value)
  BY <1>1, ListIs
<1>3. WellFormed(a)
  BY DEF Line
<1> HIDE DEF stage
<1>4. Holds(b, a, stage, value)
  BY <1>1, <1>2, <1>3, AppliedIs
<1> HIDE DEF b
<1>5. /\ WellFormed(b)
      /\ \A f \in FlagsOf[stage] : ValueOf(b, f) = Given(stage, value, f)
      /\ \A f \in Flags \ FlagsOf[stage] : ValueOf(b, f) = ValueOf(a, f)
  BY <1>4 DEF Holds
<1>6. "SpecType" \in Flags /\ "SpecDraftNMax" \in Flags /\ "BatchSize" \in Flags
  BY FlagNames
<1>7. IsValue("draft-mtp") /\ \A draft \in DOMAIN DraftLength : IsValue(DraftLength[draft])
  <2>1. \A f \in Flags : ~Spells("draft-mtp", f)
    BY FlagNames
  <2> QED BY <2>1, TokensAssumption DEF IsValue, Flags
<1>8. stage = "spec" => ValueOf(b, "SpecType") = Given(stage, value, "SpecType")
                        /\ ValueOf(b, "SpecDraftNMax") = Given(stage, value, "SpecDraftNMax")
  BY <1>5, StageFlags
<1>9. stage # "spec" => ValueOf(b, "SpecType") = ValueOf(a, "SpecType")
                        /\ ValueOf(b, "SpecDraftNMax") = ValueOf(a, "SpecDraftNMax")
  <2>1. stage # "spec" => "SpecType" \notin FlagsOf[stage] /\ "SpecDraftNMax" \notin FlagsOf[stage]
    BY <1>1, StageFlags DEF Stages
  <2> QED BY <1>5, <1>6, <2>1
<1>10. ValueOf(b, "SpecType") = NoValue => ValueOf(b, "SpecDraftNMax") = NoValue
  <2>1. CASE stage = "spec"
    BY <1>7, <1>8, <2>1 DEF Given, IsValue
  <2>2. CASE stage # "spec"
    BY <1>9, <2>2 DEF Line
  <2> QED BY <2>1, <2>2
<1>11. ASSUME NEW f \in Flags, ValueOf(b, f) = NoValue
       PROVE  ValueOf(r.flags, f) = NoValue \/ (f \in FlagsOf["spec"] /\ ValueOf(b, "SpecType") = NoValue)
  <2>1. CASE f \notin FlagsOf[stage]
    <3>1. ValueOf(a, f) = NoValue
      BY <1>5, <1>11, <2>1
    <3>2. \/ ValueOf(r.flags, f) = NoValue
          \/ f \in FlagsOf["spec"] /\ ValueOf(a, "SpecType") = NoValue
      BY <3>1 DEF Line
    <3>3. f \in FlagsOf["spec"] => stage # "spec"
      BY <2>1
    <3> QED BY <1>9, <3>2, <3>3
  <2>2. CASE f \in FlagsOf[stage]
    <3>1. Given(stage, value, f) = NoValue
      BY <1>5, <1>11, <2>2
    <3>2. CASE stage # "spec"
      <4>1. value = NoValue
        BY <3>1, <3>2 DEF Given
      <4> QED BY <1>2, <3>2, <4>1 DEF IsValue
    <3>3. CASE stage = "spec"
      <4>1. value \notin DOMAIN DraftLength
        BY <1>7, <3>1, <3>3 DEF Given, IsValue
      <4> QED BY <1>8, <2>2, <3>3, <4>1 DEF Given
    <3> QED BY <3>2, <3>3
  <2> QED BY <2>1, <2>2
<1>12. ASSUME NEW other \in Stages, Place(other) > m, NEW f \in FlagsOf[other]
       PROVE  ValueOf(b, f) = ValueOf(r.flags, f)
  <2>1. other # stage
    BY <1>1, <1>12
  <2>2. f \in Flags \ FlagsOf[stage]
    BY <1>1, <2>1, StageFlags
  <2> QED BY <1>5, <1>12, <2>2 DEF Line
<1>13. \/ ValueOf(b, "BatchSize") = ValueOf(r.flags, "BatchSize")
       \/ "batch" \in Range(r.stages) /\ ValueOf(b, "BatchSize") \in Range(Lists["batch"])
  <2>1. CASE stage = "batch"
    <3>1. ValueOf(b, "BatchSize") = value
      BY <1>5, <2>1, StageFlags DEF Given
    <3> QED BY <2>1, <3>1 DEF stage
  <2>2. CASE stage # "batch"
    <3>1. "BatchSize" \notin FlagsOf[stage]
      BY <1>1, <2>2, StageFlags DEF Stages
    <3> QED BY <1>5, <1>6, <3>1 DEF Line
  <2> QED BY <2>1, <2>2
<1>14. Line(r, m, b)
  BY <1>5, <1>10, <1>11, <1>12, <1>13 DEF Line
<1> QED BY <1>14 DEF b, stage

\* The line that stands, after any of the stages, is one of the trials'.
LEMMA StandsAs ==
    ASSUME NEW r, Kept(r), Lined(r), r.trials # <<>>, NEW m \in 0..5
    PROVE  Line(r, Reached(r), r.trials[StandsAfter(r.trials, m)].argv)
<1>1. StandsAfter(r.trials, m) \in DOMAIN r.trials
  BY StandsIn DEF Kept, Listed
<1> QED BY <1>1 DEF Lined

LEMMA MovesNone == Moves(<<>>)
<1>1. Len(<<>>) = 0 /\ DOMAIN <<>> = {} /\ 2..0 = {}
  BY NoList
<1> QED BY <1>1 DEF Moves

\* A candidate joins the trials.
LEMMA MovesMore ==
    ASSUME NEW trials, trials # <<>>, NEW flags, NEW m \in 1..5, NEW e, NEW longer,
           Listed(trials, flags, m), Moves(trials), Extends(longer, trials, e), e.stage = Order[m],
           WellFormed(e.argv), e.stage # "spec" => IsValue(e.value),
           e.argv # trials[StandsAfter(trials, m - 1)].argv
    PROVE  Moves(longer)
<1>1. IsList(trials) /\ \A i \in DOMAIN trials : trials[i].wins => Typed(trials[i].measured)
  BY DEF Listed
<1>2. Len(trials) \in Nat /\ DOMAIN trials = 1..Len(trials)
  BY <1>1, ListPlaces
<1>3. /\ IsList(longer) /\ Len(longer) = Len(trials) + 1
      /\ DOMAIN longer = DOMAIN trials \cup {Len(longer)}
      /\ \A i \in DOMAIN trials : longer[i] = trials[i]
      /\ longer[Len(longer)] = e
  BY <1>1 DEF Extends
<1>4. e.stage \in Stages /\ Place(e.stage) = m
  BY Places
<1>5. \A i \in 2..Len(longer) : i \in 2..Len(trials) \/ i = Len(longer)
  BY <1>2, <1>3
<1>6. \A i \in DOMAIN longer : WellFormed(longer[i].argv)
  <2>1. \A i \in DOMAIN trials : WellFormed(trials[i].argv)
    BY DEF Moves
  <2> QED BY <1>3, <2>1
<1>7. ASSUME NEW k \in 0..5, k < m
      PROVE  /\ longer[StandsAfter(longer, k)] = trials[StandsAfter(trials, k)]
             /\ WellFormed(trials[StandsAfter(trials, k)].argv)
  <2>1. \A n \in 1..k : e.stage # Order[n]
    <3>1. ASSUME NEW n \in 1..k PROVE e.stage # Order[n]
      <4>1. n \in 1..5 /\ n # m
        BY <1>7
      <4> QED BY <4>1, Places
    <3> QED BY <3>1
  <2>2. StandsAfter(trials, k) \in DOMAIN trials
    BY <1>1, StandsIn
  <2>3. longer[StandsAfter(longer, k)] = trials[StandsAfter(trials, k)]
    BY <1>1, <2>1, StandsKept, SMT
  <2> QED BY <2>2, <2>3 DEF Moves
<1>8. ASSUME NEW i \in 2..Len(longer)
      PROVE  LET t == longer[i]
             IN  /\ t.stage \in Stages /\ (t.stage # "spec" => IsValue(t.value))
                 /\ t.argv # StartOf(longer, t).argv /\ WellFormed(StartOf(longer, t).argv)
  <2> DEFINE k == Place(longer[i].stage) - 1
  <2>1. CASE i \in 2..Len(trials)
    <3>1. longer[i] = trials[i]
      BY <1>2, <1>3, <2>1
    <3>2. trials[i].stage \in Stages /\ Place(trials[i].stage) <= m
      BY <2>1 DEF Listed
    <3>3. k \in 0..5 /\ k < m
      <4>1. Place(trials[i].stage) \in 1..5
        BY <3>2, Places
      <4> QED BY <3>1, <3>2, <4>1
    <3> HIDE DEF k
    <3>4. longer[StandsAfter(longer, k)] = trials[StandsAfter(trials, k)]
      BY <1>7, <3>3
    <3>5. StartOf(longer, longer[i]) = StartOf(trials, trials[i])
      BY <3>1, <3>4 DEF StartOf, k
    <3> HIDE DEF StartOf
    <3> QED BY <2>1, <3>1, <3>5 DEF Moves
  <2>2. CASE i = Len(longer)
    <3>1. longer[i] = e
      BY <1>3, <2>2
    <3>2. k = m - 1 /\ k \in 0..5 /\ k < m
      BY <1>4, <3>1
    <3> HIDE DEF k
    <3>3. /\ longer[StandsAfter(longer, k)] = trials[StandsAfter(trials, k)]
          /\ WellFormed(trials[StandsAfter(trials, k)].argv)
      BY <1>7, <3>2
    <3>4. StartOf(longer, longer[i]) = trials[StandsAfter(trials, m - 1)]
      BY <3>2, <3>3 DEF StartOf, k
    <3> HIDE DEF StartOf
    <3> QED BY <1>4, <3>1, <3>2, <3>3, <3>4
  <2> QED BY <1>5, <2>1, <2>2
<1> QED BY <1>6, <1>8 DEF Moves

\* The baseline opens the record.
LEMMA MovesFirst ==
    ASSUME NEW e, NEW longer, Extends(longer, <<>>, e), WellFormed(e.argv)
    PROVE  Moves(longer)
<1>1. Len(longer) = 1 /\ DOMAIN longer = {1} /\ longer[1] = e
  BY NoList DEF Extends
<1>2. 2..1 = {}
  OBVIOUS
<1> QED BY <1>1, <1>2 DEF Moves

\* What a descent holds lasts while its trials, its stage and its queue do.
LEMMA MeantOn ==
    ASSUME NEW r, NEW s, Meant(r), s.flags = r.flags, s.stages = r.stages, s.at = r.at,
           s.trials = r.trials, s.queue = r.queue,
           s.incumbent.argv = r.incumbent.argv \/ r.queue = <<>>
    PROVE  Meant(s)
<1>1. Reached(s) = Reached(r)
  BY DEF Reached
<1>2. Lined(s)
  BY <1>1 DEF Meant, Lined, Line
<1>3. Queued(s)
  <2>1. CASE s.incumbent.argv = r.incumbent.argv
    BY <2>1 DEF Meant, Queued, Choice
  <2>2. CASE r.queue = <<>>
    BY <2>2, NoList DEF Queued
  <2> QED BY <2>1, <2>2
<1> QED BY <1>2, <1>3 DEF Meant

LEMMA WithinOn ==
    ASSUME NEW r, NEW s, InShape(r), IsList(r.queue), IsList(s.queue), s.flags = r.flags, s.stages = r.stages,
           s.at = r.at, s.gated = r.gated, s.ceiling = r.ceiling, s.launches \in Nat,
           NEW n \in Nat, NEW m \in Nat, Within(r, n),
           s.launches + Len(s.queue) + m <= r.launches + Len(r.queue) + n
    PROVE  Within(s, m)
<1>1. CASE r.gated
  BY <1>1 DEF Within
<1>2. CASE ~r.gated
  <2>1. PICK c : Sums(r, c) /\ r.launches + Len(r.queue) + n <= 1 + c[r.at]
    BY <1>2 DEF Within
  <2>2. Sums(s, c)
    BY <2>1 DEF Sums, PlanFor
  <2>3. c[r.at] \in Nat /\ r.launches \in Nat /\ Len(r.queue) \in Nat /\ Len(s.queue) \in Nat
    BY <2>1, ListPlaces DEF Sums, InShape, Within
  <2>4. s.launches + Len(s.queue) + m <= 1 + c[s.at]
    <3> DEFINE x == r.launches
               y == Len(r.queue)
               u == s.launches
               v == Len(s.queue)
               z == c[r.at]
    <3>1. x + y + n <= 1 + z /\ u + v + m <= x + y + n /\ c[s.at] = z
      BY <2>1
    <3>2. x \in Nat /\ y \in Nat /\ u \in Nat /\ v \in Nat /\ z \in Nat
      BY <2>3
    <3> HIDE DEF x, y, u, v, z
    <3>3. u + v + m <= 1 + z
      BY <3>1, <3>2
    <3> QED BY <3>1, <3>3 DEF u, v
  <2> QED BY <2>2, <2>4 DEF Within
<1> QED BY <1>1, <1>2

\* A record whose candidates each changed the line they were tried against.
LEMMA MovesTell ==
    ASSUME DiskTold(disk), disk.is = "written" => Moves(disk.trials)
    PROVE  ChangesItsOwnFlags
<1>1. SUFFICES ASSUME disk.is = "written", NEW i \in 2..Len(disk.trials)
               PROVE  LET t == disk.trials[i]
                          from == StartOf(disk.trials, t)
                      IN  /\ \A flag \in Flags \ FlagsOf[t.stage] :
                               EngineValue(t.argv, flag) = EngineValue(from.argv, flag)
                          /\ \E flag \in FlagsOf[t.stage] : EngineValue(t.argv, flag) # EngineValue(from.argv, flag)
  BY DEF ChangesItsOwnFlags
<1> DEFINE t == disk.trials[i]
           a == StartOf(disk.trials, t).argv
           b == t.argv
           stage == t.stage
           value == t.value
<1>2. b = ApplyValue(stage, a, value)
  <2>1. Earned(disk.trials, t)
    BY <1>1 DEF DiskTold, Audited
  <2> QED BY <2>1 DEF Earned
<1>3. stage \in Stages /\ (stage # "spec" => IsValue(value)) /\ b # a /\ WellFormed(a)
  BY <1>1 DEF Moves
<1> HIDE DEF a, b, stage, value
<1>4. Holds(b, a, stage, value)
  BY <1>2, <1>3, AppliedIs
<1>5. /\ WellFormed(b)
      /\ \A f \in FlagsOf[stage] : ValueOf(b, f) = Given(stage, value, f)
      /\ \A f \in Flags \ FlagsOf[stage] : ValueOf(b, f) = ValueOf(a, f)
      /\ b = a <=> \A f \in FlagsOf[stage] : ValueOf(a, f) = Given(stage, value, f)
  BY <1>4 DEF Holds
<1>6. \A f \in Flags : EngineValue(b, f) = ValueOf(b, f) /\ EngineValue(a, f) = ValueOf(a, f)
  BY <1>3, <1>5, ValueIs
<1>7. \A f \in Flags \ FlagsOf[stage] : EngineValue(b, f) = EngineValue(a, f)
  BY <1>5, <1>6 DEF Flags
<1>8. \E f \in FlagsOf[stage] : EngineValue(b, f) # EngineValue(a, f)
  <2>1. PICK f \in FlagsOf[stage] : ValueOf(a, f) # Given(stage, value, f)
    BY <1>3, <1>5
  <2>2. f \in Flags
    BY <1>3, StageFlags
  <2> QED BY <1>5, <1>6, <2>1, <2>2
<1> QED BY <1>7, <1>8 DEF a, b, stage

\* The winner's flags, behind the defaults, are read as the winner's own.
LEMMA WinnerIsRead ==
    ASSUME NEW r, NEW extras, Behind(r.flags, extras), Plain(r.flags), NEW m, NEW w, Line(r, m, w), NEW f \in Flags
    PROVE  EngineValue(Effective(AppliedExtraFlags(extras, w)), f) = EngineValue(w, f)
<1> DEFINE out == AppliedExtraFlags(extras, w)
<1>1. /\ WellFormed(Defaults) /\ WellFormed(extras) /\ r.flags = Defaults \o extras
      /\ \A g \in FlagsOf["spec"] : ValueOf(Defaults, g) = NoValue
  BY DEF Behind, Effective
<1>2. /\ WellFormed(w) /\ WellFormed(r.flags)
      /\ ValueOf(w, "SpecType") = NoValue => ValueOf(w, "SpecDraftNMax") = NoValue
      /\ ValueOf(w, f) = NoValue => ValueOf(r.flags, f) = NoValue
                                    \/ (f \in FlagsOf["spec"] /\ ValueOf(w, "SpecType") = NoValue)
  BY DEF Line, Plain
<1>3. /\ WellFormed(out)
      /\ ValueOf(out, f) = IF ValueOf(w, "SpecType") = NoValue /\ f \in FlagsOf["spec"] THEN NoValue
                           ELSE IF ValueOf(w, f) = NoValue THEN ValueOf(extras, f) ELSE ValueOf(w, f)
  <2>1. LET dropped == IF ValueOf(w, "SpecType") = NoValue THEN FlagsOf["spec"] ELSE {}
        IN  /\ WellFormed(out)
            /\ \A g \in Flags : ValueOf(out, g) = IF g \in dropped THEN NoValue
                                                  ELSE IF ValueOf(w, g) = NoValue THEN ValueOf(extras, g) ELSE ValueOf(w, g)
    BY <1>1, <1>2, AppliedExtraIs, Zenon
  <2> HIDE DEF out
  <2> QED BY <2>1
<1> HIDE DEF out
<1>4. EngineValue(Defaults \o out, f) = IF ValueOf(out, f) = NoValue THEN ValueOf(Defaults, f) ELSE ValueOf(out, f)
  BY <1>1, <1>3, LaidEndToEnd
<1>5. EngineValue(r.flags, f) = IF ValueOf(extras, f) = NoValue THEN ValueOf(Defaults, f) ELSE ValueOf(extras, f)
  BY <1>1, LaidEndToEnd
<1>6. EngineValue(r.flags, f) = ValueOf(r.flags, f) /\ EngineValue(w, f) = ValueOf(w, f)
  BY <1>2, ValueIs
<1>7. EngineValue(Defaults \o out, f) = ValueOf(w, f)
  <2>1. CASE ValueOf(w, "SpecType") = NoValue /\ f \in FlagsOf["spec"]
    <3>1. ValueOf(w, f) = NoValue
      BY <1>2, <2>1, StageFlags
    <3> QED BY <1>1, <1>3, <1>4, <2>1, <3>1
  <2>2. CASE ~(ValueOf(w, "SpecType") = NoValue /\ f \in FlagsOf["spec"])
    <3>1. CASE ValueOf(w, f) = NoValue
      <4>1. ValueOf(r.flags, f) = NoValue
        BY <1>2, <2>2, <3>1
      <4> QED BY <1>3, <1>4, <1>5, <1>6, <2>2, <3>1, <4>1
    <3>2. CASE ValueOf(w, f) # NoValue
      BY <1>3, <1>4, <2>2, <3>2
    <3> QED BY <3>1, <3>2
  <2> QED BY <2>1, <2>2
<1>8. Effective(AppliedExtraFlags(extras, w)) = Defaults \o out
  BY DEF Effective, out
<1> QED BY <1>6, <1>7, <1>8

-----------------------------------------------------------------------------
(* Every step keeps it.                                                    *)

LEMMA LEnds ==
    ASSUME LInv, pc' = "idle", disk'.is = "written" => Moves(disk'.trials)
    PROVE  LInv'
<1>1. LPhase("idle", run', extra')
  BY DEF LPhase, Trials, Over
<1>2. AppliedRunsWinner'
  BY DEF AppliedRunsWinner
<1> QED BY <1>1, <1>2 DEF LInv

LEMMA LGoes ==
    ASSUME NEW p, NEW s, pc' = p, run' = s, p # "applied", extra' = extra, Behind(s.flags, extra),
           Meant(s), Within(s, Due(p)), p \in Trials /\ s.at # 0 => Choice(s, s.candidate.value),
           p \in Over => s.trials # <<>>, p = "apply" => s.winner # NoValue,
           disk'.is = "written" => Moves(disk'.trials)
    PROVE  LInv'
<1>1. LPhase(p, s, extra)
  BY DEF LPhase
<1>2. AppliedRunsWinner'
  BY DEF AppliedRunsWinner
<1> QED BY <1>1, <1>2 DEF LInv

LEMMA LHolds ==
    ASSUME IInv, LInv, pc \notin {"idle", "applied"}
    PROVE  /\ InShape(run) /\ Kept(run) /\ Meant(run) /\ Within(run, Due(pc)) /\ Behind(run.flags, extra)
           /\ IsList(run.queue) /\ Plain(run.flags) /\ Lined(run) /\ Moves(run.trials)
           /\ run.launches \in Nat /\ Len(run.queue) \in Nat
BY ListPlaces DEF IInv, Phase, LInv, LPhase, Meant, Queued, Within

LEMMA LInit == ASSUME Init PROVE LInv
BY DEF Init, LInv, LPhase, NoRecord, AppliedRunsWinner, Trials, Over

LEMMA LKill == ASSUME IInv, LInv, Kill PROVE LInv'
<1>1. pc' = "idle" /\ disk' = disk
  BY DEF Kill, EndsAs
<1> QED BY <1>1, LEnds DEF LInv

LEMMA LBegin == ASSUME IInv, Begin, plain' PROVE LInv'
<1>1. PICK requested \in Requests, gated \in BOOLEAN :
        pc' = "confirm" /\ run' = PlanOf(StagesOf(requested), gated, Effective(extra))
  BY DEF Begin, Goes
<1> DEFINE stages == StagesOf(requested)
           argv == Effective(extra)
           r == PlanOf(stages, gated, argv)
<1>2. Rising(stages)
  BY StagesRise
<1> HIDE DEF stages, argv
<1>3. /\ r.trials = <<>> /\ r.at = 0 /\ r.flags = argv /\ r.stages = stages /\ r.gated = gated
      /\ r.launches = 0 /\ r.queue = <<>> /\ r.ceiling = MaxLaunches(stages, gated, argv, Lists)
  BY DEF PlanOf
<1> HIDE DEF r
<1>4. run' = r /\ extra' = extra /\ disk' = NoRecord
  BY <1>1 DEF r, stages, argv, Begin
<1>5. /\ Plain(r.flags) /\ WellFormed(Defaults) /\ WellFormed(extra)
      /\ \A f \in FlagsOf["spec"] : ValueOf(Defaults, f) = NoValue
  <2>1. StartsPlain(extra)
    BY Zenon DEF Begin
  <2> QED BY <1>3, <2>1 DEF StartsPlain, argv
<1>6. Behind(r.flags, extra)
  BY <1>3, <1>5 DEF Behind, argv
<1>7. Meant(r)
  <2>1. DOMAIN <<>> = {} /\ IsList(<<>>) /\ Len(<<>>) = 0 /\ 1..0 = {}
    BY NoList
  <2>2. Lined(r)
    BY <1>3, <2>1 DEF Lined
  <2>3. Moves(r.trials)
    BY <1>3, MovesNone
  <2>4. Queued(r)
    BY <1>3, <2>1 DEF Queued
  <2> QED BY <1>5, <2>2, <2>3, <2>4 DEF Meant
<1>8. Within(r, 1)
  <2>1. CASE r.gated
    BY <1>3, <2>1 DEF Within
  <2>2. CASE ~r.gated
    <3>1. PICK c : Sums(r, c)
      BY <1>2, <1>3, <2>2, CeilingIs
    <3>2. c[0] = 0 /\ Len(<<>>) = 0
      BY <3>1, NoList DEF Sums
    <3>3. r.launches + Len(r.queue) + 1 <= 1 + c[r.at]
      BY <1>3, <3>2
    <3> QED BY <1>3, <3>1, <3>3 DEF Within
  <2> QED BY <2>1, <2>2
<1>9. "confirm" \notin Trials \cup Over /\ Due("confirm") = 1 /\ NoRecord.is # "written"
  BY DEF Trials, Over, Due, NoRecord
<1> QED BY <1>1, <1>4, <1>6, <1>7, <1>8, <1>9, LGoes

LEMMA LConfirm == ASSUME IInv, LInv, Confirm PROVE LInv'
<1>1. /\ pc = "confirm" /\ disk' = disk /\ extra' = extra
      /\ \/ pc' = "idle"
         \/ pc' = "baseline" /\ run' = run
  BY DEF Confirm, Ends, EndsAs, Goes
<1>2. Meant(run) /\ Within(run, Due(pc)) /\ Behind(run.flags, extra)
  BY <1>1, LHolds
<1>3. Due("confirm") = Due("baseline") /\ "baseline" \notin Trials \cup Over
  BY DEF Due, Trials, Over
<1>4. CASE pc' = "idle"
  BY <1>1, <1>4, LEnds DEF LInv
<1>5. CASE pc' = "baseline" /\ run' = run
  BY <1>1, <1>2, <1>3, <1>5, LGoes DEF LInv
<1> QED BY <1>1, <1>4, <1>5

LEMMA LBaseline == ASSUME IInv, LInv, Baseline PROVE LInv'
<1> DEFINE s == [run EXCEPT !.candidate = Current]
<1>1. pc = "baseline" /\ pc' = "start" /\ run' = s /\ disk' = disk /\ extra' = extra
  BY DEF Baseline, Goes
<1>2. /\ InShape(run) /\ Meant(run) /\ Within(run, Due(pc)) /\ Behind(run.flags, extra) /\ IsList(run.queue)
      /\ run.launches \in Nat /\ Len(run.queue) \in Nat
  BY <1>1, LHolds
<1>3. run.at = 0
  BY <1>1 DEF IInv, Phase, Begun
<1>4. /\ s.flags = run.flags /\ s.stages = run.stages /\ s.at = run.at /\ s.trials = run.trials
      /\ s.queue = run.queue /\ s.incumbent.argv = run.incumbent.argv /\ s.gated = run.gated
      /\ s.ceiling = run.ceiling /\ s.launches = run.launches
  BY <1>2 DEF InShape, Fields
<1> HIDE DEF s
<1>5. Meant(s)
  BY <1>2, <1>4, MeantOn
<1>6. Within(s, 1)
  <2>1. Within(run, 1)
    BY <1>1, <1>2 DEF Due
  <2>2. s.launches \in Nat /\ s.launches + Len(s.queue) + 1 <= run.launches + Len(run.queue) + 1 /\ 1 \in Nat
    BY <1>2, <1>4
  <2> QED BY <1>2, <1>4, <2>1, <2>2, WithinOn
<1>7. Due("start") = 1 /\ "start" \notin Over
  BY DEF Due, Over
<1> QED BY <1>1, <1>2, <1>3, <1>4, <1>5, <1>6, <1>7, LGoes DEF LInv

\* A queue and its first value.
LEMMA QueueHead ==
    ASSUME NEW s, IsList(s), s # <<>>
    PROVE  /\ Head(s) = s[1] /\ 1 \in 1..Len(s) /\ IsList(Tail(s)) /\ Len(Tail(s)) = Len(s) - 1
           /\ \A k \in 1..Len(Tail(s)) : k + 1 \in 1..Len(s) /\ Tail(s)[k] = s[k + 1]
<1> DEFINE S == Range(s)
           t == Tail(s)
<1>1. s \in Seq(S)
  BY DEF IsList
<1> HIDE DEF S
<1>2. Len(s) \in Nat /\ Len(s) # 0
  BY <1>1, EmptySeq, LenProperties
<1>3. Head(s) = s[1] /\ t \in Seq(S) /\ Len(t) = Len(s) - 1 /\ \A k \in 1..Len(t) : t[k] = s[k + 1]
  BY <1>1, <1>2, HeadTailProperties
<1> HIDE DEF t
<1>4. IsList(t)
  BY <1>3, SeqOfRange DEF IsList
<1>5. 1 \in 1..Len(s) /\ \A k \in 1..Len(t) : k + 1 \in 1..Len(s)
  BY <1>2, <1>3
<1> QED BY <1>3, <1>4, <1>5 DEF t

LEMMA LNextTrial == ASSUME IInv, LInv, NextTrial PROVE LInv'
<1> DEFINE v == Head(run.queue)
           c == Candidate(run.stages[run.at], run.incumbent.argv, v)
           held == [run EXCEPT !.candidate = c, !.queue = Tail(@), !.released = TRUE]
           skipped == [held EXCEPT !.outcome = "skipped"]
<1>1. /\ pc = "stage" /\ disk' = disk /\ extra' = extra /\ run.queue # <<>>
      /\ (pc' = "record" /\ run' = skipped) \/ (pc' = "start" /\ run' = held)
  BY DEF NextTrial, Goes
<1>2. /\ InShape(run) /\ Meant(run) /\ Within(run, Due(pc)) /\ Behind(run.flags, extra) /\ IsList(run.queue)
      /\ run.launches \in Nat /\ Len(run.queue) \in Nat
  BY <1>1, LHolds
<1>3. c.value = v
  BY DEF Candidate
<1>4. /\ v = run.queue[1] /\ 1 \in 1..Len(run.queue) /\ IsList(Tail(run.queue))
      /\ Len(Tail(run.queue)) = Len(run.queue) - 1
      /\ \A k \in 1..Len(Tail(run.queue)) : k + 1 \in 1..Len(run.queue) /\ Tail(run.queue)[k] = run.queue[k + 1]
  BY <1>1, <1>2, QueueHead
<1>5. \A k \in 1..Len(run.queue) : Choice(run, run.queue[k])
  BY <1>2 DEF Meant, Queued
<1> HIDE DEF v, c
<1>6. ASSUME NEW s, s = held \/ s = skipped
      PROVE  /\ Meant(s) /\ Choice(s, s.candidate.value) /\ s.flags = run.flags
             /\ Within(s, 1) /\ Within(s, 0)
  <2>1. /\ s.flags = run.flags /\ s.stages = run.stages /\ s.at = run.at /\ s.trials = run.trials
        /\ s.incumbent = run.incumbent /\ s.gated = run.gated
        /\ s.ceiling = run.ceiling /\ s.launches = run.launches
        /\ s.queue = Tail(run.queue) /\ s.candidate = c
    BY <1>2, <1>6 DEF InShape, Fields
  <2> HIDE DEF held, skipped
  <2>2. Queued(s)
    BY <1>4, <1>5, <2>1 DEF Queued, Choice
  <2>3. Reached(s) = Reached(run)
    BY <2>1 DEF Reached
  <2>4. Lined(s)
    BY <1>2, <2>1, <2>3 DEF Meant, Lined, Line
  <2>5. Meant(s)
    BY <1>2, <2>1, <2>2, <2>4 DEF Meant
  <2>6. Choice(s, s.candidate.value)
    <3>1. Choice(run, v)
      BY <1>4, <1>5
    <3> QED BY <1>3, <2>1, <3>1 DEF Choice
  <2>7. Within(run, 0)
    BY <1>1, <1>2 DEF Due
  <2>8. /\ s.launches + Len(s.queue) + 1 <= run.launches + Len(run.queue) + 0
        /\ s.launches + Len(s.queue) + 0 <= run.launches + Len(run.queue) + 0
        /\ s.launches \in Nat /\ IsList(s.queue) /\ 0 \in Nat /\ 1 \in Nat
    BY <1>2, <1>4, <2>1
  <2>9. Within(s, 1)
    BY <1>2, <2>1, <2>7, <2>8, WithinOn
  <2>10. Within(s, 0)
    BY <1>2, <2>1, <2>7, <2>8, WithinOn
  <2> QED BY <2>1, <2>5, <2>6, <2>9, <2>10
<1> HIDE DEF held, skipped
<1>7. Due("record") = 0 /\ Due("start") = 1 /\ "record" \notin Over /\ "start" \notin Over
  BY DEF Due, Over
<1>8. CASE pc' = "record" /\ run' = skipped
  <2>1. Meant(skipped) /\ Choice(skipped, skipped.candidate.value) /\ skipped.flags = run.flags /\ Within(skipped, 0)
    BY <1>6
  <2> QED BY <1>1, <1>2, <1>7, <1>8, <2>1, LGoes DEF LInv
<1>9. CASE pc' = "start" /\ run' = held
  <2>1. Meant(held) /\ Choice(held, held.candidate.value) /\ held.flags = run.flags /\ Within(held, 1)
    BY <1>6
  <2> QED BY <1>1, <1>2, <1>7, <1>9, <2>1, LGoes DEF LInv
<1> QED BY <1>1, <1>8, <1>9

\* The trial goes on: what it holds is what it held.
LEMMA LTrial ==
    ASSUME IInv, LInv, pc \in Trials, NEW p \in Trials, NEW s, pc' = p, run' = s, disk' = disk, extra' = extra,
           s.flags = run.flags, s.stages = run.stages, s.at = run.at, s.trials = run.trials,
           s.queue = run.queue, s.incumbent = run.incumbent, s.gated = run.gated, s.ceiling = run.ceiling,
           s.candidate = run.candidate, s.launches \in Nat, s.launches + Due(p) <= run.launches + Due(pc)
    PROVE  LInv'
<1>1. pc \notin {"idle", "applied"} /\ p # "applied" /\ p \notin Over /\ p # "apply" /\ Due(p) \in Nat /\ Due(pc) \in Nat
  BY DEF Trials, Over, Due
<1>2. /\ InShape(run) /\ Meant(run) /\ Within(run, Due(pc)) /\ Behind(run.flags, extra) /\ IsList(run.queue)
      /\ run.launches \in Nat /\ Len(run.queue) \in Nat
  BY <1>1, LHolds
<1>3. Meant(s)
  BY <1>2, MeantOn
<1>4. Within(s, Due(p))
  <2>1. s.launches + Len(s.queue) + Due(p) <= run.launches + Len(run.queue) + Due(pc)
    BY <1>1, <1>2
  <2> QED BY <1>1, <1>2, <2>1, WithinOn
<1>5. s.at # 0 => Choice(s, s.candidate.value)
  <2>1. run.at # 0 => Choice(run, run.candidate.value)
    BY DEF LInv, LPhase
  <2> QED BY <2>1 DEF Choice
<1> QED BY <1>1, <1>2, <1>3, <1>4, <1>5, LGoes DEF LInv

LEMMA LStart == ASSUME IInv, LInv, Start PROVE LInv'
<1> DEFINE skipped == [run EXCEPT !.outcome = "skipped", !.released = TRUE]
           launched == [run EXCEPT !.launches = @ + 1]
<1>1. /\ pc = "start" /\ disk' = disk /\ extra' = extra
      /\ \/ pc' = "record" /\ run' = skipped
         \/ pc' = "probe" /\ run' = launched
         \/ pc' = "idle"
  BY DEF Start, Goes, Ends, EndsAs
<1>2. InShape(run) /\ run.launches \in Nat
  BY <1>1, LHolds
<1>3. {"start", "record", "probe"} \subseteq Trials /\ Due("start") = 1 /\ Due("record") = 0 /\ Due("probe") = 0
  BY DEF Trials, Due
<1>4. ASSUME NEW s, s = skipped \/ s = launched
      PROVE  /\ s.flags = run.flags /\ s.stages = run.stages /\ s.at = run.at /\ s.trials = run.trials
             /\ s.queue = run.queue /\ s.incumbent = run.incumbent /\ s.gated = run.gated
             /\ s.ceiling = run.ceiling /\ s.candidate = run.candidate
             /\ s.launches \in Nat /\ s.launches <= run.launches + 1
  <2>1. CASE s = skipped
    BY <1>2, <2>1 DEF InShape, Fields
  <2>2. CASE s = launched /\ s # skipped
    <3>1. launched.launches = run.launches + 1
      BY <1>2 DEF InShape, Fields
    <3>2. /\ s.flags = run.flags /\ s.stages = run.stages /\ s.at = run.at /\ s.trials = run.trials
          /\ s.queue = run.queue /\ s.incumbent = run.incumbent /\ s.gated = run.gated
          /\ s.ceiling = run.ceiling /\ s.candidate = run.candidate
      BY <1>2, <2>2 DEF InShape, Fields
    <3> HIDE DEF launched, skipped
    <3> QED BY <1>2, <2>2, <3>1, <3>2
  <2> QED BY <1>4, <2>1, <2>2
<1> HIDE DEF skipped, launched
<1>5. CASE pc' = "record" /\ run' = skipped
  <2>1. skipped.launches + Due("record") <= run.launches + Due(pc)
    BY <1>1, <1>2, <1>3, <1>4
  <2> QED BY <1>1, <1>3, <1>4, <1>5, <2>1, LTrial
<1>6. CASE pc' = "probe" /\ run' = launched
  <2>1. launched.launches + Due("probe") <= run.launches + Due(pc)
    BY <1>1, <1>2, <1>3, <1>4
  <2> QED BY <1>1, <1>3, <1>4, <1>6, <2>1, LTrial
<1>7. CASE pc' = "idle"
  BY <1>1, <1>7, LEnds DEF LInv
<1> QED BY <1>1, <1>5, <1>6, <1>7

LEMMA LProbe == ASSUME IInv, LInv, Probe PROVE LInv'
<1>1. /\ pc = "probe" /\ disk' = disk /\ extra' = extra /\ pc' = "teardown"
      /\ \E o, m : run' = [run EXCEPT !.outcome = o, !.measured = m]
  BY DEF Probe, Goes
<1>2. PICK o, m : run' = [run EXCEPT !.outcome = o, !.measured = m]
  BY <1>1
<1> DEFINE s == [run EXCEPT !.outcome = o, !.measured = m]
<1>3. InShape(run) /\ run.launches \in Nat
  BY <1>1, LHolds
<1>4. /\ s.flags = run.flags /\ s.stages = run.stages /\ s.at = run.at /\ s.trials = run.trials
      /\ s.queue = run.queue /\ s.incumbent = run.incumbent /\ s.gated = run.gated
      /\ s.ceiling = run.ceiling /\ s.candidate = run.candidate /\ s.launches = run.launches
  BY <1>3 DEF InShape, Fields
<1>5. run' = s
  BY <1>2
<1> HIDE DEF s
<1>6. {"teardown", "probe"} \subseteq Trials /\ Due("teardown") = 0 /\ Due("probe") = 0
  BY DEF Trials, Due
<1>7. s.launches + Due("teardown") <= run.launches + Due(pc)
  BY <1>1, <1>3, <1>4, <1>6
<1> QED BY <1>1, <1>3, <1>4, <1>5, <1>6, <1>7, LTrial

LEMMA LTeardown == ASSUME IInv, LInv, Teardown PROVE LInv'
<1>1. /\ pc = "teardown" /\ disk' = disk /\ extra' = extra /\ pc' = "record"
      /\ \E released \in BOOLEAN : run' = [run EXCEPT !.released = released]
  BY DEF Teardown, Goes
<1>2. PICK released \in BOOLEAN : run' = [run EXCEPT !.released = released]
  BY <1>1
<1> DEFINE s == [run EXCEPT !.released = released]
<1>3. InShape(run) /\ run.launches \in Nat
  BY <1>1, LHolds
<1>4. /\ s.flags = run.flags /\ s.stages = run.stages /\ s.at = run.at /\ s.trials = run.trials
      /\ s.queue = run.queue /\ s.incumbent = run.incumbent /\ s.gated = run.gated
      /\ s.ceiling = run.ceiling /\ s.candidate = run.candidate /\ s.launches = run.launches
  BY <1>3 DEF InShape, Fields
<1>5. run' = s
  BY <1>2
<1> HIDE DEF s
<1>6. {"teardown", "record"} \subseteq Trials /\ Due("teardown") = 0 /\ Due("record") = 0
  BY DEF Trials, Due
<1>7. s.launches + Due("record") <= run.launches + Due(pc)
  BY <1>1, <1>3, <1>4, <1>6
<1> QED BY <1>1, <1>3, <1>4, <1>5, <1>6, <1>7, LTrial

LEMMA LRecord == ASSUME IInv, LInv, Record PROVE LInv'
<1> DEFINE t == TrialOf(run)
           longer == Append(run.trials, t)
           s == [run EXCEPT !.trials = Append(@, t)]
<1>1. pc = "record" /\ disk' = Torn /\ pc' = "write" /\ extra' = extra /\ run' = s
  BY DEF Record, Goes
<1>2. /\ InShape(run) /\ Kept(run) /\ Meant(run) /\ Within(run, Due(pc)) /\ Behind(run.flags, extra)
      /\ IsList(run.queue) /\ run.launches \in Nat /\ Len(run.queue) \in Nat
  BY <1>1, LHolds
<1>3. Plain(run.flags) /\ Lined(run) /\ Moves(run.trials) /\ Queued(run)
  BY <1>2 DEF Meant
<1>4. Underway(run) /\ (run.at # 0 => Choice(run, run.candidate.value))
  BY <1>1 DEF IInv, Phase, LInv, LPhase, Trials
<1>5. Listed(run.trials, run.flags, Reached(run)) /\ IsList(run.trials)
  BY <1>2 DEF Kept, Listed
<1>6. Extends(longer, run.trials, t)
  BY <1>5, Appended
<1>7. /\ s.flags = run.flags /\ s.stages = run.stages /\ s.at = run.at /\ s.trials = longer
      /\ s.queue = run.queue /\ s.incumbent = run.incumbent /\ s.gated = run.gated
      /\ s.ceiling = run.ceiling /\ s.launches = run.launches
  BY <1>2 DEF InShape, Fields
<1> HIDE DEF t, longer, s
<1>8. Line(run, Reached(run), t.argv) /\ Moves(longer)
  <2>1. CASE Begun(run)
    <3>1. run.trials = <<>> /\ run.candidate = Current
      BY <2>1 DEF Begun
    <3>2. t.argv = run.flags
      BY <3>1, BaselineTrial DEF t
    <3>3. Line(run, Reached(run), t.argv)
      BY <1>3, <3>2, FirstLine
    <3>4. WellFormed(t.argv)
      BY <1>3, <3>2 DEF Plain
    <3> QED BY <1>6, <3>1, <3>3, <3>4, MovesFirst
  <2>2. CASE InStage(run, Len(run.trials)) /\ Trying(run)
    <3> DEFINE m == Reached(run)
               stage == run.stages[run.at]
               a == run.incumbent.argv
               v == run.candidate.value
               from == run.trials[StandsAfter(run.trials, m - 1)]
    <3>1. run.at # 0 /\ run.trials # <<>>
      BY <2>2 DEF InStage
    <3>2. m \in 1..5 /\ stage \in Stages /\ m = Place(stage) /\ Order[m] = stage
      BY <1>2, <3>1, ReachedPlace
    <3>3. a = from.argv
      BY <2>2, <3>2 DEF InStage, Stands
    <3>4. v \in Range(Lists[stage]) /\ IsCandidate(stage, a, v)
      BY <1>4, <3>1 DEF Choice
    <3>5. t.stage = stage /\ t.argv = ApplyValue(t.stage, a, t.value)
      BY <1>2, <2>2, <3>1, StageTrial DEF t
    <3>6. t.value = v
      BY TrialFields DEF t
    <3>7. Order[m] \in Range(run.stages)
      <4>1. run.at \in 1..Len(run.stages) /\ run.stages \in Seq(Stages)
        BY <1>2, <3>1 DEF InShape, Rising
      <4>2. run.at \in DOMAIN run.stages
        BY <4>1
      <4> QED BY <3>2, <4>2 DEF Range
    <3> HIDE DEF m, stage, a, v
    <3>8. Line(run, m, a)
      <4>1. m - 1 \in 0..5
        BY <3>2
      <4> QED BY <1>2, <1>3, <3>1, <3>3, <4>1, StandsAs DEF m
    <3>9. t.argv = ApplyValue(Order[m], a, v)
      BY <3>2, <3>5, <3>6
    <3>10. Line(run, m, t.argv)
      BY <3>2, <3>4, <3>7, <3>8, <3>9, LineApplied
    <3>11. t.argv # from.argv
      <4>1. ApplyValue(stage, a, v) # a
        BY <3>4 DEF IsCandidate
      <4> QED BY <3>2, <3>3, <3>9, <4>1
    <3>12. WellFormed(t.argv) /\ (t.stage # "spec" => IsValue(t.value)) /\ t.stage = Order[m]
      BY <3>2, <3>4, <3>5, <3>6, <3>10, ListIs DEF Line
    <3>13. Moves(longer)
      BY <1>3, <1>5, <1>6, <3>1, <3>2, <3>11, <3>12, MovesMore DEF m
    <3> QED BY <3>10, <3>13 DEF m
  <2> QED BY <1>4, <2>1, <2>2 DEF Underway
<1>9. Lined(s)
  <2>1. Reached(s) = Reached(run)
    BY <1>7 DEF Reached
  <2>2. ASSUME NEW i \in DOMAIN longer PROVE Line(run, Reached(run), longer[i].argv)
    BY <1>3, <1>6, <1>8 DEF Extends, Lined
  <2> QED BY <1>7, <2>1, <2>2 DEF Lined, Line
<1>10. Queued(s)
  BY <1>3, <1>7 DEF Queued, Choice
<1>11. Meant(s)
  BY <1>3, <1>7, <1>8, <1>9, <1>10 DEF Meant
<1>12. Within(s, 0)
  <2>1. Within(run, 0)
    BY <1>1, <1>2 DEF Due
  <2>2. s.launches + Len(s.queue) + 0 <= run.launches + Len(run.queue) + 0 /\ s.launches \in Nat /\ 0 \in Nat
    BY <1>2, <1>7
  <2> QED BY <1>2, <1>7, <2>1, <2>2, WithinOn
<1>13. Due("write") = 0 /\ "write" \notin Trials \cup Over /\ Torn.is # "written"
  BY DEF Due, Trials, Over, Torn
<1> QED BY <1>1, <1>2, <1>7, <1>11, <1>12, <1>13, LGoes

LEMMA LWrite == ASSUME IInv, LInv, Write PROVE LInv'
<1> DEFINE t == Last(run.trials)
           opened == [run EXCEPT !.incumbent.measured = t.measured]
           scored == IF t.outcome # "measured" THEN run
                     ELSE [run EXCEPT !.scored = Append(@, [candidate |-> run.candidate,
                                                            measured |-> t.measured, wins |-> t.wins])]
<1>1. /\ pc = "write" /\ disk' = Written(run.trials, NoValue) /\ extra' = extra
      /\ \/ pc' = "idle"
         \/ pc' = "next" /\ run' = opened
         \/ pc' = "stage" /\ run' = scored
  BY DEF Write, Goes, Ends, EndsAs
<1>2. /\ InShape(run) /\ Meant(run) /\ Within(run, Due(pc)) /\ Behind(run.flags, extra) /\ IsList(run.queue)
      /\ Moves(run.trials) /\ run.launches \in Nat /\ Len(run.queue) \in Nat
  BY <1>1, LHolds
<1>3. disk'.trials = run.trials
  BY <1>1 DEF Written
<1>4. ASSUME NEW s, s = opened \/ s = scored
      PROVE  /\ s.flags = run.flags /\ s.stages = run.stages /\ s.at = run.at /\ s.trials = run.trials
             /\ s.queue = run.queue /\ s.incumbent.argv = run.incumbent.argv /\ s.gated = run.gated
             /\ s.ceiling = run.ceiling /\ s.launches = run.launches
  <2>1. CASE s = opened
    BY <1>2, <2>1 DEF InShape, Fields
  <2>2. CASE s = scored
    <3> DEFINE more == Append(run.scored, [candidate |-> run.candidate, measured |-> t.measured, wins |-> t.wins])
    <3>1. s = run \/ s = [run EXCEPT !.scored = more]
      BY <2>2
    <3> HIDE DEF more
    <3> QED BY <1>2, <3>1 DEF InShape, Fields
  <2> QED BY <1>4, <2>1, <2>2
<1> HIDE DEF opened, scored
<1>5. Due("write") = 0 /\ Due("next") = 0 /\ Due("stage") = 0 
      /\ "next" \notin Trials \cup Over /\ "stage" \notin Trials \cup Over
  BY DEF Due, Trials, Over
<1>6. ASSUME NEW s, s = opened \/ s = scored
      PROVE  Meant(s) /\ Within(s, 0) /\ s.flags = run.flags
  <2>1. /\ s.flags = run.flags /\ s.stages = run.stages /\ s.at = run.at /\ s.trials = run.trials
        /\ s.queue = run.queue /\ s.incumbent.argv = run.incumbent.argv /\ s.gated = run.gated
        /\ s.ceiling = run.ceiling /\ s.launches = run.launches
    BY <1>4, <1>6
  <2>2. Meant(s)
    BY <1>2, <2>1, MeantOn
  <2>3. /\ s.launches + Len(s.queue) + 0 <= run.launches + Len(run.queue) + 0 /\ s.launches \in Nat /\ 0 \in Nat
        /\ Within(run, 0)
    BY <1>1, <1>2, <1>5, <2>1
  <2>4. Within(s, 0)
    BY <1>2, <2>1, <2>3, WithinOn
  <2> QED BY <2>1, <2>2, <2>4
<1>7. CASE pc' = "idle"
  BY <1>2, <1>3, <1>7, LEnds
<1>8. CASE pc' = "next" /\ run' = opened
  <2>1. Meant(opened) /\ Within(opened, 0) /\ opened.flags = run.flags
    BY <1>6
  <2> QED BY <1>1, <1>2, <1>3, <1>5, <1>8, <2>1, LGoes
<1>9. CASE pc' = "stage" /\ run' = scored
  <2>1. Meant(scored) /\ Within(scored, 0) /\ scored.flags = run.flags
    BY <1>6
  <2> QED BY <1>1, <1>2, <1>3, <1>5, <1>9, <2>1, LGoes
<1> QED BY <1>1, <1>7, <1>8, <1>9

LEMMA LNextStage == ASSUME IInv, LInv, NextStage PROVE LInv'
<1> DEFINE z == run.at + 1
           stage == run.stages[z]
           a == run.incumbent.argv
           q == Planned(stage, a, Lists)
           s == [run EXCEPT !.at = z, !.scored = <<>>, !.queue = q]
           m == Reached(run)
<1>1. /\ pc = "next" /\ run.at < Len(run.stages) /\ disk' = disk /\ extra' = extra
      /\ pc' = "stage" /\ run' = s
  BY DEF NextStage, Goes
<1>2. /\ InShape(run) /\ Kept(run) /\ Meant(run) /\ Within(run, Due(pc)) /\ Behind(run.flags, extra)
      /\ Plain(run.flags) /\ Lined(run) /\ run.launches \in Nat /\ Len(run.queue) \in Nat
  BY <1>1, LHolds
<1>3. run.trials # <<>> /\ Stands(run, m)
  BY <1>1 DEF IInv, Phase
<1> HIDE DEF m, q
<1>4. /\ s.flags = run.flags /\ s.stages = run.stages /\ s.at = z /\ s.trials = run.trials
      /\ s.queue = q /\ s.incumbent = run.incumbent /\ s.gated = run.gated
      /\ s.ceiling = run.ceiling /\ s.launches = run.launches
  <2> HIDE DEF z
  <2> QED BY <1>2 DEF InShape, Fields
<1> HIDE DEF s
<1>5. /\ run.stages \in Seq(Stages) /\ Len(run.stages) \in Nat /\ run.at \in 0..Len(run.stages)
      /\ \A i, j \in 1..Len(run.stages) : i < j => Place(run.stages[i]) < Place(run.stages[j])
  <2>1. Rising(run.stages) /\ run.at \in 0..Len(run.stages)
    BY <1>2 DEF InShape
  <2> QED BY <2>1, LenProperties DEF Rising
<1>6. /\ z \in 1..Len(run.stages) /\ z # 0 /\ z - 1 = run.at
      /\ (run.at # 0 => run.at \in 1..Len(run.stages) /\ run.at < z)
  BY <1>1, <1>5
<1> HIDE DEF z
<1>7. stage \in Stages /\ m \in 0..5 /\ m < Place(stage) /\ Place(stage) \in 1..5
  <2>1. stage \in Stages
    BY <1>5, <1>6
  <2>2. m \in 0..5 /\ (run.at = 0 => m = 0) /\ (run.at # 0 => m = Place(run.stages[run.at]))
    BY <1>2, ReachedPlace DEF m
  <2>3. run.at # 0 => Place(run.stages[run.at]) < Place(run.stages[z])
    BY <1>5, <1>6
  <2>4. Place(stage) \in 1..5
    BY <2>1, Places
  <2> QED BY <2>1, <2>2, <2>3, <2>4
<1>8. Line(run, m, a)
  <2>1. a = run.trials[StandsAfter(run.trials, m)].argv
    BY <1>3 DEF Stands
  <2> HIDE DEF a
  <2> QED BY <1>2, <1>3, <1>7, <2>1, StandsAs DEF m
<1>9. Lined(s)
  <2>1. Reached(s) = Place(stage)
    BY <1>4, <1>6 DEF Reached
  <2>2. ASSUME NEW i \in DOMAIN run.trials PROVE Line(s, Place(stage), run.trials[i].argv)
    <3>1. Line(run, m, run.trials[i].argv)
      BY <1>2 DEF Lined, m
    <3>2. m <= Place(stage) /\ Place(stage) \in 0..5
      BY <1>7
    <3> QED BY <1>4, <1>7, <3>1, <3>2, LineLater
  <2> QED BY <1>4, <2>1, <2>2 DEF Lined
<1>10. /\ IsList(q) /\ Len(q) \in Nat
       /\ \A k \in 1..Len(q) : q[k] \in Range(Lists[stage]) /\ IsCandidate(stage, a, q[k])
  <2>1. /\ IsList(q)
        /\ \A k \in 1..Len(q) : LET v == q[k] IN v \in Range(Lists[stage]) /\ IsCandidate(stage, a, v)
    BY <1>7, PlannedIs, Zenon DEF q
  <2> QED BY <2>1, ListPlaces
<1>11. Queued(s)
  <2>1. s.stages[s.at] = stage /\ s.incumbent.argv = a /\ s.queue = q
    BY <1>4
  <2> HIDE DEF stage, a
  <2> QED BY <1>10, <2>1 DEF Queued, Choice
<1>12. Meant(s)
  BY <1>2, <1>4, <1>9, <1>11 DEF Meant
<1>13. Len(q) <= Len(PlanFor(run, z)) /\ Len(PlanFor(run, z)) \in Nat
  <2> DEFINE b == CountedAgainst(stage, run.stages, run.flags, Lists)
  <2>1. /\ WellFormed(a) /\ \A f \in FlagsOf[stage] : ValueOf(a, f) = ValueOf(run.flags, f)
        /\ \/ ValueOf(a, "BatchSize") = ValueOf(run.flags, "BatchSize")
           \/ "batch" \in Range(run.stages) /\ ValueOf(a, "BatchSize") \in Range(Lists["batch"])
    BY <1>7, <1>8 DEF Line
  <2> HIDE DEF stage, a
  <2>2. ASSUME NEW v \in Range(Lists[stage]), IsCandidate(stage, a, v) PROVE IsCandidate(stage, b, v)
    BY <1>2, <1>7, <2>1, <2>2, CountedIs
  <2> HIDE DEF b
  <2>3. /\ Len(Planned(stage, a, Lists)) \in Nat /\ Len(Planned(stage, b, Lists)) \in Nat
        /\ Len(Planned(stage, a, Lists)) <= Len(Planned(stage, b, Lists))
    BY <1>7, <2>2, PlannedFewer
  <2> QED BY <2>3 DEF q, PlanFor, b, stage
<1>14. Within(s, 0)
  <2>1. CASE run.gated
    BY <1>2, <1>4, <2>1 DEF Within
  <2>2. CASE ~run.gated
    <3>1. PICK c : Sums(run, c) /\ run.launches + Len(run.queue) + 0 <= 1 + c[run.at]
      BY <1>1, <1>2, <2>2 DEF Within, Due
    <3>2. c[z] = c[z - 1] + Len(PlanFor(run, z)) /\ c[z - 1] \in Nat /\ c[z] \in Nat
      BY <1>5, <1>6, <3>1 DEF Sums
    <3>3. Sums(s, c)
      BY <1>4, <3>1 DEF Sums, PlanFor
    <3>4. s.launches + Len(s.queue) + 0 <= 1 + c[s.at]
      <4>1. c[z] = c[run.at] + Len(PlanFor(run, z)) /\ c[run.at] \in Nat
        BY <1>6, <3>2
      <4>2. run.launches + Len(q) + 0 <= 1 + c[z]
        <5> DEFINE x == run.launches
                   y == Len(run.queue)
                   u == Len(q)
                   v == Len(PlanFor(run, z))
                   e == c[run.at]
                   g == c[z]
        <5>1. x + y + 0 <= 1 + e /\ g = e + v /\ u <= v
          BY <1>13, <3>1, <4>1
        <5>2. x \in Nat /\ y \in Nat /\ u \in Nat /\ v \in Nat /\ e \in Nat /\ g \in Nat
          BY <1>2, <1>10, <1>13, <3>2, <4>1
        <5> HIDE DEF x, y, u, v, e, g
        <5>3. x + u + 0 <= 1 + g
          BY <5>1, <5>2
        <5> QED BY <5>3 DEF x, u, g
      <4> QED BY <1>4, <4>2
    <3> QED BY <1>2, <1>4, <3>3, <3>4 DEF Within
  <2> QED BY <2>1, <2>2
<1>15. Due("stage") = 0 /\ "stage" \notin Trials \cup Over
  BY DEF Due, Trials, Over
<1> QED BY <1>1, <1>2, <1>4, <1>12, <1>14, <1>15, LGoes DEF LInv

\* Between stages only the incumbent changes, or the winner is named.
LEMMA LBetween ==
    ASSUME IInv, LInv, pc \notin {"idle", "applied"} \cup Trials, Due(pc) = 0,
           NEW p, p \notin {"idle", "applied"} \cup Trials, Due(p) = 0, NEW s, pc' = p, run' = s, extra' = extra,
           s.flags = run.flags, s.stages = run.stages, s.at = run.at, s.trials = run.trials,
           s.queue = run.queue, s.gated = run.gated, s.ceiling = run.ceiling, s.launches = run.launches,
           s.incumbent.argv = run.incumbent.argv \/ run.queue = <<>>,
           p \in Over => s.trials # <<>>, p = "apply" => s.winner # NoValue,
           disk'.is = "written" => Moves(disk'.trials)
    PROVE  LInv'
<1>1. /\ InShape(run) /\ Meant(run) /\ Within(run, Due(pc)) /\ Behind(run.flags, extra) /\ IsList(run.queue)
      /\ run.launches \in Nat /\ Len(run.queue) \in Nat
  BY LHolds
<1>2. Meant(s)
  BY <1>1, MeantOn
<1>3. Within(s, 0)
  <2>1. s.launches + Len(s.queue) + 0 <= run.launches + Len(run.queue) + 0 /\ s.launches \in Nat /\ 0 \in Nat
    BY <1>1
  <2> QED BY <1>1, <2>1, WithinOn
<1> QED BY <1>1, <1>2, <1>3, LGoes

LEMMA LStageEnds == ASSUME IInv, LInv, StageEnds PROVE LInv'
<1> DEFINE best == PickWinner(run.scored)
           a == run.scored[best].candidate.argv
           d == run.scored[best].measured
           s == IF best = 0 THEN run ELSE [run EXCEPT !.incumbent = [argv |-> a, measured |-> d]]
<1>1. /\ pc = "stage" /\ run.queue = <<>> /\ disk' = disk /\ extra' = extra
      /\ pc' = "next" /\ run' = s
  BY DEF StageEnds, Goes
<1>2. InShape(run)
  BY <1>1, LHolds
<1> HIDE DEF best, a, d
<1>3. /\ s.flags = run.flags /\ s.stages = run.stages /\ s.at = run.at /\ s.trials = run.trials
      /\ s.queue = run.queue /\ s.gated = run.gated
      /\ s.ceiling = run.ceiling /\ s.launches = run.launches
  BY <1>2 DEF InShape, Fields
<1> HIDE DEF s
<1>4. Due("stage") = 0 /\ Due("next") = 0 /\ "stage" \notin Trials /\ "next" \notin Trials \cup Over
  BY DEF Due, Trials, Over
<1> QED BY <1>1, <1>3, <1>4, LBetween DEF LInv

LEMMA LSettle == ASSUME IInv, LInv, Settle PROVE LInv'
<1> DEFINE winner == IF run.incumbent.argv = run.trials[1].argv THEN NoValue ELSE run.incumbent.argv
           s == [run EXCEPT !.winner = winner]
<1>1. /\ pc = "next" /\ disk' = Torn /\ extra' = extra /\ pc' = "settle" /\ run' = s
  BY DEF Settle, Goes
<1>2. InShape(run) /\ run.trials # <<>>
  BY <1>1, LHolds DEF IInv, Phase
<1> HIDE DEF winner
<1>3. /\ s.flags = run.flags /\ s.stages = run.stages /\ s.at = run.at /\ s.trials = run.trials
      /\ s.queue = run.queue /\ s.gated = run.gated /\ s.incumbent.argv = run.incumbent.argv
      /\ s.ceiling = run.ceiling /\ s.launches = run.launches
  BY <1>2 DEF InShape, Fields
<1> HIDE DEF s
<1>4. Due("next") = 0 /\ Due("settle") = 0 /\ "next" \notin Trials /\ "settle" \notin Trials /\ Torn.is # "written"
  BY DEF Due, Trials, Torn
<1> QED BY <1>1, <1>2, <1>3, <1>4, LBetween

LEMMA LSettled == ASSUME IInv, LInv, Settled PROVE LInv'
<1>1. /\ pc = "settle" /\ disk' = Written(run.trials, run.winner) /\ extra' = extra
      /\ pc' = "idle" \/ (pc' = "apply" /\ run' = run /\ run.winner # NoValue)
  BY DEF Settled, Goes, Ends, EndsAs
<1>2. Moves(run.trials) /\ run.trials # <<>>
  BY <1>1, LHolds DEF LInv, LPhase, Over
<1>3. disk'.trials = run.trials
  BY <1>1 DEF Written
<1>4. Due("settle") = 0 /\ Due("apply") = 0 /\ "settle" \notin Trials /\ "apply" \notin Trials
  BY DEF Due, Trials
<1>5. CASE pc' = "idle"
  BY <1>2, <1>3, <1>5, LEnds
<1>6. CASE pc' = "apply" /\ run' = run /\ run.winner # NoValue
  <2>1. /\ pc \notin {"idle", "applied"} \cup Trials /\ "apply" \notin {"idle", "applied"} \cup Trials
        /\ Due(pc) = 0 /\ Moves(disk'.trials)
    BY <1>1, <1>2, <1>3, <1>4
  <2> DEFINE s == run
  <2>2. /\ s.flags = run.flags /\ s.stages = run.stages /\ s.at = run.at /\ s.trials = run.trials
        /\ s.queue = run.queue /\ s.gated = run.gated /\ s.incumbent.argv = run.incumbent.argv
        /\ s.ceiling = run.ceiling /\ s.launches = run.launches /\ s.winner # NoValue /\ s.trials # <<>>
        /\ run' = s
    BY <1>2, <1>6
  <2> HIDE DEF s
  <2> QED BY <1>1, <1>4, <1>6, <2>1, <2>2, LBetween
<1> QED BY <1>1, <1>5, <1>6

LEMMA LApply == ASSUME IInv, LInv, Apply PROVE LInv'
<1>1. /\ pc = "apply" /\ disk' = disk
      /\ \/ pc' = "idle"
         \/ pc' = "applied" /\ run' = run /\ extra' = AppliedExtraFlags(extra, run.winner)
  BY DEF Apply, Goes, Ends, EndsAs
<1>2. CASE pc' = "idle"
  BY <1>1, <1>2, LEnds DEF LInv
<1>3. CASE pc' = "applied" /\ run' = run /\ extra' = AppliedExtraFlags(extra, run.winner)
  <2>1. /\ Kept(run) /\ Meant(run) /\ Within(run, Due(pc)) /\ Behind(run.flags, extra)
        /\ Plain(run.flags) /\ Lined(run)
    BY <1>1, LHolds
  <2>2. run.trials # <<>> /\ run.winner = run.trials[StandsAfter(run.trials, 5)].argv
    <3>1. Len(Order) = 5
      BY Places
    <3> QED BY <1>1, <3>1 DEF IInv, Phase, WinnerStands, Over, LInv, LPhase
  <2>3. Line(run, Reached(run), run.winner)
    <3>1. 5 \in 0..5
      OBVIOUS
    <3> QED BY <2>1, <2>2, <3>1, StandsAs
  <2>4. \A f \in Flags : EngineValue(Effective(AppliedExtraFlags(extra, run.winner)), f) = EngineValue(run.winner, f)
    BY <2>1, <2>3, WinnerIsRead
  <2>5. AppliedRunsWinner'
    BY <1>3, <2>4, Zenon DEF AppliedRunsWinner, Effective, Flags
  <2>6. LPhase("applied", run, extra')
    BY <1>1, <2>1, <2>2 DEF LPhase, Due, Trials
  <2> QED BY <1>1, <1>3, <2>5, <2>6 DEF LInv
<1> QED BY <1>1, <1>2, <1>3

LEMMA LNext == ASSUME IInv, LInv, [Next]_vars, ~Begin PROVE LInv'
<1>1. CASE Leave
  <2>1. pc' = "idle" /\ disk' = disk
    BY <1>1 DEF Leave, Ends, EndsAs
  <2> QED BY <2>1, LEnds DEF LInv
<1>2. CASE Stop
  <2>1. pc' = pc /\ run' = run /\ extra' = extra /\ disk' = disk
    BY <1>2 DEF Stop
  <2>2. AppliedRunsWinner'
    BY <2>1, Zenon DEF LInv, AppliedRunsWinner
  <2> QED BY <2>1, <2>2 DEF LInv
<1>3. CASE UNCHANGED vars
  <2>1. pc' = pc /\ run' = run /\ extra' = extra /\ disk' = disk
    BY <1>3 DEF vars
  <2>2. AppliedRunsWinner'
    BY <2>1, Zenon DEF LInv, AppliedRunsWinner
  <2> QED BY <2>1, <2>2 DEF LInv
<1> QED BY <1>1, <1>2, <1>3, LConfirm, LBaseline, LNextTrial, LStart, LProbe, LTeardown,
           LRecord, LWrite, LNextStage, LStageEnds, LSettle, LSettled, LApply, LKill DEF Next

\* Only the beginning of a run says whether its line is plain.
LEMMA PlainKept == ASSUME [Next]_vars, ~Begin PROVE plain' = plain
BY DEF Next, vars, Confirm, Baseline, NextTrial, Start, Probe, Teardown, Record, Write, NextStage, StageEnds,
       Settle, Settled, Apply, Leave, Kill, Stop

PInv == plain => LInv

LEMMA PNext == ASSUME IInv, PInv, [Next]_vars PROVE PInv'
<1>1. CASE Begin
  BY <1>1, LBegin DEF PInv
<1>2. CASE ~Begin
  BY <1>2, PlainKept, LNext DEF PInv
<1> QED BY <1>1, <1>2

LEMMA PInvAlways == Spec => []PInv
<1>1. Init => PInv
  BY LInit DEF PInv
<1>2. IInv /\ PInv /\ [Next]_vars => PInv'
  BY PNext
<1> QED BY <1>1, <1>2, IInvAlways, PTL DEF Spec

LEMMA LInvMeans == ASSUME IInv, PInv PROVE LinesAreReadAsMeant
<1> SUFFICES ASSUME plain PROVE ChangesItsOwnFlags /\ AppliedRunsWinner
  BY DEF LinesAreReadAsMeant
<1>1. ChangesItsOwnFlags
  BY MovesTell DEF IInv, LInv, PInv
<1>2. AppliedRunsWinner
  BY DEF LInv, PInv
<1> QED BY <1>1, <1>2

LEMMA LInvCounts == ASSUME IInv, LInv PROVE LaunchesWithinCeiling
<1>1. SUFFICES ASSUME pc # "idle", ~run.gated PROVE run.launches <= run.ceiling
  BY DEF LaunchesWithinCeiling
<1>2. InShape(run) /\ Within(run, Due(pc)) /\ IsList(run.queue)
  BY <1>1 DEF IInv, Phase, LInv, LPhase, Meant, Queued
<1>3. PICK c : Sums(run, c) /\ run.launches + Len(run.queue) + Due(pc) <= 1 + c[run.at]
  BY <1>1, <1>2 DEF Within
<1>4. Rising(run.stages) /\ run.at \in 0..Len(run.stages)
  BY <1>2 DEF InShape
<1>5. 1 + c[run.at] <= run.ceiling /\ run.ceiling = 1 + c[Len(run.stages)] /\ Len(run.stages) \in 0..Len(run.stages)
  <2>1. Len(run.stages) \in Nat
    BY <1>4 DEF Rising
  <2> QED BY <1>3, <1>4, <2>1, SumsRise DEF Sums
<1>6. c[run.at] \in Nat /\ c[Len(run.stages)] \in Nat
  BY <1>3, <1>4, <1>5 DEF Sums
<1>7. run.launches \in Nat /\ Len(run.queue) \in Nat /\ Due(pc) \in Nat
  BY <1>2, ListPlaces DEF Within, Due
<1> DEFINE x == run.launches
           y == Len(run.queue)
           u == Due(pc)
           e == c[run.at]
           g == c[Len(run.stages)]
<1>8. x + y + u <= 1 + e /\ 1 + e <= 1 + g /\ run.ceiling = 1 + g
  BY <1>3, <1>5
<1>9. x \in Nat /\ y \in Nat /\ u \in Nat /\ e \in Nat /\ g \in Nat
  BY <1>6, <1>7
<1> HIDE DEF x, y, u, e, g
<1>10. x <= 1 + g
  BY <1>8, <1>9
<1> QED BY <1>8, <1>10 DEF x

\* A run that starts from a line naming each tuned flag once never launches more
\* than the plan named, unless its spec stage is gated (core/tune.rs
\* max_launches, counted before any winner is known).
THEOREM LaunchesWithinCeilingAlways == Spec => [](plain => LaunchesWithinCeiling)
<1>1. IInv /\ PInv => (plain => LaunchesWithinCeiling)
  BY LInvCounts DEF PInv
<1> QED BY <1>1, IInvAlways, PInvAlways, PTL

\* Whatever runs came before it, the lines such a run rewrites are read as they
\* were meant: in the record, a candidate's flags differ from those it started
\* from in its own stage's, and only there, and the flags --apply writes back
\* launch what won (core/tune.rs apply_value, applied_extra_flags).
THEOREM LinesAreReadAsMeantAlways == Spec => []LinesAreReadAsMeant
BY IInvAlways, PInvAlways, LInvMeans, PTL
=============================================================================
