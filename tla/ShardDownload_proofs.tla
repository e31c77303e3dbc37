------------------------ MODULE ShardDownload_proofs ------------------------
(***************************************************************************)
(* Theorems about ShardDownload, for any length of the shard and any       *)
(* number of improper answers: refusals, other ranges, and successes whose *)
(* bytes are not the shard's, which taint the file they go into.           *)
(***************************************************************************)
EXTENDS ShardDownload, SequenceTheorems, TLAPS

Blocks == 0..Size

-----------------------------------------------------------------------------
(* Sequences of blocks.                                                    *)

\* `body` goes on where the first `n` blocks of the shard end.
Follows(body, n) == \A i \in 1..Len(body) : body[i] = n + i

LEMMA SizeNat == Size \in Nat /\ Size > 0
BY SizeAssumption

LEMMA ShardType == Shard \in Seq(Blocks) /\ Len(Shard) = Size
<1>1. Shard \in [1..Size -> Blocks]
  BY SizeNat DEF Shard, Blocks
<1>2. Shard \in Seq(Blocks) /\ Len(Shard) = Size
  BY <1>1, SizeNat, SeqDef
<1> QED BY <1>2

LEMMA TailType ==
    ASSUME NEW n \in 0..(Size - 1)
    PROVE  TailFrom(n) \in Seq(Blocks)
<1>1. \A i \in (n + 1)..Size : Shard[i] \in Blocks /\ Shard[i] = i
  BY SizeNat DEF Shard, Blocks
<1>2. n + 1 \in Int /\ Size \in Int /\ n + 1 <= Size
  BY SizeNat
<1>3. TailFrom(n) \in Seq(Blocks)
  BY <1>1, <1>2, SubSeqProperties DEF TailFrom
<1> QED BY <1>3

LEMMA OtherType == OtherBodies \subseteq Seq(Blocks)
<1> SUFFICES ASSUME NEW n \in 1..(Size + 1) PROVE [i \in 1..n |-> 0] \in Seq(Blocks)
  BY DEF OtherBodies
<1>1. [i \in 1..n |-> 0] \in [1..n -> Blocks] /\ n \in Nat
  BY SizeNat DEF Blocks
<1> QED BY <1>1, SeqDef

LEMMA ErrorPageType == ErrorPage \in Seq(Blocks)
BY SizeNat DEF ErrorPage, Blocks

\* One block less.
LEMMA FollowsTail ==
    ASSUME NEW body \in Seq(Blocks), NEW n \in Nat, Follows(body, n), body # <<>>
    PROVE  Head(body) = n + 1 /\ n < Size /\ Follows(Tail(body), n + 1) /\ Tail(body) \in Seq(Blocks)
<1>1. Len(body) \in Nat \ {0} /\ Head(body) = body[1]
  BY EmptySeq
<1>2. Tail(body) \in Seq(Blocks) /\ Len(Tail(body)) = Len(body) - 1
      /\ \A i \in 1..Len(Tail(body)) : Tail(body)[i] = body[i + 1]
  BY HeadTailProperties
<1>3. Head(body) \in Blocks /\ Head(body) = n + 1
  BY <1>1 DEF Follows
<1> QED BY <1>1, <1>2, <1>3, SizeNat DEF Follows, Blocks

\* A prefix with the next block is a prefix.
LEMMA PrefixGrows ==
    ASSUME NEW s \in Seq(Blocks), NEW t \in Seq(Blocks), IsPrefix(s), Len(s) < Size,
           Len(t) = Len(s) + 1, \A i \in 1..Len(s) : t[i] = s[i], t[Len(t)] = Len(t)
    PROVE  IsPrefix(t)
<1>1. Len(s) \in Nat
  BY LenProperties
<1>2. ASSUME NEW i \in 1..Len(t) PROVE t[i] = i
  BY <1>1, <1>2 DEF IsPrefix
<1> QED BY <1>1, <1>2, SizeNat DEF IsPrefix

LEMMA WholePrefix ==
    ASSUME NEW s \in Seq(Blocks), IsPrefix(s), Len(s) = Size
    PROVE  s = Shard
<1>1. Len(Shard) = Size /\ \A i \in 1..Size : Shard[i] = i
  BY ShardType DEF Shard
<1> QED BY <1>1, ShardType, SeqEqual DEF IsPrefix

-----------------------------------------------------------------------------
(* Type correctness.                                                       *)

\* A command that has a file open under some name writes to a file that is
\* there.
Held ==
    \A q \in Pullers :
        /\ pull[q].file = "part" => part \in Seq(Blocks)
        /\ pull[q].file = "dest" => dest \in Seq(Blocks)

LEMMA IdleType == Idle \in Pulls
BY EmptySeq DEF Idle, Pulls, PullSteps, Blocks

LEMMA LengthType ==
    ASSUME NEW file, file = NoFile \/ file \in Seq(Blocks)
    PROVE  Length(file) \in Nat
BY LenProperties DEF Length

LEMMA WrittenType ==
    ASSUME NEW p \in Pullers, pull[p] \in Pulls, pull[p].body # <<>>, NEW file \in Seq(Blocks)
    PROVE  Written(p, file) \in Seq(Blocks)
<1>1. pull[p].body \in Seq(Blocks) /\ pull[p].copied \in Nat
  BY DEF Pulls, Blocks
<1>2. Head(pull[p].body) \in Blocks
  BY <1>1, HeadTailProperties
<1>3. CASE pull[p].from > 0
  BY <1>2, <1>3, AppendProperties DEF Written
<1>4. CASE ~(pull[p].from > 0)
  <2> DEFINE block == Head(pull[p].body)
             at    == pull[p].copied + 1
             n     == IF at > Len(file) THEN at ELSE Len(file)
             value(i) == IF i = at THEN block ELSE IF i <= Len(file) THEN file[i] ELSE 0
  <2>1. n \in Nat
    BY <1>1, LenProperties
  <2>2. \A i \in 1..n : value(i) \in Blocks
    BY <1>1, <1>2, LenProperties, SizeNat DEF Blocks
  <2>3. Written(p, file) = [i \in 1..n |-> value(i)]
    BY <1>4 DEF Written
  <2> HIDE DEF n, value
  <2>4. [i \in 1..n |-> value(i)] \in [1..n -> Blocks]
    BY <2>2
  <2> QED BY <2>1, <2>3, <2>4, SeqDef
<1> QED BY <1>3, <1>4

\* What a step makes of the command `p`.
Becomes(p, c) == pull' = [q \in Pullers |-> IF q = p THEN c ELSE pull[q]]

LEMMA BecomesType ==
    ASSUME TypeOK, NEW p \in Pullers, NEW c \in Pulls, Becomes(p, c)
    PROVE  pull' \in [Pullers -> Pulls] /\ pull'[p] = c /\ \A q \in Pullers \ {p} : pull'[q] = pull[q]
BY DEF TypeOK, Becomes

LEMMA EndType ==
    ASSUME TypeOK, NEW p \in Pullers, End(p)
    PROVE  /\ pull' \in [Pullers -> Pulls] /\ pull'[p] = Idle
           /\ \A q \in Pullers \ {p} : pull'[q] = pull[q]
<1>1. Becomes(p, Idle)
  BY DEF End, Becomes, TypeOK
<1> QED BY <1>1, IdleType, BecomesType

LEMMA GotoType ==
    ASSUME TypeOK, NEW p \in Pullers, NEW step \in PullSteps, Goto(p, step)
    PROVE  /\ pull' \in [Pullers -> Pulls] /\ \A q \in Pullers \ {p} : pull'[q] = pull[q]
           /\ pull'[p].pc = step /\ pull'[p].file = pull[p].file /\ pull'[p].from = pull[p].from
           /\ pull'[p].copied = pull[p].copied /\ pull'[p].body = pull[p].body
<1> DEFINE c == [pull[p] EXCEPT !.pc = step]
<1>1. Becomes(p, c)
  BY DEF Goto, Becomes, TypeOK
<1>2. /\ c \in Pulls /\ c.pc = step /\ c.file = pull[p].file /\ c.from = pull[p].from
      /\ c.copied = pull[p].copied /\ c.body = pull[p].body
  BY DEF TypeOK, Pulls
<1> HIDE DEF c
<1> QED BY <1>1, <1>2, BecomesType

\* An answer, as the commands see it.
Answers == [status : {200, 206, 416, 503}, start : 0..Size, total : 0..(Size + 1), body : Seq(Blocks)]

\* Only a 206 starts anywhere but at the beginning; what is not foreign is the
\* shard from there on.
Honest(a) ==
    /\ a.status # 206 => a.start = 0
    /\ ~Foreign(a) => Follows(a.body, a.start)

LEMMA AnswerType ==
    ASSUME NEW s \in {200, 206, 416, 503}, NEW n \in 0..Size, NEW t \in 0..(Size + 1),
           NEW body \in Seq(Blocks), s # 206 => n = 0, NEW a,
           a = [status |-> s, start |-> n, total |-> t, body |-> body]
    PROVE  a \in Answers /\ Honest(a)
<1>1. a \in Answers /\ (a.status # 206 => a.start = 0)
  BY DEF Answers
<1>2. ~Foreign(a) => Follows(a.body, a.start)
  BY DEF Foreign, Follows
<1> QED BY <1>1, <1>2 DEF Honest

LEMMA ProperType ==
    ASSUME NEW from \in Nat
    PROVE  Proper(from) \in Answers /\ Honest(Proper(from))
<1>1. CASE from = 0
  <2>1. Proper(from) = [status |-> 200, start |-> 0, total |-> Size, body |-> Shard]
    BY <1>1 DEF Proper
  <2> QED BY <2>1, ShardType, SizeNat, AnswerType
<1>2. CASE from > 0 /\ from < Size
  <2>1. Proper(from) = [status |-> 206, start |-> from, total |-> Size, body |-> TailFrom(from)]
    BY <1>2 DEF Proper
  <2>2. from \in 0..(Size - 1) /\ from \in 0..Size /\ Size \in 0..(Size + 1)
    BY <1>2, SizeNat
  <2> QED BY <2>1, <2>2, TailType, AnswerType
<1>3. CASE from > 0 /\ ~(from < Size)
  <2>1. Proper(from) = [status |-> 416, start |-> 0, total |-> Size, body |-> ErrorPage]
    BY <1>3 DEF Proper
  <2> QED BY <2>1, ErrorPageType, SizeNat, AnswerType
<1> QED BY <1>1, <1>2, <1>3

LEMMA FaultyType ==
    ASSUME NEW from \in Nat, NEW a \in Faulty(from)
    PROVE  a \in Answers /\ Honest(a)
<1>1. CASE \E b \in Seq(Blocks) :
             a = [status |-> 200, start |-> 0, total |-> Size, body |-> b]
  <2>1. PICK b \in Seq(Blocks) : a = [status |-> 200, start |-> 0, total |-> Size, body |-> b]
    BY <1>1
  <2> QED BY <2>1, SizeNat, AnswerType
<1>2. CASE \E n \in 0..(Size - 1) : \E t \in {0, Size, Size + 1} :
             \E b \in Seq(Blocks) :
                 a = [status |-> 206, start |-> n, total |-> t, body |-> b]
  <2>1. PICK n \in 0..(Size - 1), t \in {0, Size, Size + 1}, b \in Seq(Blocks) :
            a = [status |-> 206, start |-> n, total |-> t, body |-> b]
    BY <1>2
  <2>2. n \in 0..Size /\ t \in 0..(Size + 1)
    BY SizeNat
  <2> QED BY <2>1, <2>2, AnswerType
<1>3. CASE \E s \in {416, 503} : a = [status |-> s, start |-> 0, total |-> 0, body |-> ErrorPage]
  BY <1>3, ErrorPageType, SizeNat, AnswerType
<1>4. /\ {Shard} \cup OtherBodies \subseteq Seq(Blocks)
      /\ \A n \in 0..(Size - 1) : {TailFrom(n)} \cup OtherBodies \subseteq Seq(Blocks)
  BY ShardType, TailType, OtherType
<1>5. \/ \E b \in {Shard} \cup OtherBodies :
             a = [status |-> 200, start |-> 0, total |-> Size, body |-> b]
      \/ \E n \in 0..(Size - 1) : \E t \in {0, Size, Size + 1} :
             \E b \in {TailFrom(n)} \cup OtherBodies :
                 a = [status |-> 206, start |-> n, total |-> t, body |-> b]
      \/ \E s \in {416, 503} : a = [status |-> s, start |-> 0, total |-> 0, body |-> ErrorPage]
  BY DEF Faulty
<1> QED BY <1>1, <1>2, <1>3, <1>4, <1>5

\* What a command takes from an answer: nothing more, or a body, to be
\* appended or to start over with.
LEMMA DecideType ==
    ASSUME TypeOK, NEW p \in Pullers, NEW a \in Answers, Decide(p, a)
    PROVE  /\ pull' \in [Pullers -> Pulls] /\ \A q \in Pullers \ {p} : pull'[q] = pull[q]
           /\ \/ pull'[p] = Idle
              \/ /\ pull'[p].pc = "open" /\ pull'[p].file = pull[p].file /\ pull'[p].body = a.body
                 /\ pull'[p].foreign = Foreign(a)
                 /\ \/ /\ pull[p].from > 0 /\ Appendable(pull[p].from, a)
                       /\ pull'[p].from = pull[p].from
                    \/ Restarts(pull[p].from, a) /\ pull'[p].from = 0
<1> DEFINE f == Foreign(a)
           c == [pull[p] EXCEPT !.pc = "open", !.body = a.body, !.foreign = f]
           d == [pull[p] EXCEPT !.pc = "open", !.body = a.body, !.foreign = f, !.from = 0]
<1>0. pull[p] \in Pulls /\ a.body \in Seq(Blocks) /\ f \in BOOLEAN
  BY DEF TypeOK, Answers, Foreign
<1> HIDE DEF f
<1>1. c \in Pulls /\ c.pc = "open" /\ c.file = pull[p].file /\ c.body = a.body /\ c.foreign = f
      /\ c.from = pull[p].from
  BY <1>0 DEF Pulls, PullSteps, Blocks
<1>2. d \in Pulls /\ d.pc = "open" /\ d.file = pull[p].file /\ d.body = a.body /\ d.foreign = f
      /\ d.from = 0
  BY <1>0 DEF Pulls, PullSteps, Blocks
<1>3. CASE pull[p].from > 0 /\ Appendable(pull[p].from, a)
  <2>1. Becomes(p, c)
    BY <1>3 DEF Decide, Becomes, TypeOK, f
  <2> HIDE DEF c, d
  <2> QED BY <1>1, <1>3, <2>1, BecomesType DEF f
<1>4. CASE ~(pull[p].from > 0 /\ Appendable(pull[p].from, a)) /\ Restarts(pull[p].from, a)
  <2>1. Becomes(p, d)
    BY <1>4 DEF Decide, Becomes, TypeOK, f
  <2> HIDE DEF c, d
  <2> QED BY <1>2, <1>4, <2>1, BecomesType DEF f
<1>5. CASE ~(pull[p].from > 0 /\ Appendable(pull[p].from, a)) /\ ~Restarts(pull[p].from, a)
  <2>1. End(p)
    BY <1>5 DEF Decide
  <2> QED BY <2>1, EndType
<1> QED BY <1>3, <1>4, <1>5

LEMMA PrepareType ==
    ASSUME TypeOK, Held, NEW p \in Pullers, Prepare(p)
    PROVE  TypeOK' /\ Held'
<1>0. Length(part) \in Nat
  BY LengthType DEF TypeOK, Blocks
<1>1. CASE published # NoSize /\ Length(part) > published
  <2> DEFINE c(q) == [pull[q] EXCEPT !.file = Relabel(q, "part", "gone"),
                                     !.pc = IF q = p THEN "send" ELSE @,
                                     !.from = IF q = p THEN 0 ELSE @]
  <2>1. pull' = [q \in Pullers |-> c(q)] /\ part' = NoFile /\ dest' = dest
    BY <1>1 DEF Prepare
  <2>2. ASSUME NEW q \in Pullers
        PROVE  c(q) \in Pulls /\ c(q).file \in {pull[q].file, "gone"} /\ c(q).file # "part"
    BY DEF TypeOK, Pulls, PullSteps, Relabel
  <2> HIDE DEF c
  <2>3. pull' \in [Pullers -> Pulls] /\ Held'
    BY <2>1, <2>2 DEF Held
  <2> QED BY <2>1, <2>3 DEF Prepare, TypeOK
<1>2. CASE ~(published # NoSize /\ Length(part) > published)
  <2> DEFINE step == IF Length(part) = published THEN "finalize" ELSE "send"
             c    == [pull[p] EXCEPT !.pc = step, !.from = Length(part)]
  <2>1. Becomes(p, c) /\ part' = part /\ dest' = dest
    BY <1>2 DEF Prepare, Becomes, TypeOK
  <2>2. c \in Pulls /\ c.file = pull[p].file
    BY <1>0 DEF TypeOK, Pulls, PullSteps
  <2> HIDE DEF c
  <2>3. pull' \in [Pullers -> Pulls] /\ Held'
    BY <2>1, <2>2, BecomesType DEF Held
  <2> QED BY <2>1, <2>3 DEF Prepare, TypeOK
<1> QED BY <1>1, <1>2

LEMMA SendType ==
    ASSUME TypeOK, Held, NEW p \in Pullers, NEW a \in Answers, Decide(p, a),
           UNCHANGED <<published, part, dest, fetched, tainted>>, faults' \in 0..MaxFaults
    PROVE  TypeOK' /\ Held'
<1>1. pull' \in [Pullers -> Pulls]
  BY DecideType
<1>2. Held'
  BY DecideType DEF Held, Idle
<1> QED BY <1>1, <1>2 DEF TypeOK

LEMMA OpenType ==
    ASSUME TypeOK, Held, NEW p \in Pullers, Open(p)
    PROVE  TypeOK' /\ Held'
<1> DEFINE c == [pull[p] EXCEPT !.pc = "copy", !.file = "part", !.copied = 0]
<1>1. Becomes(p, c)
  BY DEF Open, Becomes, TypeOK
<1>2. c \in Pulls /\ c.file = "part"
  BY DEF TypeOK, Pulls, PullSteps
<1> HIDE DEF c
<1>3. part' \in Seq(Blocks)
  BY EmptySeq DEF Open, TypeOK, Blocks
<1>4. pull' \in [Pullers -> Pulls] /\ Held'
  BY <1>1, <1>2, <1>3, BecomesType DEF Held, Open
<1>5. tainted' \subseteq {"part", "dest"}
  BY DEF Open, Taints, TypeOK
<1> QED BY <1>3, <1>4, <1>5 DEF Open, TypeOK, Blocks

LEMMA CopyType ==
    ASSUME TypeOK, Held, NEW p \in Pullers, Copy(p)
    PROVE  TypeOK' /\ Held'
<1> DEFINE c == [pull[p] EXCEPT !.body = Tail(pull[p].body), !.copied = pull[p].copied + 1]
<1>0. pull[p] \in Pulls /\ pull[p].body \in Seq(Blocks) /\ pull[p].body # <<>>
  BY DEF TypeOK, Pulls, Copy, Blocks
<1>1. Becomes(p, c)
  BY DEF Copy, Becomes, TypeOK
<1>2. c \in Pulls /\ c.file = pull[p].file
  <2> DEFINE body   == Tail(pull[p].body)
             copied == pull[p].copied + 1
  <2>1. body \in Seq(0..Size)
    BY <1>0, HeadTailProperties DEF Blocks
  <2>2. copied \in Nat
    BY <1>0 DEF Pulls
  <2>3. c = [pull[p] EXCEPT !.body = body, !.copied = copied]
    OBVIOUS
  <2> HIDE DEF c, body, copied
  <2> QED BY <1>0, <2>1, <2>2, <2>3 DEF Pulls
<1> HIDE DEF c
<1>3. /\ pull[p].file = "part" => part' \in Seq(Blocks) /\ dest' = dest
      /\ pull[p].file = "dest" => dest' \in Seq(Blocks) /\ part' = part
      /\ pull[p].file \notin {"part", "dest"} => part' = part /\ dest' = dest
  BY <1>0, WrittenType DEF Copy, Held
<1>4. pull' \in [Pullers -> Pulls] /\ Held'
  BY <1>1, <1>2, <1>3, BecomesType DEF Held
<1> QED BY <1>3, <1>4 DEF Copy, TypeOK, Blocks

LEMMA FinalizeType ==
    ASSUME TypeOK, Held, NEW p \in Pullers, Finalize(p)
    PROVE  TypeOK' /\ Held'
<1>1. CASE part = NoFile
  BY <1>1, EndType DEF Finalize, TypeOK, Held, Idle
<1>2. CASE part # NoFile
  <2> DEFINE file(q) == IF pull[q].file = "part" THEN "dest" ELSE Relabel(q, "dest", "gone")
             c(q)    == IF q = p THEN Idle ELSE [pull[q] EXCEPT !.file = file(q)]
  <2>1. pull' = [q \in Pullers |-> c(q)] /\ part' = NoFile /\ dest' = part /\ part \in Seq(Blocks)
    BY <1>2 DEF Finalize, TypeOK, Blocks
  <2>2. ASSUME NEW q \in Pullers
        PROVE  c(q) \in Pulls /\ c(q).file # "part"
    <3>1. file(q) \in {"none", "dest", "gone"}
      BY DEF TypeOK, Pulls, Relabel
    <3> HIDE DEF file
    <3>2. [pull[q] EXCEPT !.file = file(q)] \in Pulls /\ [pull[q] EXCEPT !.file = file(q)].file # "part"
      BY <3>1 DEF TypeOK, Pulls
    <3>3. Idle \in Pulls /\ Idle.file # "part"
      BY IdleType DEF Idle
    <3> QED BY <3>2, <3>3
  <2> HIDE DEF c
  <2>3. pull' \in [Pullers -> Pulls] /\ Held'
    BY <2>1, <2>2 DEF Held
  <2> QED BY <2>1, <2>3 DEF Finalize, TypeOK, Blocks
<1> QED BY <1>1, <1>2

\* A local copy takes the place of whatever is there.
LEMMA AdoptType ==
    ASSUME TypeOK, Held, NEW copy \in Seq(Blocks), dest' = copy,
           UNCHANGED <<published, part, pull, faults>>, fetched' = FALSE,
           tainted' = tainted \ {"dest"}
    PROVE  TypeOK' /\ Held'
BY DEF TypeOK, Held, Blocks

LEMMA CheckType ==
    ASSUME TypeOK, Held, NEW p \in Pullers, Check(p) \/ AdoptCut(p)
    PROVE  TypeOK' /\ Held'
<1>1. PICK copy \in LocalCopies :
          \/ /\ Adoptable(copy) /\ fetched' = FALSE /\ UNCHANGED pull
             /\ tainted' = tainted \ {"dest"}
             /\ dest' = copy \/ \E n \in 0..(Len(copy) - 1) : dest' = SubSeq(copy, 1, n)
          \/ Goto(p, "prepare") /\ UNCHANGED <<dest, fetched, tainted>>
  BY DEF Check, AdoptCut
<1>2. UNCHANGED <<published, part, faults>>
  BY DEF Check, AdoptCut
<1>3. CASE Goto(p, "prepare") /\ UNCHANGED <<dest, fetched, tainted>>
  BY <1>2, <1>3, GotoType DEF TypeOK, Held, PullSteps
<1>4. CASE Adoptable(copy) /\ fetched' = FALSE /\ UNCHANGED pull /\ tainted' = tainted \ {"dest"}
           /\ (dest' = copy \/ \E n \in 0..(Len(copy) - 1) : dest' = SubSeq(copy, 1, n))
  <2>1. copy \in Seq(Blocks)
    BY <1>4, CopiesAssumption DEF Adoptable, Blocks
  <2>2. ASSUME NEW n \in 0..(Len(copy) - 1) PROVE SubSeq(copy, 1, n) \in Seq(Blocks)
    <3>1. \A i \in 1..n : copy[i] \in Blocks
      BY <2>1, LenProperties
    <3> QED BY <2>1, <3>1, LenProperties, SubSeqProperties
  <2>3. dest' \in Seq(Blocks)
    BY <1>4, <2>1, <2>2
  <2> QED BY <1>2, <1>4, <2>3, AdoptType
<1> QED BY <1>1, <1>3, <1>4

LEMMA NextType ==
    ASSUME TypeOK, Held, [Next]_vars
    PROVE  TypeOK' /\ Held'
<1>1. CASE UNCHANGED vars
  BY <1>1 DEF vars, TypeOK, Held
<1>2. ASSUME NEW p \in Pullers, Send(p)
      PROVE  TypeOK' /\ Held'
  <2>1. pull[p].from \in Nat
    BY DEF TypeOK, Pulls
  <2>2. Proper(pull[p].from) \in Answers
    BY <2>1, ProperType
  <2> QED BY <1>2, <2>2, SendType DEF Send, TypeOK
<1>3. ASSUME NEW p \in Pullers, SendFaulty(p)
      PROVE  TypeOK' /\ Held'
  <2>1. PICK a \in Faulty(pull[p].from) : Decide(p, a)
    BY <1>3 DEF SendFaulty
  <2>2. a \in Answers
    BY FaultyType DEF TypeOK, Pulls
  <2>3. faults' \in 0..MaxFaults
    BY <1>3, FaultsAssumption DEF SendFaulty, TypeOK
  <2> QED BY <1>3, <2>1, <2>2, <2>3, SendType DEF SendFaulty
<1>4. ASSUME NEW p \in Pullers, CopyEnds(p) \/ Verify(p) \/ Crash(p)
      PROVE  TypeOK' /\ Held'
  <2>1. (\E step \in {"verify", "finalize"} : Goto(p, step)) \/ End(p)
    BY <1>4 DEF CopyEnds, Verify, Crash
  <2>2. UNCHANGED <<published, part, dest, faults, fetched, tainted>>
    BY <1>4 DEF CopyEnds, Verify, Crash
  <2>3. CASE End(p)
    BY <2>2, <2>3, EndType DEF TypeOK, Held, Idle
  <2>4. ASSUME NEW step \in {"verify", "finalize"}, Goto(p, step)
        PROVE  TypeOK' /\ Held'
    BY <2>2, <2>4, GotoType DEF TypeOK, Held, PullSteps
  <2> QED BY <2>1, <2>3, <2>4
<1> QED
  BY <1>1, <1>2, <1>3, <1>4, CheckType, PrepareType, OpenType, CopyType, FinalizeType DEF Next

LEMMA InitType ==
    ASSUME Init
    PROVE  TypeOK /\ Held
<1>1. pull \in [Pullers -> Pulls] /\ \A q \in Pullers : pull[q].file = "none"
  BY IdleType DEF Init, Idle
<1>2. published \in {Size, NoSize} /\ 0 \in 0..MaxFaults
  BY PublishedAssumption, FaultsAssumption DEF Init
<1> QED BY <1>1, <1>2 DEF Init, TypeOK, Held

\* However many commands pull the shard, every file is missing or a sequence
\* of blocks, and none writes through a name to a file that is not there.
THEOREM TypeCorrect == Spec => []TypeOK
<1>1. Init => TypeOK /\ Held
  BY InitType
<1>2. (TypeOK /\ Held) /\ [Next]_vars => (TypeOK /\ Held)'
  BY NextType
<1> QED BY <1>1, <1>2, PTL DEF Spec

-----------------------------------------------------------------------------
(* One command at a time, and a published size.  At every step of the      *)
(* command the `.part` is as long as it has counted, and, if nothing       *)
(* foreign was taken, a prefix of the shard that goes on with the rest of  *)
(* the body while it copies.                                               *)

Partial == part # NoFile /\ "part" \notin tainted => IsPrefix(part)

Counted(c, file, taints) ==
    /\ c.pc = "send" => c.from = Length(file) /\ c.from < Size
    /\ c.pc = "open" =>
        /\ c.from = 0 \/ (file # NoFile /\ c.from = Len(file))
        /\ ~c.foreign => Follows(c.body, c.from)
    /\ c.pc = "copy" =>
        /\ c.file = "part" /\ Len(file) = c.from + c.copied
        /\ "part" \notin taints => Follows(c.body, c.from + c.copied)
    /\ c.pc = "verify" => Len(file) = c.from + c.copied
    /\ c.pc = "finalize" => Len(file) = Size
    /\ c.pc \in {"copy", "verify", "finalize"} =>
        /\ file \in Seq(Blocks)
        /\ "part" \notin taints => IsPrefix(file)

Download ==
    published # NoSize =>
        Partial /\ InstalledIsWhole /\ \A q \in Pullers : Counted(pull[q], part, tainted)

LEMMA IdleCounted == ASSUME NEW file, NEW taints PROVE Counted(Idle, file, taints)
BY DEF Counted, Idle

LEMMA EmptyPrefix == IsPrefix(<<>>)
BY SizeNat DEF IsPrefix

\* The installed shard is what it was.
LEMMA InstalledStays ==
    ASSUME InstalledIsWhole, published' = published, dest' = dest, fetched' = fetched,
           "dest" \in tainted => "dest" \in tainted'
    PROVE  InstalledIsWhole'
BY DEF InstalledIsWhole, FileMatches

LEMMA PrepareDownload ==
    ASSUME TypeOK, NEW p, Pullers = {p}, Download, published # NoSize, Prepare(p)
    PROVE  Download'
<1>0. published = Size /\ pull[p] \in Pulls /\ Partial /\ InstalledIsWhole
  BY DEF TypeOK, Download
<1>1. /\ dest' = dest /\ published' = published /\ fetched' = fetched
      /\ "dest" \in tainted => "dest" \in tainted'
  BY DEF Prepare
<1>2. InstalledIsWhole'
  BY <1>0, <1>1, InstalledStays
<1>3. Length(part) \in Nat
  BY LengthType DEF TypeOK, Blocks
<1>4. CASE Length(part) > Size
  <2> DEFINE c == [pull[p] EXCEPT !.file = Relabel(p, "part", "gone"), !.pc = "send", !.from = 0]
  <2>1. part' = NoFile /\ pull'[p] = c
    BY <1>0, <1>4 DEF Prepare
  <2>2. c.pc = "send" /\ c.from = 0
    BY <1>0 DEF Pulls
  <2> HIDE DEF c
  <2>3. Counted(c, NoFile, tainted')
    BY <2>2, SizeNat DEF Counted, Length
  <2> QED BY <1>0, <1>1, <1>2, <2>1, <2>3 DEF Download, Partial
<1>5. CASE ~(Length(part) > Size)
  <2> DEFINE step == IF Length(part) = published THEN "finalize" ELSE "send"
             from == Length(part)
             c    == [pull[p] EXCEPT !.pc = step, !.from = from]
  <2>1. part' = part /\ tainted' = tainted /\ pull'[p] = c
    BY <1>0, <1>5 DEF Prepare, TypeOK
  <2>2. c.pc = step /\ c.from = from
    BY <1>0 DEF Pulls
  <2>3. Length(part) = Size => part # NoFile /\ part \in Seq(Blocks) /\ Len(part) = Size
    BY SizeNat DEF Length, TypeOK, Blocks
  <2>4. step \in {"send", "finalize"} /\ (step = "finalize" <=> Length(part) = Size)
    BY <1>0
  <2> HIDE DEF c, step
  <2>5. Counted(c, part, tainted)
    <3>1. CASE step = "send"
      BY <1>3, <1>5, <2>2, <2>4, <3>1, SizeNat DEF Counted
    <3>2. CASE step = "finalize"
      BY <1>0, <2>2, <2>3, <2>4, <3>2 DEF Counted, Partial
    <3> QED BY <2>4, <3>1, <3>2
  <2>6. Partial'
    BY <1>0, <2>1 DEF Partial, IsPrefix
  <2> QED BY <1>0, <1>1, <1>2, <2>1, <2>5, <2>6 DEF Download
<1> QED BY <1>4, <1>5

\* Whatever answer comes, the body that is kept goes on where it is put, or is
\* known to be foreign.
LEMMA DecideDownload ==
    ASSUME TypeOK, NEW p, Pullers = {p}, Download, published # NoSize, At(p, "send"),
           NEW a \in Answers, Honest(a), Decide(p, a),
           UNCHANGED <<published, part, dest, fetched, tainted>>
    PROVE  Download'
<1>0. published = Size /\ Counted(pull[p], part, tainted) /\ Partial /\ InstalledIsWhole
  BY DEF TypeOK, Download
<1>1. pull[p].from = Length(part)
  BY <1>0 DEF Counted, At
<1>2. Partial' /\ InstalledIsWhole'
  BY <1>0, InstalledStays DEF Partial, IsPrefix
<1>3. CASE pull'[p] = Idle
  BY <1>2, <1>3, IdleCounted DEF Download
<1>4. CASE pull'[p] # Idle
  <2>1. /\ pull'[p].pc = "open" /\ pull'[p].body = a.body /\ pull'[p].foreign = Foreign(a)
        /\ \/ pull[p].from > 0 /\ Appendable(pull[p].from, a) /\ pull'[p].from = pull[p].from
           \/ Restarts(pull[p].from, a) /\ pull'[p].from = 0
    BY <1>4, DecideType
  <2>2. CASE pull[p].from > 0 /\ Appendable(pull[p].from, a) /\ pull'[p].from = pull[p].from
    <3>1. ~Foreign(a) => Follows(a.body, pull'[p].from)
      BY <2>2 DEF Appendable, Honest
    <3>2. part # NoFile /\ pull'[p].from = Len(part)
      BY <1>1, <2>2 DEF Length
    <3>3. Counted(pull'[p], part, tainted)
      BY <2>1, <3>1, <3>2 DEF Counted
    <3> QED BY <1>2, <3>3 DEF Download
  <2>3. CASE Restarts(pull[p].from, a) /\ pull'[p].from = 0
    <3>1. ~Foreign(a) => Follows(a.body, 0)
      BY <2>3 DEF Restarts, Honest
    <3>2. Counted(pull'[p], part, tainted)
      BY <2>1, <2>3, <3>1 DEF Counted
    <3> QED BY <1>2, <3>2 DEF Download
  <2> QED BY <2>1, <2>2, <2>3
<1> QED BY <1>3, <1>4

LEMMA OpenDownload ==
    ASSUME TypeOK, NEW p, Pullers = {p}, Download, published # NoSize, Open(p)
    PROVE  Download'
<1>0. pull[p] \in Pulls /\ Counted(pull[p], part, tainted) /\ Partial /\ InstalledIsWhole
  BY DEF TypeOK, Download
<1>1. /\ pull[p].from = 0 \/ (part # NoFile /\ pull[p].from = Len(part))
      /\ ~pull[p].foreign => Follows(pull[p].body, pull[p].from)
  BY <1>0 DEF Counted, Open, At
<1> DEFINE c == [pull[p] EXCEPT !.pc = "copy", !.file = "part", !.copied = 0]
<1>2. pull'[p] = c
  BY DEF Open, TypeOK
<1>3. c.pc = "copy" /\ c.file = "part" /\ c.copied = 0 /\ c.from = pull[p].from /\ c.body = pull[p].body
  BY <1>0 DEF Pulls
<1> HIDE DEF c
<1>4. pull[p].from \in Nat
  BY <1>0 DEF Pulls
<1>5. part' \in Seq(Blocks) /\ Len(part') = pull[p].from
  <2>1. CASE pull[p].from = 0
    <3>1. part' = <<>>
      BY <2>1 DEF Open
    <3> QED BY <2>1, <3>1, EmptySeq
  <2>2. CASE pull[p].from > 0
    <3>1. part' = part /\ part # NoFile /\ pull[p].from = Len(part)
      BY <1>1, <2>2 DEF Open
    <3> QED BY <3>1 DEF TypeOK, Blocks
  <2> QED BY <1>4, <2>1, <2>2
<1>6. /\ "dest" \in tainted => "dest" \in tainted'
      /\ "part" \notin tainted' =>
            ~pull[p].foreign /\ (part' = <<>> \/ (part' = part /\ part # NoFile /\ "part" \notin tainted))
  BY DEF Open, Taints
<1>7. "part" \notin tainted' => IsPrefix(part')
  BY <1>0, <1>6, EmptyPrefix DEF Partial
<1>8. Counted(c, part', tainted')
  BY <1>1, <1>3, <1>4, <1>5, <1>6, <1>7 DEF Counted
<1>9. Partial'
  BY <1>7 DEF Partial, IsPrefix
<1>10. InstalledIsWhole'
  BY <1>0, <1>6, InstalledStays DEF Open
<1> QED BY <1>2, <1>8, <1>9, <1>10 DEF Download

\* A block goes where it belongs, appended or at the command's own offset.
LEMMA CopyDownload ==
    ASSUME TypeOK, NEW p, Pullers = {p}, Download, published # NoSize, Copy(p)
    PROVE  Download'
<1> DEFINE body   == Tail(pull[p].body)
           copied == pull[p].copied + 1
           n      == pull[p].from + pull[p].copied
           block  == Head(pull[p].body)
           c      == [pull[p] EXCEPT !.body = body, !.copied = copied]
<1>0. /\ pull[p] \in Pulls /\ Counted(pull[p], part, tainted) /\ Partial /\ InstalledIsWhole
      /\ pull[p].body \in Seq(Blocks) /\ pull[p].body # <<>> /\ pull[p].pc = "copy"
  BY DEF TypeOK, Download, Pulls, Copy, At, Blocks
<1>1. pull[p].from \in Nat /\ pull[p].copied \in Nat /\ n \in Nat
  BY <1>0 DEF Pulls
<1>2. /\ pull[p].file = "part" /\ part \in Seq(Blocks) /\ Len(part) = n
      /\ "part" \notin tainted => Follows(pull[p].body, n) /\ IsPrefix(part)
  BY <1>0 DEF Counted
<1>3. block \in Blocks
  BY <1>0, HeadTailProperties
<1>4. Written(p, part) \in Seq(Blocks)
  BY <1>0, <1>2, WrittenType
<1>5. /\ Len(Written(p, part)) = n + 1
      /\ \A i \in 1..n : Written(p, part)[i] = part[i]
      /\ Written(p, part)[n + 1] = block
  <2>1. CASE pull[p].from > 0
    BY <1>2, <1>3, <2>1, AppendProperties DEF Written
  <2>2. CASE pull[p].from = 0
    <3> DEFINE value(i) == IF i = n + 1 THEN block ELSE IF i <= Len(part) THEN part[i] ELSE 0
               f == [i \in 1..(n + 1) |-> value(i)]
    <3>1. pull[p].copied = n
      BY <1>1, <2>2
    <3>2. Written(p, part) = f
      BY <1>1, <1>2, <2>2, <3>1 DEF Written
    <3>3. Len(f) = n + 1
      <4>1. DOMAIN f = 1..(n + 1)
        OBVIOUS
      <4> HIDE DEF f
      <4> QED BY <1>1, <1>4, <3>2, <4>1, LenProperties
    <3>4. \A i \in 1..n : f[i] = part[i]
      BY <1>1, <1>2
    <3>5. f[n + 1] = block
      BY <1>1
    <3> HIDE DEF f, n
    <3> QED BY <3>2, <3>3, <3>4, <3>5
  <2> QED BY <1>1, <2>1, <2>2
<1>6. part' = Written(p, part) /\ dest' = dest /\ published' = published
      /\ fetched' = fetched /\ tainted' = tainted
  BY <1>2 DEF Copy
<1>7. part' \in Seq(Blocks) /\ Len(part') = n + 1
  BY <1>4, <1>5, <1>6
<1>8. "part" \notin tainted => IsPrefix(part') /\ Follows(body, n + 1)
  <2> SUFFICES ASSUME "part" \notin tainted PROVE IsPrefix(part') /\ Follows(body, n + 1)
    OBVIOUS
  <2>1. block = n + 1 /\ n < Size /\ Follows(body, n + 1)
    BY <1>0, <1>1, <1>2, FollowsTail
  <2>2. IsPrefix(part)
    BY <1>2
  <2>3. part'[Len(part')] = Len(part')
    BY <1>1, <1>5, <1>6, <1>7, <2>1
  <2> HIDE DEF block, n, body
  <2> QED BY <1>2, <1>5, <1>6, <1>7, <2>1, <2>2, <2>3, PrefixGrows
<1>9. pull'[p] = c
  BY DEF Copy, TypeOK
<1>10. c.pc = "copy" /\ c.file = "part" /\ c.copied = copied /\ c.from = pull[p].from /\ c.body = body
  BY <1>0, <1>2 DEF Pulls
<1>11. c.from + c.copied = n + 1
  BY <1>1, <1>10
<1>12. InstalledIsWhole'
  BY <1>0, <1>6, InstalledStays
<1> HIDE DEF c, n, body, copied
<1>13. Counted(c, part', tainted')
  BY <1>6, <1>7, <1>8, <1>10, <1>11 DEF Counted
<1>14. Partial'
  BY <1>6, <1>8 DEF Partial, IsPrefix
<1> QED BY <1>9, <1>12, <1>13, <1>14 DEF Download

LEMMA FinalizeDownload ==
    ASSUME TypeOK, NEW p, Pullers = {p}, Download, published # NoSize, Finalize(p)
    PROVE  Download'
<1>0. published = Size /\ pull[p] \in Pulls /\ Counted(pull[p], part, tainted)
      /\ Partial /\ InstalledIsWhole
  BY DEF TypeOK, Download
<1>1. part \in Seq(Blocks) /\ Len(part) = Size /\ ("part" \notin tainted => IsPrefix(part))
  BY <1>0 DEF Counted, Finalize, At
<1>2. "part" \notin tainted => part = Shard
  BY <1>1, WholePrefix
<1>3. pull'[p] = Idle
  BY EndType DEF Finalize
<1>4. Counted(pull'[p], part', tainted')
  BY <1>3, IdleCounted
<1>5. published' = published /\ part' = NoFile
  BY DEF Finalize
<1>6. InstalledIsWhole'
  <2>1. CASE part = NoFile
    BY <1>0, <2>1, InstalledStays DEF Finalize
  <2>2. CASE part # NoFile
    BY <1>2, <2>2 DEF Finalize, InstalledIsWhole
  <2> QED BY <2>1, <2>2
<1> QED BY <1>0, <1>4, <1>5, <1>6 DEF Download, Partial

\* What file_matches accepts is the shard: a copy that was cut is too short.
LEMMA CheckDownload ==
    ASSUME TypeOK, NEW p, Pullers = {p}, Download, published # NoSize, Check(p) \/ AdoptCut(p)
    PROVE  Download'
<1>0. published = Size /\ Counted(pull[p], part, tainted) /\ Partial /\ InstalledIsWhole /\ At(p, "idle")
  BY DEF TypeOK, Download, Check, AdoptCut
<1>1. UNCHANGED <<published, part>>
  BY DEF Check, AdoptCut
<1>2. PICK copy \in LocalCopies :
          \/ /\ Adoptable(copy) /\ fetched' = FALSE /\ UNCHANGED pull
             /\ tainted' = tainted \ {"dest"}
             /\ dest' = copy \/ \E n \in 0..(Len(copy) - 1) : dest' = SubSeq(copy, 1, n)
          \/ Goto(p, "prepare") /\ UNCHANGED <<dest, fetched, tainted>>
  BY DEF Check, AdoptCut
<1>3. CASE Goto(p, "prepare") /\ UNCHANGED <<dest, fetched, tainted>>
  <2>1. pull'[p].pc = "prepare"
    BY <1>3, GotoType DEF PullSteps
  <2>2. Counted(pull'[p], part, tainted)
    BY <2>1 DEF Counted
  <2>3. InstalledIsWhole'
    BY <1>0, <1>1, <1>3, InstalledStays
  <2> QED BY <1>0, <1>1, <1>3, <2>2, <2>3 DEF Download, Partial, IsPrefix
<1>4. CASE Adoptable(copy) /\ fetched' = FALSE /\ UNCHANGED pull /\ tainted' = tainted \ {"dest"}
           /\ (dest' = copy \/ \E n \in 0..(Len(copy) - 1) : dest' = SubSeq(copy, 1, n))
  <2>1. copy \in Seq(Blocks) /\ Len(copy) = Size /\ \A i \in 1..Size : copy[i] = i
    BY <1>0, <1>4, CopiesAssumption DEF Adoptable, Blocks
  <2>2. copy = Shard
    BY <2>1, SizeNat, WholePrefix DEF IsPrefix
  <2>3. ASSUME NEW n \in 0..(Len(copy) - 1) PROVE Len(SubSeq(copy, 1, n)) # Size
    <3>1. \A i \in 1..n : copy[i] \in Blocks
      BY <2>1, LenProperties
    <3> QED BY <2>1, <3>1, SizeNat, SubSeqProperties
  <2>4. InstalledIsWhole'
    BY <1>0, <1>1, <1>4, <2>2, <2>3 DEF InstalledIsWhole, FileMatches
  <2>5. Partial' /\ Counted(pull'[p], part', tainted')
    BY <1>0, <1>1, <1>4 DEF Partial, IsPrefix, Counted, At
  <2> QED BY <2>4, <2>5 DEF Download
<1> QED BY <1>2, <1>3, <1>4

LEMMA DownloadPreserved ==
    ASSUME TypeOK, NEW p, Pullers = {p}, Download, [Next]_vars
    PROVE  Download'
<1>1. CASE UNCHANGED vars
  BY <1>1 DEF vars, Download, Partial, IsPrefix, InstalledIsWhole, FileMatches
<1>2. published' = published
  BY DEF Next, vars, Check, AdoptCut, Prepare, Send, SendFaulty, Open, Copy, CopyEnds, Verify,
         Finalize, Crash
<1>3. CASE published = NoSize
  BY <1>2, <1>3 DEF Download
<1>4. CASE published # NoSize
  <2>0. /\ pull[p] \in Pulls /\ Counted(pull[p], part, tainted) /\ Partial /\ InstalledIsWhole
        /\ published = Size
    BY <1>4 DEF TypeOK, Download
  <2>1. CASE Send(p)
    <3>1. pull[p].from \in Nat
      BY <2>0 DEF Pulls
    <3>2. Proper(pull[p].from) \in Answers /\ Honest(Proper(pull[p].from))
      BY <3>1, ProperType
    <3> QED BY <1>4, <2>1, <3>2, DecideDownload DEF Send
  <2>2. CASE SendFaulty(p)
    <3>1. PICK a \in Faulty(pull[p].from) : Decide(p, a)
      BY <2>2 DEF SendFaulty
    <3>2. a \in Answers /\ Honest(a)
      BY <2>0, FaultyType DEF Pulls
    <3> QED BY <1>4, <2>2, <3>1, <3>2, DecideDownload DEF SendFaulty
  <2>3. CASE CopyEnds(p) \/ Verify(p) \/ Crash(p)
    <3>1. UNCHANGED <<published, part, dest, faults, fetched, tainted>>
      BY <2>3 DEF CopyEnds, Verify, Crash
    <3>2. Counted(pull'[p], part, tainted)
      <4>1. CASE End(p)
        BY <4>1, EndType, IdleCounted
      <4>2. CASE CopyEnds(p)
        <5>1. Goto(p, "verify") /\ pull[p].pc = "copy"
          BY <4>2 DEF CopyEnds, At
        <5> QED BY <2>0, <5>1, GotoType DEF PullSteps, Counted
      <4>3. CASE Verify(p) /\ ~End(p)
        <5>1. Goto(p, "finalize") /\ pull[p].pc = "verify" /\ pull[p].from + pull[p].copied = Size
          BY <1>4, <2>0, <4>3 DEF Verify, At
        <5> QED BY <2>0, <5>1, GotoType DEF PullSteps, Counted
      <4> QED BY <2>3, <4>1, <4>2, <4>3 DEF Crash
    <3>3. InstalledIsWhole'
      BY <2>0, <3>1, InstalledStays
    <3> QED BY <2>0, <3>1, <3>2, <3>3 DEF Download, Partial, IsPrefix
  <2> QED
    BY <1>1, <1>4, <2>1, <2>2, <2>3, CheckDownload, PrepareDownload, OpenDownload, CopyDownload,
       FinalizeDownload DEF Next
<1> QED BY <1>3, <1>4

LEMMA InitDownload ==
    ASSUME Init
    PROVE  Download
BY IdleCounted DEF Init, Download, Partial, InstalledIsWhole, FileMatches

\* When one command pulls at a time, then whatever the server answers, however
\* often, and wherever transfers and commands are cut short: what is installed
\* is the shard, if the file holds no bytes that a success falsely carried as
\* the shard's (fetch_to, verify_length).
THEOREM InstalledIsWholeAlways ==
    ASSUME NEW p, Pullers = {p}
    PROVE  Spec => []InstalledIsWhole
<1>1. Init => TypeOK /\ Held /\ Download
  BY InitType, InitDownload
<1>2. (TypeOK /\ Held /\ Download) /\ [Next]_vars => (TypeOK /\ Held /\ Download)'
  BY NextType, DownloadPreserved
<1>3. Download => InstalledIsWhole
  BY DEF Download, InstalledIsWhole
<1> QED BY <1>1, <1>2, <1>3, PTL DEF Spec

\* And what a `.part` holds is the beginning of the shard, to be resumed from
\* its end, with the same exception (resume_action, appendable).
THEOREM PartIsPrefixAlways ==
    ASSUME NEW p, Pullers = {p}
    PROVE  Spec => []PartIsPrefix
<1>1. Init => TypeOK /\ Held /\ Download
  BY InitType, InitDownload
<1>2. (TypeOK /\ Held /\ Download) /\ [Next]_vars => (TypeOK /\ Held /\ Download)'
  BY NextType, DownloadPreserved
<1>3. Download => PartIsPrefix
  BY DEF Download, Partial, PartIsPrefix
<1> QED BY <1>1, <1>2, <1>3, PTL DEF Spec

\* With one command at a time and a published size, however often the server
\* refuses, ignores or moves a range, and wherever the command is killed: what
\* is installed is whole, and what is not can be resumed from its end, in every
\* file that no success has put other bytes into (WholeOrResumable).
THEOREM WholeOrResumableAlways ==
    ASSUME NEW p, Pullers = {p}
    PROVE  Spec => []WholeOrResumable
<1>1. Spec => []InstalledIsWhole
  BY InstalledIsWholeAlways
<1>2. Spec => []PartIsPrefix
  BY PartIsPrefixAlways
<1> QED BY <1>1, <1>2, PTL DEF WholeOrResumable

=============================================================================
