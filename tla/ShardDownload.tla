---------------------------- MODULE ShardDownload ----------------------------
(***************************************************************************)
(* One weights shard on its way from the hub to the models directory:      *)
(* download_plan's step for a file, with its resumable `.part` sibling.    *)
(*                                                                         *)
(* A shard is a sequence of Size blocks; block i of the true file is the   *)
(* number i, and 0 is any other content.  The server may answer a request  *)
(* with another range, an error, or a success whose bytes are not the      *)
(* shard's (an error page, another file); a transfer may break, the        *)
(* command may die at any step and the user runs it again.  Nothing but    *)
(* lengths is checked: `tainted` records which files hold bytes that the   *)
(* server passed off as the shard's.                                       *)
(*                                                                         *)
(* Several commands may pull the same shard: nothing locks the `.part`,    *)
(* and a command goes on writing to the file it opened when that file is   *)
(* renamed or removed meanwhile.                                           *)
(***************************************************************************)
EXTENDS Integers, Sequences

CONSTANTS
    Pullers,      \* the commands that pull this shard
    Size,         \* its true length
    NoFile,       \* the content of a file that does not exist
    NoSize,       \* the size of a file for which the hub publishes none
    LocalCopies,  \* what --model-loc may hold: contents, or NoFile
    PublishedSizes, \* the sizes the hub may list: Size or NoSize
    MaxFaults,    \* the bound on answers other than the one HTTP asks for
    CleanCuts     \* whether a transfer may break without being noticed

ASSUME SizeAssumption == Size \in Nat \ {0}
ASSUME PublishedAssumption == PublishedSizes \subseteq {Size, NoSize}
ASSUME FaultsAssumption == MaxFaults \in Nat /\ CleanCuts \in BOOLEAN

\* A local copy that has the length of the shard is the shard.
ASSUME CopiesAssumption ==
    \A copy \in LocalCopies :
        \/ copy = NoFile
        \/ copy \in Seq(0..Size) /\ (Len(copy) = Size => \A i \in 1..Size : copy[i] = i)

VARIABLES
    published,    \* the size in the plan
    part,         \* the content of the `.part`
    dest,         \* the content of the shard under its real name
    pull,         \* the commands
    faults,       \* how many answers were not the proper one
    fetched,      \* history: dest is a download, not a local copy
    tainted       \* history: the files (part, dest) that hold false answers

vars == <<published, part, dest, pull, faults, fetched, tainted>>

Shard == [i \in 1..Size |-> i]
ErrorPage == <<0>>

PullSteps == {"idle", "prepare", "send", "open", "copy", "verify", "finalize"}

\* `file` says which of the names the open file has now; `gone` if none.
\* `foreign` (history) says that the body is not what the answer says it is.
Pulls == [pc : PullSteps, from : Nat, copied : Nat, body : Seq(0..Size),
          file : {"none", "part", "dest", "gone"}, foreign : BOOLEAN]

TypeOK ==
    /\ published \in {Size, NoSize}
    /\ part = NoFile \/ part \in Seq(0..Size)
    /\ dest = NoFile \/ dest \in Seq(0..Size)
    /\ pull \in [Pullers -> Pulls]
    /\ faults \in 0..MaxFaults
    /\ fetched \in BOOLEAN
    /\ tainted \subseteq {"part", "dest"}

Idle == [pc |-> "idle", from |-> 0, copied |-> 0, body |-> <<>>, file |-> "none",
         foreign |-> FALSE]

Init ==
    /\ published \in PublishedSizes
    /\ part = NoFile
    /\ dest = NoFile
    /\ pull = [p \in Pullers |-> Idle]
    /\ faults = 0
    /\ fetched = FALSE
    /\ tainted = {}

-----------------------------------------------------------------------------

At(p, step) == pull[p].pc = step

Length(file) == IF file = NoFile THEN 0 ELSE Len(file)

Goto(p, step) == pull' = [pull EXCEPT ![p].pc = step]

\* The command ends: done, refused, failed or killed.
End(p) == pull' = [pull EXCEPT ![p] = Idle]

\* Unlinking or replacing a file leaves it to whoever has it open.
Relabel(q, old, new) == IF pull[q].file = old THEN new ELSE pull[q].file

FileMatches == published # NoSize /\ dest # NoFile /\ Len(dest) = published

\* link_verified: nothing is adopted when there is no size to check it by.
Adoptable(copy) == copy # NoFile /\ published # NoSize /\ Len(copy) = published

\* file_matches, then try_adopt: a local copy of the published size is linked.
Check(p) ==
    /\ At(p, "idle")
    /\ ~FileMatches
    /\ \E copy \in LocalCopies :
        IF Adoptable(copy)
        THEN /\ dest' = copy
             /\ fetched' = FALSE
             /\ tainted' = tainted \ {"dest"}
             /\ UNCHANGED pull
        ELSE Goto(p, "prepare") /\ UNCHANGED <<dest, fetched, tainted>>
    /\ UNCHANGED <<published, part, faults>>

\* On another volume the local copy is copied block by block, under the real
\* name, and that may be cut short.
AdoptCut(p) ==
    /\ At(p, "idle")
    /\ ~FileMatches
    /\ \E copy \in LocalCopies :
        /\ Adoptable(copy)
        /\ \E n \in 0..(Len(copy) - 1) : dest' = SubSeq(copy, 1, n)
    /\ fetched' = FALSE
    /\ tainted' = tainted \ {"dest"}
    /\ UNCHANGED <<published, part, pull, faults>>

\* prepare_part: a `.part` longer than the file can be is discarded; a
\* complete one only has to be renamed.
Prepare(p) ==
    /\ At(p, "prepare")
    /\ IF published # NoSize /\ Length(part) > published
       THEN /\ part' = NoFile
            /\ tainted' = tainted \ {"part"}
            /\ pull' = [q \in Pullers |->
                   [pull[q] EXCEPT !.file = Relabel(q, "part", "gone"),
                                   !.pc = IF q = p THEN "send" ELSE @,
                                   !.from = IF q = p THEN 0 ELSE @]]
       ELSE /\ pull' = [pull EXCEPT
                   ![p].pc = IF Length(part) = published THEN "finalize" ELSE "send",
                   ![p].from = Length(part)]
            /\ UNCHANGED <<part, tainted>>
    /\ UNCHANGED <<published, dest, faults, fetched>>

-----------------------------------------------------------------------------
(* The request for the bytes from `from` on, and its answer.               *)

TailFrom(n) == SubSeq(Shard, n + 1, Size)

\* The answer HTTP asks for: the whole file to a plain request, the tail to a
\* range request, and 416 to a range that starts past the end.
Proper(from) ==
    IF from = 0 THEN [status |-> 200, start |-> 0, total |-> Size, body |-> Shard]
    ELSE IF from < Size
         THEN [status |-> 206, start |-> from, total |-> Size, body |-> TailFrom(from)]
         ELSE [status |-> 416, start |-> 0, total |-> Size, body |-> ErrorPage]

\* Bytes that are not the shard's: an error page, a portal's, another file's.
OtherBodies == {[i \in 1..n |-> 0] : n \in 1..(Size + 1)}

\* Other answers: a success with other bytes, a range that was ignored or
\* moved, another file's range, a 206 whose range cannot be read (total 0),
\* 416 and 503.
Faulty(from) ==
    {[status |-> 200, start |-> 0, total |-> Size, body |-> b] : b \in {Shard} \cup OtherBodies} \cup
    (UNION {{[status |-> 206, start |-> n, total |-> t, body |-> b] :
                t \in {0, Size, Size + 1}, b \in {TailFrom(n)} \cup OtherBodies} :
            n \in 0..(Size - 1)}) \cup
    {[status |-> s, start |-> 0, total |-> 0, body |-> ErrorPage] : s \in {416, 503}}

\* The body is not the shard from where the answer says it starts.
Foreign(answer) ==
    \E i \in 1..Len(answer.body) : answer.body[i] # answer.start + i

\* appendable: the tail starts where the `.part` ends, in the planned file.
Appendable(from, answer) ==
    /\ answer.status = 206 /\ answer.total # 0
    /\ answer.start = from
    /\ published = NoSize \/ answer.total = published

\* A 416 means "start over" when there is no size to check the `.part` against.
Restarts(from, answer) ==
    \/ answer.status = 200
    \/ from > 0 /\ answer.status = 416 /\ published = NoSize

\* decide and resume_action.  A transfer that starts over keeps the answer
\* it has, whatever that answer's body is.
Decide(p, answer) ==
    LET from == pull[p].from
    IN IF from > 0 /\ Appendable(from, answer)
       THEN pull' = [pull EXCEPT ![p].pc = "open", ![p].body = answer.body,
                                 ![p].foreign = Foreign(answer)]
       ELSE IF Restarts(from, answer)
       THEN pull' = [pull EXCEPT ![p].pc = "open", ![p].body = answer.body,
                                 ![p].foreign = Foreign(answer), ![p].from = 0]
       ELSE End(p)

Send(p) ==
    /\ At(p, "send")
    /\ Decide(p, Proper(pull[p].from))
    /\ UNCHANGED <<published, part, dest, faults, fetched, tainted>>

SendFaulty(p) ==
    /\ At(p, "send")
    /\ faults < MaxFaults
    /\ \E answer \in Faulty(pull[p].from) : Decide(p, answer)
    /\ faults' = faults + 1
    /\ UNCHANGED <<published, part, dest, fetched, tainted>>

-----------------------------------------------------------------------------
(* stream, verify_length and finalize.                                     *)

\* The transfer's bytes join those of the `.part`, or replace them.
Taints(p, appends) ==
    tainted' = (IF appends THEN tainted ELSE tainted \ {"part"})
               \cup (IF pull[p].foreign THEN {"part"} ELSE {})

\* Mutant: the `.part` is always truncated.
OpenTruncates(p) ==
    /\ At(p, "open")
    /\ part' = <<>>
    /\ Taints(p, FALSE)
    /\ pull' = [pull EXCEPT ![p].pc = "copy", ![p].file = "part", ![p].copied = 0]
    /\ UNCHANGED <<published, dest, faults, fetched>>

\* The `.part` is opened for appending, or truncated.
Open(p) ==
    LET appends == pull[p].from > 0 /\ part # NoFile
    IN /\ At(p, "open")
       /\ part' = IF appends THEN part ELSE <<>>
       /\ Taints(p, appends)
       /\ pull' = [pull EXCEPT ![p].pc = "copy", ![p].file = "part", ![p].copied = 0]
       /\ UNCHANGED <<published, dest, faults, fetched>>

\* A block is written at the end of the file (O_APPEND), or at the command's
\* own offset, where a gap before it reads as zeros.
Written(p, file) ==
    LET block == Head(pull[p].body)
        at    == pull[p].copied + 1
    IN IF pull[p].from > 0 THEN Append(file, block)
       ELSE [i \in 1..(IF at > Len(file) THEN at ELSE Len(file)) |->
                IF i = at THEN block ELSE IF i <= Len(file) THEN file[i] ELSE 0]

Copy(p) ==
    /\ At(p, "copy")
    /\ pull[p].body # <<>>
    /\ part' = IF pull[p].file = "part" THEN Written(p, part) ELSE part
    /\ dest' = IF pull[p].file = "dest" THEN Written(p, dest) ELSE dest
    /\ pull' = [pull EXCEPT ![p].body = Tail(@), ![p].copied = @ + 1]
    /\ UNCHANGED <<published, faults, fetched, tainted>>

CopyEnds(p) ==
    /\ At(p, "copy")
    /\ pull[p].body = <<>> \/ CleanCuts
    /\ Goto(p, "verify")
    /\ UNCHANGED <<published, part, dest, faults, fetched, tainted>>

\* Mutant: a short transfer is as good as a whole one.
VerifyNothing(p) == At(p, "verify") /\ Goto(p, "finalize") /\ UNCHANGED <<published, part, dest, faults, fetched, tainted>>

\* The length that is verified is the one the command has counted.
Verify(p) ==
    /\ At(p, "verify")
    /\ IF published = NoSize \/ pull[p].from + pull[p].copied = published
       THEN Goto(p, "finalize") ELSE End(p)
    /\ UNCHANGED <<published, part, dest, faults, fetched, tainted>>

\* Renaming a `.part` that is gone fails.
Finalize(p) ==
    /\ At(p, "finalize")
    /\ IF part = NoFile THEN End(p) /\ UNCHANGED <<part, dest, fetched, tainted>>
       ELSE /\ dest' = part
            /\ part' = NoFile
            /\ fetched' = TRUE
            /\ tainted' = IF "part" \in tainted THEN {"dest"} ELSE {}
            /\ pull' = [q \in Pullers |->
                   IF q = p THEN Idle
                   ELSE [pull[q] EXCEPT !.file = IF @ = "part" THEN "dest"
                                                 ELSE Relabel(q, "dest", "gone")]]
    /\ UNCHANGED <<published, faults>>

\* The connection breaks, a file operation fails or the command is killed.
Crash(p) ==
    /\ ~At(p, "idle")
    /\ End(p)
    /\ UNCHANGED <<published, part, dest, faults, fetched, tainted>>

-----------------------------------------------------------------------------

Next ==
    \E p \in Pullers :
        \/ Check(p) \/ AdoptCut(p) \/ Prepare(p) \/ Send(p) \/ SendFaulty(p) \/ Open(p)
        \/ Copy(p) \/ CopyEnds(p) \/ Verify(p) \/ Finalize(p) \/ Crash(p)

Spec == Init /\ [][Next]_vars

\* The user runs an interrupted pull again, and no step is the one at which
\* every one of the attempts is interrupted.
FairSpec ==
    /\ Spec
    /\ \A p \in Pullers :
        /\ SF_vars(Check(p)) /\ SF_vars(Prepare(p)) /\ SF_vars(Send(p)) /\ SF_vars(Open(p))
        /\ SF_vars(Copy(p)) /\ SF_vars(CopyEnds(p)) /\ SF_vars(Verify(p)) /\ SF_vars(Finalize(p))

-----------------------------------------------------------------------------
(* What a pull guarantees.                                                 *)

IsPrefix(s) == Len(s) <= Size /\ \A i \in 1..Len(s) : s[i] = i

\* However the server answers, and wherever attempts end, a downloaded shard of
\* a published size is under its real name only as a whole, with every block
\* in its place (fetch_to: "an interrupted transfer never leaves a short file
\* that `file_matches` would have to catch later"), and what file_matches
\* accepts, from wherever it came, is the shard.  It is so unless a success
\* carried bytes that were not the shard's into the file: only lengths are
\* compared, so a short page in the `.part` is completed by the next attempt
\* and installed.  A transfer that starts over ends the exception.
InstalledIsWhole ==
    published # NoSize /\ (fetched \/ FileMatches) /\ "dest" \notin tainted => dest = Shard

\* What a `.part` holds can be resumed: it is always the beginning of the
\* file (resume_action: "writing at the wrong offset would corrupt a shard"),
\* unless the server passed other bytes off as the shard's.
PartIsPrefix ==
    published # NoSize /\ part # NoFile /\ "part" \notin tainted => IsPrefix(part)

\* What attempts leave on disk is the shard or can be made into it, as far as
\* successful answers carry the shard's bytes.
WholeOrResumable == InstalledIsWhole /\ PartIsPrefix

\* A pull that is repeated completes, however short each attempt is cut,
\* because every attempt keeps what the ones before it have transferred; what
\* it installs is the shard, or bytes the server passed off as the shard's.
PullCompletes == published # NoSize ~> dest = Shard \/ (FileMatches /\ "dest" \in tainted)

=============================================================================
