--------------------------- MODULE Clients_proofs ---------------------------
(***************************************************************************)
(* Proofs about Clients: the environment an agent runs under, the commit   *)
(* that the engine's marker names, the doctor that finds nothing wrong, and *)
(* what a launch leaves in the agents' directory.                          *)
(***************************************************************************)
EXTENDS Clients, SequenceTheorems, FiniteSetTheorems, TLAPS

-----------------------------------------------------------------------------
(* The engine's build.                                                     *)

Before == {"clone", "pull", "fetch", "checkout", "configure"}

Steps == Before \cup {"compile", "verify", "record"}

\* What is left of a build ends in the compilation, the verification and the
\* record, or in as many of them as are left.
Ends(todo) ==
    /\ todo \in Seq(Steps)
    /\ \A i \in 1..Len(todo) :
         /\ i = Len(todo) => todo[i] = "record"
         /\ i = Len(todo) - 1 => todo[i] = "verify"
         /\ i = Len(todo) - 2 => todo[i] = "compile"
         /\ i < Len(todo) - 2 => todo[i] \in Before

\* From the compilation on the binary is the checkout's, and from the
\* verification on it has printed its version.
Built ==
    /\ DOMAIN engine = {"cloned", "head", "detached", "tip", "binary", "marker", "pin", "todo"}
    /\ DOMAIN seen = {"overlap", "torn", "history", "verified"}
    /\ Ends(engine.todo)
    /\ Len(engine.todo) = 2 => engine.binary = engine.head
    /\ Len(engine.todo) = 1 => engine.head \in seen.verified
    /\ MarkerIsVerified

LEMMA InitBuilt == Init => Built
BY DEF Init, Built, Ends, MarkerIsVerified

\* Only the build moves the engine, and no verification is forgotten.
LEMMA EngineKept ==
    ASSUME Built, UNCHANGED engine, seen'.verified = seen.verified, DOMAIN seen' = DOMAIN seen
    PROVE  Built'
BY DEF Built, MarkerIsVerified

LEMMA StepsEnd ==
    ASSUME NEW steps \in Seq(Before)
    PROVE  LET todo == (steps \o <<"configure", "compile", "verify">>) \o <<"record">>
           IN  Ends(todo) /\ Len(todo) >= 4
<1> DEFINE build == <<"configure", "compile", "verify">>
           last == <<"record">>
           todo == (steps \o build) \o last
<1>1. steps \in Seq(Steps) /\ build \in Seq(Steps) /\ <<"record">> \in Seq(Steps)
  <2>1. Before \subseteq Steps
    BY DEF Steps
  <2>2. steps \in Seq(Steps)
    BY <2>1, SeqMonotonic
  <2>3. build \in Seq(Steps)
    BY DEF Steps, Before
  <2>4. <<"record">> \in Seq(Steps)
    BY DEF Steps
  <2> QED BY <2>2, <2>3, <2>4
<1>2. /\ steps \o build \in Seq(Steps)
      /\ Len(steps \o build) = Len(steps) + 3
      /\ \A i \in 1..Len(steps) + 3 :
           (steps \o build)[i] = IF i <= Len(steps) THEN steps[i] ELSE build[i - Len(steps)]
  BY <1>1, ConcatProperties
<1>3. /\ todo \in Seq(Steps)
      /\ Len(todo) = Len(steps) + 4
      /\ \A i \in 1..Len(steps) + 4 :
           todo[i] = IF i <= Len(steps) + 3 THEN (steps \o build)[i] ELSE "record"
  <2> DEFINE most == steps \o build
  <2>1. most \in Seq(Steps) /\ Len(most) = Len(steps) + 3
    BY <1>2
  <2>2. last \in Seq(Steps) /\ Len(last) = 1 /\ last[1] = "record"
    BY <1>1
  <2> HIDE DEF most, last, build, todo
  <2>3. /\ most \o last \in Seq(Steps)
        /\ Len(most \o last) = Len(most) + 1
        /\ \A i \in 1..Len(most) + 1 : (most \o last)[i] = IF i <= Len(most) THEN most[i] ELSE last[i - Len(most)]
    <3>1. /\ most \o last \in Seq(Steps)
          /\ Len(most \o last) = Len(most) + Len(last)
          /\ \A i \in 1..Len(most) + Len(last) :
                (most \o last)[i] = IF i <= Len(most) THEN most[i] ELSE last[i - Len(most)]
      BY <2>1, <2>2, ConcatProperties
    <3> QED BY <3>1, <2>2
  <2>4. Len(steps) \in Nat
    BY LenProperties
  <2>5. \A i \in 1..Len(steps) + 4 : (most \o last)[i] = IF i <= Len(steps) + 3 THEN most[i] ELSE "record"
    BY <2>1, <2>2, <2>3, <2>4
  <2> QED BY <2>1, <2>3, <2>4, <2>5 DEF most, last, build, todo
<1>4. \A i \in 1..Len(steps) : steps[i] \in Before
  OBVIOUS
<1>5. \A i \in 1..Len(steps) + 4 :
        /\ i = Len(steps) + 4 => todo[i] = "record"
        /\ i = Len(steps) + 3 => todo[i] = "verify"
        /\ i = Len(steps) + 2 => todo[i] = "compile"
        /\ i = Len(steps) + 1 => todo[i] = "configure"
        /\ i <= Len(steps) => todo[i] = steps[i]
  <2>1. build[1] = "configure" /\ build[2] = "compile" /\ build[3] = "verify" /\ Len(steps) \in Nat
    OBVIOUS
  <2> HIDE DEF todo, build
  <2> QED BY <2>1, <1>2, <1>3
<1> HIDE DEF todo
<1>6. Ends(todo)
  BY <1>3, <1>4, <1>5 DEF Ends, Before
<1> QED BY <1>3, <1>6 DEF todo, build, last

LEMMA StartBuildKeepsBuilt ==
    ASSUME Built, NEW pin, StartBuild(pin)
    PROVE  Built'
<1>1. PICK steps \in Seq(Before) :
        SetupSteps(engine.cloned, pin) = steps \o <<"configure", "compile", "verify">>
  <2>1. CASE pin = None
    <3>1. <<IF engine.cloned THEN "pull" ELSE "clone">> \in Seq(Before)
      BY DEF Before
    <3> QED BY <2>1, <3>1 DEF SetupSteps
  <2>2. CASE pin # None
    <3> DEFINE first == IF engine.cloned THEN <<>> ELSE <<"clone">>
    <3>1. first \in Seq(Before) /\ <<"fetch", "checkout">> \in Seq(Before)
      <4>1. <<>> \in Seq(Before) /\ <<"clone">> \in Seq(Before)
        BY DEF Before
      <4>2. <<"fetch", "checkout">> \in Seq(Before)
        BY DEF Before
      <4> QED BY <4>1, <4>2
    <3> HIDE DEF first
    <3>2. first \o <<"fetch", "checkout">> \in Seq(Before)
      BY <3>1, ConcatProperties
    <3>3. SetupSteps(engine.cloned, pin) = (first \o <<"fetch", "checkout">>) \o <<"configure", "compile", "verify">>
      BY <2>2 DEF SetupSteps, first
    <3> QED BY <3>2, <3>3
  <2> QED BY <2>1, <2>2
<1>2. engine' = [engine EXCEPT !.pin = pin, !.todo = SetupSteps(engine.cloned, pin) \o <<"record">>] /\ UNCHANGED seen
  BY DEF StartBuild
<1>3. /\ engine'.marker = engine.marker /\ DOMAIN engine' = DOMAIN engine
      /\ engine'.todo = SetupSteps(engine.cloned, pin) \o <<"record">>
  BY <1>2 DEF Built
<1>4. Ends(engine'.todo) /\ Len(engine'.todo) >= 4
  BY <1>1, <1>3, StepsEnd
<1> QED BY <1>2, <1>3, <1>4 DEF Built, MarkerIsVerified

LEMMA StepSucceedsKeepsBuilt ==
    ASSUME Built, StepSucceeds
    PROVE  Built'
<1> DEFINE n == Len(engine.todo)
           step == Head(engine.todo)
           next == [engine EXCEPT !.todo = Tail(@)]
<1>1. n \in Nat \ {0} /\ engine.todo # <<>> /\ n > 0
  <2>1. engine.todo \in Seq(Steps) /\ engine.todo # <<>>
    BY DEF StepSucceeds, Built, Ends
  <2> QED BY <2>1, EmptySeq
<1>2. step = engine.todo[1] /\ 1 \in 1..n
  BY <1>1
<1>3. /\ n = 1 => step = "record"
      /\ n = 2 => step = "verify"
      /\ n = 3 => step = "compile"
      /\ n > 3 => step \in Before
  <2>1. Ends(engine.todo)
    BY DEF Built
  <2>2. \A i \in 1..n :
          /\ i = n => engine.todo[i] = "record"
          /\ i = n - 1 => engine.todo[i] = "verify"
          /\ i = n - 2 => engine.todo[i] = "compile"
          /\ i < n - 2 => engine.todo[i] \in Before
    BY <2>1 DEF Ends
  <2> HIDE DEF n, step
  <2> QED BY <1>1, <1>2, <2>2
<1>4. /\ DOMAIN next = DOMAIN engine /\ next.todo = Tail(engine.todo)
      /\ next.head = engine.head /\ next.binary = engine.binary /\ next.marker = engine.marker
  BY DEF Built
<1>5. Ends(Tail(engine.todo)) /\ Len(Tail(engine.todo)) = n - 1
  <2>1. /\ Tail(engine.todo) \in Seq(Steps) /\ Len(Tail(engine.todo)) = n - 1
        /\ \A i \in 1..n - 1 : Tail(engine.todo)[i] = engine.todo[i + 1]
    BY <1>1 DEF Built, Ends
  <2> DEFINE rest == Tail(engine.todo)
  <2> HIDE DEF rest
  <2> QED BY <1>1, <2>1 DEF Built, Ends, rest
<1> HIDE DEF next
<1>10. ASSUME engine'.todo = Tail(engine.todo), DOMAIN engine' = DOMAIN engine, DOMAIN seen' = DOMAIN seen,
              n = 3 => engine'.binary = engine'.head,
              n = 2 => engine'.head \in seen'.verified,
              MarkerIsVerified'
       PROVE  Built'
  <2>1. Ends(engine'.todo) /\ Len(engine'.todo) = n - 1
    BY <1>10, <1>5
  <2>2. Len(engine'.todo) = 2 => engine'.binary = engine'.head
    BY <1>1, <1>10, <2>1
  <2>3. Len(engine'.todo) = 1 => engine'.head \in seen'.verified
    BY <1>1, <1>10, <2>1
  <2> QED BY <1>10, <2>1, <2>2, <2>3, Zenon DEF Built
<1>6. CASE n = 1
  <2>1. engine' = [next EXCEPT !.marker = engine.head] /\ UNCHANGED seen
    BY <1>3, <1>6 DEF StepSucceeds, next
  <2>2. DOMAIN engine' = DOMAIN engine /\ engine'.marker = engine.head /\ engine'.todo = Tail(engine.todo)
    BY <2>1, <1>4 DEF Built
  <2> QED BY <2>1, <2>2, <1>6, <1>10 DEF Built, MarkerIsVerified
<1>7. CASE n = 2
  <2>1. engine' = next /\ seen' = [seen EXCEPT !.verified = @ \cup {engine.binary}]
    BY <1>3, <1>7 DEF StepSucceeds, next
  <2>2. DOMAIN seen' = DOMAIN seen /\ seen'.verified = seen.verified \cup {engine.binary}
    BY <2>1 DEF Built
  <2> QED BY <2>1, <2>2, <1>4, <1>7, <1>10 DEF Built, MarkerIsVerified
<1>8. CASE n = 3
  <2>1. engine' = [next EXCEPT !.binary = engine.head] /\ UNCHANGED seen
    BY <1>3, <1>8 DEF StepSucceeds, next
  <2>2. /\ DOMAIN engine' = DOMAIN engine /\ engine'.marker = engine.marker /\ engine'.todo = Tail(engine.todo)
        /\ engine'.binary = engine.head /\ engine'.head = engine.head
    BY <2>1, <1>4 DEF Built
  <2> QED BY <2>1, <2>2, <1>8, <1>10 DEF Built, MarkerIsVerified
<1>9. CASE n > 3
  <2>1. step \in {"clone", "pull", "fetch", "checkout", "configure"}
    BY <1>3, <1>9 DEF Before
  <2>2. /\ UNCHANGED seen
        /\ \/ engine' = [next EXCEPT !.cloned = TRUE, !.head = engine.tip]
           \/ engine' = [next EXCEPT !.head = engine.tip]
           \/ engine' = [next EXCEPT !.head = engine.pin, !.detached = TRUE]
           \/ engine' = next
    BY <2>1 DEF StepSucceeds, next
  <2>3. DOMAIN engine' = DOMAIN engine /\ engine'.marker = engine.marker /\ engine'.todo = Tail(engine.todo)
    BY <2>2, <1>4 DEF Built
  <2>4. n # 3 /\ n # 2
    <3> HIDE DEF n
    <3> QED BY <1>1, <1>9
  <2>5. MarkerIsVerified'
    BY <2>2, <2>3 DEF Built, MarkerIsVerified
  <2> QED BY <2>2, <2>3, <2>4, <2>5, <1>10
<1> HIDE DEF n
<1> QED BY <1>1, <1>6, <1>7, <1>8, <1>9

LEMMA StepFailsKeepsBuilt ==
    ASSUME Built, StepFails
    PROVE  Built'
<1>1. PICK binary : engine' = [engine EXCEPT !.todo = <<>>, !.binary = binary]
  BY DEF StepFails
<1>2. engine'.todo = <<>> /\ engine'.marker = engine.marker /\ DOMAIN engine' = DOMAIN engine
  BY <1>1 DEF Built
<1> QED BY <1>2 DEF StepFails, Built, MarkerIsVerified, Ends

LEMMA NextKeepsBuilt ==
    ASSUME Built, [Next]_vars
    PROVE  Built'
<1>1. ASSUME NEW s \in Sessions, Launching(s)
      PROVE  UNCHANGED engine /\ seen'.verified = seen.verified /\ DOMAIN seen' = DOMAIN seen
  <2>1. CASE \E m \in Models : Resolve(s, m)
    BY <2>1 DEF Resolve, Built
  <2>2. CASE OpenSettings(s) \/ WriteSettings(s) \/ ReadClaudeJson(s) \/ OpenClaudeJson(s) \/ WriteClaudeJson(s)
    BY <2>2 DEF OpenSettings, WriteSettings, ReadClaudeJson, OpenClaudeJson, WriteClaudeJson, UnchangedButSession
  <2>3. CASE SyncLocalPlugins(s) \/ LinkPlugin(s) \/ WriteInstalled(s)
    BY <2>3 DEF SyncLocalPlugins, LinkPlugin, WriteInstalled, UnchangedButSession
  <2>4. CASE PrintOnly(s) \/ Bridge(s) \/ AgentStarts(s) \/ AgentExits(s)
    BY <2>4 DEF PrintOnly, Bridge, AgentStarts, AgentExits, UnchangedButSession
  <2>5. CASE Killed(s) \/ AgentSaves(s)
    BY <2>5 DEF Killed, AgentSaves, UnchangedButSession, Built
  <2> QED BY <1>1, <2>1, <2>2, <2>3, <2>4, <2>5 DEF Launching
<1>2. CASE \E s \in Sessions : Launching(s)
  BY <1>1, <1>2, EngineKept
<1>3. CASE IntegrateHermes \/ DoctorBegins \/ DoctorChecks \/ UserEdits \/ HermesEdited \/ EditRegistry \/ ReplaceServer
  <2>1. UNCHANGED <<engine, seen>>
    BY <1>3 DEF IntegrateHermes, DoctorBegins, DoctorChecks, UserEdits, HermesEdited, EditRegistry, ReplaceServer
  <2> QED BY <2>1, EngineKept
<1>4. CASE \E pin \in Commits \cup {None} : StartBuild(pin)
  BY <1>4, StartBuildKeepsBuilt
<1>5. CASE StepSucceeds \/ StepFails
  BY <1>5, StepSucceedsKeepsBuilt, StepFailsKeepsBuilt
<1>6. CASE UpstreamMoves
  <2>1. engine' = [engine EXCEPT !.tip = @ + 1] /\ UNCHANGED seen
    BY <1>6 DEF UpstreamMoves
  <2>2. /\ DOMAIN engine' = DOMAIN engine /\ engine'.todo = engine.todo /\ engine'.head = engine.head
        /\ engine'.binary = engine.binary /\ engine'.marker = engine.marker
    BY <2>1 DEF Built
  <2> QED BY <2>1, <2>2 DEF Built, MarkerIsVerified
<1>7. CASE UNCHANGED vars
  BY <1>7, EngineKept DEF vars
<1> QED BY <1>2, <1>3, <1>4, <1>5, <1>6, <1>7 DEF Next

\* The commit recorded by setup and update --engine was built and its binary
\* did answer, however many builds with whatever pins failed wherever.
THEOREM MarkerIsVerifiedAlways == Spec => []MarkerIsVerified
<1>1. Built => MarkerIsVerified
  BY DEF Built
<1> QED BY <1>1, InitBuilt, NextKeepsBuilt, PTL DEF Spec

-----------------------------------------------------------------------------
(* The environment of an agent.                                            *)

RunFields == {"pc", "session", "source", "existing", "todo", "linked", "installed", "env", "own", "saved"}
ConfFields == {"settings", "claude", "known", "installed", "links"}

Contexts == Windows \cup {HermesFloor}
SessionsOf(s) == {SessionOf(m, ctx, s) : m \in Models, ctx \in Contexts}
Sources == {ReadUserSettings(u) : u \in UserConfigs}

\* Where a launch that has written the settings may stand, before its agent runs.
Written == {"carried", "settled", "read", "torn", "linking", "ready", "starting"}

RunShape == DOMAIN run = Sessions /\ \A s \in Sessions : DOMAIN run[s] = RunFields
Shape ==
    /\ user \in UserConfigs
    /\ DOMAIN reg = {"active", "ctx"} /\ reg.ctx \in [Models -> Contexts]
    /\ DOMAIN conf = ConfFields
    /\ RunShape

\* What stands in the settings is the environment of some launch; of the last
\* one that wrote undisturbed, as long as nobody has written since.
Sole(s) == run[s].own /\ run[s].pc \in Written
Declared ==
    /\ \A s \in Sessions :
         /\ run[s].pc = "idle" <=> run[s].session = NoFile
         /\ run[s].pc # "idle" => run[s].session \in SessionsOf(s)
         /\ run[s].pc = "opened" => run[s].source \in Sources
         /\ Sole(s) => conf.settings # NoFile /\ conf.settings.env = EnvBlock(run[s].session)
    /\ conf.settings # NoFile =>
         \E t \in Sessions : run[t].session # NoFile /\ conf.settings.env = EnvBlock(run[t].session)
    /\ SessionIsDeclared

LEMMA InitDeclared == Init => Shape /\ Declared
<1> SUFFICES ASSUME Init PROVE Shape /\ Declared
  OBVIOUS
<1>1. \A s \in Sessions : run[s] = IdleRun
  BY DEF Init
<1>2. Shape
  BY <1>1 DEF Init, Shape, RunShape, IdleRun, RunFields, ConfFields, Contexts
<1>3. \A s \in Sessions : run[s].pc = "idle" /\ run[s].session = NoFile
  BY <1>1 DEF IdleRun
<1>4. conf.settings = NoFile
  BY DEF Init
<1> QED BY <1>2, <1>3, <1>4 DEF Declared, Sole, Written, SessionIsDeclared

\* Neither the launches nor their directory move.
LEMMA DeclaredStays ==
    ASSUME Declared, UNCHANGED <<run, conf>>
    PROVE  Declared'
BY DEF Declared, Sole, SessionIsDeclared

\* One launch moves on, and leaves the settings and what it declared alone.
MovesOn(s, pc) ==
    /\ RunShape'
    /\ \A t \in Sessions \ {s} : run'[t] = run[t]
    /\ run'[s].pc = pc /\ run'[s].session = run[s].session
    /\ run'[s].own = run[s].own /\ run'[s].env = run[s].env
    /\ DOMAIN conf' = ConfFields /\ conf'.settings = conf.settings
    /\ UNCHANGED <<user, reg>>

LEMMA MovesOnKeepsDeclared ==
    ASSUME Shape, Declared, NEW s \in Sessions, NEW pc, MovesOn(s, pc), run[s].pc # "idle",
           \/ pc = "ended"
           \/ pc = run[s].pc /\ pc = "running"
           \/ run[s].pc \in Written /\ pc \in Written
    PROVE  Shape' /\ Declared'
<1>1. Shape'
  BY DEF MovesOn, Shape
<1>2. \A t \in Sessions : /\ run'[t].session = run[t].session /\ run'[t].own = run[t].own /\ run'[t].env = run[t].env
                          /\ run'[t].pc = "idle" <=> run[t].pc = "idle"
                          /\ run'[t].pc = "running" => run[t].pc = "running"
                          /\ run'[t].pc \in Written => run[t].pc \in Written
                          /\ run'[t].pc = "opened" => run[t].pc = "opened" /\ run'[t].source = run[t].source
  BY DEF MovesOn, Written
<1>3. conf'.settings = conf.settings
  BY DEF MovesOn
<1>4. SessionIsDeclared'
  BY <1>2 DEF Declared, SessionIsDeclared
<1>5. \A t \in Sessions :
         /\ run'[t].pc = "idle" <=> run'[t].session = NoFile
         /\ run'[t].pc # "idle" => run'[t].session \in SessionsOf(t)
         /\ run'[t].pc = "opened" => run'[t].source \in Sources
         /\ run'[t].own /\ run'[t].pc \in Written =>
              conf'.settings # NoFile /\ conf'.settings.env = EnvBlock(run'[t].session)
  BY <1>2, <1>3 DEF Declared, Sole
<1>6. conf'.settings # NoFile =>
         \E t \in Sessions : run'[t].session # NoFile /\ conf'.settings.env = EnvBlock(run'[t].session)
  BY <1>2, <1>3 DEF Declared
<1> QED BY <1>1, <1>4, <1>5, <1>6 DEF Declared, Sole

\* An action that moves only the place where the launch stands.
LEMMA PlainMove ==
    ASSUME Shape, NEW s \in Sessions, NEW pc, Moves(s, pc), UnchangedButSession,
           DOMAIN conf' = ConfFields, conf'.settings = conf.settings
    PROVE  MovesOn(s, pc)
<1>1. DOMAIN run = Sessions /\ \A t \in Sessions : DOMAIN run[t] = RunFields
  BY DEF Shape, RunShape
<1>2. DOMAIN run' = Sessions /\ run'[s] = [run[s] EXCEPT !.pc = pc] /\ \A t \in Sessions \ {s} : run'[t] = run[t]
  BY <1>1 DEF Moves
<1>3. DOMAIN run'[s] = RunFields
  BY <1>1, <1>2
<1>4. /\ run'[s].pc = pc /\ run'[s].session = run[s].session
      /\ run'[s].own = run[s].own /\ run'[s].env = run[s].env
  BY <1>1, <1>2 DEF RunFields
<1>5. RunShape'
  BY <1>1, <1>2, <1>3 DEF RunShape
<1> QED BY <1>2, <1>4, <1>5 DEF MovesOn, UnchangedButSession

LEMMA PlainMovesKeepDeclared ==
    ASSUME Shape, Declared, NEW s \in Sessions,
           \/ OpenClaudeJson(s) \/ WriteClaudeJson(s) \/ WriteInstalled(s)
           \/ PrintOnly(s) \/ Bridge(s) \/ AgentExits(s) \/ Killed(s)
    PROVE  Shape' /\ Declared'
<1> USE DEF Written
<1>0. DOMAIN conf = ConfFields
  BY DEF Shape
<1>1. CASE OpenClaudeJson(s)
  <2>1. DOMAIN conf' = ConfFields /\ conf'.settings = conf.settings
    BY <1>0, <1>1 DEF OpenClaudeJson, ConfFields
  <2>2. MovesOn(s, "torn")
    BY <1>1, <2>1, PlainMove DEF OpenClaudeJson
  <2> QED BY <1>1, <2>2, MovesOnKeepsDeclared DEF OpenClaudeJson
<1>2. CASE WriteClaudeJson(s)
  <2>1. DOMAIN conf' = ConfFields /\ conf'.settings = conf.settings
    BY <1>0, <1>2 DEF WriteClaudeJson, ConfFields
  <2>2. MovesOn(s, "carried")
    BY <1>2, <2>1, PlainMove DEF WriteClaudeJson
  <2> QED BY <1>2, <2>2, MovesOnKeepsDeclared DEF WriteClaudeJson
<1>3. CASE WriteInstalled(s)
  <2>1. DOMAIN conf' = ConfFields /\ conf'.settings = conf.settings
    BY <1>0, <1>3 DEF WriteInstalled, ConfFields
  <2>2. MovesOn(s, "ready")
    BY <1>3, <2>1, PlainMove DEF WriteInstalled
  <2> QED BY <1>3, <2>2, MovesOnKeepsDeclared DEF WriteInstalled
<1>4. CASE PrintOnly(s) \/ AgentExits(s)
  <2>1. MovesOn(s, "ended")
    BY <1>0, <1>4, PlainMove DEF PrintOnly, AgentExits
  <2> QED BY <1>4, <2>1, MovesOnKeepsDeclared DEF PrintOnly, AgentExits
<1>5. CASE Bridge(s)
  <2>1. MovesOn(s, "starting")
    BY <1>0, <1>5, PlainMove DEF Bridge
  <2> QED BY <1>5, <2>1, MovesOnKeepsDeclared DEF Bridge
<1>6. CASE Killed(s)
  <2>1. MovesOn(s, "ended")
    BY <1>0, <1>6, PlainMove DEF Killed
  <2> QED BY <1>6, <2>1, MovesOnKeepsDeclared DEF Killed, Live
<1> QED BY <1>1, <1>2, <1>3, <1>4, <1>5, <1>6

LEMMA MovesToRead ==
    ASSUME Shape, Declared, NEW s \in Sessions, ReadClaudeJson(s) \/ AgentSaves(s)
    PROVE  Shape' /\ Declared'
<1>1. DOMAIN run = Sessions /\ (\A t \in Sessions : DOMAIN run[t] = RunFields) /\ DOMAIN conf = ConfFields
  BY DEF Shape, RunShape
<1>2. CASE ReadClaudeJson(s)
  <2> DEFINE r1 == [run[s] EXCEPT !.pc = "read"]
             r2 == [r1 EXCEPT !.existing = conf.claude]
  <2>1. run' = [run EXCEPT ![s] = r2]
    BY <1>1, <1>2 DEF ReadClaudeJson
  <2>2. DOMAIN r1 = RunFields /\ r1.pc = "read" /\ r1.session = run[s].session /\ r1.own = run[s].own /\ r1.env = run[s].env
    BY <1>1 DEF RunFields
  <2> HIDE DEF r1
  <2>3. DOMAIN r2 = RunFields /\ r2.pc = r1.pc /\ r2.session = r1.session /\ r2.own = r1.own /\ r2.env = r1.env
    BY <2>2 DEF RunFields
  <2> HIDE DEF r2
  <2>4. MovesOn(s, "read")
    BY <1>1, <1>2, <2>1, <2>2, <2>3 DEF MovesOn, RunShape, ReadClaudeJson, UnchangedButSession
  <2> QED BY <1>2, <2>4, MovesOnKeepsDeclared DEF ReadClaudeJson, Written
<1>3. CASE AgentSaves(s)
  <2> DEFINE r == [run[s] EXCEPT !.saved = TRUE]
  <2>1. run' = [run EXCEPT ![s] = r]
    BY <1>1, <1>3 DEF AgentSaves
  <2>2. DOMAIN r = RunFields /\ r.pc = run[s].pc /\ r.session = run[s].session /\ r.own = run[s].own /\ r.env = run[s].env
    BY <1>1 DEF RunFields
  <2> HIDE DEF r
  <2>3. DOMAIN conf' = ConfFields /\ conf'.settings = conf.settings
    BY <1>1, <1>3 DEF AgentSaves, ConfFields
  <2>4. MovesOn(s, "running")
    BY <1>1, <1>3, <2>1, <2>2, <2>3 DEF MovesOn, RunShape, AgentSaves, UnchangedButSession
  <2> QED BY <1>3, <2>4, MovesOnKeepsDeclared DEF AgentSaves
<1> QED BY <1>2, <1>3

LEMMA SyncKeepsDeclared ==
    ASSUME Shape, Declared, NEW s \in Sessions, SyncLocalPlugins(s)
    PROVE  Shape' /\ Declared'
<1>1. DOMAIN run = Sessions /\ (\A t \in Sessions : DOMAIN run[t] = RunFields) /\ DOMAIN conf = ConfFields
  BY DEF Shape, RunShape
<1>2. CASE Moves(s, "ready") /\ UNCHANGED conf
  <2>1. MovesOn(s, "ready")
    BY <1>1, <1>2, PlainMove DEF SyncLocalPlugins
  <2> QED BY <2>1, MovesOnKeepsDeclared DEF SyncLocalPlugins, Written
<1>3. CASE ~(Moves(s, "ready") /\ UNCHANGED conf)
  <2> DEFINE todo == LocalMarketplaces(run[s].source)
             rows == IF conf.installed = NoFile THEN Empty ELSE conf.installed
             known == MergeKnownMarketplaces(conf.known, run[s].source)
  <2>1. /\ conf' = [conf EXCEPT !.known = known]
        /\ run' = [run EXCEPT ![s].pc = "linking", ![s].todo = todo, ![s].installed = rows]
    BY <1>3 DEF SyncLocalPlugins
  <2> HIDE DEF todo, rows, known
  <2> DEFINE r1 == [run[s] EXCEPT !.pc = "linking"]
             r2 == [r1 EXCEPT !.todo = todo]
             r3 == [r2 EXCEPT !.installed = rows]
  <2>2. run' = [run EXCEPT ![s] = r3]
    BY <1>1, <2>1
  <2>3. DOMAIN r1 = RunFields /\ r1.pc = "linking" /\ r1.session = run[s].session /\ r1.own = run[s].own /\ r1.env = run[s].env
    BY <1>1 DEF RunFields
  <2> HIDE DEF r1
  <2>4. DOMAIN r2 = RunFields /\ r2.pc = r1.pc /\ r2.session = r1.session /\ r2.own = r1.own /\ r2.env = r1.env
    BY <2>3 DEF RunFields
  <2> HIDE DEF r2
  <2>5. DOMAIN r3 = RunFields /\ r3.pc = r2.pc /\ r3.session = r2.session /\ r3.own = r2.own /\ r3.env = r2.env
    BY <2>4 DEF RunFields
  <2> HIDE DEF r3
  <2>6. DOMAIN conf' = ConfFields /\ conf'.settings = conf.settings
    BY <1>1, <2>1 DEF ConfFields
  <2>7. MovesOn(s, "linking")
    BY <1>1, <2>2, <2>3, <2>4, <2>5, <2>6 DEF MovesOn, RunShape, SyncLocalPlugins, UnchangedButSession
  <2> QED BY <2>7, MovesOnKeepsDeclared DEF SyncLocalPlugins, Written
<1> QED BY <1>2, <1>3

LEMMA LinkKeepsDeclared ==
    ASSUME Shape, Declared, NEW s \in Sessions, LinkPlugin(s)
    PROVE  Shape' /\ Declared'
<1>1. DOMAIN run = Sessions /\ (\A t \in Sessions : DOMAIN run[t] = RunFields) /\ DOMAIN conf = ConfFields
  BY DEF Shape, RunShape
<1>2. \E todo, linked, installed, links :
         /\ conf' = [conf EXCEPT !.links = links]
         /\ run' = [run EXCEPT ![s].todo = todo, ![s].linked = linked, ![s].installed = installed]
  <2>1. PICK market \in run[s].todo :
          LET path == LinkOf(market)
              resolves == path \in DOMAIN conf.links /\ conf.links[path] \in places
              there == market.dir \in places
              links == IF ~there \/ resolves THEN conf.links
                       ELSE Over([p \in {path} |-> market.dir], conf.links)
          IN  /\ conf' = [conf EXCEPT !.links = links]
              /\ run' = [run EXCEPT ![s].todo = @ \ {market},
                           ![s].linked = IF there THEN @ \cup {market} ELSE @,
                           ![s].installed = IF there THEN UpsertPluginEntry(@, market) ELSE @]
    BY Zenon DEF LinkPlugin
  <2> QED BY <2>1, Zenon
<1>2a. PICK todo, linked, installed, links :
         /\ conf' = [conf EXCEPT !.links = links]
         /\ run' = [run EXCEPT ![s].todo = todo, ![s].linked = linked, ![s].installed = installed]
  BY <1>2, Zenon
<1> DEFINE r1 == [run[s] EXCEPT !.todo = todo]
           r2 == [r1 EXCEPT !.linked = linked]
           r3 == [r2 EXCEPT !.installed = installed]
<1>3. run' = [run EXCEPT ![s] = r3]
  BY <1>1, <1>2a
<1>4. DOMAIN r1 = RunFields /\ r1.pc = run[s].pc /\ r1.session = run[s].session /\ r1.own = run[s].own /\ r1.env = run[s].env
  BY <1>1 DEF RunFields
<1> HIDE DEF r1
<1>5. DOMAIN r2 = RunFields /\ r2.pc = r1.pc /\ r2.session = r1.session /\ r2.own = r1.own /\ r2.env = r1.env
  BY <1>4 DEF RunFields
<1> HIDE DEF r2
<1>6. DOMAIN r3 = RunFields /\ r3.pc = r2.pc /\ r3.session = r2.session /\ r3.own = r2.own /\ r3.env = r2.env
  BY <1>5 DEF RunFields
<1> HIDE DEF r3
<1>7. DOMAIN conf' = ConfFields /\ conf'.settings = conf.settings
  BY <1>1, <1>2a DEF ConfFields
<1>8. MovesOn(s, "linking")
  BY <1>1, <1>3, <1>4, <1>5, <1>6, <1>7 DEF MovesOn, RunShape, LinkPlugin, UnchangedButSession
<1> QED BY <1>8, MovesOnKeepsDeclared DEF LinkPlugin, Written

LEMMA SettingsEnv ==
    ASSUME NEW session, NEW source
    PROVE  LocalSettings(session, source).env = EnvBlock(session)
<1> DEFINE keys == (IF source = NoFile THEN {} ELSE CarriedKeys \cap DOMAIN source) \cup {"env"}
<1>1. "env" \in keys
  OBVIOUS
<1> HIDE DEF keys
<1>2. LocalSettings(session, source) = [k \in keys |-> IF k = "env" THEN EnvBlock(session) ELSE source[k]]
  BY DEF LocalSettings, keys
<1> QED BY <1>1, <1>2

LEMMA ResolveKeepsDeclared ==
    ASSUME Shape, Declared, NEW s \in Sessions, NEW m \in Models, Resolve(s, m)
    PROVE  Shape' /\ Declared'
<1>1. DOMAIN run = Sessions /\ (\A t \in Sessions : DOMAIN run[t] = RunFields) /\ DOMAIN conf = ConfFields
  BY DEF Shape, RunShape
<1> DEFINE new == SessionOf(m, reg.ctx[m], s)
<1>2. new \in SessionsOf(s) /\ new # NoFile
  <2>1. reg.ctx[m] \in Contexts
    BY DEF Shape
  <2>2. UserConfigs # {} => new # NoFile
    BY <2>1, ObjectsAssumption DEF Contexts
  <2>3. UserConfigs # {}
    BY DEF Shape
  <2> QED BY <2>1, <2>2, <2>3 DEF SessionsOf
<1>3. run' = [run EXCEPT ![s].pc = "resolved", ![s].session = new]
  BY DEF Resolve
<1> HIDE DEF new
<1> DEFINE r1 == [run[s] EXCEPT !.pc = "resolved"]
           r2 == [r1 EXCEPT !.session = new]
<1>4. run' = [run EXCEPT ![s] = r2]
  BY <1>1, <1>3
<1>5. DOMAIN r1 = RunFields /\ r1.pc = "resolved"
  BY <1>1 DEF RunFields
<1> HIDE DEF r1
<1>6. DOMAIN r2 = RunFields /\ r2.pc = "resolved" /\ r2.session = new
  BY <1>5 DEF RunFields
<1> HIDE DEF r2
<1>7. DOMAIN run' = Sessions /\ run'[s] = r2 /\ \A t \in Sessions \ {s} : run'[t] = run[t]
  BY <1>1, <1>4
<1>8. Shape'
  BY <1>1, <1>6, <1>7 DEF Shape, RunShape, Resolve
<1>9. run[s].pc = "idle" /\ run[s].session = NoFile /\ conf' = conf
  BY DEF Resolve, Declared
<1>10. \A t \in Sessions :
         /\ run'[t].pc = "idle" <=> run'[t].session = NoFile
         /\ run'[t].pc # "idle" => run'[t].session \in SessionsOf(t)
         /\ run'[t].pc = "opened" => run'[t].source \in Sources
         /\ run'[t].own /\ run'[t].pc \in Written =>
              conf'.settings # NoFile /\ conf'.settings.env = EnvBlock(run'[t].session)
  <2>1. TAKE t \in Sessions
  <2>2. CASE t = s
    BY <1>2, <1>6, <1>7, <2>2 DEF Written
  <2>3. CASE t # s
    BY <1>7, <1>9, <2>3 DEF Declared, Sole
  <2> QED BY <2>2, <2>3
<1>11. \A t \in Sessions : run[t].session # NoFile => run'[t] = run[t]
  BY <1>7, <1>9
<1>12. conf'.settings # NoFile =>
         \E t \in Sessions : run'[t].session # NoFile /\ conf'.settings.env = EnvBlock(run'[t].session)
  BY <1>9, <1>11 DEF Declared
<1>13. SessionIsDeclared'
  <2>1. SUFFICES ASSUME NEW t \in Sessions, run'[t].pc = "running"
                 PROVE  \/ run'[t].env = EnvBlock(run'[t].session)
                        \/ /\ ~run'[t].own
                           /\ run'[t].env \in {NoFile} \cup {EnvBlock(run'[u].session) : u \in {v \in Sessions : run'[v].session # NoFile}}
    BY DEF SessionIsDeclared
  <2>2. run'[t] = run[t]
    BY <1>6, <1>7, <2>1
  <2>3. \/ run[t].env = EnvBlock(run[t].session)
        \/ /\ ~run[t].own
           /\ run[t].env \in {NoFile} \cup {EnvBlock(run[u].session) : u \in {v \in Sessions : run[v].session # NoFile}}
    BY <2>1, <2>2 DEF Declared, SessionIsDeclared
  <2> QED BY <1>11, <2>2, <2>3
<1> QED BY <1>8, <1>10, <1>12, <1>13 DEF Declared, Sole

LEMMA OpenKeepsDeclared ==
    ASSUME Shape, Declared, NEW s \in Sessions, OpenSettings(s)
    PROVE  Shape' /\ Declared'
<1>1. DOMAIN run = Sessions /\ (\A t \in Sessions : DOMAIN run[t] = RunFields) /\ DOMAIN conf = ConfFields
  BY DEF Shape, RunShape
<1> DEFINE source == ReadUserSettings(user)
           r1 == [run[s] EXCEPT !.pc = "opened"]
           r2 == [r1 EXCEPT !.source = source]
<1>2. run' = [t \in Sessions |-> IF t = s THEN r2 ELSE [run[t] EXCEPT !.own = FALSE]]
  BY <1>1 DEF OpenSettings
<1>3. source \in Sources
  BY DEF Shape, Sources
<1> HIDE DEF source
<1>4. DOMAIN r1 = RunFields /\ r1.pc = "opened" /\ r1.session = run[s].session
  BY <1>1 DEF RunFields
<1> HIDE DEF r1
<1>5. DOMAIN r2 = RunFields /\ r2.pc = "opened" /\ r2.session = run[s].session /\ r2.source = source
  BY <1>4 DEF RunFields
<1> HIDE DEF r2
<1>6. \A t \in Sessions \ {s} :
        /\ DOMAIN run'[t] = RunFields /\ ~run'[t].own /\ run'[t].pc = run[t].pc
        /\ run'[t].session = run[t].session /\ run'[t].source = run[t].source /\ run'[t].env = run[t].env
  BY <1>1, <1>2 DEF RunFields
<1>7. DOMAIN run' = Sessions /\ run'[s] = r2
  BY <1>2
<1>8. DOMAIN conf' = ConfFields /\ conf'.settings = NoFile
  BY <1>1 DEF OpenSettings, ConfFields
<1>9. Shape'
  BY <1>5, <1>6, <1>7, <1>8 DEF Shape, RunShape, OpenSettings, UnchangedButSession
<1>10. \A t \in Sessions : run'[t].session = run[t].session
  BY <1>5, <1>6, <1>7
<1>11. \A t \in Sessions :
         /\ run'[t].pc = "idle" <=> run'[t].session = NoFile
         /\ run'[t].pc # "idle" => run'[t].session \in SessionsOf(t)
         /\ run'[t].pc = "opened" => run'[t].source \in Sources
         /\ ~(run'[t].own /\ run'[t].pc \in Written)
  <2>1. TAKE t \in Sessions
  <2>2. CASE t = s
    <3>1. run[s].pc = "resolved"
      BY DEF OpenSettings
    <3> QED BY <1>3, <1>5, <1>7, <2>2, <3>1 DEF Written, Declared
  <2>3. CASE t # s
    BY <1>6, <2>3 DEF Declared
  <2> QED BY <2>2, <2>3
<1>12. SessionIsDeclared'
  <2>1. SUFFICES ASSUME NEW t \in Sessions, run'[t].pc = "running"
                 PROVE  \/ run'[t].env = EnvBlock(run'[t].session)
                        \/ /\ ~run'[t].own
                           /\ run'[t].env \in {NoFile} \cup {EnvBlock(run'[u].session) : u \in {v \in Sessions : run'[v].session # NoFile}}
    BY DEF SessionIsDeclared
  <2>2. t # s
    BY <1>5, <1>7, <2>1
  <2>3. run[t].pc = "running" /\ run'[t].env = run[t].env /\ ~run'[t].own
    BY <1>6, <2>1, <2>2
  <2>4. \/ run[t].env = EnvBlock(run[t].session)
        \/ run[t].env \in {NoFile} \cup {EnvBlock(run[u].session) : u \in {v \in Sessions : run[v].session # NoFile}}
    BY <2>3 DEF Declared, SessionIsDeclared
  <2> QED BY <1>10, <2>3, <2>4
<1> QED BY <1>8, <1>9, <1>11, <1>12 DEF Declared, Sole

LEMMA WriteKeepsDeclared ==
    ASSUME Shape, Declared, NEW s \in Sessions, WriteSettings(s)
    PROVE  Shape' /\ Declared'
<1>1. DOMAIN run = Sessions /\ (\A t \in Sessions : DOMAIN run[t] = RunFields) /\ DOMAIN conf = ConfFields
  BY DEF Shape, RunShape
<1> DEFINE text == LocalSettings(run[s].session, run[s].source)
<1>2. run[s].session \in SessionsOf(s) /\ run[s].session # NoFile /\ run[s].source \in Sources
  BY DEF WriteSettings, Declared
<1>3. text # NoFile /\ text.env = EnvBlock(run[s].session)
  BY <1>2, ObjectsAssumption, SettingsEnv DEF SessionsOf, Sources, Contexts
<1> DEFINE alone == conf.settings = NoFile
           pc == IF McpServersOf(run[s].source) = Empty THEN "carried" ELSE "settled"
           r1 == [run[s] EXCEPT !.own = alone]
           r2 == [r1 EXCEPT !.pc = pc]
<1>4. PICK written : /\ written = text \/ (~alone /\ written = NoFile)
                     /\ conf' = [conf EXCEPT !.settings = written]
  BY DEF WriteSettings
<1>5. run' = [t \in Sessions |-> IF t # s THEN [run[t] EXCEPT !.own = FALSE] ELSE r2]
  BY <1>1 DEF WriteSettings
<1>6. pc \in {"carried", "settled"}
  OBVIOUS
<1> HIDE DEF pc, text
<1>7. DOMAIN r1 = RunFields /\ r1.own = alone /\ r1.session = run[s].session
  BY <1>1 DEF RunFields
<1> HIDE DEF r1
<1>8. DOMAIN r2 = RunFields /\ r2.pc = pc /\ r2.own = alone /\ r2.session = run[s].session
  BY <1>7 DEF RunFields
<1> HIDE DEF r2
<1>9. \A t \in Sessions \ {s} :
        /\ DOMAIN run'[t] = RunFields /\ ~run'[t].own /\ run'[t].pc = run[t].pc
        /\ run'[t].session = run[t].session /\ run'[t].source = run[t].source /\ run'[t].env = run[t].env
  BY <1>1, <1>5 DEF RunFields
<1>10. DOMAIN run' = Sessions /\ run'[s] = r2
  BY <1>5
<1>11. DOMAIN conf' = ConfFields /\ conf'.settings = written
  BY <1>1, <1>4 DEF ConfFields
<1>12. Shape'
  BY <1>8, <1>9, <1>10, <1>11 DEF Shape, RunShape, WriteSettings, UnchangedButSession
<1>13. \A t \in Sessions : run'[t].session = run[t].session
  BY <1>8, <1>9, <1>10
<1>14. \A t \in Sessions :
         /\ run'[t].pc = "idle" <=> run'[t].session = NoFile
         /\ run'[t].pc # "idle" => run'[t].session \in SessionsOf(t)
         /\ run'[t].pc = "opened" => run'[t].source \in Sources
         /\ run'[t].own /\ run'[t].pc \in Written =>
              conf'.settings # NoFile /\ conf'.settings.env = EnvBlock(run'[t].session)
  <2>1. TAKE t \in Sessions
  <2>2. CASE t = s
    BY <1>2, <1>3, <1>4, <1>6, <1>8, <1>10, <1>11, <2>2
  <2>3. CASE t # s
    BY <1>9, <2>3 DEF Declared
  <2> QED BY <2>2, <2>3
<1>15. conf'.settings # NoFile =>
         \E t \in Sessions : run'[t].session # NoFile /\ conf'.settings.env = EnvBlock(run'[t].session)
  BY <1>2, <1>3, <1>4, <1>11, <1>13
<1>16. SessionIsDeclared'
  <2>1. SUFFICES ASSUME NEW t \in Sessions, run'[t].pc = "running"
                 PROVE  \/ run'[t].env = EnvBlock(run'[t].session)
                        \/ /\ ~run'[t].own
                           /\ run'[t].env \in {NoFile} \cup {EnvBlock(run'[u].session) : u \in {v \in Sessions : run'[v].session # NoFile}}
    BY DEF SessionIsDeclared
  <2>2. t # s
    BY <1>6, <1>8, <1>10, <2>1
  <2>3. run[t].pc = "running" /\ run'[t].env = run[t].env /\ ~run'[t].own
    BY <1>9, <2>1, <2>2
  <2>4. \/ run[t].env = EnvBlock(run[t].session)
        \/ run[t].env \in {NoFile} \cup {EnvBlock(run[u].session) : u \in {v \in Sessions : run[v].session # NoFile}}
    BY <2>3 DEF Declared, SessionIsDeclared
  <2> QED BY <1>13, <2>3, <2>4
<1> QED BY <1>12, <1>14, <1>15, <1>16 DEF Declared, Sole

LEMMA StartKeepsDeclared ==
    ASSUME Shape, Declared, NEW s \in Sessions, AgentStarts(s)
    PROVE  Shape' /\ Declared'
<1>1. DOMAIN run = Sessions /\ (\A t \in Sessions : DOMAIN run[t] = RunFields) /\ DOMAIN conf = ConfFields
  BY DEF Shape, RunShape
<1> DEFINE env == IF conf.settings = NoFile THEN NoFile ELSE conf.settings.env
           r1 == [run[s] EXCEPT !.pc = "running"]
           r2 == [r1 EXCEPT !.env = env]
<1>2. run' = [run EXCEPT ![s] = r2]
  BY <1>1 DEF AgentStarts
<1>3. run[s].pc = "starting" /\ conf' = conf
  BY DEF AgentStarts
<1>4. \/ env = EnvBlock(run[s].session)
      \/ ~run[s].own /\ env = NoFile
      \/ ~run[s].own /\ \E u \in Sessions : run[u].session # NoFile /\ env = EnvBlock(run[u].session)
  BY <1>3 DEF Declared, Sole, Written
<1> HIDE DEF env
<1>5. DOMAIN r1 = RunFields /\ r1.pc = "running" /\ r1.session = run[s].session /\ r1.own = run[s].own
  BY <1>1 DEF RunFields
<1> HIDE DEF r1
<1>6. DOMAIN r2 = RunFields /\ r2.pc = "running" /\ r2.session = run[s].session /\ r2.own = run[s].own /\ r2.env = env
  BY <1>5 DEF RunFields
<1> HIDE DEF r2
<1>7. DOMAIN run' = Sessions /\ run'[s] = r2 /\ \A t \in Sessions \ {s} : run'[t] = run[t]
  BY <1>1, <1>2
<1>8. Shape'
  BY <1>1, <1>6, <1>7 DEF Shape, RunShape, AgentStarts, UnchangedButSession
<1>9. \A t \in Sessions : run'[t].session = run[t].session
  BY <1>6, <1>7
<1>10. \A t \in Sessions :
         /\ run'[t].pc = "idle" <=> run'[t].session = NoFile
         /\ run'[t].pc # "idle" => run'[t].session \in SessionsOf(t)
         /\ run'[t].pc = "opened" => run'[t].source \in Sources
         /\ run'[t].own /\ run'[t].pc \in Written =>
              conf'.settings # NoFile /\ conf'.settings.env = EnvBlock(run'[t].session)
  <2>1. TAKE t \in Sessions
  <2>2. CASE t = s
    BY <1>3, <1>6, <1>7, <2>2 DEF Declared, Written
  <2>3. CASE t # s
    BY <1>3, <1>7, <2>3 DEF Declared, Sole
  <2> QED BY <2>2, <2>3
<1>11. conf'.settings # NoFile =>
         \E t \in Sessions : run'[t].session # NoFile /\ conf'.settings.env = EnvBlock(run'[t].session)
  BY <1>3, <1>9 DEF Declared
<1>12. SessionIsDeclared'
  <2>1. SUFFICES ASSUME NEW t \in Sessions, run'[t].pc = "running"
                 PROVE  \/ run'[t].env = EnvBlock(run'[t].session)
                        \/ /\ ~run'[t].own
                           /\ run'[t].env \in {NoFile} \cup {EnvBlock(run'[u].session) : u \in {v \in Sessions : run'[v].session # NoFile}}
    BY DEF SessionIsDeclared
  <2>2. CASE t = s
    BY <1>4, <1>6, <1>7, <1>9, <2>2
  <2>3. CASE t # s
    <3>1. run'[t] = run[t]
      BY <1>7, <2>3
    <3>2. \/ run[t].env = EnvBlock(run[t].session)
          \/ /\ ~run[t].own
             /\ run[t].env \in {NoFile} \cup {EnvBlock(run[u].session) : u \in {v \in Sessions : run[v].session # NoFile}}
      BY <2>1, <3>1 DEF Declared, SessionIsDeclared
    <3> QED BY <1>9, <3>1, <3>2
  <2> QED BY <2>2, <2>3
<1> QED BY <1>8, <1>10, <1>11, <1>12 DEF Declared, Sole

LEMMA LaunchingKeepsDeclared ==
    ASSUME Shape, Declared, NEW s \in Sessions, Launching(s)
    PROVE  Shape' /\ Declared'
<1>1. CASE \E m \in Models : Resolve(s, m)
  BY <1>1, ResolveKeepsDeclared
<1>2. CASE OpenSettings(s)
  BY <1>2, OpenKeepsDeclared
<1>3. CASE WriteSettings(s)
  BY <1>3, WriteKeepsDeclared
<1>4. CASE ReadClaudeJson(s) \/ AgentSaves(s)
  BY <1>4, MovesToRead
<1>5. CASE \/ OpenClaudeJson(s) \/ WriteClaudeJson(s) \/ WriteInstalled(s)
           \/ PrintOnly(s) \/ Bridge(s) \/ AgentExits(s) \/ Killed(s)
  BY <1>5, PlainMovesKeepDeclared
<1>6. CASE SyncLocalPlugins(s)
  BY <1>6, SyncKeepsDeclared
<1>7. CASE LinkPlugin(s)
  BY <1>7, LinkKeepsDeclared
<1>8. CASE AgentStarts(s)
  BY <1>8, StartKeepsDeclared
<1> QED BY <1>1, <1>2, <1>3, <1>4, <1>5, <1>6, <1>7, <1>8 DEF Launching

LEMMA EditRegistryKeepsDeclared ==
    ASSUME Shape, Declared, EditRegistry
    PROVE  Shape' /\ Declared'
<1>1. DOMAIN reg = {"active", "ctx"} /\ reg.ctx \in [Models -> Contexts]
  BY DEF Shape
<1>2. ASSUME NEW m \in Models, reg' = [reg EXCEPT !.active = m]
      PROVE  DOMAIN reg' = {"active", "ctx"} /\ reg'.ctx \in [Models -> Contexts]
  BY <1>1, <1>2
<1>3. ASSUME NEW m \in Models, NEW w \in Windows, reg' = [reg EXCEPT !.ctx[m] = w]
      PROVE  DOMAIN reg' = {"active", "ctx"} /\ reg'.ctx \in [Models -> Contexts]
  <2> DEFINE ctx == [reg.ctx EXCEPT ![m] = w]
  <2>1. ctx \in [Models -> Contexts]
    BY <1>1 DEF Contexts
  <2>2. reg' = [reg EXCEPT !.ctx = ctx]
    BY <1>1, <1>3
  <2> HIDE DEF ctx
  <2> QED BY <1>1, <2>1, <2>2
<1>4. Shape'
  BY <1>2, <1>3 DEF EditRegistry, Shape, RunShape
<1>5. Declared'
  BY DeclaredStays DEF EditRegistry
<1> QED BY <1>4, <1>5

LEMMA NextKeepsDeclared == Shape /\ Declared /\ [Next]_vars => (Shape /\ Declared)'
<1> SUFFICES ASSUME Shape, Declared, [Next]_vars PROVE Shape' /\ Declared'
  OBVIOUS
<1>1. CASE \E s \in Sessions : Launching(s)
  BY <1>1, LaunchingKeepsDeclared
<1>2. CASE EditRegistry
  BY <1>2, EditRegistryKeepsDeclared
<1>3. CASE UserEdits
  <2>1. user' \in UserConfigs
    BY <1>3 DEF UserEdits, Shape
  <2>2. Shape'
    BY <1>3, <2>1 DEF UserEdits, Shape, RunShape
  <2> QED BY <1>3, <2>2, DeclaredStays DEF UserEdits
<1>4. CASE \/ IntegrateHermes \/ (\E pin \in Commits \cup {None} : StartBuild(pin))
           \/ StepSucceeds \/ StepFails \/ DoctorBegins \/ DoctorChecks
           \/ HermesEdited \/ ReplaceServer \/ UpstreamMoves
  <2>1. UNCHANGED <<user, reg, run, conf>>
    BY <1>4 DEF IntegrateHermes, StartBuild, StepSucceeds, StepFails, DoctorBegins, DoctorChecks,
                HermesEdited, ReplaceServer, UpstreamMoves, UnchangedButEngine
  <2>2. Shape'
    BY <2>1 DEF Shape, RunShape
  <2> QED BY <2>1, <2>2, DeclaredStays
<1>5. CASE UNCHANGED vars
  <2>1. UNCHANGED <<user, reg, run, conf>>
    BY <1>5 DEF vars
  <2>2. Shape'
    BY <2>1 DEF Shape, RunShape
  <2> QED BY <2>1, <2>2, DeclaredStays
<1> QED BY <1>1, <1>2, <1>3, <1>4, <1>5 DEF Next

\* An agent runs under the environment of its own launch, or, once another launch
\* has written the shared settings in between, under all of that one's or none:
\* for any number of sessions, models and configurations, and whatever the other
\* commands do (SessionIsDeclared).  The settings are what makes it inductive:
\* they are those of the last launch that wrote undisturbed, or of some launch.
THEOREM SessionIsDeclaredAlways == Spec => []SessionIsDeclared
<1>1. Shape /\ Declared => SessionIsDeclared
  BY DEF Declared
<1> QED BY <1>1, InitDeclared, NextKeepsDeclared, PTL DEF Spec

-----------------------------------------------------------------------------
(* The doctor.                                                             *)

DoctorFields == {"eff", "todo", "rows", "openai", "met"}

Names == {"openai", "anthropic", "think", "canary", "ctx floor", "ctx live"}

\* The checks that are left, and those that have a row.
Stands(todo, made) ==
    /\ todo \in Seq(Names) /\ Len(todo) <= 6
    /\ \A i \in 1..Len(todo) : todo[i] = Checks[6 - Len(todo) + i]
    /\ made = {Checks[i] : i \in 1..6 - Len(todo)}

\* What a check that did not fail shows.
Shows(d, check) ==
    /\ check = "openai" => HasContent(d.openai)
    /\ check = "think" => (d.eff.model \in Interleaved /\ HasContent(d.openai) => d.openai.think)
    /\ check = "ctx floor" => (d.eff.model \in HermesOk => d.eff.ctx >= HermesFloor)
    /\ check = "ctx live" => d.met[Len(d.met)].ctx = d.eff.ctx

\* What a checkup has found so far: a server that was down when it was asked left
\* a failed row.
Found(d) ==
    /\ DOMAIN d = DoctorFields
    /\ Stands(d.todo, DOMAIN d.rows)
    /\ d.met \in Seq(Range(d.met))
    /\ \A check \in DOMAIN d.rows : d.rows[check] # Fail => Shows(d, check)
    /\ Healthy(d.rows) => \A i \in 1..Len(d.met) : d.met[i] # Down
    /\ d.todo = <<>> => Len(d.met) >= 1

Checkup ==
    /\ DOMAIN doctor = DoctorFields
    /\ (doctor.eff = NoFile /\ doctor.todo = <<>>) \/ Found(doctor)

LEMMA InOrder ==
    /\ Checks \in Seq(Names) /\ Len(Checks) = 6 /\ Checks # <<>>
    /\ Checks[1] = "openai" /\ Checks[2] = "anthropic" /\ Checks[3] = "think" /\ Checks[4] = "canary"
    /\ Checks[5] = "ctx floor" /\ Checks[6] = "ctx live"
    /\ \A i \in 1..6, j \in 1..6 : Checks[i] = Checks[j] => i = j
    /\ {Checks[i] : i \in 1..6} = Names
<1>1. Checks \in Seq(Names) /\ Len(Checks) = 6 /\ Checks # <<>>
  BY DEF Checks, Names
<1>2. /\ Checks[1] = "openai" /\ Checks[2] = "anthropic" /\ Checks[3] = "think" /\ Checks[4] = "canary"
      /\ Checks[5] = "ctx floor" /\ Checks[6] = "ctx live"
  BY DEF Checks
<1>3. \A i \in 1..6 : i = 1 \/ i = 2 \/ i = 3 \/ i = 4 \/ i = 5 \/ i = 6
  OBVIOUS
<1>4. \A i \in 1..6, j \in 1..6 : Checks[i] = Checks[j] => i = j
  BY <1>2, <1>3
<1>5. {Checks[i] : i \in 1..6} = Names
  <2>1. \A i \in 1..6 : Checks[i] \in Names
    BY <1>2, <1>3 DEF Names
  <2>2. {1, 2, 3, 4, 5, 6} \subseteq 1..6
    OBVIOUS
  <2>3. \A c \in Names : \E i \in 1..6 : Checks[i] = c
    BY <1>2, <2>2 DEF Names
  <2> QED BY <2>1, <2>3
<1> QED BY <1>1, <1>2, <1>4, <1>5

LEMMA StandsOn ==
    ASSUME NEW todo, NEW made, Stands(todo, made), todo # <<>>
    PROVE  /\ Stands(Tail(todo), made \cup {Head(todo)})
           /\ Head(todo) \notin made /\ "ctx live" \notin made
           /\ Head(todo) = "openai" => made = {}
           /\ Head(todo) \in Names
           /\ Tail(todo) = <<>> => Head(todo) = "ctx live"
<1> DEFINE k == Len(todo)
<1>1. todo \in Seq(Names) /\ k \in 1..6 /\ made = {Checks[i] : i \in 1..6 - k}
  <2>1. todo \in Seq(Names) /\ k <= 6 /\ made = {Checks[i] : i \in 1..6 - k}
    BY DEF Stands
  <2>2. k \in Nat /\ k # 0
    BY <2>1, EmptySeq
  <2> HIDE DEF k
  <2> QED BY <2>1, <2>2
<1>2. Head(todo) = Checks[7 - k] /\ Head(todo) \in Names
  <2>1. Head(todo) = todo[1] /\ 1 \in 1..k /\ 6 - k + 1 = 7 - k
    <3> HIDE DEF k
    <3> QED BY <1>1
  <2>2. todo[1] = Checks[6 - k + 1] /\ todo[1] \in Names
    BY <1>1, <2>1 DEF Stands
  <2> QED BY <2>1, <2>2
<1>3. /\ Tail(todo) \in Seq(Names) /\ Len(Tail(todo)) = k - 1
      /\ \A i \in 1..k - 1 : Tail(todo)[i] = todo[i + 1]
  BY <1>1
<1>0. \A i \in 1..k : todo[i] = Checks[6 - k + i]
  BY DEF Stands
<1> HIDE DEF k
<1>4. \A i \in 1..k - 1 : Tail(todo)[i] = Checks[6 - (k - 1) + i]
  <2> SUFFICES ASSUME NEW i \in 1..k - 1 PROVE Tail(todo)[i] = Checks[6 - (k - 1) + i]
    OBVIOUS
  <2>1. i + 1 \in 1..k /\ 6 - (k - 1) + i = 6 - k + (i + 1)
    BY <1>1
  <2> QED BY <1>0, <1>3, <2>1
<1>5. made \cup {Head(todo)} = {Checks[i] : i \in 1..6 - (k - 1)}
  <2>1. \A i \in 1..6 - (k - 1) : i \in 1..6 - k \/ i = 7 - k
    BY <1>1
  <2>2. 7 - k \in 1..6 - (k - 1) /\ 1..6 - k \subseteq 1..6 - (k - 1)
    BY <1>1
  <2> QED BY <1>1, <1>2, <2>1, <2>2
<1>6. Stands(Tail(todo), made \cup {Head(todo)})
  BY <1>1, <1>3, <1>4, <1>5 DEF Stands
<1>7. Head(todo) \notin made /\ "ctx live" \notin made
  <2> SUFFICES ASSUME NEW i \in 1..6 - k PROVE Checks[i] # Head(todo) /\ Checks[i] # "ctx live"
    BY <1>1
  <2>1. i \in 1..6 /\ i # 7 - k /\ i # 6 /\ 7 - k \in 1..6 /\ 6 \in 1..6
    BY <1>1
  <2> QED BY <1>2, <2>1, InOrder
<1>8. Head(todo) = "openai" => made = {}
  <2>1. Head(todo) = "openai" => 7 - k = 1
    <3>1. 7 - k \in 1..6 /\ 1 \in 1..6
      BY <1>1
    <3> QED BY <1>2, <3>1, InOrder
  <2>2. 7 - k = 1 => 1..6 - k = {}
    BY <1>1
  <2> QED BY <1>1, <2>1, <2>2
<1>9. Tail(todo) = <<>> => Head(todo) = "ctx live"
  <2>1. Tail(todo) = <<>> => k - 1 = 0
    BY <1>3
  <2>2. k - 1 = 0 => 7 - k = 6
    BY <1>1
  <2> QED BY <1>2, <2>1, <2>2, InOrder
<1> QED BY <1>2, <1>6, <1>7, <1>8, <1>9

LEMMA InitCheckup == Init => Checkup
BY DEF Init, Checkup, DoctorFields

LEMMA BeginsChecked ==
    ASSUME DoctorBegins
    PROVE  Checkup'
<1>1. PICK m : doctor' = [eff |-> Effective(m), todo |-> Checks, rows |-> Empty, openai |-> Down, met |-> <<>>]
  BY DEF DoctorBegins
<1> DEFINE d == doctor'
<1>2. DOMAIN d = DoctorFields /\ d.todo = Checks /\ DOMAIN d.rows = {} /\ d.met = <<>>
  BY <1>1 DEF DoctorFields, Empty
<1> HIDE DEF d
<1>3. Stands(d.todo, DOMAIN d.rows) /\ d.todo # <<>>
  <2>1. Len(Checks) = 6 /\ {Checks[i] : i \in 1..6 - 6} = {}
    <3>1. 1..6 - 6 = {}
      OBVIOUS
    <3> QED BY <3>1, InOrder
  <2>2. \A i \in 1..6 : 6 - 6 + i = i
    OBVIOUS
  <2>3. Stands(Checks, {})
    <3>1. Checks \in Seq(Names) /\ Len(Checks) <= 6
      <4>1. 6 <= 6
        OBVIOUS
      <4> QED BY <2>1, <4>1, InOrder, Zenon
    <3>2. \A i \in 1..Len(Checks) : Checks[i] = Checks[6 - Len(Checks) + i]
      BY <2>1, <2>2
    <3>3. {} = {Checks[i] : i \in 1..6 - Len(Checks)}
      BY <2>1
    <3> QED BY <3>1, <3>2, <3>3 DEF Stands
  <2> QED BY <1>2, <2>3, InOrder
<1>4. Len(d.met) = 0 /\ d.met \in Seq(Range(d.met))
  BY <1>2
<1>6. Found(d)
  BY <1>2, <1>3, <1>4 DEF Found
<1> QED BY <1>2, <1>6 DEF d, Checkup

LEMMA Appended ==
    ASSUME NEW met, met \in Seq(Range(met)), NEW x
    PROVE  /\ Append(met, x) \in Seq(Range(Append(met, x)))
           /\ Len(Append(met, x)) = Len(met) + 1
           /\ Append(met, x)[Len(met) + 1] = x
           /\ \A i \in 1..Len(met) : Append(met, x)[i] = met[i]
<1> DEFINE T == Range(met) \cup {x}
           more == Append(met, x)
<1>1. met \in Seq(T) /\ Len(met) \in Nat
  BY SeqMonotonic
<1>2. /\ more \in Seq(T) /\ Len(more) = Len(met) + 1 /\ more[Len(met) + 1] = x
      /\ \A i \in 1..Len(met) : more[i] = met[i]
  BY <1>1
<1>3. DOMAIN more = 1..Len(met) + 1 /\ DOMAIN met = 1..Len(met)
  BY <1>1, <1>2
<1>4. Range(more) = T
  BY <1>2, <1>3, <1>1 DEF Range
<1> QED BY <1>2, <1>4

LEMMA ChecksChecked ==
    ASSUME Checkup, DoctorChecks
    PROVE  Checkup'
<1> DEFINE check == Head(doctor.todo)
           eff == doctor.eff
           asks == check \in {"openai", "anthropic", "canary", "ctx live"}
           result(reply) ==
             CASE check \in {"openai", "anthropic"} -> CheckDoor(reply)
               [] check = "think"     -> CheckThink(eff.model \in Interleaved, doctor.openai)
               [] check = "canary"    -> CheckCanary(reply)
               [] check = "ctx floor" -> CheckCtx(eff.model \in HermesOk, eff.ctx, HermesFloor)
               [] check = "ctx live"  -> CheckCtxLive(server, eff.ctx)
<1>1. doctor.todo # <<>> /\ DOMAIN doctor = DoctorFields /\ Found(doctor)
  BY DEF DoctorChecks, Checkup
<1>2. PICK reply :
        /\ server = Down => reply = Down
        /\ doctor' = [doctor EXCEPT !.todo = Tail(@), !.rows = Over([c \in {check} |-> result(reply)], @),
                        !.openai = IF check = "openai" THEN reply ELSE @,
                        !.met = IF asks THEN Append(@, server) ELSE @]
  <2>1. PICK reply \in IF server = Down \/ ~asks \/ check = "ctx live" THEN {Down} ELSE Replies :
          doctor' = [doctor EXCEPT !.todo = Tail(@), !.rows = Over([c \in {check} |-> result(reply)], @),
                        !.openai = IF check = "openai" THEN reply ELSE @,
                        !.met = IF asks THEN Append(@, server) ELSE @]
    BY Zenon DEF DoctorChecks
  <2>2. server = Down => reply = Down
    OBVIOUS
  <2> QED BY <2>1, <2>2
<1> DEFINE d == doctor'
           v == result(reply)
<1>3. /\ DOMAIN d = DoctorFields /\ d.todo = Tail(doctor.todo) /\ d.eff = eff
      /\ d.rows = Over([c \in {check} |-> v], doctor.rows)
      /\ d.openai = IF check = "openai" THEN reply ELSE doctor.openai
      /\ d.met = IF asks THEN Append(doctor.met, server) ELSE doctor.met
  BY <1>1, <1>2 DEF DoctorFields
<1>4. /\ Stands(d.todo, DOMAIN doctor.rows \cup {check})
      /\ check \notin DOMAIN doctor.rows /\ "ctx live" \notin DOMAIN doctor.rows
      /\ check = "openai" => DOMAIN doctor.rows = {}
      /\ check \in Names
      /\ d.todo = <<>> => check = "ctx live"
  BY <1>1, <1>3, StandsOn DEF Found
<1>5. /\ check \in {"openai", "anthropic"} => v = CheckDoor(reply)
      /\ check = "think" => v = CheckThink(eff.model \in Interleaved, doctor.openai)
      /\ check = "canary" => v = CheckCanary(reply)
      /\ check = "ctx floor" => v = CheckCtx(eff.model \in HermesOk, eff.ctx, HermesFloor)
      /\ check = "ctx live" => v = CheckCtxLive(server, eff.ctx)
  OBVIOUS
<1> HIDE DEF v, d, check
<1>6. DOMAIN d.rows = DOMAIN doctor.rows \cup {check} /\ d.rows[check] = v
      /\ \A c \in DOMAIN doctor.rows : d.rows[c] = doctor.rows[c]
  BY <1>3, <1>4 DEF Over
<1> DEFINE n == Len(doctor.met)
<1>7. doctor.met \in Seq(Range(doctor.met)) /\ n \in Nat
  BY <1>1 DEF Found
<1>8. /\ d.met \in Seq(Range(d.met))
      /\ asks => Len(d.met) = n + 1 /\ d.met[n + 1] = server
      /\ ~asks => Len(d.met) = n
      /\ \A i \in 1..n : d.met[i] = doctor.met[i]
  <2> DEFINE more == Append(doctor.met, server)
  <2>1. /\ more \in Seq(Range(more)) /\ Len(more) = n + 1 /\ more[n + 1] = server
        /\ \A i \in 1..n : more[i] = doctor.met[i]
    BY <1>7, Appended
  <2> HIDE DEF more
  <2>2. CASE asks
    <3>1. d.met = more
      BY <1>3, <2>2 DEF more
    <3> QED BY <2>1, <2>2, <3>1
  <2>3. CASE ~asks
    <3>1. d.met = doctor.met
      BY <1>3, <2>3
    <3> QED BY <1>7, <2>3, <3>1
  <2> QED BY <2>2, <2>3
<1>9. v # Fail /\ asks => server # Down
  BY <1>2, <1>4, <1>5 DEF CheckDoor, CheckCanary, CheckCtxLive, HasContent, Pass, Fail
<1>18. check = "ctx live" => asks
  OBVIOUS
<1> HIDE DEF n, asks
<1>10. Healthy(d.rows) => \A i \in 1..Len(d.met) : d.met[i] # Down
  <2> SUFFICES ASSUME Healthy(d.rows), NEW i \in 1..Len(d.met) PROVE d.met[i] # Down
    OBVIOUS
  <2>1. Healthy(doctor.rows) /\ v # Fail
    BY <1>6 DEF Healthy
  <2>2. \A j \in 1..n : doctor.met[j] # Down
    BY <1>1, <2>1 DEF Found, n
  <2>3. CASE i <= n
    BY <1>7, <1>8, <2>2, <2>3
  <2>4. CASE i > n
    <3>1. asks /\ i = n + 1
      BY <1>7, <1>8, <2>4
    <3> QED BY <3>1, <1>8, <1>9, <2>1
  <2> QED BY <1>7, <1>8, <2>3, <2>4
<1>11. ASSUME v # Fail PROVE Shows(d, check)
  <2>1. check = "openai" => HasContent(d.openai)
    BY <1>3, <1>5, <1>11 DEF CheckDoor
  <2>2. check = "think" => (d.eff.model \in Interleaved /\ HasContent(d.openai) => d.openai.think)
    BY <1>3, <1>5, <1>11 DEF CheckThink
  <2>3. check = "ctx floor" => (d.eff.model \in HermesOk => d.eff.ctx >= HermesFloor)
    BY <1>3, <1>5, <1>11 DEF CheckCtx
  <2>4. check = "ctx live" => d.met[Len(d.met)].ctx = d.eff.ctx
    BY <1>3, <1>5, <1>8, <1>11, <1>18 DEF CheckCtxLive
  <2> QED BY <2>1, <2>2, <2>3, <2>4 DEF Shows
<1>12. ASSUME NEW c \in DOMAIN doctor.rows, doctor.rows[c] # Fail PROVE Shows(d, c)
  <2>1. Shows(doctor, c) /\ c # "ctx live" /\ check # "openai"
    BY <1>1, <1>4, <1>12 DEF Found
  <2>2. d.openai = doctor.openai /\ d.eff = doctor.eff
    BY <1>3, <2>1
  <2> QED BY <2>1, <2>2 DEF Shows
<1>13. \A c \in DOMAIN d.rows : d.rows[c] # Fail => Shows(d, c)
  BY <1>6, <1>11, <1>12
<1>16. d.todo = <<>> => Len(d.met) >= 1
  <2>1. d.todo = <<>> => asks
    BY <1>4, <1>18
  <2>2. asks => Len(d.met) = n + 1
    BY <1>8
  <2> QED BY <1>7, <2>1, <2>2
<1>17. Found(d)
  BY <1>3, <1>4, <1>6, <1>8, <1>10, <1>13, <1>16 DEF Found
<1> QED BY <1>3, <1>17 DEF d, Checkup

LEMMA NextChecked == Checkup /\ [Next]_vars => Checkup'
<1> SUFFICES ASSUME Checkup, [Next]_vars PROVE Checkup'
  OBVIOUS
<1>1. CASE UNCHANGED doctor
  BY <1>1 DEF Checkup
<1>2. CASE DoctorBegins \/ DoctorChecks
  BY <1>2, BeginsChecked, ChecksChecked
<1>3. CASE \E s \in Sessions : Launching(s)
  <2>1. UNCHANGED doctor
    BY <1>3 DEF Launching, Resolve, OpenSettings, WriteSettings, ReadClaudeJson, OpenClaudeJson, WriteClaudeJson,
       SyncLocalPlugins, LinkPlugin, WriteInstalled, PrintOnly, Bridge, Killed, AgentStarts, AgentSaves, AgentExits,
       UnchangedButSession
  <2> QED BY <1>1, <2>1
<1>4. CASE \/ IntegrateHermes \/ (\E pin \in Commits \cup {None} : StartBuild(pin)) \/ StepSucceeds \/ StepFails
           \/ UserEdits \/ HermesEdited \/ EditRegistry \/ ReplaceServer \/ UpstreamMoves \/ UNCHANGED vars
  <2>1. UNCHANGED doctor
    BY <1>4 DEF IntegrateHermes, StartBuild, StepSucceeds, StepFails, UserEdits, HermesEdited, EditRegistry,
       ReplaceServer, UpstreamMoves, UnchangedButEngine, vars
  <2> QED BY <1>1, <2>1
<1> QED BY <1>2, <1>3, <1>4 DEF Next

LEMMA CheckupMeans == Checkup => HealthyMeansServing
<1> SUFFICES ASSUME Checkup, doctor.eff # NoFile, doctor.todo = <<>>, Healthy(doctor.rows)
             PROVE  /\ Down \notin Range(doctor.met)
                    /\ Last(doctor.met).ctx = doctor.eff.ctx
                    /\ doctor.eff.model \in HermesOk => doctor.eff.ctx >= HermesFloor
                    /\ doctor.eff.model \in Interleaved => doctor.openai.think
  BY DEF HealthyMeansServing
<1> DEFINE d == doctor
           n == Len(d.met)
<1>1. Found(d)
  BY DEF Checkup
<1>2. DOMAIN d.rows = {"openai", "anthropic", "think", "canary", "ctx floor", "ctx live"}
  <2>1. Len(d.todo) = 0
    OBVIOUS
  <2>2. DOMAIN d.rows = {Checks[i] : i \in 1..6}
    BY <1>1, <2>1 DEF Found, Stands
  <2> QED BY <2>2, InOrder DEF Names
<1>3. Shows(d, "openai") /\ Shows(d, "think") /\ Shows(d, "ctx floor") /\ Shows(d, "ctx live")
  BY <1>1, <1>2 DEF Found, Healthy
<1>4. d.met \in Seq(Range(d.met)) /\ n \in Nat /\ n >= 1 /\ \A i \in 1..n : d.met[i] # Down
  BY <1>1 DEF Found
<1>5. Down \notin Range(d.met)
  BY <1>4 DEF Range
<1>6. Last(d.met) = d.met[n]
  BY DEF Last
<1> QED BY <1>3, <1>5, <1>6 DEF Shows

\* A doctor that finds nothing wrong was answered each time it asked, and last by
\* a server that had loaded the context it looked for (HealthyMeansServing, which
\* says nothing of the model that answered); for any models, contexts and
\* answers, and whatever replaces the server meanwhile.  It
\* is inductive with which checks are left, in their order, and what each row
\* that did not fail showed.
THEOREM HealthyMeansServingAlways == Spec => []HealthyMeansServing
BY InitCheckup, NextChecked, CheckupMeans, PTL DEF Spec

-----------------------------------------------------------------------------
(* What a launch leaves in the agents' directory.                          *)

\* At most one launch is under way, unless two were.
Solo == ~seen.overlap => \A s, t \in Sessions : Live(s) /\ Live(t) => s = t

Sourced == \A s \in Sessions : run[s].pc \notin {"idle", "resolved", "ended"} => run[s].source \in Sources

\* A .claude.json is read as nothing, or is one of these.
Legal(claude) == claude # NoFile => claude \in ClaudeFiles

\* What the agents kept is on disk, or in the hands of the one launch that
\* has the file truncated.
Saved ==
    /\ Legal(conf.claude)
    /\ \A s \in Sessions : Legal(run[s].existing)
    /\ ~seen.overlap /\ ~seen.torn =>
         /\ \A s \in Sessions : run[s].pc = "read" => run[s].existing = conf.claude
         /\ \A s \in Sessions : run[s].pc = "torn" => seen.history \subseteq OwnState(run[s].existing)
         /\ (\A s \in Sessions : run[s].pc # "torn") => seen.history \subseteq OwnState(conf.claude)

\* No row occurs twice, on disk or in hand.
NoneTwice(installed) ==
    \A m \in DOMAIN installed : installed[m] \in Seq(Range(installed[m])) /\ IsInjective(installed[m])
Listed ==
    /\ conf.installed # NoFile => NoneTwice(conf.installed)
    /\ \A s \in Sessions : NoneTwice(run[s].installed)

\* A marketplace that is linked has a link that resolves, is known, and is in
\* the rows, which the launch holds until it writes them.
Placed(s, market, installed) ==
    /\ LinkOf(market) \in DOMAIN conf.links /\ conf.links[LinkOf(market)] \in places
    /\ conf.known[market.name].path = market.dir
    /\ market.name \in DOMAIN installed /\ LinkOf(market) \in Range(installed[market.name])

Unlinked == {"idle", "resolved", "opened", "settled", "read", "torn", "carried"}
Linked ==
    \A s \in Sessions :
        /\ run[s].pc \in Unlinked => run[s].linked = {}
        /\ run[s].pc = "linking" /\ ~seen.overlap =>
             /\ \A market \in run[s].todo : conf.known[market.name].path = market.dir
             /\ \A market \in run[s].linked : Placed(s, market, run[s].installed)
        /\ run[s].pc = "ready" /\ ~seen.overlap =>
             \A market \in run[s].linked : Placed(s, market, conf.installed)

SeenFields == {"overlap", "torn", "history", "verified"}
Directory == DOMAIN seen = SeenFields /\ Solo /\ Sourced /\ Saved /\ Listed /\ Linked

\* Launches that this step does not concern: s is the one that moves.
Aside(s) ==
    \A t \in Sessions \ {s} :
        /\ run'[t].pc = run[t].pc /\ run'[t].source = run[t].source /\ run'[t].existing = run[t].existing
        /\ run'[t].todo = run[t].todo /\ run'[t].linked = run[t].linked /\ run'[t].installed = run[t].installed

HoldsFile(s) == run'[s].existing = run[s].existing
HoldsLinks(s) ==
    run'[s].todo = run[s].todo /\ run'[s].linked = run[s].linked /\ run'[s].installed = run[s].installed
Holds(s) == run'[s].source = run[s].source /\ HoldsFile(s) /\ HoldsLinks(s)

LEMMA PlainEffect ==
    ASSUME RunShape, NEW s \in Sessions, NEW pc, Moves(s, pc)
    PROVE  Aside(s) /\ Holds(s) /\ run'[s].pc = pc
BY DEF RunShape, RunFields, Moves, Aside, Holds, HoldsFile, HoldsLinks

LEMMA ResolveEffect ==
    ASSUME RunShape, NEW s \in Sessions, NEW m \in Models, Resolve(s, m)
    PROVE  Aside(s) /\ Holds(s) /\ run'[s].pc = "resolved" /\ run[s].pc = "idle"
<1> DEFINE new == SessionOf(m, reg.ctx[m], s)
<1>1. run' = [run EXCEPT ![s].pc = "resolved", ![s].session = new] /\ run[s].pc = "idle"
  BY DEF Resolve
<1> HIDE DEF new
<1> QED BY <1>1 DEF RunShape, RunFields, Aside, Holds, HoldsFile, HoldsLinks

LEMMA OpenEffect ==
    ASSUME RunShape, NEW s \in Sessions, OpenSettings(s)
    PROVE  Aside(s) /\ HoldsFile(s) /\ HoldsLinks(s) /\ run'[s].pc = "opened" /\ run[s].pc = "resolved"
           /\ run'[s].source = ReadUserSettings(user)
<1> DEFINE source == ReadUserSettings(user)
<1>1. /\ run' = [t \in Sessions |-> IF t = s THEN [run[s] EXCEPT !.pc = "opened", !.source = source]
                                    ELSE [run[t] EXCEPT !.own = FALSE]]
      /\ run[s].pc = "resolved"
  BY DEF OpenSettings
<1> HIDE DEF source
<1>2. Aside(s)
  BY <1>1 DEF RunShape, RunFields, Aside
<1>3. HoldsFile(s) /\ HoldsLinks(s) /\ run'[s].pc = "opened" /\ run'[s].source = source
  BY <1>1 DEF RunShape, RunFields, HoldsFile, HoldsLinks
<1> QED BY <1>1, <1>2, <1>3 DEF source

LEMMA WriteEffect ==
    ASSUME RunShape, NEW s \in Sessions, WriteSettings(s)
    PROVE  Aside(s) /\ Holds(s) /\ run'[s].pc \in {"carried", "settled"} /\ run[s].pc = "opened"
<1> DEFINE alone == conf.settings = NoFile
           pc == IF McpServersOf(run[s].source) = Empty THEN "carried" ELSE "settled"
<1>1. /\ run' = [t \in Sessions |-> IF t # s THEN [run[t] EXCEPT !.own = FALSE]
                                    ELSE [run[s] EXCEPT !.own = alone, !.pc = pc]]
      /\ run[s].pc = "opened"
  BY DEF WriteSettings
<1>2. pc \in {"carried", "settled"}
  OBVIOUS
<1> HIDE DEF alone, pc
<1>3. Aside(s)
  BY <1>1 DEF RunShape, RunFields, Aside
<1>4. Holds(s) /\ run'[s].pc = pc
  BY <1>1 DEF RunShape, RunFields, Holds, HoldsFile, HoldsLinks
<1> QED BY <1>1, <1>2, <1>3, <1>4

LEMMA ReadEffect ==
    ASSUME RunShape, NEW s \in Sessions, ReadClaudeJson(s)
    PROVE  Aside(s) /\ HoldsLinks(s) /\ run'[s].pc = "read" /\ run[s].pc = "settled"
           /\ run'[s].source = run[s].source /\ run'[s].existing = conf.claude
<1>1. run' = [run EXCEPT ![s].pc = "read", ![s].existing = conf.claude] /\ run[s].pc = "settled"
  BY DEF ReadClaudeJson
<1> QED BY <1>1 DEF RunShape, RunFields, Aside, HoldsLinks

LEMMA SyncEffect ==
    ASSUME RunShape, NEW s \in Sessions, SyncLocalPlugins(s), LocalMarketplaces(run[s].source) # {}
    PROVE  /\ Aside(s) /\ HoldsFile(s) /\ run'[s].pc = "linking" /\ run[s].pc = "carried"
           /\ run'[s].source = run[s].source /\ run'[s].linked = run[s].linked
           /\ run'[s].todo = LocalMarketplaces(run[s].source)
           /\ run'[s].installed = IF conf.installed = NoFile THEN Empty ELSE conf.installed
<1> DEFINE todo == LocalMarketplaces(run[s].source)
           rows == IF conf.installed = NoFile THEN Empty ELSE conf.installed
<1>1. /\ run' = [run EXCEPT ![s].pc = "linking", ![s].todo = todo, ![s].installed = rows]
      /\ run[s].pc = "carried"
  BY DEF SyncLocalPlugins
<1> HIDE DEF todo, rows
<1>2. Aside(s)
  BY <1>1 DEF RunShape, RunFields, Aside
<1>3. /\ HoldsFile(s) /\ run'[s].pc = "linking" /\ run'[s].source = run[s].source
      /\ run'[s].linked = run[s].linked /\ run'[s].todo = todo /\ run'[s].installed = rows
  BY <1>1 DEF RunShape, RunFields, HoldsFile
<1> QED BY <1>1, <1>2, <1>3 DEF todo, rows

\* A market that is there gets its link and its row.
LEMMA LinkEffect ==
    ASSUME RunShape, DOMAIN conf = ConfFields, NEW s \in Sessions, LinkPlugin(s)
    PROVE  \E market \in run[s].todo :
             LET path == LinkOf(market)
                 resolves == path \in DOMAIN conf.links /\ conf.links[path] \in places
                 there == market.dir \in places
             IN  /\ Aside(s) /\ HoldsFile(s) /\ run'[s].pc = "linking" /\ run[s].pc = "linking"
                 /\ run'[s].source = run[s].source
                 /\ run'[s].todo = run[s].todo \ {market}
                 /\ run'[s].linked = IF there THEN run[s].linked \cup {market} ELSE run[s].linked
                 /\ run'[s].installed = IF there THEN UpsertPluginEntry(run[s].installed, market)
                                        ELSE run[s].installed
                 /\ conf'.links = IF ~there \/ resolves THEN conf.links
                                  ELSE Over([p \in {path} |-> market.dir], conf.links)
                 /\ conf'.claude = conf.claude /\ conf'.known = conf.known /\ conf'.installed = conf.installed
<1>1. PICK market \in run[s].todo :
        LET path == LinkOf(market)
            resolves == path \in DOMAIN conf.links /\ conf.links[path] \in places
            there == market.dir \in places
        IN  /\ run[s].pc = "linking"
            /\ conf' = [conf EXCEPT !.links =
                          IF ~there \/ resolves THEN @ ELSE Over([p \in {path} |-> market.dir], @)]
            /\ run' = [run EXCEPT ![s].todo = @ \ {market},
                         ![s].linked = IF there THEN @ \cup {market} ELSE @,
                         ![s].installed = IF there THEN UpsertPluginEntry(@, market) ELSE @]
  BY Zenon DEF LinkPlugin
<1> DEFINE path == LinkOf(market)
           resolves == path \in DOMAIN conf.links /\ conf.links[path] \in places
           there == market.dir \in places
           todo == run[s].todo \ {market}
           linked == IF there THEN run[s].linked \cup {market} ELSE run[s].linked
           rows == IF there THEN UpsertPluginEntry(run[s].installed, market) ELSE run[s].installed
           links == IF ~there \/ resolves THEN conf.links ELSE Over([p \in {path} |-> market.dir], conf.links)
           r1 == [run[s] EXCEPT !.todo = todo]
           r2 == [r1 EXCEPT !.linked = linked]
           r3 == [r2 EXCEPT !.installed = rows]
<1>2. conf' = [conf EXCEPT !.links = links] /\ run[s].pc = "linking"
  BY <1>1
<1>3. run' = [run EXCEPT ![s] = r3]
  BY <1>1 DEF RunShape, RunFields
<1> HIDE DEF links, linked, rows, todo
<1>4. Aside(s)
  BY <1>3 DEF RunShape, Aside
<1>5. /\ HoldsFile(s) /\ run'[s].pc = "linking" /\ run'[s].source = run[s].source
      /\ run'[s].todo = todo /\ run'[s].linked = linked /\ run'[s].installed = rows
  BY <1>2, <1>3 DEF RunShape, RunFields, HoldsFile
<1>6. /\ conf'.links = links /\ conf'.claude = conf.claude
      /\ conf'.known = conf.known /\ conf'.installed = conf.installed
  BY <1>2 DEF ConfFields
<1> QED BY <1>2, <1>4, <1>5, <1>6 DEF links, linked, rows, todo

LEMMA SavesEffect ==
    ASSUME RunShape, NEW s \in Sessions, AgentSaves(s)
    PROVE  Aside(s) /\ Holds(s) /\ run'[s].pc = "running" /\ run[s].pc = "running"
BY DEF RunShape, RunFields, AgentSaves, Aside, Holds, HoldsFile, HoldsLinks

LEMMA StartEffect ==
    ASSUME RunShape, NEW s \in Sessions, AgentStarts(s)
    PROVE  Aside(s) /\ Holds(s) /\ run'[s].pc = "running" /\ run[s].pc = "starting"
<1> DEFINE env == IF conf.settings = NoFile THEN NoFile ELSE conf.settings.env
<1>1. run' = [run EXCEPT ![s].pc = "running", ![s].env = env] /\ run[s].pc = "starting"
  BY DEF AgentStarts
<1> HIDE DEF env
<1> QED BY <1>1 DEF RunShape, RunFields, Aside, Holds, HoldsFile, HoldsLinks

LEMMA TableOver ==
    ASSUME NEW servers \in CarriedServers, NEW table \in ServerTables
    PROVE  Over(servers, table) \in ServerTables
<1> DEFINE names == UNION {DOMAIN f : f \in CarriedServers}
           values == UNION {Range(f) : f \in CarriedServers}
           K == DOMAIN servers \cup DOMAIN table
<1>1. PICK L \in SUBSET names : table \in [L -> values]
  BY DEF ServerTables
<1>2. DOMAIN servers \subseteq names /\ \A k \in DOMAIN servers : servers[k] \in values
  BY DEF Range
<1> HIDE DEF names, values
<1>3. K \in SUBSET names /\ DOMAIN table = L
  BY <1>1, <1>2
<1>4. Over(servers, table) \in [K -> values]
  <2>1. \A k \in K : (IF k \in DOMAIN servers THEN servers[k] ELSE table[k]) \in values
    BY <1>1, <1>2, <1>3
  <2> QED BY <2>1 DEF Over
<1> HIDE DEF K
<1> QED BY <1>3, <1>4 DEF ServerTables, names, values

LEMMA NoTable == Empty \in ServerTables
<1> DEFINE names == UNION {DOMAIN f : f \in CarriedServers}
           values == UNION {Range(f) : f \in CarriedServers}
<1>1. ServerTables = UNION {[K -> values] : K \in SUBSET names}
  BY DEF ServerTables
<1> HIDE DEF names, values
<1>2. Empty \in [{} -> values] /\ {} \in SUBSET names
  BY DEF Empty
<1> QED BY <1>1, <1>2

\* The rewriting keeps what the agents keep.
LEMMA Injected ==
    ASSUME NEW existing, Legal(existing), NEW source \in Sources,
           NEW new, new = InjectMcpServers(existing, McpServersOf(source))
    PROVE  new # NoFile /\ Legal(new) /\ OwnState(new) = OwnState(existing)
<1> DEFINE servers == McpServersOf(source)
           kept == IF existing = NoFile THEN Empty ELSE existing
           table == Over(servers, Field(kept, "mcpServers"))
<1>1. servers \in CarriedServers
  BY DEF CarriedServers, Sources
<1>2. new = Over([mcpServers |-> table], kept)
  BY DEF InjectMcpServers
<1>3. Field(kept, "mcpServers") \in ServerTables
  <2>1. CASE existing = NoFile
    <3>1. "mcpServers" \notin DOMAIN kept
      BY <2>1 DEF Empty
    <3> QED BY <3>1, NoTable DEF Field
  <2>2. CASE existing # NoFile
    <3>1. kept = existing /\ existing \in ClaudeFiles
      BY <2>2 DEF Legal
    <3>2. "mcpServers" \in DOMAIN existing => existing["mcpServers"] \in ServerTables
      BY <3>1 DEF ClaudeFiles
    <3> QED BY <3>1, <3>2, NoTable DEF Field
  <2> QED BY <2>1, <2>2
<1>4. table \in ServerTables
  BY <1>1, <1>3, TableOver
<1> HIDE DEF table
<1>5. CASE existing = NoFile \/ existing \in [mcpServers : ServerTables]
  <2>1. DOMAIN kept \subseteq {"mcpServers"}
    BY <1>5 DEF Empty
  <2>2. new = [mcpServers |-> table]
    BY <1>2, <2>1 DEF Over
  <2>3. new \in [mcpServers : ServerTables] /\ "history" \notin DOMAIN new
    BY <1>4, <2>2
  <2>4. new \in ClaudeFiles /\ new # NoFile
    BY <2>3, ClaudeAssumption DEF ClaudeFiles
  <2>5. OwnState(new) = {} /\ OwnState(existing) = {}
    BY <1>5, <2>3 DEF OwnState
  <2> QED BY <2>4, <2>5 DEF Legal
<1>6. CASE /\ existing # NoFile
           /\ existing \in [history : SUBSET Sessions] \cup [history : SUBSET Sessions, mcpServers : ServerTables]
  <2>1. /\ kept = existing /\ "history" \in DOMAIN existing /\ existing.history \in SUBSET Sessions
        /\ DOMAIN existing \subseteq {"history", "mcpServers"}
    BY <1>6
  <2>2. new = [history |-> existing.history, mcpServers |-> table]
    BY <1>2, <2>1 DEF Over
  <2>3. new \in [history : SUBSET Sessions, mcpServers : ServerTables]
        /\ "history" \in DOMAIN new /\ new.history = existing.history
    BY <1>4, <2>1, <2>2
  <2>4. new \in ClaudeFiles /\ new # NoFile
    BY <2>3, ClaudeAssumption DEF ClaudeFiles
  <2>5. OwnState(new) = existing.history /\ OwnState(existing) = existing.history
    BY <1>6, <2>1, <2>3, <2>4 DEF OwnState
  <2> QED BY <2>4, <2>5 DEF Legal
<1> QED BY <1>5, <1>6 DEF Legal, ClaudeFiles

\* An agent that saves adds itself to what is kept.
LEMMA SavedMore ==
    ASSUME NEW claude, Legal(claude), NEW s \in Sessions, NEW new,
           new = Over([history |-> OwnState(claude) \cup {s}], IF claude = NoFile THEN Empty ELSE claude)
    PROVE  Legal(new) /\ OwnState(new) = OwnState(claude) \cup {s}
<1> DEFINE kept == IF claude = NoFile THEN Empty ELSE claude
           history == OwnState(claude) \cup {s}
<1>1. new = Over([history |-> history], kept)
  OBVIOUS
<1>2. history \in SUBSET Sessions
  BY DEF OwnState, Legal, ClaudeFiles
<1> HIDE DEF history
<1>3. CASE claude = NoFile \/ claude \in [history : SUBSET Sessions]
  <2>1. DOMAIN kept \subseteq {"history"}
    BY <1>3 DEF Empty
  <2>2. new = [history |-> history]
    BY <1>1, <2>1 DEF Over
  <2>3. new \in ClaudeFiles /\ "history" \in DOMAIN new /\ new.history = history
    BY <1>2, <2>2 DEF ClaudeFiles
  <2>4. new # NoFile
    BY <2>3, ClaudeAssumption
  <2> QED BY <2>3, <2>4 DEF Legal, OwnState, history
<1>4. CASE /\ claude # NoFile
           /\ claude \in [mcpServers : ServerTables] \cup [history : SUBSET Sessions, mcpServers : ServerTables]
  <2>1. /\ kept = claude /\ DOMAIN claude \subseteq {"history", "mcpServers"}
        /\ "mcpServers" \in DOMAIN claude /\ claude.mcpServers \in ServerTables
    BY <1>4
  <2>2. new = [history |-> history, mcpServers |-> claude.mcpServers]
    BY <1>1, <2>1 DEF Over
  <2>3. new \in ClaudeFiles /\ "history" \in DOMAIN new /\ new.history = history
    BY <1>2, <2>1, <2>2 DEF ClaudeFiles
  <2>4. new # NoFile
    BY <2>3, ClaudeAssumption
  <2> QED BY <2>3, <2>4 DEF Legal, OwnState, history
<1> QED BY <1>3, <1>4 DEF Legal, ClaudeFiles

LEMMA RowsAppended ==
    ASSUME NEW rows, rows \in Seq(Range(rows)), IsInjective(rows), NEW entry
    PROVE  LET more == IF entry \in Range(rows) THEN rows ELSE Append(rows, entry)
           IN  /\ more \in Seq(Range(more)) /\ IsInjective(more)
               /\ Range(rows) \subseteq Range(more) /\ entry \in Range(more)
<1>1. CASE entry \in Range(rows)
  BY <1>1
<1>2. CASE entry \notin Range(rows)
  <2> DEFINE more == Append(rows, entry)
             T == Range(rows) \cup {entry}
             n == Len(rows)
  <2>1. rows \in Seq(T) /\ n \in Nat /\ DOMAIN rows = 1..n
    BY SeqMonotonic
  <2>2. more \in Seq(T) /\ Len(more) = n + 1 /\ more[n + 1] = entry /\ \A i \in 1..n : more[i] = rows[i]
    BY <2>1
  <2> HIDE DEF more, n
  <2>3. DOMAIN more = 1..n + 1
    BY <2>2
  <2>4. Range(more) = T
    BY <2>1, <2>2, <2>3 DEF Range
  <2>5. \A i \in 1..n : more[i] \in Range(rows)
    BY <2>1, <2>2 DEF Range
  <2>6. IsInjective(more)
    <3> SUFFICES ASSUME NEW i \in 1..n + 1, NEW j \in 1..n + 1, more[i] = more[j] PROVE i = j
      BY <2>3 DEF IsInjective
    <3>1. CASE i \in 1..n /\ j \in 1..n
      BY <2>1, <2>2, <3>1 DEF IsInjective
    <3>2. CASE ~(i \in 1..n /\ j \in 1..n)
      BY <1>2, <2>1, <2>2, <2>5, <3>2
    <3> QED BY <3>1, <3>2
  <2> QED BY <1>2, <2>2, <2>4, <2>6 DEF more
<1> QED BY <1>1, <1>2

\* A plugin's row is added once, and no other row is lost.
LEMMA Upserted ==
    ASSUME NEW installed, NoneTwice(installed), NEW market, NEW new, new = UpsertPluginEntry(installed, market)
    PROVE  /\ NoneTwice(new)
           /\ market.name \in DOMAIN new /\ LinkOf(market) \in Range(new[market.name])
           /\ \A m \in DOMAIN installed : m \in DOMAIN new /\ Range(installed[m]) \subseteq Range(new[m])
<1> DEFINE name == market.name
           rows == IF name \in DOMAIN installed THEN installed[name] ELSE <<>>
           entry == LinkOf(market)
           more == IF entry \in Range(rows) THEN rows ELSE Append(rows, entry)
<1>1. new = Over([m \in {name} |-> more], installed)
  BY DEF UpsertPluginEntry
<1>2. rows \in Seq(Range(rows)) /\ IsInjective(rows)
  <2>1. <<>> \in Seq(Range(<<>>)) /\ IsInjective(<<>>)
    BY DEF IsInjective
  <2> QED BY <2>1 DEF NoneTwice
<1> HIDE DEF entry
<1>3. more \in Seq(Range(more)) /\ IsInjective(more) /\ Range(rows) \subseteq Range(more) /\ entry \in Range(more)
  <2> HIDE DEF rows
  <2> QED BY <1>2, RowsAppended
<1> HIDE DEF more
<1>4. /\ DOMAIN new = DOMAIN installed \cup {name} /\ new[name] = more
      /\ \A m \in DOMAIN installed \ {name} : new[m] = installed[m]
  BY <1>1 DEF Over
<1>5. NoneTwice(new)
  BY <1>3, <1>4 DEF NoneTwice
<1>6. \A m \in DOMAIN installed : m \in DOMAIN new /\ Range(installed[m]) \subseteq Range(new[m])
  BY <1>3, <1>4
<1> QED BY <1>3, <1>4, <1>5, <1>6 DEF entry

-----------------------------------------------------------------------------
(* Each part of Directory, by what a step may do to it.                    *)

\* The launches are as they were before, but for s, which was under way.
LEMMA SoloKept ==
    ASSUME Solo, NEW s \in Sessions, Live(s), \A t \in Sessions \ {s} : run'[t].pc = run[t].pc,
           seen'.overlap = seen.overlap
    PROVE  Solo' /\ (~seen.overlap => \A t \in Sessions : Live(t) => t = s)
BY DEF Solo, Live

SaysNothing(t) == run'[t].existing = run[t].existing /\ (run'[t].pc = "read" => run[t].pc = "read")
                  /\ (run'[t].pc = "torn" <=> run[t].pc = "torn")

LEMMA SavedKept ==
    ASSUME Saved, conf'.claude = conf.claude, seen'.history = seen.history,
           seen.overlap => seen'.overlap, seen.torn => seen'.torn,
           ~seen'.overlap /\ ~seen'.torn => \A t \in Sessions : SaysNothing(t),
           \A t \in Sessions : run'[t].existing = run[t].existing
    PROVE  Saved'
BY DEF Saved, SaysNothing, OwnState

LEMMA ListedKept ==
    ASSUME Listed, conf'.installed = conf.installed, \A t \in Sessions : run'[t].installed = run[t].installed
    PROVE  Listed'
BY DEF Listed, NoneTwice

\* Whoever is linking goes on, with the links it made.
Lays(t) == /\ run'[t].linked = run[t].linked
           /\ run'[t].pc \in Unlinked => run[t].pc \in Unlinked
           /\ run'[t].pc = "linking" => run[t].pc = "linking" /\ run'[t].todo = run[t].todo
                                        /\ run'[t].installed = run[t].installed
           /\ run'[t].pc = "ready" => run[t].pc = "ready"

LEMMA LinkedKept ==
    ASSUME Linked, conf'.known = conf.known, conf'.installed = conf.installed, conf'.links = conf.links,
           places' = places, seen.overlap => seen'.overlap, \A t \in Sessions : Lays(t)
    PROVE  Linked'
<1> SUFFICES ASSUME NEW t \in Sessions
             PROVE  /\ run'[t].pc \in Unlinked => run'[t].linked = {}
                    /\ run'[t].pc = "linking" /\ ~seen'.overlap =>
                         /\ \A market \in run'[t].todo : conf'.known[market.name].path = market.dir
                         /\ \A market \in run'[t].linked : Placed(t, market, run[t].installed)'
                    /\ run'[t].pc = "ready" /\ ~seen'.overlap =>
                         \A market \in run'[t].linked : Placed(t, market, conf.installed)'
  BY DEF Linked
<1>1. run'[t].pc \in Unlinked => run'[t].linked = {}
  BY DEF Linked, Lays
<1>2. ASSUME run'[t].pc = "linking", ~seen'.overlap
      PROVE  /\ \A market \in run'[t].todo : conf'.known[market.name].path = market.dir
             /\ \A market \in run'[t].linked : Placed(t, market, run[t].installed)'
  BY <1>2 DEF Linked, Lays, Placed
<1>3. ASSUME run'[t].pc = "ready", ~seen'.overlap
      PROVE  \A market \in run'[t].linked : Placed(t, market, conf.installed)'
  BY <1>3 DEF Linked, Lays, Placed
<1> QED BY <1>1, <1>2, <1>3

\* A step of s that changes neither what the agents keep nor the plugins.
LEMMA PassingKeeps ==
    ASSUME Directory, NEW s \in Sessions, Live(s), Aside(s), HoldsFile(s), HoldsLinks(s),
           run'[s].pc \notin {"idle", "resolved"} => run'[s].source \in Sources,
           run'[s].pc \in {"opened", "settled", "carried", "starting", "running", "ended"},
           run[s].pc = "torn" => FALSE,
           run'[s].pc \in Unlinked => run[s].pc \in Unlinked,
           UNCHANGED <<seen, places>>,
           conf'.claude = conf.claude, conf'.known = conf.known,
           conf'.installed = conf.installed, conf'.links = conf.links
    PROVE  Directory'
<1>1. Solo'
  BY SoloKept DEF Directory, Aside
<1>2. Sourced'
  BY DEF Directory, Sourced, Aside
<1>3. \A t \in Sessions : SaysNothing(t) /\ run'[t].existing = run[t].existing
  BY DEF SaysNothing, Aside, HoldsFile
<1>4. Saved'
  BY <1>3, SavedKept DEF Directory
<1>5. Listed'
  BY ListedKept DEF Directory, Aside, HoldsLinks
<1>6. \A t \in Sessions : Lays(t)
  BY DEF Lays, Aside, HoldsLinks
<1>7. Linked'
  BY <1>6, LinkedKept DEF Directory
<1> QED BY <1>1, <1>2, <1>4, <1>5, <1>7 DEF Directory

LEMMA ResolveKeepsDirectory ==
    ASSUME Shape, Directory, NEW s \in Sessions, NEW m \in Models, Resolve(s, m)
    PROVE  Directory'
<1>1. Aside(s) /\ Holds(s) /\ run'[s].pc = "resolved" /\ run[s].pc = "idle"
  BY ResolveEffect DEF Shape
<1>2. conf' = conf /\ places' = places /\ seen' = [seen EXCEPT !.overlap = @ \/ \E t \in Sessions : Live(t)]
  BY DEF Resolve
<1> DEFINE over == seen.overlap \/ \E t \in Sessions : Live(t)
<1>3. /\ DOMAIN seen' = SeenFields /\ seen'.overlap = over
      /\ seen'.torn = seen.torn /\ seen'.history = seen.history
  <2>1. seen' = [seen EXCEPT !.overlap = over]
    BY <1>2
  <2> HIDE DEF over
  <2> QED BY <2>1 DEF Directory, SeenFields
<1>4. Solo'
  BY <1>1, <1>3 DEF Solo, Live, Aside
<1>5. Sourced'
  BY <1>1 DEF Directory, Sourced, Aside
<1>6. \A t \in Sessions : SaysNothing(t) /\ run'[t].existing = run[t].existing
  BY <1>1 DEF SaysNothing, Aside, Holds, HoldsFile
<1>7. Saved'
  BY <1>2, <1>3, <1>6, SavedKept DEF Directory
<1>8. Listed'
  BY <1>1, <1>2, ListedKept DEF Directory, Aside, Holds, HoldsLinks
<1>9. \A t \in Sessions : Lays(t)
  BY <1>1 DEF Lays, Aside, Holds, HoldsLinks, Unlinked
<1>10. Linked'
  BY <1>2, <1>3, <1>9, LinkedKept DEF Directory
<1> QED BY <1>3, <1>4, <1>5, <1>7, <1>8, <1>10 DEF Directory

LEMMA PassingKeepsDirectory ==
    ASSUME Shape, Directory, NEW s \in Sessions,
           \/ OpenSettings(s) \/ WriteSettings(s) \/ PrintOnly(s) \/ Bridge(s) \/ AgentStarts(s) \/ AgentExits(s)
    PROVE  Directory'
<1>0. RunShape /\ DOMAIN conf = ConfFields
  BY DEF Shape
<1>1. CASE OpenSettings(s)
  <2>1. UNCHANGED <<seen, places>> /\ run[s].pc = "resolved"
    BY <1>1 DEF OpenSettings, UnchangedButSession
  <2>2. /\ conf'.claude = conf.claude /\ conf'.known = conf.known
        /\ conf'.installed = conf.installed /\ conf'.links = conf.links
    BY <1>0, <1>1 DEF OpenSettings, ConfFields
  <2>3. ReadUserSettings(user) \in Sources
    BY DEF Shape, Sources
  <2> QED BY <1>0, <1>1, <2>1, <2>2, <2>3, OpenEffect, PassingKeeps DEF Live, Unlinked
<1>2. CASE WriteSettings(s)
  <2>1. UNCHANGED <<seen, places>> /\ run[s].pc = "opened"
    BY <1>2 DEF WriteSettings, UnchangedButSession
  <2>2. /\ conf'.claude = conf.claude /\ conf'.known = conf.known
        /\ conf'.installed = conf.installed /\ conf'.links = conf.links
    BY <1>0, <1>2 DEF WriteSettings, ConfFields
  <2>3. Aside(s) /\ Holds(s) /\ run'[s].pc \in {"carried", "settled"}
    BY <1>0, <1>2, WriteEffect
  <2>4. run'[s].source \in Sources
    BY <2>1, <2>3 DEF Holds, Directory, Sourced
  <2> QED BY <2>1, <2>2, <2>3, <2>4, PassingKeeps DEF Live, Unlinked, Holds
<1>3. CASE PrintOnly(s) \/ Bridge(s) \/ AgentExits(s)
  <2>1. UNCHANGED <<seen, places, conf>> /\ run[s].pc \in {"ready", "running"}
    BY <1>3 DEF PrintOnly, Bridge, AgentExits, UnchangedButSession
  <2>2. Aside(s) /\ Holds(s) /\ run'[s].pc \in {"starting", "ended"}
    BY <1>0, <1>3, PlainEffect DEF PrintOnly, Bridge, AgentExits
  <2>3. run'[s].source \in Sources
    BY <2>1, <2>2 DEF Holds, Directory, Sourced
  <2> QED BY <2>1, <2>2, <2>3, PassingKeeps DEF Live, Unlinked, Holds
<1>4. CASE AgentStarts(s)
  <2>1. UNCHANGED <<seen, places, conf>>
    BY <1>4 DEF AgentStarts, UnchangedButSession
  <2>2. Aside(s) /\ Holds(s) /\ run'[s].pc = "running" /\ run[s].pc = "starting"
    BY <1>0, <1>4, StartEffect
  <2>3. run'[s].source \in Sources
    BY <2>2 DEF Holds, Directory, Sourced
  <2> QED BY <2>1, <2>2, <2>3, PassingKeeps DEF Live, Unlinked, Holds
<1> QED BY <1>1, <1>2, <1>3, <1>4

\* A step of s, while it carries the servers in, that leaves the plugins alone.
LEMMA CarryingKeeps ==
    ASSUME Directory, NEW s \in Sessions, Live(s), Aside(s), HoldsLinks(s),
           run'[s].source = run[s].source, run[s].pc \in {"settled", "read", "torn"},
           run'[s].pc \in {"read", "torn", "carried"}, UNCHANGED <<seen, places>>,
           conf'.known = conf.known, conf'.installed = conf.installed, conf'.links = conf.links,
           Saved'
    PROVE  Directory'
<1>1. Solo'
  BY SoloKept DEF Directory, Aside
<1>2. Sourced'
  BY DEF Directory, Sourced, Aside
<1>3. Listed'
  BY ListedKept DEF Directory, Aside, HoldsLinks
<1>4. \A t \in Sessions : Lays(t)
  BY DEF Lays, Aside, HoldsLinks, Unlinked
<1>5. Linked'
  BY <1>4, LinkedKept DEF Directory
<1> QED BY <1>1, <1>2, <1>3, <1>5 DEF Directory

LEMMA ReadKeepsDirectory ==
    ASSUME Shape, Directory, NEW s \in Sessions, ReadClaudeJson(s)
    PROVE  Directory'
<1>1. /\ Aside(s) /\ HoldsLinks(s) /\ run'[s].pc = "read" /\ run[s].pc = "settled"
      /\ run'[s].source = run[s].source /\ run'[s].existing = conf.claude
  BY ReadEffect DEF Shape
<1>2. UNCHANGED <<seen, places, conf>>
  BY DEF ReadClaudeJson, UnchangedButSession
<1>3. Saved'
  <2>1. Legal(conf.claude)' /\ \A t \in Sessions : Legal(run'[t].existing)
    BY <1>1, <1>2 DEF Directory, Saved, Legal, Aside
  <2>2. (\A t \in Sessions : run'[t].pc # "torn") => \A t \in Sessions : run[t].pc # "torn"
    BY <1>1 DEF Aside
  <2>3. ASSUME ~seen.overlap, ~seen.torn
        PROVE  /\ \A t \in Sessions : run'[t].pc = "read" => run'[t].existing = conf'.claude
               /\ \A t \in Sessions : run'[t].pc = "torn" => seen'.history \subseteq OwnState(run'[t].existing)
               /\ (\A t \in Sessions : run'[t].pc # "torn") => seen'.history \subseteq OwnState(conf'.claude)
    BY <1>1, <1>2, <2>2, <2>3 DEF Directory, Saved, Aside
  <2> QED BY <1>2, <2>1, <2>3 DEF Saved, Legal
<1> QED BY <1>1, <1>2, <1>3, CarryingKeeps DEF Live

LEMMA OpenClaudeKeepsDirectory ==
    ASSUME Shape, Directory, NEW s \in Sessions, OpenClaudeJson(s)
    PROVE  Directory'
<1>1. /\ Aside(s) /\ Holds(s) /\ run'[s].pc = "torn" /\ run[s].pc = "read"
  BY PlainEffect DEF Shape, OpenClaudeJson
<1>2. UNCHANGED <<seen, places>>
  BY DEF OpenClaudeJson, UnchangedButSession
<1>3. /\ conf'.claude = NoFile /\ conf'.known = conf.known
      /\ conf'.installed = conf.installed /\ conf'.links = conf.links
  BY DEF OpenClaudeJson, Shape, ConfFields
<1>4. ~seen.overlap => \A t \in Sessions : Live(t) => t = s
  BY <1>1, SoloKept DEF Directory, Aside, Live, Solo
<1>5. Saved'
  <2>1. Legal(conf.claude)' /\ \A t \in Sessions : Legal(run'[t].existing)
    BY <1>1, <1>3 DEF Directory, Saved, Legal, Aside, Holds, HoldsFile
  <2>2. ASSUME ~seen.overlap, ~seen.torn
        PROVE  seen.history \subseteq OwnState(run[s].existing)
    <3>1. \A t \in Sessions : run[t].pc # "torn"
      BY <1>1, <1>4, <2>2 DEF Live
    <3> QED BY <1>1, <2>2, <3>1 DEF Directory, Saved
  <2>3. ASSUME ~seen.overlap, ~seen.torn, NEW t \in Sessions
        PROVE  /\ run'[t].pc # "read"
               /\ run'[t].pc = "torn" => t = s
    BY <1>1, <1>4, <2>3 DEF Live, Aside
  <2>4. run'[s].existing = run[s].existing /\ seen'.history = seen.history
    BY <1>1, <1>2 DEF Holds, HoldsFile
  <2>5. ASSUME ~seen.overlap, ~seen.torn
        PROVE  /\ \A t \in Sessions : run'[t].pc = "read" => run'[t].existing = conf'.claude
               /\ \A t \in Sessions : run'[t].pc = "torn" => seen'.history \subseteq OwnState(run'[t].existing)
               /\ (\A t \in Sessions : run'[t].pc # "torn") => seen'.history \subseteq OwnState(conf'.claude)
    BY <1>1, <2>2, <2>3, <2>4, <2>5
  <2> QED BY <1>2, <2>1, <2>5 DEF Saved, Legal
<1> QED BY <1>1, <1>2, <1>3, <1>5, CarryingKeeps DEF Live, Holds

LEMMA WriteClaudeKeepsDirectory ==
    ASSUME Shape, Directory, NEW s \in Sessions, WriteClaudeJson(s)
    PROVE  Directory'
<1> DEFINE new == InjectMcpServers(run[s].existing, McpServersOf(run[s].source))
<1>1. /\ Aside(s) /\ Holds(s) /\ run'[s].pc = "carried" /\ run[s].pc = "torn"
  BY PlainEffect DEF Shape, WriteClaudeJson
<1>2. UNCHANGED <<seen, places>>
  BY DEF WriteClaudeJson, UnchangedButSession
<1>3. /\ conf'.claude = new /\ conf'.known = conf.known
      /\ conf'.installed = conf.installed /\ conf'.links = conf.links
  BY DEF WriteClaudeJson, Shape, ConfFields
<1>4. ~seen.overlap => \A t \in Sessions : Live(t) => t = s
  BY <1>1, SoloKept DEF Directory, Aside, Live, Solo
<1>5. Legal(new) /\ OwnState(new) = OwnState(run[s].existing)
  <2>1. run[s].source \in Sources /\ Legal(run[s].existing)
    BY <1>1 DEF Directory, Sourced, Saved
  <2> QED BY <2>1, Injected
<1> HIDE DEF new
<1>6. Saved'
  <2>1. Legal(conf.claude)' /\ \A t \in Sessions : Legal(run'[t].existing)
    BY <1>1, <1>3, <1>5 DEF Directory, Saved, Legal, Aside, Holds, HoldsFile
  <2>2. ASSUME ~seen.overlap, ~seen.torn
        PROVE  seen.history \subseteq OwnState(conf'.claude)
    BY <1>1, <1>3, <1>5, <2>2 DEF Directory, Saved
  <2>3. ASSUME ~seen.overlap, ~seen.torn, NEW t \in Sessions
        PROVE  run'[t].pc # "read" /\ run'[t].pc # "torn"
    BY <1>1, <1>4, <2>3 DEF Live, Aside
  <2> QED BY <1>2, <2>1, <2>2, <2>3 DEF Saved, Legal
<1> QED BY <1>1, <1>2, <1>3, <1>6, CarryingKeeps DEF Live, Holds

\* A launch that is killed while it has .claude.json truncated leaves it torn.
LEMMA KilledKeepsDirectory ==
    ASSUME Shape, Directory, NEW s \in Sessions, Killed(s)
    PROVE  Directory'
<1>1. Aside(s) /\ Holds(s) /\ run'[s].pc = "ended" /\ Live(s)
  BY PlainEffect DEF Shape, Killed
<1>2. UNCHANGED <<conf, places>>
  BY DEF Killed, UnchangedButSession
<1> DEFINE torn == seen.torn \/ run[s].pc = "torn"
<1>3. /\ DOMAIN seen' = SeenFields /\ seen'.overlap = seen.overlap
      /\ seen'.torn = torn /\ seen'.history = seen.history
  <2>1. seen' = [seen EXCEPT !.torn = torn]
    BY DEF Killed
  <2> HIDE DEF torn
  <2> QED BY <2>1 DEF Directory, SeenFields
<1>4. Solo'
  BY <1>1, <1>3, SoloKept DEF Directory, Aside
<1>5. Sourced'
  BY <1>1 DEF Directory, Sourced, Aside
<1>6. \A t \in Sessions : run'[t].existing = run[t].existing
  BY <1>1 DEF Aside, Holds, HoldsFile
<1>7. ~seen'.torn => \A t \in Sessions : SaysNothing(t)
  BY <1>1, <1>3, <1>6 DEF SaysNothing, Aside
<1>8. Saved'
  <2> HIDE DEF torn
  <2>1. seen.torn => seen'.torn
    BY <1>3 DEF torn
  <2> QED BY <1>2, <1>3, <1>6, <1>7, <2>1, SavedKept DEF Directory
<1>9. Listed'
  BY <1>1, <1>2, ListedKept DEF Directory, Aside, Holds, HoldsLinks
<1>10. \A t \in Sessions : Lays(t)
  BY <1>1 DEF Lays, Aside, Holds, HoldsLinks, Unlinked
<1>11. Linked'
  BY <1>2, <1>3, <1>10, LinkedKept DEF Directory
<1> QED BY <1>3, <1>4, <1>5, <1>8, <1>9, <1>11 DEF Directory

\* An agent that saves is the only one under way, or two were.
LEMMA AgentSavesKeepsDirectory ==
    ASSUME Shape, Directory, NEW s \in Sessions, AgentSaves(s)
    PROVE  Directory'
<1> DEFINE new == Over([history |-> OwnState(conf.claude) \cup {s}],
                       IF conf.claude = NoFile THEN Empty ELSE conf.claude)
           history == seen.history \cup {s}
<1>1. Aside(s) /\ Holds(s) /\ run'[s].pc = "running" /\ run[s].pc = "running" /\ Live(s)
  BY SavesEffect DEF Shape, Live
<1>2. UNCHANGED places /\ conf' = [conf EXCEPT !.claude = new] /\ seen' = [seen EXCEPT !.history = history]
  BY DEF AgentSaves, UnchangedButSession
<1>3. Legal(new) /\ OwnState(new) = OwnState(conf.claude) \cup {s}
  BY SavedMore DEF Directory, Saved
<1> HIDE DEF new, history
<1>4. /\ DOMAIN seen' = SeenFields /\ seen'.overlap = seen.overlap
      /\ seen'.torn = seen.torn /\ seen'.history = history
  BY <1>2 DEF Directory, SeenFields
<1>5. /\ conf'.claude = new /\ conf'.known = conf.known
      /\ conf'.installed = conf.installed /\ conf'.links = conf.links
  BY <1>2 DEF Shape, ConfFields
<1>6. Solo' /\ (~seen.overlap => \A t \in Sessions : Live(t) => t = s)
  BY <1>1, <1>4, SoloKept DEF Directory, Aside
<1>7. Sourced'
  BY <1>1 DEF Directory, Sourced, Aside, Holds
<1>8. Saved'
  <2>1. Legal(conf.claude)' /\ \A t \in Sessions : Legal(run'[t].existing)
    BY <1>1, <1>3, <1>5 DEF Directory, Saved, Legal, Aside, Holds, HoldsFile
  <2>2. ASSUME ~seen.overlap, NEW t \in Sessions
        PROVE  /\ run'[t].pc # "read" /\ run'[t].pc # "torn"
               /\ run[t].pc # "torn"
    BY <1>1, <1>6, <2>2 DEF Live, Aside
  <2>3. ASSUME ~seen.overlap, ~seen.torn
        PROVE  history \subseteq OwnState(conf'.claude)
    <3>1. seen.history \subseteq OwnState(conf.claude)
      BY <2>2, <2>3 DEF Directory, Saved
    <3> QED BY <1>3, <1>5, <3>1 DEF history
  <2> QED BY <1>4, <2>1, <2>2, <2>3 DEF Saved, Legal
<1>9. Listed'
  BY <1>1, <1>5, ListedKept DEF Directory, Aside, Holds, HoldsLinks
<1>10. \A t \in Sessions : Lays(t)
  BY <1>1 DEF Lays, Aside, Holds, HoldsLinks
<1>11. Linked'
  BY <1>2, <1>4, <1>5, <1>10, LinkedKept DEF Directory
<1> QED BY <1>4, <1>6, <1>7, <1>8, <1>9, <1>11 DEF Directory

\* A step of s over the plugins: only its own links are left to be looked at.
LinkedAt(s) ==
    /\ run[s].pc = "linking" =>
         /\ \A market \in run[s].todo : conf.known[market.name].path = market.dir
         /\ \A market \in run[s].linked : Placed(s, market, run[s].installed)
    /\ run[s].pc = "ready" => \A market \in run[s].linked : Placed(s, market, conf.installed)

LEMMA LinkingKeeps ==
    ASSUME Directory, NEW s \in Sessions, Aside(s), HoldsFile(s), run'[s].source = run[s].source,
           run[s].pc \in {"carried", "linking"}, run'[s].pc \in {"linking", "ready"},
           UNCHANGED seen, conf'.claude = conf.claude, Listed', ~seen.overlap => LinkedAt(s)'
    PROVE  Directory'
<1>1. Live(s)
  BY DEF Live
<1>2. Solo' /\ (~seen.overlap => \A t \in Sessions : Live(t) => t = s)
  BY <1>1, SoloKept DEF Directory, Aside
<1>3. Sourced'
  BY DEF Directory, Sourced, Aside
<1>4. \A t \in Sessions : SaysNothing(t) /\ run'[t].existing = run[t].existing
  BY DEF SaysNothing, Aside, HoldsFile
<1>5. Saved'
  BY <1>4, SavedKept DEF Directory
<1>6. Linked'
  <2> SUFFICES ASSUME NEW t \in Sessions
               PROVE  /\ run'[t].pc \in Unlinked => run'[t].linked = {}
                      /\ run'[t].pc = "linking" /\ ~seen'.overlap =>
                           /\ \A market \in run'[t].todo : conf'.known[market.name].path = market.dir
                           /\ \A market \in run'[t].linked : Placed(t, market, run[t].installed)'
                      /\ run'[t].pc = "ready" /\ ~seen'.overlap =>
                           \A market \in run'[t].linked : Placed(t, market, conf.installed)'
    BY DEF Linked
  <2>1. CASE t = s
    BY <2>1 DEF Unlinked, LinkedAt
  <2>2. CASE t # s
    <3>1. run'[t].pc = run[t].pc /\ run'[t].linked = run[t].linked
      BY <2>2 DEF Aside
    <3>2. run'[t].pc \in {"linking", "ready"} => seen.overlap
      BY <1>2, <2>2, <3>1 DEF Live
    <3> QED BY <3>1, <3>2 DEF Directory, Linked
  <2> QED BY <2>1, <2>2
<1> QED BY <1>2, <1>3, <1>5, <1>6 DEF Directory

LEMMA WriteInstalledKeepsDirectory ==
    ASSUME Shape, Directory, NEW s \in Sessions, WriteInstalled(s)
    PROVE  Directory'
<1>1. Aside(s) /\ Holds(s) /\ run'[s].pc = "ready" /\ run[s].pc = "linking"
  BY PlainEffect DEF Shape, WriteInstalled
<1>2. UNCHANGED <<seen, places>>
  BY DEF WriteInstalled, UnchangedButSession
<1>3. /\ conf'.installed = run[s].installed /\ conf'.known = conf.known
      /\ conf'.claude = conf.claude /\ conf'.links = conf.links
  BY DEF WriteInstalled, Shape, ConfFields
<1>4. Listed'
  BY <1>1, <1>3 DEF Directory, Listed, NoneTwice, Aside, Holds, HoldsLinks
<1>5. ~seen.overlap => LinkedAt(s)'
  BY <1>1, <1>2, <1>3 DEF Directory, Linked, LinkedAt, Placed, Holds, HoldsLinks
<1> QED BY <1>1, <1>2, <1>3, <1>4, <1>5, LinkingKeeps DEF Holds

LEMMA LinkKeepsDirectory ==
    ASSUME Shape, Directory, NEW s \in Sessions, LinkPlugin(s)
    PROVE  Directory'
<1>0. RunShape /\ DOMAIN conf = ConfFields /\ UNCHANGED <<seen, places>>
  BY DEF Shape, LinkPlugin, UnchangedButSession
<1>1. PICK market \in run[s].todo :
        LET path == LinkOf(market)
            resolves == path \in DOMAIN conf.links /\ conf.links[path] \in places
            there == market.dir \in places
        IN  /\ Aside(s) /\ HoldsFile(s) /\ run'[s].pc = "linking" /\ run[s].pc = "linking"
            /\ run'[s].source = run[s].source
            /\ run'[s].todo = run[s].todo \ {market}
            /\ run'[s].linked = IF there THEN run[s].linked \cup {market} ELSE run[s].linked
            /\ run'[s].installed = IF there THEN UpsertPluginEntry(run[s].installed, market)
                                   ELSE run[s].installed
            /\ conf'.links = IF ~there \/ resolves THEN conf.links
                             ELSE Over([p \in {path} |-> market.dir], conf.links)
            /\ conf'.claude = conf.claude /\ conf'.known = conf.known /\ conf'.installed = conf.installed
  BY <1>0, LinkEffect, Zenon
<1> DEFINE path == LinkOf(market)
           resolves == path \in DOMAIN conf.links /\ conf.links[path] \in places
           there == market.dir \in places
           rows == UpsertPluginEntry(run[s].installed, market)
<1>2. /\ Aside(s) /\ HoldsFile(s) /\ run'[s].pc = "linking" /\ run[s].pc = "linking"
      /\ run'[s].source = run[s].source /\ run'[s].todo = run[s].todo \ {market}
      /\ conf'.claude = conf.claude /\ conf'.known = conf.known /\ conf'.installed = conf.installed
  BY <1>1
<1>3. there => /\ run'[s].linked = run[s].linked \cup {market} /\ run'[s].installed = rows
               /\ resolves => conf'.links = conf.links
               /\ ~resolves => conf'.links = Over([p \in {path} |-> market.dir], conf.links)
  BY <1>1
<1>4. ~there => /\ run'[s].linked = run[s].linked /\ run'[s].installed = run[s].installed
                /\ conf'.links = conf.links
  BY <1>1
<1>5. NoneTwice(run[s].installed)
  BY DEF Directory, Listed
<1>6. /\ NoneTwice(rows) /\ market.name \in DOMAIN rows /\ LinkOf(market) \in Range(rows[market.name])
      /\ \A m \in DOMAIN run[s].installed : m \in DOMAIN rows /\ Range(run[s].installed[m]) \subseteq Range(rows[m])
  <2> DEFINE installed == run[s].installed
  <2>1. NoneTwice(installed) /\ rows = UpsertPluginEntry(installed, market)
    BY <1>5
  <2> HIDE DEF rows, installed
  <2>2. /\ NoneTwice(rows) /\ market.name \in DOMAIN rows /\ LinkOf(market) \in Range(rows[market.name])
        /\ \A m \in DOMAIN installed : m \in DOMAIN rows /\ Range(installed[m]) \subseteq Range(rows[m])
    BY <2>1, Upserted
  <2> QED BY <2>2 DEF installed
<1> HIDE DEF rows, path
<1>7. Listed'
  <2>1. NoneTwice(run'[s].installed)
    BY <1>3, <1>4, <1>5, <1>6
  <2>2. \A t \in Sessions : NoneTwice(run'[t].installed)
    BY <1>2, <2>1 DEF Directory, Listed, Aside
  <2> QED BY <1>2, <2>2 DEF Directory, Listed, NoneTwice
<1>8. ASSUME ~seen.overlap PROVE LinkedAt(s)'
  <2>1. /\ \A other \in run[s].todo : conf.known[other.name].path = other.dir
        /\ \A other \in run[s].linked : Placed(s, other, run[s].installed)
    BY <1>2, <1>8 DEF Directory, Linked
  <2>2. \A other \in run'[s].todo : conf'.known[other.name].path = other.dir
    BY <1>2, <2>1
  <2>3. CASE ~there
    BY <1>0, <1>2, <1>4, <2>1, <2>2, <2>3 DEF LinkedAt, Placed
  <2>4. CASE there
    <3>1. /\ \A p \in DOMAIN conf.links : conf.links[p] \in places =>
               p \in DOMAIN conf'.links /\ conf'.links[p] \in places
          /\ path \in DOMAIN conf'.links /\ conf'.links[path] \in places
      BY <1>3, <2>4 DEF Over
    <3>2. ASSUME NEW other \in run[s].linked PROVE Placed(s, other, run[s].installed)'
      <4>1. Placed(s, other, run[s].installed)
        BY <2>1, <3>2
      <4> QED BY <1>0, <1>2, <1>3, <1>6, <2>4, <3>1, <4>1 DEF Placed
    <3>3. Placed(s, market, run[s].installed)'
      BY <1>0, <1>2, <1>3, <1>6, <2>1, <2>4, <3>1 DEF Placed, path
    <3>4. \A other \in run'[s].linked : Placed(s, other, run[s].installed)'
      BY <1>3, <2>4, <3>2, <3>3
    <3> QED BY <1>2, <2>2, <3>4 DEF LinkedAt
  <2> QED BY <2>3, <2>4
<1> QED BY <1>0, <1>2, <1>7, <1>8, LinkingKeeps

\* The marketplaces a launch is to link are known to the agent before.
LEMMA MarketsKnown ==
    ASSUME NEW source, NEW existing, NEW known, known = MergeKnownMarketplaces(existing, source),
           NEW market \in LocalMarketplaces(source)
    PROVE  known[market.name].path = market.dir
<1> DEFINE declared == Field(source, "extraKnownMarketplaces")
<1>1. market.name \in DOMAIN declared /\ market.dir = declared[market.name].path
  BY DEF LocalMarketplaces
<1>2. known = Over(declared, IF existing = NoFile THEN Empty ELSE existing)
  BY DEF MergeKnownMarketplaces
<1> HIDE DEF declared
<1>3. known[market.name] = declared[market.name]
  BY <1>1, <1>2 DEF Over
<1> QED BY <1>1, <1>3

LEMMA SyncKeepsDirectory ==
    ASSUME Shape, Directory, NEW s \in Sessions, SyncLocalPlugins(s)
    PROVE  Directory'
<1>0. RunShape /\ DOMAIN conf = ConfFields /\ UNCHANGED <<seen, places>> /\ run[s].pc = "carried"
  BY DEF Shape, SyncLocalPlugins, UnchangedButSession
<1>1. run[s].linked = {}
  BY <1>0 DEF Directory, Linked, Unlinked
<1>2. CASE LocalMarketplaces(run[s].source) = {}
  <2>1. Moves(s, "ready") /\ conf' = conf
    BY <1>2 DEF SyncLocalPlugins
  <2>2. Aside(s) /\ Holds(s) /\ run'[s].pc = "ready"
    BY <1>0, <2>1, PlainEffect
  <2>3. Listed'
    BY <2>1, <2>2, ListedKept DEF Directory, Aside, Holds, HoldsLinks
  <2>4. LinkedAt(s)'
    BY <1>1, <2>2 DEF LinkedAt, Holds, HoldsLinks
  <2> QED BY <1>0, <2>1, <2>2, <2>3, <2>4, LinkingKeeps DEF Holds
<1>3. CASE LocalMarketplaces(run[s].source) # {}
  <2> DEFINE source == run[s].source
             rows == IF conf.installed = NoFile THEN Empty ELSE conf.installed
             known == MergeKnownMarketplaces(conf.known, source)
  <2>1. /\ Aside(s) /\ HoldsFile(s) /\ run'[s].pc = "linking" /\ run'[s].source = source
        /\ run'[s].linked = {} /\ run'[s].todo = LocalMarketplaces(source) /\ run'[s].installed = rows
    BY <1>0, <1>1, <1>3, SyncEffect
  <2>2. conf' = [conf EXCEPT !.known = known]
    BY <1>3 DEF SyncLocalPlugins
  <2>3. NoneTwice(rows)
    BY DEF Directory, Listed, NoneTwice, Empty
  <2>4. \A market \in LocalMarketplaces(source) : known[market.name].path = market.dir
    <3> DEFINE existing == conf.known
    <3>1. known = MergeKnownMarketplaces(existing, source)
      OBVIOUS
    <3> HIDE DEF known, source, existing
    <3> QED BY <3>1, MarketsKnown
  <2> HIDE DEF known, rows
  <2>5. /\ conf'.known = known /\ conf'.claude = conf.claude
        /\ conf'.installed = conf.installed /\ conf'.links = conf.links
    BY <1>0, <2>2 DEF ConfFields
  <2>6. Listed'
    BY <2>1, <2>3, <2>5 DEF Directory, Listed, NoneTwice, Aside
  <2>7. LinkedAt(s)'
    BY <2>1, <2>4, <2>5 DEF LinkedAt
  <2> QED BY <1>0, <2>1, <2>5, <2>6, <2>7, LinkingKeeps
<1> QED BY <1>2, <1>3

LEMMA LaunchingKeepsDirectory ==
    ASSUME Shape, Directory, NEW s \in Sessions, Launching(s)
    PROVE  Directory'
<1>1. CASE \E m \in Models : Resolve(s, m)
  BY <1>1, ResolveKeepsDirectory
<1>2. CASE \/ OpenSettings(s) \/ WriteSettings(s) \/ PrintOnly(s) \/ Bridge(s) \/ AgentStarts(s) \/ AgentExits(s)
  BY <1>2, PassingKeepsDirectory
<1>3. CASE ReadClaudeJson(s) \/ OpenClaudeJson(s) \/ WriteClaudeJson(s)
  BY <1>3, ReadKeepsDirectory, OpenClaudeKeepsDirectory, WriteClaudeKeepsDirectory
<1>4. CASE SyncLocalPlugins(s) \/ LinkPlugin(s) \/ WriteInstalled(s)
  BY <1>4, SyncKeepsDirectory, LinkKeepsDirectory, WriteInstalledKeepsDirectory
<1>5. CASE Killed(s) \/ AgentSaves(s)
  BY <1>5, KilledKeepsDirectory, AgentSavesKeepsDirectory
<1> QED BY <1>1, <1>2, <1>3, <1>4, <1>5 DEF Launching

\* The launches and their directory stay, and the plugins' too, unless no launch
\* is under way.
LEMMA DirectoryStays ==
    ASSUME Directory, UNCHANGED <<run, conf>>, UNCHANGED places \/ Quiet, DOMAIN seen' = SeenFields,
           seen'.overlap = seen.overlap, seen'.torn = seen.torn, seen'.history = seen.history
    PROVE  Directory'
<1>1. Solo' /\ Sourced' /\ Listed'
  BY DEF Directory, Solo, Live, Sourced, Listed, NoneTwice
<1>2. Saved'
  BY DEF Directory, Saved, Legal, OwnState
<1>3. Linked'
  <2>1. CASE UNCHANGED places
    BY <2>1 DEF Directory, Linked, Placed
  <2>2. CASE Quiet
    BY <2>2 DEF Directory, Linked, Quiet, Unlinked
  <2> QED BY <2>1, <2>2
<1> QED BY <1>1, <1>2, <1>3 DEF Directory

LEMMA InitDirectory == Init => Directory
<1> SUFFICES ASSUME Init PROVE Directory
  OBVIOUS
<1>1. \A s \in Sessions : /\ run[s].pc = "idle" /\ run[s].existing = NoFile
                          /\ run[s].linked = {} /\ run[s].installed = Empty
  BY DEF Init, IdleRun
<1>2. /\ conf.claude = NoFile /\ conf.installed = NoFile
      /\ DOMAIN seen = SeenFields /\ ~seen.torn /\ seen.history = {}
  BY DEF Init, SeenFields
<1>3. NoneTwice(Empty)
  BY DEF NoneTwice, Empty
<1> QED BY <1>1, <1>2, <1>3 DEF Directory, Solo, Live, Sourced, Saved, Legal, Listed, Linked

LEMMA NextKeepsDirectory == Shape /\ Directory /\ [Next]_vars => Directory'
<1> SUFFICES ASSUME Shape, Directory, [Next]_vars PROVE Directory'
  OBVIOUS
<1>1. CASE \E s \in Sessions : Launching(s)
  BY <1>1, LaunchingKeepsDirectory
<1>2. CASE StepSucceeds
  <2>1. UNCHANGED <<run, conf, places>>
    BY <1>2 DEF StepSucceeds, UnchangedButEngine
  <2>2. \E verified : seen' = [seen EXCEPT !.verified = verified] \/ seen' = seen
    BY <1>2 DEF StepSucceeds
  <2>3. /\ DOMAIN seen' = SeenFields /\ seen'.overlap = seen.overlap
        /\ seen'.torn = seen.torn /\ seen'.history = seen.history
    BY <2>2 DEF Directory, SeenFields
  <2> QED BY <2>1, <2>3, DirectoryStays
<1>3. CASE \/ IntegrateHermes \/ (\E pin \in Commits \cup {None} : StartBuild(pin))
           \/ StepFails \/ DoctorBegins \/ DoctorChecks \/ UserEdits
           \/ HermesEdited \/ EditRegistry \/ ReplaceServer \/ UpstreamMoves \/ UNCHANGED vars
  <2>1. UNCHANGED <<run, conf, seen>> /\ (UNCHANGED places \/ Quiet)
    BY <1>3 DEF IntegrateHermes, StartBuild, StepFails, DoctorBegins, DoctorChecks, UserEdits,
                HermesEdited, EditRegistry, ReplaceServer, UpstreamMoves, UnchangedButEngine, vars
  <2> QED BY <2>1, DirectoryStays DEF Directory
<1> QED BY <1>1, <1>2, <1>3 DEF Next

\* What a launch leaves in the directory the agents share: what they kept in
\* .claude.json is still there when nobody wrote beside it and none was killed
\* in its write, and the plugins of a lone launch resolve, known and registered
\* once (AgentDirectoryKept); for any number of launches, users' files and
\* plugin directories.  It is inductive with what the launch under way holds:
\* the file it read before it truncated, and the rows it has not written yet.
THEOREM AgentDirectoryKeptAlways == Spec => []AgentDirectoryKept
<1>1. Directory => AgentDirectoryKept
  <2> SUFFICES ASSUME Directory PROVE ClaudeStateKept /\ PluginsResolve
    BY DEF AgentDirectoryKept
  <2>1. ClaudeStateKept
    BY DEF Directory, Saved, ClaudeStateKept
  <2>2. PluginsResolve
    BY DEF Directory, Listed, Linked, NoneTwice, Placed, PluginsResolve
  <2> QED BY <2>1, <2>2
<1>2. Init => Shape /\ Declared /\ Directory
  BY InitDeclared, InitDirectory
<1>3. Shape /\ Declared /\ Directory /\ [Next]_vars => (Shape /\ Declared /\ Directory)'
  BY NextKeepsDeclared, NextKeepsDirectory
<1> QED BY <1>1, <1>2, <1>3, PTL DEF Spec
=============================================================================
