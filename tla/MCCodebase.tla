----------------------------- MODULE MCCodebase -----------------------------
(***************************************************************************)
(* Instances of Codebase for TLC: one file that is written, one that       *)
(* declares what it calls, and one that may declare it too.                *)
(***************************************************************************)
EXTENDS Codebase

MCNames == {"run", "make", "Part", "parts", "other", "tests", "covers"}
MCStem == ("app" :> "app") @@ ("parts" :> "parts") @@ ("other" :> "other")

Call == <<"make", "(", ")", ";", NL>>
Function == <<"pub", "fn", "run", "(", ")", "{", NL>>
Import == <<"use", "parts", "::", "{", NL, "make", "}", ";", NL>>
Lits(n, end) == [i \in 1..n |-> IF i % 2 = 1 THEN "lit" ELSE end]
Struct == <<"pub", "struct", "Part", "{", NL, "other", ":", "Part", NL, "}", NL>>
Make == <<"pub", "fn", "make", "(", ")", ";", NL>>
Parts == Struct \o Lits(12, NL) \o Make
OneLongLine == Struct \o Lits(22, "lit") \o <<NL>> \o Make
OtherCalls == <<"fn", "covers", "(", ")", "{", NL>> \o Call \o <<"lit", ";", NL, "}", NL>>
OtherMakes == <<"fn", "make", "(", ")", ";", NL>>

\* Tests of `run`: beside the code, and in a module of their own.
TestOf(name) == <<TestLine, NL, "fn", name, "(", ")", "{", NL, "run", "(", ")", ";", NL, "}", NL>>
Beside(name) == <<TestAttr, NL>> \o TestOf(name)
InModule(name) == <<TestAttr, NL, "mod", "tests", "{", NL>> \o TestOf(name) \o <<"}", NL>>

MCGiven ==
    LET repo(app, parts, other) == [app |-> app, parts |-> parts, other |-> other]
    IN  { repo(Import \o <<Doc, NL, Attr, NL>> \o Function, Parts, OtherCalls \o Beside("first") \o InModule("second")),
          repo(<<"use", "other", ";", NL>> \o Function \o Call, Parts, OtherMakes \o Beside("first") \o Beside("second") \o Beside("third")),
          repo(Import, OneLongLine \o Beside("nested"), OtherCalls \o Beside("first")) }

MCPathOrder == <<"parts", "app", "other">>
\* "parts" is a package of its own, below the directory of the other.
MCDirOf == ("app" :> <<"src">>) @@ ("other" :> <<"src">>) @@ ("parts" :> <<"parts", "src">>)
MCPackages == {<<>>, <<"parts">>}

MCLines ==
    { <<NL>>, <<Doc, NL>>, <<Attr, NL>>, <<TestAttr, NL>>, Function,
      Call, <<"let", "Part", "{", "}", ";", NL>>, <<"if", "{", NL>>, <<"}", "else", "{", NL>>, <<"}", NL>>,
      <<"}", ".", "run", "(", NL, ")", ";", NL>> }
MCFills == { <<>>, <<"run", ";">>, <<"}", NL, "make", "(">> }
=============================================================================
