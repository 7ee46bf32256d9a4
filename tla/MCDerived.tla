------------------------------ MODULE MCDerived ------------------------------
(***************************************************************************)
(* Instances of the derived-query engine for TLC: a database with inputs a *)
(* and b and queries outer and inner, and their programs.                  *)
(***************************************************************************)
EXTENDS DerivedCorrect, SequencesExt, TLC

CONSTANTS a, b, outer, inner, BadInput, CycleError, live, s1

BothInputs == {a, b}
InputA == {a}
BothQueries == {outer, inner}
OnlyOuter == {outer}
TwoAndTwo == <<a, b, outer, inner>>
OneAndTwo == <<a, outer, inner>>
OneAndOne == <<a, outer>>

Gets(d) == [do |-> "get", dep |-> d]
Yields(x) == [do |-> "ok", val |-> x]
Fails(e) == [do |-> "err", val |-> e]

MCErrors == {BadInput, CycleError}

\* An error that is read is passed on.
PassingOn(seen, step) ==
    IF seen # <<>> /\ Last(seen) \in MCErrors THEN Fails(Last(seen)) ELSE step

Ref == INSTANCE Reference
RefTruth(x, ins) == Ref!Meaning(x, ins)

\* The hypotheses of the theorems about Derived hold of these programs.
ASSUME MeantAndMeaning ==
    /\ Acyclic => TruthIsMeant
    /\ ErrorsPropagate

\* inner tells whether a is set: setting it from 1 to 2 leaves inner as it is
\* (early cutoff).  outer reads b only when inner says so: its dependencies vary.
ChainProgram(x, seen) ==
    PassingOn(seen,
    CASE x = inner /\ seen = <<>>     -> Gets(a)
      [] x = inner /\ Len(seen) = 1   -> Yields(IF seen[1] = None THEN 0 ELSE 1)
      [] x = outer /\ seen = <<>>     -> Gets(inner)
      [] x = outer /\ seen = <<0>>    -> Yields(0)
      [] x = outer /\ seen = <<1>>    -> Gets(b)
      [] x = outer /\ Len(seen) = 2   -> Yields(IF seen[2] = None THEN 1 ELSE 2)
      [] OTHER -> Fails(BadInput))

\* inner reads outer.  outer fails on a missing a,
\* and reads inner when a is 2, which closes a cycle.
LoopProgram(x, seen) ==
    PassingOn(seen,
    CASE x = inner /\ seen = <<>>     -> Gets(outer)
      [] x = outer /\ seen = <<>>     -> Gets(a)
      [] x = outer /\ seen = <<None>> -> Fails(BadInput)
      [] x = outer /\ seen = <<2>>    -> Gets(inner)
      [] seen # <<>> /\ Last(seen) = 1 -> Yields(1)
      [] OTHER -> Fails(BadInput))

\* inner fails on a missing a; outer fails with inner, and on a missing b.
TwoFailsProgram(x, seen) ==
    PassingOn(seen,
    CASE x = inner /\ seen = <<>>     -> Gets(a)
      [] x = inner /\ seen = <<1>>    -> Yields(1)
      [] x = outer /\ seen = <<>>     -> Gets(inner)
      [] x = outer /\ seen = <<1>>    -> Gets(b)
      [] x = outer /\ seen = <<1, 1>> -> Yields(1)
      [] OTHER -> Fails(BadInput))

\* One query that copies one input.
CopyProgram(x, seen) ==
    PassingOn(seen,
    CASE seen = <<>> -> Gets(a)
      [] seen = <<None>> -> Yields(0)
      [] seen # <<>> /\ seen[1] \in QueryValue -> Yields(seen[1])
      [] OTHER -> Fails(BadInput))

\* inner tells whether a is set, and outer what inner tells.
RelayProgram(x, seen) ==
    PassingOn(seen,
    CASE x = inner /\ seen = <<>> -> Gets(a)
      [] x = outer /\ seen = <<>> -> Gets(inner)
      [] seen = <<None>> -> Yields(0)
      [] x = inner /\ Len(seen) = 1 /\ seen[1] \in InputValue -> Yields(1)
      [] x = outer /\ Len(seen) = 1 /\ seen[1] \in QueryValue -> Yields(seen[1])
      [] OTHER -> Fails(BadInput))
=============================================================================
