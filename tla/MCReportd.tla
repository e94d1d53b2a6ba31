----------------------------- MODULE MCReportd -----------------------------
(* Instances of Reportd for TLC. *)
EXTENDS Reportd, TLC

CONSTANTS r1, r2, d1, d2

TwoFetchers == <<"f1", "f2">>
OneFetcher == <<"f1">>
\* The same command configured twice.
TwinFetchers == <<"f1", "f1">>

Nothing == [r \in {} |-> 0]
\* Details with one record, and details of a policy set that is empty.
SimplePayloads == {r1 :> 1, Nothing}
BothPayloads == {r1 :> 1 @@ r2 :> 2}
EitherPayload == {r1 :> 1, r2 :> 1}
\* A policy whose type has no name in the report.
Unnamed == r1 :> 2
UnnamedToo == EitherPayload \cup {Unnamed}
OnlyUnnamed == {Unnamed}

OneRua == r1 :> <<d1>> @@ r2 :> <<d1>>
\* r2 is malformed: a report, but no destination.
MalformedRuas == r1 :> <<d1>> @@ r2 :> <<>>
OwnRuas == r1 :> <<d1>> @@ r2 :> <<d2>>
TwiceRuas == r1 :> <<d1>> @@ r2 :> <<d2, d2>>

DomainSymmetry == Permutations(Domains)
============================================================================
