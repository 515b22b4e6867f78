------------------------------ MODULE MCServer ------------------------------
(* Small instances of Server for TLC. *)
EXTENDS Server, TLC

CONSTANTS p, c1, c2, h1, h2

TwoCalls == {c1, c2}
WarmAndTwo == {p, c1, c2}
OnlyPrewarm == {p}
None == {}
TwoHandlers == {h1, h2}
OneCallEach == (h1 :> <<c1>>) @@ (h2 :> <<c2>>)
TwoChoices == (h1 :> <<c1, c2>>) @@ (h2 :> <<>>)
=============================================================================
