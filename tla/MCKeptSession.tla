---------------------------- MODULE MCKeptSession ----------------------------
(***************************************************************************)
(* KeptSession on small instances.                                         *)
(***************************************************************************)
EXTENDS KeptSession, TLC

CONSTANTS h1, h2, r1

TwoHostSids == {h1, h2}
OneRivalSid == {r1}
AllSids == {h1, h2, r1}
BothRoutes == {Host, Rival}
None == {}
Ids == Permutations(TwoHostSids)

\* The state but for the histories of ended sessions, which only EndedStaysEnded reads.
WithoutEnded == <<vars, hostVars, boundVars, pastVars, lagged>>
=============================================================================
