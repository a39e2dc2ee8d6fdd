----------------------------- MODULE MCRollout -----------------------------
(* Rollout for TLC: two targets, one server to retire, one other. *)
EXTENDS Rollout

CONSTANTS u1, u2, t1, t2, d, o

TwoTargets == <<t1, t2>>
OneRetired == <<d>>
Lists == {<<d, o, t1>>, <<o, t2, t1>>}
Saved == {<<o>>}
=============================================================================
