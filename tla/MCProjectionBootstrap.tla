------------------------ MODULE MCProjectionBootstrap ------------------------
(* Instances of the bootstrap: two turns with one plan each, in one thread.  *)
EXTENDS ProjectionBootstrap, TLC

CONSTANTS turn1, turn2, plan1

Diff(t, n) == [type |-> "turn-diff-completed", turn |-> t, count |-> n]
Upsert(t) == [type |-> "proposed-plan-upserted", plan |-> plan1, turn |-> t]
Session(t) == [type |-> "session-set", turn |-> t]
Revert(n) == [type |-> "reverted", count |-> n]

\* Turns run, capture checkpoints and propose; two reverts go back.
AllEvents == {Diff(turn1, 1), Diff(turn2, 2), Diff(turn2, 1), Upsert(turn1), Upsert(NoTurn),
              Session(turn2), Revert(0), Revert(1)}
=============================================================================
