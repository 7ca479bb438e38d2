------------------------------ MODULE MCKernel ------------------------------
(* Launches of FusedMoeKernel for TLC. *)
EXTENDS FusedMoeKernel

Packed(blocks, n1, k1, n2, k2) ==
  [blocks |-> blocks, n1 |-> n1, k1 |-> k1, n2 |-> n2, k2 |-> k2, units |-> 2, dead |-> {},
   perSM |-> 1, topk |-> 1, m8 |-> FALSE, whole |-> FALSE, direct |-> FALSE, gated |-> TRUE,
   rotated |-> FALSE, fusedSum |-> FALSE, mapped |-> FALSE]

\* On three CTAs: two tiles cut at 2 of 3 and four cut at 3 of 8; three slices of one
\* tile, and an expert elsewhere; a full wave before a tail, and no gate; the decode
\* launch that sums over the experts, with K loops that go round the ring of stages
\* twice; the trellis launches, packed and direct.
MCPlans ==
  {Packed(1, 2, 3, 4, 2),
   [Packed(2, 1, 4, 1, 3) EXCEPT !.mapped = TRUE, !.dead = {1}],
   [Packed(1, 1, 3, 5, 3) EXCEPT !.gated = FALSE],
   [Packed(2, 2, 9, 1, 6) EXCEPT !.m8 = TRUE, !.direct = TRUE, !.fusedSum = TRUE, !.topk = 2],
   [Packed(2, 2, 2, 2, 2) EXCEPT !.whole = TRUE, !.rotated = TRUE, !.dead = {0}],
   [Packed(2, 1, 2, 2, 2) EXCEPT !.whole = TRUE, !.rotated = TRUE, !.direct = TRUE, !.topk = 2]}

\* The schedules of 1 to 14 tiles of 1 to 7 K tiles on 3, 6, 9 and 12 CTAs, and on the
\* grids of direct launches.
ASSUME SchedulesConsistent ==
  \A mn \in 1 .. 14, k \in 1 .. 7, perSM \in 1 .. 4, whole, direct \in BOOLEAN :
    LET p == [Packed(1, mn, k, 15 - mn, 8 - k) EXCEPT !.perSM = perSM, !.whole = whole, !.direct = direct]
    IN Consistent(p, "fc1") /\ Consistent(p, "fc2")

\* The K loops of up to three turns of the ring.
ASSUME KLoopWhole == \A n \in 1 .. 3 * Stages : Multiplied(n) = 0 .. n - 1
=============================================================================
