--------------------------------- MODULE KLoop ---------------------------------
(***************************************************************************)
(* The K loop of one piece of a GEMM inside a CTA.  The K tiles go through *)
(* a ring of stages in shared memory: copies fill a stage while the warps  *)
(* multiply another, and sync_threads is all that orders the warps.  The   *)
(* loop is the set of what it issues, each at its place in the program;    *)
(* from that follows which K tiles are multiplied for certain, however the *)
(* warps run between two synchronisations and whenever a copy arrives.     *)
(***************************************************************************)
EXTENDS Integers, FiniteSets

Stages == 4    \* the ring
Fragments == 2 \* of a tile, each loaded to registers one ahead of its use: all tiles have two

\* What the CTA issues: copies to a stage, the end of a group of copies, the wait
\* for all but the last groups, the synchronisation and a load of a fragment.
Copy(pos, slot, tile) == [pos |-> pos, op |-> "copy", slot |-> slot, x |-> tile]
Load(pos, slot, fragment) == [pos |-> pos, op |-> "load", slot |-> slot, x |-> fragment]
Mark(pos, op) == [pos |-> pos, op |-> op, slot |-> 0, x |-> 0]

\* A tile beyond the last leaves an empty group, so that waits count alike.
Stage(pos, n, slot, tile) ==
  (IF tile < n THEN {Copy(pos, slot, tile)} ELSE {}) \cup {Mark(pos + 1, "commit")}
WaitAndSync(pos) == {Mark(pos, "wait"), Mark(pos + 1, "sync")}
Outstanding == Stages - 2 \* groups a wait lets go on

PrefetchInitialTiles(n) ==
  (UNION {Stage(2 * pipe, n, pipe, pipe) : pipe \in 0 .. Stages - 2}) \cup WaitAndSync(2 * Stages - 2)

\* Places of the step of fragment kk of tile t; the loop ends at that of tile n.
At(t, kk) == 2 * Stages + 1 + 10 * (Fragments * t + kk)

PrefetchLookaheadTile(pos, n, t) ==
  Stage(pos, n, ((t % Stages) + Stages - 1) % Stages, t + Stages - 1) \cup WaitAndSync(pos + 2)

LoadNextFragment(pos, n, t, kk) ==
  IF kk + 1 < Fragments THEN {Load(pos, t % Stages, kk + 1)}
  ELSE IF t + 1 < n THEN {Load(pos, ((t % Stages) + 1) % Stages, 0)} ELSE {}

\* After a turn of the ring, and after the last tile, the warps meet; the first
\* fragment of the next turn is loaded again.
EndOfTurn(pos, n, t) ==
  IF (t + 1) % Stages # 0 /\ t + 1 # n THEN {}
  ELSE {Mark(pos, "sync")} \cup (IF t + 1 < n THEN {Load(pos + 1, 0, 0)} ELSE {})

Loop(n) ==
  PrefetchInitialTiles(n) \cup {Load(2 * Stages, 0, 0)} \cup
  UNION {LoadNextFragment(At(t, kk), n, t, kk)
           \cup (IF kk = Fragments - 2 THEN PrefetchLookaheadTile(At(t, kk) + 1, n, t) ELSE {})
           \cup (IF kk = Fragments - 1 THEN EndOfTurn(At(t, kk) + 5, n, t) ELSE {})
         : t \in 0 .. n - 1, kk \in 0 .. Fragments - 1}

Ops(loop, op) == {e \in loop : e.op = op}
Between(loop, op, a, b) == {e \in Ops(loop, op) : a < e.pos /\ e.pos < b}

\* A copy is there for every warp once its group was waited for and they met.
Settled(loop, copy, pos) ==
  \E w \in Between(loop, "wait", copy.pos, pos) :
    /\ Cardinality(Between(loop, "commit", copy.pos, w.pos)) > Outstanding
    /\ Between(loop, "sync", w.pos, pos) # {}

\* No warp still reads a stage once they met after the load.
Read(loop, load, pos) == Between(loop, "sync", load.pos, pos) # {}

\* The load finds this tile: it was copied there last, and no other copy to the
\* stage can come after that or before the load is done.
Finds(loop, load, tile) ==
  \E copy \in Ops(loop, "copy") :
    /\ copy.slot = load.slot /\ copy.x = tile /\ copy.pos < load.pos /\ Settled(loop, copy, load.pos)
    /\ \A other \in Ops(loop, "copy") \ {copy} :
         other.slot = load.slot =>
           \/ other.pos < copy.pos /\ Settled(loop, other, copy.pos)
           \/ load.pos < other.pos /\ Read(loop, load, other.pos)

\* The fragment in the registers in a step is the last that was loaded before it.
Multiplies(loop, t, kk) ==
  \E load \in Ops(loop, "load") :
    /\ load.pos < At(t, kk) /\ Between(loop, "load", load.pos, At(t, kk)) = {}
    /\ load.x = kk /\ Finds(loop, load, t)

\* The K tiles out of n that are multiplied; none for certain when the sums the
\* warps then exchange in the same shared memory can meet a copy or a load.
Multiplied(n) ==
  LET loop == Loop(n)
      Quiet == /\ \A copy \in Ops(loop, "copy") : Settled(loop, copy, At(n, 0))
               /\ \A load \in Ops(loop, "load") : Read(loop, load, At(n, 0))
  IN {t \in 0 .. n - 1 : Quiet /\ \A kk \in 0 .. Fragments - 1 : Multiplies(loop, t, kk)}
=============================================================================
