----------------------------- MODULE MoeLaunches -----------------------------
(***************************************************************************)
(* The fused W4A16 launches of the experts: how the tiles of its two GEMMs *)
(* are chosen, what a compiled launch is cached under, which launches a    *)
(* plan compiles in advance and which one a batch of m rows looks up.  The *)
(* EXL3 experts are trellis weights with scales over groups of 32.         *)
(***************************************************************************)
EXTENDS Integers, Sequences, FiniteSetsExt

CONSTANTS
  Shape,      \* hidden and intermediate size, experts per token
  Device,     \* multiprocessors and shared memory of the GPU
  ExactUpTo,  \* up to this capacity a plan compiles every number of rows (32)
  RouteBlocks \* the sizes of a block of routed rows

Tile(k, n) == [k |-> k, n |-> n, threads |-> (k * n) \div 64]
SmallBatchTiles == <<Tile(128, 128), Tile(64, 128), Tile(128, 64)>>
LargeBatchTiles == <<Tile(64, 256), Tile(64, 128), Tile(128, 64)>>

\* The GEMMs of m rows: gate and up together, then down over the routed rows.
FC1(m) == [rows |-> m, n |-> 2 * Shape.inter, k |-> Shape.hidden, topk |-> Shape.topk]
FC2(m) == [rows |-> m * Shape.topk, n |-> Shape.hidden, k |-> Shape.inter, topk |-> 1]

Ceil(a, b) == (a + b - 1) \div b
BlocksOf16(block) == Ceil(block, 16)

\* Measured registers of a thread, for blocks of 8 rows and of 16, 32, 48 and 64;
\* 0 where nothing was measured.
Registers(tile) ==
  CASE tile = Tile(128, 128) -> [eight |-> 118, more |-> <<158, 175, 0, 255>>]
    [] tile = Tile(64, 128)  -> [eight |-> 120, more |-> <<143, 214, 250, 255>>]
    [] tile = Tile(128, 64)  -> [eight |-> 118, more |-> <<154, 215, 249, 255>>]
    [] tile = Tile(64, 256)  -> [eight |-> 118, more |-> <<0, 212, 249, 255>>]
NumRegs(tile, block) == IF block = 8 THEN Registers(tile).eight ELSE Registers(tile).more[BlocksOf16(block)]

\* Bytes of shared memory: four stages of both operands and of the scales, the
\* reduction and the bias over the weights' stages, and the routes of the block.
SharedMemory(tile, block, bits) ==
  LET m == 16 * BlocksOf16(block)
      weights == 4 * ((tile.k * tile.n * Max({4, bits})) \div 8)
      reduction == m * (tile.n + 8) * 2
  IN Max({weights, reduction, Min({weights, reduction}) + 2 * tile.n})
       + 4 * m * tile.k * 2 + Ceil(tile.k, 32) * tile.n * 8 + 16 * m

MaxRegBytes == 255 * 1024

\* The blocks of a launch resident on a multiprocessor: one for blocks of 8 rows,
\* and never more than there is work for.
BlocksPerSM(gemm, tile, block, bits) ==
  LET fit == Min({MaxRegBytes \div (NumRegs(tile, block) * tile.threads * 4),
                  Device.shared \div (SharedMemory(tile, block, bits) + 1536)})
      limit == IF block = 8 THEN 1 ELSE Max({1, Min({fit, IF block = 16 THEN 4 ELSE 2})})
      work == (gemm.n \div tile.n) * gemm.rows * gemm.topk * 4
  IN IF work < Device.sms * limit THEN Max({1, work \div Device.sms}) ELSE limit

CandidateTileFits(gemm, tile, block, bits) ==
  /\ gemm.n % tile.n = 0 /\ gemm.k % tile.k = 0
  /\ gemm.k % 32 = 0 /\ tile.k % 32 = 0
  /\ tile.n >= 64 /\ tile.k >= 64 /\ tile.threads >= 128
  /\ SharedMemory(tile, block, bits) <= Device.shared - 512

\* The tile with most resident blocks, the first of equals in the table's order.
Candidates(gemm, block, bits, threads) ==
  LET tiles == IF BlocksOf16(block) > 1 THEN LargeBatchTiles ELSE SmallBatchTiles
  IN [tiles |-> tiles,
      fit |-> {i \in DOMAIN tiles : tiles[i].threads \in threads /\ CandidateTileFits(gemm, tiles[i], block, bits)}]
SelectTile(gemm, block, bits, threads) ==
  LET c == Candidates(gemm, block, bits, threads)
      blocks(i) == BlocksPerSM(gemm, c.tiles[i], block, bits)
  IN c.tiles[CHOOSE i \in c.fit : \A j \in c.fit \ {i} : blocks(j) < blocks(i) \/ (blocks(j) = blocks(i) /\ i < j)]

\* The tiles of both GEMMs when none are given: their numbers of threads must agree.
FusedTiles(m, block, bits) ==
  LET free == <<SelectTile(FC1(m), block, bits, {128, 256}), SelectTile(FC2(m), block, bits, {128, 256})>>
      common == {Min({free[1].threads, free[2].threads})}
  IN IF free[1].threads = free[2].threads THEN free
     ELSE <<SelectTile(FC1(m), block, bits, common), SelectTile(FC2(m), block, bits, common)>>

\* What a compiled launch is cached under: one row is a case of its own, the rows
\* and the capacity of the routes otherwise are not part of it.
LaunchKey(m, block, bits, tiles) ==
  [bits |-> bits, block |-> block, tiles |-> tiles, oneRow |-> m = 1,
   blocks |-> <<BlocksPerSM(FC1(m), tiles[1], block, bits), BlocksPerSM(FC2(m), tiles[2], block, bits)>>]

\* The tiles the EXL3 layers pin for both GEMMs in their weight plan.
TrellisTileConfig ==
  IF Shape.hidden % 256 = 0 /\ Shape.inter % 256 = 0
  THEN <<Tile(64, 256), Tile(64, 256)>> ELSE <<Tile(64, 128), Tile(64, 128)>>

\* A pinned launch compiles when its tiles fit and were measured at this block.
Compiles(m, block, bits, tiles) ==
  /\ NumRegs(tiles[1], block) > 0 /\ NumRegs(tiles[2], block) > 0
  /\ CandidateTileFits(FC1(m), tiles[1], block, bits) /\ CandidateTileFits(FC2(m), tiles[2], block, bits)

\* The rows a plan of this capacity compiles for, and the launches it holds.
PlannedRows(capacity) == IF capacity <= ExactUpTo THEN 1..capacity ELSE {capacity}
PlannedLaunches(capacity, block, bits) ==
  {LaunchKey(m, block, bits, TrellisTileConfig) : m \in PlannedRows(capacity)}

\* The launch a batch of m rows runs: bound without one, it looks up its own tiles.
RunLaunch(m, block, bits) == LaunchKey(m, block, bits, FusedTiles(m, block, bits))

ASSUME LaunchesAssumption ==
  /\ {Shape.hidden, Shape.inter, Shape.topk, Device.sms} \subseteq Nat \ {0}
  /\ Shape.hidden % 128 = 0 /\ Shape.inter % 128 = 0
  /\ Device.shared \in Nat /\ ExactUpTo \in Nat
  /\ RouteBlocks \subseteq {8, 16, 32, 48, 64}
  /\ \A block \in RouteBlocks, bits \in 2..6, gemm \in {FC1(1), FC2(1)} :
       \A threads \in {{128}, {128, 256}} : Candidates(gemm, block, bits, threads).fit # {}
=============================================================================
