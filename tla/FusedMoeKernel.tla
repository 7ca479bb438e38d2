--------------------------- MODULE FusedMoeKernel ---------------------------
(***************************************************************************)
(* One launch after another of the fused W4A16 expert kernel on one        *)
(* workspace: the persistent CTAs of a launch walk through input rotation, *)
(* FC1, activation, zeroing and FC2, kept apart by a barrier of their own  *)
(* making, and the CTAs that share a tile of a GEMM along K add up their   *)
(* slices in turn, under a lock word.  A cell of a buffer holds what was   *)
(* computed from whole inputs, or something else; the arithmetic is left   *)
(* out.  A strided stage is one step of a CTA with one warp.               *)
(***************************************************************************)
EXTENDS KLoop, Sequences, FiniteSetsExt

CONSTANTS
  Sms,      \* multiprocessors of the GPU
  Plans,    \* the launches that may be made, see Plan
  Launches, \* bound: launches one after another on the workspace
  InOrder   \* a CTA's stores reach the other CTAs before its later atomics do

\* A launch: routed blocks, the tiles of a row of each GEMM and of its K, the units
\* of the strided stages per block, the blocks whose expert is not on this rank, the
\* resident CTAs per multiprocessor, the experts per token and the kernel's variant.
Plan ==
  [blocks : Nat \ {0}, n1 : Nat \ {0}, k1 : Nat \ {0}, n2 : Nat \ {0}, k2 : Nat \ {0},
   units : Nat \ {0}, dead : SUBSET Nat, perSM : 1 .. 4, topk : Nat \ {0},
   m8 : BOOLEAN, whole : BOOLEAN, direct : BOOLEAN, gated : BOOLEAN,
   rotated : BOOLEAN, fusedSum : BOOLEAN, mapped : BOOLEAN]

ASSUME KernelAssumption ==
  /\ Sms \in Nat \ {0} /\ Launches \in Nat \ {0} /\ InOrder \in BOOLEAN
  /\ Plans # {} /\ Plans \subseteq Plan
  /\ \A p \in Plans :
       /\ p.m8 => p.perSM = 1
       /\ p.fusedSum => p.direct /\ p.blocks % p.topk = 0
       /\ p.rotated => p.whole /\ p.gated /\ ~p.fusedSum
       /\ p.mapped => ~p.rotated /\ ~p.direct

Ceil(a, b) == (a + b - 1) \div b
Slots == 0 .. 4 * Sms - 1  \* the lock words before the two words of the barrier

-----------------------------------------------------------------------------
(* The schedule of a GEMM. *)

Gemm(p, w) ==
  IF w = "fc1" THEN [mn |-> p.blocks * p.n1, n |-> p.n1, k |-> p.k1]
               ELSE [mn |-> p.blocks * p.n2, n |-> p.n2, k |-> p.k2]

\* A direct launch gets the grid whose CTAs own whole tiles; the others all that fit.
GridX(p) ==
  LET cap == Sms * p.perSM
      fc1 == Gemm(p, "fc1").mn
      fc2 == Gemm(p, "fc2").mn
      Path(grid) == Ceil(fc1, grid) + Ceil(fc2, grid)
      least == IF fc1 < cap THEN fc1 ELSE cap
      waves == Ceil(fc1, cap)
  IN IF ~p.direct THEN cap
     ELSE IF p.whole THEN (IF Path(least) <= Path(cap) THEN least ELSE cap)
     ELSE IF fc1 % waves = 0 THEN fc1 \div waves ELSE cap

CTAs == UNION {0 .. GridX(p) - 1 : p \in Plans}

\* Tiles that CTAs own alone, in full waves, and the tail they split along K.
Waves(p, g) ==
  LET grid == GridX(p)
      rest == g.mn % grid
      tail == IF rest * 3 <= grid THEN rest + grid ELSE rest
  IN IF p.whole THEN [full |-> Ceil(g.mn, grid), tail |-> 0]
     ELSE IF p.m8 /\ g.mn <= grid THEN [full |-> 1, tail |-> 0]
     ELSE IF g.mn > grid THEN [full |-> (g.mn - tail) \div grid, tail |-> tail]
     ELSE [full |-> 0, tail |-> g.mn]

Iters(p, g) == Ceil(g.k * Waves(p, g).tail, GridX(p))

\* In how many slices tile j of the tail is computed, and the place of CTA c among
\* them: the CTA that ends the tile is slice 0, the one that begins it the last.
Slices(iters, k, c, j) ==
  LET boundary == iters * Ceil(k * j, iters)
      offset == boundary - k * j
      delta == iters * c - boundary
      extra == IF offset > 0 THEN 1 ELSE 0
      count == Ceil(k - offset, iters) + extra
      idx == IF delta < 0 \/ (offset = 0 /\ delta = 0) THEN count - 1
             ELSE count - 1 - delta \div iters - extra
  IN IF boundary <= k * (j + 1) THEN [count |-> count, idx |-> idx] ELSE [count |-> 1, idx |-> 0]

\* The tiles of CTA c in the tail.
TailTiles(p, g, c) ==
  LET iters == Iters(p, g)
  IN {j \in (iters * c) \div g.k .. Waves(p, g).tail - 1 : iters * (c + 1) > g.k * j}

\* The lock word, and scratch row, of CTA c on tile j of the tail.
LockSlot(p, g, c, j) ==
  LET Closes(i) == LET s == Slices(Iters(p, g), g.k, c, i) IN s.count > 1 /\ s.idx = s.count - 1
  IN IF Waves(p, g).tail >= GridX(p)
     THEN c + Cardinality({i \in TailTiles(p, g, c) : i <= j /\ Closes(i)})
     ELSE j

OwnTile(g, tile) == [tile |-> tile, lo |-> 0, hi |-> g.k, count |-> 1, idx |-> 0, slot |-> 0]

\* What CTA c computes of tile j of the tail: the K tiles from lo up to hi.
SplitTile(p, g, c, j) ==
  LET iters == Iters(p, g)
      s == Slices(iters, g.k, c, j)
      from == iters * c - g.k * j
      upto == iters * (c + 1) - g.k * j
  IN [tile |-> g.mn - Waves(p, g).tail + j,
      lo |-> IF from > 0 THEN from ELSE 0, hi |-> IF upto < g.k THEN upto ELSE g.k,
      count |-> s.count, idx |-> s.idx, slot |-> LockSlot(p, g, c, j)]

\* The pieces of CTA c in GEMM w.
Pieces(p, w, c) ==
  LET g == Gemm(p, w)
      full == Waves(p, g).full
      first == (Iters(p, g) * c) \div g.k
      own == [i \in 1 .. full |-> OwnTile(g, c + (i - 1) * GridX(p))]
      split == [i \in 1 .. Cardinality(TailTiles(p, g, c)) |-> SplitTile(p, g, c, first + i - 1)]
  IN own \o split

\* Not of an expert that is elsewhere, nor in the ragged end of the last wave.
Live(p, w, piece) == LET g == Gemm(p, w) IN piece.tile < g.mn /\ piece.tile \div g.n \notin p.dead

\* What is left of a CTA's pieces from the next live one on.
FromLive(p, w, s) ==
  LET live == {i \in DOMAIN s : Live(p, w, s[i])}
  IN IF live = {} THEN <<>> ELSE SubSeq(s, Min(live), Len(s))

-----------------------------------------------------------------------------
(* The stages of a launch, and what they read and write. *)

\* Mutant: the output is zeroed with the activation, which still reads that cache.
Body_ZeroEarly(p) ==
  (IF p.rotated THEN << <<"rotate">> >> ELSE <<>>)
    \o << IF p.fusedSum THEN <<"prezero", "fc1">> ELSE <<"fc1">> >>
    \o (IF p.mapped THEN << <<"activate", "zero">> >> ELSE IF p.gated THEN << <<"activate">> >> ELSE <<>>)
    \o << <<"fc2">> >>

\* The work of a launch, one sequence between two barriers.
Body(p) ==
  (IF p.rotated THEN << <<"rotate">> >> ELSE <<>>)
    \o << IF p.fusedSum THEN <<"prezero", "fc1">> ELSE <<"fc1">> >>
    \o (IF p.gated THEN << <<"activate">> >> ELSE <<>>)
    \o (IF p.mapped THEN << <<"zero">> >> ELSE <<>>)
    \o << <<"fc2">> >>

Strided == {"rotate", "prezero", "activate", "zero"}
Units(p) == 0 .. p.blocks * p.units - 1
Tiles(p, w) == 0 .. Gemm(p, w).mn - 1
OutCells(p) == 0 .. Ceil(p.blocks, p.topk) * p.n2 - 1

\* FC1 and FC2 write the same cache, intermediate_cache13.
Cells(p) ==
  ({"a"} \X Units(p)) \cup ({"cache13"} \X (Tiles(p, "fc1") \cup Tiles(p, "fc2")))
    \cup ({"activated"} \X (Units(p) \cup Tiles(p, "fc1"))) \cup ({"output"} \X OutCells(p))

\* A cell holds the set of what was summed into it; none of it after a zero.
Left == {<<"left", 0>>}   \* what was there before the launch
Wrong == {<<"wrong", 0>>} \* computed from something else than whole inputs

BlockOf(p, w, i) == i \div (IF w = "fc1" THEN p.n1 ELSE IF w = "fc2" THEN p.n2 ELSE p.units)
Of(p, w, domain, b) == {i \in domain : BlockOf(p, w, i) = b}

\* The cells that unit or tile i of stage w reads.
Inputs(p, w, i) ==
  LET b == BlockOf(p, w, i)
  IN CASE w = "fc1" /\ p.rotated -> {"a"} \X Of(p, "rotate", Units(p), b)
       [] w = "activate" -> {"cache13"} \X Of(p, "fc1", Tiles(p, "fc1"), b)
       [] w = "fc2" /\ p.gated -> {"activated"} \X Of(p, "activate", Units(p), b)
       [] w = "fc2" /\ ~p.gated -> {"activated"} \X Of(p, "fc1", Tiles(p, "fc1"), b)
       [] OTHER -> {}

\* What a cell that is read must hold.
Wanted(p, cell) ==
  LET maker == CASE cell[1] = "a" -> "rotate" [] cell[1] = "cache13" -> "fc1"
                 [] OTHER -> IF p.gated THEN "activate" ELSE "fc1"
  IN {<<maker, cell[2]>>}

\* The cells CTA c writes in a grid-strided stage; packed stages skip experts elsewhere.
Share(p, w, c) ==
  LET Mine(tag, n) == {tag} \X {i \in 0 .. n - 1 : i % GridX(p) = c}
      Here(cells) == {cell \in cells : BlockOf(p, w, cell[2]) \notin p.dead}
  IN CASE w = "rotate" -> Here(Mine("a", p.blocks * p.units))
       [] w = "activate" -> LET all == Mine("activated", p.blocks * p.units)
                            IN IF p.rotated THEN Here(all) ELSE all
       [] w = "prezero" -> Mine("output", Ceil(p.blocks, p.topk) * p.n2)
       [] w = "zero" -> Mine("cache13", p.blocks * p.n2)

\* Where tile t of GEMM w is stored.
Target(p, w, t) ==
  IF w = "fc1" THEN <<IF p.gated THEN "cache13" ELSE "activated", t>>
  ELSE IF p.fusedSum THEN <<"output", ((t \div p.n2) \div p.topk) * p.n2 + (t % p.n2)>>
  ELSE <<"cache13", t>>

\* A sum over K: the K tiles in it, and whether each was there once and whole.
Plus(a, b) == [parts |-> a.parts \cup b.parts, ok |-> a.ok /\ b.ok /\ a.parts \cap b.parts = {}]
NoSum == [parts |-> {}, ok |-> TRUE]
StaleSum == [parts |-> {}, ok |-> FALSE]

-----------------------------------------------------------------------------
VARIABLES
  plan, pieces, launched, \* the launch that runs, its schedule, and how many there were
  at, seg, job, todo,     \* where each CTA is: segment, stage in it, pieces of the stage
  acc,                    \* the accumulator of each CTA
  old,                    \* the sense each CTA read before it arrived
  sense, count, lock,     \* the words of the workspace
  ctmp,                   \* the scratch rows of the split tiles
  mem,                    \* the buffers
  late                    \* cells each CTA stored that the others need not see yet
control == <<at, seg, job, todo>>
words == <<sense, count, lock>>
vars == <<plan, pieces, launched, control, acc, old, words, ctmp, mem, late>>

Grid == 0 .. GridX(plan) - 1
Work(c) == Body(plan)[seg[c]][job[c]]
Piece(c) == Head(todo[c])
IsLast(x) == x.idx = x.count - 1

\* The pieces of a stage for CTA c; its share of a strided stage is one.
PiecesOf(w, c) == IF w \in Strided THEN <<OwnTile(Gemm(plan, "fc1"), c)>>
                  ELSE FromLive(plan, w, pieces[w][c])

\* What a CTA sees of a store that nothing has ordered before its read.
Views == IF InOrder THEN {TRUE} ELSE BOOLEAN
Sees(c, cell, view) == view \/ \A d \in CTAs \ {c} : cell \notin late[d]
Whole(c, w, i, view) ==
  \A cell \in Inputs(plan, w, i) : mem[cell] = Wanted(plan, cell) /\ Sees(c, cell, view)
Stores(c, cells) == late' = IF InOrder THEN late ELSE [late EXCEPT ![c] = @ \cup cells]
Fence(c) == late' = [late EXCEPT ![c] = {}]

\* A new launch on the workspace, with the buffers in any state.
Start(p) ==
  /\ plan' = p
  /\ pieces' = [w \in {"fc1", "fc2"} |-> [c \in 0 .. GridX(p) - 1 |-> Pieces(p, w, c)]]
  /\ at' = [c \in CTAs |-> IF c < GridX(p) THEN "work" ELSE "out"]
  /\ seg' = [c \in CTAs |-> 1] /\ job' = [c \in CTAs |-> 1]
  /\ todo' = [c \in CTAs |-> IF c < GridX(p) THEN PiecesOf(Body(p)[1][1], c)' ELSE <<>>]
  /\ acc' = [c \in CTAs |-> NoSum] /\ old' = [c \in CTAs |-> 0]
  /\ ctmp' = [x \in {"fc1", "fc2"} \X Slots |-> StaleSum]
  /\ mem' = [cell \in Cells(p) |-> Left]
  /\ late' = [c \in CTAs |-> {}]

Go(c, where) == at' = [at EXCEPT ![c] = where]
Advance(c) == todo' = [todo EXCEPT ![c] = FromLive(plan, Work(c), Tail(@))]

\* Input rotation, activation and the two ways of zeroing.
Stride(c) ==
  /\ at[c] = "work" /\ Work(c) \in Strided /\ todo[c] # <<>>
  /\ LET w == Work(c)
         mine == Share(plan, w, c)
         Value(cell, view) ==
           IF w \in {"zero", "prezero"} THEN {}
           ELSE IF Whole(c, w, cell[2], view) THEN {<<w, cell[2]>>} ELSE Wrong
     IN /\ \E view \in Views :
             mem' = [cell \in DOMAIN mem |-> IF cell \in mine THEN Value(cell, view) ELSE mem[cell]]
        /\ Stores(c, mine)
  /\ Advance(c)
  /\ UNCHANGED <<plan, pieces, launched, at, seg, job, acc, old, words, ctmp>>

\* The K tiles that loops over so many K tiles multiply.
KTiles == {<<n, Multiplied(n)>> : n \in UNION {0 .. Gemm(p, w).k : p \in Plans, w \in {"fc1", "fc2"}}}
InKLoop(n) == (CHOOSE x \in KTiles : x[1] = n)[2]

\* The K loop of a piece.
Multiply(c) ==
  /\ at[c] = "work" /\ Work(c) \notin Strided /\ todo[c] # <<>>
  /\ \E view \in Views :
       acc' = [acc EXCEPT ![c] = [parts |-> {Piece(c).lo + t : t \in InKLoop(Piece(c).hi - Piece(c).lo)},
                                  ok |-> Whole(c, Work(c), Piece(c).tile, view)]]
  /\ Go(c, IF Piece(c).count > 1 THEN "turn" ELSE "store")
  /\ UNCHANGED <<plan, pieces, launched, seg, job, todo, old, words, ctmp, mem, late>>

\* The wait for the slices before, and the merge with their sum.
TakeTurn(c) ==
  /\ at[c] = "turn" /\ lock[Piece(c).slot] = Piece(c).idx
  /\ LET row == <<Work(c), Piece(c).slot>>
         sum == IF Piece(c).idx # 0 THEN Plus(acc[c], ctmp[row]) ELSE acc[c]
     IN /\ acc' = [acc EXCEPT ![c] = sum]
        /\ ctmp' = IF IsLast(Piece(c)) THEN ctmp ELSE [ctmp EXCEPT ![row] = sum]
  /\ Go(c, "publish")
  /\ UNCHANGED <<plan, pieces, launched, seg, job, todo, old, words, mem, late>>

\* Mutant: the last slice passes the turn on like the others.
PublishTurn_NoReset(c) ==
  /\ at[c] = "publish"
  /\ lock' = [lock EXCEPT ![Piece(c).slot] = @ + 1]
  /\ IF IsLast(Piece(c)) THEN Go(c, "store") /\ UNCHANGED <<todo, acc, late>>
     ELSE Go(c, "work") /\ Advance(c) /\ acc' = [acc EXCEPT ![c] = NoSum] /\ Fence(c)
  /\ UNCHANGED <<plan, pieces, launched, seg, job, old, sense, count, ctmp, mem>>

\* The last slice gives the lock word back, the others pass the turn on.
PublishTurn(c) ==
  /\ at[c] = "publish"
  /\ IF IsLast(Piece(c))
     THEN lock' = [lock EXCEPT ![Piece(c).slot] = 0] /\ Go(c, "store") /\ UNCHANGED <<todo, acc, late>>
     ELSE /\ lock' = [lock EXCEPT ![Piece(c).slot] = @ + 1] /\ Go(c, "work") /\ Advance(c)
          /\ acc' = [acc EXCEPT ![c] = NoSum] /\ Fence(c)
  /\ UNCHANGED <<plan, pieces, launched, seg, job, old, sense, count, ctmp, mem>>

\* Tiles of FC2 that sum over the experts of a token are added to the output.
StoreTile(c) ==
  /\ at[c] = "store"
  /\ LET w == Work(c)
         g == Gemm(plan, w)
         x == <<w, Piece(c).tile>>
         cell == Target(plan, w, Piece(c).tile)
         whole == acc[c] = [parts |-> 0 .. g.k - 1, ok |-> TRUE]
     IN IF w = "fc2" /\ plan.fusedSum
        THEN /\ \E view \in Views :
                  mem' = [mem EXCEPT ![cell] =
                            IF whole /\ Sees(c, cell, view) /\ @ \cap (Left \cup Wrong \cup {x}) = {}
                            THEN @ \cup {x} ELSE Wrong]
             /\ UNCHANGED late
        ELSE mem' = [mem EXCEPT ![cell] = IF whole THEN {x} ELSE Wrong] /\ Stores(c, {cell})
  /\ acc' = [acc EXCEPT ![c] = NoSum]
  /\ Advance(c) /\ Go(c, "work")
  /\ UNCHANGED <<plan, pieces, launched, seg, job, old, words, ctmp>>

\* The next stage before the barrier, the barrier, or the end of the kernel.
NextStage(c) ==
  /\ at[c] = "work" /\ todo[c] = <<>>
  /\ IF job[c] < Len(Body(plan)[seg[c]])
     THEN /\ job' = [job EXCEPT ![c] = @ + 1]
          /\ todo' = [todo EXCEPT ![c] = PiecesOf(Body(plan)[seg[c]][job[c] + 1], c)]
          /\ UNCHANGED at
     ELSE Go(c, IF seg[c] < Len(Body(plan)) THEN "load" ELSE "out") /\ UNCHANGED <<job, todo>>
  /\ UNCHANGED <<plan, pieces, launched, seg, acc, old, words, ctmp, mem, late>>

-----------------------------------------------------------------------------
(* The barrier of all CTAs. *)

LoadSense(c) ==
  /\ at[c] = "load"
  /\ old' = [old EXCEPT ![c] = sense]
  /\ Go(c, "arrive")
  /\ UNCHANGED <<plan, pieces, launched, seg, job, todo, acc, words, ctmp, mem, late>>

\* Mutant: the barrier opens one CTA too early.
Arrive_OneShort(c) ==
  /\ at[c] = "arrive"
  /\ count' = count + 1
  /\ Go(c, IF count = GridX(plan) - 2 THEN "reset" ELSE "spin")
  /\ UNCHANGED <<plan, pieces, launched, seg, job, todo, acc, old, sense, lock, ctmp, mem, late>>

Arrive(c) ==
  /\ at[c] = "arrive"
  /\ count' = count + 1
  /\ Go(c, IF count = GridX(plan) - 1 THEN "reset" ELSE "spin")
  /\ UNCHANGED <<plan, pieces, launched, seg, job, todo, acc, old, sense, lock, ctmp, mem, late>>

ResetCount(c) ==
  /\ at[c] = "reset"
  /\ count' = 0
  /\ Go(c, "release")
  /\ UNCHANGED <<plan, pieces, launched, seg, job, todo, acc, old, sense, lock, ctmp, mem, late>>

Leave(c) ==
  /\ Go(c, "work")
  /\ seg' = [seg EXCEPT ![c] = @ + 1]
  /\ job' = [job EXCEPT ![c] = 1]
  /\ todo' = [todo EXCEPT ![c] = PiecesOf(Body(plan)[seg[c] + 1][1], c)]

\* The fence of the last CTA covers its own stores.
ReleaseSense(c) ==
  /\ at[c] = "release"
  /\ sense' = sense + 1
  /\ Leave(c) /\ Fence(c)
  /\ UNCHANGED <<plan, pieces, launched, acc, old, count, lock, ctmp, mem>>

Pass(c) ==
  /\ at[c] = "spin" /\ sense # old[c]
  /\ Leave(c)
  /\ UNCHANGED <<plan, pieces, launched, acc, old, words, ctmp, mem, late>>

-----------------------------------------------------------------------------
Ended == \A c \in CTAs : at[c] = "out"

\* The launches of a stream run one after another.
Launch ==
  /\ Ended /\ launched < Launches
  /\ launched' = launched + 1
  /\ \E p \in Plans : Start(p)
  /\ UNCHANGED words

Step(c) ==
  \/ Stride(c) \/ Multiply(c) \/ TakeTurn(c) \/ PublishTurn(c) \/ StoreTile(c) \/ NextStage(c)
  \/ LoadSense(c) \/ Arrive(c) \/ ResetCount(c) \/ ReleaseSense(c) \/ Pass(c)

\* The workspace is allocated zeroed; nothing was launched on it yet.
Init ==
  /\ launched = 0 /\ plan \in Plans /\ pieces = [w \in {"fc1", "fc2"} |-> <<>>]
  /\ at = [c \in CTAs |-> "out"]
  /\ seg = [c \in CTAs |-> 1] /\ job = [c \in CTAs |-> 1] /\ todo = [c \in CTAs |-> <<>>]
  /\ acc = [c \in CTAs |-> NoSum] /\ old = [c \in CTAs |-> 0]
  /\ sense = 0 /\ count = 0 /\ lock = [s \in Slots |-> 0]
  /\ ctmp = [x \in {"fc1", "fc2"} \X Slots |-> StaleSum]
  /\ mem = [cell \in Cells(plan) |-> Left]
  /\ late = [c \in CTAs |-> {}]

Next == (\E c \in CTAs : Step(c)) \/ Launch

\* A cooperative launch is resident as a whole: each of its CTAs goes on.
Spec == Init /\ [][Next]_vars /\ \A c \in CTAs : WF_vars(Step(c))

-----------------------------------------------------------------------------
(* What the kernel promises. *)

Split == [tile : Nat, lo : Nat, hi : Nat, count : Nat, idx : Nat, slot : Nat]

TypeOK ==
  /\ plan \in Plans /\ launched \in 0 .. Launches
  /\ at \in [CTAs -> {"work", "turn", "publish", "store", "load", "arrive", "spin", "reset", "release", "out"}]
  /\ seg \in [CTAs -> Nat \ {0}] /\ job \in [CTAs -> Nat \ {0}] /\ todo \in [CTAs -> Seq(Split)]
  /\ old \in [CTAs -> Nat] /\ sense \in Nat /\ count \in Nat /\ lock \in [Slots -> Nat]

\* No CTA works in a stage before every other has finished the stage before and
\* waits for the barrier only to notice that it is open.
PhasesApart ==
  \A c, d \in Grid : seg[d] < seg[c] => seg[d] = seg[c] - 1 /\ at[d] = "spin" /\ old[d] # sense

\* Between its turn and its publication a CTA has the lock word and the scratch
\* row of its tile to itself.
TurnsApart ==
  \A c, d \in Grid : at[c] = "publish" /\ at[d] = "publish" /\ c # d =>
    <<Work(c), Piece(c).slot>> # <<Work(d), Piece(d).slot>>

\* Every launch leaves the words of the workspace as it found them, and the sum of
\* all K tiles of whole inputs, each once, in every tile of an expert that is here.
LaunchComputes ==
  /\ TypeOK /\ TurnsApart
  /\ Ended /\ launched > 0 =>
       /\ count = 0 /\ \A s \in Slots : lock[s] = 0
    /\ \A t \in Tiles(plan, "fc2") :
         LET here == t \div plan.n2 \notin plan.dead
             cell == Target(plan, "fc2", t)
         IN /\ here /\ ~plan.fusedSum => mem[cell] = {<<"fc2", t>>}
            /\ here /\ plan.fusedSum =>
                 mem[cell] = {<<"fc2", u>> : u \in {u \in Tiles(plan, "fc2") :
                                u \div plan.n2 \notin plan.dead /\ Target(plan, "fc2", u) = cell}}
            /\ ~here /\ plan.mapped => mem[cell] = {}

\* Every launch ends: no CTA waits for a turn or at a barrier for ever.
EveryLaunchEnds == []<>Ended

\* What the pieces of a GEMM owe each other, the CTAs having worked them out apart:
\* those of a tile cut it up whole, take every turn once and meet at one lock word,
\* which no other tile uses and which is one of the launch's own.
Consistent(p, w) ==
  LET g == Gemm(p, w)
      of == [c \in 0 .. GridX(p) - 1 |-> Pieces(p, w, c)]
      all == {x \in UNION {{c} \X DOMAIN of[c] : c \in DOMAIN of} : of[x[1]][x[2]].tile < g.mn}
      Its(x) == of[x[1]][x[2]]
      shared == {x \in all : Its(x).count > 1}
  IN /\ \A x, y \in shared : Its(x).tile = Its(y).tile <=> Its(x).slot = Its(y).slot
     /\ \A x \in shared : Its(x).slot < GridX(p)
     /\ \A t \in Tiles(p, w) :
          LET on == {x \in all : Its(x).tile = t}
          IN /\ UNION {Its(x).lo .. Its(x).hi - 1 : x \in on} = 0 .. g.k - 1
             /\ \A x \in on : Its(x).lo < Its(x).hi /\ {Its(y).idx : y \in on} = 0 .. Its(x).count - 1
             /\ \A x, y \in on : x # y =>
                  Its(x).count = Its(y).count /\ Its(x).idx # Its(y).idx
                    /\ (Its(x).idx < Its(y).idx => Its(y).hi <= Its(x).lo)
=============================================================================
