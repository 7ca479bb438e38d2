------------------------ MODULE FusedMoeKernelProofs ------------------------
(***************************************************************************)
(* The launches of FusedMoeKernel, for any number of CTAs, any plans and   *)
(* any sequence of launches on one workspace: the barrier keeps the stages *)
(* of a launch apart, and every launch computes what it should.            *)
(* The barrier's counter is reset and its sense moved on in two steps,     *)
(* while CTAs that passed it may already be on their way to the next: its  *)
(* invariant says who can be where meanwhile.  The turns at a tile that is *)
(* cut along K go by the lock word, which says whose turn it is exactly    *)
(* while some have had theirs and some have not; the scratch row and the   *)
(* accumulators then hold the sums of the slices up to one, and the        *)
(* buffers what the stages that are done for a CTA must have left.         *)
(***************************************************************************)
EXTENDS FusedMoeKernel, FiniteSetTheorems, SequenceTheorems, TLAPS

Places == {"work", "turn", "publish", "store", "load", "arrive", "spin", "reset", "release", "out"}

\* The CTAs that the next release lets go, and the one that is about to release.
Arrived == {c \in Grid : at[c] = "spin" /\ old[c] = sense}
Closes(c) == at[c] \in {"reset", "release"}

\* The round of a CTA, one ahead of its segment while the open barrier waits for it.
Round(c) == IF at[c] = "spin" /\ old[c] # sense THEN seg[c] + 1 ELSE seg[c]

BarrierType ==
  /\ plan \in Plans
  /\ at \in [CTAs -> Places] /\ seg \in [CTAs -> Nat] /\ old \in [CTAs -> Nat]
  /\ sense \in Nat

\* CTAs that the launch does not have are out.
OthersOut == \A c \in CTAs \ Grid : at[c] = "out"

OneRound == \A c, d \in Grid : Round(c) = Round(d)

\* The sense cannot move between a CTA's look at it and its arrival.
SenseIsFresh == \A c \in Grid : at[c] = "arrive" => old[c] = sense

\* Who closes the barrier is the last: all others have arrived at it and wait.
CloserIsLast == \A c \in Grid : Closes(c) => Arrived = Grid \ {c}

CountIsArrived == (\A c \in Grid : ~Closes(c)) => count = Cardinality(Arrived)
ResetBeforeRelease == \A c \in Grid : at[c] = "release" => count = 0

BarrierInv ==
  /\ BarrierType /\ OthersOut /\ OneRound /\ SenseIsFresh
  /\ CloserIsLast /\ CountIsArrived /\ ResetBeforeRelease

-----------------------------------------------------------------------------
\* A quotient of a number by one not larger is positive.
LEMMA PositiveQuotient ==
  ASSUME NEW a \in Nat, NEW b \in Nat \ {0}, a >= b
  PROVE  a \div b \in Nat \ {0}
<1>1. /\ a \div b \in Int
      /\ a = b * (a \div b) + (a % b) /\ a % b \in 0 .. b - 1
  OBVIOUS
<1> DEFINE q == a \div b
<1>2. SUFFICES ASSUME q <= 0 PROVE FALSE
  BY <1>1
<1>3. b * q <= 0
  BY <1>1, <1>2
<1> QED
  BY <1>1, <1>3

\* A product of positive numbers is positive.
LEMMA PositiveProduct ==
  ASSUME NEW a \in Nat \ {0}, NEW b \in Nat \ {0}
  PROVE  a * b \in Nat \ {0}
OBVIOUS

\* The grid of every launch is a number.
LEMMA GridIsNat == ASSUME NEW p \in Plans PROVE GridX(p) \in Nat
<1>1. p \in Plan /\ Sms \in Nat \ {0}
  BY KernelAssumption
<1>2. /\ p.blocks \in Nat \ {0} /\ p.n1 \in Nat \ {0} /\ p.perSM \in 1 .. 4
  BY <1>1 DEF Plan
<1> DEFINE cap == Sms * p.perSM
           fc1 == p.blocks * p.n1
           waves == (fc1 + cap - 1) \div cap
<1>3. cap \in Nat \ {0}
  BY <1>1, <1>2, PositiveProduct
<1>4. fc1 \in Nat \ {0}
  BY <1>2, PositiveProduct
<1>5. waves \in Nat \ {0}
  <2>1. fc1 + cap - 1 \in Nat /\ fc1 + cap - 1 >= cap
    BY <1>3, <1>4
  <2> HIDE DEF cap, fc1
  <2> QED
    BY <2>1, <1>3, PositiveQuotient
<1> HIDE DEF cap, fc1, waves
<1>6. fc1 \div waves \in Nat
  BY <1>4, <1>5
<1>7. \/ GridX(p) = cap \/ GridX(p) = fc1 \/ GridX(p) = fc1 \div waves
  BY DEF GridX, Gemm, Ceil, cap, fc1, waves
<1> QED
  BY <1>3, <1>4, <1>6, <1>7

\* The CTAs of a launch are among those there may be, and finitely many.
LEMMA GridOfPlan ==
  ASSUME plan \in Plans
  PROVE  /\ Grid \subseteq CTAs /\ IsFiniteSet(Grid) /\ Cardinality(Grid) = GridX(plan)
         /\ GridX(plan) \in Nat
<1>1. GridX(plan) \in Nat
  BY GridIsNat
<1>2. Grid \subseteq CTAs
  BY DEF Grid, CTAs
<1>3. IsFiniteSet(Grid) /\ Cardinality(Grid) = GridX(plan)
  BY <1>1, FS_Interval DEF Grid
<1> QED
  BY <1>1, <1>2, <1>3

\* CTAs are numbers.
LEMMA CTAIsNat == ASSUME NEW c \in CTAs PROVE c \in Nat
<1>1. PICK p \in Plans : c \in 0 .. GridX(p) - 1
  BY DEF CTAs
<1> QED
  BY <1>1, GridIsNat

-----------------------------------------------------------------------------
\* Before the first launch, and at the start of each.
LEMMA InitBarrier == Init => BarrierInv
<1> SUFFICES ASSUME Init PROVE BarrierInv
  OBVIOUS
<1>1. BarrierType /\ OthersOut
  BY DEF Init, BarrierType, OthersOut, Places
<1>2. Grid \subseteq CTAs
  BY <1>1, GridOfPlan DEF BarrierType
<1>3. \A c \in Grid : at[c] = "out" /\ seg[c] = 1
  BY <1>2 DEF Init
<1>4. Arrived = {}
  BY <1>3 DEF Arrived
<1>5. CountIsArrived
  BY <1>4, FS_EmptySet DEF CountIsArrived, Init
<1>6. OneRound
  BY <1>3 DEF OneRound, Round
<1> QED
  BY <1>1, <1>3, <1>5, <1>6 DEF BarrierInv, SenseIsFresh, CloserIsLast, ResetBeforeRelease, Closes

LEMMA LaunchBarrier == BarrierInv /\ Launch => BarrierInv'
<1> SUFFICES ASSUME BarrierInv, Launch PROVE BarrierInv'
  OBVIOUS
<1>1. PICK p \in Plans : Start(p)
  BY DEF Launch
<1>2. /\ \A c \in CTAs : at[c] = "out"
      /\ sense' = sense /\ count' = count
  BY DEF Launch, Ended, words
<1>3. Grid \subseteq CTAs
  BY GridOfPlan DEF BarrierInv, BarrierType
<1>4. count = 0
  <2>1. Arrived = {} /\ \A c \in Grid : ~Closes(c)
    BY <1>2, <1>3 DEF Arrived, Closes
  <2> QED
    BY <2>1, FS_EmptySet DEF BarrierInv, CountIsArrived
<1>5. /\ plan' = p
      /\ at' = [c \in CTAs |-> IF c < GridX(p) THEN "work" ELSE "out"]
      /\ seg' = [c \in CTAs |-> 1] /\ old' = [c \in CTAs |-> 0]
  BY <1>1 DEF Start
<1>6. BarrierType'
  BY <1>2, <1>5 DEF BarrierInv, BarrierType, Places
<1>7. Grid' = 0 .. GridX(p) - 1 /\ Grid' \subseteq CTAs /\ GridX(p) \in Nat
  BY <1>5, GridIsNat DEF Grid, CTAs
<1>8. \A c \in Grid' : at'[c] = "work" /\ seg'[c] = 1
  BY <1>5, <1>7
<1>9. OthersOut'
  BY <1>5, <1>7, CTAIsNat DEF OthersOut
<1>10. Arrived' = {}
  BY <1>8 DEF Arrived
<1>11. CountIsArrived'
  BY <1>2, <1>4, <1>10, FS_EmptySet DEF CountIsArrived
<1>12. OneRound'
  BY <1>8 DEF OneRound, Round
<1> QED
  BY <1>6, <1>8, <1>9, <1>11, <1>12 DEF BarrierInv, SenseIsFresh, CloserIsLast, ResetBeforeRelease, Closes

-----------------------------------------------------------------------------
\* A CTA on its way, away from the barrier.
Quiet(c) ==
  /\ at[c] \in Places \ {"arrive", "spin", "reset", "release", "out"}
  /\ \E where \in Places \ {"arrive", "spin", "reset", "release"} : at' = [at EXCEPT ![c] = where]
  /\ UNCHANGED <<plan, seg, old, sense, count>>

LEMMA QuietBarrier == ASSUME NEW c \in CTAs PROVE BarrierInv /\ Quiet(c) => BarrierInv'
<1> SUFFICES ASSUME BarrierInv, Quiet(c) PROVE BarrierInv'
  OBVIOUS
<1>1. PICK where \in Places \ {"arrive", "spin", "reset", "release"} : at' = [at EXCEPT ![c] = where]
  BY DEF Quiet
<1>2. Grid' = Grid /\ Grid \subseteq CTAs
  BY GridOfPlan DEF BarrierInv, BarrierType, Grid, Quiet
<1>3. c \in Grid
  BY DEF BarrierInv, OthersOut, Quiet
<1>4. /\ \A d \in CTAs \ {c} : at'[d] = at[d]
      /\ at'[c] = where
  BY <1>1 DEF BarrierInv, BarrierType
<1>5. BarrierType'
  BY <1>1 DEF BarrierInv, BarrierType, Quiet
<1>6. OthersOut'
  BY <1>2, <1>3, <1>4 DEF BarrierInv, OthersOut
<1>7. \A d \in Grid : Round(d)' = Round(d)
  BY <1>2, <1>4 DEF Round, Quiet
<1>8. Arrived' = Arrived
  BY <1>2, <1>4 DEF Arrived, Quiet
<1>9. \A d \in Grid : Closes(d)' = Closes(d)
  BY <1>2, <1>4 DEF Closes, Quiet
<1>10. OneRound'
  BY <1>2, <1>7 DEF BarrierInv, OneRound
<1>11. SenseIsFresh' /\ ResetBeforeRelease'
  BY <1>2, <1>4 DEF BarrierInv, SenseIsFresh, ResetBeforeRelease, Quiet
<1>12. CloserIsLast' /\ CountIsArrived'
  BY <1>2, <1>8, <1>9 DEF BarrierInv, CloserIsLast, CountIsArrived, Quiet
<1> QED
  BY <1>5, <1>6, <1>10, <1>11, <1>12 DEF BarrierInv

\* The steps of the stages are quiet.
LEMMA StagesAreQuiet ==
  ASSUME NEW c \in CTAs, BarrierInv,
         Stride(c) \/ Multiply(c) \/ TakeTurn(c) \/ PublishTurn(c) \/ StoreTile(c) \/ NextStage(c)
  PROVE  Quiet(c)
<1> USE DEF Go, words, Places
<1>0. at \in [CTAs -> Places] /\ at = [at EXCEPT ![c] = at[c]]
  BY DEF BarrierInv, BarrierType
<1>1. CASE Stride(c)
  BY <1>0, <1>1 DEF Stride, Quiet
<1>2. CASE Multiply(c)
  BY <1>2 DEF Multiply, Quiet
<1>3. CASE TakeTurn(c)
  BY <1>3 DEF TakeTurn, Quiet
<1>4. CASE PublishTurn(c)
  BY <1>4 DEF PublishTurn, Quiet
<1>5. CASE StoreTile(c)
  BY <1>5 DEF StoreTile, Quiet
<1>6. CASE NextStage(c)
  BY <1>0, <1>6 DEF NextStage, Quiet
<1> QED
  BY <1>1, <1>2, <1>3, <1>4, <1>5, <1>6

-----------------------------------------------------------------------------
LEMMA LoadSenseBarrier == ASSUME NEW c \in CTAs PROVE BarrierInv /\ LoadSense(c) => BarrierInv'
<1> SUFFICES ASSUME BarrierInv, LoadSense(c) PROVE BarrierInv'
  OBVIOUS
<1>1. /\ at[c] = "load" /\ at' = [at EXCEPT ![c] = "arrive"] /\ old' = [old EXCEPT ![c] = sense]
      /\ UNCHANGED <<plan, seg, sense, count>>
  BY DEF LoadSense, Go, words
<1>2. Grid' = Grid /\ Grid \subseteq CTAs
  BY <1>1, GridOfPlan DEF BarrierInv, BarrierType, Grid
<1>3. c \in Grid
  BY <1>1 DEF BarrierInv, OthersOut
<1>4. /\ \A d \in CTAs \ {c} : at'[d] = at[d] /\ old'[d] = old[d]
      /\ at'[c] = "arrive" /\ old'[c] = sense
  BY <1>1 DEF BarrierInv, BarrierType
<1>5. BarrierType'
  BY <1>1 DEF BarrierInv, BarrierType, Places
<1>6. OthersOut'
  BY <1>2, <1>3, <1>4 DEF BarrierInv, OthersOut
<1>7. \A d \in Grid : Round(d)' = Round(d)
  BY <1>1, <1>2, <1>4 DEF Round
<1>8. Arrived' = Arrived
  BY <1>1, <1>2, <1>4 DEF Arrived
<1>9. \A d \in Grid : Closes(d)' = Closes(d)
  BY <1>1, <1>2, <1>4 DEF Closes
<1>10. OneRound'
  BY <1>2, <1>7 DEF BarrierInv, OneRound
<1>11. SenseIsFresh' /\ ResetBeforeRelease'
  BY <1>1, <1>2, <1>4 DEF BarrierInv, SenseIsFresh, ResetBeforeRelease
<1>12. CloserIsLast' /\ CountIsArrived'
  BY <1>1, <1>2, <1>8, <1>9 DEF BarrierInv, CloserIsLast, CountIsArrived
<1> QED
  BY <1>5, <1>6, <1>10, <1>11, <1>12 DEF BarrierInv

\* The one that finds all others counted is the last, and the others are counted
\* because they wait.
LEMMA ArriveBarrier == ASSUME NEW c \in CTAs PROVE BarrierInv /\ Arrive(c) => BarrierInv'
<1> SUFFICES ASSUME BarrierInv, Arrive(c) PROVE BarrierInv'
  OBVIOUS
<1> DEFINE last == count = GridX(plan) - 1
<1>1. /\ at[c] = "arrive" /\ at' = [at EXCEPT ![c] = IF last THEN "reset" ELSE "spin"]
      /\ count' = count + 1
      /\ UNCHANGED <<plan, seg, old, sense>>
  BY DEF Arrive, Go
<1>2. Grid' = Grid /\ Grid \subseteq CTAs /\ IsFiniteSet(Grid)
  BY <1>1, GridOfPlan DEF BarrierInv, BarrierType, Grid
<1>3. c \in Grid
  BY <1>1 DEF BarrierInv, OthersOut
<1>4. /\ \A d \in CTAs \ {c} : at'[d] = at[d]
      /\ at'[c] = IF last THEN "reset" ELSE "spin"
  BY <1>1 DEF BarrierInv, BarrierType
<1>5. BarrierType'
  BY <1>1 DEF BarrierInv, BarrierType, Places
<1>6. OthersOut'
  BY <1>2, <1>3, <1>4 DEF BarrierInv, OthersOut
<1>7. old[c] = sense /\ c \notin Arrived
  BY <1>1, <1>3 DEF BarrierInv, SenseIsFresh, Arrived
<1>8. \A d \in Grid : ~Closes(d)
  BY <1>1, <1>3, <1>7 DEF BarrierInv, CloserIsLast, Closes
<1>9. count = Cardinality(Arrived) /\ IsFiniteSet(Arrived)
  BY <1>2, <1>8, FS_Subset DEF BarrierInv, CountIsArrived, Arrived
<1>10. OneRound'
  <2>1. \A d \in Grid : Round(d)' = Round(d)
    BY <1>1, <1>2, <1>4, <1>7 DEF Round
  <2> QED
    BY <1>2, <2>1 DEF BarrierInv, OneRound
<1>11. SenseIsFresh' /\ ResetBeforeRelease'
  BY <1>1, <1>2, <1>4, <1>8 DEF BarrierInv, SenseIsFresh, ResetBeforeRelease, Closes
<1>12. CASE last
  <2>1. Arrived' = Arrived
    BY <1>1, <1>2, <1>4, <1>12 DEF Arrived
  <2>2. Arrived = Grid \ {c}
    <3>1. /\ IsFiniteSet(Grid \ {c}) /\ Cardinality(Grid \ {c}) = GridX(plan) - 1
      BY <1>2, <1>3, GridOfPlan, FS_RemoveElement DEF BarrierInv, BarrierType
    <3>2. Arrived \subseteq Grid \ {c}
      BY <1>7 DEF Arrived
    <3> QED
      BY <1>9, <1>12, <3>1, <3>2, FS_Subset
  <2>3. \A d \in Grid : Closes(d)' <=> d = c
    BY <1>2, <1>4, <1>8, <1>12 DEF Closes
  <2> QED
    BY <1>2, <1>3, <1>5, <1>6, <1>10, <1>11, <2>1, <2>2, <2>3 DEF BarrierInv, CloserIsLast, CountIsArrived
<1>13. CASE ~last
  <2>1. Arrived' = Arrived \cup {c}
    BY <1>1, <1>2, <1>3, <1>4, <1>7, <1>13 DEF Arrived
  <2>2. Cardinality(Arrived') = count'
    BY <1>1, <1>7, <1>9, <2>1, FS_AddElement
  <2>3. \A d \in Grid : ~Closes(d)'
    BY <1>2, <1>4, <1>8, <1>13 DEF Closes
  <2> QED
    BY <1>2, <1>5, <1>6, <1>10, <1>11, <2>2, <2>3 DEF BarrierInv, CloserIsLast, CountIsArrived
<1> QED
  BY <1>12, <1>13

LEMMA ResetCountBarrier == ASSUME NEW c \in CTAs PROVE BarrierInv /\ ResetCount(c) => BarrierInv'
<1> SUFFICES ASSUME BarrierInv, ResetCount(c) PROVE BarrierInv'
  OBVIOUS
<1>1. /\ at[c] = "reset" /\ at' = [at EXCEPT ![c] = "release"] /\ count' = 0
      /\ UNCHANGED <<plan, seg, old, sense>>
  BY DEF ResetCount, Go
<1>2. Grid' = Grid /\ Grid \subseteq CTAs
  BY <1>1, GridOfPlan DEF BarrierInv, BarrierType, Grid
<1>3. c \in Grid
  BY <1>1 DEF BarrierInv, OthersOut
<1>4. /\ \A d \in CTAs \ {c} : at'[d] = at[d]
      /\ at'[c] = "release"
  BY <1>1 DEF BarrierInv, BarrierType
<1>5. BarrierType'
  BY <1>1 DEF BarrierInv, BarrierType, Places
<1>6. OthersOut'
  BY <1>2, <1>3, <1>4 DEF BarrierInv, OthersOut
<1>7. Arrived' = Arrived
  BY <1>1, <1>2, <1>4 DEF Arrived
<1>8. \A d \in Grid : Closes(d)' = Closes(d)
  BY <1>1, <1>2, <1>4 DEF Closes
<1>9. OneRound'
  <2>1. \A d \in Grid : Round(d)' = Round(d)
    BY <1>1, <1>2, <1>4 DEF Round
  <2> QED
    BY <1>2, <2>1 DEF BarrierInv, OneRound
<1>10. SenseIsFresh' /\ ResetBeforeRelease'
  BY <1>1, <1>2, <1>4 DEF BarrierInv, SenseIsFresh, ResetBeforeRelease
<1>11. CloserIsLast' /\ CountIsArrived'
  BY <1>1, <1>2, <1>3, <1>7, <1>8 DEF BarrierInv, CloserIsLast, CountIsArrived, Closes
<1> QED
  BY <1>5, <1>6, <1>9, <1>10, <1>11 DEF BarrierInv

\* The release lets all others go: they wait with the sense it moves on from.
LEMMA ReleaseSenseBarrier == ASSUME NEW c \in CTAs PROVE BarrierInv /\ ReleaseSense(c) => BarrierInv'
<1> SUFFICES ASSUME BarrierInv, ReleaseSense(c) PROVE BarrierInv'
  OBVIOUS
<1>1. /\ at[c] = "release" /\ at' = [at EXCEPT ![c] = "work"] /\ seg' = [seg EXCEPT ![c] = @ + 1]
      /\ sense' = sense + 1
      /\ UNCHANGED <<plan, old, count>>
  BY DEF ReleaseSense, Leave, Go
<1>2. Grid' = Grid /\ Grid \subseteq CTAs
  BY <1>1, GridOfPlan DEF BarrierInv, BarrierType, Grid
<1>3. c \in Grid
  BY <1>1 DEF BarrierInv, OthersOut
<1>4. /\ \A d \in CTAs \ {c} : at'[d] = at[d] /\ seg'[d] = seg[d]
      /\ at'[c] = "work" /\ seg'[c] = seg[c] + 1
  BY <1>1 DEF BarrierInv, BarrierType
<1>5. BarrierType'
  BY <1>1 DEF BarrierInv, BarrierType, Places
<1>6. OthersOut'
  BY <1>2, <1>3, <1>4 DEF BarrierInv, OthersOut
<1>7. \A d \in Grid \ {c} : at[d] = "spin" /\ old[d] = sense
  BY <1>1, <1>3 DEF BarrierInv, CloserIsLast, Closes, Arrived
<1>8. count = 0
  BY <1>1, <1>3 DEF BarrierInv, ResetBeforeRelease
<1>9. sense \in Nat /\ sense' # sense
  BY <1>1 DEF BarrierInv, BarrierType
<1>10. OneRound'
  <2>1. \A d \in Grid : Round(d) = seg[d]
    BY <1>1, <1>7 DEF Round
  <2>2. \A d \in Grid : Round(d)' = seg[d] + 1
    BY <1>1, <1>2, <1>4, <1>7, <1>9 DEF Round
  <2> QED
    BY <1>2, <2>1, <2>2 DEF BarrierInv, OneRound
<1>11. Arrived' = {}
  BY <1>1, <1>2, <1>4, <1>7, <1>9 DEF Arrived
<1>12. \A d \in Grid : ~Closes(d)' /\ at'[d] # "arrive"
  BY <1>2, <1>4, <1>7 DEF Closes
<1>13. SenseIsFresh' /\ ResetBeforeRelease' /\ CloserIsLast'
  BY <1>2, <1>12 DEF SenseIsFresh, ResetBeforeRelease, CloserIsLast, Closes
<1>14. CountIsArrived'
  BY <1>1, <1>8, <1>11, FS_EmptySet DEF CountIsArrived
<1> QED
  BY <1>5, <1>6, <1>10, <1>13, <1>14 DEF BarrierInv

LEMMA PassBarrier == ASSUME NEW c \in CTAs PROVE BarrierInv /\ Pass(c) => BarrierInv'
<1> SUFFICES ASSUME BarrierInv, Pass(c) PROVE BarrierInv'
  OBVIOUS
<1>1. /\ at[c] = "spin" /\ sense # old[c] /\ at' = [at EXCEPT ![c] = "work"]
      /\ seg' = [seg EXCEPT ![c] = @ + 1]
      /\ UNCHANGED <<plan, old, sense, count>>
  BY DEF Pass, Leave, Go, words
<1>2. Grid' = Grid /\ Grid \subseteq CTAs
  BY <1>1, GridOfPlan DEF BarrierInv, BarrierType, Grid
<1>3. c \in Grid
  BY <1>1 DEF BarrierInv, OthersOut
<1>4. /\ \A d \in CTAs \ {c} : at'[d] = at[d] /\ seg'[d] = seg[d]
      /\ at'[c] = "work" /\ seg'[c] = seg[c] + 1
  BY <1>1 DEF BarrierInv, BarrierType
<1>5. BarrierType'
  BY <1>1 DEF BarrierInv, BarrierType, Places
<1>6. OthersOut'
  BY <1>2, <1>3, <1>4 DEF BarrierInv, OthersOut
<1>7. Arrived' = Arrived
  BY <1>1, <1>2, <1>4 DEF Arrived
<1>8. \A d \in Grid : Closes(d)' = Closes(d)
  BY <1>1, <1>2, <1>4 DEF Closes
<1>9. OneRound'
  <2>1. \A d \in Grid : Round(d)' = Round(d)
    BY <1>1, <1>2, <1>4 DEF Round
  <2> QED
    BY <1>2, <2>1 DEF BarrierInv, OneRound
<1>10. SenseIsFresh' /\ ResetBeforeRelease'
  BY <1>1, <1>2, <1>4 DEF BarrierInv, SenseIsFresh, ResetBeforeRelease
<1>11. CloserIsLast' /\ CountIsArrived'
  BY <1>1, <1>2, <1>7, <1>8 DEF BarrierInv, CloserIsLast, CountIsArrived
<1> QED
  BY <1>5, <1>6, <1>9, <1>10, <1>11 DEF BarrierInv

-----------------------------------------------------------------------------
\* A step that changes nothing.
LEMMA StutterBarrier == BarrierInv /\ UNCHANGED vars => BarrierInv'
BY DEF BarrierInv, BarrierType, OthersOut, OneRound, SenseIsFresh, CloserIsLast, CountIsArrived,
       ResetBeforeRelease, Round, Arrived, Closes, Grid, vars, control, words

LEMMA NextBarrier == BarrierInv /\ [Next]_vars => BarrierInv'
<1> SUFFICES ASSUME BarrierInv, [Next]_vars PROVE BarrierInv'
  OBVIOUS
<1>1. CASE Launch
  BY <1>1, LaunchBarrier
<1>2. ASSUME NEW c \in CTAs, Step(c) PROVE BarrierInv'
  <2>1. CASE Stride(c) \/ Multiply(c) \/ TakeTurn(c) \/ PublishTurn(c) \/ StoreTile(c) \/ NextStage(c)
    BY <2>1, StagesAreQuiet, QuietBarrier
  <2>2. CASE LoadSense(c)
    BY <2>2, LoadSenseBarrier
  <2>3. CASE Arrive(c)
    BY <2>3, ArriveBarrier
  <2>4. CASE ResetCount(c)
    BY <2>4, ResetCountBarrier
  <2>5. CASE ReleaseSense(c)
    BY <2>5, ReleaseSenseBarrier
  <2>6. CASE Pass(c)
    BY <2>6, PassBarrier
  <2> QED
    BY <1>2, <2>1, <2>2, <2>3, <2>4, <2>5, <2>6 DEF Step
<1>3. CASE UNCHANGED vars
  BY <1>3, StutterBarrier
<1> QED
  BY <1>1, <1>2, <1>3 DEF Next

\* CTAs of one round are apart by the barrier that one of them has not left.
LEMMA RoundsKeepPhasesApart == BarrierInv => PhasesApart
<1> SUFFICES ASSUME BarrierInv, NEW c \in Grid, NEW d \in Grid, seg[d] < seg[c]
             PROVE  seg[d] = seg[c] - 1 /\ at[d] = "spin" /\ old[d] # sense
  BY DEF PhasesApart
<1>1. seg[c] \in Nat /\ seg[d] \in Nat
  BY GridOfPlan DEF BarrierInv, BarrierType
<1>2. Round(c) = Round(d)
  BY DEF BarrierInv, OneRound
<1> QED
  BY <1>1, <1>2 DEF Round

\* In every launch no CTA works in a stage before all others have finished the stage
\* before (_grid_barrier), whatever the grid, the plan, and the launches before it.
THEOREM BarrierSeparates == Spec => []PhasesApart
<1>1. Spec => []BarrierInv
  BY InitBarrier, NextBarrier, PTL DEF Spec
<1> QED
  BY <1>1, RoundsKeepPhasesApart, PTL

-----------------------------------------------------------------------------
(* The numbers of a launch and of its schedule. *)

Gemms == {"fc1", "fc2"}

LEMMA NumbersOfPlan ==
  ASSUME NEW p \in Plans
  PROVE  /\ p \in Plan /\ Sms \in Nat \ {0}
         /\ p.blocks \in Nat \ {0} /\ p.n1 \in Nat \ {0} /\ p.n2 \in Nat \ {0} /\ p.k1 \in Nat \ {0} /\ p.k2 \in Nat \ {0}
         /\ p.units \in Nat \ {0} /\ p.topk \in Nat \ {0} /\ p.perSM \in 1 .. 4 /\ p.dead \subseteq Nat
         /\ p.m8 \in BOOLEAN /\ p.whole \in BOOLEAN /\ p.direct \in BOOLEAN /\ p.gated \in BOOLEAN
         /\ p.rotated \in BOOLEAN /\ p.fusedSum \in BOOLEAN /\ p.mapped \in BOOLEAN
<1>1. p \in Plan /\ Sms \in Nat \ {0}
  BY KernelAssumption
<1>. QED
  BY <1>1 DEF Plan

\* The numbers of a GEMM, and those of its schedule.
LEMMA NumbersOfGemm ==
  ASSUME NEW p \in Plans, NEW w \in Gemms
  PROVE  /\ Gemm(p, w).mn \in Nat \ {0} /\ Gemm(p, w).n \in Nat \ {0} /\ Gemm(p, w).k \in Nat \ {0}
         /\ Gemm(p, w).mn = p.blocks * Gemm(p, w).n
<1>1. p.blocks * p.n1 \in Nat \ {0} /\ p.blocks * p.n2 \in Nat \ {0}
  BY NumbersOfPlan, PositiveProduct
<1>. QED
  BY <1>1, NumbersOfPlan DEF Gemm, Gemms

\* What one division leaves is less than the whole without a divisor, when one fits.
LEMMA RestAndDivisor ==
  ASSUME NEW a \in Nat, NEW b \in Nat \ {0}
  PROVE  /\ a % b \in 0 .. b - 1 /\ a % b <= a
         /\ a >= b => (a % b) + b <= a
<1>. DEFINE q == a \div b
            r == a % b
<1>1. q \in Nat /\ a = b * q + r /\ r \in 0 .. b - 1
  OBVIOUS
<1>2. CASE q = 0
  <2>1. a = r
    BY <1>1, <1>2
  <2>. QED
    BY <1>1, <2>1
<1>3. CASE q >= 1
  <2>1. b * q >= b
    <3>1. b * q = b * (q - 1) + b
      BY <1>1
    <3>2. b * (q - 1) >= 0
      BY <1>1, <1>3
    <3>. HIDE DEF q
    <3>. QED
      BY <1>1, <3>1, <3>2
  <2>. HIDE DEF q, r
  <2>2. b * q \in Nat
    BY <1>1
  <2>3. \A m \in Nat : a = m + r /\ m >= b => r <= a /\ r + b <= a
    BY <1>1
  <2>. QED
    BY <1>1, <2>1, <2>2, <2>3 DEF r
<1>. QED
  BY <1>1, <1>2, <1>3

LEMMA TailIsPart ==
  ASSUME NEW p \in Plans, NEW w \in Gemms, GridX(p) # 0
  PROVE  /\ Waves(p, Gemm(p, w)).tail \in 0 .. Gemm(p, w).mn
         /\ Waves(p, Gemm(p, w)).full \in Int
<1>. DEFINE g == Gemm(p, w)
            grid == GridX(p)
            rest == g.mn % grid
<1>1. grid \in Nat \ {0} /\ g.mn \in Nat \ {0}
  BY GridIsNat, NumbersOfGemm
<1>2. rest \in Nat /\ rest <= g.mn /\ (g.mn >= grid => (rest + grid) <= g.mn)
  <2>1. \A a \in Nat, b \in Nat \ {0} : a % b \in Nat /\ a % b <= a /\ (a >= b => (a % b) + b <= a)
    BY RestAndDivisor
  <2>. HIDE DEF g, grid
  <2>. QED
    BY <1>1, <2>1, Zenon
<1>3. Ceil(g.mn, grid) \in Int
  BY <1>1 DEF Ceil
<1>. HIDE DEF g, grid
<1>4. (g.mn - (rest + grid)) \div grid \in Int /\ (g.mn - rest) \div grid \in Int
  BY <1>1, <1>2
<1>. HIDE DEF rest
<1>. QED
  BY <1>1, <1>2, <1>3, <1>4 DEF Waves, g, grid, rest

LEMMA ItersIsNat ==
  ASSUME NEW p \in Plans, NEW w \in Gemms, GridX(p) # 0
  PROVE  /\ Iters(p, Gemm(p, w)) \in Nat
         /\ Waves(p, Gemm(p, w)).tail # 0 => Iters(p, Gemm(p, w)) # 0
<1>. DEFINE k == Gemm(p, w).k
            tail == Waves(p, Gemm(p, w)).tail
            grid == GridX(p)
            kt == k * tail
<1>1. k \in Nat \ {0} /\ tail \in Nat /\ grid \in Nat \ {0}
  BY GridIsNat, NumbersOfGemm, TailIsPart
<1>2. kt \in Nat /\ (tail # 0 => kt # 0)
  BY <1>1
<1>3. Iters(p, Gemm(p, w)) = (kt + grid - 1) \div grid
  BY DEF Iters, Ceil
<1>. HIDE DEF kt, tail, grid, k
<1>4. (kt + grid - 1) \div grid \in Nat
  BY <1>1, <1>2
<1>5. kt # 0 => (kt + grid - 1) \div grid # 0
  <2>1. ASSUME kt # 0 PROVE kt + grid - 1 \in Nat /\ kt + grid - 1 >= grid
    BY <1>1, <1>2, <2>1
  <2>. QED
    BY <1>1, <2>1, PositiveQuotient
<1>. QED
  BY <1>2, <1>3, <1>4, <1>5 DEF tail

SplitInt == [tile : Nat, lo : Nat, hi : Int, count : Int, idx : Int, slot : Nat]

LEMMA TailTilesAreNumbers ==
  ASSUME NEW p \in Plans, NEW w \in Gemms, NEW c \in 0 .. GridX(p) - 1
  PROVE  LET g == Gemm(p, w) first == (Iters(p, g) * c) \div g.k IN
         /\ first \in Nat
         /\ IsFiniteSet(TailTiles(p, g, c)) /\ Cardinality(TailTiles(p, g, c)) \in Nat
         /\ \A i \in 1 .. Cardinality(TailTiles(p, g, c)) : first + i - 1 \in 0 .. Waves(p, g).tail - 1
<1>. DEFINE g == Gemm(p, w)
            iters == Iters(p, g)
            first == (iters * c) \div g.k
            tail == Waves(p, g).tail
            tiles == TailTiles(p, g, c)
<1>1. GridX(p) # 0 /\ c \in Nat
  BY GridIsNat
<1>2. iters \in Nat /\ tail \in Nat /\ g.k \in Nat \ {0}
  BY <1>1, NumbersOfGemm, TailIsPart, ItersIsNat
<1>3. first \in Nat
  <2>1. iters * c \in Nat
    BY <1>1, <1>2
  <2>. HIDE DEF iters, g
  <2>. QED
    BY <1>2, <2>1
<1>. DEFINE range == first .. tail - 1
<1>4. IsFiniteSet(range) /\ Cardinality(range) = IF first > tail - 1 THEN 0 ELSE tail - 1 - first + 1
  <2>. DEFINE top == tail - 1
  <2>1. first \in Int /\ top \in Int
    BY <1>2, <1>3
  <2>2. \A a, b \in Int : IsFiniteSet(a .. b) /\ Cardinality(a .. b) = IF a > b THEN 0 ELSE b - a + 1
    BY FS_Interval
  <2>. HIDE DEF first, top
  <2>3. IsFiniteSet(first .. top) /\ Cardinality(first .. top) = IF first > top THEN 0 ELSE top - first + 1
    BY <2>1, <2>2, Zenon
  <2>. QED
    BY <2>3 DEF top
<1>5. tiles \subseteq range
  BY DEF TailTiles
<1>. HIDE DEF tiles, range, first, tail, g
<1>6. IsFiniteSet(tiles) /\ Cardinality(tiles) <= Cardinality(range)
  BY <1>4, <1>5, FS_Subset
<1>7. Cardinality(tiles) \in Nat
  BY <1>6, FS_CardinalityType
<1>8. \A i \in 1 .. Cardinality(tiles) : first + i - 1 \in 0 .. tail - 1
  BY <1>2, <1>3, <1>4, <1>6, <1>7
<1>. QED
  BY <1>3, <1>6, <1>7, <1>8 DEF tiles, first, tail, g

LEMMA SplitTileType ==
  ASSUME NEW p \in Plans, NEW w \in Gemms, NEW c \in 0 .. GridX(p) - 1,
         NEW j \in 0 .. Waves(p, Gemm(p, w)).tail - 1
  PROVE  /\ SplitTile(p, Gemm(p, w), c, j) \in SplitInt
         /\ SplitTile(p, Gemm(p, w), c, j).tile \in Tiles(p, w)
<1>. DEFINE g == Gemm(p, w)
            iters == Iters(p, g)
            tail == Waves(p, g).tail
            s == Slices(iters, g.k, c, j)
<1>1. GridX(p) # 0 /\ c \in Nat
  BY GridIsNat
<1>2. /\ tail \in 0 .. g.mn /\ g.mn \in Nat /\ g.k \in Nat \ {0} /\ j \in Nat /\ j < tail
      /\ iters \in Nat \ {0}
  <2>1. tail \in 0 .. g.mn /\ g.mn \in Nat /\ g.k \in Nat \ {0}
    BY <1>1, NumbersOfGemm, TailIsPart
  <2>2. iters \in Nat /\ (tail # 0 => iters # 0)
    BY <1>1, ItersIsNat
  <2>. HIDE DEF tail, iters, g
  <2>3. j \in 0 .. tail - 1
    BY DEF tail, g
  <2>. QED
    BY <2>1, <2>2, <2>3
<1>3. s.count \in Int /\ s.idx \in Int
  <2>. DEFINE boundary == iters * Ceil(g.k * j, iters)
              offset == boundary - g.k * j
              delta == iters * c - boundary
              extra == IF offset > 0 THEN 1 ELSE 0
              total == Ceil(g.k - offset, iters) + extra
  <2>. HIDE DEF iters, g
  <2>1. g.k * j \in Int /\ iters * c \in Int
    BY <1>1, <1>2
  <2>2. boundary \in Int
    <3>1. Ceil(g.k * j, iters) \in Int
      BY <1>2, <2>1 DEF Ceil
    <3>. QED
      BY <1>2, <3>1
  <2>3. offset \in Int /\ delta \in Int /\ extra \in Int
    BY <2>1, <2>2
  <2>. HIDE DEF offset, delta, extra, boundary
  <2>4. total \in Int
    <3>1. Ceil(g.k - offset, iters) \in Int
      BY <1>2, <2>3 DEF Ceil
    <3>. QED
      BY <2>3, <3>1
  <2>5. delta \div iters \in Int
    BY <1>2, <2>3
  <2>. HIDE DEF total
  <2>. QED
    BY <2>3, <2>4, <2>5 DEF Slices, boundary, offset, delta, extra, total
<1>4. LockSlot(p, g, c, j) \in Nat
  <2>1. \A S \in SUBSET TailTiles(p, g, c) : Cardinality(S) \in Nat
    BY TailTilesAreNumbers, FS_Subset, FS_CardinalityType
  <2>. DEFINE Ends(i) == LET z == Slices(Iters(p, g), g.k, c, i) IN z.count > 1 /\ z.idx = z.count - 1
              S == {i \in TailTiles(p, g, c) : i <= j /\ Ends(i)}
  <2>2. Cardinality(S) \in Nat
    BY <2>1
  <2>3. LockSlot(p, g, c, j) = IF tail >= GridX(p) THEN c + Cardinality(S) ELSE j
    BY DEF LockSlot
  <2>. QED
    BY <1>1, <1>2, <2>2, <2>3
<1>5. /\ iters * c - g.k * j \in Int /\ iters * (c + 1) - g.k * j \in Int
      /\ g.mn - tail + j \in 0 .. g.mn - 1
  <2>. HIDE DEF iters, g, tail
  <2>. QED
    BY <1>1, <1>2
<1>. HIDE DEF iters, tail, s, g
<1>6. SplitTile(p, g, c, j) =
        [tile |-> g.mn - tail + j, lo |-> IF iters * c - g.k * j > 0 THEN iters * c - g.k * j ELSE 0,
         hi |-> IF iters * (c + 1) - g.k * j < g.k THEN iters * (c + 1) - g.k * j ELSE g.k,
         count |-> s.count, idx |-> s.idx, slot |-> LockSlot(p, g, c, j)]
  BY DEF SplitTile, iters, tail, s
<1>. QED
  BY <1>2, <1>3, <1>4, <1>5, <1>6 DEF SplitInt, Tiles, g

\* A piece is a whole tile or a slice of one.
LEMMA PiecesAreTiles ==
  ASSUME NEW p \in Plans, NEW w \in Gemms, NEW c \in 0 .. GridX(p) - 1
  PROVE  /\ Pieces(p, w, c) \in Seq(SplitInt)
         /\ \A i \in DOMAIN Pieces(p, w, c) :
              \/ Pieces(p, w, c)[i].tile \in Tiles(p, w)
              \/ Pieces(p, w, c)[i] \in Split
<1>. DEFINE g == Gemm(p, w)
            full == Waves(p, g).full
            first == (Iters(p, g) * c) \div g.k
            n == Cardinality(TailTiles(p, g, c))
            own == [i \in 1 .. full |-> OwnTile(g, c + (i - 1) * GridX(p))]
            split == [i \in 1 .. n |-> SplitTile(p, g, c, first + i - 1)]
<1>1. GridX(p) \in Nat \ {0} /\ c \in Nat
  BY GridIsNat
<1>2. full \in Int /\ g.k \in Nat
  BY <1>1, TailIsPart, NumbersOfGemm
<1>3. \A i \in 1 .. full : own[i] \in SplitInt /\ own[i] \in Split
  <2>1. \A i \in 1 .. full : c + (i - 1) * GridX(p) \in Nat
    BY <1>1, <1>2
  <2>. HIDE DEF g, full
  <2>. QED
    BY <1>2, <2>1 DEF OwnTile, SplitInt, Split
<1>4. n \in Nat /\ \A i \in 1 .. n : split[i] \in SplitInt /\ split[i].tile \in Tiles(p, w)
  BY TailTilesAreNumbers, SplitTileType
<1>5. Pieces(p, w, c) = own \o split
  BY DEF Pieces
<1>6. own \in Seq(SplitInt) /\ split \in Seq(SplitInt) /\ DOMAIN own = 1 .. Len(own)
      /\ \A i \in DOMAIN own : own[i] \in Split
  <2>. HIDE DEF n
  <2>1. split \in Seq(SplitInt)
    BY <1>4
  <2>. DEFINE m == IF full > 0 THEN full ELSE 0
  <2>2. m \in Nat /\ 1 .. full = 1 .. m
    BY <1>2
  <2>3. own = [i \in 1 .. m |-> OwnTile(g, c + (i - 1) * GridX(p))]
    BY <2>2
  <2>. HIDE DEF m, full
  <2>4. own \in [1 .. m -> SplitInt]
    BY <1>3, <2>2, <2>3
  <2>. HIDE DEF own
  <2>5. own \in Seq(SplitInt) /\ DOMAIN own = 1 .. m /\ Len(own) = m
    BY <2>2, <2>4
  <2>. QED
    BY <1>3, <2>1, <2>2, <2>5
<1>7. DOMAIN split = 1 .. n /\ Len(split) = n
  BY <1>4
<1>. HIDE DEF own, split, n
<1>. QED
  BY <1>4, <1>5, <1>6, <1>7

-----------------------------------------------------------------------------
(* Quotients as places among multiples, and the slices of a GEMM. *)

\* Products keep the order, and can be cancelled.
LEMMA ProductOrder ==
  ASSUME NEW a \in Nat \ {0}, NEW b \in Int, NEW c \in Int
  PROVE  /\ a * b <= a * c <=> b <= c
         /\ a * b < a * c <=> b < c
         /\ a * b \in Int /\ a * c \in Int
<1>1. ASSUME b < c PROVE a * b < a * c
  <2>1. a * c = a * b + a * (c - b)
    OBVIOUS
  <2>2. a * (c - b) > 0
    BY <1>1
  <2>3. a * b \in Int /\ a * (c - b) \in Int
    OBVIOUS
  <2>. QED
    BY <2>1, <2>2, <2>3
<1>2. ASSUME c < b PROVE a * c < a * b
  <2>1. a * b = a * c + a * (b - c)
    OBVIOUS
  <2>2. a * (b - c) > 0
    BY <1>2
  <2>3. a * c \in Int /\ a * (b - c) \in Int
    OBVIOUS
  <2>. QED
    BY <2>1, <2>2, <2>3
<1>3. a * b \in Int /\ a * c \in Int
  OBVIOUS
<1>4. b = c => a * b = a * c
  OBVIOUS
<1>. QED
  BY <1>1, <1>2, <1>3, <1>4

\* Division is the place among multiples.
LEMMA QuotientIsPlace ==
  ASSUME NEW a \in Int, NEW b \in Nat \ {0}
  PROVE  /\ a \div b \in Int
         /\ b * (a \div b) \in Int /\ b * (a \div b) <= a /\ a < b * (a \div b) + b
         /\ a % b = a - b * (a \div b)
<1>1. a \div b \in Int /\ a = b * (a \div b) + (a % b) /\ a % b \in 0 .. b - 1
  OBVIOUS
<1>2. b * (a \div b) \in Int
  BY <1>1
<1>. QED
  BY <1>1, <1>2

\* And rounded up.
LEMMA CeilIsPlace ==
  ASSUME NEW a \in Int, NEW b \in Nat \ {0}
  PROVE  /\ Ceil(a, b) \in Int
         /\ b * Ceil(a, b) \in Int /\ b * Ceil(a, b) >= a /\ b * Ceil(a, b) < a + b
<1>1. a + b - 1 \in Int
  OBVIOUS
<1>. DEFINE q == (a + b - 1) \div b
<1>2. q \in Int /\ b * q \in Int /\ b * q <= a + b - 1 /\ a + b - 1 < b * q + b
  BY <1>1, QuotientIsPlace
<1>. HIDE DEF q
<1>3. b * q >= a /\ b * q < a + b
  BY <1>2
<1>. QED
  BY <1>2, <1>3 DEF q, Ceil

\* A grid is never larger than what fits on the GPU.
LEMMA GridFits == ASSUME NEW p \in Plans PROVE GridX(p) <= 4 * Sms
<1>. DEFINE cap == Sms * p.perSM
            fc1 == p.blocks * p.n1
            waves == Ceil(fc1, cap)
<1>1. Sms \in Nat \ {0} /\ p.perSM \in 1 .. 4
  BY NumbersOfPlan
<1>2. cap \in Nat \ {0} /\ cap <= 4 * Sms
  <2>1. p.perSM = 1 \/ p.perSM = 2 \/ p.perSM = 3 \/ p.perSM = 4
    BY <1>1
  <2>. QED
    BY <1>1, <2>1
<1>3. fc1 \in Nat \ {0}
  BY NumbersOfPlan, PositiveProduct
<1>. HIDE DEF cap, fc1
<1>4. waves \in Int /\ cap * waves \in Int /\ cap * waves >= fc1
  <2>1. \A a \in Int, b \in Nat \ {0} : Ceil(a, b) \in Int /\ b * Ceil(a, b) \in Int /\ b * Ceil(a, b) >= a
    BY CeilIsPlace
  <2>2. fc1 \in Int
    BY <1>3
  <2>. QED
    BY <1>2, <2>1, <2>2, Zenon
<1>5. waves \in Nat \ {0}
  <2>1. cap * 0 < cap * waves
    BY <1>2, <1>3, <1>4
  <2>2. 0 < waves
    BY <1>2, <1>4, <2>1, ProductOrder
  <2>. QED
    BY <1>4, <2>2
<1>. HIDE DEF waves
<1>6. fc1 \div waves <= cap
  <2>1. fc1 \div waves \in Int /\ waves * (fc1 \div waves) <= fc1 /\ waves * (fc1 \div waves) \in Int
    BY <1>3, <1>5, QuotientIsPlace
  <2>2. waves * cap = cap * waves
    BY <1>2, <1>5
  <2>. DEFINE q == fc1 \div waves
  <2>. HIDE DEF q
  <2>3. waves * q <= waves * cap
    BY <1>3, <1>4, <2>1, <2>2 DEF q
  <2>4. q <= cap
    BY <1>2, <1>5, <2>1, <2>3, ProductOrder DEF q
  <2>. QED
    BY <2>4 DEF q
<1>7. \/ GridX(p) = cap
      \/ GridX(p) = (IF fc1 < cap THEN fc1 ELSE cap)
      \/ GridX(p) = fc1 \div waves
  BY DEF GridX, Gemm, cap, fc1, waves
<1>8. GridX(p) <= cap
  BY <1>2, <1>3, <1>6, <1>7
<1>9. GridX(p) \in Nat
  BY GridIsNat
<1>. QED
  BY <1>1, <1>2, <1>8, <1>9

\* The slices of a GEMM that somebody computes, each a CTA and a place in its pieces.
SlicesOf(p, w) ==
  {x \in (0 .. GridX(p) - 1) \X Nat :
     x[2] \in DOMAIN Pieces(p, w, x[1]) /\ Live(p, w, Pieces(p, w, x[1])[x[2]])}
It(p, w, x) == Pieces(p, w, x[1])[x[2]]
IsHere(p, w, t) == t \in Tiles(p, w) /\ BlockOf(p, w, t) \notin p.dead
SameTile(p, w, x, y) == It(p, w, x).tile = It(p, w, y).tile

LEMMA ConsistentSlices ==
  ASSUME NEW p \in Plans, NEW w \in Gemms, Consistent(p, w)
  PROVE  /\ \A x \in SlicesOf(p, w) : LET s == It(p, w, x) IN
              /\ s \in Split /\ IsHere(p, w, s.tile)
              /\ s.lo < s.hi /\ s.hi <= Gemm(p, w).k /\ s.idx < s.count
              /\ s.count > 1 => s.slot \in Slots
              /\ \A i \in 0 .. s.count - 1 : \E y \in SlicesOf(p, w) : SameTile(p, w, y, x) /\ It(p, w, y).idx = i
         /\ \A x, y \in SlicesOf(p, w) : SameTile(p, w, x, y) /\ x # y =>
              /\ It(p, w, x).count = It(p, w, y).count /\ It(p, w, x).idx # It(p, w, y).idx
              /\ It(p, w, x).idx < It(p, w, y).idx => It(p, w, y).hi <= It(p, w, x).lo
         /\ \A x, y \in SlicesOf(p, w) : It(p, w, x).count > 1 /\ It(p, w, y).count > 1 =>
              (SameTile(p, w, x, y) <=> It(p, w, x).slot = It(p, w, y).slot)
         /\ \A t : IsHere(p, w, t) => \A v \in 0 .. Gemm(p, w).k - 1 :
              \E x \in SlicesOf(p, w) : It(p, w, x).tile = t /\ It(p, w, x).lo <= v /\ v < It(p, w, x).hi
         /\ \A c \in 0 .. GridX(p) - 1 : Pieces(p, w, c) \in Seq(Split)
<1>. DEFINE g == Gemm(p, w)
            of == [c \in 0 .. GridX(p) - 1 |-> Pieces(p, w, c)]
            all == {x \in UNION {{c} \X DOMAIN of[c] : c \in DOMAIN of} : of[x[1]][x[2]].tile < g.mn}
            Its(x) == of[x[1]][x[2]]
            shared == {x \in all : Its(x).count > 1}
            on(t) == {x \in all : Its(x).tile = t}
<1>1. /\ \A x, y \in shared : Its(x).tile = Its(y).tile <=> Its(x).slot = Its(y).slot
      /\ \A x \in shared : Its(x).slot < GridX(p)
      /\ \A t \in Tiles(p, w) :
           /\ UNION {Its(x).lo .. Its(x).hi - 1 : x \in on(t)} = 0 .. g.k - 1
           /\ \A x \in on(t) : Its(x).lo < Its(x).hi /\ {Its(y).idx : y \in on(t)} = 0 .. Its(x).count - 1
           /\ \A x, y \in on(t) : x # y =>
                Its(x).count = Its(y).count /\ Its(x).idx # Its(y).idx
                  /\ (Its(x).idx < Its(y).idx => Its(y).hi <= Its(x).lo)
  BY DEF Consistent
<1>. HIDE DEF shared, on
<1>2. \A c \in 0 .. GridX(p) - 1 : of[c] = Pieces(p, w, c) /\ Pieces(p, w, c) \in Seq(SplitInt)
                                   /\ DOMAIN Pieces(p, w, c) \subseteq Nat
  BY PiecesAreTiles
<1>3. \A x \in all : x \in (0 .. GridX(p) - 1) \X Nat /\ x[2] \in DOMAIN Pieces(p, w, x[1])
                     /\ Its(x) = It(p, w, x) /\ It(p, w, x).tile < g.mn
  <2>. TAKE x \in all
  <2>1. PICK c \in 0 .. GridX(p) - 1 : x \in {c} \X DOMAIN of[c]
    OBVIOUS
  <2>. QED
    BY <1>2, <2>1 DEF It
<1>4. \A x \in SlicesOf(p, w) : x \in all
  <2>. TAKE x \in SlicesOf(p, w)
  <2>1. x[1] \in 0 .. GridX(p) - 1 /\ x[2] \in DOMAIN of[x[1]] /\ x = <<x[1], x[2]>>
    BY <1>2 DEF SlicesOf
  <2>2. of[x[1]][x[2]].tile < g.mn
    BY <1>2, <2>1 DEF SlicesOf, Live
  <2>. QED
    BY <2>1, <2>2
<1>. HIDE DEF all
<1>5. \A x \in all : It(p, w, x) \in SplitInt
  <2>. TAKE x \in all
  <2>. DEFINE s == Pieces(p, w, x[1])
  <2>1. x[1] \in 0 .. GridX(p) - 1 /\ x[2] \in DOMAIN s
    BY <1>3
  <2>2. s \in Seq(SplitInt)
    BY <1>2, <2>1
  <2>. HIDE DEF s
  <2>3. s[x[2]] \in SplitInt
    BY <2>1, <2>2
  <2>. QED
    BY <2>3 DEF It, s
<1>6. \A x \in all : It(p, w, x).tile \in Tiles(p, w)
  <2>. TAKE x \in all
  <2>1. g.mn \in Nat
    BY NumbersOfGemm
  <2>2. It(p, w, x).tile \in Nat /\ It(p, w, x).tile < g.mn
    BY <1>3, <1>5 DEF SplitInt
  <2>. QED
    BY <2>1, <2>2 DEF Tiles
<1>7. \A x \in all : x \in SlicesOf(p, w) <=> IsHere(p, w, It(p, w, x).tile)
  <2>. TAKE x \in all
  <2>1. BlockOf(p, w, It(p, w, x).tile) = It(p, w, x).tile \div g.n
    BY DEF BlockOf, Gemm, Gemms
  <2>. QED
    BY <1>3, <1>6, <2>1 DEF SlicesOf, IsHere, Live, It
<1>. DEFINE S == SlicesOf(p, w)
            I(x) == It(p, w, x)
<1>. HIDE DEF Its
<1>8. \A x \in all : x \in on(I(x).tile)
  BY <1>3 DEF on
<1>9. \A t : \A x \in on(t) : x \in all /\ I(x).tile = t
  BY <1>3 DEF on
<1>10. \A x \in all : x \in shared <=> I(x).count > 1
  BY <1>3 DEF shared
<1>a. ASSUME NEW x \in all PROVE I(x) \in Split
  <2>. DEFINE t == I(x).tile
  <2>1. x \in on(t) /\ t \in Tiles(p, w) /\ I(x) \in SplitInt
    BY <1>5, <1>6, <1>8
  <2>2. Its(x).lo < Its(x).hi /\ {Its(y).idx : y \in on(t)} = 0 .. Its(x).count - 1
    BY <1>1, <2>1
  <2>3. Its(x) = I(x)
    BY <1>3
  <2>4. I(x).idx \in 0 .. I(x).count - 1 /\ I(x).lo < I(x).hi
    BY <2>1, <2>2, <2>3
  <2>. QED
    BY <2>1, <2>4 DEF SplitInt, Split
<1>b. ASSUME NEW c \in 0 .. GridX(p) - 1 PROVE Pieces(p, w, c) \in Seq(Split)
  <2>. DEFINE s == Pieces(p, w, c)
  <2>1. s \in Seq(SplitInt) /\ \A i \in DOMAIN s : s[i].tile \in Tiles(p, w) \/ s[i] \in Split
    BY PiecesAreTiles
  <2>2. ASSUME NEW i \in DOMAIN s, s[i].tile \in Tiles(p, w) PROVE s[i] \in Split
    <3>1. g.mn \in Nat /\ s[i].tile < g.mn
      BY <2>2, NumbersOfGemm DEF Tiles
    <3>2. of[c] = s /\ <<c, i>> \in UNION {{d} \X DOMAIN of[d] : d \in DOMAIN of}
      OBVIOUS
    <3>3. <<c, i>> \in all
      BY <3>1, <3>2 DEF all
    <3>4. I(<<c, i>>) = s[i]
      BY DEF It
    <3>. QED
      BY <1>a, <3>3, <3>4
  <2>. HIDE DEF s
  <2>3. \A i \in 1 .. Len(s) : s[i] \in Split
    BY <2>1, <2>2
  <2>. QED
    BY <2>1, <2>3 DEF s
<1>11. ASSUME NEW x \in S
       PROVE  /\ I(x) \in Split /\ IsHere(p, w, I(x).tile)
              /\ I(x).lo < I(x).hi /\ I(x).hi <= g.k /\ I(x).idx < I(x).count
              /\ I(x).count > 1 => I(x).slot \in Slots
              /\ \A i \in 0 .. I(x).count - 1 : \E y \in S : SameTile(p, w, y, x) /\ I(y).idx = i
  <2>. DEFINE t == I(x).tile
  <2>1. x \in all /\ x \in on(t) /\ t \in Tiles(p, w) /\ IsHere(p, w, t) /\ I(x) \in SplitInt
    BY <1>4, <1>5, <1>6, <1>7, <1>8
  <2>2. /\ UNION {Its(y).lo .. Its(y).hi - 1 : y \in on(t)} = 0 .. g.k - 1
        /\ Its(x).lo < Its(x).hi /\ {Its(y).idx : y \in on(t)} = 0 .. Its(x).count - 1
    BY <1>1, <2>1
  <2>3. Its(x) = I(x) /\ \A y \in on(t) : Its(y) = I(y)
    BY <1>3, <1>9, <2>1
  <2>4. I(x).idx \in 0 .. I(x).count - 1 /\ I(x).lo < I(x).hi
    BY <2>1, <2>2, <2>3
  <2>5. I(x) \in Split /\ I(x).idx < I(x).count
    BY <1>a, <2>1, <2>4 DEF SplitInt
  <2>6. I(x).hi <= g.k
    <3>1. g.k \in Nat /\ I(x).lo \in Nat /\ I(x).hi \in Int
      BY <2>1, NumbersOfGemm DEF SplitInt
    <3>2. I(x).hi - 1 \in I(x).lo .. I(x).hi - 1
      BY <2>4, <3>1
    <3>3. I(x).hi - 1 \in 0 .. g.k - 1
      BY <2>1, <2>2, <2>3, <3>2
    <3>. QED
      BY <3>1, <3>3
  <2>7. I(x).count > 1 => I(x).slot \in Slots
    <3>1. SUFFICES ASSUME I(x).count > 1 PROVE I(x).slot \in Slots
      OBVIOUS
    <3>2. I(x).slot < GridX(p)
      BY <1>1, <1>10, <2>1, <2>3, <3>1
    <3>3. I(x).slot \in Nat /\ GridX(p) \in Nat /\ GridX(p) <= 4 * Sms /\ Sms \in Nat
      BY <2>1, GridIsNat, GridFits, NumbersOfPlan DEF SplitInt
    <3>. QED
      BY <3>2, <3>3 DEF Slots
  <2>8. ASSUME NEW i \in 0 .. I(x).count - 1 PROVE \E y \in S : SameTile(p, w, y, x) /\ I(y).idx = i
    <3>1. PICK y \in on(t) : i = Its(y).idx
      BY <2>2, <2>3
    <3>2. y \in all /\ I(y).tile = t /\ I(y).idx = i
      BY <1>9, <2>3, <3>1
    <3>3. y \in S
      BY <1>7, <2>1, <3>2
    <3>. QED
      BY <3>2, <3>3 DEF SameTile
  <2>. QED
    BY <2>1, <2>4, <2>5, <2>6, <2>7, <2>8
<1>12. ASSUME NEW x \in S, NEW y \in S, SameTile(p, w, x, y), x # y
       PROVE  /\ I(x).count = I(y).count /\ I(x).idx # I(y).idx
              /\ I(x).idx < I(y).idx => I(y).hi <= I(x).lo
  <2>1. x \in on(I(x).tile) /\ y \in on(I(x).tile) /\ I(x).tile \in Tiles(p, w) /\ Its(x) = I(x) /\ Its(y) = I(y)
    BY <1>3, <1>4, <1>6, <1>8, <1>12 DEF SameTile
  <2>. QED
    BY <1>1, <1>12, <2>1
<1>13. ASSUME NEW x \in S, NEW y \in S, I(x).count > 1, I(y).count > 1
       PROVE  SameTile(p, w, x, y) <=> I(x).slot = I(y).slot
  <2>1. x \in shared /\ y \in shared /\ Its(x) = I(x) /\ Its(y) = I(y)
    BY <1>3, <1>4, <1>10, <1>13
  <2>. QED
    BY <1>1, <2>1 DEF SameTile
<1>14. ASSUME NEW t, IsHere(p, w, t), NEW v \in 0 .. g.k - 1
       PROVE  \E x \in S : I(x).tile = t /\ I(x).lo <= v /\ v < I(x).hi
  <2>1. v \in UNION {Its(x).lo .. Its(x).hi - 1 : x \in on(t)}
    BY <1>1, <1>14 DEF IsHere
  <2>2. PICK x \in on(t) : v \in Its(x).lo .. Its(x).hi - 1
    BY <2>1
  <2>3. x \in all /\ I(x).tile = t /\ Its(x) = I(x)
    BY <1>3, <1>9
  <2>4. x \in S
    BY <1>7, <1>14, <2>3
  <2>5. I(x).lo \in Nat /\ I(x).hi \in Int
    BY <1>5, <2>3 DEF SplitInt
  <2>. QED
    BY <2>2, <2>3, <2>4, <2>5
<1>. QED
  BY <1>b, <1>11, <1>12, <1>13, <1>14

-----------------------------------------------------------------------------
(* The stages of a launch. *)

Works == Strided \cup Gemms

\* Whether a launch has a stage, and where it is: the segment and the place in it.
Has(p, w) ==
  CASE w = "rotate" -> p.rotated [] w = "prezero" -> p.fusedSum [] w = "activate" -> p.gated
    [] w = "zero" -> p.mapped [] OTHER -> TRUE
One(b) == IF b THEN 1 ELSE 0
SegOf(p, w) ==
  CASE w = "rotate" -> 1 [] w = "prezero" \/ w = "fc1" -> One(p.rotated) + 1
    [] w = "activate" -> One(p.rotated) + 2 [] w = "zero" -> One(p.rotated) + One(p.gated) + 2
    [] OTHER -> One(p.rotated) + One(p.gated) + One(p.mapped) + 2
JobOf(p, w) == IF w = "fc1" /\ p.fusedSum THEN 2 ELSE 1

LEMMA PlanKinds ==
  ASSUME NEW p \in Plans
  PROVE  /\ p.fusedSum => p.direct /\ p.blocks % p.topk = 0
         /\ p.rotated => p.whole /\ p.gated /\ ~p.fusedSum
         /\ p.mapped => ~p.rotated /\ ~p.direct
BY KernelAssumption, Zenon

LEMMA JoinTwo == ASSUME NEW a, NEW b PROVE <<a>> \o <<b>> = <<a, b>>
<1>. DEFINE S == {a, b}
<1>1. <<a>> \in Seq(S) /\ <<b>> \in Seq(S) /\ <<a, b>> \in Seq(S)
  OBVIOUS
<1>2. <<a>> \o <<b>> \in Seq(S)
  BY <1>1
<1>3. Len(<<a>> \o <<b>>) = 2 /\ \A i \in 1 .. 2 : (<<a>> \o <<b>>)[i] = <<a, b>>[i]
  OBVIOUS
<1>. QED
  BY <1>1, <1>2, <1>3, SeqEqual

LEMMA JoinThree == ASSUME NEW a, NEW b, NEW c PROVE <<a, b>> \o <<c>> = <<a, b, c>>
<1>. DEFINE S == {a, b, c}
<1>1. <<a, b>> \in Seq(S) /\ <<c>> \in Seq(S) /\ <<a, b, c>> \in Seq(S)
  OBVIOUS
<1>2. <<a, b>> \o <<c>> \in Seq(S)
  BY <1>1
<1>3. Len(<<a, b>> \o <<c>>) = 3 /\ \A i \in 1 .. 3 : (<<a, b>> \o <<c>>)[i] = <<a, b, c>>[i]
  OBVIOUS
<1>. QED
  BY <1>1, <1>2, <1>3, SeqEqual

LEMMA JoinFour == ASSUME NEW a, NEW b, NEW c, NEW d PROVE <<a, b, c>> \o <<d>> = <<a, b, c, d>>
<1>. DEFINE S == {a, b, c, d}
<1>1. <<a, b, c>> \in Seq(S) /\ <<d>> \in Seq(S) /\ <<a, b, c, d>> \in Seq(S)
  OBVIOUS
<1>2. <<a, b, c>> \o <<d>> \in Seq(S)
  BY <1>1
<1>3. Len(<<a, b, c>> \o <<d>>) = 4 /\ \A i \in 1 .. 4 : (<<a, b, c>> \o <<d>>)[i] = <<a, b, c, d>>[i]
  OBVIOUS
<1>. QED
  BY <1>1, <1>2, <1>3, SeqEqual

LEMMA JoinNone ==
  ASSUME NEW a, NEW b
  PROVE  <<>> \o <<a>> = <<a>> /\ <<a>> \o <<>> = <<a>> /\ <<a, b>> \o <<>> = <<a, b>>
OBVIOUS

LEMMA BodyOfPlan ==
  ASSUME NEW p \in Plans
  PROVE  /\ Len(Body(p)) = SegOf(p, "fc2")
         /\ \A s \in 1 .. Len(Body(p)) :
              /\ Len(Body(p)[s]) \in Nat \ {0}
              /\ \A j \in 1 .. Len(Body(p)[s]) : LET w == Body(p)[s][j] IN
                   w \in Works /\ Has(p, w) /\ SegOf(p, w) = s /\ JobOf(p, w) = j
         /\ \A w \in Works : Has(p, w) =>
              /\ SegOf(p, w) \in 1 .. Len(Body(p)) /\ JobOf(p, w) \in 1 .. Len(Body(p)[SegOf(p, w)])
              /\ Body(p)[SegOf(p, w)][JobOf(p, w)] = w
<1>1. /\ p.gated \in BOOLEAN /\ p.rotated \in BOOLEAN /\ p.fusedSum \in BOOLEAN /\ p.mapped \in BOOLEAN
      /\ p.rotated => p.gated /\ ~p.fusedSum /\ ~p.mapped
      /\ p.fusedSum => ~p.mapped
  <2>1. p.direct \in BOOLEAN
    BY NumbersOfPlan
  <2>. QED
    BY <2>1, NumbersOfPlan, PlanKinds
<1>. USE DEF Works, Strided, Gemms, Has, One, SegOf, JobOf
<1>2. CASE p.rotated
  <2>1. Body(p) = <<<<"rotate">>>> \o <<<<"fc1">>>> \o <<<<"activate">>>> \o <<>> \o <<<<"fc2">>>>
    BY <1>1, <1>2 DEF Body
  <2>b. /\ <<<<"rotate">>>> \o <<<<"fc1">>>> = <<<<"rotate">>, <<"fc1">>>>
        /\ <<<<"rotate">>, <<"fc1">>>> \o <<<<"activate">>>> = <<<<"rotate">>, <<"fc1">>, <<"activate">>>>
        /\ <<<<"rotate">>, <<"fc1">>, <<"activate">>>> \o <<>> = <<<<"rotate">>, <<"fc1">>, <<"activate">>>>
        /\ <<<<"rotate">>, <<"fc1">>, <<"activate">>>> \o <<<<"fc2">>>> = <<<<"rotate">>, <<"fc1">>, <<"activate">>, <<"fc2">>>>
    BY JoinNone, JoinTwo, JoinThree, JoinFour
  <2>2. Body(p) = << <<"rotate">>, <<"fc1">>, <<"activate">>, <<"fc2">> >>
    BY <2>1, <2>b
  <2>3. Len(Body(p)) = 4 /\ Body(p)[1] = <<"rotate">> /\ Body(p)[2] = <<"fc1">> /\ Body(p)[3] = <<"activate">> /\ Body(p)[4] = <<"fc2">>
    BY <2>2
  <2>4. Len(<<"rotate">>) = 1 /\ Len(<<"fc1">>) = 1 /\ Len(<<"activate">>) = 1 /\ Len(<<"fc2">>) = 1
        /\ <<"rotate">>[1] = "rotate" /\ <<"fc1">>[1] = "fc1" /\ <<"activate">>[1] = "activate" /\ <<"fc2">>[1] = "fc2"
    OBVIOUS
  <2>5. \A s \in 1 .. 4 : s = 1 \/ s = 2 \/ s = 3 \/ s = 4
    OBVIOUS
  <2>6. SegOf(p, "rotate") = 1 /\ SegOf(p, "fc1") = 2 /\ SegOf(p, "activate") = 3 /\ SegOf(p, "fc2") = 4 /\ JobOf(p, "rotate") = 1 /\ JobOf(p, "fc1") = 1 /\ JobOf(p, "activate") = 1 /\ JobOf(p, "fc2") = 1
    BY <1>1, <1>2
  <2>7. Has(p, "rotate") /\ ~Has(p, "prezero") /\ Has(p, "fc1") /\ Has(p, "activate") /\ ~Has(p, "zero") /\ Has(p, "fc2")
    BY <1>1, <1>2
  <2>. HIDE DEF SegOf, JobOf, Has, One
  <2>a0. \A j \in 1 .. 1 : LET w == <<"rotate">>[j] IN w \in Works /\ Has(p, w) /\ 1 = SegOf(p, w) /\ j = JobOf(p, w)
    BY <2>4, <2>6, <2>7
  <2>a1. \A j \in 1 .. 1 : LET w == <<"fc1">>[j] IN w \in Works /\ Has(p, w) /\ 2 = SegOf(p, w) /\ j = JobOf(p, w)
    BY <2>4, <2>6, <2>7
  <2>a2. \A j \in 1 .. 1 : LET w == <<"activate">>[j] IN w \in Works /\ Has(p, w) /\ 3 = SegOf(p, w) /\ j = JobOf(p, w)
    BY <2>4, <2>6, <2>7
  <2>a3. \A j \in 1 .. 1 : LET w == <<"fc2">>[j] IN w \in Works /\ Has(p, w) /\ 4 = SegOf(p, w) /\ j = JobOf(p, w)
    BY <2>4, <2>6, <2>7
  <2>8. \A s \in 1 .. Len(Body(p)) : /\ Len(Body(p)[s]) \in Nat \ {0}
         /\ \A j \in 1 .. Len(Body(p)[s]) : LET w == Body(p)[s][j] IN w \in Works /\ Has(p, w) /\ SegOf(p, w) = s /\ JobOf(p, w) = j
    BY <2>3, <2>4, <2>5, <2>a0, <2>a1, <2>a2, <2>a3
  <2>9. \A w \in Works : Has(p, w) => w = "rotate" \/ w = "fc1" \/ w = "activate" \/ w = "fc2"
    BY <2>7
  <2>10. \A w \in Works : Has(p, w) => /\ SegOf(p, w) \in 1 .. Len(Body(p)) /\ JobOf(p, w) \in 1 .. Len(Body(p)[SegOf(p, w)])
          /\ Body(p)[SegOf(p, w)][JobOf(p, w)] = w
    BY <2>3, <2>4, <2>6, <2>9
  <2>. QED
    BY <2>3, <2>6, <2>8, <2>10
<1>3. CASE ~p.rotated /\ p.fusedSum /\ p.gated
  <2>1. Body(p) = <<>> \o <<<<"prezero", "fc1">>>> \o <<<<"activate">>>> \o <<>> \o <<<<"fc2">>>>
    BY <1>1, <1>3 DEF Body
  <2>b. /\ <<>> \o <<<<"prezero", "fc1">>>> = <<<<"prezero", "fc1">>>>
        /\ <<<<"prezero", "fc1">>>> \o <<<<"activate">>>> = <<<<"prezero", "fc1">>, <<"activate">>>>
        /\ <<<<"prezero", "fc1">>, <<"activate">>>> \o <<>> = <<<<"prezero", "fc1">>, <<"activate">>>>
        /\ <<<<"prezero", "fc1">>, <<"activate">>>> \o <<<<"fc2">>>> = <<<<"prezero", "fc1">>, <<"activate">>, <<"fc2">>>>
    BY JoinNone, JoinTwo, JoinThree, JoinFour
  <2>2. Body(p) = << <<"prezero", "fc1">>, <<"activate">>, <<"fc2">> >>
    BY <2>1, <2>b
  <2>3. Len(Body(p)) = 3 /\ Body(p)[1] = <<"prezero", "fc1">> /\ Body(p)[2] = <<"activate">> /\ Body(p)[3] = <<"fc2">>
    BY <2>2
  <2>4. Len(<<"prezero", "fc1">>) = 2 /\ Len(<<"activate">>) = 1 /\ Len(<<"fc2">>) = 1
        /\ <<"prezero", "fc1">>[1] = "prezero" /\ <<"prezero", "fc1">>[2] = "fc1" /\ <<"activate">>[1] = "activate" /\ <<"fc2">>[1] = "fc2"
    OBVIOUS
  <2>5. \A s \in 1 .. 3 : s = 1 \/ s = 2 \/ s = 3
    OBVIOUS
  <2>6. SegOf(p, "prezero") = 1 /\ SegOf(p, "fc1") = 1 /\ SegOf(p, "activate") = 2 /\ SegOf(p, "fc2") = 3 /\ JobOf(p, "prezero") = 1 /\ JobOf(p, "fc1") = 2 /\ JobOf(p, "activate") = 1 /\ JobOf(p, "fc2") = 1
    BY <1>1, <1>3
  <2>7. ~Has(p, "rotate") /\ Has(p, "prezero") /\ Has(p, "fc1") /\ Has(p, "activate") /\ ~Has(p, "zero") /\ Has(p, "fc2")
    BY <1>1, <1>3
  <2>. HIDE DEF SegOf, JobOf, Has, One
  <2>a0. \A j \in 1 .. 2 : LET w == <<"prezero", "fc1">>[j] IN w \in Works /\ Has(p, w) /\ 1 = SegOf(p, w) /\ j = JobOf(p, w)
    BY <2>4, <2>6, <2>7
  <2>a1. \A j \in 1 .. 1 : LET w == <<"activate">>[j] IN w \in Works /\ Has(p, w) /\ 2 = SegOf(p, w) /\ j = JobOf(p, w)
    BY <2>4, <2>6, <2>7
  <2>a2. \A j \in 1 .. 1 : LET w == <<"fc2">>[j] IN w \in Works /\ Has(p, w) /\ 3 = SegOf(p, w) /\ j = JobOf(p, w)
    BY <2>4, <2>6, <2>7
  <2>8. \A s \in 1 .. Len(Body(p)) : /\ Len(Body(p)[s]) \in Nat \ {0}
         /\ \A j \in 1 .. Len(Body(p)[s]) : LET w == Body(p)[s][j] IN w \in Works /\ Has(p, w) /\ SegOf(p, w) = s /\ JobOf(p, w) = j
    BY <2>3, <2>4, <2>5, <2>a0, <2>a1, <2>a2
  <2>9. \A w \in Works : Has(p, w) => w = "prezero" \/ w = "fc1" \/ w = "activate" \/ w = "fc2"
    BY <2>7
  <2>10. \A w \in Works : Has(p, w) => /\ SegOf(p, w) \in 1 .. Len(Body(p)) /\ JobOf(p, w) \in 1 .. Len(Body(p)[SegOf(p, w)])
          /\ Body(p)[SegOf(p, w)][JobOf(p, w)] = w
    BY <2>3, <2>4, <2>6, <2>9
  <2>. QED
    BY <2>3, <2>6, <2>8, <2>10
<1>4. CASE ~p.rotated /\ p.fusedSum /\ ~p.gated
  <2>1. Body(p) = <<>> \o <<<<"prezero", "fc1">>>> \o <<>> \o <<>> \o <<<<"fc2">>>>
    BY <1>1, <1>4 DEF Body
  <2>b. /\ <<>> \o <<<<"prezero", "fc1">>>> = <<<<"prezero", "fc1">>>>
        /\ <<<<"prezero", "fc1">>>> \o <<>> = <<<<"prezero", "fc1">>>>
        /\ <<<<"prezero", "fc1">>>> \o <<>> = <<<<"prezero", "fc1">>>>
        /\ <<<<"prezero", "fc1">>>> \o <<<<"fc2">>>> = <<<<"prezero", "fc1">>, <<"fc2">>>>
    BY JoinNone, JoinTwo, JoinThree, JoinFour
  <2>2. Body(p) = << <<"prezero", "fc1">>, <<"fc2">> >>
    BY <2>1, <2>b
  <2>3. Len(Body(p)) = 2 /\ Body(p)[1] = <<"prezero", "fc1">> /\ Body(p)[2] = <<"fc2">>
    BY <2>2
  <2>4. Len(<<"prezero", "fc1">>) = 2 /\ Len(<<"fc2">>) = 1
        /\ <<"prezero", "fc1">>[1] = "prezero" /\ <<"prezero", "fc1">>[2] = "fc1" /\ <<"fc2">>[1] = "fc2"
    OBVIOUS
  <2>5. \A s \in 1 .. 2 : s = 1 \/ s = 2
    OBVIOUS
  <2>6. SegOf(p, "prezero") = 1 /\ SegOf(p, "fc1") = 1 /\ SegOf(p, "fc2") = 2 /\ JobOf(p, "prezero") = 1 /\ JobOf(p, "fc1") = 2 /\ JobOf(p, "fc2") = 1
    BY <1>1, <1>4
  <2>7. ~Has(p, "rotate") /\ Has(p, "prezero") /\ Has(p, "fc1") /\ ~Has(p, "activate") /\ ~Has(p, "zero") /\ Has(p, "fc2")
    BY <1>1, <1>4
  <2>. HIDE DEF SegOf, JobOf, Has, One
  <2>a0. \A j \in 1 .. 2 : LET w == <<"prezero", "fc1">>[j] IN w \in Works /\ Has(p, w) /\ 1 = SegOf(p, w) /\ j = JobOf(p, w)
    BY <2>4, <2>6, <2>7
  <2>a1. \A j \in 1 .. 1 : LET w == <<"fc2">>[j] IN w \in Works /\ Has(p, w) /\ 2 = SegOf(p, w) /\ j = JobOf(p, w)
    BY <2>4, <2>6, <2>7
  <2>8. \A s \in 1 .. Len(Body(p)) : /\ Len(Body(p)[s]) \in Nat \ {0}
         /\ \A j \in 1 .. Len(Body(p)[s]) : LET w == Body(p)[s][j] IN w \in Works /\ Has(p, w) /\ SegOf(p, w) = s /\ JobOf(p, w) = j
    BY <2>3, <2>4, <2>5, <2>a0, <2>a1
  <2>9. \A w \in Works : Has(p, w) => w = "prezero" \/ w = "fc1" \/ w = "fc2"
    BY <2>7
  <2>10. \A w \in Works : Has(p, w) => /\ SegOf(p, w) \in 1 .. Len(Body(p)) /\ JobOf(p, w) \in 1 .. Len(Body(p)[SegOf(p, w)])
          /\ Body(p)[SegOf(p, w)][JobOf(p, w)] = w
    BY <2>3, <2>4, <2>6, <2>9
  <2>. QED
    BY <2>3, <2>6, <2>8, <2>10
<1>5. CASE ~p.rotated /\ ~p.fusedSum /\ p.gated /\ p.mapped
  <2>1. Body(p) = <<>> \o <<<<"fc1">>>> \o <<<<"activate">>>> \o <<<<"zero">>>> \o <<<<"fc2">>>>
    BY <1>1, <1>5 DEF Body
  <2>b. /\ <<>> \o <<<<"fc1">>>> = <<<<"fc1">>>>
        /\ <<<<"fc1">>>> \o <<<<"activate">>>> = <<<<"fc1">>, <<"activate">>>>
        /\ <<<<"fc1">>, <<"activate">>>> \o <<<<"zero">>>> = <<<<"fc1">>, <<"activate">>, <<"zero">>>>
        /\ <<<<"fc1">>, <<"activate">>, <<"zero">>>> \o <<<<"fc2">>>> = <<<<"fc1">>, <<"activate">>, <<"zero">>, <<"fc2">>>>
    BY JoinNone, JoinTwo, JoinThree, JoinFour
  <2>2. Body(p) = << <<"fc1">>, <<"activate">>, <<"zero">>, <<"fc2">> >>
    BY <2>1, <2>b
  <2>3. Len(Body(p)) = 4 /\ Body(p)[1] = <<"fc1">> /\ Body(p)[2] = <<"activate">> /\ Body(p)[3] = <<"zero">> /\ Body(p)[4] = <<"fc2">>
    BY <2>2
  <2>4. Len(<<"fc1">>) = 1 /\ Len(<<"activate">>) = 1 /\ Len(<<"zero">>) = 1 /\ Len(<<"fc2">>) = 1
        /\ <<"fc1">>[1] = "fc1" /\ <<"activate">>[1] = "activate" /\ <<"zero">>[1] = "zero" /\ <<"fc2">>[1] = "fc2"
    OBVIOUS
  <2>5. \A s \in 1 .. 4 : s = 1 \/ s = 2 \/ s = 3 \/ s = 4
    OBVIOUS
  <2>6. SegOf(p, "fc1") = 1 /\ SegOf(p, "activate") = 2 /\ SegOf(p, "zero") = 3 /\ SegOf(p, "fc2") = 4 /\ JobOf(p, "fc1") = 1 /\ JobOf(p, "activate") = 1 /\ JobOf(p, "zero") = 1 /\ JobOf(p, "fc2") = 1
    BY <1>1, <1>5
  <2>7. ~Has(p, "rotate") /\ ~Has(p, "prezero") /\ Has(p, "fc1") /\ Has(p, "activate") /\ Has(p, "zero") /\ Has(p, "fc2")
    BY <1>1, <1>5
  <2>. HIDE DEF SegOf, JobOf, Has, One
  <2>a0. \A j \in 1 .. 1 : LET w == <<"fc1">>[j] IN w \in Works /\ Has(p, w) /\ 1 = SegOf(p, w) /\ j = JobOf(p, w)
    BY <2>4, <2>6, <2>7
  <2>a1. \A j \in 1 .. 1 : LET w == <<"activate">>[j] IN w \in Works /\ Has(p, w) /\ 2 = SegOf(p, w) /\ j = JobOf(p, w)
    BY <2>4, <2>6, <2>7
  <2>a2. \A j \in 1 .. 1 : LET w == <<"zero">>[j] IN w \in Works /\ Has(p, w) /\ 3 = SegOf(p, w) /\ j = JobOf(p, w)
    BY <2>4, <2>6, <2>7
  <2>a3. \A j \in 1 .. 1 : LET w == <<"fc2">>[j] IN w \in Works /\ Has(p, w) /\ 4 = SegOf(p, w) /\ j = JobOf(p, w)
    BY <2>4, <2>6, <2>7
  <2>8. \A s \in 1 .. Len(Body(p)) : /\ Len(Body(p)[s]) \in Nat \ {0}
         /\ \A j \in 1 .. Len(Body(p)[s]) : LET w == Body(p)[s][j] IN w \in Works /\ Has(p, w) /\ SegOf(p, w) = s /\ JobOf(p, w) = j
    BY <2>3, <2>4, <2>5, <2>a0, <2>a1, <2>a2, <2>a3
  <2>9. \A w \in Works : Has(p, w) => w = "fc1" \/ w = "activate" \/ w = "zero" \/ w = "fc2"
    BY <2>7
  <2>10. \A w \in Works : Has(p, w) => /\ SegOf(p, w) \in 1 .. Len(Body(p)) /\ JobOf(p, w) \in 1 .. Len(Body(p)[SegOf(p, w)])
          /\ Body(p)[SegOf(p, w)][JobOf(p, w)] = w
    BY <2>3, <2>4, <2>6, <2>9
  <2>. QED
    BY <2>3, <2>6, <2>8, <2>10
<1>6. CASE ~p.rotated /\ ~p.fusedSum /\ p.gated /\ ~p.mapped
  <2>1. Body(p) = <<>> \o <<<<"fc1">>>> \o <<<<"activate">>>> \o <<>> \o <<<<"fc2">>>>
    BY <1>1, <1>6 DEF Body
  <2>b. /\ <<>> \o <<<<"fc1">>>> = <<<<"fc1">>>>
        /\ <<<<"fc1">>>> \o <<<<"activate">>>> = <<<<"fc1">>, <<"activate">>>>
        /\ <<<<"fc1">>, <<"activate">>>> \o <<>> = <<<<"fc1">>, <<"activate">>>>
        /\ <<<<"fc1">>, <<"activate">>>> \o <<<<"fc2">>>> = <<<<"fc1">>, <<"activate">>, <<"fc2">>>>
    BY JoinNone, JoinTwo, JoinThree, JoinFour
  <2>2. Body(p) = << <<"fc1">>, <<"activate">>, <<"fc2">> >>
    BY <2>1, <2>b
  <2>3. Len(Body(p)) = 3 /\ Body(p)[1] = <<"fc1">> /\ Body(p)[2] = <<"activate">> /\ Body(p)[3] = <<"fc2">>
    BY <2>2
  <2>4. Len(<<"fc1">>) = 1 /\ Len(<<"activate">>) = 1 /\ Len(<<"fc2">>) = 1
        /\ <<"fc1">>[1] = "fc1" /\ <<"activate">>[1] = "activate" /\ <<"fc2">>[1] = "fc2"
    OBVIOUS
  <2>5. \A s \in 1 .. 3 : s = 1 \/ s = 2 \/ s = 3
    OBVIOUS
  <2>6. SegOf(p, "fc1") = 1 /\ SegOf(p, "activate") = 2 /\ SegOf(p, "fc2") = 3 /\ JobOf(p, "fc1") = 1 /\ JobOf(p, "activate") = 1 /\ JobOf(p, "fc2") = 1
    BY <1>1, <1>6
  <2>7. ~Has(p, "rotate") /\ ~Has(p, "prezero") /\ Has(p, "fc1") /\ Has(p, "activate") /\ ~Has(p, "zero") /\ Has(p, "fc2")
    BY <1>1, <1>6
  <2>. HIDE DEF SegOf, JobOf, Has, One
  <2>a0. \A j \in 1 .. 1 : LET w == <<"fc1">>[j] IN w \in Works /\ Has(p, w) /\ 1 = SegOf(p, w) /\ j = JobOf(p, w)
    BY <2>4, <2>6, <2>7
  <2>a1. \A j \in 1 .. 1 : LET w == <<"activate">>[j] IN w \in Works /\ Has(p, w) /\ 2 = SegOf(p, w) /\ j = JobOf(p, w)
    BY <2>4, <2>6, <2>7
  <2>a2. \A j \in 1 .. 1 : LET w == <<"fc2">>[j] IN w \in Works /\ Has(p, w) /\ 3 = SegOf(p, w) /\ j = JobOf(p, w)
    BY <2>4, <2>6, <2>7
  <2>8. \A s \in 1 .. Len(Body(p)) : /\ Len(Body(p)[s]) \in Nat \ {0}
         /\ \A j \in 1 .. Len(Body(p)[s]) : LET w == Body(p)[s][j] IN w \in Works /\ Has(p, w) /\ SegOf(p, w) = s /\ JobOf(p, w) = j
    BY <2>3, <2>4, <2>5, <2>a0, <2>a1, <2>a2
  <2>9. \A w \in Works : Has(p, w) => w = "fc1" \/ w = "activate" \/ w = "fc2"
    BY <2>7
  <2>10. \A w \in Works : Has(p, w) => /\ SegOf(p, w) \in 1 .. Len(Body(p)) /\ JobOf(p, w) \in 1 .. Len(Body(p)[SegOf(p, w)])
          /\ Body(p)[SegOf(p, w)][JobOf(p, w)] = w
    BY <2>3, <2>4, <2>6, <2>9
  <2>. QED
    BY <2>3, <2>6, <2>8, <2>10
<1>7. CASE ~p.rotated /\ ~p.fusedSum /\ ~p.gated /\ p.mapped
  <2>1. Body(p) = <<>> \o <<<<"fc1">>>> \o <<>> \o <<<<"zero">>>> \o <<<<"fc2">>>>
    BY <1>1, <1>7 DEF Body
  <2>b. /\ <<>> \o <<<<"fc1">>>> = <<<<"fc1">>>>
        /\ <<<<"fc1">>>> \o <<>> = <<<<"fc1">>>>
        /\ <<<<"fc1">>>> \o <<<<"zero">>>> = <<<<"fc1">>, <<"zero">>>>
        /\ <<<<"fc1">>, <<"zero">>>> \o <<<<"fc2">>>> = <<<<"fc1">>, <<"zero">>, <<"fc2">>>>
    BY JoinNone, JoinTwo, JoinThree, JoinFour
  <2>2. Body(p) = << <<"fc1">>, <<"zero">>, <<"fc2">> >>
    BY <2>1, <2>b
  <2>3. Len(Body(p)) = 3 /\ Body(p)[1] = <<"fc1">> /\ Body(p)[2] = <<"zero">> /\ Body(p)[3] = <<"fc2">>
    BY <2>2
  <2>4. Len(<<"fc1">>) = 1 /\ Len(<<"zero">>) = 1 /\ Len(<<"fc2">>) = 1
        /\ <<"fc1">>[1] = "fc1" /\ <<"zero">>[1] = "zero" /\ <<"fc2">>[1] = "fc2"
    OBVIOUS
  <2>5. \A s \in 1 .. 3 : s = 1 \/ s = 2 \/ s = 3
    OBVIOUS
  <2>6. SegOf(p, "fc1") = 1 /\ SegOf(p, "zero") = 2 /\ SegOf(p, "fc2") = 3 /\ JobOf(p, "fc1") = 1 /\ JobOf(p, "zero") = 1 /\ JobOf(p, "fc2") = 1
    BY <1>1, <1>7
  <2>7. ~Has(p, "rotate") /\ ~Has(p, "prezero") /\ Has(p, "fc1") /\ ~Has(p, "activate") /\ Has(p, "zero") /\ Has(p, "fc2")
    BY <1>1, <1>7
  <2>. HIDE DEF SegOf, JobOf, Has, One
  <2>a0. \A j \in 1 .. 1 : LET w == <<"fc1">>[j] IN w \in Works /\ Has(p, w) /\ 1 = SegOf(p, w) /\ j = JobOf(p, w)
    BY <2>4, <2>6, <2>7
  <2>a1. \A j \in 1 .. 1 : LET w == <<"zero">>[j] IN w \in Works /\ Has(p, w) /\ 2 = SegOf(p, w) /\ j = JobOf(p, w)
    BY <2>4, <2>6, <2>7
  <2>a2. \A j \in 1 .. 1 : LET w == <<"fc2">>[j] IN w \in Works /\ Has(p, w) /\ 3 = SegOf(p, w) /\ j = JobOf(p, w)
    BY <2>4, <2>6, <2>7
  <2>8. \A s \in 1 .. Len(Body(p)) : /\ Len(Body(p)[s]) \in Nat \ {0}
         /\ \A j \in 1 .. Len(Body(p)[s]) : LET w == Body(p)[s][j] IN w \in Works /\ Has(p, w) /\ SegOf(p, w) = s /\ JobOf(p, w) = j
    BY <2>3, <2>4, <2>5, <2>a0, <2>a1, <2>a2
  <2>9. \A w \in Works : Has(p, w) => w = "fc1" \/ w = "zero" \/ w = "fc2"
    BY <2>7
  <2>10. \A w \in Works : Has(p, w) => /\ SegOf(p, w) \in 1 .. Len(Body(p)) /\ JobOf(p, w) \in 1 .. Len(Body(p)[SegOf(p, w)])
          /\ Body(p)[SegOf(p, w)][JobOf(p, w)] = w
    BY <2>3, <2>4, <2>6, <2>9
  <2>. QED
    BY <2>3, <2>6, <2>8, <2>10
<1>8. CASE ~p.rotated /\ ~p.fusedSum /\ ~p.gated /\ ~p.mapped
  <2>1. Body(p) = <<>> \o <<<<"fc1">>>> \o <<>> \o <<>> \o <<<<"fc2">>>>
    BY <1>1, <1>8 DEF Body
  <2>b. /\ <<>> \o <<<<"fc1">>>> = <<<<"fc1">>>>
        /\ <<<<"fc1">>>> \o <<>> = <<<<"fc1">>>>
        /\ <<<<"fc1">>>> \o <<>> = <<<<"fc1">>>>
        /\ <<<<"fc1">>>> \o <<<<"fc2">>>> = <<<<"fc1">>, <<"fc2">>>>
    BY JoinNone, JoinTwo, JoinThree, JoinFour
  <2>2. Body(p) = << <<"fc1">>, <<"fc2">> >>
    BY <2>1, <2>b
  <2>3. Len(Body(p)) = 2 /\ Body(p)[1] = <<"fc1">> /\ Body(p)[2] = <<"fc2">>
    BY <2>2
  <2>4. Len(<<"fc1">>) = 1 /\ Len(<<"fc2">>) = 1
        /\ <<"fc1">>[1] = "fc1" /\ <<"fc2">>[1] = "fc2"
    OBVIOUS
  <2>5. \A s \in 1 .. 2 : s = 1 \/ s = 2
    OBVIOUS
  <2>6. SegOf(p, "fc1") = 1 /\ SegOf(p, "fc2") = 2 /\ JobOf(p, "fc1") = 1 /\ JobOf(p, "fc2") = 1
    BY <1>1, <1>8
  <2>7. ~Has(p, "rotate") /\ ~Has(p, "prezero") /\ Has(p, "fc1") /\ ~Has(p, "activate") /\ ~Has(p, "zero") /\ Has(p, "fc2")
    BY <1>1, <1>8
  <2>. HIDE DEF SegOf, JobOf, Has, One
  <2>a0. \A j \in 1 .. 1 : LET w == <<"fc1">>[j] IN w \in Works /\ Has(p, w) /\ 1 = SegOf(p, w) /\ j = JobOf(p, w)
    BY <2>4, <2>6, <2>7
  <2>a1. \A j \in 1 .. 1 : LET w == <<"fc2">>[j] IN w \in Works /\ Has(p, w) /\ 2 = SegOf(p, w) /\ j = JobOf(p, w)
    BY <2>4, <2>6, <2>7
  <2>8. \A s \in 1 .. Len(Body(p)) : /\ Len(Body(p)[s]) \in Nat \ {0}
         /\ \A j \in 1 .. Len(Body(p)[s]) : LET w == Body(p)[s][j] IN w \in Works /\ Has(p, w) /\ SegOf(p, w) = s /\ JobOf(p, w) = j
    BY <2>3, <2>4, <2>5, <2>a0, <2>a1
  <2>9. \A w \in Works : Has(p, w) => w = "fc1" \/ w = "fc2"
    BY <2>7
  <2>10. \A w \in Works : Has(p, w) => /\ SegOf(p, w) \in 1 .. Len(Body(p)) /\ JobOf(p, w) \in 1 .. Len(Body(p)[SegOf(p, w)])
          /\ Body(p)[SegOf(p, w)][JobOf(p, w)] = w
    BY <2>3, <2>4, <2>6, <2>9
  <2>. QED
    BY <2>3, <2>6, <2>8, <2>10
<1>. QED
  BY <1>1, <1>2, <1>3, <1>4, <1>5, <1>6, <1>7, <1>8

LEMMA WorkOfBody ==
  ASSUME NEW p \in Plans, NEW s \in 1 .. Len(Body(p)), NEW j \in 1 .. Len(Body(p)[s])
  PROVE  /\ Body(p)[s][j] \in Works /\ Has(p, Body(p)[s][j])
         /\ SegOf(p, Body(p)[s][j]) = s /\ JobOf(p, Body(p)[s][j]) = j
<1>1. \A i \in 1 .. Len(Body(p)) : \A k \in 1 .. Len(Body(p)[i]) : LET w == Body(p)[i][k] IN
        w \in Works /\ Has(p, w) /\ SegOf(p, w) = i /\ JobOf(p, w) = k
  BY BodyOfPlan
<1>. QED
  BY <1>1, Zenon

-----------------------------------------------------------------------------
(* Where a CTA is in a launch. *)

LEMMA SmallestOfSet ==
  ASSUME NEW S \in SUBSET Nat, S # {}
  PROVE  \E m \in S : \A n \in S : m <= n
<1>1. PICK m \in S : \A n \in S : ~(<<n, m>> \in OpToRel(<, Nat))
  BY WFMin, NatLessThanWellFounded, Zenon
<1>2. \A n \in S : ~(n < m)
  BY <1>1, Zenon DEF OpToRel
<1>. QED
  BY <1>2

\* The CTAs agree on the schedule of every GEMM; that they do is SchedulesAreConsistent below.
SchedulesAgree == \A p \in Plans, w \in Gemms : Consistent(p, w)

\* What is left of the pieces of a CTA: an end of them, that begins with one to compute.
IsEnd(all, s) == Len(s) <= Len(all) /\ \A i \in 1 .. Len(s) : s[i] = all[Len(all) - Len(s) + i]
IsRest(p, w, c, s) == IsEnd(Pieces(p, w, c), s) /\ (s # <<>> => Live(p, w, Head(s)))

AtBarrier == {"load", "arrive", "spin", "reset", "release"}

\* A CTA at place a, in the segment and job given, with t left to do.
AtStage(p, c, a, s, j, t) ==
  /\ s \in 1 .. Len(Body(p)) /\ j \in 1 .. Len(Body(p)[s]) /\ t \in Seq(Split)
  /\ a \in AtBarrier \cup {"out"} => t = <<>> /\ j = Len(Body(p)[s]) /\ (a = "out" <=> s = Len(Body(p)))
  /\ a \in {"turn", "publish", "store"} => t # <<>> /\ Body(p)[s][j] \in Gemms
  /\ a \in {"turn", "publish"} => Head(t).count > 1
  /\ a = "store" => IsLast(Head(t))
  /\ IF Body(p)[s][j] \in Strided THEN Len(t) <= 1 ELSE IsRest(p, Body(p)[s][j], c, t)

LaunchedPieces == pieces = [w \in {"fc1", "fc2"} |-> [c \in 0 .. GridX(plan) - 1 |-> Pieces(plan, w, c)]]

StageInv ==
  /\ job \in [CTAs -> Nat \ {0}] /\ todo \in [CTAs -> Seq(Split)] /\ seg \in [CTAs -> Nat \ {0}]
  /\ launched \in Nat
  /\ launched = 0 => \A c \in CTAs : at[c] = "out"
  /\ launched > 0 => LaunchedPieces /\ \A c \in Grid : AtStage(plan, c, at[c], seg[c], job[c], todo[c])

\* All pieces are of their type when the CTAs agree.
LEMMA PiecesAreSplits ==
  ASSUME SchedulesAgree, NEW p \in Plans, NEW w \in Gemms, NEW c \in 0 .. GridX(p) - 1
  PROVE  Pieces(p, w, c) \in Seq(Split)
BY ConsistentSlices DEF SchedulesAgree

\* FromLive drops what is before the next live piece, which is not live.
LEMMA FromLiveIsEnd ==
  ASSUME NEW p, NEW w, NEW s \in Seq(Split)
  PROVE  LET t == FromLive(p, w, s) IN
         /\ t \in Seq(Split) /\ IsEnd(s, t)
         /\ t # <<>> => Live(p, w, Head(t))
         /\ \A i \in 1 .. Len(s) - Len(t) : ~Live(p, w, s[i])
<1>. DEFINE live == {i \in DOMAIN s : Live(p, w, s[i])}
            t == FromLive(p, w, s)
<1>1. DOMAIN s = 1 .. Len(s) /\ Len(s) \in Nat /\ live \subseteq 1 .. Len(s)
  OBVIOUS
<1>2. CASE live = {}
  <2>1. t = <<>>
    BY <1>2 DEF FromLive
  <2>2. Len(t) = 0 /\ \A i \in 1 .. Len(s) : ~Live(p, w, s[i])
    BY <1>1, <1>2, <2>1
  <2>. QED
    BY <1>1, <2>1, <2>2 DEF IsEnd
<1>3. CASE live # {}
  <2>. DEFINE m == Min(live)
  <2>1. \E x \in live : \A i \in live : x <= i
    <3>1. live \in SUBSET Nat
      BY <1>1
    <3>. HIDE DEF live
    <3>. QED
      BY <1>3, <3>1, SmallestOfSet
  <2>2. m \in live /\ \A i \in live : m <= i
    <3>. HIDE DEF live
    <3>. QED
      BY <2>1 DEF Min
  <2>3. t = SubSeq(s, m, Len(s))
    BY <1>3 DEF FromLive
  <2>4. m \in 1 .. Len(s) /\ Live(p, w, s[m])
    BY <1>1, <2>2
  <2>. HIDE DEF m, t
  <2>5. t \in Seq(Split) /\ Len(t) = Len(s) - m + 1 /\ \A i \in 1 .. Len(t) : t[i] = s[m + i - 1]
    BY <1>1, <2>3, <2>4
  <2>6. \A i \in 1 .. Len(t) : t[i] = s[Len(s) - Len(t) + i]
    BY <1>1, <2>4, <2>5
  <2>7. t # <<>> /\ Head(t) = s[m]
    BY <1>1, <2>4, <2>5
  <2>8. ASSUME NEW i \in 1 .. Len(s) - Len(t) PROVE ~Live(p, w, s[i])
    <3>1. i \in 1 .. Len(s) /\ i < m
      BY <1>1, <2>4, <2>5
    <3>2. i \notin live
      <4>. HIDE DEF live
      <4>1. m \in Int /\ i \in Int
        BY <1>1, <2>4
      <4>. QED
        BY <2>2, <3>1, <4>1 DEF m
    <3>. QED
      BY <1>1, <3>1, <3>2
  <2>. QED
    BY <1>1, <2>4, <2>5, <2>6, <2>7, <2>8 DEF IsEnd, t
<1>. QED
  BY <1>2, <1>3

\* An end of an end is an end.
LEMMA EndOfEnd ==
  ASSUME NEW S, NEW all \in Seq(S), NEW s \in Seq(S), NEW t \in Seq(S), IsEnd(all, s), IsEnd(s, t)
  PROVE  IsEnd(all, t)
<1>1. Len(all) \in Nat /\ Len(s) \in Nat /\ Len(t) \in Nat /\ Len(t) <= Len(s) /\ Len(s) <= Len(all)
  BY DEF IsEnd
<1>2. ASSUME NEW i \in 1 .. Len(t) PROVE t[i] = all[Len(all) - Len(t) + i]
  <2>. DEFINE k == Len(s) - Len(t) + i
  <2>1. k \in 1 .. Len(s) /\ t[i] = s[k]
    BY <1>1 DEF IsEnd
  <2>2. s[k] = all[Len(all) - Len(s) + k]
    BY <2>1 DEF IsEnd
  <2>3. Len(all) - Len(s) + k = Len(all) - Len(t) + i
    BY <1>1
  <2>. QED
    BY <2>1, <2>2, <2>3
<1>. QED
  BY <1>1, <1>2 DEF IsEnd

LEMMA TailIsEnd ==
  ASSUME NEW S, NEW s \in Seq(S), s # <<>>
  PROVE  Tail(s) \in Seq(S) /\ IsEnd(s, Tail(s)) /\ Len(Tail(s)) = Len(s) - 1
<1>1. Tail(s) \in Seq(S) /\ Len(Tail(s)) = Len(s) - 1 /\ Len(s) \in Nat \ {0}
      /\ \A i \in 1 .. Len(Tail(s)) : Tail(s)[i] = s[i + 1]
  OBVIOUS
<1>2. \A i \in 1 .. Len(Tail(s)) : i + 1 = Len(s) - Len(Tail(s)) + i
  BY <1>1
<1>. QED
  BY <1>1, <1>2 DEF IsEnd

-----------------------------------------------------------------------------
(* What is left of the work of a stage. *)

LEMMA RestOfPieces ==
  ASSUME SchedulesAgree, NEW p \in Plans, NEW w \in Gemms, NEW c \in 0 .. GridX(p) - 1
  PROVE  LET t == FromLive(p, w, Pieces(p, w, c)) IN t \in Seq(Split) /\ IsRest(p, w, c, t)
<1>1. Pieces(p, w, c) \in Seq(Split)
  BY PiecesAreSplits
<1>. QED
  BY <1>1, FromLiveIsEnd DEF IsRest

LEMMA RestOfTail ==
  ASSUME SchedulesAgree, NEW p \in Plans, NEW w \in Gemms, NEW c \in 0 .. GridX(p) - 1,
         NEW s \in Seq(Split), s # <<>>, IsRest(p, w, c, s)
  PROVE  LET t == FromLive(p, w, Tail(s)) IN
         /\ t \in Seq(Split) /\ IsRest(p, w, c, t)
         /\ Len(t) <= Len(s) - 1
         /\ \A i \in Len(Pieces(p, w, c)) - Len(s) + 2 .. Len(Pieces(p, w, c)) - Len(t) :
              i \in 1 .. Len(Pieces(p, w, c)) /\ ~Live(p, w, Pieces(p, w, c)[i])
<1>. DEFINE all == Pieces(p, w, c)
            r == Tail(s)
            t == FromLive(p, w, r)
<1>1. all \in Seq(Split)
  BY PiecesAreSplits
<1>2. r \in Seq(Split) /\ IsEnd(s, r) /\ Len(r) = Len(s) - 1 /\ Len(s) \in Nat
  BY TailIsEnd
<1>3. t \in Seq(Split) /\ IsEnd(r, t) /\ (t # <<>> => Live(p, w, Head(t)))
      /\ \A i \in 1 .. Len(r) - Len(t) : ~Live(p, w, r[i])
  BY <1>2, FromLiveIsEnd
<1>. HIDE DEF all, r, t
<1>4. IsEnd(all, s)
  BY DEF IsRest, all
<1>5. IsEnd(all, r)
  BY <1>1, <1>2, <1>4, EndOfEnd
<1>6. IsEnd(all, t)
  BY <1>1, <1>2, <1>3, <1>5, EndOfEnd
<1>7. Len(all) \in Nat /\ Len(r) \in Nat /\ Len(t) \in Nat /\ Len(r) <= Len(all) /\ Len(t) <= Len(r)
  BY <1>1, <1>2, <1>3, <1>5 DEF IsEnd
<1>8. ASSUME NEW i \in Len(all) - Len(s) + 2 .. Len(all) - Len(t)
      PROVE  i \in 1 .. Len(all) /\ ~Live(p, w, all[i])
  <2>. DEFINE k == i - (Len(all) - Len(r))
  <2>1. k \in 1 .. Len(r) - Len(t) /\ k \in 1 .. Len(r) /\ Len(all) - Len(r) + k = i /\ i \in 1 .. Len(all)
    BY <1>2, <1>7
  <2>2. r[k] = all[i]
    BY <1>5, <2>1 DEF IsEnd
  <2>. QED
    BY <1>3, <2>1, <2>2
<1>. QED
  BY <1>2, <1>3, <1>6, <1>7, <1>8 DEF IsRest, all, r, t

\* The piece a CTA is at is a slice somebody computes.
HeadOf(p, w, c, t) == <<c, Len(Pieces(p, w, c)) - Len(t) + 1>>

LEMMA HeadIsSlice ==
  ASSUME SchedulesAgree, NEW p \in Plans, NEW w \in Gemms, NEW c \in 0 .. GridX(p) - 1,
         NEW t \in Seq(Split), t # <<>>, IsRest(p, w, c, t)
  PROVE  HeadOf(p, w, c, t) \in SlicesOf(p, w) /\ It(p, w, HeadOf(p, w, c, t)) = Head(t)
<1>. DEFINE all == Pieces(p, w, c)
            i == Len(all) - Len(t) + 1
<1>1. all \in Seq(Split)
  BY PiecesAreSplits
<1>2. Len(t) \in Nat \ {0} /\ Len(all) \in Nat /\ Len(t) <= Len(all) /\ Head(t) = t[1] /\ t[1] = all[i]
  <2>1. Len(t) \in Nat \ {0} /\ Head(t) = t[1] /\ 1 \in 1 .. Len(t)
    OBVIOUS
  <2>. HIDE DEF all
  <2>2. Len(t) <= Len(all) /\ t[1] = all[Len(all) - Len(t) + 1]
    BY <2>1 DEF IsRest, IsEnd, all
  <2>. QED
    BY <1>1, <2>1, <2>2
<1>3. i \in DOMAIN all /\ i \in Nat
  BY <1>1, <1>2
<1>4. Live(p, w, all[i])
  BY <1>2 DEF IsRest
<1>. QED
  BY <1>2, <1>3, <1>4 DEF HeadOf, SlicesOf, It

-----------------------------------------------------------------------------
LEMMA OneMoves ==
  ASSUME StageInv, BarrierType, launched > 0, NEW c \in Grid,
         NEW a, NEW s, NEW j, NEW t, AtStage(plan, c, a, s, j, t),
         at' = [at EXCEPT ![c] = a], seg' = [seg EXCEPT ![c] = s], job' = [job EXCEPT ![c] = j],
         todo' = [todo EXCEPT ![c] = t], UNCHANGED <<plan, pieces, launched>>
  PROVE  StageInv'
<1>1. Grid \subseteq CTAs /\ Grid' = Grid
  BY GridOfPlan DEF BarrierType, Grid
<1>2. s \in Nat \ {0} /\ j \in Nat \ {0} /\ t \in Seq(Split)
  <2>1. \A n : s \in 1 .. n => s \in Nat \ {0}
    OBVIOUS
  <2>2. \A n : j \in 1 .. n => j \in Nat \ {0}
    OBVIOUS
  <2>. QED
    BY <2>1, <2>2 DEF AtStage
<1>3. job' \in [CTAs -> Nat \ {0}] /\ todo' \in [CTAs -> Seq(Split)] /\ seg' \in [CTAs -> Nat \ {0}]
  BY <1>1, <1>2 DEF StageInv
<1>4. LaunchedPieces'
  BY DEF StageInv, LaunchedPieces
<1>5. at'[c] = a /\ seg'[c] = s /\ job'[c] = j /\ todo'[c] = t
      /\ \A d \in CTAs \ {c} : at'[d] = at[d] /\ seg'[d] = seg[d] /\ job'[d] = job[d] /\ todo'[d] = todo[d]
  BY <1>1 DEF StageInv, BarrierType
<1>6. \A d \in Grid : AtStage(plan, d, at'[d], seg'[d], job'[d], todo'[d])
  <2>. TAKE d \in Grid
  <2>1. CASE d = c
    BY <1>5, <2>1
  <2>2. CASE d # c
    BY <1>1, <1>5, <2>2 DEF StageInv
  <2>. QED
    BY <2>1, <2>2
<1>. QED
  BY <1>1, <1>3, <1>4, <1>6 DEF StageInv

\* A CTA that is not out is one of a launch, at its stage.
LEMMA ActiveCTA ==
  ASSUME StageInv, BarrierInv, NEW c \in CTAs, at[c] # "out"
  PROVE  /\ c \in Grid /\ launched > 0 /\ LaunchedPieces /\ plan \in Plans /\ c \in 0 .. GridX(plan) - 1
         /\ AtStage(plan, c, at[c], seg[c], job[c], todo[c])
         /\ Work(c) \in Works /\ Has(plan, Work(c)) /\ seg[c] = SegOf(plan, Work(c)) /\ job[c] = JobOf(plan, Work(c))
         /\ seg[c] \in Nat /\ job[c] \in Nat
<1>1. c \in Grid /\ launched > 0
  BY DEF StageInv, BarrierInv, OthersOut
<1>2. plan \in Plans /\ LaunchedPieces /\ AtStage(plan, c, at[c], seg[c], job[c], todo[c])
  BY <1>1 DEF StageInv, BarrierInv, BarrierType
<1>3. seg[c] \in 1 .. Len(Body(plan)) /\ job[c] \in 1 .. Len(Body(plan)[seg[c]])
  BY <1>2 DEF AtStage
<1>4. Work(c) \in Works /\ Has(plan, Work(c)) /\ seg[c] = SegOf(plan, Work(c)) /\ job[c] = JobOf(plan, Work(c))
  <2>1. \A s \in 1 .. Len(Body(plan)) : \A j \in 1 .. Len(Body(plan)[s]) :
          /\ Body(plan)[s][j] \in Works /\ Has(plan, Body(plan)[s][j])
          /\ SegOf(plan, Body(plan)[s][j]) = s /\ JobOf(plan, Body(plan)[s][j]) = j
    BY <1>2, WorkOfBody, Zenon
  <2>. QED
    BY <1>3, <2>1, Zenon DEF Work
<1>. QED
  BY <1>1, <1>2, <1>3, <1>4 DEF Grid, StageInv

\* The work of a stage that a CTA comes to.
PlannedPieces(p, w, c) ==
  IF w \in Strided THEN <<OwnTile(Gemm(p, "fc1"), c)>> ELSE FromLive(p, w, Pieces(p, w, c))

LEMMA PlannedWork ==
  ASSUME SchedulesAgree, NEW p \in Plans, NEW c \in 0 .. GridX(p) - 1,
         NEW s \in 1 .. Len(Body(p)), NEW j \in 1 .. Len(Body(p)[s])
  PROVE  AtStage(p, c, "work", s, j, PlannedPieces(p, Body(p)[s][j], c))
<1>. DEFINE w == Body(p)[s][j]
            t == PlannedPieces(p, w, c)
<1>1. w \in Works
  BY WorkOfBody
<1>2. c \in 0 .. GridX(p) - 1 /\ c \in Nat
  BY GridIsNat
<1>3. CASE w \in Strided
  <2>1. t = <<OwnTile(Gemm(p, "fc1"), c)>>
    BY <1>3 DEF PlannedPieces
  <2>2. Gemm(p, "fc1").k \in Nat
    BY NumbersOfGemm DEF Gemms
  <2>3. OwnTile(Gemm(p, "fc1"), c) \in Split
    BY <1>2, <2>2 DEF OwnTile, Split
  <2>. DEFINE o == OwnTile(Gemm(p, "fc1"), c)
  <2>. HIDE DEF o
  <2>4. <<o>> \in Seq(Split) /\ Len(<<o>>) <= 1
    BY <2>3 DEF o
  <2>. QED
    BY <1>3, <2>1, <2>4 DEF AtStage, AtBarrier, o
<1>4. CASE w \notin Strided
  <2>1. w \in Gemms
    BY <1>1, <1>4 DEF Works
  <2>3. t = FromLive(p, w, Pieces(p, w, c))
    BY <1>4 DEF PlannedPieces
  <2>4. t \in Seq(Split) /\ IsRest(p, w, c, t)
    BY <1>2, <2>1, <2>3, RestOfPieces
  <2>. QED
    BY <1>4, <2>4 DEF AtStage, AtBarrier
<1>. QED
  BY <1>3, <1>4

LEMMA PiecesAsPlanned ==
  ASSUME LaunchedPieces, NEW w \in Works, NEW c \in 0 .. GridX(plan) - 1
  PROVE  PiecesOf(w, c) = PlannedPieces(plan, w, c)
<1>1. CASE w \in Strided
  BY <1>1 DEF PiecesOf, PlannedPieces
<1>2. CASE w \notin Strided
  <2>1. pieces[w][c] = Pieces(plan, w, c)
    BY <1>2 DEF LaunchedPieces, Works, Gemms
  <2>. QED
    BY <1>2, <2>1 DEF PiecesOf, PlannedPieces
<1>. QED
  BY <1>1, <1>2

LEMMA NewWork ==
  ASSUME SchedulesAgree, plan \in Plans, LaunchedPieces, NEW c \in Grid,
         NEW s \in 1 .. Len(Body(plan)), NEW j \in 1 .. Len(Body(plan)[s])
  PROVE  AtStage(plan, c, "work", s, j, PiecesOf(Body(plan)[s][j], c))
<1>1. c \in 0 .. GridX(plan) - 1 /\ Body(plan)[s][j] \in Works
  BY WorkOfBody DEF Grid
<1>2. PiecesOf(Body(plan)[s][j], c) = PlannedPieces(plan, Body(plan)[s][j], c)
  BY <1>1, PiecesAsPlanned
<1>3. AtStage(plan, c, "work", s, j, PlannedPieces(plan, Body(plan)[s][j], c))
  BY <1>1, PlannedWork
<1>. QED
  BY <1>2, <1>3

\* And what is left of it after a piece.
LEMMA AfterPiece ==
  ASSUME SchedulesAgree, plan \in Plans, NEW c \in Grid, NEW a, AtStage(plan, c, a, seg[c], job[c], todo[c]), todo[c] # <<>>
  PROVE  AtStage(plan, c, "work", seg[c], job[c], FromLive(plan, Work(c), Tail(todo[c])))
<1>. DEFINE w == Work(c)
            t == FromLive(plan, w, Tail(todo[c]))
<1>1. /\ seg[c] \in 1 .. Len(Body(plan)) /\ job[c] \in 1 .. Len(Body(plan)[seg[c]]) /\ todo[c] \in Seq(Split)
      /\ w = Body(plan)[seg[c]][job[c]]
  BY DEF AtStage, Work
<1>2. w \in Works
  BY <1>1, WorkOfBody
<1>3. c \in 0 .. GridX(plan) - 1
  BY DEF Grid
<1>4. Tail(todo[c]) \in Seq(Split) /\ Len(Tail(todo[c])) = Len(todo[c]) - 1 /\ Len(todo[c]) \in Nat
  BY <1>1, TailIsEnd
<1>5. CASE w \in Strided
  <2>1. Len(todo[c]) <= 1
    BY <1>1, <1>5 DEF AtStage
  <2>2. t \in Seq(Split) /\ Len(t) <= Len(Tail(todo[c]))
    BY <1>4, FromLiveIsEnd DEF IsEnd
  <2>. HIDE DEF t
  <2>3. Len(t) <= 1
    BY <1>4, <2>1, <2>2
  <2>. QED
    BY <1>1, <1>5, <2>2, <2>3 DEF AtStage, AtBarrier, t
<1>6. CASE w \notin Strided
  <2>1. w \in Gemms /\ IsRest(plan, w, c, todo[c])
    BY <1>1, <1>2, <1>6 DEF Works, AtStage
  <2>2. t \in Seq(Split) /\ IsRest(plan, w, c, t)
    BY <1>1, <1>3, <2>1, RestOfTail
  <2>. QED
    BY <1>1, <1>6, <2>2 DEF AtStage, AtBarrier
<1>. QED
  BY <1>5, <1>6

-----------------------------------------------------------------------------
(* The invariant of turns, sums and buffers. *)

\* Where a CTA is with respect to a stage.
Passed(c, w) == seg[c] > SegOf(plan, w) \/ (seg[c] = SegOf(plan, w) /\ job[c] > JobOf(plan, w))
Within(c, w) == seg[c] = SegOf(plan, w) /\ job[c] = JobOf(plan, w)

\* How far a slice of a GEMM is: its CTA has left it, or is at it; its turn was taken,
\* and is passed on.
IsDone(w, x) ==
  Passed(x[1], w) \/ (Within(x[1], w) /\ x[2] + Len(todo[x[1]]) <= Len(Pieces(plan, w, x[1])))
IsAt(w, x, place) ==
  Within(x[1], w) /\ at[x[1]] = place /\ x[2] + Len(todo[x[1]]) = Len(Pieces(plan, w, x[1])) + 1
IsPublished(w, x) == IsDone(w, x) \/ IsAt(w, x, "store")
IsTaken(w, x) == IsPublished(w, x) \/ IsAt(w, x, "publish")

Shared(w) == {x \in SlicesOf(plan, w) : It(plan, w, x).count > 1}
Slot(w, x) == It(plan, w, x).slot
Idx(w, x) == It(plan, w, x).idx
Count(w, x) == It(plan, w, x).count
Lo(w, x) == It(plan, w, x).lo
Hi(w, x) == It(plan, w, x).hi
Together(w, x, y) == SameTile(plan, w, x, y)
Follows(w, y, x) == Together(w, x, y) /\ Idx(w, y) = Idx(w, x) + 1

\* The slices of a tile take their turns in order, each after the one before passed it on.
TurnsInOrder ==
  \A w \in Gemms : \A x, y \in Shared(w) :
    Together(w, x, y) /\ Idx(w, x) < Idx(w, y) /\ IsTaken(w, y) => IsPublished(w, x)

\* The lock word says whose turn it is, while some have had theirs and some have not.
Due(w, x, y) == Follows(w, y, x) /\ IsPublished(w, x) /\ ~IsPublished(w, y)
LockIsNext == \A w \in Gemms : \A x, y \in Shared(w) : Due(w, x, y) => lock[Slot(w, y)] = Idx(w, y)
LockIsDue ==
  \A s \in Slots : lock[s] # 0 =>
    \E w \in Gemms : \E x, y \in Shared(w) : Due(w, x, y) /\ Slot(w, y) = s /\ lock[s] = Idx(w, y)

TurnInv == TurnsInOrder /\ LockIsNext /\ LockIsDue

\* The sum over the slices of a tile up to one, and the part of one.
SumTo(w, x) ==
  [parts |-> {v \in 0 .. Gemm(plan, w).k - 1 : \E y \in SlicesOf(plan, w) :
                Together(w, y, x) /\ Idx(w, y) <= Idx(w, x) /\ Lo(w, y) <= v /\ v < Hi(w, y)},
   ok |-> TRUE]
PartOf(w, x) == [parts |-> Lo(w, x) .. Hi(w, x) - 1, ok |-> TRUE]

ScratchIsSum ==
  \A w \in Gemms : \A x, y \in Shared(w) :
    Follows(w, y, x) /\ IsTaken(w, x) /\ ~IsTaken(w, y) => ctmp[<<w, Slot(w, x)>>] = SumTo(w, x)
AccIsSum ==
  \A w \in Gemms : \A x \in SlicesOf(plan, w) :
    /\ IsAt(w, x, "turn") => acc[x[1]] = PartOf(w, x)
    /\ IsAt(w, x, "publish") \/ IsAt(w, x, "store") => acc[x[1]] = SumTo(w, x)
SumInv == ScratchIsSum /\ AccIsSum

\* A strided stage is done for a CTA once its share is.
Strode(c, w) == Passed(c, w) \/ (Within(c, w) /\ todo[c] = <<>>)
IsStored(w, t) ==
  \E x \in SlicesOf(plan, w) : It(plan, w, x).tile = t /\ IsLast(It(plan, w, x)) /\ IsDone(w, x)
AliveCell(w, cell) == BlockOf(plan, w, cell[2]) \notin plan.dead

Rotated ==
  plan.rotated => \A c \in Grid : Strode(c, "rotate") =>
    \A cell \in Share(plan, "rotate", c) : mem[cell] = {<<"rotate", cell[2]>>}
Activated ==
  plan.gated => \A c \in Grid : Strode(c, "activate") =>
    \A cell \in Share(plan, "activate", c) : AliveCell("activate", cell) => mem[cell] = {<<"activate", cell[2]>>}
Zeroed ==
  plan.mapped => \A c \in Grid : Strode(c, "zero") =>
    \A cell \in Share(plan, "zero", c) : cell[2] \div plan.n2 \in plan.dead => mem[cell] = {}
Fc1Stored ==
  (plan.gated => \A d \in Grid : seg[d] <= SegOf(plan, "activate")) =>
    \A t \in Tiles(plan, "fc1") : IsStored("fc1", t) => mem[Target(plan, "fc1", t)] = {<<"fc1", t>>}
Fc2Stored ==
  ~plan.fusedSum =>
    \A t \in Tiles(plan, "fc2") : IsStored("fc2", t) => mem[Target(plan, "fc2", t)] = {<<"fc2", t>>}
Summed(cell) ==
  {<<"fc2", t>> : t \in {t \in Tiles(plan, "fc2") : IsStored("fc2", t) /\ Target(plan, "fc2", t) = cell}}
Fc2Summed ==
  plan.fusedSum => \A c \in Grid : Strode(c, "prezero") =>
    \A cell \in Share(plan, "prezero", c) : mem[cell] = Summed(cell)
MemInv ==
  /\ DOMAIN mem = Cells(plan)
  /\ Rotated /\ Activated /\ Zeroed /\ Fc1Stored /\ Fc2Stored /\ Fc2Summed

WordsInv ==
  /\ count \in Nat /\ lock \in [Slots -> Nat] /\ launched \in 0 .. Launches
  /\ DOMAIN acc = CTAs /\ DOMAIN ctmp = Gemms \X Slots
Unlaunched == launched = 0 => \A s \in Slots : lock[s] = 0
LaunchedInv == launched > 0 => TurnInv /\ SumInv /\ MemInv

-----------------------------------------------------------------------------
(* Every CTA stays on its way through the stages. *)

\* The slice a CTA is at.
LEMMA SliceAt ==
  ASSUME SchedulesAgree, StageInv, BarrierInv, NEW c \in CTAs, at[c] # "out", Work(c) \notin Strided, todo[c] # <<>>
  PROVE  LET w == Work(c) x == HeadOf(plan, w, c, todo[c]) IN
         /\ w \in Gemms /\ x \in SlicesOf(plan, w) /\ It(plan, w, x) = Piece(c) /\ x[1] = c
         /\ IsRest(plan, w, c, todo[c]) /\ todo[c] \in Seq(Split) /\ Piece(c) \in Split
         /\ Piece(c).idx < Piece(c).count
<1>1. /\ c \in 0 .. GridX(plan) - 1 /\ plan \in Plans /\ Work(c) \in Works
      /\ AtStage(plan, c, at[c], seg[c], job[c], todo[c])
  BY ActiveCTA
<1>2. Work(c) \in Gemms
  BY <1>1 DEF Works
<1>3. IsRest(plan, Work(c), c, todo[c]) /\ todo[c] \in Seq(Split)
  BY <1>1 DEF AtStage, Work
<1>. DEFINE w == Work(c)
            x == HeadOf(plan, w, c, todo[c])
<1>4. x \in SlicesOf(plan, w) /\ It(plan, w, x) = Head(todo[c])
  BY <1>1, <1>2, <1>3, HeadIsSlice
<1>5. Head(todo[c]) \in Split
  BY <1>3
<1>6. x[1] = c
  BY DEF HeadOf
<1>7. \A y \in SlicesOf(plan, w) : It(plan, w, y).idx < It(plan, w, y).count
  <2>1. Consistent(plan, w)
    BY <1>1, <1>2 DEF SchedulesAgree
  <2>. QED
    BY <1>1, <1>2, <2>1, ConsistentSlices
<1>. HIDE DEF w, x
<1>8. It(plan, w, x).idx < It(plan, w, x).count
  BY <1>4, <1>7
<1>. QED
  BY <1>2, <1>3, <1>4, <1>5, <1>6, <1>8 DEF Piece, w, x

LEMMA AtIsSame ==
  ASSUME StageInv, BarrierType, NEW c \in CTAs
  PROVE  /\ at = [at EXCEPT ![c] = at[c]] /\ seg = [seg EXCEPT ![c] = seg[c]]
         /\ job = [job EXCEPT ![c] = job[c]] /\ todo = [todo EXCEPT ![c] = todo[c]]
BY DEF StageInv, BarrierType

LEMMA StrideStage ==
  ASSUME SchedulesAgree, StageInv, BarrierInv, NEW c \in CTAs, Stride(c) PROVE StageInv'
<1>1. at[c] = "work" /\ todo[c] # <<>>
  BY DEF Stride
<1>2. c \in Grid /\ launched > 0 /\ plan \in Plans /\ AtStage(plan, c, at[c], seg[c], job[c], todo[c])
  BY <1>1, ActiveCTA
<1>. DEFINE t == FromLive(plan, Work(c), Tail(todo[c]))
<1>3. AtStage(plan, c, "work", seg[c], job[c], t)
  BY <1>1, <1>2, AfterPiece
<1>4. BarrierType
  BY DEF BarrierInv
<1>. HIDE DEF t
<1>5. /\ at' = [at EXCEPT ![c] = "work"] /\ seg' = [seg EXCEPT ![c] = seg[c]] /\ job' = [job EXCEPT ![c] = job[c]]
      /\ todo' = [todo EXCEPT ![c] = t] /\ UNCHANGED <<plan, pieces, launched>>
  BY <1>1, <1>4, AtIsSame DEF Stride, Advance, t
<1>. QED
  BY <1>2, <1>3, <1>4, <1>5, OneMoves

LEMMA MultiplyStage ==
  ASSUME SchedulesAgree, StageInv, BarrierInv, NEW c \in CTAs, Multiply(c) PROVE StageInv'
<1>1. at[c] = "work" /\ todo[c] # <<>> /\ Work(c) \notin Strided
  BY DEF Multiply
<1>2. c \in Grid /\ launched > 0 /\ plan \in Plans /\ AtStage(plan, c, at[c], seg[c], job[c], todo[c])
  BY <1>1, ActiveCTA
<1>. DEFINE a == IF Piece(c).count > 1 THEN "turn" ELSE "store"
<1>3. Work(c) \in Gemms /\ Piece(c) \in Split /\ Piece(c).idx < Piece(c).count
  BY <1>1, SliceAt
<1>4. AtStage(plan, c, a, seg[c], job[c], todo[c])
  <2>1. Piece(c).count > 1 \/ IsLast(Piece(c))
    BY <1>3 DEF IsLast, Split
  <2>. QED
    BY <1>1, <1>2, <1>3, <2>1 DEF AtStage, AtBarrier, Piece, Work
<1>5. BarrierType
  BY DEF BarrierInv
<1>. HIDE DEF a
<1>6. /\ at' = [at EXCEPT ![c] = a] /\ seg' = [seg EXCEPT ![c] = seg[c]] /\ job' = [job EXCEPT ![c] = job[c]]
      /\ todo' = [todo EXCEPT ![c] = todo[c]] /\ UNCHANGED <<plan, pieces, launched>>
  BY <1>5, AtIsSame DEF Multiply, Go, a
<1>. QED
  BY <1>2, <1>4, <1>5, <1>6, OneMoves

LEMMA TakeTurnStage ==
  ASSUME SchedulesAgree, StageInv, BarrierInv, NEW c \in CTAs, TakeTurn(c) PROVE StageInv'
<1>1. at[c] = "turn"
  BY DEF TakeTurn
<1>2. c \in Grid /\ launched > 0 /\ plan \in Plans /\ AtStage(plan, c, at[c], seg[c], job[c], todo[c])
  BY <1>1, ActiveCTA
<1>3. AtStage(plan, c, "publish", seg[c], job[c], todo[c])
  BY <1>1, <1>2 DEF AtStage, AtBarrier
<1>4. BarrierType
  BY DEF BarrierInv
<1>5. /\ at' = [at EXCEPT ![c] = "publish"] /\ seg' = [seg EXCEPT ![c] = seg[c]] /\ job' = [job EXCEPT ![c] = job[c]]
      /\ todo' = [todo EXCEPT ![c] = todo[c]] /\ UNCHANGED <<plan, pieces, launched>>
  BY <1>4, AtIsSame DEF TakeTurn, Go
<1>. QED
  BY <1>2, <1>3, <1>4, <1>5, OneMoves

LEMMA PublishTurnStage ==
  ASSUME SchedulesAgree, StageInv, BarrierInv, NEW c \in CTAs, PublishTurn(c) PROVE StageInv'
<1>1. at[c] = "publish"
  BY DEF PublishTurn
<1>2. c \in Grid /\ launched > 0 /\ plan \in Plans /\ AtStage(plan, c, at[c], seg[c], job[c], todo[c])
  BY <1>1, ActiveCTA
<1>3. BarrierType
  BY DEF BarrierInv
<1>4. CASE IsLast(Piece(c))
  <2>1. AtStage(plan, c, "store", seg[c], job[c], todo[c])
    BY <1>1, <1>2, <1>4 DEF AtStage, AtBarrier, Piece
  <2>2. /\ at' = [at EXCEPT ![c] = "store"] /\ seg' = [seg EXCEPT ![c] = seg[c]] /\ job' = [job EXCEPT ![c] = job[c]]
        /\ todo' = [todo EXCEPT ![c] = todo[c]] /\ UNCHANGED <<plan, pieces, launched>>
    BY <1>3, <1>4, AtIsSame DEF PublishTurn, Go
  <2>. QED
    BY <1>2, <1>3, <2>1, <2>2, OneMoves
<1>5. CASE ~IsLast(Piece(c))
  <2>. DEFINE t == FromLive(plan, Work(c), Tail(todo[c]))
  <2>1. todo[c] # <<>>
    BY <1>1, <1>2 DEF AtStage
  <2>2. AtStage(plan, c, "work", seg[c], job[c], t)
    BY <1>1, <1>2, <2>1, AfterPiece
  <2>. HIDE DEF t
  <2>3. /\ at' = [at EXCEPT ![c] = "work"] /\ seg' = [seg EXCEPT ![c] = seg[c]] /\ job' = [job EXCEPT ![c] = job[c]]
        /\ todo' = [todo EXCEPT ![c] = t] /\ UNCHANGED <<plan, pieces, launched>>
    BY <1>3, <1>5, AtIsSame DEF PublishTurn, Go, Advance, t
  <2>. QED
    BY <1>2, <1>3, <2>2, <2>3, OneMoves
<1>. QED
  BY <1>4, <1>5

LEMMA StoreTileStage ==
  ASSUME SchedulesAgree, StageInv, BarrierInv, NEW c \in CTAs, StoreTile(c) PROVE StageInv'
<1>1. at[c] = "store"
  BY DEF StoreTile
<1>2. c \in Grid /\ launched > 0 /\ plan \in Plans /\ AtStage(plan, c, at[c], seg[c], job[c], todo[c])
  BY <1>1, ActiveCTA
<1>3. BarrierType
  BY DEF BarrierInv
<1>. DEFINE t == FromLive(plan, Work(c), Tail(todo[c]))
<1>4. todo[c] # <<>>
  BY <1>1, <1>2 DEF AtStage
<1>5. AtStage(plan, c, "work", seg[c], job[c], t)
  BY <1>1, <1>2, <1>4, AfterPiece
<1>. HIDE DEF t
<1>6. /\ at' = [at EXCEPT ![c] = "work"] /\ seg' = [seg EXCEPT ![c] = seg[c]] /\ job' = [job EXCEPT ![c] = job[c]]
      /\ todo' = [todo EXCEPT ![c] = t] /\ UNCHANGED <<plan, pieces, launched>>
  BY <1>3, AtIsSame DEF StoreTile, Go, Advance, t
<1>. QED
  BY <1>2, <1>3, <1>5, <1>6, OneMoves

LEMMA NextStageStage ==
  ASSUME SchedulesAgree, StageInv, BarrierInv, NEW c \in CTAs, NextStage(c) PROVE StageInv'
<1>1. at[c] = "work" /\ todo[c] = <<>>
  BY DEF NextStage
<1>2. /\ c \in Grid /\ launched > 0 /\ plan \in Plans /\ LaunchedPieces
      /\ AtStage(plan, c, at[c], seg[c], job[c], todo[c])
  BY <1>1, ActiveCTA
<1>3. BarrierType
  BY DEF BarrierInv
<1>. DEFINE s == seg[c]
            j == job[c]
<1>4. s \in 1 .. Len(Body(plan)) /\ j \in 1 .. Len(Body(plan)[s]) /\ Len(Body(plan)[s]) \in Nat
  BY <1>2, BodyOfPlan DEF AtStage
<1>5. CASE j < Len(Body(plan)[s])
  <2>. DEFINE t == PiecesOf(Body(plan)[s][j + 1], c)
  <2>1. j + 1 \in 1 .. Len(Body(plan)[s])
    BY <1>4, <1>5
  <2>2. AtStage(plan, c, "work", s, j + 1, t)
    BY <1>2, <1>4, <2>1, NewWork
  <2>. HIDE DEF t
  <2>3. /\ at' = [at EXCEPT ![c] = "work"] /\ seg' = [seg EXCEPT ![c] = s] /\ job' = [job EXCEPT ![c] = j + 1]
        /\ todo' = [todo EXCEPT ![c] = t] /\ UNCHANGED <<plan, pieces, launched>>
    BY <1>1, <1>3, <1>5, AtIsSame DEF NextStage, t
  <2>. QED
    BY <1>2, <1>3, <2>2, <2>3, OneMoves
<1>6. CASE ~(j < Len(Body(plan)[s]))
  <2>. DEFINE a == IF s < Len(Body(plan)) THEN "load" ELSE "out"
  <2>1. AtStage(plan, c, a, s, j, todo[c])
    <3>1. j = Len(Body(plan)[s]) /\ (a = "out" <=> s = Len(Body(plan)))
      BY <1>4, <1>6, BodyOfPlan
    <3>. QED
      BY <1>1, <1>2, <3>1 DEF AtStage, AtBarrier
  <2>. HIDE DEF a
  <2>2. /\ at' = [at EXCEPT ![c] = a] /\ seg' = [seg EXCEPT ![c] = s] /\ job' = [job EXCEPT ![c] = j]
        /\ todo' = [todo EXCEPT ![c] = todo[c]] /\ UNCHANGED <<plan, pieces, launched>>
    BY <1>3, <1>6, AtIsSame DEF NextStage, Go, a
  <2>. QED
    BY <1>2, <1>3, <2>1, <2>2, OneMoves
<1>. QED
  BY <1>5, <1>6

LEMMA BarrierStage ==
  ASSUME SchedulesAgree, StageInv, BarrierInv, NEW c \in CTAs, LoadSense(c) \/ Arrive(c) \/ ResetCount(c)
  PROVE  StageInv'
<1>1. PICK a \in AtBarrier : at[c] \in AtBarrier /\ at' = [at EXCEPT ![c] = a]
  BY DEF LoadSense, Arrive, ResetCount, Go, AtBarrier
<1>2. c \in Grid /\ launched > 0 /\ plan \in Plans /\ AtStage(plan, c, at[c], seg[c], job[c], todo[c])
  BY <1>1, ActiveCTA DEF AtBarrier
<1>3. BarrierType
  BY DEF BarrierInv
<1>4. AtStage(plan, c, a, seg[c], job[c], todo[c])
  BY <1>1, <1>2 DEF AtStage, AtBarrier
<1>5. /\ seg' = [seg EXCEPT ![c] = seg[c]] /\ job' = [job EXCEPT ![c] = job[c]]
      /\ todo' = [todo EXCEPT ![c] = todo[c]] /\ UNCHANGED <<plan, pieces, launched>>
  BY <1>3, AtIsSame DEF LoadSense, Arrive, ResetCount
<1>. QED
  BY <1>1, <1>2, <1>3, <1>4, <1>5, OneMoves

LEMMA LeaveStage ==
  ASSUME SchedulesAgree, StageInv, BarrierInv, NEW c \in CTAs, ReleaseSense(c) \/ Pass(c)
  PROVE  /\ StageInv'
         /\ seg[c] + 1 \in 1 .. Len(Body(plan)) /\ todo[c] = <<>> /\ job[c] = Len(Body(plan)[seg[c]])
<1>1. at[c] \in AtBarrier /\ Leave(c) /\ UNCHANGED <<plan, pieces, launched>>
  BY DEF ReleaseSense, Pass, AtBarrier
<1>2. /\ c \in Grid /\ launched > 0 /\ plan \in Plans /\ LaunchedPieces
      /\ AtStage(plan, c, at[c], seg[c], job[c], todo[c])
  BY <1>1, ActiveCTA DEF AtBarrier
<1>3. BarrierType
  BY DEF BarrierInv
<1>. DEFINE s == seg[c] + 1
            t == PiecesOf(Body(plan)[s][1], c)
<1>4. s \in 1 .. Len(Body(plan)) /\ todo[c] = <<>> /\ job[c] = Len(Body(plan)[seg[c]])
  <2>1. seg[c] \in 1 .. Len(Body(plan)) /\ seg[c] # Len(Body(plan)) /\ todo[c] = <<>> /\ job[c] = Len(Body(plan)[seg[c]])
    BY <1>1, <1>2 DEF AtStage, AtBarrier
  <2>. QED
    BY <2>1
<1>5. 1 \in 1 .. Len(Body(plan)[s])
  <2>1. Len(Body(plan)[s]) \in Nat \ {0}
    BY <1>2, <1>4, BodyOfPlan
  <2>. QED
    BY <2>1
<1>6. AtStage(plan, c, "work", s, 1, t)
  BY <1>2, <1>4, <1>5, NewWork
<1>. HIDE DEF t
<1>7. /\ at' = [at EXCEPT ![c] = "work"] /\ seg' = [seg EXCEPT ![c] = s] /\ job' = [job EXCEPT ![c] = 1]
      /\ todo' = [todo EXCEPT ![c] = t]
  BY <1>1, <1>2, <1>3 DEF Leave, Go, t, StageInv
<1>8. StageInv'
  BY <1>1, <1>2, <1>3, <1>6, <1>7, OneMoves
<1>. QED
  BY <1>4, <1>8

LEMMA BodyBegins ==
  ASSUME NEW p \in Plans
  PROVE  1 \in 1 .. Len(Body(p)) /\ 1 \in 1 .. Len(Body(p)[1]) /\ Body(p)[1][1] \in Works
<1>1. Len(Body(p)) \in Nat \ {0}
  BY BodyOfPlan, NumbersOfPlan DEF SegOf, One
<1>2. 1 \in 1 .. Len(Body(p))
  BY <1>1
<1>3. Len(Body(p)[1]) \in Nat \ {0}
  BY <1>2, BodyOfPlan
<1>4. 1 \in 1 .. Len(Body(p)[1])
  BY <1>3
<1>. QED
  BY <1>2, <1>4, WorkOfBody

\* A launch puts its CTAs at the beginning.
LEMMA Launched ==
  ASSUME NEW p \in Plans, Start(p), NEW c \in CTAs, c < GridX(p)
  PROVE  /\ at'[c] = "work" /\ seg'[c] = 1 /\ job'[c] = 1
         /\ todo'[c] = PlannedPieces(p, Body(p)[1][1], c)
         /\ c \in 0 .. GridX(p) - 1
<1>1. c \in 0 .. GridX(p) - 1
  BY CTAIsNat, GridIsNat
<1>2. at'[c] = "work" /\ seg'[c] = 1 /\ job'[c] = 1
  BY DEF Start
<1>3. todo'[c] = PiecesOf(Body(p)[1][1], c)'
  BY DEF Start
<1>. DEFINE w == Body(p)[1][1]
<1>5. w \in Works
  BY BodyBegins
<1>. HIDE DEF w
<1>6. plan' = p /\ pieces' = [v \in {"fc1", "fc2"} |-> [d \in 0 .. GridX(p) - 1 |-> Pieces(p, v, d)]]
  BY DEF Start
<1>7. PiecesOf(w, c)' = PlannedPieces(p, w, c)
  <2>1. CASE w \in Strided
    BY <1>6, <2>1 DEF PiecesOf, PlannedPieces, w
  <2>2. CASE w \notin Strided
    <3>1. w \in {"fc1", "fc2"}
      BY <1>5, <2>2 DEF Works, Gemms
    <3>2. pieces'[w][c] = Pieces(p, w, c)
      BY <1>1, <1>6, <3>1
    <3>. QED
      BY <1>6, <2>2, <3>2 DEF PiecesOf, PlannedPieces, w
  <2>. QED
    BY <2>1, <2>2
<1>. QED
  BY <1>1, <1>2, <1>3, <1>7 DEF w

LEMMA LaunchStage ==
  ASSUME SchedulesAgree, StageInv, BarrierInv, Launch PROVE StageInv'
<1>1. PICK p \in Plans : Start(p)
  BY DEF Launch
<1>2. launched' \in Nat /\ launched' > 0
  BY DEF Launch, StageInv
<1>3. /\ plan' = p /\ LaunchedPieces'
      /\ seg' = [c \in CTAs |-> 1] /\ job' = [c \in CTAs |-> 1]
      /\ DOMAIN todo' = CTAs /\ todo' = [c \in CTAs |-> todo'[c]]
      /\ \A c \in CTAs : ~(c < GridX(p)) => todo'[c] = <<>>
  BY <1>1 DEF Start, LaunchedPieces
<1>4. Grid' \subseteq CTAs /\ \A c \in Grid' : c < GridX(p) /\ c \in 0 .. GridX(p) - 1
  BY <1>3, GridIsNat DEF Grid, CTAs
<1>5. \A c \in Grid' : AtStage(p, c, at'[c], seg'[c], job'[c], todo'[c])
  <2>. TAKE c \in Grid'
  <2>1. /\ at'[c] = "work" /\ seg'[c] = 1 /\ job'[c] = 1 /\ c \in 0 .. GridX(p) - 1
        /\ todo'[c] = PlannedPieces(p, Body(p)[1][1], c)
    BY <1>1, <1>4, Launched
  <2>2. AtStage(p, c, "work", 1, 1, PlannedPieces(p, Body(p)[1][1], c))
    BY <2>1, BodyBegins, PlannedWork
  <2>. QED
    BY <2>1, <2>2
<1>6. \A c \in CTAs : todo'[c] \in Seq(Split)
  <2>. TAKE c \in CTAs
  <2>1. CASE c < GridX(p)
    <3>1. c \in 0 .. GridX(p) - 1
      BY <1>1, <2>1, Launched
    <3>2. c \in Grid'
      BY <1>3, <3>1 DEF Grid
    <3>. QED
      BY <1>5, <3>2 DEF AtStage
  <2>2. CASE ~(c < GridX(p))
    <3>1. todo'[c] = <<>>
      BY <1>3, <2>2
    <3>2. <<>> \in Seq(Split)
      OBVIOUS
    <3>. QED
      BY <3>1, <3>2
  <2>. QED
    BY <2>1, <2>2
<1>7. job' \in [CTAs -> Nat \ {0}] /\ todo' \in [CTAs -> Seq(Split)] /\ seg' \in [CTAs -> Nat \ {0}]
  <2>1. job' \in [CTAs -> Nat \ {0}] /\ seg' \in [CTAs -> Nat \ {0}]
    BY <1>3
  <2>2. todo' \in [CTAs -> Seq(Split)]
    BY <1>3, <1>6
  <2>. QED
    BY <2>1, <2>2
<1>. QED
  BY <1>2, <1>3, <1>5, <1>7 DEF StageInv

LEMMA InitStage == Init => StageInv
BY DEF Init, StageInv

LEMMA NextStageInv ==
  ASSUME SchedulesAgree, StageInv, BarrierInv, [Next]_vars PROVE StageInv'
<1>1. CASE Launch
  BY <1>1, LaunchStage
<1>2. ASSUME NEW c \in CTAs, Step(c) PROVE StageInv'
  BY <1>2, StrideStage, MultiplyStage, TakeTurnStage, PublishTurnStage, StoreTileStage, NextStageStage,
     BarrierStage, LeaveStage, Zenon DEF Step
<1>3. CASE UNCHANGED vars
  BY <1>3 DEF vars, control, StageInv, LaunchedPieces, Grid
<1>. QED
  BY <1>1, <1>2, <1>3 DEF Next

-----------------------------------------------------------------------------
(* A CTA is at one slice, and the stages are apart. *)

Working == {"work", "turn", "publish", "store"}
AtPiece == {"turn", "publish", "store"}

\* The stages in their order.
LEMMA StageOrder ==
  ASSUME NEW p \in Plans
  PROVE  /\ SegOf(p, "fc1") < SegOf(p, "fc2") /\ SegOf(p, "prezero") < SegOf(p, "fc2")
         /\ \A w \in Works : SegOf(p, w) \in Nat /\ JobOf(p, w) \in Nat \ {0}
         /\ p.rotated => SegOf(p, "rotate") < SegOf(p, "fc1")
         /\ p.gated => SegOf(p, "fc1") < SegOf(p, "activate") /\ SegOf(p, "activate") < SegOf(p, "fc2")
         /\ p.mapped => SegOf(p, "zero") < SegOf(p, "fc2")
         /\ p.gated /\ p.mapped => SegOf(p, "activate") < SegOf(p, "zero")
<1>1. /\ p.gated \in BOOLEAN /\ p.rotated \in BOOLEAN /\ p.fusedSum \in BOOLEAN /\ p.mapped \in BOOLEAN
  BY NumbersOfPlan
<1>. QED
  BY <1>1 DEF SegOf, JobOf, One, Works, Strided, Gemms

\* A CTA is in one stage at a time.
LEMMA WithinIsWork ==
  ASSUME StageInv, BarrierInv, launched > 0, NEW c \in Grid, NEW w \in Works, Has(plan, w)
  PROVE  /\ Within(c, w) <=> Work(c) = w
         /\ Within(c, w) => ~Passed(c, w)
         /\ seg[c] \in 1 .. Len(Body(plan)) /\ job[c] \in 1 .. Len(Body(plan)[seg[c]])
<1>1. plan \in Plans /\ AtStage(plan, c, at[c], seg[c], job[c], todo[c])
  BY DEF StageInv, BarrierInv, BarrierType
<1>2. seg[c] \in 1 .. Len(Body(plan)) /\ job[c] \in 1 .. Len(Body(plan)[seg[c]])
  BY <1>1 DEF AtStage
<1>3. SegOf(plan, Work(c)) = seg[c] /\ JobOf(plan, Work(c)) = job[c]
  BY <1>1, <1>2, WorkOfBody DEF Work
<1>4. Body(plan)[SegOf(plan, w)][JobOf(plan, w)] = w
  BY <1>1, BodyOfPlan
<1>5. Within(c, w) <=> Work(c) = w
  BY <1>3, <1>4, Zenon DEF Within, Work
<1>6. seg[c] \in Int /\ job[c] \in Int
  BY <1>2
<1>7. SegOf(plan, w) \in Int /\ JobOf(plan, w) \in Int
  BY <1>1, StageOrder
<1>8. Within(c, w) => ~Passed(c, w)
  BY <1>6, <1>7 DEF Within, Passed
<1>. QED
  BY <1>2, <1>5, <1>8

GemmsAreWorks == Gemms \subseteq Works /\ \A w \in Gemms : Has(plan, w) /\ w \notin Strided
LEMMA GemmsWork == GemmsAreWorks
BY DEF GemmsAreWorks, Works, Gemms, Has, Strided

\* A slice that a CTA is at is its piece.
LEMMA AtIsPiece ==
  ASSUME SchedulesAgree, StageInv, BarrierInv, launched > 0, NEW w \in Gemms, NEW x \in SlicesOf(plan, w),
         NEW place \in AtPiece, IsAt(w, x, place)
  PROVE  /\ x[1] \in Grid /\ x[1] \in CTAs /\ at[x[1]] = place /\ Work(x[1]) = w
         /\ todo[x[1]] # <<>> /\ x = HeadOf(plan, w, x[1], todo[x[1]]) /\ It(plan, w, x) = Piece(x[1])
         /\ ~IsDone(w, x)
<1>. DEFINE c == x[1]
<1>1. plan \in Plans /\ Grid \subseteq CTAs
  BY GridOfPlan DEF BarrierInv, BarrierType
<1>2. c \in Grid /\ c \in CTAs /\ x = <<c, x[2]>> /\ x[2] \in Nat
  BY <1>1 DEF SlicesOf, Grid
<1>3. at[c] = place /\ at[c] # "out" /\ Work(c) = w
  BY <1>2, WithinIsWork, GemmsWork DEF IsAt, AtPiece, GemmsAreWorks
<1>4. AtStage(plan, c, at[c], seg[c], job[c], todo[c])
  BY <1>2 DEF StageInv
<1>5. todo[c] # <<>>
  BY <1>3, <1>4 DEF AtStage, AtPiece
<1>6. Work(c) \notin Strided
  BY <1>3, GemmsWork DEF GemmsAreWorks
<1>7. HeadOf(plan, w, c, todo[c]) \in SlicesOf(plan, w) /\ It(plan, w, HeadOf(plan, w, c, todo[c])) = Piece(c)
      /\ todo[c] \in Seq(Split)
  BY <1>2, <1>3, <1>5, <1>6, SliceAt
<1>8. Pieces(plan, w, c) \in Seq(Split)
  BY <1>1, <1>2, PiecesAreSplits DEF Grid
<1>9. Len(Pieces(plan, w, c)) \in Nat /\ Len(todo[c]) \in Nat
  BY <1>7, <1>8
<1>10. x[2] = Len(Pieces(plan, w, c)) - Len(todo[c]) + 1
  <2>1. x[2] + Len(todo[c]) = Len(Pieces(plan, w, c)) + 1
    BY Zenon DEF IsAt
  <2>2. x[2] \in Nat
    BY <1>2
  <2>3. \A i, m, n \in Nat : i + m = n + 1 => i = n - m + 1
    OBVIOUS
  <2>. QED
    BY <1>9, <2>1, <2>2, <2>3, Zenon
<1>11. ~IsDone(w, x)
  <2>1. ~Passed(c, w)
    BY <1>2, WithinIsWork, GemmsWork DEF IsAt, GemmsAreWorks
  <2>. QED
    BY <1>9, <1>10, <2>1 DEF IsDone
<1>. QED
  BY <1>2, <1>3, <1>5, <1>7, <1>10, <1>11 DEF HeadOf

LEMMA PieceIsAt ==
  ASSUME SchedulesAgree, StageInv, BarrierInv, NEW c \in CTAs, at[c] # "out", Work(c) \in Gemms, todo[c] # <<>>
  PROVE  LET w == Work(c) x == HeadOf(plan, w, c, todo[c]) IN
         /\ IsAt(w, x, at[c]) /\ ~IsDone(w, x) /\ x \in SlicesOf(plan, w) /\ x[1] = c /\ It(plan, w, x) = Piece(c)
         /\ launched > 0 /\ c \in Grid /\ plan \in Plans
<1>1. c \in Grid /\ launched > 0 /\ plan \in Plans /\ c \in 0 .. GridX(plan) - 1
  BY ActiveCTA
<1>. DEFINE w == Work(c)
            x == HeadOf(plan, w, c, todo[c])
<1>2. w \notin Strided
  BY GemmsWork DEF GemmsAreWorks
<1>3. x \in SlicesOf(plan, w) /\ x[1] = c /\ It(plan, w, x) = Piece(c) /\ todo[c] \in Seq(Split)
  BY <1>2, SliceAt
<1>4. Within(c, w) /\ ~Passed(c, w)
  BY <1>1, WithinIsWork, GemmsWork DEF GemmsAreWorks
<1>5. Pieces(plan, w, c) \in Seq(Split)
  BY <1>1, PiecesAreSplits
<1>6. Len(Pieces(plan, w, c)) \in Nat /\ Len(todo[c]) \in Nat
  BY <1>3, <1>5
<1>7. x[2] = Len(Pieces(plan, w, c)) - Len(todo[c]) + 1
  BY DEF HeadOf
<1>. HIDE DEF x, w
<1>8. IsAt(w, x, at[c]) /\ ~IsDone(w, x)
  BY <1>3, <1>4, <1>6, <1>7 DEF IsAt, IsDone
<1>. QED
  BY <1>1, <1>3, <1>8 DEF w, x

-----------------------------------------------------------------------------
\* While a CTA works in a stage, those before are done and none has come to a later one.
LEMMA StagesApart ==
  ASSUME StageInv, BarrierInv, launched > 0, NEW c \in Grid, at[c] \in Working, NEW w \in Works, Has(plan, w)
  PROVE  /\ SegOf(plan, w) < seg[c] => \A d \in Grid : Strode(d, w)
         /\ SegOf(plan, w) > seg[c] => \A d \in Grid : ~Passed(d, w) /\ ~Within(d, w)
         /\ \A d \in Grid : seg[d] <= seg[c]
<1>1. plan \in Plans /\ PhasesApart
  BY RoundsKeepPhasesApart DEF BarrierInv, BarrierType
<1>2. SegOf(plan, w) \in Nat /\ JobOf(plan, w) \in 1 .. Len(Body(plan)[SegOf(plan, w)])
  BY <1>1, StageOrder, BodyOfPlan
<1>3. ASSUME NEW d \in Grid
      PROVE  /\ seg[d] <= seg[c] /\ seg[d] \in Nat /\ seg[c] \in Nat /\ job[d] \in Nat
             /\ seg[d] < seg[c] => seg[d] = seg[c] - 1 /\ job[d] = Len(Body(plan)[seg[d]]) /\ todo[d] = <<>>
  <2>1. seg[d] \in Nat /\ seg[c] \in Nat /\ job[d] \in Nat
    BY <1>1, GridOfPlan DEF StageInv
  <2>2. seg[c] < seg[d] => at[c] = "spin"
    BY <1>1 DEF PhasesApart
  <2>3. seg[d] <= seg[c]
    BY <2>1, <2>2 DEF Working
  <2>4. ASSUME seg[d] < seg[c] PROVE seg[d] = seg[c] - 1 /\ at[d] = "spin"
    BY <1>1, <2>4 DEF PhasesApart
  <2>5. AtStage(plan, d, at[d], seg[d], job[d], todo[d])
    BY DEF StageInv
  <2>. QED
    BY <2>1, <2>3, <2>4, <2>5 DEF AtStage, AtBarrier
<1>4. ASSUME SegOf(plan, w) < seg[c], NEW d \in Grid PROVE Strode(d, w)
  <2>1. CASE seg[d] > SegOf(plan, w)
    BY <2>1 DEF Strode, Passed
  <2>2. CASE ~(seg[d] > SegOf(plan, w))
    <3>1. seg[d] < seg[c] /\ seg[d] = SegOf(plan, w)
      BY <1>2, <1>3, <1>4, <2>2
    <3>2. job[d] >= JobOf(plan, w) /\ todo[d] = <<>>
      BY <1>2, <1>3, <3>1
    <3>3. job[d] > JobOf(plan, w) \/ job[d] = JobOf(plan, w)
      BY <1>2, <1>3, <3>2
    <3>. QED
      BY <3>1, <3>2, <3>3 DEF Strode, Passed, Within
  <2>. QED
    BY <2>1, <2>2
<1>5. ASSUME SegOf(plan, w) > seg[c], NEW d \in Grid PROVE ~Passed(d, w) /\ ~Within(d, w)
  BY <1>2, <1>3, <1>5 DEF Passed, Within
<1>. QED
  BY <1>3, <1>4, <1>5

\* A GEMM that is done is done in every slice.
LEMMA StrodeIsDone ==
  ASSUME SchedulesAgree, StageInv, BarrierInv, launched > 0, NEW w \in Gemms, NEW x \in SlicesOf(plan, w), Strode(x[1], w)
  PROVE  IsDone(w, x)
<1>1. plan \in Plans
  BY DEF BarrierInv, BarrierType
<1>2. x[1] \in 0 .. GridX(plan) - 1 /\ x[2] \in DOMAIN Pieces(plan, w, x[1])
  BY DEF SlicesOf
<1>3. Pieces(plan, w, x[1]) \in Seq(Split)
  BY <1>1, <1>2, PiecesAreSplits
<1>4. x[2] <= Len(Pieces(plan, w, x[1])) /\ x[2] \in Nat
  BY <1>2, <1>3
<1>5. todo[x[1]] = <<>> => x[2] + Len(todo[x[1]]) <= Len(Pieces(plan, w, x[1]))
  BY <1>4
<1>. QED
  BY <1>5 DEF Strode, IsDone

LEMMA UntouchedIsNotDone ==
  ASSUME NEW w, NEW x, ~Passed(x[1], w), ~Within(x[1], w)
  PROVE  ~IsTaken(w, x) /\ ~IsPublished(w, x) /\ ~IsDone(w, x) /\ \A a : ~IsAt(w, x, a)
BY DEF IsTaken, IsPublished, IsDone, IsAt

-----------------------------------------------------------------------------
(* What a step does and leaves of the slices. *)

\* What is left of a CTA's pieces at first leaves none to compute behind.
LEMMA NoneBehind ==
  ASSUME SchedulesAgree, NEW p \in Plans, NEW w \in Gemms, NEW x \in SlicesOf(p, w)
  PROVE  LET t == FromLive(p, w, Pieces(p, w, x[1])) IN ~(x[2] + Len(t) <= Len(Pieces(p, w, x[1])))
<1>. DEFINE all == Pieces(p, w, x[1])
            t == FromLive(p, w, all)
<1>1. x[1] \in 0 .. GridX(p) - 1 /\ x[2] \in DOMAIN all /\ Live(p, w, all[x[2]])
  BY DEF SlicesOf
<1>2. all \in Seq(Split)
  BY <1>1, PiecesAreSplits
<1>. HIDE DEF all
<1>3. t \in Seq(Split) /\ \A i \in 1 .. Len(all) - Len(t) : ~Live(p, w, all[i])
  BY <1>2, FromLiveIsEnd
<1>. HIDE DEF t
<1>4. x[2] \in 1 .. Len(all) /\ Len(all) \in Nat /\ Len(t) \in Nat
  BY <1>1, <1>2, <1>3
<1>5. SUFFICES ASSUME x[2] + Len(t) <= Len(all) PROVE FALSE
  BY DEF all, t
<1>6. x[2] \in 1 .. Len(all) - Len(t)
  BY <1>4, <1>5
<1>. QED
  BY <1>1, <1>3, <1>6

\* A CTA comes to its next stage, or to a barrier or the end after its last.
Comes(c) ==
  /\ todo[c] = <<>> /\ at[c] \notin AtPiece /\ at'[c] \notin AtPiece
  /\ \A d \in CTAs \ {c} : at'[d] = at[d] /\ seg'[d] = seg[d] /\ job'[d] = job[d] /\ todo'[d] = todo[d]
  /\ UNCHANGED <<plan, launched>>
  /\ \/ seg'[c] = seg[c] /\ job'[c] = job[c] /\ todo'[c] = todo[c]
     \/ /\ \/ seg'[c] = seg[c] /\ job'[c] = job[c] + 1
           \/ seg'[c] = seg[c] + 1 /\ job'[c] = 1 /\ job[c] = Len(Body(plan)[seg[c]])
        /\ seg'[c] \in 1 .. Len(Body(plan)) /\ job'[c] \in 1 .. Len(Body(plan)[seg'[c]])
        /\ todo'[c] = PlannedPieces(plan, Body(plan)[seg'[c]][job'[c]], c)

LEMMA StageComes ==
  ASSUME SchedulesAgree, StageInv, BarrierInv, NEW c \in CTAs, NextStage(c) \/ ReleaseSense(c) \/ Pass(c)
  PROVE  Comes(c)
<1>1. at[c] # "out" /\ at[c] \notin AtPiece
  BY DEF NextStage, ReleaseSense, Pass, AtPiece
<1>2. /\ c \in Grid /\ launched > 0 /\ plan \in Plans /\ LaunchedPieces /\ c \in 0 .. GridX(plan) - 1
      /\ AtStage(plan, c, at[c], seg[c], job[c], todo[c])
  BY <1>1, ActiveCTA
<1>3. /\ seg[c] \in 1 .. Len(Body(plan)) /\ job[c] \in 1 .. Len(Body(plan)[seg[c]])
      /\ Len(Body(plan)[seg[c]]) \in Nat
  BY <1>2, BodyOfPlan DEF AtStage
<1>4. /\ at \in [CTAs -> Places] /\ seg \in [CTAs -> Nat \ {0}] /\ job \in [CTAs -> Nat]
      /\ todo \in [CTAs -> Seq(Split)]
  BY DEF StageInv, BarrierInv, BarrierType
<1>5. CASE NextStage(c) /\ job[c] < Len(Body(plan)[seg[c]])
  <2>. DEFINE t == PiecesOf(Body(plan)[seg[c]][job[c] + 1], c)
  <2>1. job[c] + 1 \in 1 .. Len(Body(plan)[seg[c]])
    BY <1>3, <1>5
  <2>2. Body(plan)[seg[c]][job[c] + 1] \in Works
    BY <1>2, <1>3, <2>1, WorkOfBody
  <2>3. t = PlannedPieces(plan, Body(plan)[seg[c]][job[c] + 1], c)
    BY <1>2, <2>2, PiecesAsPlanned
  <2>. HIDE DEF t
  <2>4. /\ todo[c] = <<>> /\ UNCHANGED <<at, seg, plan, launched>>
        /\ job' = [job EXCEPT ![c] = job[c] + 1] /\ todo' = [todo EXCEPT ![c] = t]
    BY <1>5 DEF NextStage, t
  <2>5. /\ \A d \in CTAs \ {c} : job'[d] = job[d] /\ todo'[d] = todo[d]
        /\ job'[c] = job[c] + 1 /\ todo'[c] = t
    BY <1>4, <2>4
  <2>. QED
    BY <1>1, <1>3, <2>1, <2>3, <2>4, <2>5 DEF Comes
<1>6. CASE NextStage(c) /\ ~(job[c] < Len(Body(plan)[seg[c]]))
  <2>1. /\ todo[c] = <<>> /\ UNCHANGED <<seg, job, todo, plan, launched>>
        /\ \E a \in {"load", "out"} : at' = [at EXCEPT ![c] = a]
    BY <1>6 DEF NextStage, Go
  <2>2. /\ \A d \in CTAs \ {c} : at'[d] = at[d]
        /\ at'[c] \notin AtPiece
    BY <1>4, <2>1 DEF AtPiece
  <2>. QED
    BY <1>1, <2>1, <2>2 DEF Comes
<1>7. CASE ReleaseSense(c) \/ Pass(c)
  <2>. DEFINE s == seg[c] + 1
              t == PiecesOf(Body(plan)[s][1], c)
  <2>1. s \in 1 .. Len(Body(plan)) /\ todo[c] = <<>> /\ job[c] = Len(Body(plan)[seg[c]])
    BY <1>7, LeaveStage
  <2>2. 1 \in 1 .. Len(Body(plan)[s])
    <3>1. Len(Body(plan)[s]) \in Nat \ {0}
      BY <1>2, <2>1, BodyOfPlan
    <3>. QED
      BY <3>1
  <2>3. Body(plan)[s][1] \in Works
    BY <1>2, <2>1, <2>2, WorkOfBody
  <2>4. t = PlannedPieces(plan, Body(plan)[s][1], c)
    BY <1>2, <2>3, PiecesAsPlanned
  <2>. HIDE DEF t
  <2>5. /\ at' = [at EXCEPT ![c] = "work"] /\ seg' = [seg EXCEPT ![c] = s] /\ job' = [job EXCEPT ![c] = 1]
        /\ todo' = [todo EXCEPT ![c] = t] /\ UNCHANGED <<plan, launched>>
    BY <1>4, <1>7 DEF ReleaseSense, Pass, Leave, Go, t
  <2>6. /\ \A d \in CTAs \ {c} : at'[d] = at[d] /\ seg'[d] = seg[d] /\ job'[d] = job[d] /\ todo'[d] = todo[d]
        /\ at'[c] = "work" /\ seg'[c] = s /\ job'[c] = 1 /\ todo'[c] = t
    BY <1>4, <2>5
  <2>. QED
    BY <1>1, <2>1, <2>2, <2>4, <2>5, <2>6 DEF Comes, AtPiece
<1>. QED
  BY <1>5, <1>6, <1>7

\* That neither does a slice nor undoes one.
LEMMA ComesAlong ==
  ASSUME SchedulesAgree, StageInv, BarrierInv, launched > 0, NEW c \in Grid, Comes(c)
  PROVE  /\ plan' = plan
         /\ \A w \in Gemms : \A x \in SlicesOf(plan, w) :
              /\ IsDone(w, x)' <=> IsDone(w, x)
              /\ \A a \in AtPiece : IsAt(w, x, a)' <=> IsAt(w, x, a)
         /\ \A w \in Strided : Has(plan, w) => \A d \in Grid : Strode(d, w)' => Strode(d, w)
         /\ \A d \in Grid : seg[d] <= seg'[d]
<1>1. plan' = plan /\ plan \in Plans /\ c \in CTAs /\ Grid \subseteq CTAs /\ c \in 0 .. GridX(plan) - 1
  BY GridOfPlan DEF Comes, BarrierInv, BarrierType, Grid
<1>2. ASSUME NEW w, NEW d \in CTAs \ {c}
      PROVE  (Passed(d, w)' <=> Passed(d, w)) /\ (Within(d, w)' <=> Within(d, w))
  BY <1>1 DEF Comes, Passed, Within
<1>3. seg[c] \in Nat /\ job[c] \in Nat
  BY <1>1 DEF StageInv
<1>4. ASSUME NEW w \in Works, Has(plan, w), ~(seg'[c] = seg[c] /\ job'[c] = job[c])
      PROVE  /\ Passed(c, w)' <=> Passed(c, w) \/ Within(c, w)
             /\ Within(c, w)' => todo'[c] = PlannedPieces(plan, w, c)
  <2>1. /\ SegOf(plan, w) \in Nat /\ JobOf(plan, w) \in Nat \ {0}
        /\ JobOf(plan, w) \in 1 .. Len(Body(plan)[SegOf(plan, w)])
        /\ Body(plan)[SegOf(plan, w)][JobOf(plan, w)] = w
    BY <1>1, <1>4, StageOrder, BodyOfPlan
  <2>2. Within(c, w)' => todo'[c] = PlannedPieces(plan, w, c)
    BY <1>1, <1>4, <2>1, Zenon DEF Comes, Within
  <2>3. Passed(c, w)' <=> Passed(c, w) \/ Within(c, w)
    <3>1. CASE seg'[c] = seg[c] /\ job'[c] = job[c] + 1
      BY <1>1, <1>3, <2>1, <3>1 DEF Passed, Within
    <3>2. CASE seg'[c] = seg[c] + 1 /\ job'[c] = 1 /\ job[c] = Len(Body(plan)[seg[c]])
      <4>1. seg[c] = SegOf(plan, w) => job[c] >= JobOf(plan, w)
        BY <1>3, <2>1, <3>2
      <4>. QED
        BY <1>1, <1>3, <2>1, <3>2, <4>1 DEF Passed, Within
    <3>. QED
      BY <1>4, <3>1, <3>2 DEF Comes
  <2>. QED
    BY <2>2, <2>3
<1>5. ASSUME NEW w \in Gemms, NEW x \in SlicesOf(plan, w)
      PROVE  /\ IsDone(w, x)' <=> IsDone(w, x)
             /\ \A a \in AtPiece : IsAt(w, x, a)' <=> IsAt(w, x, a)
  <2>1. x[1] \in 0 .. GridX(plan) - 1 /\ x[1] \in CTAs /\ x[2] \in DOMAIN Pieces(plan, w, x[1])
    BY <1>1 DEF SlicesOf, Grid
  <2>2. CASE x[1] # c
    <3>1. todo'[x[1]] = todo[x[1]] /\ at'[x[1]] = at[x[1]]
      BY <2>1, <2>2 DEF Comes
    <3>. QED
      BY <1>1, <1>2, <2>1, <2>2, <3>1 DEF IsDone, IsAt
  <2>3. CASE x[1] = c
    <3>1. \A a \in AtPiece : ~IsAt(w, x, a)' /\ ~IsAt(w, x, a)
      BY <2>3 DEF IsAt, Comes
    <3>2. CASE seg'[c] = seg[c] /\ job'[c] = job[c]
      <4>1. todo'[c] = todo[c]
        BY <1>3, <3>2 DEF Comes
      <4>. QED
        BY <1>1, <2>3, <3>1, <3>2, <4>1 DEF IsDone, Passed, Within
    <3>3. CASE ~(seg'[c] = seg[c] /\ job'[c] = job[c])
      <4>1. w \in Works /\ Has(plan, w) /\ w \notin Strided
        BY GemmsWork DEF GemmsAreWorks
      <4>2. Passed(c, w)' <=> Passed(c, w) \/ Within(c, w)
        BY <1>4, <3>3, <4>1
      <4>3. Within(c, w)' => todo'[c] = FromLive(plan, w, Pieces(plan, w, c))
        BY <1>4, <3>3, <4>1 DEF PlannedPieces
      <4>4. Within(c, w)' => ~(x[2] + Len(todo'[c]) <= Len(Pieces(plan, w, c)))
        BY <1>1, <2>3, <4>3, NoneBehind
      <4>5. IsDone(w, x)' <=> Passed(c, w)'
        BY <1>1, <2>3, <4>4 DEF IsDone
      <4>6. Strode(c, w) => IsDone(w, x)
        BY <2>3, StrodeIsDone
      <4>7. IsDone(w, x) <=> Passed(c, w) \/ Within(c, w)
        BY <2>3, <4>6 DEF IsDone, Strode, Comes
      <4>. QED
        BY <3>1, <4>2, <4>5, <4>7
    <3>. QED
      BY <3>2, <3>3
  <2>. QED
    BY <2>2, <2>3
<1>6. ASSUME NEW w \in Strided, Has(plan, w), NEW d \in Grid, Strode(d, w)' PROVE Strode(d, w)
  <2>1. CASE d # c
    BY <1>1, <1>2, <1>6, <2>1 DEF Strode, Comes
  <2>2. CASE d = c
    <3>1. CASE seg'[c] = seg[c] /\ job'[c] = job[c]
      BY <1>1, <1>6, <2>2, <3>1 DEF Strode, Passed, Within, Comes
    <3>2. CASE ~(seg'[c] = seg[c] /\ job'[c] = job[c])
      <4>1. w \in Works
        BY DEF Works
      <4>2. /\ Passed(c, w)' <=> Passed(c, w) \/ Within(c, w)
            /\ Within(c, w)' => todo'[c] = <<OwnTile(Gemm(plan, "fc1"), c)>>
        BY <1>4, <1>6, <3>2, <4>1 DEF PlannedPieces
      <4>3. todo'[c] # <<>> \/ ~Within(c, w)'
        <5>1. \A o : <<o>> # <<>>
          OBVIOUS
        <5>. QED
          BY <4>2, <5>1, Zenon
      <4>. QED
        BY <1>6, <2>2, <4>2, <4>3 DEF Strode, Comes
    <3>. QED
      BY <3>1, <3>2
  <2>. QED
    BY <2>1, <2>2
<1>7. ASSUME NEW d \in Grid PROVE seg[d] <= seg'[d]
  <2>1. seg[d] \in Nat
    BY <1>1 DEF StageInv
  <2>2. seg'[d] = seg[d] \/ seg'[d] = seg[d] + 1
    BY <1>1 DEF Comes
  <2>. QED
    BY <2>1, <2>2
<1>. QED
  BY <1>1, <1>5, <1>6, <1>7

\* A CTA goes on from a slice to its next.
Advances(c) ==
  /\ at[c] \in {"publish", "store"} /\ at'[c] = "work"
  /\ \A d \in CTAs \ {c} : at'[d] = at[d] /\ todo'[d] = todo[d]
  /\ todo'[c] = FromLive(plan, Work(c), Tail(todo[c]))
  /\ UNCHANGED <<plan, launched, seg, job>>

LEMMA StepAdvances ==
  ASSUME StageInv, BarrierInv, NEW c \in CTAs, StoreTile(c) \/ (PublishTurn(c) /\ ~IsLast(Piece(c)))
  PROVE  Advances(c)
<1>1. at \in [CTAs -> Places] /\ todo \in [CTAs -> Seq(Split)]
  BY DEF StageInv, BarrierInv, BarrierType
<1>. DEFINE t == FromLive(plan, Work(c), Tail(todo[c]))
<1>. HIDE DEF t
<1>2. /\ at[c] \in {"publish", "store"} /\ at' = [at EXCEPT ![c] = "work"] /\ todo' = [todo EXCEPT ![c] = t]
      /\ UNCHANGED <<plan, launched, seg, job>>
  BY DEF StoreTile, PublishTurn, Go, Advance, t
<1>3. /\ \A d \in CTAs \ {c} : at'[d] = at[d] /\ todo'[d] = todo[d]
      /\ at'[c] = "work" /\ todo'[c] = t
  BY <1>1, <1>2
<1>. QED
  BY <1>2, <1>3 DEF Advances, t

\* That does the slice it was at, and no other.
LEMMA AdvancesOne ==
  ASSUME SchedulesAgree, StageInv, BarrierInv, NEW c \in CTAs, Advances(c)
  PROVE  /\ Work(c) \in Gemms /\ todo[c] # <<>>
         /\ \A w \in Gemms : \A x \in SlicesOf(plan, w) :
              /\ IsDone(w, x)' <=> IsDone(w, x) \/ (w = Work(c) /\ x = HeadOf(plan, w, c, todo[c]))
              /\ \A a \in AtPiece : IsAt(w, x, a)' <=> IsAt(w, x, a) /\ x[1] # c
         /\ \A w \in Strided : Has(plan, w) => \A d \in Grid : Strode(d, w)' => Strode(d, w)
<1>1. at[c] # "out" /\ plan' = plan /\ seg' = seg /\ job' = job
  BY DEF Advances
<1>2. /\ c \in Grid /\ launched > 0 /\ plan \in Plans /\ c \in 0 .. GridX(plan) - 1
      /\ AtStage(plan, c, at[c], seg[c], job[c], todo[c])
  BY <1>1, ActiveCTA
<1>3. Work(c) \in Gemms /\ todo[c] # <<>>
  BY <1>2 DEF AtStage, Work, Advances
<1>4. /\ Work(c) \in Works /\ Has(plan, Work(c)) /\ Work(c) \notin Strided
  BY <1>3, GemmsWork DEF GemmsAreWorks
<1>5. Grid \subseteq CTAs
  BY <1>2, GridOfPlan
<1>6. \A d, w : (Passed(d, w)' <=> Passed(d, w)) /\ (Within(d, w)' <=> Within(d, w))
  BY <1>1 DEF Passed, Within
<1>7. \A w \in Works : Has(plan, w) /\ Within(c, w) => w = Work(c)
  BY <1>2, WithinIsWork
<1>. DEFINE w0 == Work(c)
            s == todo[c]
            t == FromLive(plan, w0, Tail(s))
            all == Pieces(plan, w0, c)
            x0 == HeadOf(plan, w0, c, s)
<1>8. IsRest(plan, w0, c, s) /\ s \in Seq(Split)
  BY <1>1, <1>3, <1>4, SliceAt
<1>9. /\ t \in Seq(Split) /\ Len(t) <= Len(s) - 1
      /\ \A i \in Len(all) - Len(s) + 2 .. Len(all) - Len(t) : i \in 1 .. Len(all) /\ ~Live(plan, w0, all[i])
  BY <1>2, <1>3, <1>8, RestOfTail
<1>10. all \in Seq(Split)
  BY <1>2, <1>3, PiecesAreSplits
<1>11. IsAt(w0, x0, at[c]) /\ x0 \in SlicesOf(plan, w0) /\ x0[1] = c
  BY <1>1, <1>3, PieceIsAt
<1>12. todo'[c] = t
  BY DEF Advances
<1>. HIDE DEF t, all
<1>13. Len(all) \in Nat /\ Len(s) \in Nat /\ Len(t) \in Nat
  BY <1>8, <1>9, <1>10
<1>14. x0 = <<c, Len(all) - Len(s) + 1>>
  BY DEF HeadOf, all
<1>. HIDE DEF x0, s
<1>15. ASSUME NEW x \in SlicesOf(plan, w0), x[1] = c
       PROVE  x[2] + Len(t) <= Len(all) <=> x[2] + Len(s) <= Len(all) \/ x = x0
  <2>1. x = <<c, x[2]>> /\ x[2] \in Nat /\ Live(plan, w0, all[x[2]])
    BY <1>15 DEF SlicesOf, all
  <2>2. x[2] \notin Len(all) - Len(s) + 2 .. Len(all) - Len(t)
    BY <1>9, <2>1
  <2>3. x = x0 <=> x[2] = Len(all) - Len(s) + 1
    BY <1>14, <2>1
  <2>. QED
    BY <1>9, <1>13, <2>1, <2>2, <2>3
<1>16. ASSUME NEW w \in Gemms, NEW x \in SlicesOf(plan, w)
       PROVE  /\ IsDone(w, x)' <=> IsDone(w, x) \/ (w = w0 /\ x = x0)
              /\ \A a \in AtPiece : IsAt(w, x, a)' <=> IsAt(w, x, a) /\ x[1] # c
  <2>1. x[1] \in Grid /\ x[1] \in CTAs
    BY <1>5 DEF SlicesOf, Grid
  <2>2. CASE x[1] # c
    <3>1. todo'[x[1]] = todo[x[1]] /\ at'[x[1]] = at[x[1]]
      BY <2>1, <2>2 DEF Advances
    <3>2. x # x0
      BY <1>11, <2>2
    <3>. QED
      BY <1>1, <1>6, <2>2, <3>1, <3>2 DEF IsDone, IsAt
  <2>3. CASE x[1] = c
    <3>1. \A a \in AtPiece : ~IsAt(w, x, a)'
      BY <2>3 DEF IsAt, Advances, AtPiece
    <3>2. CASE w = w0
      <4>1. Within(c, w)
        BY <1>11, <3>2 DEF IsAt
      <4>2. IsDone(w, x)' <=> Passed(c, w) \/ x[2] + Len(t) <= Len(all)
        BY <1>1, <1>6, <1>12, <2>3, <3>2, <4>1 DEF IsDone, all
      <4>3. IsDone(w, x) <=> Passed(c, w) \/ x[2] + Len(s) <= Len(all)
        BY <2>3, <3>2, <4>1 DEF IsDone, all, s
      <4>. QED
        BY <1>15, <2>3, <3>1, <3>2, <4>2, <4>3
    <3>3. CASE w # w0
      <4>1. ~Within(c, w)
        BY <1>7, <3>3, GemmsWork DEF GemmsAreWorks
      <4>. QED
        BY <1>6, <2>3, <3>1, <3>3, <4>1 DEF IsDone
    <3>. QED
      BY <3>2, <3>3
  <2>. QED
    BY <2>2, <2>3
<1>17. ASSUME NEW w \in Strided, Has(plan, w), NEW d \in Grid, Strode(d, w)' PROVE Strode(d, w)
  <2>1. CASE d # c
    BY <1>5, <1>6, <1>17, <2>1 DEF Strode, Advances
  <2>2. CASE d = c
    <3>1. ~Within(c, w)
      BY <1>4, <1>7, <1>17 DEF Works
    <3>. QED
      BY <1>6, <1>17, <2>2, <3>1 DEF Strode
  <2>. QED
    BY <2>1, <2>2
<1>. QED
  BY <1>3, <1>16, <1>17 DEF x0, s

\* The steps between do not move a CTA; one that is away from its slices is at none.
Stays(c) ==
  /\ \A d \in CTAs \ {c} : at'[d] = at[d]
  /\ UNCHANGED <<plan, launched, seg, job, todo>>

LEMMA StaysPut ==
  ASSUME BarrierInv, NEW c \in CTAs, Stays(c)
  PROVE  /\ \A w, x : IsDone(w, x)' <=> IsDone(w, x)
         /\ \A w \in Gemms : \A x \in SlicesOf(plan, w), a \in AtPiece :
              IsAt(w, x, a)' <=> IF x[1] = c THEN IsAt(w, x, at[c]) /\ at'[c] = a ELSE IsAt(w, x, a)
         /\ \A w, d : Strode(d, w)' <=> Strode(d, w)
<1>1. Grid \subseteq CTAs
  BY GridOfPlan DEF BarrierInv, BarrierType
<1>2. \A d, w : (Passed(d, w)' <=> Passed(d, w)) /\ (Within(d, w)' <=> Within(d, w))
  BY DEF Stays, Passed, Within
<1>3. \A w, x : IsDone(w, x)' <=> IsDone(w, x)
  BY <1>2 DEF IsDone, Stays
<1>4. \A w, d : Strode(d, w)' <=> Strode(d, w)
  BY <1>2 DEF Strode, Stays
<1>5. ASSUME NEW w \in Gemms, NEW x \in SlicesOf(plan, w), NEW a \in AtPiece
      PROVE  IsAt(w, x, a)' <=> IF x[1] = c THEN IsAt(w, x, at[c]) /\ at'[c] = a ELSE IsAt(w, x, a)
  <2>1. x[1] \in CTAs
    BY <1>1 DEF SlicesOf, Grid
  <2>. QED
    BY <1>2, <2>1 DEF IsAt, Stays
<1>. QED
  BY <1>3, <1>4, <1>5

\* A share of a strided stage.
LEMMA StrideStrodes ==
  ASSUME SchedulesAgree, StageInv, BarrierInv, NEW c \in CTAs, Stride(c)
  PROVE  /\ \A w \in Gemms : \A x \in SlicesOf(plan, w) :
              /\ IsDone(w, x)' <=> IsDone(w, x)
              /\ \A a \in AtPiece : IsAt(w, x, a)' <=> IsAt(w, x, a)
         /\ \A w \in Strided : Has(plan, w) => \A d \in Grid :
              Strode(d, w)' => Strode(d, w) \/ (d = c /\ w = Work(c))
         /\ plan' = plan
<1>1. at[c] = "work" /\ Work(c) \in Strided /\ UNCHANGED <<plan, seg, job, at>>
  BY DEF Stride
<1>2. c \in Grid /\ launched > 0 /\ plan \in Plans /\ Grid \subseteq CTAs
  BY <1>1, ActiveCTA, GridOfPlan
<1>3. \A d \in CTAs \ {c} : todo'[d] = todo[d]
  BY DEF Stride, Advance, StageInv
<1>4. \A d, w : (Passed(d, w)' <=> Passed(d, w)) /\ (Within(d, w)' <=> Within(d, w))
  BY <1>1 DEF Passed, Within
<1>5. \A w \in Works : Has(plan, w) /\ Within(c, w) => w = Work(c)
  BY <1>2, WithinIsWork
<1>6. ASSUME NEW w \in Gemms, NEW x \in SlicesOf(plan, w)
      PROVE  /\ IsDone(w, x)' <=> IsDone(w, x)
             /\ \A a \in AtPiece : IsAt(w, x, a)' <=> IsAt(w, x, a)
  <2>1. x[1] \in CTAs
    BY <1>2 DEF SlicesOf, Grid
  <2>2. CASE x[1] # c
    <3>1. todo'[x[1]] = todo[x[1]]
      BY <1>3, <2>1, <2>2
    <3>. QED
      BY <1>1, <1>4, <3>1 DEF IsDone, IsAt
  <2>3. CASE x[1] = c
    <3>1. ~Within(c, w)
      BY <1>1, <1>5, GemmsWork DEF GemmsAreWorks
    <3>. QED
      BY <1>4, <2>3, <3>1 DEF IsDone, IsAt
  <2>. QED
    BY <2>2, <2>3
<1>7. ASSUME NEW w \in Strided, Has(plan, w), NEW d \in Grid, Strode(d, w)', ~Strode(d, w)
      PROVE  d = c /\ w = Work(c)
  <2>1. d = c
    BY <1>2, <1>3, <1>4, <1>7 DEF Strode
  <2>2. Within(c, w)
    BY <1>4, <1>7, <2>1 DEF Strode
  <2>. QED
    BY <1>5, <1>7, <2>1, <2>2 DEF Works
<1>. QED
  BY <1>1, <1>6, <1>7

-----------------------------------------------------------------------------
(* Turns are taken in order. *)

\* What the schedules of a launch that agree say of the shared slices.
LEMMA SharedSlices ==
  ASSUME SchedulesAgree, plan \in Plans, NEW w \in Gemms
  PROVE  /\ \A x \in Shared(w) :
              /\ x \in SlicesOf(plan, w) /\ Idx(w, x) \in Nat /\ Count(w, x) \in Nat /\ Idx(w, x) < Count(w, x)
              /\ Slot(w, x) \in Slots
              /\ \A i \in 0 .. Count(w, x) - 1 : \E y \in Shared(w) : Together(w, y, x) /\ Idx(w, y) = i
         /\ \A x, y \in Shared(w) :
              /\ Together(w, x, y) <=> Slot(w, x) = Slot(w, y)
              /\ Together(w, x, y) => Count(w, x) = Count(w, y)
              /\ Together(w, x, y) /\ Idx(w, x) = Idx(w, y) => x = y
<1>1. Consistent(plan, w)
  BY DEF SchedulesAgree
<1>2. /\ \A x \in SlicesOf(plan, w) :
           /\ It(plan, w, x) \in Split /\ It(plan, w, x).idx < It(plan, w, x).count
           /\ It(plan, w, x).count > 1 => It(plan, w, x).slot \in Slots
           /\ \A i \in 0 .. It(plan, w, x).count - 1 :
                \E y \in SlicesOf(plan, w) : SameTile(plan, w, y, x) /\ It(plan, w, y).idx = i
      /\ \A x, y \in SlicesOf(plan, w) : SameTile(plan, w, x, y) /\ x # y =>
           It(plan, w, x).count = It(plan, w, y).count /\ It(plan, w, x).idx # It(plan, w, y).idx
      /\ \A x, y \in SlicesOf(plan, w) : It(plan, w, x).count > 1 /\ It(plan, w, y).count > 1 =>
           (SameTile(plan, w, x, y) <=> It(plan, w, x).slot = It(plan, w, y).slot)
  BY <1>1, ConsistentSlices
<1>3. ASSUME NEW x \in Shared(w)
      PROVE  /\ x \in SlicesOf(plan, w) /\ Idx(w, x) \in Nat /\ Count(w, x) \in Nat /\ Idx(w, x) < Count(w, x)
             /\ Slot(w, x) \in Slots
             /\ \A i \in 0 .. Count(w, x) - 1 : \E y \in Shared(w) : Together(w, y, x) /\ Idx(w, y) = i
  <2>1. x \in SlicesOf(plan, w) /\ It(plan, w, x).count > 1
    BY DEF Shared
  <2>2. It(plan, w, x) \in Split
    BY <1>2, <2>1
  <2>3. Idx(w, x) \in Nat /\ Count(w, x) \in Nat
    BY <2>2 DEF Split, Idx, Count
  <2>4. ASSUME NEW i \in 0 .. Count(w, x) - 1 PROVE \E y \in Shared(w) : Together(w, y, x) /\ Idx(w, y) = i
    <3>1. PICK y \in SlicesOf(plan, w) : SameTile(plan, w, y, x) /\ It(plan, w, y).idx = i
      BY <1>2, <2>1 DEF Count
    <3>2. It(plan, w, y).count = It(plan, w, x).count
      BY <1>2, <2>1, <3>1
    <3>. QED
      BY <2>1, <3>1, <3>2 DEF Shared, Together, Idx
  <2>. QED
    BY <1>2, <2>1, <2>3, <2>4 DEF Idx, Count, Slot
<1>4. ASSUME NEW x \in Shared(w), NEW y \in Shared(w)
      PROVE  /\ Together(w, x, y) <=> Slot(w, x) = Slot(w, y)
             /\ Together(w, x, y) => Count(w, x) = Count(w, y)
             /\ Together(w, x, y) /\ Idx(w, x) = Idx(w, y) => x = y
  BY <1>2 DEF Shared, Together, Slot, Count, Idx
<1>. QED
  BY <1>3, <1>4

\* While a CTA works in one GEMM the other is done or not begun.
LEMMA OneGemm ==
  ASSUME SchedulesAgree, StageInv, BarrierInv, NEW c \in CTAs, at[c] \in Working, Work(c) \in Gemms,
         NEW w \in Gemms, w # Work(c)
  PROVE  \/ \A x \in SlicesOf(plan, w) : IsDone(w, x)
         \/ \A x \in SlicesOf(plan, w) : ~IsTaken(w, x) /\ ~IsPublished(w, x) /\ ~IsDone(w, x)
<1>1. /\ c \in Grid /\ launched > 0 /\ plan \in Plans /\ seg[c] = SegOf(plan, Work(c)) /\ seg[c] \in Nat
  BY ActiveCTA DEF Working
<1>2. w \in Works /\ Has(plan, w)
  BY GemmsWork DEF GemmsAreWorks
<1>3. SegOf(plan, "fc1") < SegOf(plan, "fc2")
  BY <1>1, StageOrder
<1>4. SegOf(plan, w) < seg[c] \/ SegOf(plan, w) > seg[c]
  BY <1>1, <1>3 DEF Gemms
<1>5. \A x \in SlicesOf(plan, w) : x[1] \in Grid
  BY DEF SlicesOf, Grid
<1>6. CASE SegOf(plan, w) < seg[c]
  <2>1. \A d \in Grid : Strode(d, w)
    BY <1>1, <1>2, <1>6, StagesApart
  <2>. QED
    BY <1>1, <1>5, <2>1, StrodeIsDone
<1>7. CASE SegOf(plan, w) > seg[c]
  <2>1. \A d \in Grid : ~Passed(d, w) /\ ~Within(d, w)
    BY <1>1, <1>2, <1>7, StagesApart
  <2>. QED
    BY <1>5, <2>1, UntouchedIsNotDone
<1>. QED
  BY <1>4, <1>6, <1>7

-----------------------------------------------------------------------------
SameTurns ==
  \A w \in Gemms : \A x \in Shared(w) :
    (IsPublished(w, x)' <=> IsPublished(w, x)) /\ (IsTaken(w, x)' <=> IsTaken(w, x))

\* Steps that take no turn and pass none on.
LEMMA OthersKeepTurns ==
  ASSUME SchedulesAgree, StageInv, BarrierInv, NEW c \in CTAs,
         \/ Stride(c) \/ Multiply(c) \/ StoreTile(c) \/ NextStage(c)
         \/ LoadSense(c) \/ Arrive(c) \/ ResetCount(c) \/ ReleaseSense(c) \/ Pass(c)
  PROVE  SameTurns /\ plan' = plan /\ lock' = lock /\ ctmp' = ctmp
<1>0. plan' = plan /\ lock' = lock /\ ctmp' = ctmp
  BY DEF Stride, Multiply, StoreTile, NextStage, LoadSense, Arrive, ResetCount, ReleaseSense, Pass, words
<1>1. at[c] # "out"
  BY DEF Stride, Multiply, StoreTile, NextStage, LoadSense, Arrive, ResetCount, ReleaseSense, Pass
<1>2. c \in Grid /\ launched > 0 /\ plan \in Plans
  BY <1>1, ActiveCTA
<1>3. \A w \in Gemms : \A x \in Shared(w) : x \in SlicesOf(plan, w) /\ It(plan, w, x).count > 1
  BY DEF Shared
<1>4. "store" \in AtPiece /\ "publish" \in AtPiece /\ "turn" \in AtPiece
  BY DEF AtPiece
<1>5. CASE NextStage(c) \/ ReleaseSense(c) \/ Pass(c)
  <2>1. Comes(c)
    BY <1>5, StageComes
  <2>. QED
    BY <1>0, <1>2, <1>3, <1>4, <2>1, ComesAlong DEF SameTurns, IsPublished, IsTaken
<1>6. CASE Stride(c)
  BY <1>0, <1>3, <1>4, <1>6, StrideStrodes DEF SameTurns, IsPublished, IsTaken
<1>7. CASE LoadSense(c) \/ Arrive(c) \/ ResetCount(c)
  <2>1. Stays(c) /\ at[c] \notin AtPiece /\ at'[c] \notin AtPiece
    BY <1>7 DEF LoadSense, Arrive, ResetCount, Go, Stays, AtPiece, BarrierInv, BarrierType
  <2>2. \A w \in Gemms : \A x \in Shared(w) : \A a \in AtPiece : IsAt(w, x, a)' <=> IsAt(w, x, a)
    BY <1>3, <2>1, StaysPut DEF IsAt
  <2>. QED
    BY <1>0, <1>4, <2>1, <2>2, StaysPut DEF SameTurns, IsPublished, IsTaken
<1>8. CASE Multiply(c)
  <2>1. Stays(c) /\ at[c] = "work" /\ at'[c] = (IF Piece(c).count > 1 THEN "turn" ELSE "store")
        /\ Work(c) \notin Strided /\ todo[c] # <<>>
    BY <1>8 DEF Multiply, Go, Stays, BarrierInv, BarrierType
  <2>2. Work(c) \in Gemms /\ Piece(c).count \in Nat /\ at[c] \notin AtPiece
    BY <1>1, <2>1, SliceAt DEF Split, AtPiece
  <2>3. ASSUME NEW w \in Gemms, NEW x \in Shared(w), NEW a \in {"store", "publish"}
        PROVE  IsAt(w, x, a)' <=> IsAt(w, x, a)
    <3>1. CASE x[1] # c
      BY <1>3, <1>4, <2>1, <3>1, StaysPut
    <3>2. CASE x[1] = c
      <4>1. ~IsAt(w, x, a)
        BY <2>1, <3>2 DEF IsAt
      <4>2. ASSUME IsAt(w, x, a)' PROVE FALSE
        <5>1. IsAt(w, x, "work") /\ at'[c] = a
          BY <1>3, <1>4, <2>1, <3>2, <4>2, StaysPut
        <5>2. ~(Piece(c).count > 1)
          BY <2>1, <5>1
        <5>3. Within(c, w)
          BY <3>2, <5>1 DEF IsAt
        <5>4. w = Work(c)
          BY <1>2, <5>3, WithinIsWork, GemmsWork DEF GemmsAreWorks
        <5>5. x = HeadOf(plan, w, c, todo[c]) /\ It(plan, w, HeadOf(plan, w, c, todo[c])) = Piece(c)
          <6>1. x = <<c, x[2]>> /\ x[2] \in Nat
            BY <1>3, <3>2 DEF SlicesOf
          <6>2. x[2] + Len(todo[c]) = Len(Pieces(plan, w, c)) + 1
            BY <3>2, <5>1, Zenon DEF IsAt
          <6>3. todo[c] \in Seq(Split)
            BY <1>1, <2>1, SliceAt
          <6>4. Len(todo[c]) \in Nat /\ Len(Pieces(plan, w, c)) \in Nat
            <7>1. Pieces(plan, w, c) \in Seq(Split)
              BY <1>2, PiecesAreSplits DEF Grid
            <7>. QED
              BY <6>3, <7>1
          <6>5. \A i, m, n \in Nat : i + m = n + 1 => i = n - m + 1
            OBVIOUS
          <6>6. x[2] = Len(Pieces(plan, w, c)) - Len(todo[c]) + 1
            BY <6>1, <6>2, <6>4, <6>5, Zenon
          <6>7. It(plan, w, HeadOf(plan, w, c, todo[c])) = Piece(c)
            BY <1>1, <2>1, <5>4, SliceAt
          <6>. QED
            BY <6>1, <6>6, <6>7, Zenon DEF HeadOf
        <5>. QED
          BY <1>3, <5>2, <5>5
      <4>. QED
        BY <4>1, <4>2
    <3>. QED
      BY <3>1, <3>2
  <2>. QED
    BY <1>0, <2>1, <2>3, StaysPut DEF SameTurns, IsPublished, IsTaken
<1>9. CASE StoreTile(c)
  <2>1. Advances(c) /\ at[c] = "store"
    BY <1>9, StepAdvances DEF StoreTile
  <2>. DEFINE w0 == Work(c)
              x0 == HeadOf(plan, w0, c, todo[c])
  <2>2. w0 \in Gemms /\ todo[c] # <<>>
    BY <2>1, AdvancesOne
  <2>3. IsAt(w0, x0, "store") /\ x0[1] = c
    BY <1>1, <2>1, <2>2, PieceIsAt
  <2>4. ASSUME NEW w \in Gemms, NEW x \in Shared(w)
        PROVE  /\ IsDone(w, x)' <=> IsDone(w, x) \/ (w = w0 /\ x = x0)
               /\ IsAt(w, x, "store")' <=> IsAt(w, x, "store") /\ ~(w = w0 /\ x = x0)
               /\ IsAt(w, x, "publish")' <=> IsAt(w, x, "publish")
    <3>1. x \in SlicesOf(plan, w)
      BY <1>3
    <3>2. /\ IsDone(w, x)' <=> IsDone(w, x) \/ (w = w0 /\ x = x0)
          /\ \A a \in AtPiece : IsAt(w, x, a)' <=> IsAt(w, x, a) /\ x[1] # c
      BY <2>1, <3>1, AdvancesOne
    <3>3. IsAt(w, x, "store") /\ x[1] = c => w = w0 /\ x = x0
      <4>1. ASSUME IsAt(w, x, "store"), x[1] = c PROVE w = w0 /\ x = x0
        <5>1. Work(c) = w /\ x = HeadOf(plan, w, c, todo[c])
          BY <1>2, <1>4, <3>1, <4>1, AtIsPiece
        <5>. QED
          BY <5>1
      <4>. QED
        BY <4>1
    <3>4. ~(IsAt(w, x, "publish") /\ x[1] = c)
      BY <2>1 DEF IsAt
    <3>. HIDE DEF w0, x0
    <3>. QED
      BY <1>4, <2>3, <3>2, <3>3, <3>4
  <2>. HIDE DEF w0, x0
  <2>. QED
    BY <1>0, <2>3, <2>4 DEF SameTurns, IsPublished, IsTaken
<1>. QED
  BY <1>0, <1>5, <1>6, <1>7, <1>8, <1>9

LEMMA SameTurnsKept ==
  ASSUME TurnInv, SameTurns, plan' = plan, lock' = lock
  PROVE  TurnInv'
<1>1. \A w : Shared(w)' = Shared(w)
  BY DEF Shared
<1>2. \A w, x, y : (Together(w, x, y)' <=> Together(w, x, y)) /\ Idx(w, x)' = Idx(w, x) /\ Slot(w, x)' = Slot(w, x)
  BY DEF Together, Idx, Slot
<1>3. TurnsInOrder'
  BY <1>1, <1>2 DEF TurnInv, TurnsInOrder, SameTurns
<1>4. \A w \in Gemms : \A x, y \in Shared(w) : Due(w, x, y)' <=> Due(w, x, y)
  BY <1>2 DEF Due, Follows, SameTurns
<1>5. LockIsNext'
  BY <1>1, <1>2, <1>4 DEF TurnInv, LockIsNext
<1>6. LockIsDue'
  BY <1>1, <1>2, <1>4 DEF TurnInv, LockIsDue
<1>. QED
  BY <1>3, <1>5, <1>6 DEF TurnInv

\* A CTA at its turn, or past it, is at a shared slice.
LEMMA TurnIsShared ==
  ASSUME SchedulesAgree, StageInv, BarrierInv, NEW c \in CTAs, at[c] \in {"turn", "publish"}
  PROVE  LET w == Work(c) x == HeadOf(plan, w, c, todo[c]) IN
         /\ w \in Gemms /\ x \in Shared(w) /\ x \in SlicesOf(plan, w) /\ x[1] = c /\ It(plan, w, x) = Piece(c)
         /\ IsAt(w, x, at[c]) /\ ~IsDone(w, x) /\ todo[c] # <<>>
         /\ launched > 0 /\ c \in Grid /\ plan \in Plans
<1>1. at[c] # "out"
  OBVIOUS
<1>2. AtStage(plan, c, at[c], seg[c], job[c], todo[c])
  BY <1>1, ActiveCTA
<1>3. Work(c) \in Gemms /\ todo[c] # <<>> /\ Piece(c).count > 1
  BY <1>2 DEF AtStage, Work, Piece
<1>. DEFINE w == Work(c)
            x == HeadOf(plan, w, c, todo[c])
<1>4. /\ IsAt(w, x, at[c]) /\ ~IsDone(w, x) /\ x \in SlicesOf(plan, w) /\ x[1] = c /\ It(plan, w, x) = Piece(c)
      /\ launched > 0 /\ c \in Grid /\ plan \in Plans
  BY <1>1, <1>3, PieceIsAt
<1>. HIDE DEF x, w
<1>5. x \in Shared(w)
  BY <1>3, <1>4 DEF Shared
<1>. QED
  BY <1>3, <1>4, <1>5 DEF w, x

\* No other slice has this place of its CTA.
LEMMA OneAt ==
  ASSUME SchedulesAgree, StageInv, BarrierInv, launched > 0, NEW w \in Gemms, NEW x \in SlicesOf(plan, w),
         NEW v \in Gemms, NEW y \in SlicesOf(plan, v), NEW a \in AtPiece, NEW b \in AtPiece,
         IsAt(w, x, a), IsAt(v, y, b), x[1] = y[1]
  PROVE  w = v /\ x = y
<1>1. Work(x[1]) = w /\ x = HeadOf(plan, w, x[1], todo[x[1]])
  BY AtIsPiece
<1>2. Work(y[1]) = v /\ y = HeadOf(plan, v, y[1], todo[y[1]])
  BY AtIsPiece
<1>. QED
  BY <1>1, <1>2

LEMMA TakeTakes ==
  ASSUME SchedulesAgree, StageInv, BarrierInv, NEW c \in CTAs, TakeTurn(c)
  PROVE  LET w0 == Work(c) x0 == HeadOf(plan, w0, c, todo[c]) IN
         /\ ~IsTaken(w0, x0) /\ lock[Slot(w0, x0)] = Idx(w0, x0) /\ plan' = plan /\ lock' = lock
         /\ \A w \in Gemms : \A x \in SlicesOf(plan, w) :
              /\ IsPublished(w, x)' <=> IsPublished(w, x)
              /\ IsTaken(w, x)' <=> IsTaken(w, x) \/ (w = w0 /\ x = x0)
<1>1. at[c] = "turn"
  BY DEF TakeTurn
<1>. DEFINE w0 == Work(c)
            x0 == HeadOf(plan, w0, c, todo[c])
<1>2. /\ w0 \in Gemms /\ x0 \in SlicesOf(plan, w0) /\ x0[1] = c /\ It(plan, w0, x0) = Piece(c)
      /\ IsAt(w0, x0, "turn") /\ ~IsDone(w0, x0) /\ launched > 0 /\ c \in Grid
  BY <1>1, TurnIsShared
<1>3. /\ lock[Piece(c).slot] = Piece(c).idx /\ UNCHANGED <<plan, launched, seg, job, todo, lock>>
      /\ \A d \in CTAs \ {c} : at'[d] = at[d]
      /\ at'[c] = "publish"
  BY DEF TakeTurn, Go, words, BarrierInv, BarrierType
<1>4. Stays(c)
  BY <1>3 DEF Stays
<1>. HIDE DEF w0, x0
<1>5. ~IsTaken(w0, x0)
  BY <1>1, <1>2 DEF IsTaken, IsPublished, IsAt
<1>6. ASSUME NEW w \in Gemms, NEW x \in SlicesOf(plan, w)
      PROVE  /\ IsPublished(w, x)' <=> IsPublished(w, x)
             /\ IsTaken(w, x)' <=> IsTaken(w, x) \/ (w = w0 /\ x = x0)
  <2>1. IsDone(w, x)' <=> IsDone(w, x)
    BY <1>4, StaysPut
  <2>2. \A a \in AtPiece : IsAt(w, x, a)' <=> IF x[1] = c THEN IsAt(w, x, at[c]) /\ at'[c] = a ELSE IsAt(w, x, a)
    BY <1>4, StaysPut
  <2>3. "store" \in AtPiece /\ "publish" \in AtPiece /\ "turn" \in AtPiece
    BY DEF AtPiece
  <2>4. IsAt(w, x, "turn") /\ x[1] = c => w = w0 /\ x = x0
    BY <1>2, <2>3, OneAt
  <2>5. x[1] = c => ~IsAt(w, x, "store") /\ ~IsAt(w, x, "publish")
    BY <1>1 DEF IsAt
  <2>6. IsAt(w, x, "store")' <=> IsAt(w, x, "store")
    BY <1>1, <1>3, <2>2, <2>3, <2>5
  <2>7. IsAt(w, x, "publish")' <=> IsAt(w, x, "publish") \/ (w = w0 /\ x = x0)
    BY <1>1, <1>2, <1>3, <2>2, <2>3, <2>4, <2>5
  <2>. QED
    BY <2>1, <2>6, <2>7 DEF IsPublished, IsTaken
<1>. QED
  BY <1>2, <1>3, <1>5, <1>6 DEF w0, x0, Slot, Idx

LEMMA PublishPublishes ==
  ASSUME SchedulesAgree, StageInv, BarrierInv, NEW c \in CTAs, PublishTurn(c)
  PROVE  LET w0 == Work(c) x0 == HeadOf(plan, w0, c, todo[c]) IN
         /\ ~IsPublished(w0, x0) /\ IsTaken(w0, x0) /\ plan' = plan /\ ctmp' = ctmp
         /\ lock' = [lock EXCEPT ![Slot(w0, x0)] = IF Idx(w0, x0) = Count(w0, x0) - 1 THEN 0 ELSE @ + 1]
         /\ \A w \in Gemms : \A x \in SlicesOf(plan, w) :
              /\ IsPublished(w, x)' <=> IsPublished(w, x) \/ (w = w0 /\ x = x0)
              /\ IsTaken(w, x)' <=> IsTaken(w, x)
<1>1. at[c] = "publish"
  BY DEF PublishTurn
<1>. DEFINE w0 == Work(c)
            x0 == HeadOf(plan, w0, c, todo[c])
<1>2. /\ w0 \in Gemms /\ x0 \in SlicesOf(plan, w0) /\ x0[1] = c /\ It(plan, w0, x0) = Piece(c)
      /\ IsAt(w0, x0, "publish") /\ ~IsDone(w0, x0) /\ launched > 0 /\ c \in Grid
  BY <1>1, TurnIsShared
<1>3. /\ plan' = plan /\ ctmp' = ctmp
      /\ lock' = [lock EXCEPT ![Piece(c).slot] = IF IsLast(Piece(c)) THEN 0 ELSE @ + 1]
  BY DEF PublishTurn
<1>4. "store" \in AtPiece /\ "publish" \in AtPiece /\ "turn" \in AtPiece
  BY DEF AtPiece
<1>5. ~IsPublished(w0, x0) /\ IsTaken(w0, x0)
  BY <1>1, <1>2 DEF IsTaken, IsPublished, IsAt
<1>6. \A w \in Gemms : \A x \in SlicesOf(plan, w) : IsAt(w, x, "publish") /\ x[1] = c => w = w0 /\ x = x0
  BY <1>2, <1>4, OneAt
<1>7. \A w \in Gemms : \A x \in SlicesOf(plan, w) : x[1] = c => ~IsAt(w, x, "store")
  BY <1>1 DEF IsAt
<1>. DEFINE Is(w, x) == w = w0 /\ x = x0
<1>8. ASSUME NEW w \in Gemms, NEW x \in SlicesOf(plan, w)
      PROVE  /\ IsPublished(w, x)' <=> IsPublished(w, x) \/ Is(w, x)
             /\ IsTaken(w, x)' <=> IsTaken(w, x)
  <2>1. CASE IsLast(Piece(c))
    <3>1. Stays(c) /\ at'[c] = "store"
      BY <2>1 DEF PublishTurn, Go, Stays, BarrierInv, BarrierType
    <3>2. /\ IsDone(w, x)' <=> IsDone(w, x)
          /\ \A a \in AtPiece : IsAt(w, x, a)' <=> IF x[1] = c THEN IsAt(w, x, at[c]) /\ at'[c] = a ELSE IsAt(w, x, a)
      BY <3>1, StaysPut
    <3>3. IsAt(w, x, "store")' <=> IsAt(w, x, "store") \/ Is(w, x)
      BY <1>1, <1>2, <1>4, <1>6, <1>7, <3>1, <3>2
    <3>4. IsAt(w, x, "publish")' <=> IsAt(w, x, "publish") /\ ~Is(w, x)
      BY <1>1, <1>2, <1>4, <1>6, <3>1, <3>2
    <3>. HIDE DEF Is
    <3>5. Is(w, x) => IsTaken(w, x)
      BY <1>5 DEF Is
    <3>. QED
      BY <3>2, <3>3, <3>4, <3>5 DEF IsPublished, IsTaken
  <2>2. CASE ~IsLast(Piece(c))
    <3>1. Advances(c)
      BY <2>2, StepAdvances
    <3>2. /\ IsDone(w, x)' <=> IsDone(w, x) \/ Is(w, x)
          /\ \A a \in AtPiece : IsAt(w, x, a)' <=> IsAt(w, x, a) /\ x[1] # c
      BY <3>1, AdvancesOne
    <3>3. IsAt(w, x, "store")' <=> IsAt(w, x, "store")
      BY <1>4, <1>7, <3>2
    <3>4. IsAt(w, x, "publish")' <=> IsAt(w, x, "publish") /\ ~Is(w, x)
      BY <1>2, <1>4, <1>6, <3>2
    <3>. HIDE DEF Is
    <3>5. Is(w, x) => IsTaken(w, x)
      BY <1>5 DEF Is
    <3>. QED
      BY <3>2, <3>3, <3>4, <3>5 DEF IsPublished, IsTaken
  <2>. QED
    BY <2>1, <2>2
<1>. HIDE DEF w0, x0
<1>. QED
  BY <1>2, <1>3, <1>5, <1>8 DEF w0, x0, Slot, Idx, Count, IsLast

\* The constant part of the slices does not change with a step.
LEMMA SlicesStay ==
  ASSUME plan' = plan
  PROVE  /\ \A w : Shared(w)' = Shared(w)
         /\ \A w, x, y : /\ Together(w, x, y)' <=> Together(w, x, y)
                         /\ Follows(w, y, x)' <=> Follows(w, y, x)
                         /\ Idx(w, x)' = Idx(w, x) /\ Slot(w, x)' = Slot(w, x)
BY DEF Shared, Together, Idx, Slot, Follows

\* A shared slice that is due now is one of the GEMM a CTA works in.
LEMMA DueIsHere ==
  ASSUME SchedulesAgree, StageInv, BarrierInv, NEW c \in CTAs, at[c] \in Working, Work(c) \in Gemms,
         NEW w \in Gemms, NEW x \in Shared(w), NEW y \in Shared(w), IsPublished(w, x), ~IsPublished(w, y)
  PROVE  w = Work(c)
<1>1. x \in SlicesOf(plan, w) /\ y \in SlicesOf(plan, w)
  BY DEF Shared
<1>2. ~IsDone(w, y)
  BY DEF IsPublished
<1>. QED
  BY <1>1, <1>2, OneGemm

\* When it is a slice's turn, those before it passed theirs on.
LEMMA TurnsBefore ==
  ASSUME SchedulesAgree, StageInv, BarrierInv, TurnInv, NEW c \in CTAs, at[c] \in Working, Work(c) \in Gemms,
         NEW x \in Shared(Work(c)), lock[Slot(Work(c), x)] = Idx(Work(c), x), plan \in Plans,
         NEW y \in Shared(Work(c)), Together(Work(c), y, x), Idx(Work(c), y) < Idx(Work(c), x)
  PROVE  IsPublished(Work(c), y)
<1>. DEFINE w == Work(c)
            s == Slot(w, x)
<1>1. /\ s \in Slots /\ Idx(w, x) \in Nat /\ Idx(w, y) \in Nat
  BY SharedSlices
<1>. HIDE DEF w
<1>2. lock[s] # 0
  BY <1>1 DEF w
<1>. HIDE DEF s
<1>3. PICK v \in Gemms : \E a, b \in Shared(v) : Due(v, a, b) /\ Slot(v, b) = s /\ lock[s] = Idx(v, b)
  BY <1>1, <1>2 DEF TurnInv, LockIsDue
<1>4. PICK a \in Shared(v), b \in Shared(v) : Due(v, a, b) /\ Slot(v, b) = s /\ lock[s] = Idx(v, b)
  BY <1>3
<1>5. v = w
  BY <1>4, DueIsHere DEF Due, w
<1>6. Together(w, b, x)
  BY <1>4, <1>5, SharedSlices DEF s, w
<1>7. b = x
  <2>1. Idx(w, b) = Idx(w, x)
    BY <1>4, <1>5 DEF s, w
  <2>2. b \in Shared(w) /\ x \in Shared(w) /\ w \in Gemms
    BY <1>4, <1>5 DEF w
  <2>. QED
    BY <1>6, <2>1, <2>2, SharedSlices
<1>8. Together(w, a, x) /\ Idx(w, x) = Idx(w, a) + 1 /\ IsPublished(w, a) /\ Idx(w, a) \in Nat
  BY <1>4, <1>5, <1>7, SharedSlices DEF Due, Follows, w
<1>9. Together(w, y, a)
  BY <1>8 DEF Together, SameTile, w
<1>10. CASE Idx(w, y) = Idx(w, a)
  <2>1. y = a
    BY <1>4, <1>5, <1>9, <1>10, SharedSlices DEF w
  <2>. QED
    BY <1>8, <2>1 DEF w
<1>11. CASE Idx(w, y) # Idx(w, a)
  <2>1. Idx(w, y) < Idx(w, a)
    BY <1>1, <1>8, <1>11 DEF w
  <2>2. IsTaken(w, a)
    BY <1>8 DEF IsTaken
  <2>. QED
    BY <1>4, <1>5, <1>9, <2>1, <2>2 DEF TurnInv, TurnsInOrder, w
<1>. QED
  BY <1>10, <1>11

LEMMA TakeTurnTurns ==
  ASSUME SchedulesAgree, StageInv, BarrierInv, TurnInv, NEW c \in CTAs, TakeTurn(c)
  PROVE  TurnInv'
<1>1. at[c] = "turn" /\ at[c] \in Working
  BY DEF TakeTurn, Working
<1>. DEFINE w0 == Work(c)
            x0 == HeadOf(plan, w0, c, todo[c])
<1>2. w0 \in Gemms /\ x0 \in Shared(w0) /\ plan \in Plans
  BY <1>1, TurnIsShared
<1>3. /\ ~IsTaken(w0, x0) /\ lock[Slot(w0, x0)] = Idx(w0, x0) /\ plan' = plan /\ lock' = lock
      /\ \A w \in Gemms : \A x \in SlicesOf(plan, w) :
           /\ IsPublished(w, x)' <=> IsPublished(w, x)
           /\ IsTaken(w, x)' <=> IsTaken(w, x) \/ (w = w0 /\ x = x0)
  BY TakeTakes
<1>. HIDE DEF x0
<1>4. \A y \in Shared(w0) : Together(w0, y, x0) /\ Idx(w0, y) < Idx(w0, x0) => IsPublished(w0, y)
  BY <1>1, <1>2, <1>3, TurnsBefore
<1>. HIDE DEF w0
<1>5. \A w : Shared(w) \subseteq SlicesOf(plan, w)
  BY DEF Shared
<1>6. TurnsInOrder'
  <2>1. ASSUME NEW w \in Gemms, NEW x \in Shared(w), NEW y \in Shared(w),
               Together(w, x, y), Idx(w, x) < Idx(w, y), IsTaken(w, y)'
        PROVE  IsPublished(w, x)'
    <3>1. CASE IsTaken(w, y)
      BY <1>3, <1>5, <2>1, <3>1 DEF TurnInv, TurnsInOrder
    <3>2. CASE w = w0 /\ y = x0
      BY <1>3, <1>4, <1>5, <2>1, <3>2
    <3>. QED
      BY <1>3, <1>5, <2>1, <3>1, <3>2
  <2>. QED
    BY <1>3, <2>1, SlicesStay DEF TurnsInOrder
<1>b. /\ \A w : Shared(w)' = Shared(w)
      /\ \A w, x, y : /\ Follows(w, y, x)' <=> Follows(w, y, x)
                      /\ Idx(w, x)' = Idx(w, x) /\ Slot(w, x)' = Slot(w, x)
  BY <1>3, SlicesStay
<1>7. \A w \in Gemms : \A x, y \in Shared(w) : Due(w, x, y)' <=> Due(w, x, y)
  BY <1>3, <1>5, <1>b DEF Due
<1>8. LockIsNext'
  BY <1>3, <1>7, <1>b DEF TurnInv, LockIsNext
<1>9. LockIsDue'
  BY <1>3, <1>7, <1>b DEF TurnInv, LockIsDue
<1>. QED
  BY <1>6, <1>8, <1>9 DEF TurnInv

\* A CTA passes the turn on from the number of its own slice.
LEMMA LockIsOwn ==
  ASSUME SchedulesAgree, StageInv, BarrierInv, TurnInv, NEW c \in CTAs, at[c] \in Working, Work(c) \in Gemms,
         NEW x \in Shared(Work(c)), IsTaken(Work(c), x), ~IsPublished(Work(c), x), plan \in Plans
  PROVE  lock[Slot(Work(c), x)] = Idx(Work(c), x)
<1>. DEFINE w == Work(c)
            s == Slot(w, x)
<1>1. /\ s \in Slots /\ Idx(w, x) \in Nat /\ Count(w, x) \in Nat /\ Idx(w, x) < Count(w, x)
      /\ \A i \in 0 .. Count(w, x) - 1 : \E y \in Shared(w) : Together(w, y, x) /\ Idx(w, y) = i
  BY SharedSlices
<1>2. \A y \in Shared(w) : Together(w, y, x) /\ Idx(w, y) < Idx(w, x) => IsPublished(w, y)
  BY DEF TurnInv, TurnsInOrder
<1>. HIDE DEF w, s
<1>3. CASE Idx(w, x) = 0
  <2>1. SUFFICES ASSUME lock[s] # 0 PROVE FALSE
    BY <1>3 DEF w, s
  <2>2. PICK v \in Gemms : \E a, b \in Shared(v) : Due(v, a, b) /\ Slot(v, b) = s /\ lock[s] = Idx(v, b)
    BY <1>1, <2>1 DEF TurnInv, LockIsDue
  <2>3. PICK a \in Shared(v), b \in Shared(v) : Due(v, a, b) /\ Slot(v, b) = s
    BY <2>2
  <2>4. v = w
    BY <2>3, DueIsHere DEF Due, w
  <2>5. Together(w, b, x) /\ Idx(w, a) \in Nat
    BY <2>3, <2>4, SharedSlices DEF s, w
  <2>6. Together(w, x, a) /\ IsPublished(w, a)
    BY <2>3, <2>4, <2>5 DEF Due, Follows, Together, SameTile
  <2>7. Idx(w, x) < Idx(w, a) => IsPublished(w, x)
    BY <2>3, <2>4, <2>6 DEF TurnInv, TurnsInOrder, IsTaken, w
  <2>8. Idx(w, a) = 0
    BY <1>3, <2>5, <2>7 DEF w
  <2>9. a = x
    BY <1>3, <2>3, <2>4, <2>6, <2>8, SharedSlices DEF w
  <2>. QED
    BY <2>6, <2>9 DEF w
<1>4. CASE Idx(w, x) # 0
  <2>1. Idx(w, x) - 1 \in 0 .. Count(w, x) - 1
    BY <1>1, <1>4
  <2>2. PICK y \in Shared(w) : Together(w, y, x) /\ Idx(w, y) = Idx(w, x) - 1
    BY <1>1, <2>1
  <2>3. IsPublished(w, y) /\ Follows(w, x, y)
    BY <1>1, <1>2, <2>2 DEF Follows
  <2>4. Due(w, y, x)
    BY <2>3 DEF Due, w
  <2>. QED
    BY <2>2, <2>4 DEF TurnInv, LockIsNext, w
<1>. QED
  BY <1>3, <1>4

LEMMA PublishTurnTurns ==
  ASSUME SchedulesAgree, StageInv, BarrierInv, TurnInv, WordsInv, NEW c \in CTAs, PublishTurn(c)
  PROVE  TurnInv'
<1>1. at[c] = "publish" /\ at[c] \in Working
  BY DEF PublishTurn, Working
<1>. DEFINE w0 == Work(c)
            x0 == HeadOf(plan, w0, c, todo[c])
            s0 == Slot(w0, x0)
            last == Idx(w0, x0) = Count(w0, x0) - 1
<1>2. w0 \in Gemms /\ x0 \in Shared(w0) /\ plan \in Plans
  BY <1>1, TurnIsShared
<1>3. /\ ~IsPublished(w0, x0) /\ IsTaken(w0, x0) /\ plan' = plan
      /\ lock' = [lock EXCEPT ![s0] = IF last THEN 0 ELSE @ + 1]
      /\ \A w \in Gemms : \A x \in SlicesOf(plan, w) :
           /\ IsPublished(w, x)' <=> IsPublished(w, x) \/ (w = w0 /\ x = x0)
           /\ IsTaken(w, x)' <=> IsTaken(w, x)
  BY PublishPublishes
<1>. HIDE DEF x0
<1>4. lock[s0] = Idx(w0, x0)
  BY <1>1, <1>2, <1>3, LockIsOwn
<1>5. \A w : Shared(w) \subseteq SlicesOf(plan, w)
  BY DEF Shared
<1>6. /\ s0 \in Slots /\ Idx(w0, x0) \in Nat /\ Count(w0, x0) \in Nat /\ Idx(w0, x0) < Count(w0, x0)
      /\ \A i \in 0 .. Count(w0, x0) - 1 : \E y \in Shared(w0) : Together(w0, y, x0) /\ Idx(w0, y) = i
  BY <1>2, SharedSlices
<1>b. /\ \A w : Shared(w)' = Shared(w)
      /\ \A w, x, y : /\ Follows(w, y, x)' <=> Follows(w, y, x)
                      /\ Idx(w, x)' = Idx(w, x) /\ Slot(w, x)' = Slot(w, x)
  BY <1>3, SlicesStay
<1>a. \A w \in Gemms : \A x, y \in Shared(w) : IsPublished(w, x) /\ ~IsPublished(w, y) => w = w0
  BY <1>1, <1>2, DueIsHere
<1>. HIDE DEF w0, s0
<1>7. lock'[s0] = (IF last THEN 0 ELSE Idx(w0, x0) + 1) /\ \A s \in Slots \ {s0} : lock'[s] = lock[s]
  BY <1>3, <1>4, <1>6 DEF WordsInv
<1>8. TurnsInOrder'
  <2>1. ASSUME NEW w \in Gemms, NEW x \in Shared(w), NEW y \in Shared(w),
               Together(w, x, y), Idx(w, x) < Idx(w, y), IsTaken(w, y)'
        PROVE  IsPublished(w, x)'
    BY <1>3, <1>5, <2>1 DEF TurnInv, TurnsInOrder
  <2>. QED
    BY <1>3, <2>1, SlicesStay DEF TurnsInOrder
<1>9. LockIsNext'
  <2>1. ASSUME NEW w \in Gemms, NEW x \in Shared(w), NEW y \in Shared(w), Due(w, x, y)'
        PROVE  lock'[Slot(w, y)] = Idx(w, y)
    <3>1. /\ Follows(w, y, x) /\ IsPublished(w, x)' /\ ~IsPublished(w, y)'
          /\ ~IsPublished(w, y) /\ ~(w = w0 /\ y = x0)
      BY <1>3, <1>5, <2>1, SlicesStay DEF Due
    <3>2. Slot(w, y) \in Slots /\ Idx(w, x) \in Nat /\ Idx(w, y) \in Nat
      BY <1>2, SharedSlices
    <3>3. CASE w = w0 /\ x = x0
      <4>1. Idx(w, y) < Count(w, y) /\ Count(w, y) = Count(w, x) /\ Slot(w, y) = s0
        BY <1>2, <3>1, <3>3, SharedSlices DEF Follows, s0
      <4>2. ~last
        BY <1>6, <3>1, <3>2, <3>3, <4>1 DEF Follows
      <4>. QED
        BY <1>7, <3>1, <3>3, <4>1, <4>2 DEF Follows
    <3>4. CASE ~(w = w0 /\ x = x0)
      <4>1. IsPublished(w, x)
        BY <1>3, <1>5, <3>1, <3>4
      <4>2. Due(w, x, y) /\ w = w0
        BY <1>a, <3>1, <4>1 DEF Due
      <4>3. lock[Slot(w, y)] = Idx(w, y)
        BY <4>2 DEF TurnInv, LockIsNext
      <4>4. Slot(w, y) # s0
        <5>1. SUFFICES ASSUME Slot(w, y) = s0 PROVE FALSE
          OBVIOUS
        <5>2. Together(w, y, x0)
          BY <1>2, <4>2, <5>1, SharedSlices DEF s0
        <5>3. Idx(w, y) = Idx(w0, x0)
          BY <1>4, <4>3, <5>1
        <5>4. y = x0
          BY <1>2, <4>2, <5>2, <5>3, SharedSlices
        <5>. QED
          BY <3>1, <4>2, <5>4
      <4>. QED
        BY <1>7, <3>2, <4>3, <4>4
    <3>. QED
      BY <3>3, <3>4
  <2>. QED
    BY <1>b, <2>1 DEF LockIsNext
<1>10. LockIsDue'
  <2>1. ASSUME NEW s \in Slots, lock'[s] # 0
        PROVE  \E w \in Gemms : \E x, y \in Shared(w) : Due(w, x, y)' /\ Slot(w, y) = s /\ lock'[s] = Idx(w, y)
    <3>1. CASE s = s0
      <4>1. ~last
        BY <1>7, <2>1, <3>1
      <4>2. Idx(w0, x0) + 1 \in 0 .. Count(w0, x0) - 1
        BY <1>6, <4>1
      <4>3. PICK w \in Gemms : w = w0
        BY <1>2
      <4>4. PICK x \in Shared(w) : x = x0
        BY <1>2, <4>3
      <4>5. PICK y \in Shared(w) : Together(w, y, x) /\ Idx(w, y) = Idx(w, x) + 1
        BY <1>6, <4>2, <4>3, <4>4
      <4>6. Together(w, x, y) /\ Slot(w, y) = s /\ Follows(w, y, x) /\ Idx(w, x) \in Nat
        BY <1>2, <3>1, <4>3, <4>4, <4>5, SharedSlices DEF s0, Together, SameTile, Follows
      <4>7. ~IsPublished(w, y)
        <5>1. IsPublished(w, y) => IsPublished(w, x)
          BY <4>5, <4>6 DEF TurnInv, TurnsInOrder, IsTaken
        <5>. QED
          BY <1>3, <4>3, <4>4, <5>1
      <4>8. y # x
        BY <4>5, <4>6
      <4>9. IsPublished(w, x)' /\ ~IsPublished(w, y)'
        BY <1>3, <1>5, <4>3, <4>4, <4>7, <4>8
      <4>10. Due(w, x, y)'
        BY <1>b, <4>6, <4>9 DEF Due
      <4>. QED
        BY <1>7, <3>1, <4>1, <4>3, <4>4, <4>5, <4>6, <4>10
    <3>2. CASE s # s0
      <4>1. lock'[s] = lock[s]
        BY <1>7, <3>2
      <4>2. PICK w \in Gemms : \E x, y \in Shared(w) : Due(w, x, y) /\ Slot(w, y) = s /\ lock[s] = Idx(w, y)
        BY <2>1, <4>1 DEF TurnInv, LockIsDue
      <4>3. PICK x \in Shared(w), y \in Shared(w) : Due(w, x, y) /\ Slot(w, y) = s /\ lock[s] = Idx(w, y)
        BY <4>2
      <4>4. ~(w = w0 /\ y = x0)
        BY <3>2, <4>3 DEF s0
      <4>5. IsPublished(w, x)' /\ ~IsPublished(w, y)'
        BY <1>3, <1>5, <4>3, <4>4 DEF Due
      <4>6. Due(w, x, y)'
        BY <1>b, <4>3, <4>5 DEF Due
      <4>. QED
        BY <4>1, <4>3, <4>6
    <3>. QED
      BY <3>1, <3>2
  <2>. QED
    BY <1>b, <2>1 DEF LockIsDue
<1>. QED
  BY <1>8, <1>9, <1>10 DEF TurnInv

\* Two CTAs between their turn and its publication are at different lock words.
LEMMA TurnsKeepApart ==
  ASSUME SchedulesAgree, StageInv, BarrierInv, launched > 0 => TurnInv
  PROVE  TurnsApart
<1>1. SUFFICES ASSUME NEW c \in Grid, NEW d \in Grid, at[c] = "publish", at[d] = "publish", c # d,
                      Work(c) = Work(d), Piece(c).slot = Piece(d).slot
               PROVE  FALSE
  BY DEF TurnsApart
<1>2. c \in CTAs /\ d \in CTAs /\ plan \in Plans
  BY GridOfPlan DEF BarrierInv, BarrierType
<1>. DEFINE w == Work(c)
            x == HeadOf(plan, w, c, todo[c])
            y == HeadOf(plan, w, d, todo[d])
<1>3. /\ w \in Gemms /\ x \in Shared(w) /\ x[1] = c /\ It(plan, w, x) = Piece(c) /\ IsAt(w, x, "publish") /\ ~IsDone(w, x)
      /\ launched > 0
  BY <1>1, <1>2, TurnIsShared
<1>4. /\ y \in Shared(w) /\ y[1] = d /\ It(plan, w, y) = Piece(d) /\ IsAt(w, y, "publish") /\ ~IsDone(w, y)
  BY <1>1, <1>2, TurnIsShared
<1>. HIDE DEF w, x, y
<1>5. IsTaken(w, x) /\ IsTaken(w, y) /\ ~IsPublished(w, x) /\ ~IsPublished(w, y)
  BY <1>1, <1>3, <1>4 DEF IsTaken, IsPublished, IsAt
<1>6. Together(w, x, y) /\ Together(w, y, x) /\ Idx(w, x) \in Nat /\ Idx(w, y) \in Nat /\ (Idx(w, x) = Idx(w, y) => x = y)
  BY <1>1, <1>2, <1>3, <1>4, SharedSlices DEF Slot
<1>7. x # y
  BY <1>1, <1>3, <1>4
<1>8. Idx(w, x) < Idx(w, y) \/ Idx(w, y) < Idx(w, x)
  BY <1>6, <1>7
<1>. QED
  BY <1>3, <1>4, <1>5, <1>6, <1>8 DEF TurnInv, TurnsInOrder

-----------------------------------------------------------------------------
(* Sums over the slices of a tile. *)

LEMMA AllSlices ==
  ASSUME SchedulesAgree, plan \in Plans, NEW w \in Gemms
  PROVE  /\ Gemm(plan, w).k \in Nat \ {0}
         /\ \A x \in SlicesOf(plan, w) :
              /\ It(plan, w, x) \in Split /\ IsHere(plan, w, It(plan, w, x).tile)
              /\ Idx(w, x) \in Nat /\ Count(w, x) \in Nat /\ Idx(w, x) < Count(w, x)
              /\ Lo(w, x) \in Nat /\ Hi(w, x) \in Nat /\ Lo(w, x) < Hi(w, x) /\ Hi(w, x) <= Gemm(plan, w).k
              /\ \E y \in SlicesOf(plan, w) : Together(w, y, x) /\ Idx(w, y) = Count(w, y) - 1
              /\ \A v \in 0 .. Gemm(plan, w).k - 1 : \E y \in SlicesOf(plan, w) :
                   Together(w, y, x) /\ Lo(w, y) <= v /\ v < Hi(w, y)
         /\ \A x, y \in SlicesOf(plan, w) : Together(w, x, y) =>
              /\ Count(w, x) = Count(w, y)
              /\ Idx(w, x) = Idx(w, y) => x = y
              /\ Idx(w, x) < Idx(w, y) => Hi(w, y) <= Lo(w, x)
<1>1. Consistent(plan, w)
  BY DEF SchedulesAgree
<1>. DEFINE S == SlicesOf(plan, w)
            k == Gemm(plan, w).k
<1>2. /\ \A x \in S :
           /\ It(plan, w, x) \in Split /\ IsHere(plan, w, It(plan, w, x).tile)
           /\ It(plan, w, x).lo < It(plan, w, x).hi /\ It(plan, w, x).hi <= k
           /\ It(plan, w, x).idx < It(plan, w, x).count
           /\ \A i \in 0 .. It(plan, w, x).count - 1 :
                \E y \in S : SameTile(plan, w, y, x) /\ It(plan, w, y).idx = i
      /\ \A x, y \in S : SameTile(plan, w, x, y) /\ x # y =>
           /\ It(plan, w, x).count = It(plan, w, y).count /\ It(plan, w, x).idx # It(plan, w, y).idx
           /\ It(plan, w, x).idx < It(plan, w, y).idx => It(plan, w, y).hi <= It(plan, w, x).lo
      /\ \A t : IsHere(plan, w, t) => \A v \in 0 .. k - 1 :
           \E x \in S : It(plan, w, x).tile = t /\ It(plan, w, x).lo <= v /\ v < It(plan, w, x).hi
  BY <1>1, ConsistentSlices
<1>3. k \in Nat \ {0}
  BY NumbersOfGemm
<1>. HIDE DEF S, k
<1>4. ASSUME NEW x \in S, NEW y \in S, Together(w, x, y)
      PROVE  /\ Count(w, x) = Count(w, y)
             /\ Idx(w, x) = Idx(w, y) => x = y
             /\ Idx(w, x) < Idx(w, y) => Hi(w, y) <= Lo(w, x)
  <2>1. CASE x = y
    <3>1. Idx(w, x) \in Nat
      BY <1>2 DEF Idx, Split
    <3>. QED
      BY <2>1, <3>1
  <2>2. CASE x # y
    BY <1>2, <1>4, <2>2 DEF Together, Count, Idx, Hi, Lo
  <2>. QED
    BY <2>1, <2>2
<1>5. ASSUME NEW x \in S
      PROVE  /\ It(plan, w, x) \in Split /\ IsHere(plan, w, It(plan, w, x).tile)
             /\ Idx(w, x) \in Nat /\ Count(w, x) \in Nat /\ Idx(w, x) < Count(w, x)
             /\ Lo(w, x) \in Nat /\ Hi(w, x) \in Nat /\ Lo(w, x) < Hi(w, x) /\ Hi(w, x) <= k
             /\ \E y \in S : Together(w, y, x) /\ Idx(w, y) = Count(w, y) - 1
             /\ \A v \in 0 .. k - 1 : \E y \in S : Together(w, y, x) /\ Lo(w, y) <= v /\ v < Hi(w, y)
  <2>1. It(plan, w, x) \in Split
    BY <1>2
  <2>2. Idx(w, x) \in Nat /\ Count(w, x) \in Nat /\ Lo(w, x) \in Nat /\ Hi(w, x) \in Nat
    BY <2>1 DEF Split, Idx, Count, Lo, Hi
  <2>3. Idx(w, x) < Count(w, x) /\ Lo(w, x) < Hi(w, x) /\ Hi(w, x) <= k /\ IsHere(plan, w, It(plan, w, x).tile)
    BY <1>2 DEF Idx, Count, Lo, Hi
  <2>4. Count(w, x) - 1 \in 0 .. Count(w, x) - 1
    BY <2>2, <2>3
  <2>5. PICK y \in S : Together(w, y, x) /\ Idx(w, y) = Count(w, x) - 1
    BY <1>2, <2>4 DEF Together, Idx, Count
  <2>6. Count(w, y) = Count(w, x)
    BY <1>4, <2>5
  <2>7. ASSUME NEW v \in 0 .. k - 1 PROVE \E z \in S : Together(w, z, x) /\ Lo(w, z) <= v /\ v < Hi(w, z)
    BY <1>2, <2>3 DEF Together, SameTile, Lo, Hi
  <2>. QED
    BY <2>1, <2>2, <2>3, <2>5, <2>6, <2>7
<1>. QED
  BY <1>3, <1>4, <1>5 DEF S, k

LEMMA SumOne ==
  ASSUME SchedulesAgree, plan \in Plans, NEW w \in Gemms, NEW x \in SlicesOf(plan, w), Idx(w, x) = 0
  PROVE  SumTo(w, x) = PartOf(w, x)
<1>. DEFINE k == Gemm(plan, w).k
            parts == {v \in 0 .. k - 1 : \E y \in SlicesOf(plan, w) :
                        Together(w, y, x) /\ Idx(w, y) <= Idx(w, x) /\ Lo(w, y) <= v /\ v < Hi(w, y)}
<1>1. \A y \in SlicesOf(plan, w) : Together(w, y, x) /\ Idx(w, y) <= Idx(w, x) <=> y = x
  <2>1. Together(w, x, x)
    BY DEF Together, SameTile
  <2>. QED
    BY <2>1, AllSlices
<1>2. Lo(w, x) \in Nat /\ Hi(w, x) \in Nat /\ Hi(w, x) <= k /\ k \in Nat
  BY AllSlices
<1>. HIDE DEF k
<1>3. parts = {v \in 0 .. k - 1 : Lo(w, x) <= v /\ v < Hi(w, x)}
  BY <1>1
<1>4. parts = Lo(w, x) .. Hi(w, x) - 1
  BY <1>2, <1>3
<1>5. SumTo(w, x) = [parts |-> parts, ok |-> TRUE]
  BY DEF SumTo, k
<1>. QED
  BY <1>4, <1>5 DEF PartOf

LEMMA SumNext ==
  ASSUME SchedulesAgree, plan \in Plans, NEW w \in Gemms, NEW x \in SlicesOf(plan, w), NEW y \in SlicesOf(plan, w),
         Follows(w, y, x)
  PROVE  Plus(PartOf(w, y), SumTo(w, x)) = SumTo(w, y)
<1>. DEFINE k == Gemm(plan, w).k
            S == SlicesOf(plan, w)
            upTo(z) == {v \in 0 .. k - 1 : \E u \in S :
                          Together(w, u, z) /\ Idx(w, u) <= Idx(w, z) /\ Lo(w, u) <= v /\ v < Hi(w, u)}
            part == Lo(w, y) .. Hi(w, y) - 1
<1>1. /\ Idx(w, x) \in Nat /\ Idx(w, y) = Idx(w, x) + 1 /\ Together(w, x, y)
      /\ Lo(w, y) \in Nat /\ Hi(w, y) \in Nat /\ Hi(w, y) <= k /\ k \in Nat
  BY AllSlices DEF Follows
<1>2. \A u \in S : /\ Idx(w, u) \in Nat /\ Lo(w, u) \in Nat /\ Hi(w, u) \in Nat
                   /\ Together(w, u, x) <=> Together(w, u, y)
                   /\ Together(w, u, y) => (Idx(w, u) <= Idx(w, y) <=> u = y \/ Idx(w, u) <= Idx(w, x))
                   /\ Together(w, u, y) /\ Idx(w, u) <= Idx(w, x) => Hi(w, y) <= Lo(w, u)
  <2>. TAKE u \in S
  <2>1. Idx(w, u) \in Nat /\ Lo(w, u) \in Nat /\ Hi(w, u) \in Nat
    BY AllSlices
  <2>2. Together(w, u, x) <=> Together(w, u, y)
    BY <1>1 DEF Together, SameTile
  <2>3. Together(w, u, y) => (Idx(w, u) = Idx(w, y) => u = y) /\ (Idx(w, u) < Idx(w, y) => Hi(w, y) <= Lo(w, u))
    BY AllSlices
  <2>. QED
    BY <1>1, <2>1, <2>2, <2>3
<1>3. Together(w, y, y)
  BY DEF Together, SameTile
<1>. HIDE DEF S, k
<1>4. upTo(y) = part \cup upTo(x)
  <2>1. ASSUME NEW v \in upTo(y) PROVE v \in part \cup upTo(x)
    <3>1. PICK u \in S : Together(w, u, y) /\ Idx(w, u) <= Idx(w, y) /\ Lo(w, u) <= v /\ v < Hi(w, u)
      BY <2>1
    <3>2. CASE u = y
      BY <1>1, <2>1, <3>1, <3>2
    <3>3. CASE u # y
      BY <1>2, <2>1, <3>1, <3>3
    <3>. QED
      BY <3>2, <3>3
  <2>2. ASSUME NEW v \in part PROVE v \in upTo(y)
    <3>1. v \in 0 .. k - 1 /\ Lo(w, y) <= v /\ v < Hi(w, y)
      BY <1>1, <2>2
    <3>2. Idx(w, y) <= Idx(w, y) /\ y \in S
      BY <1>1 DEF S
    <3>. QED
      BY <1>3, <3>1, <3>2
  <2>3. ASSUME NEW v \in upTo(x) PROVE v \in upTo(y)
    <3>1. PICK u \in S : Together(w, u, x) /\ Idx(w, u) <= Idx(w, x) /\ Lo(w, u) <= v /\ v < Hi(w, u)
      BY <2>3
    <3>2. Together(w, u, y) /\ Idx(w, u) <= Idx(w, y)
      BY <1>2, <3>1
    <3>. QED
      BY <2>3, <3>1, <3>2
  <2>. QED
    BY <2>1, <2>2, <2>3
<1>5. part \cap upTo(x) = {}
  <2>1. SUFFICES ASSUME NEW v \in part, v \in upTo(x) PROVE FALSE
    OBVIOUS
  <2>2. PICK u \in S : Together(w, u, x) /\ Idx(w, u) <= Idx(w, x) /\ Lo(w, u) <= v
    BY <2>1
  <2>3. Hi(w, y) <= Lo(w, u) /\ Lo(w, u) \in Nat
    BY <1>2, <2>2
  <2>. QED
    BY <1>1, <2>1, <2>2, <2>3
<1>6. SumTo(w, x) = [parts |-> upTo(x), ok |-> TRUE] /\ SumTo(w, y) = [parts |-> upTo(y), ok |-> TRUE]
  BY DEF SumTo, k, S
<1>7. PartOf(w, y) = [parts |-> part, ok |-> TRUE]
  BY DEF PartOf
<1>. HIDE DEF upTo, part
<1>8. \A a, b : a \cap b = {} =>
        Plus([parts |-> a, ok |-> TRUE], [parts |-> b, ok |-> TRUE]) = [parts |-> a \cup b, ok |-> TRUE]
  BY DEF Plus
<1>. QED
  BY <1>4, <1>5, <1>6, <1>7, <1>8

LEMMA SumLast ==
  ASSUME SchedulesAgree, plan \in Plans, NEW w \in Gemms, NEW x \in SlicesOf(plan, w), IsLast(It(plan, w, x))
  PROVE  SumTo(w, x) = [parts |-> 0 .. Gemm(plan, w).k - 1, ok |-> TRUE]
<1>. DEFINE k == Gemm(plan, w).k
            S == SlicesOf(plan, w)
            parts == {v \in 0 .. k - 1 : \E u \in S :
                          Together(w, u, x) /\ Idx(w, u) <= Idx(w, x) /\ Lo(w, u) <= v /\ v < Hi(w, u)}
<1>1. \A u \in S : Together(w, u, x) => Idx(w, u) <= Idx(w, x)
  <2>. TAKE u \in S
  <2>1. Idx(w, x) = Count(w, x) - 1
    BY DEF IsLast, Idx, Count
  <2>2. /\ Idx(w, u) \in Nat /\ Count(w, u) \in Nat /\ Idx(w, u) < Count(w, u)
        /\ Together(w, u, x) => Count(w, u) = Count(w, x)
    BY AllSlices
  <2>. QED
    BY <2>1, <2>2
<1>2. \A v \in 0 .. k - 1 : \E u \in S : Together(w, u, x) /\ Lo(w, u) <= v /\ v < Hi(w, u)
  BY AllSlices
<1>3. SumTo(w, x) = [parts |-> parts, ok |-> TRUE]
  BY DEF SumTo
<1>. HIDE DEF S, k
<1>4. parts = 0 .. k - 1
  BY <1>1, <1>2
<1>. QED
  BY <1>3, <1>4 DEF k

-----------------------------------------------------------------------------
(* The cells of the strided stages, and the tiles that are stored. *)

\* The CTA whose share of a strided stage a cell is.
Owner(p, i) == i % GridX(p)

LEMMA OwnerOf ==
  ASSUME NEW p \in Plans, GridX(p) # 0, NEW i \in Nat
  PROVE  Owner(p, i) \in 0 .. GridX(p) - 1
BY GridIsNat DEF Owner

LEMMA ShareOf ==
  ASSUME NEW p, NEW c, NEW cell
  PROVE  /\ cell \in Share(p, "rotate", c) <=>
              \E i \in Units(p) : cell = <<"a", i>> /\ Owner(p, i) = c /\ BlockOf(p, "rotate", i) \notin p.dead
         /\ cell \in Share(p, "activate", c) <=>
              \E i \in Units(p) : /\ cell = <<"activated", i>> /\ Owner(p, i) = c
                                  /\ p.rotated => BlockOf(p, "activate", i) \notin p.dead
         /\ cell \in Share(p, "prezero", c) <=>
              \E i \in OutCells(p) : cell = <<"output", i>> /\ Owner(p, i) = c
         /\ cell \in Share(p, "zero", c) <=>
              \E i \in Tiles(p, "fc2") : cell = <<"cache13", i>> /\ Owner(p, i) = c
<1>. DEFINE Mine(tag, n) == {tag} \X {i \in 0 .. n - 1 : i % GridX(p) = c}
<1>1. \A tag, n : cell \in Mine(tag, n) <=> \E i \in 0 .. n - 1 : cell = <<tag, i>> /\ Owner(p, i) = c
  BY DEF Owner
<1>2. /\ Share(p, "rotate", c) =
           {x \in Mine("a", p.blocks * p.units) : BlockOf(p, "rotate", x[2]) \notin p.dead}
      /\ Share(p, "activate", c) =
           IF p.rotated
           THEN {x \in Mine("activated", p.blocks * p.units) : BlockOf(p, "activate", x[2]) \notin p.dead}
           ELSE Mine("activated", p.blocks * p.units)
      /\ Share(p, "prezero", c) = Mine("output", Ceil(p.blocks, p.topk) * p.n2)
      /\ Share(p, "zero", c) = Mine("cache13", p.blocks * p.n2)
  BY DEF Share
<1>3. /\ Units(p) = 0 .. p.blocks * p.units - 1 /\ OutCells(p) = 0 .. Ceil(p.blocks, p.topk) * p.n2 - 1
      /\ Tiles(p, "fc2") = 0 .. p.blocks * p.n2 - 1
  BY DEF Units, OutCells, Tiles, Gemm
<1>. HIDE DEF Mine
<1>4. cell \in Share(p, "rotate", c) <=>
        \E i \in Units(p) : cell = <<"a", i>> /\ Owner(p, i) = c /\ BlockOf(p, "rotate", i) \notin p.dead
  BY <1>1, <1>2, <1>3
<1>5. cell \in Share(p, "activate", c) <=>
        \E i \in Units(p) : /\ cell = <<"activated", i>> /\ Owner(p, i) = c
                            /\ p.rotated => BlockOf(p, "activate", i) \notin p.dead
  <2>1. CASE p.rotated
    BY <1>1, <1>2, <1>3, <2>1
  <2>2. CASE ~p.rotated
    BY <1>1, <1>2, <1>3, <2>2
  <2>. QED
    BY <2>1, <2>2
<1>6. cell \in Share(p, "prezero", c) <=> \E i \in OutCells(p) : cell = <<"output", i>> /\ Owner(p, i) = c
  BY <1>1, <1>2, <1>3
<1>7. cell \in Share(p, "zero", c) <=> \E i \in Tiles(p, "fc2") : cell = <<"cache13", i>> /\ Owner(p, i) = c
  BY <1>1, <1>2, <1>3
<1>. QED
  BY <1>4, <1>5, <1>6, <1>7

\* The cells of a launch are where it writes.
LEMMA CellsOf ==
  ASSUME NEW p
  PROVE  /\ \A i \in Units(p) : <<"a", i>> \in Cells(p) /\ <<"activated", i>> \in Cells(p)
         /\ \A t \in Tiles(p, "fc1") : <<"cache13", t>> \in Cells(p) /\ <<"activated", t>> \in Cells(p)
         /\ \A t \in Tiles(p, "fc2") : <<"cache13", t>> \in Cells(p)
         /\ \A i \in OutCells(p) : <<"output", i>> \in Cells(p)
BY DEF Cells

LEMMA NumbersOfStage ==
  ASSUME NEW p \in Plans
  PROVE  /\ Units(p) \subseteq Nat /\ OutCells(p) \subseteq Nat
         /\ \A w \in Gemms : Tiles(p, w) \subseteq Nat
BY DEF Units, OutCells, Tiles

\* The tile of an output is one of its cells.
LEMMA SummedCell ==
  ASSUME NEW p \in Plans, NEW t \in Tiles(p, "fc2")
  PROVE  ((t \div p.n2) \div p.topk) * p.n2 + (t % p.n2) \in OutCells(p)
<1>1. p.n2 \in Nat \ {0} /\ p.topk \in Nat \ {0} /\ p.blocks \in Nat \ {0}
  BY NumbersOfPlan
<1>. DEFINE n == p.n2
            b == t \div n
            q == b \div p.topk
            m == Ceil(p.blocks, p.topk)
<1>2. t \in Nat /\ t < p.blocks * n /\ p.blocks * n \in Nat
  BY <1>1 DEF Tiles, Gemm
<1>3. b \in Int /\ n * b \in Int /\ n * b <= t /\ t < n * b + n /\ t % n = t - n * b
  <2>1. \A x \in Int, y \in Nat \ {0} :
          /\ x \div y \in Int
          /\ y * (x \div y) \in Int /\ y * (x \div y) <= x /\ x < y * (x \div y) + y
          /\ x % y = x - y * (x \div y)
    BY QuotientIsPlace
  <2>2. t \in Int /\ n \in Nat \ {0}
    BY <1>1, <1>2
  <2>. HIDE DEF n
  <2>. QED
    BY <2>1, <2>2, Zenon DEF b
<1>. HIDE DEF b
<1>4. b < p.blocks /\ b >= 0
  <2>1. n * b < n * p.blocks
    <3>1. n * p.blocks = p.blocks * n
      BY <1>1
    <3>. QED
      BY <1>2, <1>3, <3>1
  <2>2. n * (0 - 1) < n * b
    <3>1. n * b > 0 - n
      BY <1>1, <1>2, <1>3
    <3>2. n * (0 - 1) = 0 - n
      BY <1>1
    <3>. QED
      BY <3>1, <3>2
  <2>3. b < p.blocks
    BY <1>1, <1>3, <2>1, ProductOrder
  <2>4. 0 - 1 < b
    <3>1. 0 - 1 \in Int
      OBVIOUS
    <3>2. \A x \in Nat \ {0}, y, z \in Int : x * y < x * z <=> y < z
      BY ProductOrder
    <3>. HIDE DEF n
    <3>. QED
      BY <1>1, <1>3, <2>2, <3>1, <3>2, Zenon DEF n
  <2>. QED
    BY <1>3, <2>3, <2>4
<1>5. q \in Int /\ p.topk * q \in Int /\ p.topk * q <= b /\ b < p.topk * q + p.topk
  BY <1>1, <1>3, QuotientIsPlace
<1>. HIDE DEF q
<1>6. m \in Int /\ p.topk * m \in Int /\ p.topk * m >= p.blocks
  <2>1. p.blocks \in Int
    BY <1>1
  <2>. QED
    BY <1>1, <2>1, CeilIsPlace
<1>. HIDE DEF m
<1>7. q < m
  <2>1. p.topk * q < p.topk * m
    BY <1>1, <1>3, <1>4, <1>5, <1>6
  <2>. QED
    BY <1>1, <1>5, <1>6, <2>1, ProductOrder
<1>8. q >= 0
  <2>1. p.topk * (0 - 1) < p.topk * q
    <3>1. p.topk * (0 - 1) = 0 - p.topk
      BY <1>1
    <3>. QED
      BY <1>1, <1>3, <1>4, <1>5, <3>1
  <2>2. \A x \in Nat \ {0}, y, z \in Int : x * y < x * z <=> y < z
    BY ProductOrder
  <2>3. 0 - 1 \in Int
    OBVIOUS
  <2>4. 0 - 1 < q
    BY <1>1, <1>5, <2>1, <2>2, <2>3, Zenon
  <2>. QED
    BY <1>5, <2>4
<1>9. q * n + n <= m * n /\ q * n \in Nat /\ m * n \in Nat
  <2>1. n * (q + 1) <= n * m
    <3>1. q + 1 \in Int /\ q + 1 <= m
      BY <1>5, <1>6, <1>7
    <3>2. \A x \in Nat \ {0}, y, z \in Int : x * y <= x * z <=> y <= z
      BY ProductOrder
    <3>. HIDE DEF n
    <3>. QED
      BY <1>1, <1>6, <3>1, <3>2, Zenon DEF n
  <2>2. n * (q + 1) = q * n + n /\ n * m = m * n
    BY <1>1, <1>5, <1>6
  <2>3. q * n \in Nat /\ m * n \in Nat
    BY <1>1, <1>5, <1>6, <1>7, <1>8
  <2>. QED
    BY <2>1, <2>2, <2>3
<1>10. q * n + (t % n) \in 0 .. m * n - 1
  <2>. DEFINE r == t % n
              qn == q * n
              mn == m * n
              nb == n * b
  <2>1. r = t - nb /\ nb \in Int /\ nb <= t /\ t < nb + n
    BY <1>3
  <2>2. qn + n <= mn /\ qn \in Nat /\ mn \in Nat
    BY <1>9
  <2>. HIDE DEF r, qn, mn, nb, n
  <2>3. n \in Nat
    BY <1>1 DEF n
  <2>4. r \in 0 .. n - 1
    BY <1>2, <2>1, <2>3
  <2>5. qn + r \in 0 .. mn - 1
    BY <2>2, <2>3, <2>4
  <2>. QED
    BY <2>5 DEF r, qn, mn
<1>. QED
  BY <1>10 DEF OutCells, m, n, q, b

\* What is done of a tile that is here is whole.
LEMMA DoneIsStored ==
  ASSUME SchedulesAgree, StageInv, BarrierInv, launched > 0, NEW w \in Gemms, \A d \in Grid : Strode(d, w),
         NEW t, IsHere(plan, w, t)
  PROVE  IsStored(w, t) /\ GridX(plan) # 0
<1>1. plan \in Plans
  BY DEF BarrierInv, BarrierType
<1>2. Consistent(plan, w)
  BY <1>1 DEF SchedulesAgree
<1>3. 0 \in 0 .. Gemm(plan, w).k - 1
  BY <1>1, NumbersOfGemm
<1>4. PICK x \in SlicesOf(plan, w) : It(plan, w, x).tile = t
  BY <1>1, <1>2, <1>3, ConsistentSlices
<1>5. PICK y \in SlicesOf(plan, w) : Together(w, y, x) /\ Idx(w, y) = Count(w, y) - 1
  BY <1>1, AllSlices
<1>6. y[1] \in Grid
  BY DEF SlicesOf, Grid
<1>7. IsDone(w, y)
  BY <1>6, StrodeIsDone
<1>8. GridX(plan) # 0
  BY <1>1, <1>6, GridIsNat DEF Grid
<1>. QED
  BY <1>4, <1>5, <1>7, <1>8 DEF IsStored, Together, SameTile, IsLast, Idx, Count

\* What is stored is a tile that is here.
LEMMA StoredIsHere ==
  ASSUME SchedulesAgree, plan \in Plans, NEW w \in Gemms, NEW t, IsStored(w, t)
  PROVE  IsHere(plan, w, t) /\ t \in Tiles(plan, w)
<1>1. PICK x \in SlicesOf(plan, w) : It(plan, w, x).tile = t
  BY DEF IsStored
<1>. QED
  BY <1>1, AllSlices DEF IsHere

-----------------------------------------------------------------------------
(* What a stage reads is whole. *)

\* What the stages read, and what it must hold.
LEMMA InputsOf ==
  ASSUME NEW p, NEW w, NEW i, NEW cell \in Inputs(p, w, i)
  PROVE  \/ /\ w = "fc1" /\ p.rotated
            /\ \E j \in Units(p) : cell = <<"a", j>> /\ BlockOf(p, "rotate", j) = BlockOf(p, w, i)
         \/ /\ w = "activate"
            /\ \E t \in Tiles(p, "fc1") : cell = <<"cache13", t>> /\ BlockOf(p, "fc1", t) = BlockOf(p, w, i)
         \/ /\ w = "fc2" /\ p.gated
            /\ \E j \in Units(p) : cell = <<"activated", j>> /\ BlockOf(p, "activate", j) = BlockOf(p, w, i)
         \/ /\ w = "fc2" /\ ~p.gated
            /\ \E t \in Tiles(p, "fc1") : cell = <<"activated", t>> /\ BlockOf(p, "fc1", t) = BlockOf(p, w, i)
<1>1. CASE w = "fc1" /\ p.rotated
  <2>1. Inputs(p, w, i) = {"a"} \X Of(p, "rotate", Units(p), BlockOf(p, w, i))
    BY <1>1 DEF Inputs
  <2>. QED
    BY <1>1, <2>1 DEF Of
<1>2. CASE w = "activate"
  <2>1. Inputs(p, w, i) = {"cache13"} \X Of(p, "fc1", Tiles(p, "fc1"), BlockOf(p, w, i))
    BY <1>2 DEF Inputs
  <2>. QED
    BY <1>2, <2>1 DEF Of
<1>3. CASE w = "fc2" /\ p.gated
  <2>1. Inputs(p, w, i) = {"activated"} \X Of(p, "activate", Units(p), BlockOf(p, w, i))
    BY <1>3 DEF Inputs
  <2>. QED
    BY <1>3, <2>1 DEF Of
<1>4. CASE w = "fc2" /\ ~p.gated
  <2>1. Inputs(p, w, i) = {"activated"} \X Of(p, "fc1", Tiles(p, "fc1"), BlockOf(p, w, i))
    BY <1>4 DEF Inputs
  <2>. QED
    BY <1>4, <2>1 DEF Of
<1>5. CASE ~(w = "fc1" /\ p.rotated) /\ w # "activate" /\ w # "fc2"
  <2>1. Inputs(p, w, i) = {}
    BY <1>5 DEF Inputs
  <2>. QED
    BY <2>1
<1>. QED
  BY <1>1, <1>2, <1>3, <1>4, <1>5

LEMMA WantedOf ==
  ASSUME NEW p, NEW j
  PROVE  /\ Wanted(p, <<"a", j>>) = {<<"rotate", j>>}
         /\ Wanted(p, <<"cache13", j>>) = {<<"fc1", j>>}
         /\ p.gated => Wanted(p, <<"activated", j>>) = {<<"activate", j>>}
         /\ ~p.gated => Wanted(p, <<"activated", j>>) = {<<"fc1", j>>}
BY DEF Wanted

\* A stage finds what it reads as those before it made it.
LEMMA InputsMade ==
  ASSUME SchedulesAgree, StageInv, BarrierInv, launched > 0, MemInv, NEW c \in Grid, at[c] \in Working,
         NEW i, BlockOf(plan, Work(c), i) \notin plan.dead
  PROVE  \A cell \in Inputs(plan, Work(c), i) : mem[cell] = Wanted(plan, cell)
<1>. SUFFICES ASSUME NEW cell \in Inputs(plan, Work(c), i) PROVE mem[cell] = Wanted(plan, cell)
  OBVIOUS
<1>. DEFINE b == BlockOf(plan, Work(c), i)
<1>1. plan \in Plans /\ c \in CTAs /\ c \in 0 .. GridX(plan) - 1 /\ GridX(plan) # 0
  BY GridOfPlan DEF BarrierInv, BarrierType, Grid
<1>2. Work(c) \in Works /\ Has(plan, Work(c)) /\ seg[c] = SegOf(plan, Work(c))
  BY <1>1, ActiveCTA DEF Working
<1>3. \A w \in Works : Has(plan, w) /\ SegOf(plan, w) < seg[c] => \A d \in Grid : Strode(d, w)
  BY StagesApart
<1>4. \A d \in Grid : seg[d] <= seg[c]
  <2>1. Has(plan, "fc1") /\ "fc1" \in Works
    BY DEF Has, Works, Gemms
  <2>. QED
    BY <2>1, StagesApart
<1>5. \A j \in Nat : Owner(plan, j) \in Grid
  BY <1>1, OwnerOf DEF Grid
<1>. HIDE DEF b
<1>6. CASE /\ Work(c) = "fc1" /\ plan.rotated
           /\ \E j \in Units(plan) : cell = <<"a", j>> /\ BlockOf(plan, "rotate", j) = b
  <2>1. PICK j \in Units(plan) : cell = <<"a", j>> /\ BlockOf(plan, "rotate", j) = b
    BY <1>6
  <2>2. Has(plan, "rotate") /\ "rotate" \in Works /\ SegOf(plan, "rotate") < SegOf(plan, "fc1")
    BY <1>1, <1>6, StageOrder DEF Has, Works, Strided
  <2>3. Owner(plan, j) \in Grid /\ Strode(Owner(plan, j), "rotate")
    BY <1>1, <1>2, <1>3, <1>5, <1>6, <2>2, NumbersOfStage
  <2>4. cell \in Share(plan, "rotate", Owner(plan, j))
    BY <2>1, ShareOf DEF b
  <2>5. mem[cell] = {<<"rotate", cell[2]>>}
    BY <1>6, <2>3, <2>4 DEF MemInv, Rotated
  <2>. QED
    BY <2>1, <2>5, WantedOf
<1>7. CASE /\ Work(c) = "activate"
           /\ \E t \in Tiles(plan, "fc1") : cell = <<"cache13", t>> /\ BlockOf(plan, "fc1", t) = b
  <2>1. PICK t \in Tiles(plan, "fc1") : cell = <<"cache13", t>> /\ BlockOf(plan, "fc1", t) = b
    BY <1>7
  <2>2. plan.gated
    BY <1>2, <1>7 DEF Has
  <2>3. Has(plan, "fc1") /\ "fc1" \in Works /\ "fc1" \in Gemms /\ SegOf(plan, "fc1") < SegOf(plan, "activate")
    BY <1>1, <2>2, StageOrder DEF Has, Works, Gemms
  <2>4. \A d \in Grid : Strode(d, "fc1")
    BY <1>2, <1>3, <1>7, <2>3
  <2>5. IsHere(plan, "fc1", t)
    BY <2>1 DEF IsHere, b
  <2>6. IsStored("fc1", t)
    BY <2>3, <2>4, <2>5, DoneIsStored
  <2>7. mem[Target(plan, "fc1", t)] = {<<"fc1", t>>}
    BY <1>2, <1>4, <1>7, <2>6 DEF MemInv, Fc1Stored
  <2>8. Target(plan, "fc1", t) = cell
    BY <2>1, <2>2 DEF Target
  <2>. QED
    BY <2>1, <2>7, <2>8, WantedOf
<1>8. CASE /\ Work(c) = "fc2" /\ plan.gated
           /\ \E j \in Units(plan) : cell = <<"activated", j>> /\ BlockOf(plan, "activate", j) = b
  <2>1. PICK j \in Units(plan) : cell = <<"activated", j>> /\ BlockOf(plan, "activate", j) = b
    BY <1>8
  <2>2. Has(plan, "activate") /\ "activate" \in Works /\ SegOf(plan, "activate") < SegOf(plan, "fc2")
    BY <1>1, <1>8, StageOrder DEF Has, Works, Strided
  <2>3. Owner(plan, j) \in Grid /\ Strode(Owner(plan, j), "activate")
    BY <1>1, <1>2, <1>3, <1>5, <1>8, <2>2, NumbersOfStage
  <2>4. cell \in Share(plan, "activate", Owner(plan, j))
    BY <2>1, ShareOf DEF b
  <2>5. AliveCell("activate", cell)
    BY <2>1 DEF AliveCell, b
  <2>6. mem[cell] = {<<"activate", cell[2]>>}
    BY <1>8, <2>3, <2>4, <2>5 DEF MemInv, Activated
  <2>. QED
    BY <1>8, <2>1, <2>6, WantedOf
<1>9. CASE /\ Work(c) = "fc2" /\ ~plan.gated
           /\ \E t \in Tiles(plan, "fc1") : cell = <<"activated", t>> /\ BlockOf(plan, "fc1", t) = b
  <2>1. PICK t \in Tiles(plan, "fc1") : cell = <<"activated", t>> /\ BlockOf(plan, "fc1", t) = b
    BY <1>9
  <2>3. Has(plan, "fc1") /\ "fc1" \in Works /\ "fc1" \in Gemms /\ SegOf(plan, "fc1") < SegOf(plan, "fc2")
    BY <1>1, StageOrder DEF Has, Works, Gemms
  <2>4. \A d \in Grid : Strode(d, "fc1")
    BY <1>2, <1>3, <1>9, <2>3
  <2>5. IsHere(plan, "fc1", t)
    BY <2>1 DEF IsHere, b
  <2>6. IsStored("fc1", t)
    BY <2>3, <2>4, <2>5, DoneIsStored
  <2>7. mem[Target(plan, "fc1", t)] = {<<"fc1", t>>}
    BY <1>9, <2>6 DEF MemInv, Fc1Stored
  <2>8. Target(plan, "fc1", t) = cell
    BY <1>9, <2>1 DEF Target
  <2>9. Wanted(plan, cell) = {<<"fc1", t>>}
    BY <1>9, <2>1, WantedOf
  <2>. QED
    BY <2>7, <2>8, <2>9
<1>. QED
  <2>1. cell \in Inputs(plan, Work(c), i)
    OBVIOUS
  <2>. QED
    BY <2>1, <1>6, <1>7, <1>8, <1>9, InputsOf DEF b

\* With stores in order, units and tiles of blocks that are here have whole inputs.
LEMMA InputsWhole ==
  ASSUME InOrder, SchedulesAgree, StageInv, BarrierInv, launched > 0, MemInv, NEW c \in Grid, at[c] \in Working,
         NEW i, BlockOf(plan, Work(c), i) \notin plan.dead, NEW view \in Views
  PROVE  Whole(c, Work(c), i, view) /\ view = TRUE /\ \A cell : Sees(c, cell, view)
<1>1. view = TRUE
  BY DEF Views
<1>2. \A cell \in Inputs(plan, Work(c), i) : mem[cell] = Wanted(plan, cell)
  BY InputsMade
<1>3. \A cell : Sees(c, cell, view)
  BY <1>1 DEF Sees
<1>. QED
  BY <1>1, <1>2, <1>3 DEF Whole

-----------------------------------------------------------------------------
(* The sums are as they should be. *)

LEMMA SumsStay ==
  ASSUME plan' = plan
  PROVE  \A w, x : SumTo(w, x)' = SumTo(w, x) /\ PartOf(w, x)' = PartOf(w, x)
BY DEF SumTo, PartOf, SlicesOf, Together, SameTile, Idx, Lo, Hi, It

\* Steps that leave the sums of the slices alone.
SameSums ==
  \A w \in Gemms : \A x \in SlicesOf(plan, w), a \in AtPiece :
    IsAt(w, x, a)' => IsAt(w, x, a) /\ acc'[x[1]] = acc[x[1]]

LEMMA SameScratchKept ==
  ASSUME ScratchIsSum, SameTurns, plan' = plan, ctmp' = ctmp
  PROVE  ScratchIsSum'
<1>1. /\ \A w : Shared(w)' = Shared(w)
      /\ \A w, x, y : Follows(w, y, x)' <=> Follows(w, y, x)
      /\ \A w, x : Slot(w, x)' = Slot(w, x)
  BY SlicesStay
<1>2. \A w, x : SumTo(w, x)' = SumTo(w, x)
  BY SumsStay
<1>. SUFFICES ASSUME NEW w \in Gemms, NEW x \in Shared(w)', NEW y \in Shared(w)',
                     Follows(w, y, x)', IsTaken(w, x)', ~IsTaken(w, y)'
             PROVE  ctmp'[<<w, Slot(w, x)'>>] = SumTo(w, x)'
  BY DEF ScratchIsSum
<1>3. x \in Shared(w) /\ y \in Shared(w) /\ Follows(w, y, x)
  BY <1>1
<1>4. IsTaken(w, x) /\ ~IsTaken(w, y)
  BY <1>3 DEF SameTurns
<1>5. ctmp[<<w, Slot(w, x)>>] = SumTo(w, x)
  BY <1>3, <1>4 DEF ScratchIsSum
<1>. QED
  BY <1>1, <1>2, <1>5

LEMMA SameSumsKept ==
  ASSUME AccIsSum, SameSums, plan' = plan
  PROVE  AccIsSum'
<1>1. \A w, x : SumTo(w, x)' = SumTo(w, x) /\ PartOf(w, x)' = PartOf(w, x)
  BY SumsStay
<1>2. \A w : SlicesOf(plan, w)' = SlicesOf(plan, w)
  BY DEF SlicesOf
<1>. SUFFICES ASSUME NEW w \in Gemms, NEW x \in SlicesOf(plan, w)
             PROVE  /\ IsAt(w, x, "turn")' => acc'[x[1]] = PartOf(w, x)'
                    /\ IsAt(w, x, "publish")' \/ IsAt(w, x, "store")' => acc'[x[1]] = SumTo(w, x)'
  BY <1>2 DEF AccIsSum
<1>3. \A a \in AtPiece : IsAt(w, x, a)' => IsAt(w, x, a) /\ acc'[x[1]] = acc[x[1]]
  BY DEF SameSums
<1>4. \A a \in {"turn", "publish", "store"} : IsAt(w, x, a)' => IsAt(w, x, a) /\ acc'[x[1]] = acc[x[1]]
  BY <1>3 DEF AtPiece
<1>5. /\ IsAt(w, x, "turn") => acc[x[1]] = PartOf(w, x)
      /\ IsAt(w, x, "publish") \/ IsAt(w, x, "store") => acc[x[1]] = SumTo(w, x)
  BY DEF AccIsSum
<1>. QED
  BY <1>1, <1>4, <1>5

\* The steps of the strided stages and of the barrier, and the store of a tile.
LEMMA OthersKeepSums ==
  ASSUME SchedulesAgree, StageInv, BarrierInv, WordsInv, SumInv, NEW c \in CTAs,
         \/ Stride(c) \/ StoreTile(c) \/ NextStage(c)
         \/ LoadSense(c) \/ Arrive(c) \/ ResetCount(c) \/ ReleaseSense(c) \/ Pass(c)
  PROVE  SumInv'
<1>1. SameTurns /\ plan' = plan /\ ctmp' = ctmp
  BY OthersKeepTurns
<1>2. ScratchIsSum'
  BY <1>1, SameScratchKept DEF SumInv
<1>3. at[c] # "out"
  BY DEF Stride, StoreTile, NextStage, LoadSense, Arrive, ResetCount, ReleaseSense, Pass
<1>4. c \in Grid /\ launched > 0
  BY <1>3, ActiveCTA
<1>0. \A w \in Gemms : \A x \in SlicesOf(plan, w) : x[1] \in CTAs
  BY GridOfPlan DEF BarrierInv, BarrierType, SlicesOf, Grid
<1>5. SameSums
  <2>1. CASE Stride(c)
    <3>1. acc' = acc
      BY <2>1 DEF Stride
    <3>. QED
      BY <2>1, <3>1, StrideStrodes DEF SameSums
  <2>2. CASE StoreTile(c)
    <3>1. \A d \in CTAs : d # c => acc'[d] = acc[d]
      <4>1. acc' = [acc EXCEPT ![c] = NoSum]
        BY <2>2 DEF StoreTile
      <4>. QED
        BY <4>1 DEF WordsInv
    <3>2. Advances(c)
      BY <2>2, StepAdvances
    <3>3. \A w \in Gemms : \A x \in SlicesOf(plan, w) :
            \A a \in AtPiece : IsAt(w, x, a)' <=> IsAt(w, x, a) /\ x[1] # c
      BY <3>2, AdvancesOne
    <3>. QED
      BY <1>0, <3>1, <3>3 DEF SameSums
  <2>3. CASE NextStage(c) \/ ReleaseSense(c) \/ Pass(c)
    <3>1. acc' = acc
      BY <2>3 DEF NextStage, ReleaseSense, Pass
    <3>2. Comes(c)
      BY <2>3, StageComes
    <3>. QED
      BY <1>4, <3>1, <3>2, ComesAlong DEF SameSums
  <2>4. CASE LoadSense(c) \/ Arrive(c) \/ ResetCount(c)
    <3>1. acc' = acc
      BY <2>4 DEF LoadSense, Arrive, ResetCount
    <3>2. Stays(c) /\ at'[c] \notin AtPiece
      BY <2>4 DEF LoadSense, Arrive, ResetCount, Go, Stays, AtPiece, BarrierInv, BarrierType
    <3>3. \A w \in Gemms : \A x \in SlicesOf(plan, w), a \in AtPiece :
            IsAt(w, x, a)' <=> IF x[1] = c THEN IsAt(w, x, at[c]) /\ at'[c] = a ELSE IsAt(w, x, a)
      BY <3>2, StaysPut
    <3>. QED
      BY <3>1, <3>2, <3>3 DEF SameSums
  <2>. QED
    BY <2>1, <2>2, <2>3, <2>4
<1>6. AccIsSum'
  BY <1>1, <1>5, SameSumsKept DEF SumInv
<1>. QED
  BY <1>2, <1>6 DEF SumInv

\* Which K tiles a piece multiplies: all, as LoopMultiplies says below.
KLoopMultiplies == \A p \in Plans, w \in Gemms : \A n \in 0 .. Gemm(p, w).k : Multiplied(n) = 0 .. n - 1

LEMMA InKLoopIs ==
  ASSUME KLoopMultiplies, NEW p \in Plans, NEW w \in Gemms, NEW n \in 0 .. Gemm(p, w).k
  PROVE  InKLoop(n) = 0 .. n - 1
<1>1. KTiles = {<<m, Multiplied(m)>> : m \in UNION {0 .. Gemm(q, v).k : q \in Plans, v \in Gemms}}
  BY DEF KTiles, Gemms
<1>2. <<n, Multiplied(n)>> \in KTiles
  <2>1. 0 .. Gemm(p, w).k \in {0 .. Gemm(q, v).k : q \in Plans, v \in Gemms}
    OBVIOUS
  <2>2. n \in UNION {0 .. Gemm(q, v).k : q \in Plans, v \in Gemms}
    <3>. DEFINE all == {0 .. Gemm(q, v).k : q \in Plans, v \in Gemms}
    <3>1. 0 .. Gemm(p, w).k \in all
      BY <2>1
    <3>2. n \in 0 .. Gemm(p, w).k
      OBVIOUS
    <3>. HIDE DEF all
    <3>3. n \in UNION all
      BY <3>1, <3>2
    <3>. QED
      BY <3>3 DEF all
  <2>. QED
    BY <1>1, <2>2
<1>3. \A x \in KTiles : x[1] = n => x = <<n, Multiplied(n)>>
  BY <1>1
<1>4. (CHOOSE x \in KTiles : x[1] = n) = <<n, Multiplied(n)>>
  BY <1>2, <1>3
<1>5. Multiplied(n) = 0 .. n - 1
  BY DEF KLoopMultiplies
<1>6. InKLoop(n) = <<n, Multiplied(n)>>[2]
  BY <1>4, Zenon DEF InKLoop
<1>. QED
  BY <1>5, <1>6

\* What a CTA is to compute is its part of a tile.
LEMMA MultiplyIsPart ==
  ASSUME InOrder, KLoopMultiplies, SchedulesAgree, StageInv, BarrierInv, MemInv, WordsInv, NEW c \in CTAs, Multiply(c)
  PROVE  LET w == Work(c) x == HeadOf(plan, w, c, todo[c]) IN
         /\ w \in Gemms /\ x \in SlicesOf(plan, w) /\ x[1] = c /\ It(plan, w, x) = Piece(c)
         /\ acc' = [acc EXCEPT ![c] = PartOf(w, x)]
         /\ at' = [at EXCEPT ![c] = IF Count(w, x) > 1 THEN "turn" ELSE "store"]
         /\ IsAt(w, x, "work") /\ launched > 0 /\ c \in Grid /\ plan \in Plans
<1>. DEFINE w == Work(c)
            x == HeadOf(plan, w, c, todo[c])
<1>1. at[c] = "work" /\ w \notin Strided /\ todo[c] # <<>>
  BY DEF Multiply
<1>2. w \in Gemms /\ x \in SlicesOf(plan, w) /\ It(plan, w, x) = Piece(c) /\ x[1] = c
  BY <1>1, SliceAt
<1>3. IsAt(w, x, at[c]) /\ launched > 0 /\ c \in Grid /\ plan \in Plans
  BY <1>1, <1>2, PieceIsAt
<1>4. /\ Lo(w, x) \in Nat /\ Hi(w, x) \in Nat /\ Lo(w, x) < Hi(w, x) /\ Hi(w, x) <= Gemm(plan, w).k
      /\ Gemm(plan, w).k \in Nat
      /\ IsHere(plan, w, Piece(c).tile)
  BY <1>2, <1>3, AllSlices
<1>5. Piece(c).lo = Lo(w, x) /\ Piece(c).hi = Hi(w, x) /\ Piece(c).count = Count(w, x)
  BY <1>2 DEF Lo, Hi, Count
<1>6. PICK view \in Views :
        acc' = [acc EXCEPT ![c] = [parts |-> {Piece(c).lo + t : t \in InKLoop(Piece(c).hi - Piece(c).lo)},
                                   ok |-> Whole(c, w, Piece(c).tile, view)]]
  BY DEF Multiply
<1>7. Whole(c, w, Piece(c).tile, view) = TRUE
  <2>1. at[c] \in Working /\ BlockOf(plan, w, Piece(c).tile) \notin plan.dead
    BY <1>1, <1>4 DEF Working, IsHere
  <2>2. Whole(c, w, Piece(c).tile, view)
    BY <1>3, <2>1, InputsWhole
  <2>3. Whole(c, w, Piece(c).tile, view) \in BOOLEAN
    BY DEF Whole
  <2>. QED
    BY <2>2, <2>3
<1>. HIDE DEF w, x
<1>8. {Lo(w, x) + t : t \in InKLoop(Hi(w, x) - Lo(w, x))} = Lo(w, x) .. Hi(w, x) - 1
  <2>. DEFINE lo == Lo(w, x)
              hi == Hi(w, x)
  <2>1. hi - lo \in 0 .. Gemm(plan, w).k
    BY <1>4
  <2>2. InKLoop(hi - lo) = 0 .. (hi - lo) - 1
    BY <1>2, <1>3, <2>1, InKLoopIs
  <2>3. lo \in Nat /\ hi \in Nat /\ lo < hi
    BY <1>4
  <2>. HIDE DEF lo, hi
  <2>4. {lo + t : t \in 0 .. (hi - lo) - 1} = lo .. hi - 1
    <3>1. \A v \in lo .. hi - 1 : v - lo \in 0 .. (hi - lo) - 1 /\ v = lo + (v - lo)
      BY <2>3
    <3>2. \A t \in 0 .. (hi - lo) - 1 : lo + t \in lo .. hi - 1
      BY <2>3
    <3>. QED
      BY <3>1, <3>2
  <2>5. {lo + t : t \in InKLoop(hi - lo)} = lo .. hi - 1
    BY <2>2, <2>4
  <2>. QED
    BY <2>5 DEF lo, hi
<1>9. acc' = [acc EXCEPT ![c] = PartOf(w, x)]
  BY <1>5, <1>6, <1>7, <1>8 DEF PartOf
<1>10. at' = [at EXCEPT ![c] = IF Count(w, x) > 1 THEN "turn" ELSE "store"]
  BY <1>5 DEF Multiply, Go
<1>. QED
  BY <1>1, <1>2, <1>3, <1>9, <1>10 DEF w, x

\* One slice at one of its places, with its sum, and no other changed.
LEMMA OneSum ==
  ASSUME AccIsSum, SchedulesAgree, StageInv, BarrierInv, WordsInv, launched > 0, NEW c \in CTAs, plan' = plan,
         NEW w0 \in Gemms, NEW x0 \in SlicesOf(plan, w0), x0[1] = c,
         \A w \in Gemms : \A x \in SlicesOf(plan, w), a \in AtPiece :
           IsAt(w, x, a)' => IF x[1] = c THEN w = w0 /\ x = x0 /\ a = at'[c] ELSE IsAt(w, x, a),
         \A d \in CTAs \ {c} : acc'[d] = acc[d],
         at'[c] = "turn" => acc'[c] = PartOf(w0, x0),
         at'[c] \in {"publish", "store"} => acc'[c] = SumTo(w0, x0)
  PROVE  AccIsSum'
<1>1. \A w, x : SumTo(w, x)' = SumTo(w, x) /\ PartOf(w, x)' = PartOf(w, x)
  BY SumsStay
<1>2. \A w : SlicesOf(plan, w)' = SlicesOf(plan, w)
  BY DEF SlicesOf
<1>3. \A w \in Gemms : \A x \in SlicesOf(plan, w) : x[1] \in CTAs
  BY GridOfPlan DEF BarrierInv, BarrierType, SlicesOf, Grid
<1>. SUFFICES ASSUME NEW w \in Gemms, NEW x \in SlicesOf(plan, w)
             PROVE  /\ IsAt(w, x, "turn")' => acc'[x[1]] = PartOf(w, x)
                    /\ IsAt(w, x, "publish")' \/ IsAt(w, x, "store")' => acc'[x[1]] = SumTo(w, x)
  BY <1>1, <1>2 DEF AccIsSum
<1>4. /\ IsAt(w, x, "turn") => acc[x[1]] = PartOf(w, x)
      /\ IsAt(w, x, "publish") \/ IsAt(w, x, "store") => acc[x[1]] = SumTo(w, x)
  BY DEF AccIsSum
<1>5. \A a \in {"turn", "publish", "store"} :
        IsAt(w, x, a)' => IF x[1] = c THEN w = w0 /\ x = x0 /\ a = at'[c] ELSE IsAt(w, x, a)
  BY DEF AtPiece
<1>6. CASE x[1] = c
  BY <1>5, <1>6
<1>7. CASE x[1] # c
  <2>1. acc'[x[1]] = acc[x[1]]
    BY <1>3, <1>7
  <2>. QED
    BY <1>4, <1>5, <1>7, <2>1
<1>. QED
  BY <1>6, <1>7

LEMMA PlaceIsHead ==
  ASSUME SchedulesAgree, StageInv, BarrierInv, launched > 0, NEW w \in Gemms, NEW x \in SlicesOf(plan, w), NEW a,
         IsAt(w, x, a)
  PROVE  w = Work(x[1]) /\ x = HeadOf(plan, w, x[1], todo[x[1]])
<1>1. plan \in Plans
  BY DEF BarrierInv, BarrierType
<1>2. x[1] \in Grid /\ x[1] \in CTAs /\ x = <<x[1], x[2]>> /\ x[2] \in Nat
  BY <1>1, GridOfPlan DEF SlicesOf, Grid
<1>3. w \in Works /\ Has(plan, w)
  BY GemmsWork DEF GemmsAreWorks
<1>4. w = Work(x[1])
  BY <1>2, <1>3, WithinIsWork DEF IsAt
<1>5. todo[x[1]] \in Seq(Split) /\ Pieces(plan, w, x[1]) \in Seq(Split)
  BY <1>1, <1>2, PiecesAreSplits DEF StageInv, Grid
<1>6. x[2] = Len(Pieces(plan, w, x[1])) - Len(todo[x[1]]) + 1
  <2>1. Len(todo[x[1]]) \in Nat /\ Len(Pieces(plan, w, x[1])) \in Nat
    BY <1>5
  <2>2. x[2] + Len(todo[x[1]]) = Len(Pieces(plan, w, x[1])) + 1
    BY DEF IsAt
  <2>3. \A i, n, m \in Nat : i + n = m + 1 => i = m - n + 1
    OBVIOUS
  <2>. QED
    BY <1>2, <2>1, <2>2, <2>3, Zenon
<1>. QED
  BY <1>2, <1>4, <1>6 DEF HeadOf

\* A CTA that stays at its slice goes from one place to another there.
LEMMA StaysAtOne ==
  ASSUME SchedulesAgree, StageInv, BarrierInv, launched > 0, NEW c \in CTAs, Stays(c), NEW w0, w0 = Work(c),
         NEW x0, x0 = HeadOf(plan, w0, c, todo[c])
  PROVE  \A w \in Gemms : \A x \in SlicesOf(plan, w), a \in AtPiece :
           IsAt(w, x, a)' => IF x[1] = c THEN w = w0 /\ x = x0 /\ a = at'[c] ELSE IsAt(w, x, a)
<1>. SUFFICES ASSUME NEW w \in Gemms, NEW x \in SlicesOf(plan, w), NEW a \in AtPiece, IsAt(w, x, a)'
             PROVE  IF x[1] = c THEN w = w0 /\ x = x0 /\ a = at'[c] ELSE IsAt(w, x, a)
  OBVIOUS
<1>1. IsAt(w, x, a)' <=> IF x[1] = c THEN IsAt(w, x, at[c]) /\ at'[c] = a ELSE IsAt(w, x, a)
  BY StaysPut
<1>2. CASE x[1] = c
  <2>1. IsAt(w, x, at[c])
    BY <1>1, <1>2
  <2>2. w = Work(x[1]) /\ x = HeadOf(plan, w, x[1], todo[x[1]])
    BY <2>1, PlaceIsHead
  <2>. QED
    BY <1>1, <1>2, <2>2
<1>3. CASE x[1] # c
  BY <1>1, <1>3
<1>. QED
  BY <1>2, <1>3

LEMMA MultiplySums ==
  ASSUME InOrder, KLoopMultiplies, SchedulesAgree, StageInv, BarrierInv, WordsInv, MemInv, SumInv,
         NEW c \in CTAs, Multiply(c)
  PROVE  SumInv'
<1>1. SameTurns /\ plan' = plan /\ ctmp' = ctmp
  BY OthersKeepTurns
<1>2. ScratchIsSum'
  BY <1>1, SameScratchKept DEF SumInv
<1>3. PICK w0 \in Gemms : w0 = Work(c)
  BY MultiplyIsPart
<1>4. PICK x0 \in SlicesOf(plan, w0) : x0 = HeadOf(plan, w0, c, todo[c])
  BY <1>3, MultiplyIsPart
<1>5. /\ x0[1] = c /\ launched > 0 /\ c \in Grid /\ plan \in Plans
      /\ acc' = [acc EXCEPT ![c] = PartOf(w0, x0)]
      /\ at' = [at EXCEPT ![c] = IF Count(w0, x0) > 1 THEN "turn" ELSE "store"]
  BY <1>3, <1>4, MultiplyIsPart
<1>6. Stays(c)
  BY <1>5 DEF Stays, Multiply, BarrierInv, BarrierType
<1>7. \A w \in Gemms : \A x \in SlicesOf(plan, w), a \in AtPiece :
        IsAt(w, x, a)' => IF x[1] = c THEN w = w0 /\ x = x0 /\ a = at'[c] ELSE IsAt(w, x, a)
  BY <1>3, <1>4, <1>5, <1>6, StaysAtOne
<1>8. at'[c] = (IF Count(w0, x0) > 1 THEN "turn" ELSE "store") /\ acc'[c] = PartOf(w0, x0)
      /\ \A d \in CTAs \ {c} : acc'[d] = acc[d]
  BY <1>5 DEF WordsInv, BarrierInv, BarrierType
<1>9. at'[c] \in {"publish", "store"} => acc'[c] = SumTo(w0, x0)
  <2>. SUFFICES ASSUME ~(Count(w0, x0) > 1) PROVE SumTo(w0, x0) = PartOf(w0, x0)
    BY <1>8
  <2>1. Idx(w0, x0) \in Nat /\ Count(w0, x0) \in Nat /\ Idx(w0, x0) < Count(w0, x0)
    BY <1>5, AllSlices
  <2>2. Idx(w0, x0) = 0
    BY <2>1
  <2>. QED
    BY <1>5, <2>2, SumOne
<1>10. at'[c] = "turn" => acc'[c] = PartOf(w0, x0)
  BY <1>8
<1>11. AccIsSum /\ \A d \in CTAs \ {c} : acc'[d] = acc[d]
  BY <1>8 DEF SumInv
<1>12. AccIsSum'
  BY <1>1, <1>5, <1>7, <1>9, <1>10, <1>11, OneSum
<1>. QED
  BY <1>2, <1>12 DEF SumInv

\* The sum a CTA holds between its turn and the next.
LEMMA PublishTurnSums ==
  ASSUME SchedulesAgree, StageInv, BarrierInv, WordsInv, SumInv, NEW c \in CTAs, PublishTurn(c)
  PROVE  SumInv'
<1>1. /\ plan' = plan /\ ctmp' = ctmp
      /\ \A w \in Gemms : \A x \in SlicesOf(plan, w) :
           /\ IsPublished(w, x)' <=> IsPublished(w, x) \/ (w = Work(c) /\ x = HeadOf(plan, w, c, todo[c]))
           /\ IsTaken(w, x)' <=> IsTaken(w, x)
  BY PublishPublishes
<1>2. ScratchIsSum'
  <2>1. /\ \A w : Shared(w)' = Shared(w)
        /\ \A w, x, y : Follows(w, y, x)' <=> Follows(w, y, x)
        /\ \A w, x : Slot(w, x)' = Slot(w, x)
    BY <1>1, SlicesStay
  <2>2. \A w, x : SumTo(w, x)' = SumTo(w, x)
    BY <1>1, SumsStay
  <2>. SUFFICES ASSUME NEW w \in Gemms, NEW x \in Shared(w)', NEW y \in Shared(w)',
                       Follows(w, y, x)', IsTaken(w, x)', ~IsTaken(w, y)'
               PROVE  ctmp'[<<w, Slot(w, x)'>>] = SumTo(w, x)'
    BY DEF ScratchIsSum
  <2>3. x \in Shared(w) /\ y \in Shared(w) /\ Follows(w, y, x)
    BY <2>1
  <2>4. IsTaken(w, x) /\ ~IsTaken(w, y)
    BY <1>1, <2>3 DEF Shared
  <2>5. ctmp[<<w, Slot(w, x)>>] = SumTo(w, x)
    BY <2>3, <2>4 DEF SumInv, ScratchIsSum
  <2>. QED
    BY <1>1, <2>1, <2>2, <2>5
<1>3. AccIsSum'
  <2>1. at[c] = "publish"
    BY DEF PublishTurn
  <2>2. PICK w0 \in Gemms : w0 = Work(c)
    BY <2>1, TurnIsShared
  <2>3. PICK x0 \in SlicesOf(plan, w0) : x0 = HeadOf(plan, w0, c, todo[c])
    BY <2>1, <2>2, TurnIsShared
  <2>4. IsAt(w0, x0, "publish") /\ launched > 0 /\ x0[1] = c
    BY <2>1, <2>2, <2>3, TurnIsShared
  <2>5. CASE ~IsLast(Piece(c))
    <3>1. Advances(c)
      BY <2>5, StepAdvances
    <3>2. \A w \in Gemms : \A x \in SlicesOf(plan, w) :
            \A a \in AtPiece : IsAt(w, x, a)' <=> IsAt(w, x, a) /\ x[1] # c
      BY <3>1, AdvancesOne
    <3>3. \A d \in CTAs \ {c} : acc'[d] = acc[d]
      <4>1. acc' = [acc EXCEPT ![c] = NoSum]
        BY <2>5 DEF PublishTurn
      <4>. QED
        BY <4>1 DEF WordsInv
    <3>4. \A w \in Gemms : \A x \in SlicesOf(plan, w) : x[1] \in CTAs
      BY GridOfPlan DEF BarrierInv, BarrierType, SlicesOf, Grid
    <3>5. SameSums
      BY <3>2, <3>3, <3>4 DEF SameSums
    <3>. QED
      BY <1>1, <3>5, SameSumsKept DEF SumInv
  <2>6. CASE IsLast(Piece(c))
    <3>1. at' = [at EXCEPT ![c] = "store"] /\ UNCHANGED <<todo, acc, late>>
      BY <2>6 DEF PublishTurn, Go
    <3>2. Stays(c)
      BY <3>1 DEF Stays, PublishTurn, BarrierInv, BarrierType
    <3>3. \A w \in Gemms : \A x \in SlicesOf(plan, w), a \in AtPiece :
            IsAt(w, x, a)' => IF x[1] = c THEN w = w0 /\ x = x0 /\ a = at'[c] ELSE IsAt(w, x, a)
      BY <2>2, <2>3, <2>4, <3>2, StaysAtOne
    <3>4. at'[c] = "store" /\ acc'[c] = acc[c]
      BY <3>1 DEF BarrierInv, BarrierType
    <3>5. acc[c] = SumTo(w0, x0)
      BY <2>4 DEF SumInv, AccIsSum
    <3>6. AccIsSum /\ \A d \in CTAs \ {c} : acc'[d] = acc[d]
      BY <3>1 DEF SumInv
    <3>7. at'[c] = "turn" => acc'[c] = PartOf(w0, x0)
      BY <3>4
    <3>8. at'[c] \in {"publish", "store"} => acc'[c] = SumTo(w0, x0)
      BY <3>4, <3>5
    <3>. QED
      BY <1>1, <2>4, <3>3, <3>6, <3>7, <3>8, OneSum
  <2>. QED
    BY <2>5, <2>6
<1>. QED
  BY <1>2, <1>3 DEF SumInv

\* A CTA that takes its turn has the sum of the slices up to its own.
LEMMA TakenIsSum ==
  ASSUME SchedulesAgree, StageInv, BarrierInv, WordsInv, TurnInv, SumInv, NEW c \in CTAs, TakeTurn(c),
         NEW w \in Gemms, w = Work(c), NEW x \in Shared(w), x = HeadOf(plan, w, c, todo[c])
  PROVE  /\ acc' = [acc EXCEPT ![c] = SumTo(w, x)]
         /\ ctmp' = IF Idx(w, x) = Count(w, x) - 1 THEN ctmp ELSE [ctmp EXCEPT ![<<w, Slot(w, x)>>] = SumTo(w, x)]
<1>1. at[c] = "turn"
  BY DEF TakeTurn
<1>2. /\ x \in SlicesOf(plan, w) /\ It(plan, w, x) = Piece(c) /\ x[1] = c /\ plan \in Plans
      /\ IsAt(w, x, "turn") /\ launched > 0
  BY <1>1, TurnIsShared
<1>3. Piece(c).idx = Idx(w, x) /\ Piece(c).slot = Slot(w, x) /\ Piece(c).count = Count(w, x)
  BY <1>2 DEF Idx, Slot, Count
<1>4. acc[c] = PartOf(w, x)
  BY <1>2 DEF SumInv, AccIsSum
<1>5. lock[Slot(w, x)] = Idx(w, x) /\ ~IsTaken(w, x)
  BY TakeTakes
<1>6. (IF Idx(w, x) # 0 THEN Plus(acc[c], ctmp[<<w, Slot(w, x)>>]) ELSE acc[c]) = SumTo(w, x)
  <2>1. CASE Idx(w, x) = 0
    BY <1>2, <1>4, <2>1, SumOne
  <2>2. CASE Idx(w, x) # 0
    <3>1. Idx(w, x) \in Nat /\ Count(w, x) \in Nat /\ Idx(w, x) < Count(w, x)
      BY <1>2, SharedSlices
    <3>2. Idx(w, x) - 1 \in 0 .. Count(w, x) - 1
      BY <2>2, <3>1
    <3>3. PICK y \in Shared(w) : Together(w, y, x) /\ Idx(w, y) = Idx(w, x) - 1
      BY <1>2, <3>2, SharedSlices
    <3>4. Together(w, x, y)
      BY <3>3 DEF Together, SameTile
    <3>5. y \in SlicesOf(plan, w) /\ Follows(w, x, y) /\ Slot(w, y) = Slot(w, x)
      BY <1>2, <3>1, <3>3, <3>4, SharedSlices DEF Follows, Shared
    <3>6. IsPublished(w, y)
      <4>1. Idx(w, y) < Idx(w, x)
        BY <3>1, <3>3
      <4>2. at[c] \in Working
        BY <1>1 DEF Working
      <4>. QED
        BY <1>2, <1>5, <3>3, <4>1, <4>2, TurnsBefore
    <3>7. IsTaken(w, y)
      BY <3>6 DEF IsTaken
    <3>8. ctmp[<<w, Slot(w, y)>>] = SumTo(w, y)
      BY <1>5, <3>5, <3>7 DEF SumInv, ScratchIsSum
    <3>9. Plus(PartOf(w, x), SumTo(w, y)) = SumTo(w, x)
      BY <1>2, <3>5, SumNext
    <3>. QED
      BY <1>4, <2>2, <3>5, <3>8, <3>9
  <2>. QED
    BY <2>1, <2>2
<1>7. /\ acc' = [acc EXCEPT ![c] = IF Piece(c).idx # 0 THEN Plus(acc[c], ctmp[<<w, Piece(c).slot>>]) ELSE acc[c]]
      /\ ctmp' = IF IsLast(Piece(c)) THEN ctmp
                 ELSE [ctmp EXCEPT ![<<w, Piece(c).slot>>] =
                         IF Piece(c).idx # 0 THEN Plus(acc[c], ctmp[<<w, Piece(c).slot>>]) ELSE acc[c]]
  BY DEF TakeTurn
<1>8. IsLast(Piece(c)) <=> Idx(w, x) = Count(w, x) - 1
  BY <1>3 DEF IsLast
<1>. QED
  BY <1>3, <1>6, <1>7, <1>8

LEMMA TakeTurnScratch ==
  ASSUME SchedulesAgree, StageInv, BarrierInv, WordsInv, TurnInv, SumInv, NEW c \in CTAs, TakeTurn(c)
  PROVE  ScratchIsSum'
<1>1. at[c] = "turn"
  BY DEF TakeTurn
<1>2. PICK w0 \in Gemms : w0 = Work(c)
  BY <1>1, TurnIsShared
<1>3. PICK x0 \in Shared(w0) : x0 = HeadOf(plan, w0, c, todo[c])
  BY <1>1, <1>2, TurnIsShared
<1>4. /\ ~IsTaken(w0, x0) /\ lock[Slot(w0, x0)] = Idx(w0, x0) /\ plan' = plan
      /\ \A w \in Gemms : \A x \in SlicesOf(plan, w) :
           IsTaken(w, x)' <=> IsTaken(w, x) \/ (w = w0 /\ x = x0)
  BY <1>2, <1>3, TakeTakes
<1>5. ctmp' = IF Idx(w0, x0) = Count(w0, x0) - 1 THEN ctmp ELSE [ctmp EXCEPT ![<<w0, Slot(w0, x0)>>] = SumTo(w0, x0)]
  BY <1>2, <1>3, TakenIsSum
<1>6. plan \in Plans /\ launched > 0
  BY <1>1, TurnIsShared
<1>7. /\ \A w : Shared(w)' = Shared(w)
      /\ \A w, x, y : Follows(w, y, x)' <=> Follows(w, y, x)
      /\ \A w, x : Slot(w, x)' = Slot(w, x)
  BY <1>4, SlicesStay
<1>8. \A w, x : SumTo(w, x)' = SumTo(w, x)
  BY <1>4, SumsStay
<1>. SUFFICES ASSUME NEW w \in Gemms, NEW x \in Shared(w)', NEW y \in Shared(w)',
                     Follows(w, y, x)', IsTaken(w, x)', ~IsTaken(w, y)'
             PROVE  ctmp'[<<w, Slot(w, x)'>>] = SumTo(w, x)'
  BY DEF ScratchIsSum
<1>9. x \in Shared(w) /\ y \in Shared(w) /\ Follows(w, y, x) /\ x \in SlicesOf(plan, w) /\ y \in SlicesOf(plan, w)
  BY <1>7 DEF Shared
<1>10. /\ ~IsTaken(w, y) /\ ~(w = w0 /\ y = x0)
       /\ IsTaken(w, x) \/ (w = w0 /\ x = x0)
  BY <1>4, <1>9
<1>11. Together(w, x, y) /\ Idx(w, y) = Idx(w, x) + 1 /\ Slot(w, x) \in Slots
  BY <1>6, <1>9, SharedSlices DEF Follows
<1>12. /\ Idx(w, x) \in Nat /\ Idx(w, y) \in Nat /\ Idx(w, y) < Count(w, y) /\ Count(w, y) = Count(w, x)
       /\ Count(w, y) \in Nat
  BY <1>6, <1>9, <1>11, SharedSlices
<1>13. <<w, Slot(w, x)>> \in DOMAIN ctmp
  BY <1>11 DEF WordsInv
<1>14. CASE w = w0 /\ x = x0
  <2>1. Idx(w0, x0) # Count(w0, x0) - 1
    BY <1>11, <1>12, <1>14
  <2>2. ctmp'[<<w, Slot(w, x)>>] = SumTo(w, x)
    BY <1>5, <1>13, <1>14, <2>1
  <2>. QED
    BY <1>7, <1>8, <2>2
<1>15. CASE ~(w = w0 /\ x = x0)
  <2>1. IsTaken(w, x)
    BY <1>10, <1>15
  <2>2. ctmp[<<w, Slot(w, x)>>] = SumTo(w, x)
    BY <1>9, <1>10, <2>1 DEF SumInv, ScratchIsSum
  <2>3. ~(w = w0 /\ Slot(w, x) = Slot(w0, x0))
    <3>1. SUFFICES ASSUME w = w0, Slot(w, x) = Slot(w0, x0) PROVE FALSE
      OBVIOUS
    <3>2. Together(w0, x, x0) /\ x # x0 /\ y # x0
      BY <1>6, <1>9, <1>10, <1>15, <3>1, SharedSlices
    <3>3. Together(w0, x0, x) /\ Together(w0, y, x0)
      BY <1>11, <3>1, <3>2 DEF Together, SameTile
    <3>4. Idx(w0, x0) \in Nat /\ Idx(w0, x) # Idx(w0, x0) /\ Idx(w0, y) # Idx(w0, x0)
      BY <1>6, <1>9, <3>1, <3>2, <3>3, SharedSlices
    <3>5. ~(Idx(w0, x0) < Idx(w0, x))
      <4>1. SUFFICES ASSUME Idx(w0, x0) < Idx(w0, x) PROVE FALSE
        OBVIOUS
      <4>2. IsPublished(w0, x0)
        BY <1>9, <2>1, <3>1, <3>3, <4>1 DEF TurnInv, TurnsInOrder
      <4>. QED
        BY <1>4, <4>2 DEF IsTaken
    <3>6. Idx(w0, y) < Idx(w0, x0)
      BY <1>11, <1>12, <3>1, <3>4, <3>5
    <3>7. at[c] \in Working
      BY <1>1 DEF Working
    <3>8. y \in Shared(w0)
      BY <1>9, <3>1
    <3>9. IsPublished(w0, y)
      BY <1>2, <1>4, <1>6, <3>3, <3>6, <3>7, <3>8, TurnsBefore
    <3>. QED
      BY <1>10, <3>1, <3>9 DEF IsTaken
  <2>4. <<w, Slot(w, x)>> # <<w0, Slot(w0, x0)>>
    BY <2>3
  <2>5. ctmp'[<<w, Slot(w, x)>>] = ctmp[<<w, Slot(w, x)>>]
    BY <1>5, <1>13, <2>4
  <2>. QED
    BY <1>7, <1>8, <2>2, <2>5
<1>. QED
  BY <1>14, <1>15

LEMMA TakeTurnSums ==
  ASSUME SchedulesAgree, StageInv, BarrierInv, WordsInv, TurnInv, SumInv, NEW c \in CTAs, TakeTurn(c)
  PROVE  SumInv'
<1>1. at[c] = "turn" /\ at' = [at EXCEPT ![c] = "publish"]
  BY DEF TakeTurn, Go
<1>2. PICK w0 \in Gemms : w0 = Work(c)
  BY <1>1, TurnIsShared
<1>3. PICK x0 \in Shared(w0) : x0 = HeadOf(plan, w0, c, todo[c])
  BY <1>1, <1>2, TurnIsShared
<1>4. x0 \in SlicesOf(plan, w0) /\ x0[1] = c /\ launched > 0
  BY <1>1, <1>2, <1>3, TurnIsShared
<1>5. /\ acc' = [acc EXCEPT ![c] = SumTo(w0, x0)]
      /\ ctmp' = IF Idx(w0, x0) = Count(w0, x0) - 1 THEN ctmp ELSE [ctmp EXCEPT ![<<w0, Slot(w0, x0)>>] = SumTo(w0, x0)]
  BY <1>2, <1>3, TakenIsSum
<1>6. Stays(c) /\ plan' = plan
  BY <1>1 DEF Stays, TakeTurn, BarrierInv, BarrierType
<1>7. \A w \in Gemms : \A x \in SlicesOf(plan, w), a \in AtPiece :
        IsAt(w, x, a)' => IF x[1] = c THEN w = w0 /\ x = x0 /\ a = at'[c] ELSE IsAt(w, x, a)
  BY <1>2, <1>3, <1>4, <1>6, StaysAtOne
<1>8. at'[c] = "publish" /\ acc'[c] = SumTo(w0, x0) /\ \A d \in CTAs \ {c} : acc'[d] = acc[d]
  BY <1>1, <1>5 DEF BarrierInv, BarrierType, WordsInv
<1>9. AccIsSum /\ \A d \in CTAs \ {c} : acc'[d] = acc[d]
  BY <1>8 DEF SumInv
<1>10. at'[c] = "turn" => acc'[c] = PartOf(w0, x0)
  BY <1>8
<1>11. at'[c] \in {"publish", "store"} => acc'[c] = SumTo(w0, x0)
  BY <1>8
<1>12. AccIsSum'
  BY <1>4, <1>6, <1>7, <1>9, <1>10, <1>11, OneSum
<1>. QED
  BY <1>12, TakeTurnScratch DEF SumInv

-----------------------------------------------------------------------------
(* The buffers are as they should be. *)

LEMMA TilesStay ==
  ASSUME plan' = plan
  PROVE  /\ Grid' = Grid
         /\ \A w, t : IsStored(w, t)' <=> \E x \in SlicesOf(plan, w) :
                        It(plan, w, x).tile = t /\ IsLast(It(plan, w, x)) /\ IsDone(w, x)'
         /\ \A w, cell : AliveCell(w, cell)' <=> AliveCell(w, cell)
<1>1. Grid' = Grid
  BY DEF Grid
<1>2. \A w, t : IsStored(w, t)' <=> \E x \in SlicesOf(plan, w) :
                  It(plan, w, x).tile = t /\ IsLast(It(plan, w, x)) /\ IsDone(w, x)'
  BY DEF IsStored
<1>3. \A w, cell : AliveCell(w, cell)' <=> AliveCell(w, cell)
  BY DEF AliveCell
<1>. QED
  BY <1>1, <1>2, <1>3

\* The steps that store nothing and end no tile.
LEMMA MemKept ==
  ASSUME MemInv, plan' = plan, mem' = mem,
         \A w \in Gemms : \A x \in SlicesOf(plan, w) : IsLast(It(plan, w, x)) => (IsDone(w, x)' <=> IsDone(w, x)),
         \A w \in Strided : Has(plan, w) => \A d \in Grid : Strode(d, w)' => Strode(d, w),
         \A d \in Grid : seg'[d] <= SegOf(plan, "activate") => seg[d] <= SegOf(plan, "activate")
  PROVE  MemInv'
<1>1. \A w \in Gemms : \A t : IsStored(w, t)' <=> IsStored(w, t)
  BY TilesStay DEF IsStored
<1>2. Grid' = Grid /\ \A w, cell : AliveCell(w, cell)' <=> AliveCell(w, cell)
  BY TilesStay
<1>3. /\ plan.rotated => \A d \in Grid : Strode(d, "rotate")' => Strode(d, "rotate")
      /\ plan.gated => \A d \in Grid : Strode(d, "activate")' => Strode(d, "activate")
      /\ plan.mapped => \A d \in Grid : Strode(d, "zero")' => Strode(d, "zero")
      /\ plan.fusedSum => \A d \in Grid : Strode(d, "prezero")' => Strode(d, "prezero")
  BY DEF Has, Strided
<1>4. Rotated'
  BY <1>2, <1>3 DEF MemInv, Rotated
<1>5. Activated'
  BY <1>2, <1>3 DEF MemInv, Activated
<1>6. Zeroed'
  BY <1>2, <1>3 DEF MemInv, Zeroed
<1>7. Fc1Stored'
  <2>2. \A t : IsStored("fc1", t)' => IsStored("fc1", t)
    BY <1>1 DEF Gemms
  <2>. QED
    BY <1>2, <2>2 DEF MemInv, Fc1Stored
<1>8. Fc2Stored'
  <2>2. \A t : IsStored("fc2", t)' => IsStored("fc2", t)
    BY <1>1 DEF Gemms
  <2>. QED
    BY <2>2 DEF MemInv, Fc2Stored
<1>9. Fc2Summed'
  <2>1. \A t : IsStored("fc2", t)' <=> IsStored("fc2", t)
    BY <1>1 DEF Gemms
  <2>2. \A cell : Summed(cell)' = Summed(cell)
    BY <2>1 DEF Summed
  <2>. QED
    BY <1>2, <1>3, <2>2 DEF MemInv, Fc2Summed
<1>10. (DOMAIN mem = Cells(plan))'
  BY DEF MemInv
<1>. QED
  BY <1>4, <1>5, <1>6, <1>7, <1>8, <1>9, <1>10 DEF MemInv

LEMMA SegIsNat ==
  ASSUME BarrierInv
  PROVE  \A d \in Grid : seg[d] \in Nat
BY GridOfPlan DEF BarrierInv, BarrierType

LEMMA OthersKeepMem ==
  ASSUME SchedulesAgree, StageInv, BarrierInv, BarrierInv', MemInv, NEW c \in CTAs,
         \/ Multiply(c) \/ TakeTurn(c) \/ PublishTurn(c) \/ NextStage(c)
         \/ LoadSense(c) \/ Arrive(c) \/ ResetCount(c) \/ ReleaseSense(c) \/ Pass(c)
  PROVE  MemInv'
<1>1. mem' = mem /\ plan' = plan
  BY DEF Multiply, TakeTurn, PublishTurn, NextStage, LoadSense, Arrive, ResetCount, ReleaseSense, Pass
<1>2. at[c] # "out"
  BY DEF Multiply, TakeTurn, PublishTurn, NextStage, LoadSense, Arrive, ResetCount, ReleaseSense, Pass
<1>3. launched > 0 /\ c \in Grid /\ plan \in Plans
  BY <1>2, ActiveCTA
<1>4. \A d \in Grid : seg[d] \in Nat /\ seg'[d] \in Nat
  <2>1. Grid' = Grid
    BY <1>1 DEF Grid
  <2>2. \A d \in Grid' : seg'[d] \in Nat
    <3>1. seg' \in [CTAs -> Nat]
      BY DEF BarrierInv, BarrierType
    <3>2. Grid \subseteq CTAs
      BY <1>3, GridOfPlan
    <3>. QED
      BY <2>1, <3>1, <3>2
  <2>. QED
    BY <2>1, <2>2, SegIsNat
<1>5. SegOf(plan, "activate") \in Nat
  BY <1>3, StageOrder DEF Works, Strided
<1>6. CASE Multiply(c) \/ TakeTurn(c) \/ LoadSense(c) \/ Arrive(c) \/ ResetCount(c) \/ (PublishTurn(c) /\ IsLast(Piece(c)))
  <2>1. Stays(c) /\ seg' = seg
    BY <1>6 DEF Multiply, TakeTurn, LoadSense, Arrive, ResetCount, PublishTurn, Go, Stays, BarrierInv, BarrierType
  <2>2. /\ \A w, x : IsDone(w, x)' <=> IsDone(w, x)
        /\ \A w, d : Strode(d, w)' <=> Strode(d, w)
    BY <2>1, StaysPut
  <2>. QED
    BY <1>1, <2>1, <2>2, MemKept
<1>7. CASE PublishTurn(c) /\ ~IsLast(Piece(c))
  <2>1. Advances(c) /\ seg' = seg
    BY <1>7, StepAdvances DEF Advances
  <2>2. /\ \A w \in Gemms : \A x \in SlicesOf(plan, w) :
             IsDone(w, x)' <=> IsDone(w, x) \/ (w = Work(c) /\ x = HeadOf(plan, w, c, todo[c]))
        /\ \A w \in Strided : Has(plan, w) => \A d \in Grid : Strode(d, w)' => Strode(d, w)
    BY <2>1, AdvancesOne
  <2>3. at[c] = "publish"
    BY <1>7 DEF PublishTurn
  <2>4. \A w \in Gemms : w = Work(c) => It(plan, w, HeadOf(plan, w, c, todo[c])) = Piece(c)
    BY <2>3, TurnIsShared
  <2>5. \A w \in Gemms : \A x \in SlicesOf(plan, w) :
          IsLast(It(plan, w, x)) => (IsDone(w, x)' <=> IsDone(w, x))
    BY <1>7, <2>2, <2>4
  <2>. QED
    BY <1>1, <2>1, <2>2, <2>5, MemKept
<1>8. CASE NextStage(c) \/ ReleaseSense(c) \/ Pass(c)
  <2>1. Comes(c)
    BY <1>8, StageComes
  <2>2. /\ \A w \in Gemms : \A x \in SlicesOf(plan, w) : IsDone(w, x)' <=> IsDone(w, x)
        /\ \A w \in Strided : Has(plan, w) => \A d \in Grid : Strode(d, w)' => Strode(d, w)
        /\ \A d \in Grid : seg[d] <= seg'[d]
    BY <1>3, <2>1, ComesAlong
  <2>3. \A d \in Grid : seg'[d] <= SegOf(plan, "activate") => seg[d] <= SegOf(plan, "activate")
    BY <1>4, <1>5, <2>2
  <2>. QED
    BY <1>1, <2>2, <2>3, MemKept
<1>. QED
  BY <1>6, <1>7, <1>8

\* What a CTA leaves in its share, and that it leaves the other cells alone.
LEMMA StrideWrites ==
  ASSUME InOrder, SchedulesAgree, StageInv, BarrierInv, MemInv, NEW c \in CTAs, Stride(c)
  PROVE  LET w == Work(c) mine == Share(plan, w, c) IN
         /\ DOMAIN mem' = DOMAIN mem
         /\ \A cell \in DOMAIN mem : cell \notin mine => mem'[cell] = mem[cell]
         /\ \A cell \in DOMAIN mem : cell \in mine =>
              /\ w \in {"zero", "prezero"} => mem'[cell] = {}
              /\ w \notin {"zero", "prezero"} /\ BlockOf(plan, w, cell[2]) \notin plan.dead =>
                   mem'[cell] = {<<w, cell[2]>>}
         /\ w \in Strided /\ Has(plan, w) /\ seg[c] = SegOf(plan, w) /\ at[c] \in Working
         /\ launched > 0 /\ c \in Grid /\ plan \in Plans
<1>. DEFINE w == Work(c)
            mine == Share(plan, w, c)
            Value(cell, view) == IF w \in {"zero", "prezero"} THEN {}
                                 ELSE IF Whole(c, w, cell[2], view) THEN {<<w, cell[2]>>} ELSE Wrong
<1>1. at[c] = "work" /\ w \in Strided
  BY DEF Stride
<1>2. launched > 0 /\ c \in Grid /\ plan \in Plans /\ Has(plan, w) /\ seg[c] = SegOf(plan, w)
  BY <1>1, ActiveCTA
<1>3. at[c] \in Working
  BY <1>1 DEF Working
<1>4. PICK view \in Views : mem' = [cell \in DOMAIN mem |-> IF cell \in mine THEN Value(cell, view) ELSE mem[cell]]
  BY DEF Stride
<1>5. \A i : BlockOf(plan, w, i) \notin plan.dead => Whole(c, w, i, view)
  BY <1>2, <1>3, InputsWhole
<1>. HIDE DEF w, mine
<1>6. \A cell \in DOMAIN mem : mem'[cell] = IF cell \in mine THEN Value(cell, view) ELSE mem[cell]
  BY <1>4
<1>7. DOMAIN mem' = DOMAIN mem
  BY <1>4
<1>8. \A cell : /\ w \in {"zero", "prezero"} => Value(cell, view) = {}
                /\ w \notin {"zero", "prezero"} /\ BlockOf(plan, w, cell[2]) \notin plan.dead =>
                     Value(cell, view) = {<<w, cell[2]>>}
  BY <1>5
<1>. HIDE DEF Value
<1>9. \A cell \in DOMAIN mem : cell \notin mine => mem'[cell] = mem[cell]
  BY <1>6
<1>10. \A cell \in DOMAIN mem : cell \in mine => mem'[cell] = Value(cell, view)
  BY <1>6
<1>. QED
  BY <1>1, <1>2, <1>3, <1>7, <1>8, <1>9, <1>10 DEF w, mine

\* The shares are cells of the launch, those of a stage in a buffer of their own.
LEMMA SharesAreCells ==
  ASSUME NEW p, NEW c
  PROVE  /\ \A cell \in Share(p, "rotate", c) : cell \in Cells(p) /\ cell[1] = "a" /\ BlockOf(p, "rotate", cell[2]) \notin p.dead
         /\ \A cell \in Share(p, "activate", c) : cell \in Cells(p) /\ cell[1] = "activated"
         /\ \A cell \in Share(p, "prezero", c) : cell \in Cells(p) /\ cell[1] = "output"
         /\ \A cell \in Share(p, "zero", c) : cell \in Cells(p) /\ cell[1] = "cache13"
<1>1. \A cell \in Share(p, "rotate", c) : cell \in Cells(p) /\ cell[1] = "a" /\ BlockOf(p, "rotate", cell[2]) \notin p.dead
  <2>. SUFFICES ASSUME NEW cell \in Share(p, "rotate", c)
               PROVE  cell \in Cells(p) /\ cell[1] = "a" /\ BlockOf(p, "rotate", cell[2]) \notin p.dead
    OBVIOUS
  <2>1. PICK i \in Units(p) : cell = <<"a", i>> /\ BlockOf(p, "rotate", i) \notin p.dead
    BY ShareOf
  <2>. QED
    BY <2>1, CellsOf
<1>2. \A cell \in Share(p, "activate", c) : cell \in Cells(p) /\ cell[1] = "activated"
  <2>. SUFFICES ASSUME NEW cell \in Share(p, "activate", c) PROVE cell \in Cells(p) /\ cell[1] = "activated"
    OBVIOUS
  <2>1. PICK i \in Units(p) : cell = <<"activated", i>>
    BY ShareOf
  <2>. QED
    BY <2>1, CellsOf
<1>3. \A cell \in Share(p, "prezero", c) : cell \in Cells(p) /\ cell[1] = "output"
  <2>. SUFFICES ASSUME NEW cell \in Share(p, "prezero", c) PROVE cell \in Cells(p) /\ cell[1] = "output"
    OBVIOUS
  <2>1. PICK i \in OutCells(p) : cell = <<"output", i>>
    BY ShareOf
  <2>. QED
    BY <2>1, CellsOf
<1>4. \A cell \in Share(p, "zero", c) : cell \in Cells(p) /\ cell[1] = "cache13"
  <2>. SUFFICES ASSUME NEW cell \in Share(p, "zero", c) PROVE cell \in Cells(p) /\ cell[1] = "cache13"
    OBVIOUS
  <2>1. PICK i \in Tiles(p, "fc2") : cell = <<"cache13", i>>
    BY ShareOf
  <2>. QED
    BY <2>1, CellsOf
<1>. QED
  BY <1>1, <1>2, <1>3, <1>4

\* The buffer a strided stage writes.
Written(w) == CASE w = "rotate" -> "a" [] w = "activate" -> "activated" [] w = "prezero" -> "output" [] w = "zero" -> "cache13"

LEMMA SharesAreWritten ==
  ASSUME NEW p, NEW w \in Strided, NEW c
  PROVE  \A cell \in Share(p, w, c) : cell \in Cells(p) /\ cell[1] = Written(w)
BY SharesAreCells DEF Strided, Written

\* A strided stage has its own share done, and the other shares as they were.
LEMMA StrideStages ==
  ASSUME InOrder, SchedulesAgree, StageInv, BarrierInv, MemInv, NEW c \in CTAs, Stride(c),
         NEW w \in Strided, Has(plan, w), NEW d \in Grid, Strode(d, w)', NEW cell \in Share(plan, w, d)
  PROVE  \/ Strode(d, w) /\ mem'[cell] = mem[cell]
         \/ /\ w \in {"zero", "prezero"} => mem'[cell] = {}
            /\ w \notin {"zero", "prezero"} /\ BlockOf(plan, w, cell[2]) \notin plan.dead =>
                 mem'[cell] = {<<w, cell[2]>>}
<1>1. PICK w0 \in Strided : w0 = Work(c)
  BY StrideWrites
<1>2. /\ \A x \in DOMAIN mem : x \notin Share(plan, w0, c) => mem'[x] = mem[x]
      /\ \A x \in DOMAIN mem : x \in Share(plan, w0, c) =>
           /\ w0 \in {"zero", "prezero"} => mem'[x] = {}
           /\ w0 \notin {"zero", "prezero"} /\ BlockOf(plan, w0, x[2]) \notin plan.dead =>
                mem'[x] = {<<w0, x[2]>>}
  BY <1>1, StrideWrites
<1>3. cell \in DOMAIN mem /\ cell[1] = Written(w)
  BY SharesAreWritten DEF MemInv
<1>4. Strode(d, w) \/ (d = c /\ w = w0)
  BY <1>1, StrideStrodes
<1>5. CASE cell \in Share(plan, w0, c)
  <2>1. cell[1] = Written(w0)
    BY <1>5, SharesAreWritten
  <2>2. w = w0
    BY <1>3, <2>1 DEF Written, Strided
  <2>. QED
    BY <1>2, <1>3, <1>5, <2>2
<1>6. CASE cell \notin Share(plan, w0, c)
  <2>1. mem'[cell] = mem[cell]
    BY <1>2, <1>3, <1>6
  <2>2. ~(d = c /\ w = w0)
    BY <1>6
  <2>. QED
    BY <1>4, <2>1, <2>2
<1>. QED
  BY <1>5, <1>6

\* Other cells of a buffer are not touched by a stage that writes elsewhere.
LEMMA StrideElsewhere ==
  ASSUME InOrder, SchedulesAgree, StageInv, BarrierInv, MemInv, NEW c \in CTAs, Stride(c),
         NEW cell \in Cells(plan), cell[1] # Written(Work(c))
  PROVE  mem'[cell] = mem[cell]
<1>1. PICK w0 \in Strided : w0 = Work(c)
  BY StrideWrites
<1>2. \A x \in DOMAIN mem : x \notin Share(plan, w0, c) => mem'[x] = mem[x]
  BY <1>1, StrideWrites
<1>3. cell \notin Share(plan, w0, c)
  BY <1>1, SharesAreWritten
<1>. QED
  BY <1>2, <1>3 DEF MemInv

LEMMA StrideStill ==
  ASSUME SchedulesAgree, StageInv, BarrierInv, NEW c \in CTAs, Stride(c)
  PROVE  /\ plan' = plan /\ seg' = seg /\ Grid' = Grid
         /\ \A w \in Gemms : \A t : IsStored(w, t)' <=> IsStored(w, t)
         /\ \A w, cell : AliveCell(w, cell)' <=> AliveCell(w, cell)
<1>1. plan' = plan /\ seg' = seg
  BY DEF Stride
<1>2. \A w \in Gemms : \A x \in SlicesOf(plan, w) : IsDone(w, x)' <=> IsDone(w, x)
  BY StrideStrodes
<1>3. \A w \in Gemms : \A t : IsStored(w, t)' <=> IsStored(w, t)
  BY <1>1, <1>2, TilesStay DEF IsStored
<1>. QED
  BY <1>1, <1>3, TilesStay

\* No tile of a GEMM is stored before its stage.
LEMMA NotStoredYet ==
  ASSUME SchedulesAgree, StageInv, BarrierInv, launched > 0, NEW c \in Grid, at[c] \in Working,
         NEW w \in Gemms, SegOf(plan, w) > seg[c]
  PROVE  \A t : ~IsStored(w, t)
<1>1. w \in Works /\ Has(plan, w)
  BY GemmsWork DEF GemmsAreWorks
<1>2. \A d \in Grid : ~Passed(d, w) /\ ~Within(d, w)
  BY <1>1, StagesApart
<1>3. \A x \in SlicesOf(plan, w) : x[1] \in Grid
  BY DEF SlicesOf, Grid
<1>. QED
  BY <1>2, <1>3, UntouchedIsNotDone DEF IsStored

LEMMA StrideMem ==
  ASSUME InOrder, SchedulesAgree, StageInv, BarrierInv, MemInv, NEW c \in CTAs, Stride(c)
  PROVE  MemInv'
<1>1. /\ plan' = plan /\ seg' = seg /\ Grid' = Grid
      /\ \A w \in Gemms : \A t : IsStored(w, t)' <=> IsStored(w, t)
      /\ \A w, cell : AliveCell(w, cell)' <=> AliveCell(w, cell)
  BY StrideStill
<1>2. PICK w0 \in Strided : w0 = Work(c)
  BY StrideWrites
<1>3. /\ DOMAIN mem' = DOMAIN mem /\ Has(plan, w0) /\ seg[c] = SegOf(plan, w0) /\ at[c] \in Working
      /\ launched > 0 /\ c \in Grid /\ plan \in Plans
  BY <1>2, StrideWrites
<1>4. (DOMAIN mem = Cells(plan))'
  BY <1>1, <1>3 DEF MemInv
<1>5. \A cell \in Cells(plan) : cell[1] # Written(w0) => mem'[cell] = mem[cell]
  BY <1>2, StrideElsewhere
<1>6. ASSUME NEW w \in Strided, Has(plan, w), NEW d \in Grid, Strode(d, w)', NEW cell \in Share(plan, w, d)
      PROVE  \/ Strode(d, w) /\ mem'[cell] = mem[cell]
             \/ /\ w \in {"zero", "prezero"} => mem'[cell] = {}
                /\ w \notin {"zero", "prezero"} /\ BlockOf(plan, w, cell[2]) \notin plan.dead =>
                     mem'[cell] = {<<w, cell[2]>>}
  BY <1>6, StrideStages
<1>7. Rotated'
  <2>. SUFFICES ASSUME plan.rotated, NEW d \in Grid, Strode(d, "rotate")', NEW cell \in Share(plan, "rotate", d)
               PROVE  mem'[cell] = {<<"rotate", cell[2]>>}
    BY <1>1 DEF Rotated
  <2>1. BlockOf(plan, "rotate", cell[2]) \notin plan.dead
    BY SharesAreCells
  <2>2. "rotate" \in Strided /\ Has(plan, "rotate")
    BY DEF Strided, Has
  <2>3. Strode(d, "rotate") => mem[cell] = {<<"rotate", cell[2]>>}
    BY DEF MemInv, Rotated
  <2>. QED
    BY <1>6, <2>1, <2>2, <2>3
<1>8. Activated'
  <2>. SUFFICES ASSUME plan.gated, NEW d \in Grid, Strode(d, "activate")', NEW cell \in Share(plan, "activate", d),
                       AliveCell("activate", cell)
               PROVE  mem'[cell] = {<<"activate", cell[2]>>}
    BY <1>1 DEF Activated
  <2>1. BlockOf(plan, "activate", cell[2]) \notin plan.dead
    BY DEF AliveCell
  <2>2. "activate" \in Strided /\ Has(plan, "activate")
    BY DEF Strided, Has
  <2>3. Strode(d, "activate") => mem[cell] = {<<"activate", cell[2]>>}
    BY DEF MemInv, Activated
  <2>. QED
    BY <1>6, <2>1, <2>2, <2>3
<1>9. Zeroed'
  <2>. SUFFICES ASSUME plan.mapped, NEW d \in Grid, Strode(d, "zero")', NEW cell \in Share(plan, "zero", d),
                       cell[2] \div plan.n2 \in plan.dead
               PROVE  mem'[cell] = {}
    BY <1>1 DEF Zeroed
  <2>2. "zero" \in Strided /\ Has(plan, "zero")
    BY DEF Strided, Has
  <2>3. Strode(d, "zero") => mem[cell] = {}
    BY DEF MemInv, Zeroed
  <2>. QED
    BY <1>6, <2>2, <2>3
<1>10. Fc1Stored'
  <2>. SUFFICES ASSUME plan.gated => \A d \in Grid : seg[d] <= SegOf(plan, "activate"),
                       NEW t \in Tiles(plan, "fc1"), IsStored("fc1", t)
               PROVE  mem'[Target(plan, "fc1", t)] = {<<"fc1", t>>}
    BY <1>1 DEF Fc1Stored, Gemms
  <2>1. mem[Target(plan, "fc1", t)] = {<<"fc1", t>>}
    BY DEF MemInv, Fc1Stored
  <2>2. CASE plan.gated
    <3>1. Target(plan, "fc1", t) = <<"cache13", t>>
      BY <2>2 DEF Target
    <3>2. w0 # "zero"
      <4>1. SUFFICES ASSUME w0 = "zero" PROVE FALSE
        OBVIOUS
      <4>2. plan.mapped
        BY <1>3, <4>1 DEF Has
      <4>3. SegOf(plan, "activate") < SegOf(plan, "zero")
        BY <1>3, <2>2, <4>2, StageOrder
      <4>4. SegOf(plan, "activate") \in Nat /\ SegOf(plan, "zero") \in Nat
        BY <1>3, StageOrder DEF Works, Strided
      <4>. QED
        BY <1>3, <2>2, <4>1, <4>3, <4>4
    <3>3. <<"cache13", t>> \in Cells(plan) /\ Written(w0) # "cache13"
      BY <3>2, CellsOf DEF Written, Strided
    <3>. QED
      BY <1>5, <2>1, <3>1, <3>3
  <2>3. CASE ~plan.gated
    <3>1. Target(plan, "fc1", t) = <<"activated", t>>
      BY <2>3 DEF Target
    <3>2. w0 # "activate"
      BY <1>3, <2>3 DEF Has
    <3>3. <<"activated", t>> \in Cells(plan) /\ Written(w0) # "activated"
      BY <3>2, CellsOf DEF Written, Strided
    <3>. QED
      BY <1>5, <2>1, <3>1, <3>3
  <2>. QED
    BY <2>2, <2>3
<1>11. Fc2Stored'
  <2>. SUFFICES ASSUME ~plan.fusedSum, NEW t \in Tiles(plan, "fc2"), IsStored("fc2", t)
               PROVE  mem'[Target(plan, "fc2", t)] = {<<"fc2", t>>}
    BY <1>1 DEF Fc2Stored, Gemms
  <2>1. mem[Target(plan, "fc2", t)] = {<<"fc2", t>>}
    BY DEF MemInv, Fc2Stored
  <2>2. Target(plan, "fc2", t) = <<"cache13", t>>
    BY DEF Target
  <2>3. w0 # "zero"
    <3>1. SUFFICES ASSUME w0 = "zero" PROVE FALSE
      OBVIOUS
    <3>2. plan.mapped
      BY <1>3, <3>1 DEF Has
    <3>3. SegOf(plan, "zero") < SegOf(plan, "fc2") /\ SegOf(plan, "zero") \in Nat /\ SegOf(plan, "fc2") \in Nat
      BY <1>3, <3>2, StageOrder DEF Works, Strided, Gemms
    <3>4. SegOf(plan, "fc2") > seg[c] /\ "fc2" \in Gemms
      BY <1>3, <3>1, <3>3 DEF Gemms
    <3>. QED
      BY <1>3, <3>4, NotStoredYet
  <2>4. <<"cache13", t>> \in Cells(plan) /\ Written(w0) # "cache13"
    BY <2>3, CellsOf DEF Written, Strided
  <2>. QED
    BY <1>5, <2>1, <2>2, <2>4
<1>12. Fc2Summed'
  <2>1. \A cell : Summed(cell)' = Summed(cell)
    BY <1>1 DEF Summed, Gemms
  <2>. SUFFICES ASSUME plan.fusedSum, NEW d \in Grid, Strode(d, "prezero")', NEW cell \in Share(plan, "prezero", d)
               PROVE  mem'[cell] = Summed(cell)
    BY <1>1, <2>1 DEF Fc2Summed
  <2>2. "prezero" \in Strided /\ Has(plan, "prezero")
    BY DEF Strided, Has
  <2>3. Strode(d, "prezero") => mem[cell] = Summed(cell)
    BY DEF MemInv, Fc2Summed
  <2>4. CASE w0 = "prezero"
    <3>1. SegOf(plan, "fc2") > seg[c] /\ "fc2" \in Gemms
      <4>1. SegOf(plan, "prezero") < SegOf(plan, "fc2") /\ SegOf(plan, "prezero") \in Nat /\ SegOf(plan, "fc2") \in Nat
        BY <1>3, StageOrder DEF Works, Strided, Gemms
      <4>. QED
        BY <1>3, <2>4, <4>1 DEF Gemms
    <3>2. \A t : ~IsStored("fc2", t)
      BY <1>3, <3>1, NotStoredYet
    <3>3. Summed(cell) = {}
      BY <3>2 DEF Summed
    <3>. QED
      BY <1>6, <2>2, <2>3, <3>3
  <2>5. CASE w0 # "prezero"
    <3>1. Strode(d, "prezero")
      BY <1>2, <2>2, <2>5, StrideStrodes
    <3>2. cell \in Cells(plan) /\ cell[1] = "output"
      BY SharesAreCells
    <3>3. Written(w0) # "output"
      BY <2>5 DEF Written, Strided
    <3>. QED
      BY <1>5, <2>3, <3>1, <3>2, <3>3
  <2>. QED
    BY <2>4, <2>5
<1>. QED
  BY <1>4, <1>7, <1>8, <1>9, <1>10, <1>11, <1>12 DEF MemInv

LEMMA TargetOf ==
  ASSUME NEW p \in Plans, NEW w \in Gemms, NEW t \in Tiles(p, w)
  PROVE  /\ Target(p, w, t) \in Cells(p)
         /\ w = "fc1" /\ p.gated => Target(p, w, t) = <<"cache13", t>>
         /\ w = "fc1" /\ ~p.gated => Target(p, w, t) = <<"activated", t>>
         /\ w = "fc2" /\ ~p.fusedSum => Target(p, w, t) = <<"cache13", t>>
         /\ w = "fc2" /\ p.fusedSum => \E i \in OutCells(p) : Target(p, w, t) = <<"output", i>>
<1>1. CASE w = "fc1" /\ p.gated
  <2>1. Target(p, w, t) = <<"cache13", t>>
    BY <1>1 DEF Target
  <2>. QED
    BY <1>1, <2>1, CellsOf
<1>2. CASE w = "fc1" /\ ~p.gated
  <2>1. Target(p, w, t) = <<"activated", t>>
    BY <1>2 DEF Target
  <2>. QED
    BY <1>2, <2>1, CellsOf
<1>3. CASE w = "fc2" /\ ~p.fusedSum
  <2>1. Target(p, w, t) = <<"cache13", t>>
    BY <1>3 DEF Target
  <2>. QED
    BY <1>3, <2>1, CellsOf
<1>4. CASE w = "fc2" /\ p.fusedSum
  <2>1. Target(p, w, t) = <<"output", ((t \div p.n2) \div p.topk) * p.n2 + (t % p.n2)>>
    BY <1>4 DEF Target
  <2>2. ((t \div p.n2) \div p.topk) * p.n2 + (t % p.n2) \in OutCells(p)
    BY <1>4, SummedCell
  <2>. DEFINE i == ((t \div p.n2) \div p.topk) * p.n2 + (t % p.n2)
  <2>3. i \in OutCells(p) /\ Target(p, w, t) = <<"output", i>>
    BY <2>1, <2>2
  <2>. HIDE DEF i
  <2>4. <<"output", i>> \in Cells(p)
    BY <2>3, CellsOf
  <2>. QED
    BY <1>4, <2>3, <2>4
<1>. QED
  BY <1>1, <1>2, <1>3, <1>4 DEF Gemms

\* What a CTA stores: all of a tile, summed.
LEMMA StoreIsWhole ==
  ASSUME SchedulesAgree, StageInv, BarrierInv, SumInv, NEW c \in CTAs, StoreTile(c)
  PROVE  LET w == Work(c) x == HeadOf(plan, w, c, todo[c]) IN
         /\ w \in Gemms /\ x \in SlicesOf(plan, w) /\ It(plan, w, x) = Piece(c) /\ x[1] = c /\ IsLast(It(plan, w, x))
         /\ ~IsDone(w, x) /\ IsHere(plan, w, Piece(c).tile)
         /\ acc[c] = [parts |-> 0 .. Gemm(plan, w).k - 1, ok |-> TRUE]
         /\ launched > 0 /\ c \in Grid /\ plan \in Plans /\ at[c] \in Working /\ seg[c] = SegOf(plan, w)
<1>. DEFINE w == Work(c)
            x == HeadOf(plan, w, c, todo[c])
<1>1. at[c] = "store"
  BY DEF StoreTile
<1>2. /\ c \in Grid /\ launched > 0 /\ plan \in Plans
      /\ AtStage(plan, c, at[c], seg[c], job[c], todo[c]) /\ seg[c] = SegOf(plan, Work(c))
  BY <1>1, ActiveCTA
<1>3. todo[c] # <<>> /\ Work(c) \in Gemms /\ IsLast(Piece(c))
  BY <1>1, <1>2 DEF AtStage, Work, Piece
<1>4. IsAt(w, x, at[c]) /\ ~IsDone(w, x) /\ x \in SlicesOf(plan, w) /\ x[1] = c /\ It(plan, w, x) = Piece(c)
  BY <1>1, <1>3, PieceIsAt
<1>. HIDE DEF w, x
<1>5. w \in Gemms /\ w = Work(c) /\ IsLast(It(plan, w, x))
  BY <1>3, <1>4 DEF w
<1>6. acc[c] = SumTo(w, x)
  BY <1>1, <1>4, <1>5 DEF SumInv, AccIsSum
<1>7. SumTo(w, x) = [parts |-> 0 .. Gemm(plan, w).k - 1, ok |-> TRUE]
  BY <1>2, <1>4, <1>5, SumLast
<1>8. IsHere(plan, w, Piece(c).tile)
  <2>1. IsHere(plan, w, It(plan, w, x).tile)
    BY <1>2, <1>4, <1>5, AllSlices
  <2>. QED
    BY <1>4, <2>1
<1>9. at[c] \in Working
  BY <1>1 DEF Working
<1>. QED
  BY <1>2, <1>4, <1>5, <1>6, <1>7, <1>8, <1>9 DEF w, x

\* That is one tile more.
LEMMA StoreStores ==
  ASSUME SchedulesAgree, StageInv, BarrierInv, SumInv, NEW c \in CTAs, StoreTile(c),
         NEW w0 \in Gemms, w0 = Work(c), NEW t0, t0 = Piece(c).tile
  PROVE  /\ ~IsStored(w0, t0) /\ plan' = plan /\ seg' = seg /\ Grid' = Grid
         /\ \A w \in Gemms : \A t : IsStored(w, t)' <=> IsStored(w, t) \/ (w = w0 /\ t = t0)
         /\ \A w \in Strided : Has(plan, w) => \A d \in Grid : Strode(d, w)' => Strode(d, w)
         /\ \A w, cell : AliveCell(w, cell)' <=> AliveCell(w, cell)
<1>1. Advances(c) /\ plan' = plan /\ seg' = seg
  BY StepAdvances DEF Advances
<1>2. PICK x0 \in SlicesOf(plan, w0) : x0 = HeadOf(plan, w0, c, todo[c])
  BY StoreIsWhole
<1>3. It(plan, w0, x0) = Piece(c) /\ IsLast(It(plan, w0, x0)) /\ ~IsDone(w0, x0) /\ plan \in Plans
  BY <1>2, StoreIsWhole
<1>4. /\ \A w \in Gemms : \A x \in SlicesOf(plan, w) : IsDone(w, x)' <=> IsDone(w, x) \/ (w = w0 /\ x = x0)
      /\ \A w \in Strided : Has(plan, w) => \A d \in Grid : Strode(d, w)' => Strode(d, w)
  BY <1>1, <1>2, AdvancesOne
<1>5. ~IsStored(w0, t0)
  <2>. SUFFICES ASSUME NEW x \in SlicesOf(plan, w0), It(plan, w0, x).tile = t0, IsLast(It(plan, w0, x)), IsDone(w0, x)
               PROVE  FALSE
    BY DEF IsStored
  <2>1. Together(w0, x, x0)
    BY <1>3 DEF Together, SameTile
  <2>2. Count(w0, x) = Count(w0, x0) /\ (Idx(w0, x) = Idx(w0, x0) => x = x0)
    BY <1>2, <1>3, <2>1, AllSlices
  <2>3. Idx(w0, x) = Count(w0, x) - 1 /\ Idx(w0, x0) = Count(w0, x0) - 1
    BY <1>3 DEF IsLast, Idx, Count
  <2>. QED
    BY <1>3, <2>2, <2>3
<1>6. \A w \in Gemms : \A t : IsStored(w, t)' <=> IsStored(w, t) \/ (w = w0 /\ t = t0)
  <2>. SUFFICES ASSUME NEW w \in Gemms, NEW t PROVE IsStored(w, t)' <=> IsStored(w, t) \/ (w = w0 /\ t = t0)
    OBVIOUS
  <2>1. IsStored(w, t)' <=> \E x \in SlicesOf(plan, w) :
                              It(plan, w, x).tile = t /\ IsLast(It(plan, w, x)) /\ IsDone(w, x)'
    BY <1>1, TilesStay
  <2>. QED
    BY <1>2, <1>3, <1>4, <2>1 DEF IsStored
<1>. QED
  BY <1>1, <1>4, <1>5, <1>6, TilesStay

LEMMA StoreWrites ==
  ASSUME InOrder, SchedulesAgree, StageInv, BarrierInv, SumInv, MemInv, NEW c \in CTAs, StoreTile(c),
         NEW w0 \in Gemms, w0 = Work(c), NEW t0, t0 = Piece(c).tile, NEW cell0, cell0 = Target(plan, w0, t0)
  PROVE  /\ DOMAIN mem' = DOMAIN mem /\ cell0 \in DOMAIN mem
         /\ \A cell \in DOMAIN mem : cell # cell0 => mem'[cell] = mem[cell]
         /\ ~(w0 = "fc2" /\ plan.fusedSum) => mem'[cell0] = {<<w0, t0>>}
         /\ (w0 = "fc2" /\ plan.fusedSum) /\ mem[cell0] \cap (Left \cup Wrong \cup {<<w0, t0>>}) = {} =>
              mem'[cell0] = mem[cell0] \cup {<<w0, t0>>}
<1>1. /\ acc[c] = [parts |-> 0 .. Gemm(plan, w0).k - 1, ok |-> TRUE]
      /\ plan \in Plans /\ IsHere(plan, w0, t0)
  BY StoreIsWhole
<1>2. t0 \in Tiles(plan, w0)
  BY <1>1 DEF IsHere
<1>3. cell0 \in DOMAIN mem
  BY <1>1, <1>2, TargetOf DEF MemInv
<1>4. \A view \in Views : Sees(c, cell0, view)
  BY DEF Views, Sees
<1>5. CASE ~(w0 = "fc2" /\ plan.fusedSum)
  <2>1. mem' = [mem EXCEPT ![cell0] = {<<w0, t0>>}]
    BY <1>1, <1>5 DEF StoreTile
  <2>. QED
    BY <1>3, <1>5, <2>1
<1>6. CASE w0 = "fc2" /\ plan.fusedSum
  <2>1. PICK view \in Views :
          mem' = [mem EXCEPT ![cell0] =
                    IF acc[c] = [parts |-> 0 .. Gemm(plan, w0).k - 1, ok |-> TRUE] /\ Sees(c, cell0, view)
                         /\ mem[cell0] \cap (Left \cup Wrong \cup {<<w0, t0>>}) = {}
                    THEN mem[cell0] \cup {<<w0, t0>>} ELSE Wrong]
    BY <1>6 DEF StoreTile
  <2>2. mem' = [mem EXCEPT ![cell0] = IF mem[cell0] \cap (Left \cup Wrong \cup {<<w0, t0>>}) = {}
                                      THEN mem[cell0] \cup {<<w0, t0>>} ELSE Wrong]
    BY <1>1, <1>4, <2>1
  <2>. QED
    BY <1>3, <1>6, <2>2
<1>. QED
  BY <1>5, <1>6

LEMMA StoreMem ==
  ASSUME InOrder, SchedulesAgree, StageInv, BarrierInv, SumInv, MemInv, NEW c \in CTAs, StoreTile(c)
  PROVE  MemInv'
<1>1. PICK w0 \in Gemms : w0 = Work(c)
  BY StoreIsWhole
<1>2. PICK t0 : t0 = Piece(c).tile
  OBVIOUS
<1>3. PICK cell0 : cell0 = Target(plan, w0, t0)
  OBVIOUS
<1>4. /\ ~IsStored(w0, t0) /\ plan' = plan /\ seg' = seg /\ Grid' = Grid
      /\ \A w \in Gemms : \A t : IsStored(w, t)' <=> IsStored(w, t) \/ (w = w0 /\ t = t0)
      /\ \A w \in Strided : Has(plan, w) => \A d \in Grid : Strode(d, w)' => Strode(d, w)
      /\ \A w, cell : AliveCell(w, cell)' <=> AliveCell(w, cell)
  BY <1>1, <1>2, StoreStores
<1>5. /\ DOMAIN mem' = DOMAIN mem /\ cell0 \in DOMAIN mem
      /\ \A cell \in DOMAIN mem : cell # cell0 => mem'[cell] = mem[cell]
      /\ ~(w0 = "fc2" /\ plan.fusedSum) => mem'[cell0] = {<<w0, t0>>}
      /\ (w0 = "fc2" /\ plan.fusedSum) /\ mem[cell0] \cap (Left \cup Wrong \cup {<<w0, t0>>}) = {} =>
           mem'[cell0] = mem[cell0] \cup {<<w0, t0>>}
  BY <1>1, <1>2, <1>3, StoreWrites
<1>6. launched > 0 /\ c \in Grid /\ plan \in Plans /\ at[c] \in Working /\ seg[c] = SegOf(plan, w0) /\ IsHere(plan, w0, t0)
  BY <1>1, <1>2, StoreIsWhole
<1>7. /\ t0 \in Tiles(plan, w0) /\ BlockOf(plan, w0, t0) \notin plan.dead
  BY <1>6 DEF IsHere
<1>8. /\ w0 = "fc1" /\ plan.gated => cell0 = <<"cache13", t0>>
      /\ w0 = "fc1" /\ ~plan.gated => cell0 = <<"activated", t0>>
      /\ w0 = "fc2" /\ ~plan.fusedSum => cell0 = <<"cache13", t0>>
      /\ w0 = "fc2" /\ plan.fusedSum => cell0[1] = "output"
  BY <1>3, <1>6, <1>7, TargetOf
<1>9. (DOMAIN mem = Cells(plan))'
  BY <1>4, <1>5 DEF MemInv
<1>10. DOMAIN mem = Cells(plan)
  BY DEF MemInv
<1>11. w0 \in {"fc1", "fc2"}
  BY DEF Gemms
<1>12. Rotated'
  <2>. SUFFICES ASSUME plan.rotated, NEW d \in Grid, Strode(d, "rotate")', NEW cell \in Share(plan, "rotate", d)
               PROVE  mem'[cell] = {<<"rotate", cell[2]>>}
    BY <1>4 DEF Rotated
  <2>1. Strode(d, "rotate")
    BY <1>4 DEF Strided, Has
  <2>2. cell \in Cells(plan) /\ cell[1] = "a"
    BY SharesAreCells
  <2>3. cell # cell0
    BY <1>8, <1>11, <2>2
  <2>4. mem[cell] = {<<"rotate", cell[2]>>}
    BY <2>1 DEF MemInv, Rotated
  <2>. QED
    BY <1>5, <1>10, <2>2, <2>3, <2>4
<1>13. Activated'
  <2>. SUFFICES ASSUME plan.gated, NEW d \in Grid, Strode(d, "activate")', NEW cell \in Share(plan, "activate", d),
                       AliveCell("activate", cell)
               PROVE  mem'[cell] = {<<"activate", cell[2]>>}
    BY <1>4 DEF Activated
  <2>1. Strode(d, "activate")
    BY <1>4 DEF Strided, Has
  <2>2. cell \in Cells(plan) /\ cell[1] = "activated"
    BY SharesAreCells
  <2>3. cell # cell0
    BY <1>8, <1>11, <2>2
  <2>4. mem[cell] = {<<"activate", cell[2]>>}
    BY <2>1 DEF MemInv, Activated
  <2>. QED
    BY <1>5, <1>10, <2>2, <2>3, <2>4
<1>14. Zeroed'
  <2>. SUFFICES ASSUME plan.mapped, NEW d \in Grid, Strode(d, "zero")', NEW cell \in Share(plan, "zero", d),
                       cell[2] \div plan.n2 \in plan.dead
               PROVE  mem'[cell] = {}
    BY <1>4 DEF Zeroed
  <2>0. "zero" \in Strided /\ Has(plan, "zero") /\ "zero" \in Works
    BY DEF Strided, Has, Works
  <2>1. Strode(d, "zero")
    BY <1>4, <2>0
  <2>2. cell \in Cells(plan) /\ cell[1] = "cache13"
    BY SharesAreCells
  <2>3. cell # cell0
    <3>1. SUFFICES ASSUME cell = cell0 PROVE FALSE
      OBVIOUS
    <3>2. CASE w0 = "fc2"
      <4>1. cell[2] = t0
        BY <1>8, <2>2, <3>1, <3>2
      <4>. QED
        BY <1>7, <3>2, <4>1 DEF BlockOf
    <3>3. CASE w0 = "fc1"
      <4>1. SegOf(plan, "zero") > SegOf(plan, "fc1")
        <5>1. plan.gated
          BY <1>8, <2>2, <3>1, <3>3
        <5>2. /\ SegOf(plan, "fc1") < SegOf(plan, "activate") /\ SegOf(plan, "activate") < SegOf(plan, "zero")
              /\ SegOf(plan, "fc1") \in Nat /\ SegOf(plan, "activate") \in Nat /\ SegOf(plan, "zero") \in Nat
          BY <1>6, <5>1, StageOrder DEF Works, Strided, Gemms
        <5>. QED
          BY <5>2
      <4>2. ~Passed(d, "zero") /\ ~Within(d, "zero")
        BY <1>6, <2>0, <3>3, <4>1, StagesApart
      <4>. QED
        BY <2>1, <4>2 DEF Strode
    <3>. QED
      BY <1>11, <3>2, <3>3
  <2>4. mem[cell] = {}
    BY <2>1 DEF MemInv, Zeroed
  <2>. QED
    BY <1>5, <1>10, <2>2, <2>3, <2>4
<1>15. Fc1Stored'
  <2>. SUFFICES ASSUME plan.gated => \A d \in Grid : seg[d] <= SegOf(plan, "activate"),
                       NEW t \in Tiles(plan, "fc1"), IsStored("fc1", t)'
               PROVE  mem'[Target(plan, "fc1", t)] = {<<"fc1", t>>}
    BY <1>4 DEF Fc1Stored
  <2>1. IsStored("fc1", t) \/ (w0 = "fc1" /\ t = t0)
    BY <1>4 DEF Gemms
  <2>2. CASE w0 = "fc1" /\ t = t0
    BY <1>3, <1>5, <2>2
  <2>3. CASE IsStored("fc1", t) /\ ~(w0 = "fc1" /\ t = t0)
    <3>1. mem[Target(plan, "fc1", t)] = {<<"fc1", t>>}
      BY <2>3 DEF MemInv, Fc1Stored
    <3>2. /\ Target(plan, "fc1", t) \in Cells(plan)
          /\ plan.gated => Target(plan, "fc1", t) = <<"cache13", t>>
          /\ ~plan.gated => Target(plan, "fc1", t) = <<"activated", t>>
      BY <1>6, TargetOf DEF Gemms
    <3>3. Target(plan, "fc1", t) # cell0
      <4>1. CASE w0 = "fc1"
        BY <1>8, <2>3, <3>2, <4>1
      <4>2. CASE w0 = "fc2"
        <5>1. ~plan.gated
          <6>1. SUFFICES ASSUME plan.gated PROVE FALSE
            OBVIOUS
          <6>2. /\ SegOf(plan, "activate") < SegOf(plan, "fc2")
                /\ SegOf(plan, "activate") \in Nat /\ SegOf(plan, "fc2") \in Nat
            BY <1>6, <6>1, StageOrder DEF Works, Strided, Gemms
          <6>. QED
            BY <1>6, <4>2, <6>1, <6>2
        <5>. QED
          BY <1>8, <3>2, <4>2, <5>1
      <4>. QED
        BY <1>11, <4>1, <4>2
    <3>. QED
      BY <1>5, <1>10, <3>1, <3>2, <3>3
  <2>. QED
    BY <2>1, <2>2, <2>3
<1>16. Fc2Stored'
  <2>. SUFFICES ASSUME ~plan.fusedSum, NEW t \in Tiles(plan, "fc2"), IsStored("fc2", t)'
               PROVE  mem'[Target(plan, "fc2", t)] = {<<"fc2", t>>}
    BY <1>4 DEF Fc2Stored
  <2>1. IsStored("fc2", t) \/ (w0 = "fc2" /\ t = t0)
    BY <1>4 DEF Gemms
  <2>2. CASE w0 = "fc2" /\ t = t0
    BY <1>3, <1>5, <2>2
  <2>3. CASE IsStored("fc2", t) /\ ~(w0 = "fc2" /\ t = t0)
    <3>1. mem[Target(plan, "fc2", t)] = {<<"fc2", t>>}
      BY <2>3 DEF MemInv, Fc2Stored
    <3>2. Target(plan, "fc2", t) \in Cells(plan) /\ Target(plan, "fc2", t) = <<"cache13", t>>
      BY <1>6, TargetOf DEF Gemms
    <3>3. w0 # "fc1"
      <4>1. SUFFICES ASSUME w0 = "fc1" PROVE FALSE
        OBVIOUS
      <4>2. /\ SegOf(plan, "fc1") < SegOf(plan, "fc2")
            /\ SegOf(plan, "fc1") \in Nat /\ SegOf(plan, "fc2") \in Nat
        BY <1>6, StageOrder DEF Works, Gemms
      <4>3. SegOf(plan, "fc2") > seg[c] /\ "fc2" \in Gemms
        BY <1>6, <4>1, <4>2 DEF Gemms
      <4>. QED
        BY <1>6, <2>3, <4>3, NotStoredYet
    <3>4. Target(plan, "fc2", t) # cell0
      BY <1>8, <1>11, <2>3, <3>2, <3>3
    <3>. QED
      BY <1>5, <1>10, <3>1, <3>2, <3>4
  <2>. QED
    BY <2>1, <2>2, <2>3
<1>17. Fc2Summed'
  <2>. SUFFICES ASSUME plan.fusedSum, NEW d \in Grid, Strode(d, "prezero")', NEW cell \in Share(plan, "prezero", d)
               PROVE  mem'[cell] = Summed(cell)'
    BY <1>4 DEF Fc2Summed
  <2>1. Strode(d, "prezero")
    BY <1>4 DEF Strided, Has
  <2>2. cell \in Cells(plan) /\ cell[1] = "output"
    BY SharesAreCells
  <2>3. mem[cell] = Summed(cell)
    BY <2>1 DEF MemInv, Fc2Summed
  <2>4. Summed(cell)' = {<<"fc2", t>> : t \in {t \in Tiles(plan, "fc2") :
                           (IsStored("fc2", t) \/ (w0 = "fc2" /\ t = t0)) /\ Target(plan, "fc2", t) = cell}}
    <3>1. \A t : IsStored("fc2", t)' <=> IsStored("fc2", t) \/ (w0 = "fc2" /\ t = t0)
      BY <1>4 DEF Gemms
    <3>. QED
      BY <1>4, <3>1 DEF Summed
  <2>5. CASE w0 = "fc2" /\ cell = cell0
    <3>1. Summed(cell)' = Summed(cell) \cup {<<"fc2", t0>>}
      BY <1>3, <1>7, <2>4, <2>5 DEF Summed
    <3>2. mem[cell0] \cap (Left \cup Wrong \cup {<<"fc2", t0>>}) = {}
      <4>1. \A e \in Summed(cell) : \E t : e = <<"fc2", t>> /\ IsStored("fc2", t)
        BY DEF Summed
      <4>2. ~IsStored("fc2", t0)
        BY <1>4, <2>5
      <4>3. \A e \in mem[cell0] : e # <<"left", 0>> /\ e # <<"wrong", 0>> /\ e # <<"fc2", t0>>
        BY <2>3, <2>5, <4>1, <4>2
      <4>. QED
        BY <4>3 DEF Left, Wrong
    <3>3. mem'[cell0] = mem[cell0] \cup {<<"fc2", t0>>}
      BY <1>5, <2>5, <3>2
    <3>. QED
      BY <2>3, <2>5, <3>1, <3>3
  <2>6. CASE ~(w0 = "fc2" /\ cell = cell0)
    <3>1. Summed(cell)' = Summed(cell)
      BY <1>3, <2>4, <2>6 DEF Summed
    <3>2. cell # cell0
      BY <1>8, <1>11, <2>2, <2>6
    <3>. QED
      BY <1>5, <1>10, <2>2, <2>3, <3>1, <3>2
  <2>. QED
    BY <2>5, <2>6
<1>. QED
  BY <1>9, <1>12, <1>13, <1>14, <1>15, <1>16, <1>17 DEF MemInv

-----------------------------------------------------------------------------
(* The end of a launch and the next one. *)

\* At the end of a launch all CTAs are through all stages.
LEMMA EndedIsDone ==
  ASSUME SchedulesAgree, StageInv, BarrierInv, launched > 0, Ended
  PROVE  /\ \A w \in Works : Has(plan, w) => \A d \in Grid : Strode(d, w)
         /\ \A w \in Gemms : \A x \in SlicesOf(plan, w) : IsDone(w, x)
<1>1. plan \in Plans
  BY DEF BarrierInv, BarrierType
<1>2. \A d \in Grid : d \in CTAs /\ at[d] = "out" /\ AtStage(plan, d, at[d], seg[d], job[d], todo[d])
  BY <1>1, GridOfPlan DEF Ended, StageInv
<1>3. ASSUME NEW w \in Works, Has(plan, w), NEW d \in Grid PROVE Strode(d, w)
  <2>1. /\ seg[d] = Len(Body(plan)) /\ job[d] = Len(Body(plan)[seg[d]]) /\ todo[d] = <<>>
        /\ seg[d] \in 1 .. Len(Body(plan))
    BY <1>2 DEF AtStage
  <2>2. Len(Body(plan)) \in Nat /\ Len(Body(plan)[seg[d]]) \in Nat
    BY <1>1, <2>1, BodyOfPlan, StageOrder DEF Works, Gemms
  <2>3. SegOf(plan, w) \in 1 .. Len(Body(plan)) /\ JobOf(plan, w) \in 1 .. Len(Body(plan)[SegOf(plan, w)])
    BY <1>1, <1>3, BodyOfPlan
  <2>4. CASE SegOf(plan, w) = seg[d]
    <3>1. JobOf(plan, w) <= job[d] /\ JobOf(plan, w) \in Nat /\ job[d] \in Nat
      BY <2>1, <2>2, <2>3, <2>4
    <3>2. job[d] > JobOf(plan, w) \/ job[d] = JobOf(plan, w)
      BY <3>1
    <3>. QED
      BY <2>1, <2>4, <3>2 DEF Strode, Passed, Within
  <2>5. CASE SegOf(plan, w) # seg[d]
    <3>1. seg[d] > SegOf(plan, w)
      BY <2>1, <2>2, <2>3, <2>5
    <3>. QED
      BY <3>1 DEF Strode, Passed
  <2>. QED
    BY <2>4, <2>5
<1>4. ASSUME NEW w \in Gemms, NEW x \in SlicesOf(plan, w) PROVE IsDone(w, x)
  <2>1. x[1] \in Grid
    BY DEF SlicesOf, Grid
  <2>2. Strode(x[1], w)
    BY <1>3, <2>1, GemmsWork DEF GemmsAreWorks
  <2>. QED
    BY <2>2, StrodeIsDone
<1>. QED
  BY <1>3, <1>4

\* And then no turn is left.
LEMMA EndedLocks ==
  ASSUME SchedulesAgree, StageInv, BarrierInv, Unlaunched, launched > 0 => TurnInv, Ended
  PROVE  \A s \in Slots : lock[s] = 0
<1>1. CASE launched = 0
  BY <1>1 DEF Unlaunched
<1>2. CASE launched # 0
  <2>1. launched > 0
    BY <1>2 DEF StageInv
  <2>. SUFFICES ASSUME NEW s \in Slots, lock[s] # 0 PROVE FALSE
    OBVIOUS
  <2>2. PICK w \in Gemms : \E x, y \in Shared(w) : Due(w, x, y) /\ Slot(w, y) = s /\ lock[s] = Idx(w, y)
    BY <2>1 DEF TurnInv, LockIsDue
  <2>3. PICK x \in Shared(w), y \in Shared(w) : Due(w, x, y)
    BY <2>2
  <2>4. IsDone(w, y)
    BY <2>1, EndedIsDone DEF Shared
  <2>. QED
    BY <2>3, <2>4 DEF Due, IsPublished
<1>. QED
  BY <1>1, <1>2

\* Nothing is done of a new launch.
LEMMA LaunchBegins ==
  ASSUME SchedulesAgree, NEW p \in Plans, Start(p)
  PROVE  /\ plan' = p
         /\ \A w \in Strided : Has(p, w) => \A c \in 0 .. GridX(p) - 1 : ~Strode(c, w)'
         /\ \A w \in Gemms : \A x \in SlicesOf(p, w) :
              ~IsDone(w, x)' /\ ~IsPublished(w, x)' /\ ~IsTaken(w, x)' /\ \A a \in AtPiece : ~IsAt(w, x, a)'
<1>1. plan' = p
  BY DEF Start
<1>2. ASSUME NEW c \in 0 .. GridX(p) - 1
      PROVE  /\ at'[c] = "work" /\ seg'[c] = 1 /\ job'[c] = 1 /\ todo'[c] = PlannedPieces(p, Body(p)[1][1], c)
  <2>1. c \in CTAs /\ c < GridX(p)
    BY GridIsNat DEF CTAs
  <2>. QED
    BY <2>1, Launched
<1>3. ASSUME NEW w \in Works, Has(p, w), NEW c \in 0 .. GridX(p) - 1
      PROVE  ~Passed(c, w)' /\ (Within(c, w)' => todo'[c] = PlannedPieces(p, w, c))
  <2>1. SegOf(p, w) \in 1 .. Len(Body(p)) /\ JobOf(p, w) \in 1 .. Len(Body(p)[SegOf(p, w)])
        /\ Body(p)[SegOf(p, w)][JobOf(p, w)] = w
    BY <1>3, BodyOfPlan
  <2>2. SegOf(p, w) \in Nat \ {0} /\ JobOf(p, w) \in Nat \ {0}
    BY <2>1, StageOrder
  <2>3. Passed(c, w)' <=> seg'[c] > SegOf(p, w) \/ (seg'[c] = SegOf(p, w) /\ job'[c] > JobOf(p, w))
    BY <1>1 DEF Passed
  <2>4. Within(c, w)' <=> seg'[c] = SegOf(p, w) /\ job'[c] = JobOf(p, w)
    BY <1>1 DEF Within
  <2>5. ~Passed(c, w)'
    BY <1>2, <2>2, <2>3
  <2>6. Within(c, w)' => Body(p)[1][1] = w
    BY <1>2, <2>1, <2>4
  <2>. QED
    BY <1>2, <2>5, <2>6
<1>4. ASSUME NEW w \in Strided, Has(p, w), NEW c \in 0 .. GridX(p) - 1 PROVE ~Strode(c, w)'
  <2>1. ~Passed(c, w)' /\ (Within(c, w)' => todo'[c] = PlannedPieces(p, w, c))
    BY <1>3, <1>4 DEF Works
  <2>2. PlannedPieces(p, w, c) # <<>>
    BY DEF PlannedPieces
  <2>. QED
    BY <2>1, <2>2 DEF Strode
<1>5. ASSUME NEW w \in Gemms, NEW x \in SlicesOf(p, w)
      PROVE  ~IsDone(w, x)' /\ ~IsPublished(w, x)' /\ ~IsTaken(w, x)' /\ \A a \in AtPiece : ~IsAt(w, x, a)'
  <2>1. x[1] \in 0 .. GridX(p) - 1
    BY DEF SlicesOf
  <2>2. w \in Works /\ Has(p, w) /\ w \notin Strided
    BY DEF Works, Gemms, Has, Strided
  <2>3. ~Passed(x[1], w)' /\ (Within(x[1], w)' => todo'[x[1]] = FromLive(p, w, Pieces(p, w, x[1])))
    BY <1>3, <2>1, <2>2 DEF PlannedPieces
  <2>4. IsDone(w, x)' <=> \/ Passed(x[1], w)'
                          \/ Within(x[1], w)' /\ x[2] + Len(todo'[x[1]]) <= Len(Pieces(p, w, x[1]))
    BY <1>1 DEF IsDone
  <2>5. ~(x[2] + Len(FromLive(p, w, Pieces(p, w, x[1]))) <= Len(Pieces(p, w, x[1])))
    BY NoneBehind
  <2>6. ~IsDone(w, x)'
    BY <2>3, <2>4, <2>5
  <2>7. \A a \in {"turn", "publish", "store"} : ~IsAt(w, x, a)'
    <3>1. at'[x[1]] = "work"
      BY <1>2, <2>1
    <3>. SUFFICES ASSUME NEW a \in {"turn", "publish", "store"}, IsAt(w, x, a)' PROVE FALSE
      OBVIOUS
    <3>2. at'[x[1]] = a
      BY DEF IsAt
    <3>. QED
      BY <3>1, <3>2
  <2>8. ~IsAt(w, x, "store")' /\ ~IsAt(w, x, "publish")'
    BY <2>7
  <2>9. ~IsPublished(w, x)' /\ ~IsTaken(w, x)'
    BY <2>6, <2>8 DEF IsPublished, IsTaken
  <2>. QED
    BY <2>6, <2>7, <2>9 DEF AtPiece
<1>. QED
  BY <1>1, <1>4, <1>5

LEMMA LaunchKeeps ==
  ASSUME SchedulesAgree, StageInv, BarrierInv, Unlaunched, launched > 0 => TurnInv, Launch
  PROVE  TurnInv' /\ SumInv' /\ MemInv'
<1>1. PICK p \in Plans : Start(p)
  BY DEF Launch
<1>2. lock' = lock /\ \A s \in Slots : lock[s] = 0
  BY EndedLocks DEF Launch, words
<1>3. /\ plan' = p
      /\ \A w \in Strided : Has(p, w) => \A c \in 0 .. GridX(p) - 1 : ~Strode(c, w)'
      /\ \A w \in Gemms : \A x \in SlicesOf(p, w) :
           ~IsDone(w, x)' /\ ~IsPublished(w, x)' /\ ~IsTaken(w, x)' /\ \A a \in AtPiece : ~IsAt(w, x, a)'
  BY <1>1, LaunchBegins
<1>4. /\ \A w : SlicesOf(plan, w)' = SlicesOf(p, w)
      /\ \A w : Shared(w)' \subseteq SlicesOf(p, w)
  BY <1>3 DEF SlicesOf, Shared
<1>5. TurnInv'
  <2>1. TurnsInOrder'
    BY <1>3, <1>4 DEF TurnsInOrder
  <2>2. LockIsNext'
    BY <1>3, <1>4 DEF LockIsNext, Due
  <2>3. LockIsDue'
    BY <1>2 DEF LockIsDue
  <2>. QED
    BY <2>1, <2>2, <2>3 DEF TurnInv
<1>6. SumInv'
  <2>1. ScratchIsSum'
    BY <1>3, <1>4 DEF ScratchIsSum
  <2>2. AccIsSum'
    <3>1. \A w \in Gemms : \A x \in SlicesOf(p, w) :
            ~IsAt(w, x, "turn")' /\ ~IsAt(w, x, "publish")' /\ ~IsAt(w, x, "store")'
      BY <1>3 DEF AtPiece
    <3>. QED
      BY <1>4, <3>1 DEF AccIsSum
  <2>. QED
    BY <2>1, <2>2 DEF SumInv
<1>7. MemInv'
  <2>1. Grid' = 0 .. GridX(p) - 1
    BY <1>3 DEF Grid
  <2>2. (DOMAIN mem = Cells(plan))'
    BY <1>1, <1>3 DEF Start
  <2>3. \A w \in Gemms : \A t : ~IsStored(w, t)'
    <3>1. \A w, t : IsStored(w, t)' <=> \E x \in SlicesOf(p, w) :
                      It(p, w, x).tile = t /\ IsLast(It(p, w, x)) /\ IsDone(w, x)'
      BY <1>3 DEF IsStored
    <3>. QED
      BY <1>3, <3>1
  <2>4. Rotated'
    BY <1>3, <2>1 DEF Rotated, Strided, Has
  <2>5. Activated'
    BY <1>3, <2>1 DEF Activated, Strided, Has
  <2>6. Zeroed'
    BY <1>3, <2>1 DEF Zeroed, Strided, Has
  <2>7. Fc1Stored'
    BY <2>3 DEF Fc1Stored, Gemms
  <2>8. Fc2Stored'
    BY <2>3 DEF Fc2Stored, Gemms
  <2>9. Fc2Summed'
    BY <1>3, <2>1 DEF Fc2Summed, Strided, Has
  <2>. QED
    BY <2>2, <2>4, <2>5, <2>6, <2>7, <2>8, <2>9 DEF MemInv
<1>. QED
  BY <1>5, <1>6, <1>7

\* The words of the workspace keep their type.
LEMMA NextWords ==
  ASSUME SchedulesAgree, StageInv, BarrierInv, WordsInv, [Next]_vars
  PROVE  WordsInv'
<1>1. CASE Launch
  <2>1. PICK p \in Plans : Start(p)
    BY <1>1 DEF Launch
  <2>2. DOMAIN acc' = CTAs /\ DOMAIN ctmp' = Gemms \X Slots
    BY <2>1 DEF Start, Gemms
  <2>3. count' = count /\ lock' = lock
    BY <1>1 DEF Launch, words
  <2>4. launched' \in 0 .. Launches
    BY <1>1, KernelAssumption DEF Launch, WordsInv
  <2>. QED
    BY <2>2, <2>3, <2>4 DEF WordsInv
<1>2. ASSUME NEW c \in CTAs, Step(c) PROVE WordsInv'
  <2>1. CASE Stride(c) \/ NextStage(c) \/ LoadSense(c) \/ ReleaseSense(c) \/ Pass(c)
    BY <2>1 DEF Stride, NextStage, LoadSense, ReleaseSense, Pass, WordsInv, words
  <2>2. CASE Multiply(c) \/ StoreTile(c)
    BY <2>2 DEF Multiply, StoreTile, WordsInv, words
  <2>3. CASE TakeTurn(c)
    <3>1. UNCHANGED <<launched, words>>
      BY <2>3 DEF TakeTurn
    <3>2. DOMAIN acc' = DOMAIN acc
      BY <2>3 DEF TakeTurn
    <3>3. DOMAIN ctmp' = DOMAIN ctmp
      BY <2>3 DEF TakeTurn
    <3>. QED
      BY <3>1, <3>2, <3>3 DEF WordsInv, words
  <2>4. CASE PublishTurn(c)
    <3>1. UNCHANGED <<launched, count, ctmp>> /\ DOMAIN acc' = DOMAIN acc
      BY <2>4 DEF PublishTurn
    <3>2. lock' \in [Slots -> Nat]
      <4>1. lock' = [lock EXCEPT ![Piece(c).slot] = 0] \/ lock' = [lock EXCEPT ![Piece(c).slot] = @ + 1]
        BY <2>4 DEF PublishTurn
      <4>2. Piece(c).slot \in Slots
        <5>1. at[c] = "publish"
          BY <2>4 DEF PublishTurn
        <5>2. PICK w \in Gemms : w = Work(c)
          BY <5>1, TurnIsShared
        <5>3. PICK x \in Shared(w) : It(plan, w, x) = Piece(c)
          BY <5>1, <5>2, TurnIsShared
        <5>4. plan \in Plans
          BY DEF BarrierInv, BarrierType
        <5>5. Slot(w, x) \in Slots
          BY <5>3, <5>4, SharedSlices
        <5>. QED
          BY <5>3, <5>5 DEF Slot
      <4>. QED
        BY <4>1, <4>2 DEF WordsInv
    <3>. QED
      BY <3>1, <3>2 DEF WordsInv
  <2>5. CASE Arrive(c)
    BY <2>5 DEF Arrive, WordsInv
  <2>6. CASE ResetCount(c)
    BY <2>6 DEF ResetCount, WordsInv
  <2>. QED
    BY <1>2, <2>1, <2>2, <2>3, <2>4, <2>5, <2>6 DEF Step
<1>3. CASE UNCHANGED vars
  BY <1>3 DEF WordsInv, vars, words
<1>. QED
  BY <1>1, <1>2, <1>3 DEF Next

LEMMA StutterKernel ==
  ASSUME UNCHANGED vars, LaunchedInv, Unlaunched
  PROVE  LaunchedInv' /\ Unlaunched'
<1>1. /\ UNCHANGED <<plan, pieces, launched, at, seg, job, todo, acc, old, sense, count, lock, ctmp, mem, late>>
  BY DEF vars, control, words
<1>2. SameTurns /\ SameSums
  BY <1>1 DEF SameTurns, SameSums, IsPublished, IsTaken, IsDone, IsAt, Passed, Within
<1>3. TurnInv => TurnInv'
  BY <1>1, <1>2, SameTurnsKept
<1>4. SumInv => SumInv'
  BY <1>1, <1>2, SameScratchKept, SameSumsKept DEF SumInv
<1>5. MemInv => MemInv'
  <2>. SUFFICES ASSUME MemInv PROVE MemInv'
    OBVIOUS
  <2>1. \A w, x : IsDone(w, x)' <=> IsDone(w, x)
    BY <1>1 DEF IsDone, Passed, Within
  <2>2. \A w, d : Strode(d, w)' <=> Strode(d, w)
    BY <1>1 DEF Strode, Passed, Within
  <2>. QED
    BY <1>1, <2>1, <2>2, MemKept
<1>6. Unlaunched'
  BY <1>1 DEF Unlaunched
<1>. QED
  BY <1>1, <1>3, <1>4, <1>5, <1>6 DEF LaunchedInv

-----------------------------------------------------------------------------
(* Every launch computes what it should. *)

KernelInv == BarrierInv /\ StageInv /\ WordsInv /\ Unlaunched /\ LaunchedInv

LEMMA InitKernel == Init => KernelInv
<1>. SUFFICES ASSUME Init PROVE KernelInv
  OBVIOUS
<1>1. BarrierInv /\ StageInv
  BY InitBarrier, InitStage
<1>2. WordsInv
  BY KernelAssumption DEF Init, WordsInv, Gemms
<1>3. Unlaunched /\ LaunchedInv
  BY DEF Init, Unlaunched, LaunchedInv
<1>. QED
  BY <1>1, <1>2, <1>3 DEF KernelInv

LEMMA StepKernel ==
  ASSUME InOrder, KLoopMultiplies, SchedulesAgree, KernelInv, BarrierInv', NEW c \in CTAs, Step(c)
  PROVE  Unlaunched' /\ LaunchedInv'
<1>1. BarrierInv /\ StageInv /\ WordsInv
  BY DEF KernelInv
<1>2. at[c] # "out"
  BY DEF Step, Stride, Multiply, TakeTurn, PublishTurn, StoreTile, NextStage, LoadSense, Arrive, ResetCount,
         ReleaseSense, Pass
<1>3. launched > 0 /\ c \in Grid
  BY <1>1, <1>2, ActiveCTA
<1>4. TurnInv /\ SumInv /\ MemInv
  BY <1>3 DEF KernelInv, LaunchedInv
<1>5. launched' = launched
  BY DEF Step, Stride, Multiply, TakeTurn, PublishTurn, StoreTile, NextStage, LoadSense, Arrive, ResetCount,
         ReleaseSense, Pass
<1>6. TurnInv'
  <2>1. CASE TakeTurn(c)
    BY <1>1, <1>4, <2>1, TakeTurnTurns
  <2>2. CASE PublishTurn(c)
    BY <1>1, <1>4, <2>2, PublishTurnTurns
  <2>3. CASE \/ Stride(c) \/ Multiply(c) \/ StoreTile(c) \/ NextStage(c)
             \/ LoadSense(c) \/ Arrive(c) \/ ResetCount(c) \/ ReleaseSense(c) \/ Pass(c)
    <3>1. SameTurns /\ plan' = plan /\ lock' = lock
      BY <1>1, <2>3, OthersKeepTurns
    <3>. QED
      BY <1>4, <3>1, SameTurnsKept
  <2>. QED
    BY <2>1, <2>2, <2>3 DEF Step
<1>7. SumInv'
  <2>1. CASE TakeTurn(c)
    BY <1>1, <1>4, <2>1, TakeTurnSums
  <2>2. CASE PublishTurn(c)
    BY <1>1, <1>4, <2>2, PublishTurnSums
  <2>3. CASE Multiply(c)
    BY <1>1, <1>4, <2>3, MultiplySums
  <2>4. CASE \/ Stride(c) \/ StoreTile(c) \/ NextStage(c)
             \/ LoadSense(c) \/ Arrive(c) \/ ResetCount(c) \/ ReleaseSense(c) \/ Pass(c)
    BY <1>1, <1>4, <2>4, OthersKeepSums
  <2>. QED
    BY <2>1, <2>2, <2>3, <2>4 DEF Step
<1>8. MemInv'
  <2>1. CASE Stride(c)
    BY <1>1, <1>4, <2>1, StrideMem
  <2>2. CASE StoreTile(c)
    BY <1>1, <1>4, <2>2, StoreMem
  <2>3. CASE \/ Multiply(c) \/ TakeTurn(c) \/ PublishTurn(c) \/ NextStage(c)
             \/ LoadSense(c) \/ Arrive(c) \/ ResetCount(c) \/ ReleaseSense(c) \/ Pass(c)
    BY <1>1, <1>4, <2>3, OthersKeepMem
  <2>. QED
    BY <2>1, <2>2, <2>3 DEF Step
<1>9. Unlaunched'
  BY <1>3, <1>5 DEF Unlaunched
<1>. QED
  BY <1>6, <1>7, <1>8, <1>9 DEF LaunchedInv

LEMMA NextKernel ==
  ASSUME InOrder, KLoopMultiplies, SchedulesAgree, KernelInv, [Next]_vars
  PROVE  KernelInv'
<1>1. BarrierInv /\ StageInv /\ WordsInv
  BY DEF KernelInv
<1>2. BarrierInv' /\ StageInv' /\ WordsInv'
  BY <1>1, NextBarrier, NextStageInv, NextWords
<1>3. Unlaunched' /\ LaunchedInv'
  <2>1. CASE Launch
    <3>1. TurnInv' /\ SumInv' /\ MemInv'
      BY <1>1, <2>1, LaunchKeeps DEF KernelInv, LaunchedInv
    <3>2. launched' # 0
      <4>1. launched' = launched + 1 /\ launched \in Nat
        BY <1>1, <2>1 DEF Launch, StageInv
      <4>. QED
        BY <4>1
    <3>. QED
      BY <3>1, <3>2 DEF LaunchedInv, Unlaunched
  <2>2. ASSUME NEW c \in CTAs, Step(c) PROVE Unlaunched' /\ LaunchedInv'
    BY <1>2, <2>2, StepKernel
  <2>3. CASE UNCHANGED vars
    BY <2>3, StutterKernel DEF KernelInv
  <2>. QED
    BY <2>1, <2>2, <2>3 DEF Next
<1>. QED
  BY <1>2, <1>3 DEF KernelInv

\* What the stages leave when all CTAs are through.
LEMMA EndedComputes ==
  ASSUME SchedulesAgree, KernelInv, Ended, launched > 0, NEW t \in Tiles(plan, "fc2")
  PROVE  LET here == t \div plan.n2 \notin plan.dead
             cell == Target(plan, "fc2", t)
         IN /\ here /\ ~plan.fusedSum => mem[cell] = {<<"fc2", t>>}
            /\ here /\ plan.fusedSum =>
                 mem[cell] = {<<"fc2", u>> : u \in {u \in Tiles(plan, "fc2") :
                                u \div plan.n2 \notin plan.dead /\ Target(plan, "fc2", u) = cell}}
            /\ ~here /\ plan.mapped => mem[cell] = {}
<1>. DEFINE here(u) == u \div plan.n2 \notin plan.dead
<1>1. BarrierInv /\ StageInv /\ MemInv /\ plan \in Plans
  BY DEF KernelInv, LaunchedInv, BarrierInv, BarrierType
<1>2. \A w \in Works : Has(plan, w) => \A d \in Grid : Strode(d, w)
  BY <1>1, EndedIsDone
<1>3. \A d \in Grid : Strode(d, "fc2")
  BY <1>2 DEF Works, Gemms, Has
<1>4. \A u \in Tiles(plan, "fc2") : IsHere(plan, "fc2", u) <=> here(u)
  BY DEF IsHere, BlockOf
<1>5. \A u \in Tiles(plan, "fc2") : here(u) => IsStored("fc2", u) /\ GridX(plan) # 0
  <2>. SUFFICES ASSUME NEW u \in Tiles(plan, "fc2"), here(u) PROVE IsStored("fc2", u) /\ GridX(plan) # 0
    OBVIOUS
  <2>1. IsHere(plan, "fc2", u) /\ "fc2" \in Gemms
    BY <1>4 DEF Gemms
  <2>. QED
    BY <1>1, <1>3, <2>1, DoneIsStored
<1>6. \A u \in Tiles(plan, "fc2") : IsStored("fc2", u) => here(u)
  <2>. SUFFICES ASSUME NEW u \in Tiles(plan, "fc2"), IsStored("fc2", u) PROVE here(u)
    OBVIOUS
  <2>1. IsHere(plan, "fc2", u)
    BY <1>1, StoredIsHere DEF Gemms
  <2>. QED
    BY <1>4, <2>1
<1>7. GridX(plan) # 0 => \A i \in Nat : Owner(plan, i) \in Grid
  BY <1>1, OwnerOf DEF Grid
<1>. DEFINE cell == Target(plan, "fc2", t)
<1>8. ASSUME here(t), ~plan.fusedSum PROVE mem[cell] = {<<"fc2", t>>}
  BY <1>1, <1>5, <1>8 DEF MemInv, Fc2Stored
<1>9. ASSUME here(t), plan.fusedSum
      PROVE  mem[cell] = {<<"fc2", u>> : u \in {u \in Tiles(plan, "fc2") : here(u) /\ Target(plan, "fc2", u) = cell}}
  <2>1. PICK i \in OutCells(plan) : cell = <<"output", i>>
    BY <1>1, <1>9, TargetOf DEF Gemms
  <2>2. Owner(plan, i) \in Grid
    BY <1>1, <1>5, <1>7, <1>9, NumbersOfStage
  <2>3. Strode(Owner(plan, i), "prezero")
    BY <1>2, <1>9, <2>2 DEF Works, Strided, Has
  <2>4. cell \in Share(plan, "prezero", Owner(plan, i))
    BY <2>1, ShareOf
  <2>5. mem[cell] = Summed(cell)
    BY <1>1, <1>9, <2>2, <2>3, <2>4 DEF MemInv, Fc2Summed
  <2>6. {u \in Tiles(plan, "fc2") : IsStored("fc2", u) /\ Target(plan, "fc2", u) = cell}
          = {u \in Tiles(plan, "fc2") : here(u) /\ Target(plan, "fc2", u) = cell}
    <3>. HIDE DEF here, cell
    <3>. QED
      BY <1>5, <1>6
  <2>. QED
    BY <2>5, <2>6 DEF Summed
<1>10. ASSUME ~here(t), plan.mapped PROVE mem[cell] = {}
  <2>1. ~plan.direct /\ ~plan.fusedSum
    BY <1>1, <1>10, PlanKinds
  <2>2. cell = <<"cache13", t>>
    BY <2>1 DEF Target
  <2>3. GridX(plan) # 0
    <3>1. Sms \in Nat \ {0} /\ plan.perSM \in 1 .. 4
      BY <1>1, NumbersOfPlan
    <3>2. GridX(plan) = Sms * plan.perSM
      BY <2>1 DEF GridX
    <3>3. plan.perSM \in Nat \ {0}
      BY <3>1
    <3>. QED
      BY <3>1, <3>2, <3>3, PositiveProduct
  <2>4. Owner(plan, t) \in Grid
    BY <1>1, <1>7, <2>3, NumbersOfStage DEF Gemms
  <2>5. Strode(Owner(plan, t), "zero")
    BY <1>2, <1>10, <2>4 DEF Works, Strided, Has
  <2>6. cell \in Share(plan, "zero", Owner(plan, t))
    BY <2>2, ShareOf
  <2>7. cell[2] \div plan.n2 \in plan.dead
    BY <1>10, <2>2
  <2>. QED
    BY <1>1, <1>10, <2>4, <2>5, <2>6, <2>7 DEF MemInv, Zeroed
<1>. QED
  BY <1>8, <1>9, <1>10

LEMMA KernelComputes == SchedulesAgree /\ KernelInv => LaunchComputes
<1>. SUFFICES ASSUME SchedulesAgree, KernelInv PROVE LaunchComputes
  OBVIOUS
<1>1. BarrierInv /\ StageInv /\ WordsInv /\ Unlaunched /\ LaunchedInv
  BY DEF KernelInv
<1>2. TypeOK
  BY <1>1 DEF TypeOK, BarrierInv, BarrierType, Places, StageInv, WordsInv
<1>3. TurnsApart
  BY <1>1, TurnsKeepApart DEF LaunchedInv
<1>4. Ended => count = 0
  <2>. SUFFICES ASSUME Ended PROVE count = 0
    OBVIOUS
  <2>1. Grid \subseteq CTAs
    BY <1>1, GridOfPlan DEF BarrierInv, BarrierType
  <2>2. Arrived = {} /\ \A c \in Grid : ~Closes(c)
    BY <2>1 DEF Ended, Arrived, Closes
  <2>. QED
    BY <1>1, <2>2, FS_EmptySet DEF BarrierInv, CountIsArrived
<1>5. Ended => \A s \in Slots : lock[s] = 0
  BY <1>1, EndedLocks DEF LaunchedInv
<1>. QED
  BY <1>2, <1>3, <1>4, <1>5, EndedComputes DEF LaunchComputes

-----------------------------------------------------------------------------
(* The schedule of every GEMM is one the CTAs agree on. *)

\* A place among multiples is the quotient.
LEMMA PlaceIsQuotient ==
  ASSUME NEW a \in Int, NEW b \in Nat \ {0}, NEW q \in Int, b * q <= a, a < b * q + b
  PROVE  a \div b = q
<1>. DEFINE r == a \div b
<1>1. r \in Int /\ b * r \in Int /\ b * r <= a /\ a < b * r + b
  BY QuotientIsPlace
<1>. HIDE DEF r
<1>2. b * q \in Int /\ b * (q + 1) = b * q + b /\ b * (r + 1) = b * r + b
  BY <1>1
<1>3. b * q < b * (r + 1) /\ b * r < b * (q + 1)
  BY <1>1, <1>2
<1>4. q < r + 1 /\ r < q + 1
  BY <1>1, <1>3, ProductOrder
<1>. QED
  BY <1>1, <1>4 DEF r

\* The first and the last CTA of tile j, when each computes iters K tiles of those of
\* all tiles, k to a tile.
FirstCTA(iters, k, j) == (k * j) \div iters
LastCTA(iters, k, j) == (k * (j + 1) - 1) \div iters
Meets(iters, k, c, j) == iters * c < k * (j + 1) /\ k * j < iters * (c + 1)

LEMMA MeetsIs ==
  ASSUME NEW iters \in Nat \ {0}, NEW k \in Nat \ {0}, NEW c \in Int, NEW j \in Int
  PROVE  /\ FirstCTA(iters, k, j) \in Int /\ LastCTA(iters, k, j) \in Int
         /\ FirstCTA(iters, k, j) <= LastCTA(iters, k, j)
         /\ Meets(iters, k, c, j) <=> FirstCTA(iters, k, j) <= c /\ c <= LastCTA(iters, k, j)
<1>. DEFINE a == k * j
            e == k * (j + 1) - 1
            f == a \div iters
            l == e \div iters
<1>1. a \in Int /\ e = a + k - 1 /\ k * (j + 1) = a + k
  OBVIOUS
<1>. HIDE DEF a, e
<1>2. f \in Int /\ iters * f \in Int /\ iters * f <= a /\ a < iters * f + iters
  BY <1>1, QuotientIsPlace
<1>3. l \in Int /\ iters * l \in Int /\ iters * l <= e /\ e < iters * l + iters
  BY <1>1, QuotientIsPlace
<1>. HIDE DEF f, l
<1>4. iters * (f + 1) = iters * f + iters /\ iters * (l + 1) = iters * l + iters
  BY <1>2, <1>3
<1>5. f <= l
  <2>1. iters * f < iters * (l + 1)
    BY <1>1, <1>2, <1>3, <1>4
  <2>2. f < l + 1
    BY <1>2, <1>3, <2>1, ProductOrder
  <2>. QED
    BY <1>2, <1>3, <2>2
<1>6. iters * c \in Int /\ iters * (c + 1) \in Int
  OBVIOUS
<1>7. a < iters * (c + 1) <=> f <= c
  <2>1. ASSUME a < iters * (c + 1) PROVE f <= c
    <3>1. iters * f < iters * (c + 1)
      BY <1>1, <1>2, <1>6, <2>1
    <3>2. f < c + 1
      BY <1>2, <3>1, ProductOrder
    <3>. QED
      BY <1>2, <3>2
  <2>2. ASSUME f <= c PROVE a < iters * (c + 1)
    <3>1. iters * (f + 1) <= iters * (c + 1)
      BY <1>2, <2>2, ProductOrder
    <3>. QED
      BY <1>1, <1>2, <1>4, <1>6, <3>1
  <2>. QED
    BY <2>1, <2>2
<1>8. iters * c < a + k <=> c <= l
  <2>1. ASSUME iters * c < a + k PROVE c <= l
    <3>1. iters * c < iters * (l + 1)
      BY <1>1, <1>3, <1>4, <1>6, <2>1
    <3>2. c < l + 1
      BY <1>3, <3>1, ProductOrder
    <3>. QED
      BY <1>3, <3>2
  <2>2. ASSUME c <= l PROVE iters * c < a + k
    <3>1. iters * c <= iters * l
      BY <1>3, <2>2, ProductOrder
    <3>. QED
      BY <1>1, <1>3, <1>6, <3>1
  <2>. QED
    BY <2>1, <2>2
<1>. QED
  BY <1>1, <1>2, <1>3, <1>5, <1>7, <1>8 DEF Meets, FirstCTA, LastCTA, f, l, a, e

\* A tile is computed in as many slices as CTAs meet it, and their places in it go down.
LEMMA SlicesAre ==
  ASSUME NEW iters \in Nat \ {0}, NEW k \in Nat \ {0}, NEW c \in Int, NEW j \in Int, Meets(iters, k, c, j)
  PROVE  /\ Slices(iters, k, c, j).count = LastCTA(iters, k, j) - FirstCTA(iters, k, j) + 1
         /\ Slices(iters, k, c, j).idx = LastCTA(iters, k, j) - c
<1>. DEFINE a == k * j
            up == Ceil(a, iters)
            boundary == iters * up
            offset == boundary - a
            delta == iters * c - boundary
            extra == IF offset > 0 THEN 1 ELSE 0
            more == Ceil(k - offset, iters)
            slices == more + extra
            idx == IF delta < 0 \/ (offset = 0 /\ delta = 0) THEN slices - 1
                   ELSE slices - 1 - delta \div iters - extra
            first == FirstCTA(iters, k, j)
            last == LastCTA(iters, k, j)
<1>1. a \in Int /\ k * (j + 1) = a + k
  OBVIOUS
<1>2. Slices(iters, k, c, j) = IF boundary <= a + k THEN [count |-> slices, idx |-> idx] ELSE [count |-> 1, idx |-> 0]
  BY <1>1 DEF Slices
<1>3. first = a \div iters /\ last = (a + k - 1) \div iters
  BY <1>1 DEF FirstCTA, LastCTA
<1>4. first \in Int /\ last \in Int /\ first <= c /\ c <= last
  BY MeetsIs
<1>. HIDE DEF first, last, a
<1>5. up \in Int /\ boundary \in Int /\ boundary >= a /\ boundary < a + iters
  BY <1>1, CeilIsPlace
<1>. HIDE DEF up
<1>6. iters * (up - 1) = boundary - iters /\ iters * c \in Int
  BY <1>5
<1>7. first = up - extra
  <2>1. CASE offset = 0
    <3>1. iters * up <= a /\ a < iters * up + iters
      BY <1>1, <1>5, <2>1
    <3>2. a \div iters = up
      BY <1>1, <1>5, <3>1, PlaceIsQuotient
    <3>. QED
      BY <1>3, <1>5, <2>1, <3>2
  <2>2. CASE offset > 0
    <3>1. iters * (up - 1) <= a /\ a < iters * (up - 1) + iters
      <4>. HIDE DEF boundary
      <4>. QED
        BY <1>1, <1>5, <1>6, <2>2
    <3>2. a \div iters = up - 1
      <4>. DEFINE q == up - 1
      <4>1. q \in Int /\ iters * q <= a /\ a < iters * q + iters
        BY <1>5, <3>1
      <4>. HIDE DEF q
      <4>2. a \div iters = q
        BY <1>1, <4>1, PlaceIsQuotient
      <4>. QED
        BY <4>2 DEF q
    <3>. QED
      BY <1>3, <1>5, <2>2, <3>2
  <2>3. offset = 0 \/ offset > 0
    <3>. HIDE DEF boundary
    <3>. QED
      BY <1>1, <1>5
  <2>. QED
    BY <2>1, <2>2, <2>3
<1>8. CASE boundary <= a + k
  <2>1. k - offset = a + k - boundary /\ k - offset \in Int
    BY <1>1, <1>5
  <2>2. more \in Int /\ iters * more \in Int /\ iters * more >= k - offset /\ iters * more < k - offset + iters
    BY <2>1, CeilIsPlace
  <2>. HIDE DEF more
  <2>3. last = up + more - 1
    <3>1. iters * (up + more - 1) = boundary + iters * more - iters
      BY <1>5, <2>2
    <3>. HIDE DEF boundary
    <3>2. iters * (up + more - 1) <= a + k - 1 /\ a + k - 1 < iters * (up + more - 1) + iters
      BY <1>1, <1>5, <2>1, <2>2, <3>1
    <3>3. (a + k - 1) \div iters = up + more - 1
      <4>. DEFINE q == up + more - 1
                  e == a + k - 1
      <4>1. q \in Int /\ e \in Int
        BY <1>1, <1>5, <2>2
      <4>2. iters * q <= e /\ e < iters * q + iters
        BY <3>2
      <4>. HIDE DEF q, e
      <4>3. e \div iters = q
        BY <4>1, <4>2, PlaceIsQuotient
      <4>. QED
        BY <4>3 DEF q, e
    <3>. QED
      BY <1>3, <3>3
  <2>4. slices = last - first + 1
    BY <1>5, <1>7, <2>2, <2>3
  <2>5. iters * (c - up) = delta /\ delta \in Int
    BY <1>5
  <2>6. idx = last - c
    <3>1. CASE delta < 0
      <4>1. iters * c < iters * up
        BY <1>5, <1>6, <3>1
      <4>2. c < up
        BY <1>5, <4>1, ProductOrder
      <4>3. extra = 1 /\ c = first
        <5>1. extra = 1 \/ extra = 0
          OBVIOUS
        <5>. HIDE DEF extra
        <5>. QED
          BY <1>4, <1>5, <1>7, <4>2, <5>1
      <4>. QED
        BY <1>4, <2>4, <3>1, <4>3
    <3>2. CASE offset = 0 /\ delta = 0
      <4>1. iters * c = iters * up
        BY <1>5, <1>6, <3>2
      <4>2. c <= up /\ up <= c
        BY <1>5, <4>1, ProductOrder
      <4>3. c = first
        BY <1>4, <1>5, <1>7, <3>2, <4>2
      <4>. QED
        BY <1>4, <2>4, <3>2, <4>3
    <3>3. CASE ~(delta < 0) /\ ~(offset = 0 /\ delta = 0)
      <4>1. delta \div iters = c - up
        <5>. DEFINE d == delta
        <5>1. d \in Int /\ c - up \in Int /\ iters * (c - up) <= d /\ d < iters * (c - up) + iters
          BY <1>5, <2>5
        <5>. HIDE DEF d
        <5>2. d \div iters = c - up
          BY <5>1, PlaceIsQuotient
        <5>. QED
          BY <5>2 DEF d
      <4>2. idx = slices - 1 - (c - up) - extra
        BY <3>3, <4>1
      <4>3. extra \in Int
        OBVIOUS
      <4>. HIDE DEF slices, extra, idx
      <4>. QED
        BY <1>4, <1>5, <1>7, <2>4, <4>2, <4>3
    <3>. QED
      BY <3>1, <3>2, <3>3
  <2>. HIDE DEF slices, idx, first, last, boundary
  <2>. QED
    BY <1>2, <1>8, <2>4, <2>6 DEF first, last
<1>9. CASE ~(boundary <= a + k)
  <2>1. last = up - 1
    <3>1. iters * (up - 1) <= a + k - 1 /\ a + k - 1 < iters * (up - 1) + iters
      <4>. HIDE DEF boundary
      <4>. QED
        BY <1>1, <1>5, <1>6, <1>9
    <3>2. (a + k - 1) \div iters = up - 1
      <4>. DEFINE q == up - 1
                  e == a + k - 1
      <4>1. q \in Int /\ e \in Int
        BY <1>1, <1>5
      <4>2. iters * q <= e /\ e < iters * q + iters
        BY <3>1
      <4>. HIDE DEF q, e
      <4>3. e \div iters = q
        BY <4>1, <4>2, PlaceIsQuotient
      <4>. QED
        BY <4>3 DEF q, e
    <3>. QED
      BY <1>3, <3>2
  <2>2. extra = 1
    <3>. HIDE DEF boundary
    <3>. QED
      BY <1>1, <1>5, <1>9
  <2>3. last = first /\ c = last
    BY <1>4, <1>5, <1>7, <2>1, <2>2
  <2>. HIDE DEF slices, idx, first, last, boundary
  <2>. QED
    BY <1>2, <1>4, <1>9, <2>3 DEF first, last
<1>. QED
  BY <1>8, <1>9

\* A launch has a CTA.
LEMMA GridIsPositive == ASSUME NEW p \in Plans PROVE GridX(p) \in Nat \ {0}
<1>. DEFINE cap == Sms * p.perSM
            fc1 == p.blocks * p.n1
            waves == Ceil(fc1, cap)
<1>1. cap \in Nat \ {0} /\ fc1 \in Nat \ {0}
  <2>1. Sms \in Nat \ {0} /\ p.perSM \in Nat \ {0}
    BY NumbersOfPlan
  <2>. QED
    BY <2>1, NumbersOfPlan, PositiveProduct
<1>. HIDE DEF cap, fc1
<1>2. waves \in Nat \ {0} /\ waves <= fc1
  <2>1. waves \in Int /\ cap * waves \in Int /\ cap * waves >= fc1 /\ cap * waves < fc1 + cap
    <3>1. \A a \in Int, b \in Nat \ {0} : Ceil(a, b) \in Int /\ b * Ceil(a, b) \in Int /\ b * Ceil(a, b) >= a
                                          /\ b * Ceil(a, b) < a + b
      BY CeilIsPlace
    <3>. QED
      BY <1>1, <3>1
  <2>. HIDE DEF waves
  <2>2. cap * 0 < cap * waves
    BY <1>1, <2>1
  <2>3. 0 < waves
    BY <1>1, <2>1, <2>2, ProductOrder
  <2>4. cap * waves < cap * (fc1 + 1)
    <3>1. cap * (fc1 + 1) = cap * fc1 + cap /\ cap * fc1 >= fc1
      <4>1. cap * fc1 = fc1 + (cap - 1) * fc1 /\ (cap - 1) * fc1 >= 0
        BY <1>1
      <4>2. cap * fc1 \in Int /\ (cap - 1) * fc1 \in Int
        BY <1>1
      <4>3. cap * (fc1 + 1) = cap * fc1 + cap
        BY <1>1
      <4>. QED
        BY <1>1, <4>1, <4>2, <4>3
    <3>2. cap * fc1 \in Int
      BY <1>1
    <3>. QED
      BY <1>1, <2>1, <3>1, <3>2
  <2>5. waves < fc1 + 1
    BY <1>1, <2>1, <2>4, ProductOrder
  <2>. QED
    BY <1>1, <2>1, <2>3, <2>5
<1>. HIDE DEF waves
<1>3. fc1 \div waves \in Nat \ {0}
  BY <1>1, <1>2, PositiveQuotient
<1>4. \/ GridX(p) = cap
      \/ GridX(p) = (IF fc1 < cap THEN fc1 ELSE cap)
      \/ GridX(p) = fc1 \div waves
  BY DEF GridX, Gemm, cap, fc1, waves
<1>. QED
  BY <1>1, <1>3, <1>4

\* The full waves cover the tiles before the tail, and nothing of the tail.
LEMMA WavesAre ==
  ASSUME NEW p \in Plans, NEW w \in Gemms
  PROVE  LET g == Gemm(p, w) v == Waves(p, g) IN
         /\ v.full \in Nat /\ v.tail \in 0 .. g.mn
         /\ GridX(p) * v.full \in Nat /\ g.mn - v.tail <= GridX(p) * v.full
         /\ v.tail # 0 => g.mn - v.tail = GridX(p) * v.full
<1>. DEFINE g == Gemm(p, w)
            grid == GridX(p)
            mn == g.mn
            rest == mn % grid
            part == IF rest * 3 <= grid THEN rest + grid ELSE rest
<1>1. grid \in Nat \ {0} /\ mn \in Nat \ {0}
  BY GridIsPositive, NumbersOfGemm
<1>2. Waves(p, g).tail \in 0 .. mn
  BY <1>1, TailIsPart
<1>3. Waves(p, g) = IF p.whole THEN [full |-> Ceil(mn, grid), tail |-> 0]
                    ELSE IF p.m8 /\ mn <= grid THEN [full |-> 1, tail |-> 0]
                    ELSE IF mn > grid THEN [full |-> (mn - part) \div grid, tail |-> part]
                    ELSE [full |-> 0, tail |-> mn]
  BY DEF Waves
<1>. HIDE DEF grid, mn
<1>4. CASE p.whole
  <2>. DEFINE up == Ceil(mn, grid)
  <2>1. up \in Int /\ grid * up \in Int /\ grid * up >= mn
    BY <1>1, CeilIsPlace
  <2>. HIDE DEF up
  <2>2. grid * 0 < grid * up
    BY <1>1, <2>1
  <2>3. up \in Nat
    BY <1>1, <2>1, <2>2, ProductOrder
  <2>4. Waves(p, g).full = up /\ Waves(p, g).tail = 0
    BY <1>3, <1>4 DEF up
  <2>5. grid * up \in Nat /\ mn - 0 <= grid * up
    BY <1>1, <2>1
  <2>. QED
    BY <1>2, <2>3, <2>4, <2>5 DEF grid, mn
<1>5. CASE ~p.whole /\ p.m8 /\ mn <= grid
  <2>1. Waves(p, g).full = 1 /\ Waves(p, g).tail = 0
    BY <1>3, <1>5
  <2>2. grid * 1 \in Nat /\ mn - 0 <= grid * 1
    BY <1>1, <1>5
  <2>. QED
    BY <1>2, <2>1, <2>2 DEF grid, mn
<1>6. CASE ~p.whole /\ ~(p.m8 /\ mn <= grid) /\ mn > grid
  <2>. DEFINE q == mn \div grid
  <2>1. q \in Int /\ grid * q \in Int /\ grid * q <= mn /\ mn < grid * q + grid /\ rest = mn - grid * q
    BY <1>1, QuotientIsPlace
  <2>. HIDE DEF q, rest
  <2>2. grid * 0 < grid * q /\ grid * (q - 1) = grid * q - grid
    BY <1>1, <1>6, <2>1
  <2>3. 0 < q
    BY <1>1, <2>1, <2>2, ProductOrder
  <2>. DEFINE full == IF rest * 3 <= grid THEN q - 1 ELSE q
  <2>4. full \in Nat /\ mn - part = grid * full
    BY <1>1, <2>1, <2>2, <2>3
  <2>. HIDE DEF full
  <2>5. mn - part \in Nat /\ part \in Int
    <3>1. grid * full \in Nat
      BY <1>1, <2>4
    <3>2. part \in Int
      BY <1>1, <2>1
    <3>. QED
      BY <2>4, <3>1, <3>2
  <2>6. (mn - part) \div grid = full
    <3>. DEFINE e == mn - part
    <3>1. e \in Int /\ grid * full <= e /\ e < grid * full + grid
      BY <1>1, <2>4, <2>5
    <3>. HIDE DEF e
    <3>2. e \div grid = full
      BY <1>1, <2>4, <3>1, PlaceIsQuotient
    <3>. QED
      BY <3>2 DEF e
  <2>7. Waves(p, g).full = full /\ Waves(p, g).tail = part
    BY <1>3, <1>6, <2>6
  <2>. HIDE DEF part
  <2>8. grid * full \in Nat /\ mn - part <= grid * full
    BY <1>1, <2>4, <2>5
  <2>. QED
    BY <1>2, <2>4, <2>7, <2>8 DEF grid, mn
<1>7. CASE ~p.whole /\ ~(p.m8 /\ mn <= grid) /\ ~(mn > grid)
  <2>1. Waves(p, g).full = 0 /\ Waves(p, g).tail = mn
    BY <1>3, <1>7
  <2>2. grid * 0 = 0 /\ mn - mn = 0
    BY <1>1
  <2>. QED
    BY <1>2, <2>1, <2>2 DEF grid, mn
<1>. QED
  BY <1>4, <1>5, <1>6, <1>7

\* The CTAs have a K tile each for all of the tail.
LEMMA TailIsShared ==
  ASSUME NEW p \in Plans, NEW w \in Gemms
  PROVE  LET g == Gemm(p, w) IN
         /\ Iters(p, g) \in Nat /\ (Waves(p, g).tail # 0 => Iters(p, g) \in Nat \ {0})
         /\ \A j \in 0 .. Waves(p, g).tail - 1 :
              FirstCTA(Iters(p, g), g.k, j) >= 0 /\ LastCTA(Iters(p, g), g.k, j) < GridX(p)
<1>. DEFINE g == Gemm(p, w)
            iters == Iters(p, g)
            tail == Waves(p, g).tail
            grid == GridX(p)
            k == g.k
<1>1. grid \in Nat \ {0} /\ k \in Nat \ {0} /\ tail \in Nat
  BY GridIsPositive, NumbersOfGemm, WavesAre
<1>2. iters \in Nat /\ (tail # 0 => iters \in Nat \ {0})
  BY <1>1, ItersIsNat
<1>3. grid * iters >= k * tail /\ k * tail \in Int
  <2>1. k * tail \in Int
    BY <1>1
  <2>2. iters = Ceil(k * tail, grid)
    BY DEF Iters
  <2>. DEFINE all == k * tail
  <2>. HIDE DEF grid, iters, all
  <2>3. grid * Ceil(all, grid) >= all
    BY <1>1, <2>1, CeilIsPlace DEF all
  <2>. QED
    BY <2>1, <2>2, <2>3 DEF all
<1>. HIDE DEF grid, iters, tail, k
<1>4. ASSUME NEW j \in 0 .. tail - 1 PROVE FirstCTA(iters, k, j) >= 0 /\ LastCTA(iters, k, j) < grid
  <2>1. iters \in Nat \ {0} /\ j \in Nat /\ j + 1 <= tail
    BY <1>1, <1>2
  <2>2. 0 <= k * j /\ k * (j + 1) <= k * tail
    BY <1>1, <2>1, ProductOrder
  <2>. DEFINE a == k * j
              e == k * (j + 1) - 1
              f == a \div iters
              l == e \div iters
  <2>3. a \in Int /\ e \in Int /\ 0 <= a /\ e < iters * grid
    <3>1. iters * grid = grid * iters /\ grid * iters \in Int /\ k * j \in Int /\ k * (j + 1) \in Int
      BY <1>1, <2>1
    <3>. QED
      BY <1>3, <2>2, <3>1
  <2>. HIDE DEF a, e
  <2>4. f \in Int /\ iters * f \in Int /\ a < iters * f + iters
    BY <2>1, <2>3, QuotientIsPlace
  <2>5. l \in Int /\ iters * l \in Int /\ iters * l <= e
    BY <2>1, <2>3, QuotientIsPlace
  <2>. HIDE DEF f, l
  <2>6. iters * (f + 1) = iters * f + iters /\ iters * 0 = 0 /\ iters * grid \in Int
    BY <1>1, <2>1, <2>4
  <2>7. iters * 0 < iters * (f + 1) /\ iters * l < iters * grid
    <3>1. iters * 0 < iters * (f + 1)
      BY <2>1, <2>3, <2>4, <2>6
    <3>2. iters * l < iters * grid
      <4>. DEFINE x == iters * l
                  y == iters * grid
      <4>1. x \in Int /\ y \in Int /\ x <= e /\ e < y
        BY <2>3, <2>5, <2>6
      <4>. HIDE DEF x, y
      <4>2. x < y
        BY <2>3, <4>1
      <4>. QED
        BY <4>2 DEF x, y
    <3>. QED
      BY <3>1, <3>2
  <2>8. 0 < f + 1 /\ l < grid
    BY <1>1, <2>1, <2>4, <2>5, <2>7, ProductOrder
  <2>. QED
    BY <2>4, <2>8 DEF FirstCTA, LastCTA, f, l, a, e
<1>. QED
  BY <1>2, <1>4 DEF grid, iters, tail, k

\* What a CTA computes of the tail: the tiles it meets, one after another from its first.
LEMMA TailTilesAre ==
  ASSUME NEW p \in Plans, NEW w \in Gemms, NEW c \in 0 .. GridX(p) - 1
  PROVE  LET g == Gemm(p, w)
             first == (Iters(p, g) * c) \div g.k
         IN /\ first \in Nat /\ Cardinality(TailTiles(p, g, c)) \in Nat
            /\ \A j : j \in TailTiles(p, g, c) <=> j \in 0 .. Waves(p, g).tail - 1 /\ Meets(Iters(p, g), g.k, c, j)
            /\ \A j : j \in TailTiles(p, g, c) <=> \E i \in 1 .. Cardinality(TailTiles(p, g, c)) : j = first + i - 1
<1>. DEFINE g == Gemm(p, w)
            iters == Iters(p, g)
            k == g.k
            at0 == iters * c
            first == at0 \div k
            tail == Waves(p, g).tail
            tiles == TailTiles(p, g, c)
            end == iters * (c + 1) - 1
            over == end \div k
            top == IF over < tail - 1 THEN over ELSE tail - 1
<1>1. c \in Nat /\ k \in Nat \ {0} /\ tail \in Nat /\ iters \in Nat
  BY GridIsPositive, NumbersOfGemm, WavesAre, TailIsShared
<1>2. first \in Nat
  BY TailTilesAreNumbers
<1>3. tiles = {j \in first .. tail - 1 : iters * (c + 1) > k * j}
  BY DEF TailTiles
<1>. HIDE DEF g, iters, k, tail, tiles
<1>4. at0 \in Int /\ end \in Int
  BY <1>1
<1>5. k * first \in Int /\ k * first <= at0 /\ at0 < k * first + k
  <2>. HIDE DEF at0
  <2>. QED
    BY <1>1, <1>4, QuotientIsPlace
<1>6. over \in Int /\ k * over \in Int /\ k * over <= end /\ end < k * over + k
  <2>. HIDE DEF end
  <2>. QED
    BY <1>1, <1>4, QuotientIsPlace
<1>. HIDE DEF first, over
<1>7. \A j \in Int : iters * (c + 1) > k * j <=> j <= over
  <2>. TAKE j \in Int
  <2>1. k * (over + 1) = k * over + k /\ k * j \in Int /\ iters * (c + 1) = end + 1
    BY <1>1, <1>4, <1>6
  <2>2. ASSUME iters * (c + 1) > k * j PROVE j <= over
    <3>1. k * j < k * (over + 1)
      <4>. HIDE DEF end
      <4>. QED
        BY <1>1, <1>4, <1>6, <2>1, <2>2
    <3>2. j < over + 1
      BY <1>1, <1>6, <3>1, ProductOrder
    <3>. QED
      BY <1>6, <3>2
  <2>3. ASSUME j <= over PROVE iters * (c + 1) > k * j
    <3>1. k * j <= k * over
      BY <1>1, <1>6, <2>3, ProductOrder
    <3>. HIDE DEF end
    <3>. QED
      BY <1>4, <1>6, <2>1, <3>1
  <2>. QED
    BY <2>2, <2>3
<1>8. \A j \in Int : at0 < k * (j + 1) <=> first <= j
  <2>. TAKE j \in Int
  <2>1. k * (first + 1) = k * first + k /\ k * (j + 1) \in Int
    BY <1>1, <1>2
  <2>2. ASSUME at0 < k * (j + 1) PROVE first <= j
    <3>1. k * first < k * (j + 1)
      <4>. HIDE DEF at0
      <4>. QED
        BY <1>4, <1>5, <2>1, <2>2
    <3>2. first < j + 1
      BY <1>1, <1>2, <3>1, ProductOrder
    <3>. QED
      BY <1>2, <3>2
  <2>3. ASSUME first <= j PROVE at0 < k * (j + 1)
    <3>1. k * (first + 1) <= k * (j + 1)
      BY <1>1, <1>2, <2>3, ProductOrder
    <3>. HIDE DEF at0
    <3>. QED
      BY <1>1, <1>2, <1>4, <1>5, <2>1, <3>1
  <2>. QED
    BY <2>2, <2>3
<1>9. \A j : j \in tiles <=> j \in 0 .. tail - 1 /\ Meets(iters, k, c, j)
  <2>. TAKE j
  <2>1. j \in tiles <=> j \in first .. tail - 1 /\ k * j < iters * (c + 1)
    <3>1. ASSUME NEW i \in Int PROVE iters * (c + 1) > k * i <=> k * i < iters * (c + 1)
      OBVIOUS
    <3>. QED
      BY <1>2, <1>3, <3>1
  <2>2. ASSUME j \in Int PROVE first <= j <=> at0 < k * (j + 1)
    BY <1>8, <2>2
  <2>. QED
    BY <1>1, <1>2, <2>1, <2>2 DEF Meets
<1>10. top \in Int /\ tiles = first .. top
  <2>1. top \in Int
    BY <1>1, <1>6
  <2>2. ASSUME NEW j PROVE j \in tiles <=> j \in first .. top
    BY <1>1, <1>2, <1>3, <1>6, <1>7
  <2>. QED
    BY <2>1, <2>2
<1>. HIDE DEF top
<1>11. Cardinality(tiles) = IF first > top THEN 0 ELSE top - first + 1
  BY <1>2, <1>10, FS_Interval
<1>12. Cardinality(tiles) \in Nat
  BY <1>2, <1>10, <1>11
<1>13. ASSUME NEW j PROVE j \in tiles <=> \E i \in 1 .. Cardinality(tiles) : j = first + i - 1
  <2>1. ASSUME j \in tiles PROVE \E i \in 1 .. Cardinality(tiles) : j = first + i - 1
    <3>1. j - first + 1 \in 1 .. Cardinality(tiles) /\ j = first + (j - first + 1) - 1
      BY <1>2, <1>10, <1>11, <2>1
    <3>. QED
      BY <3>1
  <2>2. ASSUME NEW i \in 1 .. Cardinality(tiles), j = first + i - 1 PROVE j \in tiles
    BY <1>2, <1>10, <1>11, <2>2
  <2>. QED
    BY <2>1, <2>2
<1>. QED
  BY <1>2, <1>9, <1>12, <1>13 DEF first, at0, tiles, tail, iters, k, g

\* The pieces of a CTA: whole tiles a grid apart, and slices of the tiles it meets.
LEMMA PiecesAre ==
  ASSUME NEW p \in Plans, NEW w \in Gemms, NEW c \in 0 .. GridX(p) - 1
  PROVE  LET g == Gemm(p, w)
             full == Waves(p, g).full
             first == (Iters(p, g) * c) \div g.k
             n == Cardinality(TailTiles(p, g, c))
         IN /\ DOMAIN Pieces(p, w, c) = 1 .. full + n
            /\ \A i \in 1 .. full : Pieces(p, w, c)[i] = OwnTile(g, c + (i - 1) * GridX(p))
            /\ \A i \in 1 .. n : Pieces(p, w, c)[full + i] = SplitTile(p, g, c, first + i - 1)
<1>. DEFINE g == Gemm(p, w)
            full == Waves(p, g).full
            first == (Iters(p, g) * c) \div g.k
            n == Cardinality(TailTiles(p, g, c))
            own == [i \in 1 .. full |-> OwnTile(g, c + (i - 1) * GridX(p))]
            split == [i \in 1 .. n |-> SplitTile(p, g, c, first + i - 1)]
<1>1. full \in Nat /\ n \in Nat
  BY WavesAre, TailTilesAre
<1>2. Pieces(p, w, c) = own \o split
  BY DEF Pieces
<1>3. Len(own) = full /\ Len(split) = n
  BY <1>1
<1>4. \A i \in 1 .. full : own[i] = OwnTile(g, c + (i - 1) * GridX(p))
  OBVIOUS
<1>5. \A i \in 1 .. n : split[i] = SplitTile(p, g, c, first + i - 1)
  OBVIOUS
<1>. HIDE DEF own, split, n, full
<1>6. DOMAIN (own \o split) = 1 .. full + n
  BY <1>1, <1>3
<1>7. \A i \in 1 .. full : (own \o split)[i] = own[i]
  BY <1>1, <1>3
<1>8. \A i \in 1 .. n : (own \o split)[full + i] = split[i]
  BY <1>1, <1>3
<1>. QED
  BY <1>2, <1>4, <1>5, <1>6, <1>7, <1>8 DEF full, n

\* The tiles of a CTA follow each other.
LEMMA TilesFollow ==
  ASSUME NEW k \in Nat \ {0}, NEW i \in Int, NEW j \in Int, i < j
  PROVE  k * (i + 1) \in Int /\ k * j \in Int /\ k * (i + 1) <= k * j
BY ProductOrder

\* When there are as many tiles as CTAs, at most two CTAs share a tile.
LEMMA TwoToATile ==
  ASSUME NEW p \in Plans, NEW w \in Gemms, Waves(p, Gemm(p, w)).tail >= GridX(p), NEW j \in Int
  PROVE  LET g == Gemm(p, w) IN LastCTA(Iters(p, g), g.k, j) <= FirstCTA(Iters(p, g), g.k, j) + 1
<1>. DEFINE g == Gemm(p, w)
            iters == Iters(p, g)
            tail == Waves(p, g).tail
            grid == GridX(p)
            k == g.k
<1>1. grid \in Nat \ {0} /\ k \in Nat \ {0} /\ tail \in Nat /\ iters \in Nat \ {0}
  BY GridIsPositive, NumbersOfGemm, WavesAre, TailIsShared
<1>2. k <= iters
  <2>1. iters = Ceil(k * tail, grid) /\ tail >= grid
    BY DEF Iters
  <2>. HIDE DEF grid, iters, k, tail
  <2>. DEFINE all == k * tail
  <2>2. all \in Int /\ k * grid <= all
    BY <1>1, <2>1, ProductOrder
  <2>. HIDE DEF all
  <2>3. grid * Ceil(all, grid) >= all
    BY <1>1, <2>2, CeilIsPlace
  <2>4. grid * k = k * grid /\ grid * k \in Int /\ grid * iters \in Int
    BY <1>1
  <2>5. grid * k <= grid * iters
    BY <2>1, <2>2, <2>3, <2>4 DEF all
  <2>. QED
    BY <1>1, <2>5, ProductOrder
<1>. HIDE DEF grid, iters, k, tail
<1>. DEFINE a == k * j
            e == k * (j + 1) - 1
            f == a \div iters
            l == e \div iters
<1>3. a \in Int /\ e \in Int /\ e = a + k - 1
  BY <1>1
<1>. HIDE DEF a, e
<1>4. f \in Int /\ iters * f \in Int /\ a < iters * f + iters
  BY <1>1, <1>3, QuotientIsPlace
<1>5. l \in Int /\ iters * l \in Int /\ iters * l <= e
  BY <1>1, <1>3, QuotientIsPlace
<1>. HIDE DEF f, l
<1>6. iters * (f + 2) = iters * f + 2 * iters /\ iters * (f + 2) \in Int
  BY <1>1, <1>4
<1>7. iters * l < iters * (f + 2)
  BY <1>1, <1>2, <1>3, <1>4, <1>5, <1>6
<1>8. l < f + 2
  BY <1>1, <1>4, <1>5, <1>7, ProductOrder
<1>. QED
  BY <1>4, <1>5, <1>8 DEF FirstCTA, LastCTA, f, l, a, e, iters, k

\* The lock word of a tile that is shared: one for all its CTAs.
LEMMA LockSlotIs ==
  ASSUME NEW p \in Plans, NEW w \in Gemms, NEW c \in 0 .. GridX(p) - 1, NEW j \in TailTiles(p, Gemm(p, w), c),
         FirstCTA(Iters(p, Gemm(p, w)), Gemm(p, w).k, j) < LastCTA(Iters(p, Gemm(p, w)), Gemm(p, w).k, j)
  PROVE  LockSlot(p, Gemm(p, w), c, j) =
           IF Waves(p, Gemm(p, w)).tail >= GridX(p) THEN LastCTA(Iters(p, Gemm(p, w)), Gemm(p, w).k, j) ELSE j
<1>. DEFINE g == Gemm(p, w)
            iters == Iters(p, g)
            k == g.k
            tail == Waves(p, g).tail
            First(i) == FirstCTA(iters, k, i)
            Last(i) == LastCTA(iters, k, i)
            Closing(i) == LET s == Slices(iters, k, c, i) IN s.count > 1 /\ s.idx = s.count - 1
            mine == TailTiles(p, g, c)
            S == {i \in mine : i <= j /\ Closing(i)}
<1>1. LockSlot(p, g, c, j) = IF tail >= GridX(p) THEN c + Cardinality(S) ELSE j
  BY DEF LockSlot
<1>2. SUFFICES ASSUME tail >= GridX(p) PROVE c + Cardinality(S) = Last(j)
  BY <1>1
<1>3. /\ c \in Nat /\ k \in Nat \ {0} /\ iters \in Nat \ {0} /\ j \in mine
      /\ \A i \in mine : i \in Nat /\ Meets(iters, k, c, i)
  <2>1. \A i \in mine : i \in 0 .. tail - 1 /\ Meets(iters, k, c, i)
    BY TailTilesAre
  <2>2. tail \in Nat /\ c \in Nat /\ k \in Nat \ {0} /\ iters \in Nat \ {0} /\ j \in mine
    BY <1>2, GridIsPositive, NumbersOfGemm, WavesAre, TailIsShared
  <2>. HIDE DEF mine, tail, iters, k
  <2>. QED
    BY <2>1, <2>2
<1>4. ASSUME NEW i \in mine
      PROVE  First(i) \in Int /\ Last(i) \in Int /\ First(i) <= c /\ c <= Last(i) /\ Last(i) <= First(i) + 1
  <2>1. i \in Int /\ c \in Int /\ Meets(iters, k, c, i)
    BY <1>3
  <2>2. Last(i) <= First(i) + 1
    BY <1>2, <2>1, TwoToATile
  <2>. HIDE DEF iters, k
  <2>3. First(i) \in Int /\ Last(i) \in Int /\ First(i) <= c /\ c <= Last(i)
    BY <1>3, <2>1, MeetsIs
  <2>. QED
    BY <2>2, <2>3
<1>5. ASSUME NEW i \in mine PROVE Closing(i) <=> First(i) < Last(i) /\ c = First(i)
  <2>1. i \in Int /\ c \in Int /\ Meets(iters, k, c, i)
    BY <1>3
  <2>. HIDE DEF iters, k
  <2>2. Slices(iters, k, c, i).count = Last(i) - First(i) + 1 /\ Slices(iters, k, c, i).idx = Last(i) - c
    BY <1>3, <2>1, SlicesAre
  <2>3. First(i) \in Int /\ Last(i) \in Int
    BY <1>4
  <2>. HIDE DEF First, Last
  <2>. QED
    BY <2>1, <2>2, <2>3
<1>6. First(j) < Last(j)
  OBVIOUS
<1>. HIDE DEF iters, k, tail
<1>7. ASSUME NEW i \in mine, NEW d \in Int, First(i) <= d, d <= Last(i) PROVE Meets(iters, k, d, i)
  <2>1. i \in Int
    BY <1>3
  <2>. QED
    BY <1>3, <1>7, <2>1, MeetsIs
<1>. HIDE DEF First, Last, Closing, mine
<1>8. c = First(j) \/ c = First(j) + 1
  BY <1>3, <1>4
<1>9. CASE c = First(j)
  <2>1. Last(j) = c + 1
    BY <1>3, <1>4, <1>6, <1>9
  <2>2. S = {j}
    <3>1. ASSUME NEW i \in mine, i <= j, First(i) < Last(i), c = First(i) PROVE i = j
      <4>1. SUFFICES ASSUME i < j PROVE FALSE
        BY <1>3, <3>1
      <4>2. Meets(iters, k, c + 1, i) /\ Meets(iters, k, c, j)
        BY <1>3, <1>4, <1>7, <3>1
      <4>3. iters * (c + 1) < k * (i + 1) /\ k * j < iters * (c + 1)
        BY <4>2 DEF Meets
      <4>4. k * (i + 1) \in Int /\ k * j \in Int /\ k * (i + 1) <= k * j
        <5>1. i \in Int /\ j \in Int
          BY <1>3, <3>1
        <5>. QED
          BY <1>3, <4>1, <5>1, TilesFollow
      <4>5. iters * (c + 1) \in Int
        BY <1>3
      <4>. QED
        BY <4>3, <4>4, <4>5
    <3>2. j \in S
      BY <1>3, <1>5, <1>6, <1>9
    <3>. QED
      BY <1>5, <3>1, <3>2
  <2>3. Cardinality(S) = 1
    BY <2>2, FS_Singleton
  <2>. QED
    BY <1>3, <2>1, <2>3
<1>10. CASE c = First(j) + 1
  <2>1. Last(j) = c
    BY <1>3, <1>4, <1>6, <1>10
  <2>2. S = {}
    <3>1. ASSUME NEW i \in mine, i <= j, c = First(i) PROVE FALSE
      <4>1. i < j
        <5>1. i # j
          BY <1>3, <1>4, <1>10, <3>1
        <5>. QED
          BY <1>3, <3>1, <5>1
      <4>2. Meets(iters, k, c, i) /\ Meets(iters, k, c - 1, j)
        BY <1>3, <1>4, <1>7, <1>10
      <4>3. iters * c < k * (i + 1) /\ k * j < iters * c
        <5>1. (c - 1) + 1 = c
          BY <1>3
        <5>. QED
          BY <4>2, <5>1 DEF Meets
      <4>4. k * (i + 1) \in Int /\ k * j \in Int /\ k * (i + 1) <= k * j
        <5>1. i \in Int /\ j \in Int
          BY <1>3, <3>1
        <5>. QED
          BY <1>3, <4>1, <5>1, TilesFollow
      <4>5. iters * c \in Int
        BY <1>3
      <4>. QED
        BY <4>3, <4>4, <4>5
    <3>. QED
      BY <1>5, <3>1
  <2>3. Cardinality(S) = 0
    BY <2>2, FS_EmptySet
  <2>. QED
    BY <1>3, <2>1, <2>3
<1>. QED
  BY <1>8, <1>9, <1>10

\* What CTA c computes of tile j of the tail.
LEMMA SliceIs ==
  ASSUME NEW p \in Plans, NEW w \in Gemms, NEW c \in 0 .. GridX(p) - 1, NEW j \in 0 .. Waves(p, Gemm(p, w)).tail - 1,
         Meets(Iters(p, Gemm(p, w)), Gemm(p, w).k, c, j)
  PROVE  LET g == Gemm(p, w)
             iters == Iters(p, g)
             first == FirstCTA(iters, g.k, j)
             last == LastCTA(iters, g.k, j)
             s == SplitTile(p, g, c, j)
         IN /\ s.tile = g.mn - Waves(p, g).tail + j
            /\ s.lo = (IF iters * c - g.k * j > 0 THEN iters * c - g.k * j ELSE 0)
            /\ s.hi = (IF iters * (c + 1) - g.k * j < g.k THEN iters * (c + 1) - g.k * j ELSE g.k)
            /\ s.count = last - first + 1 /\ s.idx = last - c
            /\ first < last => s.slot = (IF Waves(p, g).tail >= GridX(p) THEN last ELSE j)
<1>. DEFINE g == Gemm(p, w)
            iters == Iters(p, g)
            s == SplitTile(p, g, c, j)
<1>1. iters \in Nat \ {0} /\ g.k \in Nat \ {0} /\ c \in Int /\ j \in Int
  BY GridIsPositive, NumbersOfGemm, WavesAre, TailIsShared
<1>2. /\ Slices(iters, g.k, c, j).count = LastCTA(iters, g.k, j) - FirstCTA(iters, g.k, j) + 1
      /\ Slices(iters, g.k, c, j).idx = LastCTA(iters, g.k, j) - c
  BY <1>1, SlicesAre
<1>3. j \in TailTiles(p, g, c)
  BY TailTilesAre
<1>4. FirstCTA(iters, g.k, j) < LastCTA(iters, g.k, j) =>
        LockSlot(p, g, c, j) = IF Waves(p, g).tail >= GridX(p) THEN LastCTA(iters, g.k, j) ELSE j
  BY <1>3, LockSlotIs
<1>5. /\ s.tile = g.mn - Waves(p, g).tail + j
      /\ s.lo = (IF iters * c - g.k * j > 0 THEN iters * c - g.k * j ELSE 0)
      /\ s.hi = (IF iters * (c + 1) - g.k * j < g.k THEN iters * (c + 1) - g.k * j ELSE g.k)
      /\ s.count = Slices(iters, g.k, c, j).count /\ s.idx = Slices(iters, g.k, c, j).idx
      /\ s.slot = LockSlot(p, g, c, j)
  BY DEF SplitTile
<1>. HIDE DEF s, iters, g
<1>. QED
  BY <1>2, <1>4, <1>5 DEF s, iters, g

\* Where the schedule puts a tile that one CTA owns, and a slice of a tile of the tail.
WholePlace(p, t) == <<t % GridX(p), t \div GridX(p) + 1>>
SlicePlace(p, w, c, j) ==
  LET g == Gemm(p, w) IN <<c, Waves(p, g).full + j - (Iters(p, g) * c) \div g.k + 1>>

\* The tiles before the tail, and the slices of the tail.
OwnTiles(p, w) == 0 .. Gemm(p, w).mn - Waves(p, Gemm(p, w)).tail - 1
SharedTiles(p, w) == 0 .. Waves(p, Gemm(p, w)).tail - 1
MeetsTile(p, w, c, j) == Meets(Iters(p, Gemm(p, w)), Gemm(p, w).k, c, j)

ComputedBy(p, w) ==
  {x \in (0 .. GridX(p) - 1) \X Nat :
     x[2] \in DOMAIN Pieces(p, w, x[1]) /\ It(p, w, x).tile < Gemm(p, w).mn}

\* The pieces that are computed: a whole tile of those before the tail, or a slice.
LEMMA ComputedIs ==
  ASSUME NEW p \in Plans, NEW w \in Gemms, NEW x \in ComputedBy(p, w)
  PROVE  \/ \E t \in OwnTiles(p, w) : x = WholePlace(p, t) /\ It(p, w, x) = OwnTile(Gemm(p, w), t)
         \/ \E j \in SharedTiles(p, w) :
              /\ MeetsTile(p, w, x[1], j) /\ x = SlicePlace(p, w, x[1], j)
              /\ It(p, w, x) = SplitTile(p, Gemm(p, w), x[1], j)
<1>. DEFINE g == Gemm(p, w)
            grid == GridX(p)
            full == Waves(p, g).full
            tail == Waves(p, g).tail
            c == x[1]
            i == x[2]
            first == (Iters(p, g) * c) \div g.k
            n == Cardinality(TailTiles(p, g, c))
<1>1. c \in 0 .. grid - 1 /\ i \in Nat /\ x = <<c, i>> /\ i \in DOMAIN Pieces(p, w, c) /\ Pieces(p, w, c)[i].tile < g.mn
  BY DEF ComputedBy, It
<1>2. It(p, w, x) = Pieces(p, w, c)[i]
  BY DEF It
<1>3. /\ DOMAIN Pieces(p, w, c) = 1 .. full + n
      /\ \A m \in 1 .. full : Pieces(p, w, c)[m] = OwnTile(g, c + (m - 1) * grid)
      /\ \A m \in 1 .. n : Pieces(p, w, c)[full + m] = SplitTile(p, g, c, first + m - 1)
  BY <1>1, PiecesAre
<1>4. /\ full \in Nat /\ tail \in 0 .. g.mn /\ g.mn \in Nat /\ grid \in Nat \ {0}
      /\ tail # 0 => g.mn - tail = grid * full
  BY WavesAre, GridIsPositive, NumbersOfGemm
<1>5. /\ first \in Nat /\ n \in Nat
      /\ \A j : j \in TailTiles(p, g, c) <=> j \in 0 .. tail - 1 /\ Meets(Iters(p, g), g.k, c, j)
      /\ \A j : j \in TailTiles(p, g, c) <=> \E m \in 1 .. n : j = first + m - 1
  BY <1>1, TailTilesAre
<1>6. CASE i \in 1 .. full
  <2>. DEFINE t == c + (i - 1) * grid
  <2>1. It(p, w, x) = OwnTile(g, t) /\ OwnTile(g, t).tile < g.mn
    BY <1>1, <1>2, <1>3, <1>6
  <2>2. t < g.mn /\ t \in Nat
    BY <1>1, <1>4, <1>6, <2>1 DEF OwnTile
  <2>3. t < g.mn - tail
    <3>1. CASE tail = 0
      BY <1>4, <2>2, <3>1
    <3>2. CASE tail # 0
      <4>. HIDE DEF full, grid, tail, g, c, i
      <4>1. i - 1 <= full - 1 /\ i \in Int /\ full \in Int
        BY <1>1, <1>4, <1>6
      <4>2. grid * (i - 1) <= grid * (full - 1)
        BY <1>4, <4>1, ProductOrder
      <4>3. (i - 1) * grid = grid * (i - 1) /\ grid * (full - 1) = grid * full - grid /\ grid * full \in Int
            /\ grid * (i - 1) \in Int
        BY <1>1, <1>4
      <4>. QED
        BY <1>1, <1>4, <3>2, <4>2, <4>3
    <3>. QED
      BY <3>1, <3>2
  <2>4. t \in OwnTiles(p, w)
    <3>. HIDE DEF t
    <3>. QED
      BY <1>4, <2>2, <2>3 DEF OwnTiles
  <2>5. t % grid = c /\ t \div grid = i - 1
    <3>1. grid * (i - 1) <= t /\ t < grid * (i - 1) + grid /\ i - 1 \in Int /\ t - grid * (i - 1) = c
      BY <1>1, <1>4
    <3>. DEFINE q == i - 1
    <3>. HIDE DEF t, q, grid
    <3>2. t \div grid = q
      BY <1>4, <2>2, <3>1, PlaceIsQuotient DEF q
    <3>3. t % grid = t - grid * q
      <4>1. t % grid = t - grid * (t \div grid)
        <5>1. \A a \in Int, b \in Nat \ {0} : a % b = a - b * (a \div b)
          BY QuotientIsPlace
        <5>2. t \in Int /\ grid \in Nat \ {0}
          BY <1>4, <2>2
        <5>. QED
          BY <5>1, <5>2, Zenon
      <4>. QED
        BY <3>2, <4>1, Zenon
    <3>. QED
      BY <3>1, <3>2, <3>3 DEF q
  <2>6. x = WholePlace(p, t)
    BY <1>1, <2>5 DEF WholePlace
  <2>. QED
    BY <2>1, <2>4, <2>6
<1>7. CASE i \notin 1 .. full
  <2>. DEFINE m == i - full
              j == first + m - 1
  <2>1. m \in 1 .. n /\ full + m = i
    BY <1>1, <1>3, <1>4, <1>5, <1>7
  <2>2. It(p, w, x) = SplitTile(p, g, c, j)
    BY <1>2, <1>3, <2>1
  <2>3. j \in 0 .. tail - 1 /\ Meets(Iters(p, g), g.k, c, j)
    <3>. HIDE DEF m
    <3>. QED
      BY <1>5, <2>1
  <2>4. i = full + j - first + 1
    BY <1>1, <1>4, <1>5
  <2>5. x = SlicePlace(p, w, c, j)
    BY <1>1, <2>4 DEF SlicePlace
  <2>. QED
    BY <2>2, <2>3, <2>5 DEF SharedTiles, MeetsTile
<1>. QED
  BY <1>6, <1>7

\* And each of them is computed.
LEMMA WholeIsComputed ==
  ASSUME NEW p \in Plans, NEW w \in Gemms, NEW t \in OwnTiles(p, w)
  PROVE  /\ WholePlace(p, t) \in ComputedBy(p, w)
         /\ It(p, w, WholePlace(p, t)) = OwnTile(Gemm(p, w), t)
<1>. DEFINE g == Gemm(p, w)
            grid == GridX(p)
            full == Waves(p, g).full
            tail == Waves(p, g).tail
            c == t % grid
            q == t \div grid
<1>1. /\ full \in Nat /\ tail \in 0 .. g.mn /\ g.mn \in Nat /\ grid \in Nat \ {0}
      /\ g.mn - tail <= grid * full /\ grid * full \in Int
  BY WavesAre, GridIsPositive, NumbersOfGemm
<1>2. t \in Nat /\ t < g.mn - tail /\ t < g.mn
  BY <1>1 DEF OwnTiles
<1>3. q \in Int /\ grid * q \in Int /\ grid * q <= t /\ t < grid * q + grid /\ c = t - grid * q
  <2>. HIDE DEF grid, full, tail
  <2>. QED
    BY <1>1, <1>2, QuotientIsPlace
<1>4. c \in 0 .. grid - 1
  BY <1>1, <1>2, <1>3
<1>. HIDE DEF full, tail, grid, c, q
<1>5. q >= 0 /\ q < full
  <2>1. grid * (q + 1) = grid * q + grid /\ grid * 0 = 0
    BY <1>1, <1>3
  <2>2. grid * 0 < grid * (q + 1) /\ grid * q < grid * full
    BY <1>1, <1>2, <1>3, <2>1
  <2>3. 0 < q + 1 /\ q < full
    BY <1>1, <1>3, <2>2, ProductOrder
  <2>. QED
    BY <1>3, <2>3
<1>6. q + 1 \in 1 .. full /\ q + 1 \in Nat /\ c + ((q + 1) - 1) * grid = t
  <2>1. ((q + 1) - 1) * grid = grid * q
    BY <1>1, <1>3
  <2>. QED
    BY <1>1, <1>2, <1>3, <1>5, <2>1
<1>7. /\ DOMAIN Pieces(p, w, c) = 1 .. full + Cardinality(TailTiles(p, g, c))
      /\ \A m \in 1 .. full : Pieces(p, w, c)[m] = OwnTile(g, c + (m - 1) * grid)
  BY <1>4, PiecesAre DEF grid, full
<1>8. Cardinality(TailTiles(p, g, c)) \in Nat
  BY <1>4, TailTilesAre DEF grid
<1>9. Pieces(p, w, c)[q + 1] = OwnTile(g, t)
  BY <1>6, <1>7
<1>10. q + 1 \in DOMAIN Pieces(p, w, c)
  BY <1>1, <1>6, <1>7, <1>8
<1>11. OwnTile(g, t).tile < g.mn
  BY <1>2 DEF OwnTile
<1>12. WholePlace(p, t) = <<c, q + 1>>
  BY DEF WholePlace, c, q, grid
<1>13. It(p, w, <<c, q + 1>>) = OwnTile(g, t)
  BY <1>9 DEF It
<1>14. <<c, q + 1>> \in ComputedBy(p, w)
  BY <1>4, <1>6, <1>10, <1>11, <1>13 DEF ComputedBy, grid
<1>. QED
  BY <1>12, <1>13, <1>14

LEMMA SliceIsComputed ==
  ASSUME NEW p \in Plans, NEW w \in Gemms, NEW c \in 0 .. GridX(p) - 1, NEW j \in SharedTiles(p, w), MeetsTile(p, w, c, j)
  PROVE  /\ SlicePlace(p, w, c, j) \in ComputedBy(p, w)
         /\ It(p, w, SlicePlace(p, w, c, j)) = SplitTile(p, Gemm(p, w), c, j)
<1>. DEFINE g == Gemm(p, w)
            full == Waves(p, g).full
            tail == Waves(p, g).tail
            first == (Iters(p, g) * c) \div g.k
            n == Cardinality(TailTiles(p, g, c))
            i == full + j - first + 1
<1>1. full \in Nat /\ tail \in 0 .. g.mn /\ g.mn \in Nat /\ c \in Nat
  BY WavesAre, GridIsPositive, NumbersOfGemm
<1>2. j \in 0 .. tail - 1 /\ Meets(Iters(p, g), g.k, c, j)
  BY DEF SharedTiles, MeetsTile
<1>3. /\ first \in Nat /\ n \in Nat
      /\ \A y : y \in TailTiles(p, g, c) <=> y \in 0 .. tail - 1 /\ Meets(Iters(p, g), g.k, c, y)
      /\ \A y : y \in TailTiles(p, g, c) <=> \E m \in 1 .. n : y = first + m - 1
  BY TailTilesAre
<1>4. PICK m \in 1 .. n : j = first + m - 1
  BY <1>2, <1>3
<1>5. /\ DOMAIN Pieces(p, w, c) = 1 .. full + n
      /\ \A y \in 1 .. n : Pieces(p, w, c)[full + y] = SplitTile(p, g, c, first + y - 1)
  BY PiecesAre
<1>6. i = full + m /\ i \in Nat /\ i \in DOMAIN Pieces(p, w, c)
  <2>1. i = full + m /\ i \in Nat /\ i \in 1 .. full + n
    <3>1. first \in Nat /\ n \in Nat /\ m \in 1 .. n /\ j = first + m - 1
      BY <1>3, <1>4
    <3>. HIDE DEF first, full, n
    <3>. QED
      BY <1>1, <3>1
  <2>. QED
    BY <1>5, <2>1
<1>7. Pieces(p, w, c)[i] = SplitTile(p, g, c, j)
  BY <1>4, <1>5, <1>6
<1>8. SlicePlace(p, w, c, j) = <<c, i>>
  BY DEF SlicePlace
<1>9. SplitTile(p, g, c, j).tile = g.mn - tail + j
  BY DEF SplitTile
<1>10. SplitTile(p, g, c, j).tile < g.mn
  BY <1>1, <1>2, <1>9
<1>11. It(p, w, <<c, i>>) = SplitTile(p, g, c, j)
  BY <1>7 DEF It
<1>. HIDE DEF i
<1>12. <<c, i>> \in ComputedBy(p, w)
  BY <1>6, <1>10, <1>11 DEF ComputedBy
<1>. QED
  BY <1>8, <1>11, <1>12

\* What a CTA has of a tile of the tail, in K tiles.
LoOf(p, w, c, j) == LET g == Gemm(p, w) d == Iters(p, g) * c - g.k * j IN IF d > 0 THEN d ELSE 0
HiOf(p, w, c, j) == LET g == Gemm(p, w) d == Iters(p, g) * (c + 1) - g.k * j IN IF d < g.k THEN d ELSE g.k

\* The pieces on a tile before the tail, and those on a tile of the tail.
LEMMA OnWhole ==
  ASSUME NEW p \in Plans, NEW w \in Gemms, NEW t \in OwnTiles(p, w)
  PROVE  /\ WholePlace(p, t) \in ComputedBy(p, w)
         /\ \A x \in ComputedBy(p, w) : It(p, w, x).tile = t <=> x = WholePlace(p, t)
         /\ LET s == It(p, w, WholePlace(p, t)) IN s.tile = t /\ s.lo = 0 /\ s.hi = Gemm(p, w).k /\ s.count = 1 /\ s.idx = 0
<1>1. It(p, w, WholePlace(p, t)) = OwnTile(Gemm(p, w), t) /\ WholePlace(p, t) \in ComputedBy(p, w)
  BY WholeIsComputed
<1>2. \A u : OwnTile(Gemm(p, w), u).tile = u
  BY DEF OwnTile
<1>3. ASSUME NEW x \in ComputedBy(p, w), It(p, w, x).tile = t PROVE x = WholePlace(p, t)
  <2>1. CASE \E u \in OwnTiles(p, w) : x = WholePlace(p, u) /\ It(p, w, x) = OwnTile(Gemm(p, w), u)
    BY <1>2, <1>3, <2>1
  <2>2. CASE \E j \in SharedTiles(p, w) : It(p, w, x) = SplitTile(p, Gemm(p, w), x[1], j)
    <3>1. PICK j \in SharedTiles(p, w) : It(p, w, x) = SplitTile(p, Gemm(p, w), x[1], j)
      BY <2>2
    <3>2. t = Gemm(p, w).mn - Waves(p, Gemm(p, w)).tail + j
      BY <1>3, <3>1 DEF SplitTile
    <3>3. Gemm(p, w).mn \in Int /\ Waves(p, Gemm(p, w)).tail \in Int
      BY NumbersOfGemm, WavesAre
    <3>. QED
      BY <3>2, <3>3 DEF OwnTiles, SharedTiles
  <2>. QED
    BY <2>1, <2>2, ComputedIs
<1>. QED
  BY <1>1, <1>2, <1>3 DEF OwnTile

LEMMA OnShared ==
  ASSUME NEW p \in Plans, NEW w \in Gemms, NEW j \in SharedTiles(p, w)
  PROVE  LET g == Gemm(p, w)
             iters == Iters(p, g)
             first == FirstCTA(iters, g.k, j)
             last == LastCTA(iters, g.k, j)
             tile == g.mn - Waves(p, g).tail + j
         IN /\ first \in Int /\ last \in Int /\ 0 <= first /\ first <= last /\ last < GridX(p)
            /\ \A c \in first .. last : SlicePlace(p, w, c, j) \in ComputedBy(p, w) /\ It(p, w, SlicePlace(p, w, c, j)).tile = tile
            /\ \A x \in ComputedBy(p, w) : It(p, w, x).tile = tile =>
                 /\ x[1] \in first .. last /\ x = SlicePlace(p, w, x[1], j)
                 /\ MeetsTile(p, w, x[1], j)
                 /\ It(p, w, x).lo = LoOf(p, w, x[1], j) /\ It(p, w, x).hi = HiOf(p, w, x[1], j)
                 /\ It(p, w, x).count = last - first + 1 /\ It(p, w, x).idx = last - x[1]
                 /\ first < last => It(p, w, x).slot = IF Waves(p, g).tail >= GridX(p) THEN last ELSE j
<1>. DEFINE g == Gemm(p, w)
            iters == Iters(p, g)
            first == FirstCTA(iters, g.k, j)
            last == LastCTA(iters, g.k, j)
            tail == Waves(p, g).tail
            tile == g.mn - tail + j
<1>1. g.mn \in Int /\ tail \in Nat /\ g.k \in Nat \ {0} /\ iters \in Nat \ {0} /\ j \in 0 .. tail - 1 /\ j \in Int
  <2>1. tail \in Nat /\ j \in 0 .. tail - 1
    BY NumbersOfGemm, WavesAre DEF SharedTiles
  <2>2. j \in Int /\ tail # 0
    <3>. HIDE DEF tail
    <3>. QED
      BY <2>1
  <2>. QED
    BY <2>1, <2>2, NumbersOfGemm, TailIsShared
<1>2. first \in Int /\ last \in Int /\ first <= last
  BY <1>1, MeetsIs
<1>3. 0 <= first /\ last < GridX(p)
  BY <1>1, TailIsShared
<1>4. ASSUME NEW c \in Int PROVE MeetsTile(p, w, c, j) <=> c \in first .. last
  <2>1. MeetsTile(p, w, c, j) <=> first <= c /\ c <= last
    BY <1>1, MeetsIs DEF MeetsTile
  <2>. HIDE DEF first, last
  <2>. QED
    BY <1>2, <2>1
<1>5. GridX(p) \in Nat
  BY GridIsNat
<1>6. ASSUME NEW c \in first .. last
      PROVE  SlicePlace(p, w, c, j) \in ComputedBy(p, w) /\ It(p, w, SlicePlace(p, w, c, j)).tile = tile
  <2>1. c \in 0 .. GridX(p) - 1 /\ c \in Int
    <3>. HIDE DEF first, last
    <3>. QED
      BY <1>2, <1>3, <1>5
  <2>2. MeetsTile(p, w, c, j)
    BY <1>4, <2>1
  <2>3. SlicePlace(p, w, c, j) \in ComputedBy(p, w) /\ It(p, w, SlicePlace(p, w, c, j)) = SplitTile(p, g, c, j)
    BY <2>1, <2>2, SliceIsComputed
  <2>. QED
    BY <2>3 DEF SplitTile
<1>7. ASSUME NEW x \in ComputedBy(p, w), It(p, w, x).tile = tile
      PROVE  /\ x[1] \in first .. last /\ x = SlicePlace(p, w, x[1], j)
             /\ MeetsTile(p, w, x[1], j)
             /\ It(p, w, x).lo = LoOf(p, w, x[1], j) /\ It(p, w, x).hi = HiOf(p, w, x[1], j)
             /\ It(p, w, x).count = last - first + 1 /\ It(p, w, x).idx = last - x[1]
             /\ first < last => It(p, w, x).slot = IF Waves(p, g).tail >= GridX(p) THEN last ELSE j
  <2>1. \E i \in SharedTiles(p, w) :
              /\ MeetsTile(p, w, x[1], i) /\ x = SlicePlace(p, w, x[1], i)
              /\ It(p, w, x) = SplitTile(p, g, x[1], i)
    <3>1. ASSUME NEW t \in OwnTiles(p, w), It(p, w, x) = OwnTile(g, t) PROVE FALSE
      <4>1. tile = t
        BY <1>7, <3>1 DEF OwnTile
      <4>. QED
        BY <1>1, <4>1 DEF OwnTiles
    <3>. QED
      BY <3>1, ComputedIs
  <2>2. PICK i \in SharedTiles(p, w) :
              /\ MeetsTile(p, w, x[1], i) /\ x = SlicePlace(p, w, x[1], i)
              /\ It(p, w, x) = SplitTile(p, g, x[1], i)
    BY <2>1
  <2>3. i = j
    <3>1. tile = g.mn - tail + i
      BY <1>7, <2>2 DEF SplitTile
    <3>. QED
      BY <1>1, <3>1 DEF SharedTiles
  <2>4. x[1] \in 0 .. GridX(p) - 1 /\ x[1] \in Int
    BY <1>5 DEF ComputedBy
  <2>5. x[1] \in first .. last
    BY <1>4, <2>2, <2>3, <2>4
  <2>6. Meets(iters, g.k, x[1], j)
    BY <2>2, <2>3 DEF MeetsTile
  <2>. DEFINE s == SplitTile(p, g, x[1], j)
              c == x[1]
  <2>7. /\ s.lo = (IF iters * c - g.k * j > 0 THEN iters * c - g.k * j ELSE 0)
        /\ s.hi = (IF iters * (c + 1) - g.k * j < g.k THEN iters * (c + 1) - g.k * j ELSE g.k)
        /\ s.count = last - first + 1 /\ s.idx = last - c
        /\ first < last => s.slot = (IF Waves(p, g).tail >= GridX(p) THEN last ELSE j)
    BY <1>1, <2>4, <2>6, SliceIs
  <2>8. It(p, w, x) = s
    BY <2>2, <2>3
  <2>9. s.lo = LoOf(p, w, c, j) /\ s.hi = HiOf(p, w, c, j)
    BY <2>7 DEF LoOf, HiOf
  <2>. HIDE DEF s, first, last, g, iters
  <2>. QED
    BY <2>2, <2>3, <2>5, <2>7, <2>8, <2>9
<1>. HIDE DEF first, last, tile, iters
<1>. QED
  BY <1>2, <1>3, <1>6, <1>7 DEF first, last, tile, iters

\* Every K tile of a tile is in one of its slices, and no slice is empty.
LEMMA SlicesCover ==
  ASSUME NEW p \in Plans, NEW w \in Gemms, NEW j \in SharedTiles(p, w), NEW c \in Int, MeetsTile(p, w, c, j)
  PROVE  LET g == Gemm(p, w) IN
         /\ LoOf(p, w, c, j) \in Nat /\ HiOf(p, w, c, j) \in Int
         /\ LoOf(p, w, c, j) < HiOf(p, w, c, j) /\ HiOf(p, w, c, j) <= g.k
<1>. DEFINE g == Gemm(p, w)
            iters == Iters(p, g)
            k == g.k
            a == iters * c
            b == iters * (c + 1)
            e == k * j
<1>1. Waves(p, g).tail \in Nat /\ k \in Nat \ {0} /\ iters \in Nat \ {0} /\ j \in Int
  BY NumbersOfGemm, WavesAre, TailIsShared DEF SharedTiles
<1>2. a \in Int /\ b = a + iters /\ e \in Int /\ k * (j + 1) = e + k
  <2>. HIDE DEF iters, k
  <2>. QED
    BY <1>1
<1>3. a < e + k /\ e < b
  BY <1>2 DEF MeetsTile, Meets
<1>4. /\ LoOf(p, w, c, j) = IF a - e > 0 THEN a - e ELSE 0
      /\ HiOf(p, w, c, j) = IF b - e < k THEN b - e ELSE k
  BY DEF LoOf, HiOf
<1>. HIDE DEF a, b, e, iters, k
<1>5. /\ LoOf(p, w, c, j) \in Nat /\ HiOf(p, w, c, j) \in Int
      /\ LoOf(p, w, c, j) < HiOf(p, w, c, j) /\ HiOf(p, w, c, j) <= k
  BY <1>1, <1>2, <1>3, <1>4
<1>. QED
  BY <1>5 DEF k

LEMMA EachKIsOnce ==
  ASSUME NEW p \in Plans, NEW w \in Gemms, NEW j \in SharedTiles(p, w), NEW v \in 0 .. Gemm(p, w).k - 1
  PROVE  \E c \in Int : MeetsTile(p, w, c, j) /\ LoOf(p, w, c, j) <= v /\ v < HiOf(p, w, c, j)
<1>. DEFINE g == Gemm(p, w)
            e == g.k * j
            iters == Iters(p, g)
            c == (e + v) \div iters
<1>1. Waves(p, g).tail \in Nat /\ g.k \in Nat \ {0} /\ iters \in Nat \ {0} /\ j \in Int /\ v \in Int /\ 0 <= v /\ v < g.k
  BY NumbersOfGemm, WavesAre, TailIsShared DEF SharedTiles
<1>2. e \in Int /\ g.k * (j + 1) = e + g.k
  <2>. HIDE DEF g
  <2>. QED
    BY <1>1
<1>3. c \in Int /\ iters * c \in Int /\ iters * c <= e + v /\ e + v < iters * c + iters
  <2>. DEFINE u == e + v
  <2>1. u \in Int
    BY <1>1, <1>2
  <2>. HIDE DEF u, iters
  <2>2. u \div iters \in Int /\ iters * (u \div iters) \in Int /\ iters * (u \div iters) <= u /\ u < iters * (u \div iters) + iters
    BY <1>1, <2>1, QuotientIsPlace
  <2>. QED
    BY <2>2 DEF u
<1>. HIDE DEF c
<1>4. iters * (c + 1) = iters * c + iters
  <2>. HIDE DEF iters
  <2>. QED
    BY <1>1, <1>3
<1>5. iters * c < g.k * (j + 1) /\ g.k * j < iters * (c + 1)
  <2>1. iters * c < e + g.k /\ e < iters * c + iters
    <3>. DEFINE y == iters * c
    <3>1. y \in Int /\ y <= e + v /\ e + v < y + iters
      BY <1>3
    <3>. HIDE DEF y, e, iters, g
    <3>2. y < e + g.k /\ e < y + iters
      BY <1>1, <1>2, <3>1
    <3>. QED
      BY <3>2 DEF y
  <2>. QED
    BY <1>2, <1>4, <2>1
<1>6. MeetsTile(p, w, c, j)
  BY <1>5 DEF MeetsTile, Meets
<1>. DEFINE a == iters * c
            b == iters * (c + 1)
<1>7. /\ LoOf(p, w, c, j) = IF a - e > 0 THEN a - e ELSE 0
      /\ HiOf(p, w, c, j) = IF b - e < g.k THEN b - e ELSE g.k
  BY DEF LoOf, HiOf
<1>8. a \in Int /\ b = a + iters /\ a <= e + v /\ e + v < a + iters
  BY <1>3, <1>4
<1>. HIDE DEF a, b, e, iters, g
<1>9. LoOf(p, w, c, j) <= v /\ v < HiOf(p, w, c, j)
  BY <1>1, <1>2, <1>7, <1>8
<1>. QED
  BY <1>3, <1>6, <1>9

\* Two tiles of the tail whose CTAs share a lock word are one.
LEMMA LastIsOfOne ==
  ASSUME NEW p \in Plans, NEW w \in Gemms, Waves(p, Gemm(p, w)).tail >= GridX(p),
         NEW i \in SharedTiles(p, w), NEW j \in SharedTiles(p, w), NEW c \in Int,
         MeetsTile(p, w, c, i), MeetsTile(p, w, c - 1, i), MeetsTile(p, w, c, j), MeetsTile(p, w, c - 1, j)
  PROVE  i = j
<1>. DEFINE g == Gemm(p, w)
            iters == Iters(p, g)
            k == g.k
            y == iters * c
<1>1. Waves(p, g).tail \in Nat /\ k \in Nat \ {0} /\ iters \in Nat \ {0} /\ i \in Int /\ j \in Int
  BY NumbersOfGemm, WavesAre, TailIsShared DEF SharedTiles
<1>2. (c - 1) + 1 = c
  OBVIOUS
<1>3. y < k * (i + 1) /\ k * i < y /\ y < k * (j + 1) /\ k * j < y
  BY <1>2 DEF MeetsTile, Meets
<1>4. y \in Int
  <2>. HIDE DEF iters
  <2>. QED
    BY <1>1
<1>. HIDE DEF y, k
<1>5. ASSUME i < j PROVE FALSE
  <2>1. k * (i + 1) \in Int /\ k * j \in Int /\ k * (i + 1) <= k * j
    BY <1>1, <1>5, TilesFollow
  <2>. QED
    BY <1>3, <1>4, <2>1
<1>6. ASSUME j < i PROVE FALSE
  <2>1. k * (j + 1) \in Int /\ k * i \in Int /\ k * (j + 1) <= k * i
    BY <1>1, <1>6, TilesFollow
  <2>. QED
    BY <1>3, <1>4, <2>1
<1>. QED
  BY <1>1, <1>5, <1>6

\* A tile is before the tail or in it.
LEMMA TilesAre ==
  ASSUME NEW p \in Plans, NEW w \in Gemms, NEW t \in Tiles(p, w)
  PROVE  \/ t \in OwnTiles(p, w)
         \/ \E j \in SharedTiles(p, w) : t = Gemm(p, w).mn - Waves(p, Gemm(p, w)).tail + j
<1>. DEFINE mn == Gemm(p, w).mn
            tail == Waves(p, Gemm(p, w)).tail
<1>1. mn \in Nat /\ tail \in Nat /\ t \in 0 .. mn - 1
  BY NumbersOfGemm, WavesAre DEF Tiles
<1>. HIDE DEF mn, tail
<1>2. t \in 0 .. mn - tail - 1 \/ (t - (mn - tail) \in 0 .. tail - 1 /\ t = mn - tail + (t - (mn - tail)))
  BY <1>1
<1>. QED
  BY <1>2 DEF OwnTiles, SharedTiles, mn, tail

\* What is computed is on a tile.
LEMMA ComputedOnTile ==
  ASSUME NEW p \in Plans, NEW w \in Gemms, NEW x \in ComputedBy(p, w)
  PROVE  \/ \E t \in OwnTiles(p, w) : It(p, w, x).tile = t
         \/ \E j \in SharedTiles(p, w) : It(p, w, x).tile = Gemm(p, w).mn - Waves(p, Gemm(p, w)).tail + j
<1>1. \A t : OwnTile(Gemm(p, w), t).tile = t
  BY DEF OwnTile
<1>2. \A c, j : SplitTile(p, Gemm(p, w), c, j).tile = Gemm(p, w).mn - Waves(p, Gemm(p, w)).tail + j
  BY DEF SplitTile
<1>3. CASE \E t \in OwnTiles(p, w) : It(p, w, x) = OwnTile(Gemm(p, w), t)
  BY <1>1, <1>3
<1>4. CASE \E j \in SharedTiles(p, w) : It(p, w, x) = SplitTile(p, Gemm(p, w), x[1], j)
  BY <1>2, <1>4
<1>. QED
  BY <1>3, <1>4, ComputedIs

\* Pieces on one tile: as many slices as they say, each once, and in the order of their K tiles.
LEMMA TileIsCut ==
  ASSUME NEW p \in Plans, NEW w \in Gemms, NEW t \in Tiles(p, w)
  PROVE  LET on == {x \in ComputedBy(p, w) : It(p, w, x).tile = t} IN
         /\ UNION {It(p, w, x).lo .. It(p, w, x).hi - 1 : x \in on} = 0 .. Gemm(p, w).k - 1
         /\ \A x \in on : It(p, w, x).lo < It(p, w, x).hi /\ {It(p, w, y).idx : y \in on} = 0 .. It(p, w, x).count - 1
         /\ \A x, y \in on : x # y =>
              It(p, w, x).count = It(p, w, y).count /\ It(p, w, x).idx # It(p, w, y).idx
                /\ (It(p, w, x).idx < It(p, w, y).idx => It(p, w, y).hi <= It(p, w, x).lo)
<1>. DEFINE g == Gemm(p, w)
            k == g.k
            on == {x \in ComputedBy(p, w) : It(p, w, x).tile = t}
            From(x) == It(p, w, x).lo
            Upto(x) == It(p, w, x).hi
            Place(x) == It(p, w, x).idx
            Parts(x) == It(p, w, x).count
<1>1. k \in Nat \ {0}
  BY NumbersOfGemm
<1>2. CASE t \in OwnTiles(p, w)
  <2>. DEFINE z == WholePlace(p, t)
  <2>1. on = {z} /\ From(z) = 0 /\ Upto(z) = k /\ Parts(z) = 1 /\ Place(z) = 0
    <3>1. z \in ComputedBy(p, w) /\ \A x \in ComputedBy(p, w) : It(p, w, x).tile = t <=> x = z
      BY <1>2, OnWhole
    <3>2. From(z) = 0 /\ Upto(z) = k /\ Parts(z) = 1 /\ Place(z) = 0
      BY <1>2, OnWhole
    <3>. HIDE DEF z, From, Upto, Parts, Place
    <3>. QED
      BY <3>1, <3>2
  <2>. HIDE DEF on, z, From, Upto, Parts, Place, k
  <2>2. UNION {From(x) .. Upto(x) - 1 : x \in on} = 0 .. k - 1
    <3>1. {From(x) .. Upto(x) - 1 : x \in on} = {0 .. k - 1}
      BY <2>1
    <3>. QED
      BY <3>1
  <2>3. \A x \in on : From(x) < Upto(x) /\ {Place(y) : y \in on} = 0 .. Parts(x) - 1
    <3>1. {Place(y) : y \in on} = {0}
      BY <2>1
    <3>2. 0 .. 1 - 1 = {0}
      OBVIOUS
    <3>. QED
      BY <1>1, <2>1, <3>1, <3>2
  <2>4. \A x, y \in on : x = y
    BY <2>1
  <2>. QED
    BY <2>2, <2>3, <2>4 DEF on, From, Upto, Parts, Place, k
<1>3. CASE \E j \in SharedTiles(p, w) : t = g.mn - Waves(p, g).tail + j
  <2>1. PICK j \in SharedTiles(p, w) : t = g.mn - Waves(p, g).tail + j
    BY <1>3
  <2>. DEFINE iters == Iters(p, g)
              first == FirstCTA(iters, g.k, j)
              last == LastCTA(iters, g.k, j)
              PlaceAt(c) == SlicePlace(p, w, c, j)
  <2>2. first \in Int /\ last \in Int /\ first <= last
    BY OnShared
  <2>3. \A c \in first .. last : PlaceAt(c) \in on
    BY <2>1, OnShared
  <2>4. ASSUME NEW x \in on
        PROVE  /\ x[1] \in first .. last /\ x = PlaceAt(x[1]) /\ MeetsTile(p, w, x[1], j)
               /\ From(x) = LoOf(p, w, x[1], j) /\ Upto(x) = HiOf(p, w, x[1], j)
               /\ Parts(x) = last - first + 1 /\ Place(x) = last - x[1]
    BY <2>1, OnShared
  <2>. HIDE DEF first, last
  <2>5. ASSUME NEW c \in Int, MeetsTile(p, w, c, j) PROVE c \in first .. last
    <3>1. Waves(p, g).tail \in Nat /\ g.k \in Nat \ {0} /\ iters \in Nat \ {0} /\ j \in Int
      BY NumbersOfGemm, WavesAre, TailIsShared DEF SharedTiles
    <3>2. first <= c /\ c <= last
      BY <2>5, <3>1, MeetsIs DEF MeetsTile, first, last
    <3>. QED
      BY <2>2, <3>2
  <2>6. \A c : PlaceAt(c)[1] = c
    BY DEF SlicePlace
  <2>7. ASSUME NEW x \in on PROVE /\ x[1] \in Int /\ From(x) \in Nat /\ Upto(x) \in Int /\ From(x) < Upto(x) /\ Upto(x) <= k
    <3>1. x[1] \in Int /\ MeetsTile(p, w, x[1], j)
      BY <2>2, <2>4
    <3>. QED
      BY <2>4, <3>1, SlicesCover
  <2>. HIDE DEF on, From, Upto, Parts, Place, k, PlaceAt
  <2>8. UNION {From(x) .. Upto(x) - 1 : x \in on} = 0 .. k - 1
    <3>1. ASSUME NEW v PROVE v \in UNION {From(x) .. Upto(x) - 1 : x \in on} <=> \E x \in on : v \in From(x) .. Upto(x) - 1
      OBVIOUS
    <3>2. ASSUME NEW v \in 0 .. k - 1 PROVE \E x \in on : v \in From(x) .. Upto(x) - 1
      <4>1. PICK c \in Int : MeetsTile(p, w, c, j) /\ LoOf(p, w, c, j) <= v /\ v < HiOf(p, w, c, j)
        BY EachKIsOnce DEF k
      <4>2. PlaceAt(c) \in on /\ PlaceAt(c)[1] = c
        BY <2>3, <2>5, <2>6, <4>1
      <4>3. From(PlaceAt(c)) = LoOf(p, w, c, j) /\ Upto(PlaceAt(c)) = HiOf(p, w, c, j)
        BY <2>4, <4>2
      <4>4. From(PlaceAt(c)) \in Nat /\ Upto(PlaceAt(c)) \in Int
        BY <2>7, <4>2
      <4>5. v \in From(PlaceAt(c)) .. Upto(PlaceAt(c)) - 1
        BY <1>1, <4>1, <4>3, <4>4
      <4>. QED
        BY <4>2, <4>5
    <3>3. ASSUME NEW x \in on, NEW v \in From(x) .. Upto(x) - 1 PROVE v \in 0 .. k - 1
      BY <1>1, <2>7
    <3>. QED
      BY <3>1, <3>2, <3>3
  <2>9. {Place(y) : y \in on} = 0 .. last - first
    <3>1. ASSUME NEW y \in on PROVE Place(y) \in 0 .. last - first
      <4>1. y[1] \in first .. last /\ Place(y) = last - y[1]
        BY <2>4
      <4>. QED
        BY <2>2, <4>1
    <3>2. ASSUME NEW v \in 0 .. last - first PROVE \E y \in on : Place(y) = v
      <4>1. last - v \in first .. last /\ last - (last - v) = v
        BY <2>2
      <4>2. PlaceAt(last - v) \in on /\ PlaceAt(last - v)[1] = last - v
        BY <2>3, <2>6, <4>1
      <4>. QED
        BY <2>4, <4>1, <4>2
    <3>. QED
      BY <3>1, <3>2
  <2>10. ASSUME NEW x \in on PROVE From(x) < Upto(x) /\ {Place(y) : y \in on} = 0 .. Parts(x) - 1
    <3>1. Parts(x) - 1 = last - first
      BY <2>2, <2>4
    <3>. QED
      BY <2>7, <2>9, <3>1
  <2>11. ASSUME NEW x \in on, NEW y \in on, x # y
         PROVE  Parts(x) = Parts(y) /\ Place(x) # Place(y) /\ (Place(x) < Place(y) => Upto(y) <= From(x))
    <3>1. x[1] # y[1]
      BY <2>4, <2>11
    <3>2. x[1] \in Int /\ y[1] \in Int /\ Place(x) = last - x[1] /\ Place(y) = last - y[1] /\ Parts(x) = Parts(y)
      BY <2>4, <2>7
    <3>3. Place(x) # Place(y)
      BY <2>2, <3>1, <3>2
    <3>4. ASSUME Place(x) < Place(y) PROVE Upto(y) <= From(x)
      <4>1. y[1] + 1 <= x[1]
        BY <2>2, <3>2, <3>4
      <4>. DEFINE a == iters * x[1]
                  b == iters * (y[1] + 1)
                  e == g.k * j
      <4>2. iters \in Nat \ {0} /\ g.k \in Nat \ {0} /\ j \in Int
        <5>1. Waves(p, g).tail \in Nat /\ g.k \in Nat \ {0}
          BY NumbersOfGemm, WavesAre
        <5>. QED
          BY <5>1, TailIsShared DEF SharedTiles
      <4>3. From(x) = (IF a - e > 0 THEN a - e ELSE 0) /\ Upto(y) = (IF b - e < g.k THEN b - e ELSE g.k)
        BY <2>4 DEF LoOf, HiOf
      <4>4. a \in Int /\ b \in Int /\ e \in Int /\ b <= a
        <5>. HIDE DEF iters, g
        <5>1. b <= a /\ a \in Int /\ b \in Int
          BY <3>2, <4>1, <4>2, ProductOrder
        <5>. QED
          BY <4>2, <5>1
      <4>. HIDE DEF a, b, e, iters, g
      <4>. QED
        BY <4>2, <4>3, <4>4
    <3>. QED
      BY <3>2, <3>3, <3>4
  <2>. QED
    BY <2>8, <2>10, <2>11 DEF on, From, Upto, Parts, Place, k
<1>. QED
  BY <1>2, <1>3, TilesAre

\* A shared tile has a lock word of its own, among those of the launch.
LEMMA SharedLock ==
  ASSUME NEW p \in Plans, NEW w \in Gemms, NEW x \in ComputedBy(p, w), It(p, w, x).count > 1
  PROVE  LET g == Gemm(p, w) IN
         \E j \in SharedTiles(p, w), last \in Int :
           /\ It(p, w, x).tile = g.mn - Waves(p, g).tail + j
           /\ It(p, w, x).slot = (IF Waves(p, g).tail >= GridX(p) THEN last ELSE j)
           /\ last = LastCTA(Iters(p, g), g.k, j)
           /\ last < GridX(p) /\ MeetsTile(p, w, last, j) /\ MeetsTile(p, w, last - 1, j)
<1>. DEFINE g == Gemm(p, w)
            tail == Waves(p, g).tail
<1>1. ASSUME NEW t \in OwnTiles(p, w), It(p, w, x).tile = t PROVE FALSE
  <2>1. It(p, w, x).count = 1
    BY <1>1, OnWhole
  <2>. QED
    BY <2>1
<1>2. PICK j \in SharedTiles(p, w) : It(p, w, x).tile = g.mn - tail + j
  BY <1>1, ComputedOnTile
<1>. DEFINE iters == Iters(p, g)
            first == FirstCTA(iters, g.k, j)
            last == LastCTA(iters, g.k, j)
<1>3. /\ first \in Int /\ last \in Int /\ last < GridX(p)
      /\ It(p, w, x).count = last - first + 1
      /\ first < last => It(p, w, x).slot = IF Waves(p, g).tail >= GridX(p) THEN last ELSE j
  BY <1>2, OnShared
<1>4. first < last
  <2>. HIDE DEF first, last
  <2>. QED
    BY <1>3
<1>5. iters \in Nat \ {0} /\ g.k \in Nat \ {0} /\ j \in Int
  <2>1. Waves(p, g).tail \in Nat /\ g.k \in Nat \ {0}
    BY NumbersOfGemm, WavesAre
  <2>. QED
    BY <2>1, TailIsShared DEF SharedTiles
<1>. HIDE DEF first, last
<1>6. \A c \in Int : first <= c /\ c <= last => MeetsTile(p, w, c, j)
  BY <1>5, MeetsIs DEF MeetsTile, first, last
<1>7. MeetsTile(p, w, last, j) /\ MeetsTile(p, w, last - 1, j)
  BY <1>3, <1>4, <1>6
<1>. QED
  BY <1>2, <1>3, <1>4, <1>7 DEF last

LEMMA LocksAgree ==
  ASSUME NEW p \in Plans, NEW w \in Gemms, NEW x \in ComputedBy(p, w), NEW y \in ComputedBy(p, w),
         It(p, w, x).count > 1, It(p, w, y).count > 1
  PROVE  /\ It(p, w, x).tile = It(p, w, y).tile <=> It(p, w, x).slot = It(p, w, y).slot
         /\ It(p, w, x).slot < GridX(p)
<1>. DEFINE g == Gemm(p, w)
            tail == Waves(p, g).tail
            Last(j) == LastCTA(Iters(p, g), g.k, j)
            Word(j) == IF tail >= GridX(p) THEN Last(j) ELSE j
<1>1. g.mn \in Int /\ tail \in Nat /\ GridX(p) \in Nat
  BY NumbersOfGemm, WavesAre, GridIsNat
<1>2. PICK i \in SharedTiles(p, w) :
        /\ It(p, w, x).tile = g.mn - tail + i /\ It(p, w, x).slot = Word(i)
        /\ Last(i) \in Int /\ Last(i) < GridX(p) /\ MeetsTile(p, w, Last(i), i) /\ MeetsTile(p, w, Last(i) - 1, i)
  BY SharedLock
<1>3. PICK j \in SharedTiles(p, w) :
        /\ It(p, w, y).tile = g.mn - tail + j /\ It(p, w, y).slot = Word(j)
        /\ Last(j) \in Int /\ MeetsTile(p, w, Last(j), j) /\ MeetsTile(p, w, Last(j) - 1, j)
  BY SharedLock
<1>4. i \in 0 .. tail - 1 /\ j \in 0 .. tail - 1
  BY DEF SharedTiles
<1>5. ASSUME tail >= GridX(p), Last(i) = Last(j) PROVE i = j
  BY <1>2, <1>3, <1>5, LastIsOfOne
<1>. HIDE DEF Last, tail, g
<1>6. i = j <=> Word(i) = Word(j)
  BY <1>5
<1>7. It(p, w, x).tile = It(p, w, y).tile <=> i = j
  BY <1>1, <1>2, <1>3, <1>4
<1>8. Word(i) < GridX(p)
  BY <1>1, <1>2, <1>4
<1>. QED
  BY <1>2, <1>3, <1>6, <1>7, <1>8

\* For every plan, the CTAs agree on the cuts of every tile, on the turns and on the lock words.
THEOREM SchedulesAreConsistent == \A p \in Plans, w \in Gemms : Consistent(p, w)
<1>. SUFFICES ASSUME NEW p \in Plans, NEW w \in Gemms PROVE Consistent(p, w)
  OBVIOUS
<1>. DEFINE g == Gemm(p, w)
            of == [c \in 0 .. GridX(p) - 1 |-> Pieces(p, w, c)]
            all == {x \in UNION {{c} \X DOMAIN of[c] : c \in DOMAIN of} : of[x[1]][x[2]].tile < g.mn}
            Its(x) == of[x[1]][x[2]]
            shared == {x \in all : Its(x).count > 1}
            On(t) == {x \in all : Its(x).tile = t}
<1>1. \A c \in 0 .. GridX(p) - 1 : of[c] = Pieces(p, w, c) /\ DOMAIN Pieces(p, w, c) \subseteq Nat
  BY PiecesAreTiles
<1>2. ASSUME NEW x \in UNION {{c} \X DOMAIN of[c] : c \in DOMAIN of}
      PROVE  x \in (0 .. GridX(p) - 1) \X Nat /\ x[2] \in DOMAIN Pieces(p, w, x[1]) /\ Its(x) = It(p, w, x)
  <2>1. PICK c \in 0 .. GridX(p) - 1 : x \in {c} \X DOMAIN of[c]
    OBVIOUS
  <2>. QED
    BY <1>1, <2>1 DEF It
<1>3. ASSUME NEW x \in ComputedBy(p, w) PROVE x \in UNION {{c} \X DOMAIN of[c] : c \in DOMAIN of}
  <2>1. PICK c \in 0 .. GridX(p) - 1, i \in Nat : x = <<c, i>>
    BY DEF ComputedBy
  <2>2. x[1] = c /\ x[2] = i /\ i \in DOMAIN of[c] /\ c \in DOMAIN of
    BY <1>1, <2>1 DEF ComputedBy
  <2>3. x \in {c} \X DOMAIN of[c]
    BY <2>1, <2>2
  <2>. HIDE DEF of
  <2>. QED
    BY <2>2, <2>3
<1>4. all = ComputedBy(p, w) /\ \A x \in all : Its(x) = It(p, w, x)
  BY <1>2, <1>3 DEF ComputedBy
<1>. HIDE DEF all, Its
<1>5. \A x, y \in shared : Its(x).tile = Its(y).tile <=> Its(x).slot = Its(y).slot
  BY <1>4, LocksAgree
<1>6. \A x \in shared : Its(x).slot < GridX(p)
  BY <1>4, LocksAgree
<1>7. ASSUME NEW t \in Tiles(p, w)
      PROVE  /\ UNION {Its(x).lo .. Its(x).hi - 1 : x \in On(t)} = 0 .. g.k - 1
             /\ \A x \in On(t) : Its(x).lo < Its(x).hi /\ {Its(y).idx : y \in On(t)} = 0 .. Its(x).count - 1
             /\ \A x, y \in On(t) : x # y =>
                  Its(x).count = Its(y).count /\ Its(x).idx # Its(y).idx
                    /\ (Its(x).idx < Its(y).idx => Its(y).hi <= Its(x).lo)
  <2>. DEFINE on == {x \in ComputedBy(p, w) : It(p, w, x).tile = t}
  <2>1. /\ UNION {It(p, w, x).lo .. It(p, w, x).hi - 1 : x \in on} = 0 .. g.k - 1
        /\ \A x \in on : It(p, w, x).lo < It(p, w, x).hi /\ {It(p, w, y).idx : y \in on} = 0 .. It(p, w, x).count - 1
        /\ \A x, y \in on : x # y =>
             It(p, w, x).count = It(p, w, y).count /\ It(p, w, x).idx # It(p, w, y).idx
               /\ (It(p, w, x).idx < It(p, w, y).idx => It(p, w, y).hi <= It(p, w, x).lo)
    BY TileIsCut
  <2>2. On(t) = on /\ \A x \in on : Its(x) = It(p, w, x)
    BY <1>4
  <2>. HIDE DEF On, on
  <2>3. {Its(x).lo .. Its(x).hi - 1 : x \in On(t)} = {It(p, w, x).lo .. It(p, w, x).hi - 1 : x \in on}
    BY <2>2
  <2>4. {Its(y).idx : y \in On(t)} = {It(p, w, y).idx : y \in on}
    BY <2>2
  <2>5. UNION {Its(x).lo .. Its(x).hi - 1 : x \in On(t)} = 0 .. g.k - 1
    BY <2>1, <2>3
  <2>6. \A x \in On(t) : Its(x).lo < Its(x).hi /\ {Its(y).idx : y \in On(t)} = 0 .. Its(x).count - 1
    BY <2>1, <2>2, <2>4
  <2>7. \A x, y \in On(t) : x # y =>
                  Its(x).count = Its(y).count /\ Its(x).idx # Its(y).idx
                    /\ (Its(x).idx < Its(y).idx => Its(y).hi <= Its(x).lo)
    BY <2>1, <2>2
  <2>. QED
    BY <2>5, <2>6, <2>7
<1>. QED
  BY <1>5, <1>6, <1>7, Zenon DEF Consistent, all, Its

-----------------------------------------------------------------------------
(* The K loop multiplies every K tile. *)

\* The K tile u is copied to its stage at this place.
CopyPos(u) == IF u < 3 THEN 2 * u ELSE 20 * u - 50
FirstCopy(u) == Copy(CopyPos(u), u % 4, u)

InitialStage(n, pipe) == Stage(2 * pipe, n, pipe, pipe)

LEMMA PlacesInLoop == \A t \in Int : At(t, 0) = 9 + 20 * t /\ At(t, 1) = 19 + 20 * t
BY DEF At, Fragments, Stages

\* What the loop issues before the first step, and in the two steps of a K tile.
Prologue(n) ==
  {e \in {FirstCopy(u) : u \in 0 .. 2} : e.x < n}
    \cup {Mark(1, "commit"), Mark(3, "commit"), Mark(5, "commit"), Mark(6, "wait"), Mark(7, "sync"), Load(8, 0, 0)}
Turn(n, t) ==
  (IF t + 3 < n THEN {FirstCopy(t + 3)} ELSE {})
    \cup {Mark(11 + 20 * t, "commit"), Mark(12 + 20 * t, "wait"), Mark(13 + 20 * t, "sync"), Load(9 + 20 * t, t % 4, 1)}
    \cup (IF t + 1 < n THEN {Load(19 + 20 * t, (t + 1) % 4, 0)} ELSE {})
    \cup (IF (t + 1) % 4 = 0 \/ t + 1 = n THEN {Mark(24 + 20 * t, "sync")} ELSE {})
    \cup (IF (t + 1) % 4 = 0 /\ t + 1 < n THEN {Load(25 + 20 * t, 0, 0)} ELSE {})

LEMMA LoopIs == ASSUME NEW n \in Nat PROVE Loop(n) = Prologue(n) \cup UNION {Turn(n, t) : t \in 0 .. n - 1}
<1>1. PrefetchInitialTiles(n) \cup {Load(2 * Stages, 0, 0)} = Prologue(n)
  <2>1. 0 .. Stages - 2 = {0, 1, 2} /\ 0 .. 2 = {0, 1, 2}
    BY DEF Stages
  <2>2. PrefetchInitialTiles(n) = Stage(0, n, 0, 0) \cup Stage(2, n, 1, 1) \cup Stage(4, n, 2, 2) \cup WaitAndSync(6)
    <3>1. {InitialStage(n, pipe) : pipe \in 0 .. Stages - 2} = {Stage(0, n, 0, 0), Stage(2, n, 1, 1), Stage(4, n, 2, 2)}
      <4>1. InitialStage(n, 0) = Stage(0, n, 0, 0) /\ InitialStage(n, 1) = Stage(2, n, 1, 1)
            /\ InitialStage(n, 2) = Stage(4, n, 2, 2)
        BY DEF InitialStage
      <4>2. {InitialStage(n, pipe) : pipe \in 0 .. Stages - 2} = {InitialStage(n, 0), InitialStage(n, 1), InitialStage(n, 2)}
        BY <2>1
      <4>. QED
        BY <4>1, <4>2
    <3>2. PrefetchInitialTiles(n) = (UNION {InitialStage(n, pipe) : pipe \in 0 .. Stages - 2}) \cup WaitAndSync(6)
      BY DEF PrefetchInitialTiles, InitialStage, Stages
    <3>3. ASSUME NEW a, NEW b, NEW c PROVE UNION {a, b, c} = a \cup b \cup c
      OBVIOUS
    <3>4. UNION {InitialStage(n, pipe) : pipe \in 0 .. Stages - 2} = Stage(0, n, 0, 0) \cup Stage(2, n, 1, 1) \cup Stage(4, n, 2, 2)
      <4>1. UNION {Stage(0, n, 0, 0), Stage(2, n, 1, 1), Stage(4, n, 2, 2)} = Stage(0, n, 0, 0) \cup Stage(2, n, 1, 1) \cup Stage(4, n, 2, 2)
        BY <3>3
      <4>. QED
        BY <3>1, <4>1
    <3>. QED
      BY <3>2, <3>4
  <2>3. {FirstCopy(u) : u \in 0 .. 2} = {Copy(0, 0, 0), Copy(2, 1, 1), Copy(4, 2, 2)}
    <3>1. FirstCopy(0) = Copy(0, 0, 0) /\ FirstCopy(1) = Copy(2, 1, 1) /\ FirstCopy(2) = Copy(4, 2, 2)
      BY DEF FirstCopy, CopyPos
    <3>. QED
      BY <2>1, <3>1
  <2>4. Copy(0, 0, 0).x = 0 /\ Copy(2, 1, 1).x = 1 /\ Copy(4, 2, 2).x = 2
    BY DEF Copy
  <2>5. {e \in {FirstCopy(u) : u \in 0 .. 2} : e.x < n}
          = (IF 0 < n THEN {Copy(0, 0, 0)} ELSE {}) \cup (IF 1 < n THEN {Copy(2, 1, 1)} ELSE {})
              \cup (IF 2 < n THEN {Copy(4, 2, 2)} ELSE {})
    BY <2>3, <2>4
  <2>. QED
    BY <2>2, <2>5 DEF Stage, WaitAndSync, Prologue, Stages
<1>2. ASSUME NEW t \in 0 .. n - 1
      PROVE  Turn(n, t) = UNION {LoadNextFragment(At(t, kk), n, t, kk)
           \cup (IF kk = Fragments - 2 THEN PrefetchLookaheadTile(At(t, kk) + 1, n, t) ELSE {})
           \cup (IF kk = Fragments - 1 THEN EndOfTurn(At(t, kk) + 5, n, t) ELSE {}) : kk \in 0 .. Fragments - 1}
  <2>. DEFINE Issued(kk) == LoadNextFragment(At(t, kk), n, t, kk)
           \cup (IF kk = Fragments - 2 THEN PrefetchLookaheadTile(At(t, kk) + 1, n, t) ELSE {})
           \cup (IF kk = Fragments - 1 THEN EndOfTurn(At(t, kk) + 5, n, t) ELSE {})
  <2>1. 0 .. Fragments - 1 = {0, 1}
    BY DEF Fragments
  <2>2. Issued(0) = {Load(9 + 20 * t, t % 4, 1)} \cup (IF t + 3 < n THEN {FirstCopy(t + 3)} ELSE {})
                    \cup {Mark(11 + 20 * t, "commit"), Mark(12 + 20 * t, "wait"), Mark(13 + 20 * t, "sync")}
    <3>1. CopyPos(t + 3) = 10 + 20 * t /\ (t + 3) % 4 = ((t % 4) + 3) % 4
      BY DEF CopyPos
    <3>2. At(t, 0) = 9 + 20 * t /\ At(t, 0) + 1 = 10 + 20 * t
      BY PlacesInLoop
    <3>3. LoadNextFragment(At(t, 0), n, t, 0) = {Load(9 + 20 * t, t % 4, 1)}
      BY <3>2 DEF LoadNextFragment, Fragments, Stages
    <3>4. PrefetchLookaheadTile(At(t, 0) + 1, n, t) = (IF t + 3 < n THEN {FirstCopy(t + 3)} ELSE {})
              \cup {Mark(11 + 20 * t, "commit"), Mark(12 + 20 * t, "wait"), Mark(13 + 20 * t, "sync")}
      <4>1. t + Stages - 1 = t + 3 /\ ((t % Stages) + Stages - 1) % Stages = (t + 3) % 4
        BY <3>1 DEF Stages
      <4>2. Stage(10 + 20 * t, n, (t + 3) % 4, t + 3) = (IF t + 3 < n THEN {FirstCopy(t + 3)} ELSE {}) \cup {Mark(11 + 20 * t, "commit")}
        BY <3>1 DEF Stage, FirstCopy
      <4>3. WaitAndSync(10 + 20 * t + 2) = {Mark(12 + 20 * t, "wait"), Mark(13 + 20 * t, "sync")}
        BY DEF WaitAndSync
      <4>. QED
        BY <3>2, <4>1, <4>2, <4>3 DEF PrefetchLookaheadTile
    <3>. QED
      BY <3>3, <3>4 DEF Fragments
  <2>3. Issued(1) = (IF t + 1 < n THEN {Load(19 + 20 * t, (t + 1) % 4, 0)} ELSE {})
                    \cup (IF (t + 1) % 4 = 0 \/ t + 1 = n THEN {Mark(24 + 20 * t, "sync")} ELSE {})
                    \cup (IF (t + 1) % 4 = 0 /\ t + 1 < n THEN {Load(25 + 20 * t, 0, 0)} ELSE {})
    <3>1. At(t, 1) = 19 + 20 * t /\ At(t, 1) + 5 = 24 + 20 * t /\ At(t, 1) + 5 + 1 = 25 + 20 * t
      BY PlacesInLoop
    <3>2. ((t % 4) + 1) % 4 = (t + 1) % 4
      OBVIOUS
    <3>3. LoadNextFragment(At(t, 1), n, t, 1) = (IF t + 1 < n THEN {Load(19 + 20 * t, (t + 1) % 4, 0)} ELSE {})
      <4>1. ~(1 + 1 < Fragments) /\ ((t % Stages) + 1) % Stages = (t + 1) % 4
        BY <3>2 DEF Fragments, Stages
      <4>. QED
        BY <3>1, <4>1 DEF LoadNextFragment
    <3>4. EndOfTurn(At(t, 1) + 5, n, t) = (IF (t + 1) % 4 = 0 \/ t + 1 = n THEN {Mark(24 + 20 * t, "sync")} ELSE {})
                    \cup (IF (t + 1) % 4 = 0 /\ t + 1 < n THEN {Load(25 + 20 * t, 0, 0)} ELSE {})
      BY <3>1 DEF EndOfTurn, Stages
    <3>. QED
      BY <3>3, <3>4 DEF Fragments
  <2>4. Turn(n, t) = Issued(0) \cup Issued(1)
    BY <2>2, <2>3 DEF Turn
  <2>. HIDE DEF Issued
  <2>5. {Issued(kk) : kk \in 0 .. Fragments - 1} = {Issued(0), Issued(1)}
    BY <2>1
  <2>6. UNION {Issued(kk) : kk \in 0 .. Fragments - 1} = Turn(n, t)
    BY <2>4, <2>5
  <2>. QED
    BY <2>6 DEF Issued
<1>. DEFINE Issued(t, kk) == LoadNextFragment(At(t, kk), n, t, kk)
           \cup (IF kk = Fragments - 2 THEN PrefetchLookaheadTile(At(t, kk) + 1, n, t) ELSE {})
           \cup (IF kk = Fragments - 1 THEN EndOfTurn(At(t, kk) + 5, n, t) ELSE {})
<1>3. Loop(n) = Prologue(n) \cup UNION {Issued(t, kk) : t \in 0 .. n - 1, kk \in 0 .. Fragments - 1}
  <2>. DEFINE rest == UNION {Issued(t, kk) : t \in 0 .. n - 1, kk \in 0 .. Fragments - 1}
  <2>1. Loop(n) = PrefetchInitialTiles(n) \cup {Load(2 * Stages, 0, 0)} \cup rest
    BY DEF Loop
  <2>. QED
    BY <1>1, <2>1
<1>4. \A t \in 0 .. n - 1 : Turn(n, t) = UNION {Issued(t, kk) : kk \in 0 .. Fragments - 1}
  BY <1>2, Zenon
<1>. HIDE DEF Issued
<1>5. UNION {Issued(t, kk) : t \in 0 .. n - 1, kk \in 0 .. Fragments - 1} = UNION {Turn(n, t) : t \in 0 .. n - 1}
  <2>1. ASSUME NEW e PROVE e \in UNION {Issued(t, kk) : t \in 0 .. n - 1, kk \in 0 .. Fragments - 1}
                             <=> \E t \in 0 .. n - 1, kk \in 0 .. Fragments - 1 : e \in Issued(t, kk)
    OBVIOUS
  <2>2. ASSUME NEW e PROVE e \in UNION {Turn(n, t) : t \in 0 .. n - 1} <=> \E t \in 0 .. n - 1 : e \in Turn(n, t)
    OBVIOUS
  <2>3. ASSUME NEW e, NEW t \in 0 .. n - 1 PROVE e \in Turn(n, t) <=> \E kk \in 0 .. Fragments - 1 : e \in Issued(t, kk)
    <3>1. e \in UNION {Issued(t, kk) : kk \in 0 .. Fragments - 1} <=> \E kk \in 0 .. Fragments - 1 : e \in Issued(t, kk)
      OBVIOUS
    <3>. QED
      BY <1>4, <3>1
  <2>. QED
    BY <2>1, <2>2, <2>3
<1>. QED
  BY <1>3, <1>5

\* Whether the warps meet at the end of the turn of the ring after K tile t.
EndsTurn(n, t) == (t + 1) % 4 = 0 \/ t + 1 = n

\* The loop by what it issues.
LEMMA CopiesOf ==
  ASSUME NEW n \in Nat
  PROVE  Ops(Loop(n), "copy") = {FirstCopy(u) : u \in 0 .. n - 1}
<1>1. ASSUME NEW e \in Ops(Loop(n), "copy") PROVE \E u \in 0 .. n - 1 : e = FirstCopy(u)
  <2>1. e \in Loop(n) /\ e.op = "copy"
    BY DEF Ops
  <2>2. CASE e \in Prologue(n)
    <3>1. \E u \in 0 .. 2 : e = FirstCopy(u) /\ e.x < n
      BY <2>1, <2>2 DEF Prologue, Mark, Load
    <3>2. PICK u \in 0 .. 2 : e = FirstCopy(u) /\ e.x < n
      BY <3>1
    <3>3. e.x = u
      BY <3>2 DEF FirstCopy, Copy
    <3>. QED
      BY <3>2, <3>3
  <2>3. CASE \E t \in 0 .. n - 1 : e \in Turn(n, t)
    <3>1. PICK t \in 0 .. n - 1 : e \in Turn(n, t)
      BY <2>3
    <3>2. e = FirstCopy(t + 3) /\ t + 3 < n
      BY <2>1, <3>1 DEF Turn, Mark, Load
    <3>. QED
      BY <3>2
  <2>. QED
    BY <2>1, <2>2, <2>3, LoopIs
<1>2. ASSUME NEW u \in 0 .. n - 1 PROVE FirstCopy(u) \in Ops(Loop(n), "copy")
  <2>1. FirstCopy(u).op = "copy" /\ FirstCopy(u).x = u
    BY DEF FirstCopy, Copy
  <2>2. CASE u < 3
    <3>1. FirstCopy(u) \in Prologue(n)
      BY <2>1, <2>2 DEF Prologue
    <3>. QED
      BY <2>1, <3>1, LoopIs DEF Ops
  <2>3. CASE u >= 3
    <3>1. u - 3 \in 0 .. n - 1 /\ (u - 3) + 3 = u
      BY <2>3
    <3>2. FirstCopy(u) \in Turn(n, u - 3)
      BY <3>1 DEF Turn
    <3>3. FirstCopy(u) \in Loop(n)
      BY <3>1, <3>2, LoopIs
    <3>. QED
      BY <2>1, <3>3 DEF Ops
  <2>. QED
    BY <2>2, <2>3
<1>. QED
  BY <1>1, <1>2

LEMMA InTurn == ASSUME NEW n \in Nat, NEW t \in 0 .. n - 1 PROVE Turn(n, t) \subseteq Loop(n)
BY LoopIs

LEMMA MarksOf ==
  ASSUME NEW n \in Nat
  PROVE  /\ \A v \in {1, 3, 5} : Mark(v, "commit") \in Ops(Loop(n), "commit")
         /\ Mark(6, "wait") \in Ops(Loop(n), "wait") /\ Mark(7, "sync") \in Ops(Loop(n), "sync")
         /\ \A t \in 0 .. n - 1 :
              /\ Mark(11 + 20 * t, "commit") \in Ops(Loop(n), "commit")
              /\ Mark(12 + 20 * t, "wait") \in Ops(Loop(n), "wait")
              /\ Mark(13 + 20 * t, "sync") \in Ops(Loop(n), "sync")
              /\ EndsTurn(n, t) => Mark(24 + 20 * t, "sync") \in Ops(Loop(n), "sync")
<1>1. \A v, op : Mark(v, op).op = op /\ Mark(v, op).pos = v
  BY DEF Mark
<1>2. Prologue(n) \subseteq Loop(n)
  BY LoopIs
<1>3. ASSUME NEW t \in 0 .. n - 1
      PROVE  /\ Mark(11 + 20 * t, "commit") \in Ops(Loop(n), "commit")
             /\ Mark(12 + 20 * t, "wait") \in Ops(Loop(n), "wait")
             /\ Mark(13 + 20 * t, "sync") \in Ops(Loop(n), "sync")
             /\ EndsTurn(n, t) => Mark(24 + 20 * t, "sync") \in Ops(Loop(n), "sync")
  <2>1. /\ Mark(11 + 20 * t, "commit") \in Turn(n, t) /\ Mark(12 + 20 * t, "wait") \in Turn(n, t)
        /\ Mark(13 + 20 * t, "sync") \in Turn(n, t)
        /\ EndsTurn(n, t) => Mark(24 + 20 * t, "sync") \in Turn(n, t)
    BY DEF Turn, EndsTurn
  <2>. QED
    BY <1>1, <2>1, InTurn DEF Ops
<1>4. \A v \in {1, 3, 5} : Mark(v, "commit") \in Prologue(n)
  BY DEF Prologue
<1>5. Mark(6, "wait") \in Prologue(n) /\ Mark(7, "sync") \in Prologue(n)
  BY DEF Prologue
<1>. QED
  BY <1>1, <1>2, <1>3, <1>4, <1>5 DEF Ops

LEMMA LoadsOf ==
  ASSUME NEW n \in Nat
  PROVE  /\ Load(8, 0, 0) \in Ops(Loop(n), "load")
         /\ \A t \in 0 .. n - 1 :
              /\ Load(9 + 20 * t, t % 4, 1) \in Ops(Loop(n), "load")
              /\ t + 1 < n => Load(19 + 20 * t, (t + 1) % 4, 0) \in Ops(Loop(n), "load")
              /\ t + 1 < n /\ (t + 1) % 4 = 0 => Load(25 + 20 * t, 0, 0) \in Ops(Loop(n), "load")
         /\ \A e \in Ops(Loop(n), "load") :
              \/ e = Load(8, 0, 0)
              \/ \E t \in 0 .. n - 1 :
                   \/ e = Load(9 + 20 * t, t % 4, 1)
                   \/ t + 1 < n /\ e = Load(19 + 20 * t, (t + 1) % 4, 0)
                   \/ t + 1 < n /\ (t + 1) % 4 = 0 /\ e = Load(25 + 20 * t, 0, 0)
<1>1. \A v, s, f : Load(v, s, f).op = "load"
  BY DEF Load
<1>2. Load(8, 0, 0) \in Prologue(n)
  BY DEF Prologue
<1>3. ASSUME NEW t \in 0 .. n - 1
      PROVE  /\ Load(9 + 20 * t, t % 4, 1) \in Ops(Loop(n), "load")
             /\ t + 1 < n => Load(19 + 20 * t, (t + 1) % 4, 0) \in Ops(Loop(n), "load")
             /\ t + 1 < n /\ (t + 1) % 4 = 0 => Load(25 + 20 * t, 0, 0) \in Ops(Loop(n), "load")
  <2>1. /\ Load(9 + 20 * t, t % 4, 1) \in Turn(n, t)
        /\ t + 1 < n => Load(19 + 20 * t, (t + 1) % 4, 0) \in Turn(n, t)
        /\ t + 1 < n /\ (t + 1) % 4 = 0 => Load(25 + 20 * t, 0, 0) \in Turn(n, t)
    BY DEF Turn
  <2>. QED
    BY <1>1, <2>1, InTurn DEF Ops
<1>4. ASSUME NEW e \in Ops(Loop(n), "load")
      PROVE  \/ e = Load(8, 0, 0)
             \/ \E t \in 0 .. n - 1 :
                   \/ e = Load(9 + 20 * t, t % 4, 1)
                   \/ t + 1 < n /\ e = Load(19 + 20 * t, (t + 1) % 4, 0)
                   \/ t + 1 < n /\ (t + 1) % 4 = 0 /\ e = Load(25 + 20 * t, 0, 0)
  <2>1. e \in Loop(n) /\ e.op = "load"
    BY DEF Ops
  <2>2. CASE e \in Prologue(n)
    BY <2>1, <2>2 DEF Prologue, FirstCopy, Copy, Mark
  <2>3. CASE \E t \in 0 .. n - 1 : e \in Turn(n, t)
    <3>1. PICK t \in 0 .. n - 1 : e \in Turn(n, t)
      BY <2>3
    <3>. QED
      BY <2>1, <3>1 DEF Turn, FirstCopy, Copy, Mark
  <2>. QED
    BY <2>1, <2>2, <2>3, LoopIs
<1>5. Load(8, 0, 0) \in Ops(Loop(n), "load")
  BY <1>1, <1>2, LoopIs DEF Ops
<1>. QED
  BY <1>3, <1>4, <1>5

\* Three groups are more than a wait lets go on.
LEMMA ThreeGroups ==
  ASSUME NEW S, IsFiniteSet(S), NEW a \in S, NEW b \in S, NEW c \in S, a # b, a # c, b # c
  PROVE  Cardinality(S) > Outstanding
<1>1. IsFiniteSet({a}) /\ Cardinality({a}) = 1
  BY FS_Singleton
<1>2. IsFiniteSet({a} \cup {b}) /\ Cardinality({a} \cup {b}) = 2
  <2>1. b \notin {a}
    OBVIOUS
  <2>2. IsFiniteSet({a} \cup {b}) /\ Cardinality({a} \cup {b}) = Cardinality({a}) + 1
    BY <1>1, <2>1, FS_AddElement, Zenon
  <2>. QED
    BY <1>1, <2>2
<1>3. Cardinality(({a} \cup {b}) \cup {c}) = 3
  <2>1. c \notin {a} \cup {b}
    OBVIOUS
  <2>2. Cardinality(({a} \cup {b}) \cup {c}) = Cardinality({a} \cup {b}) + 1
    BY <1>2, <2>1, FS_AddElement, Zenon
  <2>. QED
    BY <1>2, <2>2
<1>4. ({a} \cup {b}) \cup {c} \in SUBSET S
  OBVIOUS
<1>5. 3 <= Cardinality(S) /\ Cardinality(S) \in Nat
  BY <1>3, <1>4, FS_Subset, FS_CardinalityType
<1>. QED
  BY <1>5 DEF Outstanding, Stages

\* A loop issues finitely much.
LEMMA LoopIsFinite == ASSUME NEW n \in Nat PROVE IsFiniteSet(Ops(Loop(n), "commit"))
<1>. DEFINE places == 0 .. 20 * n + 11
            f == [v \in places |-> Mark(v, "commit")]
            T == {f[v] : v \in places}
<1>1. IsFiniteSet(places)
  BY FS_Interval
<1>2. f \in Surjection(places, T)
  BY DEF Surjection
<1>3. IsFiniteSet(T)
  BY <1>1, <1>2, FS_Surjection
<1>4. ASSUME NEW e \in Ops(Loop(n), "commit") PROVE e \in T
  <2>1. e \in Loop(n) /\ e.op = "commit"
    BY DEF Ops
  <2>2. CASE e \in Prologue(n)
    <3>1. e \in {Mark(1, "commit"), Mark(3, "commit"), Mark(5, "commit")}
      BY <2>1, <2>2 DEF Prologue, FirstCopy, Copy, Mark, Load
    <3>2. 1 \in places /\ 3 \in places /\ 5 \in places
      OBVIOUS
    <3>. QED
      BY <3>1, <3>2
  <2>3. CASE \E t \in 0 .. n - 1 : e \in Turn(n, t)
    <3>1. PICK t \in 0 .. n - 1 : e \in Turn(n, t)
      BY <2>3
    <3>2. e = Mark(11 + 20 * t, "commit")
      BY <2>1, <3>1 DEF Turn, FirstCopy, Copy, Mark, Load
    <3>3. 11 + 20 * t \in places
      OBVIOUS
    <3>. QED
      BY <3>2, <3>3
  <2>. QED
    BY <2>1, <2>2, <2>3, LoopIs
<1>5. Ops(Loop(n), "commit") \in SUBSET T
  BY <1>4
<1>. HIDE DEF T
<1>. QED
  BY <1>3, <1>5, FS_Subset

\* When the copy of a K tile is there for every warp.
SettledAfter(u) == IF u = 0 THEN 7 ELSE 20 * u - 7

LEMMA CopySettles ==
  ASSUME NEW n \in Nat, NEW u \in 0 .. n - 1, NEW pos \in Nat, pos > SettledAfter(u)
  PROVE  Settled(Loop(n), FirstCopy(u), pos)
<1>. DEFINE w == IF u = 0 THEN 6 ELSE 20 * u - 8
            CommitOf(i) == IF u = 0 THEN 2 * i - 1
                           ELSE IF u = 1 THEN (IF i < 3 THEN 2 * i + 1 ELSE 11)
                           ELSE IF u = 2 THEN (IF i = 1 THEN 5 ELSE 20 * i - 29) ELSE 20 * u + 20 * i - 69
            between == Between(Loop(n), "commit", CopyPos(u), w)
<1>1. Mark(w, "wait") \in Ops(Loop(n), "wait") /\ Mark(w + 1, "sync") \in Ops(Loop(n), "sync")
  <2>1. CASE u = 0
    <3>1. w = 6 /\ w + 1 = 7
      BY <2>1
    <3>. HIDE DEF w
    <3>. QED
      BY <3>1, MarksOf
  <2>2. CASE u > 0
    <3>1. u - 1 \in 0 .. n - 1 /\ 12 + 20 * (u - 1) = w /\ 13 + 20 * (u - 1) = w + 1
      BY <2>2
    <3>. QED
      BY <3>1, MarksOf
  <2>. QED
    BY <2>1, <2>2
<1>2. \A i \in 1 .. 3 : Mark(CommitOf(i), "commit") \in Ops(Loop(n), "commit")
  <2>1. CASE u = 0
    <3>1. CommitOf(1) = 1 /\ CommitOf(2) = 3 /\ CommitOf(3) = 5
      BY <2>1
    <3>4. \A v \in {1, 3, 5} : Mark(v, "commit") \in Ops(Loop(n), "commit")
      BY MarksOf
    <3>5. 1 .. 3 = {1, 2, 3}
      OBVIOUS
    <3>. HIDE DEF CommitOf
    <3>. QED
      BY <3>1, <3>4, <3>5
  <2>2. CASE u = 1
    <3>1. 0 \in 0 .. n - 1 /\ 11 + 20 * 0 = 11
      OBVIOUS
    <3>2. Mark(11, "commit") \in Ops(Loop(n), "commit")
      BY <3>1, MarksOf
    <3>3. CommitOf(1) = 3 /\ CommitOf(2) = 5 /\ CommitOf(3) = 11
      BY <2>2
    <3>4. \A v \in {1, 3, 5} : Mark(v, "commit") \in Ops(Loop(n), "commit")
      BY MarksOf
    <3>5. 1 .. 3 = {1, 2, 3}
      OBVIOUS
    <3>. HIDE DEF CommitOf
    <3>. QED
      BY <3>2, <3>3, <3>4, <3>5
  <2>3. CASE u = 2
    <3>1. 0 \in 0 .. n - 1 /\ 11 + 20 * 0 = 11 /\ 1 \in 0 .. n - 1 /\ 11 + 20 * 1 = 31
      BY <2>3
    <3>2. Mark(11, "commit") \in Ops(Loop(n), "commit") /\ Mark(31, "commit") \in Ops(Loop(n), "commit")
      BY <3>1, MarksOf
    <3>3. CommitOf(1) = 5 /\ CommitOf(2) = 11 /\ CommitOf(3) = 31
      BY <2>3
    <3>4. \A v \in {1, 3, 5} : Mark(v, "commit") \in Ops(Loop(n), "commit")
      BY MarksOf
    <3>5. 1 .. 3 = {1, 2, 3}
      OBVIOUS
    <3>. HIDE DEF CommitOf
    <3>. QED
      BY <3>2, <3>3, <3>4, <3>5
  <2>4. CASE u >= 3
    <3>1. /\ u - 3 \in 0 .. n - 1 /\ 11 + 20 * (u - 3) = 20 * u - 49
          /\ u - 2 \in 0 .. n - 1 /\ 11 + 20 * (u - 2) = 20 * u - 29
          /\ u - 1 \in 0 .. n - 1 /\ 11 + 20 * (u - 1) = 20 * u - 9
      BY <2>4
    <3>2. /\ Mark(20 * u - 49, "commit") \in Ops(Loop(n), "commit")
          /\ Mark(20 * u - 29, "commit") \in Ops(Loop(n), "commit")
          /\ Mark(20 * u - 9, "commit") \in Ops(Loop(n), "commit")
      BY <3>1, MarksOf
    <3>. QED
      BY <2>4, <3>2
  <2>. QED
    BY <2>1, <2>2, <2>3, <2>4
<1>3. /\ CopyPos(u) < CommitOf(1) /\ CommitOf(1) < CommitOf(2) /\ CommitOf(2) < CommitOf(3) /\ CommitOf(3) < w
      /\ \A i \in 1 .. 3 : CommitOf(i) \in Int
      /\ CopyPos(u) \in Int /\ w \in Int /\ CopyPos(u) < w /\ w + 1 < pos
  BY DEF CopyPos, SettledAfter
<1>. HIDE DEF CommitOf, w
<1>4. \A v, op : Mark(v, op).pos = v
  BY DEF Mark
<1>5. \A i \in 1 .. 3 : Mark(CommitOf(i), "commit") \in between
  BY <1>2, <1>3, <1>4 DEF Between
<1>6. between \subseteq Ops(Loop(n), "commit")
  BY DEF Between
<1>7. IsFiniteSet(between)
  BY <1>6, LoopIsFinite, FS_Subset
<1>8. Cardinality(between) > Outstanding
  <2>1. /\ Mark(CommitOf(1), "commit") # Mark(CommitOf(2), "commit") /\ Mark(CommitOf(1), "commit") # Mark(CommitOf(3), "commit")
        /\ Mark(CommitOf(2), "commit") # Mark(CommitOf(3), "commit")
    BY <1>3, <1>4
  <2>2. Mark(CommitOf(1), "commit") \in between /\ Mark(CommitOf(2), "commit") \in between /\ Mark(CommitOf(3), "commit") \in between
    BY <1>5
  <2>. HIDE DEF between
  <2>. QED
    BY <1>7, <2>1, <2>2, ThreeGroups
<1>9. FirstCopy(u).pos = CopyPos(u)
  BY DEF FirstCopy, Copy
<1>10. Mark(w, "wait") \in Between(Loop(n), "wait", FirstCopy(u).pos, pos)
  BY <1>1, <1>3, <1>4, <1>9 DEF Between
<1>11. Between(Loop(n), "sync", Mark(w, "wait").pos, pos) # {}
  BY <1>1, <1>3, <1>4 DEF Between
<1>12. Cardinality(Between(Loop(n), "commit", FirstCopy(u).pos, Mark(w, "wait").pos)) > Outstanding
  BY <1>4, <1>8, <1>9
<1>. QED
  BY <1>10, <1>11, <1>12 DEF Settled

\* A load of a fragment of tile t, at a place where the copy of t has settled and before
\* the warps meet in the step, finds tile t.
LEMMA LoadFinds ==
  ASSUME NEW n \in Nat, NEW t \in 0 .. n - 1, NEW pos \in Nat, NEW x,
         pos > SettledAfter(t), pos < 13 + 20 * t
  PROVE  Finds(Loop(n), Load(pos, t % 4, x), t)
<1>. DEFINE load == Load(pos, t % 4, x)
<1>1. load.slot = t % 4 /\ load.pos = pos
  BY DEF Load
<1>2. \A u \in 0 .. n - 1 : FirstCopy(u).pos = CopyPos(u) /\ FirstCopy(u).slot = u % 4 /\ FirstCopy(u).x = u
  BY DEF FirstCopy, Copy
<1>3. FirstCopy(t) \in Ops(Loop(n), "copy")
  BY CopiesOf
<1>4. Settled(Loop(n), FirstCopy(t), pos)
  BY CopySettles
<1>5. CopyPos(t) < pos
  BY DEF CopyPos, SettledAfter
<1>6. ASSUME NEW other \in Ops(Loop(n), "copy") \ {FirstCopy(t)}, other.slot = t % 4
      PROVE  \/ other.pos < CopyPos(t) /\ Settled(Loop(n), other, CopyPos(t))
             \/ pos < other.pos /\ Read(Loop(n), load, other.pos)
  <2>1. PICK u \in 0 .. n - 1 : other = FirstCopy(u)
    BY CopiesOf
  <2>2. u # t /\ u % 4 = t % 4 /\ other.pos = CopyPos(u)
    BY <1>2, <1>6, <2>1
  <2>3. u + 4 <= t \/ t + 4 <= u
    BY <2>2
  <2>4. CASE u + 4 <= t
    <3>1. CopyPos(u) < CopyPos(t) /\ CopyPos(t) \in Nat /\ CopyPos(t) > SettledAfter(u)
      BY <2>4 DEF CopyPos, SettledAfter
    <3>. QED
      BY <2>1, <2>2, <3>1, CopySettles
  <2>5. CASE t + 4 <= u
    <3>1. CopyPos(u) \in Nat /\ 13 + 20 * t < CopyPos(u)
      BY <2>5 DEF CopyPos
    <3>2. Mark(13 + 20 * t, "sync") \in Ops(Loop(n), "sync") /\ Mark(13 + 20 * t, "sync").pos = 13 + 20 * t
      BY MarksOf DEF Mark
    <3>3. Mark(13 + 20 * t, "sync") \in Between(Loop(n), "sync", pos, CopyPos(u))
      BY <3>1, <3>2 DEF Between
    <3>. QED
      BY <1>1, <2>2, <3>1, <3>3 DEF Read
  <2>. QED
    BY <2>3, <2>4, <2>5
<1>. HIDE DEF load
<1>7. Finds(Loop(n), load, t)
  BY <1>1, <1>2, <1>3, <1>4, <1>5, <1>6 DEF Finds
<1>. QED
  BY <1>7 DEF load

\* The loads around a K tile.
LEMMA StepMultiplies ==
  ASSUME NEW n \in Nat, NEW t \in 0 .. n - 1, NEW kk \in 0 .. 1
  PROVE  Multiplies(Loop(n), t, kk)
<1>. DEFINE pos == IF kk = 1 THEN 9 + 20 * t ELSE IF t = 0 THEN 8 ELSE IF t % 4 = 0 THEN 5 + 20 * t ELSE 20 * t - 1
            load == Load(pos, t % 4, kk)
<1>1. pos \in Nat /\ pos > SettledAfter(t) /\ pos < 13 + 20 * t /\ pos < At(t, kk)
  BY PlacesInLoop DEF SettledAfter
<1>2. load \in Ops(Loop(n), "load")
  <2>1. CASE kk = 1
    BY <2>1, LoadsOf
  <2>2. CASE kk = 0 /\ t = 0
    BY <2>2, LoadsOf
  <2>3. CASE kk = 0 /\ t > 0
    <3>1. t - 1 \in 0 .. n - 1 /\ (t - 1) + 1 = t /\ t < n /\ 25 + 20 * (t - 1) = 5 + 20 * t /\ 19 + 20 * (t - 1) = 20 * t - 1
      BY <2>3
    <3>2. /\ Load(20 * t - 1, t % 4, 0) \in Ops(Loop(n), "load")
          /\ t % 4 = 0 => Load(5 + 20 * t, 0, 0) \in Ops(Loop(n), "load")
      BY <3>1, LoadsOf
    <3>. QED
      BY <2>3, <3>2
  <2>. QED
    BY <2>1, <2>2, <2>3
<1>3. load.pos = pos /\ load.x = kk
  BY DEF Load
<1>4. ASSUME NEW e \in Ops(Loop(n), "load"), pos < e.pos, e.pos < At(t, kk) PROVE FALSE
  <2>1. At(t, kk) = 9 + 20 * t + 10 * kk
    BY DEF At, Fragments, Stages
  <2>2. \A v, s, f : Load(v, s, f).pos = v
    BY DEF Load
  <2>3. CASE e = Load(8, 0, 0)
    BY <1>4, <2>1, <2>2, <2>3
  <2>4. CASE \E s \in 0 .. n - 1 :
                   \/ e = Load(9 + 20 * s, s % 4, 1)
                   \/ s + 1 < n /\ e = Load(19 + 20 * s, (s + 1) % 4, 0)
                   \/ s + 1 < n /\ (s + 1) % 4 = 0 /\ e = Load(25 + 20 * s, 0, 0)
    <3>1. PICK s \in 0 .. n - 1 :
                   \/ e = Load(9 + 20 * s, s % 4, 1)
                   \/ s + 1 < n /\ e = Load(19 + 20 * s, (s + 1) % 4, 0)
                   \/ s + 1 < n /\ (s + 1) % 4 = 0 /\ e = Load(25 + 20 * s, 0, 0)
      BY <2>4
    <3>2. e.pos = 9 + 20 * s \/ e.pos = 19 + 20 * s \/ (e.pos = 25 + 20 * s /\ (s + 1) % 4 = 0)
      BY <2>2, <3>1
    <3>3. CASE kk = 1
      BY <1>4, <2>1, <3>2, <3>3
    <3>4. CASE kk = 0
      <4>1. s = t - 1 \/ s < t - 1 \/ s >= t
        OBVIOUS
      <4>2. CASE s = t - 1
        BY <1>4, <2>1, <3>2, <3>4, <4>2
      <4>3. CASE s < t - 1
        BY <1>4, <2>1, <3>2, <3>4, <4>3
      <4>4. CASE s >= t
        BY <1>4, <2>1, <3>2, <3>4, <4>4
      <4>. QED
        BY <4>1, <4>2, <4>3, <4>4
    <3>. QED
      BY <3>3, <3>4
  <2>. QED
    BY <2>3, <2>4, LoadsOf
<1>5. Finds(Loop(n), load, t)
  BY <1>1, LoadFinds
<1>. HIDE DEF load, pos
<1>6. Between(Loop(n), "load", load.pos, At(t, kk)) = {}
  BY <1>3, <1>4 DEF Between
<1>. QED
  BY <1>1, <1>2, <1>3, <1>5, <1>6 DEF Multiplies

\* The K loop of any number of K tiles multiplies each of them.
THEOREM LoopMultiplies == ASSUME NEW n \in Nat PROVE Multiplied(n) = 0 .. n - 1
<1>1. ASSUME n > 0, NEW copy \in Ops(Loop(n), "copy") PROVE Settled(Loop(n), copy, At(n, 0))
  <2>1. PICK u \in 0 .. n - 1 : copy = FirstCopy(u)
    BY CopiesOf
  <2>2. At(n, 0) \in Nat /\ At(n, 0) > SettledAfter(u)
    BY PlacesInLoop DEF SettledAfter
  <2>. QED
    BY <2>1, <2>2, CopySettles
<1>2. ASSUME n > 0, NEW load \in Ops(Loop(n), "load") PROVE Read(Loop(n), load, At(n, 0))
  <2>1. \A v, s, f : Load(v, s, f).pos = v
    BY DEF Load
  <2>2. load.pos \in Int /\ load.pos < 4 + 20 * n
    <3>1. CASE load = Load(8, 0, 0)
      BY <1>2, <2>1, <3>1
    <3>2. CASE \E s \in 0 .. n - 1 :
                   \/ load = Load(9 + 20 * s, s % 4, 1)
                   \/ s + 1 < n /\ load = Load(19 + 20 * s, (s + 1) % 4, 0)
                   \/ s + 1 < n /\ (s + 1) % 4 = 0 /\ load = Load(25 + 20 * s, 0, 0)
      BY <2>1, <3>2
    <3>. QED
      BY <3>1, <3>2, LoadsOf
  <2>3. n - 1 \in 0 .. n - 1 /\ EndsTurn(n, n - 1) /\ 24 + 20 * (n - 1) = 4 + 20 * n
    BY <1>2 DEF EndsTurn
  <2>4. Mark(4 + 20 * n, "sync") \in Ops(Loop(n), "sync") /\ Mark(4 + 20 * n, "sync").pos = 4 + 20 * n
    <3>1. Mark(24 + 20 * (n - 1), "sync") \in Ops(Loop(n), "sync")
      BY <2>3, MarksOf
    <3>. QED
      BY <2>3, <3>1 DEF Mark
  <2>5. At(n, 0) = 9 + 20 * n
    BY PlacesInLoop
  <2>6. Mark(4 + 20 * n, "sync") \in Between(Loop(n), "sync", load.pos, At(n, 0))
    BY <2>2, <2>4, <2>5 DEF Between
  <2>. QED
    BY <2>6 DEF Read
<1>3. \A t \in 0 .. n - 1, kk \in 0 .. Fragments - 1 : Multiplies(Loop(n), t, kk)
  <2>1. 0 .. Fragments - 1 = 0 .. 1
    BY DEF Fragments
  <2>. QED
    BY <2>1, StepMultiplies
<1>4. ASSUME NEW t \in 0 .. n - 1 PROVE n > 0
  OBVIOUS
<1>. QED
  BY <1>1, <1>2, <1>3, <1>4 DEF Multiplied

-----------------------------------------------------------------------------
(* Every launch computes what it should. *)

LEMMA LoopsMultiply == KLoopMultiplies
<1>. SUFFICES ASSUME NEW p \in Plans, NEW w \in Gemms, NEW n \in 0 .. Gemm(p, w).k PROVE Multiplied(n) = 0 .. n - 1
  BY DEF KLoopMultiplies
<1>1. n \in Nat
  BY NumbersOfGemm
<1>. QED
  BY <1>1, LoopMultiplies

\* When a CTA's stores are seen in order, a launch of any plan, after any others on the
\* workspace, ends with every tile of an expert that is here computed from whole inputs,
\* and gives the words of the workspace back.
THEOREM LaunchesCompute == ASSUME InOrder PROVE Spec => []LaunchComputes
<1>1. SchedulesAgree /\ KLoopMultiplies
  BY SchedulesAreConsistent, LoopsMultiply DEF SchedulesAgree, Gemms
<1>2. KernelInv /\ [Next]_vars => KernelInv'
  BY <1>1, NextKernel
<1>3. KernelInv => LaunchComputes
  BY <1>1, KernelComputes
<1>. QED
  BY <1>2, <1>3, InitKernel, PTL DEF Spec
=============================================================================
