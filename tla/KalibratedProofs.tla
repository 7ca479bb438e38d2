-------------------------- MODULE KalibratedProofs --------------------------
(***************************************************************************)
(* What is booted is whole, splices stay behind the converter and a switch *)
(* redoes no finished layer: for every number of layers, choice of the     *)
(* promoted ones, number of faults and of runs of the puller.  PullInv is  *)
(* about the Spark: a bad file is remembered by the puller's log.  PodInv  *)
(* is about the pod: between the checkpoint switch.sh waits for and the    *)
(* resume, the converter is where the checkpoint is.                       *)
(***************************************************************************)
EXTENDS KalibratedChain, WellFoundedInduction, TLAPS

\* A file that is not whole is being verified, or the log has its MISMATCH, or it
\* has no sidecar yet, or the puller was killed before the comparison.
BadIsRemembered ==
  \A l \in K3 : dst[l] \in {"part", "bad"} =>
    \/ "MISMATCH" \in pullLog \/ l \in unchecked \/ ~dside[l]
    \/ pull.pc = "verify" /\ pull.at = l

\* A sidecar comes after its file, and a file is fetched that is not here.
FetchesMissing ==
  /\ \A l \in K3 : dside[l] => dst[l] # "none"
  /\ pull.pc \in {"grep", "fetch"} => ~Here(pull.at)

\* The puller has brought what it has passed, or its log says which it has not.
PassedIsThere ==
  /\ pull.pc \in Pulling =>
       /\ pull.at \in K3 /\ \A l \in K3 : l < pull.at => Here(l) \/ "MISMATCH" \in pullLog
  /\ pull.pc = "verify" => dside[pull.at]

\* After a clean run of the puller there is nothing more to fetch.
CleanRun == "done" \in pullLog /\ "MISMATCH" \notin pullLog
CleanRunIsWhole ==
  CleanRun => /\ \A l \in K3 : Here(l) /\ (dst[l] = "whole" \/ l \in unchecked)
              /\ pull.pc \notin {"grep", "fetch", "verify"}

\* A boot that began has read a clean run.
BootReadClean ==
  /\ boot.pc = "read" => pullLog \cap {"done", "ABORTED"} # {}
  /\ boot.pc \in {"ladder", "battery", "end"} => CleanRun

PullInv == BadIsRemembered /\ FetchesMissing /\ PassedIsThere /\ CleanRunIsWhole /\ BootReadClean

-----------------------------------------------------------------------------
\* Before the converter is started.
NotStarted ==
  chain.pc \in {"build", "prepare"} =>
    conv.pc = "off" /\ conv.at = 0 /\ switch.pc = "off" /\ ckpt.layer = None /\ splicer = {}

\* What the converter has passed is whole, and its log is not ahead of it.
PassedIsWhole ==
  /\ \A l \in Layers : l < conv.at => qt[l] = "whole"
  /\ conv.cur <= conv.at /\ (conv.pc \in {"save", "ckpt"} => conv.at < NumLayers)

\* From the checkpoint that switch.sh saw to the resume, the converter is at
\* that checkpoint, or has ended for good.
Stopping == BeingStopped \/ switch.pc = "launch"
StoppedAtCheckpoint ==
  /\ Stopping => /\ ckpt.layer = conv.at \/ (ckpt.layer = None /\ ~Alive)
                 /\ conv.pc # "save"
  /\ switch.pc = "launch" => conv.pc = "dead"
  /\ switch.pc \in {"stop", "launch"} => chain.pc \in {"killed", "done", "failed"}

\* The checkpoint is removed when the converter is done.
CheckedIsDone ==
  /\ chain.pc \in {"check", "last"} => ~Alive
  /\ chain.pc = "last" => ckpt.layer = None

\* As long as there is something to go on with, splices are behind it.
SplicesBehind == Alive \/ ckpt.layer # None => \A s \in splicer : s.layer < conv.at

\* Only a chain that splices has a child, one at a time, of the layer it is at.
OneChild ==
  /\ \A s, t \in splicer : s.by = "child" /\ t.by = "child" => s = t
  /\ \A s \in splicer : s.by = "child" =>
       chain.pc \in {"loop", "last"} /\ (chain.pc = "loop" => s.layer = chain.next)

PodInv ==
  /\ NotStarted /\ PassedIsWhole /\ StoppedAtCheckpoint /\ CheckedIsDone /\ SplicesBehind /\ OneChild

-----------------------------------------------------------------------------
\* The lowest of a set of layers is one of them.
LEMMA LowestIsIn == ASSUME NEW s \in SUBSET Layers, s # {} PROVE Lowest(s) \in s /\ \A k \in s : Lowest(s) <= k
<1> DEFINE less == {p \in Nat \X Nat : p[1] < p[2]}
<1>0. OpToRel(<, Nat) = less
  BY DEF OpToRel
<1>1. IsWellFoundedOn(less, Nat)
  BY <1>0, NatLessThanWellFounded, Zenon
<1>2. s \subseteq Nat
  BY KalibratedAssumption DEF Layers
<1> HIDE DEF less
<1>3. PICK l \in s : \A k \in s : <<k, l>> \notin less
  BY <1>1, <1>2, WFMin, Zenon
<1>4. ASSUME NEW k \in s PROVE l <= k
  <2>1. k \in Nat /\ l \in Nat /\ <<k, l>> \notin less
    BY <1>2, <1>3
  <2>2. ~(k < l)
    BY <2>1 DEF less
  <2> QED
    BY <2>1, <2>2
<1> QED
  BY <1>3, <1>4 DEF Lowest

\* The puller goes to a later layer, or is done.
LEMMA PullsNextKeepsTypes ==
  ASSUME TypeOK, NEW lines \in SUBSET {"MISMATCH"}, PullsNext(lines)
  PROVE  pull' \in PullType /\ pullLog' \subseteq {"done", "ABORTED", "MISMATCH"}
<1> DEFINE rest == LayersOf(pull.at + 1)
<1>1. rest # {} => Lowest(rest) \in K3
  BY LowestIsIn, KalibratedAssumption DEF LayersOf, Layers
<1>2. pull' \in PullType
  BY <1>1 DEF PullsNext, TypeOK, PullType, Pulling
<1>3. pullLog' \subseteq {"done", "ABORTED", "MISMATCH"}
  BY DEF PullsNext, TypeOK
<1> QED
  BY <1>2, <1>3

\* ... and passes no promoted layer over.
LEMMA PullsNextIsNext ==
  ASSUME TypeOK, NEW lines, PullsNext(lines), pull.at \in K3
  PROVE  \/ /\ pull' = [pull EXCEPT !.pc = "done"] /\ pullLog' = pullLog \cup lines \cup {"done"}
            /\ \A l \in K3 : l <= pull.at
         \/ /\ pullLog' = pullLog \cup lines
            /\ \E n \in K3 : /\ pull' = [pull EXCEPT !.pc = "test", !.at = n]
                             /\ \A l \in K3 : l < n => l <= pull.at
<1>0. K3 \subseteq Nat /\ pull.at \in Nat
  <2>1. \A l \in 0..NumLayers - 1 : l \in Nat
    BY KalibratedAssumption
  <2>2. \A l \in K3 : l \in Nat
    BY <2>1, KalibratedAssumption
  <2> QED
    BY <2>2
<1> USE KalibratedAssumption
<1> DEFINE rest == LayersOf(pull.at + 1)
<1>1. \A l \in K3 : l \in rest \/ l <= pull.at
  BY <1>0 DEF LayersOf
<1>2. CASE rest = {}
  BY <1>1, <1>2 DEF PullsNext
<1>3. CASE rest # {}
  <2>1. Lowest(rest) \in K3 /\ \A k \in rest : Lowest(rest) <= k
    BY <1>3, LowestIsIn DEF LayersOf, Layers
  <2> HIDE DEF rest
  <2>2. \A l \in K3 : l < Lowest(rest) => l <= pull.at
    <3> DEFINE low == Lowest(rest)
    <3>1. low \in Nat /\ \A k \in rest : low <= k
      BY <1>0, <2>1
    <3> HIDE DEF low
    <3>2. \A l \in K3 : l \in Nat /\ (l < low => ~(low <= l))
      BY <1>0, <3>1
    <3> QED
      BY <1>1, <3>1, <3>2 DEF low
  <2>3. pull' = [pull EXCEPT !.pc = "test", !.at = Lowest(rest)] /\ pullLog' = pullLog \cup lines
    BY <1>3 DEF PullsNext, rest
  <2> QED
    BY <2>1, <2>2, <2>3
<1> QED
  BY <1>2, <1>3

-----------------------------------------------------------------------------
LEMMA InitEstablishes == Init => TypeOK /\ PodInv /\ PullInv
<1> SUFFICES ASSUME Init PROVE TypeOK /\ PodInv /\ PullInv
  OBVIOUS
<1> USE KalibratedAssumption DEF Init
<1>1. TypeOK
  <2>1. 0 \in 0..NumLayers /\ 0 \in 0..NumLayers + ResumeFrom /\ 0 \in 0..MaxFaults /\ 0 \in 0..MaxPulls
    OBVIOUS
  <2>2. chain \in ChainType /\ conv \in ConvType /\ ckpt \in CkptType
    BY <2>1 DEF ChainType, ConvType, CkptType
  <2>3. switch \in SwitchType /\ pull \in PullType /\ boot \in BootType
    BY <2>1 DEF SwitchType, PullType, BootType
  <2>4. qt \in [Layers -> {"none", "writing", "whole"}] /\ spl \in [K3 -> {"none", "partial", "whole"}]
    OBVIOUS
  <2>5. side \in [K3 -> BOOLEAN] /\ dst \in [K3 -> {"none", "part", "bad", "whole"}] /\ dside \in [K3 -> BOOLEAN]
    OBVIOUS
  <2> QED
    BY <2>1, <2>2, <2>3, <2>4, <2>5 DEF TypeOK
<1>2. PodInv
  BY DEF PodInv, NotStarted, PassedIsWhole, StoppedAtCheckpoint, Stopping, BeingStopped, CheckedIsDone, SplicesBehind,
       OneChild, Alive, Layers, None
<1>3. PullInv
  BY DEF PullInv, BadIsRemembered, FetchesMissing, PassedIsThere, CleanRunIsWhole, CleanRun, BootReadClean, Pulling
<1> QED
  BY <1>1, <1>2, <1>3

LEMMA TypeStep == TypeOK /\ PodInv /\ PullInv /\ [Next]_vars => TypeOK'
<1> SUFFICES ASSUME TypeOK, PodInv, PullInv, [Next]_vars PROVE TypeOK'
  OBVIOUS
<1> USE KalibratedAssumption DEF PodInv
<1>1. ASSUME BuildExits PROVE TypeOK'
  BY <1>1 DEF BuildExits, TypeOK, podVars, pullVars
<1>2. ASSUME BuildFails PROVE TypeOK'
  BY <1>2 DEF BuildFails, Fault, TypeOK, podVars, pullVars
<1>3. ASSUME Imported PROVE TypeOK'
  BY <1>3 DEF Imported, TypeOK, podVars, pullVars
<1>4. ASSUME NamesLayer PROVE TypeOK'
  <2>1. conv.at \in Layers
    BY <1>4 DEF NamesLayer, TypeOK, ConvType, Layers
  <2>2. conv' \in ConvType
    BY <1>4, <2>1 DEF NamesLayer, TypeOK, ConvType
  <2> QED
    BY <1>4, <2>2 DEF NamesLayer, TypeOK, pullVars
<1>5. ASSUME Saves PROVE TypeOK'
  BY <1>5 DEF Saves, BeingStopped, ConvType, Layers, None, TypeOK, podVars, pullVars
<1>6. ASSUME Saved PROVE TypeOK'
  <2>1. conv.at \in 0..NumLayers /\ conv.at < NumLayers
    BY <1>6 DEF Saved, TypeOK, ConvType, PassedIsWhole
  <2>2. conv.at + 1 \in 0..NumLayers /\ conv' = [conv EXCEPT !.pc = "quantize", !.at = conv.at + 1]
    BY <1>6, <2>1 DEF Saved
  <2>4. conv' \in ConvType
    BY <2>2 DEF TypeOK, ConvType
  <2>3. qt' \in [Layers -> {"none", "writing", "whole"}]
    BY <1>6 DEF Saved, TypeOK
  <2> QED
    BY <1>6, <2>4, <2>3 DEF Saved, TypeOK, pullVars
<1>7. ASSUME Checkpoints PROVE TypeOK'
  BY <1>7 DEF Checkpoints, ConvType, CkptType, Layers, None, TypeOK, podVars, pullVars
<1>8. ASSUME Checkpointed PROVE TypeOK'
  <2>1. conv.at \in Layers
    BY <1>8 DEF Checkpointed, TypeOK, ConvType, PassedIsWhole, Layers
  <2>2. conv' \in ConvType
    BY <1>8 DEF Checkpointed, TypeOK, ConvType
  <2>3. ckpt' \in CkptType
    BY <1>8, <2>1 DEF Checkpointed, CkptType
  <2> QED
    BY <1>8, <2>2, <2>3 DEF Checkpointed, TypeOK, pullVars
<1>9. ASSUME Compiles PROVE TypeOK'
  BY <1>9 DEF Compiles, ConvType, Layers, None, TypeOK, podVars, pullVars
<1>10. ASSUME ConverterDies PROVE TypeOK'
  <2>1. conv' \in ConvType
    <3>1. PICK trace \in BOOLEAN : conv' = [conv EXCEPT !.pc = "dead", !.trace = trace]
      BY <1>10 DEF ConverterDies
    <3> QED
      BY <3>1 DEF TypeOK, ConvType
  <2>2. faults' \in 0..MaxFaults
    BY <1>10 DEF ConverterDies, Fault, TypeOK
  <2> QED
    BY <1>10, <2>1, <2>2 DEF ConverterDies, TypeOK, pullVars
<1>11. ASSUME SpliceWrites PROVE TypeOK'
  BY <1>11 DEF SpliceWrites, Writing, SplicerType, OneChild, TypeOK, podVars, pullVars
<1>12. ASSUME SpliceEnds PROVE TypeOK'
  <2>1. PICK s \in splicer :
          /\ s.stage = "sidecar" /\ splicer' = splicer \ {s} /\ side' = [side EXCEPT ![s.layer] = TRUE]
          /\ chain' = IF s.by = "child" /\ chain.pc = "loop" THEN [chain EXCEPT !.next = chain.next + 1] ELSE chain
    BY <1>12 DEF SpliceEnds
  <2>2. splicer' \subseteq SplicerType /\ side' \in [K3 -> BOOLEAN]
    BY <2>1 DEF TypeOK
  <2>3. chain' \in ChainType
    <3>1. CASE s.by = "child" /\ chain.pc = "loop"
      <4>1. chain.next \in 0..NumLayers - 1
        BY <2>1, <3>1 DEF OneChild, TypeOK, SplicerType
      <4>2. chain.next + 1 \in 0..NumLayers + ResumeFrom
        BY <4>1
      <4> QED
        BY <2>1, <3>1, <4>2 DEF TypeOK, ChainType
    <3>2. CASE ~(s.by = "child" /\ chain.pc = "loop")
      BY <2>1, <3>2 DEF TypeOK
    <3> QED
      BY <3>1, <3>2
  <2> QED
    BY <1>12, <2>2, <2>3 DEF SpliceEnds, TypeOK, pullVars
<1>13. ASSUME SpliceFails PROVE TypeOK'
  BY <1>13 DEF SpliceFails, Fault, Tell, ChainType, SplicerType, OneChild, TypeOK, podVars, pullVars
<1>14. ASSUME WaitsForBuild PROVE TypeOK'
  BY <1>14 DEF WaitsForBuild, Fails, ChainType, TypeOK, podVars, pullVars
<1>15. ASSUME Prepares PROVE TypeOK'
  BY <1>15 DEF Prepares, ChainType, ConvType, TypeOK, podVars, pullVars
<1>16. ASSUME PrepareFails PROVE TypeOK'
  BY <1>16 DEF PrepareFails, Fails, Fault, ChainType, TypeOK, podVars, pullVars
<1>17. ASSUME SplicesNext PROVE TypeOK'
  <2>1. chain' = [chain EXCEPT !.pc = "loop"] /\ chain.next \in K3
    BY <1>17 DEF SplicesNext
  <2>2. chain' \in ChainType
    BY <2>1 DEF TypeOK, ChainType
  <2>3. splicer' \subseteq SplicerType /\ spl' \in [K3 -> {"none", "partial", "whole"}]
    BY <1>17, <2>1 DEF SplicesNext, Splice, TypeOK, SplicerType
  <2> QED
    BY <1>17, <2>2, <2>3 DEF SplicesNext, TypeOK, pullVars
<1>18. ASSUME SkipsNext PROVE TypeOK'
  <2>1. chain.next \in 0..NumLayers + ResumeFrom /\ chain.next < NumLayers
    BY <1>18 DEF SkipsNext, Due, TypeOK, ChainType
  <2>2. chain.next + 1 \in 0..NumLayers + ResumeFrom
    BY <2>1
  <2>3. chain' \in ChainType
    BY <1>18, <2>2 DEF SkipsNext, TypeOK, ChainType
  <2> QED
    BY <1>18, <2>3 DEF SkipsNext, TypeOK, pullVars
<1>19. ASSUME StopsConverter PROVE TypeOK'
  BY <1>19 DEF StopsConverter, ChainType, ConvType, TypeOK, podVars, pullVars
<1>20. ASSUME ConverterGone PROVE TypeOK'
  BY <1>20 DEF ConverterGone, Child, Alive, ChainType, TypeOK, podVars, pullVars
<1>21. ASSUME CheckFails PROVE TypeOK'
  BY <1>21 DEF CheckFails, Fails, ChainType, TypeOK, podVars, pullVars
<1>22. ASSUME Checks PROVE TypeOK'
  BY <1>22 DEF Checks, QtOk, ChainType, CkptType, TypeOK, podVars, pullVars
<1>23. ASSUME SplicesRest PROVE TypeOK'
  <2>1. CASE (\E k \in K3 : ~side[k]) /\ Splice(Lowest({l \in K3 : ~side[l]})) /\ UNCHANGED chain
    <3> DEFINE left == {l \in K3 : ~side[l]}
    <3>0. left \in SUBSET Layers /\ left # {}
      BY <2>1 DEF Layers
    <3>1. Lowest(left) \in K3
      BY <3>0, LowestIsIn
    <3> QED
      BY <1>23, <2>1, <3>1 DEF SplicesRest, Splice, TypeOK, SplicerType, pullVars
  <2>2. CASE chain' = [chain EXCEPT !.pc = "done"] /\ UNCHANGED <<splicer, spl>>
    <3>1. chain' \in ChainType
      BY <2>2 DEF TypeOK, ChainType
    <3> QED
      BY <1>23, <2>2, <3>1 DEF SplicesRest, TypeOK, pullVars
  <2> QED
    BY <1>23, <2>1, <2>2 DEF SplicesRest
<1>24. ASSUME SwitchStarts PROVE TypeOK'
  BY <1>24 DEF SwitchStarts, CkptType, SwitchType, Layers, None, TypeOK, podVars, pullVars
<1>25. ASSUME SwitchSees PROVE TypeOK'
  BY <1>25 DEF SwitchSees, SwitchType, TypeOK, podVars, pullVars
<1>26. ASSUME SwitchAborts PROVE TypeOK'
  BY <1>26 DEF SwitchAborts, Fault, Tell, SwitchType, TypeOK, podVars, pullVars
<1>27. ASSUME KillsChain PROVE TypeOK'
  BY <1>27 DEF KillsChain, ChainType, SplicerType, SwitchType, TypeOK, podVars, pullVars
<1>28. ASSUME KillsConverter PROVE TypeOK'
  BY <1>28 DEF KillsConverter, ConvType, SwitchType, TypeOK, podVars, pullVars
<1>29. ASSUME Launches PROVE TypeOK'
  <2>1. 0 \in 0..NumLayers /\ ResumeFrom \in 0..NumLayers + ResumeFrom
    OBVIOUS
  <2>2. chain' \in ChainType /\ switch' \in SwitchType /\ ckpt' \in CkptType
    <3>1. chain' \in ChainType
      BY <1>29, <2>1 DEF Launches, ChainType
    <3>2. switch \in SwitchType /\ ckpt \in CkptType
      BY DEF TypeOK
    <3>3. switch' \in SwitchType
      BY <1>29, <3>2 DEF Launches, SwitchType
    <3>4. ckpt' \in CkptType
      BY <1>29, <3>2 DEF Launches, CkptType
    <3> QED
      BY <3>1, <3>3, <3>4
  <2>3. ckpt.layer = None \/ ckpt.layer \in 0..NumLayers
    BY DEF TypeOK, CkptType, Layers
  <2>4. conv' \in ConvType
    <3>1. conv \in ConvType
      BY DEF TypeOK
    <3>2. CASE ckpt.layer = None
      BY <1>29, <3>1, <3>2 DEF Launches, Resumed, ConvType
    <3>3. CASE ckpt.layer # None
      <4>1. conv' = [conv EXCEPT !.pc = "quantize", !.at = ckpt.layer, !.trace = FALSE]
        BY <1>29, <3>3 DEF Launches, Resumed
      <4> QED
        BY <2>3, <3>1, <3>3, <4>1 DEF ConvType
    <3> QED
      BY <3>2, <3>3
  <2> QED
    BY <1>29, <2>2, <2>4 DEF Launches, TypeOK, pullVars
<1>30. ASSUME PullStarts PROVE TypeOK'
  <2>1. Lowest(K3) \in K3
    BY LowestIsIn DEF Layers
  <2>2. pull' \in PullType
    BY <1>30, <2>1 DEF PullStarts, PullType, Pulling, TypeOK
  <2> QED
    BY <1>30, <2>2 DEF PullStarts, TypeOK, podVars
<1>31. ASSUME PullSkips PROVE TypeOK'
  BY <1>31, PullsNextKeepsTypes DEF PullSkips, TypeOK, podVars
<1>32. ASSUME PullTests PROVE TypeOK'
  BY <1>32 DEF PullTests, Here, PullType, Pulling, Layers, None, TypeOK, podVars, pullVars
<1>33. ASSUME PullGreps PROVE TypeOK'
  <2>1. pull \in PullType
    BY DEF TypeOK
  <2>2. pull' \in PullType
    BY <1>33, <2>1 DEF PullGreps, PullType, Pulling
  <2> QED
    BY <1>33, <2>2 DEF PullGreps, TypeOK, podVars
<1>34. ASSUME Fetches PROVE TypeOK'
  <2>1. pull \in PullType /\ dst \in [K3 -> {"none", "part", "bad", "whole"}] /\ dside \in [K3 -> BOOLEAN]
    BY DEF TypeOK
  <2>2. pull' \in PullType /\ dside' \in [K3 -> BOOLEAN]
    BY <1>34, <2>1 DEF Fetches, PullType, Pulling
  <2>3. dst' \in [K3 -> {"none", "part", "bad", "whole"}]
    BY <1>34, <2>1 DEF Fetches, Contents
  <2> QED
    BY <1>34, <2>2, <2>3 DEF Fetches, TypeOK, podVars
<1>35. ASSUME PullVerifies PROVE TypeOK'
  <2>1. PullsNext({}) \/ PullsNext({"MISMATCH"})
    BY <1>35 DEF PullVerifies
  <2> QED
    BY <1>35, <2>1, PullsNextKeepsTypes DEF PullVerifies, TypeOK, podVars
<1>36. ASSUME BootSees PROVE TypeOK'
  BY <1>36 DEF BootSees, BootType, TypeOK, podVars, pullVars
<1>37. ASSUME BootReads PROVE TypeOK'
  BY <1>37 DEF BootReads, Refused, BootType, TypeOK, podVars, pullVars
<1>38. ASSUME LadderEnds PROVE TypeOK'
  <2>1. CASE boot' = [boot EXCEPT !.pc = "battery"]
    BY <1>38, <2>1 DEF LadderEnds, TypeOK, BootType, podVars, pullVars
  <2>2. CASE boot' = [pc |-> "aborted", watchdog |-> TRUE]
    BY <1>38, <2>2 DEF LadderEnds, TypeOK, BootType, podVars, pullVars
  <2> QED
    BY <1>38, <2>1, <2>2 DEF LadderEnds
<1>39. ASSUME BatteryEnds PROVE TypeOK'
  BY <1>39 DEF BatteryEnds, BootType, TypeOK, podVars, pullVars
<1>40. ASSUME UNCHANGED vars PROVE TypeOK'
  BY <1>40 DEF TypeOK, podVars, pullVars, vars
<1>41. ASSUME EntersLoop PROVE TypeOK'
  BY <1>41 DEF EntersLoop, ChainType, TypeOK, podVars, pullVars
<1>42. ASSUME PullKilled PROVE TypeOK'
  <2>1. pull' \in PullType /\ pull.pc \in Pulling
    BY <1>42 DEF PullKilled, TypeOK, PullType
  <2>2. dst' \in [K3 -> {"none", "part", "bad", "whole"}]
    BY <1>42 DEF PullKilled, Contents, TypeOK
  <2>3. unchecked' \subseteq K3
    <3>1. pull.pc = "verify" => pull.at \in K3
      BY DEF PullInv, PassedIsThere, Pulling
    <3> QED
      BY <1>42, <3>1 DEF PullKilled, TypeOK
  <2> QED
    BY <1>42, <2>1, <2>2, <2>3 DEF PullKilled, TypeOK, podVars
<1> QED
  BY <1>1, <1>2, <1>3, <1>4, <1>5, <1>6, <1>7, <1>8, <1>9, <1>10, <1>11, <1>12, <1>13, <1>14, <1>15, <1>16, <1>17,
       <1>18, <1>19, <1>20, <1>21, <1>22, <1>23, <1>24, <1>25, <1>26, <1>27, <1>28, <1>29, <1>30, <1>31, <1>32,
       <1>33, <1>34, <1>35, <1>36, <1>37, <1>38, <1>39, <1>40, <1>41, <1>42 DEF Next, Setup, Converter, Splicer, Chain, Switch,
       Puller, Booter

-----------------------------------------------------------------------------
\* The puller, the boot and the build leave the pod's part alone.
LEMMA PodStep == TypeOK /\ PodInv /\ [Next]_vars => PodInv'
<1> SUFFICES ASSUME TypeOK, PodInv, [Next]_vars PROVE PodInv'
  OBVIOUS
<1> USE KalibratedAssumption DEF PodInv, NotStarted, PassedIsWhole, StoppedAtCheckpoint, CheckedIsDone, SplicesBehind,
  OneChild, Stopping, BeingStopped, Alive, TypeOK, ChainType, ConvType, CkptType, SplicerType, SwitchType, Layers, None,
  podVars
<1>1. ASSUME NamesLayer PROVE PodInv'
  BY <1>1 DEF NamesLayer
<1>2. ASSUME Saves PROVE PodInv'
  BY <1>2 DEF Saves, BeingStopped
<1>3. ASSUME Saved PROVE PodInv'
  BY <1>3 DEF Saved
<1>4. ASSUME Checkpoints PROVE PodInv'
  BY <1>4 DEF Checkpoints
<1>5. ASSUME Checkpointed PROVE PodInv'
  BY <1>5 DEF Checkpointed
<1>6. ASSUME Compiles PROVE PodInv'
  BY <1>6 DEF Compiles
<1>7. ASSUME ConverterDies PROVE PodInv'
  BY <1>7 DEF ConverterDies, Fault, Alive
<1>8. ASSUME SpliceWrites PROVE PodInv'
  <2>1. PICK s \in splicer : splicer' = (splicer \ {s}) \cup {[s EXCEPT !.stage = "sidecar"]}
    BY <1>8 DEF SpliceWrites
  <2> DEFINE t == [s EXCEPT !.stage = "sidecar"]
  <2>2. s \in SplicerType /\ t.by = s.by /\ t.layer = s.layer
    OBVIOUS
  <2>3. SplicesBehind'
    <3>1. \A u \in splicer' : \E v \in splicer : u.layer = v.layer
      BY <2>1, <2>2
    <3>2. UNCHANGED <<conv, ckpt>>
      BY <1>8 DEF SpliceWrites
    <3> QED
      BY <3>1, <3>2
  <2>4. OneChild'
    <3>1. \A u \in splicer' : u = t \/ (u \in splicer /\ u # s)
      BY <2>1
    <3>2. UNCHANGED chain
      BY <1>8 DEF SpliceWrites
    <3>3. \A u \in splicer' : u.by = "child" =>
            chain'.pc \in {"loop", "last"} /\ (chain'.pc = "loop" => u.layer = chain'.next)
      BY <2>2, <3>1, <3>2
    <3>4. ASSUME NEW u \in splicer', NEW v \in splicer', u.by = "child", v.by = "child" PROVE u = v
      <4>1. u = t => v = t
        BY <2>2, <3>1, <3>4
      <4>2. u # t => u = v
        BY <2>2, <3>1, <3>4
      <4> QED
        BY <4>1, <4>2
    <3> QED
      BY <3>3, <3>4
  <2>5. UNCHANGED <<chain, conv, ckpt, qt, switch>> /\ splicer # {}
    BY <1>8 DEF SpliceWrites
  <2>6. chain.pc \notin {"build", "prepare"}
    BY <2>5
  <2>7. PassedIsWhole' /\ StoppedAtCheckpoint' /\ CheckedIsDone' /\ NotStarted'
    BY <2>5, <2>6
  <2> QED
    BY <2>3, <2>4, <2>7
<1>9. ASSUME SpliceEnds PROVE PodInv'
  BY <1>9, SMTT(30) DEF SpliceEnds
<1>10. ASSUME SpliceFails PROVE PodInv'
  BY <1>10, SMTT(30) DEF SpliceFails, Fault, Tell
<1>11. ASSUME WaitsForBuild PROVE PodInv'
  BY <1>11 DEF WaitsForBuild, Fails
<1>12. ASSUME Prepares PROVE PodInv'
  BY <1>12 DEF Prepares
<1>13. ASSUME PrepareFails PROVE PodInv'
  BY <1>13 DEF PrepareFails, Fails, Fault
<1>14. ASSUME SplicesNext PROVE PodInv'
  BY <1>14 DEF SplicesNext, Splice, Due, Child, QtOk
<1>15. ASSUME SkipsNext PROVE PodInv'
  BY <1>15 DEF SkipsNext, Due, Child, QtOk
<1>16. ASSUME StopsConverter PROVE PodInv'
  BY <1>16 DEF StopsConverter, Due, Child
<1>32. ASSUME EntersLoop PROVE PodInv'
  BY <1>32 DEF EntersLoop, Child
<1>17. ASSUME ConverterGone PROVE PodInv'
  BY <1>17 DEF ConverterGone, Child, Alive
<1>18. ASSUME CheckFails PROVE PodInv'
  BY <1>18 DEF CheckFails, Fails
<1>19. ASSUME Checks PROVE PodInv'
  BY <1>19 DEF Checks, QtOk
<1>20. ASSUME SplicesRest PROVE PodInv'
  <2>1. UNCHANGED <<conv, ckpt, qt, switch>> /\ chain.pc = "last" /\ Child = {}
    BY <1>20 DEF SplicesRest
  <2>2. ~Alive /\ ckpt.layer = None
    BY <2>1
  <2>3. chain' = chain \/ (chain' = [chain EXCEPT !.pc = "done"] /\ splicer' = splicer)
    BY <1>20 DEF SplicesRest
  <2>4. chain'.pc \in {"last", "done"} /\ (chain' = chain \/ chain'.pc = "done")
    BY <2>1, <2>3
  <2>5. SplicesBehind'
    BY <2>1, <2>2
  <2>6. OneChild'
    <3>1. CASE splicer' = splicer
      BY <2>1, <3>1 DEF Child
    <3>2. CASE chain' = chain /\ \E l \in K3 : splicer' = splicer \cup {[by |-> "child", layer |-> l, stage |-> "file"]}
      BY <2>1, <3>2 DEF Child
    <3>3. ASSUME \E l \in K3 : ~side[l] PROVE Lowest({k \in K3 : ~side[k]}) \in K3
      <4>1. {k \in K3 : ~side[k]} \in SUBSET Layers /\ {k \in K3 : ~side[k]} # {}
        BY <3>3
      <4> QED
        BY <4>1, LowestIsIn
    <3>4. \/ splicer' = splicer
          \/ (\E l \in K3 : ~side[l]) /\ chain' = chain /\ Splice(Lowest({l \in K3 : ~side[l]}))
      BY <1>20 DEF SplicesRest
    <3> QED
      BY <3>1, <3>2, <3>3, <3>4 DEF Splice
  <2> QED
    BY <2>1, <2>2, <2>4, <2>5, <2>6
<1>21. ASSUME SwitchStarts PROVE PodInv'
  BY <1>21 DEF SwitchStarts
<1>22. ASSUME SwitchSees PROVE PodInv'
  BY <1>22 DEF SwitchSees
<1>23. ASSUME SwitchAborts PROVE PodInv'
  BY <1>23 DEF SwitchAborts, Fault, Tell
<1>24. ASSUME KillsChain PROVE PodInv'
  <2>1. \A t \in splicer' : \E s \in splicer : t.layer = s.layer /\ t.by = "orphan"
    BY <1>24 DEF KillsChain
  <2>4. \A t \in splicer' : t.by # "child"
    BY <2>1
  <2>2. OneChild'
    BY <2>4
  <2>5. SplicesBehind'
    BY <1>24, <2>1, SMTT(30) DEF KillsChain
  <2>3. chain'.pc \in {"killed", "done", "failed"}
    BY <1>24 DEF KillsChain
  <2> QED
    BY <1>24, <2>2, <2>3, <2>5 DEF KillsChain
<1>25. ASSUME KillsConverter PROVE PodInv'
  BY <1>25 DEF KillsConverter
<1>26. ASSUME Launches PROVE PodInv'
  BY <1>26 DEF Launches, Resumed
<1>27. ASSUME UNCHANGED <<chain, conv, ckpt, qt, splicer, switch>> PROVE PodInv'
  BY <1>27
<1>28. ASSUME Setup PROVE PodInv'
  BY <1>28, <1>27 DEF BuildExits, BuildFails, Fault, Imported, Setup
<1>29. ASSUME Puller \/ PullStarts \/ PullKilled PROVE PodInv'
  BY <1>29, <1>27 DEF PullStarts, PullKilled, PullSkips, PullTests, PullGreps, Fetches, PullVerifies, PullsNext, Puller
<1>30. ASSUME Booter PROVE PodInv'
  BY <1>30, <1>27 DEF BootSees, BootReads, LadderEnds, BatteryEnds, Booter
<1>31. ASSUME UNCHANGED vars PROVE PodInv'
  BY <1>31, <1>27 DEF vars
<1> QED
  BY <1>1, <1>2, <1>3, <1>4, <1>5, <1>6, <1>7, <1>8, <1>9, <1>10, <1>11, <1>12, <1>13, <1>14, <1>15, <1>16, <1>17,
       <1>18, <1>19, <1>20, <1>21, <1>22, <1>23, <1>24, <1>25, <1>26, <1>27, <1>28, <1>29, <1>30, <1>31, <1>32 DEF Next,
       Converter, Splicer, Chain, Switch

-----------------------------------------------------------------------------
\* The pod and the build leave the Spark's part alone.
LEMMA PullStep == TypeOK /\ PullInv /\ [Next]_vars => PullInv'
<1> SUFFICES ASSUME TypeOK, PullInv, [Next]_vars PROVE PullInv'
  OBVIOUS
<1> USE KalibratedAssumption DEF PullInv, BadIsRemembered, FetchesMissing, PassedIsThere, CleanRun, CleanRunIsWhole,
  BootReadClean, TypeOK, PullType, BootType, Here, Pulling, pullVars, None
<1>1. ASSUME PullStarts PROVE PullInv'
  <2>1. K3 \in SUBSET Layers /\ K3 # {}
    BY DEF Layers
  <2>2. Lowest(K3) \in K3 /\ \A l \in K3 : Lowest(K3) <= l
    BY <2>1, LowestIsIn
  <2>3. pull' = [pc |-> "test", at |-> Lowest(K3), runs |-> pull.runs + 1] /\ UNCHANGED <<dst, dside, pullLog, unchecked, boot>>
    BY <1>1 DEF PullStarts
  <2>4. pull'.pc = "test" /\ pull'.at \in K3 /\ \A l \in K3 : ~(l < pull'.at)
    <3> DEFINE low == Lowest(K3)
    <3>1. low \in K3 /\ K3 \subseteq Nat /\ \A l \in K3 : low <= l
      BY <2>2
    <3>2. pull'.pc = "test" /\ pull'.at = low
      BY <2>3
    <3> HIDE DEF low
    <3> QED
      BY <3>1, <3>2
  <2>5. pull.pc # "verify"
    BY <1>1 DEF PullStarts
  <2> QED
    BY <2>3, <2>4, <2>5
<1>2. ASSUME PullSkips PROVE PullInv'
  <2>1. pull.at \in K3 /\ PullsNext({}) /\ Here(pull.at) /\ UNCHANGED <<dst, dside, unchecked, boot>>
    BY <1>2 DEF PullSkips, Here
  <2>2. CASE /\ pull' = [pull EXCEPT !.pc = "done"] /\ pullLog' = pullLog \cup {"done"}
             /\ \A l \in K3 : l <= pull.at
    <3>1. \A l \in K3 : Here(l) \/ "MISMATCH" \in pullLog
      BY <2>1, <2>2, <1>2 DEF PullSkips
    <3> QED
      BY <1>2, <2>1, <2>2, <3>1 DEF PullSkips
  <2>3. CASE /\ pullLog' = pullLog
             /\ \E n \in K3 : pull' = [pull EXCEPT !.pc = "test", !.at = n] /\ \A l \in K3 : l < n => l <= pull.at
    BY <1>2, <2>1, <2>3 DEF PullSkips
  <2>4. pullLog \cup {} = pullLog
    OBVIOUS
  <2> HIDE DEF PullInv
  <2> QED
    BY <2>1, <2>2, <2>3, <2>4, PullsNextIsNext
<1>3. ASSUME PullTests PROVE PullInv'
  BY <1>3 DEF PullTests, Here
<1>4. ASSUME PullGreps PROVE PullInv'
  BY <1>4 DEF PullGreps
<1>5. ASSUME Fetches PROVE PullInv'
  BY <1>5 DEF Fetches, Contents
<1>6. ASSUME PullVerifies PROVE PullInv'
  <2> DEFINE lines == IF Matches THEN {} ELSE {"MISMATCH"}
  <2>1. pull.at \in K3 /\ PullsNext(lines) /\ dside[pull.at] /\ UNCHANGED <<dst, dside, boot>>
    BY <1>6 DEF PullVerifies
  <2>2. \A l \in K3 : dst[l] \in {"part", "bad"} => "MISMATCH" \in pullLog \cup lines \/ l \in unchecked' \/ ~dside[l]
    BY <1>6 DEF PullVerifies, Matches
  <2>7. Here(pull.at) \/ "MISMATCH" \in lines
    BY <2>1 DEF Matches
  <2>6. "done" \notin lines
    OBVIOUS
  <2>3. ~CleanRun
    BY <1>6 DEF PullVerifies
  <2> HIDE DEF lines
  <2>4. CASE /\ pull' = [pull EXCEPT !.pc = "done"] /\ pullLog' = pullLog \cup lines \cup {"done"}
             /\ \A l \in K3 : l <= pull.at
    <3>1. \A l \in K3 : Here(l) \/ "MISMATCH" \in pullLog'
      BY <1>6, <2>1, <2>4, <2>7 DEF PullVerifies
    <3>2. BadIsRemembered' /\ FetchesMissing' /\ PassedIsThere' /\ CleanRunIsWhole'
      BY <2>1, <2>2, <2>4, <3>1
    <3>3. BootReadClean'
      BY <2>1, <2>3, <2>4
    <3> QED
      BY <3>2, <3>3
  <2>5. CASE /\ pullLog' = pullLog \cup lines
             /\ \E n \in K3 : pull' = [pull EXCEPT !.pc = "test", !.at = n] /\ \A l \in K3 : l < n => l <= pull.at
    <3>1. BadIsRemembered' /\ FetchesMissing' /\ PassedIsThere'
      BY <1>6, <2>1, <2>2, <2>5, <2>7 DEF PullVerifies
    <3>2. ~CleanRun' /\ BootReadClean'
      BY <2>1, <2>3, <2>5, <2>6
    <3> QED
      BY <3>1, <3>2
  <2> QED
    BY <2>1, <2>4, <2>5, PullsNextIsNext
<1>7. ASSUME BootSees PROVE PullInv'
  BY <1>7 DEF BootSees
<1>8. ASSUME BootReads PROVE PullInv'
  BY <1>8 DEF BootReads, Refused
<1>9. ASSUME LadderEnds PROVE PullInv'
  BY <1>9 DEF LadderEnds
<1>10. ASSUME BatteryEnds PROVE PullInv'
  BY <1>10 DEF BatteryEnds
<1>13. ASSUME PullKilled PROVE PullInv'
  <2>1. pull'.pc = "killed" /\ pull.at \in K3 /\ UNCHANGED <<dside, pullLog, boot>>
    BY <1>13 DEF PullKilled
  <2>2. CASE pull.pc = "fetch" /\ \E content \in {"part"} \cup Contents(pull.at) : dst' = [dst EXCEPT ![pull.at] = content]
    <3>1. ~CleanRun /\ ~Here(pull.at) /\ unchecked' = unchecked
      BY <1>13, <2>2 DEF PullKilled
    <3>2. dside[pull.at] => "MISMATCH" \in pullLog \/ pull.at \in unchecked
      BY <2>1, <2>2, <3>1
    <3>3. /\ dst'[pull.at] # "none"
          /\ \A l \in K3 : l # pull.at => dst'[l] = dst[l]
      BY <2>1, <2>2 DEF Contents
    <3> QED
      BY <2>1, <2>2, <3>1, <3>2, <3>3
  <2>3. CASE UNCHANGED dst
    BY <1>13, <2>1, <2>3 DEF PullKilled
  <2> QED
    BY <1>13, <2>2, <2>3 DEF PullKilled
<1>11. ASSUME UNCHANGED <<pullVars, boot>> PROVE PullInv'
  BY <1>11
<1>12. Setup \/ Converter \/ ConverterDies \/ Splicer \/ Chain \/ SwitchStarts \/ Switch \/ UNCHANGED vars
        => UNCHANGED <<pullVars, boot>>
  BY DEF Setup, Converter, Splicer, Chain, Switch, vars, BuildExits, BuildFails, Imported, NamesLayer, Saves, Saved,
       Checkpoints, Checkpointed, Compiles, ConverterDies, SpliceWrites, SpliceEnds, SpliceFails, WaitsForBuild,
       Prepares, PrepareFails, EntersLoop, SplicesNext, SkipsNext, StopsConverter, ConverterGone, CheckFails, Checks,
       SplicesRest, SwitchStarts, SwitchSees, SwitchAborts, KillsChain, KillsConverter, Launches
<1> QED
  BY <1>1, <1>2, <1>3, <1>4, <1>5, <1>6, <1>7, <1>8, <1>9, <1>10, <1>11, <1>12, <1>13 DEF Next, Puller, Booter

-----------------------------------------------------------------------------
\* TypeOK, PodInv and PullInv together are inductive.
THEOREM InvariantsHold == Spec => [](TypeOK /\ PodInv /\ PullInv)
<1>1. Init => TypeOK /\ PodInv /\ PullInv
  BY InitEstablishes
<1>2. TypeOK /\ PodInv /\ PullInv /\ [Next]_vars => (TypeOK /\ PodInv /\ PullInv)'
  BY TypeStep, PodStep, PullStep
<1> QED
  BY <1>1, <1>2, PTL DEF Spec

\* Every variable keeps its type (scripts/kalibrated).
THEOREM TypeCorrect == Spec => []TypeOK
BY InvariantsHold, PTL

\* What boot_aplus.sh boots is there and whole, but for files whose checksum a kill
\* of the puller came before: a MISMATCH of any run stays in its log and keeps the
\* boot away (pull_aplus.sh:19, boot_aplus.sh:13).
THEOREM BootIsOnWhole == Spec => []BootOnWhole
<1>1. PullInv => BootOnWhole
  BY DEF PullInv, BootReadClean, CleanRunIsWhole, BootOnWhole, Booting, Here
<1> QED
  BY <1>1, InvariantsHold, PTL

\* No splice, of a chain or of one that was killed, reads a layer the running
\* converter has still to write (chain_aplus.sh:58, chain_aplus_resume.sh:29).
THEOREM SplicesStayBehind == Spec => []SpliceBehind
<1>1. TypeOK /\ PodInv => SpliceBehind
  <2> SUFFICES ASSUME TypeOK, PodInv, Alive, NEW s \in splicer PROVE s.layer < conv.at /\ qt[s.layer] = "whole"
    BY DEF SpliceBehind
  <2>1. s.layer < conv.at
    BY DEF PodInv, SplicesBehind
  <2>2. s.layer \in Layers
    BY KalibratedAssumption DEF TypeOK, SplicerType, Layers
  <2> QED
    BY <2>1, <2>2 DEF PodInv, PassedIsWhole
<1> QED
  BY <1>1, InvariantsHold, PTL

\* The converter never goes back to a finished layer: the resumed one starts
\* where the stopped one was (switch.sh:9-15).
LEMMA ConverterKeepsPlace == TypeOK /\ PodInv /\ [Next]_vars /\ ckpt.layer # None => conv'.at >= conv.at
<1> SUFFICES ASSUME TypeOK, PodInv, [Next]_vars, ckpt.layer # None PROVE conv'.at >= conv.at
  OBVIOUS
<1>1. conv.at \in Nat
  BY KalibratedAssumption DEF TypeOK, ConvType
<1>2. CASE Launches
  <2>1. ckpt.layer = conv.at
    BY <1>2 DEF Launches, PodInv, StoppedAtCheckpoint, Stopping
  <2> QED
    BY <1>1, <1>2, <2>1 DEF Launches, Resumed, TypeOK, ConvType
<1>3. CASE Converter
  <2>1. CASE Saved
    BY <1>1, <2>1 DEF Saved, TypeOK, ConvType
  <2>2. CASE NamesLayer \/ Saves \/ Checkpoints \/ Checkpointed \/ Compiles
    <3>1. conv'.at = conv.at
      BY <2>2 DEF TypeOK, ConvType, NamesLayer, Saves, Checkpoints, Checkpointed, Compiles
    <3> QED
      BY <1>1, <3>1
  <2> QED
    BY <1>3, <2>1, <2>2 DEF Converter
<1>6. CASE ConverterDies
  <2>1. PICK trace \in BOOLEAN : conv' = [conv EXCEPT !.pc = "dead", !.trace = trace]
    BY <1>6 DEF ConverterDies
  <2> QED
    BY <1>1, <2>1 DEF TypeOK, ConvType
<1>4. CASE Prepares \/ StopsConverter \/ KillsConverter
  BY <1>1, <1>4 DEF Prepares, StopsConverter, KillsConverter, TypeOK, ConvType
<1>5. CASE UNCHANGED conv
  BY <1>1, <1>5
<1> QED
  BY <1>2, <1>3, <1>4, <1>5, <1>6 DEF Next, Setup, Splicer, Chain, Switch, Puller, Booter, vars, podVars,
       BuildExits, BuildFails,
       Imported, SpliceWrites, SpliceEnds, SpliceFails, WaitsForBuild, PrepareFails, EntersLoop, SplicesNext, SkipsNext, ConverterGone,
       CheckFails, Checks, SplicesRest, SwitchStarts, SwitchSees, SwitchAborts, KillsChain, PullStarts, PullSkips,
       PullTests, PullGreps, Fetches, PullVerifies, PullKilled, BootSees, BootReads, LadderEnds, BatteryEnds

\* The switch costs the work since its checkpoint and no finished layer.
THEOREM SwitchRedoesNothing == Spec => BoundedLoss
<1>1. TypeOK /\ PodInv /\ [Next]_vars =>
        [chain.pc = "killed" /\ chain'.run = "resume" /\ ckpt.layer # None => conv'.at >= conv.at]_vars
  BY ConverterKeepsPlace
<1> QED
  BY <1>1, InvariantsHold, PTL DEF Spec, BoundedLoss
=============================================================================
