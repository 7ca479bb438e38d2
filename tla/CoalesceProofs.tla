--------------------------- MODULE CoalesceProofs ---------------------------
(***************************************************************************)
(* The manifest of a coalesced pack is a commit record, for every number   *)
(* of ranks, families, workers, revisions, kills and failing workers, and  *)
(* the coalescer implements PackCommit.  IndInv says what the entrypoint   *)
(* relies on at each phase; it has a part for every reason why a file may  *)
(* be believed.                                                            *)
(***************************************************************************)
EXTENDS Coalesce, TLAPS

Coalescing == {"carry", "families", "drain", "sidecars"} \cup Json
Working == {"queued", "running", "written"}

\* While main works, the download is of the revision that is named.
SourceIsRevision == phase \in Coalescing => \A s \in Source : source[s] = revision

\* The pool works between its submission and its shutdown only.
PoolInItsPhases == phase \notin {"families", "drain"} => \A f \in Families : job[f] \notin Working

\* A result that main may take is a file.
DoneIsThere ==
  /\ \A f \in Families : job[f] = "done" => target[f] # Nothing
  /\ phase = "families" => \A f \in collected : job[f] = "done"

\* What has been written when main is at a phase.
WrittenBefore ==
  /\ phase \in {"families", "drain", "sidecars"} \cup Json => \A s \in Carried : target[s] # Nothing
  /\ phase \in {"sidecars"} \cup Json => collected = Families /\ \A f \in Families : target[f] # Nothing
  /\ phase \in {"quantization_config", "index", "sidecars"} => target["config"] # Nothing
  /\ phase \in {"index", "sidecars"} => target["quantization_config"] # Nothing
  /\ phase = "sidecars" => target["index"] # Nothing /\ indexed = Weights

\* A family's file has the slices of all ranks.
AllRanks == \A f \in Families : target[f] # Nothing => {slice[1] : slice \in target[f]} = 0..Tp - 1

\* With a manifest nothing is written any more.
ManifestIsLast ==
  manifest # Nothing =>
    /\ phase \in {"down", "verify", "serve"}
    /\ manifest = {<<f, target[f]>> : f \in Weights}
    /\ \A f \in Payload : target[f] # Nothing
    /\ indexed = Weights

\* Until the operator moves on, every slice is of the revision that is named.
SlicesAreRevision == ~moved => \A f \in Payload : \A slice \in target[f] : slice[2] = revision

\* A reusing pool only computes what is not there.
ComputesMissing ==
  Reuse => \A f \in Families : job[f] \in {"running", "written"} => target[f] = Nothing

IndInv ==
  /\ TypeOK /\ SourceIsRevision /\ PoolInItsPhases /\ DoneIsThere /\ WrittenBefore
  /\ AllRanks /\ ManifestIsLast /\ SlicesAreRevision /\ ComputesMissing

-----------------------------------------------------------------------------
\* What is put into a file: slices, all ranks of them, of the source's revision.
LEMMA SlicesFacts ==
  ASSUME TypeOK, SourceIsRevision, phase \in Coalescing, NEW f \in Families
  PROVE  /\ SlicesOf(f) \in SUBSET ((0..Tp - 1) \X (1..NumRevisions))
         /\ SlicesOf(f) # Nothing
         /\ {slice[1] : slice \in SlicesOf(f)} = 0..Tp - 1
         /\ \A slice \in SlicesOf(f) : slice[2] = revision
<1>1. \A r \in 0..Tp - 1 : <<f, r>> \in Source /\ source[<<f, r>>] = revision
  BY DEF Source, SourceIsRevision
<1>2. SlicesOf(f) = {<<r, revision>> : r \in 0..Tp - 1}
  BY <1>1 DEF SlicesOf
<1>3. 0 \in 0..Tp - 1
  BY CoalesceAssumption
<1>4. revision \in 1..NumRevisions
  BY DEF TypeOK
<1>5. SlicesOf(f) \in SUBSET ((0..Tp - 1) \X (1..NumRevisions))
  BY <1>2, <1>4
<1>6. <<0, revision>> \in SlicesOf(f)
  BY <1>2, <1>3
<1>7. {slice[1] : slice \in SlicesOf(f)} = 0..Tp - 1
  <2>1. \A r \in 0..Tp - 1 : <<r, revision>> \in SlicesOf(f) /\ <<r, revision>>[1] = r
    BY <1>2
  <2>2. \A slice \in SlicesOf(f) : slice[1] \in 0..Tp - 1
    BY <1>2
  <2> QED
    BY <2>1, <2>2
<1>8. \A slice \in SlicesOf(f) : slice[2] = revision
  BY <1>2
<1> QED
  BY <1>5, <1>6, <1>7, <1>8 DEF Nothing

LEMMA CopyFacts ==
  ASSUME TypeOK, SourceIsRevision, phase \in Coalescing, NEW s \in Carried \cup Sidecars
  PROVE  /\ CopyOf(s) \in SUBSET ((0..Tp - 1) \X (1..NumRevisions))
         /\ CopyOf(s) # Nothing
         /\ \A slice \in CopyOf(s) : slice[2] = revision
<1>1. <<s, 0>> \in Source /\ source[<<s, 0>>] = revision
  BY DEF Source, SourceIsRevision
<1>2. CopyOf(s) = {<<0, revision>>}
  BY <1>1 DEF CopyOf
<1>3. 0 \in 0..Tp - 1 /\ revision \in 1..NumRevisions
  BY CoalesceAssumption DEF TypeOK
<1> QED
  BY <1>2, <1>3 DEF Nothing

-----------------------------------------------------------------------------
LEMMA InitEstablishesIndInv == Init => IndInv
<1> SUFFICES ASSUME Init PROVE IndInv
  OBVIOUS
<1>1. TypeOK
  <2>1. 1 \in 1..NumRevisions /\ 0 \in 0..NumRevisions /\ 0 \in 0..MaxCrashes /\ 0 \in 0..MaxFailures
    BY CoalesceAssumption
  <2>2. source \in [Source -> 0..NumRevisions]
    BY <2>1 DEF Init
  <2>3. target \in [Payload -> SUBSET ((0..Tp - 1) \X (1..NumRevisions))]
    BY DEF Init, Nothing
  <2>4. job \in [Families -> {"queued", "running", "written", "done", "failed", "cancelled"}]
    BY DEF Init
  <2> QED
    BY <2>1, <2>2, <2>3, <2>4 DEF Init, TypeOK
<1>2. SourceIsRevision /\ PoolInItsPhases /\ DoneIsThere /\ WrittenBefore
  BY DEF Init, SourceIsRevision, PoolInItsPhases, DoneIsThere, WrittenBefore, Coalescing, Working, Json
<1>3. \A f \in Payload : target[f] = Nothing
  BY DEF Init
<1>4. Families \subseteq Payload
  BY DEF Payload, Weights
<1>5. AllRanks /\ ManifestIsLast /\ SlicesAreRevision /\ ComputesMissing
  BY <1>3, <1>4 DEF Init, AllRanks, ManifestIsLast, SlicesAreRevision, ComputesMissing, Nothing
<1> QED
  BY <1>1, <1>2, <1>5 DEF IndInv

\* The files of a pack are told apart by their names.
LEMMA Names ==
  /\ \A f \in Families : f \in Payload /\ f \in Weights /\ f \notin Carried \cup Sidecars \cup Json
  /\ \A s \in Carried : s \in Payload /\ s \in Weights
  /\ \A s \in Sidecars : s \in Payload
  /\ \A j \in Json : j \in Payload
  /\ Weights = Families \cup Carried
<1>1. \A f \in Families : f \notin Carried \cup Sidecars \cup Json
  BY CoalesceAssumption
<1>2. Weights = Families \cup Carried /\ Payload = Weights \cup Sidecars \cup Json
  BY DEF Weights, Payload
<1> QED
  BY <1>1, <1>2

-----------------------------------------------------------------------------
\* One step per action.
LEMMA StepKeepsIndInv == IndInv /\ [Next]_vars => IndInv'
<1> SUFFICES ASSUME IndInv, [Next]_vars PROVE IndInv'
  OBVIOUS
<1> USE CoalesceAssumption, Names DEF IndInv
<1>1. ASSUME Boot PROVE IndInv'
  BY <1>1 DEF Boot, Go, TypeOK, SourceIsRevision, PoolInItsPhases, DoneIsThere, WrittenBefore, AllRanks, ManifestIsLast,
       SlicesAreRevision, ComputesMissing, Coalescing, Working, Json, packVars, poolVars, envVars
<1>2. ASSUME Download PROVE IndInv'
  BY <1>2 DEF Download, TypeOK, SourceIsRevision, PoolInItsPhases, DoneIsThere, WrittenBefore, AllRanks, ManifestIsLast,
       SlicesAreRevision, ComputesMissing, Coalescing, Working, Json, packVars, poolVars, envVars
<1>3. ASSUME Downloaded PROVE IndInv'
  BY <1>3 DEF Downloaded, Go, TypeOK, SourceIsRevision, PoolInItsPhases, DoneIsThere, WrittenBefore, AllRanks, ManifestIsLast,
       SlicesAreRevision, ComputesMissing, Coalescing, Working, Json, packVars, poolVars, envVars
<1>4. ASSUME Carry PROVE IndInv'
  <2>1. PICK s \in Carried : target[s] = Nothing /\ target' = [target EXCEPT ![s] = CopyOf(s)]
    BY <1>4 DEF Carry, CopyOrLink
  <2>2. phase = "carry" /\ phase \in Coalescing /\ UNCHANGED <<source, indexed, manifest, phase, poolVars, envVars>>
    BY <1>4 DEF Carry, Coalescing
  <2>3. /\ CopyOf(s) \in SUBSET ((0..Tp - 1) \X (1..NumRevisions)) /\ CopyOf(s) # Nothing
        /\ \A slice \in CopyOf(s) : slice[2] = revision
    BY <2>2, CopyFacts
  <2>4. s \in Payload /\ s \notin Families
    OBVIOUS
  <2>5. /\ target' \in [Payload -> SUBSET ((0..Tp - 1) \X (1..NumRevisions))]
        /\ target'[s] = CopyOf(s) /\ \A f \in Payload : f # s => target'[f] = target[f]
    BY <2>1, <2>3, <2>4 DEF TypeOK
  <2>6. TypeOK' /\ SourceIsRevision' /\ PoolInItsPhases'
    BY <2>2, <2>5 DEF TypeOK, SourceIsRevision, PoolInItsPhases, poolVars, envVars
  <2>7. \A f \in Families : target'[f] = target[f]
    BY <2>4, <2>5
  <2>8. \A f \in Payload : target[f] # Nothing => target'[f] # Nothing
    BY <2>3, <2>5
  <2>9. DoneIsThere' /\ AllRanks' /\ ComputesMissing'
    BY <2>2, <2>7 DEF DoneIsThere, AllRanks, ComputesMissing, poolVars, envVars
  <2>10. WrittenBefore'
    BY <2>2, <2>8 DEF WrittenBefore, Json, poolVars, envVars
  <2>11. ManifestIsLast' /\ SlicesAreRevision'
    BY <2>2, <2>3, <2>5 DEF ManifestIsLast, SlicesAreRevision, poolVars, envVars
  <2> QED
    BY <2>6, <2>9, <2>10, <2>11
<1>5. ASSUME Submit PROVE IndInv'
  BY <1>5 DEF Submit, Go, TypeOK, SourceIsRevision, PoolInItsPhases, DoneIsThere, WrittenBefore, AllRanks, ManifestIsLast,
       SlicesAreRevision, ComputesMissing, Coalescing, Working, Json, packVars, poolVars, envVars
<1>6. ASSUME NEW f \in Families, Take(f) PROVE IndInv'
  BY <1>6 DEF Take, MayTake, TypeOK, SourceIsRevision, PoolInItsPhases, DoneIsThere, WrittenBefore, AllRanks, ManifestIsLast,
       SlicesAreRevision, ComputesMissing, Coalescing, Working, Json, packVars, poolVars, envVars
<1>7. ASSUME NEW f \in Families, Save(f) PROVE IndInv'
  BY <1>7 DEF Save, TypeOK, SourceIsRevision, PoolInItsPhases, DoneIsThere, WrittenBefore, AllRanks, ManifestIsLast,
       SlicesAreRevision, ComputesMissing, Coalescing, Working, Json, packVars, poolVars, envVars
<1>8. ASSUME NEW f \in Families, Rename(f) PROVE IndInv'
  <2>1. /\ target' = [target EXCEPT ![f] = SlicesOf(f)] /\ job[f] = "written" /\ job' = [job EXCEPT ![f] = "done"]
        /\ UNCHANGED <<source, indexed, manifest, phase, collected, envVars>>
    BY <1>8 DEF Rename
  <2>2. phase \in {"families", "drain"} /\ phase \in Coalescing
    BY <2>1 DEF PoolInItsPhases, Working, Coalescing
  <2>3. /\ SlicesOf(f) \in SUBSET ((0..Tp - 1) \X (1..NumRevisions)) /\ SlicesOf(f) # Nothing
        /\ {slice[1] : slice \in SlicesOf(f)} = 0..Tp - 1
        /\ \A slice \in SlicesOf(f) : slice[2] = revision
    BY <2>2, SlicesFacts
  <2>4. /\ target' \in [Payload -> SUBSET ((0..Tp - 1) \X (1..NumRevisions))]
        /\ target'[f] = SlicesOf(f) /\ \A g \in Payload : g # f => target'[g] = target[g]
    BY <2>1, <2>3 DEF TypeOK
  <2>5. TypeOK' /\ SourceIsRevision' /\ PoolInItsPhases'
    BY <2>1, <2>2, <2>4 DEF TypeOK, SourceIsRevision, PoolInItsPhases, envVars
  <2>6. \A g \in Payload : target[g] # Nothing => target'[g] # Nothing
    BY <2>3, <2>4
  <2>7. DoneIsThere' /\ ComputesMissing'
    BY <2>1, <2>3, <2>4, <2>6 DEF DoneIsThere, ComputesMissing, TypeOK
  <2>8. WrittenBefore' /\ AllRanks'
    BY <2>1, <2>2, <2>3, <2>4, <2>6 DEF WrittenBefore, AllRanks, Json
  <2>9. ManifestIsLast' /\ SlicesAreRevision'
    BY <2>1, <2>2, <2>3, <2>4 DEF ManifestIsLast, SlicesAreRevision, envVars
  <2> QED
    BY <2>5, <2>7, <2>8, <2>9
<1>9. ASSUME Collect PROVE IndInv'
  BY <1>9 DEF Collect, TypeOK, SourceIsRevision, PoolInItsPhases, DoneIsThere, WrittenBefore, AllRanks, ManifestIsLast,
       SlicesAreRevision, ComputesMissing, Coalescing, Working, Json, packVars, poolVars, envVars
<1>10. ASSUME Raise PROVE IndInv'
  BY <1>10 DEF Raise, Go, TypeOK, SourceIsRevision, PoolInItsPhases, DoneIsThere, WrittenBefore, AllRanks, ManifestIsLast,
       SlicesAreRevision, ComputesMissing, Coalescing, Working, Json, packVars, poolVars, envVars
<1>11. ASSUME Exit PROVE IndInv'
  BY <1>11 DEF Exit, Go, Drained, TypeOK, SourceIsRevision, PoolInItsPhases, DoneIsThere, WrittenBefore, AllRanks, ManifestIsLast,
       SlicesAreRevision, ComputesMissing, Coalescing, Working, Json, packVars, poolVars, envVars
<1>12. ASSUME Combined PROVE IndInv'
  BY <1>12 DEF Combined, Go, TypeOK, SourceIsRevision, PoolInItsPhases, DoneIsThere, WrittenBefore, AllRanks, ManifestIsLast,
       SlicesAreRevision, ComputesMissing, Coalescing, Working, Json, packVars, poolVars, envVars
<1>13. ASSUME WriteJson PROVE IndInv'
  <2>1. /\ phase \in Json /\ phase' = NextJson[phase] /\ target' = [target EXCEPT ![phase] = {<<0, revision>>}]
        /\ indexed' = IF phase = "index" THEN Carried \cup collected ELSE indexed
        /\ UNCHANGED <<source, manifest, poolVars, envVars>>
    BY <1>13 DEF WriteJson
  <2>2. /\ phase = "config" => phase' = "quantization_config"
        /\ phase = "quantization_config" => phase' = "index"
        /\ phase = "index" => phase' = "sidecars"
    BY <2>1 DEF NextJson, Json
  <2>3. phase \in Payload /\ phase \notin Families /\ phase \in Coalescing
    BY <2>1 DEF Coalescing
  <2>4. /\ target' \in [Payload -> SUBSET ((0..Tp - 1) \X (1..NumRevisions))]
        /\ target'[phase] = {<<0, revision>>} /\ \A f \in Payload : f # phase => target'[f] = target[f]
    BY <2>1, <2>3 DEF TypeOK
  <2>5. \A f \in Payload : target[f] # Nothing => target'[f] # Nothing
    BY <2>4 DEF Nothing
  <2>6. \A f \in Families : target'[f] = target[f]
    BY <2>3, <2>4
  <2>7. TypeOK' /\ SourceIsRevision' /\ PoolInItsPhases'
    BY <2>1, <2>2, <2>4 DEF TypeOK, SourceIsRevision, PoolInItsPhases, Coalescing, Json, poolVars, envVars
  <2>8. DoneIsThere' /\ AllRanks' /\ ComputesMissing'
    BY <2>1, <2>2, <2>6 DEF DoneIsThere, AllRanks, ComputesMissing, Json, poolVars, envVars
  <2>9. target'[phase] # Nothing
    BY <2>4 DEF Nothing
  <2>10. WrittenBefore'
    BY <2>1, <2>2, <2>5, <2>9 DEF WrittenBefore, Json, poolVars, envVars
  <2>11. manifest = Nothing
    BY <2>1 DEF ManifestIsLast, Json
  <2>12. SlicesAreRevision'
    BY <2>1, <2>4 DEF SlicesAreRevision, envVars
  <2> QED
    BY <2>1, <2>7, <2>8, <2>10, <2>11, <2>12 DEF ManifestIsLast
<1>14. ASSUME CopySidecar PROVE IndInv'
  <2>1. PICK s \in Sidecars : target[s] = Nothing /\ target' = [target EXCEPT ![s] = CopyOf(s)]
    BY <1>14 DEF CopySidecar, CopyOrLink
  <2>2. phase = "sidecars" /\ phase \in Coalescing /\ UNCHANGED <<source, indexed, manifest, phase, poolVars, envVars>>
    BY <1>14 DEF CopySidecar, Coalescing
  <2>3. /\ CopyOf(s) \in SUBSET ((0..Tp - 1) \X (1..NumRevisions)) /\ CopyOf(s) # Nothing
        /\ \A slice \in CopyOf(s) : slice[2] = revision
    BY <2>2, CopyFacts
  <2>4. s \in Payload /\ s \notin Families
    OBVIOUS
  <2>5. /\ target' \in [Payload -> SUBSET ((0..Tp - 1) \X (1..NumRevisions))]
        /\ target'[s] = CopyOf(s) /\ \A f \in Payload : f # s => target'[f] = target[f]
    BY <2>1, <2>3, <2>4 DEF TypeOK
  <2>6. TypeOK' /\ SourceIsRevision' /\ PoolInItsPhases'
    BY <2>2, <2>5 DEF TypeOK, SourceIsRevision, PoolInItsPhases, poolVars, envVars
  <2>7. \A f \in Families : target'[f] = target[f]
    BY <2>4, <2>5
  <2>8. \A f \in Payload : target[f] # Nothing => target'[f] # Nothing
    BY <2>3, <2>5
  <2>9. DoneIsThere' /\ AllRanks' /\ ComputesMissing'
    BY <2>2, <2>7 DEF DoneIsThere, AllRanks, ComputesMissing, poolVars, envVars
  <2>10. WrittenBefore'
    BY <2>2, <2>8 DEF WrittenBefore, Json, poolVars, envVars
  <2>11. ManifestIsLast' /\ SlicesAreRevision'
    BY <2>2, <2>3, <2>5 DEF ManifestIsLast, SlicesAreRevision, poolVars, envVars
  <2> QED
    BY <2>6, <2>9, <2>10, <2>11
<1>15. ASSUME WriteManifest PROVE IndInv'
  <2>1. /\ phase = "sidecars" /\ phase' = "verify" /\ \A s \in Sidecars : target[s] # Nothing
        /\ manifest' = {<<f, target[f]>> : f \in Weights}
        /\ UNCHANGED <<source, target, indexed, poolVars, envVars>>
    BY <1>15 DEF WriteManifest, Go
  <2>2. \A f \in Payload : target[f] # Nothing
    BY <2>1 DEF WrittenBefore, Json, Payload, Weights
  <2>3. ManifestIsLast'
    BY <2>1, <2>2 DEF ManifestIsLast, WrittenBefore
  <2> QED
    BY <2>1, <2>3 DEF TypeOK, SourceIsRevision, PoolInItsPhases, DoneIsThere, WrittenBefore, AllRanks,
         SlicesAreRevision, ComputesMissing, Coalescing, Working, Json, poolVars, envVars
<1>16. ASSUME Verify PROVE IndInv'
  BY <1>16 DEF Verify, Go, TypeOK, SourceIsRevision, PoolInItsPhases, DoneIsThere, WrittenBefore, AllRanks, ManifestIsLast,
       SlicesAreRevision, ComputesMissing, Coalescing, Working, Json, packVars, poolVars, envVars
<1>17. ASSUME Crash PROVE IndInv'
  BY <1>17 DEF Crash, TypeOK, SourceIsRevision, PoolInItsPhases, DoneIsThere, WrittenBefore, AllRanks, ManifestIsLast,
       SlicesAreRevision, ComputesMissing, Coalescing, Working, Json, packVars, poolVars, envVars
<1>18. ASSUME ChangeRevision PROVE IndInv'
  <2>1. /\ phase = "down" /\ revision < NumRevisions /\ revision' = revision + 1
        /\ moved' = (moved \/ \E f \in Payload : target[f] # Nothing)
        /\ UNCHANGED <<packVars, phase, poolVars, crashes, failures>>
    BY <1>18 DEF ChangeRevision
  <2>2. moved' \in BOOLEAN /\ (~moved' => \A f \in Payload : target[f] = Nothing)
    BY <2>1 DEF TypeOK
  <2>3. revision' \in 1..NumRevisions
    BY <2>1 DEF TypeOK
  <2>4. TypeOK'
    BY <2>1, <2>2, <2>3 DEF TypeOK, packVars, poolVars
  <2>5. SlicesAreRevision'
    BY <2>1, <2>2 DEF SlicesAreRevision, packVars, Nothing
  <2> QED
    BY <2>1, <2>4, <2>5 DEF SourceIsRevision, PoolInItsPhases, DoneIsThere, WrittenBefore, AllRanks,
         ManifestIsLast, ComputesMissing, Coalescing, Json, packVars, poolVars
<1>19. ASSUME NEW f \in Families, WorkerFails(f) PROVE IndInv'
  BY <1>19 DEF WorkerFails, Busy, TypeOK, SourceIsRevision, PoolInItsPhases, DoneIsThere, WrittenBefore, AllRanks, ManifestIsLast,
       SlicesAreRevision, ComputesMissing, Coalescing, Working, Json, packVars, poolVars, envVars
<1>20. CASE UNCHANGED vars
  BY <1>20 DEF vars, TypeOK, SourceIsRevision, PoolInItsPhases, DoneIsThere, WrittenBefore, AllRanks, ManifestIsLast,
       SlicesAreRevision, ComputesMissing, Coalescing, Working, Json, packVars, poolVars, envVars
<1> QED
  BY <1>1, <1>2, <1>3, <1>4, <1>5, <1>6, <1>7, <1>8, <1>9, <1>10, <1>11, <1>12, <1>13, <1>14, <1>15, <1>16, <1>17, <1>18, <1>19, <1>20 DEF Next, Work

-----------------------------------------------------------------------------
\* The induction, once for all the invariants.
LEMMA Invariance == Spec => []IndInv
<1>1. Init => IndInv
  BY InitEstablishesIndInv
<1>2. IndInv /\ [Next]_vars => IndInv'
  BY StepKeepsIndInv
<1> QED
  BY <1>1, <1>2, PTL DEF Spec

\* Every variable keeps its type (coalesce_rank_sliced_exl3.py).
THEOREM TypeCorrect == Spec => []TypeOK
BY Invariance, PTL DEF IndInv

\* The manifest exists only beside every file, each family with all its ranks
\* and an index of all the weights: the entrypoint need not look any further.
THEOREM ManifestIsCommit == Spec => []ManifestMeansWhole
<1>1. IndInv => ManifestMeansWhole
  BY Names DEF IndInv, ManifestMeansWhole, ManifestIsLast, AllRanks
<1> QED
  BY <1>1, Invariance, PTL

\* What the manifest says of the files stays true, so that verification never
\* refuses a pack that was finished.
THEOREM ManifestStaysTrue == Spec => []ManifestHolds
<1>1. IndInv => ManifestHolds
  BY DEF IndInv, ManifestHolds, Verified, ManifestIsLast
<1> QED
  BY <1>1, Invariance, PTL

\* A finished pack is of one revision, unless the operator moved to another over
\* the files of an earlier one.
THEOREM PackIsOneRevision == Spec => []OneRevision
<1>1. IndInv => OneRevision
  <2> SUFFICES ASSUME IndInv, manifest # Nothing, ~moved
               PROVE  \E v \in 1..NumRevisions :
                        \A f \in Weights \cup Sidecars : \A slice \in target[f] : slice[2] = v
    BY DEF OneRevision
  <2>1. Weights \cup Sidecars \subseteq Payload
    BY DEF Payload
  <2>2. \A f \in Weights \cup Sidecars : \A slice \in target[f] : slice[2] = revision
    BY <2>1 DEF IndInv, SlicesAreRevision
  <2>3. revision \in 1..NumRevisions
    BY DEF IndInv, TypeOK
  <2> QED
    BY <2>2, <2>3
<1> QED
  BY <1>1, Invariance, PTL

\* A manifest is true of the whole pack, of one revision, for as long as it stands.
THEOREM ManifestTellsTrue == Spec => []ManifestIsTrue
<1>1. Spec => [](ManifestMeansWhole /\ OneRevision /\ ManifestHolds)
  BY ManifestIsCommit, PackIsOneRevision, ManifestStaysTrue, PTL
<1> QED
  BY <1>1, PTL DEF ManifestIsTrue

\* With --reuse-complete no family that is there is computed or written again.
THEOREM ReusedFamiliesStay == Spec => NeverRedone
<1>1. IndInv /\ [Next]_vars =>
        [Reuse => \A f \in Families : target[f] # Nothing =>
                    target'[f] = target[f] /\ job'[f] \notin {"running", "written"}]_vars
  <2> SUFFICES ASSUME IndInv, [Next]_vars, Reuse, NEW f \in Families, target[f] # Nothing
               PROVE  target'[f] = target[f] /\ job'[f] \notin {"running", "written"}
    OBVIOUS
  <2>0. ComputesMissing'
    BY StepKeepsIndInv DEF IndInv
  <2>1. f \in Payload /\ f \notin Carried \cup Sidecars \cup Json
    BY Names
  <2>2. target \in [Payload -> SUBSET ((0..Tp - 1) \X (1..NumRevisions))]
    BY DEF IndInv, TypeOK
  <2>3. ASSUME Carry \/ CopySidecar \/ WriteJson PROVE target'[f] = target[f]
    BY <2>1, <2>2, <2>3 DEF Carry, CopySidecar, CopyOrLink, WriteJson
  <2>4. ASSUME NEW g \in Families, Rename(g) PROVE target'[f] = target[f]
    <3>1. g # f
      BY <2>4 DEF Rename, IndInv, ComputesMissing
    <3> QED
      BY <2>1, <2>2, <2>4, <3>1 DEF Rename
  <2>5. ASSUME UNCHANGED target PROVE target'[f] = target[f]
    BY <2>5
  <2>6. target'[f] = target[f]
    BY <2>3, <2>4, <2>5
       DEF Next, Work, vars, packVars, Boot, Download, Downloaded, Submit, Take, Save, Collect, Raise, Exit,
           Combined, WriteManifest, Verify, Crash, ChangeRevision, WorkerFails
  <2> QED
    BY <2>0, <2>6 DEF ComputesMissing
<1> QED
  BY <1>1, Invariance, PTL DEF Spec, NeverRedone

-----------------------------------------------------------------------------
\* The refinement: a copy, a rename and a JSON file store, the manifest publishes.

StoredFiles == {f \in Payload : target[f] # Nothing}
Stutter == UNCHANGED <<StoredFiles, manifest>>

\* A step that fills one file stores it; one that fills it again changes nothing.
LEMMA FillingStores ==
  ASSUME target \in [Payload -> SUBSET ((0..Tp - 1) \X (1..NumRevisions))],
         NEW f \in Payload, NEW c, c # Nothing, target' = [target EXCEPT ![f] = c], UNCHANGED manifest
  PROVE  [Commit!Next]_<<StoredFiles, IF manifest = Nothing THEN {} ELSE {"tp1"}>>
<1>1. target'[f] # Nothing /\ \A g \in Payload : g # f => target'[g] = target[g]
  OBVIOUS
<1>2. CASE target[f] = Nothing
  <2>1. f \notin StoredFiles /\ StoredFiles' = StoredFiles \cup {f}
    BY <1>1, <1>2 DEF StoredFiles
  <2>2. Commit!Store(f)
    BY <2>1 DEF StoredFiles, Commit!Store
  <2> QED
    BY <2>2 DEF Commit!Next
<1>3. CASE target[f] # Nothing
  BY <1>1, <1>3 DEF StoredFiles
<1> QED
  BY <1>2, <1>3

LEMMA StepImplements ==
  ASSUME IndInv, [Next]_vars
  PROVE  [Commit!Next]_<<StoredFiles, IF manifest = Nothing THEN {} ELSE {"tp1"}>>
<1>1. target \in [Payload -> SUBSET ((0..Tp - 1) \X (1..NumRevisions))]
  BY DEF IndInv, TypeOK
<1>2. CASE Carry \/ CopySidecar
  <2>1. PICK s \in Carried \cup Sidecars : target' = [target EXCEPT ![s] = CopyOf(s)]
    BY <1>2 DEF Carry, CopySidecar, CopyOrLink
  <2>2. phase \in Coalescing /\ UNCHANGED manifest
    BY <1>2 DEF Carry, CopySidecar, Coalescing
  <2>3. CopyOf(s) # Nothing /\ s \in Payload
    BY <2>2, CopyFacts, Names DEF IndInv
  <2> QED
    BY <1>1, <2>1, <2>2, <2>3, FillingStores
<1>3. ASSUME NEW f \in Families, Rename(f)
      PROVE  [Commit!Next]_<<StoredFiles, IF manifest = Nothing THEN {} ELSE {"tp1"}>>
  <2>1. phase \in Coalescing
    BY <1>3 DEF Rename, IndInv, PoolInItsPhases, Working, Coalescing
  <2>2. SlicesOf(f) # Nothing /\ f \in Payload
    BY <2>1, SlicesFacts, Names DEF IndInv
  <2>3. target' = [target EXCEPT ![f] = SlicesOf(f)] /\ UNCHANGED manifest
    BY <1>3 DEF Rename
  <2> QED
    BY <1>1, <2>2, <2>3, FillingStores
<1>4. CASE WriteJson
  <2>1. phase \in Payload /\ {<<0, revision>>} # Nothing
    BY <1>4, Names DEF WriteJson, Nothing
  <2>2. target' = [target EXCEPT ![phase] = {<<0, revision>>}] /\ UNCHANGED manifest
    BY <1>4 DEF WriteJson
  <2> QED
    BY <1>1, <2>1, <2>2, FillingStores
<1>5. CASE WriteManifest
  <2>1. manifest = Nothing /\ UNCHANGED target
    BY <1>5 DEF WriteManifest, Go, IndInv, ManifestIsLast
  <2>2. StoredFiles = Payload /\ UNCHANGED StoredFiles
    <3>1. \A f \in Payload : target[f] # Nothing
      BY <1>5 DEF WriteManifest, Go, IndInv, WrittenBefore, Json, Payload, Weights
    <3> QED
      BY <3>1, <2>1 DEF StoredFiles
  <2>3. CASE manifest' = Nothing
    BY <2>1, <2>2, <2>3
  <2>4. CASE manifest' # Nothing
    <3>1. Commit!Publish("tp1")
      BY <2>1, <2>2, <2>4 DEF Commit!Publish, StoredFiles
    <3> QED
      BY <3>1 DEF Commit!Next
  <2> QED
    BY <2>3, <2>4
<1>6. CASE UNCHANGED <<target, manifest>>
  BY <1>6 DEF StoredFiles
<1> QED
  BY <1>2, <1>3, <1>4, <1>5, <1>6
     DEF Next, Work, vars, packVars, Boot, Download, Downloaded, Submit, Take, Save, Collect, Raise, Exit,
         Combined, Verify, Crash, ChangeRevision, WorkerFails

\* The coalescer stores file by file and publishes once, as PackCommit says.
THEOREM CoalesceImplementsCommit == Spec => ImplementsCommit
<1>1. Init => Commit!Init
  <2> SUFFICES ASSUME Init PROVE Commit!Init
    OBVIOUS
  <2>1. StoredFiles = {} /\ manifest = Nothing
    BY DEF Init, StoredFiles, Nothing
  <2> QED
    BY <2>1 DEF Commit!Init, StoredFiles
<1>2. IndInv /\ [Next]_vars => [Commit!Next]_<<StoredFiles, IF manifest = Nothing THEN {} ELSE {"tp1"}>>
  BY StepImplements
<1> QED
  BY <1>1, <1>2, Invariance, PTL DEF Spec, ImplementsCommit, Commit!Spec, StoredFiles

=============================================================================
