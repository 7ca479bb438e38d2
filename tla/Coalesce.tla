------------------------------ MODULE Coalesce ------------------------------
(***************************************************************************)
(* The entrypoint's first boot: download the rank-sliced pack, coalesce    *)
(* its tensor-parallel ranks into one, verify the result against its       *)
(* manifest and serve.  The container may be killed between any two steps  *)
(* and a worker of the pool may fail; the next boot starts from the files  *)
(* that are there.  A file holds the slices it was made of, each with the  *)
(* revision of the repository it came from; sizes and tensor names do not  *)
(* depend on the revision.                                                 *)
(***************************************************************************)
EXTENDS Integers, FiniteSets, Sequences

CONSTANTS
  Tp,           \* tensor-parallel ranks of the source
  FamilyOrder,  \* the rank families in the order of their names; a family has a file per rank
  Carried,      \* weight files copied as they are
  Sidecars,     \* other files copied as they are
  Workers,      \* --workers
  Reuse,        \* --reuse-complete
  NumRevisions, \* revisions of the repository, published one after another
  MaxCrashes,   \* bound: times the container is killed
  MaxFailures   \* bound: workers that fail

Families == {FamilyOrder[i] : i \in 1..Len(FamilyOrder)}
Before(f) ==
  LET at == CHOOSE i \in 1..Len(FamilyOrder) : FamilyOrder[i] = f IN {FamilyOrder[i] : i \in 1..at - 1}
Source == (Families \X (0..Tp - 1)) \cup ((Carried \cup Sidecars) \X {0})
Weights == Families \cup Carried
Json == {"config", "quantization_config", "index"}
Payload == Weights \cup Sidecars \cup Json
Nothing == {}

\* The index names a file once, as one of its kinds.
ASSUME CoalesceAssumption ==
  /\ Tp \in Nat \ {0} /\ Workers \in Nat \ {0}
  /\ NumRevisions \in Nat \ {0} /\ Reuse \in BOOLEAN /\ MaxCrashes \in Nat /\ MaxFailures \in Nat
  /\ Families \cap (Carried \cup Sidecars \cup Json) = {}

VARIABLES
  revision,   \* the revision MODEL_REVISION names
  source,     \* source[s]: the revision of a downloaded file, 0 before
  target,     \* target[f]: the slices of a file of the tp1 pack, Nothing before
  indexed,    \* the weight files the index names
  manifest,   \* the checksums of the weights in the manifest, Nothing without one
  phase,      \* the step of the entrypoint and of coalesce's main
  job,        \* job[f]: where the pool is with a family
  collected,  \* the families whose result main has taken
  moved,      \* the revision changed while an earlier one's files were there
  crashes, failures

packVars == <<source, target, indexed, manifest>>
poolVars == <<job, collected>>
envVars == <<revision, moved, crashes, failures>>
vars == <<packVars, phase, poolVars, envVars>>

Go(from, to) == phase = from /\ phase' = to

\* What coalesce_family makes of a family: its slices in the order of the ranks.
SlicesOf(f) == {<<r, source[<<f, r>>]>> : r \in 0..Tp - 1}
CopyOf(s) == {<<0, source[<<s, 0>>]>>}

\* The entrypoint looks for the manifest and for nothing else.
Boot_LooksForIndex ==
  /\ Go("down", IF indexed = {} THEN "download" ELSE "verify")
  /\ UNCHANGED <<packVars, poolVars, envVars>>
Boot ==
  /\ Go("down", IF manifest = Nothing THEN "download" ELSE "verify")
  /\ UNCHANGED <<packVars, poolVars, envVars>>

\* snapshot_download brings the files that are missing or of another revision.
Download ==
  /\ phase = "download"
  /\ \E s \in Source : source[s] # revision /\ source' = [source EXCEPT ![s] = revision]
  /\ UNCHANGED <<target, indexed, manifest, phase, poolVars, envVars>>

Downloaded_AnyRevision ==
  /\ Go("download", "carry") /\ \A s \in Source : source[s] # 0
  /\ UNCHANGED <<packVars, poolVars, envVars>>
Downloaded ==
  /\ Go("download", "carry") /\ \A s \in Source : source[s] = revision
  /\ UNCHANGED <<packVars, poolVars, envVars>>

\* copy_or_link keeps a target of the source's size; another is linked or copied
\* under .partial and renamed.
CopyOrLink(files) ==
  \E s \in files : target[s] = Nothing /\ target' = [target EXCEPT ![s] = CopyOf(s)]

Carry ==
  /\ phase = "carry" /\ CopyOrLink(Carried)
  /\ UNCHANGED <<source, indexed, manifest, phase, poolVars, envVars>>

Submit ==
  /\ Go("carry", "families") /\ \A s \in Carried : target[s] # Nothing
  /\ job' = [f \in Families |-> "queued"] /\ collected' = {}
  /\ UNCHANGED <<packVars, envVars>>

\* A worker takes the first family in the queue; without a pool main does them
\* one by one.
Busy == {f \in Families : job[f] \in {"running", "written"}}
MayTake(f) ==
  /\ job[f] = "queued" /\ \A g \in Before(f) : job[g] # "queued"
  /\ Cardinality(Busy) < Workers
  /\ Workers = 1 => \A g \in Before(f) : g \in collected

Take_NoReuse(f) ==
  /\ phase \in {"families", "drain"} /\ MayTake(f)
  /\ job' = [job EXCEPT ![f] = "running"]
  /\ UNCHANGED <<packVars, phase, collected, envVars>>
Take(f) ==
  /\ phase \in {"families", "drain"} /\ MayTake(f)
  /\ job' = [job EXCEPT ![f] = IF Reuse /\ target[f] # Nothing THEN "done" ELSE "running"]
  /\ UNCHANGED <<packVars, phase, collected, envVars>>

\* save_file under .partial, then the rename.
Save(f) ==
  /\ job[f] = "running" /\ job' = [job EXCEPT ![f] = "written"]
  /\ UNCHANGED <<packVars, phase, collected, envVars>>
Rename(f) ==
  /\ job[f] = "written" /\ job' = [job EXCEPT ![f] = "done"]
  /\ target' = [target EXCEPT ![f] = SlicesOf(f)]
  /\ UNCHANGED <<source, indexed, manifest, phase, collected, envVars>>

WorkerFails(f) ==
  /\ failures < MaxFailures /\ failures' = failures + 1
  /\ f \in Busy /\ job' = [job EXCEPT ![f] = "failed"]
  /\ UNCHANGED <<packVars, phase, collected, revision, moved, crashes>>

\* Main takes the results in the order of the families.
Collect ==
  /\ phase = "families"
  /\ \E f \in Families \ collected :
       /\ \A g \in Before(f) : g \in collected
       /\ job[f] = "done" /\ collected' = collected \cup {f}
  /\ UNCHANGED <<packVars, phase, job, envVars>>

\* The first failed result raises in main.  The shutdown cancels what no worker
\* can reach any more and waits for the rest: the pool has handed out Handed
\* items beyond the running ones, which are done before it is drained.
Handed == IF Workers = 1 THEN 0 ELSE Workers + 1
Raise ==
  /\ Go("families", "drain")
  /\ \E f \in Families \ collected : job[f] = "failed" /\ \A g \in Before(f) : g \in collected
  /\ \E kept \in SUBSET {f \in Families : job[f] = "queued"} :
       /\ Cardinality(kept) <= Handed
       /\ \A f \in kept : \A g \in Before(f) : job[g] = "queued" => g \in kept
       /\ job' = [f \in Families |-> IF job[f] = "queued" /\ f \notin kept THEN "cancelled" ELSE job[f]]
  /\ UNCHANGED <<packVars, collected, envVars>>

\* Main ends, and the entrypoint and the container with it, after the last worker.
Drained == \A f \in Families : job[f] \notin {"queued", "running", "written"}

Exit ==
  /\ Go("drain", "down") /\ Drained
  /\ UNCHANGED <<packVars, poolVars, envVars>>

Combined ==
  /\ Go("families", "config") /\ collected = Families
  /\ UNCHANGED <<packVars, poolVars, envVars>>

\* write_json replaces config.json, quantization_config.json and the index; the
\* index names the weights main has collected.
NextJson == [config |-> "quantization_config", quantization_config |-> "index", index |-> "sidecars"]
WriteJson ==
  /\ phase \in Json /\ phase' = NextJson[phase]
  /\ target' = [target EXCEPT ![phase] = {<<0, revision>>}]
  /\ indexed' = IF phase = "index" THEN Carried \cup collected ELSE indexed
  /\ UNCHANGED <<source, manifest, poolVars, envVars>>

CopySidecar ==
  /\ phase = "sidecars" /\ CopyOrLink(Sidecars)
  /\ UNCHANGED <<source, indexed, manifest, phase, poolVars, envVars>>

\* The manifest comes last, with the checksums of the weights as they are now.
WriteManifest_BeforeSidecars ==
  /\ Go("sidecars", "verify")
  /\ manifest' = {<<f, target[f]>> : f \in Weights}
  /\ UNCHANGED <<source, target, indexed, poolVars, envVars>>
WriteManifest ==
  /\ Go("sidecars", "verify") /\ \A s \in Sidecars : target[s] # Nothing
  /\ manifest' = {<<f, target[f]>> : f \in Weights}
  /\ UNCHANGED <<source, target, indexed, poolVars, envVars>>

\* verify_tp1_manifest.py, then the server.
Verified == \A f \in Weights : <<f, target[f]>> \in manifest
Verify ==
  /\ Go("verify", IF Verified THEN "serve" ELSE "down")
  /\ UNCHANGED <<packVars, poolVars, envVars>>

\* Kills the container with everything that runs in it.
Crash ==
  /\ crashes < MaxCrashes /\ crashes' = crashes + 1
  /\ phase # "down" /\ phase' = "down"
  /\ job' = [f \in Families |-> "cancelled"]
  /\ UNCHANGED <<packVars, collected, revision, moved, failures>>

\* The operator names a newer revision between two boots.
ChangeRevision ==
  /\ phase = "down" /\ revision < NumRevisions
  /\ revision' = revision + 1
  /\ moved' = (moved \/ \E f \in Payload : target[f] # Nothing)
  /\ UNCHANGED <<packVars, phase, poolVars, crashes, failures>>

Init ==
  /\ revision = 1 /\ source = [s \in Source |-> 0] /\ target = [f \in Payload |-> Nothing]
  /\ indexed = {} /\ manifest = Nothing /\ phase = "down"
  /\ job = [f \in Families |-> "cancelled"] /\ collected = {}
  /\ moved = FALSE /\ crashes = 0 /\ failures = 0

Work ==
  \/ Boot \/ Download \/ Downloaded \/ Carry \/ Submit
  \/ \E f \in Families : Take(f) \/ Save(f) \/ Rename(f)
  \/ Collect \/ Raise \/ Exit \/ Combined \/ WriteJson \/ CopySidecar \/ WriteManifest \/ Verify

Next == Work \/ Crash \/ ChangeRevision \/ (\E f \in Families : WorkerFails(f))

\* A boot that stopped is started again, and a running one makes progress.
Spec == Init /\ [][Next]_vars /\ WF_vars(Work)

(***************************************************************************)
(* Properties.                                                             *)
(***************************************************************************)

\* Every variable stays in its type (coalesce_rank_sliced_exl3.py).
TypeOK ==
  /\ revision \in 1..NumRevisions /\ source \in [Source -> 0..NumRevisions]
  /\ target \in [Payload -> SUBSET ((0..Tp - 1) \X (1..NumRevisions))] /\ indexed \subseteq Weights
  /\ phase \in {"down", "download", "carry", "families", "drain", "sidecars", "verify", "serve"} \cup Json
  /\ job \in [Families -> {"queued", "running", "written", "done", "failed", "cancelled"}]
  /\ collected \subseteq Families /\ moved \in BOOLEAN
  /\ crashes \in 0..MaxCrashes /\ failures \in 0..MaxFailures

\* A manifest, the only thing the entrypoint looks for, means the whole pack:
\* every file, each family with every rank, an index of all the weights.
ManifestMeansWhole ==
  manifest # Nothing =>
    /\ \A f \in Payload : target[f] # Nothing
    /\ \A f \in Families : {slice[1] : slice \in target[f]} = 0..Tp - 1
    /\ indexed = Weights

\* Unless the operator moved to another revision over the files of an earlier
\* one, the pack is of a single revision, whatever was killed or failed.
OneRevision ==
  manifest # Nothing /\ ~moved =>
    \E v \in 1..NumRevisions :
      \A f \in Weights \cup Sidecars : \A slice \in target[f] : slice[2] = v

\* A family that is complete is never computed again, nor written over, by any
\* worker of any boot, whatever was killed or failed (--reuse-complete).
NeverRedone ==
  [][Reuse => \A f \in Families : target[f] # Nothing =>
                target'[f] = target[f] /\ job'[f] \notin {"running", "written"}]_vars

\* The files stay what the manifest says of them, so that a boot that finds one
\* serves the pack: its verification refuses nothing that was finished.
ManifestHolds == manifest # Nothing => Verified

\* The manifest, the only file a boot looks at, is true of the whole pack.
ManifestIsTrue == ManifestMeansWhole /\ OneRevision /\ ManifestHolds

\* However often it is killed, the container ends up serving.
EndsServing == <>[](phase = "serve")

\* The pack is stored file by file and published once, whole (PackCommit).
Commit == INSTANCE PackCommit WITH
  Files <- Payload, Views <- {"tp1"}, Needs <- [v \in {"tp1"} |-> Payload],
  stored <- {f \in Payload : target[f] # Nothing},
  published <- IF manifest = Nothing THEN {} ELSE {"tp1"}
ImplementsCommit == Commit!Spec
=============================================================================
