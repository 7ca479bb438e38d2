---------------------------- MODULE LaunchProofs ----------------------------
(***************************************************************************)
(* The conversion, and start.sh on top of it, for every number of payload  *)
(* files, every number and place of kills, with and without torn writes:   *)
(* the manifest is a commit record, no index dangles, the conversion       *)
(* implements PackCommit, and a success leaves one view; the composition   *)
(* takes no step that the conversion alone could not take, so all of this  *)
(* carries over, and with it what the engine is started on.                *)
(***************************************************************************)
EXTENDS Launch, TLAPS

IndexFiles  == {"index", "index.text", "index.vision"}
PartsStored == \A p \in Parts : Stored(p)

\* A sidecar is written only beside a whole payload file.
SidecarAfterData == \A p \in Payload : side[p] # "absent" => data[p] = "ok"

\* While step 1 runs, the manifest does not exist and everything before the
\* command it is at has been written.
StepOneOrder ==
  /\ pc \in {"payload", "sidecar", "index", "bitrates", "manifest"} => ~Exists("manifest")
  /\ pc \in {"payload", "sidecar"} => \A p \in Parts : p < part => Stored(p)
  /\ pc = "sidecar" => data[part] = "ok" /\ side[part] = "absent"
  /\ pc \in {"index", "bitrates", "manifest"} => PartsStored
  /\ pc \in {"bitrates", "manifest"} => Exists("index")
  /\ pc = "manifest" => Readable("bitrates")

\* While the vision tensors are added, the vision index still is the text one.
StepFourOrder ==
  /\ pc \in {"vis_sidecar", "add_index"} =>
       json["index.vision"] = "text" /\ data[VisPart] = "ok"
  /\ pc = "add_index" => Stored(VisPart)
  /\ ~Exists("index.vision") \/ pc \in {"vision_manifest", "add_vision", "vis_sidecar"} =>
       side[VisPart] = "absent"

\* A copy exists only after what it was copied from, and the live index is in
\* the vision view only when its copy is.
CopiesFollowOriginals ==
  /\ Exists("manifest.text") => Exists("manifest")
  /\ Exists("manifest.vision") => Exists("manifest.text")
  /\ Exists("index.vision") => Exists("index.text")
  /\ json["index.text"] # "vision"
  /\ json["index"] = "vision" => json["index.vision"] = "vision"

IndInv ==
  /\ TypeOK
  /\ SidecarAfterData
  /\ StepOneOrder
  /\ StepFourOrder
  /\ CopiesFollowOriginals
  /\ ManifestIsCommitRecord
  /\ IndexNeverDangles

-----------------------------------------------------------------------------
LEMMA InitEstablishesIndInv == Init => IndInv
<1>. SUFFICES ASSUME Init PROVE IndInv
  OBVIOUS
<1>1. TypeOK
  <2>1. cut \in BOOLEAN
    BY DEF Init
  <2>. QED
    BY <2>1, PackAssumption DEF Init, TypeOK, Commands, JsonFiles, Content, Parts, Payload
<1>2. /\ SidecarAfterData /\ StepOneOrder /\ StepFourOrder
      /\ CopiesFollowOriginals /\ ManifestIsCommitRecord /\ IndexNeverDangles
  BY PackAssumption
     DEF Init, SidecarAfterData, StepOneOrder, StepFourOrder, CopiesFollowOriginals,
         ManifestIsCommitRecord, IndexNeverDangles, Exists, JsonFiles, Parts, Payload, VisPart
<1>. QED
  BY <1>1, <1>2 DEF IndInv

\* One step per action, grouped as Next groups them.
LEMMA StepKeepsIndInv == IndInv /\ [Next]_vars => IndInv'
<1> SUFFICES ASSUME IndInv, [Next]_vars PROVE IndInv'
  OBVIOUS
<1> USE PackAssumption
    DEF IndInv, TypeOK, SidecarAfterData, StepOneOrder, StepFourOrder,
        CopiesFollowOriginals, ManifestIsCommitRecord, IndexNeverDangles, PartsStored,
        Stored, Exists, Readable, Parts, Payload, VisPart, JsonFiles, Content, Commands,
        Goto, script, files
<1>1. CASE ConvertPack
  <2>1. CASE StartConversion
    BY <2>1 DEF StartConversion, Skip
  <2>2. CASE KeepPayload
    BY <2>2 DEF KeepPayload, Kept, NextPart, Fail, End
  <2>3. CASE WritePayload
    BY <2>3 DEF WritePayload, Kept
  <2>4. CASE WriteSidecar
    BY <2>4 DEF WriteSidecar, WriteSide, NextPart, Killed
  <2>5. CASE WriteIndex
    BY <2>5 DEF WriteIndex, Write, Killed
  <2>6. CASE WriteBitrates
    BY <2>6 DEF WriteBitrates, Write, Killed
  <2>7. CASE WriteManifest
    BY <2>7 DEF WriteManifest, Write, Killed
  <2>. QED
    BY <1>1, <2>1, <2>2, <2>3, <2>4, <2>5, <2>6, <2>7 DEF ConvertPack
<1>2. CASE MakeConfig
  BY <1>2 DEF MakeConfig, Write, Killed, Fail, End
<1>3. CASE BuildDraft
  BY <1>3 DEF BuildDraft, Skip, Fail, End
<1>4. CASE AddVisionView
  <2>1. CASE KeepConfig
    BY <2>1 DEF KeepConfig, CopyOnce, Skip, Copy, Write, Killed, Fail, End
  <2>2. CASE KeepIndex
    BY <2>2 DEF KeepIndex, CopyOnce, Skip, Copy, Write, Killed, Fail, End
  <2>3. CASE KeepManifest
    BY <2>3 DEF KeepManifest, CopyOnce, Skip, Copy, Write, Killed, Fail, End
  <2>4. CASE VisionIndex
    BY <2>4 DEF VisionIndex, Skip, Copy, Write, Killed, Fail, End
  <2>5. CASE VisionManifest
    BY <2>5 DEF VisionManifest, Copy, Write, Killed, Fail, End
  <2>6. CASE AddVision
    BY <2>6 DEF AddVision, Skip, Fail, End
  <2>7. CASE AddVisSidecar
    \* No index is in the vision view yet: the sidecar of the vision file is free.
    <3>1. pc = "vis_sidecar" /\ UNCHANGED <<caller, part, data, json, draft>>
      BY <2>7 DEF AddVisSidecar, WriteSide, Killed
    <3>2. \A f \in {"index", "index.text", "index.vision"} : json[f] # "vision"
      BY <3>1
    <3>3. \/ /\ pc' = "add_index" /\ side' = [side EXCEPT ![VisPart] = "ok"]
             /\ UNCHANGED <<outcome, crashes>>
          \/ /\ pc' = "idle" /\ side' = [side EXCEPT ![VisPart] = "torn"]
             /\ outcome' = "killed" /\ crashes' = crashes + 1 /\ crashes < MaxCrashes
      BY <2>7 DEF AddVisSidecar, WriteSide, Killed
    <3>10. cut' \in BOOLEAN
      BY <2>7 DEF AddVisSidecar, WriteSide, Killed
    <3>4. TypeOK'
      BY <3>1, <3>3, <3>10
    <3>5. \A p \in Parts : Stored(p)' <=> Stored(p)
      BY <3>1, <3>3
    <3>6. SidecarAfterData' /\ StepFourOrder'
      BY <3>1, <3>3
    <3>7. StepOneOrder' /\ CopiesFollowOriginals'
      BY <3>1, <3>3
    <3>8. ManifestIsCommitRecord' /\ IndexNeverDangles'
      BY <3>1, <3>2, <3>5
    <3>. QED
      BY <3>4, <3>6, <3>7, <3>8
  <2>8. CASE AddIndex
    BY <2>8 DEF AddIndex, Write, Killed
  <2>9. CASE AddManifest
    BY <2>9 DEF AddManifest, Write, Killed, Fail, End
  <2>10. CASE MakeVisionConfig
    BY <2>10 DEF MakeVisionConfig, Write, Killed, Fail, End
  <2>. QED
    BY <1>4, <2>1, <2>2, <2>3, <2>4, <2>5, <2>6, <2>7, <2>8, <2>9, <2>10 DEF AddVisionView
<1>5. CASE SwitchView
  <2>1. CASE OnConfig
    BY <2>1 DEF OnConfig, Copy, Write, Killed, Fail, End
  <2>2. CASE OnIndex
    BY <2>2 DEF OnIndex, Copy, Write, Killed, Fail, End
  <2>3. CASE OnManifest
    BY <2>3 DEF OnManifest, Copy, Write, Killed, Fail, End
  <2>4. CASE OffConfig
    BY <2>4 DEF OffConfig, Copy, Write, Killed, Fail, End
  <2>5. CASE OffIndex
    BY <2>5 DEF OffIndex, Copy, Write, Killed, Fail, End
  <2>6. CASE OffManifest
    BY <2>6 DEF OffManifest, Copy, Write, Killed, Fail, End
  <2>7. CASE ViewDone
    BY <2>7 DEF ViewDone, End
  <2>. QED
    BY <1>5, <2>1, <2>2, <2>3, <2>4, <2>5, <2>6, <2>7 DEF SwitchView
<1>6. CASE VerifyCheckpoint
  BY <1>6 DEF VerifyCheckpoint, Skip, Fail, End
<1>7. CASE Summary
  BY <1>7 DEF Summary, Fail, End
<1>8. CASE User
  <2>1. CASE RunConvert
    BY <2>1 DEF RunConvert, Launch
  <2>2. CASE UseVisionOn
    BY <2>2 DEF UseVisionOn, Launch
  <2>3. CASE UseVisionOff
    BY <2>3 DEF UseVisionOff, Launch
  <2>4. CASE RemoveDraft
    BY <2>4 DEF RemoveDraft
  <2>. QED
    BY <1>8, <2>1, <2>2, <2>3, <2>4 DEF User
<1>9. CASE Crash
  BY <1>9 DEF Crash, Killed
<1>10. CASE UNCHANGED vars
  BY <1>10 DEF vars
<1>. QED
  BY <1>1, <1>2, <1>3, <1>4, <1>5, <1>6, <1>7, <1>8, <1>9, <1>10 DEF Next, Script

LEMMA IndInvIsInvariant == Spec => []IndInv
BY InitEstablishesIndInv, StepKeepsIndInv, PTL DEF Spec

\* Every variable keeps its type, whatever is killed and rerun (convert.sh).
THEOREM TypeCorrect == Spec => []TypeOK
<1>1. IndInv => TypeOK
  BY DEF IndInv
<1>. QED
  BY <1>1, IndInvIsInvariant, PTL

\* The manifest, whose existence start.sh, serve.sh and convert.sh test, is
\* there only when every payload file, the index and the bitrates are.
THEOREM CommitRecord == Spec => []ManifestIsCommitRecord
<1>1. IndInv => ManifestIsCommitRecord
  BY DEF IndInv
<1>. QED
  BY <1>1, IndInvIsInvariant, PTL

\* No index file ever names a tensor of a payload file that is not on disk.
THEOREM NoDanglingIndex == Spec => []IndexNeverDangles
<1>1. IndInv => IndexNeverDangles
  BY DEF IndInv
<1>. QED
  BY <1>1, IndInvIsInvariant, PTL

-----------------------------------------------------------------------------
(* The conversion implements PackCommit. *)

\* A step that stores no file and publishes no view.
Quiet ==
  /\ \A p \in Payload : Stored(p)' <=> Stored(p)
  /\ Exists("manifest")' <=> Exists("manifest")
  /\ (json["index.vision"] = "vision")' <=> json["index.vision"] = "vision"

LEMMA QuietStutters == Quiet => UNCHANGED <<StoredFiles, PublishedViews>>
<1> SUFFICES ASSUME Quiet PROVE UNCHANGED <<StoredFiles, PublishedViews>>
  OBVIOUS
<1>1. StoredFiles' = StoredFiles
  BY DEF Quiet, StoredFiles, Payload
<1>2. PublishedViews' = PublishedViews
  BY DEF Quiet, PublishedViews
<1>. QED
  BY <1>1, <1>2

\* The sidecar completes a payload file of the text view.
LEMMA SidecarStores ==
  ASSUME IndInv, WriteSidecar
  PROVE  Quiet \/ Commit!Next
<1> USE PackAssumption
    DEF IndInv, TypeOK, StepOneOrder, WriteSidecar, WriteSide, Stored, Parts, Payload
<1>1. part \in Payload /\ ~Stored(part) /\ data[part] = "ok" /\ pc = "sidecar"
  BY DEF NextPart, Goto, Killed
<1>2. UNCHANGED <<data, json, draft>>
  OBVIOUS
<1>3. CASE side' = [side EXCEPT ![part] = "torn"]
  BY <1>1, <1>2, <1>3 DEF Quiet, Exists
<1>4. CASE side' = [side EXCEPT ![part] = "ok"]
  <2>1. StoredFiles' = StoredFiles \cup {part}
    BY <1>1, <1>2, <1>4 DEF StoredFiles
  <2>2. part \notin StoredFiles
    BY <1>1 DEF StoredFiles
  <2>3. PublishedViews' = PublishedViews
    BY <1>2 DEF PublishedViews, Exists
  <2>. QED
    BY <1>1, <2>1, <2>2, <2>3 DEF Commit!Next, Commit!Store
<1>. QED
  BY <1>3, <1>4

\* The sidecar of the vision file, which no kill has left behind.
LEMMA VisSidecarStores ==
  ASSUME IndInv, AddVisSidecar
  PROVE  Quiet \/ Commit!Next
<1> USE PackAssumption
    DEF IndInv, TypeOK, StepFourOrder, AddVisSidecar, WriteSide, Stored, Parts, Payload, VisPart
<1>1. VisPart \in Payload /\ ~Stored(VisPart) /\ data[VisPart] = "ok"
  BY DEF Goto, Killed
<1>2. UNCHANGED <<data, json, draft>>
  OBVIOUS
<1>3. CASE side' = [side EXCEPT ![VisPart] = "torn"]
  BY <1>1, <1>2, <1>3 DEF Quiet, Exists
<1>4. CASE side' = [side EXCEPT ![VisPart] = "ok"]
  <2>1. StoredFiles' = StoredFiles \cup {VisPart}
    BY <1>1, <1>2, <1>4 DEF StoredFiles
  <2>2. VisPart \notin StoredFiles
    BY <1>1 DEF StoredFiles
  <2>3. PublishedViews' = PublishedViews
    BY <1>2 DEF PublishedViews, Exists
  <2>. QED
    BY <1>1, <2>1, <2>2, <2>3 DEF Commit!Next, Commit!Store
<1>. QED
  BY <1>3, <1>4

\* The manifest, torn or not, publishes the text view.
LEMMA ManifestPublishes ==
  ASSUME IndInv, WriteManifest
  PROVE  Quiet \/ Commit!Next
<1> USE DEF IndInv, TypeOK, StepOneOrder, WriteManifest, Write, Goto, Killed, JsonFiles
<1>1. pc = "manifest" /\ ~Exists("manifest") /\ PartsStored /\ UNCHANGED <<data, side>>
  OBVIOUS
<1>2. Exists("manifest")' /\ json'["index.vision"] = json["index.vision"]
  BY DEF Exists
<1>3. PublishedViews' = PublishedViews \cup {"text"} /\ "text" \notin PublishedViews
  BY <1>1, <1>2 DEF PublishedViews, Exists
<1>4. StoredFiles' = StoredFiles
  BY <1>1 DEF StoredFiles, Stored, Payload
<1>5. Parts \subseteq StoredFiles
  BY <1>1, PackAssumption DEF PartsStored, StoredFiles, Parts, Payload
<1>. QED
  BY <1>3, <1>4, <1>5 DEF Commit!Next, Commit!Publish

\* The extended vision index publishes the vision view; a torn one nothing.
LEMMA IndexPublishes ==
  ASSUME IndInv, AddIndex
  PROVE  Quiet \/ Commit!Next
<1> USE DEF IndInv, TypeOK, StepFourOrder, AddIndex, Write, Goto, Killed, JsonFiles
<1>1. pc = "add_index" /\ json["index.vision"] = "text" /\ UNCHANGED <<data, side>>
  OBVIOUS
<1>2. Payload \subseteq StoredFiles
  <2>1. Stored(VisPart)
    BY <1>1
  <2>2. \A p \in Parts : Stored(p)
    BY <1>1 DEF IndexNeverDangles, Exists
  <2>. QED
    BY <2>1, <2>2, PackAssumption DEF StoredFiles, Parts, Payload, VisPart
<1>3. json'["manifest"] = json["manifest"]
  OBVIOUS
<1>4. CASE json'["index.vision"] = "torn"
  BY <1>1, <1>3, <1>4 DEF Quiet, Exists, Stored
<1>5. CASE json'["index.vision"] = "vision"
  <2>1. PublishedViews' = PublishedViews \cup {"vision"} /\ "vision" \notin PublishedViews
    BY <1>1, <1>3, <1>5 DEF PublishedViews, Exists
  <2>2. StoredFiles' = StoredFiles
    BY <1>1 DEF StoredFiles, Stored, Payload
  <2>. QED
    BY <1>2, <2>1, <2>2 DEF Commit!Next, Commit!Publish
<1>. QED
  BY <1>4, <1>5

LEMMA StepImplementsCommit ==
  IndInv /\ [Next]_vars => [Commit!Next]_<<StoredFiles, PublishedViews>>
<1> SUFFICES ASSUME IndInv, [Next]_vars
             PROVE  Quiet \/ Commit!Next
  BY QuietStutters
<1> USE PackAssumption
    DEF IndInv, TypeOK, SidecarAfterData, CopiesFollowOriginals, Quiet, Stored, Exists, Readable,
        Parts, Payload, VisPart, JsonFiles, Content, Goto, script, files
<1>1. CASE ConvertPack
  <2>1. CASE StartConversion
    BY <2>1 DEF StartConversion, Skip
  <2>2. CASE KeepPayload
    BY <2>2 DEF KeepPayload, Kept, NextPart, Fail, End
  <2>3. CASE WritePayload
    BY <2>3 DEF WritePayload, Kept
  <2>4. CASE WriteSidecar
    BY <2>4, SidecarStores
  <2>5. CASE WriteIndex
    BY <2>5 DEF WriteIndex, Write, Killed, StepOneOrder
  <2>6. CASE WriteBitrates
    BY <2>6 DEF WriteBitrates, Write, Killed, StepOneOrder
  <2>7. CASE WriteManifest
    BY <2>7, ManifestPublishes
  <2>. QED
    BY <1>1, <2>1, <2>2, <2>3, <2>4, <2>5, <2>6, <2>7 DEF ConvertPack
<1>2. CASE MakeConfig
  BY <1>2 DEF MakeConfig, Write, Killed, Fail, End
<1>3. CASE BuildDraft
  BY <1>3 DEF BuildDraft, Skip, Fail, End
<1>4. CASE AddVisionView
  <2>1. CASE KeepConfig
    BY <2>1 DEF KeepConfig, CopyOnce, Skip, Copy, Write, Killed, Fail, End
  <2>2. CASE KeepIndex
    BY <2>2 DEF KeepIndex, CopyOnce, Skip, Copy, Write, Killed, Fail, End
  <2>3. CASE KeepManifest
    BY <2>3 DEF KeepManifest, CopyOnce, Skip, Copy, Write, Killed, Fail, End
  <2>4. CASE VisionIndex
    BY <2>4 DEF VisionIndex, Skip, Copy, Write, Killed, Fail, End
  <2>5. CASE VisionManifest
    BY <2>5 DEF VisionManifest, Copy, Write, Killed, Fail, End
  <2>6. CASE AddVision
    BY <2>6 DEF AddVision, Skip, Fail, End
  <2>7. CASE AddVisSidecar
    BY <2>7, VisSidecarStores
  <2>8. CASE AddIndex
    BY <2>8, IndexPublishes
  <2>9. CASE AddManifest
    BY <2>9 DEF AddManifest, Write, Killed, Fail, End
  <2>10. CASE MakeVisionConfig
    BY <2>10 DEF MakeVisionConfig, Write, Killed, Fail, End
  <2>. QED
    BY <1>4, <2>1, <2>2, <2>3, <2>4, <2>5, <2>6, <2>7, <2>8, <2>9, <2>10 DEF AddVisionView
<1>5. CASE SwitchView
  <2>1. CASE OnConfig
    BY <2>1 DEF OnConfig, Copy, Write, Killed, Fail, End
  <2>2. CASE OnIndex
    BY <2>2 DEF OnIndex, Copy, Write, Killed, Fail, End
  <2>3. CASE OnManifest
    BY <2>3 DEF OnManifest, Copy, Write, Killed, Fail, End
  <2>4. CASE OffConfig
    BY <2>4 DEF OffConfig, Copy, Write, Killed, Fail, End
  <2>5. CASE OffIndex
    BY <2>5 DEF OffIndex, Copy, Write, Killed, Fail, End
  <2>6. CASE OffManifest
    BY <2>6 DEF OffManifest, Copy, Write, Killed, Fail, End
  <2>7. CASE ViewDone
    BY <2>7 DEF ViewDone, End
  <2>. QED
    BY <1>5, <2>1, <2>2, <2>3, <2>4, <2>5, <2>6, <2>7 DEF SwitchView
<1>6. CASE VerifyCheckpoint
  BY <1>6 DEF VerifyCheckpoint, Skip, Fail, End
<1>7. CASE Summary
  BY <1>7 DEF Summary, Fail, End
<1>8. CASE User
  <2>1. CASE RunConvert
    BY <2>1 DEF RunConvert, Launch
  <2>2. CASE UseVisionOn
    BY <2>2 DEF UseVisionOn, Launch
  <2>3. CASE UseVisionOff
    BY <2>3 DEF UseVisionOff, Launch
  <2>4. CASE RemoveDraft
    BY <2>4 DEF RemoveDraft
  <2>. QED
    BY <1>8, <2>1, <2>2, <2>3, <2>4 DEF User
<1>9. CASE Crash
  BY <1>9 DEF Crash, Killed
<1>10. CASE UNCHANGED vars
  BY <1>10 DEF vars
<1>. QED
  BY <1>1, <1>2, <1>3, <1>4, <1>5, <1>6, <1>7, <1>8, <1>9, <1>10 DEF Next, Script

\* convert.sh, killed and rerun at will, stores payload files one at a time,
\* never loses one, and publishes a view only after all it names.
THEOREM ImplementsPackCommit == Spec => ImplementsCommit
<1>1. Init => Commit!Init
  BY DEF Init, Commit!Init, StoredFiles, PublishedViews, Stored, Exists, JsonFiles
<1>2. IndInv /\ [Next]_vars => [Commit!Next]_<<StoredFiles, PublishedViews>>
  BY StepImplementsCommit
<1>. QED
  BY <1>1, <1>2, IndInvIsInvariant, PTL DEF Spec, ImplementsCommit, Commit!Spec

(***************************************************************************)
(* The two views of the checkpoint: the text copies never take the vision  *)
(* view, the vision manifest follows the vision index, and a script that   *)
(* succeeds leaves one view, however convert.sh and use_vision.sh are      *)
(* interleaved, killed and run again.                                      *)
(***************************************************************************)

\* A live file in the vision view came from its vision copy, and a vision copy
\* is made only when the text copy is there: it will not be made again.
VisionAfterText ==
  /\ json["config"] = "vision" => Exists("config.vision")
  /\ json["manifest"] = "vision" => Exists("manifest.vision")
  /\ Exists("config.vision") => Exists("config.text")
  /\ json["config.vision"] # "text"

\* What use_vision.sh has switched before the command it is at.
LiveVision == LiveFilesAre("config.vision", "index.vision", "manifest.vision")
LiveText   == LiveFilesAre("config.text", "index.text", "manifest.text")
SwitchOrder ==
  /\ pc \in {"on_index", "on_manifest"} => json["config"] = json["config.vision"]
  /\ pc = "on_manifest" => json["index"] = json["index.vision"]
  /\ pc \in {"verify", "summary"} => LiveVision
  /\ pc \in {"off_config", "off_index", "off_manifest"} => caller = "view"
  /\ pc \in {"off_index", "off_manifest"} => json["config"] = json["config.text"]
  /\ pc = "off_manifest" => json["index"] = json["index.text"]
  /\ pc = "view_done" => LiveVision \/ (caller = "view" /\ LiveText)
  /\ pc = "add_manifest" => json["index.vision"] = "vision"

\* The copies of step 4 are there before they are read, and a command that ends
\* lines 45 to 47 with an error found a torn copy.
CopiesBeforeTensors ==
  /\ pc \in {"vision_index", "vision_manifest"} => Exists("manifest.text")
  /\ pc \in VisionStep \ {"vision_manifest"} => Exists("manifest.vision")

SuccessKeepsCopies ==
  pc = "idle" /\ outcome = "ok" => LiveVision \/ (caller = "view" /\ LiveText)

ViewInv ==
  /\ VisionAfterText
  /\ SwitchOrder
  /\ CopiesBeforeTensors
  /\ VisionMarkerIsTrue
  /\ TextCopiesStayText
  /\ ManifestFollowsIndex
  /\ SuccessKeepsCopies

-----------------------------------------------------------------------------
LEMMA InitEstablishesViewInv == Init => ViewInv
BY DEF Init, ViewInv, VisionAfterText, SwitchOrder, CopiesBeforeTensors, VisionStep, TextCopiesStayText,
       ManifestFollowsIndex, VisionMarkerIsTrue, SuccessKeepsCopies, Exists, Readable, JsonFiles

\* One step per action, grouped as Next groups them.
LEMMA StepKeepsViewInv == IndInv /\ ViewInv /\ [Next]_vars => ViewInv'
<1> SUFFICES ASSUME IndInv, ViewInv, [Next]_vars PROVE ViewInv'
  OBVIOUS
<1>0. /\ pc \in Commands /\ caller \in {"convert", "view"}
      /\ json \in [JsonFiles -> Content]
      /\ pc \in {"vis_sidecar", "add_index"} => json["index.vision"] = "text"
      /\ Exists("manifest.vision") => Exists("manifest.text")
      /\ pc \in {"payload", "sidecar", "index", "bitrates", "manifest"} => ~Exists("manifest")
      /\ Exists("manifest.text") => Exists("manifest")
      /\ cut \in BOOLEAN
  BY DEF IndInv, TypeOK, StepFourOrder, StepOneOrder, CopiesFollowOriginals
<1> USE <1>0
    DEF ViewInv, VisionAfterText, SwitchOrder, LiveVision, LiveText, LiveFilesAre,
        TextCopiesStayText, ManifestFollowsIndex, SuccessKeepsCopies,
        CopiesBeforeTensors, VisionMarkerIsTrue, VisionStep,
        Exists, Readable, JsonFiles, Content, Commands, Goto, script, files
<1>1. CASE ConvertPack
  <2>1. CASE StartConversion
    BY <2>1 DEF StartConversion, Skip
  <2>2. CASE KeepPayload
    BY <2>2 DEF KeepPayload, NextPart, Fail, End
  <2>3. CASE WritePayload
    BY <2>3 DEF WritePayload
  <2>4. CASE WriteSidecar
    BY <2>4 DEF WriteSidecar, WriteSide, NextPart, Killed
  <2>5. CASE WriteIndex
    BY <2>5 DEF WriteIndex, Write, Killed
  <2>6. CASE WriteBitrates
    BY <2>6 DEF WriteBitrates, Write, Killed
  <2>7. CASE WriteManifest
    BY <2>7 DEF WriteManifest, Write, Killed
  <2>. QED
    BY <1>1, <2>1, <2>2, <2>3, <2>4, <2>5, <2>6, <2>7 DEF ConvertPack
<1>2. CASE MakeConfig
  BY <1>2 DEF MakeConfig, Write, Killed, Fail, End
<1>3. CASE BuildDraft
  BY <1>3 DEF BuildDraft, Skip, Fail, End
<1>4. CASE AddVisionView
  <2>1. CASE KeepConfig
    BY <2>1 DEF KeepConfig, CopyOnce, Skip, Copy, Write, Killed, Fail, End
  <2>2. CASE KeepIndex
    <3>1. json["index"] = "vision" => json["index.vision"] = "vision"
          /\ (Exists("index.vision") => Exists("index.text"))
      BY DEF IndInv, CopiesFollowOriginals
    <3>. QED
      BY <2>2, <3>1 DEF KeepIndex, CopyOnce, Skip, Copy, Write, Killed, Fail, End
  <2>3. CASE KeepManifest
    <3>1. PICK next \in {"vision_index", "on_config"} :
            CopyOnce("keep_manifest", next, "manifest", "manifest.text")
      BY <2>3 DEF KeepManifest
    <3>. QED
      BY <3>1 DEF CopyOnce, Skip, Copy, Write, Killed, Fail, End
  <2>4. CASE VisionIndex
    BY <2>4 DEF VisionIndex, Skip, Copy, Write, Killed, Fail, End
  <2>5. CASE VisionManifest
    BY <2>5 DEF VisionManifest, Copy, Write, Killed, Fail, End
  <2>6. CASE AddVision
    BY <2>6 DEF AddVision, Skip, Fail, End
  <2>7. CASE AddVisSidecar
    BY <2>7 DEF AddVisSidecar, WriteSide, Killed
  <2>8. CASE AddIndex
    BY <2>8 DEF AddIndex, Write, Killed
  <2>9. CASE AddManifest
    BY <2>9 DEF AddManifest, Write, Killed, Fail, End
  <2>10. CASE MakeVisionConfig
    BY <2>10 DEF MakeVisionConfig, Write, Killed, Fail, End
  <2>. QED
    BY <1>4, <2>1, <2>2, <2>3, <2>4, <2>5, <2>6, <2>7, <2>8, <2>9, <2>10 DEF AddVisionView
<1>5. CASE SwitchView
  <2>1. CASE OnConfig
    BY <2>1 DEF OnConfig, Copy, Write, Killed, Fail, End
  <2>2. CASE OnIndex
    BY <2>2 DEF OnIndex, Copy, Write, Killed, Fail, End
  <2>3. CASE OnManifest
    BY <2>3 DEF OnManifest, Copy, Write, Killed, Fail, End
  <2>4. CASE OffConfig
    BY <2>4 DEF OffConfig, Copy, Write, Killed, Fail, End
  <2>5. CASE OffIndex
    BY <2>5 DEF OffIndex, Copy, Write, Killed, Fail, End
  <2>6. CASE OffManifest
    BY <2>6 DEF OffManifest, Copy, Write, Killed, Fail, End
  <2>7. CASE ViewDone
    BY <2>7 DEF ViewDone, End
  <2>. QED
    BY <1>5, <2>1, <2>2, <2>3, <2>4, <2>5, <2>6, <2>7 DEF SwitchView
<1>6. CASE VerifyCheckpoint
  BY <1>6 DEF VerifyCheckpoint, Skip, Fail, End
<1>7. CASE Summary
  BY <1>7 DEF Summary, Fail, End
<1>8. CASE User
  BY <1>8 DEF User, RunConvert, UseVisionOn, UseVisionOff, RemoveDraft, Launch
<1>9. CASE Crash
  BY <1>9 DEF Crash, Killed
<1>10. CASE UNCHANGED vars
  BY <1>10 DEF vars
<1>. QED
  BY <1>1, <1>2, <1>3, <1>4, <1>5, <1>6, <1>7, <1>8, <1>9, <1>10 DEF Next, Script

LEMMA ViewInvIsInvariant == Spec => []ViewInv
BY InitEstablishesViewInv, StepKeepsViewInv, IndInvIsInvariant, PTL DEF Spec

\* use_vision.sh off can always go back to the text view: no sequence of kills
\* and reruns puts the vision view into a text copy.
THEOREM TextCopiesAreSafe == Spec => []TextCopiesStayText
<1>1. ViewInv => TextCopiesStayText
  BY DEF ViewInv
<1>. QED
  BY <1>1, ViewInvIsInvariant, PTL

\* The vision manifest lists the vision tensors only when the vision index,
\* which add_vision_tensors.py tests for its "nothing to do", names them.
THEOREM ManifestAfterIndex == Spec => []ManifestFollowsIndex
<1>1. ViewInv => ManifestFollowsIndex
  BY DEF ViewInv
<1>. QED
  BY <1>1, ViewInvIsInvariant, PTL

\* A run of convert.sh or use_vision.sh that reports success leaves one set of
\* copies live, whatever earlier runs left half switched, and one view, unless a
\* kill has fallen on convert.sh:45-47 or a copy is torn.
THEOREM SuccessIsOneView == Spec => []SuccessLeavesOneView
<1>1. IndInv /\ ViewInv => SuccessLeavesOneView
  <2>. SUFFICES ASSUME IndInv, ViewInv, pc = "idle", outcome = "ok" PROVE SuccessLeavesOneView
    BY DEF SuccessLeavesOneView
  <2>1. LiveVision \/ (caller = "view" /\ LiveText)
    BY DEF ViewInv, SuccessKeepsCopies
  <2>2. /\ \A f \in {"config.text", "index.text", "manifest.text", "config.vision"} : json[f] \in Content
        /\ json["config.vision"] # "text"
        /\ \A f \in {"config.text", "index.text", "manifest.text"} : json[f] # "vision"
        /\ Readable("index.vision") /\ ~cut => 
             json["index.vision"] = "vision" /\ json["manifest.vision"] \in {"vision", "torn"}
    BY DEF IndInv, TypeOK, JsonFiles, ViewInv, VisionAfterText, TextCopiesStayText, VisionMarkerIsTrue, VisionStep
  <2>3. OneView
    <3>1. CASE LiveVision
      BY <2>2, <3>1 DEF OneView, LiveFiles, LiveVision, LiveFilesAre, Readable, Content
    <3>2. CASE caller = "view" /\ LiveText
      BY <2>2, <3>2 DEF OneView, LiveFiles, LiveText, LiveFilesAre, Readable, Content
    <3>. QED
      BY <2>1, <3>1, <3>2
  <2>. QED
    BY <2>1, <2>3 DEF SuccessLeavesOneView, LiveVision, LiveText
<1>. QED
  BY <1>1, IndInvIsInvariant, ViewInvIsInvariant, PTL

\* The manifest and every index are never ahead of the payload they stand for; the
\* vision index, which convert.sh:44 tests, is ahead of the vision view only while
\* lines 45 to 47 run or after a kill there.
THEOREM MarkersAreTrue == Spec => []MarkersFollowPayload
<1>1. Spec => [](ManifestIsCommitRecord /\ IndexNeverDangles /\ ManifestFollowsIndex)
  BY CommitRecord, NoDanglingIndex, ManifestAfterIndex, PTL
<1>2. ViewInv => VisionMarkerIsTrue
  BY DEF ViewInv
<1>. QED
  BY <1>1, <1>2, ViewInvIsInvariant, PTL DEF MarkersFollowPayload

-----------------------------------------------------------------------------
(* start.sh. *)

\* Every step of start.sh is a step of the conversion, or leaves its files and
\* its script alone.
LEMMA LaunchStepIsConversionStep == [LNext]_lvars => [Next]_vars
<1> SUFFICES ASSUME [LNext]_lvars PROVE [Next]_vars
  OBVIOUS
<1>1. CASE Start
  BY <1>1 DEF Start, Next, User
<1>2. CASE Convert
  BY <1>2 DEF Convert, Next
<1>3. CASE Converted \/ Stop \/ Serve
  BY <1>3 DEF Converted, Stop, Serve
<1>4. CASE ByHand
  BY <1>4 DEF ByHand, Next
<1>5. CASE UNCHANGED lvars
  BY <1>5 DEF lvars
<1>. QED
  BY <1>1, <1>2, <1>3, <1>4, <1>5 DEF LNext, StartScript

\* start.sh implements the conversion: the invariants and the refinement proved
\* of convert.sh hold while start.sh, stop.sh and serve.sh run around it.
THEOREM LaunchImplementsConversion == LSpec => Spec
<1>1. LInit => Init
  BY DEF LInit
<1>. QED
  BY <1>1, LaunchStepIsConversionStep, PTL DEF LSpec, Spec

-----------------------------------------------------------------------------
\* What is started has passed the preflight, and a pack with a manifest has
\* every payload file of the text view.
EngineInv ==
  /\ LTypeOK
  /\ EngineHasTextPayload
  /\ EngineOnVisionConfig

LEMMA InitEstablishesEngineInv == LInit => EngineInv
BY DEF LInit, EngineInv, LTypeOK, EngineHasTextPayload, EngineOnVisionConfig, Running

\* A started engine has a pack, which is a record of four fields.
LEMMA PackIsNotNoEngine ==
  ASSUME IndInv
  PROVE  /\ Pack # NoEngine
         /\ Pack \in [config : Content, index : Content, stored : SUBSET Payload,
                      draft : {"absent", "text", "vision"}]
<1>1. json["config"] \in {"absent", "torn", "text", "vision"}
  BY DEF IndInv, TypeOK, JsonFiles, Content
<1>2. json["index"] \in Content
  BY DEF IndInv, TypeOK, JsonFiles
<1>3. draft \in {"absent", "text", "vision"}
  BY DEF IndInv, TypeOK
<1>4. Pack.config = json["config"] /\ NoEngine.config = "none"
  BY DEF Pack, NoEngine
<1>. QED
  BY <1>1, <1>2, <1>3, <1>4 DEF Pack, Content, Payload

LEMMA StepKeepsEngineInv == IndInv /\ EngineInv /\ [LNext]_lvars => EngineInv'
<1> SUFFICES ASSUME IndInv, EngineInv, [LNext]_lvars PROVE EngineInv'
  OBVIOUS
<1> USE DEF EngineInv, LTypeOK, EngineHasTextPayload, EngineOnVisionConfig, Running
<1>1. CASE Start
  BY <1>1 DEF Start
<1>2. CASE Convert
  BY <1>2 DEF Convert
<1>3. CASE Converted
  BY <1>3 DEF Converted
<1>4. CASE Stop
  BY <1>4 DEF Stop
<1>5. CASE Serve
  <2>1. CASE ~PreflightOK
    BY <1>5, <2>1 DEF Serve
  <2>2. CASE PreflightOK
    <3>1. engine' = Pack /\ launch' = "idle"
      BY <1>5, <2>2 DEF Serve
    <3>2. \A p \in Parts : Stored(p)
      BY <2>2 DEF PreflightOK, IndInv, ManifestIsCommitRecord
    <3>3. Parts \subseteq {p \in Payload : Stored(p)}
      BY <3>2, PackAssumption DEF Parts, Payload
    <3>4. Pack.stored = {p \in Payload : Stored(p)} /\ Pack.draft = draft
          /\ Pack.config = json["config"]
      BY DEF Pack
    <3>. QED
      BY <2>2, <3>1, <3>3, <3>4, PackIsNotNoEngine DEF PreflightOK
  <2>. QED
    BY <2>1, <2>2
<1>6. CASE ByHand
  BY <1>6 DEF ByHand
<1>7. CASE UNCHANGED lvars
  BY <1>7 DEF lvars
<1>. QED
  BY <1>1, <1>2, <1>3, <1>4, <1>5, <1>6, <1>7 DEF LNext, StartScript

LEMMA EngineInvIsInvariant == LSpec => []EngineInv
<1>1. LSpec => []IndInv
  BY LaunchImplementsConversion, IndInvIsInvariant
<1>. QED
  BY <1>1, InitEstablishesEngineInv, StepKeepsEngineInv, PTL DEF LSpec

\* However often convert.sh and start.sh are killed, and torn writes or not:
\* the engine is never started without every expert and carried file and a draft.
THEOREM StartedOnTextPayload == LSpec => []EngineHasTextPayload
<1>1. EngineInv => EngineHasTextPayload
  BY DEF EngineInv
<1>. QED
  BY <1>1, EngineInvIsInvariant, PTL

\* The engine is never started on the text architecture or on a torn config.
THEOREM StartedOnVisionConfig == LSpec => []EngineOnVisionConfig
<1>1. EngineInv => EngineOnVisionConfig
  BY DEF EngineInv
<1>. QED
  BY <1>1, EngineInvIsInvariant, PTL

\* What start.sh starts the engine on is a text payload with a draft under the
\* vision config, and its own steps and records keep their types.
THEOREM StartedSound == LSpec => []EngineStartsSound /\ []LTypeOK
<1>1. EngineInv => EngineStartsSound /\ LTypeOK
  BY DEF EngineInv, EngineStartsSound
<1>. QED
  BY <1>1, EngineInvIsInvariant, PTL

-----------------------------------------------------------------------------
(* The whole pack.  Left alone, start.sh runs steps 4 and 5 once at most:   *)
(* the manifest and the draft, which send every later start past them, are  *)
(* there before step 4.  Whatever is killed, and torn writes or not, what   *)
(* the engine is started on is whole, unless the one kill falls between the *)
(* config and the index of use_vision.sh on.                                *)

StepsBeforeDraft == {"convert", "payload", "sidecar", "index", "bitrates", "manifest"}

\* Only convert.sh under start.sh runs; it builds the draft of the text view, and
\* whoever has the draft has the manifest too.
OncePastDraft ==
  /\ draft \in {"absent", "text"}
  /\ pc # "idle" => caller = "convert" /\ launch = "convert"
  /\ pc \in StepsBeforeDraft \cup {"make_config", "draft"} => draft = "absent"
  /\ pc \notin {"idle"} \cup StepsBeforeDraft => Exists("manifest")
  /\ draft # "absent" => PackPresent
  /\ draft = "absent" => pc \in {"idle", "make_config", "draft"} \cup StepsBeforeDraft
  /\ pc \notin {"off_config", "off_index", "off_manifest"}

\* The vision index is new in this run, and is there before the config is switched.
IndexBeforeConfig ==
  /\ draft = "absent" \/ pc \in {"keep_config", "keep_index", "keep_manifest", "vision_index"} => ~Exists("index.vision")
  /\ pc \in {"add_manifest", "vision_config", "on_config", "on_index"} => json["index.vision"] = "vision"
  /\ json["config"] = "vision" => pc = "on_index" \/ json["index"] = "vision"

WholeInv == OncePastDraft /\ IndexBeforeConfig /\ EngineHasWholePack

LEMMA ScriptKeepsWhole ==
  ASSUME "on_index" \notin KillPoints, IndInv, WholeInv, Script \/ Crash, UNCHANGED <<launch, engine>>
  PROVE  WholeInv'
<1>0. /\ pc \in Commands /\ json \in [JsonFiles -> Content] /\ draft \in {"absent", "text", "vision"}
      /\ pc \in {"vis_sidecar", "add_index"} => json["index.vision"] = "text"
      /\ json["index"] = "vision" => json["index.vision"] = "vision"
  BY DEF IndInv, TypeOK, StepFourOrder, CopiesFollowOriginals
<1>. USE <1>0
     DEF WholeInv, OncePastDraft, IndexBeforeConfig, EngineHasWholePack, Running, PackPresent, StepsBeforeDraft,
         Exists, Readable, JsonFiles, Content, Commands, Goto, script, files
<1>1. CASE ConvertPack
  <2>1. CASE StartConversion
    BY <2>1 DEF StartConversion, Skip
  <2>2. CASE KeepPayload
    BY <2>2 DEF KeepPayload, NextPart, Fail, End
  <2>3. CASE WritePayload
    BY <2>3 DEF WritePayload
  <2>4. CASE WriteSidecar
    BY <2>4 DEF WriteSidecar, WriteSide, NextPart, Killed
  <2>5. CASE WriteIndex
    BY <2>5 DEF WriteIndex, Write, Killed
  <2>6. CASE WriteBitrates
    BY <2>6 DEF WriteBitrates, Write, Killed
  <2>7. CASE WriteManifest
    BY <2>7 DEF WriteManifest, Write, Killed
  <2>. QED
    BY <1>1, <2>1, <2>2, <2>3, <2>4, <2>5, <2>6, <2>7 DEF ConvertPack
<1>2. CASE MakeConfig
  BY <1>2 DEF MakeConfig, Write, Killed, Fail, End
<1>3. CASE BuildDraft
  BY <1>3 DEF BuildDraft, Skip, Fail, End
<1>4. CASE AddVisionView
  <2>1. CASE KeepConfig
    BY <2>1 DEF KeepConfig, CopyOnce, Skip, Copy, Write, Killed, Fail, End
  <2>2. CASE KeepIndex
    BY <2>2 DEF KeepIndex, CopyOnce, Skip, Copy, Write, Killed, Fail, End
  <2>3. CASE KeepManifest
    BY <2>3 DEF KeepManifest, CopyOnce, Skip, Copy, Write, Killed, Fail, End
  <2>4. CASE VisionIndex
    BY <2>4 DEF VisionIndex, Skip, Copy, Write, Killed, Fail, End
  <2>5. CASE VisionManifest
    BY <2>5 DEF VisionManifest, Copy, Write, Killed, Fail, End
  <2>6. CASE AddVision
    BY <2>6 DEF AddVision, Skip, Fail, End
  <2>7. CASE AddVisSidecar
    BY <2>7 DEF AddVisSidecar, WriteSide, Killed
  <2>8. CASE AddIndex
    BY <2>8 DEF AddIndex, Write, Killed
  <2>9. CASE AddManifest
    BY <2>9 DEF AddManifest, Write, Killed, Fail, End
  <2>10. CASE MakeVisionConfig
    BY <2>10 DEF MakeVisionConfig, Write, Killed, Fail, End
  <2>. QED
    BY <1>4, <2>1, <2>2, <2>3, <2>4, <2>5, <2>6, <2>7, <2>8, <2>9, <2>10 DEF AddVisionView
<1>5. CASE SwitchView
  <2>1. CASE OnConfig
    BY <2>1 DEF OnConfig, Copy, Write, Killed, Fail, End
  <2>2. CASE OnIndex
    BY <2>2 DEF OnIndex, Copy, Write, Killed, Fail, End
  <2>3. CASE OnManifest
    BY <2>3 DEF OnManifest, Copy, Write, Killed, Fail, End
  <2>4. CASE OffConfig \/ OffIndex \/ OffManifest
    BY <2>4 DEF OffConfig, OffIndex, OffManifest, Copy, Write, Killed, Fail, End
  <2>5. CASE ViewDone
    BY <2>5 DEF ViewDone, End
  <2>. QED
    BY <1>5, <2>1, <2>2, <2>3, <2>4, <2>5 DEF SwitchView
<1>6. CASE VerifyCheckpoint
  BY <1>6 DEF VerifyCheckpoint, Skip, Fail, End
<1>7. CASE Summary
  BY <1>7 DEF Summary, Fail, End
<1>8. CASE Crash
  BY <1>8 DEF Crash, Killed
<1>. QED
  BY <1>1, <1>2, <1>3, <1>4, <1>5, <1>6, <1>7, <1>8 DEF Script

LEMMA StepKeepsWhole ==
  ASSUME UseByHand = FALSE, "on_index" \notin KillPoints
  PROVE  IndInv /\ EngineInv /\ WholeInv /\ [LNext]_lvars => WholeInv'
<1>. SUFFICES ASSUME IndInv, EngineInv, WholeInv, [LNext]_lvars PROVE WholeInv'
  OBVIOUS
<1>. USE DEF WholeInv, OncePastDraft, IndexBeforeConfig, EngineHasWholePack, Running, PackPresent, StepsBeforeDraft, Exists
<1>1. CASE Start
  BY <1>1 DEF Start, RunConvert, Launch, vars, script, files
<1>2. CASE Convert
  BY <1>2, ScriptKeepsWhole DEF Convert
<1>3. CASE Converted \/ Stop
  BY <1>3 DEF Converted, Stop, vars, script, files
<1>4. CASE Serve
  <2>1. UNCHANGED <<draft, pc, json, caller>> /\ pc = "idle"
    BY <1>4 DEF Serve, vars, script, files
  <2>2. OncePastDraft' /\ IndexBeforeConfig'
    BY <1>4, <2>1 DEF Serve
  <2>3. CASE ~PreflightOK
    BY <1>4, <2>2, <2>3 DEF Serve
  <2>4. CASE PreflightOK
    <3>1. json["config"] = "vision" /\ draft = "text" /\ json["index"] = "vision"
      BY <2>1, <2>4 DEF PreflightOK
    <3>2. \A p \in Payload : Stored(p)
      BY <3>1, PackAssumption DEF IndInv, IndexNeverDangles, Parts, Payload, VisPart
    <3>3. engine' = Pack
      BY <1>4, <2>4 DEF Serve
    <3>4. Pack.index = "vision" /\ Pack.stored = Payload /\ Pack.draft = "text"
      BY <3>1, <3>2 DEF Pack
    <3>. QED
      BY <2>2, <3>3, <3>4
  <2>. QED
    BY <2>3, <2>4
<1>5. CASE ByHand
  BY <1>5 DEF ByHand
<1>6. CASE UNCHANGED lvars
  BY <1>6 DEF lvars, vars, script, files
<1>. QED
  BY <1>1, <1>2, <1>3, <1>4, <1>5, <1>6 DEF LNext, StartScript

\* Where the pack is left to start.sh: however often convert.sh is killed, at every
\* command but the copy of the index in use_vision.sh on, and with torn writes too,
\* the engine is started on the whole vision view, with the draft of the text view.
THEOREM StartedOnWholePack ==
  ASSUME UseByHand = FALSE, "on_index" \notin KillPoints
  PROVE  LSpec => []EngineHasWholePack
<1>1. LInit => WholeInv
  BY DEF LInit, Init, WholeInv, OncePastDraft, IndexBeforeConfig, EngineHasWholePack, Running, PackPresent,
         StepsBeforeDraft, Exists, JsonFiles
<1>2. IndInv /\ EngineInv /\ WholeInv /\ [LNext]_lvars => WholeInv'
  BY StepKeepsWhole
<1>3. WholeInv => EngineHasWholePack
  BY DEF WholeInv
<1>4. LSpec => []IndInv /\ []EngineInv
  BY LaunchImplementsConversion, IndInvIsInvariant, EngineInvIsInvariant, PTL
<1>. QED
  BY <1>1, <1>2, <1>3, <1>4, PTL DEF LSpec
=============================================================================
