--------------------------- MODULE PackConversion ---------------------------
(***************************************************************************)
(* scripts/convert.sh and the tools it runs: the downloaded MixedK pack is *)
(* turned into the rank-sliced tp1 checkpoint, the draft and the vision    *)
(* view.  The state is the output directory on disk plus the position of   *)
(* the one script that is running.  Every command of the script may be the *)
(* one during which it is killed; the user then runs the script again.     *)
(* Killing a process loses nothing that a write() already handed over, so  *)
(* a renamed file is whole; a loss of power is not modelled.               *)
(*                                                                         *)
(* A JSON file is abstracted to what its readers tell apart: whether it    *)
(* exists, whether it is half written, and whether it describes the text   *)
(* or the vision view.  A payload file (one expert layer, one group of     *)
(* carried tensors, the vision tensors) has a data file and a .sha256      *)
(* sidecar.                                                                *)
(***************************************************************************)
EXTENDS Integers

CONSTANTS
  NumParts,     \* payload files of the text view: expert layers, then carried groups
  MaxCrashes,   \* bound: how often the running script is killed
  KillPoints,   \* bound: the commands during which, or before which, it is killed
  TornWrites,   \* a kill may leave the file being written truncated
  Verify,       \* VERIFY # 0: convert.sh ends with verify_tp1.py
  RebuildDraft  \* the user may delete the draft to have it built again

\* The commands of convert.sh and use_vision.sh, and the writes of their tools.
Commands ==
  {"idle", "convert", "payload", "sidecar", "index", "bitrates", "manifest",
   "make_config", "draft", "keep_config", "keep_index", "keep_manifest",
   "vision_index", "vision_manifest", "add_vision", "vis_sidecar", "add_index",
   "add_manifest", "vision_config", "on_config", "on_index", "on_manifest",
   "off_config", "off_index", "off_manifest", "view_done", "verify", "summary"}

ASSUME PackAssumption ==
  /\ NumParts \in Nat \ {0}
  /\ MaxCrashes \in Nat
  /\ KillPoints \subseteq Commands
  /\ TornWrites \in BOOLEAN
  /\ Verify \in BOOLEAN
  /\ RebuildDraft \in BOOLEAN

VARIABLES
  pc,       \* the command the running script is at, "idle" when none runs
  caller,   \* which script runs: convert.sh, or use_vision.sh started by hand
  outcome,  \* how the last run ended
  part,     \* the payload file the converter is at
  data,     \* data[p]: payload file p under its final name
  side,     \* side[p]: its .sha256 sidecar
  json,     \* the JSON files of the output directory
  draft,    \* the DSpark draft directory: the view of the index it was built from
  crashes,  \* kills so far
  cut       \* history: a kill fell between the copy of the vision index and the end
            \* of add_vision_tensors.py; no action reads it

script == <<pc, caller, outcome, crashes, cut>>
files  == <<data, side, json, draft>>
vars   == <<script, part, files>>

Parts   == 1 .. NumParts
VisPart == NumParts + 1              \* carried-vis-001.safetensors
Payload == 1 .. NumParts + 1

JsonFiles == {"config", "index", "manifest", "bitrates",
              "config.text", "index.text", "manifest.text",
              "config.vision", "index.vision", "manifest.vision"}
Content   == {"absent", "torn", "text", "vision"}

Exists(f)   == json[f] # "absent"
Readable(f) == json[f] \in {"text", "vision"}

-----------------------------------------------------------------------------
(* The shapes of a step. *)

Goto(from, to) == pc = from /\ pc' = to /\ UNCHANGED <<caller, outcome, crashes, cut>>

Skip(from, to) == Goto(from, to) /\ UNCHANGED <<part, files>>

\* The run ends: under set -e with "failed" at the first command that fails.
End(from, result) ==
  /\ pc = from /\ pc' = "idle" /\ outcome' = result
  /\ UNCHANGED <<caller, crashes, cut, part, files>>

Fail(from) == End(from, "failed")

\* The commands after the copy that "vision index exists, skip" tests for: until
\* they are done the copy is ahead of the vision view.
VisionStep == {"vision_manifest", "add_vision", "vis_sidecar", "add_index", "add_manifest"}

Killed(from) ==
  /\ pc = from /\ from \in KillPoints /\ crashes < MaxCrashes
  /\ pc' = "idle" /\ outcome' = "killed" /\ crashes' = crashes + 1
  /\ cut' = (cut \/ from \in VisionStep)
  /\ UNCHANGED caller

\* open(f, "w") truncates before the content is written, as cp does.
Write(from, to, f, c) ==
  /\ \/ Goto(from, to) /\ json' = [json EXCEPT ![f] = c]
     \/ TornWrites /\ Killed(from) /\ json' = [json EXCEPT ![f] = "torn"]
  /\ UNCHANGED <<part, data, side, draft>>

\* cp: fails when the source is missing, copies whatever it holds otherwise.
Copy(from, to, src, dst) ==
  \/ Exists(src) /\ Write(from, to, dst, json[src])
  \/ ~Exists(src) /\ Fail(from)

\* Mutant of CopyOnce: the existence test is dropped.
CopyOnce_Always(from, to, src, dst) == Copy(from, to, src, dst)

\* [ -f dst ] || cp src dst
CopyOnce(from, to, src, dst) ==
  \/ Exists(dst) /\ Skip(from, to)
  \/ ~Exists(dst) /\ Copy(from, to, src, dst)

WriteSide(from, next, p) ==
  /\ \/ next /\ side' = [side EXCEPT ![p] = "ok"]
     \/ TornWrites /\ Killed(from) /\ side' = [side EXCEPT ![p] = "torn"] /\ UNCHANGED part
  /\ UNCHANGED <<data, json, draft>>

-----------------------------------------------------------------------------
(* Step 1: convert_vision_pack.py, skipped when the manifest exists. *)

StartConversion ==
  \/ Exists("manifest") /\ Skip("convert", "make_config")
  \/ /\ ~Exists("manifest")
     /\ Goto("convert", "payload") /\ part' = 1 /\ UNCHANGED files

\* A payload file with both its data and its sidecar is kept.
Kept(p) == data[p] # "absent" /\ side[p] # "absent"

NextPart(from) ==
  \/ part = NumParts /\ Goto(from, "index") /\ UNCHANGED part
  \/ part < NumParts /\ Goto(from, "payload") /\ part' = part + 1

\* The sidecar of a kept file is parsed: an empty one raises.
KeepPayload ==
  /\ Kept(part)
  /\ \/ side[part] = "ok" /\ NextPart("payload") /\ UNCHANGED files
     \/ side[part] # "ok" /\ Fail("payload")

\* Written to a .tmp file and renamed, so the final name is whole or absent.
WritePayload ==
  /\ ~Kept(part)
  /\ Goto("payload", "sidecar")
  /\ data' = [data EXCEPT ![part] = "ok"]
  /\ UNCHANGED <<part, side, json, draft>>

WriteSidecar == WriteSide("sidecar", NextPart("sidecar"), part)

WriteIndex    == Write("index", "bitrates", "index", "text")
WriteBitrates == Write("bitrates", "manifest", "bitrates", "text")
WriteManifest == Write("manifest", "make_config", "manifest", "text")

ConvertPack ==
  \/ StartConversion \/ KeepPayload \/ WritePayload \/ WriteSidecar
  \/ WriteIndex \/ WriteBitrates \/ WriteManifest

-----------------------------------------------------------------------------
(* Step 2: make_config.py.  Step 3: build_dspark_draft.py. *)

MakeConfig ==
  IF Readable("bitrates") THEN Write("make_config", "draft", "config", "text")
                          ELSE Fail("make_config")

\* The draft is assembled in a temporary directory and renamed at the end.
BuildDraft ==
  \/ draft # "absent" /\ Skip("draft", "keep_config")
  \/ /\ draft = "absent" /\ Readable("index") /\ Readable("config")
     /\ Goto("draft", "keep_config")
     /\ draft' = json["index"]
     /\ UNCHANGED <<part, data, side, json>>
  \/ draft = "absent" /\ ~(Readable("index") /\ Readable("config")) /\ Fail("draft")

-----------------------------------------------------------------------------
(* Step 4: the text copies, the vision tensors, the vision config.  The    *)
(* text copies are also the first commands of use_vision.sh on.            *)

KeepConfig   == CopyOnce("keep_config", "keep_index", "config", "config.text")
KeepIndex    == CopyOnce("keep_index", "keep_manifest", "index", "index.text")
KeepManifest ==
  CopyOnce("keep_manifest", IF caller = "convert" THEN "vision_index" ELSE "on_config",
           "manifest", "manifest.text")

VisionIndex ==
  \/ Exists("index.vision") /\ Skip("vision_index", "vision_config")
  \/ /\ ~Exists("index.vision")
     /\ Copy("vision_index", "vision_manifest", "index.text", "index.vision")
VisionManifest ==
  Copy("vision_manifest", "add_vision", "manifest.text", "manifest.vision")

\* Mutant of AddVision: the index is extended before the file is written.
AddVision_IndexFirst ==
  \/ json["index.vision"] = "text" /\ Skip("add_vision", "add_index")
  \/ ~Readable("index.vision") /\ Fail("add_vision")

\* add_vision_tensors.py.  Its "nothing to do" cannot happen here: convert.sh
\* has just made its index from the text copy.
AddVision ==
  \/ /\ json["index.vision"] = "text"
     /\ Goto("add_vision", "vis_sidecar")
     /\ data' = [data EXCEPT ![VisPart] = "ok"]
     /\ UNCHANGED <<part, side, json, draft>>
  \/ ~Readable("index.vision") /\ Fail("add_vision")

\* Mutant of AddVisSidecar: the manifest is extended before the index.
AddVisSidecar_ManifestNext ==
  WriteSide("vis_sidecar", Goto("vis_sidecar", "add_manifest") /\ UNCHANGED part, VisPart)

AddVisSidecar ==
  WriteSide("vis_sidecar", Goto("vis_sidecar", "add_index") /\ UNCHANGED part, VisPart)

AddIndex == Write("add_index", "add_manifest", "index.vision", "vision")

AddManifest ==
  \/ Readable("manifest.vision")
     /\ Write("add_manifest", "vision_config", "manifest.vision", "vision")
  \/ ~Readable("manifest.vision") /\ Fail("add_manifest")

MakeVisionConfig ==
  \/ Readable("config.text")
     /\ Write("vision_config", "on_config", "config.vision", "vision")
  \/ ~Readable("config.text") /\ Fail("vision_config")

AddVisionView ==
  \/ KeepConfig \/ KeepIndex \/ KeepManifest
  \/ VisionIndex \/ VisionManifest
  \/ AddVision \/ AddVisSidecar \/ AddIndex \/ AddManifest
  \/ MakeVisionConfig

-----------------------------------------------------------------------------
(* Step 5: use_vision.sh on.  Step 6: verify_tp1.py, and the summary. *)

\* Mutant of OnIndex: use_vision.sh on forgets the manifest.
OnIndex_Last == Copy("on_index", IF caller = "convert" THEN "verify" ELSE "view_done",
                     "index.vision", "index")

OnConfig   == Copy("on_config", "on_index", "config.vision", "config")
OnIndex    == Copy("on_index", "on_manifest", "index.vision", "index")
OnManifest == Copy("on_manifest", IF caller = "convert" THEN "verify" ELSE "view_done",
                   "manifest.vision", "manifest")

OffConfig   == Copy("off_config", "off_index", "config.text", "config")
OffIndex    == Copy("off_index", "off_manifest", "index.text", "index")
OffManifest == Copy("off_manifest", "view_done", "manifest.text", "manifest")

ViewDone == End("view_done", "ok")

SwitchView ==
  \/ OnConfig \/ OnIndex \/ OnManifest
  \/ OffConfig \/ OffIndex \/ OffManifest \/ ViewDone

\* Every tensor of the index is in some payload file, and conversely; the
\* manifest is not read, and a tensor missing from both is not noticed.
VerifyOK ==
  /\ Readable("index")
  /\ \A p \in Parts : data[p] = "ok"
  /\ (json["index"] = "vision") <=> (data[VisPart] = "ok")

VerifyCheckpoint ==
  \/ (~Verify \/ VerifyOK) /\ Skip("verify", "summary")
  \/ Verify /\ ~VerifyOK /\ Fail("verify")

Summary ==
  IF Readable("index") /\ Readable("config") THEN End("summary", "ok")
                                            ELSE Fail("summary")

-----------------------------------------------------------------------------
(* The user, and the kills between two writes. *)

Launch(name, first) ==
  /\ pc = "idle" /\ pc' = first /\ caller' = name
  /\ UNCHANGED <<outcome, crashes, cut, part, files>>

RunConvert   == Launch("convert", "convert")
UseVisionOn  == Launch("view", "keep_config")
UseVisionOff == Launch("view", "off_config")

RemoveDraft ==
  /\ RebuildDraft /\ pc = "idle" /\ draft # "absent"
  /\ draft' = "absent"
  /\ UNCHANGED <<script, part, data, side, json>>

Crash == pc # "idle" /\ Killed(pc) /\ UNCHANGED <<part, files>>

-----------------------------------------------------------------------------
Init ==
  /\ pc = "idle" /\ caller = "convert" /\ outcome = "none" /\ part = 1
  /\ data = [p \in Payload |-> "absent"]
  /\ side = [p \in Payload |-> "absent"]
  /\ json = [f \in JsonFiles |-> "absent"]
  /\ draft = "absent" /\ crashes = 0 /\ cut = FALSE

Script ==
  \/ ConvertPack \/ MakeConfig \/ BuildDraft \/ AddVisionView
  \/ SwitchView \/ VerifyCheckpoint \/ Summary

User == RunConvert \/ UseVisionOn \/ UseVisionOff \/ RemoveDraft

Next == Script \/ User \/ Crash

Spec == Init /\ [][Next]_vars

-----------------------------------------------------------------------------
(* Properties *)

\* The types of the variables.
TypeOK ==
  /\ pc \in Commands
  /\ caller \in {"convert", "view"}
  /\ outcome \in {"none", "ok", "failed", "killed"}
  /\ part \in Parts
  /\ data \in [Payload -> {"absent", "ok"}]
  /\ side \in [Payload -> {"absent", "torn", "ok"}]
  /\ json \in [JsonFiles -> Content]
  /\ draft \in {"absent", "text", "vision"}
  /\ crashes \in 0 .. MaxCrashes
  /\ cut \in BOOLEAN

Stored(p) == data[p] = "ok" /\ side[p] = "ok"

\* The manifest is the commit record of the conversion (its existence is what
\* convert.sh, start.sh and serve.sh test): it appears only once every payload
\* file and its sidecar are on disk and the index and the bitrates are written,
\* whatever was killed before.
ManifestIsCommitRecord ==
  Exists("manifest") =>
    (\A p \in Parts : Stored(p)) /\ Exists("index") /\ Readable("bitrates")

\* No index file, live or kept copy, ever names a tensor whose payload file is
\* missing: not while add_vision_tensors.py runs, not after a kill, not after
\* use_vision.sh has moved the copies around.
IndexNeverDangles ==
  \A f \in {"index", "index.text", "index.vision"} :
    /\ Exists(f) => \A p \in Parts : Stored(p)
    /\ json[f] = "vision" => Stored(VisPart)

\* The vision manifest never lists the vision files before the vision index does.
ManifestFollowsIndex ==
  json["manifest.vision"] = "vision" => json["index.vision"] = "vision"

\* The vision index is what a rerun tests (convert.sh:44), and it is copied before
\* the tensors are added: the test is true only where no kill has fallen on lines
\* 45 to 47.  Then a readable index outside those lines has the vision tensors, and
\* its manifest has them too or is a torn copy.
VisionMarkerIsTrue ==
  Readable("index.vision") /\ pc \notin VisionStep /\ ~cut =>
    json["index.vision"] = "vision" /\ json["manifest.vision"] \in {"vision", "torn"}

\* The markers against what they stand for, under kills, reruns, switches and torn
\* copies: the manifest, which three scripts test, is never ahead of the text view;
\* no index names a missing payload; and the vision index, which convert.sh tests,
\* is ahead of the vision view only while lines 45 to 47 run or after a kill there.
MarkersFollowPayload ==
  /\ ManifestIsCommitRecord
  /\ IndexNeverDangles
  /\ ManifestFollowsIndex
  /\ VisionMarkerIsTrue

\* use_vision.sh off can always go back: however convert.sh and use_vision.sh
\* are interleaved and killed, the *.text copies never take the vision view.
TextCopiesStayText ==
  \A f \in {"config.text", "index.text", "manifest.text"} : json[f] # "vision"

\* A script that reports success leaves as live files those of one set of copies,
\* whatever an earlier, killed run had switched; and the three are of one view where
\* they are readable and no kill has fallen on convert.sh:45-47.  After such a kill
\* the vision copies themselves are a mixture, and a success leaves that mixture.
LiveFilesAre(config, index, manifest) ==
  /\ json["config"] = json[config]
  /\ json["index"] = json[index]
  /\ json["manifest"] = json[manifest]
LiveFiles == {"config", "index", "manifest"}
OneView ==
  ~cut /\ (\A f \in LiveFiles : Readable(f)) =>
    \/ \A f \in LiveFiles : json[f] = "vision"
    \/ caller = "view" /\ \A f \in LiveFiles : json[f] = "text"
SuccessLeavesOneView ==
  pc = "idle" /\ outcome = "ok" =>
    /\ \/ LiveFilesAre("config.vision", "index.vision", "manifest.vision")
       \/ caller = "view" /\ LiveFilesAre("config.text", "index.text", "manifest.text")
    /\ OneView

\* A run of convert.sh that passes its own verification has made the whole vision
\* view, every tensor, the three live files and a draft: what "Idempotent: finished
\* steps are skipped" (convert.sh:3) promises of every success, kills included.
VisionComplete ==
  /\ \A p \in Payload : Stored(p)
  /\ \A f \in LiveFiles : json[f] = "vision"
  /\ draft # "absent"
SuccessIsVision == pc = "summary" => VisionComplete

\* The conversion implements PackCommit: the disk, seen through the mapping,
\* only ever gains stored files, and a view is published after what it names.
StoredFiles == {p \in Payload : Stored(p)}
PublishedViews ==
  {v \in {"text", "vision"} :
     IF v = "text" THEN Exists("manifest") ELSE json["index.vision"] = "vision"}
Commit == INSTANCE PackCommit WITH
  Files <- Payload, Views <- {"text", "vision"},
  Needs <- [v \in {"text", "vision"} |-> IF v = "text" THEN Parts ELSE Payload],
  stored <- StoredFiles, published <- PublishedViews
ImplementsCommit == Commit!Spec
=============================================================================
