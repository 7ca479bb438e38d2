--------------------------- MODULE KalibratedChain ---------------------------
(***************************************************************************)
(* The Kalibrated 3-bit layers: scripts on two machines that follow each   *)
(* other through log lines and marker files.  On the pod setup.sh builds,  *)
(* chain_aplus.sh converts and splices every finished K3 layer, switch.sh  *)
(* stops it at a checkpoint and chain_aplus_resume.sh goes on; on the      *)
(* Spark pull_aplus.sh copies the spliced files by their sidecars and      *)
(* boot_aplus.sh serves them.                                              *)
(***************************************************************************)
EXTENDS Integers, FiniteSets

CONSTANTS
  NumLayers,    \* layers of the model, from 0
  K3,           \* the promoted layers, spliced and pulled
  ResumeFrom,   \* nextspl of the resumed chain
  SwitchTells,  \* switch.sh writes to chain.log, as the puller's pattern expects
  MaxFaults,    \* bound: failing steps of the pod
  MaxPulls      \* bound: times the operator starts the puller

ASSUME KalibratedAssumption ==
  /\ NumLayers \in Nat \ {0} /\ K3 \subseteq 0..NumLayers - 1 /\ K3 # {} /\ ResumeFrom \in Nat
  /\ SwitchTells \in BOOLEAN /\ MaxFaults \in Nat /\ MaxPulls \in Nat \ {0}

Layers == 0..NumLayers - 1
None == -1

VARIABLES
  build,     \* setup.sh: "running", "exit0" (its line is written), "imported", "failed"
  chain,     \* [run: which chain, pc, next: nextspl]
  conv,      \* the converter: [pc, at: its layer, cur: the last layer its log names, wrote, trace]
  ckpt,      \* [layer: where work/ckpt resumes, None without one, new: ckpt_new exists]
  qt,        \* qt[l]: the quantized layer, "none", "writing" or "whole"
  spl, side, \* the spliced file of a layer ("none", "partial", "whole") and whether its sidecar is there
  splicer,   \* the splice_qt.py processes: of the chain, and one a killed chain left behind
  told,      \* chain.log has a line the puller takes for the end of the chain
  switch,    \* [pc, m0: the checkpoint it found]
  pull,      \* [pc, at: the layer, runs]
  dst, dside,\* what the Spark has of both; "bad" has the size of the file and not its content
  pullLog,   \* the lines of pull_aplus.log
  unchecked, \* (history) files whose puller was killed before it had compared their checksum
  boot,      \* boot_aplus.sh: [pc, watchdog]
  faults

podVars == <<chain, conv, ckpt, qt, spl, side, splicer, told, faults>>
pullVars == <<pull, dst, dside, pullLog, unchecked>>
vars == <<build, podVars, switch, pullVars, boot>>

Fault == faults < MaxFaults /\ faults' = faults + 1
Tell(b) == told' = (told \/ b)
LayersOf(n) == {l \in K3 : l >= n}
Lowest(s) == CHOOSE l \in s : \A k \in s : l <= k

-----------------------------------------------------------------------------
\* setup.sh: the exit line of the build first, then the line of the import.

BuildExits ==
  /\ build = "running" /\ build' = "exit0"
  /\ UNCHANGED <<podVars, switch, pullVars, boot>>
BuildFails ==
  /\ build = "running" /\ Fault /\ build' = "failed"
  /\ UNCHANGED <<chain, conv, ckpt, qt, spl, side, splicer, told, switch, pullVars, boot>>
Imported ==
  /\ build = "exit0" /\ build' = "imported"
  /\ UNCHANGED <<podVars, switch, pullVars, boot>>

-----------------------------------------------------------------------------
\* The converter, one layer after the other.

\* Assumed: a layer, minutes of work, is not finished in the seconds between a
\* checkpoint switch.sh waits for and the kill.
BeingStopped == switch.pc \in {"settle", "stop"} \/ (switch.pc = "wait" /\ ckpt.layer # switch.m0)

Alive == conv.pc \in {"quantize", "save", "ckpt"}

\* "Quantized: layers.N.ffn.experts.0.w1", in the midst of layer N.
NamesLayer ==
  /\ conv.pc = "quantize" /\ conv.at < NumLayers /\ conv.cur # conv.at
  /\ conv' = [conv EXCEPT !.cur = conv.at]
  /\ UNCHANGED <<build, chain, ckpt, qt, spl, side, splicer, told, faults, switch, pullVars, boot>>

Saves ==
  /\ conv.pc = "quantize" /\ conv.at < NumLayers /\ conv.cur = conv.at
  /\ ~BeingStopped
  /\ conv' = [conv EXCEPT !.pc = "save"] /\ qt' = [qt EXCEPT ![conv.at] = "writing"]
  /\ UNCHANGED <<build, chain, ckpt, spl, side, splicer, told, faults, switch, pullVars, boot>>
Saved ==
  /\ conv.pc = "save"
  /\ qt' = [qt EXCEPT ![conv.at] = "whole"]
  /\ conv' = [conv EXCEPT !.pc = "quantize", !.at = conv.at + 1]
  /\ UNCHANGED <<build, chain, ckpt, spl, side, splicer, told, faults, switch, pullVars, boot>>

\* A checkpoint is written to ckpt_new and put in the place of ckpt.
Checkpoints ==
  /\ conv.pc = "quantize" /\ conv.cur < conv.at /\ conv.at > 0 /\ conv.at < NumLayers
  /\ ckpt.layer # conv.at
  /\ conv' = [conv EXCEPT !.pc = "ckpt"] /\ ckpt' = [ckpt EXCEPT !.new = TRUE]
  /\ UNCHANGED <<build, chain, qt, spl, side, splicer, told, faults, switch, pullVars, boot>>
Checkpointed ==
  /\ conv.pc = "ckpt" /\ conv' = [conv EXCEPT !.pc = "quantize"]
  /\ ckpt' = [layer |-> conv.at, new |-> FALSE]
  /\ UNCHANGED <<build, chain, qt, spl, side, splicer, told, faults, switch, pullVars, boot>>

\* "Writing into": the compile begins.
Compiles ==
  /\ conv.pc = "quantize" /\ conv.at = NumLayers /\ ~conv.wrote
  /\ conv' = [conv EXCEPT !.wrote = TRUE]
  /\ UNCHANGED <<build, chain, ckpt, qt, spl, side, splicer, told, faults, switch, pullVars, boot>>

\* An exception leaves a Traceback in the log, the kernel's killer does not.
ConverterDies ==
  /\ Alive /\ Fault
  /\ \E trace \in BOOLEAN : conv' = [conv EXCEPT !.pc = "dead", !.trace = trace]
  /\ UNCHANGED <<build, chain, ckpt, qt, spl, side, splicer, told, switch, pullVars, boot>>

-----------------------------------------------------------------------------
\* splice_qt.py writes the file, then its sidecar; a layer that is not whole is
\* refused.  A chain waits for its own ("child").

Child == {s \in splicer : s.by = "child"}
Splice(l) ==
  /\ splicer' = splicer \cup {[by |-> "child", layer |-> l, stage |-> "file"]}
  /\ spl' = [spl EXCEPT ![l] = "partial"]

\* Of two splices of one layer the last to end leaves a whole file.
Writing(l) == {s \in splicer : s.layer = l /\ s.stage = "file"}
SpliceWrites ==
  /\ \E s \in splicer :
       /\ s.stage = "file" /\ qt[s.layer] = "whole"
       /\ spl' = IF Writing(s.layer) = {s} THEN [spl EXCEPT ![s.layer] = "whole"] ELSE spl
       /\ splicer' = (splicer \ {s}) \cup {[s EXCEPT !.stage = "sidecar"]}
  /\ UNCHANGED <<build, chain, conv, ckpt, qt, side, told, faults, switch, pullVars, boot>>

SpliceEnds ==
  /\ \E s \in splicer :
       /\ s.stage = "sidecar" /\ splicer' = splicer \ {s}
       /\ side' = [side EXCEPT ![s.layer] = TRUE]
       /\ chain' = IF s.by = "child" /\ chain.pc = "loop" THEN [chain EXCEPT !.next = chain.next + 1] ELSE chain
  /\ UNCHANGED <<build, conv, ckpt, qt, spl, told, faults, switch, pullVars, boot>>

\* "### SPLICE FAILED": the loop tries the layer again, the last pass gives up.
\* Nobody reports the failure of an orphan.
SpliceFails ==
  /\ \E s \in splicer :
       /\ s.stage = "file" /\ splicer' = splicer \ {s}
       /\ IF qt[s.layer] = "whole" THEN Fault ELSE UNCHANGED faults
       /\ Tell(s.by = "child")
       /\ chain' = IF s.by = "child" /\ chain.pc = "last" THEN [chain EXCEPT !.pc = "failed"] ELSE chain
  /\ UNCHANGED <<build, conv, ckpt, qt, spl, side, switch, pullVars, boot>>

-----------------------------------------------------------------------------
\* chain_aplus.sh and chain_aplus_resume.sh.

Fails_Silent == chain' = [chain EXCEPT !.pc = "failed"] /\ UNCHANGED told
Fails == chain' = [chain EXCEPT !.pc = "failed"] /\ told' = TRUE

\* The chain waits for the exit line of the build and then wants the import line.
WaitsForBuild ==
  /\ chain.pc = "build" /\ build # "running"
  /\ \/ build = "imported" /\ chain' = [chain EXCEPT !.pc = "prepare"] /\ UNCHANGED told
     \/ build # "imported" /\ Fails
  /\ UNCHANGED <<build, conv, ckpt, qt, spl, side, splicer, faults, switch, pullVars, boot>>

\* View and recipe, the work directories emptied, the converter started.
Prepares ==
  /\ chain.pc = "prepare" /\ chain' = [chain EXCEPT !.pc = "loop"]
  /\ conv' = [conv EXCEPT !.pc = "quantize"]
  /\ UNCHANGED <<build, ckpt, qt, spl, side, splicer, told, faults, switch, pullVars, boot>>
PrepareFails ==
  /\ chain.pc = "prepare" /\ Fault /\ Fails
  /\ UNCHANGED <<build, conv, ckpt, qt, spl, side, splicer, switch, pullVars, boot>>

\* The header, which qt_ok counts in, comes first in the file.
QtOk(l) == qt[l] # "none"
MayFailQtOk(l) == qt[l] # "whole"
Due_Started == chain.next <= conv.cur /\ chain.next < NumLayers
Due == chain.next < conv.cur /\ chain.next < NumLayers

\* Only the head of the loop looks for the converter.  A pass that finds nothing to
\* do and sleeps is the same as none: only a live converter gives it something.
Wants(l) == l \in K3 \/ chain.run = "first"   \* qt_ok is asked
EntersLoop ==
  /\ chain.pc = "loop" /\ Child = {} /\ Alive
  /\ conv.wrote \/ (Due /\ (Wants(chain.next) => QtOk(chain.next)))
  /\ chain' = [chain EXCEPT !.pc = "body"]
  /\ UNCHANGED <<build, conv, ckpt, qt, spl, side, splicer, told, faults, switch, pullVars, boot>>

SplicesNext ==
  /\ chain.pc = "body" /\ Due /\ chain.next \in K3 /\ QtOk(chain.next)
  /\ Splice(chain.next) /\ chain' = [chain EXCEPT !.pc = "loop"]
  /\ UNCHANGED <<build, conv, ckpt, qt, side, told, faults, switch, pullVars, boot>>
SkipsNext ==
  /\ chain.pc = "body" /\ Due /\ chain.next \notin K3
  /\ Wants(chain.next) => QtOk(chain.next)
  /\ chain' = [chain EXCEPT !.pc = "loop", !.next = chain.next + 1]
  /\ UNCHANGED <<build, conv, ckpt, qt, spl, side, splicer, told, faults, switch, pullVars, boot>>

\* The converter is killed before it compiles.
StopsConverter ==
  /\ chain.pc = "body" /\ conv.wrote
  /\ Due => Wants(chain.next) /\ MayFailQtOk(chain.next)
  /\ conv' = [conv EXCEPT !.pc = "dead"] /\ chain' = [chain EXCEPT !.pc = "check"]
  /\ UNCHANGED <<build, ckpt, qt, spl, side, splicer, told, faults, switch, pullVars, boot>>
ConverterGone ==
  /\ chain.pc = "loop" /\ Child = {} /\ ~Alive
  /\ chain' = [chain EXCEPT !.pc = "check"]
  /\ UNCHANGED <<build, conv, ckpt, qt, spl, side, splicer, told, faults, switch, pullVars, boot>>

CheckFails ==
  /\ chain.pc = "check" /\ (conv.trace \/ \E l \in K3 : MayFailQtOk(l)) /\ Fails
  /\ UNCHANGED <<build, conv, ckpt, qt, spl, side, splicer, faults, switch, pullVars, boot>>
Checks ==
  /\ chain.pc = "check" /\ ~conv.trace /\ \A l \in K3 : QtOk(l)
  /\ chain' = [chain EXCEPT !.pc = "last"] /\ ckpt' = [layer |-> None, new |-> FALSE]
  /\ UNCHANGED <<build, conv, qt, spl, side, splicer, told, faults, switch, pullVars, boot>>

\* The last pass splices what has no sidecar.
SplicesRest ==
  /\ chain.pc = "last" /\ Child = {}
  /\ \/ /\ \E l \in K3 : ~side[l]
        /\ Splice(Lowest({l \in K3 : ~side[l]})) /\ UNCHANGED chain
     \/ /\ \A l \in K3 : side[l]
        /\ chain' = [chain EXCEPT !.pc = "done"] /\ UNCHANGED <<splicer, spl>>
  /\ UNCHANGED <<build, conv, ckpt, qt, side, told, faults, switch, pullVars, boot>>

-----------------------------------------------------------------------------
\* switch.sh: at the next checkpoint, stop chain and converter and resume.

SwitchStarts ==
  /\ switch.pc = "off" /\ chain.pc \in {"loop", "body"}
  /\ switch' = [pc |-> "wait", m0 |-> ckpt.layer]
  /\ UNCHANGED <<build, podVars, pullVars, boot>>

\* A job.json that is gone has another mtime too.
SwitchSees_AnyCheckpoint ==
  /\ switch.pc = "wait" /\ ckpt.layer # None
  /\ switch' = [switch EXCEPT !.pc = "settle"]
  /\ UNCHANGED <<build, podVars, pullVars, boot>>
SwitchSees ==
  /\ switch.pc = "wait" /\ ckpt.layer # switch.m0
  /\ switch' = [switch EXCEPT !.pc = "settle"]
  /\ UNCHANGED <<build, podVars, pullVars, boot>>

\* No checkpoint in 25 minutes, or an old process still alive, or no args.json.
SwitchAborts ==
  /\ \/ switch.pc = "wait" /\ ckpt.layer = switch.m0 /\ UNCHANGED faults
     \/ switch.pc = "launch" /\ Fault
  /\ switch' = [switch EXCEPT !.pc = "aborted"] /\ Tell(SwitchTells)
  /\ UNCHANGED <<build, chain, conv, ckpt, qt, spl, side, splicer, pullVars, boot>>

\* pkill ends the shell; a splice it waits for goes on without it.
KillsChain ==
  /\ switch.pc = "settle" /\ ~ckpt.new
  /\ switch' = [switch EXCEPT !.pc = "stop"]
  /\ chain' = IF chain.pc \in {"done", "failed"} THEN chain ELSE [chain EXCEPT !.pc = "killed"]
  /\ splicer' = {[s EXCEPT !.by = "orphan"] : s \in splicer}
  /\ UNCHANGED <<build, conv, ckpt, qt, spl, side, told, faults, pullVars, boot>>
KillsConverter ==
  /\ switch.pc = "stop" /\ switch' = [switch EXCEPT !.pc = "launch"]
  /\ conv' = [conv EXCEPT !.pc = "dead"]
  /\ UNCHANGED <<build, chain, ckpt, qt, spl, side, splicer, told, faults, pullVars, boot>>

\* The resumed converter starts at the checkpoint, or ends in a Traceback where
\* there is none; the log still names the layers of the earlier run.
Resumed == [conv EXCEPT !.pc = IF ckpt.layer = None THEN "dead" ELSE "quantize",
                        !.at = IF ckpt.layer = None THEN conv.at ELSE ckpt.layer,
                        !.trace = (ckpt.layer = None)]
Launches ==
  /\ switch.pc = "launch" /\ switch' = [switch EXCEPT !.pc = "done"]
  /\ chain' = [run |-> "resume", pc |-> "loop", next |-> ResumeFrom]
  /\ conv' = Resumed /\ ckpt' = [ckpt EXCEPT !.new = FALSE]
  /\ UNCHANGED <<build, qt, spl, side, splicer, told, faults, pullVars, boot>>

-----------------------------------------------------------------------------
\* pull_aplus.sh, started by the operator, again after an abort or a kill; its log
\* goes on.

PullStarts ==
  /\ pull.pc \in {"off", "aborted", "done", "killed"} /\ pull.runs < MaxPulls
  /\ pull' = [pc |-> "test", at |-> Lowest(K3), runs |-> pull.runs + 1]
  /\ UNCHANGED <<build, podVars, switch, dst, dside, pullLog, unchecked, boot>>

\* The next layer, or the last line.
PullsNext(lines) ==
  LET rest == LayersOf(pull.at + 1) IN
  /\ pull' = IF rest = {} THEN [pull EXCEPT !.pc = "done"] ELSE [pull EXCEPT !.pc = "test", !.at = Lowest(rest)]
  /\ pullLog' = pullLog \cup lines \cup (IF rest = {} THEN {"done"} ELSE {})

\* "already here" goes by the size in the sidecar.
Here(l) == dside[l] /\ dst[l] \in {"whole", "bad"}
PullSkips ==
  /\ pull.pc = "test" /\ Here(pull.at) /\ PullsNext({})
  /\ UNCHANGED <<build, podVars, switch, dst, dside, unchecked, boot>>

\* Two calls over ssh: is the sidecar there, else did the chain fail.
PullTests ==
  /\ pull.pc = "test" /\ ~Here(pull.at)
  /\ pull' = [pull EXCEPT !.pc = IF side[pull.at] THEN "fetch" ELSE "grep"]
  /\ UNCHANGED <<build, podVars, switch, dst, dside, pullLog, unchecked, boot>>
PullGreps ==
  /\ pull.pc = "grep"
  /\ pull' = [pull EXCEPT !.pc = IF told THEN "aborted" ELSE "test"]
  /\ pullLog' = IF told THEN pullLog \cup {"ABORTED"} ELSE pullLog
  /\ UNCHANGED <<build, podVars, switch, dst, dside, unchecked, boot>>

\* rsync, repeated until it succeeds: the file as it is now, then the sidecar.
Contents(l) == IF spl[l] = "whole" THEN {"whole"} ELSE {"part", "bad"}
Fetches ==
  /\ pull.pc = "fetch" /\ pull' = [pull EXCEPT !.pc = "verify"]
  /\ \E content \in Contents(pull.at) : dst' = [dst EXCEPT ![pull.at] = content]
  /\ dside' = [dside EXCEPT ![pull.at] = TRUE]
  /\ UNCHANGED <<build, podVars, switch, pullLog, unchecked, boot>>

\* A file that does not match its sidecar stays, and the loop goes on.
Matches == dst[pull.at] = "whole"
PullVerifies ==
  /\ pull.pc = "verify" /\ PullsNext(IF Matches THEN {} ELSE {"MISMATCH"})
  /\ unchecked' = unchecked \ {pull.at}
  /\ UNCHANGED <<build, podVars, switch, dst, dside, boot>>

\* The script is killed, with the rsync it waits for, which leaves what it has
\* (--partial) or a file without its sidecar; the log says nothing of it.  (Bound:
\* a run that can be killed is one that can be followed by another.)
Pulling == {"test", "grep", "fetch", "verify"}
PullKilled ==
  /\ pull.pc \in Pulling /\ pull.runs < MaxPulls /\ pull' = [pull EXCEPT !.pc = "killed"]
  /\ \/ pull.pc = "fetch" /\ \E content \in {"part"} \cup Contents(pull.at) : dst' = [dst EXCEPT ![pull.at] = content]
     \/ UNCHANGED dst
  /\ unchecked' = IF pull.pc = "verify" THEN unchecked \cup {pull.at} ELSE unchecked
  /\ UNCHANGED <<build, podVars, switch, dside, pullLog, boot>>

-----------------------------------------------------------------------------
\* boot_aplus.sh: waits for the puller's line, refuses, or boots with the
\* watchdog stopped, one configuration of the ladder after the other.

BootSees ==
  /\ boot.pc = "wait" /\ pullLog \cap {"done", "ABORTED"} # {}
  /\ boot' = [boot EXCEPT !.pc = "read"]
  /\ UNCHANGED <<build, podVars, switch, pullVars>>

Refused_NoMismatch == "ABORTED" \in pullLog \/ \E l \in K3 : dst[l] \notin {"whole", "bad"}
Refused == pullLog \cap {"ABORTED", "MISMATCH"} # {} \/ \E l \in K3 : dst[l] \notin {"whole", "bad"}
BootReads ==
  /\ boot.pc = "read"
  /\ boot' = IF Refused THEN [boot EXCEPT !.pc = "refused"] ELSE [pc |-> "ladder", watchdog |-> FALSE]
  /\ UNCHANGED <<build, podVars, switch, pullVars>>

\* A configuration came up, or none did.
LadderEnds ==
  /\ boot.pc = "ladder"
  /\ \/ boot' = [boot EXCEPT !.pc = "battery"]
     \/ boot' = [pc |-> "aborted", watchdog |-> TRUE]
  /\ UNCHANGED <<build, podVars, switch, pullVars>>
BatteryEnds ==
  /\ boot.pc = "battery" /\ boot' = [pc |-> "end", watchdog |-> TRUE]
  /\ UNCHANGED <<build, podVars, switch, pullVars>>

-----------------------------------------------------------------------------
Init ==
  /\ build = "running" /\ chain = [run |-> "first", pc |-> "build", next |-> 0]
  /\ conv = [pc |-> "off", at |-> 0, cur |-> None, wrote |-> FALSE, trace |-> FALSE]
  /\ ckpt = [layer |-> None, new |-> FALSE]
  /\ qt = [l \in Layers |-> "none"] /\ spl = [l \in K3 |-> "none"] /\ side = [l \in K3 |-> FALSE]
  /\ splicer = {} /\ told = FALSE /\ switch = [pc |-> "off", m0 |-> None]
  /\ pull = [pc |-> "off", at |-> None, runs |-> 0]
  /\ dst = [l \in K3 |-> "none"] /\ dside = [l \in K3 |-> FALSE] /\ pullLog = {} /\ unchecked = {}
  /\ boot = [pc |-> "wait", watchdog |-> TRUE] /\ faults = 0

Setup == BuildExits \/ BuildFails \/ Imported
Converter == NamesLayer \/ Saves \/ Saved \/ Checkpoints \/ Checkpointed \/ Compiles
Splicer == SpliceWrites \/ SpliceEnds \/ SpliceFails
Chain ==
  \/ WaitsForBuild \/ Prepares \/ PrepareFails \/ EntersLoop \/ SplicesNext \/ SkipsNext
  \/ StopsConverter \/ ConverterGone \/ CheckFails \/ Checks \/ SplicesRest
Switch == SwitchSees \/ SwitchAborts \/ KillsChain \/ KillsConverter \/ Launches
Puller == PullSkips \/ PullTests \/ PullGreps \/ Fetches \/ PullVerifies
Booter == BootSees \/ BootReads \/ LadderEnds \/ BatteryEnds

Next ==
  \/ Setup \/ Converter \/ ConverterDies \/ Splicer \/ Chain
  \/ SwitchStarts \/ Switch \/ PullStarts \/ Puller \/ PullKilled \/ Booter

\* Every script that runs makes progress; nobody has to start switch or puller.
Spec ==
  /\ Init /\ [][Next]_vars
  /\ WF_vars(Setup) /\ WF_vars(Converter) /\ WF_vars(Splicer) /\ WF_vars(Chain)
  /\ WF_vars(Switch) /\ WF_vars(Puller) /\ WF_vars(Booter)

(***************************************************************************)
(* Properties.                                                             *)
(***************************************************************************)

ChainType == [run : {"first", "resume"}, next : 0..NumLayers + ResumeFrom,
              pc : {"build", "prepare", "loop", "body", "check", "last", "done", "failed", "killed"}]
ConvType == [pc : {"off", "quantize", "save", "ckpt", "dead"}, at : 0..NumLayers, cur : Layers \cup {None},
             wrote : BOOLEAN, trace : BOOLEAN]
CkptType == [layer : Layers \cup {None}, new : BOOLEAN]
SplicerType == [by : {"child", "orphan"}, layer : K3, stage : {"file", "sidecar"}]
SwitchType == [pc : {"off", "wait", "settle", "stop", "launch", "done", "aborted"}, m0 : Layers \cup {None}]
PullType == [pc : Pulling \cup {"off", "done", "aborted", "killed"}, at : K3 \cup {None}, runs : 0..MaxPulls]
BootType == [pc : {"wait", "read", "ladder", "battery", "refused", "aborted", "end"}, watchdog : BOOLEAN]

\* Every variable stays in its type (scripts/kalibrated).
TypeOK ==
  /\ build \in {"running", "exit0", "imported", "failed"}
  /\ chain \in ChainType /\ conv \in ConvType /\ ckpt \in CkptType
  /\ qt \in [Layers -> {"none", "writing", "whole"}]
  /\ spl \in [K3 -> {"none", "partial", "whole"}] /\ side \in [K3 -> BOOLEAN]
  /\ splicer \subseteq SplicerType /\ told \in BOOLEAN /\ switch \in SwitchType /\ pull \in PullType
  /\ dst \in [K3 -> {"none", "part", "bad", "whole"}] /\ dside \in [K3 -> BOOLEAN]
  /\ pullLog \subseteq {"done", "ABORTED", "MISMATCH"} /\ unchecked \subseteq K3
  /\ boot \in BootType /\ faults \in 0..MaxFaults

\* What is booted is there with its sidecar and whole, layer by layer, whatever was
\* spliced twice or pulled in the midst of it, and whatever was killed but the puller
\* between a copy and its checksum (pull_aplus.sh:17-19): the next run takes that file
\* by its size (line 11), and the served checkpoint is not verified again
\* (VERIFY_MODEL_CHECKSUMS=0).
Booting == boot.pc \in {"ladder", "battery", "end"}
BootOnWhole == Booting => \A l \in K3 : dside[l] /\ (dst[l] = "whole" \/ l \in unchecked)

\* While the converter runs, no splice, not even one of a killed chain, reads a
\* layer that is still to be written, or to be written again after a resume.
SpliceBehind == Alive => \A s \in splicer : s.layer < conv.at /\ qt[s.layer] = "whole"

\* The switch loses the work since its checkpoint and no finished layer
\* (switch.sh: "bounded work loss").
BoundedLoss ==
  [][chain.pc = "killed" /\ chain'.run = "resume" /\ ckpt.layer # None => conv'.at >= conv.at]_vars

\* A puller that was started ends, with its files or with the news that the
\* chain will not bring them, unless it is killed.
PullerSettles == pull.pc \in Pulling ~> pull.pc \in {"done", "aborted", "killed"}

\* The watchdog that boot_aplus.sh stops is started again.
WatchdogBack == ~boot.watchdog ~> boot.watchdog

\* What the operator waits for on the Spark comes to an end.
SparkSettles == PullerSettles /\ WatchdogBack

\* chain_aplus.sh says that it waits for the build: it reports a failure of a
\* build that is over only when that build failed.
WaitsForTheBuild == chain.pc = "failed" /\ conv.pc = "off" => build = "failed" \/ faults > 0

\* What boot_aplus.sh calls "K3 files ok" is whole, whatever was killed.
BootAlwaysWhole == Booting => \A l \in K3 : dst[l] = "whole"
=============================================================================
