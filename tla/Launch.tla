------------------------------- MODULE Launch -------------------------------
(***************************************************************************)
(* start.sh on the MixedK route (PACK=mixedk), composed with the           *)
(* conversion it runs: the test that the converted pack is present,        *)
(* convert.sh, stop.sh, the preflight of serve.sh, and docker run.  The    *)
(* downloaded source pack is there.  A kill takes start.sh and the         *)
(* convert.sh below it together; the user starts again, and may use        *)
(* convert.sh and use_vision.sh by hand in between.                        *)
(***************************************************************************)
EXTENDS PackConversion

CONSTANT UseByHand  \* the user also runs convert.sh and use_vision.sh by hand

ASSUME LaunchAssumption == UseByHand \in BOOLEAN

VARIABLES
  launch,  \* the command start.sh is at, "idle" when it does not run
  engine   \* the pack as it was when docker run started the container

lvars == <<vars, launch, engine>>

NoEngine == [config |-> "none"]
Pack ==
  [config |-> json["config"], index |-> json["index"],
   stored |-> {p \in Payload : Stored(p)}, draft |-> draft]

\* Mutant of PackPresent: the draft is not tested.
PackPresent_ManifestOnly == Exists("manifest")

\* The two files whose existence stands for a finished conversion.
PackPresent == Exists("manifest") /\ draft # "absent"

\* start.sh, up to the skip or the call of convert.sh.
Start ==
  /\ launch = "idle" /\ pc = "idle"
  /\ \/ PackPresent /\ launch' = "stop" /\ UNCHANGED vars
     \/ ~PackPresent /\ launch' = "convert" /\ RunConvert
  /\ UNCHANGED engine

\* convert.sh, and a use_vision.sh run by hand, take their steps or are killed.
Convert == (Script \/ Crash) /\ UNCHANGED <<launch, engine>>

\* ... || die "conversion failed"
Converted ==
  /\ launch = "convert" /\ pc = "idle"
  /\ launch' = IF outcome = "ok" THEN "stop" ELSE "idle"
  /\ UNCHANGED <<vars, engine>>

\* stop.sh removes the running container before the new one is checked.
Stop ==
  /\ launch = "stop" /\ launch' = "preflight" /\ engine' = NoEngine
  /\ UNCHANGED vars

\* Mutant of PreflightOK: the architecture is not looked at.
PreflightOK_AnyView == Exists("manifest") /\ Readable("config") /\ draft # "absent"

\* The preflight of serve.sh, MODE=dspark.
PreflightOK ==
  /\ Exists("manifest")
  /\ json["config"] = "vision"
  /\ draft # "absent"

Serve ==
  /\ launch = "preflight" /\ launch' = "idle"
  /\ engine' = IF PreflightOK THEN Pack ELSE engine
  /\ UNCHANGED vars

\* The user runs convert.sh or use_vision.sh, or removes the draft.
ByHand ==
  /\ UseByHand /\ launch = "idle" /\ User
  /\ UNCHANGED <<launch, engine>>

LInit == Init /\ launch = "idle" /\ engine = NoEngine

StartScript == Start \/ Converted \/ Stop \/ Serve

LNext == StartScript \/ Convert \/ ByHand

LSpec == LInit /\ [][LNext]_lvars

\* The scripts advance, and the user starts again until the engine runs.
Again == engine = NoEngine /\ Start
FairLSpec ==
  /\ LSpec
  /\ WF_lvars(Script /\ UNCHANGED <<launch, engine>>)
  /\ WF_lvars(Converted \/ Stop \/ Serve)
  /\ SF_lvars(Again)

-----------------------------------------------------------------------------
(* Properties *)

\* The types of the variables of start.sh; TypeOK has those of the conversion.
LTypeOK ==
  /\ launch \in {"idle", "convert", "stop", "preflight"}
  /\ \/ engine = NoEngine
     \/ engine \in [config : Content, index : Content, stored : SUBSET Payload,
                     draft : {"absent", "text", "vision"}]

Running == engine # NoEngine

\* Whatever was killed and restarted, the two existence tests of start.sh and
\* those of serve.sh never let the engine start without the expert and carried
\* files, or without a draft.
EngineHasTextPayload == Running => Parts \subseteq engine.stored /\ engine.draft # "absent"

\* The engine is never started on the text architecture or on a half-written
\* config, although use_vision.sh off leaves the rest of the pack in place.
EngineOnVisionConfig == Running => engine.config = "vision"

\* Between them: what the existence tests and the preflight leave to start from.
EngineStartsSound == EngineHasTextPayload /\ EngineOnVisionConfig

\* "converted pack present, skipping download and conversion" (start.sh:58):
\* the engine is started on a whole vision view, with the draft of the text view
\* ("Built from the text view", docs/CONVERSION.md:45).
EngineHasWholePack == Running => engine.index = "vision" /\ engine.stored = Payload /\ engine.draft = "text"

\* start.sh, run again after every kill, reaches docker run ("one command from
\* a fresh DGX Spark to a serving endpoint", start.sh:2).
StartReachesServing == (launch = "convert") ~> Running
=============================================================================
