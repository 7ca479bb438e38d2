------------------------------ MODULE HubLaunch ------------------------------
(***************************************************************************)
(* start.sh on the Kalibrated route (the default): the pack is served as   *)
(* downloaded.  hf download is external: it fetches the files of the       *)
(* repository in an order of its own, each one whole or not at all, keeps  *)
(* what it has over an interruption, and fails when the network does.      *)
(***************************************************************************)
EXTENDS Integers

CONSTANTS
  Shards,        \* the safetensors files of tp1/ and of the draft
  MaxInterrupts  \* bound: how often a download fails or start.sh is killed

\* The files the scripts test for, and the two a loader reads first.
Tested   == {"manifest", "draft_index"}
HubFiles == Tested \cup {"config", "index"} \cup Shards

VARIABLES
  stage,      \* the command start.sh is at, "idle" when it does not run
  have,       \* the files of the pack on disk
  engine,     \* the files on disk when docker run started the container
  interrupts  \* failed or killed downloads so far

vars == <<stage, have, engine, interrupts>>

NoEngine == {}

-----------------------------------------------------------------------------
\* "pack present, skipping the download", or the download.
CheckPack ==
  /\ stage = "idle"
  /\ stage' = IF Tested \subseteq have THEN "stop" ELSE "download"
  /\ UNCHANGED <<have, engine, interrupts>>

FetchFile ==
  /\ stage = "download"
  /\ \E f \in HubFiles \ have : have' = have \cup {f}
  /\ UNCHANGED <<stage, engine, interrupts>>

\* Everything is there; a repository without the manifest would be refused.
DownloadDone ==
  /\ stage = "download" /\ have = HubFiles
  /\ stage' = IF "manifest" \in have THEN "stop" ELSE "idle"
  /\ UNCHANGED <<have, engine, interrupts>>

\* hf download fails (die), or start.sh is killed.
Interrupted ==
  /\ stage # "idle" /\ interrupts < MaxInterrupts
  /\ stage' = "idle" /\ interrupts' = interrupts + 1
  /\ UNCHANGED <<have, engine>>

\* stop.sh removes the running container.
Stop ==
  /\ stage = "stop" /\ stage' = "preflight" /\ engine' = NoEngine
  /\ UNCHANGED <<have, interrupts>>

\* The preflight of serve.sh; the pack's config is the vision one.
PreflightOK == {"manifest", "config", "draft_index"} \subseteq have

Serve ==
  /\ stage = "preflight" /\ stage' = "idle"
  /\ engine' = IF PreflightOK THEN have ELSE engine
  /\ UNCHANGED <<have, interrupts>>

Init ==
  /\ stage = "idle" /\ have = {} /\ engine = NoEngine
  /\ interrupts = 0

Next == CheckPack \/ FetchFile \/ DownloadDone \/ Interrupted \/ Stop \/ Serve

Spec == Init /\ [][Next]_vars

-----------------------------------------------------------------------------
\* "pack present, skipping the download" (start.sh:47): the engine is only ever
\* started on the whole pack.
EngineHasWholePack == engine # NoEngine => engine = HubFiles
=============================================================================
