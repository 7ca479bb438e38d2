--------------------------- MODULE ServingProofs ---------------------------
(***************************************************************************)
(* Theorems about the serving stack, for every number of starts, crashes   *)
(* and other processes: stop.sh leaves no helper behind, the proxy that    *)
(* answers is one that stop.sh finds, the engine of a finished start is    *)
(* watched, and only three low samples in a row end it.  And about its     *)
(* proxy: it masks what it must, changes nothing else, refuses only what   *)
(* never ran, and ends a chunked stream as complete only when it is whole, *)
(* for any number of clients, any requests, any size of a block and of a   *)
(* response, and any failures of the engine.                               *)
(***************************************************************************)
EXTENDS ServingStack, BadWordsProxy, TLAPS

\* The forks that the start under way has still to do.
Pending ==
  IF next = "serve" /\ at \in {"rm", "pids", "serve", "ramwatch"} THEN 2
  ELSE IF at \in {"ramwatch_pid", "proxy"} THEN 1 ELSE 0

ScriptType ==
  /\ at \in Steps \cup {"idle"} /\ next \in {"serve", "idle"} /\ opts \in Options
  /\ verdict \in {"none", "ready", "failed", "aborted", "not_waiting"}
  /\ child \in Pids \cup {NoPid} /\ starts \in 0 .. MaxStarts
DockerType ==
  /\ engine \in {"none", "loading", "serving", "exited"}
  /\ retries \in 0 .. 1 /\ public \in BOOLEAN /\ logged \in BOOLEAN /\ low \in BOOLEAN
ProcType ==
  /\ proc \in [Pids -> {"free", "other"} \cup Helpers] /\ lastpid \in Nat
  /\ n \in [Pids -> 0 .. 2] /\ seen \in [Pids -> 0 .. 2]
  /\ pidfile \in [Helpers -> Pids \cup {NoPid}] /\ others \in 0 .. MaxOthers
  /\ lost \subseteq Pids

\* An id is left for every process that can still come, and ids above the last
\* are nobody's.
IdsLeft ==
  /\ lastpid + Pending <= 2 * starts + others
  /\ \A p \in Pids : p > lastpid => proc[p] = "free"
  /\ at \in {"serve", "ramwatch", "ramwatch_pid", "proxy", "proxy_pid", "poll", "report"} => next = "serve"

\* A helper that runs is the one its pid file names, or was forked a moment ago, or
\* its start was killed that moment.
Recorded ==
  \A p \in Pids : proc[p] \in Helpers =>
    pidfile[proc[p]] = p \/ (child = p /\ at = PidStep[proc[p]]) \/ p \in lost

\* stop.sh has made room for the helpers that are still to be forked.
RoomForHelpers ==
  /\ at \in {"pids", "serve"} => engine = "none"
  /\ at \in {"serve", "ramwatch"} => \A h \in Helpers : pidfile[h] = NoPid
  /\ at \in {"ramwatch_pid", "proxy"} => pidfile["proxy"] = NoPid
  /\ at \in {"serve", "ramwatch"} \/ (next = "serve" /\ at \in {"rm", "pids"}) => verdict = "none"
  /\ at = "ramwatch_pid" => pidfile["ramwatch"] = NoPid
  /\ at \in {"ramwatch_pid", "proxy_pid"} => child # NoPid
  /\ at = "proxy_pid" => pidfile["proxy"] = NoPid

\* From the fork of ramwatch on, the container of this start is watched.
Guarded == \E p \in Pids : proc[p] = "ramwatch"
WatchedSinceFork ==
  /\ verdict \in {"ready", "not_waiting"} => at \in {"idle", "rm", "pids"}
  /\ (\/ at \in {"ramwatch_pid", "proxy", "proxy_pid", "poll", "report"}
      \/ verdict \in {"ready", "not_waiting"}) /\ opts.ramwatch /\ Running => Guarded

\* A ramwatch never counts more than the samples it has seen.
CountsSeen == \A p \in Pids : n[p] <= seen[p]

Inv ==
  /\ ScriptType /\ DockerType /\ ProcType
  /\ IdsLeft /\ Recorded /\ RoomForHelpers /\ WatchedSinceFork /\ CountsSeen

-----------------------------------------------------------------------------
LEMMA Initially == Init => Inv
<1> SUFFICES ASSUME Init PROVE Inv
  OBVIOUS
<1>1. ScriptType /\ DockerType
  <2>1. opts \in Options /\ public \in BOOLEAN /\ logged \in BOOLEAN /\ low \in BOOLEAN
    BY DEF Init, Options
  <2> QED
    BY <2>1, StackAssumption DEF Init, ScriptType, DockerType, Steps, NoPid
<1>2. ProcType
  BY StackAssumption DEF Init, ProcType, Pids, NoPid, Helpers
<1>3. IdsLeft /\ Recorded /\ CountsSeen
  BY StackAssumption DEF Init, IdsLeft, Recorded, CountsSeen, Pending, Pids, Helpers
<1>4. RoomForHelpers /\ WatchedSinceFork
  BY DEF Init, RoomForHelpers, WatchedSinceFork
<1> QED
  BY <1>1, <1>2, <1>3, <1>4 DEF Inv

\* start.sh begins, and stop.sh by hand.
LEMMA BeginKeeps == Inv /\ (Start \/ StopByHand) => Inv'
<1> SUFFICES ASSUME Inv, Start \/ StopByHand PROVE Inv'
  OBVIOUS
<1> USE StackAssumption DEF ScriptType, DockerType, ProcType, docker, procs, script, Steps, Pids, NoPid, Inv
<1>1. ScriptType'
  BY DEF Start, StopByHand
<1>2. DockerType'
  BY DEF Start, StopByHand
<1>3. ProcType'
  BY DEF IdsLeft, Pending, Start, StopByHand
<1>4. IdsLeft'
  BY DEF Pending, Helpers, IdsLeft, Start, StopByHand
<1>5. Recorded'
  BY DEF IdsLeft, PidStep, RoomForHelpers, Helpers, Recorded, Start, StopByHand
<1>6. RoomForHelpers'
  BY DEF Recorded, Running, Helpers, RoomForHelpers, Start, StopByHand
<1>7. WatchedSinceFork'
  BY DEF RoomForHelpers, IdsLeft, Running, Guarded, Helpers, WatchedSinceFork, Start, StopByHand
<1>8. CountsSeen'
  BY DEF CountsSeen, Start, StopByHand
<1> QED
  BY <1>1, <1>2, <1>3, <1>4, <1>5, <1>6, <1>7, <1>8 DEF Inv

\* stop.sh: the container, one pid file after the other, the end.
LEMMA RemoveKeeps == Inv /\ RemoveContainer => Inv'
<1> SUFFICES ASSUME Inv, RemoveContainer PROVE Inv'
  OBVIOUS
<1> USE StackAssumption DEF ScriptType, DockerType, ProcType, docker, procs, script, Steps, Pids, NoPid, Inv
<1>1. ScriptType'
  BY DEF RemoveContainer
<1>2. DockerType'
  BY DEF RemoveContainer
<1>3. ProcType'
  BY DEF IdsLeft, Pending, RemoveContainer
<1>4. IdsLeft'
  BY DEF Pending, Helpers, IdsLeft, RemoveContainer
<1>5. Recorded'
  BY DEF IdsLeft, PidStep, RoomForHelpers, Helpers, Recorded, RemoveContainer
<1>6. RoomForHelpers'
  BY DEF Recorded, Running, Helpers, RoomForHelpers, RemoveContainer
<1>7. WatchedSinceFork'
  BY DEF RoomForHelpers, IdsLeft, Running, Guarded, Helpers, WatchedSinceFork, RemoveContainer
<1>8. CountsSeen'
  BY DEF CountsSeen, RemoveContainer
<1> QED
  BY <1>1, <1>2, <1>3, <1>4, <1>5, <1>6, <1>7, <1>8 DEF Inv

LEMMA StopHelperKeeps == Inv /\ StopHelper => Inv'
<1> SUFFICES ASSUME Inv, StopHelper PROVE Inv'
  OBVIOUS
<1> USE StackAssumption DEF ScriptType, DockerType, ProcType, docker, procs, script, Steps, Pids, NoPid, Inv
<1>1. ScriptType'
  BY DEF StopHelper
<1>2. DockerType'
  BY DEF StopHelper
<1>3. ProcType'
  BY DEF IdsLeft, Pending, StopHelper
<1>4. IdsLeft'
  BY DEF Pending, Helpers, IdsLeft, StopHelper
<1>5. Recorded'
  BY DEF IdsLeft, PidStep, RoomForHelpers, Helpers, Recorded, StopHelper
<1>6. RoomForHelpers'
  BY DEF Recorded, Running, Helpers, RoomForHelpers, StopHelper
<1>7. WatchedSinceFork'
  BY DEF RoomForHelpers, IdsLeft, Running, Guarded, Helpers, WatchedSinceFork, StopHelper
<1>8. CountsSeen'
  BY DEF CountsSeen, StopHelper
<1> QED
  BY <1>1, <1>2, <1>3, <1>4, <1>5, <1>6, <1>7, <1>8 DEF Inv

LEMMA StopDoneKeeps == Inv /\ StopDone => Inv'
<1> SUFFICES ASSUME Inv, StopDone PROVE Inv'
  OBVIOUS
<1> USE StackAssumption DEF ScriptType, DockerType, ProcType, docker, procs, script, Steps, Pids, NoPid, Inv
<1>1. ScriptType'
  BY DEF StopDone
<1>2. DockerType'
  BY DEF StopDone
<1>3. ProcType'
  BY DEF IdsLeft, Pending, StopDone
<1>4. IdsLeft'
  BY DEF Pending, Helpers, IdsLeft, StopDone
<1>5. Recorded'
  BY DEF IdsLeft, PidStep, RoomForHelpers, Helpers, Recorded, StopDone
<1>6. RoomForHelpers'
  BY DEF Recorded, Running, Helpers, RoomForHelpers, StopDone
<1>7. WatchedSinceFork'
  BY DEF RoomForHelpers, IdsLeft, Running, Guarded, Helpers, WatchedSinceFork, StopDone
<1>8. CountsSeen'
  BY DEF CountsSeen, StopDone
<1> QED
  BY <1>1, <1>2, <1>3, <1>4, <1>5, <1>6, <1>7, <1>8 DEF Inv

\* start.sh from docker run on.
LEMMA ServeKeeps == Inv /\ Serve => Inv'
<1> SUFFICES ASSUME Inv, Serve PROVE Inv'
  OBVIOUS
<1> USE StackAssumption DEF ScriptType, DockerType, ProcType, docker, procs, script, Steps, Pids, NoPid, Inv
<1>1. ScriptType'
  BY DEF Serve
<1>2. DockerType'
  <2>1. public' \in BOOLEAN
    <3>1. CASE public' = ~opts.proxy
      BY <3>1, Zenon
    <3>2. CASE UNCHANGED public
      BY <3>2
    <3> QED
      BY <3>1, <3>2 DEF Serve
  <2>2. /\ engine' \in {"loading", "none"} /\ UNCHANGED low
        /\ retries' \in {1, retries} /\ (logged' = FALSE \/ UNCHANGED logged)
    BY DEF Serve
  <2>3. retries' \in 0 .. 1 /\ engine' \in {"none", "loading", "serving", "exited"}
    BY <2>2
  <2>4. logged' \in BOOLEAN /\ low' \in BOOLEAN
    BY <2>2
  <2> QED
    BY <2>1, <2>3, <2>4
<1>3. ProcType'
  BY DEF IdsLeft, Pending, Serve
<1>4. IdsLeft'
  BY DEF Pending, Helpers, IdsLeft, Serve
<1>5. Recorded'
  BY DEF IdsLeft, PidStep, RoomForHelpers, Helpers, Recorded, Serve
<1>6. RoomForHelpers'
  BY DEF Recorded, Running, Helpers, RoomForHelpers, Serve
<1>7. WatchedSinceFork'
  BY DEF RoomForHelpers, IdsLeft, Running, Guarded, Helpers, WatchedSinceFork, Serve
<1>8. CountsSeen'
  BY DEF CountsSeen, Serve
<1> QED
  BY <1>1, <1>2, <1>3, <1>4, <1>5, <1>6, <1>7, <1>8 DEF Inv

LEMMA ForkKeeps == ASSUME NEW h \in Helpers, Inv, Fork(h) PROVE Inv'
<1> USE StackAssumption DEF ScriptType, DockerType, ProcType, docker, procs, script, Steps, Pids, NoPid, Inv
<1>1. /\ at = h /\ h \in {"ramwatch", "proxy"} /\ PidStep[h] \in {"ramwatch_pid", "proxy_pid"}
      /\ NextStep[h] \in {"proxy", "poll"} /\ opts[h] \in BOOLEAN
  BY DEF Fork, PidStep, NextStep, Options, Helpers
<1>2. /\ UNCHANGED <<next, opts, verdict, starts, docker, low, pidfile, others>>
      /\ next = "serve"
  BY <1>1 DEF Fork, IdsLeft
<1>3. CASE ~opts[h]
  <2>1. at' = NextStep[h] /\ UNCHANGED <<child, procs>>
    BY <1>3 DEF Fork
  <2>2. ScriptType' /\ DockerType' /\ ProcType' /\ CountsSeen'
    BY <1>1, <1>2, <2>1 DEF CountsSeen
  <2>3. IdsLeft'
    BY <1>1, <1>2, <2>1 DEF IdsLeft, Pending, NextStep, Helpers
  <2>4. Recorded' /\ RoomForHelpers'
    BY <1>1, <1>2, <2>1 DEF Recorded, RoomForHelpers, NextStep, PidStep, Helpers
  <2>5. WatchedSinceFork'
    BY <1>1, <1>2, <1>3, <2>1 DEF RoomForHelpers, WatchedSinceFork, NextStep, Running, Guarded
  <2> QED
    BY <2>2, <2>3, <2>4, <2>5
<1>4. CASE opts[h]
  <2>1. /\ child' = lastpid + 1 /\ lastpid' = lastpid + 1 /\ at' = PidStep[h]
        /\ proc' = [proc EXCEPT ![lastpid + 1] = IF h = "proxy" /\ PortTaken THEN "free" ELSE h]
        /\ n' = [n EXCEPT ![lastpid + 1] = 0] /\ seen' = [seen EXCEPT ![lastpid + 1] = 0]
        /\ UNCHANGED lost
    BY <1>4 DEF Fork
  <2>2. lastpid + 1 \in Pids /\ lastpid + 1 # 0
    BY <1>1, <1>2 DEF IdsLeft, Pending
  <2>3. ScriptType' /\ DockerType' /\ ProcType' /\ CountsSeen'
    BY <1>1, <1>2, <2>1, <2>2 DEF CountsSeen, Helpers
  <2>4. IdsLeft'
    BY <1>1, <1>2, <2>1, <2>2 DEF IdsLeft, Pending, PidStep, Helpers
  <2>5. Recorded' /\ RoomForHelpers'
    BY <1>1, <1>2, <2>1, <2>2 DEF Recorded, RoomForHelpers, PidStep, Helpers
  <2>6. WatchedSinceFork'
    <3>1. CASE h = "ramwatch"
      <4>1. proc'[lastpid + 1] = "ramwatch"
        BY <3>1, <2>1, <2>2
      <4>2. verdict' = "none"
        BY <3>1, <1>1, <1>2 DEF RoomForHelpers
      <4> QED
        BY <4>1, <4>2, <2>2 DEF WatchedSinceFork, Guarded
    <3>2. CASE h = "proxy"
      <4>1. Guarded => Guarded'
        BY <2>1, <2>2, <3>2 DEF IdsLeft, Guarded
      <4>2. at = "proxy" /\ at' = "proxy_pid"
        BY <3>2, <1>1, <2>1 DEF PidStep
      <4> QED
        BY <4>1, <4>2, <1>2 DEF WatchedSinceFork, Running
    <3> QED
      BY <3>1, <3>2, <1>1
  <2> QED
    BY <2>3, <2>4, <2>5, <2>6
<1> QED
  BY <1>3, <1>4

LEMMA WritePidKeeps == ASSUME NEW h \in Helpers, Inv, WritePid(h) PROVE Inv'
<1> USE StackAssumption DEF ScriptType, DockerType, ProcType, docker, procs, script, Steps, Pids, NoPid, Inv
<1>1. ScriptType'
  BY DEF WritePid, PidStep, NextStep, Helpers
<1>2. DockerType'
  BY DEF WritePid, PidStep, NextStep, Helpers
<1>3. ProcType'
  BY DEF IdsLeft, Pending, WritePid, PidStep, NextStep, Helpers
<1>4. IdsLeft'
  BY DEF Pending, Helpers, IdsLeft, WritePid, PidStep, NextStep, Helpers
<1>5. Recorded'
  BY DEF IdsLeft, PidStep, RoomForHelpers, Helpers, Recorded, WritePid, PidStep, NextStep, Helpers
<1>6. RoomForHelpers'
  BY DEF Recorded, Running, Helpers, RoomForHelpers, WritePid, PidStep, NextStep, Helpers
<1>7. WatchedSinceFork'
  BY DEF RoomForHelpers, IdsLeft, Running, Guarded, Helpers, WatchedSinceFork, WritePid, PidStep, NextStep, Helpers
<1>8. CountsSeen'
  BY DEF CountsSeen, WritePid, PidStep, NextStep, Helpers
<1> QED
  BY <1>1, <1>2, <1>3, <1>4, <1>5, <1>6, <1>7, <1>8 DEF Inv

LEMMA WaitKeeps == Inv /\ (Poll \/ Report) => Inv'
<1> SUFFICES ASSUME Inv, Poll \/ Report PROVE Inv'
  OBVIOUS
<1> USE StackAssumption DEF ScriptType, DockerType, ProcType, docker, procs, script, Steps, Pids, NoPid, Inv
<1>1. ScriptType'
  BY DEF Poll, Report, End, Running
<1>2. DockerType'
  BY DEF Poll, Report, End, Running
<1>3. ProcType'
  BY DEF IdsLeft, Pending, Poll, Report, End, Running
<1>4. IdsLeft'
  BY DEF Pending, Helpers, IdsLeft, Poll, Report, End, Running
<1>5. Recorded'
  BY DEF IdsLeft, PidStep, RoomForHelpers, Helpers, Recorded, Poll, Report, End, Running
<1>6. RoomForHelpers'
  BY DEF Recorded, Running, Helpers, RoomForHelpers, Poll, Report, End, Running
<1>7. WatchedSinceFork'
  BY DEF RoomForHelpers, IdsLeft, Running, Guarded, Helpers, WatchedSinceFork, Poll, Report, End, Running
<1>8. CountsSeen'
  BY DEF CountsSeen, Poll, Report, End, Running
<1> QED
  BY <1>1, <1>2, <1>3, <1>4, <1>5, <1>6, <1>7, <1>8 DEF Inv

LEMMA KillKeeps == Inv /\ Kill => Inv'
<1> SUFFICES ASSUME Inv, Kill PROVE Inv'
  OBVIOUS
<1> USE StackAssumption DEF ScriptType, DockerType, ProcType, docker, procs, script, Steps, Pids, NoPid, Inv
<1>1. ScriptType'
  BY DEF Kill
<1>2. DockerType'
  BY DEF Kill
<1>3. ProcType'
  BY DEF RoomForHelpers, Kill
<1>4. IdsLeft'
  BY DEF Pending, Helpers, IdsLeft, Kill
<1>5. Recorded'
  BY DEF IdsLeft, PidStep, RoomForHelpers, Helpers, Recorded, Kill
<1>6. RoomForHelpers'
  BY DEF Recorded, Running, Helpers, RoomForHelpers, Kill
<1>7. WatchedSinceFork'
  BY DEF RoomForHelpers, IdsLeft, Running, Guarded, Helpers, WatchedSinceFork, Kill
<1>8. CountsSeen'
  BY DEF CountsSeen, Kill
<1> QED
  BY <1>1, <1>2, <1>3, <1>4, <1>5, <1>6, <1>7, <1>8 DEF Inv

\* ramwatch, the engine and the machine.
LEMMA WatchKeeps == ASSUME NEW p \in Pids, Inv, Watch(p) PROVE Inv'
<1> USE StackAssumption DEF ScriptType, DockerType, ProcType, docker, procs, script, Steps, Pids, NoPid, Inv
<1>1. ScriptType'
  BY DEF Watch, Exit, TooLow, Count, Watched, Running, Helpers
<1>2. DockerType'
  BY DEF Watch, Exit, TooLow, Count, Watched, Running, Helpers
<1>3. ProcType'
  <2>1. CASE Watched /\ ~TooLow(p)
    <3>1. Count(p) \in 0 .. 2
      BY <2>1 DEF TooLow, Count
    <3> QED
      BY <2>1, <3>1, SMTT(30) DEF Watch, Exit, Running, Helpers
  <2>2. CASE ~(Watched /\ ~TooLow(p))
    <3>1. Exit(p) /\ UNCHANGED <<lastpid, lost, pidfile, others>>
      BY <2>2 DEF Watch
    <3> QED
      BY <3>1 DEF Exit
  <2> QED
    BY <2>1, <2>2
<1>4. IdsLeft'
  BY DEF Pending, Helpers, IdsLeft, Watch, Exit, TooLow, Count, Watched, Running, Helpers
<1>5. Recorded'
  BY DEF IdsLeft, PidStep, RoomForHelpers, Helpers, Recorded, Watch, Exit, TooLow, Count, Watched, Running, Helpers
<1>6. RoomForHelpers'
  BY DEF Recorded, Running, Helpers, RoomForHelpers, Watch, Exit, TooLow, Count, Watched, Running, Helpers
<1>7. WatchedSinceFork'
  BY DEF RoomForHelpers, IdsLeft, Running, Guarded, Helpers, WatchedSinceFork, Watch, Exit, TooLow, Count, Watched, Running, Helpers
<1>8. CountsSeen'
  BY DEF CountsSeen, Watch, Exit, TooLow, Count, Watched, Running, Helpers
<1> QED
  BY <1>1, <1>2, <1>3, <1>4, <1>5, <1>6, <1>7, <1>8 DEF Inv

LEMMA EngineKeeps == Inv /\ (EngineLogs \/ EngineServes \/ EngineFails \/ EngineCannotBind \/ Memory) => Inv'
<1> SUFFICES ASSUME Inv, EngineLogs \/ EngineServes \/ EngineFails \/ EngineCannotBind \/ Memory PROVE Inv'
  OBVIOUS
<1> USE StackAssumption DEF ScriptType, DockerType, ProcType, docker, procs, script, Steps, Pids, NoPid, Inv
<1>1. ScriptType'
  BY DEF EngineLogs, EngineServes, EngineFails, EngineCannotBind, Ends, Memory, Running
<1>2. DockerType'
  <2>1. CASE EngineFails \/ EngineCannotBind
    BY <2>1 DEF EngineFails, EngineCannotBind, Ends
  <2>2. CASE EngineLogs \/ EngineServes \/ Memory
    BY <2>2 DEF EngineLogs, EngineServes, Memory
  <2> QED
    BY <2>1, <2>2
<1>3. ProcType'
  BY DEF IdsLeft, Pending, EngineLogs, EngineServes, EngineFails, EngineCannotBind, Ends, Memory, Running
<1>4. IdsLeft'
  BY DEF Pending, Helpers, IdsLeft, EngineLogs, EngineServes, EngineFails, EngineCannotBind, Ends, Memory, Running
<1>5. Recorded'
  BY DEF IdsLeft, PidStep, RoomForHelpers, Helpers, Recorded, EngineLogs, EngineServes, EngineFails, EngineCannotBind, Ends, Memory, Running
<1>6. RoomForHelpers'
  BY DEF Recorded, Running, Helpers, RoomForHelpers, EngineLogs, EngineServes, EngineFails, EngineCannotBind, Ends, Memory, Running
<1>7. WatchedSinceFork'
  BY DEF RoomForHelpers, IdsLeft, Running, Guarded, Helpers, WatchedSinceFork, EngineLogs, EngineServes, EngineFails, EngineCannotBind, Ends, Memory, Running
<1>8. CountsSeen'
  BY DEF CountsSeen, EngineLogs, EngineServes, EngineFails, EngineCannotBind, Ends, Memory, Running
<1> QED
  BY <1>1, <1>2, <1>3, <1>4, <1>5, <1>6, <1>7, <1>8 DEF Inv

LEMMA MachineKeeps == Inv /\ (Reboot \/ OtherComes) => Inv'
<1> SUFFICES ASSUME Inv, Reboot \/ OtherComes PROVE Inv'
  OBVIOUS
<1> USE StackAssumption DEF ScriptType, DockerType, ProcType, docker, procs, script, Steps, Pids, NoPid, Inv
<1>1. ScriptType'
  BY DEF Reboot, OtherComes, Running, Helpers
<1>2. DockerType'
  BY DEF Reboot, OtherComes, Running, Helpers
<1>3. ProcType'
  <2>1. CASE Reboot
    BY <2>1 DEF Reboot
  <2>2. CASE OtherComes
    <3>1. lastpid + 1 \in Pids
      BY <2>2 DEF OtherComes, IdsLeft, Pending
    <3> QED
      BY <2>2, <3>1 DEF OtherComes
  <2> QED
    BY <2>1, <2>2
<1>4. IdsLeft'
  BY SMTT(30) DEF Pending, Helpers, IdsLeft, Reboot, OtherComes, Running, Helpers
<1>5. Recorded'
  BY SMTT(30) DEF IdsLeft, PidStep, RoomForHelpers, Helpers, Recorded, Reboot, OtherComes, Running, Helpers
<1>6. RoomForHelpers'
  BY DEF Recorded, Running, Helpers, RoomForHelpers, Reboot, OtherComes, Running, Helpers
<1>7. WatchedSinceFork'
  BY DEF RoomForHelpers, IdsLeft, Running, Guarded, Helpers, WatchedSinceFork, Reboot, OtherComes, Running, Helpers
<1>8. CountsSeen'
  BY DEF CountsSeen, Reboot, OtherComes, Running, Helpers
<1> QED
  BY <1>1, <1>2, <1>3, <1>4, <1>5, <1>6, <1>7, <1>8 DEF Inv

-----------------------------------------------------------------------------
LEMMA NextKeeps == Inv /\ [Next]_vars => Inv'
<1> SUFFICES ASSUME Inv, [Next]_vars PROVE Inv'
  OBVIOUS
<1>1. CASE Start \/ StopByHand
  BY <1>1, BeginKeeps
<1>2. CASE RemoveContainer \/ StopHelper \/ StopDone
  BY <1>2, RemoveKeeps, StopHelperKeeps, StopDoneKeeps
<1>3. CASE Serve \/ Poll \/ Report
  BY <1>3, ServeKeeps, WaitKeeps
<1>4. CASE StartHelpers
  BY <1>4, ForkKeeps, WritePidKeeps DEF StartHelpers
<1>5. CASE Kill
  BY <1>5, KillKeeps
<1>6. CASE \E p \in Pids : Watch(p)
  BY <1>6, WatchKeeps
<1>7. CASE EngineLogs \/ EngineServes \/ EngineFails \/ EngineCannotBind \/ Memory
  BY <1>7, EngineKeeps
<1>8. CASE Reboot \/ OtherComes
  BY <1>8, MachineKeeps
<1>9. CASE UNCHANGED vars
  BY <1>9 DEF vars, script, docker, procs, Inv, ScriptType, DockerType, ProcType, IdsLeft, Recorded,
     RoomForHelpers, WatchedSinceFork, CountsSeen, Pending, Running, Guarded
<1> QED
  BY <1>1, <1>2, <1>3, <1>4, <1>5, <1>6, <1>7, <1>8, <1>9 DEF Next, ScriptStep

LEMMA Invariance == Spec => []Inv
<1>1. Inv /\ [Next]_vars => Inv'
  BY NextKeeps
<1> QED
  BY <1>1, Initially, PTL DEF Spec

-----------------------------------------------------------------------------
\* Every variable of the scripts, docker and the process table keeps its type;
\* no more ids are used than the bound of the model leaves.
THEOREM TypeCorrect == Spec => []TypeOK
<1>1. Inv => TypeOK
  <2> SUFFICES ASSUME Inv PROVE TypeOK
    OBVIOUS
  <2>1. lastpid \in Pids \cup {0}
    BY StackAssumption DEF Inv, IdsLeft, Pending, ScriptType, ProcType, Pids
  <2> QED
    BY <2>1 DEF Inv, TypeOK, ScriptType, DockerType, ProcType
<1> QED
  BY <1>1, Invariance, PTL

\* Whenever stop.sh is done, by hand or at the head of start.sh, the container
\* is gone and no proxy and no ramwatch runs but those lost by a start that was
\* killed between a fork and the write of its pid file.
THEOREM NothingIsLeft == Spec => StopLeavesNothing
<1>1. Inv /\ [Next]_vars => [StopDone => engine = "none" /\ \A p \in Pids : proc[p] \in Helpers => p \in lost]_vars
  BY DEF Inv, StopDone, Recorded, RoomForHelpers, PidStep, Helpers, Pids, NoPid
<1> QED
  BY <1>1, Invariance, PTL DEF Spec, StopLeavesNothing

\* ramwatch ends the engine for three low samples in a row and nothing less.
THEOREM DipsAreSpared == Spec => DipNeverKills
<1>1. ASSUME Inv, NEW p \in Pids, Watch(p), Running, engine' = "exited"
      PROVE  low /\ seen[p] = 2
  <2>1. TooLow(p)
    BY <1>1 DEF Watch, Watched, Running
  <2>2. low /\ n[p] >= 2
    BY <1>1, <2>1 DEF TooLow, Count, Inv, ProcType
  <2> QED
    BY <1>1, <2>2 DEF Inv, ProcType, CountsSeen
<1>2. Inv => [\A p \in Pids : Watch(p) /\ Running /\ engine' = "exited" => low /\ seen[p] = 2]_vars
  BY <1>1
<1> QED
  BY <1>2, Invariance, PTL DEF DipNeverKills

\* A start that reports ready has its own proxy in front, in the pid file that
\* the next stop.sh reads, or one lost by an earlier start.
THEOREM ReadyIsOurs == Spec => ReadyProxyIsOurs
<1>1. ASSUME Inv, [Next]_vars, verdict # "ready", verdict' = "ready", opts.proxy
      PROVE  /\ engine = "serving"
             /\ \E p \in Pids : proc[p] = "proxy" /\ (pidfile["proxy"] = p \/ p \in lost)
  <2>1. Report
    BY <1>1 DEF Next, ScriptStep, Start, StopByHand, RemoveContainer, StopHelper, StopDone, Serve, StartHelpers,
       Fork, WritePid, Poll, End, Kill, Watch, EngineLogs, EngineServes, EngineFails, EngineCannotBind, Ends, Memory, OtherComes, Reboot,
       vars, script
  <2>2. ProxyAlive /\ engine = "serving" /\ at = "report"
    BY <1>1, <2>1 DEF Report, End
  <2> QED
    BY <1>1, <2>2 DEF ProxyAlive, Inv, Recorded, PidStep, Helpers
<1>2. Inv /\ [Next]_vars =>
        [verdict # "ready" /\ verdict' = "ready" /\ opts.proxy =>
           /\ engine = "serving"
           /\ \E p \in Pids : proc[p] = "proxy" /\ (pidfile["proxy"] = p \/ p \in lost)]_vars
  BY <1>1
<1> QED
  BY <1>2, Invariance, PTL DEF Spec, ReadyProxyIsOurs

\* The container of a finished start with RAMWATCH=1 is watched for as long as it
\* runs, through its restart too.
THEOREM WatcherStays == Spec => []EngineIsWatched
<1>1. Inv => EngineIsWatched
  BY DEF Inv, WatchedSinceFork, EngineIsWatched, Guarded
<1> QED
  BY <1>1, Invariance, PTL

-----------------------------------------------------------------------------
(***************************************************************************)
(* The proxy (BadWordsProxy).                                              *)
(***************************************************************************)

\* The upstream connection belongs to the request that is being handled.
UpstreamOfRequest ==
  \A c \in Clients :
    /\ pc[c] \in {"idle", "parsed", "closed"} => up[c] = "closed"
    /\ pc[c] = "parsed" => atEng[c] = NoBody /\ sent[c] = 0

\* The events of a response flow through the engine, the handler, the client.
EventsFlow ==
  \A c \in Clients :
    /\ flushed[c] \leq sent[c] /\ sent[c] \leq total[c] /\ got[c] \leq flushed[c]
    /\ up[c] = "queued" => sent[c] = 0
    /\ up[c] = "done" => sent[c] = total[c]

\* What a client sees belongs to where its handler is, and a client that is
\* still there has received what the handler has written.
ViewOfHandler ==
  \A c \in Clients :
    /\ view[c] \in {"complete", "refused", "cut"} => pc[c] \in {"idle", "closed"}
    /\ pc[c] \in {"parsed", "headers", "relay"} => conn[c] \in {"open", "left"}
    /\ conn[c] = "open" /\ pc[c] \in {"parsed", "headers", "relay"} => got[c] = flushed[c]

ProxyInv ==
  /\ ProxyTypeOK
  /\ UpstreamOfRequest
  /\ EventsFlow
  /\ ViewOfHandler
  /\ Masked
  /\ OthersVerbatim
  /\ RefusedNeverRan

-----------------------------------------------------------------------------
\* What _inject makes of a body, and what is sent upstream for a request.
LEMMA RequestType ==
  ASSUME NEW r \in Requests \cup {NoRequest}
  PROVE  \/ r = NoRequest
         \/ r \in Requests /\ r \in Request(Words) /\ r.body \in Body(Words)
            /\ r.body.words \subseteq Words
<1>1. CASE r \in Requests
  <2>1. r \in Request(Words)
    BY <1>1, ProxyAssumption
  <2>2. r.body \in Body(Words)
    BY <2>1 DEF Request
  <2>. QED
    BY <1>1, <2>1, <2>2 DEF Body
<1>. QED
  BY <1>1

LEMMA InjectType ==
  ASSUME NEW b \in Body(Words)
  PROVE  /\ Inject(b) \in Body(Words)
         /\ b.form # "object" => Inject(b) = b
         /\ b.form = "object" => /\ Inject(b).form = "object"
                                /\ Inject(b).words = b.words \cup BadWords
<1>1. BadWords \subseteq Words /\ b.words \subseteq Words
  BY DEF Words, Body
<1>2. CASE b.form # "object"
  BY <1>2 DEF Inject
<1>3. CASE b.form = "object"
  <2>1. b.have \in {"absent", "other", "list"} /\ DOMAIN b = {"form", "have", "words"}
    BY DEF Body
  <2>2. b = [form |-> b.form, have |-> b.have, words |-> b.words]
    BY DEF Body
  <2>3. Inject(b) = [form |-> "object", have |-> "list", words |-> b.words \cup BadWords]
    BY <1>3, <2>2 DEF Inject
  <2>. QED
    BY <1>1, <1>3, <2>3 DEF Body
<1>. QED
  BY <1>2, <1>3

\* What goes upstream for a request: its body, or nothing, or the masked body.
LEMMA OutgoingType ==
  ASSUME NEW r \in Requests \cup {NoRequest}
  PROVE  Outgoing(r) \in Body(Words) \cup {NoBody}
<1>1. CASE r = NoRequest
  BY <1>1 DEF NoRequest, Outgoing, ReadBody
<1>2. CASE r # NoRequest
  <2>1. r.body \in Body(Words)
    BY <1>2, RequestType
  <2>2. ReadBody(r) \in Body(Words)
    BY <2>1 DEF ReadBody, EmptyBody, Body
  <2>. QED
    BY <2>2, InjectType DEF Outgoing
<1>. QED
  BY <1>1, <1>2

LEMMA OutgoingMasks ==
  ASSUME NEW r \in Requests \cup {NoRequest},
         r.post, r.completion, Outgoing(r).form = "object"
  PROVE  BadWords \cup r.body.words \subseteq Outgoing(r).words
<1>1. r # NoRequest
  BY DEF NoRequest
<1>2. r.body \in Body(Words)
  BY <1>1, RequestType
<1>3. CASE r.sized
  <2>1. r.body.form = "object"
    BY <1>2, <1>3, InjectType DEF Outgoing, ReadBody
  <2>2. Outgoing(r) = Inject(r.body)
    BY <1>3, <2>1 DEF Outgoing, ReadBody
  <2>. QED
    BY <1>2, <2>1, <2>2, InjectType
<1>4. CASE ~r.sized
  BY <1>4 DEF Outgoing, ReadBody, EmptyBody
<1>. QED
  BY <1>3, <1>4

LEMMA OutgoingKeeps ==
  ASSUME NEW r \in Requests \cup {NoRequest},
         r.sized, r.post /\ r.completion => r.body.form # "object"
  PROVE  Outgoing(r) = r.body
<1>1. CASE r = NoRequest
  BY <1>1 DEF NoRequest, Outgoing, ReadBody
<1>2. CASE r # NoRequest
  BY <1>2, RequestType, InjectType DEF Outgoing, ReadBody
<1>. QED
  BY <1>1, <1>2

-----------------------------------------------------------------------------
LEMMA InitEstablishesProxyInv == ProxyInit => ProxyInv
<1>. SUFFICES ASSUME ProxyInit PROVE ProxyInv
  OBVIOUS
<1>. USE ProxyAssumption DEF ProxyInit
<1>1. ProxyTypeOK
  BY DEF ProxyTypeOK
<1>2. UpstreamOfRequest /\ EventsFlow /\ ViewOfHandler
  BY DEF UpstreamOfRequest, EventsFlow, ViewOfHandler
<1>3. Masked /\ OthersVerbatim /\ RefusedNeverRan
  BY DEF Masked, OthersVerbatim, RefusedNeverRan, NoBody
<1>. QED
  BY <1>1, <1>2, <1>3 DEF ProxyInv

LEMMA StepKeepsProxyInv == ProxyInv /\ [ProxyNext]_proxyVars => ProxyInv'
<1>. SUFFICES ASSUME ProxyInv, [ProxyNext]_proxyVars PROVE ProxyInv'
  OBVIOUS
<1>. USE ProxyAssumption DEF answer, world
<1>1. ASSUME NEW c \in Clients, SendRequest(c) PROVE ProxyInv'
  <2>. USE <1>1 DEF ProxyInv, SendRequest
  <2>1. ProxyTypeOK'
    BY DEF ProxyTypeOK
  <2>2. (UpstreamOfRequest /\ EventsFlow)'
    BY DEF ProxyTypeOK, UpstreamOfRequest, EventsFlow
  <2>3. ViewOfHandler'
    BY DEF ProxyTypeOK, ViewOfHandler
  <2>4. (Masked /\ OthersVerbatim /\ RefusedNeverRan)'
    <3>1. atEng'[c] = NoBody /\ view'[c] = "waiting"
      BY DEF ProxyTypeOK
    <3>2. \A d \in Clients \ {c} : atEng'[d] = atEng[d] /\ req'[d] = req[d] /\ view'[d] = view[d]
      BY DEF ProxyTypeOK
    <3>. QED
      BY <3>1, <3>2 DEF Masked, OthersVerbatim, RefusedNeverRan, NoBody
  <2>. QED
    BY <2>1, <2>2, <2>3, <2>4
<1>2. ASSUME NEW c \in Clients, HangUp(c) PROVE ProxyInv'
  <2>. USE <1>2 DEF ProxyInv, HangUp
  <2>1. ProxyTypeOK'
    BY DEF ProxyTypeOK
  <2>2. (UpstreamOfRequest /\ EventsFlow)'
    BY DEF ProxyTypeOK, UpstreamOfRequest, EventsFlow
  <2>3. ViewOfHandler'
    BY DEF ProxyTypeOK, ViewOfHandler
  <2>4. (Masked /\ OthersVerbatim /\ RefusedNeverRan)'
    BY DEF ProxyTypeOK, UpstreamOfRequest, ViewOfHandler, Masked, OthersVerbatim, RefusedNeverRan, NoBody
  <2>. QED
    BY <2>1, <2>2, <2>3, <2>4
<1>3. ASSUME NEW c \in Clients, Reconnect(c) PROVE ProxyInv'
  <2>. USE <1>3 DEF ProxyInv, Reconnect
  <2>1. ProxyTypeOK'
    BY DEF ProxyTypeOK
  <2>2. (UpstreamOfRequest /\ EventsFlow)'
    BY DEF ProxyTypeOK, UpstreamOfRequest, EventsFlow
  <2>3. ViewOfHandler'
    BY DEF ProxyTypeOK, ViewOfHandler
  <2>4. (Masked /\ OthersVerbatim /\ RefusedNeverRan)'
    BY DEF ProxyTypeOK, UpstreamOfRequest, ViewOfHandler, Masked, OthersVerbatim, RefusedNeverRan, NoBody
  <2>. QED
    BY <2>1, <2>2, <2>3, <2>4
<1>4. ASSUME NEW c \in Clients, Admit(c) PROVE ProxyInv'
  <2>. USE <1>4 DEF ProxyInv, Admit
  <2>1. ProxyTypeOK'
    BY DEF ProxyTypeOK
  <2>2. (UpstreamOfRequest /\ EventsFlow)'
    BY DEF ProxyTypeOK, UpstreamOfRequest, EventsFlow
  <2>3. ViewOfHandler'
    BY DEF ProxyTypeOK, ViewOfHandler
  <2>4. (Masked /\ OthersVerbatim /\ RefusedNeverRan)'
    BY DEF ProxyTypeOK, UpstreamOfRequest, ViewOfHandler, Masked, OthersVerbatim, RefusedNeverRan, NoBody
  <2>. QED
    BY <2>1, <2>2, <2>3, <2>4
<1>5. ASSUME NEW c \in Clients, Emit(c) PROVE ProxyInv'
  <2>. USE <1>5 DEF ProxyInv, Emit
  <2>1. ProxyTypeOK'
    BY DEF ProxyTypeOK
  <2>2. (UpstreamOfRequest /\ EventsFlow)'
    BY DEF ProxyTypeOK, UpstreamOfRequest, EventsFlow
  <2>3. ViewOfHandler'
    BY DEF ProxyTypeOK, ViewOfHandler
  <2>4. (Masked /\ OthersVerbatim /\ RefusedNeverRan)'
    BY DEF ProxyTypeOK, UpstreamOfRequest, ViewOfHandler, Masked, OthersVerbatim, RefusedNeverRan, NoBody
  <2>. QED
    BY <2>1, <2>2, <2>3, <2>4
<1>6. ASSUME NEW c \in Clients, Finish(c) PROVE ProxyInv'
  <2>. USE <1>6 DEF ProxyInv, Finish
  <2>1. ProxyTypeOK'
    BY DEF ProxyTypeOK
  <2>2. (UpstreamOfRequest /\ EventsFlow)'
    BY DEF ProxyTypeOK, UpstreamOfRequest, EventsFlow
  <2>3. ViewOfHandler'
    BY DEF ProxyTypeOK, ViewOfHandler
  <2>4. (Masked /\ OthersVerbatim /\ RefusedNeverRan)'
    BY DEF ProxyTypeOK, UpstreamOfRequest, ViewOfHandler, Masked, OthersVerbatim, RefusedNeverRan, NoBody
  <2>. QED
    BY <2>1, <2>2, <2>3, <2>4
<1>7. ASSUME NEW c \in Clients, Forward(c) PROVE ProxyInv'
  <2>. USE <1>7 DEF ProxyInv, Forward
  <2>1. ProxyTypeOK'
    <3>1. Outgoing(req[c]) \in Body(Words) \cup {NoBody}
      BY OutgoingType DEF ProxyTypeOK
    <3>. QED
      BY <3>1 DEF ProxyTypeOK
  <2>2. (UpstreamOfRequest /\ EventsFlow)'
    BY DEF ProxyTypeOK, UpstreamOfRequest, EventsFlow
  <2>3. ViewOfHandler'
    BY DEF ProxyTypeOK, ViewOfHandler
  <2>4. (Masked /\ OthersVerbatim /\ RefusedNeverRan)'
    <3>1. req[c] \in Requests \cup {NoRequest} /\ req' = req /\ view' = view
      BY DEF ProxyTypeOK
    <3>2. atEng'[c] = Outgoing(req[c]) /\ \A d \in Clients \ {c} : atEng'[d] = atEng[d]
      BY DEF ProxyTypeOK
    <3>3. Masked'
      BY <3>1, <3>2, OutgoingMasks DEF Masked
    <3>4. OthersVerbatim'
      BY <3>1, <3>2, OutgoingKeeps DEF OthersVerbatim
    <3>5. RefusedNeverRan'
      BY <3>1, <3>2 DEF ViewOfHandler, RefusedNeverRan
    <3>. QED
      BY <3>3, <3>4, <3>5
  <2>. QED
    BY <2>1, <2>2, <2>3, <2>4
<1>8. ASSUME NEW c \in Clients, Refuse(c) PROVE ProxyInv'
  <2>. USE <1>8 DEF ProxyInv, Refuse, Close
  <2>1. ProxyTypeOK'
    BY DEF ProxyTypeOK
  <2>2. (UpstreamOfRequest /\ EventsFlow)'
    BY DEF ProxyTypeOK, UpstreamOfRequest, EventsFlow
  <2>3. ViewOfHandler'
    BY DEF ProxyTypeOK, ViewOfHandler
  <2>4. (Masked /\ OthersVerbatim /\ RefusedNeverRan)'
    BY DEF ProxyTypeOK, UpstreamOfRequest, ViewOfHandler, Masked, OthersVerbatim, RefusedNeverRan, NoBody
  <2>. QED
    BY <2>1, <2>2, <2>3, <2>4
<1>9. ASSUME NEW c \in Clients, NoAnswer(c) PROVE ProxyInv'
  <2>. USE <1>9 DEF ProxyInv, NoAnswer, Close, Ended
  <2>1. ProxyTypeOK'
    BY DEF ProxyTypeOK
  <2>2. (UpstreamOfRequest /\ EventsFlow)'
    BY DEF ProxyTypeOK, UpstreamOfRequest, EventsFlow
  <2>3. ViewOfHandler'
    BY DEF ProxyTypeOK, ViewOfHandler
  <2>4. (Masked /\ OthersVerbatim /\ RefusedNeverRan)'
    BY DEF ProxyTypeOK, UpstreamOfRequest, ViewOfHandler, Masked, OthersVerbatim, RefusedNeverRan, NoBody
  <2>. QED
    BY <2>1, <2>2, <2>3, <2>4
<1>10. ASSUME NEW c \in Clients, Begin(c) PROVE ProxyInv'
  <2>. USE <1>10 DEF ProxyInv, Begin
  <2>1. ProxyTypeOK'
    BY DEF ProxyTypeOK
  <2>2. (UpstreamOfRequest /\ EventsFlow)'
    BY DEF ProxyTypeOK, UpstreamOfRequest, EventsFlow
  <2>3. ViewOfHandler'
    BY DEF ProxyTypeOK, ViewOfHandler
  <2>4. (Masked /\ OthersVerbatim /\ RefusedNeverRan)'
    BY DEF ProxyTypeOK, UpstreamOfRequest, ViewOfHandler, Masked, OthersVerbatim, RefusedNeverRan, NoBody
  <2>. QED
    BY <2>1, <2>2, <2>3, <2>4
<1>11. ASSUME NEW c \in Clients, Flush(c) PROVE ProxyInv'
  <2>. USE <1>11 DEF ProxyInv, Flush, ReadReturns, Avail, AtEnd
  <2>1. ProxyTypeOK'
    <3>1. /\ flushed[c] \in Nat /\ sent[c] \in Nat /\ total[c] \in Nat /\ got[c] \in Nat
          /\ total[c] \leq MaxEvents /\ flushed[c] \leq sent[c] /\ sent[c] \leq total[c]
          /\ got[c] \leq flushed[c]
      BY DEF ProxyTypeOK, EventsFlow
    <3>2. flushed'[c] \in 0 .. MaxEvents /\ got'[c] \in 0 .. MaxEvents
      BY <3>1 DEF ProxyTypeOK
    <3>3. flushed' \in [Clients -> 0 .. MaxEvents] /\ got' \in [Clients -> 0 .. MaxEvents]
      BY <3>2 DEF ProxyTypeOK
    <3>. QED
      BY <3>3 DEF ProxyTypeOK
  <2>2. (UpstreamOfRequest /\ EventsFlow)'
    BY DEF ProxyTypeOK, UpstreamOfRequest, EventsFlow
  <2>3. ViewOfHandler'
    BY DEF ProxyTypeOK, ViewOfHandler
  <2>4. (Masked /\ OthersVerbatim /\ RefusedNeverRan)'
    BY DEF ProxyTypeOK, UpstreamOfRequest, ViewOfHandler, Masked, OthersVerbatim, RefusedNeverRan, NoBody
  <2>. QED
    BY <2>1, <2>2, <2>3, <2>4
<1>12. ASSUME NEW c \in Clients, Terminate(c) PROVE ProxyInv'
  <2>. USE <1>12 DEF ProxyInv, Terminate, After, Avail, AtEnd
  <2>1. ProxyTypeOK'
    BY DEF ProxyTypeOK
  <2>2. (UpstreamOfRequest /\ EventsFlow)'
    BY DEF ProxyTypeOK, UpstreamOfRequest, EventsFlow
  <2>3. ViewOfHandler'
    BY DEF ProxyTypeOK, ViewOfHandler
  <2>4. (Masked /\ OthersVerbatim /\ RefusedNeverRan)'
    BY DEF ProxyTypeOK, UpstreamOfRequest, ViewOfHandler, Masked, OthersVerbatim, RefusedNeverRan, NoBody
  <2>. QED
    BY <2>1, <2>2, <2>3, <2>4
<1>13. ASSUME NEW c \in Clients, Broken(c) PROVE ProxyInv'
  <2>. USE <1>13 DEF ProxyInv, Broken, Close, Ended
  <2>1. ProxyTypeOK'
    BY DEF ProxyTypeOK
  <2>2. (UpstreamOfRequest /\ EventsFlow)'
    BY DEF ProxyTypeOK, UpstreamOfRequest, EventsFlow
  <2>3. ViewOfHandler'
    BY DEF ProxyTypeOK, ViewOfHandler
  <2>4. (Masked /\ OthersVerbatim /\ RefusedNeverRan)'
    BY DEF ProxyTypeOK, UpstreamOfRequest, ViewOfHandler, Masked, OthersVerbatim, RefusedNeverRan, NoBody
  <2>. QED
    BY <2>1, <2>2, <2>3, <2>4
<1>14. ASSUME NEW c \in Clients, Swallowed(c) PROVE ProxyInv'
  <2>. USE <1>14 DEF ProxyInv, Swallowed, After, Ended
  <2>1. ProxyTypeOK'
    BY DEF ProxyTypeOK
  <2>2. (UpstreamOfRequest /\ EventsFlow)'
    BY DEF ProxyTypeOK, UpstreamOfRequest, EventsFlow
  <2>3. ViewOfHandler'
    BY DEF ProxyTypeOK, ViewOfHandler
  <2>4. (Masked /\ OthersVerbatim /\ RefusedNeverRan)'
    BY DEF ProxyTypeOK, UpstreamOfRequest, ViewOfHandler, Masked, OthersVerbatim, RefusedNeverRan, NoBody
  <2>. QED
    BY <2>1, <2>2, <2>3, <2>4
<1>15. ASSUME NEW c \in Clients, WriteFails(c) PROVE ProxyInv'
  <2>. USE <1>15 DEF ProxyInv, WriteFails, Close, Writing
  <2>1. ProxyTypeOK'
    BY DEF ProxyTypeOK
  <2>2. (UpstreamOfRequest /\ EventsFlow)'
    BY DEF ProxyTypeOK, UpstreamOfRequest, EventsFlow
  <2>3. ViewOfHandler'
    BY DEF ProxyTypeOK, ViewOfHandler
  <2>4. (Masked /\ OthersVerbatim /\ RefusedNeverRan)'
    BY DEF ProxyTypeOK, UpstreamOfRequest, ViewOfHandler, Masked, OthersVerbatim, RefusedNeverRan, NoBody
  <2>. QED
    BY <2>1, <2>2, <2>3, <2>4
<1>16. ASSUME NEW c \in Clients, CloseIdle(c) PROVE ProxyInv'
  <2>. USE <1>16 DEF ProxyInv, CloseIdle, Close
  <2>1. ProxyTypeOK'
    BY DEF ProxyTypeOK
  <2>2. (UpstreamOfRequest /\ EventsFlow)'
    BY DEF ProxyTypeOK, UpstreamOfRequest, EventsFlow
  <2>3. ViewOfHandler'
    BY DEF ProxyTypeOK, ViewOfHandler
  <2>4. (Masked /\ OthersVerbatim /\ RefusedNeverRan)'
    BY DEF ProxyTypeOK, UpstreamOfRequest, ViewOfHandler, Masked, OthersVerbatim, RefusedNeverRan, NoBody
  <2>. QED
    BY <2>1, <2>2, <2>3, <2>4
<1>17. CASE EngineDown
  <2>1. ProxyTypeOK'
    <3>1. ProxyTypeOK
      BY DEF ProxyInv
    <3>2. up' \in [Clients -> {"closed", "queued", "running", "done", "fin", "rst"}]
      <4>1. up \in [Clients -> {"closed", "queued", "running", "done", "fin", "rst"}]
        BY <3>1 DEF ProxyTypeOK
      <4>2. PICK cut \in [Clients -> Cuts] :
              up' = [c \in Clients |-> IF up[c] \in {"queued", "running"} THEN cut[c] ELSE up[c]]
        BY <1>17 DEF EngineDown
      <4>3. \A c \in Clients : cut[c] \in {"fin", "rst"}
        BY <4>2, ProxyAssumption
      <4>. QED
        BY <4>1, <4>2, <4>3
    <3>3. downs' \in 0 .. MaxDowns
      BY <1>17, <3>1 DEF ProxyTypeOK, EngineDown
    <3>. QED
      BY <1>17, <3>1, <3>2, <3>3 DEF ProxyTypeOK, EngineDown
  <2>. USE <1>17 DEF ProxyInv, EngineDown
  <2>2. (UpstreamOfRequest /\ EventsFlow /\ ViewOfHandler)'
    BY DEF ProxyTypeOK, UpstreamOfRequest, EventsFlow, ViewOfHandler
  <2>3. (Masked /\ OthersVerbatim /\ RefusedNeverRan)'
    BY DEF Masked, OthersVerbatim, RefusedNeverRan
  <2>. QED
    BY <2>1, <2>2, <2>3
<1>18. CASE EngineUp
  <2>. USE <1>18 DEF ProxyInv, EngineUp
  <2>1. ProxyTypeOK'
    BY DEF ProxyTypeOK
  <2>2. (UpstreamOfRequest /\ EventsFlow /\ ViewOfHandler)'
    BY DEF ProxyTypeOK, UpstreamOfRequest, EventsFlow, ViewOfHandler
  <2>3. (Masked /\ OthersVerbatim /\ RefusedNeverRan)'
    BY DEF Masked, OthersVerbatim, RefusedNeverRan
  <2>. QED
    BY <2>1, <2>2, <2>3
<1>19. CASE UNCHANGED proxyVars
  BY <1>19 DEF proxyVars, ProxyInv, ProxyTypeOK, UpstreamOfRequest, EventsFlow, ViewOfHandler,
              Masked, OthersVerbatim, RefusedNeverRan
<1>. QED
  BY <1>1, <1>2, <1>3, <1>4, <1>5, <1>6, <1>7, <1>8, <1>9, <1>10, <1>11, <1>12, <1>13, <1>14, <1>15, <1>16, <1>17, <1>18, <1>19 DEF ProxyNext, Handler, Rest

LEMMA ProxyInvIsInvariant == ProxySpec => []ProxyInv
BY InitEstablishesProxyInv, StepKeepsProxyInv, PTL DEF ProxySpec, StreamSpec

-----------------------------------------------------------------------------
\* The types of the variables, for any number of clients.
THEOREM ProxyTypeCorrect == ProxySpec => []ProxyTypeOK
<1>1. ProxyInv => ProxyTypeOK
  BY DEF ProxyInv
<1>. QED
  BY <1>1, ProxyInvIsInvariant, PTL

\* Whatever a client sends, a completion request with a JSON object reaches the
\* engine with every masked word and every word the client asked for.
THEOREM EngineSeesMask == ProxySpec => []Masked
<1>1. ProxyInv => Masked
  BY DEF ProxyInv
<1>. QED
  BY <1>1, ProxyInvIsInvariant, PTL

\* Anything else that came with a Content-Length is forwarded as it came.
THEOREM RestIsUntouched == ProxySpec => []OthersVerbatim
<1>1. ProxyInv => OthersVerbatim
  BY DEF ProxyInv
<1>. QED
  BY <1>1, ProxyInvIsInvariant, PTL

\* Whenever and however the engine fails, a 502 is only ever the answer to a
\* request that the engine has not seen.
THEOREM RefusalIsSafeToRetry == ProxySpec => []RefusedNeverRan
<1>1. ProxyInv => RefusedNeverRan
  BY DEF ProxyInv
<1>. QED
  BY <1>1, ProxyInvIsInvariant, PTL

-----------------------------------------------------------------------------
\* One step, when the engine delimits its responses by chunks: the end that the
\* handler relays is then the engine's own.
LEMMA StepKeepsComplete ==
  ASSUME Framings = {"chunked"}
  PROVE  ProxyInv /\ CompleteIsWhole /\ [ProxyNext]_proxyVars => CompleteIsWhole'
<1>. SUFFICES ASSUME ProxyInv, CompleteIsWhole, [ProxyNext]_proxyVars PROVE CompleteIsWhole'
  OBVIOUS
<1>. USE DEF answer, world
<1>1. ASSUME NEW c \in Clients, SendRequest(c) PROVE CompleteIsWhole'
  BY <1>1 DEF SendRequest, ProxyInv, ProxyTypeOK, UpstreamOfRequest, ViewOfHandler, CompleteIsWhole
<1>2. ASSUME NEW c \in Clients, HangUp(c) PROVE CompleteIsWhole'
  BY <1>2 DEF HangUp, ProxyInv, ProxyTypeOK, UpstreamOfRequest, ViewOfHandler, CompleteIsWhole
<1>3. ASSUME NEW c \in Clients, Reconnect(c) PROVE CompleteIsWhole'
  BY <1>3 DEF Reconnect, ProxyInv, ProxyTypeOK, UpstreamOfRequest, ViewOfHandler, CompleteIsWhole
<1>4. ASSUME NEW c \in Clients, Admit(c) PROVE CompleteIsWhole'
  BY <1>4 DEF Admit, ProxyInv, ProxyTypeOK, UpstreamOfRequest, ViewOfHandler, CompleteIsWhole
<1>5. ASSUME NEW c \in Clients, Emit(c) PROVE CompleteIsWhole'
  BY <1>5 DEF Emit, ProxyInv, ProxyTypeOK, UpstreamOfRequest, ViewOfHandler, CompleteIsWhole
<1>6. ASSUME NEW c \in Clients, Finish(c) PROVE CompleteIsWhole'
  BY <1>6 DEF Finish, ProxyInv, ProxyTypeOK, UpstreamOfRequest, ViewOfHandler, CompleteIsWhole
<1>7. ASSUME NEW c \in Clients, Forward(c) PROVE CompleteIsWhole'
  BY <1>7 DEF Forward, ProxyInv, ProxyTypeOK, UpstreamOfRequest, ViewOfHandler, CompleteIsWhole
<1>8. ASSUME NEW c \in Clients, Refuse(c) PROVE CompleteIsWhole'
  BY <1>8 DEF Refuse, Close, ProxyInv, ProxyTypeOK, UpstreamOfRequest, ViewOfHandler, CompleteIsWhole
<1>9. ASSUME NEW c \in Clients, NoAnswer(c) PROVE CompleteIsWhole'
  BY <1>9 DEF NoAnswer, Close, Ended, ProxyInv, ProxyTypeOK, UpstreamOfRequest, ViewOfHandler, CompleteIsWhole
<1>10. ASSUME NEW c \in Clients, Begin(c) PROVE CompleteIsWhole'
  BY <1>10 DEF Begin, ProxyInv, ProxyTypeOK, UpstreamOfRequest, ViewOfHandler, CompleteIsWhole
<1>11. ASSUME NEW c \in Clients, Flush(c) PROVE CompleteIsWhole'
  BY <1>11 DEF Flush, ReadReturns, ProxyInv, ProxyTypeOK, UpstreamOfRequest, ViewOfHandler, CompleteIsWhole
<1>12. ASSUME NEW c \in Clients, Terminate(c) PROVE CompleteIsWhole'
  <2>1. up[c] = "done"
    BY <1>12 DEF Terminate, AtEnd, ProxyInv, ProxyTypeOK
  <2>2. sent[c] = total[c] /\ flushed[c] = sent[c]
    BY <1>12, <2>1 DEF Terminate, Avail, ProxyInv, ProxyTypeOK, EventsFlow
  <2>3. conn[c] = "open" => got[c] = total[c]
    BY <1>12, <2>2 DEF Terminate, ProxyInv, ViewOfHandler
  <2>4. conn[c] # "open" => view'[c] # "complete"
    BY <1>12 DEF Terminate, ProxyInv, ProxyTypeOK, ViewOfHandler
  <2>. QED
    BY <1>12, <2>3, <2>4 DEF Terminate, ProxyInv, ProxyTypeOK, CompleteIsWhole
<1>13. ASSUME NEW c \in Clients, Broken(c) PROVE CompleteIsWhole'
  BY <1>13 DEF Broken, Close, Ended, ProxyInv, ProxyTypeOK, UpstreamOfRequest, ViewOfHandler, CompleteIsWhole
<1>14. ASSUME NEW c \in Clients, Swallowed(c) PROVE CompleteIsWhole'
  BY <1>14 DEF Swallowed, After, Ended, ProxyInv, ProxyTypeOK, UpstreamOfRequest, ViewOfHandler, CompleteIsWhole
<1>15. ASSUME NEW c \in Clients, WriteFails(c) PROVE CompleteIsWhole'
  BY <1>15 DEF WriteFails, Close, ProxyInv, ProxyTypeOK, UpstreamOfRequest, ViewOfHandler, CompleteIsWhole
<1>16. ASSUME NEW c \in Clients, CloseIdle(c) PROVE CompleteIsWhole'
  BY <1>16 DEF CloseIdle, Close, ProxyInv, ProxyTypeOK, UpstreamOfRequest, ViewOfHandler, CompleteIsWhole
<1>17. CASE EngineDown
  BY <1>17 DEF EngineDown, CompleteIsWhole
<1>18. CASE EngineUp
  BY <1>18 DEF EngineUp, CompleteIsWhole
<1>19. CASE UNCHANGED proxyVars
  BY <1>19 DEF proxyVars, CompleteIsWhole
<1>. QED
  BY <1>1, <1>2, <1>3, <1>4, <1>5, <1>6, <1>7, <1>8, <1>9, <1>10, <1>11, <1>12, <1>13, <1>14, <1>15, <1>16, <1>17, <1>18, <1>19 DEF ProxyNext, Handler, Rest

\* An engine that answers in chunks, as vLLM does for a stream: what looks
\* complete to a client is the whole response, wherever the connection breaks.
THEOREM NoTruncatedEnd ==
  ASSUME Framings = {"chunked"}
  PROVE  ProxySpec => []CompleteIsWhole
<1>1. ProxyInit => CompleteIsWhole
  BY DEF ProxyInit, CompleteIsWhole
<1>2. ProxyInv /\ CompleteIsWhole /\ [ProxyNext]_proxyVars => CompleteIsWhole'
  BY StepKeepsComplete
<1>. QED
  BY <1>1, <1>2, ProxyInvIsInvariant, PTL DEF ProxySpec, StreamSpec
=============================================================================
