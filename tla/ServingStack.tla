---------------------------- MODULE ServingStack ----------------------------
(***************************************************************************)
(* What start.sh runs once the pack is there (lines 73-102), and what it   *)
(* leaves behind: the engine container, the ramwatch and proxy processes,  *)
(* and the pid files by which stop.sh finds them on the next start.        *)
(* Docker, the engine's load, the memory of the machine and the other      *)
(* processes of the user are external.  Process ids count up, and start    *)
(* again when the machine does.                                            *)
(***************************************************************************)
EXTENDS Naturals, Sequences, FiniteSets

CONSTANTS
  KillPoints, \* the steps of start.sh and stop.sh before which they are killed
  MaxStarts,  \* bound: runs of start.sh
  MaxCrashes, \* bound: how often the engine fails or the machine is started again
  MaxOthers   \* bound: processes of others that come while the scripts are used

Steps == {"rm", "pids", "serve", "ramwatch", "ramwatch_pid", "proxy", "proxy_pid",
          "poll", "report"}
Helpers == {"ramwatch", "proxy"}

ASSUME StackAssumption ==
  /\ KillPoints \subseteq Steps
  /\ MaxStarts \in Nat /\ MaxCrashes \in Nat /\ MaxOthers \in Nat

\* As many ids as processes can come between two starts of the machine.
Pids  == 1 .. 2 * MaxStarts + MaxOthers
NoPid == 0

VARIABLES
  at,      \* the step start.sh or stop.sh is at, "idle" when none runs
  next,    \* what follows stop.sh: "serve" in start.sh, "idle" by hand
  child,   \* $!, the process started last
  opts,    \* PROXY, RAMWATCH and not --no-wait
  verdict, \* how the last start.sh ended
  engine,  \* the container: none, loading, serving, exited
  retries, \* restarts left of --restart on-failure:1
  public,  \* the engine itself listens on PORT
  logged,  \* the container's log has a line that start.sh looks for
  low,     \* MemAvailable is under the floor
  proc,    \* the process table
  lastpid, \* the id given last
  n,       \* the counter of a ramwatch process
  seen,    \* its samples under the floor since the last one over it, 2 for more
  pidfile, \* .run/<helper>.pid
  lost,    \* history: helpers whose start was killed between & and echo $!; no
           \* action reads it
  starts, crashes, others  \* so far

script == <<at, next, opts, verdict, starts, child>>
docker == <<engine, retries, public, logged, crashes>>
procs  == <<proc, lastpid, n, seen, lost>>
vars   == <<script, docker, low, procs, pidfile, others>>

Options == [proxy : BOOLEAN, ramwatch : BOOLEAN, wait : BOOLEAN]

Init ==
  /\ at = "idle" /\ next = "idle" /\ verdict = "none" /\ starts = 0 /\ child = NoPid
  /\ opts = [proxy |-> TRUE, ramwatch |-> TRUE, wait |-> TRUE]
  /\ engine = "none" /\ retries = 0 /\ public = FALSE /\ logged = FALSE
  /\ crashes = 0 /\ low = FALSE /\ others = 0
  /\ proc = [p \in Pids |-> "free"] /\ lastpid = 0
  /\ n = [p \in Pids |-> 0] /\ seen = [p \in Pids |-> 0]
  /\ pidfile = [h \in Helpers |-> NoPid] /\ lost = {}

Running == engine \in {"loading", "serving"}
ProxyAlive == \E p \in Pids : proc[p] = "proxy"

\* Both the proxy and an engine without one listen on PORT.
PortTaken == ProxyAlive \/ (public /\ engine = "serving")

-----------------------------------------------------------------------------
(***************************************************************************)
(* start.sh and stop.sh.                                                   *)
(***************************************************************************)

\* Mutant of Start: stop.sh is not run first.
Start_NoStop ==
  /\ at = "idle" /\ starts < MaxStarts
  /\ at' = "serve" /\ next' = "serve" /\ verdict' = "none" /\ starts' = starts + 1
  /\ opts' \in Options
  /\ UNCHANGED <<child, docker, low, procs, pidfile, others>>

Start ==
  /\ at = "idle" /\ starts < MaxStarts
  /\ at' = "rm" /\ next' = "serve" /\ verdict' = "none" /\ starts' = starts + 1
  /\ opts' \in Options
  /\ UNCHANGED <<child, docker, low, procs, pidfile, others>>

StopByHand ==
  /\ at = "idle" /\ at' = "rm" /\ next' = "idle"
  /\ UNCHANGED <<opts, verdict, starts, child, docker, low, procs, pidfile, others>>

\* docker rm -f; the engine's memory is free again.
RemoveContainer ==
  /\ at = "rm" /\ at' = "pids"
  /\ engine' = "none" /\ low' = FALSE
  /\ UNCHANGED <<next, opts, verdict, starts, child, retries, public, logged, crashes,
                 procs, pidfile, others>>

\* Mutant of StopHelper: the pid files are removed and nothing is killed.
StopHelper_RmOnly ==
  /\ at = "pids"
  /\ \E h \in Helpers :
       pidfile[h] # NoPid /\ pidfile' = [pidfile EXCEPT ![h] = NoPid]
  /\ UNCHANGED <<script, docker, low, procs, others>>

\* For each pid file: kill the process if there is one, remove the file.
StopHelper ==
  /\ at = "pids"
  /\ \E h \in Helpers :
       /\ pidfile[h] # NoPid
       /\ proc' = [proc EXCEPT ![pidfile[h]] = "free"]
       /\ pidfile' = [pidfile EXCEPT ![h] = NoPid]
  /\ UNCHANGED <<script, docker, low, lastpid, n, seen, lost, others>>

StopDone ==
  /\ at = "pids" /\ \A h \in Helpers : pidfile[h] = NoPid
  /\ at' = next
  /\ UNCHANGED <<next, opts, verdict, starts, child, docker, low, procs, pidfile, others>>

\* serve.sh: docker rm -f again and docker run, which may fail.
Serve ==
  /\ at = "serve"
  /\ \/ /\ engine' = "loading" /\ retries' = 1 /\ logged' = FALSE
        /\ public' = ~opts.proxy /\ at' = "ramwatch" /\ UNCHANGED verdict
     \/ /\ engine' = "none" /\ at' = "idle" /\ verdict' = "failed"
        /\ UNCHANGED <<retries, logged, public>>
  /\ UNCHANGED <<next, opts, starts, child, crashes, low, procs, pidfile, others>>

\* The step that follows a fork, and the one that follows its pid file.
PidStep  == [ramwatch |-> "ramwatch_pid", proxy |-> "proxy_pid"]
NextStep == [ramwatch |-> "proxy", proxy |-> "poll"]

\* nohup ... & starts a process; a proxy that finds PORT taken ends at once.
Fork(h) ==
  /\ at = h
  /\ IF ~opts[h] THEN at' = NextStep[h] /\ UNCHANGED <<child, procs>>
     ELSE LET p == lastpid + 1 IN
            /\ child' = p /\ lastpid' = p
            /\ at' = PidStep[h]
            /\ proc' = [proc EXCEPT ![p] = IF h = "proxy" /\ PortTaken THEN "free" ELSE h]
            /\ n' = [n EXCEPT ![p] = 0] /\ seen' = [seen EXCEPT ![p] = 0]
            /\ UNCHANGED lost
  /\ UNCHANGED <<next, opts, verdict, starts, docker, low, pidfile, others>>

\* echo $! >.run/<helper>.pid
WritePid(h) ==
  /\ at = PidStep[h] /\ at' = NextStep[h]
  /\ pidfile' = [pidfile EXCEPT ![h] = child] /\ child' = NoPid
  /\ UNCHANGED <<next, opts, verdict, starts, docker, low, procs, others>>

StartHelpers == \E h \in Helpers : Fork(h) \/ WritePid(h)

End(v) == at' = "idle" /\ verdict' = v

\* Mutant of Poll: the container is not looked for.
Poll_NoPs ==
  /\ at = "poll"
  /\ IF ~opts.wait THEN End("not_waiting")
     ELSE IF engine = "serving" THEN at' = "report" /\ UNCHANGED verdict
     ELSE ~logged /\ Running /\ End("aborted")
  /\ UNCHANGED <<next, opts, starts, child, docker, low, procs, pidfile, others>>

\* One turn of the wait loop: ready, the container is gone, or the log is
\* searched; when no line matches, the pipeline of line 94 fails under
\* set -e -o pipefail.  A turn that ends in sleep 10 changes nothing.
Poll ==
  /\ at = "poll"
  /\ IF ~opts.wait THEN End("not_waiting")
     ELSE IF engine = "serving" THEN at' = "report" /\ UNCHANGED verdict
     ELSE IF ~Running THEN End("failed")
     ELSE ~logged /\ End("aborted")
  /\ UNCHANGED <<next, opts, starts, child, docker, low, procs, pidfile, others>>

\* The lines of the load are shown: where the log has none of the two kinds, the
\* pipeline of line 99 fails as that of line 94 does.  Then the proxy must answer,
\* through to the engine.
Report ==
  /\ at = "report"
  /\ \/ End("aborted")
     \/ End(IF opts.proxy => ProxyAlive /\ engine = "serving" THEN "ready" ELSE "failed")
  /\ UNCHANGED <<next, opts, starts, child, docker, low, procs, pidfile, others>>

\* Ctrl-C or a lost session; the helpers run under nohup and go on, with or
\* without a pid file.
Kill ==
  /\ at \in KillPoints /\ at' = "idle" /\ child' = NoPid
  /\ lost' = IF at \in {"ramwatch_pid", "proxy_pid"} THEN lost \cup {child} ELSE lost
  /\ UNCHANGED <<next, opts, verdict, starts, docker, low, proc, lastpid, n, seen, pidfile, others>>

-----------------------------------------------------------------------------
(***************************************************************************)
(* ramwatch.sh: one turn of its loop.                                      *)
(***************************************************************************)

Exit(p) ==
  /\ proc' = [proc EXCEPT ![p] = "free"]
  /\ n' = [n EXCEPT ![p] = 0] /\ seen' = [seen EXCEPT ![p] = 0]

\* Mutant of Count: a sample over the floor does not start again.
Count_NoReset(p) == IF low THEN n[p] + 1 ELSE n[p]

Count(p) == IF low THEN n[p] + 1 ELSE 0

\* Three samples in a row.
TooLow(p) == Count(p) >= 3

\* Mutant of Watched: only a container that is up and healthy counts.
Watched_Healthy == engine = "serving"

\* docker ps lists the container, while it restarts too.
Watched == Running

Watch(p) ==
  /\ proc[p] = "ramwatch"
  /\ \/ /\ ~Watched /\ Exit(p)
        /\ UNCHANGED <<engine, retries>>
     \/ /\ Watched /\ TooLow(p)
        /\ engine' = "exited" /\ retries' = 0 /\ Exit(p)
     \/ /\ Watched /\ ~TooLow(p)
        /\ n' = [n EXCEPT ![p] = Count(p)]
        /\ seen' = [seen EXCEPT ![p] = IF ~low THEN 0 ELSE IF @ = 0 THEN 1 ELSE 2]
        /\ UNCHANGED <<engine, retries, proc>>
  /\ UNCHANGED <<script, public, logged, crashes, low, lastpid, lost, pidfile, others>>

-----------------------------------------------------------------------------
(***************************************************************************)
(* Docker, the engine, the memory, other processes.                        *)
(***************************************************************************)

EngineLogs ==
  /\ engine = "loading" /\ ~logged /\ logged' = TRUE
  /\ UNCHANGED <<script, engine, retries, public, crashes, low, procs, pidfile, others>>

EngineServes ==
  /\ engine = "loading" /\ logged /\ ~(public /\ ProxyAlive)
  /\ engine' = "serving"
  /\ UNCHANGED <<script, retries, public, logged, crashes, low, procs, pidfile, others>>

\* The container's process ends with an error; docker restarts it once.
Ends ==
  /\ engine' = IF retries > 0 THEN "loading" ELSE "exited"
  /\ retries' = IF retries > 0 THEN retries - 1 ELSE 0

EngineFails ==
  /\ Running /\ crashes < MaxCrashes /\ crashes' = crashes + 1 /\ Ends
  /\ UNCHANGED <<script, public, logged, low, procs, pidfile, others>>

\* A lost proxy holds the port of an engine that is to have none.
EngineCannotBind ==
  /\ engine = "loading" /\ public /\ ProxyAlive /\ Ends
  /\ UNCHANGED <<script, public, logged, crashes, low, procs, pidfile, others>>

\* Only the engine's use of the memory matters.
Memory ==
  /\ Running /\ low' = ~low
  /\ UNCHANGED <<script, docker, procs, pidfile, others>>

\* A process that stays until the machine is started again.
OtherComes ==
  /\ others < MaxOthers /\ others' = others + 1
  /\ lastpid' = lastpid + 1 /\ proc' = [proc EXCEPT ![lastpid + 1] = "other"]
  /\ UNCHANGED <<script, docker, low, n, seen, lost, pidfile>>

\* The machine hard-locks and is started again: every process is gone, the
\* files of .run are not.  Docker does not start the container again.
Reboot ==
  /\ at = "idle" /\ crashes < MaxCrashes /\ crashes' = crashes + 1
  /\ engine' = (IF Running THEN "exited" ELSE engine) /\ retries' = 0
  /\ proc' = [p \in Pids |-> "free"] /\ lastpid' = 0 /\ lost' = {}
  /\ n' = [p \in Pids |-> 0] /\ seen' = [p \in Pids |-> 0]
  /\ UNCHANGED <<script, public, logged, low, pidfile, others>>

-----------------------------------------------------------------------------
ScriptStep ==
  \/ RemoveContainer \/ StopHelper \/ StopDone \/ Serve \/ StartHelpers
  \/ Poll \/ Report

Next ==
  \/ Start \/ StopByHand \/ ScriptStep \/ Kill
  \/ \E p \in Pids : Watch(p)
  \/ EngineLogs \/ EngineServes \/ EngineFails \/ EngineCannotBind \/ Memory \/ Reboot
  \/ OtherComes

\* A script that was started goes on, a ramwatch takes its samples, and an
\* engine that does not fail gets through its load or fails on its port.
Spec ==
  /\ Init /\ [][Next]_vars
  /\ WF_vars(ScriptStep)
  /\ \A p \in Pids : WF_vars(Watch(p))
  /\ WF_vars(EngineLogs) /\ WF_vars(EngineServes) /\ WF_vars(EngineCannotBind)

-----------------------------------------------------------------------------
(***************************************************************************)
(* Properties.                                                             *)
(***************************************************************************)

\* The types of the variables.
TypeOK ==
  /\ at \in Steps \cup {"idle"} /\ next \in {"serve", "idle"} /\ opts \in Options
  /\ verdict \in {"none", "ready", "failed", "aborted", "not_waiting"}
  /\ engine \in {"none", "loading", "serving", "exited"}
  /\ retries \in 0 .. 1 /\ public \in BOOLEAN /\ logged \in BOOLEAN /\ low \in BOOLEAN
  /\ proc \in [Pids -> {"free", "other"} \cup Helpers] /\ lastpid \in Pids \cup {0}
  /\ n \in [Pids -> 0 .. 2]
  /\ seen \in [Pids -> 0 .. 2]
  /\ pidfile \in [Helpers -> Pids \cup {NoPid}] /\ child \in Pids \cup {NoPid}
  /\ lost \subseteq Pids

\* After stop.sh the container is gone, and the only helpers that can still run
\* are those lost by a start that was killed between & and echo $! (start.sh:80-81,
\* 84-85): no other kill, rerun, reboot or reuse of a pid keeps one ("Stop:
\* scripts/stop.sh (engine, proxy and ramwatch)", line 110 of start.sh).
StopLeavesNothing ==
  [][StopDone => engine = "none" /\ \A p \in Pids : proc[p] \in Helpers => p \in lost]_vars

\* stop.sh ends processes that start.sh launched and no others (stop.sh:2).
StopSparesOthers ==
  [][at = "pids" => \A p \in Pids : proc[p] = "other" => proc'[p] = "other"]_vars

\* The container is killed for three samples in a row under the floor, never
\* for a shorter dip, nor for the samples of an earlier dip (ramwatch.sh:5-6).
DipNeverKills ==
  [][\A p \in Pids :
       Watch(p) /\ Running /\ engine' = "exited" =>
         low /\ seen[p] = 2]_vars

\* When start.sh says that all is ready, what answers on PORT is the proxy of
\* this start, which the next stop.sh will find, unless a proxy lost by an earlier
\* start holds PORT.
ReadyProxyIsOurs ==
  [][verdict # "ready" /\ verdict' = "ready" /\ opts.proxy =>
       /\ engine = "serving"
       /\ \E p \in Pids : proc[p] = "proxy" /\ (pidfile["proxy"] = p \/ p \in lost)]_vars

\* While the container of a start with RAMWATCH=1 runs, its ramwatch runs:
\* through the load, the restart after a failure and the whole of serving.
EngineIsWatched ==
  verdict \in {"ready", "not_waiting"} /\ at = "idle" /\ opts.ramwatch /\ Running =>
    \E p \in Pids : proc[p] = "ramwatch"

\* Memory that stays under the floor ends the engine before the machine locks.
LowMemoryEndsEngine ==
  verdict \in {"ready", "not_waiting"} /\ at = "idle" /\ opts.ramwatch /\ low /\ Running ~>
    ~low \/ ~Running \/ at # "idle"

\* start.sh and stop.sh come to an end; and a wait whose log has a line to show ends
\* at the report of a ready engine or because the container is gone, or start.sh is
\* killed.  A wait that finds no such line yet is aborted with the engine still
\* loading (line 94): that is an end too, and no more is said of it here.
StartEnds ==
  /\ at # "idle" ~> at = "idle"
  /\ at = "poll" /\ opts.wait /\ logged ~>
       at = "report" \/ (at = "idle" /\ verdict \in {"failed", "none"})

\* The wait of start.sh ends with the engine ready or its container gone: "cold
\* load ~2 min; the FIRST boot also compiles ~10 min" (line 89), and the
\* promise of line 4, "serve -> proxy -> wait -> test request".
WaitEndsInVerdict == verdict # "aborted"

=============================================================================
