---------------------------- MODULE MountControl ----------------------------
(***************************************************************************)
(* Mounting on fnOS: the mount, unmount and status requests of the         *)
(* management API, the start and stop script of the package, and the mount *)
(* processes they start and signal.  What they know of each other is in    *)
(* three files: mount.json, mount.pid and mount.config.json.  None of them *)
(* takes a lock.                                                           *)
(*                                                                         *)
(* Process numbers are not reused and there is one mountpoint.  The API    *)
(* server never waits for a mount process it started: one that has ended   *)
(* stays a zombie, which kill(pid, 0) finds alive, until the server ends.  *)
(* A process may end at any time (a failed mount, a signal, fusermount -u) *)
(* and may outlive SIGTERM: the handler unmounts what is mounted by then,  *)
(* and a busy unmount does not end the process.                            *)
(***************************************************************************)
EXTENDS Integers, FiniteSets

CONSTANTS Operators,  \* who mounts, unmounts, starts and stops, one at a time
          Pollers,    \* web pages asking for the status
          MaxPid,     \* bound: mount processes started in a behaviour
          Faults      \* what may go wrong in this instance

FaultKinds == {"disk", "spawn", "killed", "reboot"}
Actors == Operators \cup Pollers
Pids == 1..MaxPid
None == 0
Torn == -1   \* mount.json truncated, not yet written

ASSUME ActorAssumption == Operators \cap Pollers = {}
ASSUME BoundAssumption == MaxPid \in Nat
ASSUME FaultAssumption == Faults \subseteq FaultKinds

VARIABLES up,         \* the server process runs
          nextPid, proc,
          child,      \* mount processes whose parent is the running server
          termed,     \* mount processes the API has sent SIGTERM: an unmount, or a
                      \* mount request that could not write the state files
          cut,        \* mount processes whose request was cut off: the server
                      \* was killed before it had recorded them
          json,       \* mount.json: None, Torn or the process it names
          pidFile,    \* mount.pid
          auto,       \* mount.config.json is there, with auto = true
          act         \* the request or script run each actor is in

procVars == <<nextPid, proc, child, termed, cut>>
fileVars == <<json, pidFile, auto>>
vars == <<up, procVars, fileVars, act>>

Free == [pc |-> "idle", op |-> "none", pid |-> None]
Run == [pc : {"idle", "read", "drop", "known", "spawn", "open", "write", "pid",
              "clear", "clearPid", "wait", "auto", "kill", "rm", "server"},
        op : {"none", "status", "mount", "unmount", "start", "stop"},
        pid : Pids \cup {None}]

TypeOK ==
    /\ up \in BOOLEAN
    /\ nextPid \in 1..(MaxPid + 1)
    /\ proc \in [Pids -> {"none", "starting", "mounted", "zombie", "gone"}]
    /\ child \subseteq Pids /\ termed \subseteq Pids /\ cut \subseteq Pids
    /\ json \in Pids \cup {None, Torn} /\ pidFile \in Pids \cup {None}
    /\ auto \in BOOLEAN
    /\ act \in [Actors -> Run]
    /\ \A a \in Actors : act[a].pc \in {"open", "write", "pid", "wait"} => act[a].pid # None

Init ==
    /\ up = FALSE
    /\ nextPid = 1 /\ proc = [p \in Pids |-> "none"] /\ child = {} /\ termed = {} /\ cut = {}
    /\ json = None /\ pidFile = None /\ auto = FALSE
    /\ act = [a \in Actors |-> Free]

-----------------------------------------------------------------------------
Running(p) == p \in Pids /\ proc[p] \in {"starting", "mounted"}

\* processAlive, check_process
Alive(p) == Running(p) \/ (p \in Pids /\ proc[p] = "zombie")

Ended(S) == [p \in Pids |-> IF p \in S /\ Running(p)
                            THEN IF p \in child THEN "zombie" ELSE "gone"
                            ELSE proc[p]]

At(a, label) == act[a].pc = label
Goto(a, label) == act' = [act EXCEPT ![a].pc = label]
Finish(a) == act' = [act EXCEPT ![a] = Free]

\* readMountState: mount.json, else mount.pid together with the configuration.
Found == IF Alive(json) THEN json
         ELSE IF json = None /\ auto /\ Alive(pidFile) THEN pidFile
         ELSE None

Busy(a) == ~At(a, "idle")
CanBegin(a) == ~Busy(a)
Begin(a, kind, label) == act' = [act EXCEPT ![a] = [Free EXCEPT !.pc = label, !.op = kind]]

-----------------------------------------------------------------------------
(* The requests of the API *)

Request(a, kind) ==
    /\ up /\ CanBegin(a)
    /\ Begin(a, kind, "read")
    /\ UNCHANGED <<up, procVars, fileVars>>

\* Status polls come at any time.
Poll(a) ==
    /\ up /\ ~Busy(a)
    /\ Begin(a, "status", "read")
    /\ UNCHANGED <<up, procVars, fileVars>>

\* readMountState: a mount.json that cannot be parsed or names a dead process
\* is to be removed.
ReadState(a) ==
    /\ At(a, "read")
    /\ act' = [act EXCEPT ![a].pc = IF Found = None /\ json # None THEN "drop" ELSE "known",
                          ![a].pid = Found]
    /\ UNCHANGED <<up, procVars, fileVars>>

RemoveStale(a) ==
    /\ At(a, "drop")
    /\ json' = None
    /\ Goto(a, "known")
    /\ UNCHANGED <<up, procVars, pidFile, auto>>

StatusAnswers(a) ==
    /\ At(a, "known") /\ act[a].op = "status"
    /\ Finish(a)
    /\ UNCHANGED <<up, procVars, fileVars>>

\* 409, or a mountpoint that is not allowed, missing or not empty.
MountRefused(a) ==
    /\ At(a, "known") /\ act[a].op = "mount"
    /\ Finish(a)
    /\ UNCHANGED <<up, procVars, fileVars>>

MountGoesOnAnyway(a) ==
    /\ At(a, "known") /\ act[a].op = "mount"
    /\ auto' = TRUE
    /\ Goto(a, "spawn")
    /\ UNCHANGED <<up, procVars, json, pidFile>>
MountWithoutConfig(a) ==
    /\ At(a, "known") /\ act[a].op = "mount" /\ act[a].pid = None
    /\ Goto(a, "spawn")
    /\ UNCHANGED <<up, procVars, fileVars>>
\* Nothing is mounted: the mountpoint is remembered for the next start.
MountConfigured(a) ==
    /\ At(a, "known") /\ act[a].op = "mount" /\ act[a].pid = None
    /\ auto' = TRUE
    /\ Goto(a, "spawn")
    /\ UNCHANGED <<up, procVars, json, pidFile>>

\* Writing the configuration fails, possibly after truncating it.
MountConfigFails(a) ==
    /\ "disk" \in Faults
    /\ At(a, "known") /\ act[a].op = "mount" /\ act[a].pid = None
    /\ auto' \in {auto, FALSE}
    /\ Finish(a)
    /\ UNCHANGED <<up, procVars, json, pidFile>>

Spawn(a, label) ==
    /\ nextPid \in Pids
    /\ nextPid' = nextPid + 1
    /\ proc' = [proc EXCEPT ![nextPid] = "starting"]
    /\ act' = [act EXCEPT ![a].pc = label, ![a].pid = nextPid]
    /\ UNCHANGED <<termed, cut>>

\* cmd.Start
MountSpawns(a) ==
    /\ At(a, "spawn")
    /\ Spawn(a, "open") /\ child' = child \cup {nextPid}
    /\ UNCHANGED <<up, fileVars>>
SpawnFails(a) ==
    /\ At(a, "spawn")
    /\ "spawn" \in Faults \/ nextPid \notin Pids
    /\ Finish(a)
    /\ UNCHANGED <<up, procVars, fileVars>>

Sigterm(p) == termed' = termed \cup {p} /\ UNCHANGED <<nextPid, proc, child, cut>>

\* os.WriteFile of mount.json opens the file, truncating it, ...
JsonOpens(a) ==
    /\ At(a, "open")
    /\ json' = Torn
    /\ Goto(a, "write")
    /\ UNCHANGED <<up, procVars, pidFile, auto>>

\* ... and writes it; the write is lost if a status request has removed the
\* file in between.  The script has written mount.pid before.
JsonWrites(a) ==
    /\ At(a, "write")
    /\ json' = IF json = None THEN None ELSE act[a].pid
    /\ IF act[a].op = "mount" THEN Goto(a, "pid") ELSE Finish(a)
    /\ UNCHANGED <<up, procVars, pidFile, auto>>

JsonFails(a) ==
    /\ "disk" \in Faults /\ act[a].op = "mount"
    /\ At(a, "open") \/ At(a, "write")
    /\ Sigterm(act[a].pid)
    /\ Finish(a)
    /\ UNCHANGED <<up, fileVars>>

\* mount.pid; a torn one reads like a missing one.  HandleMount is done.
PidWritten(a) ==
    /\ At(a, "pid")
    /\ pidFile' = act[a].pid
    /\ IF act[a].op = "mount" THEN Finish(a) ELSE Goto(a, "open")
    /\ UNCHANGED <<up, procVars, json, auto>>

PidFails(a) ==
    /\ "disk" \in Faults /\ At(a, "pid") /\ act[a].op = "mount"
    /\ pidFile' = None
    /\ Sigterm(act[a].pid)
    /\ Goto(a, "clear")
    /\ UNCHANGED <<up, json, auto>>

\* clearMountState
ClearsJson(a) ==
    /\ At(a, "clear")
    /\ json' = None
    /\ Goto(a, "clearPid")
    /\ UNCHANGED <<up, procVars, pidFile, auto>>
ClearsPid(a) ==
    /\ At(a, "clearPid")
    /\ pidFile' = None
    /\ Finish(a)
    /\ UNCHANGED <<up, procVars, json, auto>>

UnmountFindsNothing(a) ==
    /\ At(a, "known") /\ act[a].op = "unmount" /\ act[a].pid = None
    /\ Goto(a, "clear")
    /\ UNCHANGED <<up, procVars, fileVars>>

UnmountSignalsAnyway(a) ==
    /\ At(a, "known") /\ act[a].op = "unmount"
    /\ Sigterm(act[a].pid)
    /\ Goto(a, "wait")
    /\ UNCHANGED <<up, fileVars>>
UnmountSignals(a) ==
    /\ At(a, "known") /\ act[a].op = "unmount" /\ act[a].pid # None
    /\ Sigterm(act[a].pid)
    /\ Goto(a, "wait")
    /\ UNCHANGED <<up, fileVars>>

\* The process has ended, or five seconds are over; no matter which.
UnmountWaitsForExit(a) ==
    /\ At(a, "wait") /\ ~Alive(act[a].pid)
    /\ Goto(a, "clear")
    /\ UNCHANGED <<up, procVars, fileVars>>
UnmountWaited(a) ==
    /\ At(a, "wait")
    /\ Goto(a, "clear")
    /\ UNCHANGED <<up, procVars, fileVars>>

Serve(a) ==
    \/ ReadState(a) \/ RemoveStale(a) \/ StatusAnswers(a)
    \/ MountRefused(a) \/ MountConfigured(a) \/ MountConfigFails(a)
    \/ MountSpawns(a) \/ SpawnFails(a) \/ JsonOpens(a) \/ JsonWrites(a)
    \/ JsonFails(a) \/ PidWritten(a) \/ PidFails(a) \/ ClearsJson(a) \/ ClearsPid(a)
    \/ UnmountFindsNothing(a) \/ UnmountSignals(a) \/ UnmountWaited(a)

-----------------------------------------------------------------------------
(* The package script *)

\* start: the server, then the mount if it is configured.
StartServer(a) ==
    /\ ~up /\ CanBegin(a)
    /\ up' = TRUE
    /\ IF auto THEN Begin(a, "start", "auto") ELSE UNCHANGED act
    /\ UNCHANGED <<procVars, fileVars>>

\* An existing mount process is left alone.  (Also the end of a behaviour that
\* has used up its processes, as in SpawnFails.)
AutoMountSkipped(a) ==
    /\ At(a, "auto")
    /\ Alive(pidFile) \/ nextPid \notin Pids
    /\ Finish(a)
    /\ UNCHANGED <<up, procVars, fileVars>>

AutoMountSpawns(a) ==
    /\ At(a, "auto") /\ ~Alive(pidFile)
    /\ Spawn(a, "pid")
    /\ pidFile' = None
    /\ json' = IF pidFile = None THEN json ELSE None
    /\ UNCHANGED <<up, child, auto>>

StopBegins(a) ==
    /\ CanBegin(a)
    /\ Begin(a, "stop", "kill")
    /\ UNCHANGED <<up, procVars, fileVars>>

StopKillsNamed(a) ==
    /\ At(a, "kill")
    /\ proc' = Ended({json})
    /\ Goto(a, IF json = None THEN "server" ELSE "rm")
    /\ UNCHANGED <<up, nextPid, child, termed, cut, fileVars>>
\* TERM, ten seconds, KILL: the process of mount.pid has ended afterwards.
StopKills(a) ==
    /\ At(a, "kill")
    /\ proc' = Ended({pidFile})
    /\ Goto(a, IF pidFile = None THEN "server" ELSE "rm")
    /\ UNCHANGED <<up, nextPid, child, termed, cut, fileVars>>

StopRemoves(a) ==
    /\ At(a, "rm")
    /\ json' = None /\ pidFile' = None
    /\ Goto(a, "server")
    /\ UNCHANGED <<up, procVars, auto>>

\* The server ends: its requests end where they are, its zombies are reaped.
Unrecorded == {act[a].pid : a \in {b \in Operators :
                  act[b].op = "mount" /\ act[b].pc \in {"open", "write", "pid"}}}
InServer(a) == act[a].op \in {"status", "mount", "unmount"}
ServerEnds(done) ==
    /\ up' = FALSE /\ child' = {}
    /\ proc' = [p \in Pids |-> IF proc[p] = "zombie" THEN "gone" ELSE proc[p]]
    /\ act' = [a \in Actors |-> IF InServer(a) \/ a \in done THEN Free ELSE act[a]]
    /\ cut' = cut \cup Unrecorded
    /\ UNCHANGED <<nextPid, termed>>

StopEndsServer(a) ==
    /\ At(a, "server")
    /\ ServerEnds({a})
    /\ UNCHANGED <<fileVars>>

Script(a) == AutoMountSkipped(a) \/ AutoMountSpawns(a) \/ StopKills(a)
                 \/ StopRemoves(a) \/ StopEndsServer(a)

-----------------------------------------------------------------------------
(* The processes *)

\* host.Mount succeeds; a SIGTERM that came before it has done nothing.
Mounts(p) ==
    /\ proc[p] = "starting"
    /\ proc' = [proc EXCEPT ![p] = "mounted"]
    /\ UNCHANGED <<up, nextPid, child, termed, cut, fileVars, act>>

Ends(p) ==
    /\ Running(p)
    /\ proc' = Ended({p})
    /\ UNCHANGED <<up, nextPid, child, termed, cut, fileVars, act>>

ServerKilled ==
    /\ "killed" \in Faults /\ up
    /\ ServerEnds({})
    /\ UNCHANGED <<fileVars>>

\* Power loss: only the files survive.
Reboot ==
    /\ "reboot" \in Faults
    /\ up \/ (\E p \in Pids : Running(p)) \/ (\E a \in Actors : Busy(a))
    /\ up' = FALSE /\ child' = {}
    /\ proc' = [p \in Pids |-> IF proc[p] = "none" THEN "none" ELSE "gone"]
    /\ act' = [a \in Actors |-> Free]
    /\ UNCHANGED <<nextPid, termed, cut, fileVars>>

Next ==
    \/ \E a \in Actors : Serve(a)
    \/ \E a \in Operators : \/ Request(a, "mount") \/ Request(a, "unmount")
                            \/ StartServer(a) \/ StopBegins(a) \/ Script(a)
    \/ \E a \in Pollers : Poll(a)
    \/ \E p \in Pids : Mounts(p) \/ Ends(p)
    \/ ServerKilled \/ Reboot

\* Requests and scripts run on: each of their waits has a deadline.
Spec == Init /\ [][Next]_vars /\ \A a \in Actors : WF_vars(Serve(a) \/ Script(a))

-----------------------------------------------------------------------------
\* The processes the API has let go of.  A SIGTERM is all it does about a
\* process, whether an unmount sends it or a mount request that could not write
\* mount.json or mount.pid; it is used up when it comes before host.Mount has
\* succeeded, and without effect when the mountpoint is busy, and the state
\* files are cleared all the same.  Such a process may run on, mounted, and
\* nothing leads to it; the same holds of one whose request was cut off.
Left == termed \cup cut

\* With one operator, whatever status requests do in between, and across
\* kills of the server and reboots: a mount process that was never sent SIGTERM
\* by the API, and whose mount request was not cut off, is the one
\* readMountState finds.  So there is one of them at most, and unmount and
\* stop can reach it.
NoOrphan ==
    (\A a \in Operators : ~Busy(a)) =>
        \A p \in Pids \ Left : Running(p) => Found = p

\* When HandleMount answers "mounted", status requests agree, also if one of
\* them has removed the mount.json that was being written.
MountIsFound ==
    [][\A a \in Operators :
          act[a].op = "mount" /\ At(a, "pid") /\ pidFile' = act[a].pid =>
              Found' = act[a].pid \/ ~Alive(act[a].pid)]_vars

\* When stop has ended, no mount process is left but those that an earlier
\* request of the API had sent SIGTERM, an unmount or a failed mount, and that
\* have outlived it, and those whose mount request was cut off.
StopUnmounts ==
    [][\A a \in Operators : At(a, "server") /\ act'[a].pc = "idle" =>
          \A p \in Pids \ Left : ~Running(p)']_vars

\* Requests and script runs end.
RequestsReturn == \A a \in Actors : Busy(a) ~> ~Busy(a)
=============================================================================
