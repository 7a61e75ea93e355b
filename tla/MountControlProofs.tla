------------------------- MODULE MountControlProofs -------------------------
(***************************************************************************)
(* For any number of status pages and mount processes, with failing disks, *)
(* killed servers and reboots, but one operator: no mount process is lost  *)
(* sight of, and stop leaves none behind.                                  *)
(***************************************************************************)
EXTENDS MountControl, TLAPS

\* One administrator, or one script, at a time.
OneOperator == \E o : Operators = {o}

\* Mount processes that the files have to lead to, and those they lead to
\* whatever a status request removes.
Live == {p \in Pids \ Left : Running(p)}
Recorded(p) == auto /\ pidFile = p /\ json \in {p, None}
Tracked == \A p \in Live : Recorded(p)

\* Numbers in files and requests are of processes that have been started.
Issued ==
    /\ json < nextPid /\ pidFile < nextPid
    /\ \A a \in Actors : act[a].pid < nextPid

\* Status requests read and remove, no more.
PagesPoll ==
    \A a \in Pollers : /\ act[a].pc \in {"idle", "read", "drop", "known"}
                       /\ act[a].op \in {"none", "status"}

\* Which request or script is where.
Placed(r) ==
    /\ r.pc \in {"read", "drop", "known", "clear", "clearPid", "wait"} =>
         r.op \in {"mount", "unmount"}
    /\ r.pc = "spawn" => r.op = "mount"
    /\ r.pc \in {"open", "write", "pid"} => r.op \in {"mount", "start"}
    /\ r.pc = "auto" => r.op = "start"
    /\ r.pc \in {"kill", "rm", "server"} => r.op = "stop"

\* What the operator's request or script relies on: before it changes anything
\* the files lead to what is live; afterwards nothing is, or the process it
\* has started and is about to record.
Relies(r) ==
    /\ r.pc \in {"idle", "read", "drop", "known", "auto", "kill"} => Tracked
    /\ r.pc \in {"drop", "spawn", "clear", "clearPid", "wait", "rm", "server"} => Live = {}
    /\ r.pc \in {"known", "open", "write", "pid"} => Live \subseteq {r.pid}
    /\ r.pc \in {"auto", "spawn", "open", "write", "pid"} => auto
    /\ r.op = "mount" /\ r.pc \in {"open", "write", "pid"} => pidFile # r.pid
    /\ r.op = "mount" /\ r.pc = "pid" => json \in {r.pid, None}
    /\ r.op = "start" /\ r.pc \in {"open", "write"} => pidFile = r.pid

MInv ==
    /\ TypeOK /\ Issued /\ PagesPoll
    /\ \A a \in Operators : Placed(act[a]) /\ Relies(act[a])

-----------------------------------------------------------------------------
(* What a step does to the actor that takes it *)

Labels == {"idle", "read", "drop", "known", "spawn", "open", "write", "pid",
           "clear", "clearPid", "wait", "auto", "kill", "rm", "server"}
OpNames == {"none", "status", "mount", "unmount", "start", "stop"}

\* The others stay where they are.
Alone(a) ==
    /\ act' \in [Actors -> Run]
    /\ \A b \in Actors \ {a} : act'[b] = act[b]

Becomes(a, label, kind, pid) ==
    /\ Alone(a)
    /\ act'[a].pc = label /\ act'[a].op = kind /\ act'[a].pid = pid

\* On to the next step.
LEMMA Goes ==
    ASSUME TypeOK, NEW a \in Actors, NEW l \in Labels, Goto(a, l)
    PROVE  Becomes(a, l, act[a].op, act[a].pid)
<1>1. act \in [Actors -> Run] /\ act[a] \in Run
  BY DEF TypeOK
<1>2. [act[a] EXCEPT !.pc = l] = [pc |-> l, op |-> act[a].op, pid |-> act[a].pid]
  BY <1>1 DEF Run
<1>3. [act[a] EXCEPT !.pc = l] \in Run
  BY <1>1, <1>2 DEF Run, Labels
<1> QED
  BY <1>1, <1>2, <1>3 DEF Goto, Becomes, Alone

\* The request is answered, the script has ended.
LEMMA Frees ==
    ASSUME TypeOK, NEW a \in Actors, Finish(a)
    PROVE  Becomes(a, "idle", "none", None)
<1>1. Free \in Run /\ Free.pc = "idle" /\ Free.op = "none" /\ Free.pid = None
  BY DEF Free, Run
<1> QED
  BY <1>1 DEF TypeOK, Finish, Becomes, Alone

\* A request or script begins.
LEMMA Begins ==
    ASSUME TypeOK, NEW a \in Actors, NEW l \in Labels, NEW k \in OpNames, Begin(a, k, l)
    PROVE  Becomes(a, l, k, None)
<1> DEFINE r == [Free EXCEPT !.pc = l, !.op = k]
<1>1. r.pc = l /\ r.op = k /\ r.pid = None /\ r \in Run
  BY DEF Free, Run, Labels, OpNames
<1>2. act \in [Actors -> Run] /\ act' = [act EXCEPT ![a] = r]
  BY DEF TypeOK, Begin
<1> HIDE DEF r
<1> QED
  BY <1>1, <1>2 DEF Becomes, Alone

\* What readMountState finds has been started.
LEMMA FoundIssued ==
    ASSUME TypeOK, Issued
    PROVE  Found \in Pids \cup {None} /\ Found < nextPid
<1>1. None < nextPid
  BY BoundAssumption DEF TypeOK, None
<1> QED
  BY <1>1 DEF TypeOK, Issued, Found, Alive, Running

\* readMountState
LEMMA Reads ==
    ASSUME TypeOK, Issued, NEW a \in Actors, ReadState(a)
    PROVE  /\ Becomes(a, act'[a].pc, act[a].op, Found)
           /\ act'[a].pc \in {"drop", "known"} /\ (act'[a].pc = "drop" => Found = None)
<1> DEFINE l == IF Found = None /\ json # None THEN "drop" ELSE "known"
           r == [act[a] EXCEPT !.pc = l, !.pid = Found]
<1>1. act \in [Actors -> Run] /\ act[a] \in Run /\ Found \in Pids \cup {None}
  BY FoundIssued DEF TypeOK
<1>2. l \in {"drop", "known"} /\ (l = "drop" => Found = None)
  OBVIOUS
<1>3. act' = [act EXCEPT ![a] = r]
  BY <1>1 DEF ReadState
<1> HIDE DEF l
<1>4. r.pc = l /\ r.op = act[a].op /\ r.pid = Found /\ r \in Run
  BY <1>1, <1>2 DEF Run
<1> HIDE DEF r
<1> QED
  BY <1>1, <1>2, <1>3, <1>4 DEF Becomes, Alone

\* cmd.Start, nohup
LEMMA Spawned ==
    ASSUME TypeOK, NEW a \in Actors, NEW l \in Labels, Spawn(a, l)
    PROVE  Becomes(a, l, act[a].op, nextPid)
<1> DEFINE r == [act[a] EXCEPT !.pc = l, !.pid = nextPid]
<1>1. act \in [Actors -> Run] /\ act[a] \in Run /\ nextPid \in Pids
  BY DEF TypeOK, Spawn
<1>2. act' = [act EXCEPT ![a] = r]
  BY <1>1 DEF Spawn
<1>3. r.pc = l /\ r.op = act[a].op /\ r.pid = nextPid /\ r \in Run
  BY <1>1 DEF Run, Labels
<1> HIDE DEF r
<1> QED
  BY <1>1, <1>2, <1>3 DEF Becomes, Alone

-----------------------------------------------------------------------------
(* Steps of a request *)

\* Where the steps of an actor that runs lead it.
Leads(a) ==
    \/ ReadState(a) /\ Becomes(a, act'[a].pc, act[a].op, Found)
         /\ act'[a].pc \in {"drop", "known"} /\ (act'[a].pc = "drop" => Found = None)
    \/ RemoveStale(a) /\ Becomes(a, "known", act[a].op, act[a].pid)
    \/ (StatusAnswers(a) \/ MountRefused(a) \/ MountConfigFails(a) \/ SpawnFails(a)
          \/ JsonFails(a) \/ ClearsPid(a) \/ AutoMountSkipped(a))
         /\ Becomes(a, "idle", "none", None)
    \/ MountConfigured(a) /\ Becomes(a, "spawn", act[a].op, act[a].pid)
    \/ MountSpawns(a) /\ Becomes(a, "open", act[a].op, nextPid)
    \/ JsonOpens(a) /\ Becomes(a, "write", act[a].op, act[a].pid)
    \/ JsonWrites(a) /\ act[a].op = "mount" /\ Becomes(a, "pid", act[a].op, act[a].pid)
    \/ JsonWrites(a) /\ act[a].op # "mount" /\ Becomes(a, "idle", "none", None)
    \/ PidWritten(a) /\ act[a].op = "mount" /\ Becomes(a, "idle", "none", None)
    \/ PidWritten(a) /\ act[a].op # "mount" /\ Becomes(a, "open", act[a].op, act[a].pid)
    \/ (PidFails(a) \/ UnmountFindsNothing(a) \/ UnmountWaited(a))
         /\ Becomes(a, "clear", act[a].op, act[a].pid)
    \/ ClearsJson(a) /\ Becomes(a, "clearPid", act[a].op, act[a].pid)
    \/ UnmountSignals(a) /\ Becomes(a, "wait", act[a].op, act[a].pid)
    \/ AutoMountSpawns(a) /\ Becomes(a, "pid", act[a].op, nextPid)
    \/ StopKills(a) /\ act'[a].pc \in {"server", "rm"}
         /\ Becomes(a, act'[a].pc, act[a].op, act[a].pid)
    \/ StopRemoves(a) /\ Becomes(a, "server", act[a].op, act[a].pid)

\* Each step of a request or script but the last of stop is one of these.
LEMMA StepLeads ==
    ASSUME TypeOK, Issued, NEW a \in Actors, Serve(a) \/ Script(a), ~StopEndsServer(a)
    PROVE  Leads(a)
<1>1. CASE ReadState(a)
  BY <1>1, Reads DEF Leads
<1>2. CASE RemoveStale(a)
  BY <1>2, Goes DEF Leads, RemoveStale, Labels
<1>3. CASE StatusAnswers(a) \/ MountRefused(a) \/ MountConfigFails(a) \/ SpawnFails(a)
             \/ JsonFails(a) \/ ClearsPid(a) \/ AutoMountSkipped(a)
  BY <1>3, Frees DEF Leads, StatusAnswers, MountRefused, MountConfigFails, SpawnFails,
                     JsonFails, ClearsPid, AutoMountSkipped
<1>4. CASE MountConfigured(a)
  BY <1>4, Goes DEF Leads, MountConfigured, Labels
<1>5. CASE MountSpawns(a)
  BY <1>5, Spawned DEF Leads, MountSpawns, Labels
<1>6. CASE JsonOpens(a)
  BY <1>6, Goes DEF Leads, JsonOpens, Labels
<1>7. CASE JsonWrites(a)
  BY <1>7, Goes, Frees DEF Leads, JsonWrites, Labels
<1>8. CASE PidWritten(a)
  BY <1>8, Goes, Frees DEF Leads, PidWritten, Labels
<1>9. CASE PidFails(a) \/ UnmountFindsNothing(a) \/ UnmountWaited(a)
  BY <1>9, Goes DEF Leads, PidFails, UnmountFindsNothing, UnmountWaited, Labels
<1>10. CASE ClearsJson(a)
  BY <1>10, Goes DEF Leads, ClearsJson, Labels
<1>11. CASE UnmountSignals(a)
  BY <1>11, Goes DEF Leads, UnmountSignals, Labels
<1>12. CASE AutoMountSpawns(a)
  BY <1>12, Spawned DEF Leads, AutoMountSpawns, Labels
<1>13. CASE StopKills(a)
  <2>1. CASE Goto(a, "server")
    BY <1>13, <2>1, Goes DEF Leads, Labels, Becomes
  <2>2. CASE Goto(a, "rm")
    BY <1>13, <2>2, Goes DEF Leads, Labels, Becomes
  <2> QED
    BY <1>13, <2>1, <2>2 DEF StopKills
<1>14. CASE StopRemoves(a)
  BY <1>14, Goes DEF Leads, StopRemoves, Labels
<1> QED
  BY <1>1, <1>2, <1>3, <1>4, <1>5, <1>6, <1>7, <1>8, <1>9, <1>10, <1>11, <1>12, <1>13, <1>14
  DEF Serve, Script

-----------------------------------------------------------------------------
(* Types, numbers, and who does what *)

\* What the invariant says of an actor for itself.
Orderly(a) ==
    /\ act[a].pc \in {"open", "write", "pid", "wait"} => act[a].pid # None
    /\ act[a].pid < nextPid
    /\ a \in Pollers => act[a].pc \in {"idle", "read", "drop", "known"}
                          /\ act[a].op \in {"none", "status"}
    /\ a \in Operators => Placed(act[a])

LEMMA OrderlyParts ==
    ASSUME MInv, NEW a \in Actors
    PROVE  Orderly(a) /\ act[a] \in Run
BY DEF MInv, TypeOK, Issued, PagesPoll, Orderly, Actors

\* Numbers are drawn one after the other.
LEMMA NumbersGrow ==
    ASSUME MInv, [Next]_vars
    PROVE  /\ nextPid \in Int /\ nextPid' \in 1..(MaxPid + 1) /\ nextPid <= nextPid'
           /\ None < nextPid'
<1>1. nextPid \in 1..(MaxPid + 1) /\ MaxPid \in Nat
  BY BoundAssumption DEF MInv, TypeOK
<1>2. \/ nextPid' = nextPid
      \/ nextPid \in Pids /\ nextPid' = nextPid + 1
  BY DEF Next, vars, procVars, Serve, Script, ReadState, RemoveStale, StatusAnswers,
         MountRefused, MountConfigured, MountConfigFails, MountSpawns, SpawnFails,
         JsonOpens, JsonWrites, JsonFails, PidWritten, PidFails, ClearsJson, ClearsPid,
         UnmountFindsNothing, UnmountSignals, UnmountWaited, Request, Poll, StartServer,
         StopBegins, AutoMountSkipped, AutoMountSpawns, StopKills, StopRemoves,
         StopEndsServer, ServerEnds, Mounts, Ends, ServerKilled, Reboot, Spawn, Sigterm
<1> QED
  BY <1>1, <1>2 DEF Pids, None

\* The steps of a request or script keep it in order.
LEMMA OrderlyStep ==
    ASSUME MInv, NEW a \in Actors, Serve(a) \/ Script(a), ~StopEndsServer(a), Leads(a)
    PROVE  Orderly(a)'
<1>0. Orderly(a) /\ act[a] \in Run /\ a \in Pollers \cup Operators
  BY OrderlyParts DEF Actors
<1>1. /\ nextPid \in Int /\ nextPid' \in Int /\ nextPid <= nextPid' /\ None < nextPid'
      /\ act[a].pid \in Int /\ act[a].pid < nextPid'
  <2>1. [Next]_vars
    BY <1>0, ActorAssumption DEF Next, Actors, Script, AutoMountSkipped, AutoMountSpawns,
           StopKills, StopRemoves, StopEndsServer, At, Orderly
  <2>2. act[a].pid \in Int
    BY <1>0 DEF Run, Pids, None
  <2> QED
    BY <1>0, <2>1, <2>2, NumbersGrow DEF Orderly
<1> USE DEF Becomes, Placed
<1>2. CASE Becomes(a, "idle", "none", None)
  BY <1>1, <1>2 DEF Orderly
<1>3. CASE ReadState(a) /\ Becomes(a, act'[a].pc, act[a].op, Found)
           /\ act'[a].pc \in {"drop", "known"}
  <2>1. Found < nextPid /\ Found \in Int
    BY FoundIssued DEF MInv, Pids, None
  <2> QED
    BY <1>0, <1>1, <1>3, <2>1 DEF Orderly, ReadState, At
<1>4. CASE RemoveStale(a) /\ Becomes(a, "known", act[a].op, act[a].pid)
  BY <1>0, <1>1, <1>4 DEF Orderly, RemoveStale, At
<1>5. CASE MountConfigured(a) /\ Becomes(a, "spawn", act[a].op, act[a].pid)
  BY <1>0, <1>1, <1>5 DEF Orderly, MountConfigured, At
<1>6. CASE MountSpawns(a) /\ Becomes(a, "open", act[a].op, nextPid)
  <2>1. nextPid < nextPid' /\ nextPid # None
    BY <1>1, <1>6 DEF MountSpawns, Spawn, Pids, None
  <2> QED
    BY <1>0, <1>6, <2>1 DEF Orderly, MountSpawns, At
<1>7. CASE AutoMountSpawns(a) /\ Becomes(a, "pid", act[a].op, nextPid)
  <2>1. nextPid < nextPid' /\ nextPid # None
    BY <1>1, <1>7 DEF AutoMountSpawns, Spawn, Pids, None
  <2> QED
    BY <1>0, <1>7, <2>1 DEF Orderly, AutoMountSpawns, At
<1>8. CASE JsonOpens(a) /\ Becomes(a, "write", act[a].op, act[a].pid)
  BY <1>0, <1>1, <1>8 DEF Orderly, JsonOpens, At
<1>9. CASE JsonWrites(a) /\ act[a].op = "mount" /\ Becomes(a, "pid", act[a].op, act[a].pid)
  BY <1>0, <1>1, <1>9 DEF Orderly, JsonWrites, At
<1>10. CASE PidWritten(a) /\ act[a].op # "mount" /\ Becomes(a, "open", act[a].op, act[a].pid)
  BY <1>0, <1>1, <1>10 DEF Orderly, PidWritten, At
<1>11. CASE (PidFails(a) \/ UnmountFindsNothing(a) \/ UnmountWaited(a))
              /\ Becomes(a, "clear", act[a].op, act[a].pid)
  BY <1>0, <1>1, <1>11 DEF Orderly, PidFails, UnmountFindsNothing, UnmountWaited, At
<1>12. CASE ClearsJson(a) /\ Becomes(a, "clearPid", act[a].op, act[a].pid)
  BY <1>0, <1>1, <1>12 DEF Orderly, ClearsJson, At
<1>13. CASE UnmountSignals(a) /\ Becomes(a, "wait", act[a].op, act[a].pid)
  BY <1>0, <1>1, <1>13 DEF Orderly, UnmountSignals, At
<1>14. CASE StopKills(a) /\ act'[a].pc \in {"server", "rm"}
              /\ Becomes(a, act'[a].pc, act[a].op, act[a].pid)
  BY <1>0, <1>1, <1>14 DEF Orderly, StopKills, At
<1>15. CASE StopRemoves(a) /\ Becomes(a, "server", act[a].op, act[a].pid)
  BY <1>0, <1>1, <1>15 DEF Orderly, StopRemoves, At
<1> QED
  BY <1>2, <1>3, <1>4, <1>5, <1>6, <1>7, <1>8, <1>9, <1>10, <1>11, <1>12, <1>13, <1>14, <1>15
  DEF Leads

\* The others have as much to do with it as before.
LEMMA OthersOrderly ==
    ASSUME MInv, [Next]_vars, NEW b \in Actors, act'[b] = act[b]
    PROVE  Orderly(b)'
<1>1. Orderly(b) /\ act[b].pid \in Int
  BY OrderlyParts DEF Run, Pids, None
<1> QED
  BY <1>1, NumbersGrow DEF Orderly

\* Nobody is anywhere when the server, or the machine, has gone down.
LEMMA FreeOrderly ==
    ASSUME MInv, [Next]_vars, NEW b \in Actors, act'[b] = Free
    PROVE  Orderly(b)'
BY NumbersGrow DEF Orderly, Free, Placed

\* Each request and script stays in order.
LEMMA AllOrderly ==
    ASSUME MInv, [Next]_vars
    PROVE  act' \in [Actors -> Run] /\ \A b \in Actors : Orderly(b)'
<1>0. TypeOK /\ Issued /\ act \in [Actors -> Run]
  BY DEF MInv, TypeOK
<1>1. ASSUME act' = act
      PROVE  act' \in [Actors -> Run] /\ \A b \in Actors : Orderly(b)'
  BY <1>0, <1>1, OthersOrderly
<1>2. ASSUME NEW a \in Actors, Alone(a), Orderly(a)'
      PROVE  act' \in [Actors -> Run] /\ \A b \in Actors : Orderly(b)'
  BY <1>2, OthersOrderly DEF Alone
<1>3. ASSUME NEW a \in Actors, Serve(a) \/ Script(a), ~StopEndsServer(a)
      PROVE  act' \in [Actors -> Run] /\ \A b \in Actors : Orderly(b)'
  <2>1. Leads(a)
    BY <1>0, <1>3, StepLeads
  <2>2. Orderly(a)' /\ Alone(a)
    BY <1>3, <2>1, OrderlyStep DEF Leads, Becomes
  <2> QED
    BY <1>2, <2>2
<1>4. ASSUME NEW a \in Actors, NEW l \in Labels, NEW k \in OpNames, Begin(a, k, l),
             \/ a \in Operators /\ Placed([pc |-> l, op |-> k, pid |-> None])
             \/ a \in Pollers /\ l = "read" /\ k = "status",
             l \notin {"open", "write", "pid", "wait"}
      PROVE  act' \in [Actors -> Run] /\ \A b \in Actors : Orderly(b)'
  <2>1. Becomes(a, l, k, None)
    BY <1>0, <1>4, Begins
  <2>2. a \in Operators => a \notin Pollers
    BY ActorAssumption
  <2>3. Orderly(a)'
    BY <1>4, <2>1, <2>2, NumbersGrow DEF Becomes, Orderly, Placed
  <2> QED
    BY <1>2, <2>1, <2>3 DEF Becomes
<1>5. ASSUME NEW a \in Operators, Request(a, "mount") \/ Request(a, "unmount")
      PROVE  act' \in [Actors -> Run] /\ \A b \in Actors : Orderly(b)'
  <2>1. "read" \in Labels /\ "mount" \in OpNames /\ "unmount" \in OpNames /\ a \in Actors
    BY DEF Labels, OpNames, Actors
  <2>2. /\ Placed([pc |-> "read", op |-> "mount", pid |-> None])
        /\ Placed([pc |-> "read", op |-> "unmount", pid |-> None])
    BY DEF Placed
  <2> QED
    BY <1>4, <1>5, <2>1, <2>2 DEF Request
<1>6. ASSUME NEW a \in Operators, StartServer(a)
      PROVE  act' \in [Actors -> Run] /\ \A b \in Actors : Orderly(b)'
  <2>1. "auto" \in Labels /\ "start" \in OpNames /\ a \in Actors
    BY DEF Labels, OpNames, Actors
  <2>2. Placed([pc |-> "auto", op |-> "start", pid |-> None])
    BY DEF Placed
  <2> QED
    BY <1>1, <1>4, <1>6, <2>1, <2>2 DEF StartServer
<1>7. ASSUME NEW a \in Operators, StopBegins(a)
      PROVE  act' \in [Actors -> Run] /\ \A b \in Actors : Orderly(b)'
  <2>1. "kill" \in Labels /\ "stop" \in OpNames /\ a \in Actors
    BY DEF Labels, OpNames, Actors
  <2>2. Placed([pc |-> "kill", op |-> "stop", pid |-> None])
    BY DEF Placed
  <2> QED
    BY <1>4, <1>7, <2>1, <2>2 DEF StopBegins
<1>8. ASSUME NEW a \in Pollers, Poll(a)
      PROVE  act' \in [Actors -> Run] /\ \A b \in Actors : Orderly(b)'
  <2>1. "read" \in Labels /\ "status" \in OpNames /\ a \in Actors
    BY DEF Labels, OpNames, Actors
  <2> QED
    BY <1>4, <1>8, <2>1 DEF Poll
<1>9. ASSUME act' \in [Actors -> Run], \A b \in Actors : act'[b] = Free \/ act'[b] = act[b]
      PROVE  act' \in [Actors -> Run] /\ \A b \in Actors : Orderly(b)'
  BY <1>9, FreeOrderly, OthersOrderly
<1>10. ASSUME NEW done, ServerEnds(done)
       PROVE  act' \in [Actors -> Run] /\ \A b \in Actors : Orderly(b)'
  <2>1. Free \in Run
    BY DEF Free, Run
  <2> QED
    BY <1>0, <1>9, <1>10, <2>1 DEF ServerEnds
<1>11. CASE Reboot
  <2>1. Free \in Run
    BY DEF Free, Run
  <2> QED
    BY <1>9, <1>11, <2>1 DEF Reboot
<1>12. ASSUME NEW p \in Pids, Mounts(p) \/ Ends(p)
       PROVE  act' = act
  BY <1>12 DEF Mounts, Ends
<1>13. CASE Next
  BY <1>1, <1>3, <1>5, <1>6, <1>7, <1>8, <1>10, <1>11, <1>12, <1>13
  DEF Next, StopEndsServer, ServerKilled, Actors
<1> QED
  BY <1>1, <1>13 DEF vars

\* The files name processes that have been started.
LEMMA FilesStep ==
    ASSUME MInv, [Next]_vars
    PROVE  /\ json' \in Pids \cup {None, Torn} /\ pidFile' \in Pids \cup {None} /\ auto' \in BOOLEAN
           /\ json' < nextPid' /\ pidFile' < nextPid'
<1>1. /\ json \in Pids \cup {None, Torn} /\ pidFile \in Pids \cup {None} /\ auto \in BOOLEAN
      /\ json < nextPid /\ pidFile < nextPid
  BY DEF MInv, TypeOK, Issued
<1>2. /\ nextPid \in Int /\ nextPid' \in Int /\ nextPid <= nextPid' /\ None < nextPid'
      /\ Torn < nextPid'
  BY NumbersGrow DEF None, Torn
<1>3. \A a \in Actors : act[a].pid \in Pids \cup {None} /\ act[a].pid < nextPid
  BY OrderlyParts DEF Orderly, Run
<1>4. /\ auto' \in {auto, TRUE, FALSE}
      /\ json' \in {json, None, Torn} \/ \E a \in Actors : json' = act[a].pid
      /\ pidFile' \in {pidFile, None} \/ \E a \in Actors : pidFile' = act[a].pid
  <2>1. ASSUME NEW a \in Actors, Serve(a) \/ Script(a)
        PROVE  /\ auto' \in {auto, TRUE, FALSE}
               /\ json' \in {json, None, Torn} \/ json' = act[a].pid
               /\ pidFile' \in {pidFile, None} \/ pidFile' = act[a].pid
    BY <2>1 DEF Serve, Script, fileVars, ReadState, RemoveStale, StatusAnswers,
         MountRefused, MountConfigured, MountConfigFails, MountSpawns, SpawnFails,
         JsonOpens, JsonWrites, JsonFails, PidWritten, PidFails, ClearsJson, ClearsPid,
         UnmountFindsNothing, UnmountSignals, UnmountWaited,
         AutoMountSkipped, AutoMountSpawns, StopKills, StopRemoves, StopEndsServer
  <2> QED
    BY <2>1 DEF Next, vars, fileVars, Request, Poll, StartServer, StopBegins, Mounts, Ends,
                ServerKilled, Reboot, Actors
<1>5. \A n \in Pids \cup {None, Torn} : n < nextPid => n < nextPid'
  BY <1>2 DEF Pids, None, Torn
<1>6. json' \in Pids \cup {None, Torn} /\ json' < nextPid'
  BY <1>1, <1>2, <1>3, <1>4, <1>5
<1>7. pidFile' \in Pids \cup {None} /\ pidFile' < nextPid'
  BY <1>1, <1>2, <1>3, <1>4, <1>5
<1> QED
  BY <1>1, <1>4, <1>6, <1>7

States == {"none", "starting", "mounted", "zombie", "gone"}

\* What a step may do to the processes: start one, end some, mount one.
LEMMA ProcsStep ==
    ASSUME MInv, [Next]_vars
    PROVE  /\ up' \in BOOLEAN /\ proc' \in [Pids -> States]
           /\ child' \subseteq Pids /\ termed' \subseteq Pids /\ cut' \subseteq Pids
           /\ termed \subseteq termed' /\ cut \subseteq cut'
           /\ \A p \in Pids : Running(p)' => \/ Running(p)
                                             \/ \E a \in Actors : \/ MountSpawns(a) /\ p = nextPid
                                                                  \/ AutoMountSpawns(a) /\ p = nextPid
<1>0. /\ up \in BOOLEAN /\ proc \in [Pids -> States]
      /\ child \subseteq Pids /\ termed \subseteq Pids /\ cut \subseteq Pids
  BY DEF MInv, TypeOK, States
<1> DEFINE Goal == /\ up' \in BOOLEAN /\ proc' \in [Pids -> States]
                   /\ child' \subseteq Pids /\ termed' \subseteq Pids /\ cut' \subseteq Pids
                   /\ termed \subseteq termed' /\ cut \subseteq cut'
                   /\ \A p \in Pids : Running(p)' =>
                        \/ Running(p)
                        \/ \E a \in Actors : \/ MountSpawns(a) /\ p = nextPid
                                             \/ AutoMountSpawns(a) /\ p = nextPid
<1>1. CASE UNCHANGED procVars /\ up' \in BOOLEAN
  BY <1>0, <1>1 DEF procVars, Running
<1>2. ASSUME NEW a \in Actors, MountSpawns(a)
      PROVE  Goal
  <2>1. /\ nextPid \in Pids /\ proc' = [proc EXCEPT ![nextPid] = "starting"]
        /\ child' = child \cup {nextPid} /\ UNCHANGED <<up, termed, cut>>
    BY <1>2 DEF MountSpawns, Spawn
  <2> QED
    BY <1>0, <1>2, <2>1 DEF Running, States
<1>3. ASSUME NEW a \in Actors, AutoMountSpawns(a)
      PROVE  Goal
  <2>1. /\ nextPid \in Pids /\ proc' = [proc EXCEPT ![nextPid] = "starting"]
        /\ UNCHANGED <<up, child, termed, cut>>
    BY <1>3 DEF AutoMountSpawns, Spawn
  <2> QED
    BY <1>0, <1>3, <2>1 DEF Running, States
<1>4. ASSUME NEW p \in Pids \cup {None}, Sigterm(p), up' = up, p # None
      PROVE  Goal
  BY <1>0, <1>4 DEF Sigterm, Running
<1>5. ASSUME NEW S, proc' = Ended(S), UNCHANGED <<up, child, termed, cut>>
      PROVE  Goal
  <2>1. /\ proc' \in [Pids -> States]
        /\ \A p \in Pids : proc'[p] \in {proc[p], "zombie", "gone"}
    BY <1>0, <1>5 DEF Ended, States
  <2> QED
    BY <1>0, <1>5, <2>1 DEF Running
<1>6. ASSUME NEW done, ServerEnds(done)
      PROVE  Goal
  <2>1. /\ proc' \in [Pids -> States]
        /\ \A p \in Pids : proc'[p] \in {proc[p], "gone"}
    BY <1>0, <1>6 DEF ServerEnds, States
  <2>2. Unrecorded \subseteq Pids
    <3>1. \A a \in Operators : act[a].op = "mount" /\ act[a].pc \in {"open", "write", "pid"} =>
             act[a].pid \in Pids
      BY OrderlyParts DEF Orderly, Run, Actors
    <3> QED
      BY <3>1 DEF Unrecorded
  <2> QED
    BY <1>0, <1>6, <2>1, <2>2 DEF ServerEnds, Running
<1>7. CASE Reboot
  <2>1. /\ proc' \in [Pids -> States]
        /\ \A p \in Pids : proc'[p] \in {proc[p], "gone"}
    BY <1>0, <1>7 DEF Reboot, States
  <2> QED
    BY <1>0, <1>7, <2>1 DEF Reboot, Running
<1>8. ASSUME NEW p \in Pids, Mounts(p)
      PROVE  Goal
  BY <1>0, <1>8 DEF Mounts, Running, States
<1>9. ASSUME NEW a \in Actors, JsonFails(a) \/ PidFails(a) \/ UnmountSignals(a)
      PROVE  act[a].pid \in Pids \cup {None} /\ act[a].pid # None /\ Sigterm(act[a].pid) /\ up' = up
  <2>1. Orderly(a) /\ act[a] \in Run
    BY OrderlyParts
  <2> QED
    BY <1>9, <2>1 DEF JsonFails, PidFails, UnmountSignals, At, Orderly, Run
<1>10. ASSUME NEW a \in Actors, Serve(a) \/ Script(a)
       PROVE  Goal
  BY <1>0, <1>1, <1>2, <1>3, <1>4, <1>5, <1>6, <1>9, <1>10
  DEF Serve, Script, ReadState, RemoveStale, StatusAnswers,
      MountRefused, MountConfigured, MountConfigFails, SpawnFails,
      JsonOpens, JsonWrites, PidWritten, ClearsJson, ClearsPid,
      UnmountFindsNothing, UnmountWaited,
      AutoMountSkipped, StopKills, StopRemoves, StopEndsServer
<1>11. ASSUME NEW p \in Pids, Ends(p)
       PROVE  Goal
  BY <1>5, <1>11 DEF Ends
<1>12. CASE ServerKilled
  BY <1>6, <1>12 DEF ServerKilled
<1>13. ASSUME NEW a \in Actors, \/ Request(a, "mount") \/ Request(a, "unmount")
                                \/ StartServer(a) \/ StopBegins(a) \/ Poll(a)
       PROVE  Goal
  BY <1>0, <1>1, <1>13 DEF Request, StartServer, StopBegins, Poll
<1>14. CASE UNCHANGED vars
  BY <1>0, <1>1, <1>14 DEF vars
<1>15. Operators \subseteq Actors /\ Pollers \subseteq Actors
  BY DEF Actors
<1> QED
  BY <1>7, <1>8, <1>10, <1>11, <1>12, <1>13, <1>14, <1>15 DEF Next

-----------------------------------------------------------------------------
(* What is live is recorded *)

\* Only a process that is started becomes live.
LEMMA LiveStep ==
    ASSUME MInv, [Next]_vars
    PROVE  /\ Live' \subseteq Live \cup {nextPid}
           /\ nextPid' = nextPid => Live' \subseteq Live
<1>1. nextPid # nextPid + 1
  BY NumbersGrow
<1>2. \A p \in Pids : Running(p)' => Running(p) \/ (p = nextPid /\ nextPid' = nextPid + 1)
  BY ProcsStep DEF MountSpawns, AutoMountSpawns, Spawn
<1>3. Left \subseteq Left'
  BY ProcsStep DEF Left
<1> QED
  BY <1>1, <1>2, <1>3 DEF Live, Pids

\* readMountState finds what is recorded.
LEMMA TrackedFound ==
    ASSUME Tracked
    PROVE  Live \subseteq {Found} /\ (Found = None => Live = {})
<1>1. ASSUME NEW p \in Live
      PROVE  Found = p /\ p # None
  <2>1. p \in Pids /\ Alive(p) /\ p # None /\ ~Alive(None)
    BY DEF Live, Alive, Running, Pids, None
  <2>2. auto /\ pidFile = p /\ json \in {p, None}
    BY DEF Tracked, Recorded
  <2> QED
    BY <2>1, <2>2 DEF Found
<1> QED
  BY <1>1

\* Status requests that remove mount.json, and processes that come up and end,
\* take nothing from it.
LEMMA Undisturbed ==
    ASSUME MInv, NEW a \in Operators, act'[a] = act[a], auto' = auto, pidFile' = pidFile,
           json' \in {json, None}, Live' \subseteq Live
    PROVE  Relies(act[a])'
<1>1. Relies(act[a])
  BY DEF MInv
<1>2. Tracked => Tracked'
  BY DEF Tracked, Recorded
<1> QED
  BY <1>1, <1>2 DEF Relies

\* The operator is where nothing has to be known but what is recorded.
LEMMA Settled ==
    ASSUME NEW a \in Operators, act'[a].pc \in {"idle", "read", "auto", "kill"}, Tracked',
           act'[a].pc = "auto" => auto'
    PROVE  Relies(act[a])'
BY DEF Relies

\* Nothing is live: nothing to record.
LEMMA NothingLive ==
    ASSUME Live' = {}
    PROVE  Tracked'
BY DEF Tracked

\* The requests and scripts of the operator.
LEMMA OperatorStep ==
    ASSUME MInv, NEW a \in Operators, Serve(a) \/ Script(a), ~StopEndsServer(a)
    PROVE  Relies(act[a])'
<1>0. /\ a \in Actors /\ [Next]_vars /\ TypeOK /\ Issued
      /\ Orderly(a) /\ Placed(act[a]) /\ Relies(act[a])
  <2>1. a \in Actors
    BY DEF Actors
  <2> QED
    BY <2>1, OrderlyParts DEF MInv, Next
<1>1. Leads(a)
  BY <1>0, StepLeads
<1>2. /\ Live' \subseteq Live \cup {nextPid}
      /\ nextPid' = nextPid => Live' \subseteq Live
  BY <1>0, LiveStep
<1>3. UNCHANGED <<auto, json, pidFile>> /\ Live' \subseteq Live => (Tracked => Tracked')
  BY DEF Tracked, Recorded
<1> USE DEF Becomes, At
<1>4. CASE ReadState(a) /\ Becomes(a, act'[a].pc, act[a].op, Found)
           /\ act'[a].pc \in {"drop", "known"} /\ (act'[a].pc = "drop" => Found = None)
  <2>1. Tracked /\ UNCHANGED <<auto, json, pidFile>> /\ Live' \subseteq Live
    BY <1>0, <1>2, <1>4 DEF ReadState, Relies, procVars, fileVars
  <2>2. Tracked' /\ Live' \subseteq {Found} /\ (Found = None => Live' = {})
    BY <1>3, <2>1, TrackedFound
  <2> QED
    BY <1>4, <2>2 DEF Relies
<1>5. CASE RemoveStale(a) /\ Becomes(a, "known", act[a].op, act[a].pid)
  <2>1. Live' = {}
    BY <1>0, <1>2, <1>5 DEF RemoveStale, Relies, procVars
  <2> QED
    BY <1>5, <2>1, NothingLive DEF Relies
<1>6. CASE (StatusAnswers(a) \/ MountRefused(a) \/ AutoMountSkipped(a))
              /\ Becomes(a, "idle", "none", None)
  <2>1. Tracked /\ UNCHANGED <<auto, json, pidFile>> /\ Live' \subseteq Live
    BY <1>0, <1>2, <1>6 DEF StatusAnswers, MountRefused, AutoMountSkipped, Relies,
                            procVars, fileVars
  <2> QED
    BY <1>3, <1>6, <2>1, Settled
<1>7. CASE (MountConfigFails(a) \/ SpawnFails(a) \/ ClearsPid(a))
              /\ Becomes(a, "idle", "none", None)
  <2>1. Live' = {}
    <3>1. Live = {}
      <4>1. MountConfigFails(a) => Live \subseteq {None}
        BY <1>0 DEF MountConfigFails, Relies
      <4>2. None \notin Live
        BY DEF Live, Pids, None
      <4> QED
        BY <1>0, <1>7, <4>1, <4>2 DEF SpawnFails, ClearsPid, Relies
    <3>2. nextPid' = nextPid
      BY <1>7 DEF MountConfigFails, SpawnFails, ClearsPid, procVars
    <3> QED
      BY <1>2, <3>1, <3>2
  <2> QED
    BY <1>7, <2>1, NothingLive, Settled
<1>8. CASE JsonFails(a) /\ Becomes(a, "idle", "none", None)
  <2>1. Live \subseteq {act[a].pid} /\ termed' = termed \cup {act[a].pid} /\ nextPid' = nextPid
    BY <1>0, <1>8 DEF JsonFails, Relies, Sigterm
  <2>2. Live' = {}
    BY <1>2, <2>1 DEF Live, Left
  <2> QED
    BY <1>8, <2>2, NothingLive, Settled
<1>9. CASE MountConfigured(a) /\ Becomes(a, "spawn", act[a].op, act[a].pid)
  <2>1. Live \subseteq {None} /\ auto' /\ nextPid' = nextPid
    BY <1>0, <1>9 DEF MountConfigured, Relies, procVars
  <2>2. None \notin Live
    BY DEF Live, Pids, None
  <2>3. Live' = {}
    BY <1>2, <2>1, <2>2
  <2> QED
    BY <1>9, <2>1, <2>3 DEF Relies
<1>10. CASE MountSpawns(a) /\ Becomes(a, "open", act[a].op, nextPid)
  <2>1. Live = {} /\ auto /\ act[a].op = "mount" /\ UNCHANGED <<auto, json, pidFile>>
    BY <1>0, <1>10 DEF MountSpawns, Relies, Placed, fileVars
  <2>2. pidFile # nextPid
    <3>1. pidFile < nextPid /\ nextPid \in Int
      BY <1>0 DEF Issued, TypeOK
    <3> QED
      BY <3>1
  <2> QED
    BY <1>2, <1>10, <2>1, <2>2 DEF Relies
<1>11. CASE JsonOpens(a) /\ Becomes(a, "write", act[a].op, act[a].pid)
  <2>1. /\ Live \subseteq {act[a].pid} /\ auto /\ UNCHANGED <<auto, pidFile, nextPid>>
        /\ act[a].op = "mount" => pidFile # act[a].pid
        /\ act[a].op = "start" => pidFile = act[a].pid
    BY <1>0, <1>11 DEF JsonOpens, Relies, procVars
  <2> QED
    BY <1>2, <1>11, <2>1 DEF Relies
<1>12. CASE JsonWrites(a) /\ act[a].op = "mount" /\ Becomes(a, "pid", act[a].op, act[a].pid)
  <2>1. /\ Live \subseteq {act[a].pid} /\ auto /\ UNCHANGED <<auto, pidFile, nextPid>>
        /\ pidFile # act[a].pid /\ json' \in {act[a].pid, None}
    BY <1>0, <1>12 DEF JsonWrites, Relies, procVars
  <2> QED
    BY <1>2, <1>12, <2>1 DEF Relies
<1>13. CASE JsonWrites(a) /\ act[a].op # "mount" /\ Becomes(a, "idle", "none", None)
  <2>1. /\ Live \subseteq {act[a].pid} /\ auto /\ UNCHANGED <<auto, pidFile, nextPid>>
        /\ pidFile = act[a].pid /\ json' \in {act[a].pid, None}
    BY <1>0, <1>13 DEF JsonWrites, Relies, Placed, procVars
  <2>2. Tracked'
    BY <1>2, <2>1 DEF Tracked, Recorded
  <2> QED
    BY <1>13, <2>2, Settled
<1>14. CASE PidWritten(a) /\ act[a].op = "mount" /\ Becomes(a, "idle", "none", None)
  <2>1. /\ Live \subseteq {act[a].pid} /\ auto /\ UNCHANGED <<auto, json, nextPid>>
        /\ pidFile' = act[a].pid /\ json \in {act[a].pid, None}
    BY <1>0, <1>14 DEF PidWritten, Relies, procVars
  <2>2. Tracked'
    BY <1>2, <2>1 DEF Tracked, Recorded
  <2> QED
    BY <1>14, <2>2, Settled
<1>15. CASE PidWritten(a) /\ act[a].op # "mount" /\ Becomes(a, "open", act[a].op, act[a].pid)
  <2>1. /\ Live \subseteq {act[a].pid} /\ auto /\ UNCHANGED <<auto, json, nextPid>>
        /\ pidFile' = act[a].pid /\ act[a].op = "start"
    BY <1>0, <1>15 DEF PidWritten, Relies, Placed, procVars
  <2> QED
    BY <1>2, <1>15, <2>1 DEF Relies
<1>16. CASE PidFails(a) /\ Becomes(a, "clear", act[a].op, act[a].pid)
  <2>1. Live \subseteq {act[a].pid} /\ termed' = termed \cup {act[a].pid} /\ nextPid' = nextPid
    BY <1>0, <1>16 DEF PidFails, Relies, Sigterm
  <2>2. Live' = {}
    BY <1>2, <2>1 DEF Live, Left
  <2> QED
    BY <1>16, <2>2 DEF Relies
<1>17. CASE UnmountFindsNothing(a) /\ Becomes(a, "clear", act[a].op, act[a].pid)
  <2>1. Live \subseteq {None} /\ nextPid' = nextPid
    BY <1>0, <1>17 DEF UnmountFindsNothing, Relies, procVars
  <2>2. None \notin Live
    BY DEF Live, Pids, None
  <2>3. Live' = {}
    BY <1>2, <2>1, <2>2
  <2> QED
    BY <1>17, <2>3 DEF Relies
<1>18. CASE \/ UnmountWaited(a) /\ Becomes(a, "clear", act[a].op, act[a].pid)
            \/ ClearsJson(a) /\ Becomes(a, "clearPid", act[a].op, act[a].pid)
            \/ StopRemoves(a) /\ Becomes(a, "server", act[a].op, act[a].pid)
  <2>1. Live = {} /\ nextPid' = nextPid
    BY <1>0, <1>18 DEF UnmountWaited, ClearsJson, StopRemoves, Relies, procVars
  <2>2. Live' = {}
    BY <1>2, <2>1
  <2> QED
    BY <1>18, <2>2 DEF Relies
<1>19. CASE UnmountSignals(a) /\ Becomes(a, "wait", act[a].op, act[a].pid)
  <2>1. Live \subseteq {act[a].pid} /\ termed' = termed \cup {act[a].pid} /\ nextPid' = nextPid
    BY <1>0, <1>19 DEF UnmountSignals, Relies, Sigterm
  <2>2. Live' = {}
    BY <1>2, <2>1 DEF Live, Left
  <2> QED
    BY <1>19, <2>2 DEF Relies
<1>20. CASE AutoMountSpawns(a) /\ Becomes(a, "pid", act[a].op, nextPid)
  <2>1. Tracked /\ ~Alive(pidFile) /\ act[a].op = "start" /\ auto /\ auto' = auto
    BY <1>0, <1>20 DEF AutoMountSpawns, Relies, Placed
  <2>2. Live = {}
    BY <2>1 DEF Tracked, Recorded, Live, Alive
  <2> QED
    BY <1>2, <1>20, <2>1, <2>2 DEF Relies
<1>21. CASE StopKills(a) /\ act'[a].pc \in {"server", "rm"}
              /\ Becomes(a, act'[a].pc, act[a].op, act[a].pid)
  <2>1. Tracked /\ proc' = Ended({pidFile}) /\ nextPid' = nextPid
    BY <1>0, <1>21 DEF StopKills, Relies
  <2>2. Live' \subseteq Live /\ \A p \in Live : p = pidFile
    BY <1>2, <2>1 DEF Tracked, Recorded
  <2>3. \A p \in Pids : p = pidFile => ~Running(p)'
    BY <2>1 DEF Ended, Running
  <2>4. Live' = {}
    BY <2>2, <2>3 DEF Live
  <2> QED
    BY <1>21, <2>4 DEF Relies
<1> QED
  BY <1>1, <1>4, <1>5, <1>6, <1>7, <1>8, <1>9, <1>10, <1>11, <1>12, <1>13, <1>14, <1>15,
     <1>16, <1>17, <1>18, <1>19, <1>20, <1>21
  DEF Leads

\* A request begins when the operator has nothing else to do.
LEMMA OperatorBegins ==
    ASSUME MInv, NEW a \in Operators,
           \/ Request(a, "mount") \/ Request(a, "unmount")
           \/ StartServer(a) \/ StopBegins(a)
    PROVE  Relies(act[a])'
<1>0. a \in Actors /\ [Next]_vars /\ TypeOK /\ Relies(act[a])
  BY DEF Actors, MInv, Next
<1>1. act[a].pc = "idle" /\ Tracked
  BY <1>0 DEF Request, StartServer, StopBegins, CanBegin, Busy, At, Relies
<1>2. UNCHANGED <<json, pidFile, auto, nextPid>>
  BY DEF Request, StartServer, StopBegins, procVars, fileVars
<1>3. Tracked'
  BY <1>0, <1>1, <1>2, LiveStep DEF Tracked, Recorded
<1>4. /\ act'[a].pc \in {"idle", "read", "auto", "kill"}
      /\ act'[a].pc = "auto" => auto
  <2>1. CASE Request(a, "mount") \/ Request(a, "unmount")
    BY <1>0, <2>1, Begins DEF Request, Becomes, Labels, OpNames
  <2>2. CASE StartServer(a)
    BY <1>0, <1>1, <2>2, Begins DEF StartServer, Becomes, Labels, OpNames
  <2>3. CASE StopBegins(a)
    BY <1>0, <2>3, Begins DEF StopBegins, Becomes, Labels, OpNames
  <2> QED
    BY <2>1, <2>2, <2>3
<1> QED
  BY <1>2, <1>3, <1>4, Settled

\* A status request reads, and removes a mount.json it could make nothing of.
LEMMA PageStep ==
    ASSUME MInv, NEW b \in Pollers, Serve(b) \/ Poll(b), NEW a \in Operators
    PROVE  Relies(act[a])'
<1>0. /\ a \in Actors /\ b \in Actors /\ a # b /\ [Next]_vars /\ TypeOK /\ Issued
      /\ act[b].pc \in {"idle", "read", "drop", "known"} /\ act[b].op \in {"none", "status"}
  BY ActorAssumption DEF MInv, PagesPoll, Actors, Next
<1>1. ReadState(b) \/ RemoveStale(b) \/ StatusAnswers(b) \/ Poll(b)
  BY <1>0 DEF Serve, MountRefused, MountConfigured, MountConfigFails, MountSpawns, SpawnFails,
         JsonOpens, JsonWrites, JsonFails, PidWritten, PidFails, ClearsJson, ClearsPid,
         UnmountFindsNothing, UnmountSignals, UnmountWaited, At
<1>2. act'[a] = act[a]
  <2>1. CASE Serve(b)
    <3>1. ~StopEndsServer(b)
      BY <1>0 DEF StopEndsServer, At
    <3>2. Leads(b)
      BY <1>0, <2>1, <3>1, StepLeads
    <3> QED
      BY <1>0, <3>2 DEF Leads, Becomes, Alone
  <2>2. CASE Poll(b)
    BY <1>0, <2>2, Begins DEF Poll, Becomes, Alone, Labels, OpNames
  <2> QED
    BY <2>1, <2>2
<1>3. /\ auto' = auto /\ pidFile' = pidFile /\ json' \in {json, None} /\ nextPid' = nextPid
  BY <1>1 DEF ReadState, RemoveStale, StatusAnswers, Poll, procVars, fileVars
<1> QED
  BY <1>0, <1>2, <1>3, LiveStep, Undisturbed

\* The server ends, whatever it was doing.
LEMMA ServerEndStep ==
    ASSUME MInv, OneOperator, NEW done \in SUBSET Operators, ServerEnds(done),
           UNCHANGED fileVars, \A a \in done : act[a].pc = "server", [Next]_vars,
           NEW a \in Operators
    PROVE  Relies(act[a])'
<1>0. /\ a \in Actors /\ Orderly(a) /\ Placed(act[a]) /\ Relies(act[a]) /\ act[a] \in Run
  BY OrderlyParts DEF MInv, Actors
<1>1. /\ UNCHANGED <<json, pidFile, auto, nextPid>> /\ Live' \subseteq Live
  BY LiveStep DEF ServerEnds, fileVars
<1>2. CASE act'[a] = act[a]
  BY <1>1, <1>2, Undisturbed
<1>3. CASE act'[a] = Free /\ (InServer(a) \/ a \in done)
  <2>1. Tracked => Tracked'
    BY <1>1 DEF Tracked, Recorded
  <2>2. Live = {} => Tracked'
    BY <1>1, NothingLive
  <2>3. CASE act[a].pc \in {"open", "write", "pid"}
    <3>1. act[a].op = "mount" /\ Live \subseteq {act[a].pid}
      BY <1>0, <1>3, <2>3 DEF InServer, Placed, Relies
    <3>2. act[a].pid \in Unrecorded
      BY <2>3, <3>1 DEF Unrecorded
    <3>3. cut' = cut \cup Unrecorded
      BY DEF ServerEnds
    <3>4. Live' = {}
      BY <1>1, <3>1, <3>2, <3>3 DEF Live, Left
    <3> QED
      BY <1>3, <3>4, NothingLive, Settled DEF Free
  <2>4. CASE act[a].pc \notin {"open", "write", "pid"}
    <3>1. Tracked \/ Live = {}
      BY <1>0, <2>4 DEF Relies, Run
    <3> QED
      BY <1>3, <2>1, <2>2, <3>1, Settled DEF Free
  <2> QED
    BY <2>3, <2>4
<1> QED
  BY <1>0, <1>2, <1>3 DEF ServerEnds

\* Whatever happens, the operator can rely on it.
LEMMA ReliesStep ==
    ASSUME MInv, OneOperator, [Next]_vars, NEW a \in Operators
    PROVE  Relies(act[a])'
<1>0. a \in Actors /\ \A b \in Operators : b = a
  BY DEF OneOperator, Actors
<1>1. CASE \E b \in Operators : (Serve(b) \/ Script(b)) /\ ~StopEndsServer(b)
  BY <1>0, <1>1, OperatorStep
<1>2. CASE \E b \in Operators : StopEndsServer(b)
  <2>1. StopEndsServer(a)
    BY <1>0, <1>2
  <2> QED
    BY <2>1, ServerEndStep DEF StopEndsServer, At
<1>3. CASE \E b \in Operators : \/ Request(b, "mount") \/ Request(b, "unmount")
                                \/ StartServer(b) \/ StopBegins(b)
  BY <1>0, <1>3, OperatorBegins
<1>4. CASE \E b \in Pollers : Serve(b) \/ Poll(b)
  BY <1>4, PageStep
<1>5. CASE \/ \E p \in Pids : Mounts(p) \/ Ends(p)
           \/ UNCHANGED vars
  <2>1. UNCHANGED <<act, json, pidFile, auto, nextPid>>
    BY <1>5 DEF Mounts, Ends, vars, procVars, fileVars
  <2> QED
    BY <2>1, LiveStep, Undisturbed
<1>6. CASE ServerKilled
  BY <1>6, ServerEndStep DEF ServerKilled
<1>7. CASE Reboot
  <2>1. Live' = {}
    BY <1>7 DEF Reboot, Live, Running
  <2>2. act'[a].pc = "idle"
    BY <1>0, <1>7 DEF Reboot, Free
  <2> QED
    BY <2>1, <2>2, NothingLive, Settled
<1> QED
  BY <1>1, <1>2, <1>3, <1>4, <1>5, <1>6, <1>7 DEF Next, Actors

-----------------------------------------------------------------------------
\* MInv holds of a machine on which nothing runs.
LEMMA MInvInit == Init => MInv
<1> SUFFICES ASSUME Init PROVE MInv
  OBVIOUS
<1>1. Free \in Run /\ Free.pc = "idle" /\ Free.op = "none" /\ Free.pid = None
  BY DEF Free, Run
<1>2. TypeOK
  <2>1. 1 \in 1..(MaxPid + 1)
    BY BoundAssumption
  <2> QED
    BY <1>1, <2>1 DEF Init, TypeOK
<1>3. Issued /\ PagesPoll
  BY <1>1, ActorAssumption DEF Init, Issued, PagesPoll, None, Actors
<1>4. Live = {}
  BY DEF Init, Live, Running
<1>5. \A a \in Operators : Placed(act[a]) /\ Relies(act[a])
  BY <1>1, <1>4 DEF Init, Placed, Relies, Tracked, Actors
<1> QED
  BY <1>2, <1>3, <1>5 DEF MInv

\* Every step keeps it.
LEMMA MInvStep == OneOperator /\ MInv /\ [Next]_vars => MInv'
<1> SUFFICES ASSUME OneOperator, MInv, [Next]_vars PROVE MInv'
  OBVIOUS
<1>1. TypeOK'
  BY NumbersGrow, AllOrderly, FilesStep, ProcsStep DEF TypeOK, Orderly, States
<1>2. Issued' /\ PagesPoll' /\ \A a \in Operators : Placed(act[a])'
  BY AllOrderly, FilesStep DEF Issued, PagesPoll, Orderly, Actors
<1>3. \A a \in Operators : Relies(act[a])'
  BY ReliesStep
<1> QED
  BY <1>1, <1>2, <1>3 DEF MInv

\* In every reachable state: types, numbers, and what the operator relies on.
THEOREM MountInductive ==
    ASSUME OneOperator
    PROVE  Spec => []MInv
BY MInvInit, MInvStep, PTL DEF Spec

\* Processes, files and requests keep their types.
THEOREM MountTypeCorrect ==
    ASSUME OneOperator
    PROVE  Spec => []TypeOK
<1>1. MInv => TypeOK
  BY DEF MInv
<1> QED
  BY <1>1, MountInductive, PTL

\* With one operator, readMountState finds every mount process that the API has
\* not sent SIGTERM and whose request was not cut off, so that there is one of
\* them at most.
THEOREM NoneIsOrphaned ==
    ASSUME OneOperator
    PROVE  Spec => []NoOrphan
<1>1. MInv => NoOrphan
  <2> SUFFICES ASSUME MInv, \A a \in Operators : ~Busy(a),
                      NEW p \in Pids \ Left, Running(p)
               PROVE  Found = p
    BY DEF NoOrphan
  <2>1. PICK o \in Operators : Relies(act[o]) /\ act[o].pc = "idle"
    BY DEF OneOperator, MInv, Busy, At
  <2>2. Tracked /\ p \in Live
    BY <2>1 DEF Relies, Live
  <2> QED
    BY <2>2, TrackedFound
<1> QED
  BY <1>1, MountInductive, PTL

\* When a mount request is answered, status requests find its process.
THEOREM MountsAreFound ==
    ASSUME OneOperator
    PROVE  Spec => MountIsFound
<1> DEFINE A == \A a \in Operators :
                   act[a].op = "mount" /\ At(a, "pid") /\ pidFile' = act[a].pid =>
                       Found' = act[a].pid \/ ~Alive(act[a].pid)
<1>1. MInv /\ [Next]_vars => [A]_vars
  <2> SUFFICES ASSUME MInv, Next, NEW a \in Operators, act[a].op = "mount", At(a, "pid"),
                      pidFile' = act[a].pid, Alive(act[a].pid)
               PROVE  Found' = act[a].pid
    OBVIOUS
  <2>1. /\ pidFile # act[a].pid /\ json \in {act[a].pid, None} /\ auto
        /\ a \in Actors /\ act[a].pid \in Pids
    BY DEF MInv, Relies, At, Actors, Alive, Running
  <2>2. PidWritten(a)
    <3>1. PICK b \in Actors : Serve(b) \/ Script(b)
      BY <2>1 DEF Next, Request, Poll, StartServer, StopBegins, Mounts, Ends, ServerKilled,
                  Reboot, fileVars, Actors
    <3>2. \/ PidWritten(b) \/ PidFails(b) \/ ClearsPid(b) \/ AutoMountSpawns(b) \/ StopRemoves(b)
      BY <2>1, <3>1
      DEF Serve, Script, fileVars, ReadState, RemoveStale, StatusAnswers,
          MountRefused, MountConfigured, MountConfigFails, MountSpawns, SpawnFails,
          JsonOpens, JsonWrites, JsonFails, ClearsJson, UnmountFindsNothing,
          UnmountSignals, UnmountWaited, AutoMountSkipped, StopKills, StopEndsServer
    <3>3. act[a].pid # None
      BY <2>1 DEF Pids, None
    <3>4. PidWritten(b)
      BY <3>2, <3>3 DEF PidFails, ClearsPid, AutoMountSpawns, StopRemoves
    <3>5. b \in Operators
      BY <3>4 DEF PidWritten, At, MInv, PagesPoll, Actors
    <3> QED
      BY <3>4, <3>5 DEF OneOperator
  <2>3. UNCHANGED <<proc, json, auto>>
    BY <2>2 DEF PidWritten, procVars
  <2>4. \A p \in Pids : Alive(p) => p \in Pids /\ proc'[p] \in {"starting", "mounted", "zombie"}
    BY <2>3 DEF Alive, Running
  <2>5. None \notin Pids
    BY DEF Pids, None
  <2> QED
    BY <2>1, <2>3, <2>4, <2>5 DEF Found, Alive, Running
<1> QED
  BY <1>1, MountInductive, PTL DEF Spec, MountIsFound

\* Where stop has ended, no mount process runs but those that the API had sent
\* SIGTERM before, and those whose request was cut off.
THEOREM StopLeavesNothing ==
    ASSUME OneOperator
    PROVE  Spec => StopUnmounts
<1> DEFINE A == \A a \in Operators : At(a, "server") /\ act'[a].pc = "idle" =>
                   \A p \in Pids \ Left : ~Running(p)'
<1>1. MInv /\ [Next]_vars => [A]_vars
  <2> SUFFICES ASSUME MInv, Next, NEW a \in Operators, At(a, "server"), act'[a].pc = "idle",
                      NEW p \in Pids \ Left, Running(p)'
               PROVE  FALSE
    OBVIOUS
  <2>1. Live = {}
    BY DEF MInv, Relies, At
  <2>2. ~Running(p)
    BY <2>1 DEF Live
  <2>3. PICK b \in Actors : MountSpawns(b) \/ AutoMountSpawns(b)
    BY <2>2, ProcsStep
  <2>4. b = a
    BY <2>3 DEF MountSpawns, AutoMountSpawns, At, MInv, PagesPoll, OneOperator, Actors
  <2> QED
    BY <2>3, <2>4 DEF MountSpawns, AutoMountSpawns, At
<1> QED
  BY <1>1, MountInductive, PTL DEF Spec, StopUnmounts
=============================================================================
