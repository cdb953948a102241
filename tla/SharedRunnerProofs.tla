------------------------- MODULE SharedRunnerProofs -------------------------
(***************************************************************************)
(* What SharedRunner promises for every number of launchers and of crashes.*)
(*                                                                         *)
(* SingleService rests on who may bind the socket file: only the launcher  *)
(* with the file lock, after it has found nobody who serves behind it.     *)
(* LookInv says what a launcher knows between that look and the bind, and  *)
(* PathInv that a service that is up is the one the file names.  Types     *)
(* need CountInv, because activeClients is only kept above zero by the     *)
(* threads it counts, and ConnInv, because a connection is opened again    *)
(* only when no thread is left for it.                                     *)
(***************************************************************************)
EXTENDS SharedRunner, FiniteSetTheorems, TLAPS

-----------------------------------------------------------------------------
(* The inductive invariant.                                                *)

\* A launcher's connection has a thread only while it waits for an answer and
\* afterwards, and a workload's only after it has connected.
ConnInv ==
    /\ \A l \in Launchers :
           /\ lpc[l] \notin {"ping", "reping", "spawn", "wait", "done", "crashed"}
                  => thr[Pass(l)] = "none" /\ cst[Pass(l)] \in {"none", "dead"}
           /\ lpc[l] \in {"ping", "reping"} /\ cst[Pass(l)] = "dead"
                  => thr[Pass(l)] = "none"
           /\ thr[Pass(l)] \in {"none", "count", "prologue", "leave"}
           /\ thr[Pass(l)] = "leave" => lpc[l] \in {"done", "crashed"}
           /\ lpc[l] \in {"connect", "ping", "lock", "reconnect", "reping",
                          "spawn", "bind", "listen", "unlock"} => wpc[l] = "none"
           /\ wpc[l] \in {"none", "running"} =>
                  thr[Work(l)] = "none" /\ cst[Work(l)] = "none"
    /\ \A k \in Connections :
           /\ cst[k] \in {"none", "pending"} => thr[k] = "none"
           /\ cst[k] = "none" => to[k] = None
           /\ thr[k] # "none" => to[k] \in Launchers /\ lpc[to[k]] # "crashed"

\* The connections of a service whose threads are counted.
Counted(l) ==
    {k \in Connections : to[k] = l /\ thr[k] \notin {"none", "count"}}

CountInv ==
    \A l \in Launchers :
        lpc[l] # "crashed" => activeClients[l] = Cardinality(Counted(l))

LockInv ==
    \A l \in Launchers :
        flock = l <=> lpc[l] \in {"reconnect", "reping", "bind", "listen", "unlock"}

\* A service between its bind and the end of its loop whose socket is open.
Up(l) ==
    /\ lpc[l] \in {"listen", "unlock", "loop", "accept"}
    /\ sock[l] \in {"bound", "listening"}

PathInv ==
    /\ \A l \in Launchers : sock[l] = "bound" <=> lpc[l] = "listen"
    /\ unlinked \/ \A l \in Launchers : Up(l) => path = l

\* What the launcher with the lock has seen when it looked again.
LookInv ==
    unlinked \/ \A l \in Launchers :
        /\ lpc[l] = "reping" =>
               /\ path \in Launchers /\ path = to[Pass(l)]
               /\ cst[Pass(l)] = "dead" => ~Up(path)
        /\ lpc[l] = "bind" => \A m \in Launchers : ~Up(m)

IInv == TypeOK /\ ConnInv /\ CountInv /\ LockInv /\ PathInv /\ LookInv

-----------------------------------------------------------------------------
(* Connections, and the steps by what they leave alone.                    *)

USE DEF serviceVars, connVars, boundVars

\* Every connection is the one of a launcher or the one of its workload.
LEMMA ConnectionFacts ==
    /\ \A l \in Launchers : /\ Pass(l) \in Connections /\ Work(l) \in Connections
                            /\ Pass(l)[1] = l /\ Pass(l)[2] = "pass"
                            /\ Work(l)[1] = l /\ Work(l)[2] = "work"
    /\ \A l, m \in Launchers : /\ Pass(l) # Work(m)
                               /\ Pass(l) = Pass(m) => l = m
                               /\ Work(l) = Work(m) => l = m
    /\ \A k \in Connections : /\ k[1] \in Launchers
                              /\ k[2] = "pass" => k = Pass(k[1])
                              /\ k[2] = "work" => k = Work(k[1])
                              /\ k[2] \in {"pass", "work"}
BY DEF Pass, Work, Connections

\* The threads of connections leave launchers, the lock and the file alone.
LEMMA ThreadFrame ==
    ASSUME NEW k \in Connections, Thread(k)
    PROVE  UNCHANGED <<path, flock, lpc, rpc, isStopping, to, boundVars>>
BY Zenon DEF Thread, Count, AnswerPing, Handshake, ServeLoop, ServeMessage,
       CleanupClient, LeaveGuard

\* So do workloads.
LEMMA WorkloadFrame ==
    ASSUME NEW l \in Launchers, Workload(l) \/ WorkRequest(l) \/ WorkKilled(l)
    PROVE  UNCHANGED <<path, flock, lpc, rpc, serviceVars, thr, unlinked>>
BY Zenon DEF Workload, WorkConnect, WorkHandshake, WorkEnd, WorkRequest, WorkKilled,
       WorkGone, Open

\* Where a launcher goes when it neither takes nor gives the lock.
LEMMA LauncherMoves ==
    ASSUME NEW l \in Launchers,
           \/ Connect(l) \/ Pinged(l) \/ Reconnect(l) \/ Spawn(l)
           \/ PassThroughEnds(l) \/ Bind(l) \/ Listen(l) \/ Loop(l) \/ Accept(l)
           \/ AcceptFails(l) \/ Close(l) \/ Unlink(l) \/ Stopping(l) \/ Join(l)
    PROVE  /\ flock' = flock
           /\ \/ /\ lpc[l] \in {"reconnect", "bind", "listen"}
                 /\ \E x \in {"reping", "bind", "listen", "unlock"} :
                        lpc' = [lpc EXCEPT ![l] = x]
              \/ /\ lpc[l] \in {"connect", "ping", "spawn", "wait", "loop",
                                "accept", "close", "unlink", "stopping", "join"}
                 /\ \E x \in {"ping", "lock", "spawn", "wait", "accept", "close",
                              "loop", "unlink", "stopping", "join", "done"} :
                        lpc' = [lpc EXCEPT ![l] = x]
<1>1. flock' = flock
  BY Zenon DEF Connect, Pinged, Reconnect, Spawn, PassThroughEnds, Bind, Listen, Loop,
         Accept, AcceptFails, Close, Unlink, Stopping, Join
<1>2. CASE Reconnect(l) \/ Bind(l) \/ Listen(l)
  BY <1>1, <1>2, Zenon DEF Reconnect, Bind, Listen, Goto
<1>3. CASE \/ Connect(l) \/ Pinged(l) \/ Spawn(l) \/ PassThroughEnds(l) \/ Loop(l)
           \/ Accept(l) \/ AcceptFails(l) \/ Close(l) \/ Unlink(l)
           \/ Stopping(l) \/ Join(l)
  BY <1>1, <1>3, Zenon
  DEF Connect, Pinged, Spawn, PassThroughEnds, Loop, Accept, AcceptFails, Close,
      Unlink, Stopping, Join, Goto
<1>4. QED
  BY <1>2, <1>3, Zenon

-----------------------------------------------------------------------------
(* The file lock.                                                          *)

LEMMA LockStep ==
    ASSUME TypeOK, LockInv, Next
    PROVE  LockInv'
<1>1. ASSUME NEW k \in Connections, Thread(k)
      PROVE  LockInv'
  BY <1>1, ThreadFrame, Zenon DEF LockInv
<1>2. ASSUME NEW l \in Launchers
      PROVE  (Workload(l) \/ WorkRequest(l) \/ WorkKilled(l)) => LockInv'
  BY <1>2, WorkloadFrame, Zenon DEF LockInv
<1>3. ASSUME NEW l \in Launchers
      PROVE  ClearRunInLoop(l) \/ Shutdown(l) => LockInv'
  BY Zenon DEF ClearRunInLoop, Shutdown, LockInv
<1>4. ASSUME NEW l \in Launchers,
             \/ Connect(l) \/ Pinged(l) \/ Reconnect(l) \/ Spawn(l)
             \/ PassThroughEnds(l) \/ Bind(l) \/ Listen(l) \/ Loop(l) \/ Accept(l)
             \/ AcceptFails(l) \/ Close(l) \/ Unlink(l) \/ Stopping(l) \/ Join(l)
      PROVE  LockInv'
  BY <1>4, LauncherMoves DEF LockInv, TypeOK
<1>5. ASSUME NEW l \in Launchers, Lock(l)
      PROVE  LockInv'
  BY <1>5, RunnerAssumption DEF Lock, Goto, LockInv, TypeOK
<1>6. ASSUME NEW l \in Launchers, Repinged(l)
      PROVE  LockInv'
  BY <1>6, RunnerAssumption DEF Repinged, Goto, LockInv, TypeOK
<1>7. ASSUME NEW l \in Launchers, Unlock(l)
      PROVE  LockInv'
  BY <1>7, RunnerAssumption, ZenonT(60) DEF Unlock, Goto, LockInv, TypeOK
<1>8. ASSUME NEW l \in Launchers, Dies(l)
      PROVE  LockInv'
  BY <1>8, RunnerAssumption, Zenon DEF Dies, Goto, LockInv, TypeOK
<1>9. QED
  BY <1>1, <1>2, <1>3, <1>4, <1>5, <1>6, <1>7, <1>8, Zenon
  DEF Next, Launcher, Service, Runner, RunnerExits, Crash

-----------------------------------------------------------------------------
(* Counting.                                                               *)

LEMMA ConnectionsFinite ==
    /\ IsFiniteSet(Connections) /\ Cardinality(Connections) \in Nat
    /\ \A l : IsFiniteSet(Counted(l)) /\ Cardinality(Counted(l)) \in Nat
    /\ \A l : Cardinality(Counted(l)) <= Cardinality(Connections)
<1>1. IsFiniteSet({"pass", "work"})
  <2>1. IsFiniteSet({"pass"} \cup {"work"})
    BY FS_Singleton, FS_AddElement, Zenon
  <2>2. {"pass"} \cup {"work"} = {"pass", "work"}
    OBVIOUS
  <2>3. QED
    BY <2>1, <2>2, Zenon
<1>2. IsFiniteSet(Connections)
  BY <1>1, RunnerAssumption, FS_Product, Zenon DEF Connections
<1>3. \A l : Counted(l) \subseteq Connections
  BY Zenon DEF Counted
<1>4. QED
  BY <1>2, <1>3, FS_Subset, FS_CardinalityType, Zenon

\* The thread that leaves is counted, so activeClients is not zero and the
\* test in ~ActiveClientGuard fails.
LEMMA LeaveCounts ==
    ASSUME IInv, NEW k \in Connections, LeaveGuard(k)
    PROVE  /\ to[k] \in Launchers /\ lpc[to[k]] # "crashed" /\ k \in Counted(to[k])
           /\ activeClients[to[k]] \in Nat /\ activeClients[to[k]] # 0
           /\ sock' = sock /\ runInLoop' = runInLoop
<1>1. thr[k] = "leave"
  BY Zenon DEF LeaveGuard
<1>2. to[k] \in Launchers /\ lpc[to[k]] # "crashed" /\ k \in Counted(to[k])
  BY <1>1, Zenon DEF IInv, ConnInv, Counted
<1>3. activeClients[to[k]] = Cardinality(Counted(to[k]))
  BY <1>2, Zenon DEF IInv, CountInv
<1>4. activeClients[to[k]] \in Nat /\ activeClients[to[k]] # 0
  BY <1>2, <1>3, ConnectionsFinite, FS_EmptySet, Zenon
<1>5. sock' = sock /\ runInLoop' = runInLoop
  <2>1. sock' = [sock EXCEPT ![to[k]] = sock[to[k]]]
    BY <1>4, Zenon DEF LeaveGuard
  <2>2. runInLoop' = [runInLoop EXCEPT ![to[k]] = runInLoop[to[k]]]
    BY <1>2, <1>4, Zenon DEF LeaveGuard, IInv, TypeOK
  <2>3. QED
    BY <1>2, <2>1, <2>2, Zenon DEF IInv, TypeOK
<1>6. QED
  BY <1>2, <1>4, <1>5, Zenon

-----------------------------------------------------------------------------
(* The socket and its file.                                                *)

\* A socket opens only by bind and listen, which move the launcher too.
LEMMA SockChanges ==
    ASSUME IInv, Next
    PROVE  \/ \E l \in Launchers : Bind(l) \/ Listen(l) \/ Close(l) \/ Dies(l)
           \/ \A m \in Launchers : \/ sock'[m] = sock[m]
                                   \/ /\ sock[m] = "listening"
                                      /\ sock'[m] \in {"shut", "closed"}
<1> DEFINE Keeps == \A m \in Launchers : \/ sock'[m] = sock[m]
                                         \/ /\ sock[m] = "listening"
                                            /\ sock'[m] \in {"shut", "closed"}
<1>1. ASSUME NEW k \in Connections, Thread(k)
      PROVE  sock' = sock
  BY <1>1, LeaveCounts, Zenon
  DEF Thread, Count, AnswerPing, Handshake, ServeLoop, ServeMessage, CleanupClient
<1>2. ASSUME NEW l \in Launchers, Launcher(l)
      PROVE  sock' = sock
  BY <1>2, Zenon DEF Launcher, Connect, Pinged, Lock, Reconnect, Repinged, Spawn,
              PassThroughEnds
<1>3. ASSUME NEW l \in Launchers,
             \/ Unlock(l) \/ Loop(l) \/ Accept(l) \/ AcceptFails(l) \/ Unlink(l)
             \/ Stopping(l) \/ Join(l) \/ ClearRunInLoop(l)
      PROVE  sock' = sock
  BY <1>3, Zenon DEF Unlock, Loop, Accept, AcceptFails, Unlink, Stopping, Join,
              ClearRunInLoop
<1>4. ASSUME NEW l \in Launchers, Shutdown(l)
      PROVE  Keeps
  BY <1>4, Zenon DEF Shutdown, IInv, TypeOK
<1>5. ASSUME NEW l \in Launchers, WorkConnect(l) \/ WorkHandshake(l) \/ WorkRequest(l)
      PROVE  sock' = sock
  BY <1>5, Zenon DEF WorkConnect, WorkHandshake, WorkRequest
<1>6. ASSUME NEW l \in Launchers, WorkEnd(l) \/ WorkKilled(l)
      PROVE  Keeps
  <2>1. PICK result : WorkGone(l, result)
    BY <1>6, Zenon DEF WorkEnd, WorkKilled
  <2>2. QED
    BY <2>1, Zenon DEF WorkGone, IInv, TypeOK
<1>7. QED
  BY <1>1, <1>2, <1>3, <1>4, <1>5, <1>6, Zenon
  DEF Next, Service, Runner, Workload, RunnerExits, Crash

\* What a step does to the file and its history.
LEMMA PathChanges ==
    ASSUME Next
    PROVE  /\ unlinked => unlinked'
           /\ path' = path \/ unlinked' \/ \E l \in Launchers : Bind(l)
<1>1. ASSUME NEW k \in Connections, Thread(k)
      PROVE  path' = path /\ unlinked' = unlinked
  BY <1>1, ThreadFrame, Zenon
<1>2. ASSUME NEW l \in Launchers, Workload(l) \/ WorkRequest(l) \/ WorkKilled(l)
      PROVE  path' = path /\ unlinked' = unlinked
  BY <1>2, WorkloadFrame, Zenon
<1>3. ASSUME NEW l \in Launchers, Launcher(l) \/ ClearRunInLoop(l) \/ Shutdown(l)
      PROVE  path' = path /\ unlinked' = unlinked
  BY <1>3, Zenon DEF Launcher, Connect, Pinged, Lock, Reconnect, Repinged, Spawn,
              PassThroughEnds, ClearRunInLoop, Shutdown
<1>4. ASSUME NEW l \in Launchers, RunnerExits(l) \/ Crash(l)
      PROVE  path' = path /\ unlinked' = unlinked
  BY <1>4, Zenon DEF RunnerExits, Crash, Dies
<1>5. ASSUME NEW l \in Launchers, Service(l), ~Bind(l), ~Unlink(l)
      PROVE  path' = path /\ unlinked' = unlinked
  BY <1>5, Zenon DEF Service, Listen, Unlock, Loop, Accept, AcceptFails, Close, Stopping,
              Join
<1>6. ASSUME NEW l \in Launchers, Bind(l)
      PROVE  unlinked' = unlinked
  BY <1>6, Zenon DEF Bind
<1>7. ASSUME NEW l \in Launchers, Unlink(l)
      PROVE  unlinked'
  BY <1>7, Zenon DEF Unlink
<1>8. QED
  BY <1>1, <1>2, <1>3, <1>4, <1>5, <1>6, <1>7, Zenon DEF Next, Runner

\* Bound sockets are those of launchers about to listen.
LEMMA BoundStep ==
    ASSUME IInv, Next, NEW m \in Launchers
    PROVE  sock'[m] = "bound" <=> lpc'[m] = "listen"
<1>1. sock[m] = "bound" <=> lpc[m] = "listen"
  BY Zenon DEF IInv, PathInv
<1>2. ASSUME NEW l \in Launchers, Bind(l)
      PROVE  sock'[m] = "bound" <=> lpc'[m] = "listen"
  BY <1>1, <1>2, Zenon DEF Bind, Goto, IInv, TypeOK
<1>3. ASSUME NEW l \in Launchers, Listen(l)
      PROVE  sock'[m] = "bound" <=> lpc'[m] = "listen"
  BY <1>1, <1>3, Zenon DEF Listen, Goto, IInv, TypeOK
<1>4. ASSUME NEW l \in Launchers, Close(l)
      PROVE  sock'[m] = "bound" <=> lpc'[m] = "listen"
  BY <1>1, <1>4, Zenon DEF Close, Goto, IInv, TypeOK
<1>5. ASSUME NEW l \in Launchers, Dies(l)
      PROVE  sock'[m] = "bound" <=> lpc'[m] = "listen"
  BY <1>1, <1>5, Zenon DEF Dies, Goto, IInv, TypeOK
<1>6. ASSUME \A l \in Launchers : ~(Bind(l) \/ Listen(l) \/ Close(l) \/ Dies(l))
      PROVE  sock'[m] = "bound" <=> lpc'[m] = "listen"
  <2>1. sock'[m] = "bound" <=> sock[m] = "bound"
    BY <1>6, SockChanges, Zenon
  <2>2. lpc'[m] = "listen" <=> lpc[m] = "listen"
    <3>1. ASSUME NEW k \in Connections, Thread(k)
          PROVE  lpc' = lpc
      BY <3>1, ThreadFrame, Zenon
    <3>2. ASSUME NEW l \in Launchers, Workload(l) \/ WorkRequest(l) \/ WorkKilled(l)
          PROVE  lpc' = lpc
      BY <3>2, WorkloadFrame, Zenon
    <3>3. ASSUME NEW l \in Launchers, ClearRunInLoop(l) \/ Shutdown(l)
          PROVE  lpc' = lpc
      BY <3>3, Zenon DEF ClearRunInLoop, Shutdown
    <3>4. ASSUME NEW l \in Launchers,
                 \/ Launcher(l) \/ Unlock(l) \/ Loop(l) \/ Accept(l)
                 \/ AcceptFails(l) \/ Unlink(l) \/ Stopping(l) \/ Join(l)
          PROVE  /\ lpc[l] # "listen"
                 /\ \E x \in {"ping", "lock", "spawn", "wait", "done", "reconnect",
                              "reping", "bind", "loop", "accept", "close",
                              "stopping", "join"} :
                        lpc' = [lpc EXCEPT ![l] = x]
      BY <3>4, Zenon
      DEF Launcher, Connect, Pinged, Lock, Reconnect, Repinged, Spawn,
          PassThroughEnds, Unlock, Loop, Accept, AcceptFails, Unlink, Stopping,
          Join, Goto
    <3>5. ASSUME NEW l \in Launchers,
                 \/ Launcher(l) \/ Unlock(l) \/ Loop(l) \/ Accept(l)
                 \/ AcceptFails(l) \/ Unlink(l) \/ Stopping(l) \/ Join(l)
          PROVE  lpc'[m] = "listen" <=> lpc[m] = "listen"
      BY <3>4, <3>5, ZenonT(60) DEF IInv, TypeOK
    <3>6. QED
      BY <1>6, <3>1, <3>2, <3>3, <3>5, Zenon
      DEF Next, Service, Runner, Workload, RunnerExits, Crash
  <2>3. QED
    BY <1>1, <2>1, <2>2, Zenon
<1>7. QED
  BY <1>2, <1>3, <1>4, <1>5, <1>6, Zenon

\* Only a bind brings a service up.
LEMMA UpShrinks ==
    ASSUME IInv, Next, NEW m \in Launchers, Up(m)', ~Bind(m)
    PROVE  Up(m)
<1>1. /\ lpc'[m] \in {"listen", "unlock", "loop", "accept"}
      /\ sock'[m] \in {"bound", "listening"}
  BY Zenon DEF Up
<1>2. sock[m] \in {"bound", "listening"}
  <2>1. ASSUME NEW l \in Launchers, Bind(l)
        PROVE  sock[m] \in {"bound", "listening"}
    BY <1>1, <2>1, ZenonT(60) DEF Bind, IInv, TypeOK
  <2>2. ASSUME NEW l \in Launchers, Listen(l)
        PROVE  sock[m] \in {"bound", "listening"}
    BY <1>1, <2>2, Zenon DEF Listen, IInv, TypeOK, PathInv
  <2>3. ASSUME NEW l \in Launchers, Close(l) \/ Dies(l)
        PROVE  sock[m] \in {"bound", "listening"}
    <3>1. \E x \in {"closed", sock[l]} : sock' = [sock EXCEPT ![l] = x]
      BY <2>3, Zenon DEF Close, Dies
    <3>2. QED
      BY <1>1, <3>1 DEF IInv, TypeOK
  <2>4. QED
    BY <1>1, <2>1, <2>2, <2>3, SockChanges, Zenon
<1>3. lpc[m] \in {"listen", "unlock", "loop", "accept"}
  <2>1. ASSUME NEW k \in Connections, Thread(k)
        PROVE  lpc' = lpc
    BY <2>1, ThreadFrame, Zenon
  <2>2. ASSUME NEW l \in Launchers, Workload(l) \/ WorkRequest(l) \/ WorkKilled(l)
        PROVE  lpc' = lpc
    BY <2>2, WorkloadFrame, Zenon
  <2>3. ASSUME NEW l \in Launchers, ClearRunInLoop(l) \/ Shutdown(l)
        PROVE  lpc' = lpc
    BY <2>3, Zenon DEF ClearRunInLoop, Shutdown
  <2>4. ASSUME NEW l \in Launchers, Launcher(l) \/ Service(l) \/ Dies(l), l # m
        PROVE  lpc'[m] = lpc[m]
    <3>1. \E x : lpc' = [lpc EXCEPT ![l] = x]
      BY <2>4, Zenon
      DEF Launcher, Connect, Pinged, Lock, Reconnect, Repinged, Spawn,
          PassThroughEnds, Service, Bind, Listen, Unlock, Loop, Accept,
          AcceptFails, Close, Unlink, Stopping, Join, Dies, Goto
    <3>2. QED
      BY <2>4, <3>1, Zenon DEF IInv, TypeOK
  <2>5. ASSUME \/ Launcher(m) \/ Dies(m) \/ Close(m) \/ Unlink(m) \/ Stopping(m)
               \/ Join(m)
        PROVE  FALSE
    <3>1. \E x \in {"ping", "lock", "spawn", "wait", "done", "reconnect", "reping",
                    "bind", "crashed", "unlink", "stopping", "join"} :
              lpc' = [lpc EXCEPT ![m] = x]
      BY <2>5, Zenon
      DEF Launcher, Connect, Pinged, Lock, Reconnect, Repinged, Spawn,
          PassThroughEnds, Close, Unlink, Stopping, Join, Dies, Goto
    <3>2. QED
      BY <1>1, <3>1, Zenon DEF IInv, TypeOK
  <2>6. Listen(m) \/ Unlock(m) \/ Loop(m) \/ Accept(m) \/ AcceptFails(m)
            => lpc[m] \in {"listen", "unlock", "loop", "accept"}
    BY Zenon DEF Listen, Unlock, Loop, Accept, AcceptFails
  <2>7. QED
    BY <1>1, <2>1, <2>2, <2>3, <2>4, <2>5, <2>6, Zenon
    DEF Next, Service, Runner, Workload, RunnerExits, Crash
<1>4. QED
  BY <1>2, <1>3, Zenon DEF Up

LEMMA PathStep ==
    ASSUME IInv, Next
    PROVE  PathInv'
<1>1. \A m \in Launchers : sock'[m] = "bound" <=> lpc'[m] = "listen"
  BY BoundStep, Zenon
<1>2. ASSUME NEW m \in Launchers, Up(m)', ~unlinked'
      PROVE  path' = m
  <2>1. ~unlinked
    BY <1>2, PathChanges, Zenon
  <2>2. CASE Bind(m)
    BY <2>2, Zenon DEF Bind
  <2>3. CASE ~Bind(m)
    <3>1. Up(m) /\ path = m
      BY <1>2, <2>1, <2>3, UpShrinks, Zenon DEF IInv, PathInv
    <3>2. ASSUME NEW l \in Launchers, Bind(l)
          PROVE  FALSE
      BY <2>1, <3>1, <3>2, Zenon DEF Bind, IInv, LookInv
    <3>3. QED
      BY <1>2, <3>1, <3>2, PathChanges, Zenon
  <2>4. QED
    BY <2>2, <2>3, Zenon
<1>3. QED
  BY <1>1, <1>2, Zenon DEF PathInv

\* A connection of a launcher dies with the socket or the service behind it.
LEMMA DeadPass ==
    ASSUME IInv, Next, NEW l \in Launchers, lpc[l] = "reping", lpc'[l] = "reping",
           to[Pass(l)] \in Launchers
    PROVE  /\ to'[Pass(l)] = to[Pass(l)]
           /\ cst'[Pass(l)] = "dead" /\ cst[Pass(l)] # "dead" =>
                  lpc'[to[Pass(l)]] \in {"unlink", "crashed"}
<1> DEFINE k == Pass(l)
<1>1. /\ k \in Connections /\ k[2] = "pass" /\ k[1] = l
      /\ \A m \in Launchers : k # Work(m) /\ (k = Pass(m) => m = l)
  BY ConnectionFacts, Zenon
<1> HIDE DEF k
<1>2. thr[k] \in {"none", "count", "prologue", "leave"}
  BY Zenon DEF IInv, ConnInv, k
<1>3. ASSUME NEW j \in Connections, Thread(j)
      PROVE  to'[k] = to[k] /\ (cst'[k] = "dead" => cst[k] = "dead")
  <2>1. to' = to
    BY <1>3, ThreadFrame, Zenon
  <2>2. CASE Count(j) \/ ServeLoop(j) \/ LeaveGuard(j)
    BY <2>1, <2>2, Zenon DEF Count, ServeLoop, LeaveGuard
  <2>3. CASE AnswerPing(j) \/ ServeMessage(j)
    BY <1>1, <2>1, <2>3 DEF AnswerPing, ServeMessage, IInv, TypeOK
  <2>4. CASE Handshake(j) \/ CleanupClient(j)
    <3>1. j # k
      BY <1>1, <1>2, <2>4, Zenon DEF Handshake, CleanupClient
    <3>2. QED
      BY <1>1, <2>1, <2>4, <3>1 DEF Handshake, CleanupClient, IInv, TypeOK
  <2>5. QED
    BY <1>3, <2>2, <2>3, <2>4, Zenon DEF Thread
<1>4. ASSUME NEW m \in Launchers, WorkConnect(m) \/ WorkHandshake(m) \/ WorkRequest(m)
      PROVE  to'[k] = to[k] /\ cst'[k] = cst[k]
  BY <1>1, <1>4 DEF WorkConnect, WorkHandshake, WorkRequest, Open, IInv, TypeOK
<1>5. ASSUME NEW m \in Launchers, NEW result, WorkGone(m, result)
      PROVE  /\ to'[k] = to[k]
             /\ cst'[k] = "dead" /\ cst[k] # "dead" => lpc'[to[k]] = "crashed"
  BY <1>1, <1>5, Zenon DEF WorkGone, DropPending
<1>6. ASSUME NEW m \in Launchers, Dies(m)
      PROVE  /\ to'[k] = to[k]
             /\ cst'[k] = "dead" /\ cst[k] # "dead" => lpc'[to[k]] = "crashed"
  BY <1>1, <1>6 DEF Dies, Goto, IInv, TypeOK, k
<1>7. ASSUME NEW m \in Launchers, Close(m)
      PROVE  /\ to'[k] = to[k]
             /\ cst'[k] = "dead" /\ cst[k] # "dead" => lpc'[to[k]] = "unlink"
  BY <1>1, <1>7 DEF Close, DropPending, Goto, IInv, TypeOK, k
<1>8. ASSUME NEW m \in Launchers,
             \/ Pinged(m) \/ Lock(m) \/ Repinged(m) \/ Spawn(m) \/ PassThroughEnds(m)
             \/ Bind(m) \/ Listen(m) \/ Unlock(m) \/ Loop(m) \/ AcceptFails(m)
             \/ Unlink(m) \/ Stopping(m) \/ Join(m) \/ ClearRunInLoop(m) \/ Shutdown(m)
      PROVE  to'[k] = to[k] /\ cst'[k] = cst[k]
  BY <1>8, Zenon DEF Pinged, Lock, Repinged, Spawn, PassThroughEnds, Bind, Listen, Unlock,
              Loop, AcceptFails, Unlink, Stopping, Join, ClearRunInLoop, Shutdown
<1>9. ASSUME NEW m \in Launchers, Connect(m) \/ Reconnect(m)
      PROVE  to'[k] = to[k] /\ cst'[k] = cst[k]
  <2>1. m # l
    BY <1>9, Zenon DEF Connect, Reconnect
  <2>2. QED
    BY <1>1, <1>9, <2>1, ConnectionFacts DEF Connect, Reconnect, Open, IInv, TypeOK
<1>10. ASSUME NEW m \in Launchers, Accept(m)
       PROVE  to'[k] = to[k] /\ (cst'[k] = "dead" => cst[k] = "dead")
  BY <1>1, <1>10 DEF Accept, IInv, TypeOK
<1>11. QED
  BY <1>3, <1>4, <1>5, <1>6, <1>7, <1>8, <1>9, <1>10, Zenon
  DEF Next, Launcher, Service, Runner, Workload, WorkEnd, WorkKilled, RunnerExits,
      Crash, k

LEMMA LookStep ==
    ASSUME IInv, Next
    PROVE  LookInv'
<1> SUFFICES ASSUME ~unlinked', NEW l \in Launchers
             PROVE  /\ lpc'[l] = "reping" =>
                           /\ path' \in Launchers /\ path' = to'[Pass(l)]
                           /\ cst'[Pass(l)] = "dead" => ~Up(path)'
                    /\ lpc'[l] = "bind" => \A m \in Launchers : ~Up(m)'
  BY Zenon DEF LookInv
<1>1. ~unlinked
  BY PathChanges, Zenon
<1>2. lpc[l] \in {"reconnect", "reping", "bind"} =>
          /\ flock = l
          /\ \A m \in Launchers \ {l} :
                 lpc[m] \notin {"reconnect", "reping", "bind", "listen", "unlock"}
  BY Zenon DEF IInv, LockInv
<1>3. lpc'[l] \in {"reping", "bind"} =>
          \/ lpc[l] = lpc'[l]
          \/ Reconnect(l) \/ Repinged(l)
  <2>1. ASSUME NEW k \in Connections, Thread(k)
        PROVE  lpc' = lpc
    BY <2>1, ThreadFrame, Zenon
  <2>2. ASSUME NEW m \in Launchers, Workload(m) \/ WorkRequest(m) \/ WorkKilled(m)
        PROVE  lpc' = lpc
    BY <2>2, WorkloadFrame, Zenon
  <2>3. ASSUME NEW m \in Launchers, ClearRunInLoop(m) \/ Shutdown(m)
        PROVE  lpc' = lpc
    BY <2>3, Zenon DEF ClearRunInLoop, Shutdown
  <2>4. ASSUME NEW m \in Launchers, Launcher(m) \/ Service(m) \/ Dies(m)
        PROVE  m # l => lpc'[l] = lpc[l]
    <3>1. \E x : lpc' = [lpc EXCEPT ![m] = x]
      BY <2>4, Zenon
      DEF Launcher, Connect, Pinged, Lock, Reconnect, Repinged, Spawn,
          PassThroughEnds, Service, Bind, Listen, Unlock, Loop, Accept,
          AcceptFails, Close, Unlink, Stopping, Join, Dies, Goto
    <3>2. QED
      BY <2>4, <3>1, Zenon DEF IInv, TypeOK
  <2>5. ASSUME \/ Connect(l) \/ Pinged(l) \/ Lock(l) \/ Spawn(l)
               \/ PassThroughEnds(l) \/ Service(l) \/ Dies(l)
        PROVE  lpc'[l] \notin {"reping", "bind"}
    <3>1. \E x \in {"ping", "lock", "spawn", "reconnect", "wait", "done", "listen",
                    "unlock", "loop", "accept", "close", "unlink", "stopping",
                    "join", "crashed"} : lpc' = [lpc EXCEPT ![l] = x]
      BY <2>5, Zenon
      DEF Connect, Pinged, Lock, Spawn, PassThroughEnds, Service, Bind, Listen,
          Unlock, Loop, Accept, AcceptFails, Close, Unlink, Stopping, Join, Dies,
          Goto
    <3>2. QED
      BY <3>1, Zenon DEF IInv, TypeOK
  <2>6. QED
    BY <2>1, <2>2, <2>3, <2>4, <2>5, Zenon
    DEF Next, Launcher, Runner, RunnerExits, Crash
<1>4. lpc[l] \in {"reconnect", "reping", "bind"} /\ lpc'[l] # "listen" =>
          \A m \in Launchers : ~Bind(m)
  BY <1>2 DEF Bind, Goto, IInv, TypeOK
<1>5. ASSUME lpc'[l] = "reping"
      PROVE  /\ path' \in Launchers /\ path' = to'[Pass(l)]
             /\ cst'[Pass(l)] = "dead" => ~Up(path)'
  <2>1. CASE lpc[l] = "reping"
    <3>1. /\ path \in Launchers /\ path = to[Pass(l)]
          /\ cst[Pass(l)] = "dead" => ~Up(path)
      BY <1>1, <2>1, Zenon DEF IInv, LookInv
    <3>2. path' = path /\ ~Bind(path)
      BY <1>4, <1>5, <2>1, <3>1, PathChanges, Zenon
    <3>3. to'[Pass(l)] = path
      BY <1>5, <2>1, <3>1, DeadPass, Zenon
    <3>4. ASSUME cst'[Pass(l)] = "dead" PROVE ~Up(path)'
      <4>1. CASE cst[Pass(l)] = "dead"
        <5>1. PICK p \in Launchers : p = path
          BY <3>1, Zenon
        <5>2. ~Up(p)'
          BY <3>1, <3>2, <4>1, <5>1, UpShrinks, Zenon
        <5>3. QED
          BY <3>2, <5>1, <5>2, Zenon DEF Up
      <4>2. CASE cst[Pass(l)] # "dead"
        <5>1. lpc'[path'] \in {"unlink", "crashed"}
          BY <1>5, <2>1, <3>1, <3>2, <3>4, <4>2, DeadPass, Zenon
        <5>2. QED
          BY <5>1, Zenon DEF Up
      <4>3. QED
        BY <4>1, <4>2, Zenon
    <3>5. QED
      BY <3>1, <3>2, <3>3, <3>4, Zenon
  <2>2. CASE Reconnect(l)
    <3>1. Open(Pass(l)) /\ path' = path
      BY <1>5, <2>2, Zenon DEF Reconnect, Goto, IInv, TypeOK
    <3>2. QED
      BY <3>1, ConnectionFacts DEF Open, Reachable, IInv, TypeOK
  <2>3. CASE Repinged(l)
    BY <1>5, <2>3, Zenon DEF Repinged, Goto, IInv, TypeOK
  <2>4. QED
    BY <1>3, <1>5, <2>1, <2>2, <2>3, Zenon
<1>6. ASSUME lpc'[l] = "bind", NEW m \in Launchers
      PROVE  ~Up(m)'
  <2>1. lpc[l] \in {"reconnect", "reping", "bind"}
    BY <1>3, <1>6, Zenon DEF Reconnect, Repinged
  <2>2. ~Bind(m)
    BY <1>4, <1>6, <2>1, Zenon
  <2>3. ~Up(m)
    <3>1. Up(m) => path = m /\ m # None
      BY <1>1, RunnerAssumption, Zenon DEF IInv, PathInv
    <3>2. CASE lpc[l] = "bind"
      BY <1>1, <3>2, Zenon DEF IInv, LookInv
    <3>3. CASE Reconnect(l)
      <4>1. ~Reachable /\ lpc[l] = "reconnect"
        BY <1>6, <3>3, Zenon DEF Reconnect, Goto, IInv, TypeOK
      <4>2. Up(m) => sock[m] = "bound" /\ lpc[m] = "listen"
        BY <3>1, <4>1, Zenon DEF Reachable, Up, IInv, PathInv
      <4>3. QED
        BY <1>2, <4>1, <4>2, Zenon
    <3>4. CASE Repinged(l)
      <4>1. lpc[l] = "reping" /\ cst[Pass(l)] = "dead"
        BY <1>6, <3>4, Zenon DEF Repinged, Goto, IInv, TypeOK
      <4>2. ~Up(path)
        BY <1>1, <4>1, Zenon DEF IInv, LookInv
      <4>3. QED
        BY <3>1, <4>2, Zenon
    <3>5. QED
      BY <1>3, <1>6, <3>2, <3>3, <3>4, Zenon
  <2>4. QED
    BY <2>2, <2>3, UpShrinks, Zenon
<1>7. QED
  BY <1>5, <1>6, Zenon

-----------------------------------------------------------------------------
(* Connections and their threads.                                          *)

LEMMA ConnThread ==
    ASSUME TypeOK, ConnInv, NEW k \in Connections, Thread(k)
    PROVE  ConnInv'
<1>1. UNCHANGED <<lpc, to>>
  BY ThreadFrame, Zenon
<1>2. CASE Count(k)
  BY <1>1, <1>2, ConnectionFacts DEF Count, ConnInv, TypeOK
<1>3. CASE AnswerPing(k)
  BY <1>1, <1>3, ConnectionFacts DEF AnswerPing, Eof, ConnInv, TypeOK
<1>4. CASE Handshake(k)
  BY <1>1, <1>4, ConnectionFacts DEF Handshake, ConnInv, TypeOK
<1>5. CASE ServeLoop(k)
  BY <1>1, <1>5, ConnectionFacts DEF ServeLoop, ConnInv, TypeOK
<1>6. CASE ServeMessage(k)
  BY <1>1, <1>6, ConnectionFacts DEF ServeMessage, ConnInv, TypeOK
<1>7. CASE CleanupClient(k)
  <2>1. thr[k] = "cleanup" /\ k[2] = "work"
    BY <1>7, ConnectionFacts DEF CleanupClient, ConnInv
  <2>2. /\ k = Work(k[1]) /\ k[1] \in Launchers
        /\ \A l \in Launchers : Pass(l) # k /\ (Work(l) = k => l = k[1])
    BY <2>1, ConnectionFacts
  <2>3. wpc[k[1]] \notin {"none", "running"}
    BY <2>1, <2>2 DEF ConnInv
  <2>4. \E x \in {"stuck", wpc[k[1]]} : wpc' = [wpc EXCEPT ![k[1]] = x]
    BY <1>7, Zenon DEF CleanupClient
  <2>5. /\ cst' = [cst EXCEPT ![k] = "dead"]
        /\ thr' = [thr EXCEPT ![k] = "leave"]
    BY <1>7 DEF CleanupClient
  <2>6. \A l \in Launchers : lpc[l] \in {"connect", "ping", "lock", "reconnect",
            "reping", "spawn", "bind", "listen", "unlock"} => l # k[1]
    BY <2>3 DEF ConnInv
  <2>7. QED
    BY <1>1, <2>1, <2>2, <2>3, <2>4, <2>5, <2>6, ConnectionFacts, SMTT(60) DEF ConnInv, TypeOK
<1>8. CASE LeaveGuard(k)
  BY <1>1, <1>8, ConnectionFacts DEF LeaveGuard, ConnInv, TypeOK
<1>9. QED
  BY <1>2, <1>3, <1>4, <1>5, <1>6, <1>7, <1>8, Zenon DEF Thread

\* A launcher that looks for a service opens its connection, or finds none.
LEMMA ConnLooks ==
    ASSUME TypeOK, ConnInv, NEW l \in Launchers,
           lpc[l] \in {"connect", "reconnect"}, UNCHANGED wpc,
           \/ Open(Pass(l)) /\ (Goto(l, "ping") \/ Goto(l, "reping"))
           \/ UNCHANGED connVars /\ (Goto(l, "lock") \/ Goto(l, "bind"))
    PROVE  ConnInv'
<1>1. /\ Pass(l) \in Connections
      /\ \A m \in Launchers : Pass(l) # Work(m) /\ (m # l => Pass(l) # Pass(m))
      /\ \A m \in Launchers : Pass(m) \in Connections /\ Work(m) \in Connections
  BY ConnectionFacts
<1>2. thr[Pass(l)] = "none" /\ wpc[l] = "none"
  BY ZenonT(60) DEF ConnInv
<1>3. CASE Open(Pass(l)) /\ (Goto(l, "ping") \/ Goto(l, "reping"))
  <2>1. /\ path \in Launchers
        /\ to' = [to EXCEPT ![Pass(l)] = path]
        /\ cst' = [cst EXCEPT ![Pass(l)] = "pending"]
        /\ thr' = thr
    BY <1>3, Zenon DEF Open, Reachable, TypeOK
  <2>2. PICK x \in {"ping", "reping"} : lpc' = [lpc EXCEPT ![l] = x]
    BY <1>3, Zenon DEF Goto
  <2>3. \A k \in Connections :
            /\ cst'[k] \in {"none", "pending"} => thr'[k] = "none"
            /\ cst'[k] = "none" => to'[k] = None
            /\ thr'[k] # "none" => to'[k] \in Launchers /\ lpc'[to'[k]] # "crashed"
    BY <1>1, <1>2, <2>1, <2>2, SMTT(30) DEF ConnInv, TypeOK
  <2>4. /\ lpc'[l] \in {"ping", "reping"} /\ cst'[Pass(l)] = "pending"
        /\ \A m \in Launchers : m # l => /\ lpc'[m] = lpc[m]
                                         /\ cst'[Pass(m)] = cst[Pass(m)]
        /\ \A m \in Launchers : cst'[Work(m)] = cst[Work(m)]
    BY <1>1, <2>1, <2>2 DEF TypeOK
  <2>5. QED
    BY <1>2, <2>1, <2>3, <2>4, SMTT(30) DEF ConnInv
<1>4. CASE UNCHANGED connVars /\ (Goto(l, "lock") \/ Goto(l, "bind"))
  <2>1. PICK x \in {"lock", "bind"} : lpc' = [lpc EXCEPT ![l] = x]
    BY <1>4, Zenon DEF Goto
  <2>2. to' = to /\ cst' = cst /\ thr' = thr
    BY <1>4, Zenon DEF connVars
  <2>3. QED
    BY <1>2, <2>1, <2>2, SMTT(30) DEF ConnInv, TypeOK
<1>5. QED
  BY <1>3, <1>4, Zenon

LEMMA ConnLauncher ==
    ASSUME TypeOK, ConnInv, NEW l \in Launchers, Launcher(l)
    PROVE  ConnInv'
<1>1. CASE Connect(l) \/ Reconnect(l)
  <2>1. lpc[l] \in {"connect", "reconnect"} /\ UNCHANGED wpc
    BY <1>1, Zenon DEF Connect, Reconnect
  <2>2. \/ Open(Pass(l)) /\ (Goto(l, "ping") \/ Goto(l, "reping"))
        \/ UNCHANGED connVars /\ (Goto(l, "lock") \/ Goto(l, "bind"))
    BY <1>1, ZenonT(60) DEF Connect, Reconnect
  <2>3. QED
    BY <2>1, <2>2, ConnLooks, Zenon
<1>2. CASE Pinged(l) \/ Lock(l)
  BY <1>2, ConnectionFacts, SMTT(30) DEF Pinged, Lock, Goto, ConnInv, TypeOK
<1>3. CASE Repinged(l)
  BY <1>3, ConnectionFacts, SMTT(30) DEF Repinged, Goto, ConnInv, TypeOK
<1>4. CASE Spawn(l) \/ PassThroughEnds(l)
  BY <1>4, ConnectionFacts DEF Spawn, PassThroughEnds, Goto, ConnInv, TypeOK
<1>5. QED
  BY <1>1, <1>2, <1>3, <1>4, Zenon DEF Launcher

LEMMA ConnService ==
    ASSUME TypeOK, ConnInv, NEW l \in Launchers,
           Service(l) \/ ClearRunInLoop(l) \/ Shutdown(l)
    PROVE  ConnInv'
<1>1. CASE Bind(l) \/ Listen(l) \/ Loop(l) \/ AcceptFails(l)
  BY <1>1, ConnectionFacts, SMTT(60) DEF Bind, Listen, Loop, AcceptFails, Goto, ConnInv, TypeOK
<1>2. CASE Unlock(l)
  BY <1>2, ConnectionFacts, SMTT(60) DEF Unlock, Goto, ConnInv, TypeOK
<1>3. CASE Accept(l)
  <2>1. PICK k \in Connections :
            /\ to[k] = l /\ cst[k] = "pending"
            /\ cst' = [cst EXCEPT ![k] = "accepted"]
            /\ thr' = [thr EXCEPT ![k] = "count"]
    BY <1>3, Zenon DEF Accept
  <2>2. lpc[l] = "accept" /\ Goto(l, "loop") /\ UNCHANGED <<wpc, to>>
    BY <1>3, ZenonT(60) DEF Accept
  <2>3. QED
    BY <2>1, <2>2, ConnectionFacts DEF Goto, ConnInv, TypeOK
<1>4. CASE Close(l)
  BY <1>4, ConnectionFacts, SMTT(60) DEF Close, DropPending, Goto, ConnInv, TypeOK
<1>5. CASE Unlink(l) \/ Stopping(l) \/ Join(l)
  BY <1>5, ConnectionFacts, SMTT(60) DEF Unlink, Stopping, Join, Goto, ConnInv, TypeOK
<1>6. CASE ClearRunInLoop(l) \/ Shutdown(l)
  BY <1>6 DEF ClearRunInLoop, Shutdown, ConnInv
<1>7. QED
  BY <1>1, <1>2, <1>3, <1>4, <1>5, <1>6, ZenonT(60) DEF Service

LEMMA ConnWorkload ==
    ASSUME TypeOK, ConnInv, NEW l \in Launchers,
           Workload(l) \/ WorkRequest(l) \/ WorkKilled(l)
    PROVE  ConnInv'
<1>1. CASE WorkConnect(l)
  <2>1. wpc[l] = "running" /\ UNCHANGED lpc
    BY <1>1, ZenonT(60) DEF WorkConnect
  <2>2. CASE Open(Work(l)) /\ wpc' = [wpc EXCEPT ![l] = "connecting"]
    BY <2>1, <2>2, ConnectionFacts, SMTT(60) DEF Open, Reachable, ConnInv, TypeOK
  <2>3. CASE wpc' = [wpc EXCEPT ![l] = "refused"] /\ UNCHANGED connVars
    BY <2>1, <2>3, ConnectionFacts, SMTT(60) DEF ConnInv, TypeOK
  <2>4. QED
    BY <1>1, <2>2, <2>3, Zenon DEF WorkConnect
<1>2. CASE WorkHandshake(l) \/ WorkRequest(l)
  BY <1>2, ConnectionFacts, SMTT(60) DEF WorkHandshake, WorkRequest, ConnInv, TypeOK
<1>3. CASE WorkEnd(l) \/ WorkKilled(l)
  <2>1. PICK result \in {"ended", "failed"} : WorkGone(l, result)
    BY <1>3, Zenon DEF WorkEnd, WorkKilled
  <2>2. wpc[l] # "none"
    BY <1>3, Zenon DEF WorkEnd, WorkKilled
  <2>3. cst' \in {DropPending(l), cst} /\ wpc' = [wpc EXCEPT ![l] = result]
    BY <2>1, Zenon DEF WorkGone
  <2>4. UNCHANGED <<lpc, to, thr>>
    BY <2>1, ZenonT(60) DEF WorkGone
  <2>5. QED
    BY <2>1, <2>2, <2>3, <2>4, ConnectionFacts DEF DropPending, ConnInv, TypeOK
<1>4. QED
  BY <1>1, <1>2, <1>3, Zenon DEF Workload

LEMMA ConnDies ==
    ASSUME TypeOK, ConnInv, NEW l \in Launchers, Dies(l)
    PROVE  ConnInv'
<1>1. lpc' = [lpc EXCEPT ![l] = "crashed"] /\ to' = to
  BY Zenon DEF Dies, Goto
<1>2. \A k \in Connections : /\ to[k] = l => thr'[k] = "none"
                             /\ to[k] # l => thr'[k] = thr[k] /\ cst'[k] = cst[k]
                             /\ cst'[k] # cst[k] => cst'[k] = "dead"
  BY Zenon DEF Dies
<1>3. \A m \in Launchers : wpc'[m] = wpc[m] \/ (wpc[m] = "served" /\ wpc'[m] = "stuck")
  BY Zenon DEF Dies
<1>4. QED
  BY <1>1, <1>2, <1>3, ConnectionFacts, RunnerAssumption DEF ConnInv, TypeOK

LEMMA ConnStep ==
    ASSUME TypeOK, ConnInv, Next
    PROVE  ConnInv'
BY ConnThread, ConnLauncher, ConnService, ConnWorkload, ConnDies, Zenon
DEF Next, Runner, RunnerExits, Crash

-----------------------------------------------------------------------------
(* The count of the clients.                                               *)

\* A launcher that is gone stays so.
LEMMA CrashedStays ==
    ASSUME TypeOK, Next, NEW l \in Launchers, lpc'[l] # "crashed"
    PROVE  lpc[l] # "crashed" /\ ~Dies(l)
<1>1. ~Dies(l)
  BY Zenon DEF Dies, Goto, TypeOK
<1>2. ASSUME NEW m \in Launchers, Launcher(m) \/ Service(m)
      PROVE  lpc[m] # "crashed" /\ \E x : lpc' = [lpc EXCEPT ![m] = x]
  BY <1>2, Zenon
  DEF Launcher, Connect, Pinged, Lock, Reconnect, Repinged, Spawn,
      PassThroughEnds, Service, Bind, Listen, Unlock, Loop, Accept,
      AcceptFails, Close, Unlink, Stopping, Join, Goto
<1>3. ASSUME NEW m \in Launchers, Dies(m)
      PROVE  m # l /\ lpc'[l] = lpc[l]
  BY <1>1, <1>3, Zenon DEF Dies, Goto, TypeOK
<1>4. ASSUME NEW m \in Launchers, ClearRunInLoop(m) \/ Shutdown(m)
      PROVE  lpc' = lpc
  BY <1>4, Zenon DEF ClearRunInLoop, Shutdown
<1>5. lpc[l] # "crashed"
  <2>1. ASSUME NEW m \in Launchers, Launcher(m) \/ Service(m)
        PROVE  lpc[l] # "crashed"
    BY <1>2, <2>1, Zenon DEF TypeOK
  <2>2. QED
    BY <1>3, <1>4, <2>1, ThreadFrame, WorkloadFrame, Zenon
    DEF Next, Runner, RunnerExits, Crash
<1>6. QED
  BY <1>1, <1>5, Zenon

\* Only the guard of a client's thread and the end of the service change what is
\* counted.
LEMMA CountFrame ==
    ASSUME IInv, Next, NEW l \in Launchers, ~Dies(l),
           \A k \in Connections : to[k] = l => ~Count(k) /\ ~LeaveGuard(k)
    PROVE  activeClients'[l] = activeClients[l] /\ Counted(l)' = Counted(l)
<1> DEFINE Same == activeClients'[l] = activeClients[l] /\ Counted(l)' = Counted(l)
<1> SUFFICES Same
  OBVIOUS
<1>1. ASSUME NEW k \in Connections, Thread(k)
      PROVE  Same
  <2>1. to' = to
    BY <1>1, ThreadFrame, Zenon
  <2>2. CASE Count(k) \/ LeaveGuard(k)
    <3>1. to[k] # l
      BY <2>2, ZenonT(60)
    <3>2. activeClients'[l] = activeClients[l]
      BY <2>2, <3>1, SMTT(60) DEF Count, LeaveGuard, IInv, TypeOK
    <3>3. Counted(l)' = Counted(l)
      BY <2>1, <2>2, <3>1 DEF Count, LeaveGuard, Counted, IInv, TypeOK
    <3>4. QED
      BY <3>2, <3>3, Zenon
  <2>3. CASE \/ AnswerPing(k) \/ Handshake(k) \/ ServeLoop(k) \/ ServeMessage(k)
             \/ CleanupClient(k)
    <3>1. activeClients' = activeClients
      BY <2>3, ZenonT(60) DEF AnswerPing, Handshake, ServeLoop, ServeMessage, CleanupClient
    <3>2. thr[k] \notin {"none", "count"} /\ thr'[k] \notin {"none", "count"}
      BY <2>3 DEF AnswerPing, Handshake, ServeLoop, ServeMessage, CleanupClient,
                  IInv, TypeOK
    <3>3. \A j \in Connections : j # k => thr'[j] = thr[j]
      <4>1. \/ thr' = thr
            \/ \E x \in {"leave", "serve", "cleanup", "peek"} :
                   thr' = [thr EXCEPT ![k] = x]
        BY <2>3, Zenon DEF AnswerPing, Handshake, ServeLoop, ServeMessage, CleanupClient
      <4>2. thr \in [Connections -> {"none", "count", "prologue", "serve", "peek",
                                     "cleanup", "leave"}]
        BY Zenon DEF IInv, TypeOK
      <4>3. QED
        BY <4>1, <4>2
    <3>4. Counted(l)' = Counted(l)
      BY <2>1, <3>2, <3>3, Zenon DEF Counted
    <3>5. QED
      BY <3>1, <3>4, Zenon
  <2>4. QED
    BY <1>1, <2>2, <2>3, Zenon DEF Thread
<1>2. ASSUME NEW m \in Launchers, Connect(m) \/ Reconnect(m) \/ WorkConnect(m)
      PROVE  Same
  <2>1. PICK k \in Connections : thr[k] = "none" /\ (Open(k) \/ UNCHANGED connVars)
    BY <1>2, ConnectionFacts DEF Connect, Reconnect, WorkConnect, IInv, ConnInv
  <2>2. Counted(l)' = Counted(l)
    BY <2>1 DEF Open, Counted, IInv, TypeOK
  <2>3. activeClients' = activeClients
    BY <1>2, Zenon DEF Connect, Reconnect, WorkConnect
  <2>4. QED
    BY <2>2, <2>3, ZenonT(60)
<1>3. ASSUME NEW m \in Launchers,
             \/ Pinged(m) \/ Lock(m) \/ Repinged(m) \/ Spawn(m) \/ PassThroughEnds(m)
             \/ Bind(m) \/ Listen(m) \/ Unlock(m) \/ Loop(m) \/ AcceptFails(m)
             \/ Close(m) \/ Unlink(m) \/ Stopping(m) \/ Join(m)
             \/ ClearRunInLoop(m) \/ Shutdown(m)
      PROVE  Same
  <2>1. UNCHANGED <<activeClients, to, thr>>
    BY <1>3, Zenon DEF Pinged, Lock, Repinged, Spawn, PassThroughEnds, Bind, Listen,
                Unlock, Loop, AcceptFails, Close, Unlink, Stopping, Join,
                ClearRunInLoop, Shutdown
  <2>2. QED
    BY <2>1, Zenon DEF Counted
<1>4. ASSUME NEW m \in Launchers, WorkHandshake(m) \/ WorkEnd(m) \/ WorkRequest(m)
                                  \/ WorkKilled(m)
      PROVE  Same
  <2>1. UNCHANGED <<activeClients, to, thr>>
    BY <1>4, Zenon DEF WorkHandshake, WorkEnd, WorkRequest, WorkKilled, WorkGone
  <2>2. QED
    BY <2>1, Zenon DEF Counted
<1>5. ASSUME NEW m \in Launchers, Accept(m)
      PROVE  Same
  <2>1. PICK k \in Connections : cst[k] = "pending" /\ thr' = [thr EXCEPT ![k] = "count"]
    BY <1>5, Zenon DEF Accept
  <2>2. thr[k] = "none" /\ UNCHANGED <<activeClients, to>>
    BY <1>5, <2>1, Zenon DEF Accept, IInv, ConnInv
  <2>3. QED
    BY <2>1, <2>2, Zenon DEF Counted, IInv, TypeOK
<1>6. ASSUME NEW m \in Launchers, Dies(m)
      PROVE  Same
  <2>1. m # l /\ UNCHANGED <<activeClients, to>>
    BY <1>6, Zenon DEF Dies
  <2>2. \A k \in Connections : to[k] = l => thr'[k] = thr[k]
    BY <1>6, <2>1, Zenon DEF Dies
  <2>3. QED
    BY <2>1, <2>2, Zenon DEF Counted
<1>7. QED
  BY <1>1, <1>2, <1>3, <1>4, <1>5, <1>6, Zenon
  DEF Next, Launcher, Service, Runner, Workload, RunnerExits, Crash

LEMMA CountStep ==
    ASSUME IInv, Next
    PROVE  CountInv'
<1> SUFFICES ASSUME NEW l \in Launchers, lpc'[l] # "crashed"
             PROVE  activeClients'[l] = Cardinality(Counted(l)')
  BY Zenon DEF CountInv
<1>1. lpc[l] # "crashed" /\ ~Dies(l)
  BY CrashedStays, Zenon DEF IInv
<1>2. activeClients[l] = Cardinality(Counted(l))
  BY <1>1, Zenon DEF IInv, CountInv
<1>3. IsFiniteSet(Counted(l)) /\ Cardinality(Counted(l)) \in Nat
  BY ConnectionsFinite, Zenon
<1>4. CASE \A k \in Connections : to[k] = l => ~Count(k) /\ ~LeaveGuard(k)
  BY <1>1, <1>2, <1>4, CountFrame, Zenon
<1>5. ASSUME NEW k \in Connections, to[k] = l, Count(k)
      PROVE  activeClients'[l] = Cardinality(Counted(l)')
  <2>1. activeClients'[l] = activeClients[l] + 1
    BY <1>5, Zenon DEF Count, IInv, TypeOK
  <2>2. k \notin Counted(l)
    BY <1>5, Zenon DEF Count, Counted
  <2>3. Counted(l)' = Counted(l) \cup {k}
    BY <1>5, Zenon DEF Count, Counted, IInv, TypeOK
  <2>4. Cardinality(Counted(l) \cup {k}) = Cardinality(Counted(l)) + 1
    BY <1>3, <2>2, FS_AddElement, Zenon
  <2>5. QED
    BY <1>2, <2>1, <2>3, <2>4, Zenon
<1>6. ASSUME NEW k \in Connections, to[k] = l, LeaveGuard(k)
      PROVE  activeClients'[l] = Cardinality(Counted(l)')
  <2>1. activeClients'[l] = activeClients[l] - 1
    BY <1>6, Zenon DEF LeaveGuard, IInv, TypeOK
  <2>2. k \in Counted(l)
    BY <1>6, LeaveCounts, Zenon
  <2>3. Counted(l)' = Counted(l) \ {k}
    BY <1>6, Zenon DEF LeaveGuard, Counted, IInv, TypeOK
  <2>4. Cardinality(Counted(l) \ {k}) = Cardinality(Counted(l)) - 1
    BY <1>3, <2>2, FS_RemoveElement, Zenon
  <2>5. QED
    BY <1>2, <2>1, <2>3, <2>4, Zenon
<1>7. QED
  BY <1>4, <1>5, <1>6, Zenon

-----------------------------------------------------------------------------
(* Types.                                                                  *)

LEMMA TypeThread ==
    ASSUME IInv, Next, NEW k \in Connections, Thread(k)
    PROVE  TypeOK'
<1>1. UNCHANGED <<path, flock, lpc, rpc, isStopping, to, boundVars>>
  BY ThreadFrame, ZenonT(60)
<1>2. CASE Count(k)
  <2>1. to[k] \in Launchers /\ lpc[to[k]] # "crashed"
    BY <1>2, Zenon DEF Count, IInv, ConnInv
  <2>2. activeClients'[to[k]] = Cardinality(Counted(to[k])')
    BY <1>1, <2>1, CountStep, Zenon DEF CountInv
  <2>3. Counted(to[k])' \subseteq Connections
    BY ZenonT(60) DEF Counted
  <2>4. activeClients'[to[k]] \in 0 .. Cardinality(Connections)
    <3>1. /\ IsFiniteSet(Connections)
          /\ Cardinality(Counted(to[k])') <= Cardinality(Connections)
          /\ Cardinality(Counted(to[k])') \in Nat /\ Cardinality(Connections) \in Nat
      BY <2>3, ConnectionsFinite, FS_Subset, FS_CardinalityType, Zenon
    <3>2. QED
      BY <2>2, <3>1
  <2>5. activeClients' \in [Launchers -> 0 .. Cardinality(Connections)]
    BY <1>2, <2>1, <2>4, Zenon DEF Count, IInv, TypeOK
  <2>6. UNCHANGED <<wpc, sock, runInLoop, cst>>
    BY <1>2, Zenon DEF Count
  <2>7. QED
    BY <1>1, <1>2, <2>5, <2>6 DEF Count, IInv, TypeOK
<1>3. CASE AnswerPing(k)
  BY <1>1, <1>3 DEF AnswerPing, IInv, TypeOK
<1>4. CASE Handshake(k) \/ ServeLoop(k) \/ ServeMessage(k)
  BY <1>1, <1>4, SMTT(60) DEF Handshake, ServeLoop, ServeMessage, IInv, TypeOK
<1>5. CASE CleanupClient(k)
  BY <1>1, <1>5, ConnectionFacts, SMTT(60) DEF CleanupClient, IInv, TypeOK
<1>6. CASE LeaveGuard(k)
  <2>1. /\ to[k] \in Launchers
        /\ activeClients[to[k]] \in Nat /\ activeClients[to[k]] # 0
        /\ sock' = sock /\ runInLoop' = runInLoop
    BY <1>6, LeaveCounts, Zenon
  <2>2. activeClients[to[k]] \in 0 .. Cardinality(Connections)
    BY <2>1, Zenon DEF IInv, TypeOK
  <2>3. activeClients[to[k]] - 1 \in 0 .. Cardinality(Connections)
    BY <2>1, <2>2, ConnectionsFinite
  <2>4. activeClients' \in [Launchers -> 0 .. Cardinality(Connections)]
    BY <1>6, <2>1, <2>3, Zenon DEF LeaveGuard, IInv, TypeOK
  <2>5. UNCHANGED <<wpc, cst>>
    BY <1>6, Zenon DEF LeaveGuard
  <2>6. QED
    BY <1>1, <1>6, <2>1, <2>4, <2>5 DEF LeaveGuard, IInv, TypeOK
<1>7. QED
  BY <1>2, <1>3, <1>4, <1>5, <1>6, Zenon DEF Thread

LEMMA TypeStep ==
    ASSUME IInv, Next
    PROVE  TypeOK'
<1>1. ASSUME NEW l \in Launchers, Connect(l) \/ Reconnect(l)
      PROVE  TypeOK'
  <2>1. PICK x \in {"ping", "lock", "reping", "bind"} : lpc' = [lpc EXCEPT ![l] = x]
    BY <1>1, Zenon DEF Connect, Reconnect, Goto
  <2>2. Open(Pass(l)) \/ UNCHANGED connVars
    BY <1>1, Zenon DEF Connect, Reconnect
  <2>3. UNCHANGED <<path, flock, rpc, wpc, sock, serviceVars, boundVars>>
    BY <1>1, Zenon DEF Connect, Reconnect
  <2>4. CASE UNCHANGED connVars
    BY <2>1, <2>3, <2>4, Zenon DEF connVars, serviceVars, boundVars, IInv, TypeOK
  <2>5. CASE Open(Pass(l))
    <3>1. /\ path \in Launchers /\ Pass(l) \in Connections
          /\ to' = [to EXCEPT ![Pass(l)] = path]
          /\ cst' = [cst EXCEPT ![Pass(l)] = "pending"]
          /\ thr' = thr
      BY <2>5, ConnectionFacts, ZenonT(60) DEF Open, Reachable, IInv, TypeOK
    <3>2. QED
      BY <2>1, <2>3, <3>1, Zenon DEF serviceVars, boundVars, IInv, TypeOK
  <2>6. QED
    BY <2>2, <2>4, <2>5, Zenon
<1>2. ASSUME NEW l \in Launchers, Pinged(l) \/ Lock(l) \/ Repinged(l)
      PROVE  TypeOK'
  BY <1>2 DEF Pinged, Lock, Repinged, Goto, IInv, TypeOK
<1>3. ASSUME NEW l \in Launchers, Spawn(l) \/ PassThroughEnds(l)
      PROVE  TypeOK'
  BY <1>3 DEF Spawn, PassThroughEnds, Goto, IInv, TypeOK
<1>4. ASSUME NEW l \in Launchers, Bind(l) \/ Listen(l) \/ Unlock(l)
      PROVE  TypeOK'
  <2>1. CASE Bind(l)
    BY <2>1, Zenon DEF Bind, Goto, IInv, TypeOK
  <2>2. CASE Listen(l)
    BY <2>2, Zenon DEF Listen, Goto, IInv, TypeOK
  <2>3. CASE Unlock(l)
    BY <2>3, ZenonT(60) DEF Unlock, Goto, IInv, TypeOK
  <2>4. QED
    BY <1>4, <2>1, <2>2, <2>3, Zenon
<1>5. ASSUME NEW l \in Launchers, Loop(l) \/ AcceptFails(l) \/ Join(l)
      PROVE  TypeOK'
  BY <1>5 DEF Loop, AcceptFails, Join, Goto, IInv, TypeOK
<1>6. ASSUME NEW l \in Launchers, Accept(l)
      PROVE  TypeOK'
  <2>1. PICK k \in Connections : /\ cst' = [cst EXCEPT ![k] = "accepted"]
                                 /\ thr' = [thr EXCEPT ![k] = "count"]
    BY <1>6, Zenon DEF Accept
  <2>2. /\ lpc' = [lpc EXCEPT ![l] = "loop"]
        /\ UNCHANGED <<path, flock, rpc, wpc, sock, serviceVars, to, boundVars>>
    BY <1>6, Zenon DEF Accept, Goto
  <2>3. QED
    BY <2>1, <2>2, Zenon DEF IInv, TypeOK
<1>7. ASSUME NEW l \in Launchers, Close(l)
      PROVE  TypeOK'
  BY <1>7, Zenon DEF Close, DropPending, Goto, IInv, TypeOK
<1>8. ASSUME NEW l \in Launchers, Unlink(l) \/ Stopping(l)
      PROVE  TypeOK'
  <2>1. CASE Unlink(l)
    BY <2>1 DEF Unlink, Goto, IInv, TypeOK
  <2>2. CASE Stopping(l)
    BY <2>2 DEF Stopping, Goto, IInv, TypeOK
  <2>3. QED
    BY <1>8, <2>1, <2>2
<1>9. ASSUME NEW l \in Launchers, ClearRunInLoop(l) \/ Shutdown(l)
      PROVE  TypeOK'
  BY <1>9, ZenonT(40) DEF ClearRunInLoop, Shutdown, IInv, TypeOK
<1>10. ASSUME NEW l \in Launchers, WorkConnect(l) \/ WorkHandshake(l) \/ WorkRequest(l)
       PROVE  TypeOK'
  <2>1. UNCHANGED <<path, flock, lpc, rpc, sock, serviceVars, boundVars>>
    BY <1>10, Zenon DEF WorkConnect, WorkHandshake, WorkRequest
  <2>2. \/ wpc' = wpc
        \/ \E x \in {"connecting", "served", "refused"} : wpc' = [wpc EXCEPT ![l] = x]
    BY <1>10, Zenon DEF WorkConnect, WorkHandshake, WorkRequest
  <2>3. CASE UNCHANGED connVars
    BY <2>1, <2>2, <2>3, SMTT(60) DEF IInv, TypeOK
  <2>4. CASE Open(Work(l))
    BY <2>1, <2>2, <2>4, ConnectionFacts, SMTT(60) DEF Open, IInv, TypeOK
  <2>5. CASE WorkRequest(l)
    BY <2>1, <2>2, <2>5, ConnectionFacts DEF WorkRequest, IInv, TypeOK
  <2>6. QED
    BY <1>10, <2>3, <2>4, <2>5, Zenon DEF WorkConnect, WorkHandshake
<1>11. ASSUME NEW l \in Launchers, WorkEnd(l) \/ WorkKilled(l)
       PROVE  TypeOK'
  <2>1. PICK result \in {"ended", "failed"} : WorkGone(l, result)
    BY <1>11, Zenon DEF WorkEnd, WorkKilled
  <2>2. crashes' \in 0 .. MaxCrashes
    BY <1>11, RunnerAssumption DEF WorkEnd, WorkKilled, IInv, TypeOK
  <2>3. QED
    BY <2>1, <2>2, Zenon DEF WorkGone, DropPending, IInv, TypeOK
<1>12. ASSUME NEW l \in Launchers, Dies(l), crashes' \in 0 .. MaxCrashes,
              unlinked' = unlinked
       PROVE  TypeOK'
  BY <1>12, Zenon DEF Dies, Goto, IInv, TypeOK
<1>13. ASSUME NEW l \in Launchers, RunnerExits(l) \/ Crash(l)
       PROVE  TypeOK'
  <2>1. Dies(l) /\ unlinked' = unlinked
    BY <1>13, Zenon DEF RunnerExits, Crash
  <2>2. crashes' \in 0 .. MaxCrashes
    BY <1>13, RunnerAssumption DEF RunnerExits, Crash, IInv, TypeOK
  <2>3. QED
    BY <1>12, <2>1, <2>2, Zenon
<1>14. QED
  BY <1>1, <1>2, <1>3, <1>4, <1>5, <1>6, <1>7, <1>8, <1>9, <1>10, <1>11, <1>13,
     TypeThread, Zenon
  DEF Next, Launcher, Service, Runner, Workload

-----------------------------------------------------------------------------
(* The theorems.                                                           *)

LEMMA InitIInv == Init => IInv
<1> SUFFICES ASSUME Init PROVE IInv
  OBVIOUS
<1>1. TypeOK
  <2>1. 0 \in 0 .. Cardinality(Connections) /\ 0 \in 0 .. MaxCrashes
    BY RunnerAssumption, ConnectionsFinite
  <2>2. QED
    BY <2>1, Zenon DEF Init, TypeOK
<1>2. ConnInv
  BY ConnectionFacts, Zenon DEF Init, ConnInv
<1>3. CountInv
  <2>1. \A l : Counted(l) = {}
    BY Zenon DEF Init, Counted
  <2>2. QED
    BY <2>1, FS_EmptySet, Zenon DEF Init, CountInv
<1>4. LockInv /\ PathInv /\ LookInv
  BY RunnerAssumption, Zenon DEF Init, LockInv, PathInv, LookInv, Up
<1>5. QED
  BY <1>1, <1>2, <1>3, <1>4, Zenon DEF IInv

LEMMA StutterIInv ==
    ASSUME IInv, UNCHANGED vars
    PROVE  IInv'
<1> USE DEF vars
<1>1. TypeOK'
  BY Zenon DEF IInv, TypeOK
<1>2. ConnInv'
  BY Zenon DEF IInv, ConnInv
<1>3. CountInv'
  BY Zenon DEF IInv, CountInv, Counted
<1>4. LockInv'
  BY Zenon DEF IInv, LockInv
<1>5. PathInv'
  BY Zenon DEF IInv, PathInv, Up
<1>6. LookInv'
  BY Zenon DEF IInv, LookInv, Up
<1>7. QED
  BY <1>1, <1>2, <1>3, <1>4, <1>5, <1>6, Zenon DEF IInv

\* What every reachable state of the launchers satisfies: who holds the file
\* lock of main, which service the socket file names, what the look under the
\* lock has shown, and which threads activeClients of Provider counts.
THEOREM RunnerInvariant == Spec => []IInv
<1>1. IInv /\ [Next]_vars => IInv'
  <2>1. ASSUME IInv, Next PROVE IInv'
    BY <2>1, TypeStep, ConnStep, CountStep, LockStep, PathStep, LookStep, Zenon DEF IInv
  <2>2. QED
    BY <2>1, StutterIInv, Zenon
<1>2. QED
  BY <1>1, InitIInv, PTL DEF Spec

\* Every variable keeps its type; in particular activeClients, which
\* ActiveClientGuard only increments and decrements, is never decremented
\* below zero and never exceeds the number of connections.
THEOREM RunnerTypeOK == Spec => []TypeOK
<1>1. IInv => TypeOK
  BY Zenon DEF IInv
<1>2. QED
  BY <1>1, RunnerInvariant, PTL

\* The file lock and the second look under it (main, "calrun -s") leave at most
\* one service per command line as long as no service has removed the file.
THEOREM RunnerSingleService == Spec => []SingleService
<1>1. ASSUME IInv PROVE SingleService
  <2> SUFFICES ASSUME ~unlinked PROVE Cardinality(Serving) <= 1
    BY Zenon DEF SingleService
  <2>1. Serving \subseteq {path}
    BY <1>1, Zenon DEF Serving, Up, IInv, PathInv
  <2>2. IsFiniteSet({path}) /\ Cardinality({path}) = 1
    BY FS_Singleton, Zenon
  <2>3. QED
    BY <2>1, <2>2, FS_Subset, Zenon
<1>2. QED
  BY <1>1, RunnerInvariant, PTL
=============================================================================
