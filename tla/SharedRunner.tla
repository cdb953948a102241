---------------------------- MODULE SharedRunner ----------------------------
(***************************************************************************)
(* Launchers in shared runner mode ("calrun -s"), the service one of them  *)
(* becomes, and the workloads they start (service/main.cpp, Provider::run, *)
(* serviceSingleClient and runCommand, shared/ipc.h).                      *)
(*                                                                         *)
(* A launcher looks for a service behind the socket file that belongs to   *)
(* its command line.  If one answers a ping, the launcher starts its       *)
(* workload and keeps the connection until the workload ends.  Otherwise   *)
(* it takes a file lock, looks again, and becomes the service itself; it   *)
(* gives the lock back when it listens.  A workload connects by the path   *)
(* of the socket when it makes its first API call.                         *)
(*                                                                         *)
(* Every launcher is one process; lpc is its main thread, which for a      *)
(* service is the loop of Provider::run.  Each connection has a thread in  *)
(* the service it leads to.  Starting a service without any available API  *)
(* and errors of system calls on the socket file are left out, since the   *)
(* process ends there (the crash of a launcher covers what others see of   *)
(* it).  Only persistent services are sent the stop message, so it is left *)
(* out too, and so are pings after the handshake, which nobody sends.      *)
(* Definitions marked "Faulty" are variants that take part in no           *)
(* specification.                                                          *)
(***************************************************************************)
EXTENDS Naturals, FiniteSets

CONSTANTS
    Launchers,   \* processes started with the same command line
    MaxCrashes,  \* bound: processes that are killed
    None

ASSUME RunnerAssumption ==
    IsFiniteSet(Launchers) /\ None \notin Launchers /\ MaxCrashes \in Nat

\* A launcher's own connection, and the one of its workload.
Pass(l) == <<l, "pass">>
Work(l) == <<l, "work">>
Connections == Launchers \X {"pass", "work"}

VARIABLES
    path,           \* the process whose socket the socket file names
    flock,          \* the process that holds the file lock
    lpc,            \* main thread of each launcher
    rpc,            \* the thread that runs a service's own workload
    wpc,            \* the workload of each launcher
    sock,           \* listening socket of each launcher
    runInLoop, isStopping, activeClients,   \* Provider
    to,             \* the service a connection leads to
    cst,            \* state of a connection
    thr,            \* the service's thread for a connection
    crashes,
    unlinked        \* history: some service has removed the socket file

serviceVars == <<runInLoop, isStopping, activeClients>>
connVars == <<to, cst, thr>>
boundVars == <<crashes, unlinked>>
vars == <<path, flock, lpc, rpc, wpc, sock, serviceVars, connVars,
          boundVars>>

Init ==
    /\ path = None /\ flock = None
    /\ lpc = [l \in Launchers |-> "connect"]
    /\ rpc = [l \in Launchers |-> "none"]
    /\ wpc = [l \in Launchers |-> "none"]
    /\ sock = [l \in Launchers |-> "none"]
    /\ runInLoop = [l \in Launchers |-> FALSE]
    /\ isStopping = [l \in Launchers |-> FALSE]
    /\ activeClients = [l \in Launchers |-> 0]
    /\ to = [k \in Connections |-> None]
    /\ cst = [k \in Connections |-> "none"]
    /\ thr = [k \in Connections |-> "none"]
    /\ crashes = 0 /\ unlinked = FALSE

Goto(l, label) == lpc' = [lpc EXCEPT ![l] = label]

-----------------------------------------------------------------------------
(***************************************************************************)
(* Sockets, as the operating system provides them.                         *)
(***************************************************************************)

\* connect() succeeds when the file names a socket that listens; nobody needs
\* to accept it yet.
Reachable == path # None /\ sock[path] = "listening"

Open(k) ==
    /\ Reachable
    /\ to' = [to EXCEPT ![k] = path]
    /\ cst' = [cst EXCEPT ![k] = "pending"]
    /\ UNCHANGED thr

\* Connections that no thread has accepted end with the socket.
DropPending(l) ==
    [k \in Connections |->
       IF to[k] = l /\ cst[k] = "pending" THEN "dead" ELSE cst[k]]

\* The other end of a connection is closed.  A workload inherits the
\* connection of its launcher.
Eof(k) ==
    /\ wpc[k[1]] \in {"none", "ended", "failed"}
    /\ k[2] = "pass" => lpc[k[1]] \in {"done", "crashed"}

-----------------------------------------------------------------------------
(***************************************************************************)
(* A launcher looks for a service (main).                                  *)
(***************************************************************************)

\* Connect, send a ping; without a connection go on to the lock.
Connect(l) ==
    /\ lpc[l] = "connect"
    /\ \/ /\ Open(Pass(l))
          /\ Goto(l, "ping")
       \/ /\ ~Reachable
          /\ Goto(l, "lock")
          /\ UNCHANGED connVars
    /\ UNCHANGED <<path, flock, rpc, wpc, sock, serviceVars, boundVars>>

\* isAlive waits for the answer or the end of the connection.
Pinged(l) ==
    /\ lpc[l] = "ping"
    /\ \/ cst[Pass(l)] = "answered" /\ Goto(l, "spawn")
       \/ cst[Pass(l)] = "dead" /\ Goto(l, "lock")
    /\ UNCHANGED <<path, flock, rpc, wpc, sock, serviceVars, connVars, boundVars>>

Lock(l) ==
    /\ lpc[l] = "lock"
    /\ flock = None
    /\ flock' = l
    /\ Goto(l, "reconnect")
    /\ UNCHANGED <<path, rpc, wpc, sock, serviceVars, connVars, boundVars>>

\* Faulty: the launcher that got the lock does not look again.
ReconnectNot(l) ==
    /\ lpc[l] = "reconnect"
    /\ Goto(l, "bind")
    /\ UNCHANGED <<path, flock, rpc, wpc, sock, serviceVars, connVars, boundVars>>

Reconnect(l) ==
    /\ lpc[l] = "reconnect"
    /\ \/ /\ Open(Pass(l))
          /\ Goto(l, "reping")
       \/ /\ ~Reachable
          /\ Goto(l, "bind")
          /\ UNCHANGED connVars
    /\ UNCHANGED <<path, flock, rpc, wpc, sock, serviceVars, boundVars>>

Repinged(l) ==
    /\ lpc[l] = "reping"
    /\ \/ /\ cst[Pass(l)] = "answered"
          /\ flock' = None
          /\ Goto(l, "spawn")
       \/ /\ cst[Pass(l)] = "dead"
          /\ Goto(l, "bind")
          /\ UNCHANGED flock
    /\ UNCHANGED <<path, rpc, wpc, sock, serviceVars, connVars, boundVars>>

\* A pass-through launcher starts its workload, and ends with it.
Spawn(l) ==
    /\ lpc[l] = "spawn"
    /\ wpc' = [wpc EXCEPT ![l] = "running"]
    /\ Goto(l, "wait")
    /\ UNCHANGED <<path, flock, rpc, sock, serviceVars, connVars, boundVars>>

PassThroughEnds(l) ==
    /\ lpc[l] = "wait"
    /\ wpc[l] \in {"ended", "failed"}
    /\ Goto(l, "done")
    /\ UNCHANGED <<path, flock, rpc, wpc, sock, serviceVars, connVars, boundVars>>

Launcher(l) ==
    \/ Connect(l) \/ Pinged(l) \/ Lock(l) \/ Reconnect(l) \/ Repinged(l)
    \/ Spawn(l) \/ PassThroughEnds(l)

-----------------------------------------------------------------------------
(***************************************************************************)
(* The service: Provider::run.                                             *)
(***************************************************************************)

\* The listener removes a stale socket file and binds its own.  The lock keeps
\* every other launcher from doing so at the same time.
Bind(l) ==
    /\ lpc[l] = "bind"
    /\ path' = l
    /\ sock' = [sock EXCEPT ![l] = "bound"]
    /\ Goto(l, "listen")
    /\ UNCHANGED <<flock, rpc, wpc, serviceVars, connVars, boundVars>>

Listen(l) ==
    /\ lpc[l] = "listen"
    /\ sock' = [sock EXCEPT ![l] = "listening"]
    /\ Goto(l, "unlock")
    /\ UNCHANGED <<path, flock, rpc, wpc, serviceVars, connVars, boundVars>>

\* The lock is given back, the loop begins and a thread starts the workload.
Unlock(l) ==
    /\ lpc[l] = "unlock"
    /\ flock' = None
    /\ runInLoop' = [runInLoop EXCEPT ![l] = TRUE]
    /\ wpc' = [wpc EXCEPT ![l] = "running"]
    /\ rpc' = [rpc EXCEPT ![l] = "wait"]
    /\ Goto(l, "loop")
    /\ UNCHANGED <<path, sock, isStopping, activeClients, connVars, boundVars>>

Loop(l) ==
    /\ lpc[l] = "loop"
    /\ Goto(l, IF runInLoop[l] THEN "accept" ELSE "close")
    /\ UNCHANGED <<path, flock, rpc, wpc, sock, serviceVars, connVars, boundVars>>

Accept(l) ==
    /\ lpc[l] = "accept"
    /\ sock[l] = "listening"
    /\ \E k \in Connections :
         /\ to[k] = l /\ cst[k] = "pending"
         /\ cst' = [cst EXCEPT ![k] = "accepted"]
         /\ thr' = [thr EXCEPT ![k] = "count"]
    /\ Goto(l, "loop")
    /\ UNCHANGED <<path, flock, rpc, wpc, sock, serviceVars, to, boundVars>>

\* accept() on a socket that was shut down fails at once.
AcceptFails(l) ==
    /\ lpc[l] = "accept"
    /\ sock[l] = "shut"
    /\ Goto(l, IF runInLoop[l] THEN "loop" ELSE "close")
    /\ UNCHANGED <<path, flock, rpc, wpc, sock, serviceVars, connVars, boundVars>>

\* listener->close(): first the socket ...
Close(l) ==
    /\ lpc[l] = "close"
    /\ sock' = [sock EXCEPT ![l] = "closed"]
    /\ cst' = DropPending(l)
    /\ Goto(l, "unlink")
    /\ UNCHANGED <<path, flock, rpc, wpc, serviceVars, to, thr, boundVars>>

\* ... then the socket file, whosever it is.
Unlink(l) ==
    /\ lpc[l] = "unlink"
    /\ path' = None
    /\ unlinked' = TRUE
    /\ Goto(l, "stopping")
    /\ UNCHANGED <<flock, rpc, wpc, sock, serviceVars, connVars, crashes>>

Stopping(l) ==
    /\ lpc[l] = "stopping"
    /\ isStopping' = [isStopping EXCEPT ![l] = TRUE]
    /\ Goto(l, "join")
    /\ UNCHANGED <<path, flock, rpc, wpc, sock, runInLoop, activeClients,
                   connVars, boundVars>>

\* The process ends when the threads of the clients and of the workload have.
Join(l) ==
    /\ lpc[l] = "join"
    /\ rpc[l] = "ended"
    /\ \A k \in Connections : to[k] = l => thr[k] = "none"
    /\ Goto(l, "done")
    /\ UNCHANGED <<path, flock, rpc, wpc, sock, serviceVars, connVars, boundVars>>

Service(l) ==
    \/ Bind(l) \/ Listen(l) \/ Unlock(l) \/ Loop(l) \/ Accept(l)
    \/ AcceptFails(l) \/ Close(l) \/ Unlink(l) \/ Stopping(l) \/ Join(l)

\* runCommand: when the service's own workload has ended, leave the loop and
\* shut the listener down, unless it is closed already.
ClearRunInLoop(l) ==
    /\ rpc[l] = "wait"
    /\ wpc[l] = "ended"
    /\ runInLoop' = [runInLoop EXCEPT ![l] = FALSE]
    /\ rpc' = [rpc EXCEPT ![l] = "shutdown"]
    /\ UNCHANGED <<path, flock, lpc, wpc, sock, isStopping, activeClients,
                   connVars, boundVars>>

\* Faulty: the main thread is left waiting for a connection.
ShutdownNot(l) ==
    /\ rpc[l] = "shutdown"
    /\ rpc' = [rpc EXCEPT ![l] = "ended"]
    /\ UNCHANGED <<path, flock, lpc, wpc, sock, serviceVars, connVars, boundVars>>

Shutdown(l) ==
    /\ rpc[l] = "shutdown"
    /\ rpc' = [rpc EXCEPT ![l] = "ended"]
    /\ sock' = [sock EXCEPT ![l] = IF @ = "listening" THEN "shut" ELSE @]
    /\ UNCHANGED <<path, flock, lpc, wpc, serviceVars, connVars, boundVars>>

-----------------------------------------------------------------------------
(***************************************************************************)
(* The thread of a connection: serviceSingleClient.                        *)
(***************************************************************************)

\* Faulty: the client is not counted.
CountNot(k) ==
    /\ thr[k] = "count"
    /\ thr' = [thr EXCEPT ![k] = "prologue"]
    /\ UNCHANGED <<path, flock, lpc, rpc, wpc, sock, serviceVars, to, cst, boundVars>>

Count(k) ==
    /\ thr[k] = "count"
    /\ activeClients' = [activeClients EXCEPT ![to[k]] = @ + 1]
    /\ thr' = [thr EXCEPT ![k] = "prologue"]
    /\ UNCHANGED <<path, flock, lpc, rpc, wpc, sock, runInLoop, isStopping, to,
                   cst, boundVars>>

\* A ping is answered in the prologue; the end of the connection ends it.
AnswerPing(k) ==
    /\ k[2] = "pass"
    /\ thr[k] = "prologue"
    /\ \/ /\ cst[k] = "accepted"
          /\ cst' = [cst EXCEPT ![k] = "answered"]
          /\ UNCHANGED thr
       \/ /\ cst[k] = "answered"
          /\ Eof(k)
          /\ thr' = [thr EXCEPT ![k] = "leave"]
          /\ UNCHANGED cst
    /\ UNCHANGED <<path, flock, lpc, rpc, wpc, sock, serviceVars, to, boundVars>>

\* The handshake succeeds, or fails because the workload is gone.
Handshake(k) ==
    /\ k[2] = "work"
    /\ thr[k] = "prologue"
    /\ \/ /\ cst' = [cst EXCEPT ![k] = "answered"]
          /\ thr' = [thr EXCEPT ![k] = "serve"]
       \/ /\ Eof(k)
          /\ cst' = [cst EXCEPT ![k] = "dead"]
          /\ thr' = [thr EXCEPT ![k] = "leave"]
    /\ UNCHANGED <<path, flock, lpc, rpc, wpc, sock, serviceVars, to, boundVars>>

ServeLoop(k) ==
    /\ thr[k] = "serve"
    /\ thr' = [thr EXCEPT ![k] = IF isStopping[to[k]] THEN "cleanup" ELSE "peek"]
    /\ UNCHANGED <<path, flock, lpc, rpc, wpc, sock, serviceVars, to, cst, boundVars>>

ServeMessage(k) ==
    /\ thr[k] = "peek"
    /\ \/ /\ cst[k] = "request"
          /\ cst' = [cst EXCEPT ![k] = "answered"]
          /\ thr' = [thr EXCEPT ![k] = "serve"]
       \/ /\ cst[k] = "answered"
          /\ Eof(k)
          /\ thr' = [thr EXCEPT ![k] = "cleanup"]
          /\ UNCHANGED cst
    /\ UNCHANGED <<path, flock, lpc, rpc, wpc, sock, serviceVars, to, boundVars>>

\* ClientContext::cleanup stops the channels of the client: a workload that is
\* still there gets no answer to its next call.  Then the connection closes.
CleanupClient(k) ==
    /\ thr[k] = "cleanup"
    /\ cst' = [cst EXCEPT ![k] = "dead"]
    /\ wpc' = [wpc EXCEPT ![k[1]] = IF Eof(k) THEN @ ELSE "stuck"]
    /\ thr' = [thr EXCEPT ![k] = "leave"]
    /\ UNCHANGED <<path, flock, lpc, rpc, sock, serviceVars, to, boundVars>>

\* ~ActiveClientGuard: the value before the decrement is compared.
LeaveGuard(k) ==
    LET s == to[k]
        last == activeClients[s] = 0
    IN  /\ thr[k] = "leave"
        /\ activeClients' = [activeClients EXCEPT ![s] = @ - 1]
        /\ runInLoop' = [runInLoop EXCEPT ![s] = @ /\ ~last]
        /\ sock' = [sock EXCEPT ![s] = IF last /\ runInLoop[s] THEN "shut" ELSE @]
        /\ thr' = [thr EXCEPT ![k] = "none"]
        /\ UNCHANGED <<path, flock, lpc, rpc, wpc, isStopping, to, cst, boundVars>>

Thread(k) ==
    \/ Count(k) \/ AnswerPing(k) \/ Handshake(k) \/ ServeLoop(k)
    \/ ServeMessage(k) \/ CleanupClient(k) \/ LeaveGuard(k)

-----------------------------------------------------------------------------
(***************************************************************************)
(* Workloads (ClientConnection::connect) and crashes.                      *)
(***************************************************************************)

\* The first API call connects by the path of the socket.
WorkConnect(l) ==
    /\ wpc[l] = "running"
    /\ \/ /\ Open(Work(l))
          /\ wpc' = [wpc EXCEPT ![l] = "connecting"]
       \/ /\ ~Reachable
          /\ wpc' = [wpc EXCEPT ![l] = "refused"]
          /\ UNCHANGED connVars
    /\ UNCHANGED <<path, flock, lpc, rpc, sock, serviceVars, boundVars>>

\* The handshake is answered, or the connection ends before that.
WorkHandshake(l) ==
    /\ wpc[l] = "connecting"
    /\ \/ cst[Work(l)] = "answered" /\ wpc' = [wpc EXCEPT ![l] = "served"]
       \/ cst[Work(l)] = "dead" /\ wpc' = [wpc EXCEPT ![l] = "refused"]
    /\ UNCHANGED <<path, flock, lpc, rpc, sock, serviceVars, connVars, boundVars>>

WorkRequest(l) ==
    /\ wpc[l] = "served"
    /\ cst[Work(l)] = "answered"
    /\ cst' = [cst EXCEPT ![Work(l)] = "request"]
    /\ UNCHANGED <<path, flock, lpc, rpc, wpc, sock, serviceVars, to, thr, boundVars>>

\* A workload is gone.  If it held the listening socket of a service that is
\* gone as well, that socket ends now.
WorkGone(l, result) ==
    LET orphan == lpc[l] = "crashed" /\ sock[l] = "listening"
    IN  /\ wpc' = [wpc EXCEPT ![l] = result]
        /\ sock' = [sock EXCEPT ![l] = IF orphan THEN "closed" ELSE @]
        /\ cst' = IF orphan THEN DropPending(l) ELSE cst
        /\ UNCHANGED <<path, flock, lpc, rpc, serviceVars, to, thr, unlinked>>

\* A workload ends by itself, with success or not.
WorkEnd(l) ==
    /\ \/ wpc[l] \in {"running", "refused", "stuck"}
       \/ wpc[l] = "served" /\ cst[Work(l)] = "answered"
    /\ \E result \in {"ended", "failed"} : WorkGone(l, result)
    /\ UNCHANGED crashes

\* A workload is killed, whatever it waits for.
WorkKilled(l) ==
    /\ crashes < MaxCrashes
    /\ wpc[l] \in {"running", "connecting", "served", "refused", "stuck"}
    /\ WorkGone(l, "failed")
    /\ crashes' = crashes + 1

Workload(l) == WorkConnect(l) \/ WorkHandshake(l) \/ WorkEnd(l)

\* A process is gone at once.  The kernel releases its lock and closes its
\* connections; the socket file stays, and its listening socket lives on in a
\* workload that runs.  Workloads that were served get no answer any more.
Dies(l) ==
    LET inherited == sock[l] = "listening" /\ ~Eof(Work(l))
    IN  /\ Goto(l, "crashed")
        /\ rpc' = [rpc EXCEPT ![l] = "ended"]
        /\ flock' = IF flock = l THEN None ELSE flock
        /\ sock' = [sock EXCEPT ![l] = IF inherited THEN @ ELSE "closed"]
        /\ cst' = [k \in Connections |->
                     IF to[k] = l /\ (inherited => cst[k] # "pending")
                       THEN "dead" ELSE cst[k]]
        /\ thr' = [k \in Connections |-> IF to[k] = l THEN "none" ELSE thr[k]]
        /\ wpc' = [m \in Launchers |->
                     IF to[Work(m)] = l /\ wpc[m] = "served" THEN "stuck" ELSE wpc[m]]
        /\ UNCHANGED <<path, serviceVars, to>>

\* spawnProcessAndWait calls exit() when the workload failed: with it goes the
\* service that this launcher runs for the others.
RunnerExits(l) ==
    /\ rpc[l] = "wait"
    /\ wpc[l] = "failed"
    /\ Dies(l)
    /\ UNCHANGED boundVars

\* A launcher is killed.
Crash(l) ==
    /\ crashes < MaxCrashes
    /\ lpc[l] \notin {"done", "crashed"}
    /\ Dies(l)
    /\ crashes' = crashes + 1
    /\ UNCHANGED unlinked

Runner(l) == ClearRunInLoop(l) \/ Shutdown(l) \/ RunnerExits(l)

Next ==
    \/ \E l \in Launchers :
         \/ Launcher(l) \/ Service(l) \/ Runner(l)
         \/ Workload(l) \/ WorkRequest(l) \/ WorkKilled(l)
         \/ Crash(l)
    \/ \E k \in Connections : Thread(k)

\* Processes and threads are scheduled.  A workload ends, whatever requests it
\* makes before, unless its service left it alone: an assumption on the
\* program that the user runs.  No one has to be killed.
Fairness ==
    /\ \A l \in Launchers : /\ WF_vars(Launcher(l))
                            /\ WF_vars(Service(l))
                            /\ WF_vars(Runner(l))
                            /\ WF_vars(WorkHandshake(l))
                            /\ SF_vars(wpc[l] # "stuck" /\ WorkEnd(l))
    /\ \A k \in Connections : WF_vars(Thread(k))

Spec == Init /\ [][Next]_vars
FairSpec == Spec /\ Fairness

-----------------------------------------------------------------------------
(***************************************************************************)
(* Properties.                                                             *)
(***************************************************************************)

\* Every variable holds a value of its type.
TypeOK ==
    /\ path \in Launchers \cup {None} /\ flock \in Launchers \cup {None}
    /\ lpc \in [Launchers -> {"connect", "ping", "lock", "reconnect", "reping",
                 "spawn", "wait", "bind", "listen", "unlock", "loop", "accept",
                 "close", "unlink", "stopping", "join", "done", "crashed"}]
    /\ rpc \in [Launchers -> {"none", "wait", "shutdown", "ended"}]
    /\ wpc \in [Launchers -> {"none", "running", "connecting", "served",
                              "refused", "stuck", "ended", "failed"}]
    /\ sock \in [Launchers -> {"none", "bound", "listening", "shut", "closed"}]
    /\ runInLoop \in [Launchers -> BOOLEAN] /\ isStopping \in [Launchers -> BOOLEAN]
    /\ activeClients \in [Launchers -> 0 .. Cardinality(Connections)]
    /\ to \in [Connections -> Launchers \cup {None}]
    /\ cst \in [Connections -> {"none", "pending", "accepted", "answered",
                                "request", "dead"}]
    /\ thr \in [Connections -> {"none", "count", "prologue", "serve", "peek",
                                "cleanup", "leave"}]
    /\ crashes \in 0 .. MaxCrashes /\ unlinked \in BOOLEAN

\* The services that take clients.
Serving == {l \in Launchers : /\ lpc[l] \in {"unlock", "loop", "accept"}
                              /\ sock[l] = "listening"}

\* The lock file and the second look under it leave one service per command
\* line, however many launchers start at once, stop or are killed meanwhile, as
\* long as no service has removed the socket file.
SingleService == unlinked \/ Cardinality(Serving) <= 1

\* A workload without answer: its service has stopped its channels or is gone.
LostService(l) ==
    \/ wpc[l] = "stuck"
    \/ wpc[l] = "connecting" /\ lpc[to[Work(l)]] = "crashed"

\* Every launcher ends, and with it the service it may have become: the file
\* lock, the ping and the join of the clients block no one for ever, unless a
\* workload lost its service and waits for an answer.
LaunchersEnd ==
    \A l \in Launchers :
        <>(lpc[l] \in {"done", "crashed"} \/ \E m \in Launchers : LostService(m))

\* A workload started in shared mode gets the service and keeps it to its end.
WorkloadsServed == \A l \in Launchers : wpc[l] \notin {"refused", "stuck"}
=============================================================================
