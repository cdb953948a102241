---------------------------- MODULE NativeCopies ----------------------------
(***************************************************************************)
(* What Level Zero promises an application that copies between its own      *)
(* memory (heap or stack) and USM when no layer is in between: the GPU      *)
(* works on the memory itself, in the order of each queue, and the          *)
(* application looks at its memory again once it has synchronized.          *)
(*                                                                          *)
(* The application keeps to the rules of the API: it uses a command list    *)
(* again only after it has synchronized with its last execution, leaves the *)
(* memory of unsynchronized commands alone, and synchronizes between lists  *)
(* that work on the same memory.                                            *)
(***************************************************************************)
EXTENDS Naturals, Sequences

CONSTANTS Regular,    \* regular command lists, all executed by one queue
          Immediate,  \* asynchronous immediate command lists
          Pointers,   \* blocks of private memory of the application
          Values      \* contents of a block

VARIABLES mem,       \* contents of private memory
          usm,       \* contents of a USM allocation
          recorded,  \* copies appended to each regular list
          running,   \* copies each queue still has to execute
          busy       \* <<list, pointer>>: memory of unsynchronized commands

vars == <<mem, usm, recorded, running, busy>>

Lists == Regular \cup Immediate
Queue == "queue"
Engines == {Queue} \cup Immediate
EngineOf(l) == IF l \in Regular THEN Queue ELSE l

\* "read" copies USM to private memory, "write" private memory to USM.
Copies(l) == [list : {l}, kind : {"read", "write"}, ptr : Pointers]
Touched(copies) == {copies[k].ptr : k \in DOMAIN copies}
Idle(l) == \A p \in Pointers : <<l, p>> \notin busy
Untouched(p) == \A l \in Lists : <<l, p>> \notin busy
Alone(l, P) == \A p \in P, m \in Lists \ {l} : <<m, p>> \notin busy

Init ==
  /\ mem = [p \in Pointers |-> 0] /\ usm = 1
  /\ recorded = [l \in Regular |-> <<>>]
  /\ running = [e \in Engines |-> <<>>]
  /\ busy = {}

AppWrites(p, v) ==
  /\ Untouched(p)
  /\ mem' = [mem EXCEPT ![p] = v]
  /\ UNCHANGED <<usm, recorded, running, busy>>

Record(l, c) ==
  /\ Idle(l)
  /\ recorded' = [recorded EXCEPT ![l] = Append(@, c)]
  /\ UNCHANGED <<mem, usm, running, busy>>

Reset(l) ==
  /\ Idle(l)
  /\ recorded' = [recorded EXCEPT ![l] = <<>>]
  /\ UNCHANGED <<mem, usm, running, busy>>

Execute(l) ==
  /\ Idle(l) /\ Alone(l, Touched(recorded[l]))
  /\ running' = [running EXCEPT ![Queue] = @ \o recorded[l]]
  /\ busy' = busy \cup {l} \X Touched(recorded[l])
  /\ UNCHANGED <<mem, usm, recorded>>

Launch(l, c) ==
  /\ Alone(l, {c.ptr})
  /\ running' = [running EXCEPT ![l] = Append(@, c)]
  /\ busy' = busy \cup {<<l, c.ptr>>}
  /\ UNCHANGED <<mem, usm, recorded>>

GpuCopies(e) ==
  LET c == Head(running[e]) IN
  /\ running[e] # <<>>
  /\ running' = [running EXCEPT ![e] = Tail(@)]
  /\ IF c.kind = "read" THEN mem' = [mem EXCEPT ![c.ptr] = usm] /\ UNCHANGED usm
     ELSE usm' = mem[c.ptr] /\ UNCHANGED mem
  /\ UNCHANGED <<recorded, busy>>

\* A call that waits returns; the application knows that these copies are done.
Synchronized(known) ==
  /\ \A lp \in known : \A k \in DOMAIN running[EngineOf(lp[1])] :
       LET c == running[EngineOf(lp[1])][k] IN <<c.list, c.ptr>> # lp
  /\ busy' = busy \ known
  /\ UNCHANGED <<mem, usm, recorded, running>>

Next ==
  \/ \E p \in Pointers, v \in Values : AppWrites(p, v)
  \/ \E l \in Regular : Reset(l) \/ Execute(l) \/ \E c \in Copies(l) : Record(l, c)
  \/ \E l \in Immediate : \E c \in Copies(l) : Launch(l, c)
  \/ \E e \in Engines : GpuCopies(e)
  \/ \E known \in SUBSET busy : Synchronized(known)

Spec == Init /\ [][Next]_vars
=============================================================================
