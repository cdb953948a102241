--------------------------- MODULE HostptrCopies ---------------------------
(***************************************************************************)
(* Level Zero copies to and from private memory of the client, which the    *)
(* GPU of the service cannot reach.  A regular list works on a block of     *)
(* the service that stands for the private memory (remapPointer): the       *)
(* client fills it before the list is executed.  An immediate list works on *)
(* a staging area in USM.  In both cases the service learns from an event   *)
(* of its own, the marker, that a copy to private memory has finished, and  *)
(* tells the client through the ring of finished copies, which the client   *)
(* reads when it synchronizes.                                              *)
(*                                                                          *)
(* Calls hold the channel until they return; asynchronous ones leave their  *)
(* command in posted.  All copies at a pointer have the same size, a list   *)
(* is used by one thread at a time, and the ring never fills.               *)
(***************************************************************************)
EXTENDS Naturals, Sequences, SequencesExt, FiniteSetsExt

CONSTANTS Regular, Immediate, Pointers, Values,  \* see NativeCopies
          EventLists,     \* lists with a copy that signals an event of the application
          EventsPerPool,  \* eventsCountPerPool
          MaxCommands,    \* bound on the commands that are recorded or pending
          MaxMarkers      \* bound on the markers of the context

Lists == Regular \cup Immediate
Queue == "queue"
Engines == {Queue} \cup Immediate
EngineOf(l) == IF l \in Regular THEN Queue ELSE l
Areas == 1..(Cardinality(Immediate) * Cardinality(Pointers))

ASSUME HostptrCopiesAssumption ==
  EventLists \subseteq Lists /\ {EventsPerPool, MaxCommands, MaxMarkers} \subseteq Nat \ {0}

VARIABLES
  mem, usm,   \* private memory of the application, a USM allocation
  busy,       \* <<list, pointer>>: memory of commands that are not synchronized
  phase,      \* regular lists: "open", "closed", or "written" while being executed
  temp,       \* temporaryStagingAreas of each immediate list: pointer |-> area
  host,       \* usmToHostAddressMap
  posted,     \* commands of asynchronous calls that are still to be served
  serving,    \* the call in updateHostptrCopies
  block,      \* service-side memory: blocks (by pointer) and staging areas
  recorded,   \* driver commands appended to each regular list
  gpu,        \* driver commands each queue still has to execute
  events,     \* lists whose event of the application is signalled
  markers,    \* artificial events in order of creation
  pools,      \* number of event pools, events taken from the current one
  signalled,  \* markers that are signalled
  ongoing,    \* ongoingOperations
  resubmit,   \* operationsForResubmit
  ring        \* finished copies the client has not read, by service-side memory

client == <<mem, busy, phase, temp, host>>
channel == <<posted, serving>>
device == <<usm, block, recorded, gpu, events>>
service == <<markers, pools, signalled, ongoing, resubmit, ring>>
vars == <<client, channel, device, service>>

None == [call |-> "none", known |-> {}, cleans |-> {}, cursor |-> 0]

Init ==
  /\ mem = [p \in Pointers |-> 0] /\ usm = 1
  /\ busy = {}
  /\ phase = [l \in Regular |-> "open"]
  /\ temp = [l \in Immediate |-> [p \in {} |-> 0]]
  /\ host = [a \in {} |-> 0]
  /\ posted = <<>> /\ serving = None
  /\ block = [b \in Pointers \cup Areas |-> 0]
  /\ recorded = [l \in Regular |-> <<>>]
  /\ gpu = [e \in Engines |-> <<>>]
  /\ events = {}
  /\ markers = <<>> /\ pools = [count |-> 0, used |-> 0] /\ signalled = {}
  /\ ongoing = <<>>
  /\ resubmit = [l \in Regular |-> <<>>]
  /\ ring = <<>>

-----------------------------------------------------------------------------
(* Artificial events.                                                       *)

FreeMarkers(ms) == {k \in DOMAIN ms : ms[k].isFree}
NewPool == pools.count = 0 \/ pools.used >= EventsPerPool

\* The bound on markers: the calls that were posted find theirs.
MarkersLeft ==
  Len(SelectSeq(posted, LAMBDA c : c.call = "append" /\ c.kind = "read"))
    < MaxMarkers - Len(markers) + Cardinality(FreeMarkers(markers))

\* The event obtainEventReplacement returns: the first free one, or a new one.
Obtained ==
  IF FreeMarkers(markers) # {} THEN markers[Min(FreeMarkers(markers))].handle
  ELSE IF NewPool THEN <<pools.count + 1, 0>> ELSE <<pools.count, pools.used>>

\* Faulty: the first free event is found but not marked as used.
ObtainStillFree ==
  IF FreeMarkers(markers) # {} THEN UNCHANGED <<markers, pools>>
  ELSE /\ markers' = Append(markers, [handle |-> Obtained, isFree |-> FALSE])
       /\ pools' = IF NewPool THEN [count |-> pools.count + 1, used |-> 1]
                   ELSE [pools EXCEPT !.used = @ + 1]

Obtain ==
  IF FreeMarkers(markers) # {}
  THEN /\ markers' = [markers EXCEPT ![Min(FreeMarkers(markers))].isFree = FALSE]
       /\ UNCHANGED pools
  ELSE /\ markers' = Append(markers, [handle |-> Obtained, isFree |-> FALSE])
       /\ pools' = IF NewPool THEN [count |-> pools.count + 1, used |-> 1]
                   ELSE [pools EXCEPT !.used = @ + 1]

Returned(ms, handles) ==
  [k \in DOMAIN ms |-> [ms[k] EXCEPT !.isFree = @ \/ ms[k].handle \in handles]]

-----------------------------------------------------------------------------
(* The application and its command lists.                                   *)

Idle(l) == \A p \in Pointers : <<l, p>> \notin busy
Untouched(p) == \A l \in Lists : <<l, p>> \notin busy
Alone(l, P) == \A p \in P, m \in Lists \ {l} : <<m, p>> \notin busy
Touched(cs) == {cs[k].ptr : k \in DOMAIN cs}
Sources(cs) == {cs[k].ptr : k \in {j \in DOMAIN cs : cs[j].kind = "write"}}
Backlog ==
  Len(posted) + MapThenSumSet(LAMBDA l : Len(recorded[l]), Regular)
    + MapThenSumSet(LAMBDA l : Len(gpu[l]), Immediate)
ChannelFree == posted = <<>> /\ serving = None

AppWrites(p, v) ==
  /\ Untouched(p)
  /\ mem' = [mem EXCEPT ![p] = v]
  /\ UNCHANGED <<usm, busy, phase, temp, host, channel, block, recorded, gpu, events, service>>

\* The driver commands of a copy: the marker takes the place of the application's
\* event, which a barrier behind it signals (addRelay).
DriverCommands(l, kind, p, loc, withEvent) ==
  LET copy(k) == [list |-> l, kind |-> k, ptr |-> p, loc |-> loc, marker |-> Obtained] IN
  IF kind = "write" THEN <<[copy("write") EXCEPT !.marker = <<>>]>>
  ELSE <<copy("read")>> \o (IF withEvent THEN <<copy("relay")>> ELSE <<>>)

registerCopyOperation(l, loc) ==
  Append(ongoing, [list |-> l, marker |-> Obtained, loc |-> loc, canBeResubmitted |-> l \in Regular])

MayHaveEvent(l, cs, kind, withEvent) ==
  withEvent => /\ l \in EventLists /\ kind = "read"
               /\ \A k \in DOMAIN cs : cs[k].kind = "relay" => cs[k].list # l

\* zeCommandListAppendMemoryCopyDeferred, a synchronous call.
AppendDeferred(l, kind, p, withEvent) ==
  /\ ChannelFree
  /\ phase[l] = "open" /\ Backlog < MaxCommands
  /\ MayHaveEvent(l, recorded[l], kind, withEvent)
  /\ recorded' = [recorded EXCEPT ![l] = @ \o DriverCommands(l, kind, p, p, withEvent)]
  /\ IF kind = "read"
     THEN MarkersLeft /\ Obtain /\ ongoing' = registerCopyOperation(l, p)
     ELSE UNCHANGED <<markers, pools, ongoing>>
  /\ UNCHANGED <<client, channel, usm, block, gpu, events, signalled, resubmit, ring>>

\* The driver refuses the copy: the call fails, its marker stays taken.
AppendRefused(l) ==
  /\ ChannelFree
  /\ phase[l] = "open" /\ MarkersLeft
  /\ Obtain
  /\ UNCHANGED <<client, channel, device, signalled, ongoing, resubmit, ring>>

\* The first half of zeCommandQueueExecuteCommandLists: the client asks where the
\* sources of the list are, and copies them there.  (The application closed the list
\* and reset its event.)
WriteRequiredMemory(l) ==
  /\ ChannelFree
  /\ phase[l] \in {"open", "closed"} /\ recorded[l] # <<>>
  /\ Idle(l) /\ Alone(l, Touched(recorded[l]))
  /\ block' = [b \in DOMAIN block |-> IF b \in Sources(recorded[l]) THEN mem[b] ELSE block[b]]
  /\ busy' = busy \cup {l} \X Touched(recorded[l])
  /\ phase' = [phase EXCEPT ![l] = "written"]
  /\ events' = events \ {l}
  /\ UNCHANGED <<mem, temp, host, channel, usm, recorded, gpu, service>>

\* The second half: the asynchronous call.
PostExecute(l) ==
  /\ serving.call # "synchronize"
  /\ phase[l] = "written"
  /\ phase' = [phase EXCEPT ![l] = "closed"]
  /\ posted' = Append(posted, [call |-> "execute", list |-> l])
  /\ UNCHANGED <<mem, busy, temp, host, serving, device, service>>

AreasInUse == UNION {{temp[l][p] : p \in DOMAIN temp[l]} : l \in Immediate}

\* zeCommandListAppendMemoryCopyImmediate, an asynchronous call.  A staging area that the
\* list still has for the pointer is used again as it is.
PostImmediate(l, kind, p, withEvent) ==
  LET fresh == p \notin DOMAIN temp[l]
      area == IF fresh THEN Min(Areas \ AreasInUse) ELSE temp[l][p]
  IN
  /\ serving.call # "synchronize"
  /\ Alone(l, {p})
  /\ Backlog < MaxCommands /\ (kind = "read" => MarkersLeft)
  /\ MayHaveEvent(l, gpu[l], kind, withEvent)
  /\ temp' = [temp EXCEPT ![l] = (p :> area) @@ @]
  /\ host' = IF fresh THEN (area :> p) @@ host ELSE host
  /\ block' = IF fresh /\ kind = "write" THEN [block EXCEPT ![area] = mem[p]] ELSE block
  /\ posted' = Append(posted, [call |-> "append", list |-> l, kind |-> kind, ptr |-> p,
                               loc |-> area, withEvent |-> withEvent])
  /\ busy' = busy \cup {<<l, p>>}
  /\ events' = IF withEvent THEN events \ {l} ELSE events
  /\ UNCHANGED <<mem, phase, serving, usm, recorded, gpu, service>>

-----------------------------------------------------------------------------
(* The service.                                                             *)

ServeAppend ==
  LET c == Head(posted) IN
  /\ serving = None /\ posted # <<>> /\ c.call = "append"
  /\ gpu' = [gpu EXCEPT ![c.list] = @ \o DriverCommands(c.list, c.kind, c.ptr, c.loc, c.withEvent)]
  /\ IF c.kind = "read"
     THEN Obtain /\ ongoing' = registerCopyOperation(c.list, c.loc)
     ELSE UNCHANGED <<markers, pools, ongoing>>
  /\ posted' = Tail(posted)
  /\ UNCHANGED <<client, serving, usm, block, recorded, events, signalled, resubmit, ring>>

\* Faulty: the copies of a list that is executed again are not tracked again.
ServeExecuteOnce ==
  LET l == Head(posted).list IN
  /\ serving = None /\ posted # <<>> /\ Head(posted).call = "execute"
  /\ gpu' = [gpu EXCEPT ![Queue] = @ \o recorded[l]]
  /\ posted' = Tail(posted)
  /\ serving' = [None EXCEPT !.call = "execute", !.cursor = 1]
  /\ UNCHANGED <<client, usm, block, recorded, events, markers, pools, signalled, ongoing, resubmit, ring>>

ServeExecute ==
  LET l == Head(posted).list IN
  /\ serving = None /\ posted # <<>> /\ Head(posted).call = "execute"
  /\ gpu' = [gpu EXCEPT ![Queue] = @ \o recorded[l]]
  /\ ongoing' = ongoing \o resubmit[l]
  /\ resubmit' = [resubmit EXCEPT ![l] = <<>>]
  /\ posted' = Tail(posted)
  /\ serving' = [None EXCEPT !.call = "execute", !.cursor = 1]
  /\ UNCHANGED <<client, usm, block, recorded, events, markers, pools, signalled, ring>>

\* The driver's part of a call that waits has succeeded.
Wait(known, cleans) ==
  /\ ChannelFree
  /\ serving' = [call |-> "synchronize", known |-> known, cleans |-> cleans, cursor |-> 1]
  /\ UNCHANGED <<client, posted, device, service>>

zeCommandQueueSynchronize ==
  /\ gpu[Queue] = <<>>
  /\ Wait({lp \in busy : lp[1] \in {l \in Regular : phase[l] = "closed"}}, {})

zeCommandListHostSynchronize(l) ==
  /\ gpu[l] = <<>>
  /\ Wait({lp \in busy : lp[1] = l}, {l})

\* The application knows of the copies before the one that signals the event.
zeEventHostSynchronize(l) ==
  LET pending == gpu[EngineOf(l)] IN
  /\ l \in events
  /\ Wait({lp \in busy : lp[1] = l /\ \A k \in DOMAIN pending : pending[k].ptr # lp[2]}, {})

\* acquireFinishedCopies asks for one event after the other while the GPU goes on.
AcquireFinishedCopy ==
  LET op == ongoing[serving.cursor] IN
  /\ serving.cursor \in DOMAIN ongoing
  /\ IF op.marker \in signalled
     THEN /\ signalled' = signalled \ {op.marker}
          /\ ongoing' = RemoveAt(ongoing, serving.cursor)
          /\ ring' = Append(ring, op.loc)
          /\ IF op.canBeResubmitted
             THEN resubmit' = [resubmit EXCEPT ![op.list] = Append(@, op)] /\ UNCHANGED markers
             ELSE markers' = Returned(markers, {op.marker}) /\ UNCHANGED resubmit
          /\ UNCHANGED serving
     ELSE /\ serving' = [serving EXCEPT !.cursor = @ + 1]
          /\ UNCHANGED <<markers, signalled, ongoing, resubmit, ring>>
  /\ UNCHANGED <<client, posted, device, pools>>

Updated == serving # None /\ serving.cursor > Len(ongoing)

\* An asynchronous execution does not look at the ring.
EndExecute ==
  /\ Updated /\ serving.call = "execute"
  /\ serving' = None
  /\ UNCHANGED <<client, posted, device, service>>

Destination(loc) == IF loc \in Pointers THEN loc ELSE host[loc]

\* readMemory: the client copies whatever has finished and ends its call.
EndSynchronize ==
  /\ Updated /\ serving.call = "synchronize"
  /\ mem' = FoldLeft(LAMBDA m, loc : [m EXCEPT ![Destination(loc)] = block[loc]], mem, ring)
  /\ ring' = <<>>
  /\ temp' = [l \in Immediate |-> IF l \in serving.cleans THEN [p \in {} |-> 0] ELSE temp[l]]
  /\ busy' = busy \ serving.known
  /\ serving' = None
  /\ UNCHANGED <<phase, host, posted, device, markers, pools, signalled, ongoing, resubmit>>

OfList(ops, l) == {ops[k].marker : k \in {j \in DOMAIN ops : ops[j].list = l}}

\* zeCommandListReset, and zeCommandListDestroy followed by the creation of a new list.
ResetList(l) ==
  LET freed == OfList(ongoing, l) \cup OfList(resubmit[l], l) IN
  /\ ChannelFree
  /\ phase[l] # "written" /\ recorded[l] # <<>> /\ Idle(l)
  /\ markers' = Returned(markers, freed)
  /\ signalled' = signalled \ freed
  /\ ongoing' = SelectSeq(ongoing, LAMBDA op : op.list # l)
  /\ resubmit' = [resubmit EXCEPT ![l] = <<>>]
  /\ recorded' = [recorded EXCEPT ![l] = <<>>]
  /\ phase' = [phase EXCEPT ![l] = "open"]
  /\ events' = events \ {l}
  /\ UNCHANGED <<mem, busy, temp, host, channel, usm, block, gpu, pools, ring>>

\* zeContextDestroy, when the lists of the context are gone, followed by a new context.
DestroyContext ==
  /\ ChannelFree
  /\ busy = {} /\ markers # <<>> /\ \A l \in Regular : recorded[l] = <<>>
  /\ \A e \in Engines : gpu[e] = <<>>
  /\ markers' = <<>> /\ pools' = [count |-> 0, used |-> 0] /\ signalled' = {}
  /\ temp' = [l \in Immediate |-> [p \in {} |-> 0]]
  /\ UNCHANGED <<mem, busy, phase, host, channel, device, ongoing, resubmit, ring>>

-----------------------------------------------------------------------------
(* The GPU.                                                                 *)

GpuStep(e) ==
  LET c == Head(gpu[e]) IN
  /\ gpu[e] # <<>>
  /\ CASE c.kind = "read" -> /\ block' = [block EXCEPT ![c.loc] = usm]
                             /\ signalled' = signalled \cup {c.marker}
                             /\ UNCHANGED <<usm, events>>
       [] c.kind = "write" -> /\ usm' = block[c.loc]
                              /\ UNCHANGED <<block, signalled, events>>
       [] c.kind = "relay" -> /\ c.marker \in signalled
                              /\ events' = events \cup {c.list}
                              /\ UNCHANGED <<usm, block, signalled>>
  /\ gpu' = [gpu EXCEPT ![e] = Tail(@)]
  /\ UNCHANGED <<client, channel, recorded, markers, pools, ongoing, resubmit, ring>>

Next ==
  \/ \E p \in Pointers, v \in Values : AppWrites(p, v)
  \/ \E l \in Regular, kind \in {"read", "write"}, p \in Pointers, withEvent \in BOOLEAN :
       AppendDeferred(l, kind, p, withEvent)
  \/ \E l \in Regular : AppendRefused(l)
  \/ \E l \in Regular : WriteRequiredMemory(l)
  \/ \E l \in Regular : PostExecute(l)
  \/ \E l \in Regular : ResetList(l)
  \/ \E l \in Immediate, kind \in {"read", "write"}, p \in Pointers, withEvent \in BOOLEAN :
       PostImmediate(l, kind, p, withEvent)
  \/ ServeAppend
  \/ ServeExecute
  \/ zeCommandQueueSynchronize
  \/ \E l \in Immediate : zeCommandListHostSynchronize(l)
  \/ \E l \in EventLists : zeEventHostSynchronize(l)
  \/ AcquireFinishedCopy
  \/ EndExecute
  \/ EndSynchronize
  \/ DestroyContext
  \/ \E e \in Engines : GpuStep(e)

Spec == Init /\ [][Next]_vars

-----------------------------------------------------------------------------
(* Properties.                                                              *)

\* A copy to private memory that the GPU has done, but that is not there yet.
OnItsWay(p) ==
  {loc \in Range(ring) \cup {ongoing[k].loc : k \in {j \in DOMAIN ongoing : ongoing[j].marker \in signalled}} :
     Destination(loc) = p}

Visible(cs) ==
  LET copies == SelectSeq(cs, LAMBDA c : c.kind # "relay") IN
  [k \in DOMAIN copies |-> [list |-> copies[k].list, kind |-> copies[k].kind, ptr |-> copies[k].ptr]]

PostedTo(e) ==
  FoldLeft(LAMBDA cs, c :
             IF e # EngineOf(c.list) THEN cs
             ELSE IF c.call = "execute" THEN cs \o recorded[c.list]
             ELSE Append(cs, [list |-> c.list, kind |-> c.kind, ptr |-> c.ptr]),
           <<>>, posted)

Native == INSTANCE NativeCopies WITH
  mem <- [p \in Pointers |-> IF OnItsWay(p) = {} THEN mem[p] ELSE block[CHOOSE b \in OnItsWay(p) : TRUE]],
  recorded <- [l \in Regular |-> Visible(recorded[l])],
  running <- [e \in Engines |-> Visible(gpu[e] \o PostedTo(e))],
  busy <- {lp \in busy : lp[1] \in Regular => phase[lp[1]] # "written"}

\* The application cannot tell the layer from the driver: every copy reads what the
\* application last wrote and every result is in the application's memory when a call
\* that waits for it returns, in spite of asynchronous calls, lists that are executed
\* again, recycled markers, staging areas that change hands, and results that are
\* delivered by a call that waits for something else (updateHostptrCopies, readMemory).
ImplementsNative == Native!Spec

\* Two operations never wait for the same marker, and a marker that is free is not
\* signalled, nor will any command signal it: a marker that is taken from the pool
\* tells about the new copy only (obtainEventReplacement, returnObtainedEvent).
MarkersAreOwned ==
  LET ops == ongoing \o FoldSet(LAMBDA l, s : s \o resubmit[l], <<>>, Regular)
      cs == FoldSet(LAMBDA e, s : s \o gpu[e], <<>>, Engines)
              \o FoldSet(LAMBDA l, s : s \o recorded[l], <<>>, Regular)
  IN
  /\ \A j, k \in DOMAIN ops : ops[j].marker = ops[k].marker => j = k
  /\ \A k \in FreeMarkers(markers) :
       /\ markers[k].handle \notin signalled \cup {ops[j].marker : j \in DOMAIN ops}
       /\ \A j \in DOMAIN cs : cs[j].kind = "read" => cs[j].marker # markers[k].handle
=============================================================================
