------------------------------- MODULE ApiCall -------------------------------
(***************************************************************************)
(* One API call on its way from the application through the generated ICD   *)
(* stub, the RPC message and the service handler to the driver, and back.   *)
(* What every stub, message and handler does with its parameters is in the  *)
(* tables (module ApiTables and those that extend it); this module is the   *)
(* control flow that the templates give all of them.                        *)
(*                                                                          *)
(* Data is abstracted to where it comes from: "given" is what the           *)
(* application passed, "stale" whatever a fresh command or staging area     *)
(* happens to hold, "result" what the driver wrote, "wild" an address that  *)
(* means nothing in the service process.  A handle is "local" (a client     *)
(* wrapper object) or "remote" (the driver's object).                       *)
(***************************************************************************)
EXTENDS ApiTables, FiniteSetsExt, SequencesExt

CONSTANTS Entries,        \* entry points of each API: name |-> (route |-> stub)
          Registrations,  \* <<message, handler>> pairs of each API in registration order
          MaxNulls,       \* bound on the null or zero parameters of a call
          Faults          \* what may go wrong besides driver errors, see FaultKinds

\* "interrupt": a signal ends the wait before the call was served; "lateInterrupt": after it;
\* "ringFull": the ring of finished host pointer copies is full; "open": the client cannot
\* open the shared memory of an allocation, transfer a file descriptor, or initialise a kernel.
FaultKinds == {"interrupt", "lateInterrupt", "ringFull", "open"}

ASSUME ApiCallAssumption == MaxNulls \in Nat /\ Faults \subseteq FaultKinds

VARIABLES pc,       \* where the call is
          call,     \* what the application asked for
          memory,   \* client memory behind each pointer, as the application sees it
          command,  \* the command in the channel's command heap
          staging,  \* staging areas of the operands that have one
          seen,     \* what the driver was called with
          outcome,  \* how the handler ended
          done,     \* bookkeeping done so far, <<operation, parameter>>
          ret       \* what the application got back

vars == <<pc, call, memory, command, staging, seen, outcome, done, ret>>

NoCall == [api |-> "none", entry |-> "none", route |-> [list |-> "none", kind |-> NoKinds],
           nulls |-> {}, async |-> FALSE]
Nothing == [p \in {} |-> "stale"]
NoCommand == [args |-> Nothing, captures |-> Nothing, ret |-> "error"]

TheStub == call.stub
TheMessage == TheStub.message
Args == DOMAIN TheMessage.args
Role(p) == TheMessage.args[p]
Given(p) == p \notin call.nulls

KindIn(route, p) == IF p \in DOMAIN route.kind THEN route.kind[p] ELSE "usm"
Kind(p) == KindIn(call.route, p)

\* A parameter is a handle, or leads to one: arrays of handles, and an Argument of a kernel
\* or an image that is an object.
HoldsObject(m, route, p) ==
  m.args[p] \in Objects \/ (m.args[p] = Argument /\ KindIn(route, p) # "plain")
IsObject(p) == HoldsObject(TheMessage, call.route, p)

\* Handlers by type (one per API) and subtype of the message.  A later registration of a
\* message replaces an earlier one.
Registered(handlers) ==
  [s \in {handlers[i][1].subtype : i \in DOMAIN handlers} |->
     handlers[Max({i \in DOMAIN handlers : handlers[i][1].subtype = s})][2]]

rpcHandlers == [api \in DOMAIN Registrations |-> Registered(Registrations[api])]

TheHandler == call.handler

\* Parameters the application may leave out.  getPointerType calls a null
\* operand shared, and unguarded dereferences make a parameter mandatory.
Optional(stub, route) ==
  {p \in DOMAIN stub.message.args :
     /\ stub.message.args[p] = Value =>
          p \in stub.unless \cup BlockingFlags \cup {"pfn_notify", "user_data"}
     /\ stub.message.args[p] \in Operands => KindIn(route, p) = "shared" \/ p \in stub.early}
    \ ((stub.remote \cup stub.required \cup stub.message.required) \ stub.early)

NullChoices(optional) == UNION {kSubset(k, optional) : k \in 0..MaxNulls}

\* The calls of an entry point on a route, with the stub and the handler that they meet.
Requests(a, e, r, stub) ==
  {[api |-> a, entry |-> e, route |-> r, nulls |-> nulls, async |-> async,
    stub |-> stub, handler |-> rpcHandlers[a][stub.message.subtype]] :
     nulls \in NullChoices(Optional(stub, r)), async \in BOOLEAN}

Touching(effects, nulls) == {e \in effects : e[2] \notin nulls}

Init ==
  /\ pc = "idle" /\ call = NoCall /\ outcome = "none" /\ ret = "none"
  /\ memory = Nothing /\ staging = Nothing /\ seen = Nothing
  /\ command = NoCommand /\ done = {}

-----------------------------------------------------------------------------
(* The stub: everything up to callSynchronous or callAsynchronous.          *)

\* Early returns: null checks, unsupported calls.
RefusedByStub(stub, nulls) == stub.early \cap (nulls \cup {"always"}) # {}

\* A stub may also answer from what the client knows, or fail to prepare the call.
ReturnEarly(asked, refused) ==
  LET stub == asked.stub IN
  /\ pc = "idle" /\ ~asked.async
  /\ IF refused THEN RefusedByStub(stub, asked.nulls) \/ (stub.mayRefuse /\ "open" \in Faults)
     ELSE stub.shortcut /\ ~RefusedByStub(stub, asked.nulls)
  /\ call' = asked
  /\ ret' = IF refused THEN "error" ELSE "success"
  /\ pc' = "early"
  /\ UNCHANGED <<memory, command, staging, seen, outcome, done>>

\* Faulty: the stub passes the blocking flag of the application on.
CommandArgAsAsked(stub, nulls, p) ==
  IF p \in nulls THEN "null"
  ELSE CASE p \in stub.staged -> "staging"
         [] p \in stub.adjusted -> "adjusted"
         [] p \in stub.remote \cup stub.remoteIfGiven -> "remote"
         [] OTHER -> IF stub.message.args[p] \in Objects \ {InHandles} THEN "local" ELSE "given"

CommandArg(stub, nulls, p) ==
  IF p \in nulls \ stub.forced THEN "null"
  ELSE CASE p \in stub.staged -> "staging"
         [] p \in stub.adjusted -> "adjusted"
         [] p \in stub.remote \cup stub.remoteIfGiven -> "remote"
         [] OTHER -> IF stub.message.args[p] \in Objects \ {InHandles} THEN "local" ELSE "given"

\* The handles behind a pointer are translated: in arrays, and where a kernel argument is
\* a buffer (convertClMemArgIfNeeded).
Converts(stub, route, p) ==
  \/ p \in stub.remoteElements
  \/ stub.message.args[p] = Argument /\ KindIn(route, p) \in stub.remoteKinds

\* Faulty: the handles in kernel arguments stay those of the application.
CommandCaptureUnconverted(stub, route, nulls, p) ==
  IF p \in nulls \/ p \notin stub.message.copiedIn THEN "stale"
  ELSE IF p \in stub.remoteElements THEN "remote"
  ELSE IF HoldsObject(stub.message, route, p) THEN "local" ELSE "given"

\* copyFromCaller, followed by the translation of handles in place.
CommandCapture(stub, route, nulls, p) ==
  IF p \in nulls \/ p \notin stub.message.copiedIn THEN "stale"
  ELSE IF Converts(stub, route, p) THEN "remote"
  ELSE IF HoldsObject(stub.message, route, p) THEN "local" ELSE "given"

\* Faulty: an event or a blocking flag does not make the call wait.
MayBeAsyncAlways(stub, r, nulls) ==
  /\ stub.async
  /\ r.list \notin stub.unless

\* isCallAsyncEnabled is left to the environment (CAL_ASYNC_CALLS).
MayBeAsync(stub, r, nulls) ==
  /\ stub.async
  /\ stub.unless \cap DOMAIN stub.message.args \subseteq nulls \ stub.forced
  /\ r.list \notin stub.unless

\* Faulty: only a call that does not wait is prepared.
PreparedIfAsync(stub, async) == IF async THEN stub.before \cup stub.afterAsync ELSE {}

\* Faulty: the client goes on answering for the events of the call.
PreparedButEvents(stub, async) ==
  {e \in stub.before : e[1] # "stateUnknown"} \cup (IF async THEN stub.afterAsync ELSE {})

\* Bookkeeping of the stub until the command is in the ring, or right after that.
Prepared(stub, async) == stub.before \cup (IF async THEN stub.afterAsync ELSE {})

Call(asked) ==
  LET stub == asked.stub
      nulls == asked.nulls
      m == stub.message
  IN
  /\ pc = "idle"
  /\ ~RefusedByStub(stub, nulls)
  /\ asked.async => MayBeAsync(stub, asked.route, nulls)
  /\ call' = asked
  /\ memory' = [p \in {q \in DOMAIN m.args : m.args[q] \notin Scalars} |->
                  IF m.args[p] \in Inputs THEN "given" ELSE "unset"]
  /\ command' = [args |-> [p \in DOMAIN m.args |-> CommandArg(stub, nulls, p)],
                 captures |-> [p \in m.copiedIn \cup m.copiedOut |->
                              CommandCapture(stub, asked.route, nulls, p)],
                 ret |-> m.ret]
  /\ staging' = [p \in stub.staged |-> IF p \in stub.stagedIn THEN "given" ELSE "stale"]
  /\ done' = Touching(Prepared(stub, asked.async), nulls \ stub.forced)
  /\ pc' = IF asked.async THEN "posted" ELSE "waiting"
  /\ UNCHANGED <<seen, outcome, ret>>

-----------------------------------------------------------------------------
(* The handler.                                                             *)

\* importClientMallocPtr only knows the client's shared malloc heap.
Refused ==
  \/ \E p \in TheHandler.imported : command.args[p] # "null" /\ Kind(p) # "shared"
  \/ \E p \in TheHandler.refuses : command.args[p] = "null"

\* A handler that returns false takes the channel down: the service completes the
\* command and all later ones with the return value they came with.
HandlerRefuses ==
  /\ pc \in {"waiting", "posted"}
  /\ Refused \/ TheHandler.limited # {} \/ (TheHandler.marker /\ TheHandler.needsMarker)
  /\ outcome' = "broken"
  /\ pc' = "handled"
  /\ UNCHANGED <<call, memory, command, staging, seen, done, ret>>

\* One that finds a parameter missing, or no free internal event, answers with an error.
HandlerRejects ==
  /\ pc \in {"waiting", "posted"}
  /\ ~Refused
  /\ \/ \E p \in TheHandler.rejects : command.args[p] = "null"
     \/ TheHandler.marker /\ ~TheHandler.needsMarker
  /\ outcome' = "unserved"
  /\ pc' = "handled"
  /\ UNCHANGED <<call, memory, command, staging, seen, done, ret>>

\* remapPointer gives memory of the service that the client fills from its list
\* of memory to write when it executes a regular command list.
Remapped(p) ==
  IF call.route.list = "regular" /\ <<"registerMemoryToWrite", p>> \in done
  THEN "given" ELSE "stale"

\* The driver uses the operands of a command when it executes the command.  On these lists,
\* and for commands that do not block, that is after the handler: the command heap is used
\* for other calls by then, and a result is not there yet.
Deferred(p) ==
  /\ Role(p) \in Operands /\ p \notin ReadAtOnce
  /\ \/ call.route.list \in {"regular", "immediateAsynchronous"}
     \/ \E b \in BlockingFlags \cap Args : command.args[b] = "null"

\* The driver works in the memory of the application itself.
InPlace(p) ==
  /\ p \notin TheHandler.captures \cup TheHandler.remapped \cup DOMAIN staging
  /\ Role(p) \in Operands
  /\ p \in TheHandler.imported \/ Kind(p) = "usm"

\* What the driver finds behind an address of the client's that is passed as is.
Raw(p) ==
  IF command.args[p] = "staging" THEN staging[p]
  ELSE IF InPlace(p) THEN memory[p] ELSE "wild"

Captured(p) ==
  IF p \in TheMessage.nested /\ ~TheHandler.reassembles THEN "wild"
  ELSE IF Deferred(p) THEN "stale" ELSE command.captures[p]

\* Faulty: pointers to captures are not substituted for those of the client.
DriverArgRaw(p) ==
  IF p \in DOMAIN TheHandler.replaced
  THEN IF TheHandler.replaced[p] \in call.nulls THEN "null" ELSE "replaced"
  ELSE IF TheHandler.marker /\ Role(p) = Modified THEN "marker"
  ELSE IF command.args[p] = "null" THEN "null"
  ELSE IF Role(p) \in Scalars THEN command.args[p] ELSE Raw(p)

\* Faulty: the capture is passed where the client passed null.
DriverArgUnchecked(p) ==
  IF p \in DOMAIN TheHandler.replaced
  THEN IF TheHandler.replaced[p] \in call.nulls THEN "null" ELSE "replaced"
  ELSE IF TheHandler.marker /\ Role(p) = Modified THEN "marker"
  ELSE IF p \in TheHandler.captures THEN Captured(p)
  ELSE IF command.args[p] = "null" THEN "null"
  ELSE CASE p \in TheHandler.imported -> memory[p]
         [] p \in TheHandler.remapped -> Remapped(p)
         [] OTHER -> IF Role(p) \in Scalars THEN command.args[p] ELSE Raw(p)

DriverArg(p) ==
  IF p \in DOMAIN TheHandler.replaced
  THEN IF TheHandler.replaced[p] \in call.nulls THEN "null" ELSE "replaced"
  ELSE IF TheHandler.marker /\ Role(p) = Modified THEN "marker"
  ELSE IF command.args[p] = "null" /\ p \notin TheHandler.always THEN "null"
  ELSE CASE p \in TheHandler.captures -> Captured(p)
         [] p \in TheHandler.imported -> memory[p]
         [] p \in TheHandler.remapped -> Remapped(p)
         [] OTHER -> IF Role(p) \in Scalars THEN command.args[p] ELSE Raw(p)

Written(p) ==
  IF Role(p) \in {OutHandles, Created} \/ (Role(p) = Info /\ Kind(p) \notin PlainInfos)
  THEN "remote" ELSE "result"

\* Faulty: nothing is done about what the driver created or destroyed.
HandlerDoneBefore(h, success) == h.before

\* Bookkeeping of the handler.
HandlerDone(h, success) == h.before \cup h.atEnd \cup (IF success THEN h.after ELSE {})

\* Faulty: the error of a call that nobody waits for is ignored.
GivesUpIfFull(h, success, full) == full \/ (~success /\ h.failsOnError)

\* The handler returns false after the driver call.
GivesUp(h, success, full) ==
  full \/ (~success /\ ((call.async /\ h.failsIfAsync) \/ h.failsOnError))

Serve(success, full) ==
  LET h == TheHandler
      now == {p \in Args : /\ success /\ Role(p) \in Outputs
                           /\ command.args[p] # "null" /\ ~Deferred(p)}
  IN
  /\ pc \in {"waiting", "posted"}
  /\ ~Refused
  /\ \A p \in h.rejects : command.args[p] # "null"
  /\ full => success /\ h.updatesCopies /\ "ringFull" \in Faults
  /\ seen' = [p \in Args |-> DriverArg(p)]
  /\ command' = [command EXCEPT
       !.captures = [p \in DOMAIN @ |-> IF p \in now \cap h.captures THEN Written(p) ELSE @[p]],
       !.ret = IF success THEN TheMessage.returns ELSE "error"]
  /\ staging' = [p \in DOMAIN staging |-> IF p \in now THEN "result" ELSE staging[p]]
  /\ memory' = [p \in DOMAIN memory |-> IF p \in now /\ InPlace(p) THEN Written(p) ELSE memory[p]]
  /\ done' = done \cup Touching(HandlerDone(h, success), call.nulls)
  /\ outcome' = IF GivesUp(h, success, full) THEN "broken" ELSE "served"
  /\ pc' = "handled"
  /\ UNCHANGED <<call, ret>>

-----------------------------------------------------------------------------
(* Back in the stub.                                                        *)

\* Faulty: handles are returned as the driver knows them.
TranslatedNot(stub, p, token) == token

Translated(stub, p, token) ==
  IF token = "remote" /\ (p \in stub.local \/ Kind(p) \in stub.localInfos)
  THEN "local" ELSE token

\* Faulty: a call that is given up is not undone.
StubDoneNotUndone(stub, succeeded, kept) ==
  stub.after \cup (IF succeeded /\ kept THEN stub.onSuccess ELSE {})

\* Bookkeeping of the stub after the call.  One that fails after the driver succeeded
\* ("kept" is FALSE) undoes what it can.
StubDone(stub, succeeded, kept) ==
  stub.after \cup (IF ~succeeded THEN {} ELSE IF kept THEN stub.onSuccess ELSE stub.undone)

Return(kept) ==
  LET stub == TheStub
      succeeded == command.ret # "error"
  IN
  /\ pc = "handled" /\ ~call.async
  /\ ~kept => stub.fallible /\ succeeded /\ "open" \in Faults
  /\ memory' = [p \in DOMAIN memory |->
       CASE p \in TheMessage.copiedOut /\ Given(p) -> Translated(stub, p, command.captures[p])
         [] p \in stub.copiedBack /\ Given(p) -> staging[p]
         [] OTHER -> memory[p]]
  /\ ret' = IF ~kept THEN stub.givenUp
            ELSE IF stub.masked THEN "success"
            ELSE IF command.ret = "remote" /\ stub.localRet THEN "local" ELSE command.ret
  /\ done' = done \cup Touching(StubDone(stub, succeeded, kept), call.nulls)
  /\ pc' = "returned"
  /\ UNCHANGED <<call, command, staging, seen, outcome>>

\* Faulty: a stub whose wait was interrupted reports success.
InterruptedQuietly ==
  /\ ~call.async
  /\ \/ pc = "waiting" /\ "interrupt" \in Faults
     \/ pc = "handled" /\ "lateInterrupt" \in Faults
  /\ ret' = TheMessage.returns
  /\ pc' = "interrupted"
  /\ UNCHANGED <<call, memory, command, staging, seen, outcome, done>>

\* callSynchronous returns false: the stub returns the command's return value.
Interrupted ==
  /\ ~call.async
  /\ \/ pc = "waiting" /\ "interrupt" \in Faults
     \/ pc = "handled" /\ "lateInterrupt" \in Faults
  /\ ret' = IF TheStub.masked THEN "success" ELSE command.ret
  /\ pc' = "interrupted"
  /\ UNCHANGED <<call, memory, command, staging, seen, outcome, done>>

\* The next call is considered on its own.
Finish ==
  /\ \/ pc \in {"early", "returned", "interrupted"}
     \/ call.async /\ pc = "handled"
  /\ pc' = "idle" /\ call' = NoCall /\ outcome' = "none" /\ ret' = "none"
  /\ memory' = Nothing /\ staging' = Nothing /\ seen' = Nothing
  /\ command' = NoCommand /\ done' = {}

Start ==
  \E a \in DOMAIN Entries : \E e \in DOMAIN Entries[a] : \E r \in DOMAIN Entries[a][e] :
    \E asked \in Requests(a, e, r, Entries[a][e][r]) :
      \/ \E refused \in BOOLEAN : ReturnEarly(asked, refused)
      \/ Call(asked)

Next ==
  \/ Start
  \/ HandlerRefuses
  \/ HandlerRejects
  \/ \E success \in BOOLEAN, full \in BOOLEAN : Serve(success, full)
  \/ \E kept \in BOOLEAN : Return(kept)
  \/ Interrupted
  \/ Finish

Spec == Init /\ [][Next]_vars

-----------------------------------------------------------------------------
(* Properties.                                                              *)

Served == pc = "handled" /\ seen # Nothing
Ended == pc \in {"returned", "interrupted"}

\* The driver is called with what the application passed: every value and every
\* input buffer through the command, a staging area or memory both processes see
\* (copyFromCaller, the handler's arguments), and null exactly where the
\* application passed null.  Blocking flags may only be strengthened, and an
\* output nobody asked for may be written to the command.
DriverGetsTheCall ==
  Served =>
    \A p \in Args \ DOMAIN TheHandler.replaced :
      /\ Given(p) => seen[p] # "null"
      /\ Given(p) /\ Role(p) = Value => seen[p] \in {"given", "adjusted"}
      /\ Given(p) /\ Role(p) \in Inputs /\ ~IsObject(p) => seen[p] = "given"
      /\ ~Given(p) /\ Role(p) \notin {Out, Modified} => seen[p] = "null" \/ p \in TheStub.forced

\* No client-side wrapper object ever reaches the driver: every handle, every
\* element of an array of handles, and every object that a kernel argument or an
\* image description points to is translated to the driver's own
\* (asRemoteObject, convertClMemArgIfNeeded), or replaced by an internal event
\* from which the application's is signalled (addRelay).
HandlesAreTranslated ==
  Served =>
    \A p \in Args : Given(p) /\ IsObject(p) =>
      \/ seen[p] = "remote"
      \/ seen[p] = "marker" /\ (command.ret # "error" => <<"addRelay", p>> \in done)

\* Every pointer the driver gets leads to memory of the service process: a
\* capture, a staging area, an imported or remapped block or USM.
DriverReachesItsMemory ==
  Served => \A p \in Args : seen[p] # "wild"

\* When a synchronous call succeeds, every output the application asked for is
\* in its memory when the stub returns, handles as client-side objects; what a
\* command writes later goes to the application's memory directly or is owed
\* through a registered copy operation whose target the client knows.
ResultsReachTheCaller ==
  Ended /\ ret # "error" =>
    /\ ret # "remote"
    /\ \A p \in Args : Given(p) =>
         /\ Role(p) \in {OutHandles, Created} => memory[p] = "local"
         /\ Role(p) = Info => memory[p] \in {"result", "local"}
         /\ Role(p) \in {Out, InOut} => memory[p] = "result"
         /\ Role(p) = Destination =>
              \/ memory[p] = "result"
              \/ /\ Deferred(p)
                 /\ \/ InPlace(p)
                    \/ /\ <<"registerCopyOperation", p>> \in done
                       /\ p \in TheHandler.remapped \/ <<"addToMap", p>> \in done

\* An asynchronous call returns to the application before the driver is called,
\* so it is only used where nothing is owed: no output was asked for, no handle
\* is returned, the inputs are in the command, and an operand in private memory
\* has a staging area that the reader of host pointer copies knows.
AsyncCallsOweNothing ==
  pc = "posted" =>
    /\ TheMessage.returns = "success"
    /\ \A p \in Args : Given(p) =>
         /\ Role(p) \in Outputs =>
              Role(p) = Destination /\ (Kind(p) = "local" => <<"addToMap", p>> \in done)
         /\ Role(p) \in Inputs \ Operands => p \in TheMessage.copiedIn

\* The service gives up on a channel only for a failed asynchronous call, a
\* missing internal event, a driver error or a value out of range: never because
\* a stub sent a pointer or a flag its handler does not accept.
HandlersAcceptTheirCalls ==
  pc \in {"waiting", "posted"} => ~Refused

\* A call that the driver did not get, or that the driver refused, reports an
\* error: its wait was interrupted, the handler gave up, or the channel broke.
UnservedCallsFail ==
  Ended /\ (seen = Nothing \/ command.ret = "error") => ret = "error"

\* A failed asynchronous call does not go unnoticed: its handler stops the
\* channel, so that the application's later calls fail ("Asynchronous call ...
\* has failed! Please rerun workload with CAL_ASYNC_CALLS=0").
AsyncFailuresAreNoticed ==
  pc = "handled" /\ call.async /\ command.ret = "error" => outcome = "broken"

\* Shared USM that a command works on is handed to the GPU before the command
\* leaves the client (PageFaultManager::moveAllocationToGpu).
SharedMemoryMoved ==
  pc \in {"waiting", "posted"} =>
    \A p \in Args : Given(p) /\ InPlace(p) /\ Kind(p) = "usm" => <<"moveAllocationToGpu", p>> \in done

\* The client forgets what it knows of an event (setAllowIcdState), or records its
\* new state, before a command that changes the event can be executed.
EventsForgotten ==
  pc \in {"waiting", "posted"} =>
    \A p \in Args : Given(p) /\ Role(p) = Modified =>
      {<<"stateUnknown", p>>, <<"clear", p>>} \cap done # {}

\* Every Level Zero object the driver created for a client is tracked by the
\* service until it is destroyed, so that it can be released with the client
\* (trackAllocatedResource, removeResourceTracking).
ObjectsTracked ==
  Served /\ command.ret # "error" =>
    \A p \in Args : Given(p) =>
      /\ Role(p) = Created => <<"trackAllocatedResource", p>> \in done
      /\ Role(p) = Destroyed => <<"removeResourceTracking", p>> \in done

\* USM that the driver allocated and the client could not map is given back to
\* the driver (openNewUsmHostOrSharedPointer).
UnmappedMemoryIsFreed ==
  pc = "returned" /\ Placement \subseteq Args /\ command.ret # "error" =>
    \/ <<"openNewUsmHostOrSharedPointer", "shmem_resource">> \in done
    \/ <<"freeUsm", "shmem_resource">> \in done

=============================================================================
