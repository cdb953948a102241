------------------------------ MODULE ApiTables ------------------------------
(***************************************************************************)
(* The vocabulary in which the generated code is described.  Every API      *)
(* function of OpenCL and Level Zero goes through three pieces of code that *)
(* generate.py writes from ocl.yml and level_zero.yml with the templates    *)
(* icd.cpp.mako, rpc_messages.h.mako and service.h.mako: a client stub, an  *)
(* RPC message and a service handler.  The modules Ocl... and Ze... hold    *)
(* one record per struct or function; module ApiCall executes them.         *)
(***************************************************************************)
EXTENDS Naturals, TLC

(* Roles of a parameter.  Pointers are to memory of the client process, except
   the operands of copies and fills (Source, Destination), which have a
   PointerType.  Modified is an event whose state the driver changes.  An
   Argument points to plain data or to a handle; the route says to which.    *)
Value == "value"
Handle == "handle"
Modified == "modified"
In == "in"
Argument == "argument"
Out == "out"
InOut == "inout"
InHandles == "inHandles"
OutHandles == "outHandles"
Created == "created"
Destroyed == "destroyed"
Info == "info"
Source == "source"
Destination == "destination"

Scalars == {Value, Handle, Modified, Destroyed}
Objects == {Handle, Modified, Destroyed, InHandles}
Inputs == {In, Argument, InOut, InHandles, Source}
Outputs == {Out, InOut, OutHandles, Created, Info, Destination}
Operands == {Source, Destination}

\* The pattern of a fill is an operand, but the driver reads it when the fill is recorded.
ReadAtOnce == {"pattern"}

PointerType == {"local", "usm", "shared"}
ListType == {"regular", "immediateSynchronous", "immediateAsynchronous"}
QueueMode == {"synchronousQueue", "asynchronousQueue"}
BlockingFlags == {"blocking_read", "blocking_write", "blocking_map", "blocking"}

\* Queries whose answer holds no handle.
PlainInfos == {"plain", "CL_PROGRAM_BINARIES", "CL_PROGRAM_BINARY_SIZES"}

(* A message: its subtype, the role of each argument, the arguments that
   copyFromCaller and copyToCaller copy, those they copy without a null check,
   the structures with a chain of extensions, and its return value.          *)
Message(subtype, args, copiedIn, copiedOut) ==
  [subtype |-> subtype, args |-> args, copiedIn |-> copiedIn, copiedOut |-> copiedOut,
   required |-> {}, nested |-> {}, ret |-> "error", returns |-> "success"]

(* A stub, in the order of the code: parameters whose absence makes it return
   at once; whether it may answer from client-side state; parameters it
   dereferences unchecked; what it does before the call; operands that get a
   staging area and those copied into it; arguments it computes; flags it sets;
   handles it translates (unchecked, checked, in arrays, in an Argument of one of
   these kinds); whether it may be
   asynchronous, unless one of these holds; what it does after an asynchronous
   call; operands copied back; results translated to client objects; what it
   does after a synchronous call, and only if that succeeded; whether it may give
   up before the call or after it succeeded, with what it then undoes and returns;
   and whether it hides the result of the call.
   An effect <<operation, p>> is a call made if p is not null.               *)
Stub(message) ==
  [message |-> message, early |-> {}, shortcut |-> FALSE, required |-> {}, before |-> {},
   staged |-> {}, stagedIn |-> {}, adjusted |-> {}, forced |-> {}, remote |-> {},
   remoteIfGiven |-> {}, remoteElements |-> {}, remoteKinds |-> {}, async |-> FALSE, unless |-> {},
   afterAsync |-> {}, copiedBack |-> {}, local |-> {}, localInfos |-> {},
   localRet |-> FALSE, after |-> {}, onSuccess |-> {}, mayRefuse |-> FALSE, fallible |-> FALSE,
   undone |-> {}, givenUp |-> "error", masked |-> FALSE]

StubOn(message, handles) == [Stub(message) EXCEPT !.remote = handles]

(* A handler: the arguments it passes as captures, and those even if null;
   operands it imports from the client's malloc heap or remaps; whether it
   replaces the signalled event by an internal one, and gives the channel up
   without one; parameters it replaces, with the parameter without which it
   does not; whether it links chains of extensions; parameters without which
   it gives the channel up or answers with an error, and those that may be out
   of its range; failures for which it gives the channel up; whether it ends
   with updateHostptrCopies; and what it does before the driver call, after a
   successful one, and at its end.                                           *)
Handler(captures) ==
  [captures |-> captures, always |-> {}, imported |-> {}, remapped |-> {}, marker |-> FALSE,
   needsMarker |-> TRUE, replaced |-> <<>>, reassembles |-> FALSE, refuses |-> {},
   rejects |-> {}, limited |-> {}, failsIfAsync |-> FALSE, failsOnError |-> FALSE,
   updatesCopies |-> FALSE, before |-> {}, after |-> {}, atEnd |-> {}]

Effects(operation, names) == {operation} \X names

Always(names) == [p \in names |-> "always"]

\* The implicit arguments with which the service tells where it placed shared USM.
Placement == {"shmem_resource", "offset_within_resource", "aligned_size"}

\* The client opens that memory after the call, or frees it.
OpenedByClient == Effects("openNewUsmHostOrSharedPointer", {"shmem_resource"})
FreedByClient == Effects("freeUsm", {"shmem_resource"})

-----------------------------------------------------------------------------
(* An entry point maps a route to a stub: the type of the command list or the
   mode of the queue it works on, and the kinds of its operands.             *)

NoKinds == [p \in {} |-> "usm"]

Plain(stub) == [list |-> "none", kind |-> NoKinds] :> stub

OnList(stub) == [r \in [list : ListType, kind : {NoKinds}] |-> stub]

OnQueue(stub) == [r \in [list : QueueMode, kind : {NoKinds}] |-> stub]

\* A query whose result may be a handle, for the param_names that give one.
Query(stub, infos) ==
  [r \in [list : {"none"}, kind : [{"param_value"} -> infos \cup {"plain"}]] |-> stub]

\* Stubs that take an operand of any of some kinds the same way.
OfKinds(stub, p, kinds) == [r \in [list : {"none"}, kind : [{p} -> kinds]] |-> stub]
=============================================================================
