----------------------------- MODULE ApiContract -----------------------------
(***************************************************************************)
(* When a stub, its message and its handler agree.  generate.py writes the  *)
(* three from one description of a function, but by separate templates and  *)
(* around pieces of manual code.  What follows is what each of them relies  *)
(* on in the others, parameter by parameter and without a word about which  *)
(* parameters a call leaves out, who waits, and what fails on the way.      *)
(*                                                                          *)
(* TLC evaluates EveryCallAgrees for all functions of both APIs; module     *)
(* ApiCallProofs shows that it makes every call correct.                    *)
(***************************************************************************)
EXTENDS ApiCall

\* The parameters that may be null in a call that leaves the stub.
Absent(s, r) == Optional(s, r) \ s.early

\* Those that may be null in the command.
SentNull(s, r) == Absent(s, r) \ s.forced

PassedAsIs(h, p) == p \notin h.captures \cup h.imported \cup h.remapped

\* The driver may use, or always uses, an operand after the handler has ended.
AlwaysDeferred(s, r, p) ==
  /\ s.message.args[p] \in Operands /\ p \notin ReadAtOnce
  /\ r.list \in {"regular", "immediateAsynchronous"}

MayBeDeferred(s, r, p) ==
  /\ s.message.args[p] \in Operands /\ p \notin ReadAtOnce
  /\ \/ r.list \in {"regular", "immediateAsynchronous"}
     \/ BlockingFlags \cap SentNull(s, r) # {}

WorksInPlace(s, h, r, p) ==
  /\ p \notin h.captures \cup h.remapped \cup s.staged
  /\ s.message.args[p] \in Operands
  /\ p \in h.imported \/ KindIn(r, p) = "usm"

\* What the handler does when the driver call succeeds.
HandlerEffects(h) == h.before \cup h.after \cup h.atEnd

-----------------------------------------------------------------------------
\* Every argument has one way to the driver and one way back.
OneWay(s, h) ==
  LET m == s.message IN
  /\ DOMAIN m.args # {}
  /\ h.captures \cap h.imported = {} /\ (h.captures \cup h.imported) \cap h.remapped = {}
  /\ s.staged \cap s.adjusted = {}
  /\ (s.staged \cup s.adjusted) \cap (s.remote \cup s.remoteIfGiven) = {}
  /\ m.copiedOut \cap s.copiedBack = {}
  /\ h.captures \cap DOMAIN m.args \subseteq m.copiedIn \cup m.copiedOut
  /\ h.always \subseteq h.captures
  /\ h.rejects \subseteq DOMAIN m.args
  /\ s.staged \cup h.imported \cup h.remapped \subseteq
        {p \in DOMAIN m.args : m.args[p] \in Operands}

ScalarsAgree(s, h) ==
  LET m == s.message IN
  \A p \in DOMAIN m.args : m.args[p] \in Scalars =>
    /\ PassedAsIs(h, p)
    /\ m.args[p] = Value => p \notin s.remote \cup s.remoteIfGiven
    /\ m.args[p] # Value =>
         /\ p \notin s.adjusted \cup DOMAIN h.replaced
         /\ \/ h.marker /\ m.args[p] = Modified
            \/ p \in s.remote \cup s.remoteIfGiven

InputsAgree(s, h, r) ==
  LET m == s.message IN
  \A p \in DOMAIN m.args : m.args[p] \in Inputs =>
    \/ p \in DOMAIN h.replaced /\ ~HoldsObject(m, r, p)
    \/ /\ p \notin DOMAIN h.replaced
       /\ \/ /\ p \in h.captures \cap m.copiedIn
             /\ ~MayBeDeferred(s, r, p)
             /\ Converts(s, r, p) <=> HoldsObject(m, r, p)
          \/ m.args[p] = Source /\ p \in h.imported
          \/ /\ m.args[p] = Source /\ p \in h.remapped
             /\ r.list = "regular" /\ <<"registerMemoryToWrite", p>> \in s.before
          \/ m.args[p] = Source /\ PassedAsIs(h, p) /\ (p \in s.staged => p \in s.stagedIn)

\* No pointer of the client is left for the driver.
PointersAgree(s, h, r) ==
  LET m == s.message IN
  \A p \in DOMAIN m.args \ DOMAIN h.replaced :
    /\ p \in h.captures => p \notin m.nested \/ h.reassembles
    /\ m.args[p] \notin Scalars /\ PassedAsIs(h, p) =>
         p \in s.staged \/ WorksInPlace(s, h, r, p)

NullsAgree(s, h, r) ==
  LET m == s.message IN
  /\ \A p \in SentNull(s, r) \ DOMAIN h.replaced :
       m.args[p] \notin {Out, Modified} => p \notin h.always
  /\ h.refuses \subseteq DOMAIN m.args \ SentNull(s, r)
  /\ \A p \in h.imported : KindIn(r, p) = "shared"

\* Where the driver leaves an operand that it writes.
Arrives(s, h, p) ==
  \/ p \in h.captures \cap s.message.copiedOut
  \/ p \in (s.staged \cap s.copiedBack) \ h.captures

OutputsAgree(s, h, r) ==
  LET m == s.message IN
  /\ m.ret = "error" /\ m.returns # "error" /\ ~s.masked
  /\ m.returns = "remote" => s.localRet
  /\ s.givenUp # "remote"
  /\ \A p \in DOMAIN m.args :
       /\ m.args[p] \in {Out, InOut, OutHandles, Created, Info} => p \in h.captures \cap m.copiedOut
       /\ m.args[p] \in {OutHandles, Created} => p \in s.local
       /\ m.args[p] = Info /\ KindIn(r, p) \notin PlainInfos =>
            p \in s.local \/ KindIn(r, p) \in s.localInfos
       /\ m.args[p] = Destination =>
            \/ WorksInPlace(s, h, r, p) /\ p \notin m.copiedOut \cup s.copiedBack
            \/ /\ Arrives(s, h, p) \/ AlwaysDeferred(s, r, p)
               /\ MayBeDeferred(s, r, p) =>
                    /\ <<"registerCopyOperation", p>> \in HandlerEffects(h)
                    /\ p \in h.remapped \/ <<"addToMap", p>> \in s.before

EffectsAgree(s, h, r) ==
  LET m == s.message IN
  /\ \A p \in DOMAIN m.args :
       /\ m.args[p] = Modified => {<<"stateUnknown", p>>, <<"clear", p>>} \cap s.before # {}
       /\ m.args[p] = Modified /\ h.marker => <<"addRelay", p>> \in HandlerEffects(h)
       /\ m.args[p] = Created => <<"trackAllocatedResource", p>> \in HandlerEffects(h)
       /\ m.args[p] = Destroyed => <<"removeResourceTracking", p>> \in HandlerEffects(h)
       /\ WorksInPlace(s, h, r, p) /\ KindIn(r, p) = "usm" => <<"moveAllocationToGpu", p>> \in s.before
  /\ Placement \subseteq DOMAIN m.args =>
       /\ "shmem_resource" \notin Absent(s, r)
       /\ OpenedByClient \subseteq s.after \cup s.onSuccess
       /\ s.fallible => FreedByClient \subseteq s.after \cup s.undone

\* The stub does not always wait.
MayPost(s, r) ==
  s.async /\ r.list \notin s.unless /\ s.unless \cap DOMAIN s.message.args \subseteq SentNull(s, r)

\* A stub that does not wait leaves nothing to come back for.
AsyncAgrees(s, h, r) ==
  LET m == s.message IN
  MayPost(s, r) =>
    /\ m.returns = "success"
    /\ h.failsIfAsync \/ h.failsOnError
    /\ h.rejects \cap SentNull(s, r) = {} /\ (h.marker => h.needsMarker)
    /\ \A p \in DOMAIN m.args \ s.unless :
         /\ m.args[p] \in Outputs =>
              m.args[p] = Destination /\ (KindIn(r, p) = "local" => <<"addToMap", p>> \in s.before)
         /\ m.args[p] \in Inputs \ Operands => p \in m.copiedIn

Agree(s, h, r) ==
  /\ OneWay(s, h) /\ ScalarsAgree(s, h) /\ InputsAgree(s, h, r) /\ PointersAgree(s, h, r)
  /\ NullsAgree(s, h, r) /\ OutputsAgree(s, h, r) /\ EffectsAgree(s, h, r)
  /\ AsyncAgrees(s, h, r)

\* All functions of the service's clients, but for those that are never sent.
ASSUME EveryCallAgrees ==
  \A a \in DOMAIN Entries : \A e \in DOMAIN Entries[a] : \A r \in DOMAIN Entries[a][e] :
    LET s == Entries[a][e][r] IN
    "always" \in s.early \/ Agree(s, rpcHandlers[a][s.message.subtype], r)
=============================================================================
