---------------------------- MODULE ApiCallProofs ----------------------------
(***************************************************************************)
(* Stubs, messages and handlers that agree (module ApiContract) make every  *)
(* call correct: with any parameters left out, with any driver error, and   *)
(* with anything going wrong that Faults allows.                            *)
(*                                                                          *)
(* The invariant follows the call.  CallInv is what the stub lets through,  *)
(* KeptInv what stays from then on, FreshInv the state the handler finds,   *)
(* ServedInv and ReadyInv the one the stub finds when it wakes up.  What    *)
(* the driver was called with (SeenInv), and what the stub returns, is then *)
(* a matter of the one step that decides it.                                *)
(***************************************************************************)
EXTENDS ApiContract, TLAPS

-----------------------------------------------------------------------------
(* The inductive invariant.                                                *)

Sent == pc \in {"waiting", "posted"}
Answered == pc \in {"handled", "returned", "interrupted"}
Left == Sent \/ Answered

CallInv ==
  Left =>
    /\ Agree(TheStub, TheHandler, call.route)
    /\ call.nulls \subseteq Absent(TheStub, call.route)
    /\ call.async \in BOOLEAN
    /\ call.async => MayBeAsync(TheStub, call.route, call.nulls)
    /\ pc \in {"waiting", "returned", "interrupted"} => ~call.async
    /\ pc = "posted" => call.async

KeptInv ==
  Left =>
    /\ DOMAIN command = {"args", "captures", "ret"}
    /\ command.args = [p \in Args |-> CommandArg(TheStub, call.nulls, p)]
    /\ DOMAIN command.captures = TheMessage.copiedIn \cup TheMessage.copiedOut
    /\ DOMAIN staging = TheStub.staged
    /\ DOMAIN memory = {p \in Args : Role(p) \notin Scalars}
    /\ Touching(TheStub.before, call.nulls) \subseteq done

FreshInv ==
  Sent =>
    /\ memory = [p \in {q \in Args : Role(q) \notin Scalars} |->
                   IF Role(p) \in Inputs THEN "given" ELSE "unset"]
    /\ command.captures = [p \in TheMessage.copiedIn \cup TheMessage.copiedOut |->
                             CommandCapture(TheStub, call.route, call.nulls, p)]
    /\ staging = [p \in TheStub.staged |-> IF p \in TheStub.stagedIn THEN "given" ELSE "stale"]
    /\ command.ret = "error"
    /\ seen = Nothing

ServedInv ==
  Answered =>
    /\ command.ret \in {TheMessage.returns, "error"}
    /\ command.ret # "error" =>
         /\ seen # Nothing
         /\ Touching(HandlerEffects(TheHandler), call.nulls) \subseteq done

\* The driver has written what the application asked for, and will write the rest.
ReadyInv ==
  pc = "handled" /\ command.ret # "error" =>
    \A p \in Args : Given(p) /\ Role(p) \in Outputs /\ ~Deferred(p) =>
      /\ p \in TheHandler.captures \cap TheMessage.copiedOut => command.captures[p] = Written(p)
      /\ p \in TheStub.staged => staging[p] = "result"
      /\ InPlace(p) => memory[p] = Written(p)

IdleInv == pc = "idle" => seen = Nothing

IInv == IdleInv /\ CallInv /\ KeptInv /\ FreshInv /\ ServedInv /\ ReadyInv

-----------------------------------------------------------------------------
(* What is in the command.                                                 *)

USE DEF TheStub, TheMessage, TheHandler, Args, Role, Given, Kind

LEMMA CommandArgs ==
  ASSUME CallInv, KeptInv, Left, NEW p \in Args
  PROVE  /\ command.args[p] = "null" <=> p \in call.nulls \ TheStub.forced
         /\ command.args[p] = "staging" <=> p \in TheStub.staged /\ p \notin call.nulls \ TheStub.forced
         /\ p \notin call.nulls \ TheStub.forced /\ p \in TheStub.adjusted => command.args[p] = "adjusted"
         /\ p \notin call.nulls \ TheStub.forced /\ p \in TheStub.remote \cup TheStub.remoteIfGiven =>
              command.args[p] = "remote"
         /\ Role(p) = Value /\ p \notin TheStub.staged \cup TheStub.remote \cup TheStub.remoteIfGiven
              /\ p \notin call.nulls \ TheStub.forced => command.args[p] \in {"given", "adjusted"}
<1>1. command.args[p] = CommandArg(TheStub, call.nulls, p)
  BY Zenon DEF KeptInv
<1>2. /\ TheStub.staged \cap TheStub.adjusted = {}
      /\ (TheStub.staged \cup TheStub.adjusted) \cap (TheStub.remote \cup TheStub.remoteIfGiven) = {}
  BY Zenon DEF CallInv, Agree, OneWay
<1>3. CASE p \in call.nulls \ TheStub.forced
  BY <1>1, <1>3, Zenon DEF CommandArg
<1>4. CASE p \notin call.nulls \ TheStub.forced
  <2>1. CASE p \in TheStub.staged
    BY <1>1, <1>2, <1>4, <2>1, Zenon DEF CommandArg
  <2>2. CASE p \in TheStub.adjusted
    BY <1>1, <1>2, <1>4, <2>2, Zenon DEF CommandArg
  <2>3. CASE p \in TheStub.remote \cup TheStub.remoteIfGiven
    BY <1>1, <1>2, <1>4, <2>3, Zenon DEF CommandArg
  <2>4. CASE p \notin TheStub.staged \cup TheStub.adjusted \cup TheStub.remote \cup TheStub.remoteIfGiven
    BY <1>1, <1>2, <1>4, <2>4, Zenon DEF CommandArg, Objects, Value, Handle, Modified, Destroyed, InHandles
  <2>5. QED
    BY <2>1, <2>2, <2>3, <2>4, Zenon
<1>5. QED
  BY <1>3, <1>4, Zenon

-----------------------------------------------------------------------------
(* What the driver gets.                                                   *)

LEMMA DriverArgs ==
  ASSUME CallInv, Left, NEW p \in Args
  PROVE  LET h == TheHandler
             substituted == p \in DOMAIN h.replaced \/ (h.marker /\ Role(p) = Modified)
             passed == ~substituted /\ command.args[p] # "null"
         IN  /\ p \in DOMAIN h.replaced => DriverArg(p) \in {"null", "replaced"}
             /\ p \notin DOMAIN h.replaced /\ substituted => DriverArg(p) = "marker"
             /\ ~substituted /\ ~passed /\ p \notin h.always => DriverArg(p) = "null"
             /\ ~substituted /\ ~passed /\ p \in h.always => DriverArg(p) = Captured(p)
             /\ passed /\ p \in h.captures => DriverArg(p) = Captured(p)
             /\ passed /\ p \in h.imported => DriverArg(p) = memory[p]
             /\ passed /\ p \in h.remapped => DriverArg(p) = Remapped(p)
             /\ passed /\ PassedAsIs(h, p) /\ Role(p) \in Scalars => DriverArg(p) = command.args[p]
             /\ passed /\ PassedAsIs(h, p) /\ Role(p) \notin Scalars => DriverArg(p) = Raw(p)
<1> DEFINE h == TheHandler
<1>1. /\ h.captures \cap h.imported = {} /\ (h.captures \cup h.imported) \cap h.remapped = {}
      /\ h.always \subseteq h.captures
  BY Zenon DEF CallInv, Agree, OneWay
<1>2. CASE p \in DOMAIN h.replaced
  BY <1>2, ZenonT(60) DEF DriverArg
<1>3. CASE p \notin DOMAIN h.replaced /\ h.marker /\ Role(p) = Modified
  BY <1>3, Zenon DEF DriverArg
<1>4. CASE p \notin DOMAIN h.replaced /\ ~(h.marker /\ Role(p) = Modified)
  <2>1. CASE command.args[p] = "null" /\ p \notin h.always
    BY <1>4, <2>1, Zenon DEF DriverArg
  <2>2. CASE ~(command.args[p] = "null" /\ p \notin h.always)
    <3>1. CASE p \in h.captures
      BY <1>1, <1>4, <2>2, <3>1, Zenon DEF DriverArg, PassedAsIs
    <3>2. CASE p \in h.imported
      BY <1>1, <1>4, <2>2, <3>2, Zenon DEF DriverArg, PassedAsIs
    <3>3. CASE p \in h.remapped
      BY <1>1, <1>4, <2>2, <3>3, Zenon DEF DriverArg, PassedAsIs
    <3>4. CASE PassedAsIs(h, p)
      BY <1>1, <1>4, <2>2, <3>4, Zenon DEF DriverArg, PassedAsIs
    <3>5. QED
      BY <3>1, <3>2, <3>3, <3>4, Zenon DEF PassedAsIs
  <2>3. QED
    BY <2>1, <2>2, Zenon
<1>5. QED
  BY <1>2, <1>3, <1>4, Zenon

\* Where an operand of the command leads the driver, and when.
LEMMA OperandFacts ==
  ASSUME CallInv, KeptInv, Left, NEW p \in Args
  PROVE  /\ InPlace(p) <=> WorksInPlace(TheStub, TheHandler, call.route, p)
         /\ Deferred(p) => MayBeDeferred(TheStub, call.route, p)
         /\ AlwaysDeferred(TheStub, call.route, p) => Deferred(p)
<1>1. InPlace(p) <=> WorksInPlace(TheStub, TheHandler, call.route, p)
  BY Zenon DEF InPlace, WorksInPlace, KeptInv
<1>2. ASSUME NEW b \in BlockingFlags \cap Args, command.args[b] = "null"
      PROVE  b \in SentNull(TheStub, call.route)
  BY <1>2, CommandArgs, Zenon DEF CallInv, SentNull
<1>3. QED
  BY <1>1, <1>2, Zenon DEF Deferred, MayBeDeferred, AlwaysDeferred

\* What a fresh command holds behind its pointers.
LEMMA FreshFacts ==
  ASSUME CallInv, KeptInv, FreshInv, Sent, NEW p \in Args
  PROVE  /\ Role(p) \notin Scalars => memory[p] = IF Role(p) \in Inputs THEN "given" ELSE "unset"
         /\ p \in TheStub.staged => staging[p] = IF p \in TheStub.stagedIn THEN "given" ELSE "stale"
         /\ p \in TheHandler.captures =>
              /\ command.captures[p] = CommandCapture(TheStub, call.route, call.nulls, p)
              /\ command.captures[p] \in {"stale", "remote", "local", "given"}
              /\ Captured(p) \in {"wild", "stale", command.captures[p]}
              /\ p \notin TheMessage.nested \/ TheHandler.reassembles => Captured(p) # "wild"
<1>1. Role(p) \notin Scalars => memory[p] = IF Role(p) \in Inputs THEN "given" ELSE "unset"
  BY Zenon DEF FreshInv
<1>2. p \in TheStub.staged => staging[p] = IF p \in TheStub.stagedIn THEN "given" ELSE "stale"
  BY Zenon DEF FreshInv
<1>3. ASSUME p \in TheHandler.captures
      PROVE  command.captures[p] = CommandCapture(TheStub, call.route, call.nulls, p)
  <2>1. p \in TheMessage.copiedIn \cup TheMessage.copiedOut
    BY <1>3, Zenon DEF CallInv, Agree, OneWay, Left
  <2>2. QED
    BY <2>1, Zenon DEF FreshInv
<1>4. CommandCapture(TheStub, call.route, call.nulls, p) \in {"stale", "remote", "local", "given"}
  BY Zenon DEF CommandCapture
<1>5. QED
  BY <1>1, <1>2, <1>3, <1>4, Zenon DEF Captured

LEMMA ReachedMemory ==
  ASSUME CallInv, KeptInv, FreshInv, Sent, NEW p \in Args
  PROVE  DriverArg(p) # "wild"
<1> DEFINE h == TheHandler
<1>1. Left
  BY Zenon DEF Left
<1>2. /\ p \notin DOMAIN h.replaced /\ p \in h.captures => p \notin TheMessage.nested \/ h.reassembles
      /\ p \notin DOMAIN h.replaced /\ Role(p) \notin Scalars /\ PassedAsIs(h, p) =>
           p \in TheStub.staged \/ WorksInPlace(TheStub, h, call.route, p)
  BY <1>1, Zenon DEF CallInv, Agree, PointersAgree
<1>3. CASE p \in DOMAIN h.replaced \/ (h.marker /\ Role(p) = Modified)
  BY <1>1, <1>3, DriverArgs, Zenon
<1>4. ASSUME p \notin DOMAIN h.replaced, p \in h.captures
      PROVE  Captured(p) # "wild"
  BY <1>2, <1>4, FreshFacts, Zenon
<1>5. h.always \subseteq h.captures
  BY <1>1, Zenon DEF CallInv, Agree, OneWay
<1>6. ASSUME p \in h.imported \cup h.remapped
      PROVE  Role(p) \notin Scalars
  <2>1. Role(p) \in Operands
    BY <1>1, <1>6, Zenon DEF CallInv, Agree, OneWay
  <2>2. QED
    BY <2>1, Zenon DEF Operands, Scalars, Source, Destination, Value, Handle, Modified, Destroyed
<1>7. ASSUME p \notin DOMAIN h.replaced, PassedAsIs(h, p), command.args[p] # "null"
      PROVE  IF Role(p) \in Scalars THEN command.args[p] # "wild" ELSE Raw(p) # "wild"
  <2>1. CASE Role(p) \in Scalars
    <3>1. command.args[p] = CommandArg(TheStub, call.nulls, p)
      BY <1>1, Zenon DEF KeptInv
    <3>2. CommandArg(TheStub, call.nulls, p) # "wild"
      <4>1. /\ TheStub.staged \cap TheStub.adjusted = {}
            /\ (TheStub.staged \cup TheStub.adjusted) \cap (TheStub.remote \cup TheStub.remoteIfGiven) = {}
        BY <1>1, Zenon DEF CallInv, Agree, OneWay
      <4>2. QED
        BY <4>1, Zenon DEF CommandArg
    <3>3. QED
      BY <2>1, <3>1, <3>2, Zenon
  <2>2. CASE Role(p) \notin Scalars
    <3>1. CASE p \in TheStub.staged
      <4>1. command.args[p] = "staging"
        BY <1>1, <1>7, <3>1, CommandArgs, Zenon
      <4>2. QED
        BY <2>2, <3>1, <4>1, FreshFacts, Zenon DEF Raw
    <3>2. CASE p \notin TheStub.staged
      <4>1. InPlace(p) /\ command.args[p] # "staging"
        BY <1>1, <1>2, <1>7, <2>2, <3>2, CommandArgs, OperandFacts, Zenon
      <4>2. QED
        BY <2>2, <4>1, FreshFacts, Zenon DEF Raw
    <3>3. QED
      BY <3>1, <3>2, Zenon
  <2>3. QED
    BY <2>1, <2>2, Zenon
<1>8. CASE p \notin DOMAIN h.replaced /\ ~(h.marker /\ Role(p) = Modified)
  <2>1. CASE command.args[p] = "null"
    BY <1>1, <1>4, <1>5, <1>8, <2>1, DriverArgs, Zenon
  <2>2. CASE command.args[p] # "null" /\ p \in h.captures
    BY <1>1, <1>4, <1>8, <2>2, DriverArgs, Zenon
  <2>3. CASE command.args[p] # "null" /\ p \in h.imported
    BY <1>1, <1>6, <1>8, <2>3, DriverArgs, FreshFacts, Zenon
  <2>4. CASE command.args[p] # "null" /\ p \in h.remapped
    BY <1>1, <1>8, <2>4, DriverArgs, Zenon DEF Remapped
  <2>5. CASE command.args[p] # "null" /\ PassedAsIs(h, p)
    BY <1>1, <1>7, <1>8, <2>5, DriverArgs, Zenon
  <2>6. QED
    BY <2>1, <2>2, <2>3, <2>4, <2>5, Zenon DEF PassedAsIs
<1>9. QED
  BY <1>3, <1>8, Zenon

LEMMA ObjectArgs ==
  ASSUME CallInv, KeptInv, FreshInv, Sent, NEW p \in Args, Given(p), IsObject(p)
  PROVE  \/ DriverArg(p) = "remote"
         \/ DriverArg(p) = "marker" /\ TheHandler.marker /\ Role(p) = Modified
<1> DEFINE h == TheHandler
<1>1. Left
  BY Zenon DEF Left
<1>2. command.args[p] # "null"
  BY <1>1, CommandArgs, Zenon
<1>3. CASE Role(p) \in Scalars
  <2>1. Role(p) # Value
    BY Zenon DEF IsObject, HoldsObject, Objects, Value, Handle, Modified, Destroyed, InHandles, Argument
  <2>2. /\ PassedAsIs(h, p) /\ p \notin DOMAIN h.replaced
        /\ (h.marker /\ Role(p) = Modified) \/ p \in TheStub.remote \cup TheStub.remoteIfGiven
    BY <1>1, <1>3, <2>1, Zenon DEF CallInv, Agree, ScalarsAgree
  <2>3. CASE h.marker /\ Role(p) = Modified
    BY <1>1, <2>2, <2>3, DriverArgs, Zenon
  <2>4. CASE ~(h.marker /\ Role(p) = Modified)
    BY <1>1, <1>2, <1>3, <2>2, <2>4, DriverArgs, CommandArgs, Zenon
  <2>5. QED
    BY <2>3, <2>4, Zenon
<1>4. CASE Role(p) \notin Scalars
  <2>1. Role(p) \in {InHandles, Argument} /\ Role(p) \in Inputs /\ Role(p) \notin Operands
        /\ Role(p) # Modified /\ Role(p) # Source
    BY <1>4, Zenon DEF IsObject, HoldsObject, Objects, Scalars, Inputs, Operands, Value, Handle,
                Modified, Destroyed, InHandles, Source, Destination, In, InOut, Argument
  <2>2. /\ p \notin DOMAIN h.replaced /\ p \in h.captures \cap TheMessage.copiedIn
        /\ Converts(TheStub, call.route, p)
    BY <1>1, <2>1, Zenon DEF CallInv, Agree, InputsAgree, IsObject
  <2>3. p \notin TheMessage.nested \/ h.reassembles
    BY <1>1, <2>2, Zenon DEF CallInv, Agree, PointersAgree
  <2>4. ~Deferred(p)
    BY <2>1, Zenon DEF Deferred
  <2>5. DriverArg(p) = command.captures[p]
    BY <1>1, <1>2, <2>1, <2>2, <2>3, <2>4, DriverArgs, Zenon DEF Captured
  <2>6. CommandCapture(TheStub, call.route, call.nulls, p) = "remote"
    BY <2>2, Zenon DEF CommandCapture
  <2>7. QED
    BY <2>2, <2>5, <2>6, FreshFacts, Zenon
<1>5. QED
  BY <1>3, <1>4, Zenon

LEMMA InputArgs ==
  ASSUME CallInv, KeptInv, FreshInv, Sent, NEW p \in Args \ DOMAIN TheHandler.replaced, Given(p),
         Role(p) \in Inputs, ~IsObject(p)
  PROVE  DriverArg(p) = "given"
<1> DEFINE h == TheHandler
           s == TheStub
<1>1. Left
  BY Zenon DEF Left
<1>2. command.args[p] # "null"
  BY <1>1, CommandArgs, Zenon
<1>3. Role(p) # Modified /\ Role(p) \notin Scalars
  BY Zenon DEF Scalars, Inputs, Value, Handle, Modified, Destroyed, InHandles, Source, In, InOut,
               Argument
<1>4. \/ /\ p \in h.captures \cap TheMessage.copiedIn
         /\ ~MayBeDeferred(s, call.route, p)
         /\ Converts(s, call.route, p) <=> IsObject(p)
      \/ Role(p) = Source /\ p \in h.imported
      \/ /\ Role(p) = Source /\ p \in h.remapped
         /\ call.route.list = "regular" /\ <<"registerMemoryToWrite", p>> \in s.before
      \/ Role(p) = Source /\ PassedAsIs(h, p) /\ (p \in s.staged => p \in s.stagedIn)
  BY <1>1, Zenon DEF CallInv, Agree, InputsAgree, IsObject
<1>5. CASE /\ p \in h.captures \cap TheMessage.copiedIn
           /\ ~MayBeDeferred(s, call.route, p)
           /\ Converts(s, call.route, p) <=> IsObject(p)
  <2>1. p \notin TheMessage.nested \/ h.reassembles
    BY <1>1, <1>5, Zenon DEF CallInv, Agree, PointersAgree
  <2>2. ~Deferred(p)
    BY <1>1, <1>5, OperandFacts, Zenon
  <2>3. DriverArg(p) = command.captures[p]
    BY <1>1, <1>2, <1>3, <1>5, <2>1, <2>2, DriverArgs, Zenon DEF Captured
  <2>4. CommandCapture(s, call.route, call.nulls, p) = "given"
    BY <1>5, Zenon DEF CommandCapture, IsObject
  <2>5. QED
    BY <1>5, <2>3, <2>4, FreshFacts, Zenon
<1>6. CASE Role(p) = Source /\ p \in h.imported
  BY <1>1, <1>2, <1>3, <1>6, DriverArgs, FreshFacts, Zenon
<1>7. CASE /\ Role(p) = Source /\ p \in h.remapped
           /\ call.route.list = "regular" /\ <<"registerMemoryToWrite", p>> \in s.before
  <2>1. <<"registerMemoryToWrite", p>> \in done
    BY <1>1, <1>7, Zenon DEF KeptInv, Touching
  <2>2. QED
    BY <1>1, <1>2, <1>3, <1>7, <2>1, DriverArgs, Zenon DEF Remapped
<1>8. CASE Role(p) = Source /\ PassedAsIs(h, p) /\ (p \in s.staged => p \in s.stagedIn)
  <2>1. DriverArg(p) = Raw(p)
    BY <1>1, <1>2, <1>3, <1>8, DriverArgs, Zenon
  <2>2. CASE p \in s.staged
    BY <1>1, <1>2, <1>8, <2>1, <2>2, CommandArgs, FreshFacts, Zenon DEF Raw
  <2>3. CASE p \notin s.staged
    <3>1. p \in s.staged \/ WorksInPlace(s, h, call.route, p)
      BY <1>1, <1>3, <1>8, Zenon DEF CallInv, Agree, PointersAgree
    <3>2. InPlace(p) /\ command.args[p] # "staging"
      BY <1>1, <2>3, <3>1, OperandFacts, CommandArgs, Zenon
    <3>3. QED
      BY <1>3, <2>1, <3>2, FreshFacts, Zenon DEF Raw
  <2>4. QED
    BY <2>2, <2>3, Zenon
<1>9. QED
  BY <1>4, <1>5, <1>6, <1>7, <1>8, Zenon

LEMMA ValueArgs ==
  ASSUME CallInv, KeptInv, FreshInv, Sent, NEW p \in Args \ DOMAIN TheHandler.replaced, Given(p),
         Role(p) = Value
  PROVE  DriverArg(p) \in {"given", "adjusted"}
<1>1. Left
  BY Zenon DEF Left
<1>2. Role(p) \in Scalars /\ Role(p) # Modified /\ Role(p) \notin Operands
  BY Zenon DEF Scalars, Operands, Source, Destination, Value, Handle, Modified, Destroyed
<1>3. PassedAsIs(TheHandler, p) /\ p \notin TheStub.remote \cup TheStub.remoteIfGiven
  BY <1>1, <1>2, Zenon DEF CallInv, Agree, ScalarsAgree
<1>4. p \notin TheStub.staged
  BY <1>1, <1>2, Zenon DEF CallInv, Agree, OneWay
<1>5. command.args[p] # "null" /\ command.args[p] \in {"given", "adjusted"}
  BY <1>1, <1>3, <1>4, CommandArgs, Zenon
<1>6. QED
  BY <1>1, <1>2, <1>3, <1>5, DriverArgs, Zenon

LEMMA NullArgs ==
  ASSUME CallInv, KeptInv, FreshInv, Sent, NEW p \in Args \ DOMAIN TheHandler.replaced
  PROVE  /\ Given(p) => DriverArg(p) # "null"
         /\ ~Given(p) /\ Role(p) \notin {Out, Modified} /\ p \notin TheStub.forced =>
              DriverArg(p) = "null"
<1> DEFINE h == TheHandler
<1>1. Left
  BY Zenon DEF Left
<1>2. ASSUME ~Given(p), Role(p) \notin {Out, Modified}, p \notin TheStub.forced
      PROVE  DriverArg(p) = "null"
  <2>1. command.args[p] = "null"
    BY <1>1, <1>2, CommandArgs, Zenon
  <2>2. p \in SentNull(TheStub, call.route)
    BY <1>1, <1>2, Zenon DEF CallInv, SentNull
  <2>3. p \notin h.always
    BY <1>1, <1>2, <2>2, Zenon DEF CallInv, Agree, NullsAgree
  <2>4. QED
    BY <1>1, <1>2, <2>1, <2>3, DriverArgs, Zenon
<1>3. ASSUME Given(p) PROVE DriverArg(p) # "null"
  <2>1. command.args[p] # "null"
    BY <1>1, <1>3, CommandArgs, Zenon
  <2>2. CASE h.marker /\ Role(p) = Modified
    BY <1>1, <2>2, DriverArgs, Zenon
  <2>3. CASE ~(h.marker /\ Role(p) = Modified)
    <3>1. CASE p \in h.captures
      BY <1>1, <2>1, <2>3, <3>1, DriverArgs, FreshFacts, Zenon
    <3>2. CASE p \in h.imported
      <4>1. Role(p) \notin Scalars
        BY <1>1, <3>2, Zenon DEF CallInv, Agree, OneWay, Operands, Scalars, Source, Destination,
                          Value, Handle, Modified, Destroyed
      <4>2. QED
        BY <1>1, <2>1, <2>3, <3>2, <4>1, DriverArgs, FreshFacts, Zenon
    <3>3. CASE p \in h.remapped
      BY <1>1, <2>1, <2>3, <3>3, DriverArgs, Zenon DEF Remapped
    <3>4. CASE PassedAsIs(h, p) /\ Role(p) \in Scalars
      BY <1>1, <2>1, <2>3, <3>4, DriverArgs, Zenon
    <3>5. CASE PassedAsIs(h, p) /\ Role(p) \notin Scalars
      <4>1. Raw(p) # "null"
        <5>1. command.args[p] = "staging" => p \in TheStub.staged
          BY <1>1, CommandArgs, Zenon
        <5>2. QED
          BY <3>5, <5>1, FreshFacts, Zenon DEF Raw
      <4>2. QED
        BY <1>1, <2>1, <2>3, <3>5, <4>1, DriverArgs, Zenon
    <3>6. QED
      BY <3>1, <3>2, <3>3, <3>4, <3>5, Zenon DEF PassedAsIs
  <2>4. QED
    BY <2>2, <2>3, Zenon
<1>4. QED
  BY <1>2, <1>3, Zenon

-----------------------------------------------------------------------------
(* The invariant is inductive.                                             *)

LEMMA InitIInv == Init => IInv
BY Zenon DEF Init, IInv, IdleInv, CallInv, KeptInv, FreshInv, ServedInv, ReadyInv, Left, Sent, Answered

\* The requests of an entry point meet the stub and the handler of the contract.
LEMMA RequestFacts ==
  ASSUME NEW a \in DOMAIN Entries, NEW e \in DOMAIN Entries[a], NEW r \in DOMAIN Entries[a][e],
         NEW asked \in Requests(a, e, r, Entries[a][e][r]),
         ~RefusedByStub(asked.stub, asked.nulls)
  PROVE  /\ Agree(asked.stub, asked.handler, asked.route)
         /\ asked.nulls \subseteq Absent(asked.stub, asked.route)
         /\ asked.async \in BOOLEAN
<1> DEFINE s == Entries[a][e][r]
<1>1. PICK nulls \in NullChoices(Optional(s, r)), async \in BOOLEAN :
        asked = [api |-> a, entry |-> e, route |-> r, nulls |-> nulls, async |-> async,
                 stub |-> s, handler |-> rpcHandlers[a][s.message.subtype]]
  BY DEF Requests
<1>2. nulls \subseteq Optional(s, r)
  BY Zenon DEF NullChoices, kSubset
<1>3. /\ asked.stub = s /\ asked.route = r /\ asked.nulls = nulls /\ asked.async = async
      /\ asked.handler = rpcHandlers[a][s.message.subtype]
  BY <1>1, Zenon
<1>4. "always" \notin s.early /\ s.early \cap nulls = {}
  BY <1>3, Zenon DEF RefusedByStub
<1>5. Agree(s, rpcHandlers[a][s.message.subtype], r)
  BY <1>4, EveryCallAgrees, Zenon
<1>6. QED
  BY <1>2, <1>3, <1>4, <1>5, Zenon DEF Absent

LEMMA CallStep ==
  ASSUME NEW a \in DOMAIN Entries, NEW e \in DOMAIN Entries[a], NEW r \in DOMAIN Entries[a][e],
         NEW asked \in Requests(a, e, r, Entries[a][e][r]), seen = Nothing, Call(asked)
  PROVE  IInv'
<1>1. call' = asked /\ pc' = (IF asked.async THEN "posted" ELSE "waiting") /\ seen' = Nothing
  BY Zenon DEF Call
<1>2. /\ Agree(asked.stub, asked.handler, asked.route)
      /\ asked.nulls \subseteq Absent(asked.stub, asked.route)
      /\ asked.async \in BOOLEAN
  BY RequestFacts, Zenon DEF Call
<1>3. Sent' /\ ~Answered' /\ Left'
  BY <1>1, <1>2, Zenon DEF Sent, Answered, Left
<1>4. CallInv'
  <2>1. asked.async => MayBeAsync(asked.stub, asked.route, asked.nulls)
    BY Zenon DEF Call
  <2>2. QED
    BY <1>1, <1>2, <2>1, Zenon DEF CallInv
<1>5. /\ command' = [args |-> [p \in DOMAIN asked.stub.message.args |->
                                 CommandArg(asked.stub, asked.nulls, p)],
                     captures |-> [p \in asked.stub.message.copiedIn \cup asked.stub.message.copiedOut |->
                                     CommandCapture(asked.stub, asked.route, asked.nulls, p)],
                     ret |-> asked.stub.message.ret]
      /\ memory' = [p \in {q \in DOMAIN asked.stub.message.args :
                             asked.stub.message.args[q] \notin Scalars} |->
                      IF asked.stub.message.args[p] \in Inputs THEN "given" ELSE "unset"]
      /\ staging' = [p \in asked.stub.staged |->
                       IF p \in asked.stub.stagedIn THEN "given" ELSE "stale"]
      /\ done' = Touching(Prepared(asked.stub, asked.async), asked.nulls \ asked.stub.forced)
  BY Zenon DEF Call
<1>6. KeptInv'
  <2>1. Touching(asked.stub.before, asked.nulls) \subseteq done'
    BY <1>5, Zenon DEF Touching, Prepared
  <2>2. QED
    BY <1>1, <1>5, <2>1, Zenon DEF KeptInv
<1>7. FreshInv'
  <2>1. asked.stub.message.ret = "error"
    BY <1>2, Zenon DEF Agree, OutputsAgree
  <2>2. QED
    BY <1>1, <1>5, <2>1, Zenon DEF FreshInv
<1>8. QED
  <2>1. pc' \notin {"idle", "handled"}
    BY <1>3, Zenon DEF Sent
  <2>2. IdleInv' /\ ServedInv' /\ ReadyInv'
    BY <1>3, <2>1, Zenon DEF IdleInv, ServedInv, ReadyInv
  <2>3. QED
    BY <1>4, <1>6, <1>7, <2>2, Zenon DEF IInv

LEMMA ServeFacts ==
  ASSUME IInv, NEW success \in BOOLEAN, NEW full \in BOOLEAN, Serve(success, full)
  PROVE  /\ Sent /\ Left /\ call' = call /\ pc' = "handled"
         /\ DOMAIN command' = {"args", "captures", "ret"} /\ command'.args = command.args
         /\ command'.ret = IF success THEN TheMessage.returns ELSE "error"
         /\ DOMAIN command'.captures = DOMAIN command.captures
         /\ DOMAIN staging' = DOMAIN staging /\ DOMAIN memory' = DOMAIN memory
         /\ done \subseteq done'
         /\ success => Touching(HandlerEffects(TheHandler), call.nulls) \subseteq done'
         /\ seen' = [p \in Args |-> DriverArg(p)] /\ seen' # Nothing
         /\ \A p \in Args : /\ Deferred(p)' <=> Deferred(p)
                            /\ InPlace(p)' <=> InPlace(p)
                            /\ Written(p)' = Written(p)
<1> DEFINE now == {p \in Args : /\ success /\ Role(p) \in Outputs
                                /\ command.args[p] # "null" /\ ~Deferred(p)}
<1>1. Sent /\ Left /\ call' = call /\ pc' = "handled"
  BY Zenon DEF Serve, Sent, Left
<1>2. DOMAIN command = {"args", "captures", "ret"}
  BY <1>1, Zenon DEF IInv, KeptInv
<1>3. command' = [command EXCEPT
        !.captures = [p \in DOMAIN @ |-> IF p \in now \cap TheHandler.captures THEN Written(p) ELSE @[p]],
        !.ret = IF success THEN TheMessage.returns ELSE "error"]
  BY Zenon DEF Serve
<1>4. /\ DOMAIN command' = {"args", "captures", "ret"} /\ command'.args = command.args
      /\ command'.ret = IF success THEN TheMessage.returns ELSE "error"
      /\ DOMAIN command'.captures = DOMAIN command.captures
  BY <1>2, <1>3, Zenon
<1>5. DOMAIN staging' = DOMAIN staging /\ DOMAIN memory' = DOMAIN memory
  BY Zenon DEF Serve
<1>6. done' = done \cup Touching(HandlerDone(TheHandler, success), call.nulls)
  BY Zenon DEF Serve
<1>7. success => Touching(HandlerEffects(TheHandler), call.nulls) \subseteq done'
  BY <1>6, Zenon DEF HandlerEffects, HandlerDone, Touching
<1>8. seen' = [p \in Args |-> DriverArg(p)]
  BY Zenon DEF Serve
<1>9. seen' # Nothing
  <2>1. Args # {}
    BY <1>1, Zenon DEF IInv, CallInv, Agree, OneWay
  <2>2. DOMAIN seen' = Args /\ DOMAIN Nothing = {}
    BY <1>8, Zenon DEF Nothing
  <2>3. QED
    BY <2>1, <2>2, Zenon
<1>10. ASSUME NEW p \in Args
       PROVE  /\ Deferred(p)' <=> Deferred(p)
              /\ InPlace(p)' <=> InPlace(p)
              /\ Written(p)' = Written(p)
  BY <1>1, <1>4, <1>5, Zenon DEF Deferred, InPlace, Written, KindIn
<1>11. QED
  BY <1>1, <1>4, <1>5, <1>6, <1>7, <1>8, <1>9, <1>10, Zenon

LEMMA ServeStep ==
  ASSUME IInv, NEW success \in BOOLEAN, NEW full \in BOOLEAN, Serve(success, full)
  PROVE  IInv'
<1>1. /\ Sent /\ Left /\ call' = call /\ pc' = "handled"
      /\ DOMAIN command' = {"args", "captures", "ret"} /\ command'.args = command.args
      /\ command'.ret = IF success THEN TheMessage.returns ELSE "error"
      /\ DOMAIN command'.captures = DOMAIN command.captures
      /\ DOMAIN staging' = DOMAIN staging /\ DOMAIN memory' = DOMAIN memory
      /\ done \subseteq done'
      /\ success => Touching(HandlerEffects(TheHandler), call.nulls) \subseteq done'
      /\ seen' # Nothing
      /\ \A p \in Args : /\ Deferred(p)' <=> Deferred(p)
                         /\ InPlace(p)' <=> InPlace(p)
                         /\ Written(p)' = Written(p)
  BY ServeFacts, Zenon
<1>2. IdleInv' /\ FreshInv'
  BY <1>1, Zenon DEF IdleInv, FreshInv, Sent
<1>3. CallInv'
  BY <1>1, Zenon DEF IInv, CallInv
<1>4. KeptInv'
  BY <1>1, Zenon DEF IInv, KeptInv
<1>5. ServedInv'
  BY <1>1, Zenon DEF ServedInv
<1>6. ReadyInv'
  <2> SUFFICES ASSUME command'.ret # "error", NEW p \in Args,
                      Given(p), Role(p) \in Outputs, ~Deferred(p)
               PROVE  /\ p \in TheHandler.captures \cap TheMessage.copiedOut =>
                           command'.captures[p] = Written(p)
                      /\ p \in TheStub.staged => staging'[p] = "result"
                      /\ InPlace(p) => memory'[p] = Written(p)
    BY <1>1, Zenon DEF ReadyInv
  <2> DEFINE now == {q \in Args : /\ success /\ Role(q) \in Outputs
                                  /\ command.args[q] # "null" /\ ~Deferred(q)}
  <2>1. success
    BY <1>1, Zenon
  <2>2. command.args[p] # "null"
    BY <1>1, CommandArgs, Zenon DEF IInv
  <2>3. p \in now
    BY <2>1, <2>2, Zenon
  <2>4. /\ DOMAIN command = {"args", "captures", "ret"}
        /\ DOMAIN command.captures = TheMessage.copiedIn \cup TheMessage.copiedOut
        /\ DOMAIN staging = TheStub.staged
        /\ DOMAIN memory = {q \in Args : Role(q) \notin Scalars}
    BY <1>1, Zenon DEF IInv, KeptInv
  <2>5. command'.captures =
          [q \in DOMAIN command.captures |->
             IF q \in now \cap TheHandler.captures THEN Written(q) ELSE command.captures[q]]
    BY <2>4, Zenon DEF Serve
  <2>6. /\ staging' = [q \in DOMAIN staging |-> IF q \in now THEN "result" ELSE staging[q]]
        /\ memory' = [q \in DOMAIN memory |-> IF q \in now /\ InPlace(q) THEN Written(q) ELSE memory[q]]
    BY Zenon DEF Serve
  <2>7. p \in TheHandler.captures \cap TheMessage.copiedOut => command'.captures[p] = Written(p)
    BY <2>3, <2>4, <2>5, Zenon
  <2>8. p \in TheStub.staged => staging'[p] = "result"
    BY <2>3, <2>4, <2>6, Zenon
  <2>9. InPlace(p) => memory'[p] = Written(p)
    <3>1. InPlace(p) => Role(p) \notin Scalars
      BY Zenon DEF InPlace, Operands, Scalars, Source, Destination, Value, Handle, Modified, Destroyed
    <3>2. QED
      BY <2>3, <2>4, <2>6, <3>1, Zenon
  <2>10. QED
    BY <2>7, <2>8, <2>9, Zenon
<1>7. QED
  BY <1>2, <1>3, <1>4, <1>5, <1>6, Zenon DEF IInv

\* The other steps on a call that has left the stub.
LEMMA RefusalStep ==
  ASSUME IInv, HandlerRefuses \/ HandlerRejects
  PROVE  IInv'
<1>1. /\ Sent /\ Left /\ pc' = "handled"
      /\ UNCHANGED <<call, memory, command, staging, seen, done, ret>>
  BY Zenon DEF HandlerRefuses, HandlerRejects, Sent, Left
<1>2. command.ret = "error"
  BY <1>1, Zenon DEF IInv, FreshInv
<1>3. CallInv'
  BY <1>1, Zenon DEF IInv, CallInv
<1>4. KeptInv'
  BY <1>1, Zenon DEF IInv, KeptInv
<1>5. QED
  BY <1>1, <1>2, <1>3, <1>4, Zenon DEF IInv, IdleInv, FreshInv, ServedInv, ReadyInv, Sent

LEMMA ReturnStep ==
  ASSUME IInv, (\E kept \in BOOLEAN : Return(kept)) \/ Interrupted
  PROVE  IInv'
<1>1. /\ Left /\ pc' \in {"returned", "interrupted"} /\ ~call.async
      /\ DOMAIN memory' = DOMAIN memory /\ done \subseteq done'
      /\ UNCHANGED <<call, command, staging, seen>>
  BY Zenon DEF Return, Interrupted, Left, Sent, Answered
<1>2. CallInv'
  BY <1>1, Zenon DEF IInv, CallInv
<1>3. KeptInv'
  BY <1>1, Zenon DEF IInv, KeptInv
<1>4. ServedInv'
  <2>1. CASE Sent
    BY <1>1, <2>1, Zenon DEF IInv, FreshInv, ServedInv
  <2>2. CASE Answered
    BY <1>1, <2>2, Zenon DEF IInv, ServedInv
  <2>3. QED
    BY <1>1, <2>1, <2>2, Zenon DEF Left
<1>5. QED
  BY <1>1, <1>2, <1>3, <1>4, Zenon DEF IInv, IdleInv, FreshInv, ReadyInv, Sent

LEMMA NextIInv ==
  ASSUME IInv, [Next]_vars
  PROVE  IInv'
<1>1. CASE Start
  <2> SUFFICES ASSUME NEW a \in DOMAIN Entries, NEW e \in DOMAIN Entries[a],
                      NEW r \in DOMAIN Entries[a][e],
                      NEW asked \in Requests(a, e, r, Entries[a][e][r]),
                      (\E refused \in BOOLEAN : ReturnEarly(asked, refused)) \/ Call(asked)
               PROVE  IInv'
    BY <1>1, Zenon DEF Start
  <2>3. ASSUME NEW refused \in BOOLEAN, ReturnEarly(asked, refused)
        PROVE  IInv'
    <3>1. pc' = "early"
      BY <2>3, Zenon DEF ReturnEarly
    <3>2. QED
      BY <3>1, Zenon DEF IInv, IdleInv, CallInv, KeptInv, FreshInv, ServedInv, ReadyInv, Left,
                  Sent, Answered
  <2>4. ASSUME Call(asked) PROVE IInv'
    <3>1. seen = Nothing
      BY <2>4, Zenon DEF Call, IInv, IdleInv
    <3>2. QED
      BY <2>4, <3>1, CallStep, Zenon
  <2>5. QED
    BY <2>3, <2>4, Zenon
<1>2. CASE Finish
  BY <1>2, Zenon DEF Finish, IInv, IdleInv, CallInv, KeptInv, FreshInv, ServedInv, ReadyInv, Left,
              Sent, Answered
<1>3. CASE UNCHANGED vars
  <2>1. IdleInv' /\ CallInv'
    BY <1>3, Zenon DEF vars, IInv, IdleInv, CallInv, Left, Sent, Answered
  <2>2. KeptInv'
    BY <1>3, Zenon DEF vars, IInv, KeptInv, Left, Sent, Answered
  <2>3. FreshInv'
    BY <1>3, Zenon DEF vars, IInv, FreshInv, Sent
  <2>4. ServedInv'
    BY <1>3, Zenon DEF vars, IInv, ServedInv, Answered
  <2>5. ReadyInv'
    BY <1>3, Zenon DEF vars, IInv, ReadyInv, Deferred, InPlace, Written, KindIn
  <2>6. QED
    BY <2>1, <2>2, <2>3, <2>4, <2>5, Zenon DEF IInv
<1>4. QED
  BY <1>1, <1>2, <1>3, ServeStep, RefusalStep, ReturnStep, Zenon DEF Next

\* What every call that the generated code makes satisfies on its way through the
\* stub, the command and the handler, whatever the application leaves out.
THEOREM ApiCallInvariant == Spec => []IInv
BY InitIInv, NextIInv, PTL DEF Spec

-----------------------------------------------------------------------------
(* The properties of a call on its way to the driver.                      *)

LEMMA SharedMemoryMovedInIInv == IInv => SharedMemoryMoved
<1> SUFFICES ASSUME IInv, Sent, NEW p \in Args, Given(p), InPlace(p), Kind(p) = "usm"
             PROVE  <<"moveAllocationToGpu", p>> \in done
  BY Zenon DEF SharedMemoryMoved, Sent
<1>1. Left /\ CallInv /\ KeptInv
  BY Zenon DEF Left, IInv
<1>2. WorksInPlace(TheStub, TheHandler, call.route, p)
  BY <1>1, OperandFacts, Zenon
<1>3. <<"moveAllocationToGpu", p>> \in TheStub.before
  BY <1>1, <1>2, Zenon DEF CallInv, Agree, EffectsAgree
<1>4. QED
  BY <1>1, <1>3, Zenon DEF KeptInv, Touching

LEMMA EventsForgottenInIInv == IInv => EventsForgotten
<1> SUFFICES ASSUME IInv, Sent, NEW p \in Args, Given(p), Role(p) = Modified
             PROVE  {<<"stateUnknown", p>>, <<"clear", p>>} \cap done # {}
  BY Zenon DEF EventsForgotten, Sent
<1>1. Left /\ CallInv /\ KeptInv
  BY Zenon DEF Left, IInv
<1>2. {<<"stateUnknown", p>>, <<"clear", p>>} \cap TheStub.before # {}
  BY <1>1, Zenon DEF CallInv, Agree, EffectsAgree
<1>3. QED
  BY <1>1, <1>2, Zenon DEF KeptInv, Touching

LEMMA HandlersAcceptInIInv == IInv => HandlersAcceptTheirCalls
<1> SUFFICES ASSUME IInv, Sent PROVE ~Refused
  BY Zenon DEF HandlersAcceptTheirCalls, Sent
<1>1. Left /\ CallInv /\ KeptInv
  BY Zenon DEF Left, IInv
<1>2. NullsAgree(TheStub, TheHandler, call.route)
  BY <1>1, Zenon DEF CallInv, Agree
<1>3. \A p \in TheHandler.imported : Kind(p) = "shared"
  BY <1>2, Zenon DEF NullsAgree
<1>4. ASSUME NEW p \in TheHandler.refuses PROVE command.args[p] # "null"
  <2>1. p \in Args /\ p \notin SentNull(TheStub, call.route)
    BY <1>2, Zenon DEF NullsAgree
  <2>2. p \notin call.nulls \ TheStub.forced
    BY <1>1, <2>1, Zenon DEF CallInv, SentNull
  <2>3. QED
    BY <1>1, <2>1, <2>2, CommandArgs, Zenon
<1>5. QED
  BY <1>3, <1>4, Zenon DEF Refused

LEMMA AsyncCallsInIInv == IInv => AsyncCallsOweNothing
<1> SUFFICES ASSUME IInv, pc = "posted"
             PROVE  /\ TheMessage.returns = "success"
                    /\ \A p \in Args : Given(p) =>
                         /\ Role(p) \in Outputs =>
                              Role(p) = Destination /\ (Kind(p) = "local" => <<"addToMap", p>> \in done)
                         /\ Role(p) \in Inputs \ Operands => p \in TheMessage.copiedIn
  BY Zenon DEF AsyncCallsOweNothing
<1>1. Left /\ CallInv /\ KeptInv /\ call.async
  BY Zenon DEF Left, Sent, IInv, CallInv
<1>2. MayBeAsync(TheStub, call.route, call.nulls) /\ MayPost(TheStub, call.route)
  BY <1>1, Zenon DEF CallInv, MayBeAsync, MayPost, SentNull
<1>3. /\ TheMessage.returns = "success"
      /\ \A p \in Args \ TheStub.unless :
           /\ Role(p) \in Outputs =>
                Role(p) = Destination /\ (Kind(p) = "local" => <<"addToMap", p>> \in TheStub.before)
           /\ Role(p) \in Inputs \ Operands => p \in TheMessage.copiedIn
  BY <1>1, <1>2, Zenon DEF CallInv, Agree, AsyncAgrees
<1>4. ASSUME NEW p \in Args, Given(p) PROVE p \notin TheStub.unless
  BY <1>2, <1>4, Zenon DEF MayBeAsync
<1>5. ASSUME NEW p \in Args, Given(p), <<"addToMap", p>> \in TheStub.before
      PROVE  <<"addToMap", p>> \in done
  BY <1>1, <1>5, Zenon DEF KeptInv, Touching
<1>6. QED
  BY <1>3, <1>4, <1>5, Zenon

-----------------------------------------------------------------------------
(* The properties of a call in the handler.                                *)

\* What the driver was called with.
SeenInv ==
  Served =>
    \A p \in Args :
      /\ seen[p] # "wild"
      /\ Given(p) /\ IsObject(p) =>
           \/ seen[p] = "remote"
           \/ seen[p] = "marker" /\ TheHandler.marker /\ Role(p) = Modified
      /\ p \notin DOMAIN TheHandler.replaced =>
           /\ Given(p) => seen[p] # "null"
           /\ Given(p) /\ Role(p) = Value => seen[p] \in {"given", "adjusted"}
           /\ Given(p) /\ Role(p) \in Inputs /\ ~IsObject(p) => seen[p] = "given"
           /\ ~Given(p) /\ Role(p) \notin {Out, Modified} => seen[p] = "null" \/ p \in TheStub.forced

\* Only the two ways through a handler lead to its end.
LEMMA HandledSteps ==
  ASSUME [Next]_vars, pc' = "handled"
  PROVE  \/ \E success \in BOOLEAN, full \in BOOLEAN : Serve(success, full)
         \/ HandlerRefuses
         \/ HandlerRejects
         \/ UNCHANGED vars
<1>1. ~Start /\ ~Finish
  <2>1. pc' \notin {"early", "posted", "waiting", "idle"}
    OBVIOUS
  <2>2. ASSUME NEW asked PROVE ~Call(asked) /\ \A refused \in BOOLEAN : ~ReturnEarly(asked, refused)
    BY <2>1, Zenon DEF Call, ReturnEarly
  <2>3. QED
    BY <2>1, <2>2, Zenon DEF Start, Finish
<1>2. ~Interrupted /\ \A kept \in BOOLEAN : ~Return(kept)
  BY Zenon DEF Interrupted, Return
<1>3. QED
  BY <1>1, <1>2, Zenon DEF Next

LEMMA SeenStep ==
  ASSUME IInv, SeenInv, [Next]_vars
  PROVE  SeenInv'
<1>1. CASE pc' # "handled"
  BY <1>1, Zenon DEF SeenInv, Served
<1>2. CASE UNCHANGED vars
  BY <1>2, Zenon DEF vars, SeenInv, Served, IsObject
<1>3. CASE HandlerRefuses \/ HandlerRejects
  <2>1. seen' = Nothing
    BY <1>3, Zenon DEF HandlerRefuses, HandlerRejects, IInv, FreshInv, Sent
  <2>2. QED
    BY <2>1, Zenon DEF SeenInv, Served, Nothing
<1>4. ASSUME NEW success \in BOOLEAN, NEW full \in BOOLEAN, Serve(success, full)
      PROVE  SeenInv'
  <2>1. Sent /\ call' = call /\ seen' = [p \in Args |-> DriverArg(p)]
    BY <1>4, ServeFacts, Zenon
  <2>2. CallInv /\ KeptInv /\ FreshInv
    BY Zenon DEF IInv
  <2>3. ASSUME NEW p \in Args
        PROVE  /\ seen'[p] # "wild"
               /\ Given(p) /\ IsObject(p) =>
                    \/ seen'[p] = "remote"
                    \/ seen'[p] = "marker" /\ TheHandler.marker /\ Role(p) = Modified
    BY <2>1, <2>2, ReachedMemory, ObjectArgs, Zenon
  <2>4. ASSUME NEW p \in Args, p \notin DOMAIN TheHandler.replaced
        PROVE  /\ Given(p) => seen'[p] # "null"
               /\ Given(p) /\ Role(p) = Value => seen'[p] \in {"given", "adjusted"}
               /\ Given(p) /\ Role(p) \in Inputs /\ ~IsObject(p) => seen'[p] = "given"
               /\ ~Given(p) /\ Role(p) \notin {Out, Modified} =>
                    seen'[p] = "null" \/ p \in TheStub.forced
    BY <2>1, <2>2, <2>4, NullArgs, ValueArgs, InputArgs, Zenon
  <2>5. QED
    BY <2>1, <2>3, <2>4, Zenon DEF SeenInv, IsObject
<1>5. QED
  BY <1>1, <1>2, <1>3, <1>4, HandledSteps, Zenon

LEMMA NoticedStep ==
  ASSUME IInv, AsyncFailuresAreNoticed, [Next]_vars
  PROVE  AsyncFailuresAreNoticed'
<1> SUFFICES ASSUME pc' = "handled", call'.async, command'.ret = "error"
             PROVE  outcome' = "broken"
  BY Zenon DEF AsyncFailuresAreNoticed
<1>1. CASE UNCHANGED vars
  BY <1>1, Zenon DEF vars, AsyncFailuresAreNoticed
<1>2. CASE HandlerRefuses
  BY <1>2, Zenon DEF HandlerRefuses
<1>3. ASSUME Sent, call' = call
      PROVE  /\ TheHandler.failsIfAsync \/ TheHandler.failsOnError
             /\ TheHandler.rejects \cap SentNull(TheStub, call.route) = {}
             /\ TheHandler.marker => TheHandler.needsMarker
             /\ TheMessage.returns # "error"
  <2>1. Left /\ CallInv /\ call.async
    BY <1>3, Zenon DEF Left, IInv
  <2>2. MayPost(TheStub, call.route)
    BY <2>1, Zenon DEF CallInv, MayBeAsync, MayPost, SentNull
  <2>3. QED
    BY <2>1, <2>2, Zenon DEF CallInv, Agree, AsyncAgrees
<1>4. CASE HandlerRejects
  <2>1. Sent /\ call' = call
    BY <1>4, Zenon DEF HandlerRejects, Sent
  <2>2. ASSUME NEW p \in TheHandler.rejects, command.args[p] = "null"
        PROVE  FALSE
    <3>1. Left /\ CallInv /\ KeptInv
      BY <2>1, Zenon DEF Left, IInv
    <3>2. p \in Args
      BY <3>1, Zenon DEF CallInv, Agree, OneWay
    <3>3. p \in call.nulls \ TheStub.forced
      BY <2>2, <3>1, <3>2, CommandArgs, Zenon
    <3>4. p \in SentNull(TheStub, call.route)
      BY <3>1, <3>3, Zenon DEF CallInv, SentNull
    <3>5. QED
      BY <1>3, <2>1, <3>4, Zenon
  <2>3. QED
    BY <1>3, <1>4, <2>1, <2>2, Zenon DEF HandlerRejects
<1>5. ASSUME NEW success \in BOOLEAN, NEW full \in BOOLEAN, Serve(success, full)
      PROVE  outcome' = "broken"
  <2>1. Sent /\ call' = call /\ command'.ret = IF success THEN TheMessage.returns ELSE "error"
    BY <1>5, ServeFacts, Zenon
  <2>2. ~success
    BY <1>3, <2>1, Zenon
  <2>3. GivesUp(TheHandler, success, full)
    BY <1>3, <2>1, <2>2, Zenon DEF GivesUp
  <2>4. QED
    BY <1>5, <2>3, Zenon DEF Serve
<1>6. QED
  BY <1>1, <1>2, <1>4, <1>5, HandledSteps, Zenon

-----------------------------------------------------------------------------
(* The properties of a call that is over.                                  *)

LEMMA EndedSteps ==
  ASSUME [Next]_vars, Ended'
  PROVE  \/ \E kept \in BOOLEAN : Return(kept)
         \/ Interrupted
         \/ UNCHANGED vars
<1>1. ~Start /\ ~Finish
  <2>1. pc' \notin {"early", "posted", "waiting", "idle"}
    BY Zenon DEF Ended
  <2>2. ASSUME NEW asked PROVE ~Call(asked) /\ \A refused \in BOOLEAN : ~ReturnEarly(asked, refused)
    BY <2>1, Zenon DEF Call, ReturnEarly
  <2>3. QED
    BY <2>1, <2>2, Zenon DEF Start, Finish
<1>2. ~HandlerRefuses /\ ~HandlerRejects /\ \A success \in BOOLEAN, full \in BOOLEAN : ~Serve(success, full)
  BY Zenon DEF HandlerRefuses, HandlerRejects, Serve, Ended
<1>3. QED
  BY <1>1, <1>2, Zenon DEF Next

LEMMA UnservedStep ==
  ASSUME IInv, UnservedCallsFail, [Next]_vars
  PROVE  UnservedCallsFail'
<1> SUFFICES ASSUME Ended', seen' = Nothing \/ command'.ret = "error"
             PROVE  ret' = "error"
  BY Zenon DEF UnservedCallsFail
<1>1. ASSUME Left, seen' = seen, command' = command
      PROVE  command.ret = "error" /\ ~TheStub.masked
  BY <1>1, Zenon DEF IInv, CallInv, FreshInv, ServedInv, Left, Agree, OutputsAgree
<1>2. CASE UNCHANGED vars
  BY <1>2, Zenon DEF vars, UnservedCallsFail, Ended
<1>3. CASE Interrupted
  <2>1. Left /\ seen' = seen /\ command' = command
    BY <1>3, Zenon DEF Interrupted, Left, Sent, Answered
  <2>2. QED
    BY <1>1, <1>3, <2>1, Zenon DEF Interrupted
<1>4. ASSUME NEW kept \in BOOLEAN, Return(kept)
      PROVE  ret' = "error"
  <2>1. Left /\ seen' = seen /\ command' = command
    BY <1>4, Zenon DEF Return, Left, Answered
  <2>2. command.ret = "error" /\ ~TheStub.masked /\ kept
    BY <1>1, <1>4, <2>1, Zenon DEF Return
  <2>3. QED
    BY <1>4, <2>2, Zenon DEF Return
<1>5. QED
  BY <1>2, <1>3, <1>4, EndedSteps, Zenon

LEMMA FreedStep ==
  ASSUME IInv, UnmappedMemoryIsFreed, [Next]_vars
  PROVE  UnmappedMemoryIsFreed'
<1> DEFINE opened == <<"openNewUsmHostOrSharedPointer", "shmem_resource">>
           freed == <<"freeUsm", "shmem_resource">>
<1> SUFFICES ASSUME pc' = "returned", (Placement \subseteq Args)', command'.ret # "error"
             PROVE  opened \in done' \/ freed \in done'
  BY Zenon DEF UnmappedMemoryIsFreed
<1>1. CASE UNCHANGED vars
  BY <1>1, Zenon DEF vars, UnmappedMemoryIsFreed
<1>2. ASSUME NEW kept \in BOOLEAN, Return(kept)
      PROVE  opened \in done' \/ freed \in done'
  <2>1. /\ pc = "handled" /\ call' = call /\ command' = command
        /\ done' = done \cup Touching(StubDone(TheStub, command.ret # "error", kept), call.nulls)
        /\ ~kept => TheStub.fallible
    BY <1>2, Zenon DEF Return
  <2>2. Left /\ CallInv /\ Placement \subseteq Args
    BY <2>1, Zenon DEF IInv, Left, Answered
  <2>3. /\ "shmem_resource" \notin Absent(TheStub, call.route)
        /\ OpenedByClient \subseteq TheStub.after \cup TheStub.onSuccess
        /\ TheStub.fallible => FreedByClient \subseteq TheStub.after \cup TheStub.undone
    BY <2>2, Zenon DEF CallInv, Agree, EffectsAgree
  <2>4. "shmem_resource" \notin call.nulls
    BY <2>2, <2>3, Zenon DEF CallInv
  <2>5. opened \in OpenedByClient /\ freed \in FreedByClient
    BY Zenon DEF OpenedByClient, FreedByClient, Effects
  <2>6. CASE kept
    <3>1. opened \in StubDone(TheStub, command.ret # "error", kept)
      BY <2>1, <2>3, <2>5, <2>6, Zenon DEF StubDone
    <3>2. QED
      BY <2>1, <2>4, <3>1, Zenon DEF Touching
  <2>7. CASE ~kept
    <3>1. freed \in StubDone(TheStub, command.ret # "error", kept)
      BY <2>1, <2>3, <2>5, <2>7, Zenon DEF StubDone
    <3>2. QED
      BY <2>1, <2>4, <3>1, Zenon DEF Touching
  <2>8. QED
    BY <2>6, <2>7, Zenon
<1>3. ~Interrupted
  BY Zenon DEF Interrupted
<1>4. QED
  BY <1>1, <1>2, <1>3, EndedSteps, Zenon DEF Ended

LEMMA ResultsStep ==
  ASSUME IInv, UnservedCallsFail, ResultsReachTheCaller, [Next]_vars, "lateInterrupt" \notin Faults
  PROVE  ResultsReachTheCaller'
<1> SUFFICES ASSUME Ended', ret' # "error"
             PROVE  ResultsReachTheCaller'
  BY Zenon DEF ResultsReachTheCaller
<1>1. UnservedCallsFail'
  BY UnservedStep, Zenon
<1>2. seen' # Nothing /\ command'.ret # "error"
  BY <1>1, Zenon DEF UnservedCallsFail
<1>3. CASE UNCHANGED vars
  BY <1>3, Zenon DEF vars, ResultsReachTheCaller, Ended, Deferred, InPlace
<1>4. CASE Interrupted
  BY <1>2, <1>4, Zenon DEF Interrupted, IInv, FreshInv, Sent
<1>5. ASSUME NEW kept \in BOOLEAN, Return(kept)
      PROVE  ResultsReachTheCaller'
  <2>1. pc = "handled" /\ UNCHANGED <<call, command, staging>> /\ done \subseteq done'
    BY <1>5, Zenon DEF Return
  <2>2. Left /\ CallInv /\ KeptInv /\ command.ret # "error"
    BY <1>2, <2>1, Zenon DEF IInv, Left, Answered
  <2>3. /\ Touching(HandlerEffects(TheHandler), call.nulls) \subseteq done'
        /\ Touching(TheStub.before, call.nulls) \subseteq done'
        /\ command.ret = TheMessage.returns
    BY <2>1, <2>2, Zenon DEF IInv, ServedInv, KeptInv, Answered
  <2>4. OutputsAgree(TheStub, TheHandler, call.route)
    BY <2>2, Zenon DEF CallInv, Agree
  <2>5. ret' # "remote"
    BY <1>5, <2>3, <2>4, Zenon DEF Return, OutputsAgree
  <2>6. ASSUME NEW p \in Args, Given(p), Role(p) \in Outputs, ~Deferred(p)
        PROVE  /\ p \in TheHandler.captures \cap TheMessage.copiedOut => command.captures[p] = Written(p)
               /\ p \in TheStub.staged => staging[p] = "result"
               /\ InPlace(p) => memory[p] = Written(p)
    BY <2>1, <2>2, <2>6, Zenon DEF IInv, ReadyInv
  <2>7. ASSUME NEW p \in Args, Given(p), Role(p) \notin Scalars
        PROVE  /\ p \in TheMessage.copiedOut => memory'[p] = Translated(TheStub, p, command.captures[p])
               /\ p \in TheStub.copiedBack \ TheMessage.copiedOut => memory'[p] = staging[p]
               /\ p \notin TheMessage.copiedOut \cup TheStub.copiedBack => memory'[p] = memory[p]
    <3>1. p \in DOMAIN memory
      BY <2>2, <2>7, Zenon DEF KeptInv
    <3>2. memory'[p] = CASE p \in TheMessage.copiedOut /\ Given(p) -> Translated(TheStub, p, command.captures[p])
                         [] p \in TheStub.copiedBack /\ Given(p) -> staging[p]
                         [] OTHER -> memory[p]
      BY <1>5, <3>1, Zenon DEF Return
    <3>3. TheMessage.copiedOut \cap TheStub.copiedBack = {}
      BY <2>2, Zenon DEF CallInv, Agree, OneWay
    <3>4. QED
      BY <2>7, <3>2, <3>3, Zenon
  <2>8. ASSUME NEW p \in Args, Given(p), Role(p) \in {Out, InOut, OutHandles, Created, Info}
        PROVE  /\ Role(p) \in {OutHandles, Created} => memory'[p] = "local"
               /\ Role(p) = Info => memory'[p] \in {"result", "local"}
               /\ Role(p) \in {Out, InOut} => memory'[p] = "result"
    <3>1. Role(p) \in Outputs /\ Role(p) \notin Operands /\ Role(p) \notin Scalars
      BY <2>8, Zenon DEF Outputs, Operands, Scalars, Out, InOut, OutHandles, Created, Info, Source,
                  Destination, Value, Handle, Modified, Destroyed
    <3>2. ~Deferred(p)
      BY <3>1, Zenon DEF Deferred
    <3>3. p \in TheHandler.captures \cap TheMessage.copiedOut
      BY <2>4, <2>8, Zenon DEF OutputsAgree
    <3>4. memory'[p] = Translated(TheStub, p, Written(p))
      BY <2>6, <2>7, <2>8, <3>1, <3>2, <3>3, Zenon
    <3>5. CASE Role(p) \in {OutHandles, Created}
      <4>1. Written(p) = "remote" /\ p \in TheStub.local
        BY <2>4, <3>5, Zenon DEF OutputsAgree, Written
      <4>2. QED
        BY <3>4, <3>5, <4>1, Zenon DEF Translated, OutHandles, Created, Info, Out, InOut
    <3>6. CASE Role(p) = Info
      <4>1. \/ Written(p) = "result"
            \/ Written(p) = "remote" /\ (p \in TheStub.local \/ Kind(p) \in TheStub.localInfos)
        BY <2>4, <3>6, Zenon DEF OutputsAgree, Written, Info, OutHandles, Created
      <4>2. QED
        BY <3>4, <3>6, <4>1, Zenon DEF Translated, OutHandles, Created, Info, Out, InOut
    <3>7. CASE Role(p) \in {Out, InOut}
      <4>1. Written(p) = "result"
        BY <3>7, Zenon DEF Written, Out, InOut, OutHandles, Created, Info
      <4>2. QED
        BY <3>4, <3>7, <4>1, Zenon DEF Translated, OutHandles, Created, Info, Out, InOut
    <3>8. QED
      BY <2>8, <3>5, <3>6, <3>7, Zenon
  <2>9. ASSUME NEW p \in Args, Given(p), Role(p) = Destination
        PROVE  \/ memory'[p] = "result"
               \/ /\ Deferred(p)
                  /\ \/ InPlace(p)
                     \/ /\ <<"registerCopyOperation", p>> \in done'
                        /\ p \in TheHandler.remapped \/ <<"addToMap", p>> \in done'
    <3>1. Role(p) \in Outputs /\ Role(p) \in Operands /\ Role(p) \notin Scalars
      BY <2>9, Zenon DEF Outputs, Operands, Scalars, Destination, Value, Handle, Modified, Destroyed
    <3>2. Written(p) = "result"
      BY <2>9, Zenon DEF Written, Destination, OutHandles, Created, Info
    <3>3. Translated(TheStub, p, "result") = "result"
      BY Zenon DEF Translated
    <3>4. CASE WorksInPlace(TheStub, TheHandler, call.route, p) /\ p \notin TheMessage.copiedOut \cup TheStub.copiedBack
      <4>1. InPlace(p)
        BY <2>2, <3>4, OperandFacts, Zenon
      <4>2. QED
        BY <2>6, <2>7, <2>9, <3>1, <3>2, <3>4, <4>1, Zenon
    <3>5. CASE /\ Arrives(TheStub, TheHandler, p) \/ AlwaysDeferred(TheStub, call.route, p)
               /\ MayBeDeferred(TheStub, call.route, p) =>
                    /\ <<"registerCopyOperation", p>> \in HandlerEffects(TheHandler)
                    /\ p \in TheHandler.remapped \/ <<"addToMap", p>> \in TheStub.before
      <4>1. CASE Deferred(p)
        <5>1. MayBeDeferred(TheStub, call.route, p)
          BY <2>2, <4>1, OperandFacts, Zenon
        <5>2. <<"registerCopyOperation", p>> \in done'
          BY <2>3, <2>9, <3>5, <5>1, Zenon DEF Touching
        <5>3. p \in TheHandler.remapped \/ <<"addToMap", p>> \in done'
          BY <2>3, <2>9, <3>5, <5>1, Zenon DEF Touching
        <5>4. QED
          BY <4>1, <5>2, <5>3, Zenon
      <4>2. CASE ~Deferred(p)
        <5>1. Arrives(TheStub, TheHandler, p)
          BY <3>5, <4>2, Zenon DEF AlwaysDeferred, Deferred
        <5>2. CASE p \in TheHandler.captures \cap TheMessage.copiedOut
          BY <2>6, <2>7, <2>9, <3>1, <3>2, <3>3, <4>2, <5>2, Zenon
        <5>3. CASE p \in TheStub.staged \cap TheStub.copiedBack
          <6>1. p \notin TheMessage.copiedOut
            BY <2>2, <5>3, Zenon DEF CallInv, Agree, OneWay
          <6>2. QED
            BY <2>6, <2>7, <2>9, <3>1, <4>2, <5>3, <6>1, Zenon
        <5>4. QED
          BY <5>1, <5>2, <5>3, Zenon DEF Arrives
      <4>3. QED
        BY <4>1, <4>2, Zenon
    <3>6. QED
      BY <2>4, <2>9, <3>4, <3>5, Zenon DEF OutputsAgree
  <2>10. \A p \in Args : Deferred(p)' = Deferred(p) /\ InPlace(p)' = InPlace(p)
    BY <2>1, Zenon DEF Deferred, InPlace
  <2>11. ASSUME NEW p \in Args', Given(p)'
         PROVE  /\ Role(p)' \in {OutHandles, Created} => memory'[p] = "local"
                /\ Role(p)' = Info => memory'[p] \in {"result", "local"}
                /\ Role(p)' \in {Out, InOut} => memory'[p] = "result"
    BY <2>1, <2>8, <2>11, Zenon
  <2>12. ASSUME NEW p \in Args', Given(p)', Role(p)' = Destination
         PROVE  \/ memory'[p] = "result"
                \/ /\ Deferred(p)'
                   /\ \/ InPlace(p)'
                      \/ /\ <<"registerCopyOperation", p>> \in done'
                         /\ p \in TheHandler'.remapped \/ <<"addToMap", p>> \in done'
    BY <2>1, <2>9, <2>10, <2>12, Zenon
  <2>13. QED
    BY <2>5, <2>11, <2>12, Zenon DEF ResultsReachTheCaller
<1>6. QED
  BY <1>3, <1>4, <1>5, EndedSteps, Zenon

-----------------------------------------------------------------------------
(* The theorems, for every set of functions that agree, any number of       *)
(* parameters left out and every fault that Faults may name.                *)

\* What the driver was called with, at the end of every handler.
THEOREM ApiDriverArguments == Spec => []SeenInv
<1>1. Init => SeenInv
  BY Zenon DEF Init, SeenInv, Served
<1>2. QED
  BY <1>1, ApiCallInvariant, SeenStep, PTL DEF Spec

\* Every handler calls the driver with the values, inputs and nulls that the
\* application passed to the stub.
THEOREM ApiDriverGetsTheCall == Spec => []DriverGetsTheCall
<1>1. SeenInv => DriverGetsTheCall
  BY Zenon DEF SeenInv, DriverGetsTheCall
<1>2. QED
  BY <1>1, ApiDriverArguments, PTL

\* Every object in a driver call is the driver's own, or the internal event that
\* the handler relays to the application's.
THEOREM ApiHandlesAreTranslated == Spec => []HandlesAreTranslated
<1>1. IInv /\ SeenInv => HandlesAreTranslated
  <2> SUFFICES ASSUME IInv, SeenInv, Served, NEW p \in Args, Given(p), IsObject(p)
               PROVE  \/ seen[p] = "remote"
                      \/ seen[p] = "marker" /\ (command.ret # "error" => <<"addRelay", p>> \in done)
    BY Zenon DEF HandlesAreTranslated
  <2>1. \/ seen[p] = "remote"
        \/ seen[p] = "marker" /\ TheHandler.marker /\ Role(p) = Modified
    BY Zenon DEF SeenInv
  <2>2. Answered /\ Left
    BY Zenon DEF Served, Answered, Left
  <2>3. ASSUME TheHandler.marker, Role(p) = Modified
        PROVE  <<"addRelay", p>> \in HandlerEffects(TheHandler)
    BY <2>2, <2>3, Zenon DEF IInv, CallInv, Agree, EffectsAgree
  <2>4. command.ret # "error" => Touching(HandlerEffects(TheHandler), call.nulls) \subseteq done
    BY <2>2, Zenon DEF IInv, ServedInv
  <2>5. QED
    BY <2>1, <2>3, <2>4, Zenon DEF Touching
<1>2. QED
  BY <1>1, ApiCallInvariant, ApiDriverArguments, PTL

\* No pointer of the client that the service cannot follow is passed to the driver.
THEOREM ApiDriverReachesItsMemory == Spec => []DriverReachesItsMemory
<1>1. SeenInv => DriverReachesItsMemory
  BY Zenon DEF SeenInv, DriverReachesItsMemory
<1>2. QED
  BY <1>1, ApiDriverArguments, PTL

\* No handler refuses a command for what its stub put there.
THEOREM ApiHandlersAcceptTheirCalls == Spec => []HandlersAcceptTheirCalls
BY ApiCallInvariant, HandlersAcceptInIInv, PTL

\* A stub posts a command without waiting only if nothing comes back from it.
THEOREM ApiAsyncCallsOweNothing == Spec => []AsyncCallsOweNothing
BY ApiCallInvariant, AsyncCallsInIInv, PTL

\* The handler of a posted command that fails takes the channel down.
THEOREM ApiAsyncFailuresAreNoticed == Spec => []AsyncFailuresAreNoticed
<1>1. Init => AsyncFailuresAreNoticed
  BY Zenon DEF Init, AsyncFailuresAreNoticed
<1>2. QED
  BY <1>1, ApiCallInvariant, NoticedStep, PTL DEF Spec

\* Shared USM is moved to the GPU before the command that works on it is sent.
THEOREM ApiSharedMemoryMoved == Spec => []SharedMemoryMoved
BY ApiCallInvariant, SharedMemoryMovedInIInv, PTL

\* The client's copy of an event's state is dropped before the command is sent.
THEOREM ApiEventsForgotten == Spec => []EventsForgotten
BY ApiCallInvariant, EventsForgottenInIInv, PTL

\* The service tracks what its driver created, and no longer what it destroyed.
THEOREM ApiObjectsTracked == Spec => []ObjectsTracked
<1>1. IInv => ObjectsTracked
  <2> SUFFICES ASSUME IInv, Served, command.ret # "error", NEW p \in Args, Given(p)
               PROVE  /\ Role(p) = Created => <<"trackAllocatedResource", p>> \in done
                      /\ Role(p) = Destroyed => <<"removeResourceTracking", p>> \in done
    BY Zenon DEF ObjectsTracked
  <2>1. Answered /\ Left
    BY Zenon DEF Served, Answered, Left
  <2>2. EffectsAgree(TheStub, TheHandler, call.route)
    BY <2>1, Zenon DEF IInv, CallInv, Agree
  <2>3. Touching(HandlerEffects(TheHandler), call.nulls) \subseteq done
    BY <2>1, Zenon DEF IInv, ServedInv
  <2>4. QED
    BY <2>2, <2>3, Zenon DEF EffectsAgree, Touching
<1>2. QED
  BY <1>1, ApiCallInvariant, PTL

\* The stub of a call that no driver served returns an error.
THEOREM ApiUnservedCallsFail == Spec => []UnservedCallsFail
<1>1. Init => UnservedCallsFail
  BY Zenon DEF Init, UnservedCallsFail, Ended
<1>2. QED
  BY <1>1, ApiCallInvariant, UnservedStep, PTL DEF Spec

\* Shared USM that the stub cannot map is not left allocated.
THEOREM ApiUnmappedMemoryIsFreed == Spec => []UnmappedMemoryIsFreed
<1>1. Init => UnmappedMemoryIsFreed
  BY Zenon DEF Init, UnmappedMemoryIsFreed
<1>2. QED
  BY <1>1, ApiCallInvariant, FreedStep, PTL DEF Spec

\* A stub that reports success has given the application everything it asked for,
\* unless its wait can be interrupted after the handler has written the result.
THEOREM ApiResultsReachTheCaller ==
  ASSUME "lateInterrupt" \notin Faults
  PROVE  Spec => []ResultsReachTheCaller
<1>1. Init => ResultsReachTheCaller
  BY Zenon DEF Init, ResultsReachTheCaller, Ended
<1>2. IInv /\ UnservedCallsFail /\ ResultsReachTheCaller /\ [Next]_vars => ResultsReachTheCaller'
  BY ResultsStep, Zenon
<1>3. QED
  BY <1>1, <1>2, ApiCallInvariant, ApiUnservedCallsFail, PTL DEF Spec
=============================================================================
