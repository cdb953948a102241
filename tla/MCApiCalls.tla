----------------------------- MODULE MCApiCalls -----------------------------
(***************************************************************************)
(* The calls of OpenCL and Level Zero for TLC.  Every entry point is here,  *)
(* but for the calls and routes that break a property in the code as it is: *)
(* FaultyRoute names them, and the README says what happens in each.  TLC   *)
(* also evaluates here the assumption EveryCallAgrees of the proofs.        *)
(***************************************************************************)
EXTENDS ApiContract, OclEntries, OclHandlers, ZeEntries, ZeHandlers

\* The driver of the service gets an address of the client process.
RawPointers ==
  {"zesDeviceResetExt", "zesRasGetState", "zesFrequencyOcGetVoltageTarget",
   "zesFrequencyOcGetMode", "zesFrequencyOcGetIccMax", "zesFrequencyOcGetTjMax"}

\* The handle found by a query is not translated.
ImageQueries == {"clGetImageInfo", "clGetSamplerInfo"}

\* Launch arguments in shared USM are not handed to the GPU.
Indirect ==
  {"zeCommandListAppendLaunchKernelIndirect", "zeCommandListAppendLaunchMultipleKernelsIndirect"}

\* The client keeps an old state of the event.
Signals == {"zeEventHostSignal", "zetMetricStreamerOpen"}

\* The signalled event is not translated.
Timestamps == {"zeCommandListAppendWriteGlobalTimestamp"}

\* A failure of the asynchronous call is not noticed.
Unnoticed == {"zeCommandQueueExecuteCommandLists", "zeCommandListDestroy"}

\* The service does not track the object, and the client gets it without a wrapper.
Untracked ==
  {"zePhysicalMemCreate", "zetMetricQueryPoolCreate", "zetMetricQueryCreate", "zetDebugAttach"}

FaultyRoute(e, r) ==
  CASE e = "zeCommandListAppendMemoryCopyRegion" -> r.list # "regular" /\ r.kind["srcptr"] = "local"
    [] e = "zeCommandListAppendMemoryCopyFromContext" -> r.list = "immediateSynchronous"
    [] e = "zeCommandListAppendQueryKernelTimestamps" -> r.list # "immediateSynchronous"
    [] e = "zesDeviceProcessesGetState" -> r.list = "states"
    [] e = "clSetKernelArg" -> r.kind["arg_value"] = "object"
    [] e = "zeKernelSetArgumentValue" -> r.kind["pArgValue"] = "object"
    [] e \in {"clCreateImage", "clCreateImageWithProperties"} -> r.kind["image_desc"] = "object"
    [] OTHER -> e \in RawPointers \cup ImageQueries \cup Indirect \cup Signals \cup Timestamps
                        \cup Unnoticed \cup Untracked

Correct(entries) ==
  [e \in DOMAIN entries |->
     [r \in {q \in DOMAIN entries[e] : ~FaultyRoute(e, q)} |-> entries[e][r]]]

CorrectEntries == [ocl |-> Correct(OclEntries), level_zero |-> Correct(ZeEntries)]

AllHandlers ==
  [ocl |-> registerGeneratedHandlersOcl, level_zero |-> registerGeneratedHandlersLevelZero]
=============================================================================
