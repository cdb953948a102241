------------------------------ MODULE ZeEntries ------------------------------
(*****************************************************************************)
(* The entry points of Level Zero: hand-written ones                         *)
(* (icd_level_zero_api_*.cpp), those generated to choose a stub by the       *)
(* kinds of their pointers, and the stubs that are entry points themselves.  *)
(*****************************************************************************)
EXTENDS ZeStubs, ZeToolsStubs

-----------------------------------------------------------------------------
(* Entry points around a stub.                                              *)

\* Objects keep the properties the driver gave for them (properties_cache.h).
obtainProperties(stub, properties) ==
  [stub EXCEPT
    !.shortcut = TRUE, !.early = {properties}, !.after = @ \cup Effects("cache", {properties})]

obtainPropertiesOfAll(stub, properties) ==
  [stub EXCEPT
    !.shortcut = TRUE, !.required = {"pCount"}, !.after = @ \cup Effects("cache", {properties})]

\* A queue in synchronous mode is emulated with an asynchronous one.
zeCommandQueueCreate ==
  [zeCommandQueueCreateRpcHelper EXCEPT
    !.required = {"desc"}, !.adjusted = {"desc"},
    !.onSuccess = @ \cup Effects("setEmulatedSynchronousMode", {"phCommandQueue"})]

\* Such a queue is synchronized by a second call, zeCommandQueueSynchronize.
zeCommandQueueExecuteCommandLists ==
  [zeCommandQueueExecuteCommandListsRpcHelper EXCEPT
    !.required = {"phCommandLists"}, !.mayRefuse = TRUE,
    !.before = Effects("moveSharedAllocationsToGpu", {"phCommandLists"})
        \cup Effects("writeRequiredMemory", {"phCommandLists"})]

zeCommandQueueSynchronize == [zeCommandQueueSynchronizeRpcHelper EXCEPT !.shortcut = TRUE]

\* The devices an affinity mask leaves are known to the client.
zeDeviceGet == [zeDeviceGetRpcHelper EXCEPT !.shortcut = TRUE]
zeDeviceGetSubDevices == [zeDeviceGetSubDevicesRpcHelper EXCEPT !.shortcut = TRUE]

\* File descriptors are translated before or after the call (icd_level_zero_ipc_helpers.h).
toRemoteFds(stub, p) == [stub EXCEPT !.mayRefuse = TRUE, !.adjusted = {p}]
toLocalFds(stub) == [stub EXCEPT !.fallible = TRUE]

zeEventPoolPutIpcHandle ==
  [toRemoteFds(zeEventPoolPutIpcHandleRpcHelper, "hIpc") EXCEPT
    !.before = Effects("decreaseRefcountForIpcFd", {"hIpc"})]

zeMemOpenIpcHandle ==
  [toRemoteFds(zeMemOpenIpcHandleRpcHelper, "handle") EXCEPT
    !.required = {"pptr"}, !.before = Effects("addPtrToIpcMap", {"pptr"})]

zeMemPutIpcHandle ==
  [toRemoteFds(zeMemPutIpcHandleRpcHelper, "handle") EXCEPT
    !.before = Effects("decreaseRefcountForIpcFd", {"handle"})]

zeMemCloseIpcHandle ==
  [zeMemCloseIpcHandleRpcHelper EXCEPT
    !.before = Effects("removePtrFromIpcMap", {"ptr"})]

zeMemGetIpcHandleFromFileDescriptorExp ==
  toLocalFds(toRemoteFds(zeMemGetIpcHandleFromFileDescriptorExpRpcHelper, "handle"))

zeMemGetFileDescriptorFromIpcHandleExp ==
  toLocalFds(toRemoteFds(zeMemGetFileDescriptorFromIpcHandleExpRpcHelper, "ipcHandle"))

zexMemOpenIpcHandles ==
  [toRemoteFds(zexMemOpenIpcHandlesRpcHelper, "pIpcHandles") EXCEPT !.early = {"pIpcHandles"}]

\* An allocation that cannot be opened is freed, but the call still reports success.
zeMemAllocHost ==
  [zeMemAllocHostRpcHelper EXCEPT
    !.required = {"pptr"}, !.onSuccess = OpenedByClient,
    !.fallible = TRUE, !.undone = FreedByClient, !.givenUp = "success"]

\* Without page faults shared memory is host memory.
zeMemAllocShared ==
  [r \in [list : {"sharedAllocationsEnabled", "sharedAllocationsDisabled"}, kind : {NoKinds}] |->
     IF r.list = "sharedAllocationsDisabled" THEN zeMemAllocHost
     ELSE [zeMemAllocSharedRpcHelper EXCEPT
            !.required = {"pptr", "device_desc", "host_desc"},
            !.onSuccess = OpenedByClient \cup Effects("registerSharedAlloc", {"pptr"}),
            !.fallible = TRUE, !.undone = FreedByClient, !.givenUp = "success"]]

zeMemGetAllocProperties ==
  [r \in [list : {"withExtensions", "plain"}, kind : {NoKinds}] |->
     IF r.list = "withExtensions"
     THEN [toLocalFds(zeMemGetAllocPropertiesRpcHelper) EXCEPT !.required = {"pMemAllocProperties"}]
     ELSE [zeMemGetAllocPropertiesRpcHelper EXCEPT
            !.required = {"pMemAllocProperties"}, !.shortcut = TRUE, !.forced = {"phDevice"},
            !.after = Effects("cacheProperties", {"pMemAllocProperties"})]]

\* Kernels keep the arguments and the group size they were given, before the call.
zeKernelSetArgumentValue ==
  [zeKernelSetArgumentValueRpcHelper EXCEPT
    !.shortcut = TRUE,
    !.before = Effects("storeKernelArg", {"pArgValue"}) \cup Effects("cacheKernelArg", {"hKernel"})]

zeKernelSetGroupSize ==
  [zeKernelSetGroupSizeRpcHelper EXCEPT
    !.shortcut = TRUE, !.before = Effects("storeGroupSize", {"hKernel"})]

zeKernelSuggestGroupSize ==
  [zeKernelSuggestGroupSizeRpcHelper EXCEPT
    !.shortcut = TRUE, !.required = {"groupSizeX", "groupSizeY", "groupSizeZ"},
    !.after = Effects("storeSuggestedGroupSizes", {"hKernel"})]

\* A query for the states of processes says that it succeeded, whatever the service says.
zesDeviceProcessesGetState ==
  [r \in [list : {"count", "states"}, kind : {NoKinds}] |->
     [zesDeviceProcessesGetStateRpcHelper EXCEPT !.early = {"pCount"}, !.masked = r.list = "states"]]

\* Modules keep the names of their kernels, and ask for them with a length of their own.
zeModuleGetKernelNames ==
  [zeModuleGetKernelNamesRpcHelper EXCEPT
    !.early = {"hModule"}, !.shortcut = TRUE, !.required = {"totalLength"}]

zetMetricStreamerReadData ==
  [zetMetricStreamerReadDataRpcHelper EXCEPT
    !.staged = {"pRawData"}, !.copiedBack = {"pRawData"}, !.required = {"pRawDataSize"}]

zeDriverGetLastErrorDescriptionOfThread ==
  [zeDriverGetLastErrorDescriptionRpcHelper EXCEPT !.required = {"pString"}]

\* Offsets are applied by the client to results it asked for without them.
zeCommandListAppendQueryKernelTimestamps ==
  [zeCommandListAppendQueryKernelTimestampsRpcHelper EXCEPT
    !.early = {"dstptr"}, !.adjusted = {"pOffsets"}]

-----------------------------------------------------------------------------
(* Entry points that choose among stubs, by the type of the list              *)
(* (icd_level_zero_api_command_list.cpp) and the kinds of the operands        *)
(* (generated_icd_level_zero.cpp).                                            *)

zeCommandListAppendWriteGlobalTimestamp ==
  LET stubs == [local |-> zeCommandListAppendWriteGlobalTimestamp_Local,
                usm |-> zeCommandListAppendWriteGlobalTimestamp_Usm,
                shared |-> zeCommandListAppendWriteGlobalTimestamp_Shared]
  IN [r \in [list : ListType, kind : [{"dstptr"} -> PointerType]] |-> stubs[r.kind["dstptr"]]]

\* Copies and fills hand shared USM to the GPU, or note it for the list's execution.
MovingOperands(stub, early, dst, src) ==
  [stub EXCEPT
    !.early = {dst, src} \cup early,
    !.before = @ \cup Effects("moveAllocationToGpu", {dst, src})]

Copying(early, sources, stubs) ==
  [r \in [list : ListType, kind : [dstptr : PointerType, srcptr : sources]] |->
     MovingOperands(stubs[r.list][r.kind["dstptr"]][r.kind["srcptr"]], early, "dstptr", "srcptr")]

zeCommandListAppendMemoryCopyDeferred ==
  [usm |-> [usm |-> zeCommandListAppendMemoryCopyDeferred_Usm_Usm,
            shared |-> zeCommandListAppendMemoryCopyDeferred_Usm_Shared,
            local |-> zeCommandListAppendMemoryCopyDeferred_Usm_Remapped],
   shared |-> [usm |-> zeCommandListAppendMemoryCopyDeferred_Shared_Usm,
               shared |-> zeCommandListAppendMemoryCopyDeferred_Shared_Shared,
               local |-> zeCommandListAppendMemoryCopyDeferred_Shared_Remapped],
   local |-> [usm |-> zeCommandListAppendMemoryCopyDeferred_Remapped_Usm,
              shared |-> zeCommandListAppendMemoryCopyDeferred_Remapped_Shared,
              local |-> zeCommandListAppendMemoryCopyDeferred_Remapped_Remapped]]

zeCommandListAppendMemoryCopyImmediate ==
  [local |-> [local |-> zeCommandListAppendMemoryCopyImmediate_Local_Local,
              usm |-> zeCommandListAppendMemoryCopyImmediate_Local_Usm,
              shared |-> zeCommandListAppendMemoryCopyImmediate_Local_Shared],
   usm |-> [local |-> zeCommandListAppendMemoryCopyImmediate_Usm_Local,
            usm |-> zeCommandListAppendMemoryCopyImmediate_Usm_Usm,
            shared |-> zeCommandListAppendMemoryCopyImmediate_Usm_Shared],
   shared |-> [local |-> zeCommandListAppendMemoryCopyImmediate_Shared_Local,
               usm |-> zeCommandListAppendMemoryCopyImmediate_Shared_Usm,
               shared |-> zeCommandListAppendMemoryCopyImmediate_Shared_Shared]]

zeCommandListAppendMemoryCopyImmediateSynchronous ==
  [local |-> [local |-> zeCommandListAppendMemoryCopyImmediateSynchronous_Local_Local,
              usm |-> zeCommandListAppendMemoryCopyImmediateSynchronous_Local_Usm,
              shared |-> zeCommandListAppendMemoryCopyImmediateSynchronous_Local_Shared],
   usm |-> [local |-> zeCommandListAppendMemoryCopyImmediateSynchronous_Usm_Local,
            usm |-> zeCommandListAppendMemoryCopyImmediateSynchronous_Usm_Usm,
            shared |-> zeCommandListAppendMemoryCopyImmediateSynchronous_Usm_Shared],
   shared |-> [local |-> zeCommandListAppendMemoryCopyImmediateSynchronous_Shared_Local,
               usm |-> zeCommandListAppendMemoryCopyImmediateSynchronous_Shared_Usm,
               shared |-> zeCommandListAppendMemoryCopyImmediateSynchronous_Shared_Shared]]

zeCommandListAppendMemoryCopyRegionDeferred ==
  [usm |-> [usm |-> zeCommandListAppendMemoryCopyRegionDeferred_Usm_Usm,
            shared |-> zeCommandListAppendMemoryCopyRegionDeferred_Usm_Shared,
            local |-> zeCommandListAppendMemoryCopyRegionDeferred_Usm_Remapped],
   shared |-> [usm |-> zeCommandListAppendMemoryCopyRegionDeferred_Shared_Usm,
               shared |-> zeCommandListAppendMemoryCopyRegionDeferred_Shared_Shared,
               local |-> zeCommandListAppendMemoryCopyRegionDeferred_Shared_Remapped],
   local |-> [usm |-> zeCommandListAppendMemoryCopyRegionDeferred_Remapped_Usm,
              shared |-> zeCommandListAppendMemoryCopyRegionDeferred_Remapped_Shared,
              local |-> zeCommandListAppendMemoryCopyRegionDeferred_Remapped_Remapped]]

zeCommandListAppendMemoryCopyRegionImmediateSynchronous ==
  [local |-> [usm |-> zeCommandListAppendMemoryCopyRegionImmediateSynchronous_Local_Usm,
              shared |-> zeCommandListAppendMemoryCopyRegionImmediateSynchronous_Local_Shared,
              local |-> zeCommandListAppendMemoryCopyRegionImmediateSynchronous_Local_Remapped],
   usm |-> [usm |-> zeCommandListAppendMemoryCopyRegionImmediateSynchronous_Usm_Usm,
            shared |-> zeCommandListAppendMemoryCopyRegionImmediateSynchronous_Usm_Shared,
            local |-> zeCommandListAppendMemoryCopyRegionImmediateSynchronous_Usm_Remapped],
   shared |-> [usm |-> zeCommandListAppendMemoryCopyRegionImmediateSynchronous_Shared_Usm,
               shared |-> zeCommandListAppendMemoryCopyRegionImmediateSynchronous_Shared_Shared,
               local |-> zeCommandListAppendMemoryCopyRegionImmediateSynchronous_Shared_Remapped]]

zeCommandListAppendMemoryCopyRegionImmediateAsynchronous ==
  [local |-> [usm |-> zeCommandListAppendMemoryCopyRegionImmediateAsynchronous_Local_Usm,
              shared |-> zeCommandListAppendMemoryCopyRegionImmediateAsynchronous_Local_Shared,
              local |-> zeCommandListAppendMemoryCopyRegionImmediateAsynchronous_Local_Remapped],
   usm |-> [usm |-> zeCommandListAppendMemoryCopyRegionImmediateAsynchronous_Usm_Usm,
            shared |-> zeCommandListAppendMemoryCopyRegionImmediateAsynchronous_Usm_Shared,
            local |-> zeCommandListAppendMemoryCopyRegionImmediateAsynchronous_Usm_Remapped],
   shared |-> [usm |-> zeCommandListAppendMemoryCopyRegionImmediateAsynchronous_Shared_Usm,
               shared |-> zeCommandListAppendMemoryCopyRegionImmediateAsynchronous_Shared_Shared,
               local |-> zeCommandListAppendMemoryCopyRegionImmediateAsynchronous_Shared_Remapped]]

zeCommandListAppendMemoryCopyFromContextDeferred ==
  [usm |-> [usm |-> zeCommandListAppendMemoryCopyFromContextDeferred_Usm_Usm],
   shared |-> [usm |-> zeCommandListAppendMemoryCopyFromContextDeferred_Shared_Usm],
   local |-> [usm |-> zeCommandListAppendMemoryCopyFromContextDeferred_Remapped_Usm]]

zeCommandListAppendMemoryCopyFromContextImmediateSynchronous ==
  [local |-> [usm |-> zeCommandListAppendMemoryCopyFromContextImmediateSynchronous_Local_Usm],
   usm |-> [usm |-> zeCommandListAppendMemoryCopyFromContextImmediateSynchronous_Usm_Usm],
   shared |-> [usm |-> zeCommandListAppendMemoryCopyFromContextImmediateSynchronous_Shared_Usm]]

zeCommandListAppendMemoryCopyFromContextImmediateAsynchronous ==
  [local |-> [usm |-> zeCommandListAppendMemoryCopyFromContextImmediateAsynchronous_Local_Usm],
   usm |-> [usm |-> zeCommandListAppendMemoryCopyFromContextImmediateAsynchronous_Usm_Usm],
   shared |-> [usm |-> zeCommandListAppendMemoryCopyFromContextImmediateAsynchronous_Shared_Usm]]

zeCommandListAppendMemoryCopy ==
  Copying({"hCommandList"}, PointerType,
    [regular |-> zeCommandListAppendMemoryCopyDeferred,
     immediateSynchronous |-> zeCommandListAppendMemoryCopyImmediateSynchronous,
     immediateAsynchronous |-> zeCommandListAppendMemoryCopyImmediate])

zeCommandListAppendMemoryCopyRegion ==
  Copying({"hCommandList"}, PointerType,
    [regular |-> zeCommandListAppendMemoryCopyRegionDeferred,
     immediateSynchronous |-> zeCommandListAppendMemoryCopyRegionImmediateSynchronous,
     immediateAsynchronous |-> zeCommandListAppendMemoryCopyRegionImmediateAsynchronous])

\* Memory of another context is USM.
zeCommandListAppendMemoryCopyFromContext ==
  Copying({"hCommandList", "hContextSrc"}, {"usm"},
    [regular |-> zeCommandListAppendMemoryCopyFromContextDeferred,
     immediateSynchronous |-> zeCommandListAppendMemoryCopyFromContextImmediateSynchronous,
     immediateAsynchronous |-> zeCommandListAppendMemoryCopyFromContextImmediateAsynchronous])

zeCommandListAppendMemoryFillImmediate(kind) ==
  CASE kind["ptr"] = "usm" /\ kind["pattern"] = "usm" -> zeCommandListAppendMemoryFillRpcHelperUsm2Usm
    [] kind["ptr"] = "usm" /\ kind["pattern"] # "usm" -> zeCommandListAppendMemoryFillRpcHelperMalloc2Usm
    [] OTHER -> zeCommandListAppendMemoryFillRpcHelperUsm2Malloc

zeCommandListAppendMemoryFillRegular(kind) ==
  CASE kind["ptr"] = "usm" /\ kind["pattern"] = "usm" -> zeCommandListAppendMemoryFillRpcHelperUsm2Usm
    [] kind["ptr"] = "usm" /\ kind["pattern"] # "usm" -> zeCommandListAppendMemoryFillRpcHelperMalloc2Usm
    [] kind["ptr"] # "usm" /\ kind["pattern"] = "usm" -> zeCommandListAppendMemoryFillRpcHelperUsm2Malloc
    [] OTHER -> zeCommandListAppendMemoryFillRpcHelperMalloc2Malloc

\* Immediate lists only fill USM; blocks that overlap are left to the application.
zeCommandListAppendMemoryFill ==
  [r \in [list : ListType, kind : [ptr : PointerType, pattern : PointerType]] |->
     IF r.list = "regular"
     THEN MovingOperands(zeCommandListAppendMemoryFillRegular(r.kind), {"hCommandList"}, "ptr", "pattern")
     ELSE MovingOperands(zeCommandListAppendMemoryFillImmediate(r.kind),
            {"hCommandList"} \cup (IF r.kind["ptr"] # "usm" THEN {"always"} ELSE {}), "ptr", "pattern")]

-----------------------------------------------------------------------------
\* What an application calls, and writeRequiredMemory, which zeCommandQueueExecuteCommandLists
\* calls.  Waits (zeEvent-, zeFence-, zeCommandListHostSynchronize) repeat their stub until it succeeds or time is out.
ZeEntries ==
  [writeRequiredMemory |-> Plain(zeCommandQueueExecuteCommandListsCopyMemoryRpcHelper),
   zeCommandListAppendBarrier |-> OnList(zeCommandListAppendBarrier),
   zeCommandListAppendEventReset |-> OnList(zeCommandListAppendEventReset),
   zeCommandListAppendLaunchCooperativeKernel |->
     OnList(zeCommandListAppendLaunchCooperativeKernel),
   zeCommandListAppendLaunchKernel |-> OnList(zeCommandListAppendLaunchKernel),
   zeCommandListAppendLaunchKernelIndirect |-> OnList(zeCommandListAppendLaunchKernelIndirect),
   zeCommandListAppendLaunchMultipleKernelsIndirect |->
     OnList(zeCommandListAppendLaunchMultipleKernelsIndirect),
   zeCommandListAppendMemoryCopy |-> zeCommandListAppendMemoryCopy,
   zeCommandListAppendMemoryCopyFromContext |-> zeCommandListAppendMemoryCopyFromContext,
   zeCommandListAppendMemoryCopyRegion |-> zeCommandListAppendMemoryCopyRegion,
   zeCommandListAppendMemoryFill |-> zeCommandListAppendMemoryFill,
   zeCommandListAppendMemoryPrefetch |-> OnList(zeCommandListAppendMemoryPrefetch),
   zeCommandListAppendMemoryRangesBarrier |-> OnList(zeCommandListAppendMemoryRangesBarrier),
   zeCommandListAppendQueryKernelTimestamps |->
     [r \in [list : ListType, kind : [{"dstptr"} -> PointerType]] |-> zeCommandListAppendQueryKernelTimestamps],
   zeCommandListAppendSignalEvent |-> OnList(zeCommandListAppendSignalEvent),
   zeCommandListAppendWaitOnEvents |-> OnList(zeCommandListAppendWaitOnEvents),
   zeCommandListAppendWriteGlobalTimestamp |-> zeCommandListAppendWriteGlobalTimestamp,
   zeCommandListClose |-> Plain(zeCommandListClose),
   zeCommandListCreate |-> Plain(zeCommandListCreate),
   zeCommandListCreateImmediate |-> Plain(zeCommandListCreateImmediate),
   zeCommandListDestroy |-> Plain(zeCommandListDestroy),
   zeCommandListHostSynchronize |-> Plain(zeCommandListHostSynchronizeRpcHelper),
   zeCommandListReset |-> Plain(zeCommandListReset),
   zeCommandQueueCreate |-> Plain(zeCommandQueueCreate),
   zeCommandQueueDestroy |-> Plain(zeCommandQueueDestroy),
   zeCommandQueueExecuteCommandLists |-> OnQueue(zeCommandQueueExecuteCommandLists),
   zeCommandQueueSynchronize |-> Plain(zeCommandQueueSynchronize),
   zeContextCreate |-> Plain(zeContextCreate), zeContextCreateEx |-> Plain(zeContextCreateEx),
   zeContextDestroy |-> Plain(zeContextDestroy),
   zeContextEvictMemory |-> Plain(zeContextEvictMemory),
   zeContextGetStatus |-> Plain(zeContextGetStatus),
   zeContextMakeMemoryResident |-> Plain(zeContextMakeMemoryResident),
   zeContextSystemBarrier |-> Plain(zeContextSystemBarrier),
   zeDeviceCanAccessPeer |-> Plain(zeDeviceCanAccessPeer), zeDeviceGet |-> Plain(zeDeviceGet),
   zeDeviceGetCacheProperties |->
     Plain(obtainPropertiesOfAll(zeDeviceGetCachePropertiesRpcHelper, "pCacheProperties")),
   zeDeviceGetCommandQueueGroupProperties |->
     Plain(obtainPropertiesOfAll(zeDeviceGetCommandQueueGroupPropertiesRpcHelper, "pCommandQueueGroupProperties")),
   zeDeviceGetComputeProperties |->
     Plain(obtainProperties(zeDeviceGetComputePropertiesRpcHelper, "pComputeProperties")),
   zeDeviceGetExternalMemoryProperties |->
     Plain(obtainProperties(zeDeviceGetExternalMemoryPropertiesRpcHelper, "pExternalMemoryProperties")),
   zeDeviceGetFabricVertexExp |-> Plain(zeDeviceGetFabricVertexExp),
   zeDeviceGetGlobalTimestamps |-> Plain(zeDeviceGetGlobalTimestamps),
   zeDeviceGetImageProperties |->
     Plain(obtainProperties(zeDeviceGetImagePropertiesRpcHelper, "pImageProperties")),
   zeDeviceGetMemoryAccessProperties |->
     Plain(obtainProperties(zeDeviceGetMemoryAccessPropertiesRpcHelper, "pMemAccessProperties")),
   zeDeviceGetMemoryProperties |->
     Plain(obtainPropertiesOfAll(zeDeviceGetMemoryPropertiesRpcHelper, "pMemProperties")),
   zeDeviceGetModuleProperties |->
     Plain(obtainProperties(zeDeviceGetModulePropertiesRpcHelper, "pModuleProperties")),
   zeDeviceGetP2PProperties |-> Plain(zeDeviceGetP2PProperties),
   zeDeviceGetProperties |->
     Plain(obtainProperties(zeDeviceGetPropertiesRpcHelper, "pDeviceProperties")),
   zeDeviceGetStatus |-> Plain(zeDeviceGetStatus),
   zeDeviceGetSubDevices |-> Plain(zeDeviceGetSubDevices),
   zeDevicePciGetPropertiesExt |-> Plain(zeDevicePciGetPropertiesExt),
   zeDeviceReserveCacheExt |-> Plain(zeDeviceReserveCacheExt),
   zeDeviceSetCacheAdviceExt |-> Plain(zeDeviceSetCacheAdviceExt),
   zeDriverGetApiVersion |-> Plain(zeDriverGetApiVersion),
   zeDriverGetExtensionProperties |->
     Plain(obtainPropertiesOfAll(zeDriverGetExtensionPropertiesRpcHelper, "pExtensionProperties")),
   zeDriverGetIpcProperties |->
     Plain(obtainProperties(zeDriverGetIpcPropertiesRpcHelper, "pIpcProperties")),
   zeDriverGetLastErrorDescription |-> Plain(zeDriverGetLastErrorDescriptionOfThread),
   zeDriverGetProperties |->
     Plain(obtainProperties(zeDriverGetPropertiesRpcHelper, "pDriverProperties")),
   zeEventCreate |-> Plain(zeEventCreate), zeEventDestroy |-> Plain(zeEventDestroy),
   zeEventHostReset |-> Plain(zeEventHostReset), zeEventHostSignal |-> Plain(zeEventHostSignal),
   zeEventHostSynchronize |-> Plain(zeEventHostSynchronizeRpcHelper),
   zeEventPoolCloseIpcHandle |-> Plain(zeEventPoolCloseIpcHandle),
   zeEventPoolCreate |-> Plain(zeEventPoolCreate),
   zeEventPoolDestroy |-> Plain(zeEventPoolDestroy),
   zeEventPoolGetIpcHandle |-> Plain(toLocalFds(zeEventPoolGetIpcHandleRpcHelper)),
   zeEventPoolOpenIpcHandle |-> Plain(toRemoteFds(zeEventPoolOpenIpcHandleRpcHelper, "hIpc")),
   zeEventPoolPutIpcHandle |-> Plain(zeEventPoolPutIpcHandle),
   zeEventQueryKernelTimestamp |-> Plain(zeEventQueryKernelTimestamp),
   zeEventQueryKernelTimestampsExt |-> Plain(zeEventQueryKernelTimestampsExtRpcHelper),
   zeEventQueryStatus |-> Plain(zeEventQueryStatus),
   zeEventQueryTimestampsExp |-> Plain(zeEventQueryTimestampsExp),
   zeFabricEdgeGetExp |-> Plain(zeFabricEdgeGetExp),
   zeFabricEdgeGetPropertiesExp |-> Plain(zeFabricEdgeGetPropertiesExp),
   zeFabricEdgeGetVerticesExp |-> Plain(zeFabricEdgeGetVerticesExp),
   zeFabricVertexGetDeviceExp |-> Plain(zeFabricVertexGetDeviceExp),
   zeFabricVertexGetExp |-> Plain(zeFabricVertexGetExp),
   zeFabricVertexGetPropertiesExp |-> Plain(zeFabricVertexGetPropertiesExp),
   zeFabricVertexGetSubVerticesExp |-> Plain(zeFabricVertexGetSubVerticesExp),
   zeFenceCreate |-> Plain(zeFenceCreate), zeFenceDestroy |-> Plain(zeFenceDestroy),
   zeFenceHostSynchronize |-> Plain(zeFenceHostSynchronizeRpcHelper),
   zeFenceQueryStatus |-> Plain(zeFenceQueryStatus), zeFenceReset |-> Plain(zeFenceReset),
   zeImageCreate |-> Plain(zeImageCreate), zeImageDestroy |-> Plain(zeImageDestroy),
   zeImageGetProperties |-> Plain(zeImageGetProperties), zeInit |-> Plain(zeInitRpcHelper),
   zeKernelCreate |-> Plain(zeKernelCreate), zeKernelDestroy |-> Plain(zeKernelDestroy),
   zeKernelGetIndirectAccess |-> Plain(zeKernelGetIndirectAccess),
   zeKernelGetName |-> Plain(zeKernelGetName),
   zeKernelGetProperties |->
     Plain(obtainProperties(zeKernelGetPropertiesRpcHelper, "pKernelProperties")),
   zeKernelGetSourceAttributes |-> Plain(zeKernelGetSourceAttributesRpcHelper),
   zeKernelSchedulingHintExp |-> Plain(zeKernelSchedulingHintExp),
   zeKernelSetArgumentValue |->
     OfKinds(zeKernelSetArgumentValue, "pArgValue", {"plain", "object"}),
   zeKernelSetCacheConfig |-> Plain(zeKernelSetCacheConfig),
   zeKernelSetGlobalOffsetExp |-> Plain(zeKernelSetGlobalOffsetExp),
   zeKernelSetGroupSize |-> Plain(zeKernelSetGroupSize),
   zeKernelSetIndirectAccess |-> Plain(zeKernelSetIndirectAccess),
   zeKernelSuggestGroupSize |-> Plain(zeKernelSuggestGroupSize),
   zeKernelSuggestMaxCooperativeGroupCount |-> Plain(zeKernelSuggestMaxCooperativeGroupCount),
   zeMemAllocDevice |-> Plain(zeMemAllocDevice), zeMemAllocHost |-> Plain(zeMemAllocHost),
   zeMemAllocShared |-> zeMemAllocShared, zeMemCloseIpcHandle |-> Plain(zeMemCloseIpcHandle),
   zeMemFree |-> Plain(zeMemFree), zeMemFreeExt |-> Plain(zeMemFreeExt),
   zeMemGetAddressRange |-> Plain(zeMemGetAddressRange),
   zeMemGetAllocProperties |-> zeMemGetAllocProperties,
   zeMemGetFileDescriptorFromIpcHandleExp |-> Plain(zeMemGetFileDescriptorFromIpcHandleExp),
   zeMemGetIpcHandle |-> Plain(toLocalFds(zeMemGetIpcHandleRpcHelper)),
   zeMemGetIpcHandleFromFileDescriptorExp |-> Plain(zeMemGetIpcHandleFromFileDescriptorExp),
   zeMemOpenIpcHandle |-> Plain(zeMemOpenIpcHandle),
   zeMemPutIpcHandle |-> Plain(zeMemPutIpcHandle),
   zeModuleBuildLogDestroy |-> Plain(zeModuleBuildLogDestroy),
   zeModuleBuildLogGetString |-> Plain(zeModuleBuildLogGetString),
   zeModuleCreate |-> Plain(zeModuleCreate), zeModuleDestroy |-> Plain(zeModuleDestroy),
   zeModuleDynamicLink |-> Plain(zeModuleDynamicLink),
   zeModuleGetFunctionPointer |-> Plain(zeModuleGetFunctionPointer),
   zeModuleGetGlobalPointer |-> Plain(zeModuleGetGlobalPointer),
   zeModuleGetKernelNames |-> Plain(zeModuleGetKernelNames),
   zeModuleGetNativeBinary |-> Plain(zeModuleGetNativeBinary),
   zeModuleGetProperties |->
     Plain(obtainProperties(zeModuleGetPropertiesRpcHelper, "pModuleProperties")),
   zeModuleInspectLinkageExt |-> Plain(zeModuleInspectLinkageExt),
   zePhysicalMemCreate |-> Plain(zePhysicalMemCreate),
   zePhysicalMemDestroy |-> Plain(zePhysicalMemDestroy),
   zeVirtualMemFree |-> Plain(zeVirtualMemFree),
   zeVirtualMemGetAccessAttribute |-> Plain(zeVirtualMemGetAccessAttribute),
   zeVirtualMemMap |-> Plain(zeVirtualMemMap),
   zeVirtualMemQueryPageSize |-> Plain(zeVirtualMemQueryPageSize),
   zeVirtualMemReserve |-> Plain(zeVirtualMemReserve),
   zeVirtualMemSetAccessAttribute |-> Plain(zeVirtualMemSetAccessAttribute),
   zeVirtualMemUnmap |-> Plain(zeVirtualMemUnmap),
   zesDeviceEnumEngineGroups |-> Plain(zesDeviceEnumEngineGroups),
   zesDeviceEnumFrequencyDomains |-> Plain(zesDeviceEnumFrequencyDomains),
   zesDeviceEnumMemoryModules |-> Plain(zesDeviceEnumMemoryModules),
   zesDeviceEnumPerformanceFactorDomains |-> Plain(zesDeviceEnumPerformanceFactorDomains),
   zesDeviceEnumPowerDomains |-> Plain(zesDeviceEnumPowerDomains),
   zesDeviceEnumRasErrorSets |-> Plain(zesDeviceEnumRasErrorSets),
   zesDeviceEnumSchedulers |-> Plain(zesDeviceEnumSchedulers),
   zesDeviceEnumStandbyDomains |-> Plain(zesDeviceEnumStandbyDomains),
   zesDeviceEnumTemperatureSensors |-> Plain(zesDeviceEnumTemperatureSensors),
   zesDeviceEventRegister |-> Plain(zesDeviceEventRegister),
   zesDeviceGetCardPowerDomain |-> Plain(zesDeviceGetCardPowerDomain),
   zesDeviceGetProperties |->
     Plain(obtainProperties(zesDeviceGetPropertiesRpcHelper, "pProperties")),
   zesDeviceGetState |-> Plain(zesDeviceGetState),
   zesDevicePciGetBars |-> Plain(zesDevicePciGetBars),
   zesDevicePciGetProperties |-> Plain(zesDevicePciGetProperties),
   zesDevicePciGetState |-> Plain(zesDevicePciGetState),
   zesDevicePciGetStats |-> Plain(zesDevicePciGetStats),
   zesDeviceProcessesGetState |-> zesDeviceProcessesGetState,
   zesDeviceReset |-> Plain(zesDeviceReset), zesDeviceResetExt |-> Plain(zesDeviceResetExt),
   zesDriverEventListen |-> Plain(zesDriverEventListen),
   zesDriverEventListenEx |-> Plain(zesDriverEventListenEx),
   zesEngineGetActivity |-> Plain(zesEngineGetActivity),
   zesEngineGetProperties |-> Plain(zesEngineGetProperties),
   zesFrequencyGetAvailableClocks |-> Plain(zesFrequencyGetAvailableClocks),
   zesFrequencyGetProperties |-> Plain(zesFrequencyGetProperties),
   zesFrequencyGetRange |-> Plain(zesFrequencyGetRange),
   zesFrequencyGetState |-> Plain(zesFrequencyGetState),
   zesFrequencyGetThrottleTime |-> Plain(zesFrequencyGetThrottleTime),
   zesFrequencyOcGetCapabilities |-> Plain(zesFrequencyOcGetCapabilities),
   zesFrequencyOcGetIccMax |-> Plain(zesFrequencyOcGetIccMax),
   zesFrequencyOcGetMode |-> Plain(zesFrequencyOcGetMode),
   zesFrequencyOcGetTjMax |-> Plain(zesFrequencyOcGetTjMax),
   zesFrequencyOcGetVoltageTarget |-> Plain(zesFrequencyOcGetVoltageTarget),
   zesFrequencyOcSetIccMax |-> Plain(zesFrequencyOcSetIccMax),
   zesFrequencyOcSetMode |-> Plain(zesFrequencyOcSetMode),
   zesFrequencyOcSetTjMax |-> Plain(zesFrequencyOcSetTjMax),
   zesFrequencyOcSetVoltageTarget |-> Plain(zesFrequencyOcSetVoltageTarget),
   zesFrequencySetRange |-> Plain(zesFrequencySetRange),
   zesMemoryGetBandwidth |-> Plain(zesMemoryGetBandwidth),
   zesMemoryGetProperties |-> Plain(zesMemoryGetProperties),
   zesMemoryGetState |-> Plain(zesMemoryGetState),
   zesPerformanceFactorGetConfig |-> Plain(zesPerformanceFactorGetConfig),
   zesPerformanceFactorGetProperties |-> Plain(zesPerformanceFactorGetProperties),
   zesPerformanceFactorSetConfig |-> Plain(zesPerformanceFactorSetConfig),
   zesPowerGetEnergyCounter |-> Plain(zesPowerGetEnergyCounter),
   zesPowerGetEnergyThreshold |-> Plain(zesPowerGetEnergyThreshold),
   zesPowerGetLimits |-> Plain(zesPowerGetLimits),
   zesPowerGetLimitsExt |-> Plain(zesPowerGetLimitsExt),
   zesPowerGetProperties |-> Plain(zesPowerGetProperties),
   zesPowerSetEnergyThreshold |-> Plain(zesPowerSetEnergyThreshold),
   zesPowerSetLimits |-> Plain(zesPowerSetLimits),
   zesPowerSetLimitsExt |-> Plain(zesPowerSetLimitsExt),
   zesRasGetConfig |-> Plain(zesRasGetConfig),
   zesRasGetProperties |-> Plain(zesRasGetProperties), zesRasGetState |-> Plain(zesRasGetState),
   zesRasSetConfig |-> Plain(zesRasSetConfig),
   zesSchedulerGetCurrentMode |-> Plain(zesSchedulerGetCurrentMode),
   zesSchedulerGetProperties |-> Plain(zesSchedulerGetProperties),
   zesSchedulerGetTimeoutModeProperties |-> Plain(zesSchedulerGetTimeoutModeProperties),
   zesSchedulerGetTimesliceModeProperties |-> Plain(zesSchedulerGetTimesliceModeProperties),
   zesSchedulerSetComputeUnitDebugMode |-> Plain(zesSchedulerSetComputeUnitDebugMode),
   zesSchedulerSetExclusiveMode |-> Plain(zesSchedulerSetExclusiveMode),
   zesSchedulerSetTimeoutMode |-> Plain(zesSchedulerSetTimeoutMode),
   zesSchedulerSetTimesliceMode |-> Plain(zesSchedulerSetTimesliceMode),
   zesStandbyGetMode |-> Plain(zesStandbyGetMode),
   zesStandbyGetProperties |-> Plain(zesStandbyGetProperties),
   zesStandbySetMode |-> Plain(zesStandbySetMode),
   zesTemperatureGetConfig |-> Plain(zesTemperatureGetConfig),
   zesTemperatureGetProperties |-> Plain(zesTemperatureGetProperties),
   zesTemperatureGetState |-> Plain(zesTemperatureGetState),
   zesTemperatureSetConfig |-> Plain(zesTemperatureSetConfig),
   zetCommandListAppendMetricMemoryBarrier |-> OnList(zetCommandListAppendMetricMemoryBarrier),
   zetCommandListAppendMetricQueryBegin |-> OnList(zetCommandListAppendMetricQueryBegin),
   zetCommandListAppendMetricQueryEnd |-> OnList(zetCommandListAppendMetricQueryEnd),
   zetCommandListAppendMetricStreamerMarker |-> OnList(zetCommandListAppendMetricStreamerMarker),
   zetContextActivateMetricGroups |-> Plain(zetContextActivateMetricGroups),
   zetDebugAttach |-> Plain(zetDebugAttach), zetDebugDetach |-> Plain(zetDebugDetach),
   zetDeviceGetDebugProperties |-> Plain(zetDeviceGetDebugProperties),
   zetKernelGetProfileInfo |-> Plain(zetKernelGetProfileInfo),
   zetMetricGet |-> Plain(zetMetricGet),
   zetMetricGetProperties |-> Plain(zetMetricGetProperties),
   zetMetricGroupCalculateMetricValues |-> Plain(zetMetricGroupCalculateMetricValues),
   zetMetricGroupCalculateMultipleMetricValuesExp |->
     Plain(zetMetricGroupCalculateMultipleMetricValuesExp),
   zetMetricGroupGet |-> Plain(zetMetricGroupGet),
   zetMetricGroupGetExportDataExp |-> Plain(zetMetricGroupGetExportDataExp),
   zetMetricGroupGetGlobalTimestampsExp |-> Plain(zetMetricGroupGetGlobalTimestampsExp),
   zetMetricGroupGetProperties |-> Plain(zetMetricGroupGetProperties),
   zetMetricQueryCreate |-> Plain(zetMetricQueryCreate),
   zetMetricQueryDestroy |-> Plain(zetMetricQueryDestroy),
   zetMetricQueryGetData |-> Plain(zetMetricQueryGetData),
   zetMetricQueryPoolCreate |-> Plain(zetMetricQueryPoolCreate),
   zetMetricQueryPoolDestroy |-> Plain(zetMetricQueryPoolDestroy),
   zetMetricQueryReset |-> Plain(zetMetricQueryReset),
   zetMetricStreamerClose |-> Plain(zetMetricStreamerClose),
   zetMetricStreamerOpen |-> Plain(zetMetricStreamerOpen),
   zetMetricStreamerReadData |-> OfKinds(zetMetricStreamerReadData, "pRawData", PointerType),
   zexMemGetIpcHandles |-> Plain(toLocalFds(zexMemGetIpcHandlesRpcHelper)),
   zexMemOpenIpcHandles |-> Plain(zexMemOpenIpcHandles)]
==============================================================================
