------------------------------- MODULE ZeStubs -------------------------------
(*****************************************************************************)
(* The client stubs of Level Zero (generated_icd_level_zero.cpp): one        *)
(* definition per function that sends a message.  Here: the other functions. *)
(*****************************************************************************)
EXTENDS ZeMessages

zeInitRpcHelper ==
  Stub(ZeInitRpcM)

zeContextSystemBarrier ==
  StubOn(ZeContextSystemBarrierRpcM, {"hContext", "hDevice"})

zeCommandQueueCreateRpcHelper ==
  [StubOn(ZeCommandQueueCreateRpcM, {"hContext", "hDevice"}) EXCEPT
    !.required = {"desc"}, !.local = {"phCommandQueue"}]

zeCommandQueueDestroy ==
  [StubOn(ZeCommandQueueDestroyRpcM, {"hCommandQueue"}) EXCEPT
    !.after = Effects("dec", {"hCommandQueue"})]

zeCommandQueueExecuteCommandListsRpcHelper ==
  [StubOn(ZeCommandQueueExecuteCommandListsRpcM, {"hCommandQueue"}) EXCEPT
    !.remoteIfGiven = {"hFence"}, !.remoteElements = {"phCommandLists"}, !.async = TRUE,
    !.unless = {"synchronousQueue"}, !.onSuccess = Effects("readMemory", {"hCommandQueue"})]

zeCommandQueueExecuteCommandListsCopyMemoryRpcHelper ==
  Stub(ZeCommandQueueExecuteCommandListsCopyMemoryRpcHelperRpcM)

zeCommandQueueSynchronizeRpcHelper ==
  [StubOn(ZeCommandQueueSynchronizeRpcM, {"hCommandQueue"}) EXCEPT
    !.onSuccess = Effects("readMemory", {"hCommandQueue"})]

zeContextCreate ==
  [StubOn(ZeContextCreateRpcM, {"hDriver"}) EXCEPT !.local = {"phContext"}]

zeContextCreateEx ==
  [StubOn(ZeContextCreateExRpcM, {"hDriver"}) EXCEPT
    !.remoteElements = {"phDevices"}, !.local = {"phContext"}]

zeContextDestroy ==
  [StubOn(ZeContextDestroyRpcM, {"hContext"}) EXCEPT
    !.before = Effects("beforeReleaseCallback", {"hContext"}),
    !.after = Effects("dec", {"hContext"})]

zeContextGetStatus ==
  StubOn(ZeContextGetStatusRpcM, {"hContext"})

zeDeviceGetRpcHelper ==
  [StubOn(ZeDeviceGetRpcM, {"hDriver"}) EXCEPT !.local = {"phDevices"}]

zeDeviceGetSubDevicesRpcHelper ==
  [StubOn(ZeDeviceGetSubDevicesRpcM, {"hDevice"}) EXCEPT !.local = {"phSubdevices"}]

zeDeviceGetPropertiesRpcHelper ==
  [StubOn(ZeDeviceGetPropertiesRpcM, {"hDevice"}) EXCEPT
    !.after = Effects("patchDeviceName", {"pDeviceProperties"})]

zeDeviceGetComputePropertiesRpcHelper ==
  StubOn(ZeDeviceGetComputePropertiesRpcM, {"hDevice"})

zeDeviceGetModulePropertiesRpcHelper ==
  StubOn(ZeDeviceGetModulePropertiesRpcM, {"hDevice"})

zeDeviceGetCommandQueueGroupPropertiesRpcHelper ==
  StubOn(ZeDeviceGetCommandQueueGroupPropertiesRpcM, {"hDevice"})

zeDeviceGetMemoryPropertiesRpcHelper ==
  StubOn(ZeDeviceGetMemoryPropertiesRpcM, {"hDevice"})

zeDeviceGetMemoryAccessPropertiesRpcHelper ==
  [StubOn(ZeDeviceGetMemoryAccessPropertiesRpcM, {"hDevice"}) EXCEPT
    !.onSuccess = Effects("maskCapabilities", {"pMemAccessProperties"})]

zeDeviceGetCachePropertiesRpcHelper ==
  StubOn(ZeDeviceGetCachePropertiesRpcM, {"hDevice"})

zeDeviceGetImagePropertiesRpcHelper ==
  StubOn(ZeDeviceGetImagePropertiesRpcM, {"hDevice"})

zeDeviceGetExternalMemoryPropertiesRpcHelper ==
  StubOn(ZeDeviceGetExternalMemoryPropertiesRpcM, {"hDevice"})

zeDeviceGetP2PProperties ==
  StubOn(ZeDeviceGetP2PPropertiesRpcM, {"hDevice", "hPeerDevice"})

zeDeviceCanAccessPeer ==
  StubOn(ZeDeviceCanAccessPeerRpcM, {"hDevice", "hPeerDevice"})

zeDeviceGetStatus ==
  StubOn(ZeDeviceGetStatusRpcM, {"hDevice"})

zeDeviceGetGlobalTimestamps ==
  StubOn(ZeDeviceGetGlobalTimestampsRpcM, {"hDevice"})

zeDeviceReserveCacheExt ==
  StubOn(ZeDeviceReserveCacheExtRpcM, {"hDevice"})

zeDeviceSetCacheAdviceExt ==
  StubOn(ZeDeviceSetCacheAdviceExtRpcM, {"hDevice"})

zeDriverGetRpcHelper ==
  Stub(ZeDriverGetRpcM)

zeDriverGetApiVersion ==
  StubOn(ZeDriverGetApiVersionRpcM, {"hDriver"})

zeDriverGetPropertiesRpcHelper ==
  StubOn(ZeDriverGetPropertiesRpcM, {"hDriver"})

zeDriverGetIpcPropertiesRpcHelper ==
  StubOn(ZeDriverGetIpcPropertiesRpcM, {"hDriver"})

zeDriverGetExtensionPropertiesRpcHelper ==
  StubOn(ZeDriverGetExtensionPropertiesRpcM, {"hDriver"})

zeDriverGetLastErrorDescription ==
  Stub(ZeDriverGetLastErrorDescriptionRpcM)

zeDriverGetLastErrorDescriptionRpcHelper ==
  StubOn(ZeDriverGetLastErrorDescriptionRpcHelperRpcM, {"hDriver"})

zeEventPoolCreate ==
  [StubOn(ZeEventPoolCreateRpcM, {"hContext"}) EXCEPT
    !.remoteElements = {"phDevices"}, !.local = {"phEventPool"}]

zeEventPoolDestroy ==
  [StubOn(ZeEventPoolDestroyRpcM, {"hEventPool"}) EXCEPT
    !.after = Effects("dec", {"hEventPool"})]

zeEventCreate ==
  [StubOn(ZeEventCreateRpcM, {"hEventPool"}) EXCEPT !.local = {"phEvent"}]

zeEventDestroy ==
  [StubOn(ZeEventDestroyRpcM, {"hEvent"}) EXCEPT !.after = Effects("dec", {"hEvent"})]

zeEventPoolGetIpcHandleRpcHelper ==
  StubOn(ZeEventPoolGetIpcHandleRpcM, {"hEventPool"})

zeEventPoolOpenIpcHandleRpcHelper ==
  [StubOn(ZeEventPoolOpenIpcHandleRpcM, {"hContext"}) EXCEPT !.local = {"phEventPool"}]

zeEventPoolCloseIpcHandle ==
  [StubOn(ZeEventPoolCloseIpcHandleRpcM, {"hEventPool"}) EXCEPT
    !.after = Effects("dec", {"hEventPool"})]

zeEventPoolPutIpcHandleRpcHelper ==
  StubOn(ZeEventPoolPutIpcHandleRpcM, {"hContext"})

zeEventHostSignal ==
  StubOn(ZeEventHostSignalRpcM, {"hEvent"})

zeEventHostSynchronizeRpcHelper ==
  [StubOn(ZeEventHostSynchronizeRpcM, {"hEvent"}) EXCEPT
    !.shortcut = TRUE,
    !.onSuccess = Effects("readMemory", {"hEvent"}) \cup Effects("signal", {"hEvent"})]

zeEventQueryStatus ==
  [StubOn(ZeEventQueryStatusRpcM, {"hEvent"}) EXCEPT
    !.shortcut = TRUE,
    !.onSuccess = Effects("readMemory", {"hEvent"}) \cup Effects("signal", {"hEvent"})]

zeEventHostReset ==
  [StubOn(ZeEventHostResetRpcM, {"hEvent"}) EXCEPT
    !.shortcut = TRUE, !.before = Effects("clear", {"hEvent"}), !.async = TRUE]

zeEventQueryKernelTimestamp ==
  [StubOn(ZeEventQueryKernelTimestampRpcM, {"hEvent"}) EXCEPT
    !.shortcut = TRUE, !.required = {"dstptr"},
    !.onSuccess = Effects("storeTimestamp", {"hEvent"})]

zeEventQueryTimestampsExp ==
  StubOn(ZeEventQueryTimestampsExpRpcM, {"hEvent", "hDevice"})

zeEventQueryKernelTimestampsExtRpcHelper ==
  StubOn(ZeEventQueryKernelTimestampsExtRpcHelperRpcM, {"hEvent", "hDevice"})

zeFabricVertexGetExp ==
  StubOn(ZeFabricVertexGetExpRpcM, {"hDriver"})

zeFabricVertexGetSubVerticesExp ==
  Stub(ZeFabricVertexGetSubVerticesExpRpcM)

zeFabricVertexGetPropertiesExp ==
  Stub(ZeFabricVertexGetPropertiesExpRpcM)

zeFabricVertexGetDeviceExp ==
  [Stub(ZeFabricVertexGetDeviceExpRpcM) EXCEPT !.local = {"pDevice"}]

zeDeviceGetFabricVertexExp ==
  StubOn(ZeDeviceGetFabricVertexExpRpcM, {"hDevice"})

zeFabricEdgeGetExp ==
  Stub(ZeFabricEdgeGetExpRpcM)

zeFabricEdgeGetVerticesExp ==
  Stub(ZeFabricEdgeGetVerticesExpRpcM)

zeFabricEdgeGetPropertiesExp ==
  Stub(ZeFabricEdgeGetPropertiesExpRpcM)

zeFenceCreate ==
  [StubOn(ZeFenceCreateRpcM, {"hCommandQueue"}) EXCEPT !.local = {"phFence"}]

zeFenceDestroy ==
  [StubOn(ZeFenceDestroyRpcM, {"hFence"}) EXCEPT !.after = Effects("dec", {"hFence"})]

zeFenceHostSynchronizeRpcHelper ==
  [StubOn(ZeFenceHostSynchronizeRpcM, {"hFence"}) EXCEPT
    !.onSuccess = Effects("readMemory", {"hFence"})]

zeFenceQueryStatus ==
  [StubOn(ZeFenceQueryStatusRpcM, {"hFence"}) EXCEPT
    !.onSuccess = Effects("readMemory", {"hFence"})]

zeFenceReset ==
  StubOn(ZeFenceResetRpcM, {"hFence"})

zeKernelSetGlobalOffsetExp ==
  StubOn(ZeKernelSetGlobalOffsetExpRpcM, {"hKernel"})

zeImageGetProperties ==
  [StubOn(ZeImageGetPropertiesRpcM, {"hDevice"}) EXCEPT
    !.before = Effects("reassemble", {"desc"}) \cup Effects("translateExtensions", {"desc"})]

zeImageCreate ==
  [StubOn(ZeImageCreateRpcM, {"hContext", "hDevice"}) EXCEPT
    !.before = Effects("reassemble", {"desc"}) \cup Effects("translateExtensions", {"desc"}),
    !.local = {"phImage"}]

zeImageDestroy ==
  [StubOn(ZeImageDestroyRpcM, {"hImage"}) EXCEPT !.after = Effects("dec", {"hImage"})]

zeKernelSchedulingHintExp ==
  StubOn(ZeKernelSchedulingHintExpRpcM, {"hKernel"})

zeModuleInspectLinkageExt ==
  [Stub(ZeModuleInspectLinkageExtRpcM) EXCEPT
    !.remoteElements = {"phModules"}, !.local = {"phLog"}]

zeMemAllocSharedRpcHelper ==
  [StubOn(ZeMemAllocSharedRpcM, {"hContext"}) EXCEPT
    !.before = Effects("reassemble", {"device_desc", "host_desc"})
        \cup Effects("translateExtensions", {"device_desc"}), !.remoteIfGiven = {"hDevice"}]

zeMemAllocDevice ==
  [StubOn(ZeMemAllocDeviceRpcM, {"hContext", "hDevice"}) EXCEPT
    !.before = Effects("reassemble", {"device_desc"})
        \cup Effects("translateExtensions", {"device_desc"}),
    !.after = Effects("validateNewUsmDevicePointer", {"pptr"})]

zeMemAllocHostRpcHelper ==
  StubOn(ZeMemAllocHostRpcM, {"hContext"})

zeMemFree ==
  [StubOn(ZeMemFreeRpcM, {"hContext"}) EXCEPT
    !.before = Effects("unregisterSharedAlloc", {"ptr"})
        \cup Effects("invalidateKernelArgCache", {"hContext"})
        \cup Effects("invalidateAllocPropertiesCache", {"hContext"})
        \cup Effects("destroyUsmDescriptor", {"ptr"})]

zeMemGetAllocPropertiesRpcHelper ==
  [StubOn(ZeMemGetAllocPropertiesRpcM, {"hContext"}) EXCEPT !.local = {"phDevice"}]

zeMemGetAddressRange ==
  StubOn(ZeMemGetAddressRangeRpcM, {"hContext"})

zeMemGetIpcHandleRpcHelper ==
  StubOn(ZeMemGetIpcHandleRpcM, {"hContext"})

zeMemOpenIpcHandleRpcHelper ==
  [StubOn(ZeMemOpenIpcHandleRpcM, {"hContext", "hDevice"}) EXCEPT
    !.after = Effects("openUsmDevicePointer", {"pptr"})]

zeMemCloseIpcHandleRpcHelper ==
  StubOn(ZeMemCloseIpcHandleRpcM, {"hContext"})

zeMemPutIpcHandleRpcHelper ==
  StubOn(ZeMemPutIpcHandleRpcM, {"hContext"})

zexMemGetIpcHandlesRpcHelper ==
  StubOn(ZexMemGetIpcHandlesRpcM, {"hContext"})

zexMemOpenIpcHandlesRpcHelper ==
  [StubOn(ZexMemOpenIpcHandlesRpcM, {"hContext", "hDevice"}) EXCEPT
    !.after = Effects("openUsmDevicePointer", {"pptr"})]

zeMemFreeExt ==
  [StubOn(ZeMemFreeExtRpcM, {"hContext"}) EXCEPT
    !.before = Effects("unregisterSharedAlloc", {"ptr"})
        \cup Effects("invalidateKernelArgCache", {"hContext"})
        \cup Effects("invalidateAllocPropertiesCache", {"hContext"})
        \cup Effects("reassemble", {"pMemFreeDesc"})
        \cup Effects("translateExtensions", {"pMemFreeDesc"})
        \cup Effects("destroyUsmDescriptor", {"ptr"})]

zeMemGetIpcHandleFromFileDescriptorExpRpcHelper ==
  StubOn(ZeMemGetIpcHandleFromFileDescriptorExpRpcM, {"hContext"})

zeMemGetFileDescriptorFromIpcHandleExpRpcHelper ==
  StubOn(ZeMemGetFileDescriptorFromIpcHandleExpRpcM, {"hContext"})

zeModuleCreate ==
  [StubOn(ZeModuleCreateRpcM, {"hContext", "hDevice"}) EXCEPT
    !.local = {"phModule", "phBuildLog"}]

zeModuleDestroy ==
  [StubOn(ZeModuleDestroyRpcM, {"hModule"}) EXCEPT
    !.async = TRUE,
    !.afterAsync = Effects("dec", {"hModule"})
        \cup Effects("removeGlobalPointers", {"hModule"}),
    !.after = Effects("dec", {"hModule"}) \cup Effects("removeGlobalPointers", {"hModule"})]

zeModuleDynamicLink ==
  [Stub(ZeModuleDynamicLinkRpcM) EXCEPT
    !.remoteElements = {"phModules"}, !.local = {"phLinkLog"}]

zeModuleBuildLogDestroy ==
  [StubOn(ZeModuleBuildLogDestroyRpcM, {"hModuleBuildLog"}) EXCEPT
    !.after = Effects("dec", {"hModuleBuildLog"})]

zeModuleBuildLogGetString ==
  StubOn(ZeModuleBuildLogGetStringRpcM, {"hModuleBuildLog"})

zeModuleGetNativeBinary ==
  StubOn(ZeModuleGetNativeBinaryRpcM, {"hModule"})

zeModuleGetGlobalPointer ==
  [StubOn(ZeModuleGetGlobalPointerRpcM, {"hModule"}) EXCEPT
    !.after = Effects("recordGlobalPointer", {"hModule"})]

zeModuleGetKernelNamesRpcHelper ==
  StubOn(ZeModuleGetKernelNamesRpcHelperRpcM, {"hModule"})

zeModuleGetPropertiesRpcHelper ==
  StubOn(ZeModuleGetPropertiesRpcM, {"hModule"})

zeKernelCreate ==
  [StubOn(ZeKernelCreateRpcM, {"hModule"}) EXCEPT !.local = {"phKernel"}]

zeKernelDestroy ==
  [StubOn(ZeKernelDestroyRpcM, {"hKernel"}) EXCEPT !.after = Effects("dec", {"hKernel"})]

zeModuleGetFunctionPointer ==
  StubOn(ZeModuleGetFunctionPointerRpcM, {"hModule"})

zeKernelSetGroupSizeRpcHelper ==
  [StubOn(ZeKernelSetGroupSizeRpcM, {"hKernel"}) EXCEPT !.async = TRUE]

zeKernelSuggestGroupSizeRpcHelper ==
  StubOn(ZeKernelSuggestGroupSizeRpcM, {"hKernel"})

zeKernelSuggestMaxCooperativeGroupCount ==
  StubOn(ZeKernelSuggestMaxCooperativeGroupCountRpcM, {"hKernel"})

zeKernelSetArgumentValueRpcHelper ==
  [StubOn(ZeKernelSetArgumentValueRpcM, {"hKernel"}) EXCEPT !.async = TRUE]

zeKernelSetIndirectAccess ==
  [StubOn(ZeKernelSetIndirectAccessRpcM, {"hKernel"}) EXCEPT
    !.before = Effects("setSharedIndirectAccess", {"hKernel"}), !.async = TRUE]

zeKernelGetIndirectAccess ==
  StubOn(ZeKernelGetIndirectAccessRpcM, {"hKernel"})

zeKernelGetSourceAttributesRpcHelper ==
  StubOn(ZeKernelGetSourceAttributesRpcHelperRpcM, {"hKernel"})

zeKernelSetCacheConfig ==
  StubOn(ZeKernelSetCacheConfigRpcM, {"hKernel"})

zeKernelGetPropertiesRpcHelper ==
  StubOn(ZeKernelGetPropertiesRpcM, {"hKernel"})

zeKernelGetName ==
  StubOn(ZeKernelGetNameRpcM, {"hKernel"})

zeDevicePciGetPropertiesExt ==
  StubOn(ZeDevicePciGetPropertiesExtRpcM, {"hDevice"})

zeContextMakeMemoryResident ==
  StubOn(ZeContextMakeMemoryResidentRpcM, {"hContext", "hDevice"})

zeContextEvictMemory ==
  StubOn(ZeContextEvictMemoryRpcM, {"hContext", "hDevice"})

zeVirtualMemReserve ==
  StubOn(ZeVirtualMemReserveRpcM, {"hContext"})

zeVirtualMemFree ==
  StubOn(ZeVirtualMemFreeRpcM, {"hContext"})

zeVirtualMemQueryPageSize ==
  StubOn(ZeVirtualMemQueryPageSizeRpcM, {"hContext", "hDevice"})

zePhysicalMemCreate ==
  StubOn(ZePhysicalMemCreateRpcM, {"hContext", "hDevice"})

zePhysicalMemDestroy ==
  StubOn(ZePhysicalMemDestroyRpcM, {"hContext"})

zeVirtualMemMap ==
  StubOn(ZeVirtualMemMapRpcM, {"hContext"})

zeVirtualMemUnmap ==
  StubOn(ZeVirtualMemUnmapRpcM, {"hContext"})

zeVirtualMemSetAccessAttribute ==
  StubOn(ZeVirtualMemSetAccessAttributeRpcM, {"hContext"})

zeVirtualMemGetAccessAttribute ==
  StubOn(ZeVirtualMemGetAccessAttributeRpcM, {"hContext"})

zexDriverImportExternalPointerRpcHelper ==
  StubOn(ZexDriverImportExternalPointerRpcM, {"hDriver"})

zexDriverReleaseImportedPointerRpcHelper ==
  StubOn(ZexDriverReleaseImportedPointerRpcM, {"hDriver"})

zexDriverGetHostPointerBaseAddressRpcHelper ==
  StubOn(ZexDriverGetHostPointerBaseAddressRpcM, {"hDriver"})
=============================================================================
