----------------------------- MODULE ZeHandlers ------------------------------
(*****************************************************************************)
(* The service handlers of Level Zero (generated_service_level_zero.h and    *)
(* service.cpp): one definition per function.  Here: the other functions.    *)
(*****************************************************************************)
EXTENDS ZeMessages, ZeListHandlers, ZeToolsHandlers

zeContextSystemBarrierHandler ==
  Handler({})

zeCommandQueueCreateHandler ==
  [Handler({"desc", "phCommandQueue"}) EXCEPT
    !.before = Effects("overrideCommandQueueDesc", {"desc"}),
    !.after = Effects("trackAllocatedResource", {"phCommandQueue"})]

zeCommandQueueDestroyHandler ==
  [Handler({}) EXCEPT !.after = Effects("removeResourceTracking", {"hCommandQueue"})]

zeContextCreateHandler ==
  [Handler({"desc", "phContext"}) EXCEPT
    !.reassembles = TRUE, !.after = Effects("trackAllocatedResource", {"phContext"})]

zeContextCreateExHandler ==
  [Handler({"desc", "phDevices", "phContext"}) EXCEPT
    !.reassembles = TRUE, !.after = Effects("trackAllocatedResource", {"phContext"})]

zeContextGetStatusHandler ==
  Handler({})

zeDeviceGetHandler ==
  Handler({"pCount", "phDevices"})

zeDeviceGetSubDevicesHandler ==
  Handler({"pCount", "phSubdevices"})

zeDeviceGetPropertiesHandler ==
  [Handler({"pDeviceProperties"}) EXCEPT !.reassembles = TRUE]

zeDeviceGetComputePropertiesHandler ==
  Handler({"pComputeProperties"})

zeDeviceGetModulePropertiesHandler ==
  [Handler({"pModuleProperties"}) EXCEPT !.reassembles = TRUE]

zeDeviceGetCommandQueueGroupPropertiesHandler ==
  [Handler({"pCount", "pCommandQueueGroupProperties"}) EXCEPT
    !.atEnd = Effects("parseCommandQueueGroups", {"pCommandQueueGroupProperties"})]

zeDeviceGetMemoryPropertiesHandler ==
  [Handler({"pCount", "pMemProperties"}) EXCEPT !.reassembles = TRUE]

zeDeviceGetMemoryAccessPropertiesHandler ==
  Handler({"pMemAccessProperties"})

zeDeviceGetCachePropertiesHandler ==
  [Handler({"pCount", "pCacheProperties"}) EXCEPT !.reassembles = TRUE]

zeDeviceGetImagePropertiesHandler ==
  Handler({"pImageProperties"})

zeDeviceGetExternalMemoryPropertiesHandler ==
  Handler({"pExternalMemoryProperties"})

zeDeviceGetP2PPropertiesHandler ==
  [Handler({"pP2PProperties"}) EXCEPT !.reassembles = TRUE]

zeDeviceCanAccessPeerHandler ==
  Handler({"value"})

zeDeviceGetStatusHandler ==
  Handler({})

zeDeviceGetGlobalTimestampsHandler ==
  Handler({"hostTimestamp", "deviceTimestamp"})

zeDeviceReserveCacheExtHandler ==
  Handler({})

zeDeviceSetCacheAdviceExtHandler ==
  Handler({})

zeDriverGetApiVersionHandler ==
  Handler({"version"})

zeDriverGetPropertiesHandler ==
  Handler({"pDriverProperties"})

zeDriverGetIpcPropertiesHandler ==
  Handler({"pIpcProperties"})

zeDriverGetExtensionPropertiesHandler ==
  Handler({"pCount", "pExtensionProperties"})

zeDriverGetLastErrorDescriptionHandler ==
  Handler({})

zeEventPoolCreateHandler ==
  [Handler({"desc", "phDevices", "phEventPool"}) EXCEPT
    !.after = Effects("trackAllocatedResource", {"phEventPool"})]

zeEventPoolDestroyHandler ==
  [Handler({}) EXCEPT !.after = Effects("removeResourceTracking", {"hEventPool"})]

zeEventCreateHandler ==
  [Handler({"desc", "phEvent"}) EXCEPT !.after = Effects("trackAllocatedResource", {"phEvent"})]

zeEventDestroyHandler ==
  [Handler({}) EXCEPT !.after = Effects("removeResourceTracking", {"hEvent"})]

zeEventPoolGetIpcHandleHandler ==
  Handler({"phIpc"})

zeEventPoolOpenIpcHandleHandler ==
  [Handler({"phEventPool"}) EXCEPT !.after = Effects("trackAllocatedResource", {"phEventPool"})]

zeEventPoolCloseIpcHandleHandler ==
  [Handler({}) EXCEPT !.after = Effects("removeResourceTracking", {"hEventPool"})]

zeEventPoolPutIpcHandleHandler ==
  Handler({})

zeEventHostSignalHandler ==
  Handler({})

zeEventHostResetHandler ==
  [Handler({}) EXCEPT !.failsIfAsync = TRUE]

zeEventQueryKernelTimestampHandler ==
  Handler({"dstptr"})

zeEventQueryTimestampsExpHandler ==
  Handler({"pCount", "pTimestamps"})

zeFabricVertexGetExpHandler ==
  Handler({"pCount", "phVertices"})

zeFabricVertexGetSubVerticesExpHandler ==
  Handler({"pCount", "phSubvertices"})

zeFabricVertexGetPropertiesExpHandler ==
  [Handler({"pVertexProperties"}) EXCEPT !.reassembles = TRUE]

zeFabricVertexGetDeviceExpHandler ==
  Handler({"pDevice"})

zeDeviceGetFabricVertexExpHandler ==
  Handler({"pVertex"})

zeFabricEdgeGetExpHandler ==
  Handler({"pCount", "phEdges"})

zeFabricEdgeGetVerticesExpHandler ==
  Handler({"phVertexA", "phVertexB"})

zeFabricEdgeGetPropertiesExpHandler ==
  [Handler({"pEdgeProperties"}) EXCEPT !.reassembles = TRUE]

zeFenceCreateHandler ==
  [Handler({"desc", "phFence"}) EXCEPT !.after = Effects("trackAllocatedResource", {"phFence"})]

zeFenceDestroyHandler ==
  [Handler({}) EXCEPT !.after = Effects("removeResourceTracking", {"hFence"})]

zeFenceResetHandler ==
  Handler({})

zeKernelSetGlobalOffsetExpHandler ==
  Handler({})

zeImageGetPropertiesHandler ==
  [Handler({"desc", "pImageProperties"}) EXCEPT !.reassembles = TRUE]

zeImageCreateHandler ==
  [Handler({"desc", "phImage"}) EXCEPT
    !.reassembles = TRUE, !.after = Effects("trackAllocatedResource", {"phImage"})]

zeImageDestroyHandler ==
  [Handler({}) EXCEPT !.after = Effects("removeResourceTracking", {"hImage"})]

zeKernelSchedulingHintExpHandler ==
  Handler({"pHint"})

zeModuleInspectLinkageExtHandler ==
  [Handler({"pInspectDesc", "phModules", "phLog"}) EXCEPT
    !.atEnd = Effects("trackAllocatedResource", {"phLog"})]

zeMemAllocDeviceHandler ==
  [Handler({"device_desc", "pptr"}) EXCEPT !.reassembles = TRUE]

zeMemGetAllocPropertiesHandler ==
  [Handler({"pMemAllocProperties", "phDevice"}) EXCEPT !.reassembles = TRUE]

zeMemGetAddressRangeHandler ==
  Handler({"pBase", "pSize"})

zeMemGetIpcHandleHandler ==
  Handler({"pIpcHandle"})

zeMemOpenIpcHandleHandler ==
  Handler({"pptr"})

zeMemPutIpcHandleHandler ==
  Handler({})

zexMemGetIpcHandlesHandler ==
  Handler({"numIpcHandles", "pIpcHandles"})

zexMemOpenIpcHandlesHandler ==
  Handler({"pIpcHandles", "pptr"})

zeMemGetIpcHandleFromFileDescriptorExpHandler ==
  Handler({"pIpcHandle"})

zeMemGetFileDescriptorFromIpcHandleExpHandler ==
  Handler({"pHandle"})

zeModuleDestroyHandler ==
  [Handler({}) EXCEPT
    !.failsIfAsync = TRUE, !.after = Effects("removeResourceTracking", {"hModule"})]

zeModuleDynamicLinkHandler ==
  [Handler({"phModules", "phLinkLog"}) EXCEPT
    !.atEnd = Effects("trackAllocatedResource", {"phLinkLog"})]

zeModuleBuildLogDestroyHandler ==
  [Handler({}) EXCEPT !.after = Effects("removeResourceTracking", {"hModuleBuildLog"})]

zeModuleBuildLogGetStringHandler ==
  Handler({"pSize", "pBuildLog"})

zeModuleGetNativeBinaryHandler ==
  Handler({"pSize", "pModuleNativeBinary"})

zeModuleGetGlobalPointerHandler ==
  Handler({"pGlobalName", "pSize", "pptr"})

zeModuleGetPropertiesHandler ==
  Handler({"pModuleProperties"})

zeKernelCreateHandler ==
  [Handler({"desc", "phKernel"}) EXCEPT
    !.reassembles = TRUE, !.after = Effects("trackAllocatedResource", {"phKernel"})]

zeKernelDestroyHandler ==
  [Handler({}) EXCEPT !.after = Effects("removeResourceTracking", {"hKernel"})]

zeModuleGetFunctionPointerHandler ==
  Handler({"pFunctionName", "pfnFunction"})

zeKernelSetGroupSizeHandler ==
  [Handler({}) EXCEPT !.failsIfAsync = TRUE]

zeKernelSuggestGroupSizeHandler ==
  Handler({"groupSizeX", "groupSizeY", "groupSizeZ"})

zeKernelSuggestMaxCooperativeGroupCountHandler ==
  Handler({"totalGroupCount"})

zeKernelSetArgumentValueHandler ==
  [Handler({"pArgValue"}) EXCEPT !.failsIfAsync = TRUE]

zeKernelSetIndirectAccessHandler ==
  [Handler({}) EXCEPT !.failsIfAsync = TRUE]

zeKernelGetIndirectAccessHandler ==
  Handler({"pFlags"})

zeKernelSetCacheConfigHandler ==
  Handler({})

zeKernelGetPropertiesHandler ==
  [Handler({"pKernelProperties"}) EXCEPT !.reassembles = TRUE]

zeKernelGetNameHandler ==
  Handler({"pSize", "pName"})

zeDevicePciGetPropertiesExtHandler ==
  Handler({"pPciProperties"})

zeContextMakeMemoryResidentHandler ==
  Handler({})

zeContextEvictMemoryHandler ==
  Handler({})

zeVirtualMemReserveHandler ==
  Handler({"pptr"})

zeVirtualMemFreeHandler ==
  Handler({})

zeVirtualMemQueryPageSizeHandler ==
  Handler({"pagesize"})

zePhysicalMemCreateHandler ==
  Handler({"desc", "phPhysicalMemory"})

zePhysicalMemDestroyHandler ==
  Handler({})

zeVirtualMemMapHandler ==
  Handler({})

zeVirtualMemUnmapHandler ==
  Handler({})

zeVirtualMemSetAccessAttributeHandler ==
  Handler({})

zeVirtualMemGetAccessAttributeHandler ==
  Handler({"access", "outSize"})

zexDriverImportExternalPointerHandler ==
  Handler({})

zexDriverReleaseImportedPointerHandler ==
  Handler({})

zexDriverGetHostPointerBaseAddressHandler ==
  Handler({"baseAddress"})

-----------------------------------------------------------------------------
(* Hand-written (service.cpp).                                              *)

zeInitHandler ==
  Handler({})

zeDriverGetHandler ==
  [Handler({"pCount", "phDrivers"}) EXCEPT !.rejects = {"pCount"}]

zeMemAllocHostHandler ==
  [Handler({"host_desc", "pptr"} \cup Placement) EXCEPT
    !.reassembles = TRUE, !.rejects = {"host_desc", "pptr"},
    !.after = Effects("addUsmSharedHostAlloc", {"hContext"})]

zeMemAllocSharedHandler ==
  [Handler({"device_desc", "host_desc", "pptr"} \cup Placement) EXCEPT
    !.reassembles = TRUE, !.rejects = {"device_desc", "host_desc", "pptr"},
    !.after = Effects("addUsmSharedHostAlloc", {"hContext"})]

zeMemFreeHandler ==
  [Handler({}) EXCEPT !.atEnd = Effects("reapUsmSharedHostAlloc", {"ptr"})]

zeMemFreeExtHandler ==
  [Handler({"pMemFreeDesc"}) EXCEPT
    !.reassembles = TRUE, !.atEnd = Effects("reapUsmSharedHostAlloc", {"ptr"})]

zeModuleGetKernelNamesRpcHelperHandler ==
  [Handler({"totalLength", "namesBuffer"}) EXCEPT !.always = {"totalLength", "namesBuffer"}]

zeModuleCreateHandler ==
  [Handler({"desc", "phModule", "phBuildLog"}) EXCEPT
    !.reassembles = TRUE,
    !.after = Effects("storeInModuleCache", {"hContext"})
        \cup Effects("trackAllocatedResource", {"phModule"}),
    !.atEnd = Effects("trackAllocatedResource", {"phBuildLog"})]

zeCommandQueueExecuteCommandListsCopyMemoryRpcHelperHandler ==
  [Handler({"chunks", "transferDescsCount", "transferDescs"}) EXCEPT
    !.rejects = {"chunks", "transferDescsCount"}]

zeContextDestroyHandler ==
  [Handler({}) EXCEPT
    !.before = Effects("clearDataForContext", {"hContext"}),
    !.after = Effects("removeResourceTracking", {"hContext"})]

zeEventHostSynchronizeHandler ==
  [Handler({}) EXCEPT !.updatesCopies = TRUE]

zeEventQueryStatusHandler ==
  [Handler({}) EXCEPT !.updatesCopies = TRUE]

zeFenceHostSynchronizeHandler ==
  [Handler({}) EXCEPT !.updatesCopies = TRUE]

zeFenceQueryStatusHandler ==
  [Handler({}) EXCEPT !.updatesCopies = TRUE]

zeCommandQueueSynchronizeHandler ==
  [Handler({}) EXCEPT !.updatesCopies = TRUE]

zeCommandQueueExecuteCommandListsHandler ==
  [Handler({"phCommandLists"}) EXCEPT
    !.after = Effects("resubmitOperationsOfCommandList", {"phCommandLists"}),
    !.updatesCopies = TRUE]

zeEventQueryKernelTimestampsExtRpcHelperHandler ==
  Handler({"pCount", "pResultsTimestamps", "pResultsSynchronizedTimestamps"})

zeKernelGetSourceAttributesRpcHelperHandler ==
  Handler({"pSize", "pString"})

zeDriverGetLastErrorDescriptionRpcHelperHandler ==
  [Handler({"pString"}) EXCEPT !.limited = {"stringLength"}, !.failsOnError = TRUE]

zeMemCloseIpcHandleHandler ==
  [Handler({}) EXCEPT !.atEnd = Effects("close", {"handle_to_close"})]

-----------------------------------------------------------------------------
\* The handlers in the order in which the service registers them.
registerGeneratedHandlersLevelZero == <<
    <<ZetMetricGroupGetRpcM, zetMetricGroupGetHandler>>,
    <<ZetMetricGroupGetPropertiesRpcM, zetMetricGroupGetPropertiesHandler>>,
    <<ZetMetricGroupGetGlobalTimestampsExpRpcM, zetMetricGroupGetGlobalTimestampsExpHandler>>,
    <<ZetMetricGroupGetExportDataExpRpcM, zetMetricGroupGetExportDataExpHandler>>,
    <<ZetMetricGroupCalculateMetricValuesRpcM, zetMetricGroupCalculateMetricValuesHandler>>,
    <<ZetMetricGroupCalculateMultipleMetricValuesExpRpcM,
      zetMetricGroupCalculateMultipleMetricValuesExpHandler>>,
    <<ZetMetricGetRpcM, zetMetricGetHandler>>,
    <<ZetMetricGetPropertiesRpcM, zetMetricGetPropertiesHandler>>,
    <<ZetContextActivateMetricGroupsRpcM, zetContextActivateMetricGroupsHandler>>,
    <<ZetMetricStreamerOpenRpcM, zetMetricStreamerOpenHandler>>,
    <<ZetMetricStreamerReadDataRpcM, zetMetricStreamerReadDataHandler>>,
    <<ZetMetricStreamerReadDataRpcHelperRpcM, zetMetricStreamerReadDataRpcHelperHandler>>,
    <<ZetMetricStreamerCloseRpcM, zetMetricStreamerCloseHandler>>,
    <<ZetMetricQueryPoolCreateRpcM, zetMetricQueryPoolCreateHandler>>,
    <<ZetMetricQueryPoolDestroyRpcM, zetMetricQueryPoolDestroyHandler>>,
    <<ZetMetricQueryCreateRpcM, zetMetricQueryCreateHandler>>,
    <<ZetMetricQueryDestroyRpcM, zetMetricQueryDestroyHandler>>,
    <<ZetMetricQueryResetRpcM, zetMetricQueryResetHandler>>,
    <<ZetMetricQueryGetDataRpcM, zetMetricQueryGetDataHandler>>,
    <<ZetCommandListAppendMetricQueryBeginRpcM, zetCommandListAppendMetricQueryBeginHandler>>,
    <<ZetCommandListAppendMetricQueryEndRpcM, zetCommandListAppendMetricQueryEndHandler>>,
    <<ZetCommandListAppendMetricMemoryBarrierRpcM,
      zetCommandListAppendMetricMemoryBarrierHandler>>,
    <<ZetCommandListAppendMetricStreamerMarkerRpcM,
      zetCommandListAppendMetricStreamerMarkerHandler>>,
    <<ZetDeviceGetDebugPropertiesRpcM, zetDeviceGetDebugPropertiesHandler>>,
    <<ZetDebugAttachRpcM, zetDebugAttachHandler>>,
    <<ZetDebugDetachRpcM, zetDebugDetachHandler>>,
    <<ZetKernelGetProfileInfoRpcM, zetKernelGetProfileInfoHandler>>,
    <<ZesDeviceResetRpcM, zesDeviceResetHandler>>,
    <<ZesDeviceResetExtRpcM, zesDeviceResetExtHandler>>,
    <<ZesDeviceEnumPowerDomainsRpcM, zesDeviceEnumPowerDomainsHandler>>,
    <<ZesDeviceGetCardPowerDomainRpcM, zesDeviceGetCardPowerDomainHandler>>,
    <<ZesPowerGetPropertiesRpcM, zesPowerGetPropertiesHandler>>,
    <<ZesPowerGetEnergyCounterRpcM, zesPowerGetEnergyCounterHandler>>,
    <<ZesPowerGetLimitsRpcM, zesPowerGetLimitsHandler>>,
    <<ZesPowerSetLimitsRpcM, zesPowerSetLimitsHandler>>,
    <<ZesPowerGetLimitsExtRpcM, zesPowerGetLimitsExtHandler>>,
    <<ZesPowerSetLimitsExtRpcM, zesPowerSetLimitsExtHandler>>,
    <<ZesPowerGetEnergyThresholdRpcM, zesPowerGetEnergyThresholdHandler>>,
    <<ZesPowerSetEnergyThresholdRpcM, zesPowerSetEnergyThresholdHandler>>,
    <<ZesDeviceEventRegisterRpcM, zesDeviceEventRegisterHandler>>,
    <<ZesDriverEventListenRpcM, zesDriverEventListenHandler>>,
    <<ZesDriverEventListenExRpcM, zesDriverEventListenExHandler>>,
    <<ZesDeviceEnumTemperatureSensorsRpcM, zesDeviceEnumTemperatureSensorsHandler>>,
    <<ZesTemperatureGetPropertiesRpcM, zesTemperatureGetPropertiesHandler>>,
    <<ZesTemperatureGetConfigRpcM, zesTemperatureGetConfigHandler>>,
    <<ZesTemperatureSetConfigRpcM, zesTemperatureSetConfigHandler>>,
    <<ZesTemperatureGetStateRpcM, zesTemperatureGetStateHandler>>,
    <<ZesDeviceEnumRasErrorSetsRpcM, zesDeviceEnumRasErrorSetsHandler>>,
    <<ZesRasGetPropertiesRpcM, zesRasGetPropertiesHandler>>,
    <<ZesRasGetConfigRpcM, zesRasGetConfigHandler>>,
    <<ZesRasSetConfigRpcM, zesRasSetConfigHandler>>,
    <<ZesRasGetStateRpcM, zesRasGetStateHandler>>,
    <<ZesDeviceEnumFrequencyDomainsRpcM, zesDeviceEnumFrequencyDomainsHandler>>,
    <<ZesFrequencyGetPropertiesRpcM, zesFrequencyGetPropertiesHandler>>,
    <<ZesFrequencyGetAvailableClocksRpcM, zesFrequencyGetAvailableClocksHandler>>,
    <<ZesFrequencyGetRangeRpcM, zesFrequencyGetRangeHandler>>,
    <<ZesFrequencySetRangeRpcM, zesFrequencySetRangeHandler>>,
    <<ZesFrequencyGetStateRpcM, zesFrequencyGetStateHandler>>,
    <<ZesFrequencyGetThrottleTimeRpcM, zesFrequencyGetThrottleTimeHandler>>,
    <<ZesFrequencyOcGetCapabilitiesRpcM, zesFrequencyOcGetCapabilitiesHandler>>,
    <<ZesFrequencyOcGetVoltageTargetRpcM, zesFrequencyOcGetVoltageTargetHandler>>,
    <<ZesFrequencyOcSetVoltageTargetRpcM, zesFrequencyOcSetVoltageTargetHandler>>,
    <<ZesFrequencyOcSetModeRpcM, zesFrequencyOcSetModeHandler>>,
    <<ZesFrequencyOcGetModeRpcM, zesFrequencyOcGetModeHandler>>,
    <<ZesFrequencyOcGetIccMaxRpcM, zesFrequencyOcGetIccMaxHandler>>,
    <<ZesFrequencyOcSetIccMaxRpcM, zesFrequencyOcSetIccMaxHandler>>,
    <<ZesFrequencyOcGetTjMaxRpcM, zesFrequencyOcGetTjMaxHandler>>,
    <<ZesFrequencyOcSetTjMaxRpcM, zesFrequencyOcSetTjMaxHandler>>,
    <<ZesDeviceEnumEngineGroupsRpcM, zesDeviceEnumEngineGroupsHandler>>,
    <<ZesDeviceEnumSchedulersRpcM, zesDeviceEnumSchedulersHandler>>,
    <<ZesSchedulerGetPropertiesRpcM, zesSchedulerGetPropertiesHandler>>,
    <<ZesSchedulerGetCurrentModeRpcM, zesSchedulerGetCurrentModeHandler>>,
    <<ZesSchedulerGetTimeoutModePropertiesRpcM, zesSchedulerGetTimeoutModePropertiesHandler>>,
    <<ZesSchedulerGetTimesliceModePropertiesRpcM,
      zesSchedulerGetTimesliceModePropertiesHandler>>,
    <<ZesSchedulerSetTimeoutModeRpcM, zesSchedulerSetTimeoutModeHandler>>,
    <<ZesSchedulerSetTimesliceModeRpcM, zesSchedulerSetTimesliceModeHandler>>,
    <<ZesSchedulerSetExclusiveModeRpcM, zesSchedulerSetExclusiveModeHandler>>,
    <<ZesSchedulerSetComputeUnitDebugModeRpcM, zesSchedulerSetComputeUnitDebugModeHandler>>,
    <<ZesEngineGetPropertiesRpcM, zesEngineGetPropertiesHandler>>,
    <<ZesEngineGetActivityRpcM, zesEngineGetActivityHandler>>,
    <<ZesDeviceGetStateRpcM, zesDeviceGetStateHandler>>,
    <<ZesDeviceProcessesGetStateRpcM, zesDeviceProcessesGetStateHandler>>,
    <<ZesDevicePciGetPropertiesRpcM, zesDevicePciGetPropertiesHandler>>,
    <<ZesDevicePciGetStateRpcM, zesDevicePciGetStateHandler>>,
    <<ZesDevicePciGetBarsRpcM, zesDevicePciGetBarsHandler>>,
    <<ZesDevicePciGetStatsRpcM, zesDevicePciGetStatsHandler>>,
    <<ZesDeviceGetPropertiesRpcM, zesDeviceGetPropertiesHandler>>,
    <<ZesDeviceEnumMemoryModulesRpcM, zesDeviceEnumMemoryModulesHandler>>,
    <<ZesMemoryGetPropertiesRpcM, zesMemoryGetPropertiesHandler>>,
    <<ZesMemoryGetStateRpcM, zesMemoryGetStateHandler>>,
    <<ZesMemoryGetBandwidthRpcM, zesMemoryGetBandwidthHandler>>,
    <<ZesDeviceEnumPerformanceFactorDomainsRpcM, zesDeviceEnumPerformanceFactorDomainsHandler>>,
    <<ZesPerformanceFactorGetPropertiesRpcM, zesPerformanceFactorGetPropertiesHandler>>,
    <<ZesPerformanceFactorGetConfigRpcM, zesPerformanceFactorGetConfigHandler>>,
    <<ZesPerformanceFactorSetConfigRpcM, zesPerformanceFactorSetConfigHandler>>,
    <<ZesDeviceEnumStandbyDomainsRpcM, zesDeviceEnumStandbyDomainsHandler>>,
    <<ZesStandbyGetPropertiesRpcM, zesStandbyGetPropertiesHandler>>,
    <<ZesStandbyGetModeRpcM, zesStandbyGetModeHandler>>,
    <<ZesStandbySetModeRpcM, zesStandbySetModeHandler>>, <<ZeInitRpcM, zeInitHandler>>,
    <<ZeCommandListAppendMemoryRangesBarrierRpcM,
      zeCommandListAppendMemoryRangesBarrierHandler>>,
    <<ZeContextSystemBarrierRpcM, zeContextSystemBarrierHandler>>,
    <<ZeCommandListCreateRpcM, zeCommandListCreateHandler>>,
    <<ZeCommandListCreateImmediateRpcM, zeCommandListCreateImmediateHandler>>,
    <<ZeCommandListDestroyRpcM, zeCommandListDestroyHandler>>,
    <<ZeCommandListCloseRpcM, zeCommandListCloseHandler>>,
    <<ZeCommandListResetRpcM, zeCommandListResetHandler>>,
    <<ZeCommandQueueCreateRpcM, zeCommandQueueCreateHandler>>,
    <<ZeCommandQueueDestroyRpcM, zeCommandQueueDestroyHandler>>,
    <<ZeCommandQueueExecuteCommandListsRpcM, zeCommandQueueExecuteCommandListsHandler>>,
    <<ZeCommandQueueExecuteCommandListsCopyMemoryRpcHelperRpcM,
      zeCommandQueueExecuteCommandListsCopyMemoryRpcHelperHandler>>,
    <<ZeCommandQueueSynchronizeRpcM, zeCommandQueueSynchronizeHandler>>,
    <<ZeContextCreateRpcM, zeContextCreateHandler>>,
    <<ZeContextCreateExRpcM, zeContextCreateExHandler>>,
    <<ZeContextDestroyRpcM, zeContextDestroyHandler>>,
    <<ZeContextGetStatusRpcM, zeContextGetStatusHandler>>,
    <<ZeCommandListAppendMemoryFillRpcHelperUsm2UsmRpcM,
      zeCommandListAppendMemoryFillRpcHelperUsm2UsmHandler>>,
    <<ZeCommandListAppendMemoryFillRpcHelperUsm2MallocRpcM,
      zeCommandListAppendMemoryFillRpcHelperUsm2MallocHandler>>,
    <<ZeCommandListAppendMemoryFillRpcHelperMalloc2UsmRpcM,
      zeCommandListAppendMemoryFillRpcHelperMalloc2UsmHandler>>,
    <<ZeCommandListAppendMemoryFillRpcHelperMalloc2MallocRpcM,
      zeCommandListAppendMemoryFillRpcHelperMalloc2MallocHandler>>,
    <<ZeCommandListAppendMemoryPrefetchRpcM, zeCommandListAppendMemoryPrefetchHandler>>,
    <<ZeDeviceGetRpcM, zeDeviceGetHandler>>,
    <<ZeDeviceGetSubDevicesRpcM, zeDeviceGetSubDevicesHandler>>,
    <<ZeDeviceGetPropertiesRpcM, zeDeviceGetPropertiesHandler>>,
    <<ZeDeviceGetComputePropertiesRpcM, zeDeviceGetComputePropertiesHandler>>,
    <<ZeDeviceGetModulePropertiesRpcM, zeDeviceGetModulePropertiesHandler>>,
    <<ZeDeviceGetCommandQueueGroupPropertiesRpcM,
      zeDeviceGetCommandQueueGroupPropertiesHandler>>,
    <<ZeDeviceGetMemoryPropertiesRpcM, zeDeviceGetMemoryPropertiesHandler>>,
    <<ZeDeviceGetMemoryAccessPropertiesRpcM, zeDeviceGetMemoryAccessPropertiesHandler>>,
    <<ZeDeviceGetCachePropertiesRpcM, zeDeviceGetCachePropertiesHandler>>,
    <<ZeDeviceGetImagePropertiesRpcM, zeDeviceGetImagePropertiesHandler>>,
    <<ZeDeviceGetExternalMemoryPropertiesRpcM, zeDeviceGetExternalMemoryPropertiesHandler>>,
    <<ZeDeviceGetP2PPropertiesRpcM, zeDeviceGetP2PPropertiesHandler>>,
    <<ZeDeviceCanAccessPeerRpcM, zeDeviceCanAccessPeerHandler>>,
    <<ZeDeviceGetStatusRpcM, zeDeviceGetStatusHandler>>,
    <<ZeDeviceGetGlobalTimestampsRpcM, zeDeviceGetGlobalTimestampsHandler>>,
    <<ZeDeviceReserveCacheExtRpcM, zeDeviceReserveCacheExtHandler>>,
    <<ZeDeviceSetCacheAdviceExtRpcM, zeDeviceSetCacheAdviceExtHandler>>,
    <<ZeDriverGetRpcM, zeDriverGetHandler>>,
    <<ZeDriverGetApiVersionRpcM, zeDriverGetApiVersionHandler>>,
    <<ZeDriverGetPropertiesRpcM, zeDriverGetPropertiesHandler>>,
    <<ZeDriverGetIpcPropertiesRpcM, zeDriverGetIpcPropertiesHandler>>,
    <<ZeDriverGetExtensionPropertiesRpcM, zeDriverGetExtensionPropertiesHandler>>,
    <<ZeDriverGetLastErrorDescriptionRpcM, zeDriverGetLastErrorDescriptionHandler>>,
    <<ZeDriverGetLastErrorDescriptionRpcHelperRpcM,
      zeDriverGetLastErrorDescriptionRpcHelperHandler>>,
    <<ZeEventPoolCreateRpcM, zeEventPoolCreateHandler>>,
    <<ZeEventPoolDestroyRpcM, zeEventPoolDestroyHandler>>,
    <<ZeEventCreateRpcM, zeEventCreateHandler>>, <<ZeEventDestroyRpcM, zeEventDestroyHandler>>,
    <<ZeEventPoolGetIpcHandleRpcM, zeEventPoolGetIpcHandleHandler>>,
    <<ZeEventPoolOpenIpcHandleRpcM, zeEventPoolOpenIpcHandleHandler>>,
    <<ZeEventPoolCloseIpcHandleRpcM, zeEventPoolCloseIpcHandleHandler>>,
    <<ZeEventPoolPutIpcHandleRpcM, zeEventPoolPutIpcHandleHandler>>,
    <<ZeCommandListAppendBarrierRpcM, zeCommandListAppendBarrierHandler>>,
    <<ZeCommandListAppendSignalEventRpcM, zeCommandListAppendSignalEventHandler>>,
    <<ZeCommandListAppendWaitOnEventsRpcM, zeCommandListAppendWaitOnEventsHandler>>,
    <<ZeEventHostSignalRpcM, zeEventHostSignalHandler>>,
    <<ZeEventHostSynchronizeRpcM, zeEventHostSynchronizeHandler>>,
    <<ZeEventQueryStatusRpcM, zeEventQueryStatusHandler>>,
    <<ZeCommandListAppendEventResetRpcM, zeCommandListAppendEventResetHandler>>,
    <<ZeEventHostResetRpcM, zeEventHostResetHandler>>,
    <<ZeEventQueryKernelTimestampRpcM, zeEventQueryKernelTimestampHandler>>,
    <<ZeCommandListAppendQueryKernelTimestampsRpcM,
      zeCommandListAppendQueryKernelTimestampsHandler>>,
    <<ZeEventQueryTimestampsExpRpcM, zeEventQueryTimestampsExpHandler>>,
    <<ZeEventQueryKernelTimestampsExtRpcHelperRpcM,
      zeEventQueryKernelTimestampsExtRpcHelperHandler>>,
    <<ZeFabricVertexGetExpRpcM, zeFabricVertexGetExpHandler>>,
    <<ZeFabricVertexGetSubVerticesExpRpcM, zeFabricVertexGetSubVerticesExpHandler>>,
    <<ZeFabricVertexGetPropertiesExpRpcM, zeFabricVertexGetPropertiesExpHandler>>,
    <<ZeFabricVertexGetDeviceExpRpcM, zeFabricVertexGetDeviceExpHandler>>,
    <<ZeDeviceGetFabricVertexExpRpcM, zeDeviceGetFabricVertexExpHandler>>,
    <<ZeFabricEdgeGetExpRpcM, zeFabricEdgeGetExpHandler>>,
    <<ZeFabricEdgeGetVerticesExpRpcM, zeFabricEdgeGetVerticesExpHandler>>,
    <<ZeFabricEdgeGetPropertiesExpRpcM, zeFabricEdgeGetPropertiesExpHandler>>,
    <<ZeFenceCreateRpcM, zeFenceCreateHandler>>, <<ZeFenceDestroyRpcM, zeFenceDestroyHandler>>,
    <<ZeFenceHostSynchronizeRpcM, zeFenceHostSynchronizeHandler>>,
    <<ZeFenceQueryStatusRpcM, zeFenceQueryStatusHandler>>,
    <<ZeFenceResetRpcM, zeFenceResetHandler>>,
    <<ZeKernelSetGlobalOffsetExpRpcM, zeKernelSetGlobalOffsetExpHandler>>,
    <<ZeImageGetPropertiesRpcM, zeImageGetPropertiesHandler>>,
    <<ZeImageCreateRpcM, zeImageCreateHandler>>, <<ZeImageDestroyRpcM, zeImageDestroyHandler>>,
    <<ZeKernelSchedulingHintExpRpcM, zeKernelSchedulingHintExpHandler>>,
    <<ZeModuleInspectLinkageExtRpcM, zeModuleInspectLinkageExtHandler>>,
    <<ZeMemAllocSharedRpcM, zeMemAllocSharedHandler>>,
    <<ZeMemAllocDeviceRpcM, zeMemAllocDeviceHandler>>,
    <<ZeMemAllocHostRpcM, zeMemAllocHostHandler>>, <<ZeMemFreeRpcM, zeMemFreeHandler>>,
    <<ZeMemGetAllocPropertiesRpcM, zeMemGetAllocPropertiesHandler>>,
    <<ZeMemGetAddressRangeRpcM, zeMemGetAddressRangeHandler>>,
    <<ZeMemGetIpcHandleRpcM, zeMemGetIpcHandleHandler>>,
    <<ZeMemOpenIpcHandleRpcM, zeMemOpenIpcHandleHandler>>,
    <<ZeMemCloseIpcHandleRpcM, zeMemCloseIpcHandleHandler>>,
    <<ZeMemPutIpcHandleRpcM, zeMemPutIpcHandleHandler>>,
    <<ZexMemGetIpcHandlesRpcM, zexMemGetIpcHandlesHandler>>,
    <<ZexMemOpenIpcHandlesRpcM, zexMemOpenIpcHandlesHandler>>,
    <<ZeMemFreeExtRpcM, zeMemFreeExtHandler>>,
    <<ZeMemGetIpcHandleFromFileDescriptorExpRpcM,
      zeMemGetIpcHandleFromFileDescriptorExpHandler>>,
    <<ZeMemGetFileDescriptorFromIpcHandleExpRpcM,
      zeMemGetFileDescriptorFromIpcHandleExpHandler>>,
    <<ZeModuleCreateRpcM, zeModuleCreateHandler>>,
    <<ZeModuleDestroyRpcM, zeModuleDestroyHandler>>,
    <<ZeModuleDynamicLinkRpcM, zeModuleDynamicLinkHandler>>,
    <<ZeModuleBuildLogDestroyRpcM, zeModuleBuildLogDestroyHandler>>,
    <<ZeModuleBuildLogGetStringRpcM, zeModuleBuildLogGetStringHandler>>,
    <<ZeModuleGetNativeBinaryRpcM, zeModuleGetNativeBinaryHandler>>,
    <<ZeModuleGetGlobalPointerRpcM, zeModuleGetGlobalPointerHandler>>,
    <<ZeModuleGetKernelNamesRpcHelperRpcM, zeModuleGetKernelNamesRpcHelperHandler>>,
    <<ZeModuleGetPropertiesRpcM, zeModuleGetPropertiesHandler>>,
    <<ZeKernelCreateRpcM, zeKernelCreateHandler>>,
    <<ZeKernelDestroyRpcM, zeKernelDestroyHandler>>,
    <<ZeModuleGetFunctionPointerRpcM, zeModuleGetFunctionPointerHandler>>,
    <<ZeKernelSetGroupSizeRpcM, zeKernelSetGroupSizeHandler>>,
    <<ZeKernelSuggestGroupSizeRpcM, zeKernelSuggestGroupSizeHandler>>,
    <<ZeKernelSuggestMaxCooperativeGroupCountRpcM,
      zeKernelSuggestMaxCooperativeGroupCountHandler>>,
    <<ZeKernelSetArgumentValueRpcM, zeKernelSetArgumentValueHandler>>,
    <<ZeKernelSetIndirectAccessRpcM, zeKernelSetIndirectAccessHandler>>,
    <<ZeKernelGetIndirectAccessRpcM, zeKernelGetIndirectAccessHandler>>,
    <<ZeKernelGetSourceAttributesRpcHelperRpcM, zeKernelGetSourceAttributesRpcHelperHandler>>,
    <<ZeKernelSetCacheConfigRpcM, zeKernelSetCacheConfigHandler>>,
    <<ZeKernelGetPropertiesRpcM, zeKernelGetPropertiesHandler>>,
    <<ZeKernelGetNameRpcM, zeKernelGetNameHandler>>,
    <<ZeCommandListAppendLaunchKernelRpcM, zeCommandListAppendLaunchKernelHandler>>,
    <<ZeCommandListAppendLaunchCooperativeKernelRpcM,
      zeCommandListAppendLaunchCooperativeKernelHandler>>,
    <<ZeCommandListAppendLaunchKernelIndirectRpcM,
      zeCommandListAppendLaunchKernelIndirectHandler>>,
    <<ZeCommandListAppendLaunchMultipleKernelsIndirectRpcM,
      zeCommandListAppendLaunchMultipleKernelsIndirectHandler>>,
    <<ZeCommandListHostSynchronizeRpcM, zeCommandListHostSynchronizeHandler>>,
    <<ZeDevicePciGetPropertiesExtRpcM, zeDevicePciGetPropertiesExtHandler>>,
    <<ZeContextMakeMemoryResidentRpcM, zeContextMakeMemoryResidentHandler>>,
    <<ZeContextEvictMemoryRpcM, zeContextEvictMemoryHandler>>,
    <<ZeVirtualMemReserveRpcM, zeVirtualMemReserveHandler>>,
    <<ZeVirtualMemFreeRpcM, zeVirtualMemFreeHandler>>,
    <<ZeVirtualMemQueryPageSizeRpcM, zeVirtualMemQueryPageSizeHandler>>,
    <<ZePhysicalMemCreateRpcM, zePhysicalMemCreateHandler>>,
    <<ZePhysicalMemDestroyRpcM, zePhysicalMemDestroyHandler>>,
    <<ZeVirtualMemMapRpcM, zeVirtualMemMapHandler>>,
    <<ZeVirtualMemUnmapRpcM, zeVirtualMemUnmapHandler>>,
    <<ZeVirtualMemSetAccessAttributeRpcM, zeVirtualMemSetAccessAttributeHandler>>,
    <<ZeVirtualMemGetAccessAttributeRpcM, zeVirtualMemGetAccessAttributeHandler>>,
    <<ZexDriverImportExternalPointerRpcM, zexDriverImportExternalPointerHandler>>,
    <<ZexDriverReleaseImportedPointerRpcM, zexDriverReleaseImportedPointerHandler>>,
    <<ZexDriverGetHostPointerBaseAddressRpcM, zexDriverGetHostPointerBaseAddressHandler>>,
    <<ZeCommandListAppendWriteGlobalTimestamp_LocalRpcM,
      zeCommandListAppendWriteGlobalTimestamp_LocalHandler>>,
    <<ZeCommandListAppendWriteGlobalTimestamp_UsmRpcM,
      zeCommandListAppendWriteGlobalTimestamp_UsmHandler>>,
    <<ZeCommandListAppendWriteGlobalTimestamp_SharedRpcM,
      zeCommandListAppendWriteGlobalTimestamp_SharedHandler>>,
    <<ZeCommandListAppendMemoryCopyDeferred_Usm_UsmRpcM,
      zeCommandListAppendMemoryCopyDeferred_Usm_UsmHandler>>,
    <<ZeCommandListAppendMemoryCopyDeferred_Usm_SharedRpcM,
      zeCommandListAppendMemoryCopyDeferred_Usm_SharedHandler>>,
    <<ZeCommandListAppendMemoryCopyDeferred_Usm_RemappedRpcM,
      zeCommandListAppendMemoryCopyDeferred_Usm_RemappedHandler>>,
    <<ZeCommandListAppendMemoryCopyDeferred_Shared_UsmRpcM,
      zeCommandListAppendMemoryCopyDeferred_Shared_UsmHandler>>,
    <<ZeCommandListAppendMemoryCopyDeferred_Shared_SharedRpcM,
      zeCommandListAppendMemoryCopyDeferred_Shared_SharedHandler>>,
    <<ZeCommandListAppendMemoryCopyDeferred_Shared_RemappedRpcM,
      zeCommandListAppendMemoryCopyDeferred_Shared_RemappedHandler>>,
    <<ZeCommandListAppendMemoryCopyDeferred_Remapped_UsmRpcM,
      zeCommandListAppendMemoryCopyDeferred_Remapped_UsmHandler>>,
    <<ZeCommandListAppendMemoryCopyDeferred_Remapped_SharedRpcM,
      zeCommandListAppendMemoryCopyDeferred_Remapped_SharedHandler>>,
    <<ZeCommandListAppendMemoryCopyDeferred_Remapped_RemappedRpcM,
      zeCommandListAppendMemoryCopyDeferred_Remapped_RemappedHandler>>,
    <<ZeCommandListAppendMemoryCopyImmediate_Local_LocalRpcM,
      zeCommandListAppendMemoryCopyImmediate_Local_LocalHandler>>,
    <<ZeCommandListAppendMemoryCopyImmediate_Local_UsmRpcM,
      zeCommandListAppendMemoryCopyImmediate_Local_UsmHandler>>,
    <<ZeCommandListAppendMemoryCopyImmediate_Local_SharedRpcM,
      zeCommandListAppendMemoryCopyImmediate_Local_SharedHandler>>,
    <<ZeCommandListAppendMemoryCopyImmediate_Usm_LocalRpcM,
      zeCommandListAppendMemoryCopyImmediate_Usm_LocalHandler>>,
    <<ZeCommandListAppendMemoryCopyImmediate_Usm_UsmRpcM,
      zeCommandListAppendMemoryCopyImmediate_Usm_UsmHandler>>,
    <<ZeCommandListAppendMemoryCopyImmediate_Usm_SharedRpcM,
      zeCommandListAppendMemoryCopyImmediate_Usm_SharedHandler>>,
    <<ZeCommandListAppendMemoryCopyImmediate_Shared_LocalRpcM,
      zeCommandListAppendMemoryCopyImmediate_Shared_LocalHandler>>,
    <<ZeCommandListAppendMemoryCopyImmediate_Shared_UsmRpcM,
      zeCommandListAppendMemoryCopyImmediate_Shared_UsmHandler>>,
    <<ZeCommandListAppendMemoryCopyImmediate_Shared_SharedRpcM,
      zeCommandListAppendMemoryCopyImmediate_Shared_SharedHandler>>,
    <<ZeCommandListAppendMemoryCopyImmediateSynchronous_Local_LocalRpcM,
      zeCommandListAppendMemoryCopyImmediateSynchronous_Local_LocalHandler>>,
    <<ZeCommandListAppendMemoryCopyImmediateSynchronous_Local_UsmRpcM,
      zeCommandListAppendMemoryCopyImmediateSynchronous_Local_UsmHandler>>,
    <<ZeCommandListAppendMemoryCopyImmediateSynchronous_Local_SharedRpcM,
      zeCommandListAppendMemoryCopyImmediateSynchronous_Local_SharedHandler>>,
    <<ZeCommandListAppendMemoryCopyImmediateSynchronous_Usm_LocalRpcM,
      zeCommandListAppendMemoryCopyImmediateSynchronous_Usm_LocalHandler>>,
    <<ZeCommandListAppendMemoryCopyImmediateSynchronous_Usm_UsmRpcM,
      zeCommandListAppendMemoryCopyImmediateSynchronous_Usm_UsmHandler>>,
    <<ZeCommandListAppendMemoryCopyImmediateSynchronous_Usm_SharedRpcM,
      zeCommandListAppendMemoryCopyImmediateSynchronous_Usm_SharedHandler>>,
    <<ZeCommandListAppendMemoryCopyImmediateSynchronous_Shared_LocalRpcM,
      zeCommandListAppendMemoryCopyImmediateSynchronous_Shared_LocalHandler>>,
    <<ZeCommandListAppendMemoryCopyImmediateSynchronous_Shared_UsmRpcM,
      zeCommandListAppendMemoryCopyImmediateSynchronous_Shared_UsmHandler>>,
    <<ZeCommandListAppendMemoryCopyImmediateSynchronous_Shared_SharedRpcM,
      zeCommandListAppendMemoryCopyImmediateSynchronous_Shared_SharedHandler>>,
    <<ZeCommandListAppendMemoryCopyRegionDeferred_Usm_UsmRpcM,
      zeCommandListAppendMemoryCopyRegionDeferred_Usm_UsmHandler>>,
    <<ZeCommandListAppendMemoryCopyRegionDeferred_Usm_SharedRpcM,
      zeCommandListAppendMemoryCopyRegionDeferred_Usm_SharedHandler>>,
    <<ZeCommandListAppendMemoryCopyRegionDeferred_Usm_RemappedRpcM,
      zeCommandListAppendMemoryCopyRegionDeferred_Usm_RemappedHandler>>,
    <<ZeCommandListAppendMemoryCopyRegionDeferred_Shared_UsmRpcM,
      zeCommandListAppendMemoryCopyRegionDeferred_Shared_UsmHandler>>,
    <<ZeCommandListAppendMemoryCopyRegionDeferred_Shared_SharedRpcM,
      zeCommandListAppendMemoryCopyRegionDeferred_Shared_SharedHandler>>,
    <<ZeCommandListAppendMemoryCopyRegionDeferred_Shared_RemappedRpcM,
      zeCommandListAppendMemoryCopyRegionDeferred_Shared_RemappedHandler>>,
    <<ZeCommandListAppendMemoryCopyRegionDeferred_Remapped_UsmRpcM,
      zeCommandListAppendMemoryCopyRegionDeferred_Remapped_UsmHandler>>,
    <<ZeCommandListAppendMemoryCopyRegionDeferred_Remapped_SharedRpcM,
      zeCommandListAppendMemoryCopyRegionDeferred_Remapped_SharedHandler>>,
    <<ZeCommandListAppendMemoryCopyRegionDeferred_Remapped_RemappedRpcM,
      zeCommandListAppendMemoryCopyRegionDeferred_Remapped_RemappedHandler>>,
    <<ZeCommandListAppendMemoryCopyRegionImmediateSynchronous_Local_UsmRpcM,
      zeCommandListAppendMemoryCopyRegionImmediateSynchronous_Local_UsmHandler>>,
    <<ZeCommandListAppendMemoryCopyRegionImmediateSynchronous_Local_SharedRpcM,
      zeCommandListAppendMemoryCopyRegionImmediateSynchronous_Local_SharedHandler>>,
    <<ZeCommandListAppendMemoryCopyRegionImmediateSynchronous_Local_RemappedRpcM,
      zeCommandListAppendMemoryCopyRegionImmediateSynchronous_Local_RemappedHandler>>,
    <<ZeCommandListAppendMemoryCopyRegionImmediateSynchronous_Usm_UsmRpcM,
      zeCommandListAppendMemoryCopyRegionImmediateSynchronous_Usm_UsmHandler>>,
    <<ZeCommandListAppendMemoryCopyRegionImmediateSynchronous_Usm_SharedRpcM,
      zeCommandListAppendMemoryCopyRegionImmediateSynchronous_Usm_SharedHandler>>,
    <<ZeCommandListAppendMemoryCopyRegionImmediateSynchronous_Usm_RemappedRpcM,
      zeCommandListAppendMemoryCopyRegionImmediateSynchronous_Usm_RemappedHandler>>,
    <<ZeCommandListAppendMemoryCopyRegionImmediateSynchronous_Shared_UsmRpcM,
      zeCommandListAppendMemoryCopyRegionImmediateSynchronous_Shared_UsmHandler>>,
    <<ZeCommandListAppendMemoryCopyRegionImmediateSynchronous_Shared_SharedRpcM,
      zeCommandListAppendMemoryCopyRegionImmediateSynchronous_Shared_SharedHandler>>,
    <<ZeCommandListAppendMemoryCopyRegionImmediateSynchronous_Shared_RemappedRpcM,
      zeCommandListAppendMemoryCopyRegionImmediateSynchronous_Shared_RemappedHandler>>,
    <<ZeCommandListAppendMemoryCopyRegionImmediateAsynchronous_Local_UsmRpcM,
      zeCommandListAppendMemoryCopyRegionImmediateAsynchronous_Local_UsmHandler>>,
    <<ZeCommandListAppendMemoryCopyRegionImmediateAsynchronous_Local_SharedRpcM,
      zeCommandListAppendMemoryCopyRegionImmediateAsynchronous_Local_SharedHandler>>,
    <<ZeCommandListAppendMemoryCopyRegionImmediateAsynchronous_Local_RemappedRpcM,
      zeCommandListAppendMemoryCopyRegionImmediateAsynchronous_Local_RemappedHandler>>,
    <<ZeCommandListAppendMemoryCopyRegionImmediateAsynchronous_Usm_UsmRpcM,
      zeCommandListAppendMemoryCopyRegionImmediateAsynchronous_Usm_UsmHandler>>,
    <<ZeCommandListAppendMemoryCopyRegionImmediateAsynchronous_Usm_SharedRpcM,
      zeCommandListAppendMemoryCopyRegionImmediateAsynchronous_Usm_SharedHandler>>,
    <<ZeCommandListAppendMemoryCopyRegionImmediateAsynchronous_Usm_RemappedRpcM,
      zeCommandListAppendMemoryCopyRegionImmediateAsynchronous_Usm_RemappedHandler>>,
    <<ZeCommandListAppendMemoryCopyRegionImmediateAsynchronous_Shared_UsmRpcM,
      zeCommandListAppendMemoryCopyRegionImmediateAsynchronous_Shared_UsmHandler>>,
    <<ZeCommandListAppendMemoryCopyRegionImmediateAsynchronous_Shared_SharedRpcM,
      zeCommandListAppendMemoryCopyRegionImmediateAsynchronous_Shared_SharedHandler>>,
    <<ZeCommandListAppendMemoryCopyRegionImmediateAsynchronous_Shared_RemappedRpcM,
      zeCommandListAppendMemoryCopyRegionImmediateAsynchronous_Shared_RemappedHandler>>,
    <<ZeCommandListAppendMemoryCopyFromContextDeferred_Usm_UsmRpcM,
      zeCommandListAppendMemoryCopyFromContextDeferred_Usm_UsmHandler>>,
    <<ZeCommandListAppendMemoryCopyFromContextDeferred_Shared_UsmRpcM,
      zeCommandListAppendMemoryCopyFromContextDeferred_Shared_UsmHandler>>,
    <<ZeCommandListAppendMemoryCopyFromContextDeferred_Remapped_UsmRpcM,
      zeCommandListAppendMemoryCopyFromContextDeferred_Remapped_UsmHandler>>,
    <<ZeCommandListAppendMemoryCopyFromContextImmediateSynchronous_Local_UsmRpcM,
      zeCommandListAppendMemoryCopyFromContextImmediateSynchronous_Local_UsmHandler>>,
    <<ZeCommandListAppendMemoryCopyFromContextImmediateSynchronous_Usm_UsmRpcM,
      zeCommandListAppendMemoryCopyFromContextImmediateSynchronous_Usm_UsmHandler>>,
    <<ZeCommandListAppendMemoryCopyFromContextImmediateSynchronous_Shared_UsmRpcM,
      zeCommandListAppendMemoryCopyFromContextImmediateSynchronous_Shared_UsmHandler>>,
    <<ZeCommandListAppendMemoryCopyFromContextImmediateAsynchronous_Local_UsmRpcM,
      zeCommandListAppendMemoryCopyFromContextImmediateAsynchronous_Local_UsmHandler>>,
    <<ZeCommandListAppendMemoryCopyFromContextImmediateAsynchronous_Usm_UsmRpcM,
      zeCommandListAppendMemoryCopyFromContextImmediateAsynchronous_Usm_UsmHandler>>,
    <<ZeCommandListAppendMemoryCopyFromContextImmediateAsynchronous_Shared_UsmRpcM,
      zeCommandListAppendMemoryCopyFromContextImmediateAsynchronous_Shared_UsmHandler>>>>
=============================================================================
