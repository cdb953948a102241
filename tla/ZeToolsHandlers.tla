--------------------------- MODULE ZeToolsHandlers ---------------------------
(*****************************************************************************)
(* The service handlers of Level Zero (generated_service_level_zero.h and    *)
(* service.cpp): one definition per function.                                *)
(* Here: the tools and sysman functions.                                     *)
(*****************************************************************************)
EXTENDS ZeToolsMessages

zetMetricGroupGetHandler ==
  Handler({"pCount", "phMetricGroups"})

zetMetricGroupGetPropertiesHandler ==
  [Handler({"pProperties"}) EXCEPT !.reassembles = TRUE]

zetMetricGroupGetGlobalTimestampsExpHandler ==
  Handler({"globalTimestamp", "metricTimestamp"})

zetMetricGroupGetExportDataExpHandler ==
  Handler({"pRawData", "pExportDataSize", "pExportData"})

zetMetricGroupCalculateMetricValuesHandler ==
  Handler({"pRawData", "pMetricValueCount", "pMetricValues"})

zetMetricGroupCalculateMultipleMetricValuesExpHandler ==
  Handler({"pRawData", "pSetCount", "pTotalMetricValueCount", "pMetricCounts", "pMetricValues"})

zetMetricGetHandler ==
  Handler({"pCount", "phMetrics"})

zetMetricGetPropertiesHandler ==
  Handler({"pProperties"})

zetContextActivateMetricGroupsHandler ==
  Handler({"phMetricGroups"})

zetMetricStreamerOpenHandler ==
  [Handler({"desc", "phMetricStreamer"}) EXCEPT
    !.after = Effects("trackAllocatedResource", {"phMetricStreamer"})
        \cup Effects("registerMetricStreamerToContextMapping", {"phMetricStreamer"})]

zetMetricStreamerReadDataHandler ==
  Handler({"pRawDataSize"})

zetMetricStreamerReadDataRpcHelperHandler ==
  Handler({"pRawDataSize"})

zetMetricStreamerCloseHandler ==
  [Handler({}) EXCEPT
    !.after = Effects("removeResourceTracking", {"hMetricStreamer"})
        \cup Effects("deregisterMetricStreamerMapping", {"hMetricStreamer"})]

zetMetricQueryPoolCreateHandler ==
  Handler({"desc", "phMetricQueryPool"})

zetMetricQueryPoolDestroyHandler ==
  Handler({})

zetMetricQueryCreateHandler ==
  Handler({"phMetricQuery"})

zetMetricQueryDestroyHandler ==
  Handler({})

zetMetricQueryResetHandler ==
  Handler({})

zetMetricQueryGetDataHandler ==
  Handler({"pRawDataSize", "pRawData"})

zetCommandListAppendMetricQueryBeginHandler ==
  Handler({})

zetCommandListAppendMetricQueryEndHandler ==
  Handler({"phWaitEvents"})

zetCommandListAppendMetricMemoryBarrierHandler ==
  Handler({})

zetCommandListAppendMetricStreamerMarkerHandler ==
  Handler({})

zetDeviceGetDebugPropertiesHandler ==
  [Handler({"pDebugProperties"}) EXCEPT !.reassembles = TRUE]

zetDebugAttachHandler ==
  Handler({"config", "phDebug"})

zetDebugDetachHandler ==
  Handler({})

zetKernelGetProfileInfoHandler ==
  Handler({"pProfileProperties"})

zesDeviceResetHandler ==
  Handler({})

zesDeviceResetExtHandler ==
  Handler({})

zesDeviceEnumPowerDomainsHandler ==
  Handler({"pCount", "phPower"})

zesDeviceGetCardPowerDomainHandler ==
  Handler({"phPower"})

zesPowerGetPropertiesHandler ==
  [Handler({"pProperties"}) EXCEPT !.reassembles = TRUE]

zesPowerGetEnergyCounterHandler ==
  Handler({"pEnergy"})

zesPowerGetLimitsHandler ==
  Handler({"pSustained", "pBurst", "pPeak"})

zesPowerSetLimitsHandler ==
  Handler({"pSustained", "pBurst", "pPeak"})

zesPowerGetLimitsExtHandler ==
  Handler({"pCount", "pSustained"})

zesPowerSetLimitsExtHandler ==
  Handler({"pCount", "pSustained"})

zesPowerGetEnergyThresholdHandler ==
  Handler({"pThreshold"})

zesPowerSetEnergyThresholdHandler ==
  Handler({})

zesDeviceEventRegisterHandler ==
  Handler({})

zesDriverEventListenHandler ==
  Handler({"phDevices", "pNumDeviceEvents", "pEvents"})

zesDriverEventListenExHandler ==
  Handler({"phDevices", "pNumDeviceEvents", "pEvents"})

zesDeviceEnumTemperatureSensorsHandler ==
  Handler({"pCount", "phTemperature"})

zesTemperatureGetPropertiesHandler ==
  Handler({"pProperties"})

zesTemperatureGetConfigHandler ==
  Handler({"pConfig"})

zesTemperatureSetConfigHandler ==
  Handler({"pConfig"})

zesTemperatureGetStateHandler ==
  Handler({"pTemperature"})

zesDeviceEnumRasErrorSetsHandler ==
  Handler({"pCount", "phRas"})

zesRasGetPropertiesHandler ==
  Handler({"pProperties"})

zesRasGetConfigHandler ==
  Handler({"pConfig"})

zesRasSetConfigHandler ==
  Handler({"pConfig"})

zesRasGetStateHandler ==
  Handler({})

zesDeviceEnumFrequencyDomainsHandler ==
  Handler({"pCount", "phFrequency"})

zesFrequencyGetPropertiesHandler ==
  Handler({"pProperties"})

zesFrequencyGetAvailableClocksHandler ==
  Handler({"pCount", "phFrequency"})

zesFrequencyGetRangeHandler ==
  Handler({"pConfig"})

zesFrequencySetRangeHandler ==
  Handler({"pLimits"})

zesFrequencyGetStateHandler ==
  Handler({"pState"})

zesFrequencyGetThrottleTimeHandler ==
  Handler({"pThrottleTime"})

zesFrequencyOcGetCapabilitiesHandler ==
  Handler({"pOcCapabilities"})

zesFrequencyOcGetVoltageTargetHandler ==
  Handler({})

zesFrequencyOcSetVoltageTargetHandler ==
  Handler({})

zesFrequencyOcSetModeHandler ==
  Handler({})

zesFrequencyOcGetModeHandler ==
  Handler({})

zesFrequencyOcGetIccMaxHandler ==
  Handler({})

zesFrequencyOcSetIccMaxHandler ==
  Handler({})

zesFrequencyOcGetTjMaxHandler ==
  Handler({})

zesFrequencyOcSetTjMaxHandler ==
  Handler({})

zesDeviceEnumEngineGroupsHandler ==
  Handler({"pCount", "phEngine"})

zesDeviceEnumSchedulersHandler ==
  Handler({"pCount", "phScheduler"})

zesSchedulerGetPropertiesHandler ==
  Handler({"pProperties"})

zesSchedulerGetCurrentModeHandler ==
  Handler({"pMode"})

zesSchedulerGetTimeoutModePropertiesHandler ==
  Handler({"pConfig"})

zesSchedulerGetTimesliceModePropertiesHandler ==
  Handler({"pConfig"})

zesSchedulerSetTimeoutModeHandler ==
  Handler({"pProperties", "pNeedReload"})

zesSchedulerSetTimesliceModeHandler ==
  Handler({"pProperties", "pNeedReload"})

zesSchedulerSetExclusiveModeHandler ==
  Handler({"pNeedReload"})

zesSchedulerSetComputeUnitDebugModeHandler ==
  Handler({"pNeedReload"})

zesEngineGetPropertiesHandler ==
  Handler({"pProperties"})

zesEngineGetActivityHandler ==
  Handler({"pStats"})

zesDeviceGetStateHandler ==
  Handler({"pState"})

zesDeviceProcessesGetStateHandler ==
  Handler({"pCount", "pProcesses"})

zesDevicePciGetPropertiesHandler ==
  Handler({"pProperties"})

zesDevicePciGetStateHandler ==
  Handler({"pState"})

zesDevicePciGetBarsHandler ==
  [Handler({"pCount", "pProperties"}) EXCEPT !.reassembles = TRUE]

zesDevicePciGetStatsHandler ==
  Handler({"pStats"})

zesDeviceGetPropertiesHandler ==
  Handler({"pProperties"})

zesDeviceEnumMemoryModulesHandler ==
  Handler({"pCount", "phMemory"})

zesMemoryGetPropertiesHandler ==
  Handler({"pProperties"})

zesMemoryGetStateHandler ==
  Handler({"pState"})

zesMemoryGetBandwidthHandler ==
  Handler({"pBandwidth"})

zesDeviceEnumPerformanceFactorDomainsHandler ==
  Handler({"pCount", "phPerf"})

zesPerformanceFactorGetPropertiesHandler ==
  Handler({"pProperties"})

zesPerformanceFactorGetConfigHandler ==
  Handler({"pFactor"})

zesPerformanceFactorSetConfigHandler ==
  Handler({})

zesDeviceEnumStandbyDomainsHandler ==
  Handler({"pCount", "phStandby"})

zesStandbyGetPropertiesHandler ==
  Handler({"pProperties"})

zesStandbyGetModeHandler ==
  Handler({"pMode"})

zesStandbySetModeHandler ==
  Handler({})
=============================================================================
