--------------------------- MODULE ZeToolsMessages ---------------------------
(*****************************************************************************)
(* The RPC messages of Level Zero (generated_rpc_messages_level_zero.h):     *)
(* one definition per struct, for its Args, its Captures, copyFromCaller     *)
(* and copyToCaller.  Here: the tools and sysman functions.                  *)
(*****************************************************************************)
EXTENDS ApiTables

ZetMetricGroupGetRpcM ==
  Message(0, [hDevice |-> Handle, pCount |-> InOut, phMetricGroups |-> OutHandles],
             {"pCount"}, {"pCount", "phMetricGroups"})

ZetMetricGroupGetPropertiesRpcM ==
  [Message(1, [hMetricGroup |-> Handle, pProperties |-> InOut], {"pProperties"}, {"pProperties"})
     EXCEPT !.nested = {"pProperties"}]

ZetMetricGroupGetGlobalTimestampsExpRpcM ==
  Message(2, [hMetricGroup |-> Handle, synchronizedWithHost |-> Value, globalTimestamp |-> Out,
              metricTimestamp |-> Out], {}, {"globalTimestamp", "metricTimestamp"})

ZetMetricGroupGetExportDataExpRpcM ==
  Message(3, [hMetricGroup |-> Handle, pRawData |-> In, rawDataSize |-> Value,
              pExportDataSize |-> InOut, pExportData |-> InOut],
             {"pRawData", "pExportDataSize", "pExportData"}, {"pExportDataSize", "pExportData"})

ZetMetricGroupCalculateMetricValuesRpcM ==
  Message(4, [hMetricGroup |-> Handle, type |-> Value, rawDataSize |-> Value, pRawData |-> In,
              pMetricValueCount |-> InOut, pMetricValues |-> InOut],
             {"pRawData", "pMetricValueCount", "pMetricValues"},
             {"pMetricValueCount", "pMetricValues"})

ZetMetricGroupCalculateMultipleMetricValuesExpRpcM ==
  Message(5, [hMetricGroup |-> Handle, type |-> Value, rawDataSize |-> Value, pRawData |-> In,
              pSetCount |-> InOut, pTotalMetricValueCount |-> InOut, pMetricCounts |-> InOut,
              pMetricValues |-> InOut],
             {"pRawData", "pSetCount", "pTotalMetricValueCount", "pMetricCounts",
              "pMetricValues"},
             {"pSetCount", "pTotalMetricValueCount", "pMetricCounts", "pMetricValues"})

ZetMetricGetRpcM ==
  Message(6, [hMetricGroup |-> Handle, pCount |-> InOut, phMetrics |-> OutHandles],
             {"pCount"}, {"pCount", "phMetrics"})

ZetMetricGetPropertiesRpcM ==
  Message(7, [hMetric |-> Handle, pProperties |-> InOut], {"pProperties"}, {"pProperties"})

ZetContextActivateMetricGroupsRpcM ==
  Message(8, [hContext |-> Handle, hDevice |-> Handle, count |-> Value,
              phMetricGroups |-> InHandles], {"phMetricGroups"}, {})

ZetMetricStreamerOpenRpcM ==
  Message(9, [hContext |-> Handle, hDevice |-> Handle, hMetricGroup |-> Handle, desc |-> InOut,
              hNotificationEvent |-> Modified, phMetricStreamer |-> Created],
             {"desc"}, {"desc", "phMetricStreamer"})

ZetMetricStreamerReadDataRpcM ==
  Message(10, [hMetricStreamer |-> Handle, maxReportCount |-> Value, pRawDataSize |-> InOut,
               pRawData |-> Destination], {"pRawDataSize"}, {"pRawDataSize"})

ZetMetricStreamerReadDataRpcHelperRpcM ==
  Message(11, [hMetricStreamer |-> Handle, maxReportCount |-> Value, pRawDataSize |-> InOut,
               pRawData |-> Destination], {"pRawDataSize"}, {"pRawDataSize"})

ZetMetricStreamerCloseRpcM ==
  Message(12, [hMetricStreamer |-> Destroyed], {}, {})

ZetMetricQueryPoolCreateRpcM ==
  Message(13, [hContext |-> Handle, hDevice |-> Handle, hMetricGroup |-> Handle, desc |-> In,
               phMetricQueryPool |-> Created], {"desc"}, {"phMetricQueryPool"})

ZetMetricQueryPoolDestroyRpcM ==
  Message(14, [hMetricQueryPool |-> Value], {}, {})

ZetMetricQueryCreateRpcM ==
  Message(15, [hMetricQueryPool |-> Value, index |-> Value, phMetricQuery |-> Created],
              {}, {"phMetricQuery"})

ZetMetricQueryDestroyRpcM ==
  Message(16, [hMetricQuery |-> Value], {}, {})

ZetMetricQueryResetRpcM ==
  Message(17, [hMetricQuery |-> Value], {}, {})

ZetMetricQueryGetDataRpcM ==
  Message(18, [hMetricQuery |-> Value, pRawDataSize |-> InOut, pRawData |-> Out],
              {"pRawDataSize"}, {"pRawDataSize", "pRawData"})

ZetCommandListAppendMetricQueryBeginRpcM ==
  Message(19, [hCommandList |-> Handle, hMetricQuery |-> Value], {}, {})

ZetCommandListAppendMetricQueryEndRpcM ==
  Message(20, [hCommandList |-> Handle, hMetricQuery |-> Value, hSignalEvent |-> Modified,
               numWaitEvents |-> Value, phWaitEvents |-> InHandles], {"phWaitEvents"}, {})

ZetCommandListAppendMetricMemoryBarrierRpcM ==
  Message(21, [hCommandList |-> Handle], {}, {})

ZetCommandListAppendMetricStreamerMarkerRpcM ==
  Message(22, [hCommandList |-> Handle, hMetricStreamer |-> Handle, value |-> Value], {}, {})

ZetDeviceGetDebugPropertiesRpcM ==
  [Message(23, [hDevice |-> Handle, pDebugProperties |-> InOut],
               {"pDebugProperties"}, {"pDebugProperties"})
     EXCEPT !.nested = {"pDebugProperties"}]

ZetDebugAttachRpcM ==
  Message(24, [hDevice |-> Handle, config |-> In, phDebug |-> Created], {"config"}, {"phDebug"})

ZetDebugDetachRpcM ==
  Message(25, [hDebug |-> Value], {}, {})

ZetKernelGetProfileInfoRpcM ==
  Message(26, [hKernel |-> Handle, pProfileProperties |-> InOut],
              {"pProfileProperties"}, {"pProfileProperties"})

ZesDeviceResetRpcM ==
  Message(27, [hDevice |-> Handle, force |-> Value], {}, {})

ZesDeviceResetExtRpcM ==
  Message(28, [hDevice |-> Handle, pProperties |-> InOut], {}, {})

ZesDeviceEnumPowerDomainsRpcM ==
  Message(29, [hDevice |-> Handle, pCount |-> InOut, phPower |-> InOut],
              {"pCount", "phPower"}, {"pCount", "phPower"})

ZesDeviceGetCardPowerDomainRpcM ==
  Message(30, [hDevice |-> Handle, phPower |-> InOut], {"phPower"}, {"phPower"})

ZesPowerGetPropertiesRpcM ==
  [Message(31, [hPower |-> Value, pProperties |-> InOut], {"pProperties"}, {"pProperties"})
     EXCEPT !.nested = {"pProperties"}]

ZesPowerGetEnergyCounterRpcM ==
  Message(32, [hPower |-> Value, pEnergy |-> InOut], {"pEnergy"}, {"pEnergy"})

ZesPowerGetLimitsRpcM ==
  Message(33, [hPower |-> Value, pSustained |-> InOut, pBurst |-> InOut, pPeak |-> InOut],
              {"pSustained", "pBurst", "pPeak"}, {"pSustained", "pBurst", "pPeak"})

ZesPowerSetLimitsRpcM ==
  Message(34, [hPower |-> Value, pSustained |-> In, pBurst |-> In, pPeak |-> In],
              {"pSustained", "pBurst", "pPeak"}, {})

ZesPowerGetLimitsExtRpcM ==
  Message(35, [hPower |-> Value, pCount |-> InOut, pSustained |-> InOut],
              {"pCount", "pSustained"}, {"pCount", "pSustained"})

ZesPowerSetLimitsExtRpcM ==
  Message(36, [hPower |-> Value, pCount |-> In, pSustained |-> In], {"pCount", "pSustained"}, {})

ZesPowerGetEnergyThresholdRpcM ==
  Message(37, [hPower |-> Value, pThreshold |-> InOut], {"pThreshold"}, {"pThreshold"})

ZesPowerSetEnergyThresholdRpcM ==
  Message(38, [hPower |-> Value, pThreshold |-> Value], {}, {})

ZesDeviceEventRegisterRpcM ==
  Message(39, [hDevice |-> Handle, events |-> Value], {}, {})

ZesDriverEventListenRpcM ==
  Message(40, [hDriver |-> Handle, timeout |-> Value, count |-> Value, phDevices |-> InHandles,
               pNumDeviceEvents |-> InOut, pEvents |-> InOut],
              {"phDevices", "pNumDeviceEvents", "pEvents"}, {"pNumDeviceEvents", "pEvents"})

ZesDriverEventListenExRpcM ==
  Message(41, [hDriver |-> Handle, timeout |-> Value, count |-> Value, phDevices |-> InHandles,
               pNumDeviceEvents |-> InOut, pEvents |-> InOut],
              {"phDevices", "pNumDeviceEvents", "pEvents"}, {"pNumDeviceEvents", "pEvents"})

ZesDeviceEnumTemperatureSensorsRpcM ==
  Message(42, [hDevice |-> Handle, pCount |-> InOut, phTemperature |-> InOut],
              {"pCount", "phTemperature"}, {"pCount", "phTemperature"})

ZesTemperatureGetPropertiesRpcM ==
  Message(43, [hTemperature |-> Value, pProperties |-> InOut], {"pProperties"}, {"pProperties"})

ZesTemperatureGetConfigRpcM ==
  Message(44, [hTemperature |-> Value, pConfig |-> InOut], {"pConfig"}, {"pConfig"})

ZesTemperatureSetConfigRpcM ==
  Message(45, [hTemperature |-> Value, pConfig |-> In], {"pConfig"}, {})

ZesTemperatureGetStateRpcM ==
  Message(46, [hTemperature |-> Value, pTemperature |-> InOut],
              {"pTemperature"}, {"pTemperature"})

ZesDeviceEnumRasErrorSetsRpcM ==
  Message(47, [hDevice |-> Handle, pCount |-> InOut, phRas |-> InOut],
              {"pCount", "phRas"}, {"pCount", "phRas"})

ZesRasGetPropertiesRpcM ==
  Message(48, [hRas |-> Value, pProperties |-> InOut], {"pProperties"}, {"pProperties"})

ZesRasGetConfigRpcM ==
  Message(49, [hRas |-> Value, pConfig |-> InOut], {"pConfig"}, {"pConfig"})

ZesRasSetConfigRpcM ==
  Message(50, [hRas |-> Value, pConfig |-> In], {"pConfig"}, {})

ZesRasGetStateRpcM ==
  Message(51, [hRas |-> Value, clear |-> Value, pState |-> Out], {}, {})

ZesDeviceEnumFrequencyDomainsRpcM ==
  Message(52, [hDevice |-> Handle, pCount |-> InOut, phFrequency |-> InOut],
              {"pCount", "phFrequency"}, {"pCount", "phFrequency"})

ZesFrequencyGetPropertiesRpcM ==
  Message(53, [hFrequency |-> Value, pProperties |-> InOut], {"pProperties"}, {"pProperties"})

ZesFrequencyGetAvailableClocksRpcM ==
  Message(54, [hFrequency |-> Value, pCount |-> InOut, phFrequency |-> InOut],
              {"pCount", "phFrequency"}, {"pCount", "phFrequency"})

ZesFrequencyGetRangeRpcM ==
  Message(55, [hFrequency |-> Value, pConfig |-> InOut], {"pConfig"}, {"pConfig"})

ZesFrequencySetRangeRpcM ==
  Message(56, [hFrequency |-> Value, pLimits |-> In], {"pLimits"}, {})

ZesFrequencyGetStateRpcM ==
  Message(57, [hFrequency |-> Value, pState |-> InOut], {"pState"}, {"pState"})

ZesFrequencyGetThrottleTimeRpcM ==
  Message(58, [hFrequency |-> Value, pThrottleTime |-> InOut],
              {"pThrottleTime"}, {"pThrottleTime"})

ZesFrequencyOcGetCapabilitiesRpcM ==
  Message(59, [hFrequency |-> Value, pOcCapabilities |-> InOut],
              {"pOcCapabilities"}, {"pOcCapabilities"})

ZesFrequencyOcGetVoltageTargetRpcM ==
  Message(60, [hFrequency |-> Value, pCurrentVoltageTarget |-> Out,
               pCurrentVoltageOffset |-> Out], {}, {})

ZesFrequencyOcSetVoltageTargetRpcM ==
  Message(61, [hFrequency |-> Value, CurrentVoltageTarget |-> Value,
               CurrentVoltageOffset |-> Value], {}, {})

ZesFrequencyOcSetModeRpcM ==
  Message(62, [hFrequency |-> Value, CurrentOcMode |-> Value], {}, {})

ZesFrequencyOcGetModeRpcM ==
  Message(63, [hFrequency |-> Value, pCurrentOcMode |-> Out], {}, {})

ZesFrequencyOcGetIccMaxRpcM ==
  Message(64, [hFrequency |-> Value, pOcIccMax |-> Out], {}, {})

ZesFrequencyOcSetIccMaxRpcM ==
  Message(65, [hFrequency |-> Value, ocIccMax |-> Value], {}, {})

ZesFrequencyOcGetTjMaxRpcM ==
  Message(66, [hFrequency |-> Value, pOcTjMax |-> Out], {}, {})

ZesFrequencyOcSetTjMaxRpcM ==
  Message(67, [hFrequency |-> Value, ocTjMax |-> Value], {}, {})

ZesDeviceEnumEngineGroupsRpcM ==
  Message(68, [hDevice |-> Handle, pCount |-> InOut, phEngine |-> InOut],
              {"pCount", "phEngine"}, {"pCount", "phEngine"})

ZesDeviceEnumSchedulersRpcM ==
  Message(69, [hDevice |-> Handle, pCount |-> InOut, phScheduler |-> InOut],
              {"pCount", "phScheduler"}, {"pCount", "phScheduler"})

ZesSchedulerGetPropertiesRpcM ==
  Message(70, [hScheduler |-> Value, pProperties |-> InOut], {"pProperties"}, {"pProperties"})

ZesSchedulerGetCurrentModeRpcM ==
  Message(71, [hScheduler |-> Value, pMode |-> InOut], {"pMode"}, {"pMode"})

ZesSchedulerGetTimeoutModePropertiesRpcM ==
  Message(72, [hScheduler |-> Value, getDefaults |-> Value, pConfig |-> InOut],
              {"pConfig"}, {"pConfig"})

ZesSchedulerGetTimesliceModePropertiesRpcM ==
  Message(73, [hScheduler |-> Value, getDefaults |-> Value, pConfig |-> InOut],
              {"pConfig"}, {"pConfig"})

ZesSchedulerSetTimeoutModeRpcM ==
  Message(74, [hScheduler |-> Value, pProperties |-> In, pNeedReload |-> InOut],
              {"pProperties", "pNeedReload"}, {"pNeedReload"})

ZesSchedulerSetTimesliceModeRpcM ==
  Message(75, [hScheduler |-> Value, pProperties |-> In, pNeedReload |-> InOut],
              {"pProperties", "pNeedReload"}, {"pNeedReload"})

ZesSchedulerSetExclusiveModeRpcM ==
  Message(76, [hScheduler |-> Value, pNeedReload |-> InOut], {"pNeedReload"}, {"pNeedReload"})

ZesSchedulerSetComputeUnitDebugModeRpcM ==
  Message(77, [hScheduler |-> Value, pNeedReload |-> InOut], {"pNeedReload"}, {"pNeedReload"})

ZesEngineGetPropertiesRpcM ==
  Message(78, [hEngine |-> Value, pProperties |-> InOut], {"pProperties"}, {"pProperties"})

ZesEngineGetActivityRpcM ==
  Message(79, [hEngine |-> Value, pStats |-> InOut], {"pStats"}, {"pStats"})

ZesDeviceGetStateRpcM ==
  Message(80, [hDevice |-> Handle, pState |-> Out], {}, {"pState"})

ZesDeviceProcessesGetStateRpcM ==
  Message(81, [hDevice |-> Handle, pCount |-> InOut, pProcesses |-> InOut],
              {"pCount", "pProcesses"}, {"pCount", "pProcesses"})

ZesDevicePciGetPropertiesRpcM ==
  Message(82, [hDevice |-> Handle, pProperties |-> Out], {}, {"pProperties"})

ZesDevicePciGetStateRpcM ==
  Message(83, [hDevice |-> Handle, pState |-> Out], {}, {"pState"})

ZesDevicePciGetBarsRpcM ==
  [Message(84, [hDevice |-> Handle, pCount |-> InOut, pProperties |-> InOut],
               {"pCount", "pProperties"}, {"pCount", "pProperties"})
     EXCEPT !.nested = {"pProperties"}]

ZesDevicePciGetStatsRpcM ==
  Message(85, [hDevice |-> Handle, pStats |-> Out], {}, {"pStats"})

ZesDeviceGetPropertiesRpcM ==
  Message(86, [hDevice |-> Handle, pProperties |-> InOut], {"pProperties"}, {"pProperties"})

ZesDeviceEnumMemoryModulesRpcM ==
  Message(87, [hDevice |-> Handle, pCount |-> InOut, phMemory |-> InOut],
              {"pCount", "phMemory"}, {"pCount", "phMemory"})

ZesMemoryGetPropertiesRpcM ==
  Message(88, [hMemory |-> Value, pProperties |-> InOut], {"pProperties"}, {"pProperties"})

ZesMemoryGetStateRpcM ==
  Message(89, [hMemory |-> Value, pState |-> InOut], {"pState"}, {"pState"})

ZesMemoryGetBandwidthRpcM ==
  Message(90, [hMemory |-> Value, pBandwidth |-> InOut], {"pBandwidth"}, {"pBandwidth"})

ZesDeviceEnumPerformanceFactorDomainsRpcM ==
  Message(91, [hDevice |-> Handle, pCount |-> InOut, phPerf |-> InOut],
              {"pCount", "phPerf"}, {"pCount", "phPerf"})

ZesPerformanceFactorGetPropertiesRpcM ==
  Message(92, [hPerf |-> Value, pProperties |-> InOut], {"pProperties"}, {"pProperties"})

ZesPerformanceFactorGetConfigRpcM ==
  Message(93, [hPerf |-> Value, pFactor |-> InOut], {"pFactor"}, {"pFactor"})

ZesPerformanceFactorSetConfigRpcM ==
  Message(94, [hPerf |-> Value, pFactor |-> Value], {}, {})

ZesDeviceEnumStandbyDomainsRpcM ==
  Message(95, [hDevice |-> Handle, pCount |-> InOut, phStandby |-> InOut],
              {"pCount", "phStandby"}, {"pCount", "phStandby"})

ZesStandbyGetPropertiesRpcM ==
  Message(96, [hStandby |-> Value, pProperties |-> InOut], {"pProperties"}, {"pProperties"})

ZesStandbyGetModeRpcM ==
  Message(97, [hStandby |-> Value, pMode |-> Out], {}, {"pMode"})

ZesStandbySetModeRpcM ==
  Message(98, [hStandby |-> Value, mode |-> Value], {}, {})
=============================================================================
