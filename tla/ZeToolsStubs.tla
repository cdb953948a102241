---------------------------- MODULE ZeToolsStubs -----------------------------
(*****************************************************************************)
(* The client stubs of Level Zero (generated_icd_level_zero.cpp): one        *)
(* definition per function that sends a message.                             *)
(* Here: the tools and sysman functions.                                     *)
(*****************************************************************************)
EXTENDS ZeToolsMessages, ZeListStubs

zetMetricGroupGet ==
  [StubOn(ZetMetricGroupGetRpcM, {"hDevice"}) EXCEPT !.local = {"phMetricGroups"}]

zetMetricGroupGetProperties ==
  StubOn(ZetMetricGroupGetPropertiesRpcM, {"hMetricGroup"})

zetMetricGroupGetGlobalTimestampsExp ==
  StubOn(ZetMetricGroupGetGlobalTimestampsExpRpcM, {"hMetricGroup"})

zetMetricGroupGetExportDataExp ==
  StubOn(ZetMetricGroupGetExportDataExpRpcM, {"hMetricGroup"})

zetMetricGroupCalculateMetricValues ==
  StubOn(ZetMetricGroupCalculateMetricValuesRpcM, {"hMetricGroup"})

zetMetricGroupCalculateMultipleMetricValuesExp ==
  StubOn(ZetMetricGroupCalculateMultipleMetricValuesExpRpcM, {"hMetricGroup"})

zetMetricGet ==
  [StubOn(ZetMetricGetRpcM, {"hMetricGroup"}) EXCEPT !.local = {"phMetrics"}]

zetMetricGetProperties ==
  StubOn(ZetMetricGetPropertiesRpcM, {"hMetric"})

zetContextActivateMetricGroups ==
  [StubOn(ZetContextActivateMetricGroupsRpcM, {"hContext", "hDevice"}) EXCEPT
    !.remoteElements = {"phMetricGroups"}]

zetMetricStreamerOpen ==
  [StubOn(ZetMetricStreamerOpenRpcM, {"hContext", "hDevice", "hMetricGroup"}) EXCEPT
    !.remoteIfGiven = {"hNotificationEvent"}, !.local = {"phMetricStreamer"},
    !.after = Effects("setContext", {"phMetricStreamer"})]

zetMetricStreamerReadDataRpcHelper ==
  StubOn(ZetMetricStreamerReadDataRpcHelperRpcM, {"hMetricStreamer"})

zetMetricStreamerClose ==
  [StubOn(ZetMetricStreamerCloseRpcM, {"hMetricStreamer"}) EXCEPT
    !.after = Effects("dec", {"hMetricStreamer"})]

zetMetricQueryPoolCreate ==
  StubOn(ZetMetricQueryPoolCreateRpcM, {"hContext", "hDevice", "hMetricGroup"})

zetMetricQueryPoolDestroy ==
  Stub(ZetMetricQueryPoolDestroyRpcM)

zetMetricQueryCreate ==
  Stub(ZetMetricQueryCreateRpcM)

zetMetricQueryDestroy ==
  Stub(ZetMetricQueryDestroyRpcM)

zetMetricQueryReset ==
  Stub(ZetMetricQueryResetRpcM)

zetMetricQueryGetData ==
  Stub(ZetMetricQueryGetDataRpcM)

zetCommandListAppendMetricQueryBegin ==
  StubOn(ZetCommandListAppendMetricQueryBeginRpcM, {"hCommandList"})

zetCommandListAppendMetricQueryEnd ==
  AppendCommand(ZetCommandListAppendMetricQueryEndRpcM)

zetCommandListAppendMetricMemoryBarrier ==
  StubOn(ZetCommandListAppendMetricMemoryBarrierRpcM, {"hCommandList"})

zetCommandListAppendMetricStreamerMarker ==
  StubOn(ZetCommandListAppendMetricStreamerMarkerRpcM, {"hCommandList", "hMetricStreamer"})

zetDeviceGetDebugProperties ==
  StubOn(ZetDeviceGetDebugPropertiesRpcM, {"hDevice"})

zetDebugAttach ==
  StubOn(ZetDebugAttachRpcM, {"hDevice"})

zetDebugDetach ==
  Stub(ZetDebugDetachRpcM)

zetKernelGetProfileInfo ==
  StubOn(ZetKernelGetProfileInfoRpcM, {"hKernel"})

zesDeviceReset ==
  StubOn(ZesDeviceResetRpcM, {"hDevice"})

zesDeviceResetExt ==
  StubOn(ZesDeviceResetExtRpcM, {"hDevice"})

zesDeviceEnumPowerDomains ==
  StubOn(ZesDeviceEnumPowerDomainsRpcM, {"hDevice"})

zesDeviceGetCardPowerDomain ==
  StubOn(ZesDeviceGetCardPowerDomainRpcM, {"hDevice"})

zesPowerGetProperties ==
  Stub(ZesPowerGetPropertiesRpcM)

zesPowerGetEnergyCounter ==
  Stub(ZesPowerGetEnergyCounterRpcM)

zesPowerGetLimits ==
  Stub(ZesPowerGetLimitsRpcM)

zesPowerSetLimits ==
  Stub(ZesPowerSetLimitsRpcM)

zesPowerGetLimitsExt ==
  Stub(ZesPowerGetLimitsExtRpcM)

zesPowerSetLimitsExt ==
  Stub(ZesPowerSetLimitsExtRpcM)

zesPowerGetEnergyThreshold ==
  Stub(ZesPowerGetEnergyThresholdRpcM)

zesPowerSetEnergyThreshold ==
  Stub(ZesPowerSetEnergyThresholdRpcM)

zesDeviceEventRegister ==
  StubOn(ZesDeviceEventRegisterRpcM, {"hDevice"})

zesDriverEventListen ==
  [StubOn(ZesDriverEventListenRpcM, {"hDriver"}) EXCEPT !.remoteElements = {"phDevices"}]

zesDriverEventListenEx ==
  [StubOn(ZesDriverEventListenExRpcM, {"hDriver"}) EXCEPT !.remoteElements = {"phDevices"}]

zesDeviceEnumTemperatureSensors ==
  StubOn(ZesDeviceEnumTemperatureSensorsRpcM, {"hDevice"})

zesTemperatureGetProperties ==
  Stub(ZesTemperatureGetPropertiesRpcM)

zesTemperatureGetConfig ==
  Stub(ZesTemperatureGetConfigRpcM)

zesTemperatureSetConfig ==
  Stub(ZesTemperatureSetConfigRpcM)

zesTemperatureGetState ==
  Stub(ZesTemperatureGetStateRpcM)

zesDeviceEnumRasErrorSets ==
  StubOn(ZesDeviceEnumRasErrorSetsRpcM, {"hDevice"})

zesRasGetProperties ==
  Stub(ZesRasGetPropertiesRpcM)

zesRasGetConfig ==
  Stub(ZesRasGetConfigRpcM)

zesRasSetConfig ==
  Stub(ZesRasSetConfigRpcM)

zesRasGetState ==
  Stub(ZesRasGetStateRpcM)

zesDeviceEnumFrequencyDomains ==
  StubOn(ZesDeviceEnumFrequencyDomainsRpcM, {"hDevice"})

zesFrequencyGetProperties ==
  Stub(ZesFrequencyGetPropertiesRpcM)

zesFrequencyGetAvailableClocks ==
  Stub(ZesFrequencyGetAvailableClocksRpcM)

zesFrequencyGetRange ==
  Stub(ZesFrequencyGetRangeRpcM)

zesFrequencySetRange ==
  Stub(ZesFrequencySetRangeRpcM)

zesFrequencyGetState ==
  Stub(ZesFrequencyGetStateRpcM)

zesFrequencyGetThrottleTime ==
  Stub(ZesFrequencyGetThrottleTimeRpcM)

zesFrequencyOcGetCapabilities ==
  Stub(ZesFrequencyOcGetCapabilitiesRpcM)

zesFrequencyOcGetVoltageTarget ==
  Stub(ZesFrequencyOcGetVoltageTargetRpcM)

zesFrequencyOcSetVoltageTarget ==
  Stub(ZesFrequencyOcSetVoltageTargetRpcM)

zesFrequencyOcSetMode ==
  Stub(ZesFrequencyOcSetModeRpcM)

zesFrequencyOcGetMode ==
  Stub(ZesFrequencyOcGetModeRpcM)

zesFrequencyOcGetIccMax ==
  Stub(ZesFrequencyOcGetIccMaxRpcM)

zesFrequencyOcSetIccMax ==
  Stub(ZesFrequencyOcSetIccMaxRpcM)

zesFrequencyOcGetTjMax ==
  Stub(ZesFrequencyOcGetTjMaxRpcM)

zesFrequencyOcSetTjMax ==
  Stub(ZesFrequencyOcSetTjMaxRpcM)

zesDeviceEnumEngineGroups ==
  StubOn(ZesDeviceEnumEngineGroupsRpcM, {"hDevice"})

zesDeviceEnumSchedulers ==
  StubOn(ZesDeviceEnumSchedulersRpcM, {"hDevice"})

zesSchedulerGetProperties ==
  Stub(ZesSchedulerGetPropertiesRpcM)

zesSchedulerGetCurrentMode ==
  Stub(ZesSchedulerGetCurrentModeRpcM)

zesSchedulerGetTimeoutModeProperties ==
  Stub(ZesSchedulerGetTimeoutModePropertiesRpcM)

zesSchedulerGetTimesliceModeProperties ==
  Stub(ZesSchedulerGetTimesliceModePropertiesRpcM)

zesSchedulerSetTimeoutMode ==
  Stub(ZesSchedulerSetTimeoutModeRpcM)

zesSchedulerSetTimesliceMode ==
  Stub(ZesSchedulerSetTimesliceModeRpcM)

zesSchedulerSetExclusiveMode ==
  Stub(ZesSchedulerSetExclusiveModeRpcM)

zesSchedulerSetComputeUnitDebugMode ==
  Stub(ZesSchedulerSetComputeUnitDebugModeRpcM)

zesEngineGetProperties ==
  Stub(ZesEngineGetPropertiesRpcM)

zesEngineGetActivity ==
  Stub(ZesEngineGetActivityRpcM)

zesDeviceGetState ==
  StubOn(ZesDeviceGetStateRpcM, {"hDevice"})

zesDeviceProcessesGetStateRpcHelper ==
  StubOn(ZesDeviceProcessesGetStateRpcM, {"hDevice"})

zesDevicePciGetProperties ==
  StubOn(ZesDevicePciGetPropertiesRpcM, {"hDevice"})

zesDevicePciGetState ==
  StubOn(ZesDevicePciGetStateRpcM, {"hDevice"})

zesDevicePciGetBars ==
  StubOn(ZesDevicePciGetBarsRpcM, {"hDevice"})

zesDevicePciGetStats ==
  StubOn(ZesDevicePciGetStatsRpcM, {"hDevice"})

zesDeviceGetPropertiesRpcHelper ==
  StubOn(ZesDeviceGetPropertiesRpcM, {"hDevice"})

zesDeviceEnumMemoryModules ==
  StubOn(ZesDeviceEnumMemoryModulesRpcM, {"hDevice"})

zesMemoryGetProperties ==
  Stub(ZesMemoryGetPropertiesRpcM)

zesMemoryGetState ==
  Stub(ZesMemoryGetStateRpcM)

zesMemoryGetBandwidth ==
  Stub(ZesMemoryGetBandwidthRpcM)

zesDeviceEnumPerformanceFactorDomains ==
  StubOn(ZesDeviceEnumPerformanceFactorDomainsRpcM, {"hDevice"})

zesPerformanceFactorGetProperties ==
  Stub(ZesPerformanceFactorGetPropertiesRpcM)

zesPerformanceFactorGetConfig ==
  Stub(ZesPerformanceFactorGetConfigRpcM)

zesPerformanceFactorSetConfig ==
  Stub(ZesPerformanceFactorSetConfigRpcM)

zesDeviceEnumStandbyDomains ==
  StubOn(ZesDeviceEnumStandbyDomainsRpcM, {"hDevice"})

zesStandbyGetProperties ==
  Stub(ZesStandbyGetPropertiesRpcM)

zesStandbyGetMode ==
  Stub(ZesStandbyGetModeRpcM)

zesStandbySetMode ==
  Stub(ZesStandbySetModeRpcM)
=============================================================================
