----------------------------- MODULE ZeMessages ------------------------------
(*****************************************************************************)
(* The RPC messages of Level Zero (generated_rpc_messages_level_zero.h):     *)
(* one definition per struct, for its Args, its Captures, copyFromCaller     *)
(* and copyToCaller.  Here: the other functions.                             *)
(*****************************************************************************)
EXTENDS ApiTables

ZeInitRpcM ==
  Message(99, [flags |-> Value], {}, {})

ZeContextSystemBarrierRpcM ==
  Message(101, [hContext |-> Handle, hDevice |-> Handle], {}, {})

ZeCommandQueueCreateRpcM ==
  Message(107, [hContext |-> Handle, hDevice |-> Handle, desc |-> In,
                phCommandQueue |-> Created], {"desc"}, {"phCommandQueue"})

ZeCommandQueueDestroyRpcM ==
  Message(108, [hCommandQueue |-> Destroyed], {}, {})

ZeCommandQueueExecuteCommandListsRpcM ==
  Message(109, [hCommandQueue |-> Handle, numCommandLists |-> Value,
                phCommandLists |-> InHandles, hFence |-> Handle], {"phCommandLists"}, {})

ZeCommandQueueExecuteCommandListsCopyMemoryRpcHelperRpcM ==
  Message(110, [chunksCount |-> Value, chunks |-> In, transferDescsCount |-> InOut,
                transferDescs |-> Out],
               {"chunks", "transferDescsCount"}, {"transferDescsCount", "transferDescs"})

ZeCommandQueueSynchronizeRpcM ==
  Message(111, [hCommandQueue |-> Handle, timeout |-> Value], {}, {})

ZeContextCreateRpcM ==
  [Message(112, [hDriver |-> Handle, desc |-> In, phContext |-> Created], {"desc"}, {"phContext"})
     EXCEPT !.nested = {"desc"}]

ZeContextCreateExRpcM ==
  [Message(113, [hDriver |-> Handle, desc |-> In, numDevices |-> Value, phDevices |-> InHandles,
                 phContext |-> Created], {"desc", "phDevices"}, {"phContext"})
     EXCEPT !.nested = {"desc"}]

ZeContextDestroyRpcM ==
  Message(114, [hContext |-> Destroyed], {}, {})

ZeContextGetStatusRpcM ==
  Message(115, [hContext |-> Handle], {}, {})

ZeDeviceGetRpcM ==
  Message(121, [hDriver |-> Handle, pCount |-> InOut, phDevices |-> OutHandles],
               {"pCount"}, {"pCount", "phDevices"})

ZeDeviceGetSubDevicesRpcM ==
  Message(122, [hDevice |-> Handle, pCount |-> InOut, phSubdevices |-> OutHandles],
               {"pCount"}, {"pCount", "phSubdevices"})

ZeDeviceGetPropertiesRpcM ==
  [Message(123, [hDevice |-> Handle, pDeviceProperties |-> InOut],
                {"pDeviceProperties"}, {"pDeviceProperties"})
     EXCEPT !.nested = {"pDeviceProperties"}]

ZeDeviceGetComputePropertiesRpcM ==
  Message(124, [hDevice |-> Handle, pComputeProperties |-> InOut],
               {"pComputeProperties"}, {"pComputeProperties"})

ZeDeviceGetModulePropertiesRpcM ==
  [Message(125, [hDevice |-> Handle, pModuleProperties |-> InOut],
                {"pModuleProperties"}, {"pModuleProperties"})
     EXCEPT !.nested = {"pModuleProperties"}]

ZeDeviceGetCommandQueueGroupPropertiesRpcM ==
  Message(126, [hDevice |-> Handle, pCount |-> InOut, pCommandQueueGroupProperties |-> InOut],
               {"pCount", "pCommandQueueGroupProperties"},
               {"pCount", "pCommandQueueGroupProperties"})

ZeDeviceGetMemoryPropertiesRpcM ==
  [Message(127, [hDevice |-> Handle, pCount |-> InOut, pMemProperties |-> InOut],
                {"pCount", "pMemProperties"}, {"pCount", "pMemProperties"})
     EXCEPT !.nested = {"pMemProperties"}]

ZeDeviceGetMemoryAccessPropertiesRpcM ==
  Message(128, [hDevice |-> Handle, pMemAccessProperties |-> InOut],
               {"pMemAccessProperties"}, {"pMemAccessProperties"})

ZeDeviceGetCachePropertiesRpcM ==
  [Message(129, [hDevice |-> Handle, pCount |-> InOut, pCacheProperties |-> InOut],
                {"pCount", "pCacheProperties"}, {"pCount", "pCacheProperties"})
     EXCEPT !.nested = {"pCacheProperties"}]

ZeDeviceGetImagePropertiesRpcM ==
  Message(130, [hDevice |-> Handle, pImageProperties |-> InOut],
               {"pImageProperties"}, {"pImageProperties"})

ZeDeviceGetExternalMemoryPropertiesRpcM ==
  Message(131, [hDevice |-> Handle, pExternalMemoryProperties |-> InOut],
               {"pExternalMemoryProperties"}, {"pExternalMemoryProperties"})

ZeDeviceGetP2PPropertiesRpcM ==
  [Message(132, [hDevice |-> Handle, hPeerDevice |-> Handle, pP2PProperties |-> InOut],
                {"pP2PProperties"}, {"pP2PProperties"})
     EXCEPT !.nested = {"pP2PProperties"}]

ZeDeviceCanAccessPeerRpcM ==
  Message(133, [hDevice |-> Handle, hPeerDevice |-> Handle, value |-> Out], {}, {"value"})

ZeDeviceGetStatusRpcM ==
  Message(134, [hDevice |-> Handle], {}, {})

ZeDeviceGetGlobalTimestampsRpcM ==
  Message(135, [hDevice |-> Handle, hostTimestamp |-> Out, deviceTimestamp |-> Out],
               {}, {"hostTimestamp", "deviceTimestamp"})

ZeDeviceReserveCacheExtRpcM ==
  Message(136, [hDevice |-> Handle, cacheLevel |-> Value, cacheReservationSize |-> Value], {}, {})

ZeDeviceSetCacheAdviceExtRpcM ==
  Message(137, [hDevice |-> Handle, ptr |-> Value, regionSize |-> Value, cacheRegion |-> Value],
               {}, {})

ZeDriverGetRpcM ==
  Message(138, [pCount |-> InOut, phDrivers |-> OutHandles], {"pCount"}, {"pCount", "phDrivers"})

ZeDriverGetApiVersionRpcM ==
  Message(139, [hDriver |-> Handle, version |-> Out], {}, {"version"})

ZeDriverGetPropertiesRpcM ==
  Message(140, [hDriver |-> Handle, pDriverProperties |-> InOut],
               {"pDriverProperties"}, {"pDriverProperties"})

ZeDriverGetIpcPropertiesRpcM ==
  Message(141, [hDriver |-> Handle, pIpcProperties |-> InOut],
               {"pIpcProperties"}, {"pIpcProperties"})

ZeDriverGetExtensionPropertiesRpcM ==
  Message(142, [hDriver |-> Handle, pCount |-> InOut, pExtensionProperties |-> InOut],
               {"pCount", "pExtensionProperties"}, {"pCount", "pExtensionProperties"})

ZeDriverGetLastErrorDescriptionRpcM ==
  Message(143, [hDriver |-> Handle, ppString |-> Out], {}, {})

ZeDriverGetLastErrorDescriptionRpcHelperRpcM ==
  Message(144, [hDriver |-> Handle, stringLength |-> Value, pString |-> Out], {}, {"pString"})

ZeEventPoolCreateRpcM ==
  Message(145, [hContext |-> Handle, desc |-> In, numDevices |-> Value, phDevices |-> InHandles,
                phEventPool |-> Created], {"desc", "phDevices"}, {"phEventPool"})

ZeEventPoolDestroyRpcM ==
  Message(146, [hEventPool |-> Destroyed], {}, {})

ZeEventCreateRpcM ==
  Message(147, [hEventPool |-> Handle, desc |-> In, phEvent |-> Created], {"desc"}, {"phEvent"})

ZeEventDestroyRpcM ==
  Message(148, [hEvent |-> Destroyed], {}, {})

ZeEventPoolGetIpcHandleRpcM ==
  Message(149, [hEventPool |-> Handle, phIpc |-> Out], {}, {"phIpc"})

ZeEventPoolOpenIpcHandleRpcM ==
  Message(150, [hContext |-> Handle, hIpc |-> Value, phEventPool |-> Created],
               {}, {"phEventPool"})

ZeEventPoolCloseIpcHandleRpcM ==
  Message(151, [hEventPool |-> Destroyed], {}, {})

ZeEventPoolPutIpcHandleRpcM ==
  Message(152, [hContext |-> Handle, hIpc |-> Value], {}, {})

ZeEventHostSignalRpcM ==
  Message(156, [hEvent |-> Modified], {}, {})

ZeEventHostSynchronizeRpcM ==
  Message(157, [hEvent |-> Handle, timeout |-> Value], {}, {})

ZeEventQueryStatusRpcM ==
  Message(158, [hEvent |-> Handle], {}, {})

ZeEventHostResetRpcM ==
  Message(160, [hEvent |-> Modified], {}, {})

ZeEventQueryKernelTimestampRpcM ==
  Message(161, [hEvent |-> Handle, dstptr |-> Out], {}, {"dstptr"})

ZeEventQueryTimestampsExpRpcM ==
  Message(163, [hEvent |-> Handle, hDevice |-> Handle, pCount |-> InOut, pTimestamps |-> Out],
               {"pCount"}, {"pCount", "pTimestamps"})

ZeEventQueryKernelTimestampsExtRpcHelperRpcM ==
  Message(164, [hEvent |-> Handle, hDevice |-> Handle, pCount |-> InOut,
                pResultsTimestamps |-> Out, pResultsSynchronizedTimestamps |-> Out],
               {"pCount"}, {"pCount", "pResultsTimestamps", "pResultsSynchronizedTimestamps"})

ZeFabricVertexGetExpRpcM ==
  Message(165, [hDriver |-> Handle, pCount |-> InOut, phVertices |-> Out],
               {"pCount"}, {"pCount", "phVertices"})

ZeFabricVertexGetSubVerticesExpRpcM ==
  Message(166, [hVertex |-> Value, pCount |-> InOut, phSubvertices |-> Out],
               {"pCount"}, {"pCount", "phSubvertices"})

ZeFabricVertexGetPropertiesExpRpcM ==
  [Message(167, [hVertex |-> Value, pVertexProperties |-> InOut],
                {"pVertexProperties"}, {"pVertexProperties"})
     EXCEPT !.nested = {"pVertexProperties"}]

ZeFabricVertexGetDeviceExpRpcM ==
  Message(168, [hVertex |-> Value, pDevice |-> OutHandles], {"pDevice"}, {"pDevice"})

ZeDeviceGetFabricVertexExpRpcM ==
  Message(169, [hDevice |-> Handle, pVertex |-> InOut], {"pVertex"}, {"pVertex"})

ZeFabricEdgeGetExpRpcM ==
  Message(170, [hVertexA |-> Value, hVertexB |-> Value, pCount |-> InOut, phEdges |-> Out],
               {"pCount"}, {"pCount", "phEdges"})

ZeFabricEdgeGetVerticesExpRpcM ==
  Message(171, [hEdge |-> Value, phVertexA |-> InOut, phVertexB |-> Out],
               {"phVertexA"}, {"phVertexA", "phVertexB"})

ZeFabricEdgeGetPropertiesExpRpcM ==
  [Message(172, [hEdge |-> Value, pEdgeProperties |-> InOut],
                {"pEdgeProperties"}, {"pEdgeProperties"})
     EXCEPT !.nested = {"pEdgeProperties"}]

ZeFenceCreateRpcM ==
  Message(173, [hCommandQueue |-> Handle, desc |-> In, phFence |-> Created],
               {"desc"}, {"phFence"})

ZeFenceDestroyRpcM ==
  Message(174, [hFence |-> Destroyed], {}, {})

ZeFenceHostSynchronizeRpcM ==
  Message(175, [hFence |-> Handle, timeout |-> Value], {}, {})

ZeFenceQueryStatusRpcM ==
  Message(176, [hFence |-> Handle], {}, {})

ZeFenceResetRpcM ==
  Message(177, [hFence |-> Handle], {}, {})

ZeKernelSetGlobalOffsetExpRpcM ==
  Message(178, [hKernel |-> Handle, offsetX |-> Value, offsetY |-> Value, offsetZ |-> Value],
               {}, {})

ZeImageGetPropertiesRpcM ==
  [Message(179, [hDevice |-> Handle, desc |-> In, pImageProperties |-> InOut],
                {"desc", "pImageProperties"}, {"pImageProperties"})
     EXCEPT !.nested = {"desc"}]

ZeImageCreateRpcM ==
  [Message(180, [hContext |-> Handle, hDevice |-> Handle, desc |-> In, phImage |-> Created],
                {"desc", "phImage"}, {"phImage"})
     EXCEPT !.nested = {"desc"}]

ZeImageDestroyRpcM ==
  Message(181, [hImage |-> Destroyed], {}, {})

ZeKernelSchedulingHintExpRpcM ==
  Message(182, [hKernel |-> Handle, pHint |-> In], {"pHint"}, {})

ZeModuleInspectLinkageExtRpcM ==
  Message(183, [pInspectDesc |-> In, numModules |-> Value, phModules |-> InHandles,
                phLog |-> Created], {"pInspectDesc", "phModules"}, {"phLog"})

ZeMemAllocSharedRpcM ==
  [Message(184, [hContext |-> Handle, device_desc |-> In, host_desc |-> In, size |-> Value,
                 alignment |-> Value, hDevice |-> Handle, pptr |-> Out, shmem_resource |-> Out,
                 offset_within_resource |-> Out, aligned_size |-> Out],
                {"device_desc", "host_desc"},
                {"pptr", "shmem_resource", "offset_within_resource", "aligned_size"})
     EXCEPT !.required = {"shmem_resource", "offset_within_resource", "aligned_size"}, !.nested = {"device_desc", "host_desc"}]

ZeMemAllocDeviceRpcM ==
  [Message(185, [hContext |-> Handle, device_desc |-> In, size |-> Value, alignment |-> Value,
                 hDevice |-> Handle, pptr |-> Out], {"device_desc"}, {"pptr"})
     EXCEPT !.nested = {"device_desc"}]

ZeMemAllocHostRpcM ==
  [Message(186, [hContext |-> Handle, host_desc |-> In, size |-> Value, alignment |-> Value,
                 pptr |-> Out, shmem_resource |-> Out, offset_within_resource |-> Out,
                 aligned_size |-> Out],
                {"host_desc"},
                {"pptr", "shmem_resource", "offset_within_resource", "aligned_size"})
     EXCEPT !.required = {"shmem_resource", "offset_within_resource", "aligned_size"}, !.nested = {"host_desc"}]

ZeMemFreeRpcM ==
  Message(187, [hContext |-> Handle, ptr |-> Value], {}, {})

ZeMemGetAllocPropertiesRpcM ==
  [Message(188, [hContext |-> Handle, ptr |-> Value, pMemAllocProperties |-> InOut,
                 phDevice |-> OutHandles],
                {"pMemAllocProperties"}, {"pMemAllocProperties", "phDevice"})
     EXCEPT !.nested = {"pMemAllocProperties"}]

ZeMemGetAddressRangeRpcM ==
  Message(189, [hContext |-> Handle, ptr |-> Value, pBase |-> Out, pSize |-> Out],
               {}, {"pBase", "pSize"})

ZeMemGetIpcHandleRpcM ==
  Message(190, [hContext |-> Handle, ptr |-> Value, pIpcHandle |-> Out], {}, {"pIpcHandle"})

ZeMemOpenIpcHandleRpcM ==
  Message(191, [hContext |-> Handle, hDevice |-> Handle, handle |-> Value, flags |-> Value,
                pptr |-> Out], {}, {"pptr"})

ZeMemCloseIpcHandleRpcM ==
  [Message(192, [hContext |-> Handle, ptr |-> Value, handle_to_close |-> Value], {}, {})
     EXCEPT !.required = {"handle_to_close"}]

ZeMemPutIpcHandleRpcM ==
  Message(193, [hContext |-> Handle, handle |-> Value], {}, {})

ZexMemGetIpcHandlesRpcM ==
  Message(194, [hContext |-> Handle, ptr |-> Value, numIpcHandles |-> InOut,
                pIpcHandles |-> Out], {"numIpcHandles"}, {"numIpcHandles", "pIpcHandles"})

ZexMemOpenIpcHandlesRpcM ==
  Message(195, [hContext |-> Handle, hDevice |-> Handle, numIpcHandles |-> Value,
                pIpcHandles |-> In, flags |-> Value, pptr |-> Out], {"pIpcHandles"}, {"pptr"})

ZeMemFreeExtRpcM ==
  [Message(196, [hContext |-> Handle, pMemFreeDesc |-> In, ptr |-> Value], {"pMemFreeDesc"}, {})
     EXCEPT !.nested = {"pMemFreeDesc"}]

ZeMemGetIpcHandleFromFileDescriptorExpRpcM ==
  Message(197, [hContext |-> Handle, handle |-> Value, pIpcHandle |-> Out], {}, {"pIpcHandle"})

ZeMemGetFileDescriptorFromIpcHandleExpRpcM ==
  Message(198, [hContext |-> Handle, ipcHandle |-> Value, pHandle |-> Out], {}, {"pHandle"})

ZeModuleCreateRpcM ==
  [Message(199, [hContext |-> Handle, hDevice |-> Handle, desc |-> In, phModule |-> Created,
                 phBuildLog |-> Created], {"desc", "phModule"}, {"phModule", "phBuildLog"})
     EXCEPT !.nested = {"desc"}]

ZeModuleDestroyRpcM ==
  Message(200, [hModule |-> Destroyed], {}, {})

ZeModuleDynamicLinkRpcM ==
  Message(201, [numModules |-> Value, phModules |-> InHandles, phLinkLog |-> Created],
               {"phModules", "phLinkLog"}, {"phLinkLog"})

ZeModuleBuildLogDestroyRpcM ==
  Message(202, [hModuleBuildLog |-> Destroyed], {}, {})

ZeModuleBuildLogGetStringRpcM ==
  Message(203, [hModuleBuildLog |-> Handle, pSize |-> InOut, pBuildLog |-> Out],
               {"pSize"}, {"pSize", "pBuildLog"})

ZeModuleGetNativeBinaryRpcM ==
  Message(204, [hModule |-> Handle, pSize |-> InOut, pModuleNativeBinary |-> Out],
               {"pSize"}, {"pSize", "pModuleNativeBinary"})

ZeModuleGetGlobalPointerRpcM ==
  Message(205, [hModule |-> Handle, pGlobalName |-> In, pSize |-> InOut, pptr |-> InOut],
               {"pGlobalName", "pSize", "pptr"}, {"pSize", "pptr"})

ZeModuleGetKernelNamesRpcHelperRpcM ==
  Message(206, [hModule |-> Handle, totalLength |-> InOut, namesBuffer |-> Out],
               {"totalLength"}, {"totalLength", "namesBuffer"})

ZeModuleGetPropertiesRpcM ==
  Message(207, [hModule |-> Handle, pModuleProperties |-> InOut],
               {"pModuleProperties"}, {"pModuleProperties"})

ZeKernelCreateRpcM ==
  [Message(208, [hModule |-> Handle, desc |-> In, phKernel |-> Created], {"desc"}, {"phKernel"})
     EXCEPT !.nested = {"desc"}]

ZeKernelDestroyRpcM ==
  Message(209, [hKernel |-> Destroyed], {}, {})

ZeModuleGetFunctionPointerRpcM ==
  Message(210, [hModule |-> Handle, pFunctionName |-> In, pfnFunction |-> Out],
               {"pFunctionName"}, {"pfnFunction"})

ZeKernelSetGroupSizeRpcM ==
  Message(211, [hKernel |-> Handle, groupSizeX |-> Value, groupSizeY |-> Value,
                groupSizeZ |-> Value], {}, {})

ZeKernelSuggestGroupSizeRpcM ==
  Message(212, [hKernel |-> Handle, globalSizeX |-> Value, globalSizeY |-> Value,
                globalSizeZ |-> Value, groupSizeX |-> Out, groupSizeY |-> Out,
                groupSizeZ |-> Out], {}, {"groupSizeX", "groupSizeY", "groupSizeZ"})

ZeKernelSuggestMaxCooperativeGroupCountRpcM ==
  Message(213, [hKernel |-> Handle, totalGroupCount |-> Out], {}, {"totalGroupCount"})

ZeKernelSetArgumentValueRpcM ==
  Message(214, [hKernel |-> Handle, argIndex |-> Value, argSize |-> Value,
                pArgValue |-> Argument], {"pArgValue"}, {})

ZeKernelSetIndirectAccessRpcM ==
  Message(215, [hKernel |-> Handle, flags |-> Value], {}, {})

ZeKernelGetIndirectAccessRpcM ==
  Message(216, [hKernel |-> Handle, pFlags |-> Out], {}, {"pFlags"})

ZeKernelGetSourceAttributesRpcHelperRpcM ==
  Message(217, [hKernel |-> Handle, pSize |-> InOut, pString |-> InOut],
               {"pSize", "pString"}, {"pSize", "pString"})

ZeKernelSetCacheConfigRpcM ==
  Message(218, [hKernel |-> Handle, flags |-> Value], {}, {})

ZeKernelGetPropertiesRpcM ==
  [Message(219, [hKernel |-> Handle, pKernelProperties |-> InOut],
                {"pKernelProperties"}, {"pKernelProperties"})
     EXCEPT !.nested = {"pKernelProperties"}]

ZeKernelGetNameRpcM ==
  Message(220, [hKernel |-> Handle, pSize |-> InOut, pName |-> Out],
               {"pSize"}, {"pSize", "pName"})

ZeDevicePciGetPropertiesExtRpcM ==
  Message(226, [hDevice |-> Handle, pPciProperties |-> InOut],
               {"pPciProperties"}, {"pPciProperties"})

ZeContextMakeMemoryResidentRpcM ==
  Message(227, [hContext |-> Handle, hDevice |-> Handle, ptr |-> Value, size |-> Value], {}, {})

ZeContextEvictMemoryRpcM ==
  Message(228, [hContext |-> Handle, hDevice |-> Handle, ptr |-> Value, size |-> Value], {}, {})

ZeVirtualMemReserveRpcM ==
  Message(229, [hContext |-> Handle, pStart |-> Value, size |-> Value, pptr |-> Out],
               {}, {"pptr"})

ZeVirtualMemFreeRpcM ==
  Message(230, [hContext |-> Handle, ptr |-> Value, size |-> Value], {}, {})

ZeVirtualMemQueryPageSizeRpcM ==
  Message(231, [hContext |-> Handle, hDevice |-> Handle, size |-> Value, pagesize |-> InOut],
               {"pagesize"}, {"pagesize"})

ZePhysicalMemCreateRpcM ==
  Message(232, [hContext |-> Handle, hDevice |-> Handle, desc |-> In,
                phPhysicalMemory |-> Created], {"desc", "phPhysicalMemory"}, {"phPhysicalMemory"})

ZePhysicalMemDestroyRpcM ==
  Message(233, [hContext |-> Handle, hPhysicalMemory |-> Value], {}, {})

ZeVirtualMemMapRpcM ==
  Message(234, [hContext |-> Handle, ptr |-> Value, size |-> Value, hPhysicalMemory |-> Value,
                offset |-> Value, access |-> Value], {}, {})

ZeVirtualMemUnmapRpcM ==
  Message(235, [hContext |-> Handle, ptr |-> Value, size |-> Value], {}, {})

ZeVirtualMemSetAccessAttributeRpcM ==
  Message(236, [hContext |-> Handle, ptr |-> Value, size |-> Value, access |-> Value], {}, {})

ZeVirtualMemGetAccessAttributeRpcM ==
  Message(237, [hContext |-> Handle, ptr |-> Value, size |-> Value, access |-> Out,
                outSize |-> InOut], {"outSize"}, {"access", "outSize"})

ZexDriverImportExternalPointerRpcM ==
  Message(238, [hDriver |-> Handle, ptr |-> Value, size |-> Value], {}, {})

ZexDriverReleaseImportedPointerRpcM ==
  Message(239, [hDriver |-> Handle, ptr |-> Value], {}, {})

ZexDriverGetHostPointerBaseAddressRpcM ==
  Message(240, [hDriver |-> Handle, ptr |-> Value, baseAddress |-> InOut],
               {"baseAddress"}, {"baseAddress"})
=============================================================================
