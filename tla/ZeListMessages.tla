--------------------------- MODULE ZeListMessages ----------------------------
(*****************************************************************************)
(* The RPC messages of Level Zero (generated_rpc_messages_level_zero.h):     *)
(* one definition per struct, for its Args, its Captures, copyFromCaller     *)
(* and copyToCaller.  Here: the functions of command lists.                  *)
(*****************************************************************************)
EXTENDS ApiTables

ZeCommandListAppendMemoryRangesBarrierRpcM ==
  Message(100, [hCommandList |-> Handle, numRanges |-> Value, pRangeSizes |-> In,
                pRanges |-> In, hSignalEvent |-> Modified, numWaitEvents |-> Value,
                phWaitEvents |-> InHandles], {"pRangeSizes", "pRanges", "phWaitEvents"}, {})

ZeCommandListCreateRpcM ==
  Message(102, [hContext |-> Handle, hDevice |-> Handle, desc |-> In,
                phCommandList |-> Created], {"desc"}, {"phCommandList"})

ZeCommandListCreateImmediateRpcM ==
  Message(103, [hContext |-> Handle, hDevice |-> Handle, altdesc |-> In,
                phCommandList |-> Created], {"altdesc"}, {"phCommandList"})

ZeCommandListDestroyRpcM ==
  Message(104, [hCommandList |-> Destroyed], {}, {})

ZeCommandListCloseRpcM ==
  Message(105, [hCommandList |-> Handle], {}, {})

ZeCommandListResetRpcM ==
  Message(106, [hCommandList |-> Handle], {}, {})

ZeCommandListAppendMemoryFillRpcHelperUsm2UsmRpcM ==
  Message(116, [hCommandList |-> Handle, ptr |-> Destination, pattern |-> Source,
                pattern_size |-> Value, size |-> Value, hSignalEvent |-> Modified,
                numWaitEvents |-> Value, phWaitEvents |-> InHandles], {"phWaitEvents"}, {})

ZeCommandListAppendMemoryFillRpcHelperUsm2MallocRpcM ==
  Message(117, [hCommandList |-> Handle, ptr |-> Destination, pattern |-> Source,
                pattern_size |-> Value, size |-> Value, hSignalEvent |-> Modified,
                numWaitEvents |-> Value, phWaitEvents |-> InHandles], {"phWaitEvents"}, {})

ZeCommandListAppendMemoryFillRpcHelperMalloc2UsmRpcM ==
  Message(118, [hCommandList |-> Handle, ptr |-> Destination, pattern |-> Source,
                pattern_size |-> Value, size |-> Value, hSignalEvent |-> Modified,
                numWaitEvents |-> Value, phWaitEvents |-> InHandles],
               {"pattern", "phWaitEvents"}, {})

ZeCommandListAppendMemoryFillRpcHelperMalloc2MallocRpcM ==
  Message(119, [hCommandList |-> Handle, ptr |-> Destination, pattern |-> Source,
                pattern_size |-> Value, size |-> Value, hSignalEvent |-> Modified,
                numWaitEvents |-> Value, phWaitEvents |-> InHandles],
               {"pattern", "phWaitEvents"}, {})

ZeCommandListAppendMemoryPrefetchRpcM ==
  Message(120, [hCommandList |-> Handle, ptr |-> Value, size |-> Value], {}, {})

ZeCommandListAppendBarrierRpcM ==
  Message(153, [hCommandList |-> Handle, hSignalEvent |-> Modified, numWaitEvents |-> Value,
                phWaitEvents |-> InHandles], {"phWaitEvents"}, {})

ZeCommandListAppendSignalEventRpcM ==
  Message(154, [hCommandList |-> Handle, hEvent |-> Modified], {}, {})

ZeCommandListAppendWaitOnEventsRpcM ==
  Message(155, [hCommandList |-> Handle, numEvents |-> Value, phEvents |-> InHandles],
               {"phEvents"}, {})

ZeCommandListAppendEventResetRpcM ==
  Message(159, [hCommandList |-> Handle, hEvent |-> Modified], {}, {})

ZeCommandListAppendQueryKernelTimestampsRpcM ==
  Message(162, [hCommandList |-> Handle, numEvents |-> Value, phEvents |-> InHandles,
                dstptr |-> Destination, pOffsets |-> Value, hSignalEvent |-> Modified,
                numWaitEvents |-> Value, phWaitEvents |-> InHandles],
               {"phEvents", "phWaitEvents"}, {"dstptr"})

ZeCommandListAppendLaunchKernelRpcM ==
  Message(221, [hCommandList |-> Handle, hKernel |-> Handle, pLaunchFuncArgs |-> In,
                hSignalEvent |-> Modified, numWaitEvents |-> Value, phWaitEvents |-> InHandles],
               {"pLaunchFuncArgs", "phWaitEvents"}, {})

ZeCommandListAppendLaunchCooperativeKernelRpcM ==
  Message(222, [hCommandList |-> Handle, hKernel |-> Handle, pLaunchFuncArgs |-> In,
                hSignalEvent |-> Modified, numWaitEvents |-> Value, phWaitEvents |-> InHandles],
               {"pLaunchFuncArgs", "phWaitEvents"}, {})

ZeCommandListAppendLaunchKernelIndirectRpcM ==
  Message(223, [hCommandList |-> Handle, hKernel |-> Handle, pLaunchArgumentsBuffer |-> Source,
                hSignalEvent |-> Modified, numWaitEvents |-> Value, phWaitEvents |-> InHandles],
               {"phWaitEvents"}, {})

ZeCommandListAppendLaunchMultipleKernelsIndirectRpcM ==
  Message(224, [hCommandList |-> Handle, numKernels |-> Value, phKernels |-> InHandles,
                pCountBuffer |-> Source, pLaunchArgumentsBuffer |-> Source,
                hSignalEvent |-> Modified, numWaitEvents |-> Value, phWaitEvents |-> InHandles],
               {"phKernels", "phWaitEvents"}, {})

ZeCommandListHostSynchronizeRpcM ==
  Message(225, [hCommandList |-> Handle, timeout |-> Value], {}, {})

ZeCommandListAppendWriteGlobalTimestamp_LocalRpcM ==
  Message(241, [hCommandList |-> Handle, dstptr |-> Destination, hSignalEvent |-> Modified,
                numWaitEvents |-> Value, phWaitEvents |-> InHandles], {"phWaitEvents"}, {})

ZeCommandListAppendWriteGlobalTimestamp_UsmRpcM ==
  Message(242, [hCommandList |-> Handle, dstptr |-> Destination, hSignalEvent |-> Modified,
                numWaitEvents |-> Value, phWaitEvents |-> InHandles], {"phWaitEvents"}, {})

ZeCommandListAppendWriteGlobalTimestamp_SharedRpcM ==
  Message(243, [hCommandList |-> Handle, dstptr |-> Destination, hSignalEvent |-> Modified,
                numWaitEvents |-> Value, phWaitEvents |-> InHandles], {"phWaitEvents"}, {})

ZeCommandListAppendMemoryCopyDeferred_Usm_UsmRpcM ==
  Message(244, [hCommandList |-> Handle, dstptr |-> Destination, srcptr |-> Source,
                size |-> Value, hSignalEvent |-> Modified, numWaitEvents |-> Value,
                phWaitEvents |-> InHandles], {"phWaitEvents"}, {})

ZeCommandListAppendMemoryCopyDeferred_Usm_SharedRpcM ==
  Message(245, [hCommandList |-> Handle, dstptr |-> Destination, srcptr |-> Source,
                size |-> Value, hSignalEvent |-> Modified, numWaitEvents |-> Value,
                phWaitEvents |-> InHandles], {"phWaitEvents"}, {})

ZeCommandListAppendMemoryCopyDeferred_Usm_RemappedRpcM ==
  Message(246, [hCommandList |-> Handle, dstptr |-> Destination, srcptr |-> Source,
                size |-> Value, hSignalEvent |-> Modified, numWaitEvents |-> Value,
                phWaitEvents |-> InHandles], {"phWaitEvents"}, {})

ZeCommandListAppendMemoryCopyDeferred_Shared_UsmRpcM ==
  Message(247, [hCommandList |-> Handle, dstptr |-> Destination, srcptr |-> Source,
                size |-> Value, hSignalEvent |-> Modified, numWaitEvents |-> Value,
                phWaitEvents |-> InHandles], {"phWaitEvents"}, {})

ZeCommandListAppendMemoryCopyDeferred_Shared_SharedRpcM ==
  Message(248, [hCommandList |-> Handle, dstptr |-> Destination, srcptr |-> Source,
                size |-> Value, hSignalEvent |-> Modified, numWaitEvents |-> Value,
                phWaitEvents |-> InHandles], {"phWaitEvents"}, {})

ZeCommandListAppendMemoryCopyDeferred_Shared_RemappedRpcM ==
  Message(249, [hCommandList |-> Handle, dstptr |-> Destination, srcptr |-> Source,
                size |-> Value, hSignalEvent |-> Modified, numWaitEvents |-> Value,
                phWaitEvents |-> InHandles], {"phWaitEvents"}, {})

ZeCommandListAppendMemoryCopyDeferred_Remapped_UsmRpcM ==
  Message(250, [hCommandList |-> Handle, dstptr |-> Destination, srcptr |-> Source,
                size |-> Value, hSignalEvent |-> Modified, numWaitEvents |-> Value,
                phWaitEvents |-> InHandles], {"phWaitEvents"}, {})

ZeCommandListAppendMemoryCopyDeferred_Remapped_SharedRpcM ==
  Message(251, [hCommandList |-> Handle, dstptr |-> Destination, srcptr |-> Source,
                size |-> Value, hSignalEvent |-> Modified, numWaitEvents |-> Value,
                phWaitEvents |-> InHandles], {"phWaitEvents"}, {})

ZeCommandListAppendMemoryCopyDeferred_Remapped_RemappedRpcM ==
  Message(252, [hCommandList |-> Handle, dstptr |-> Destination, srcptr |-> Source,
                size |-> Value, hSignalEvent |-> Modified, numWaitEvents |-> Value,
                phWaitEvents |-> InHandles], {"phWaitEvents"}, {})

ZeCommandListAppendMemoryCopyImmediate_Local_LocalRpcM ==
  Message(253, [hCommandList |-> Handle, dstptr |-> Destination, srcptr |-> Source,
                size |-> Value, hSignalEvent |-> Modified, numWaitEvents |-> Value,
                phWaitEvents |-> InHandles], {"phWaitEvents"}, {})

ZeCommandListAppendMemoryCopyImmediate_Local_UsmRpcM ==
  Message(254, [hCommandList |-> Handle, dstptr |-> Destination, srcptr |-> Source,
                size |-> Value, hSignalEvent |-> Modified, numWaitEvents |-> Value,
                phWaitEvents |-> InHandles], {"phWaitEvents"}, {})

ZeCommandListAppendMemoryCopyImmediate_Local_SharedRpcM ==
  Message(255, [hCommandList |-> Handle, dstptr |-> Destination, srcptr |-> Source,
                size |-> Value, hSignalEvent |-> Modified, numWaitEvents |-> Value,
                phWaitEvents |-> InHandles], {"phWaitEvents"}, {})

ZeCommandListAppendMemoryCopyImmediate_Usm_LocalRpcM ==
  Message(256, [hCommandList |-> Handle, dstptr |-> Destination, srcptr |-> Source,
                size |-> Value, hSignalEvent |-> Modified, numWaitEvents |-> Value,
                phWaitEvents |-> InHandles], {"phWaitEvents"}, {})

ZeCommandListAppendMemoryCopyImmediate_Usm_UsmRpcM ==
  Message(257, [hCommandList |-> Handle, dstptr |-> Destination, srcptr |-> Source,
                size |-> Value, hSignalEvent |-> Modified, numWaitEvents |-> Value,
                phWaitEvents |-> InHandles], {"phWaitEvents"}, {})

ZeCommandListAppendMemoryCopyImmediate_Usm_SharedRpcM ==
  Message(258, [hCommandList |-> Handle, dstptr |-> Destination, srcptr |-> Source,
                size |-> Value, hSignalEvent |-> Modified, numWaitEvents |-> Value,
                phWaitEvents |-> InHandles], {"phWaitEvents"}, {})

ZeCommandListAppendMemoryCopyImmediate_Shared_LocalRpcM ==
  Message(259, [hCommandList |-> Handle, dstptr |-> Destination, srcptr |-> Source,
                size |-> Value, hSignalEvent |-> Modified, numWaitEvents |-> Value,
                phWaitEvents |-> InHandles], {"phWaitEvents"}, {})

ZeCommandListAppendMemoryCopyImmediate_Shared_UsmRpcM ==
  Message(260, [hCommandList |-> Handle, dstptr |-> Destination, srcptr |-> Source,
                size |-> Value, hSignalEvent |-> Modified, numWaitEvents |-> Value,
                phWaitEvents |-> InHandles], {"phWaitEvents"}, {})

ZeCommandListAppendMemoryCopyImmediate_Shared_SharedRpcM ==
  Message(261, [hCommandList |-> Handle, dstptr |-> Destination, srcptr |-> Source,
                size |-> Value, hSignalEvent |-> Modified, numWaitEvents |-> Value,
                phWaitEvents |-> InHandles], {"phWaitEvents"}, {})

ZeCommandListAppendMemoryCopyImmediateSynchronous_Local_LocalRpcM ==
  Message(262, [hCommandList |-> Handle, dstptr |-> Destination, srcptr |-> Source,
                size |-> Value, hSignalEvent |-> Modified, numWaitEvents |-> Value,
                phWaitEvents |-> InHandles], {"srcptr", "phWaitEvents"}, {"dstptr"})

ZeCommandListAppendMemoryCopyImmediateSynchronous_Local_UsmRpcM ==
  Message(263, [hCommandList |-> Handle, dstptr |-> Destination, srcptr |-> Source,
                size |-> Value, hSignalEvent |-> Modified, numWaitEvents |-> Value,
                phWaitEvents |-> InHandles], {"phWaitEvents"}, {"dstptr"})

ZeCommandListAppendMemoryCopyImmediateSynchronous_Local_SharedRpcM ==
  Message(264, [hCommandList |-> Handle, dstptr |-> Destination, srcptr |-> Source,
                size |-> Value, hSignalEvent |-> Modified, numWaitEvents |-> Value,
                phWaitEvents |-> InHandles], {"phWaitEvents"}, {"dstptr"})

ZeCommandListAppendMemoryCopyImmediateSynchronous_Usm_LocalRpcM ==
  Message(265, [hCommandList |-> Handle, dstptr |-> Destination, srcptr |-> Source,
                size |-> Value, hSignalEvent |-> Modified, numWaitEvents |-> Value,
                phWaitEvents |-> InHandles], {"srcptr", "phWaitEvents"}, {})

ZeCommandListAppendMemoryCopyImmediateSynchronous_Usm_UsmRpcM ==
  Message(266, [hCommandList |-> Handle, dstptr |-> Destination, srcptr |-> Source,
                size |-> Value, hSignalEvent |-> Modified, numWaitEvents |-> Value,
                phWaitEvents |-> InHandles], {"phWaitEvents"}, {})

ZeCommandListAppendMemoryCopyImmediateSynchronous_Usm_SharedRpcM ==
  Message(267, [hCommandList |-> Handle, dstptr |-> Destination, srcptr |-> Source,
                size |-> Value, hSignalEvent |-> Modified, numWaitEvents |-> Value,
                phWaitEvents |-> InHandles], {"phWaitEvents"}, {})

ZeCommandListAppendMemoryCopyImmediateSynchronous_Shared_LocalRpcM ==
  Message(268, [hCommandList |-> Handle, dstptr |-> Destination, srcptr |-> Source,
                size |-> Value, hSignalEvent |-> Modified, numWaitEvents |-> Value,
                phWaitEvents |-> InHandles], {"srcptr", "phWaitEvents"}, {})

ZeCommandListAppendMemoryCopyImmediateSynchronous_Shared_UsmRpcM ==
  Message(269, [hCommandList |-> Handle, dstptr |-> Destination, srcptr |-> Source,
                size |-> Value, hSignalEvent |-> Modified, numWaitEvents |-> Value,
                phWaitEvents |-> InHandles], {"phWaitEvents"}, {})

ZeCommandListAppendMemoryCopyImmediateSynchronous_Shared_SharedRpcM ==
  Message(270, [hCommandList |-> Handle, dstptr |-> Destination, srcptr |-> Source,
                size |-> Value, hSignalEvent |-> Modified, numWaitEvents |-> Value,
                phWaitEvents |-> InHandles], {"phWaitEvents"}, {})

ZeCommandListAppendMemoryCopyRegionDeferred_Usm_UsmRpcM ==
  Message(271, [hCommandList |-> Handle, dstptr |-> Destination, dstRegion |-> In,
                dstPitch |-> Value, dstSlicePitch |-> Value, srcptr |-> Source,
                srcRegion |-> In, srcPitch |-> Value, srcSlicePitch |-> Value,
                hSignalEvent |-> Modified, numWaitEvents |-> Value, phWaitEvents |-> InHandles],
               {"dstRegion", "srcRegion", "phWaitEvents"}, {})

ZeCommandListAppendMemoryCopyRegionDeferred_Usm_SharedRpcM ==
  Message(272, [hCommandList |-> Handle, dstptr |-> Destination, dstRegion |-> In,
                dstPitch |-> Value, dstSlicePitch |-> Value, srcptr |-> Source,
                srcRegion |-> In, srcPitch |-> Value, srcSlicePitch |-> Value,
                hSignalEvent |-> Modified, numWaitEvents |-> Value, phWaitEvents |-> InHandles],
               {"dstRegion", "srcRegion", "phWaitEvents"}, {})

ZeCommandListAppendMemoryCopyRegionDeferred_Usm_RemappedRpcM ==
  Message(273, [hCommandList |-> Handle, dstptr |-> Destination, dstRegion |-> In,
                dstPitch |-> Value, dstSlicePitch |-> Value, srcptr |-> Source,
                srcRegion |-> In, srcPitch |-> Value, srcSlicePitch |-> Value,
                hSignalEvent |-> Modified, numWaitEvents |-> Value, phWaitEvents |-> InHandles],
               {"dstRegion", "srcRegion", "phWaitEvents"}, {})

ZeCommandListAppendMemoryCopyRegionDeferred_Shared_UsmRpcM ==
  Message(274, [hCommandList |-> Handle, dstptr |-> Destination, dstRegion |-> In,
                dstPitch |-> Value, dstSlicePitch |-> Value, srcptr |-> Source,
                srcRegion |-> In, srcPitch |-> Value, srcSlicePitch |-> Value,
                hSignalEvent |-> Modified, numWaitEvents |-> Value, phWaitEvents |-> InHandles],
               {"dstRegion", "srcRegion", "phWaitEvents"}, {})

ZeCommandListAppendMemoryCopyRegionDeferred_Shared_SharedRpcM ==
  Message(275, [hCommandList |-> Handle, dstptr |-> Destination, dstRegion |-> In,
                dstPitch |-> Value, dstSlicePitch |-> Value, srcptr |-> Source,
                srcRegion |-> In, srcPitch |-> Value, srcSlicePitch |-> Value,
                hSignalEvent |-> Modified, numWaitEvents |-> Value, phWaitEvents |-> InHandles],
               {"dstRegion", "srcRegion", "phWaitEvents"}, {})

ZeCommandListAppendMemoryCopyRegionDeferred_Shared_RemappedRpcM ==
  Message(276, [hCommandList |-> Handle, dstptr |-> Destination, dstRegion |-> In,
                dstPitch |-> Value, dstSlicePitch |-> Value, srcptr |-> Source,
                srcRegion |-> In, srcPitch |-> Value, srcSlicePitch |-> Value,
                hSignalEvent |-> Modified, numWaitEvents |-> Value, phWaitEvents |-> InHandles],
               {"dstRegion", "srcRegion", "phWaitEvents"}, {})

ZeCommandListAppendMemoryCopyRegionDeferred_Remapped_UsmRpcM ==
  Message(277, [hCommandList |-> Handle, dstptr |-> Destination, dstRegion |-> In,
                dstPitch |-> Value, dstSlicePitch |-> Value, srcptr |-> Source,
                srcRegion |-> In, srcPitch |-> Value, srcSlicePitch |-> Value,
                hSignalEvent |-> Modified, numWaitEvents |-> Value, phWaitEvents |-> InHandles],
               {"dstRegion", "srcRegion", "phWaitEvents"}, {})

ZeCommandListAppendMemoryCopyRegionDeferred_Remapped_SharedRpcM ==
  Message(278, [hCommandList |-> Handle, dstptr |-> Destination, dstRegion |-> In,
                dstPitch |-> Value, dstSlicePitch |-> Value, srcptr |-> Source,
                srcRegion |-> In, srcPitch |-> Value, srcSlicePitch |-> Value,
                hSignalEvent |-> Modified, numWaitEvents |-> Value, phWaitEvents |-> InHandles],
               {"dstRegion", "srcRegion", "phWaitEvents"}, {})

ZeCommandListAppendMemoryCopyRegionDeferred_Remapped_RemappedRpcM ==
  Message(279, [hCommandList |-> Handle, dstptr |-> Destination, dstRegion |-> In,
                dstPitch |-> Value, dstSlicePitch |-> Value, srcptr |-> Source,
                srcRegion |-> In, srcPitch |-> Value, srcSlicePitch |-> Value,
                hSignalEvent |-> Modified, numWaitEvents |-> Value, phWaitEvents |-> InHandles],
               {"dstRegion", "srcRegion", "phWaitEvents"}, {})

ZeCommandListAppendMemoryCopyRegionImmediateSynchronous_Local_UsmRpcM ==
  Message(280, [hCommandList |-> Handle, dstptr |-> Destination, dstRegion |-> In,
                dstPitch |-> Value, dstSlicePitch |-> Value, srcptr |-> Source,
                srcRegion |-> In, srcPitch |-> Value, srcSlicePitch |-> Value,
                hSignalEvent |-> Modified, numWaitEvents |-> Value, phWaitEvents |-> InHandles],
               {"dstRegion", "srcRegion", "phWaitEvents"}, {"dstptr"})

ZeCommandListAppendMemoryCopyRegionImmediateSynchronous_Local_SharedRpcM ==
  Message(281, [hCommandList |-> Handle, dstptr |-> Destination, dstRegion |-> In,
                dstPitch |-> Value, dstSlicePitch |-> Value, srcptr |-> Source,
                srcRegion |-> In, srcPitch |-> Value, srcSlicePitch |-> Value,
                hSignalEvent |-> Modified, numWaitEvents |-> Value, phWaitEvents |-> InHandles],
               {"dstRegion", "srcRegion", "phWaitEvents"}, {"dstptr"})

ZeCommandListAppendMemoryCopyRegionImmediateSynchronous_Local_RemappedRpcM ==
  Message(282, [hCommandList |-> Handle, dstptr |-> Destination, dstRegion |-> In,
                dstPitch |-> Value, dstSlicePitch |-> Value, srcptr |-> Source,
                srcRegion |-> In, srcPitch |-> Value, srcSlicePitch |-> Value,
                hSignalEvent |-> Modified, numWaitEvents |-> Value, phWaitEvents |-> InHandles],
               {"dstRegion", "srcRegion", "phWaitEvents"}, {"dstptr"})

ZeCommandListAppendMemoryCopyRegionImmediateSynchronous_Usm_UsmRpcM ==
  Message(283, [hCommandList |-> Handle, dstptr |-> Destination, dstRegion |-> In,
                dstPitch |-> Value, dstSlicePitch |-> Value, srcptr |-> Source,
                srcRegion |-> In, srcPitch |-> Value, srcSlicePitch |-> Value,
                hSignalEvent |-> Modified, numWaitEvents |-> Value, phWaitEvents |-> InHandles],
               {"dstRegion", "srcRegion", "phWaitEvents"}, {})

ZeCommandListAppendMemoryCopyRegionImmediateSynchronous_Usm_SharedRpcM ==
  Message(284, [hCommandList |-> Handle, dstptr |-> Destination, dstRegion |-> In,
                dstPitch |-> Value, dstSlicePitch |-> Value, srcptr |-> Source,
                srcRegion |-> In, srcPitch |-> Value, srcSlicePitch |-> Value,
                hSignalEvent |-> Modified, numWaitEvents |-> Value, phWaitEvents |-> InHandles],
               {"dstRegion", "srcRegion", "phWaitEvents"}, {})

ZeCommandListAppendMemoryCopyRegionImmediateSynchronous_Usm_RemappedRpcM ==
  Message(285, [hCommandList |-> Handle, dstptr |-> Destination, dstRegion |-> In,
                dstPitch |-> Value, dstSlicePitch |-> Value, srcptr |-> Source,
                srcRegion |-> In, srcPitch |-> Value, srcSlicePitch |-> Value,
                hSignalEvent |-> Modified, numWaitEvents |-> Value, phWaitEvents |-> InHandles],
               {"dstRegion", "srcRegion", "phWaitEvents"}, {})

ZeCommandListAppendMemoryCopyRegionImmediateSynchronous_Shared_UsmRpcM ==
  Message(286, [hCommandList |-> Handle, dstptr |-> Destination, dstRegion |-> In,
                dstPitch |-> Value, dstSlicePitch |-> Value, srcptr |-> Source,
                srcRegion |-> In, srcPitch |-> Value, srcSlicePitch |-> Value,
                hSignalEvent |-> Modified, numWaitEvents |-> Value, phWaitEvents |-> InHandles],
               {"dstRegion", "srcRegion", "phWaitEvents"}, {})

ZeCommandListAppendMemoryCopyRegionImmediateSynchronous_Shared_SharedRpcM ==
  Message(287, [hCommandList |-> Handle, dstptr |-> Destination, dstRegion |-> In,
                dstPitch |-> Value, dstSlicePitch |-> Value, srcptr |-> Source,
                srcRegion |-> In, srcPitch |-> Value, srcSlicePitch |-> Value,
                hSignalEvent |-> Modified, numWaitEvents |-> Value, phWaitEvents |-> InHandles],
               {"dstRegion", "srcRegion", "phWaitEvents"}, {})

ZeCommandListAppendMemoryCopyRegionImmediateSynchronous_Shared_RemappedRpcM ==
  Message(288, [hCommandList |-> Handle, dstptr |-> Destination, dstRegion |-> In,
                dstPitch |-> Value, dstSlicePitch |-> Value, srcptr |-> Source,
                srcRegion |-> In, srcPitch |-> Value, srcSlicePitch |-> Value,
                hSignalEvent |-> Modified, numWaitEvents |-> Value, phWaitEvents |-> InHandles],
               {"dstRegion", "srcRegion", "phWaitEvents"}, {})

ZeCommandListAppendMemoryCopyRegionImmediateAsynchronous_Local_UsmRpcM ==
  Message(289, [hCommandList |-> Handle, dstptr |-> Destination, dstRegion |-> In,
                dstPitch |-> Value, dstSlicePitch |-> Value, srcptr |-> Source,
                srcRegion |-> In, srcPitch |-> Value, srcSlicePitch |-> Value,
                hSignalEvent |-> Modified, numWaitEvents |-> Value, phWaitEvents |-> InHandles],
               {"dstRegion", "srcRegion", "phWaitEvents"}, {})

ZeCommandListAppendMemoryCopyRegionImmediateAsynchronous_Local_SharedRpcM ==
  Message(290, [hCommandList |-> Handle, dstptr |-> Destination, dstRegion |-> In,
                dstPitch |-> Value, dstSlicePitch |-> Value, srcptr |-> Source,
                srcRegion |-> In, srcPitch |-> Value, srcSlicePitch |-> Value,
                hSignalEvent |-> Modified, numWaitEvents |-> Value, phWaitEvents |-> InHandles],
               {"dstRegion", "srcRegion", "phWaitEvents"}, {})

ZeCommandListAppendMemoryCopyRegionImmediateAsynchronous_Local_RemappedRpcM ==
  Message(291, [hCommandList |-> Handle, dstptr |-> Destination, dstRegion |-> In,
                dstPitch |-> Value, dstSlicePitch |-> Value, srcptr |-> Source,
                srcRegion |-> In, srcPitch |-> Value, srcSlicePitch |-> Value,
                hSignalEvent |-> Modified, numWaitEvents |-> Value, phWaitEvents |-> InHandles],
               {"dstRegion", "srcRegion", "phWaitEvents"}, {})

ZeCommandListAppendMemoryCopyRegionImmediateAsynchronous_Usm_UsmRpcM ==
  Message(292, [hCommandList |-> Handle, dstptr |-> Destination, dstRegion |-> In,
                dstPitch |-> Value, dstSlicePitch |-> Value, srcptr |-> Source,
                srcRegion |-> In, srcPitch |-> Value, srcSlicePitch |-> Value,
                hSignalEvent |-> Modified, numWaitEvents |-> Value, phWaitEvents |-> InHandles],
               {"dstRegion", "srcRegion", "phWaitEvents"}, {})

ZeCommandListAppendMemoryCopyRegionImmediateAsynchronous_Usm_SharedRpcM ==
  Message(293, [hCommandList |-> Handle, dstptr |-> Destination, dstRegion |-> In,
                dstPitch |-> Value, dstSlicePitch |-> Value, srcptr |-> Source,
                srcRegion |-> In, srcPitch |-> Value, srcSlicePitch |-> Value,
                hSignalEvent |-> Modified, numWaitEvents |-> Value, phWaitEvents |-> InHandles],
               {"dstRegion", "srcRegion", "phWaitEvents"}, {})

ZeCommandListAppendMemoryCopyRegionImmediateAsynchronous_Usm_RemappedRpcM ==
  Message(294, [hCommandList |-> Handle, dstptr |-> Destination, dstRegion |-> In,
                dstPitch |-> Value, dstSlicePitch |-> Value, srcptr |-> Source,
                srcRegion |-> In, srcPitch |-> Value, srcSlicePitch |-> Value,
                hSignalEvent |-> Modified, numWaitEvents |-> Value, phWaitEvents |-> InHandles],
               {"dstRegion", "srcRegion", "phWaitEvents"}, {})

ZeCommandListAppendMemoryCopyRegionImmediateAsynchronous_Shared_UsmRpcM ==
  Message(295, [hCommandList |-> Handle, dstptr |-> Destination, dstRegion |-> In,
                dstPitch |-> Value, dstSlicePitch |-> Value, srcptr |-> Source,
                srcRegion |-> In, srcPitch |-> Value, srcSlicePitch |-> Value,
                hSignalEvent |-> Modified, numWaitEvents |-> Value, phWaitEvents |-> InHandles],
               {"dstRegion", "srcRegion", "phWaitEvents"}, {})

ZeCommandListAppendMemoryCopyRegionImmediateAsynchronous_Shared_SharedRpcM ==
  Message(296, [hCommandList |-> Handle, dstptr |-> Destination, dstRegion |-> In,
                dstPitch |-> Value, dstSlicePitch |-> Value, srcptr |-> Source,
                srcRegion |-> In, srcPitch |-> Value, srcSlicePitch |-> Value,
                hSignalEvent |-> Modified, numWaitEvents |-> Value, phWaitEvents |-> InHandles],
               {"dstRegion", "srcRegion", "phWaitEvents"}, {})

ZeCommandListAppendMemoryCopyRegionImmediateAsynchronous_Shared_RemappedRpcM ==
  Message(297, [hCommandList |-> Handle, dstptr |-> Destination, dstRegion |-> In,
                dstPitch |-> Value, dstSlicePitch |-> Value, srcptr |-> Source,
                srcRegion |-> In, srcPitch |-> Value, srcSlicePitch |-> Value,
                hSignalEvent |-> Modified, numWaitEvents |-> Value, phWaitEvents |-> InHandles],
               {"dstRegion", "srcRegion", "phWaitEvents"}, {})

ZeCommandListAppendMemoryCopyFromContextDeferred_Usm_UsmRpcM ==
  Message(298, [hCommandList |-> Handle, dstptr |-> Destination, hContextSrc |-> Handle,
                srcptr |-> Source, size |-> Value, hSignalEvent |-> Modified,
                numWaitEvents |-> Value, phWaitEvents |-> InHandles], {"phWaitEvents"}, {})

ZeCommandListAppendMemoryCopyFromContextDeferred_Shared_UsmRpcM ==
  Message(299, [hCommandList |-> Handle, dstptr |-> Destination, hContextSrc |-> Handle,
                srcptr |-> Source, size |-> Value, hSignalEvent |-> Modified,
                numWaitEvents |-> Value, phWaitEvents |-> InHandles], {"phWaitEvents"}, {})

ZeCommandListAppendMemoryCopyFromContextDeferred_Remapped_UsmRpcM ==
  Message(300, [hCommandList |-> Handle, dstptr |-> Destination, hContextSrc |-> Handle,
                srcptr |-> Source, size |-> Value, hSignalEvent |-> Modified,
                numWaitEvents |-> Value, phWaitEvents |-> InHandles], {"phWaitEvents"}, {})

ZeCommandListAppendMemoryCopyFromContextImmediateSynchronous_Local_UsmRpcM ==
  Message(301, [hCommandList |-> Handle, dstptr |-> Destination, hContextSrc |-> Handle,
                srcptr |-> Source, size |-> Value, hSignalEvent |-> Modified,
                numWaitEvents |-> Value, phWaitEvents |-> InHandles],
               {"phWaitEvents"}, {"dstptr"})

ZeCommandListAppendMemoryCopyFromContextImmediateSynchronous_Usm_UsmRpcM ==
  Message(302, [hCommandList |-> Handle, dstptr |-> Destination, hContextSrc |-> Handle,
                srcptr |-> Source, size |-> Value, hSignalEvent |-> Modified,
                numWaitEvents |-> Value, phWaitEvents |-> InHandles], {"phWaitEvents"}, {})

ZeCommandListAppendMemoryCopyFromContextImmediateSynchronous_Shared_UsmRpcM ==
  Message(303, [hCommandList |-> Handle, dstptr |-> Destination, hContextSrc |-> Handle,
                srcptr |-> Source, size |-> Value, hSignalEvent |-> Modified,
                numWaitEvents |-> Value, phWaitEvents |-> InHandles], {"phWaitEvents"}, {})

ZeCommandListAppendMemoryCopyFromContextImmediateAsynchronous_Local_UsmRpcM ==
  Message(304, [hCommandList |-> Handle, dstptr |-> Destination, hContextSrc |-> Handle,
                srcptr |-> Source, size |-> Value, hSignalEvent |-> Modified,
                numWaitEvents |-> Value, phWaitEvents |-> InHandles], {"phWaitEvents"}, {})

ZeCommandListAppendMemoryCopyFromContextImmediateAsynchronous_Usm_UsmRpcM ==
  Message(305, [hCommandList |-> Handle, dstptr |-> Destination, hContextSrc |-> Handle,
                srcptr |-> Source, size |-> Value, hSignalEvent |-> Modified,
                numWaitEvents |-> Value, phWaitEvents |-> InHandles], {"phWaitEvents"}, {})

ZeCommandListAppendMemoryCopyFromContextImmediateAsynchronous_Shared_UsmRpcM ==
  Message(306, [hCommandList |-> Handle, dstptr |-> Destination, hContextSrc |-> Handle,
                srcptr |-> Source, size |-> Value, hSignalEvent |-> Modified,
                numWaitEvents |-> Value, phWaitEvents |-> InHandles], {"phWaitEvents"}, {})
=============================================================================
