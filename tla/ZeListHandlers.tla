--------------------------- MODULE ZeListHandlers ----------------------------
(*****************************************************************************)
(* The service handlers of Level Zero (generated_service_level_zero.h and    *)
(* service.cpp): one definition per function.                                *)
(* Here: the functions of command lists.                                     *)
(*****************************************************************************)
EXTENDS ZeListMessages

zeCommandListAppendMemoryRangesBarrierHandler ==
  Handler({"pRangeSizes", "pRanges", "phWaitEvents"})

zeCommandListCreateHandler ==
  [Handler({"desc", "phCommandList"}) EXCEPT
    !.before = Effects("overrideCommandListDesc", {"desc"}),
    !.after = Effects("trackAllocatedResource", {"phCommandList"})
        \cup Effects("registerCommandListToContextMapping", {"phCommandList"})]

zeCommandListCreateImmediateHandler ==
  [Handler({"altdesc", "phCommandList"}) EXCEPT
    !.before = Effects("overrideCommandQueueDesc", {"altdesc"}),
    !.after = Effects("trackAllocatedResource", {"phCommandList"})
        \cup Effects("registerCommandListToContextMapping", {"phCommandList"})]

zeCommandListCloseHandler ==
  Handler({})

zeCommandListAppendMemoryFillRpcHelperUsm2UsmHandler ==
  Handler({"phWaitEvents"})

zeCommandListAppendMemoryFillRpcHelperMalloc2UsmHandler ==
  Handler({"pattern", "phWaitEvents"})

zeCommandListAppendMemoryPrefetchHandler ==
  Handler({})

zeCommandListAppendBarrierHandler ==
  [Handler({"phWaitEvents"}) EXCEPT !.failsIfAsync = TRUE]

zeCommandListAppendSignalEventHandler ==
  [Handler({}) EXCEPT !.failsIfAsync = TRUE]

zeCommandListAppendWaitOnEventsHandler ==
  [Handler({"phEvents"}) EXCEPT !.failsIfAsync = TRUE]

zeCommandListAppendEventResetHandler ==
  Handler({})

zeCommandListAppendQueryKernelTimestampsHandler ==
  Handler({"phEvents", "dstptr", "phWaitEvents"})

zeCommandListAppendLaunchKernelHandler ==
  [Handler({"pLaunchFuncArgs", "phWaitEvents"}) EXCEPT !.failsIfAsync = TRUE]

zeCommandListAppendLaunchCooperativeKernelHandler ==
  [Handler({"pLaunchFuncArgs", "phWaitEvents"}) EXCEPT !.failsIfAsync = TRUE]

zeCommandListAppendLaunchKernelIndirectHandler ==
  Handler({"phWaitEvents"})

zeCommandListAppendLaunchMultipleKernelsIndirectHandler ==
  Handler({"phKernels", "phWaitEvents"})

zeCommandListAppendWriteGlobalTimestamp_LocalHandler ==
  [Handler({"phWaitEvents"}) EXCEPT !.before = Effects("registerUSMStaging", {"dstptr"})]

zeCommandListAppendWriteGlobalTimestamp_UsmHandler ==
  Handler({"phWaitEvents"})

zeCommandListAppendWriteGlobalTimestamp_SharedHandler ==
  [Handler({"phWaitEvents"}) EXCEPT !.imported = {"dstptr"}]

zeCommandListAppendMemoryCopyDeferred_Usm_UsmHandler ==
  Handler({"phWaitEvents"})

zeCommandListAppendMemoryCopyDeferred_Usm_SharedHandler ==
  [Handler({"phWaitEvents"}) EXCEPT !.imported = {"srcptr"}]

zeCommandListAppendMemoryCopyDeferred_Usm_RemappedHandler ==
  [Handler({"phWaitEvents"}) EXCEPT !.remapped = {"srcptr"}]

zeCommandListAppendMemoryCopyDeferred_Shared_UsmHandler ==
  [Handler({"phWaitEvents"}) EXCEPT !.imported = {"dstptr"}]

zeCommandListAppendMemoryCopyDeferred_Shared_SharedHandler ==
  [Handler({"phWaitEvents"}) EXCEPT !.imported = {"dstptr", "srcptr"}]

zeCommandListAppendMemoryCopyDeferred_Shared_RemappedHandler ==
  [Handler({"phWaitEvents"}) EXCEPT !.imported = {"dstptr"}, !.remapped = {"srcptr"}]

zeCommandListAppendMemoryCopyDeferred_Remapped_UsmHandler ==
  [Handler({"phWaitEvents"}) EXCEPT
    !.remapped = {"dstptr"}, !.marker = TRUE,
    !.after = Effects("addRelay", {"hSignalEvent"})
        \cup Effects("registerCopyOperation", {"dstptr"})]

zeCommandListAppendMemoryCopyDeferred_Remapped_SharedHandler ==
  [Handler({"phWaitEvents"}) EXCEPT
    !.imported = {"srcptr"}, !.remapped = {"dstptr"}, !.marker = TRUE,
    !.after = Effects("addRelay", {"hSignalEvent"})
        \cup Effects("registerCopyOperation", {"dstptr"})]

zeCommandListAppendMemoryCopyDeferred_Remapped_RemappedHandler ==
  [Handler({"phWaitEvents"}) EXCEPT
    !.remapped = {"dstptr", "srcptr"}, !.marker = TRUE,
    !.after = Effects("addRelay", {"hSignalEvent"})
        \cup Effects("registerCopyOperation", {"dstptr"})]

zeCommandListAppendMemoryCopyImmediate_Local_LocalHandler ==
  [Handler({"phWaitEvents"}) EXCEPT
    !.marker = TRUE, !.failsIfAsync = TRUE,
    !.before = Effects("registerUSMStaging", {"dstptr"}),
    !.after = Effects("addRelay", {"hSignalEvent"})
        \cup Effects("registerCopyOperation", {"dstptr"})]

zeCommandListAppendMemoryCopyImmediate_Local_UsmHandler ==
  [Handler({"phWaitEvents"}) EXCEPT
    !.marker = TRUE, !.failsIfAsync = TRUE,
    !.before = Effects("registerUSMStaging", {"dstptr"}),
    !.after = Effects("addRelay", {"hSignalEvent"})
        \cup Effects("registerCopyOperation", {"dstptr"})]

zeCommandListAppendMemoryCopyImmediate_Local_SharedHandler ==
  [Handler({"phWaitEvents"}) EXCEPT
    !.imported = {"srcptr"}, !.marker = TRUE, !.failsIfAsync = TRUE,
    !.before = Effects("registerUSMStaging", {"dstptr"}),
    !.after = Effects("addRelay", {"hSignalEvent"})
        \cup Effects("registerCopyOperation", {"dstptr"})]

zeCommandListAppendMemoryCopyImmediate_Usm_LocalHandler ==
  [Handler({"phWaitEvents"}) EXCEPT !.failsIfAsync = TRUE]

zeCommandListAppendMemoryCopyImmediate_Usm_UsmHandler ==
  [Handler({"phWaitEvents"}) EXCEPT !.failsIfAsync = TRUE]

zeCommandListAppendMemoryCopyImmediate_Usm_SharedHandler ==
  [Handler({"phWaitEvents"}) EXCEPT !.imported = {"srcptr"}, !.failsIfAsync = TRUE]

zeCommandListAppendMemoryCopyImmediate_Shared_LocalHandler ==
  [Handler({"phWaitEvents"}) EXCEPT !.imported = {"dstptr"}, !.failsIfAsync = TRUE]

zeCommandListAppendMemoryCopyImmediate_Shared_UsmHandler ==
  [Handler({"phWaitEvents"}) EXCEPT !.imported = {"dstptr"}, !.failsIfAsync = TRUE]

zeCommandListAppendMemoryCopyImmediate_Shared_SharedHandler ==
  [Handler({"phWaitEvents"}) EXCEPT !.imported = {"dstptr", "srcptr"}, !.failsIfAsync = TRUE]

zeCommandListAppendMemoryCopyImmediateSynchronous_Local_LocalHandler ==
  [Handler({"dstptr", "srcptr", "phWaitEvents"}) EXCEPT !.failsIfAsync = TRUE]

zeCommandListAppendMemoryCopyImmediateSynchronous_Local_UsmHandler ==
  [Handler({"dstptr", "phWaitEvents"}) EXCEPT !.failsIfAsync = TRUE]

zeCommandListAppendMemoryCopyImmediateSynchronous_Local_SharedHandler ==
  [Handler({"dstptr", "phWaitEvents"}) EXCEPT !.imported = {"srcptr"}, !.failsIfAsync = TRUE]

zeCommandListAppendMemoryCopyImmediateSynchronous_Usm_LocalHandler ==
  [Handler({"srcptr", "phWaitEvents"}) EXCEPT !.failsIfAsync = TRUE]

zeCommandListAppendMemoryCopyImmediateSynchronous_Usm_UsmHandler ==
  [Handler({"phWaitEvents"}) EXCEPT !.failsIfAsync = TRUE]

zeCommandListAppendMemoryCopyImmediateSynchronous_Usm_SharedHandler ==
  [Handler({"phWaitEvents"}) EXCEPT !.imported = {"srcptr"}, !.failsIfAsync = TRUE]

zeCommandListAppendMemoryCopyImmediateSynchronous_Shared_LocalHandler ==
  [Handler({"srcptr", "phWaitEvents"}) EXCEPT !.imported = {"dstptr"}, !.failsIfAsync = TRUE]

zeCommandListAppendMemoryCopyImmediateSynchronous_Shared_UsmHandler ==
  [Handler({"phWaitEvents"}) EXCEPT !.imported = {"dstptr"}, !.failsIfAsync = TRUE]

zeCommandListAppendMemoryCopyImmediateSynchronous_Shared_SharedHandler ==
  [Handler({"phWaitEvents"}) EXCEPT !.imported = {"dstptr", "srcptr"}, !.failsIfAsync = TRUE]

zeCommandListAppendMemoryCopyRegionDeferred_Usm_UsmHandler ==
  Handler({"dstRegion", "srcRegion", "phWaitEvents"})

zeCommandListAppendMemoryCopyRegionDeferred_Usm_SharedHandler ==
  [Handler({"dstRegion", "srcRegion", "phWaitEvents"}) EXCEPT !.imported = {"srcptr"}]

zeCommandListAppendMemoryCopyRegionDeferred_Usm_RemappedHandler ==
  [Handler({"dstRegion", "srcRegion", "phWaitEvents"}) EXCEPT !.remapped = {"srcptr"}]

zeCommandListAppendMemoryCopyRegionDeferred_Shared_UsmHandler ==
  [Handler({"dstRegion", "srcRegion", "phWaitEvents"}) EXCEPT !.imported = {"dstptr"}]

zeCommandListAppendMemoryCopyRegionDeferred_Shared_SharedHandler ==
  [Handler({"dstRegion", "srcRegion", "phWaitEvents"}) EXCEPT !.imported = {"dstptr", "srcptr"}]

zeCommandListAppendMemoryCopyRegionDeferred_Shared_RemappedHandler ==
  [Handler({"dstRegion", "srcRegion", "phWaitEvents"}) EXCEPT
    !.imported = {"dstptr"}, !.remapped = {"srcptr"}]

zeCommandListAppendMemoryCopyRegionDeferred_Remapped_UsmHandler ==
  [Handler({"dstRegion", "srcRegion", "phWaitEvents"}) EXCEPT
    !.remapped = {"dstptr"}, !.marker = TRUE,
    !.after = Effects("addRelay", {"hSignalEvent"})
        \cup Effects("registerCopyOperation", {"dstptr"})]

zeCommandListAppendMemoryCopyRegionDeferred_Remapped_SharedHandler ==
  [Handler({"dstRegion", "srcRegion", "phWaitEvents"}) EXCEPT
    !.imported = {"srcptr"}, !.remapped = {"dstptr"}, !.marker = TRUE,
    !.after = Effects("addRelay", {"hSignalEvent"})
        \cup Effects("registerCopyOperation", {"dstptr"})]

zeCommandListAppendMemoryCopyRegionDeferred_Remapped_RemappedHandler ==
  [Handler({"dstRegion", "srcRegion", "phWaitEvents"}) EXCEPT
    !.remapped = {"dstptr", "srcptr"}, !.marker = TRUE,
    !.after = Effects("addRelay", {"hSignalEvent"})
        \cup Effects("registerCopyOperation", {"dstptr"})]

zeCommandListAppendMemoryCopyRegionImmediateSynchronous_Local_UsmHandler ==
  [Handler({"dstptr", "dstRegion", "srcRegion", "phWaitEvents"}) EXCEPT !.failsIfAsync = TRUE]

zeCommandListAppendMemoryCopyRegionImmediateSynchronous_Local_SharedHandler ==
  [Handler({"dstptr", "dstRegion", "srcRegion", "phWaitEvents"}) EXCEPT
    !.imported = {"srcptr"}, !.failsIfAsync = TRUE]

zeCommandListAppendMemoryCopyRegionImmediateSynchronous_Local_RemappedHandler ==
  [Handler({"dstptr", "dstRegion", "srcRegion", "phWaitEvents"}) EXCEPT
    !.remapped = {"srcptr"}, !.failsIfAsync = TRUE]

zeCommandListAppendMemoryCopyRegionImmediateSynchronous_Usm_UsmHandler ==
  [Handler({"dstRegion", "srcRegion", "phWaitEvents"}) EXCEPT !.failsIfAsync = TRUE]

zeCommandListAppendMemoryCopyRegionImmediateSynchronous_Usm_SharedHandler ==
  [Handler({"dstRegion", "srcRegion", "phWaitEvents"}) EXCEPT
    !.imported = {"srcptr"}, !.failsIfAsync = TRUE]

zeCommandListAppendMemoryCopyRegionImmediateSynchronous_Usm_RemappedHandler ==
  [Handler({"dstRegion", "srcRegion", "phWaitEvents"}) EXCEPT
    !.remapped = {"srcptr"}, !.failsIfAsync = TRUE]

zeCommandListAppendMemoryCopyRegionImmediateSynchronous_Shared_UsmHandler ==
  [Handler({"dstRegion", "srcRegion", "phWaitEvents"}) EXCEPT
    !.imported = {"dstptr"}, !.failsIfAsync = TRUE]

zeCommandListAppendMemoryCopyRegionImmediateSynchronous_Shared_SharedHandler ==
  [Handler({"dstRegion", "srcRegion", "phWaitEvents"}) EXCEPT
    !.imported = {"dstptr", "srcptr"}, !.failsIfAsync = TRUE]

zeCommandListAppendMemoryCopyRegionImmediateSynchronous_Shared_RemappedHandler ==
  [Handler({"dstRegion", "srcRegion", "phWaitEvents"}) EXCEPT
    !.imported = {"dstptr"}, !.remapped = {"srcptr"}, !.failsIfAsync = TRUE]

zeCommandListAppendMemoryCopyRegionImmediateAsynchronous_Local_UsmHandler ==
  [Handler({"dstRegion", "srcRegion", "phWaitEvents"}) EXCEPT
    !.marker = TRUE, !.failsIfAsync = TRUE,
    !.before = Effects("registerUSMStaging", {"dstptr"}),
    !.after = Effects("addRelay", {"hSignalEvent"})
        \cup Effects("registerCopyOperation", {"dstptr"})]

zeCommandListAppendMemoryCopyRegionImmediateAsynchronous_Local_SharedHandler ==
  [Handler({"dstRegion", "srcRegion", "phWaitEvents"}) EXCEPT
    !.imported = {"srcptr"}, !.marker = TRUE, !.failsIfAsync = TRUE,
    !.before = Effects("registerUSMStaging", {"dstptr"}),
    !.after = Effects("addRelay", {"hSignalEvent"})
        \cup Effects("registerCopyOperation", {"dstptr"})]

zeCommandListAppendMemoryCopyRegionImmediateAsynchronous_Local_RemappedHandler ==
  [Handler({"dstRegion", "srcRegion", "phWaitEvents"}) EXCEPT
    !.remapped = {"srcptr"}, !.marker = TRUE, !.failsIfAsync = TRUE,
    !.before = Effects("registerUSMStaging", {"dstptr"}),
    !.after = Effects("addRelay", {"hSignalEvent"})
        \cup Effects("registerCopyOperation", {"dstptr"})]

zeCommandListAppendMemoryCopyRegionImmediateAsynchronous_Usm_UsmHandler ==
  [Handler({"dstRegion", "srcRegion", "phWaitEvents"}) EXCEPT !.failsIfAsync = TRUE]

zeCommandListAppendMemoryCopyRegionImmediateAsynchronous_Usm_SharedHandler ==
  [Handler({"dstRegion", "srcRegion", "phWaitEvents"}) EXCEPT
    !.imported = {"srcptr"}, !.failsIfAsync = TRUE]

zeCommandListAppendMemoryCopyRegionImmediateAsynchronous_Usm_RemappedHandler ==
  [Handler({"dstRegion", "srcRegion", "phWaitEvents"}) EXCEPT
    !.remapped = {"srcptr"}, !.failsIfAsync = TRUE]

zeCommandListAppendMemoryCopyRegionImmediateAsynchronous_Shared_UsmHandler ==
  [Handler({"dstRegion", "srcRegion", "phWaitEvents"}) EXCEPT
    !.imported = {"dstptr"}, !.failsIfAsync = TRUE]

zeCommandListAppendMemoryCopyRegionImmediateAsynchronous_Shared_SharedHandler ==
  [Handler({"dstRegion", "srcRegion", "phWaitEvents"}) EXCEPT
    !.imported = {"dstptr", "srcptr"}, !.failsIfAsync = TRUE]

zeCommandListAppendMemoryCopyRegionImmediateAsynchronous_Shared_RemappedHandler ==
  [Handler({"dstRegion", "srcRegion", "phWaitEvents"}) EXCEPT
    !.imported = {"dstptr"}, !.remapped = {"srcptr"}, !.failsIfAsync = TRUE]

zeCommandListAppendMemoryCopyFromContextDeferred_Usm_UsmHandler ==
  Handler({"phWaitEvents"})

zeCommandListAppendMemoryCopyFromContextDeferred_Shared_UsmHandler ==
  [Handler({"phWaitEvents"}) EXCEPT !.imported = {"dstptr"}]

zeCommandListAppendMemoryCopyFromContextDeferred_Remapped_UsmHandler ==
  [Handler({"phWaitEvents"}) EXCEPT
    !.remapped = {"dstptr"}, !.marker = TRUE,
    !.after = Effects("addRelay", {"hSignalEvent"})
        \cup Effects("registerCopyOperation", {"dstptr"})]

zeCommandListAppendMemoryCopyFromContextImmediateSynchronous_Local_UsmHandler ==
  [Handler({"dstptr", "phWaitEvents"}) EXCEPT !.failsIfAsync = TRUE]

zeCommandListAppendMemoryCopyFromContextImmediateSynchronous_Usm_UsmHandler ==
  [Handler({"phWaitEvents"}) EXCEPT !.failsIfAsync = TRUE]

zeCommandListAppendMemoryCopyFromContextImmediateSynchronous_Shared_UsmHandler ==
  [Handler({"phWaitEvents"}) EXCEPT !.imported = {"dstptr"}, !.failsIfAsync = TRUE]

zeCommandListAppendMemoryCopyFromContextImmediateAsynchronous_Local_UsmHandler ==
  [Handler({"phWaitEvents"}) EXCEPT
    !.marker = TRUE, !.failsIfAsync = TRUE,
    !.before = Effects("registerUSMStaging", {"dstptr"}),
    !.after = Effects("addRelay", {"hSignalEvent"})
        \cup Effects("registerCopyOperation", {"dstptr"})]

zeCommandListAppendMemoryCopyFromContextImmediateAsynchronous_Usm_UsmHandler ==
  [Handler({"phWaitEvents"}) EXCEPT !.failsIfAsync = TRUE]

zeCommandListAppendMemoryCopyFromContextImmediateAsynchronous_Shared_UsmHandler ==
  [Handler({"phWaitEvents"}) EXCEPT !.imported = {"dstptr"}, !.failsIfAsync = TRUE]

-----------------------------------------------------------------------------
(* Hand-written (service.cpp).                                              *)

zeCommandListAppendMemoryFillRpcHelperUsm2MallocHandler ==
  [Handler({"phWaitEvents"}) EXCEPT
    !.remapped = {"ptr"}, !.marker = TRUE, !.needsMarker = FALSE,
    !.after = Effects("addRelay", {"hSignalEvent"})
        \cup Effects("registerCopyOperation", {"ptr"})]

zeCommandListAppendMemoryFillRpcHelperMalloc2MallocHandler ==
  [Handler({"pattern", "phWaitEvents"}) EXCEPT
    !.remapped = {"ptr"}, !.marker = TRUE, !.needsMarker = FALSE,
    !.after = Effects("addRelay", {"hSignalEvent"})
        \cup Effects("registerCopyOperation", {"ptr"})]

zeCommandListHostSynchronizeHandler ==
  [Handler({}) EXCEPT !.updatesCopies = TRUE]

zeCommandListResetHandler ==
  [Handler({}) EXCEPT !.before = Effects("freeOperationsOfCommandList", {"hCommandList"})]

zeCommandListDestroyHandler ==
  [Handler({}) EXCEPT
    !.before = Effects("freeOperationsOfCommandList", {"hCommandList"}),
    !.after = Effects("removeResourceTracking", {"hCommandList"})
        \cup Effects("deregisterCommandListMapping", {"hCommandList"})]
=============================================================================
