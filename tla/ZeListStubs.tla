----------------------------- MODULE ZeListStubs -----------------------------
(*****************************************************************************)
(* The client stubs of Level Zero (generated_icd_level_zero.cpp): one        *)
(* definition per function that sends a message.                             *)
(* Here: the functions of command lists.                                     *)
(*****************************************************************************)
EXTENDS ZeListMessages

\* What the stubs that append a command to a list have in common.
AppendCommand(message) ==
  [StubOn(message, {"hCommandList"}) EXCEPT
    !.before = Effects("stateUnknown", {"hSignalEvent"}) \cup Effects("awaited", {"phWaitEvents"}),
    !.remoteIfGiven = {"hSignalEvent"}, !.remoteElements = {"phWaitEvents"}]

\* Those that need not wait for the service, but on synchronous immediate lists.
AsyncAppendCommand(message) ==
  [AppendCommand(message) EXCEPT !.async = TRUE, !.unless = {"immediateSynchronous"}]

zeCommandListAppendMemoryRangesBarrier ==
  AppendCommand(ZeCommandListAppendMemoryRangesBarrierRpcM)

zeCommandListCreate ==
  [StubOn(ZeCommandListCreateRpcM, {"hContext", "hDevice"}) EXCEPT
    !.local = {"phCommandList"}, !.after = Effects("setContext", {"phCommandList"})]

zeCommandListCreateImmediate ==
  [StubOn(ZeCommandListCreateImmediateRpcM, {"hContext", "hDevice"}) EXCEPT
    !.early = {"hContext"}, !.local = {"phCommandList"},
    !.after = Effects("setContext", {"phCommandList"})]

zeCommandListDestroy ==
  [StubOn(ZeCommandListDestroyRpcM, {"hCommandList"}) EXCEPT
    !.async = TRUE, !.unless = {"immediateSynchronous"},
    !.afterAsync = Effects("dec", {"hCommandList"}), !.after = Effects("dec", {"hCommandList"})]

zeCommandListClose ==
  StubOn(ZeCommandListCloseRpcM, {"hCommandList"})

zeCommandListReset ==
  [StubOn(ZeCommandListResetRpcM, {"hCommandList"}) EXCEPT
    !.after = Effects("clearRequiredMemoryTransfers", {"hCommandList"})
        \cup Effects("clearSharedIndirectAccess", {"hCommandList"})]

zeCommandListAppendMemoryFillRpcHelperUsm2Usm ==
  AppendCommand(ZeCommandListAppendMemoryFillRpcHelperUsm2UsmRpcM)

zeCommandListAppendMemoryFillRpcHelperUsm2Malloc ==
  AppendCommand(ZeCommandListAppendMemoryFillRpcHelperUsm2MallocRpcM)

zeCommandListAppendMemoryFillRpcHelperMalloc2Usm ==
  AppendCommand(ZeCommandListAppendMemoryFillRpcHelperMalloc2UsmRpcM)

zeCommandListAppendMemoryFillRpcHelperMalloc2Malloc ==
  AppendCommand(ZeCommandListAppendMemoryFillRpcHelperMalloc2MallocRpcM)

zeCommandListAppendMemoryPrefetch ==
  StubOn(ZeCommandListAppendMemoryPrefetchRpcM, {"hCommandList"})

zeCommandListAppendBarrier ==
  AsyncAppendCommand(ZeCommandListAppendBarrierRpcM)

zeCommandListAppendSignalEvent ==
  [AsyncAppendCommand(ZeCommandListAppendSignalEventRpcM) EXCEPT
    !.early = {"hEvent"}, !.before = Effects("stateUnknown", {"hEvent"}),
    !.remoteIfGiven = {"hEvent"}, !.remoteElements = {}]

zeCommandListAppendWaitOnEvents ==
  [AsyncAppendCommand(ZeCommandListAppendWaitOnEventsRpcM) EXCEPT
    !.before = Effects("awaited", {"phEvents"}), !.remoteIfGiven = {},
    !.remoteElements = {"phEvents"}]

zeCommandListAppendEventReset ==
  [StubOn(ZeCommandListAppendEventResetRpcM, {"hCommandList", "hEvent"}) EXCEPT
    !.before = Effects("stateUnknown", {"hEvent"})]

zeCommandListAppendQueryKernelTimestampsRpcHelper ==
  [AppendCommand(ZeCommandListAppendQueryKernelTimestampsRpcM) EXCEPT
    !.remoteElements = @ \cup {"phEvents"}]

zeCommandListAppendLaunchKernel ==
  [AsyncAppendCommand(ZeCommandListAppendLaunchKernelRpcM) EXCEPT
    !.before = @ \cup Effects("addSharedIndirectAccess", {"hKernel"})
        \cup Effects("moveKernelArgsToGpu", {"hKernel"}), !.remote = @ \cup {"hKernel"},
    !.after = Effects("clearSharedIndirectAccess", {"hCommandList"})]

zeCommandListAppendLaunchCooperativeKernel ==
  [AsyncAppendCommand(ZeCommandListAppendLaunchCooperativeKernelRpcM) EXCEPT
    !.before = @ \cup Effects("addSharedIndirectAccess", {"hKernel"})
        \cup Effects("moveKernelArgsToGpu", {"hKernel"}), !.remote = @ \cup {"hKernel"},
    !.after = Effects("clearSharedIndirectAccess", {"hCommandList"})]

zeCommandListAppendLaunchKernelIndirect ==
  [AppendCommand(ZeCommandListAppendLaunchKernelIndirectRpcM) EXCEPT
    !.before = @ \cup Effects("addSharedIndirectAccess", {"hKernel"})
        \cup Effects("moveKernelArgsToGpu", {"hKernel"}), !.remote = @ \cup {"hKernel"},
    !.after = Effects("clearSharedIndirectAccess", {"hCommandList"})]

zeCommandListAppendLaunchMultipleKernelsIndirect ==
  [AppendCommand(ZeCommandListAppendLaunchMultipleKernelsIndirectRpcM) EXCEPT
    !.before = @ \cup Effects("addSharedIndirectAccess", {"phKernels"})
        \cup Effects("moveKernelArgsToGpu", {"phKernels"}),
    !.remoteElements = @ \cup {"phKernels"},
    !.after = Effects("clearSharedIndirectAccess", {"hCommandList"})]

zeCommandListHostSynchronizeRpcHelper ==
  [StubOn(ZeCommandListHostSynchronizeRpcM, {"hCommandList"}) EXCEPT
    !.onSuccess = Effects("readMemory", {"hCommandList"})
        \cup Effects("cleanTemporaryAllocations", {"hCommandList"})]

zeCommandListAppendWriteGlobalTimestamp_Local ==
  [AppendCommand(ZeCommandListAppendWriteGlobalTimestamp_LocalRpcM) EXCEPT
    !.before = @ \cup Effects("addToMap", {"dstptr"})
        \cup Effects("registerTemporaryAllocation", {"dstptr"}), !.staged = {"dstptr"},
    !.remoteIfGiven = {}]

zeCommandListAppendWriteGlobalTimestamp_Usm ==
  [AppendCommand(ZeCommandListAppendWriteGlobalTimestamp_UsmRpcM) EXCEPT !.remoteIfGiven = {}]

zeCommandListAppendWriteGlobalTimestamp_Shared ==
  [AppendCommand(ZeCommandListAppendWriteGlobalTimestamp_SharedRpcM) EXCEPT
    !.remoteIfGiven = {}]

zeCommandListAppendMemoryCopyDeferred_Usm_Usm ==
  AppendCommand(ZeCommandListAppendMemoryCopyDeferred_Usm_UsmRpcM)

zeCommandListAppendMemoryCopyDeferred_Usm_Shared ==
  AppendCommand(ZeCommandListAppendMemoryCopyDeferred_Usm_SharedRpcM)

zeCommandListAppendMemoryCopyDeferred_Usm_Remapped ==
  [AppendCommand(ZeCommandListAppendMemoryCopyDeferred_Usm_RemappedRpcM) EXCEPT
    !.before = @ \cup Effects("registerMemoryToWrite", {"srcptr"})]

zeCommandListAppendMemoryCopyDeferred_Shared_Usm ==
  AppendCommand(ZeCommandListAppendMemoryCopyDeferred_Shared_UsmRpcM)

zeCommandListAppendMemoryCopyDeferred_Shared_Shared ==
  AppendCommand(ZeCommandListAppendMemoryCopyDeferred_Shared_SharedRpcM)

zeCommandListAppendMemoryCopyDeferred_Shared_Remapped ==
  [AppendCommand(ZeCommandListAppendMemoryCopyDeferred_Shared_RemappedRpcM) EXCEPT
    !.before = @ \cup Effects("registerMemoryToWrite", {"srcptr"})]

zeCommandListAppendMemoryCopyDeferred_Remapped_Usm ==
  AppendCommand(ZeCommandListAppendMemoryCopyDeferred_Remapped_UsmRpcM)

zeCommandListAppendMemoryCopyDeferred_Remapped_Shared ==
  AppendCommand(ZeCommandListAppendMemoryCopyDeferred_Remapped_SharedRpcM)

zeCommandListAppendMemoryCopyDeferred_Remapped_Remapped ==
  [AppendCommand(ZeCommandListAppendMemoryCopyDeferred_Remapped_RemappedRpcM) EXCEPT
    !.before = @ \cup Effects("registerMemoryToWrite", {"srcptr"})]

zeCommandListAppendMemoryCopyImmediate_Local_Local ==
  [AsyncAppendCommand(ZeCommandListAppendMemoryCopyImmediate_Local_LocalRpcM) EXCEPT
    !.before = @ \cup Effects("addToMap", {"dstptr", "srcptr"})
        \cup Effects("registerTemporaryAllocation", {"dstptr", "srcptr"}),
    !.staged = {"dstptr", "srcptr"}, !.stagedIn = {"srcptr"}]

zeCommandListAppendMemoryCopyImmediate_Local_Usm ==
  [AsyncAppendCommand(ZeCommandListAppendMemoryCopyImmediate_Local_UsmRpcM) EXCEPT
    !.before = @ \cup Effects("addToMap", {"dstptr"})
        \cup Effects("registerTemporaryAllocation", {"dstptr"}), !.staged = {"dstptr"}]

zeCommandListAppendMemoryCopyImmediate_Local_Shared ==
  [AsyncAppendCommand(ZeCommandListAppendMemoryCopyImmediate_Local_SharedRpcM) EXCEPT
    !.before = @ \cup Effects("addToMap", {"dstptr"})
        \cup Effects("registerTemporaryAllocation", {"dstptr"}), !.staged = {"dstptr"}]

zeCommandListAppendMemoryCopyImmediate_Usm_Local ==
  [AsyncAppendCommand(ZeCommandListAppendMemoryCopyImmediate_Usm_LocalRpcM) EXCEPT
    !.before = @ \cup Effects("addToMap", {"srcptr"})
        \cup Effects("registerTemporaryAllocation", {"srcptr"}), !.staged = {"srcptr"},
    !.stagedIn = {"srcptr"}]

zeCommandListAppendMemoryCopyImmediate_Usm_Usm ==
  AsyncAppendCommand(ZeCommandListAppendMemoryCopyImmediate_Usm_UsmRpcM)

zeCommandListAppendMemoryCopyImmediate_Usm_Shared ==
  AsyncAppendCommand(ZeCommandListAppendMemoryCopyImmediate_Usm_SharedRpcM)

zeCommandListAppendMemoryCopyImmediate_Shared_Local ==
  [AsyncAppendCommand(ZeCommandListAppendMemoryCopyImmediate_Shared_LocalRpcM) EXCEPT
    !.before = @ \cup Effects("addToMap", {"srcptr"})
        \cup Effects("registerTemporaryAllocation", {"srcptr"}), !.staged = {"srcptr"},
    !.stagedIn = {"srcptr"}]

zeCommandListAppendMemoryCopyImmediate_Shared_Usm ==
  AsyncAppendCommand(ZeCommandListAppendMemoryCopyImmediate_Shared_UsmRpcM)

zeCommandListAppendMemoryCopyImmediate_Shared_Shared ==
  AsyncAppendCommand(ZeCommandListAppendMemoryCopyImmediate_Shared_SharedRpcM)

zeCommandListAppendMemoryCopyImmediateSynchronous_Local_Local ==
  AsyncAppendCommand(ZeCommandListAppendMemoryCopyImmediateSynchronous_Local_LocalRpcM)

zeCommandListAppendMemoryCopyImmediateSynchronous_Local_Usm ==
  AsyncAppendCommand(ZeCommandListAppendMemoryCopyImmediateSynchronous_Local_UsmRpcM)

zeCommandListAppendMemoryCopyImmediateSynchronous_Local_Shared ==
  AsyncAppendCommand(ZeCommandListAppendMemoryCopyImmediateSynchronous_Local_SharedRpcM)

zeCommandListAppendMemoryCopyImmediateSynchronous_Usm_Local ==
  AsyncAppendCommand(ZeCommandListAppendMemoryCopyImmediateSynchronous_Usm_LocalRpcM)

zeCommandListAppendMemoryCopyImmediateSynchronous_Usm_Usm ==
  AsyncAppendCommand(ZeCommandListAppendMemoryCopyImmediateSynchronous_Usm_UsmRpcM)

zeCommandListAppendMemoryCopyImmediateSynchronous_Usm_Shared ==
  AsyncAppendCommand(ZeCommandListAppendMemoryCopyImmediateSynchronous_Usm_SharedRpcM)

zeCommandListAppendMemoryCopyImmediateSynchronous_Shared_Local ==
  AsyncAppendCommand(ZeCommandListAppendMemoryCopyImmediateSynchronous_Shared_LocalRpcM)

zeCommandListAppendMemoryCopyImmediateSynchronous_Shared_Usm ==
  AsyncAppendCommand(ZeCommandListAppendMemoryCopyImmediateSynchronous_Shared_UsmRpcM)

zeCommandListAppendMemoryCopyImmediateSynchronous_Shared_Shared ==
  AsyncAppendCommand(ZeCommandListAppendMemoryCopyImmediateSynchronous_Shared_SharedRpcM)

zeCommandListAppendMemoryCopyRegionDeferred_Usm_Usm ==
  AppendCommand(ZeCommandListAppendMemoryCopyRegionDeferred_Usm_UsmRpcM)

zeCommandListAppendMemoryCopyRegionDeferred_Usm_Shared ==
  AppendCommand(ZeCommandListAppendMemoryCopyRegionDeferred_Usm_SharedRpcM)

zeCommandListAppendMemoryCopyRegionDeferred_Usm_Remapped ==
  [AppendCommand(ZeCommandListAppendMemoryCopyRegionDeferred_Usm_RemappedRpcM) EXCEPT
    !.before = @ \cup Effects("registerMemoryToWrite", {"srcptr"})]

zeCommandListAppendMemoryCopyRegionDeferred_Shared_Usm ==
  AppendCommand(ZeCommandListAppendMemoryCopyRegionDeferred_Shared_UsmRpcM)

zeCommandListAppendMemoryCopyRegionDeferred_Shared_Shared ==
  AppendCommand(ZeCommandListAppendMemoryCopyRegionDeferred_Shared_SharedRpcM)

zeCommandListAppendMemoryCopyRegionDeferred_Shared_Remapped ==
  [AppendCommand(ZeCommandListAppendMemoryCopyRegionDeferred_Shared_RemappedRpcM) EXCEPT
    !.before = @ \cup Effects("registerMemoryToWrite", {"srcptr"})]

zeCommandListAppendMemoryCopyRegionDeferred_Remapped_Usm ==
  AppendCommand(ZeCommandListAppendMemoryCopyRegionDeferred_Remapped_UsmRpcM)

zeCommandListAppendMemoryCopyRegionDeferred_Remapped_Shared ==
  AppendCommand(ZeCommandListAppendMemoryCopyRegionDeferred_Remapped_SharedRpcM)

zeCommandListAppendMemoryCopyRegionDeferred_Remapped_Remapped ==
  [AppendCommand(ZeCommandListAppendMemoryCopyRegionDeferred_Remapped_RemappedRpcM) EXCEPT
    !.before = @ \cup Effects("registerMemoryToWrite", {"srcptr"})]

zeCommandListAppendMemoryCopyRegionImmediateSynchronous_Local_Usm ==
  AsyncAppendCommand(ZeCommandListAppendMemoryCopyRegionImmediateSynchronous_Local_UsmRpcM)

zeCommandListAppendMemoryCopyRegionImmediateSynchronous_Local_Shared ==
  AsyncAppendCommand(ZeCommandListAppendMemoryCopyRegionImmediateSynchronous_Local_SharedRpcM)

zeCommandListAppendMemoryCopyRegionImmediateSynchronous_Local_Remapped ==
  [AsyncAppendCommand(ZeCommandListAppendMemoryCopyRegionImmediateSynchronous_Local_RemappedRpcM) EXCEPT
    !.before = @ \cup Effects("registerMemoryToWrite", {"srcptr"})]

zeCommandListAppendMemoryCopyRegionImmediateSynchronous_Usm_Usm ==
  AsyncAppendCommand(ZeCommandListAppendMemoryCopyRegionImmediateSynchronous_Usm_UsmRpcM)

zeCommandListAppendMemoryCopyRegionImmediateSynchronous_Usm_Shared ==
  AsyncAppendCommand(ZeCommandListAppendMemoryCopyRegionImmediateSynchronous_Usm_SharedRpcM)

zeCommandListAppendMemoryCopyRegionImmediateSynchronous_Usm_Remapped ==
  [AsyncAppendCommand(ZeCommandListAppendMemoryCopyRegionImmediateSynchronous_Usm_RemappedRpcM) EXCEPT
    !.before = @ \cup Effects("registerMemoryToWrite", {"srcptr"})]

zeCommandListAppendMemoryCopyRegionImmediateSynchronous_Shared_Usm ==
  AsyncAppendCommand(ZeCommandListAppendMemoryCopyRegionImmediateSynchronous_Shared_UsmRpcM)

zeCommandListAppendMemoryCopyRegionImmediateSynchronous_Shared_Shared ==
  AsyncAppendCommand(ZeCommandListAppendMemoryCopyRegionImmediateSynchronous_Shared_SharedRpcM)

zeCommandListAppendMemoryCopyRegionImmediateSynchronous_Shared_Remapped ==
  [AsyncAppendCommand(ZeCommandListAppendMemoryCopyRegionImmediateSynchronous_Shared_RemappedRpcM) EXCEPT
    !.before = @ \cup Effects("registerMemoryToWrite", {"srcptr"})]

zeCommandListAppendMemoryCopyRegionImmediateAsynchronous_Local_Usm ==
  [AsyncAppendCommand(ZeCommandListAppendMemoryCopyRegionImmediateAsynchronous_Local_UsmRpcM) EXCEPT
    !.before = @ \cup Effects("addToMap", {"dstptr"})
        \cup Effects("registerTemporaryAllocation", {"dstptr"}), !.staged = {"dstptr"}]

zeCommandListAppendMemoryCopyRegionImmediateAsynchronous_Local_Shared ==
  [AsyncAppendCommand(ZeCommandListAppendMemoryCopyRegionImmediateAsynchronous_Local_SharedRpcM) EXCEPT
    !.before = @ \cup Effects("addToMap", {"dstptr"})
        \cup Effects("registerTemporaryAllocation", {"dstptr"}), !.staged = {"dstptr"}]

zeCommandListAppendMemoryCopyRegionImmediateAsynchronous_Local_Remapped ==
  [AsyncAppendCommand(ZeCommandListAppendMemoryCopyRegionImmediateAsynchronous_Local_RemappedRpcM) EXCEPT
    !.before = @ \cup Effects("registerMemoryToWrite", {"srcptr"})
        \cup Effects("addToMap", {"dstptr"})
        \cup Effects("registerTemporaryAllocation", {"dstptr"}), !.staged = {"dstptr"}]

zeCommandListAppendMemoryCopyRegionImmediateAsynchronous_Usm_Usm ==
  AsyncAppendCommand(ZeCommandListAppendMemoryCopyRegionImmediateAsynchronous_Usm_UsmRpcM)

zeCommandListAppendMemoryCopyRegionImmediateAsynchronous_Usm_Shared ==
  AsyncAppendCommand(ZeCommandListAppendMemoryCopyRegionImmediateAsynchronous_Usm_SharedRpcM)

zeCommandListAppendMemoryCopyRegionImmediateAsynchronous_Usm_Remapped ==
  [AsyncAppendCommand(ZeCommandListAppendMemoryCopyRegionImmediateAsynchronous_Usm_RemappedRpcM) EXCEPT
    !.before = @ \cup Effects("registerMemoryToWrite", {"srcptr"})]

zeCommandListAppendMemoryCopyRegionImmediateAsynchronous_Shared_Usm ==
  AsyncAppendCommand(ZeCommandListAppendMemoryCopyRegionImmediateAsynchronous_Shared_UsmRpcM)

zeCommandListAppendMemoryCopyRegionImmediateAsynchronous_Shared_Shared ==
  AsyncAppendCommand(ZeCommandListAppendMemoryCopyRegionImmediateAsynchronous_Shared_SharedRpcM)

zeCommandListAppendMemoryCopyRegionImmediateAsynchronous_Shared_Remapped ==
  [AsyncAppendCommand(ZeCommandListAppendMemoryCopyRegionImmediateAsynchronous_Shared_RemappedRpcM) EXCEPT
    !.before = @ \cup Effects("registerMemoryToWrite", {"srcptr"})]

zeCommandListAppendMemoryCopyFromContextDeferred_Usm_Usm ==
  [AppendCommand(ZeCommandListAppendMemoryCopyFromContextDeferred_Usm_UsmRpcM) EXCEPT
    !.remote = @ \cup {"hContextSrc"}]

zeCommandListAppendMemoryCopyFromContextDeferred_Shared_Usm ==
  [AppendCommand(ZeCommandListAppendMemoryCopyFromContextDeferred_Shared_UsmRpcM) EXCEPT
    !.remote = @ \cup {"hContextSrc"}]

zeCommandListAppendMemoryCopyFromContextDeferred_Remapped_Usm ==
  [AppendCommand(ZeCommandListAppendMemoryCopyFromContextDeferred_Remapped_UsmRpcM) EXCEPT
    !.remote = @ \cup {"hContextSrc"}]

zeCommandListAppendMemoryCopyFromContextImmediateSynchronous_Local_Usm ==
  [AsyncAppendCommand(ZeCommandListAppendMemoryCopyFromContextImmediateSynchronous_Local_UsmRpcM) EXCEPT
    !.before = {}, !.remote = @ \cup {"hContextSrc"}]

zeCommandListAppendMemoryCopyFromContextImmediateSynchronous_Usm_Usm ==
  [AsyncAppendCommand(ZeCommandListAppendMemoryCopyFromContextImmediateSynchronous_Usm_UsmRpcM) EXCEPT
    !.before = {}, !.remote = @ \cup {"hContextSrc"}]

zeCommandListAppendMemoryCopyFromContextImmediateSynchronous_Shared_Usm ==
  [AsyncAppendCommand(ZeCommandListAppendMemoryCopyFromContextImmediateSynchronous_Shared_UsmRpcM) EXCEPT
    !.before = {}, !.remote = @ \cup {"hContextSrc"}]

zeCommandListAppendMemoryCopyFromContextImmediateAsynchronous_Local_Usm ==
  [AsyncAppendCommand(ZeCommandListAppendMemoryCopyFromContextImmediateAsynchronous_Local_UsmRpcM) EXCEPT
    !.before = @ \cup Effects("addToMap", {"dstptr"})
        \cup Effects("registerTemporaryAllocation", {"dstptr"}), !.staged = {"dstptr"},
    !.remote = @ \cup {"hContextSrc"}]

zeCommandListAppendMemoryCopyFromContextImmediateAsynchronous_Usm_Usm ==
  [AsyncAppendCommand(ZeCommandListAppendMemoryCopyFromContextImmediateAsynchronous_Usm_UsmRpcM) EXCEPT
    !.remote = @ \cup {"hContextSrc"}]

zeCommandListAppendMemoryCopyFromContextImmediateAsynchronous_Shared_Usm ==
  [AsyncAppendCommand(ZeCommandListAppendMemoryCopyFromContextImmediateAsynchronous_Shared_UsmRpcM) EXCEPT
    !.remote = @ \cup {"hContextSrc"}]
=============================================================================
