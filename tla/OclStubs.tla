------------------------------ MODULE OclStubs -------------------------------
(*****************************************************************************)
(* The client stubs of OpenCL (generated_icd_ocl.cpp): one definition per    *)
(* function that sends a message.                                            *)
(*****************************************************************************)
EXTENDS OclMessages

\* The queries in whose answer the clients translate a handle of the driver
\* (translateRemoteObjectToLocalObjectInParams).
TranslatedInfos ==
  {"CL_DEVICE_PLATFORM", "CL_CONTEXT_PLATFORM", "CL_CONTEXT_PROPERTIES",
   "CL_MEM_ALLOC_DEVICE_INTEL", "CL_DEVICE_PARENT_DEVICE", "CL_QUEUE_DEVICE", "CL_QUEUE_CONTEXT",
   "CL_PROGRAM_CONTEXT", "CL_KERNEL_CONTEXT", "CL_MEM_CONTEXT", "CL_EVENT_CONTEXT",
   "CL_QUEUE_DEVICE_DEFAULT", "CL_EVENT_COMMAND_QUEUE", "CL_KERNEL_PROGRAM",
   "CL_MEM_ASSOCIATED_MEMOBJECT"}

\* What the stubs of commands have in common.
Enqueue(message) ==
  [StubOn(message, {"command_queue"}) EXCEPT
    !.remoteElements = {"event_wait_list"}, !.local = {"event"},
    !.after = Effects("enqueue", {"command_queue"})]

\* Commands that need not wait for the service unless an event is asked for.
AsyncEnqueue(message) ==
  [Enqueue(message) EXCEPT
    !.async = TRUE, !.unless = {"event"}, !.afterAsync = Effects("enqueue", {"command_queue"})]

clGetPlatformIDsRpcHelper ==
  Stub(ClGetPlatformIDsRpcM)

clGetPlatformInfoRpcHelper ==
  [StubOn(ClGetPlatformInfoRpcM, {"platform"}) EXCEPT !.localInfos = TranslatedInfos]

clGetDeviceIDs ==
  [StubOn(ClGetDeviceIDsRpcM, {"platform"}) EXCEPT
    !.early = {"platform"}, !.local = {"devices"}]

clGetDeviceInfoRpcHelper ==
  [StubOn(ClGetDeviceInfoRpcM, {"device"}) EXCEPT
    !.shortcut = TRUE, !.localInfos = TranslatedInfos, !.after = Effects("store", {"device"})]

clCreateContextRpcHelper ==
  [Stub(ClCreateContextRpcM) EXCEPT
    !.required = {"errcode_ret"}, !.before = Effects("enableCallbacksHandler", {"pfn_notify"}),
    !.adjusted = {"error_info"}, !.remoteElements = {"properties", "devices"},
    !.localRet = TRUE,
    !.onSuccess = Effects("setDevicesList", {"devices"})
        \cup Effects("keepErrorInfo", {"pfn_notify"})]

clCreateContextFromTypeRpcHelper ==
  [Stub(ClCreateContextFromTypeRpcM) EXCEPT
    !.before = Effects("enableCallbacksHandler", {"pfn_notify"}), !.adjusted = {"error_info"},
    !.remoteElements = {"properties"}, !.localRet = TRUE,
    !.after = Effects("keepErrorInfo", {"pfn_notify"})]

clGetContextInfo ==
  [StubOn(ClGetContextInfoRpcM, {"context"}) EXCEPT
    !.shortcut = TRUE, !.localInfos = TranslatedInfos \cup {"CL_CONTEXT_DEVICES"},
    !.after = Effects("store", {"context"})]

clSetContextDestructorCallback ==
  [StubOn(ClSetContextDestructorCallbackRpcM, {"context"}) EXCEPT
    !.before = Effects("enableCallbacksHandler", {"pfn_notify"}),
    !.after = Effects("inc", {"context"})]

clSetMemObjectDestructorCallback ==
  [StubOn(ClSetMemObjectDestructorCallbackRpcM, {"memobj"}) EXCEPT
    !.before = Effects("enableCallbacksHandler", {"pfn_notify"}),
    !.after = Effects("inc", {"memobj"})]

clCreateSubDevices ==
  [StubOn(ClCreateSubDevicesRpcM, {"in_device"}) EXCEPT !.local = {"out_devices"}]

clCreateCommandQueue ==
  [StubOn(ClCreateCommandQueueRpcM, {"context", "device"}) EXCEPT
    !.adjusted = {"properties"}, !.localRet = TRUE, !.after = Effects("setContext", {"ret"})]

clSetDefaultDeviceCommandQueue ==
  [StubOn(ClSetDefaultDeviceCommandQueueRpcM, {"context", "device"}) EXCEPT
    !.remoteIfGiven = {"command_queue"}]

clCreateCommandQueueWithProperties ==
  [StubOn(ClCreateCommandQueueWithPropertiesRpcM, {"context", "device"}) EXCEPT
    !.before = Effects("translateQueueFlags", {"properties"}), !.localRet = TRUE,
    !.after = Effects("setContext", {"ret"})]

clCreateProgramWithSource ==
  [StubOn(ClCreateProgramWithSourceRpcM, {"context"}) EXCEPT
    !.localRet = TRUE, !.after = Effects("setContext", {"ret"})]

clCreateProgramWithIL ==
  [StubOn(ClCreateProgramWithILRpcM, {"context"}) EXCEPT
    !.localRet = TRUE, !.after = Effects("setContext", {"ret"})]

clCreateProgramWithBinary ==
  [StubOn(ClCreateProgramWithBinaryRpcM, {"context"}) EXCEPT
    !.remoteElements = {"device_list"}, !.localRet = TRUE,
    !.after = Effects("setContext", {"ret"})]

clCreateProgramWithBuiltInKernels ==
  [StubOn(ClCreateProgramWithBuiltInKernelsRpcM, {"context"}) EXCEPT
    !.remoteElements = {"device_list"}, !.localRet = TRUE,
    !.after = Effects("setContext", {"ret"})]

clBuildProgram ==
  [StubOn(ClBuildProgramRpcM, {"program"}) EXCEPT
    !.before = Effects("enableCallbacksHandler", {"pfn_notify"}),
    !.remoteElements = {"device_list"}]

clCompileProgram ==
  [StubOn(ClCompileProgramRpcM, {"program"}) EXCEPT
    !.before = Effects("enableCallbacksHandler", {"pfn_notify"}),
    !.remoteElements = {"device_list", "input_headers"}]

clLinkProgram ==
  [StubOn(ClLinkProgramRpcM, {"context"}) EXCEPT
    !.before = Effects("enableCallbacksHandler", {"pfn_notify"}), !.adjusted = {"user_data"},
    !.remoteElements = {"device_list", "input_programs"}, !.localRet = TRUE]

clGetProgramBuildInfo ==
  StubOn(ClGetProgramBuildInfoRpcM, {"program", "device"})

clSetProgramReleaseCallback ==
  [StubOn(ClSetProgramReleaseCallbackRpcM, {"program"}) EXCEPT
    !.before = Effects("enableCallbacksHandler", {"pfn_notify"})]

clCreateKernelRpcHelper ==
  [StubOn(ClCreateKernelRpcM, {"program"}) EXCEPT !.localRet = TRUE]

clCloneKernel ==
  [StubOn(ClCloneKernelRpcM, {"source_kernel"}) EXCEPT !.localRet = TRUE]

clCreateKernelsInProgramRpcHelper ==
  [StubOn(ClCreateKernelsInProgramRpcM, {"program"}) EXCEPT !.local = {"kernels"}]

clGetCommandQueueInfo ==
  [StubOn(ClGetCommandQueueInfoRpcM, {"command_queue"}) EXCEPT
    !.shortcut = TRUE, !.localInfos = TranslatedInfos,
    !.after = Effects("store", {"command_queue"})]

clGetProgramInfoRpcHelper ==
  [StubOn(ClGetProgramInfoRpcHelperRpcM, {"program"}) EXCEPT
    !.localInfos = TranslatedInfos \cup {"CL_PROGRAM_DEVICES"}]

clGetProgramInfoGetBinariesRpcHelper ==
  StubOn(ClGetProgramInfoGetBinariesRpcHelperRpcM, {"program"})

clGetMemObjectInfoRpcHelper ==
  [StubOn(ClGetMemObjectInfoRpcM, {"memobj"}) EXCEPT !.localInfos = TranslatedInfos]

clGetImageInfo ==
  [StubOn(ClGetImageInfoRpcM, {"image"}) EXCEPT !.localInfos = TranslatedInfos]

clGetSamplerInfo ==
  [StubOn(ClGetSamplerInfoRpcM, {"sampler"}) EXCEPT !.localInfos = TranslatedInfos]

clGetKernelInfo ==
  [StubOn(ClGetKernelInfoRpcM, {"kernel"}) EXCEPT
    !.shortcut = TRUE, !.localInfos = TranslatedInfos, !.after = Effects("store", {"kernel"})]

clGetKernelWorkGroupInfo ==
  StubOn(ClGetKernelWorkGroupInfoRpcM, {"kernel", "device"})

clGetKernelArgInfo ==
  StubOn(ClGetKernelArgInfoRpcM, {"kernel"})

clGetKernelSubGroupInfo ==
  StubOn(ClGetKernelSubGroupInfoRpcM, {"kernel", "device"})

clReleaseCommandQueue ==
  [StubOn(ClReleaseCommandQueueRpcM, {"command_queue"}) EXCEPT
    !.before = Effects("beforeReleaseCallback", {"command_queue"}), !.async = TRUE,
    !.afterAsync = Effects("dec", {"command_queue"}),
    !.after = Effects("dec", {"command_queue"})]

clReleaseContext ==
  [StubOn(ClReleaseContextRpcM, {"context"}) EXCEPT
    !.before = Effects("beforeReleaseCallback", {"context"}), !.async = TRUE,
    !.afterAsync = Effects("dec", {"context"}), !.after = Effects("dec", {"context"})]

clReleaseDevice ==
  [StubOn(ClReleaseDeviceRpcM, {"device"}) EXCEPT !.after = Effects("dec", {"device"})]

clReleaseKernel ==
  [StubOn(ClReleaseKernelRpcM, {"kernel"}) EXCEPT !.after = Effects("dec", {"kernel"})]

clReleaseSampler ==
  [StubOn(ClReleaseSamplerRpcM, {"sampler"}) EXCEPT !.after = Effects("dec", {"sampler"})]

clReleaseProgram ==
  [StubOn(ClReleaseProgramRpcM, {"program"}) EXCEPT
    !.before = Effects("beforeReleaseCallback", {"program"}),
    !.after = Effects("dec", {"program"}) \cup Effects("removeGlobalPointers", {"program"})]

clReleaseMemObject ==
  [StubOn(ClReleaseMemObjectRpcM, {"memobj"}) EXCEPT
    !.shortcut = TRUE, !.before = Effects("invalidateKernelArgCache", {"memobj"}),
    !.after = Effects("dec", {"memobj"})]

clReleaseEvent ==
  [StubOn(ClReleaseEventRpcM, {"event"}) EXCEPT
    !.async = TRUE, !.afterAsync = Effects("dec", {"event"}),
    !.after = Effects("dec", {"event"})]

clRetainCommandQueue ==
  [StubOn(ClRetainCommandQueueRpcM, {"command_queue"}) EXCEPT
    !.after = Effects("inc", {"command_queue"})]

clRetainContext ==
  [StubOn(ClRetainContextRpcM, {"context"}) EXCEPT !.after = Effects("inc", {"context"})]

clRetainDevice ==
  [StubOn(ClRetainDeviceRpcM, {"device"}) EXCEPT !.after = Effects("inc", {"device"})]

clRetainProgram ==
  [StubOn(ClRetainProgramRpcM, {"program"}) EXCEPT !.after = Effects("inc", {"program"})]

clRetainMemObject ==
  [StubOn(ClRetainMemObjectRpcM, {"memobj"}) EXCEPT !.after = Effects("inc", {"memobj"})]

clRetainSampler ==
  [StubOn(ClRetainSamplerRpcM, {"sampler"}) EXCEPT !.after = Effects("inc", {"sampler"})]

clRetainKernel ==
  [StubOn(ClRetainKernelRpcM, {"kernel"}) EXCEPT !.after = Effects("inc", {"kernel"})]

clRetainEvent ==
  [StubOn(ClRetainEventRpcM, {"event"}) EXCEPT !.after = Effects("inc", {"event"})]

clFlush ==
  [StubOn(ClFlushRpcM, {"command_queue"}) EXCEPT !.async = TRUE]

clFinish ==
  [StubOn(ClFinishRpcM, {"command_queue"}) EXCEPT
    !.shortcut = TRUE, !.after = Effects("synchronizeNow", {"command_queue"})]

clEnqueueNDRangeKernel ==
  [AsyncEnqueue(ClEnqueueNDRangeKernelRpcM) EXCEPT
    !.before = Effects("moveArgsToGpu", {"kernel"}), !.remote = @ \cup {"kernel"}]

clEnqueueTask ==
  [Enqueue(ClEnqueueTaskRpcM) EXCEPT !.remote = @ \cup {"kernel"}]

clEnqueueMarkerWithWaitList ==
  Enqueue(ClEnqueueMarkerWithWaitListRpcM)

clEnqueueMarker ==
  [Enqueue(ClEnqueueMarkerRpcM) EXCEPT !.remoteElements = {}]

clEnqueueBarrierWithWaitList ==
  Enqueue(ClEnqueueBarrierWithWaitListRpcM)

clEnqueueBarrier ==
  [Enqueue(ClEnqueueBarrierRpcM) EXCEPT !.remoteElements = {}, !.local = {}]

clEnqueueWaitForEvents ==
  [Enqueue(ClEnqueueWaitForEventsRpcM) EXCEPT !.remoteElements = {"event_list"}, !.local = {}]

clEnqueueMigrateMemObjects ==
  [Enqueue(ClEnqueueMigrateMemObjectsRpcM) EXCEPT !.remoteElements = @ \cup {"mem_objects"}]

clCreateBufferRpcHelperUseHostPtrZeroCopyMallocShmem ==
  [StubOn(ClCreateBufferRpcHelperUseHostPtrZeroCopyMallocShmemRpcM, {"context"}) EXCEPT
    !.localRet = TRUE]

clCreateSubBufferRpcHelper ==
  [StubOn(ClCreateSubBufferRpcM, {"buffer"}) EXCEPT !.adjusted = {"flags"}, !.localRet = TRUE]

clCreatePipe ==
  [StubOn(ClCreatePipeRpcM, {"context"}) EXCEPT !.adjusted = {"flags"}, !.localRet = TRUE]

clGetPipeInfo ==
  [StubOn(ClGetPipeInfoRpcM, {"pipe"}) EXCEPT !.localInfos = TranslatedInfos]

clCreateImage ==
  [StubOn(ClCreateImageRpcM, {"context"}) EXCEPT !.adjusted = {"flags"}, !.localRet = TRUE]

clCreateImage2D ==
  [StubOn(ClCreateImage2DRpcM, {"context"}) EXCEPT !.adjusted = {"flags"}, !.localRet = TRUE]

clCreateImage3D ==
  [StubOn(ClCreateImage3DRpcM, {"context"}) EXCEPT !.adjusted = {"flags"}, !.localRet = TRUE]

clCreateSampler ==
  [StubOn(ClCreateSamplerRpcM, {"context"}) EXCEPT !.localRet = TRUE]

clCreateSamplerWithProperties ==
  [StubOn(ClCreateSamplerWithPropertiesRpcM, {"context"}) EXCEPT !.localRet = TRUE]

clCreateImageWithProperties ==
  [StubOn(ClCreateImageWithPropertiesRpcM, {"context"}) EXCEPT
    !.adjusted = {"flags"}, !.localRet = TRUE]

clCreateBufferWithProperties ==
  [StubOn(ClCreateBufferWithPropertiesRpcM, {"context"}) EXCEPT
    !.adjusted = {"flags"}, !.localRet = TRUE]

clGetSupportedImageFormats ==
  [StubOn(ClGetSupportedImageFormatsRpcM, {"context"}) EXCEPT !.adjusted = {"flags"}]

clSetKernelArgRpcHelper ==
  [StubOn(ClSetKernelArgRpcM, {"kernel"}) EXCEPT
    !.remoteKinds = {"buffer", "usm"}, !.async = TRUE]

clSetProgramSpecializationConstant ==
  StubOn(ClSetProgramSpecializationConstantRpcM, {"program"})

clEnqueueCopyBuffer ==
  [Enqueue(ClEnqueueCopyBufferRpcM) EXCEPT !.remote = @ \cup {"src_buffer", "dst_buffer"}]

clEnqueueCopyBufferRect ==
  [Enqueue(ClEnqueueCopyBufferRectRpcM) EXCEPT !.remote = @ \cup {"src_buffer", "dst_buffer"}]

clEnqueueReadImage ==
  [Enqueue(ClEnqueueReadImageRpcM) EXCEPT
    !.before = Effects("registerTemporaryAllocation", {"ptr"}), !.staged = {"ptr"},
    !.forced = {"blocking_read"}, !.remote = @ \cup {"image"}, !.copiedBack = {"ptr"}]

clEnqueueWriteImage ==
  [Enqueue(ClEnqueueWriteImageRpcM) EXCEPT
    !.before = Effects("registerTemporaryAllocation", {"ptr"}), !.staged = {"ptr"},
    !.stagedIn = {"ptr"}, !.remote = @ \cup {"image"}]

clEnqueueCopyImage ==
  [Enqueue(ClEnqueueCopyImageRpcM) EXCEPT !.remote = @ \cup {"src_image", "dst_image"}]

clEnqueueCopyImageToBuffer ==
  [Enqueue(ClEnqueueCopyImageToBufferRpcM) EXCEPT !.remote = @ \cup {"src_image", "dst_buffer"}]

clEnqueueCopyBufferToImage ==
  [Enqueue(ClEnqueueCopyBufferToImageRpcM) EXCEPT !.remote = @ \cup {"src_buffer", "dst_image"}]

clEnqueueMapBufferRpcHelper ==
  [Enqueue(ClEnqueueMapBufferRpcM) EXCEPT
    !.remote = @ \cup {"buffer"},
    !.after = @ \cup Effects("translateMappedPointer", {"buffer"})
        \cup Effects("synchronizeNow", {"blocking_map"})]

clEnqueueUnmapMemObjectRpcHelper ==
  [Enqueue(ClEnqueueUnmapMemObjectRpcM) EXCEPT
    !.before = Effects("moveAllocationToGpu", {"mapped_ptr"}), !.adjusted = {"mapped_ptr"},
    !.remote = @ \cup {"memobj"}]

clEnqueueFillBuffer ==
  [Enqueue(ClEnqueueFillBufferRpcM) EXCEPT !.remote = @ \cup {"memobj"}]

clEnqueueFillImage ==
  [Enqueue(ClEnqueueFillImageRpcM) EXCEPT !.remote = @ \cup {"image"}]

clWaitForEventsRpcHelper ==
  [Stub(ClWaitForEventsRpcM) EXCEPT !.remoteElements = {"event_list"}]

clGetEventInfoRpcHelper ==
  [StubOn(ClGetEventInfoRpcM, {"event"}) EXCEPT !.localInfos = TranslatedInfos]

clGetEventProfilingInfo ==
  [StubOn(ClGetEventProfilingInfoRpcM, {"event"}) EXCEPT
    !.shortcut = TRUE, !.localInfos = TranslatedInfos]

clCreateUserEvent ==
  [StubOn(ClCreateUserEventRpcM, {"context"}) EXCEPT !.localRet = TRUE]

clSetUserEventStatus ==
  StubOn(ClSetUserEventStatusRpcM, {"event"})

clSetEventCallback ==
  [StubOn(ClSetEventCallbackRpcM, {"event"}) EXCEPT
    !.before = Effects("enableCallbacksHandler", {"pfn_notify"})]

clGetDeviceAndHostTimer ==
  StubOn(ClGetDeviceAndHostTimerRpcM, {"device"})

clGetHostTimerRpcHelper ==
  StubOn(ClGetHostTimerRpcM, {"device"})

clSVMAllocRpcHelper ==
  StubOn(ClSVMAllocRpcM, {"context"})

clSVMFree ==
  [StubOn(ClSVMFreeRpcM, {"context"}) EXCEPT
    !.before = Effects("invalidateKernelArgCache", {"context"})
        \cup Effects("unregisterSharedAlloc", {"ptr"})
        \cup Effects("destroyUsmDescriptor", {"ptr"})]

clEnqueueSVMMap ==
  Enqueue(ClEnqueueSVMMapRpcM)

clEnqueueSVMUnmap ==
  Enqueue(ClEnqueueSVMUnmapRpcM)

clSetKernelExecInfoRpcHelper ==
  [StubOn(ClSetKernelExecInfoRpcM, {"kernel"}) EXCEPT
    !.before = Effects("setSharedIndirectAccess", {"param_value"}), !.async = TRUE]

clEnqueueSVMMemFill ==
  [Enqueue(ClEnqueueSVMMemFillRpcM) EXCEPT
    !.before = Effects("moveAllocationToGpu", {"svm_ptr"})]

clEnqueueSVMMigrateMem ==
  Enqueue(ClEnqueueSVMMigrateMemRpcM)

clEnqueueSVMFree ==
  [Enqueue(ClEnqueueSVMFreeRpcM) EXCEPT
    !.before = Effects("invalidateKernelArgCache", {"command_queue"})
        \cup Effects("enableCallbacksHandler", {"pfn_notify"})
        \cup Effects("unregisterUnlessNotified", {"svm_pointers"}), !.adjusted = {"user_data"},
    !.after = {}]

clCreateSubDevicesEXT ==
  [StubOn(ClCreateSubDevicesEXTRpcM, {"in_device"}) EXCEPT !.local = {"out_devices"}]

clReleaseDeviceEXT ==
  [StubOn(ClReleaseDeviceEXTRpcM, {"device"}) EXCEPT !.after = Effects("dec", {"device"})]

clRetainDeviceEXT ==
  [StubOn(ClRetainDeviceEXTRpcM, {"device"}) EXCEPT !.after = Effects("inc", {"device"})]

clGetKernelSubGroupInfoKHR ==
  StubOn(ClGetKernelSubGroupInfoKHRRpcM, {"kernel", "device"})

clGetKernelSuggestedLocalWorkSizeKHR ==
  StubOn(ClGetKernelSuggestedLocalWorkSizeKHRRpcM, {"command_queue", "kernel"})

clEnqueueMemFillINTEL ==
  [Enqueue(ClEnqueueMemFillINTELRpcM) EXCEPT
    !.before = Effects("moveAllocationToGpu", {"dstPtr"})]

clSetKernelArgMemPointerINTELRpcHelper ==
  [StubOn(ClSetKernelArgMemPointerINTELRpcM, {"kernel"}) EXCEPT !.async = TRUE]

clGetMemAllocInfoINTEL ==
  [StubOn(ClGetMemAllocInfoINTELRpcM, {"context"}) EXCEPT !.localInfos = TranslatedInfos]

clDeviceMemAllocINTEL ==
  [StubOn(ClDeviceMemAllocINTELRpcM, {"context", "device"}) EXCEPT
    !.after = Effects("validateNewUsmDevicePointer", {"size"})]

clHostMemAllocINTELRpcHelper ==
  StubOn(ClHostMemAllocINTELRpcM, {"context"})

clSharedMemAllocINTELRpcHelper ==
  StubOn(ClSharedMemAllocINTELRpcM, {"context", "device"})

clMemFreeINTEL ==
  [StubOn(ClMemFreeINTELRpcM, {"context"}) EXCEPT
    !.before = Effects("invalidateKernelArgCache", {"context"})
        \cup Effects("unregisterSharedAlloc", {"ptr"})
        \cup Effects("destroyUsmDescriptor", {"ptr"})]

clMemBlockingFreeINTEL ==
  [StubOn(ClMemBlockingFreeINTELRpcM, {"context"}) EXCEPT
    !.before = Effects("invalidateKernelArgCache", {"context"})
        \cup Effects("destroyUsmDescriptor", {"ptr"})]

clEnqueueMigrateMemINTEL ==
  Enqueue(ClEnqueueMigrateMemINTELRpcM)

clEnqueueMemAdviseINTEL ==
  Enqueue(ClEnqueueMemAdviseINTELRpcM)

clGetDeviceGlobalVariablePointerINTEL ==
  [StubOn(ClGetDeviceGlobalVariablePointerINTELRpcM, {"device", "program"}) EXCEPT
    !.onSuccess = Effects("recordGlobalPointer", {"program"})]

clCreateBufferRpcHelperNotUseHostPtrZeroCopyMallocShmem_Usm ==
  [StubOn(ClCreateBufferRpcHelperNotUseHostPtrZeroCopyMallocShmem_UsmRpcM, {"context"}) EXCEPT
    !.before = Effects("moveAllocationToGpu", {"host_ptr"}), !.localRet = TRUE]

clEnqueueWriteBuffer_Local ==
  [AsyncEnqueue(ClEnqueueWriteBuffer_LocalRpcM) EXCEPT
    !.before = Effects("moveAllocationToGpu", {"ptr"})
        \cup Effects("registerTemporaryAllocation", {"ptr"}), !.staged = {"ptr"},
    !.stagedIn = {"ptr"}, !.remote = @ \cup {"buffer"}, !.unless = @ \cup {"blocking_write"}]

clEnqueueWriteBuffer_Usm ==
  [AsyncEnqueue(ClEnqueueWriteBuffer_UsmRpcM) EXCEPT
    !.before = Effects("moveAllocationToGpu", {"ptr"}), !.remote = @ \cup {"buffer"},
    !.unless = @ \cup {"blocking_write"}]

clEnqueueWriteBuffer_Shared ==
  [AsyncEnqueue(ClEnqueueWriteBuffer_SharedRpcM) EXCEPT
    !.before = Effects("moveAllocationToGpu", {"ptr"}), !.remote = @ \cup {"buffer"},
    !.unless = @ \cup {"blocking_write"}]

clEnqueueWriteBufferRect_Local ==
  [AsyncEnqueue(ClEnqueueWriteBufferRect_LocalRpcM) EXCEPT
    !.before = Effects("moveAllocationToGpu", {"ptr"})
        \cup Effects("registerTemporaryAllocation", {"ptr"}), !.staged = {"ptr"},
    !.stagedIn = {"ptr"}, !.forced = {"blocking_write"}, !.remote = @ \cup {"buffer"},
    !.unless = @ \cup {"blocking_write"}]

clEnqueueWriteBufferRect_Usm ==
  [AsyncEnqueue(ClEnqueueWriteBufferRect_UsmRpcM) EXCEPT
    !.before = Effects("moveAllocationToGpu", {"ptr"}), !.remote = @ \cup {"buffer"},
    !.unless = @ \cup {"blocking_write"}]

clEnqueueWriteBufferRect_Shared ==
  [AsyncEnqueue(ClEnqueueWriteBufferRect_SharedRpcM) EXCEPT
    !.before = Effects("moveAllocationToGpu", {"ptr"}), !.remote = @ \cup {"buffer"},
    !.unless = @ \cup {"blocking_write"}]

clEnqueueReadBuffer_Local ==
  [AsyncEnqueue(ClEnqueueReadBuffer_LocalRpcM) EXCEPT
    !.before = Effects("moveAllocationToGpu", {"ptr"})
        \cup Effects("registerTemporaryAllocation", {"ptr"}), !.staged = {"ptr"},
    !.forced = {"blocking_read"}, !.remote = @ \cup {"buffer"},
    !.unless = @ \cup {"blocking_read"}, !.copiedBack = {"ptr"},
    !.after = @ \cup Effects("synchronizeNow", {"blocking_read"})]

clEnqueueReadBuffer_Usm ==
  [AsyncEnqueue(ClEnqueueReadBuffer_UsmRpcM) EXCEPT
    !.before = Effects("moveAllocationToGpu", {"ptr"}), !.remote = @ \cup {"buffer"},
    !.unless = @ \cup {"blocking_read"},
    !.after = @ \cup Effects("synchronizeNow", {"blocking_read"})]

clEnqueueReadBuffer_Shared ==
  [AsyncEnqueue(ClEnqueueReadBuffer_SharedRpcM) EXCEPT
    !.before = Effects("moveAllocationToGpu", {"ptr"}), !.remote = @ \cup {"buffer"},
    !.unless = @ \cup {"blocking_read"},
    !.after = @ \cup Effects("synchronizeNow", {"blocking_read"})]

clEnqueueReadBufferRect_Local ==
  [AsyncEnqueue(ClEnqueueReadBufferRect_LocalRpcM) EXCEPT
    !.before = Effects("moveAllocationToGpu", {"ptr"})
        \cup Effects("registerTemporaryAllocation", {"ptr"}), !.staged = {"ptr"},
    !.forced = {"blocking_read"}, !.remote = @ \cup {"buffer"},
    !.unless = @ \cup {"blocking_read"}, !.copiedBack = {"ptr"},
    !.after = @ \cup Effects("synchronizeNow", {"blocking_read"})]

clEnqueueReadBufferRect_Usm ==
  [AsyncEnqueue(ClEnqueueReadBufferRect_UsmRpcM) EXCEPT
    !.before = Effects("moveAllocationToGpu", {"ptr"}), !.remote = @ \cup {"buffer"},
    !.unless = @ \cup {"blocking_read"},
    !.after = @ \cup Effects("synchronizeNow", {"blocking_read"})]

clEnqueueReadBufferRect_Shared ==
  [AsyncEnqueue(ClEnqueueReadBufferRect_SharedRpcM) EXCEPT
    !.before = Effects("moveAllocationToGpu", {"ptr"}), !.remote = @ \cup {"buffer"},
    !.unless = @ \cup {"blocking_read"},
    !.after = @ \cup Effects("synchronizeNow", {"blocking_read"})]

clEnqueueSVMMemcpy_Local_Local ==
  [AsyncEnqueue(ClEnqueueSVMMemcpy_Local_LocalRpcM) EXCEPT
    !.before = Effects("moveAllocationToGpu", {"dst_ptr", "src_ptr"})
        \cup Effects("registerTemporaryAllocation", {"dst_ptr", "src_ptr"}),
    !.staged = {"dst_ptr", "src_ptr"}, !.stagedIn = {"src_ptr"}, !.forced = {"blocking"},
    !.unless = @ \cup {"blocking"}, !.copiedBack = {"dst_ptr"},
    !.after = @ \cup Effects("synchronizeNow", {"blocking"})]

clEnqueueSVMMemcpy_Local_Usm ==
  [AsyncEnqueue(ClEnqueueSVMMemcpy_Local_UsmRpcM) EXCEPT
    !.before = Effects("moveAllocationToGpu", {"dst_ptr", "src_ptr"})
        \cup Effects("registerTemporaryAllocation", {"dst_ptr"}), !.staged = {"dst_ptr"},
    !.forced = {"blocking"}, !.unless = @ \cup {"blocking"}, !.copiedBack = {"dst_ptr"},
    !.after = @ \cup Effects("synchronizeNow", {"blocking"})]

clEnqueueSVMMemcpy_Local_Shared ==
  [AsyncEnqueue(ClEnqueueSVMMemcpy_Local_SharedRpcM) EXCEPT
    !.before = Effects("moveAllocationToGpu", {"dst_ptr", "src_ptr"})
        \cup Effects("registerTemporaryAllocation", {"dst_ptr"}), !.staged = {"dst_ptr"},
    !.forced = {"blocking"}, !.unless = @ \cup {"blocking"}, !.copiedBack = {"dst_ptr"},
    !.after = @ \cup Effects("synchronizeNow", {"blocking"})]

clEnqueueSVMMemcpy_Usm_Local ==
  [AsyncEnqueue(ClEnqueueSVMMemcpy_Usm_LocalRpcM) EXCEPT
    !.before = Effects("moveAllocationToGpu", {"dst_ptr", "src_ptr"})
        \cup Effects("registerTemporaryAllocation", {"src_ptr"}), !.staged = {"src_ptr"},
    !.stagedIn = {"src_ptr"}, !.unless = @ \cup {"blocking"},
    !.after = @ \cup Effects("synchronizeNow", {"blocking"})]

clEnqueueSVMMemcpy_Usm_Usm ==
  [AsyncEnqueue(ClEnqueueSVMMemcpy_Usm_UsmRpcM) EXCEPT
    !.before = Effects("moveAllocationToGpu", {"dst_ptr", "src_ptr"}),
    !.unless = @ \cup {"blocking"}, !.after = @ \cup Effects("synchronizeNow", {"blocking"})]

clEnqueueSVMMemcpy_Usm_Shared ==
  [AsyncEnqueue(ClEnqueueSVMMemcpy_Usm_SharedRpcM) EXCEPT
    !.before = Effects("moveAllocationToGpu", {"dst_ptr", "src_ptr"}),
    !.unless = @ \cup {"blocking"}, !.after = @ \cup Effects("synchronizeNow", {"blocking"})]

clEnqueueSVMMemcpy_Shared_Local ==
  [AsyncEnqueue(ClEnqueueSVMMemcpy_Shared_LocalRpcM) EXCEPT
    !.before = Effects("moveAllocationToGpu", {"dst_ptr", "src_ptr"})
        \cup Effects("registerTemporaryAllocation", {"src_ptr"}), !.staged = {"src_ptr"},
    !.stagedIn = {"src_ptr"}, !.unless = @ \cup {"blocking"},
    !.after = @ \cup Effects("synchronizeNow", {"blocking"})]

clEnqueueSVMMemcpy_Shared_Usm ==
  [AsyncEnqueue(ClEnqueueSVMMemcpy_Shared_UsmRpcM) EXCEPT
    !.before = Effects("moveAllocationToGpu", {"dst_ptr", "src_ptr"}),
    !.unless = @ \cup {"blocking"}, !.after = @ \cup Effects("synchronizeNow", {"blocking"})]

clEnqueueSVMMemcpy_Shared_Shared ==
  [AsyncEnqueue(ClEnqueueSVMMemcpy_Shared_SharedRpcM) EXCEPT
    !.before = Effects("moveAllocationToGpu", {"dst_ptr", "src_ptr"}),
    !.unless = @ \cup {"blocking"}, !.after = @ \cup Effects("synchronizeNow", {"blocking"})]

clEnqueueMemcpyINTEL_Local_Local ==
  [AsyncEnqueue(ClEnqueueMemcpyINTEL_Local_LocalRpcM) EXCEPT
    !.before = Effects("moveAllocationToGpu", {"dstPtr", "srcPtr"})
        \cup Effects("registerTemporaryAllocation", {"dstPtr", "srcPtr"}),
    !.staged = {"dstPtr", "srcPtr"}, !.stagedIn = {"srcPtr"}, !.forced = {"blocking"},
    !.unless = @ \cup {"blocking"}, !.copiedBack = {"dstPtr"},
    !.after = @ \cup Effects("synchronizeNow", {"blocking"})]

clEnqueueMemcpyINTEL_Local_Usm ==
  [AsyncEnqueue(ClEnqueueMemcpyINTEL_Local_UsmRpcM) EXCEPT
    !.before = Effects("moveAllocationToGpu", {"dstPtr", "srcPtr"})
        \cup Effects("registerTemporaryAllocation", {"dstPtr"}), !.staged = {"dstPtr"},
    !.forced = {"blocking"}, !.unless = @ \cup {"blocking"}, !.copiedBack = {"dstPtr"},
    !.after = @ \cup Effects("synchronizeNow", {"blocking"})]

clEnqueueMemcpyINTEL_Local_Shared ==
  [AsyncEnqueue(ClEnqueueMemcpyINTEL_Local_SharedRpcM) EXCEPT
    !.before = Effects("moveAllocationToGpu", {"dstPtr", "srcPtr"})
        \cup Effects("registerTemporaryAllocation", {"dstPtr"}), !.staged = {"dstPtr"},
    !.forced = {"blocking"}, !.unless = @ \cup {"blocking"}, !.copiedBack = {"dstPtr"},
    !.after = @ \cup Effects("synchronizeNow", {"blocking"})]

clEnqueueMemcpyINTEL_Usm_Local ==
  [AsyncEnqueue(ClEnqueueMemcpyINTEL_Usm_LocalRpcM) EXCEPT
    !.before = Effects("moveAllocationToGpu", {"dstPtr", "srcPtr"})
        \cup Effects("registerTemporaryAllocation", {"srcPtr"}), !.staged = {"srcPtr"},
    !.stagedIn = {"srcPtr"}, !.unless = @ \cup {"blocking"},
    !.after = @ \cup Effects("synchronizeNow", {"blocking"})]

clEnqueueMemcpyINTEL_Usm_Usm ==
  [AsyncEnqueue(ClEnqueueMemcpyINTEL_Usm_UsmRpcM) EXCEPT
    !.before = Effects("moveAllocationToGpu", {"dstPtr", "srcPtr"}),
    !.unless = @ \cup {"blocking"}, !.after = @ \cup Effects("synchronizeNow", {"blocking"})]

clEnqueueMemcpyINTEL_Usm_Shared ==
  [AsyncEnqueue(ClEnqueueMemcpyINTEL_Usm_SharedRpcM) EXCEPT
    !.before = Effects("moveAllocationToGpu", {"dstPtr", "srcPtr"}),
    !.unless = @ \cup {"blocking"}, !.after = @ \cup Effects("synchronizeNow", {"blocking"})]

clEnqueueMemcpyINTEL_Shared_Local ==
  [AsyncEnqueue(ClEnqueueMemcpyINTEL_Shared_LocalRpcM) EXCEPT
    !.before = Effects("moveAllocationToGpu", {"dstPtr", "srcPtr"})
        \cup Effects("registerTemporaryAllocation", {"srcPtr"}), !.staged = {"srcPtr"},
    !.stagedIn = {"srcPtr"}, !.unless = @ \cup {"blocking"},
    !.after = @ \cup Effects("synchronizeNow", {"blocking"})]

clEnqueueMemcpyINTEL_Shared_Usm ==
  [AsyncEnqueue(ClEnqueueMemcpyINTEL_Shared_UsmRpcM) EXCEPT
    !.before = Effects("moveAllocationToGpu", {"dstPtr", "srcPtr"}),
    !.unless = @ \cup {"blocking"}, !.after = @ \cup Effects("synchronizeNow", {"blocking"})]

clEnqueueMemcpyINTEL_Shared_Shared ==
  [AsyncEnqueue(ClEnqueueMemcpyINTEL_Shared_SharedRpcM) EXCEPT
    !.before = Effects("moveAllocationToGpu", {"dstPtr", "srcPtr"}),
    !.unless = @ \cup {"blocking"}, !.after = @ \cup Effects("synchronizeNow", {"blocking"})]
==============================================================================
