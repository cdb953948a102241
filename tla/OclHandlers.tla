----------------------------- MODULE OclHandlers -----------------------------
(*****************************************************************************)
(* The service handlers of OpenCL (generated_service_ocl.h and               *)
(* service.cpp): one definition per function.                                *)
(*****************************************************************************)
EXTENDS OclMessages

\* What the hand-written handlers of rectangular transfers take from the command.
RectCaptures == {"buffer_origin", "host_origin", "region", "event_wait_list", "event"}

-----------------------------------------------------------------------------
(* Generated.                                                               *)

clGetPlatformInfoHandler ==
  Handler({"param_value", "param_value_size_ret"})

clGetDeviceIDsHandler ==
  Handler({"devices", "num_devices"})

clGetDeviceInfoHandler ==
  [Handler({"param_value", "param_value_size_ret"}) EXCEPT !.always = {"param_value_size_ret"}]

clGetContextInfoHandler ==
  [Handler({"param_value", "param_value_size_ret"}) EXCEPT !.always = {"param_value_size_ret"}]

clCreateSubDevicesHandler ==
  Handler({"properties", "out_devices", "num_devices_ret"})

clCreateCommandQueueHandler ==
  Handler({"errcode_ret"})

clSetDefaultDeviceCommandQueueHandler ==
  Handler({})

clCreateCommandQueueWithPropertiesHandler ==
  Handler({"properties", "errcode_ret"})

clCreateProgramWithSourceHandler ==
  Handler({"strings", "lengths", "errcode_ret"})

clCreateProgramWithILHandler ==
  Handler({"il", "errcode_ret"})

clCreateProgramWithBinaryHandler ==
  Handler({"device_list", "lengths", "binaries", "binary_status", "errcode_ret"})

clCreateProgramWithBuiltInKernelsHandler ==
  Handler({"device_list", "kernel_names", "errcode_ret"})

clGetProgramBuildInfoHandler ==
  Handler({"param_value", "param_value_size_ret"})

clCreateKernelHandler ==
  Handler({"kernel_name", "errcode_ret"})

clCloneKernelHandler ==
  Handler({"errcode_ret"})

clCreateKernelsInProgramHandler ==
  Handler({"kernels", "num_kernels_ret"})

clGetCommandQueueInfoHandler ==
  [Handler({"param_value", "param_value_size_ret"}) EXCEPT !.always = {"param_value_size_ret"}]

clGetProgramInfoRpcHelperHandler ==
  Handler({"param_value", "param_value_size_ret"})

clGetMemObjectInfoHandler ==
  Handler({"param_value", "param_value_size_ret"})

clGetImageInfoHandler ==
  Handler({"param_value", "param_value_size_ret"})

clGetSamplerInfoHandler ==
  Handler({"param_value", "param_value_size_ret"})

clGetKernelInfoHandler ==
  [Handler({"param_value", "param_value_size_ret"}) EXCEPT !.always = {"param_value_size_ret"}]

clGetKernelWorkGroupInfoHandler ==
  Handler({"param_value", "param_value_size_ret"})

clGetKernelArgInfoHandler ==
  Handler({"param_value", "param_value_size_ret"})

clGetKernelSubGroupInfoHandler ==
  Handler({"input_value", "param_value", "param_value_size_ret"})

clReleaseCommandQueueHandler ==
  [Handler({}) EXCEPT !.failsIfAsync = TRUE]

clReleaseContextHandler ==
  [Handler({}) EXCEPT !.failsIfAsync = TRUE]

clReleaseDeviceHandler ==
  Handler({})

clReleaseKernelHandler ==
  Handler({})

clReleaseSamplerHandler ==
  Handler({})

clReleaseProgramHandler ==
  Handler({})

clReleaseEventHandler ==
  [Handler({}) EXCEPT !.failsIfAsync = TRUE]

clRetainCommandQueueHandler ==
  Handler({})

clRetainContextHandler ==
  Handler({})

clRetainDeviceHandler ==
  Handler({})

clRetainProgramHandler ==
  Handler({})

clRetainMemObjectHandler ==
  Handler({})

clRetainSamplerHandler ==
  Handler({})

clRetainKernelHandler ==
  Handler({})

clRetainEventHandler ==
  Handler({})

clFlushHandler ==
  [Handler({}) EXCEPT !.failsIfAsync = TRUE]

clFinishHandler ==
  Handler({})

clEnqueueNDRangeKernelHandler ==
  [Handler({"global_work_offset", "global_work_size", "local_work_size", "event_wait_list", "event"}) EXCEPT
    !.failsIfAsync = TRUE]

clEnqueueTaskHandler ==
  Handler({"event_wait_list", "event"})

clEnqueueMarkerWithWaitListHandler ==
  Handler({"event_wait_list", "event"})

clEnqueueMarkerHandler ==
  Handler({"event"})

clEnqueueBarrierWithWaitListHandler ==
  Handler({"event_wait_list", "event"})

clEnqueueBarrierHandler ==
  Handler({})

clEnqueueWaitForEventsHandler ==
  Handler({"event_list"})

clEnqueueMigrateMemObjectsHandler ==
  Handler({"mem_objects", "event_wait_list", "event"})

clCreateBufferRpcHelperUseHostPtrZeroCopyMallocShmemHandler ==
  [Handler({"errcode_ret"}) EXCEPT !.imported = {"host_ptr"}]

clCreateBufferRpcHelperNotUseHostPtrZeroCopyMallocShmemHandler ==
  Handler({"host_ptr", "errcode_ret"})

clCreateSubBufferHandler ==
  Handler({"buffer_create_info", "errcode_ret"})

clCreatePipeHandler ==
  Handler({"properties", "errcode_ret"})

clGetPipeInfoHandler ==
  Handler({"param_value", "param_value_size_ret"})

clCreateImageHandler ==
  Handler({"image_format", "image_desc", "host_ptr", "errcode_ret"})

clCreateImage2DHandler ==
  Handler({"image_format", "host_ptr", "errcode_ret"})

clCreateImage3DHandler ==
  Handler({"image_format", "host_ptr", "errcode_ret"})

clCreateSamplerHandler ==
  Handler({"errcode_ret"})

clCreateSamplerWithPropertiesHandler ==
  Handler({"properties", "errcode_ret"})

clCreateImageWithPropertiesHandler ==
  Handler({"properties", "image_format", "image_desc", "host_ptr", "errcode_ret"})

clCreateBufferWithPropertiesHandler ==
  Handler({"properties", "host_ptr", "errcode_ret"})

clGetSupportedImageFormatsHandler ==
  Handler({"image_formats", "num_image_formats"})

clSetKernelArgHandler ==
  [Handler({"arg_value"}) EXCEPT !.failsIfAsync = TRUE]

clSetProgramSpecializationConstantHandler ==
  Handler({"spec_value"})

clEnqueueWriteBufferHandler ==
  [Handler({"event_wait_list", "event"}) EXCEPT !.failsIfAsync = TRUE]

clEnqueueReadBufferHandler ==
  [Handler({"event_wait_list", "event"}) EXCEPT !.failsIfAsync = TRUE]

clEnqueueCopyBufferHandler ==
  Handler({"event_wait_list", "event"})

clEnqueueCopyBufferRectHandler ==
  Handler({"src_origin", "dst_origin", "region", "event_wait_list", "event"})

clEnqueueReadImageHandler ==
  Handler({"src_origin", "region", "event_wait_list", "event"})

clEnqueueWriteImageHandler ==
  Handler({"origin", "region", "event_wait_list", "event"})

clEnqueueCopyImageHandler ==
  Handler({"src_origin", "dst_origin", "region", "event_wait_list", "event"})

clEnqueueCopyImageToBufferHandler ==
  Handler({"src_origin", "region", "event_wait_list", "event"})

clEnqueueCopyBufferToImageHandler ==
  Handler({"dst_origin", "region", "event_wait_list", "event"})

clEnqueueMapBufferHandler ==
  Handler({"event_wait_list", "event", "errcode_ret"})

clEnqueueUnmapMemObjectHandler ==
  Handler({"event_wait_list", "event"})

clEnqueueFillBufferHandler ==
  Handler({"pattern", "event_wait_list", "event"})

clEnqueueFillImageHandler ==
  Handler({"fill_color", "origin", "region", "event_wait_list", "event"})

clWaitForEventsHandler ==
  Handler({"event_list"})

clGetEventInfoHandler ==
  Handler({"param_value", "param_value_size_ret"})

clGetEventProfilingInfoHandler ==
  Handler({"param_value", "param_value_size_ret"})

clCreateUserEventHandler ==
  Handler({"errcode_ret"})

clSetUserEventStatusHandler ==
  Handler({})

clGetDeviceAndHostTimerHandler ==
  Handler({"device_timestamp", "host_timestamp"})

clGetHostTimerHandler ==
  Handler({"host_timestamp"})

clSetKernelArgSVMPointerHandler ==
  [Handler({}) EXCEPT !.failsIfAsync = TRUE]

clSetKernelExecInfoHandler ==
  [Handler({"param_value"}) EXCEPT !.failsIfAsync = TRUE]

clEnqueueSVMMemFillHandler ==
  Handler({"pattern", "event_wait_list", "event"})

clEnqueueSVMMigrateMemHandler ==
  Handler({"svm_pointers", "sizes", "event_wait_list", "event"})

clEnqueueSVMMemcpyHandler ==
  [Handler({"event_wait_list", "event"}) EXCEPT !.failsIfAsync = TRUE]

clCreateSubDevicesEXTHandler ==
  Handler({"properties", "out_devices", "num_devices"})

clReleaseDeviceEXTHandler ==
  Handler({})

clRetainDeviceEXTHandler ==
  Handler({})

clGetKernelSubGroupInfoKHRHandler ==
  Handler({"input_value", "param_value", "param_value_size_ret"})

clGetKernelSuggestedLocalWorkSizeKHRHandler ==
  Handler({"global_work_offset", "global_work_size", "suggested_local_work_size"})

clEnqueueMemFillINTELHandler ==
  Handler({"pattern", "event_wait_list", "event"})

clEnqueueMemcpyINTELHandler ==
  [Handler({"event_wait_list", "event"}) EXCEPT !.failsIfAsync = TRUE]

clSetKernelArgMemPointerINTELHandler ==
  [Handler({}) EXCEPT !.failsIfAsync = TRUE]

clGetMemAllocInfoINTELHandler ==
  Handler({"param_value", "param_value_size_ret"})

clDeviceMemAllocINTELHandler ==
  Handler({"properties", "errcode_ret"})

clEnqueueMigrateMemINTELHandler ==
  Handler({"event_wait_list", "event"})

clEnqueueMemAdviseINTELHandler ==
  Handler({"event_wait_list", "event"})

clGetDeviceGlobalVariablePointerINTELHandler ==
  Handler({"globalVariableName", "globalVariableSizeRet", "globalVariablePointerRet"})

clCreateBufferRpcHelperNotUseHostPtrZeroCopyMallocShmem_UsmHandler ==
  Handler({"errcode_ret"})

clEnqueueWriteBuffer_LocalHandler ==
  [Handler({"event_wait_list", "event"}) EXCEPT !.failsIfAsync = TRUE]

clEnqueueWriteBuffer_UsmHandler ==
  [Handler({"event_wait_list", "event"}) EXCEPT !.failsIfAsync = TRUE]

clEnqueueWriteBuffer_SharedHandler ==
  [Handler({"event_wait_list", "event"}) EXCEPT !.imported = {"ptr"}, !.failsIfAsync = TRUE]

clEnqueueReadBuffer_LocalHandler ==
  [Handler({"event_wait_list", "event"}) EXCEPT !.failsIfAsync = TRUE]

clEnqueueReadBuffer_UsmHandler ==
  [Handler({"event_wait_list", "event"}) EXCEPT !.failsIfAsync = TRUE]

clEnqueueReadBuffer_SharedHandler ==
  [Handler({"event_wait_list", "event"}) EXCEPT !.imported = {"ptr"}, !.failsIfAsync = TRUE]

clEnqueueSVMMemcpy_Local_LocalHandler ==
  [Handler({"event_wait_list", "event"}) EXCEPT !.failsIfAsync = TRUE]

clEnqueueSVMMemcpy_Local_UsmHandler ==
  [Handler({"event_wait_list", "event"}) EXCEPT !.failsIfAsync = TRUE]

clEnqueueSVMMemcpy_Local_SharedHandler ==
  [Handler({"event_wait_list", "event"}) EXCEPT !.imported = {"src_ptr"}, !.failsIfAsync = TRUE]

clEnqueueSVMMemcpy_Usm_LocalHandler ==
  [Handler({"event_wait_list", "event"}) EXCEPT !.failsIfAsync = TRUE]

clEnqueueSVMMemcpy_Usm_UsmHandler ==
  [Handler({"event_wait_list", "event"}) EXCEPT !.failsIfAsync = TRUE]

clEnqueueSVMMemcpy_Usm_SharedHandler ==
  [Handler({"event_wait_list", "event"}) EXCEPT !.imported = {"src_ptr"}, !.failsIfAsync = TRUE]

clEnqueueSVMMemcpy_Shared_LocalHandler ==
  [Handler({"event_wait_list", "event"}) EXCEPT !.imported = {"dst_ptr"}, !.failsIfAsync = TRUE]

clEnqueueSVMMemcpy_Shared_UsmHandler ==
  [Handler({"event_wait_list", "event"}) EXCEPT !.imported = {"dst_ptr"}, !.failsIfAsync = TRUE]

clEnqueueSVMMemcpy_Shared_SharedHandler ==
  [Handler({"event_wait_list", "event"}) EXCEPT
    !.imported = {"dst_ptr", "src_ptr"}, !.failsIfAsync = TRUE]

clEnqueueMemcpyINTEL_Local_LocalHandler ==
  [Handler({"event_wait_list", "event"}) EXCEPT !.failsIfAsync = TRUE]

clEnqueueMemcpyINTEL_Local_UsmHandler ==
  [Handler({"event_wait_list", "event"}) EXCEPT !.failsIfAsync = TRUE]

clEnqueueMemcpyINTEL_Local_SharedHandler ==
  [Handler({"event_wait_list", "event"}) EXCEPT !.imported = {"srcPtr"}, !.failsIfAsync = TRUE]

clEnqueueMemcpyINTEL_Usm_LocalHandler ==
  [Handler({"event_wait_list", "event"}) EXCEPT !.failsIfAsync = TRUE]

clEnqueueMemcpyINTEL_Usm_UsmHandler ==
  [Handler({"event_wait_list", "event"}) EXCEPT !.failsIfAsync = TRUE]

clEnqueueMemcpyINTEL_Usm_SharedHandler ==
  [Handler({"event_wait_list", "event"}) EXCEPT !.imported = {"srcPtr"}, !.failsIfAsync = TRUE]

clEnqueueMemcpyINTEL_Shared_LocalHandler ==
  [Handler({"event_wait_list", "event"}) EXCEPT !.imported = {"dstPtr"}, !.failsIfAsync = TRUE]

clEnqueueMemcpyINTEL_Shared_UsmHandler ==
  [Handler({"event_wait_list", "event"}) EXCEPT !.imported = {"dstPtr"}, !.failsIfAsync = TRUE]

clEnqueueMemcpyINTEL_Shared_SharedHandler ==
  [Handler({"event_wait_list", "event"}) EXCEPT
    !.imported = {"dstPtr", "srcPtr"}, !.failsIfAsync = TRUE]

-----------------------------------------------------------------------------
(* Hand-written (service.cpp).                                              *)

clGetPlatformIDsHandler ==
  Handler({"platforms", "num_platforms"})

clGetProgramInfoGetBinariesRpcHelperHandler ==
  [Handler({"concatenated_binaries", "binaries_lengths", "param_value_size_ret"}) EXCEPT
    !.always = {"concatenated_binaries", "binaries_lengths"}]

clHostMemAllocINTELHandler ==
  [Handler({"properties", "errcode_ret"} \cup Placement) EXCEPT
    !.limited = {"alignment"}, !.after = Effects("addUsmSharedHostAlloc", {"context"})]

clSharedMemAllocINTELHandler ==
  [Handler({"properties", "errcode_ret"} \cup Placement) EXCEPT
    !.limited = {"alignment"}, !.after = Effects("addUsmSharedHostAlloc", {"context"})]

clSVMAllocHandler ==
  [Handler(Placement) EXCEPT
    !.replaced = Always({"flags"}), !.limited = {"alignment"},
    !.after = Effects("addUsmSharedHostAlloc", {"context"})]

clSVMFreeHandler ==
  [Handler({}) EXCEPT !.atEnd = Effects("reapUsmSharedHostAlloc", {"ptr"})]

clEnqueueSVMMapHandler ==
  [Handler({"event_wait_list", "event"}) EXCEPT
    !.replaced = Always({"blocking_map", "map_flags", "svm_ptr", "size"})]

clEnqueueSVMUnmapHandler ==
  [Handler({"event_wait_list", "event"}) EXCEPT !.replaced = Always({"svm_ptr"})]

clMemFreeINTELHandler ==
  [Handler({}) EXCEPT !.atEnd = Effects("reapUsmSharedHostAlloc", {"ptr"})]

clMemBlockingFreeINTELHandler ==
  [Handler({}) EXCEPT !.atEnd = Effects("reapUsmSharedHostAlloc", {"ptr"})]

clReleaseMemObjectHandler ==
  [Handler({}) EXCEPT !.atEnd = Effects("reapUsmSharedHostAlloc", {"memobj"})]

clCreateContextHandler ==
  [Handler({"properties", "devices", "errcode_ret"}) EXCEPT
    !.replaced = [pfn_notify |-> "pfn_notify", user_data |-> "pfn_notify"],
    !.atEnd = Effects("assignToCallbackContext", {"pfn_notify"})]

clCreateContextFromTypeHandler ==
  [Handler({"properties", "errcode_ret"}) EXCEPT
    !.replaced = [pfn_notify |-> "pfn_notify", user_data |-> "pfn_notify"],
    !.atEnd = Effects("assignToCallbackContext", {"pfn_notify"})]

clEnqueueSVMFreeHandler ==
  [Handler({"svm_pointers", "event_wait_list", "event"}) EXCEPT
    !.replaced = Always({"pfn_notify", "user_data"})]

clSetEventCallbackHandler ==
  [Handler({}) EXCEPT !.replaced = Always({"pfn_notify", "user_data"})]

clSetContextDestructorCallbackHandler ==
  [Handler({}) EXCEPT !.replaced = Always({"pfn_notify", "user_data"})]

clSetMemObjectDestructorCallbackHandler ==
  [Handler({}) EXCEPT !.replaced = Always({"pfn_notify", "user_data"})]

clBuildProgramHandler ==
  [Handler({"device_list", "options"}) EXCEPT
    !.replaced = [pfn_notify |-> "pfn_notify", user_data |-> "user_data"]]

clCompileProgramHandler ==
  [Handler({"device_list", "options", "input_headers", "header_include_names"}) EXCEPT
    !.replaced = [pfn_notify |-> "pfn_notify", user_data |-> "user_data"]]

clLinkProgramHandler ==
  [Handler({"device_list", "options", "input_programs", "errcode_ret"}) EXCEPT
    !.replaced = [pfn_notify |-> "pfn_notify", user_data |-> "user_data"]]

clSetProgramReleaseCallbackHandler ==
  [Handler({}) EXCEPT !.replaced = Always({"pfn_notify", "user_data"})]

clEnqueueWriteBufferRectHandler ==
  [Handler(RectCaptures) EXCEPT !.failsIfAsync = TRUE]

clEnqueueWriteBufferRect_LocalHandler ==
  [Handler(RectCaptures) EXCEPT !.refuses = {"blocking_write"}, !.failsIfAsync = TRUE]

clEnqueueWriteBufferRect_UsmHandler ==
  [Handler(RectCaptures) EXCEPT !.failsIfAsync = TRUE]

clEnqueueWriteBufferRect_SharedHandler ==
  [Handler(RectCaptures) EXCEPT !.imported = {"ptr"}, !.failsIfAsync = TRUE]

clEnqueueReadBufferRectHandler ==
  [Handler(RectCaptures) EXCEPT !.failsIfAsync = TRUE]

clEnqueueReadBufferRect_LocalHandler ==
  [Handler(RectCaptures) EXCEPT !.refuses = {"blocking_read"}, !.failsIfAsync = TRUE]

clEnqueueReadBufferRect_UsmHandler ==
  [Handler(RectCaptures) EXCEPT !.failsIfAsync = TRUE]

clEnqueueReadBufferRect_SharedHandler ==
  [Handler(RectCaptures) EXCEPT !.imported = {"ptr"}, !.failsIfAsync = TRUE]

-----------------------------------------------------------------------------
\* The handlers in the order in which the service registers them.
registerGeneratedHandlersOcl == <<
    <<ClGetPlatformInfoRpcM, clGetPlatformInfoHandler>>,
    <<ClGetDeviceIDsRpcM, clGetDeviceIDsHandler>>,
    <<ClGetDeviceInfoRpcM, clGetDeviceInfoHandler>>,
    <<ClCreateContextRpcM, clCreateContextHandler>>,
    <<ClCreateContextFromTypeRpcM, clCreateContextFromTypeHandler>>,
    <<ClGetContextInfoRpcM, clGetContextInfoHandler>>,
    <<ClSetContextDestructorCallbackRpcM, clSetContextDestructorCallbackHandler>>,
    <<ClSetMemObjectDestructorCallbackRpcM, clSetMemObjectDestructorCallbackHandler>>,
    <<ClCreateSubDevicesRpcM, clCreateSubDevicesHandler>>,
    <<ClCreateCommandQueueRpcM, clCreateCommandQueueHandler>>,
    <<ClSetDefaultDeviceCommandQueueRpcM, clSetDefaultDeviceCommandQueueHandler>>,
    <<ClCreateCommandQueueWithPropertiesRpcM, clCreateCommandQueueWithPropertiesHandler>>,
    <<ClCreateProgramWithSourceRpcM, clCreateProgramWithSourceHandler>>,
    <<ClCreateProgramWithILRpcM, clCreateProgramWithILHandler>>,
    <<ClCreateProgramWithBinaryRpcM, clCreateProgramWithBinaryHandler>>,
    <<ClCreateProgramWithBuiltInKernelsRpcM, clCreateProgramWithBuiltInKernelsHandler>>,
    <<ClBuildProgramRpcM, clBuildProgramHandler>>,
    <<ClCompileProgramRpcM, clCompileProgramHandler>>,
    <<ClLinkProgramRpcM, clLinkProgramHandler>>,
    <<ClGetProgramBuildInfoRpcM, clGetProgramBuildInfoHandler>>,
    <<ClSetProgramReleaseCallbackRpcM, clSetProgramReleaseCallbackHandler>>,
    <<ClCreateKernelRpcM, clCreateKernelHandler>>, <<ClCloneKernelRpcM, clCloneKernelHandler>>,
    <<ClCreateKernelsInProgramRpcM, clCreateKernelsInProgramHandler>>,
    <<ClGetCommandQueueInfoRpcM, clGetCommandQueueInfoHandler>>,
    <<ClGetProgramInfoRpcHelperRpcM, clGetProgramInfoRpcHelperHandler>>,
    <<ClGetProgramInfoGetBinariesRpcHelperRpcM, clGetProgramInfoGetBinariesRpcHelperHandler>>,
    <<ClGetMemObjectInfoRpcM, clGetMemObjectInfoHandler>>,
    <<ClGetImageInfoRpcM, clGetImageInfoHandler>>,
    <<ClGetSamplerInfoRpcM, clGetSamplerInfoHandler>>,
    <<ClGetKernelInfoRpcM, clGetKernelInfoHandler>>,
    <<ClGetKernelWorkGroupInfoRpcM, clGetKernelWorkGroupInfoHandler>>,
    <<ClGetKernelArgInfoRpcM, clGetKernelArgInfoHandler>>,
    <<ClGetKernelSubGroupInfoRpcM, clGetKernelSubGroupInfoHandler>>,
    <<ClReleaseCommandQueueRpcM, clReleaseCommandQueueHandler>>,
    <<ClReleaseContextRpcM, clReleaseContextHandler>>,
    <<ClReleaseDeviceRpcM, clReleaseDeviceHandler>>,
    <<ClReleaseKernelRpcM, clReleaseKernelHandler>>,
    <<ClReleaseSamplerRpcM, clReleaseSamplerHandler>>,
    <<ClReleaseProgramRpcM, clReleaseProgramHandler>>,
    <<ClReleaseMemObjectRpcM, clReleaseMemObjectHandler>>,
    <<ClReleaseEventRpcM, clReleaseEventHandler>>,
    <<ClRetainCommandQueueRpcM, clRetainCommandQueueHandler>>,
    <<ClRetainContextRpcM, clRetainContextHandler>>,
    <<ClRetainDeviceRpcM, clRetainDeviceHandler>>,
    <<ClRetainProgramRpcM, clRetainProgramHandler>>,
    <<ClRetainMemObjectRpcM, clRetainMemObjectHandler>>,
    <<ClRetainSamplerRpcM, clRetainSamplerHandler>>,
    <<ClRetainKernelRpcM, clRetainKernelHandler>>, <<ClRetainEventRpcM, clRetainEventHandler>>,
    <<ClFlushRpcM, clFlushHandler>>, <<ClFinishRpcM, clFinishHandler>>,
    <<ClEnqueueNDRangeKernelRpcM, clEnqueueNDRangeKernelHandler>>,
    <<ClEnqueueTaskRpcM, clEnqueueTaskHandler>>,
    <<ClEnqueueMarkerWithWaitListRpcM, clEnqueueMarkerWithWaitListHandler>>,
    <<ClEnqueueMarkerRpcM, clEnqueueMarkerHandler>>,
    <<ClEnqueueBarrierWithWaitListRpcM, clEnqueueBarrierWithWaitListHandler>>,
    <<ClEnqueueBarrierRpcM, clEnqueueBarrierHandler>>,
    <<ClEnqueueWaitForEventsRpcM, clEnqueueWaitForEventsHandler>>,
    <<ClEnqueueMigrateMemObjectsRpcM, clEnqueueMigrateMemObjectsHandler>>,
    <<ClCreateBufferRpcHelperUseHostPtrZeroCopyMallocShmemRpcM,
      clCreateBufferRpcHelperUseHostPtrZeroCopyMallocShmemHandler>>,
    <<ClCreateBufferRpcHelperNotUseHostPtrZeroCopyMallocShmemRpcM,
      clCreateBufferRpcHelperNotUseHostPtrZeroCopyMallocShmemHandler>>,
    <<ClCreateSubBufferRpcM, clCreateSubBufferHandler>>,
    <<ClCreatePipeRpcM, clCreatePipeHandler>>, <<ClGetPipeInfoRpcM, clGetPipeInfoHandler>>,
    <<ClCreateImageRpcM, clCreateImageHandler>>,
    <<ClCreateImage2DRpcM, clCreateImage2DHandler>>,
    <<ClCreateImage3DRpcM, clCreateImage3DHandler>>,
    <<ClCreateSamplerRpcM, clCreateSamplerHandler>>,
    <<ClCreateSamplerWithPropertiesRpcM, clCreateSamplerWithPropertiesHandler>>,
    <<ClCreateImageWithPropertiesRpcM, clCreateImageWithPropertiesHandler>>,
    <<ClCreateBufferWithPropertiesRpcM, clCreateBufferWithPropertiesHandler>>,
    <<ClGetSupportedImageFormatsRpcM, clGetSupportedImageFormatsHandler>>,
    <<ClSetKernelArgRpcM, clSetKernelArgHandler>>,
    <<ClSetProgramSpecializationConstantRpcM, clSetProgramSpecializationConstantHandler>>,
    <<ClEnqueueWriteBufferRpcM, clEnqueueWriteBufferHandler>>,
    <<ClEnqueueWriteBufferRectRpcM, clEnqueueWriteBufferRectHandler>>,
    <<ClEnqueueReadBufferRpcM, clEnqueueReadBufferHandler>>,
    <<ClEnqueueReadBufferRectRpcM, clEnqueueReadBufferRectHandler>>,
    <<ClEnqueueCopyBufferRpcM, clEnqueueCopyBufferHandler>>,
    <<ClEnqueueCopyBufferRectRpcM, clEnqueueCopyBufferRectHandler>>,
    <<ClEnqueueReadImageRpcM, clEnqueueReadImageHandler>>,
    <<ClEnqueueWriteImageRpcM, clEnqueueWriteImageHandler>>,
    <<ClEnqueueCopyImageRpcM, clEnqueueCopyImageHandler>>,
    <<ClEnqueueCopyImageToBufferRpcM, clEnqueueCopyImageToBufferHandler>>,
    <<ClEnqueueCopyBufferToImageRpcM, clEnqueueCopyBufferToImageHandler>>,
    <<ClEnqueueMapBufferRpcM, clEnqueueMapBufferHandler>>,
    <<ClEnqueueUnmapMemObjectRpcM, clEnqueueUnmapMemObjectHandler>>,
    <<ClEnqueueFillBufferRpcM, clEnqueueFillBufferHandler>>,
    <<ClEnqueueFillImageRpcM, clEnqueueFillImageHandler>>,
    <<ClWaitForEventsRpcM, clWaitForEventsHandler>>,
    <<ClGetEventInfoRpcM, clGetEventInfoHandler>>,
    <<ClGetEventProfilingInfoRpcM, clGetEventProfilingInfoHandler>>,
    <<ClCreateUserEventRpcM, clCreateUserEventHandler>>,
    <<ClSetUserEventStatusRpcM, clSetUserEventStatusHandler>>,
    <<ClSetEventCallbackRpcM, clSetEventCallbackHandler>>,
    <<ClGetDeviceAndHostTimerRpcM, clGetDeviceAndHostTimerHandler>>,
    <<ClGetHostTimerRpcM, clGetHostTimerHandler>>, <<ClSVMAllocRpcM, clSVMAllocHandler>>,
    <<ClSVMFreeRpcM, clSVMFreeHandler>>, <<ClEnqueueSVMMapRpcM, clEnqueueSVMMapHandler>>,
    <<ClEnqueueSVMUnmapRpcM, clEnqueueSVMUnmapHandler>>,
    <<ClSetKernelArgSVMPointerRpcM, clSetKernelArgSVMPointerHandler>>,
    <<ClSetKernelExecInfoRpcM, clSetKernelExecInfoHandler>>,
    <<ClEnqueueSVMMemFillRpcM, clEnqueueSVMMemFillHandler>>,
    <<ClEnqueueSVMMigrateMemRpcM, clEnqueueSVMMigrateMemHandler>>,
    <<ClEnqueueSVMMemcpyRpcM, clEnqueueSVMMemcpyHandler>>,
    <<ClEnqueueSVMFreeRpcM, clEnqueueSVMFreeHandler>>,
    <<ClCreateSubDevicesEXTRpcM, clCreateSubDevicesEXTHandler>>,
    <<ClReleaseDeviceEXTRpcM, clReleaseDeviceEXTHandler>>,
    <<ClRetainDeviceEXTRpcM, clRetainDeviceEXTHandler>>,
    <<ClGetKernelSubGroupInfoKHRRpcM, clGetKernelSubGroupInfoKHRHandler>>,
    <<ClGetKernelSuggestedLocalWorkSizeKHRRpcM, clGetKernelSuggestedLocalWorkSizeKHRHandler>>,
    <<ClEnqueueMemFillINTELRpcM, clEnqueueMemFillINTELHandler>>,
    <<ClEnqueueMemcpyINTELRpcM, clEnqueueMemcpyINTELHandler>>,
    <<ClSetKernelArgMemPointerINTELRpcM, clSetKernelArgMemPointerINTELHandler>>,
    <<ClGetMemAllocInfoINTELRpcM, clGetMemAllocInfoINTELHandler>>,
    <<ClDeviceMemAllocINTELRpcM, clDeviceMemAllocINTELHandler>>,
    <<ClHostMemAllocINTELRpcM, clHostMemAllocINTELHandler>>,
    <<ClSharedMemAllocINTELRpcM, clSharedMemAllocINTELHandler>>,
    <<ClMemFreeINTELRpcM, clMemFreeINTELHandler>>,
    <<ClMemBlockingFreeINTELRpcM, clMemBlockingFreeINTELHandler>>,
    <<ClEnqueueMigrateMemINTELRpcM, clEnqueueMigrateMemINTELHandler>>,
    <<ClEnqueueMemAdviseINTELRpcM, clEnqueueMemAdviseINTELHandler>>,
    <<ClGetDeviceGlobalVariablePointerINTELRpcM, clGetDeviceGlobalVariablePointerINTELHandler>>,
    <<ClCreateBufferRpcHelperNotUseHostPtrZeroCopyMallocShmem_UsmRpcM,
      clCreateBufferRpcHelperNotUseHostPtrZeroCopyMallocShmem_UsmHandler>>,
    <<ClEnqueueWriteBuffer_LocalRpcM, clEnqueueWriteBuffer_LocalHandler>>,
    <<ClEnqueueWriteBuffer_UsmRpcM, clEnqueueWriteBuffer_UsmHandler>>,
    <<ClEnqueueWriteBuffer_SharedRpcM, clEnqueueWriteBuffer_SharedHandler>>,
    <<ClEnqueueWriteBufferRect_LocalRpcM, clEnqueueWriteBufferRect_LocalHandler>>,
    <<ClEnqueueWriteBufferRect_UsmRpcM, clEnqueueWriteBufferRect_UsmHandler>>,
    <<ClEnqueueWriteBufferRect_SharedRpcM, clEnqueueWriteBufferRect_SharedHandler>>,
    <<ClEnqueueReadBuffer_LocalRpcM, clEnqueueReadBuffer_LocalHandler>>,
    <<ClEnqueueReadBuffer_UsmRpcM, clEnqueueReadBuffer_UsmHandler>>,
    <<ClEnqueueReadBuffer_SharedRpcM, clEnqueueReadBuffer_SharedHandler>>,
    <<ClEnqueueReadBufferRect_LocalRpcM, clEnqueueReadBufferRect_LocalHandler>>,
    <<ClEnqueueReadBufferRect_UsmRpcM, clEnqueueReadBufferRect_UsmHandler>>,
    <<ClEnqueueReadBufferRect_SharedRpcM, clEnqueueReadBufferRect_SharedHandler>>,
    <<ClEnqueueSVMMemcpy_Local_LocalRpcM, clEnqueueSVMMemcpy_Local_LocalHandler>>,
    <<ClEnqueueSVMMemcpy_Local_UsmRpcM, clEnqueueSVMMemcpy_Local_UsmHandler>>,
    <<ClEnqueueSVMMemcpy_Local_SharedRpcM, clEnqueueSVMMemcpy_Local_SharedHandler>>,
    <<ClEnqueueSVMMemcpy_Usm_LocalRpcM, clEnqueueSVMMemcpy_Usm_LocalHandler>>,
    <<ClEnqueueSVMMemcpy_Usm_UsmRpcM, clEnqueueSVMMemcpy_Usm_UsmHandler>>,
    <<ClEnqueueSVMMemcpy_Usm_SharedRpcM, clEnqueueSVMMemcpy_Usm_SharedHandler>>,
    <<ClEnqueueSVMMemcpy_Shared_LocalRpcM, clEnqueueSVMMemcpy_Shared_LocalHandler>>,
    <<ClEnqueueSVMMemcpy_Shared_UsmRpcM, clEnqueueSVMMemcpy_Shared_UsmHandler>>,
    <<ClEnqueueSVMMemcpy_Shared_SharedRpcM, clEnqueueSVMMemcpy_Shared_SharedHandler>>,
    <<ClEnqueueMemcpyINTEL_Local_LocalRpcM, clEnqueueMemcpyINTEL_Local_LocalHandler>>,
    <<ClEnqueueMemcpyINTEL_Local_UsmRpcM, clEnqueueMemcpyINTEL_Local_UsmHandler>>,
    <<ClEnqueueMemcpyINTEL_Local_SharedRpcM, clEnqueueMemcpyINTEL_Local_SharedHandler>>,
    <<ClEnqueueMemcpyINTEL_Usm_LocalRpcM, clEnqueueMemcpyINTEL_Usm_LocalHandler>>,
    <<ClEnqueueMemcpyINTEL_Usm_UsmRpcM, clEnqueueMemcpyINTEL_Usm_UsmHandler>>,
    <<ClEnqueueMemcpyINTEL_Usm_SharedRpcM, clEnqueueMemcpyINTEL_Usm_SharedHandler>>,
    <<ClEnqueueMemcpyINTEL_Shared_LocalRpcM, clEnqueueMemcpyINTEL_Shared_LocalHandler>>,
    <<ClEnqueueMemcpyINTEL_Shared_UsmRpcM, clEnqueueMemcpyINTEL_Shared_UsmHandler>>,
    <<ClEnqueueMemcpyINTEL_Shared_SharedRpcM, clEnqueueMemcpyINTEL_Shared_SharedHandler>>,
    <<ClGetPlatformIDsRpcM, clGetPlatformIDsHandler>>>>
==============================================================================
