----------------------------- MODULE OclEntries ------------------------------
(*****************************************************************************)
(* The entry points of OpenCL: hand-written ones (icd_ocl.cpp), those        *)
(* generated to choose a stub by the kind of a pointer, and the stubs that   *)
(* are entry points themselves.                                              *)
(*****************************************************************************)
EXTENDS OclStubs

\* Entry points that choose their stub by the kinds of some operands.
ByKind(p, stubs) ==
  [r \in [list : {"none"}, kind : [{p} -> PointerType]] |-> stubs[r.kind[p]]]

ByKinds(dst, src, stubs) ==
  [r \in [list : {"none"}, kind : [{dst, src} -> PointerType]] |-> stubs[r.kind[dst]][r.kind[src]]]

-----------------------------------------------------------------------------
(* Entry points around a stub (icd_ocl.cpp).                                *)

clGetPlatformInfo ==
  [clGetPlatformInfoRpcHelper EXCEPT !.early = {"platform"}, !.shortcut = TRUE]

clGetDeviceInfo == [clGetDeviceInfoRpcHelper EXCEPT !.shortcut = TRUE]

clGetEventInfo == [clGetEventInfoRpcHelper EXCEPT !.shortcut = TRUE]

clGetMemObjectInfo == [clGetMemObjectInfoRpcHelper EXCEPT !.shortcut = TRUE]

getProgramBinaries ==
  [clGetProgramInfoGetBinariesRpcHelper EXCEPT
    !.required = {"concatenated_binaries", "binaries_lengths"}, !.fallible = TRUE,
    !.onSuccess = Effects("copyBinaries", {"concatenated_binaries"})]

getProgramBinariesSizes ==
  [clGetProgramInfoRpcHelper EXCEPT
    !.required = {"param_value"}, !.onSuccess = Effects("storeSizesOfBinaries", {"param_value"})]

clGetProgramInfo ==
  [r \in [list : {"none"},
          kind : [{"param_value"} -> PlainInfos \cup {"CL_PROGRAM_CONTEXT", "CL_PROGRAM_DEVICES"}]] |->
     CASE r.kind["param_value"] = "CL_PROGRAM_BINARIES" -> getProgramBinaries
       [] r.kind["param_value"] = "CL_PROGRAM_BINARY_SIZES" -> getProgramBinariesSizes
       [] OTHER -> clGetProgramInfoRpcHelper]

\* A kernel whose traits cannot be read is given up; the driver's kernel is not released.
clCreateKernel ==
  [clCreateKernelRpcHelper EXCEPT !.fallible = TRUE, !.undone = Effects("delete", {"program"})]

clCreateKernelsInProgram ==
  [clCreateKernelsInProgramRpcHelper EXCEPT
    !.required = {"num_kernels_ret"}, !.fallible = TRUE, !.undone = Effects("delete", {"kernels"})]

clSVMAlloc ==
  [clSVMAllocRpcHelper EXCEPT
    !.fallible = TRUE, !.undone = FreedByClient \cup Effects("registerSharedAlloc", {"size"}),
    !.onSuccess = OpenedByClient \cup Effects("registerSharedAlloc", {"size"})]

clHostMemAllocINTEL ==
  [clHostMemAllocINTELRpcHelper EXCEPT
    !.fallible = TRUE, !.undone = FreedByClient, !.onSuccess = OpenedByClient]

\* Without page faults shared memory is host memory.
clSharedMemAllocINTEL ==
  [r \in [list : {"sharedAllocationsEnabled", "sharedAllocationsDisabled"}, kind : {NoKinds}] |->
     IF r.list = "sharedAllocationsDisabled" THEN clHostMemAllocINTEL
     ELSE [clSharedMemAllocINTELRpcHelper EXCEPT
            !.fallible = TRUE, !.undone = FreedByClient,
            !.onSuccess = OpenedByClient \cup Effects("registerSharedAlloc", {"size"})]]

\* Private memory is copied to a staging area of the context, which then is the host pointer.
clCreateBufferStaged ==
  [clCreateBufferRpcHelperNotUseHostPtrZeroCopyMallocShmem_Usm EXCEPT
    !.staged = {"host_ptr"}, !.stagedIn = {"host_ptr"}, !.forced = {"host_ptr"},
    !.adjusted = {"flags"}]

clCreateBuffer ==
  [r \in [list : {"useHostPtr", "copyHostPtr"}, kind : [{"host_ptr"} -> PointerType]] |->
     LET helper ==
           IF r.list = "useHostPtr" /\ r.kind["host_ptr"] = "shared"
           THEN clCreateBufferRpcHelperUseHostPtrZeroCopyMallocShmem
           ELSE IF r.kind["host_ptr"] = "usm"
           THEN clCreateBufferRpcHelperNotUseHostPtrZeroCopyMallocShmem_Usm
           ELSE clCreateBufferStaged
     IN [helper EXCEPT !.shortcut = TRUE, !.after = Effects("setHostPtr", {"context"})]]

clCreateSubBuffer ==
  [clCreateSubBufferRpcHelper EXCEPT
    !.required = {"buffer_create_info"}, !.after = Effects("setHostPtr", {"buffer"})]

\* An argument is plain data, a buffer, or another object (an image or a sampler).  A buffer
\* over USM is set as a USM pointer; if that fails the call is made after all, which the
\* route "refused" stands for.
clSetKernelArg ==
  [r \in {q \in [list : {"none", "refused"},
                 kind : [{"arg_value"} -> {"plain", "buffer", "usm", "object"}]] :
            q.list = "refused" => q.kind["arg_value"] = "usm"} |->
     IF r.list = "none" /\ r.kind["arg_value"] = "usm"
     THEN [clSetKernelArgMemPointerINTELRpcHelper EXCEPT
            !.shortcut = TRUE, !.adjusted = {"argValue"},
            !.after = Effects("cacheKernelArg", {"kernel"})]
     ELSE [clSetKernelArgRpcHelper EXCEPT
            !.shortcut = TRUE, !.after = Effects("cacheKernelArg", {"kernel"})]]

clSetKernelArgMemPointerINTEL ==
  [clSetKernelArgMemPointerINTELRpcHelper EXCEPT
    !.shortcut = TRUE, !.before = Effects("storeKernelArg", {"kernel"}),
    !.after = Effects("cacheKernelArg", {"kernel"})]

clSetKernelExecInfo ==
  [clSetKernelExecInfoRpcHelper EXCEPT
    !.adjusted = {"param_name"}, !.before = @ \cup Effects("storeKernelArg", {"kernel"})]

\* Only the kind of the memory behind the buffer decides: USM is mapped as such, and a map
\* of private memory blocks (warnIfNonBlockingRead).
clEnqueueMapBuffer ==
  [r \in [list : {"none"}, kind : [{"buffer"} -> PointerType]] |->
     CASE r.kind["buffer"] = "usm" -> clEnqueueSVMMap
       [] r.kind["buffer"] = "local" ->
            [clEnqueueMapBufferRpcHelper EXCEPT !.forced = {"blocking_map"}]
       [] OTHER -> clEnqueueMapBufferRpcHelper]

clEnqueueUnmapMemObject ==
  [r \in [list : {"none"}, kind : [{"memobj"} -> {"shared", "usm"}]] |->
     IF r.kind["memobj"] = "usm" THEN clEnqueueSVMUnmap ELSE clEnqueueUnmapMemObjectRpcHelper]

-----------------------------------------------------------------------------
(* Entry points that choose among stubs (generated_icd_ocl.cpp).            *)

clEnqueueWriteBuffer ==
  ByKind("ptr", [local |-> clEnqueueWriteBuffer_Local,
                 usm |-> clEnqueueWriteBuffer_Usm,
                 shared |-> clEnqueueWriteBuffer_Shared])

clEnqueueWriteBufferRect ==
  ByKind("ptr", [local |-> clEnqueueWriteBufferRect_Local,
                 usm |-> clEnqueueWriteBufferRect_Usm,
                 shared |-> clEnqueueWriteBufferRect_Shared])

clEnqueueReadBuffer ==
  ByKind("ptr", [local |-> clEnqueueReadBuffer_Local,
                 usm |-> clEnqueueReadBuffer_Usm,
                 shared |-> clEnqueueReadBuffer_Shared])

clEnqueueReadBufferRect ==
  ByKind("ptr", [local |-> clEnqueueReadBufferRect_Local,
                 usm |-> clEnqueueReadBufferRect_Usm,
                 shared |-> clEnqueueReadBufferRect_Shared])

clEnqueueSVMMemcpy ==
  ByKinds("dst_ptr", "src_ptr",
    [local |-> [local |-> clEnqueueSVMMemcpy_Local_Local,
                usm |-> clEnqueueSVMMemcpy_Local_Usm,
                shared |-> clEnqueueSVMMemcpy_Local_Shared],
     usm |-> [local |-> clEnqueueSVMMemcpy_Usm_Local,
              usm |-> clEnqueueSVMMemcpy_Usm_Usm,
              shared |-> clEnqueueSVMMemcpy_Usm_Shared],
     shared |-> [local |-> clEnqueueSVMMemcpy_Shared_Local,
                 usm |-> clEnqueueSVMMemcpy_Shared_Usm,
                 shared |-> clEnqueueSVMMemcpy_Shared_Shared]])

clEnqueueMemcpyINTEL ==
  ByKinds("dstPtr", "srcPtr",
    [local |-> [local |-> clEnqueueMemcpyINTEL_Local_Local,
                usm |-> clEnqueueMemcpyINTEL_Local_Usm,
                shared |-> clEnqueueMemcpyINTEL_Local_Shared],
     usm |-> [local |-> clEnqueueMemcpyINTEL_Usm_Local,
              usm |-> clEnqueueMemcpyINTEL_Usm_Usm,
              shared |-> clEnqueueMemcpyINTEL_Usm_Shared],
     shared |-> [local |-> clEnqueueMemcpyINTEL_Shared_Local,
                 usm |-> clEnqueueMemcpyINTEL_Shared_Usm,
                 shared |-> clEnqueueMemcpyINTEL_Shared_Shared]])

-----------------------------------------------------------------------------
\* What an application calls.
OclEntries ==
  [clBuildProgram |-> Plain(clBuildProgram), clCloneKernel |-> Plain(clCloneKernel),
   clCompileProgram |-> Plain(clCompileProgram), clCreateBuffer |-> clCreateBuffer,
   clCreateBufferWithProperties |-> Plain(clCreateBufferWithProperties),
   clCreateCommandQueue |-> Plain(clCreateCommandQueue),
   clCreateCommandQueueWithProperties |-> Plain(clCreateCommandQueueWithProperties),
   clCreateContext |-> Plain(clCreateContextRpcHelper),
   clCreateContextFromType |-> Plain(clCreateContextFromTypeRpcHelper),
   clCreateImage |-> OfKinds(clCreateImage, "image_desc", {"plain", "object"}),
   clCreateImage2D |-> Plain(clCreateImage2D),
   clCreateImage3D |-> Plain(clCreateImage3D),
   clCreateImageWithProperties |->
     OfKinds(clCreateImageWithProperties, "image_desc", {"plain", "object"}),
   clCreateKernel |-> Plain(clCreateKernel),
   clCreateKernelsInProgram |-> Plain(clCreateKernelsInProgram),
   clCreatePipe |-> Plain(clCreatePipe),
   clCreateProgramWithBinary |-> Plain(clCreateProgramWithBinary),
   clCreateProgramWithBuiltInKernels |-> Plain(clCreateProgramWithBuiltInKernels),
   clCreateProgramWithIL |-> Plain(clCreateProgramWithIL),
   clCreateProgramWithSource |-> Plain(clCreateProgramWithSource),
   clCreateSampler |-> Plain(clCreateSampler),
   clCreateSamplerWithProperties |-> Plain(clCreateSamplerWithProperties),
   clCreateSubBuffer |-> Plain(clCreateSubBuffer),
   clCreateSubDevices |-> Plain(clCreateSubDevices),
   clCreateSubDevicesEXT |-> Plain(clCreateSubDevicesEXT),
   clCreateUserEvent |-> Plain(clCreateUserEvent),
   clDeviceMemAllocINTEL |-> Plain(clDeviceMemAllocINTEL),
   clEnqueueBarrier |-> Plain(clEnqueueBarrier),
   clEnqueueBarrierWithWaitList |-> Plain(clEnqueueBarrierWithWaitList),
   clEnqueueCopyBuffer |-> Plain(clEnqueueCopyBuffer),
   clEnqueueCopyBufferRect |-> Plain(clEnqueueCopyBufferRect),
   clEnqueueCopyBufferToImage |-> Plain(clEnqueueCopyBufferToImage),
   clEnqueueCopyImage |-> Plain(clEnqueueCopyImage),
   clEnqueueCopyImageToBuffer |-> Plain(clEnqueueCopyImageToBuffer),
   clEnqueueFillBuffer |-> Plain(clEnqueueFillBuffer),
   clEnqueueFillImage |-> Plain(clEnqueueFillImage), clEnqueueMapBuffer |-> clEnqueueMapBuffer,
   clEnqueueMarker |-> Plain(clEnqueueMarker),
   clEnqueueMarkerWithWaitList |-> Plain(clEnqueueMarkerWithWaitList),
   clEnqueueMemAdviseINTEL |-> Plain(clEnqueueMemAdviseINTEL),
   clEnqueueMemFillINTEL |-> Plain(clEnqueueMemFillINTEL),
   clEnqueueMemcpyINTEL |-> clEnqueueMemcpyINTEL,
   clEnqueueMigrateMemINTEL |-> Plain(clEnqueueMigrateMemINTEL),
   clEnqueueMigrateMemObjects |-> Plain(clEnqueueMigrateMemObjects),
   clEnqueueNDRangeKernel |-> Plain(clEnqueueNDRangeKernel),
   clEnqueueReadBuffer |-> clEnqueueReadBuffer,
   clEnqueueReadBufferRect |-> clEnqueueReadBufferRect,
   clEnqueueReadImage |-> OfKinds(clEnqueueReadImage, "ptr", PointerType),
   clEnqueueSVMFree |-> Plain(clEnqueueSVMFree), clEnqueueSVMMap |-> Plain(clEnqueueSVMMap),
   clEnqueueSVMMemFill |-> Plain(clEnqueueSVMMemFill), clEnqueueSVMMemcpy |-> clEnqueueSVMMemcpy,
   clEnqueueSVMMigrateMem |-> Plain(clEnqueueSVMMigrateMem),
   clEnqueueSVMUnmap |-> Plain(clEnqueueSVMUnmap), clEnqueueTask |-> Plain(clEnqueueTask),
   clEnqueueUnmapMemObject |-> clEnqueueUnmapMemObject,
   clEnqueueWaitForEvents |-> Plain(clEnqueueWaitForEvents),
   clEnqueueWriteBuffer |-> clEnqueueWriteBuffer,
   clEnqueueWriteBufferRect |-> clEnqueueWriteBufferRect,
   clEnqueueWriteImage |-> OfKinds(clEnqueueWriteImage, "ptr", PointerType),
   clFinish |-> Plain(clFinish), clFlush |-> Plain(clFlush),
   clGetCommandQueueInfo |-> Query(clGetCommandQueueInfo, {"CL_QUEUE_CONTEXT", "CL_QUEUE_DEVICE", "CL_QUEUE_DEVICE_DEFAULT"}),
   clGetContextInfo |-> Query(clGetContextInfo, {"CL_CONTEXT_DEVICES", "CL_CONTEXT_PROPERTIES"}),
   clGetDeviceAndHostTimer |-> Plain(clGetDeviceAndHostTimer),
   clGetDeviceGlobalVariablePointerINTEL |-> Plain(clGetDeviceGlobalVariablePointerINTEL),
   clGetDeviceIDs |-> Plain(clGetDeviceIDs),
   clGetDeviceInfo |-> Query(clGetDeviceInfo, {"CL_DEVICE_PLATFORM", "CL_DEVICE_PARENT_DEVICE"}),
   clGetEventInfo |-> Query(clGetEventInfo, {"CL_EVENT_COMMAND_QUEUE", "CL_EVENT_CONTEXT"}),
   clGetEventProfilingInfo |-> Plain(clGetEventProfilingInfo),
   clGetImageInfo |-> Query(clGetImageInfo, {"CL_IMAGE_BUFFER"}),
   clGetKernelArgInfo |-> Plain(clGetKernelArgInfo),
   clGetKernelInfo |-> Query(clGetKernelInfo, {"CL_KERNEL_CONTEXT", "CL_KERNEL_PROGRAM"}),
   clGetKernelSubGroupInfo |-> Plain(clGetKernelSubGroupInfo),
   clGetKernelSubGroupInfoKHR |-> Plain(clGetKernelSubGroupInfoKHR),
   clGetKernelSuggestedLocalWorkSizeKHR |-> Plain(clGetKernelSuggestedLocalWorkSizeKHR),
   clGetKernelWorkGroupInfo |-> Plain(clGetKernelWorkGroupInfo),
   clGetMemAllocInfoINTEL |-> Query(clGetMemAllocInfoINTEL, {"CL_MEM_ALLOC_DEVICE_INTEL"}),
   clGetMemObjectInfo |-> Query(clGetMemObjectInfo, {"CL_MEM_CONTEXT", "CL_MEM_ASSOCIATED_MEMOBJECT"}),
   clGetPipeInfo |-> Plain(clGetPipeInfo), clGetPlatformInfo |-> Plain(clGetPlatformInfo),
   clGetProgramBuildInfo |-> Plain(clGetProgramBuildInfo), clGetProgramInfo |-> clGetProgramInfo,
   clGetSamplerInfo |-> Query(clGetSamplerInfo, {"CL_SAMPLER_CONTEXT"}),
   clGetSupportedImageFormats |-> Plain(clGetSupportedImageFormats),
   clHostMemAllocINTEL |-> Plain(clHostMemAllocINTEL), clLinkProgram |-> Plain(clLinkProgram),
   clMemBlockingFreeINTEL |-> Plain(clMemBlockingFreeINTEL),
   clMemFreeINTEL |-> Plain(clMemFreeINTEL),
   clReleaseCommandQueue |-> Plain(clReleaseCommandQueue),
   clReleaseContext |-> Plain(clReleaseContext), clReleaseDevice |-> Plain(clReleaseDevice),
   clReleaseDeviceEXT |-> Plain(clReleaseDeviceEXT), clReleaseEvent |-> Plain(clReleaseEvent),
   clReleaseKernel |-> Plain(clReleaseKernel), clReleaseMemObject |-> Plain(clReleaseMemObject),
   clReleaseProgram |-> Plain(clReleaseProgram), clReleaseSampler |-> Plain(clReleaseSampler),
   clRetainCommandQueue |-> Plain(clRetainCommandQueue),
   clRetainContext |-> Plain(clRetainContext), clRetainDevice |-> Plain(clRetainDevice),
   clRetainDeviceEXT |-> Plain(clRetainDeviceEXT), clRetainEvent |-> Plain(clRetainEvent),
   clRetainKernel |-> Plain(clRetainKernel), clRetainMemObject |-> Plain(clRetainMemObject),
   clRetainProgram |-> Plain(clRetainProgram), clRetainSampler |-> Plain(clRetainSampler),
   clSVMAlloc |-> Plain(clSVMAlloc), clSVMFree |-> Plain(clSVMFree),
   clSetContextDestructorCallback |-> Plain(clSetContextDestructorCallback),
   clSetDefaultDeviceCommandQueue |-> Plain(clSetDefaultDeviceCommandQueue),
   clSetEventCallback |-> Plain(clSetEventCallback), clSetKernelArg |-> clSetKernelArg,
   clSetKernelArgMemPointerINTEL |-> Plain(clSetKernelArgMemPointerINTEL),
   clSetKernelArgSVMPointer |-> Plain(clSetKernelArgMemPointerINTEL),
   clSetKernelExecInfo |-> Plain(clSetKernelExecInfo),
   clSetMemObjectDestructorCallback |-> Plain(clSetMemObjectDestructorCallback),
   clSetProgramReleaseCallback |-> Plain(clSetProgramReleaseCallback),
   clSetProgramSpecializationConstant |-> Plain(clSetProgramSpecializationConstant),
   clSetUserEventStatus |-> Plain(clSetUserEventStatus),
   clSharedMemAllocINTEL |-> clSharedMemAllocINTEL,
   clWaitForEvents |-> Plain(clWaitForEventsRpcHelper)]
==============================================================================
