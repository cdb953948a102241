----------------------------- MODULE OclMessages -----------------------------
(*****************************************************************************)
(* The RPC messages of OpenCL (generated_rpc_messages_ocl.h): one            *)
(* definition per struct, for its Args, its Captures, copyFromCaller and     *)
(* copyToCaller.                                                             *)
(*****************************************************************************)
EXTENDS ApiTables

ClGetPlatformIDsRpcM ==
  Message(0, [num_entries |-> Value, platforms |-> OutHandles, num_platforms |-> Out],
             {}, {"platforms", "num_platforms"})

ClGetPlatformInfoRpcM ==
  Message(1, [platform |-> Handle, param_name |-> Value, param_value_size |-> Value,
              param_value |-> Out, param_value_size_ret |-> Out],
             {}, {"param_value", "param_value_size_ret"})

ClGetDeviceIDsRpcM ==
  Message(2, [platform |-> Handle, device_type |-> Value, num_entries |-> Value,
              devices |-> OutHandles, num_devices |-> Out], {}, {"devices", "num_devices"})

ClGetDeviceInfoRpcM ==
  Message(3, [device |-> Handle, param_name |-> Value, param_value_size |-> Value,
              param_value |-> Info, param_value_size_ret |-> Out],
             {}, {"param_value", "param_value_size_ret"})

ClCreateContextRpcM ==
  [Message(4, [properties |-> InHandles, num_devices |-> Value, devices |-> InHandles,
               pfn_notify |-> Value, user_data |-> Value, errcode_ret |-> Out,
               error_info |-> Value], {"properties", "devices"}, {"errcode_ret"})
     EXCEPT !.required = {"devices", "error_info"}, !.returns = "remote"]

ClCreateContextFromTypeRpcM ==
  [Message(5, [properties |-> InHandles, device_type |-> Value, pfn_notify |-> Value,
               user_data |-> Value, errcode_ret |-> Out, error_info |-> Value],
              {"properties"}, {"errcode_ret"})
     EXCEPT !.required = {"error_info"}, !.returns = "remote"]

ClGetContextInfoRpcM ==
  Message(6, [context |-> Handle, param_name |-> Value, param_value_size |-> Value,
              param_value |-> Info, param_value_size_ret |-> Out],
             {}, {"param_value", "param_value_size_ret"})

ClSetContextDestructorCallbackRpcM ==
  Message(7, [context |-> Handle, pfn_notify |-> Value, user_data |-> Value], {}, {})

ClSetMemObjectDestructorCallbackRpcM ==
  Message(8, [memobj |-> Handle, pfn_notify |-> Value, user_data |-> Value], {}, {})

ClCreateSubDevicesRpcM ==
  Message(9, [in_device |-> Handle, properties |-> In, num_devices |-> Value,
              out_devices |-> OutHandles, num_devices_ret |-> Out],
             {"properties"}, {"out_devices", "num_devices_ret"})

ClCreateCommandQueueRpcM ==
  [Message(10, [context |-> Handle, device |-> Handle, properties |-> Value,
                errcode_ret |-> Out], {}, {"errcode_ret"})
     EXCEPT !.returns = "remote"]

ClSetDefaultDeviceCommandQueueRpcM ==
  Message(11, [context |-> Handle, device |-> Handle, command_queue |-> Handle], {}, {})

ClCreateCommandQueueWithPropertiesRpcM ==
  [Message(12, [context |-> Handle, device |-> Handle, properties |-> In, errcode_ret |-> Out],
               {"properties"}, {"errcode_ret"})
     EXCEPT !.returns = "remote"]

ClCreateProgramWithSourceRpcM ==
  [Message(13, [context |-> Handle, count |-> Value, strings |-> In, lengths |-> In,
                errcode_ret |-> Out], {"strings", "lengths"}, {"errcode_ret"})
     EXCEPT !.returns = "remote"]

ClCreateProgramWithILRpcM ==
  [Message(14, [context |-> Handle, il |-> In, length |-> Value, errcode_ret |-> Out],
               {"il"}, {"errcode_ret"})
     EXCEPT !.returns = "remote"]

ClCreateProgramWithBinaryRpcM ==
  [Message(15, [context |-> Handle, num_devices |-> Value, device_list |-> InHandles,
                lengths |-> In, binaries |-> In, binary_status |-> Out, errcode_ret |-> Out],
               {"device_list", "lengths", "binaries"}, {"binary_status", "errcode_ret"})
     EXCEPT !.returns = "remote"]

ClCreateProgramWithBuiltInKernelsRpcM ==
  [Message(16, [context |-> Handle, num_devices |-> Value, device_list |-> InHandles,
                kernel_names |-> In, errcode_ret |-> Out],
               {"device_list", "kernel_names"}, {"errcode_ret"})
     EXCEPT !.returns = "remote"]

ClBuildProgramRpcM ==
  Message(17, [program |-> Handle, num_devices |-> Value, device_list |-> InHandles,
               options |-> In, pfn_notify |-> Value, user_data |-> Value],
              {"device_list", "options"}, {})

ClCompileProgramRpcM ==
  Message(18, [program |-> Handle, num_devices |-> Value, device_list |-> InHandles,
               options |-> In, num_input_headers |-> Value, input_headers |-> InHandles,
               header_include_names |-> In, pfn_notify |-> Value, user_data |-> Value],
              {"device_list", "options", "input_headers", "header_include_names"}, {})

ClLinkProgramRpcM ==
  [Message(19, [context |-> Handle, num_devices |-> Value, device_list |-> InHandles,
                options |-> In, num_input_programs |-> Value, input_programs |-> InHandles,
                pfn_notify |-> Value, user_data |-> Value, errcode_ret |-> Out],
               {"device_list", "options", "input_programs"}, {"errcode_ret"})
     EXCEPT !.returns = "remote"]

ClGetProgramBuildInfoRpcM ==
  Message(20, [program |-> Handle, device |-> Handle, param_name |-> Value,
               param_value_size |-> Value, param_value |-> Out, param_value_size_ret |-> Out],
              {}, {"param_value", "param_value_size_ret"})

ClSetProgramReleaseCallbackRpcM ==
  Message(21, [program |-> Handle, pfn_notify |-> Value, user_data |-> Value], {}, {})

ClCreateKernelRpcM ==
  [Message(22, [program |-> Handle, kernel_name |-> In, errcode_ret |-> Out],
               {"kernel_name"}, {"errcode_ret"})
     EXCEPT !.returns = "remote"]

ClCloneKernelRpcM ==
  [Message(23, [source_kernel |-> Handle, errcode_ret |-> Out], {}, {"errcode_ret"})
     EXCEPT !.returns = "remote"]

ClCreateKernelsInProgramRpcM ==
  Message(24, [program |-> Handle, num_kernels |-> Value, kernels |-> OutHandles,
               num_kernels_ret |-> Out], {}, {"kernels", "num_kernels_ret"})

ClGetCommandQueueInfoRpcM ==
  Message(25, [command_queue |-> Handle, param_name |-> Value, param_value_size |-> Value,
               param_value |-> Info, param_value_size_ret |-> Out],
              {}, {"param_value", "param_value_size_ret"})

ClGetProgramInfoRpcHelperRpcM ==
  Message(26, [program |-> Handle, param_name |-> Value, param_value_size |-> Value,
               param_value |-> Info, param_value_size_ret |-> Out],
              {}, {"param_value", "param_value_size_ret"})

ClGetProgramInfoGetBinariesRpcHelperRpcM ==
  Message(27, [program |-> Handle, total_binaries_size |-> Value, concatenated_binaries |-> Out,
               binaries_count |-> Value, binaries_lengths |-> In, param_value_size_ret |-> Out],
              {"binaries_lengths"}, {"concatenated_binaries", "param_value_size_ret"})

ClGetMemObjectInfoRpcM ==
  Message(28, [memobj |-> Handle, param_name |-> Value, param_value_size |-> Value,
               param_value |-> Info, param_value_size_ret |-> Out],
              {}, {"param_value", "param_value_size_ret"})

ClGetImageInfoRpcM ==
  Message(29, [image |-> Handle, param_name |-> Value, param_value_size |-> Value,
               param_value |-> Info, param_value_size_ret |-> Out],
              {}, {"param_value", "param_value_size_ret"})

ClGetSamplerInfoRpcM ==
  Message(30, [sampler |-> Handle, param_name |-> Value, param_value_size |-> Value,
               param_value |-> Info, param_value_size_ret |-> Out],
              {}, {"param_value", "param_value_size_ret"})

ClGetKernelInfoRpcM ==
  Message(31, [kernel |-> Handle, param_name |-> Value, param_value_size |-> Value,
               param_value |-> Info, param_value_size_ret |-> Out],
              {}, {"param_value", "param_value_size_ret"})

ClGetKernelWorkGroupInfoRpcM ==
  Message(32, [kernel |-> Handle, device |-> Handle, param_name |-> Value,
               param_value_size |-> Value, param_value |-> Out, param_value_size_ret |-> Out],
              {}, {"param_value", "param_value_size_ret"})

ClGetKernelArgInfoRpcM ==
  Message(33, [kernel |-> Handle, arg_indx |-> Value, param_name |-> Value,
               param_value_size |-> Value, param_value |-> Out, param_value_size_ret |-> Out],
              {}, {"param_value", "param_value_size_ret"})

ClGetKernelSubGroupInfoRpcM ==
  Message(34, [kernel |-> Handle, device |-> Handle, param_name |-> Value,
               input_value_size |-> Value, input_value |-> In, param_value_size |-> Value,
               param_value |-> Out, param_value_size_ret |-> Out],
              {"input_value"}, {"param_value", "param_value_size_ret"})

ClReleaseCommandQueueRpcM ==
  Message(35, [command_queue |-> Handle], {}, {})

ClReleaseContextRpcM ==
  Message(36, [context |-> Handle], {}, {})

ClReleaseDeviceRpcM ==
  Message(37, [device |-> Handle], {}, {})

ClReleaseKernelRpcM ==
  Message(38, [kernel |-> Handle], {}, {})

ClReleaseSamplerRpcM ==
  Message(39, [sampler |-> Handle], {}, {})

ClReleaseProgramRpcM ==
  Message(40, [program |-> Handle], {}, {})

ClReleaseMemObjectRpcM ==
  Message(41, [memobj |-> Handle], {}, {})

ClReleaseEventRpcM ==
  Message(42, [event |-> Handle], {}, {})

ClRetainCommandQueueRpcM ==
  Message(43, [command_queue |-> Handle], {}, {})

ClRetainContextRpcM ==
  Message(44, [context |-> Handle], {}, {})

ClRetainDeviceRpcM ==
  Message(45, [device |-> Handle], {}, {})

ClRetainProgramRpcM ==
  Message(46, [program |-> Handle], {}, {})

ClRetainMemObjectRpcM ==
  Message(47, [memobj |-> Handle], {}, {})

ClRetainSamplerRpcM ==
  Message(48, [sampler |-> Handle], {}, {})

ClRetainKernelRpcM ==
  Message(49, [kernel |-> Handle], {}, {})

ClRetainEventRpcM ==
  Message(50, [event |-> Handle], {}, {})

ClFlushRpcM ==
  Message(51, [command_queue |-> Handle], {}, {})

ClFinishRpcM ==
  Message(52, [command_queue |-> Handle], {}, {})

ClEnqueueNDRangeKernelRpcM ==
  Message(53, [command_queue |-> Handle, kernel |-> Handle, work_dim |-> Value,
               global_work_offset |-> In, global_work_size |-> In, local_work_size |-> In,
               num_events_in_wait_list |-> Value, event_wait_list |-> InHandles,
               event |-> OutHandles],
              {"global_work_offset", "global_work_size", "local_work_size", "event_wait_list"},
              {"event"})

ClEnqueueTaskRpcM ==
  Message(54, [command_queue |-> Handle, kernel |-> Handle, num_events_in_wait_list |-> Value,
               event_wait_list |-> InHandles, event |-> OutHandles],
              {"event_wait_list"}, {"event"})

ClEnqueueMarkerWithWaitListRpcM ==
  Message(55, [command_queue |-> Handle, num_events_in_wait_list |-> Value,
               event_wait_list |-> InHandles, event |-> OutHandles],
              {"event_wait_list"}, {"event"})

ClEnqueueMarkerRpcM ==
  Message(56, [command_queue |-> Handle, event |-> OutHandles], {}, {"event"})

ClEnqueueBarrierWithWaitListRpcM ==
  Message(57, [command_queue |-> Handle, num_events_in_wait_list |-> Value,
               event_wait_list |-> InHandles, event |-> OutHandles],
              {"event_wait_list"}, {"event"})

ClEnqueueBarrierRpcM ==
  Message(58, [command_queue |-> Handle], {}, {})

ClEnqueueWaitForEventsRpcM ==
  Message(59, [command_queue |-> Handle, num_events |-> Value, event_list |-> InHandles],
              {"event_list"}, {})

ClEnqueueMigrateMemObjectsRpcM ==
  Message(60, [command_queue |-> Handle, num_mem_objects |-> Value, mem_objects |-> InHandles,
               flags |-> Value, num_events_in_wait_list |-> Value,
               event_wait_list |-> InHandles, event |-> OutHandles],
              {"mem_objects", "event_wait_list"}, {"event"})

ClCreateBufferRpcHelperUseHostPtrZeroCopyMallocShmemRpcM ==
  [Message(61, [context |-> Handle, flags |-> Value, size |-> Value, host_ptr |-> Source,
                errcode_ret |-> Out], {}, {"errcode_ret"})
     EXCEPT !.returns = "remote"]

ClCreateBufferRpcHelperNotUseHostPtrZeroCopyMallocShmemRpcM ==
  [Message(62, [context |-> Handle, flags |-> Value, size |-> Value, host_ptr |-> Source,
                errcode_ret |-> Out], {"host_ptr"}, {"errcode_ret"})
     EXCEPT !.returns = "remote"]

ClCreateSubBufferRpcM ==
  [Message(63, [buffer |-> Handle, flags |-> Value, buffer_create_type |-> Value,
                buffer_create_info |-> In, errcode_ret |-> Out],
               {"buffer_create_info"}, {"errcode_ret"})
     EXCEPT !.returns = "remote"]

ClCreatePipeRpcM ==
  [Message(64, [context |-> Handle, flags |-> Value, pipe_packet_size |-> Value,
                pipe_max_packets |-> Value, properties |-> In, errcode_ret |-> Out],
               {"properties"}, {"errcode_ret"})
     EXCEPT !.returns = "remote"]

ClGetPipeInfoRpcM ==
  Message(65, [pipe |-> Handle, param_name |-> Value, param_value_size |-> Value,
               param_value |-> Out, param_value_size_ret |-> Out],
              {}, {"param_value", "param_value_size_ret"})

ClCreateImageRpcM ==
  [Message(66, [context |-> Handle, flags |-> Value, image_format |-> In,
                image_desc |-> Argument, host_ptr |-> In, errcode_ret |-> Out],
               {"image_format", "image_desc", "host_ptr"}, {"errcode_ret"})
     EXCEPT !.returns = "remote"]

ClCreateImage2DRpcM ==
  [Message(67, [context |-> Handle, flags |-> Value, image_format |-> In, image_width |-> Value,
                image_height |-> Value, image_row_pitch |-> Value, host_ptr |-> In,
                errcode_ret |-> Out], {"image_format", "host_ptr"}, {"errcode_ret"})
     EXCEPT !.returns = "remote"]

ClCreateImage3DRpcM ==
  [Message(68, [context |-> Handle, flags |-> Value, image_format |-> In, image_width |-> Value,
                image_height |-> Value, image_depth |-> Value, image_row_pitch |-> Value,
                image_slice_pitch |-> Value, host_ptr |-> In, errcode_ret |-> Out],
               {"image_format", "host_ptr"}, {"errcode_ret"})
     EXCEPT !.returns = "remote"]

ClCreateSamplerRpcM ==
  [Message(69, [context |-> Handle, normalized_coords |-> Value, addressing_mode |-> Value,
                filter_mode |-> Value, errcode_ret |-> Out], {}, {"errcode_ret"})
     EXCEPT !.returns = "remote"]

ClCreateSamplerWithPropertiesRpcM ==
  [Message(70, [context |-> Handle, properties |-> In, errcode_ret |-> Out],
               {"properties"}, {"errcode_ret"})
     EXCEPT !.returns = "remote"]

ClCreateImageWithPropertiesRpcM ==
  [Message(71, [context |-> Handle, properties |-> In, flags |-> Value, image_format |-> In,
                image_desc |-> Argument, host_ptr |-> In, errcode_ret |-> Out],
               {"properties", "image_format", "image_desc", "host_ptr"}, {"errcode_ret"})
     EXCEPT !.returns = "remote"]

ClCreateBufferWithPropertiesRpcM ==
  [Message(72, [context |-> Handle, properties |-> In, flags |-> Value, size |-> Value,
                host_ptr |-> In, errcode_ret |-> Out],
               {"properties", "host_ptr"}, {"errcode_ret"})
     EXCEPT !.returns = "remote"]

ClGetSupportedImageFormatsRpcM ==
  Message(73, [context |-> Handle, flags |-> Value, image_type |-> Value, num_entries |-> Value,
               image_formats |-> Out, num_image_formats |-> Out],
              {}, {"image_formats", "num_image_formats"})

ClSetKernelArgRpcM ==
  Message(74, [kernel |-> Handle, arg_index |-> Value, arg_size |-> Value,
               arg_value |-> Argument], {"arg_value"}, {})

ClSetProgramSpecializationConstantRpcM ==
  Message(75, [program |-> Handle, spec_id |-> Value, spec_size |-> Value, spec_value |-> In],
              {"spec_value"}, {})

ClEnqueueWriteBufferRpcM ==
  Message(76, [command_queue |-> Handle, buffer |-> Handle, blocking_write |-> Value,
               offset |-> Value, size |-> Value, ptr |-> Source,
               num_events_in_wait_list |-> Value, event_wait_list |-> InHandles,
               event |-> OutHandles], {"event_wait_list"}, {"event"})

ClEnqueueWriteBufferRectRpcM ==
  Message(77, [command_queue |-> Handle, buffer |-> Handle, blocking_write |-> Value,
               buffer_origin |-> In, host_origin |-> In, region |-> In,
               buffer_row_pitch |-> Value, buffer_slice_pitch |-> Value,
               host_row_pitch |-> Value, host_slice_pitch |-> Value, ptr |-> Source,
               num_events_in_wait_list |-> Value, event_wait_list |-> InHandles,
               event |-> OutHandles],
              {"buffer_origin", "host_origin", "region", "event_wait_list"}, {"event"})

ClEnqueueReadBufferRpcM ==
  Message(78, [command_queue |-> Handle, buffer |-> Handle, blocking_read |-> Value,
               offset |-> Value, size |-> Value, ptr |-> Destination,
               num_events_in_wait_list |-> Value, event_wait_list |-> InHandles,
               event |-> OutHandles], {"event_wait_list"}, {"event"})

ClEnqueueReadBufferRectRpcM ==
  Message(79, [command_queue |-> Handle, buffer |-> Handle, blocking_read |-> Value,
               buffer_origin |-> In, host_origin |-> In, region |-> In,
               buffer_row_pitch |-> Value, buffer_slice_pitch |-> Value,
               host_row_pitch |-> Value, host_slice_pitch |-> Value, ptr |-> Destination,
               num_events_in_wait_list |-> Value, event_wait_list |-> InHandles,
               event |-> OutHandles],
              {"buffer_origin", "host_origin", "region", "event_wait_list"}, {"event"})

ClEnqueueCopyBufferRpcM ==
  Message(80, [command_queue |-> Handle, src_buffer |-> Handle, dst_buffer |-> Handle,
               src_offset |-> Value, dst_offset |-> Value, size |-> Value,
               num_events_in_wait_list |-> Value, event_wait_list |-> InHandles,
               event |-> OutHandles], {"event_wait_list"}, {"event"})

ClEnqueueCopyBufferRectRpcM ==
  Message(81, [command_queue |-> Handle, src_buffer |-> Handle, dst_buffer |-> Handle,
               src_origin |-> In, dst_origin |-> In, region |-> In, src_row_pitch |-> Value,
               src_slice_pitch |-> Value, dst_row_pitch |-> Value, dst_slice_pitch |-> Value,
               num_events_in_wait_list |-> Value, event_wait_list |-> InHandles,
               event |-> OutHandles],
              {"src_origin", "dst_origin", "region", "event_wait_list"}, {"event"})

ClEnqueueReadImageRpcM ==
  Message(82, [command_queue |-> Handle, image |-> Handle, blocking_read |-> Value,
               src_origin |-> In, region |-> In, row_pitch |-> Value, slice_pitch |-> Value,
               ptr |-> Destination, num_events_in_wait_list |-> Value,
               event_wait_list |-> InHandles, event |-> OutHandles],
              {"src_origin", "region", "event_wait_list"}, {"event"})

ClEnqueueWriteImageRpcM ==
  Message(83, [command_queue |-> Handle, image |-> Handle, blocking_write |-> Value,
               origin |-> In, region |-> In, input_row_pitch |-> Value,
               input_slice_pitch |-> Value, ptr |-> Source, num_events_in_wait_list |-> Value,
               event_wait_list |-> InHandles, event |-> OutHandles],
              {"origin", "region", "event_wait_list"}, {"event"})

ClEnqueueCopyImageRpcM ==
  Message(84, [command_queue |-> Handle, src_image |-> Handle, dst_image |-> Handle,
               src_origin |-> In, dst_origin |-> In, region |-> In,
               num_events_in_wait_list |-> Value, event_wait_list |-> InHandles,
               event |-> OutHandles],
              {"src_origin", "dst_origin", "region", "event_wait_list"}, {"event"})

ClEnqueueCopyImageToBufferRpcM ==
  Message(85, [command_queue |-> Handle, src_image |-> Handle, dst_buffer |-> Handle,
               src_origin |-> In, region |-> In, dst_offset |-> Value,
               num_events_in_wait_list |-> Value, event_wait_list |-> InHandles,
               event |-> OutHandles], {"src_origin", "region", "event_wait_list"}, {"event"})

ClEnqueueCopyBufferToImageRpcM ==
  Message(86, [command_queue |-> Handle, src_buffer |-> Handle, dst_image |-> Handle,
               src_offset |-> Value, dst_origin |-> In, region |-> In,
               num_events_in_wait_list |-> Value, event_wait_list |-> InHandles,
               event |-> OutHandles], {"dst_origin", "region", "event_wait_list"}, {"event"})

ClEnqueueMapBufferRpcM ==
  Message(87, [command_queue |-> Handle, buffer |-> Handle, blocking_map |-> Value,
               map_flags |-> Value, offset |-> Value, cb |-> Value,
               num_events_in_wait_list |-> Value, event_wait_list |-> InHandles,
               event |-> OutHandles, errcode_ret |-> Out],
              {"event_wait_list"}, {"event", "errcode_ret"})

ClEnqueueUnmapMemObjectRpcM ==
  Message(88, [command_queue |-> Handle, memobj |-> Handle, mapped_ptr |-> Value,
               num_events_in_wait_list |-> Value, event_wait_list |-> InHandles,
               event |-> OutHandles], {"event_wait_list"}, {"event"})

ClEnqueueFillBufferRpcM ==
  Message(89, [command_queue |-> Handle, memobj |-> Handle, pattern |-> In,
               patternSize |-> Value, offset |-> Value, size |-> Value,
               num_events_in_wait_list |-> Value, event_wait_list |-> InHandles,
               event |-> OutHandles], {"pattern", "event_wait_list"}, {"event"})

ClEnqueueFillImageRpcM ==
  Message(90, [command_queue |-> Handle, image |-> Handle, fill_color |-> In, origin |-> In,
               region |-> In, num_events_in_wait_list |-> Value, event_wait_list |-> InHandles,
               event |-> OutHandles],
              {"fill_color", "origin", "region", "event_wait_list"}, {"event"})

ClWaitForEventsRpcM ==
  Message(91, [num_events |-> Value, event_list |-> InHandles], {"event_list"}, {})

ClGetEventInfoRpcM ==
  Message(92, [event |-> Handle, param_name |-> Value, param_value_size |-> Value,
               param_value |-> Info, param_value_size_ret |-> Out],
              {}, {"param_value", "param_value_size_ret"})

ClGetEventProfilingInfoRpcM ==
  Message(93, [event |-> Handle, param_name |-> Value, param_value_size |-> Value,
               param_value |-> Out, param_value_size_ret |-> Out],
              {}, {"param_value", "param_value_size_ret"})

ClCreateUserEventRpcM ==
  [Message(94, [context |-> Handle, errcode_ret |-> Out], {}, {"errcode_ret"})
     EXCEPT !.returns = "remote"]

ClSetUserEventStatusRpcM ==
  Message(95, [event |-> Handle, execution_status |-> Value], {}, {})

ClSetEventCallbackRpcM ==
  Message(96, [event |-> Handle, command_exec_callback_type |-> Value, pfn_notify |-> Value,
               user_data |-> Value], {}, {})

ClGetDeviceAndHostTimerRpcM ==
  Message(97, [device |-> Handle, device_timestamp |-> Out, host_timestamp |-> Out],
              {}, {"device_timestamp", "host_timestamp"})

ClGetHostTimerRpcM ==
  Message(98, [device |-> Handle, host_timestamp |-> Out], {}, {"host_timestamp"})

ClSVMAllocRpcM ==
  [Message(99, [context |-> Handle, flags |-> Value, size |-> Value, alignment |-> Value,
                shmem_resource |-> Out, offset_within_resource |-> Out, aligned_size |-> Out],
               {}, {"shmem_resource", "offset_within_resource", "aligned_size"})
     EXCEPT !.required = {"shmem_resource", "offset_within_resource", "aligned_size"}]

ClSVMFreeRpcM ==
  Message(100, [context |-> Handle, ptr |-> Value], {}, {})

ClEnqueueSVMMapRpcM ==
  Message(101, [command_queue |-> Handle, blocking_map |-> Value, map_flags |-> Value,
                svm_ptr |-> Value, size |-> Value, num_events_in_wait_list |-> Value,
                event_wait_list |-> InHandles, event |-> OutHandles],
               {"event_wait_list"}, {"event"})

ClEnqueueSVMUnmapRpcM ==
  Message(102, [command_queue |-> Handle, svm_ptr |-> Value, num_events_in_wait_list |-> Value,
                event_wait_list |-> InHandles, event |-> OutHandles],
               {"event_wait_list"}, {"event"})

ClSetKernelArgSVMPointerRpcM ==
  Message(103, [kernel |-> Handle, argIndex |-> Value, argValue |-> Value], {}, {})

ClSetKernelExecInfoRpcM ==
  Message(104, [kernel |-> Handle, param_name |-> Value, param_value_size |-> Value,
                param_value |-> In], {"param_value"}, {})

ClEnqueueSVMMemFillRpcM ==
  Message(105, [command_queue |-> Handle, svm_ptr |-> Destination, pattern |-> In,
                patternSize |-> Value, size |-> Value, num_events_in_wait_list |-> Value,
                event_wait_list |-> InHandles, event |-> OutHandles],
               {"pattern", "event_wait_list"}, {"event"})

ClEnqueueSVMMigrateMemRpcM ==
  Message(106, [command_queue |-> Handle, num_svm_pointers |-> Value, svm_pointers |-> In,
                sizes |-> In, flags |-> Value, num_events_in_wait_list |-> Value,
                event_wait_list |-> InHandles, event |-> OutHandles],
               {"svm_pointers", "sizes", "event_wait_list"}, {"event"})

ClEnqueueSVMMemcpyRpcM ==
  Message(107, [command_queue |-> Handle, blocking |-> Value, dst_ptr |-> Destination,
                src_ptr |-> Source, size |-> Value, num_events_in_wait_list |-> Value,
                event_wait_list |-> InHandles, event |-> OutHandles],
               {"event_wait_list"}, {"event"})

ClEnqueueSVMFreeRpcM ==
  Message(108, [command_queue |-> Handle, num_svm_pointers |-> Value, svm_pointers |-> In,
                pfn_notify |-> Value, user_data |-> Value, num_events_in_wait_list |-> Value,
                event_wait_list |-> InHandles, event |-> OutHandles],
               {"svm_pointers", "event_wait_list"}, {"event"})

ClCreateSubDevicesEXTRpcM ==
  Message(109, [in_device |-> Handle, properties |-> In, num_entries |-> Value,
                out_devices |-> OutHandles, num_devices |-> Out],
               {"properties"}, {"out_devices", "num_devices"})

ClReleaseDeviceEXTRpcM ==
  Message(110, [device |-> Handle], {}, {})

ClRetainDeviceEXTRpcM ==
  Message(111, [device |-> Handle], {}, {})

ClGetKernelSubGroupInfoKHRRpcM ==
  Message(112, [kernel |-> Handle, device |-> Handle, param_name |-> Value,
                input_value_size |-> Value, input_value |-> In, param_value_size |-> Value,
                param_value |-> Out, param_value_size_ret |-> Out],
               {"input_value"}, {"param_value", "param_value_size_ret"})

ClGetKernelSuggestedLocalWorkSizeKHRRpcM ==
  Message(113, [command_queue |-> Handle, kernel |-> Handle, work_dim |-> Value,
                global_work_offset |-> In, global_work_size |-> In,
                suggested_local_work_size |-> Out],
               {"global_work_offset", "global_work_size"}, {"suggested_local_work_size"})

ClCreateCommandQueueWithPropertiesKHRRpcM ==
  [Message(114, [context |-> Handle, device |-> Handle, properties |-> In, errcode_ret |-> Out],
                {"properties"}, {"errcode_ret"})
     EXCEPT !.returns = "remote"]

ClEnqueueMemFillINTELRpcM ==
  Message(115, [command_queue |-> Handle, dstPtr |-> Destination, pattern |-> In,
                patternSize |-> Value, size |-> Value, num_events_in_wait_list |-> Value,
                event_wait_list |-> InHandles, event |-> OutHandles],
               {"pattern", "event_wait_list"}, {"event"})

ClEnqueueMemcpyINTELRpcM ==
  Message(116, [command_queue |-> Handle, blocking |-> Value, dstPtr |-> Destination,
                srcPtr |-> Source, size |-> Value, num_events_in_wait_list |-> Value,
                event_wait_list |-> InHandles, event |-> OutHandles],
               {"event_wait_list"}, {"event"})

ClSetKernelArgMemPointerINTELRpcM ==
  Message(117, [kernel |-> Handle, argIndex |-> Value, argValue |-> Value], {}, {})

ClGetMemAllocInfoINTELRpcM ==
  Message(118, [context |-> Handle, ptr |-> Value, param_name |-> Value,
                param_value_size |-> Value, param_value |-> Info, param_value_size_ret |-> Out],
               {}, {"param_value", "param_value_size_ret"})

ClDeviceMemAllocINTELRpcM ==
  Message(119, [context |-> Handle, device |-> Handle, properties |-> In, size |-> Value,
                alignment |-> Value, errcode_ret |-> Out], {"properties"}, {"errcode_ret"})

ClHostMemAllocINTELRpcM ==
  [Message(120, [context |-> Handle, properties |-> In, size |-> Value, alignment |-> Value,
                 errcode_ret |-> Out, shmem_resource |-> Out, offset_within_resource |-> Out,
                 aligned_size |-> Out],
                {"properties"},
                {"errcode_ret", "shmem_resource", "offset_within_resource", "aligned_size"})
     EXCEPT !.required = {"shmem_resource", "offset_within_resource", "aligned_size"}]

ClSharedMemAllocINTELRpcM ==
  [Message(121, [context |-> Handle, device |-> Handle, properties |-> In, size |-> Value,
                 alignment |-> Value, errcode_ret |-> Out, shmem_resource |-> Out,
                 offset_within_resource |-> Out, aligned_size |-> Out],
                {"properties"},
                {"errcode_ret", "shmem_resource", "offset_within_resource", "aligned_size"})
     EXCEPT !.required = {"shmem_resource", "offset_within_resource", "aligned_size"}]

ClMemFreeINTELRpcM ==
  Message(122, [context |-> Handle, ptr |-> Value], {}, {})

ClMemBlockingFreeINTELRpcM ==
  Message(123, [context |-> Handle, ptr |-> Value], {}, {})

ClEnqueueMigrateMemINTELRpcM ==
  Message(124, [command_queue |-> Handle, ptr |-> Value, size |-> Value, flags |-> Value,
                num_events_in_wait_list |-> Value, event_wait_list |-> InHandles,
                event |-> OutHandles], {"event_wait_list"}, {"event"})

ClEnqueueMemAdviseINTELRpcM ==
  Message(125, [command_queue |-> Handle, ptr |-> Value, size |-> Value, advice |-> Value,
                num_events_in_wait_list |-> Value, event_wait_list |-> InHandles,
                event |-> OutHandles], {"event_wait_list"}, {"event"})

ClGetDeviceGlobalVariablePointerINTELRpcM ==
  Message(126, [device |-> Handle, program |-> Handle, globalVariableName |-> In,
                globalVariableSizeRet |-> Out, globalVariablePointerRet |-> Out],
               {"globalVariableName"}, {"globalVariableSizeRet", "globalVariablePointerRet"})

ClCreateBufferRpcHelperNotUseHostPtrZeroCopyMallocShmem_UsmRpcM ==
  [Message(127, [context |-> Handle, flags |-> Value, size |-> Value, host_ptr |-> Source,
                 errcode_ret |-> Out], {}, {"errcode_ret"})
     EXCEPT !.returns = "remote"]

ClEnqueueWriteBuffer_LocalRpcM ==
  Message(128, [command_queue |-> Handle, buffer |-> Handle, blocking_write |-> Value,
                offset |-> Value, size |-> Value, ptr |-> Source,
                num_events_in_wait_list |-> Value, event_wait_list |-> InHandles,
                event |-> OutHandles], {"event_wait_list"}, {"event"})

ClEnqueueWriteBuffer_UsmRpcM ==
  Message(129, [command_queue |-> Handle, buffer |-> Handle, blocking_write |-> Value,
                offset |-> Value, size |-> Value, ptr |-> Source,
                num_events_in_wait_list |-> Value, event_wait_list |-> InHandles,
                event |-> OutHandles], {"event_wait_list"}, {"event"})

ClEnqueueWriteBuffer_SharedRpcM ==
  Message(130, [command_queue |-> Handle, buffer |-> Handle, blocking_write |-> Value,
                offset |-> Value, size |-> Value, ptr |-> Source,
                num_events_in_wait_list |-> Value, event_wait_list |-> InHandles,
                event |-> OutHandles], {"event_wait_list"}, {"event"})

ClEnqueueWriteBufferRect_LocalRpcM ==
  Message(131, [command_queue |-> Handle, buffer |-> Handle, blocking_write |-> Value,
                buffer_origin |-> In, host_origin |-> In, region |-> In,
                buffer_row_pitch |-> Value, buffer_slice_pitch |-> Value,
                host_row_pitch |-> Value, host_slice_pitch |-> Value, ptr |-> Source,
                num_events_in_wait_list |-> Value, event_wait_list |-> InHandles,
                event |-> OutHandles],
               {"buffer_origin", "host_origin", "region", "event_wait_list"}, {"event"})

ClEnqueueWriteBufferRect_UsmRpcM ==
  Message(132, [command_queue |-> Handle, buffer |-> Handle, blocking_write |-> Value,
                buffer_origin |-> In, host_origin |-> In, region |-> In,
                buffer_row_pitch |-> Value, buffer_slice_pitch |-> Value,
                host_row_pitch |-> Value, host_slice_pitch |-> Value, ptr |-> Source,
                num_events_in_wait_list |-> Value, event_wait_list |-> InHandles,
                event |-> OutHandles],
               {"buffer_origin", "host_origin", "region", "event_wait_list"}, {"event"})

ClEnqueueWriteBufferRect_SharedRpcM ==
  Message(133, [command_queue |-> Handle, buffer |-> Handle, blocking_write |-> Value,
                buffer_origin |-> In, host_origin |-> In, region |-> In,
                buffer_row_pitch |-> Value, buffer_slice_pitch |-> Value,
                host_row_pitch |-> Value, host_slice_pitch |-> Value, ptr |-> Source,
                num_events_in_wait_list |-> Value, event_wait_list |-> InHandles,
                event |-> OutHandles],
               {"buffer_origin", "host_origin", "region", "event_wait_list"}, {"event"})

ClEnqueueReadBuffer_LocalRpcM ==
  Message(134, [command_queue |-> Handle, buffer |-> Handle, blocking_read |-> Value,
                offset |-> Value, size |-> Value, ptr |-> Destination,
                num_events_in_wait_list |-> Value, event_wait_list |-> InHandles,
                event |-> OutHandles], {"event_wait_list"}, {"event"})

ClEnqueueReadBuffer_UsmRpcM ==
  Message(135, [command_queue |-> Handle, buffer |-> Handle, blocking_read |-> Value,
                offset |-> Value, size |-> Value, ptr |-> Destination,
                num_events_in_wait_list |-> Value, event_wait_list |-> InHandles,
                event |-> OutHandles], {"event_wait_list"}, {"event"})

ClEnqueueReadBuffer_SharedRpcM ==
  Message(136, [command_queue |-> Handle, buffer |-> Handle, blocking_read |-> Value,
                offset |-> Value, size |-> Value, ptr |-> Destination,
                num_events_in_wait_list |-> Value, event_wait_list |-> InHandles,
                event |-> OutHandles], {"event_wait_list"}, {"event"})

ClEnqueueReadBufferRect_LocalRpcM ==
  Message(137, [command_queue |-> Handle, buffer |-> Handle, blocking_read |-> Value,
                buffer_origin |-> In, host_origin |-> In, region |-> In,
                buffer_row_pitch |-> Value, buffer_slice_pitch |-> Value,
                host_row_pitch |-> Value, host_slice_pitch |-> Value, ptr |-> Destination,
                num_events_in_wait_list |-> Value, event_wait_list |-> InHandles,
                event |-> OutHandles],
               {"buffer_origin", "host_origin", "region", "event_wait_list"}, {"event"})

ClEnqueueReadBufferRect_UsmRpcM ==
  Message(138, [command_queue |-> Handle, buffer |-> Handle, blocking_read |-> Value,
                buffer_origin |-> In, host_origin |-> In, region |-> In,
                buffer_row_pitch |-> Value, buffer_slice_pitch |-> Value,
                host_row_pitch |-> Value, host_slice_pitch |-> Value, ptr |-> Destination,
                num_events_in_wait_list |-> Value, event_wait_list |-> InHandles,
                event |-> OutHandles],
               {"buffer_origin", "host_origin", "region", "event_wait_list"}, {"event"})

ClEnqueueReadBufferRect_SharedRpcM ==
  Message(139, [command_queue |-> Handle, buffer |-> Handle, blocking_read |-> Value,
                buffer_origin |-> In, host_origin |-> In, region |-> In,
                buffer_row_pitch |-> Value, buffer_slice_pitch |-> Value,
                host_row_pitch |-> Value, host_slice_pitch |-> Value, ptr |-> Destination,
                num_events_in_wait_list |-> Value, event_wait_list |-> InHandles,
                event |-> OutHandles],
               {"buffer_origin", "host_origin", "region", "event_wait_list"}, {"event"})

ClEnqueueSVMMemcpy_Local_LocalRpcM ==
  Message(140, [command_queue |-> Handle, blocking |-> Value, dst_ptr |-> Destination,
                src_ptr |-> Source, size |-> Value, num_events_in_wait_list |-> Value,
                event_wait_list |-> InHandles, event |-> OutHandles],
               {"event_wait_list"}, {"event"})

ClEnqueueSVMMemcpy_Local_UsmRpcM ==
  Message(141, [command_queue |-> Handle, blocking |-> Value, dst_ptr |-> Destination,
                src_ptr |-> Source, size |-> Value, num_events_in_wait_list |-> Value,
                event_wait_list |-> InHandles, event |-> OutHandles],
               {"event_wait_list"}, {"event"})

ClEnqueueSVMMemcpy_Local_SharedRpcM ==
  Message(142, [command_queue |-> Handle, blocking |-> Value, dst_ptr |-> Destination,
                src_ptr |-> Source, size |-> Value, num_events_in_wait_list |-> Value,
                event_wait_list |-> InHandles, event |-> OutHandles],
               {"event_wait_list"}, {"event"})

ClEnqueueSVMMemcpy_Usm_LocalRpcM ==
  Message(143, [command_queue |-> Handle, blocking |-> Value, dst_ptr |-> Destination,
                src_ptr |-> Source, size |-> Value, num_events_in_wait_list |-> Value,
                event_wait_list |-> InHandles, event |-> OutHandles],
               {"event_wait_list"}, {"event"})

ClEnqueueSVMMemcpy_Usm_UsmRpcM ==
  Message(144, [command_queue |-> Handle, blocking |-> Value, dst_ptr |-> Destination,
                src_ptr |-> Source, size |-> Value, num_events_in_wait_list |-> Value,
                event_wait_list |-> InHandles, event |-> OutHandles],
               {"event_wait_list"}, {"event"})

ClEnqueueSVMMemcpy_Usm_SharedRpcM ==
  Message(145, [command_queue |-> Handle, blocking |-> Value, dst_ptr |-> Destination,
                src_ptr |-> Source, size |-> Value, num_events_in_wait_list |-> Value,
                event_wait_list |-> InHandles, event |-> OutHandles],
               {"event_wait_list"}, {"event"})

ClEnqueueSVMMemcpy_Shared_LocalRpcM ==
  Message(146, [command_queue |-> Handle, blocking |-> Value, dst_ptr |-> Destination,
                src_ptr |-> Source, size |-> Value, num_events_in_wait_list |-> Value,
                event_wait_list |-> InHandles, event |-> OutHandles],
               {"event_wait_list"}, {"event"})

ClEnqueueSVMMemcpy_Shared_UsmRpcM ==
  Message(147, [command_queue |-> Handle, blocking |-> Value, dst_ptr |-> Destination,
                src_ptr |-> Source, size |-> Value, num_events_in_wait_list |-> Value,
                event_wait_list |-> InHandles, event |-> OutHandles],
               {"event_wait_list"}, {"event"})

ClEnqueueSVMMemcpy_Shared_SharedRpcM ==
  Message(148, [command_queue |-> Handle, blocking |-> Value, dst_ptr |-> Destination,
                src_ptr |-> Source, size |-> Value, num_events_in_wait_list |-> Value,
                event_wait_list |-> InHandles, event |-> OutHandles],
               {"event_wait_list"}, {"event"})

ClEnqueueMemcpyINTEL_Local_LocalRpcM ==
  Message(149, [command_queue |-> Handle, blocking |-> Value, dstPtr |-> Destination,
                srcPtr |-> Source, size |-> Value, num_events_in_wait_list |-> Value,
                event_wait_list |-> InHandles, event |-> OutHandles],
               {"event_wait_list"}, {"event"})

ClEnqueueMemcpyINTEL_Local_UsmRpcM ==
  Message(150, [command_queue |-> Handle, blocking |-> Value, dstPtr |-> Destination,
                srcPtr |-> Source, size |-> Value, num_events_in_wait_list |-> Value,
                event_wait_list |-> InHandles, event |-> OutHandles],
               {"event_wait_list"}, {"event"})

ClEnqueueMemcpyINTEL_Local_SharedRpcM ==
  Message(151, [command_queue |-> Handle, blocking |-> Value, dstPtr |-> Destination,
                srcPtr |-> Source, size |-> Value, num_events_in_wait_list |-> Value,
                event_wait_list |-> InHandles, event |-> OutHandles],
               {"event_wait_list"}, {"event"})

ClEnqueueMemcpyINTEL_Usm_LocalRpcM ==
  Message(152, [command_queue |-> Handle, blocking |-> Value, dstPtr |-> Destination,
                srcPtr |-> Source, size |-> Value, num_events_in_wait_list |-> Value,
                event_wait_list |-> InHandles, event |-> OutHandles],
               {"event_wait_list"}, {"event"})

ClEnqueueMemcpyINTEL_Usm_UsmRpcM ==
  Message(153, [command_queue |-> Handle, blocking |-> Value, dstPtr |-> Destination,
                srcPtr |-> Source, size |-> Value, num_events_in_wait_list |-> Value,
                event_wait_list |-> InHandles, event |-> OutHandles],
               {"event_wait_list"}, {"event"})

ClEnqueueMemcpyINTEL_Usm_SharedRpcM ==
  Message(154, [command_queue |-> Handle, blocking |-> Value, dstPtr |-> Destination,
                srcPtr |-> Source, size |-> Value, num_events_in_wait_list |-> Value,
                event_wait_list |-> InHandles, event |-> OutHandles],
               {"event_wait_list"}, {"event"})

ClEnqueueMemcpyINTEL_Shared_LocalRpcM ==
  Message(155, [command_queue |-> Handle, blocking |-> Value, dstPtr |-> Destination,
                srcPtr |-> Source, size |-> Value, num_events_in_wait_list |-> Value,
                event_wait_list |-> InHandles, event |-> OutHandles],
               {"event_wait_list"}, {"event"})

ClEnqueueMemcpyINTEL_Shared_UsmRpcM ==
  Message(156, [command_queue |-> Handle, blocking |-> Value, dstPtr |-> Destination,
                srcPtr |-> Source, size |-> Value, num_events_in_wait_list |-> Value,
                event_wait_list |-> InHandles, event |-> OutHandles],
               {"event_wait_list"}, {"event"})

ClEnqueueMemcpyINTEL_Shared_SharedRpcM ==
  Message(157, [command_queue |-> Handle, blocking |-> Value, dstPtr |-> Destination,
                srcPtr |-> Source, size |-> Value, num_events_in_wait_list |-> Value,
                event_wait_list |-> InHandles, event |-> OutHandles],
               {"event_wait_list"}, {"event"})
==============================================================================
