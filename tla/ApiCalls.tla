------------------------------ MODULE ApiCalls ------------------------------
(***************************************************************************)
(* The OpenCL entry points of intercept/src/dispatch.cpp, as far as they   *)
(* concern the lifetime of the application's objects, device timing events *)
(* and aub capture.                                                        *)
(*                                                                         *)
(* Logging, dumping, injection, kernel arguments, program hashes, mapped   *)
(* pointers and command buffer recordings are left out, and so are the     *)
(* handlers that have no other step of interest.  A component takes from a *)
(* handler the steps of the one kind it looks at.                          *)
(***************************************************************************)
EXTENDS ApiSteps

-----------------------------------------------------------------------------
(* Contexts and devices. *)

clCreateSubDevices == CreateMany("device", AddedAfter("device"))
clRetainDevice == Retain("device")
clReleaseDevice == Release("device")
clCreateContext == Create("context", NotAdded("context"))
clCreateContextFromType == Create("context", NotAdded("context"))
clRetainContext == Retain("context")
clReleaseContext == ReleaseUnlisted("context")
clGetContextInfo == Use("context")
clSetContextDestructorCallback == Use("context")
clGetSupportedImageFormats == Use("context")

(* Command queues. *)

clCreateCommandQueue == Create("queue", AddedAfter("queue"))
clCreateCommandQueueWithProperties == Create("queue", AddedAfter("queue"))
clCreateCommandQueueWithPropertiesKHR == Create("queue", AddedAfter("queue"))
clCreatePerfCountersCommandQueueINTEL == Create("queue", NotAdded("queue"))
clRetainCommandQueue == Retain("queue")
clReleaseCommandQueueRemovesLate == Handler(Role("queue", "release"),
    <<Dispatch, Remove("queue"), Released("queue")>>)
clReleaseCommandQueue == Release("queue")
clGetCommandQueueInfo == Use("queue")
clSetCommandQueueProperty == Use("queue")
clFlush == Use("queue")
clSetDefaultDeviceCommandQueue == Use("queue")

(* Memory objects. *)

clCreateBuffer == Create("mem", AddedBefore("mem"))
clCreateBufferWithProperties == Create("mem", AddedBefore("mem"))
clCreateBufferWithPropertiesINTEL == Create("mem", AddedBefore("mem"))
clCreateBufferNV == Create("mem", AddedBefore("mem"))
clCreateSubBuffer == Create("mem", AddedBefore("mem"))
clCreateFromGLBuffer == Create("mem", AddedBefore("mem"))
clCreateFromD3D10BufferKHR == Create("mem", AddedBefore("mem"))
clCreateFromD3D11BufferKHR == Create("mem", AddedBefore("mem"))
clCreateImage == Create("mem", AddedBefore("mem"))
clCreateImageWithProperties == Create("mem", AddedBefore("mem"))
clCreateImage2D == Create("mem", AddedBefore("mem"))
clCreateImage3D == Create("mem", AddedBefore("mem"))
clCreateFromGLTexture == Create("mem", AddedBefore("mem"))
clCreateFromGLTexture2D == Create("mem", AddedBefore("mem"))
clCreateFromGLTexture3D == Create("mem", AddedBefore("mem"))
clCreateFromGLRenderbuffer == Create("mem", AddedBefore("mem"))
clCreateFromD3D10Texture2DKHR == Create("mem", AddedBefore("mem"))
clCreateFromD3D10Texture3DKHR == Create("mem", AddedBefore("mem"))
clCreateFromD3D11Texture2DKHR == Create("mem", AddedBefore("mem"))
clCreateFromD3D11Texture3DKHR == Create("mem", AddedBefore("mem"))
clCreateFromDX9MediaSurfaceKHR == Create("mem", AddedBefore("mem"))
clCreateFromDX9MediaSurfaceINTEL == Create("mem", AddedBefore("mem"))
clCreateFromVA_APIMediaSurfaceINTEL == Create("mem", AddedBefore("mem"))
clCreatePipe == Create("mem", NotAdded("mem"))
clRetainMemObject == Retain("mem")
clReleaseMemObjectRemovesLate == Handler(Role("mem", "release"),
    <<Dispatch, Remove("mem"), Released("mem")>>)
clReleaseMemObject == Release("mem")
clGetMemObjectInfo == Use("mem")
clGetImageInfo == Use("mem")
clSetMemObjectDestructorCallback == Use("mem")
clGetPipeInfo == Use("mem")
clGetGLObjectInfo == Use("mem")
clGetGLTextureInfo == Use("mem")

(* Samplers. *)

clCreateSampler == Create("sampler", AddedAfter("sampler"))
clCreateSamplerWithProperties == Create("sampler", AddedAfter("sampler"))
clRetainSampler == Retain("sampler")
clReleaseSampler == Release("sampler")
clGetSamplerInfo == Use("sampler")

(* Programs. *)

clCreateProgramWithSource == Create("program", NotAdded("program"))
clCreateProgramWithBinary == Create("program", NotAdded("program"))
clCreateProgramWithBuiltInKernels == Create("program", NotAdded("program"))
clCreateProgramWithIL == Create("program", NotAdded("program"))
clCreateProgramWithILKHR == Create("program", NotAdded("program"))
clLinkProgram == Create("program", NotAdded("program"))
clRetainProgram == Retain("program")
clReleaseProgram == ReleaseUnlisted("program")
clSetProgramReleaseCallback == Use("program")
clSetProgramSpecializationConstant == Use("program")
clGetProgramInfo == Use("program")
clGetProgramBuildInfo == Use("program")

(* Kernels. *)

clCreateKernel == Create("kernel", AddedAfter("kernel"))
clCreateKernelsInProgram == CreateMany("kernel", AddedAfter("kernel"))
clCloneKernel == Create("kernel", AddedAfter("kernel"))
clRetainKernel == Retain("kernel")
clReleaseKernel == Release("kernel")
clGetKernelInfo == Use("kernel")
clGetKernelArgInfo == Use("kernel")
clGetKernelWorkGroupInfo == Use("kernel")
clGetKernelSubGroupInfo == Use("kernel")
clGetKernelSubGroupInfoKHR == Use("kernel")
clGetKernelSuggestedLocalWorkSizeKHR == Use("kernel")
clGetKernelSuggestedLocalWorkSizeINTEL == Use("kernel")
clSetKernelArgDevicePointerEXT == Use("kernel")

(* Events that no command makes. *)

clCreateUserEvent == Create("event", NotAdded("event"))
clCreateEventFromGLsyncKHR == Create("event", NotAdded("event"))
clRetainEvent == Retain("event")
clReleaseEvent == Release("event")
clGetEventInfo == Use("event")
clSetUserEventStatus == Use("event")
clGetEventProfilingInfo == Use("event")

(* Semaphores, command buffers and accelerators: extension objects. *)

clCreateSemaphoreWithPropertiesKHR ==
    Create("semaphore", AddedAfter("semaphore"))
clRetainSemaphoreKHR == Routed("semaphore", Retain("semaphore"))
clReleaseSemaphoreKHRRemovesLate == Handler(Role("semaphore", "release"),
    <<Route("semaphore"), Dispatch, Remove("semaphore"), Released("semaphore")>>)
clReleaseSemaphoreKHR == Routed("semaphore", Release("semaphore"))
clGetSemaphoreInfoKHR == Routed("semaphore", Use("semaphore"))
clGetSemaphoreHandleForTypeKHR == Routed("semaphore", Use("semaphore"))
clCreateCommandBufferKHR == Create("commandBuffer", AddedAfter("commandBuffer"))
clRemapCommandBufferKHR == Create("commandBuffer", AddedAfter("commandBuffer"))
clRetainCommandBufferKHR == Routed("commandBuffer", Retain("commandBuffer"))
clReleaseCommandBufferKHR == Routed("commandBuffer", Release("commandBuffer"))
clGetCommandBufferInfoKHR == Routed("commandBuffer", Use("commandBuffer"))
clUpdateMutableCommandsKHR == Routed("commandBuffer", Use("commandBuffer"))
clCreateAcceleratorINTEL ==
    Create("accelerator", <<Dispatch, Add("accelerator")>>)
clRetainAcceleratorINTEL ==
    Handler([accelerator |-> "retain"], <<Route("accelerator"), Dispatch>>)
clReleaseAcceleratorINTEL == Handler([accelerator |-> "release"],
    <<Route("accelerator"), Remove("accelerator"), Dispatch>>)
clGetAcceleratorInfoINTEL == Routed("accelerator", Use("accelerator"))

(* SVM and USM allocations. *)

clSVMAlloc == Create("pointer", AddedBefore("pointer"))
clSVMAllocWithPropertiesKHR == Create("pointer", AddedBefore("pointer"))
clHostMemAllocINTEL == Create("pointer", AddedBefore("pointer"))
clDeviceMemAllocINTEL == Create("pointer", AddedBefore("pointer"))
clSharedMemAllocINTEL == Create("pointer", AddedBefore("pointer"))
clSVMFree == FreePointer
clSVMFreeWithPropertiesKHR == FreePointer
clMemFreeINTEL == FreePointer
clMemBlockingFreeINTEL == FreePointer

(* Commands. *)

clEnqueueReadBuffer == Enqueue
clEnqueueReadBufferRect == Enqueue
clEnqueueWriteBuffer == Enqueue
clEnqueueWriteBufferRect == Enqueue
clEnqueueFillBuffer == Enqueue
clEnqueueCopyBuffer == Enqueue
clEnqueueCopyBufferRect == Enqueue
clEnqueueReadImage == Enqueue
clEnqueueWriteImage == Enqueue
clEnqueueFillImage == Enqueue
clEnqueueCopyImage == Enqueue
clEnqueueCopyImageToBuffer == Enqueue
clEnqueueCopyBufferToImage == Enqueue
clEnqueueMapBuffer == Enqueue
clEnqueueMapImage == Enqueue
clEnqueueUnmapMemObject == Enqueue
clEnqueueMigrateMemObjects == EnqueueWithoutStop
clEnqueueNDRangeKernel == EnqueueKernel
clEnqueueTask == EnqueueKernel
clEnqueueNativeKernel == Enqueue
clEnqueueMarker == Enqueue
clEnqueueWaitForEvents == EnqueueWithoutEvent
clEnqueueBarrier == EnqueueWithoutEvent
clEnqueueMarkerWithWaitList == EnqueueUntimed
clEnqueueBarrierWithWaitList == EnqueueUntimed
clEnqueueWaitSemaphoresKHR == EnqueueWithoutId
clEnqueueSignalSemaphoresKHR == EnqueueWithoutId
clEnqueueAcquireGLObjects == Enqueue
clEnqueueReleaseGLObjects == Enqueue
clEnqueueSVMFree == EnqueueFree
clEnqueueSVMMemcpy == Enqueue
clEnqueueSVMMemFill == Enqueue
clEnqueueSVMMap == Enqueue
clEnqueueSVMUnmap == Enqueue
clEnqueueSVMMigrateMem == EnqueueWithoutStop
clEnqueueAcquireExternalMemObjectsKHR == Enqueue
clEnqueueReleaseExternalMemObjectsKHR == Enqueue
clEnqueueAcquireD3D10ObjectsKHR == Enqueue
clEnqueueReleaseD3D10ObjectsKHR == Enqueue
clEnqueueAcquireD3D11ObjectsKHR == Enqueue
clEnqueueReleaseD3D11ObjectsKHR == Enqueue
clEnqueueAcquireDX9MediaSurfacesKHR == Enqueue
clEnqueueReleaseDX9MediaSurfacesKHR == Enqueue
clEnqueueAcquireDX9ObjectsINTEL == Enqueue
clEnqueueReleaseDX9ObjectsINTEL == Enqueue
clEnqueueAcquireVA_APIMediaSurfacesINTEL == Enqueue
clEnqueueReleaseVA_APIMediaSurfacesINTEL == Enqueue
clEnqueueMemsetINTEL == Enqueue
clEnqueueMemFillINTEL == Enqueue
clEnqueueMemcpyINTEL == Enqueue
clEnqueueMigrateMemINTEL == Enqueue
clEnqueueMemAdviseINTEL == Enqueue
clEnqueueCommandBufferKHR == EnqueueCommandBuffer

-----------------------------------------------------------------------------
Api == {
    clCreateSubDevices, clRetainDevice, clReleaseDevice, clCreateContext,
    clCreateContextFromType, clRetainContext, clReleaseContext,
    clGetContextInfo, clSetContextDestructorCallback,
    clGetSupportedImageFormats, clCreateCommandQueue,
    clCreateCommandQueueWithProperties,
    clCreateCommandQueueWithPropertiesKHR,
    clCreatePerfCountersCommandQueueINTEL, clRetainCommandQueue,
    clReleaseCommandQueue, clGetCommandQueueInfo, clSetCommandQueueProperty,
    clFlush, clSetDefaultDeviceCommandQueue, clCreateBuffer,
    clCreateBufferWithProperties, clCreateBufferWithPropertiesINTEL,
    clCreateBufferNV, clCreateSubBuffer, clCreateFromGLBuffer,
    clCreateFromD3D10BufferKHR, clCreateFromD3D11BufferKHR, clCreateImage,
    clCreateImageWithProperties, clCreateImage2D, clCreateImage3D,
    clCreateFromGLTexture, clCreateFromGLTexture2D, clCreateFromGLTexture3D,
    clCreateFromGLRenderbuffer, clCreateFromD3D10Texture2DKHR,
    clCreateFromD3D10Texture3DKHR, clCreateFromD3D11Texture2DKHR,
    clCreateFromD3D11Texture3DKHR, clCreateFromDX9MediaSurfaceKHR,
    clCreateFromDX9MediaSurfaceINTEL, clCreateFromVA_APIMediaSurfaceINTEL,
    clCreatePipe, clRetainMemObject, clReleaseMemObject, clGetMemObjectInfo,
    clGetImageInfo, clSetMemObjectDestructorCallback, clGetPipeInfo,
    clGetGLObjectInfo, clGetGLTextureInfo, clCreateSampler,
    clCreateSamplerWithProperties, clRetainSampler, clReleaseSampler,
    clGetSamplerInfo, clCreateProgramWithSource, clCreateProgramWithBinary,
    clCreateProgramWithBuiltInKernels, clCreateProgramWithIL,
    clCreateProgramWithILKHR, clLinkProgram, clRetainProgram,
    clReleaseProgram, clSetProgramReleaseCallback,
    clSetProgramSpecializationConstant, clGetProgramInfo,
    clGetProgramBuildInfo, clCreateKernel, clCreateKernelsInProgram,
    clCloneKernel, clRetainKernel, clReleaseKernel, clGetKernelInfo,
    clGetKernelArgInfo, clGetKernelWorkGroupInfo, clGetKernelSubGroupInfo,
    clGetKernelSubGroupInfoKHR, clGetKernelSuggestedLocalWorkSizeKHR,
    clGetKernelSuggestedLocalWorkSizeINTEL, clSetKernelArgDevicePointerEXT,
    clCreateUserEvent, clCreateEventFromGLsyncKHR, clRetainEvent,
    clReleaseEvent, clGetEventInfo, clSetUserEventStatus,
    clGetEventProfilingInfo, clCreateSemaphoreWithPropertiesKHR,
    clRetainSemaphoreKHR, clReleaseSemaphoreKHR, clGetSemaphoreInfoKHR,
    clGetSemaphoreHandleForTypeKHR, clCreateCommandBufferKHR,
    clRemapCommandBufferKHR, clRetainCommandBufferKHR,
    clReleaseCommandBufferKHR, clGetCommandBufferInfoKHR,
    clUpdateMutableCommandsKHR, clCreateAcceleratorINTEL,
    clRetainAcceleratorINTEL, clReleaseAcceleratorINTEL,
    clGetAcceleratorInfoINTEL, clSVMAlloc, clSVMAllocWithPropertiesKHR,
    clHostMemAllocINTEL, clDeviceMemAllocINTEL, clSharedMemAllocINTEL,
    clSVMFree, clSVMFreeWithPropertiesKHR, clMemFreeINTEL, clMemBlockingFreeINTEL,
    clEnqueueReadBuffer, clEnqueueReadBufferRect, clEnqueueWriteBuffer,
    clEnqueueWriteBufferRect, clEnqueueFillBuffer, clEnqueueCopyBuffer,
    clEnqueueCopyBufferRect, clEnqueueReadImage, clEnqueueWriteImage,
    clEnqueueFillImage, clEnqueueCopyImage, clEnqueueCopyImageToBuffer,
    clEnqueueCopyBufferToImage, clEnqueueMapBuffer, clEnqueueMapImage,
    clEnqueueUnmapMemObject, clEnqueueMigrateMemObjects,
    clEnqueueNDRangeKernel, clEnqueueTask, clEnqueueNativeKernel,
    clEnqueueMarker, clEnqueueWaitForEvents, clEnqueueBarrier,
    clEnqueueMarkerWithWaitList, clEnqueueBarrierWithWaitList,
    clEnqueueWaitSemaphoresKHR, clEnqueueSignalSemaphoresKHR,
    clEnqueueAcquireGLObjects, clEnqueueReleaseGLObjects, clEnqueueSVMFree,
    clEnqueueSVMMemcpy, clEnqueueSVMMemFill, clEnqueueSVMMap,
    clEnqueueSVMUnmap, clEnqueueSVMMigrateMem,
    clEnqueueAcquireExternalMemObjectsKHR,
    clEnqueueReleaseExternalMemObjectsKHR, clEnqueueAcquireD3D10ObjectsKHR,
    clEnqueueReleaseD3D10ObjectsKHR, clEnqueueAcquireD3D11ObjectsKHR,
    clEnqueueReleaseD3D11ObjectsKHR, clEnqueueAcquireDX9MediaSurfacesKHR,
    clEnqueueReleaseDX9MediaSurfacesKHR, clEnqueueAcquireDX9ObjectsINTEL,
    clEnqueueReleaseDX9ObjectsINTEL,
    clEnqueueAcquireVA_APIMediaSurfacesINTEL,
    clEnqueueReleaseVA_APIMediaSurfacesINTEL, clEnqueueMemsetINTEL,
    clEnqueueMemFillINTEL, clEnqueueMemcpyINTEL, clEnqueueMigrateMemINTEL,
    clEnqueueMemAdviseINTEL, clEnqueueCommandBufferKHR }
=============================================================================
