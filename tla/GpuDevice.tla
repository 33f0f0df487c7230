------------------------------ MODULE GpuDevice ------------------------------
(***************************************************************************)
(* The handles of the GPU programs, from the set-up of the device to the   *)
(* end of main: the CUDA miner, the OpenCL miner and the CUDA test of the  *)
(* hash.  What the program does with the device in between is one stage    *)
(* here, "loop"; module GpuMiner says what the miners do in it.            *)
(*                                                                         *)
(* A CUDA call that fails ends the program with exit(1).  The OpenCL       *)
(* program undoes by hand what it has set up.  It does not clear its       *)
(* context structure, so that a handle it has not set holds anything.      *)
(***************************************************************************)
EXTENDS Integers, Sequences, SequencesExt

CONSTANT Programs
ASSUME ProgramsAssumption == Programs \subseteq {"cuda", "cuda_test", "opencl"}

VARIABLES
    api,                 \* the program
    host,                \* where it is
    todo,                \* in "setup" the calls ahead, in "unwind" and
                         \* "teardown" the handles to release
    handle,              \* each handle of the program
    failed,              \* the call that failed in the set-up
    misused,             \* history: an object that is not there was released
    status               \* of the process

deviceVars == <<api, host, todo, handle, failed, misused, status>>

(* The calls that give a handle, in order.  "device" stands for the search *)
(* of a platform and a device, "source" for load_kernel_source, "build"    *)
(* for clBuildProgram; the test has two areas of data.                     *)
CudaSetup == <<"context", "module", "stream", "host_data0", "device_data0">>
OpenClSetup == <<"device", "context", "queue", "source", "program", "build",
                 "kernel", "buffer", "host_buffer">>
SetupCalls == [cuda      |-> CudaSetup,
               cuda_test |-> CudaSetup \o <<"host_data1", "device_data1">>,
               opencl    |-> OpenClSetup]

NoHandle == {"device", "build"}
Handles == (UNION {ToSet(SetupCalls[p]) : p \in DOMAIN SetupCalls}) \ NoHandle

(* cleanup_opencl *)
Cleanup == <<"kernel", "program", "queue", "context">>

(* What is released when a call of the set-up fails *)
Unwinding ==
    [device  |-> <<>>,
     context |-> <<>>,
     queue   |-> <<"context">>,
     source  |-> Cleanup,
     program |-> <<"source">> \o Cleanup,
     build   |-> <<"program", "source">> \o Cleanup,
     kernel  |-> <<"program", "source">> \o Cleanup,
     buffer  |-> Cleanup]

ModuleForgotten(areas) == <<"stream">> \o areas \o <<"context">>
TerminateCuda(areas) == <<"stream">> \o areas \o <<"module", "context">>
FirstArea == <<"host_data0", "device_data0">>
Teardown == [cuda      |-> TerminateCuda(FirstArea),
             cuda_test |-> TerminateCuda(FirstArea \o <<"host_data1", "device_data1">>),
             opencl    |-> <<"host_buffer", "buffer">> \o Cleanup]

(* save_coin(NULL) comes after terminate_cuda, and before the OpenCL       *)
(* handles are released.                                                   *)
AfterLoop == [cuda |-> "teardown", cuda_test |-> "teardown", opencl |-> "save"]
AfterSave == [cuda |-> "closed", opencl |-> "teardown"]
AfterTeardown == [cuda |-> "save", cuda_test |-> "closed", opencl |-> "closed"]

DeviceTypeOK ==
    /\ api \in Programs
    /\ todo \in Seq(Handles \cup NoHandle)
    /\ handle \in [Handles -> {"unset", "null", "live", "released"}]
    /\ failed \in DOMAIN Unwinding \cup {"none"}
    /\ misused \in BOOLEAN
    /\ status \in {"running", "returned", "setup_error", "gpu_error", "write_error", "crashed"}

DeviceInit ==
    /\ api \in Programs
    /\ host = "setup"
    /\ todo = SetupCalls[api]
    /\ handle = [h \in Handles |-> "unset"]
    /\ failed = "none"
    /\ misused = FALSE
    /\ status = "running"

-----------------------------------------------------------------------------
GoTo(stage) ==
    /\ host' = stage
    /\ todo' = IF stage = "teardown" THEN Teardown[api] ELSE <<>>

(* The text of the kernel is not needed once there is a kernel.            *)
CallSucceeds ==
    LET call == Head(todo)
    IN  /\ host = "setup"
        /\ handle' = [h \in Handles |->
                        IF h = call THEN "live"
                        ELSE IF h = "source" /\ call = "kernel" THEN "released"
                        ELSE handle[h]]
        /\ todo' = Tail(todo)
        /\ host' = IF Tail(todo) = <<>> THEN "loop" ELSE host
        /\ UNCHANGED <<api, failed, misused, status>>

(* The call sets its handle to NULL. *)
CallFails ==
    LET call == Head(todo)
    IN  /\ api = "opencl"
        /\ host = "setup"
        /\ call \in DOMAIN Unwinding
        /\ handle' = [h \in Handles |-> IF h = call THEN "null" ELSE handle[h]]
        /\ failed' = call
        /\ host' = "unwind"
        /\ todo' = Unwinding[call]
        /\ UNCHANGED <<api, misused, status>>

(* CU_CALL, in any call of the set-up, of the copies and launches of the   *)
(* program, and of terminate_cuda                                          *)
CuCallFails ==
    /\ api # "opencl"
    /\ host \notin {"collect", "save", "closed"}
    /\ status' = "gpu_error"
    /\ UNCHANGED <<api, host, todo, handle, failed, misused>>

(* The test of the CUDA kernel: one launch, whose hashes the host computes *)
(* again.                                                                  *)
RunTest ==
    /\ api = "cuda_test"
    /\ host = "loop"
    /\ GoTo(AfterLoop[api])
    /\ UNCHANGED <<api, handle, failed, misused, status>>

(* A handle that is NULL is left out.  One that was never set may hold     *)
(* NULL by chance; otherwise the library gets a handle without an object,  *)
(* as it does for one that was released already, and anything may happen.  *)
Release ==
    LET h == Head(todo)
    IN  /\ host \in {"unwind", "teardown"}
        /\ todo # <<>>
        /\ todo' = Tail(todo)
        /\ \/ /\ handle[h] = "live"
              /\ handle' = [handle EXCEPT ![h] = "released"]
              /\ UNCHANGED <<misused, status>>
           \/ /\ handle[h] \in {"null", "unset"}
              /\ UNCHANGED <<handle, misused, status>>
           \/ /\ handle[h] \in {"unset", "released"}
              /\ misused' = TRUE
              /\ status' \in {"running", "crashed"}
              /\ UNCHANGED handle
        /\ UNCHANGED <<api, host, failed>>

EndOfTeardown ==
    /\ host = "teardown"
    /\ todo = <<>>
    /\ GoTo(AfterTeardown[api])
    /\ UNCHANGED <<api, handle, failed, misused, status>>

Return ==
    /\ \/ host = "closed" /\ status' = "returned"
       \/ host = "unwind" /\ todo = <<>> /\ status' = "setup_error"
    /\ UNCHANGED <<api, host, todo, handle, failed, misused>>

DeviceStep ==
    \/ CallSucceeds
    \/ CallFails
    \/ CuCallFails
    \/ RunTest
    \/ Release
    \/ EndOfTeardown
    \/ Return

-----------------------------------------------------------------------------
(* The words of thread n in an area of the test, where a message has       *)
(* "words" words and the 32 threads of a warp have theirs interleaved: as  *)
(* the kernel addresses them, and as the test does.                        *)
WARP == 32
KernelIndex(words, n, i) == (n \div WARP) * (WARP * words) + (n % WARP) + WARP * i
TestIndex(words, n, i) == WARP * words * (n \div WARP) + WARP * i + (n % WARP)

-----------------------------------------------------------------------------
(* Properties *)

Used(h) == handle[h] = "live"

(* main never returns with an object of the device, or a buffer of the     *)
(* host, that it has not released, whichever call of the set-up failed; no *)
(* object outlives its context; and no handle without an object is         *)
(* released, except after a failure of load_kernel_source or               *)
(* load_opencl_kernel: there cleanup_opencl meets the handles that were    *)
(* never set, and the program that was released before.                    *)
HandlesReleasedOnce ==
    /\ status \in {"returned", "setup_error"} => \A h \in Handles : ~Used(h)
    /\ (\E h \in Handles \ {"source", "host_buffer"} : Used(h)) => Used("context")
    /\ misused => failed \in {"source", "program", "build", "kernel"}
=============================================================================
