----------------------------- MODULE MCDllHooks -----------------------------
(* A small instance of DllHooks with every failure.  The history variable     *)
(* tells whether a step on the way to the hooks has failed.                   *)
EXTENDS DllHooks, TLC

CONSTANTS b1, b2, b3, b4

VARIABLE failed

(* A patch of a batch fails, or a hook routine returns without patching. *)
PatchStepFails == Patches!NoPlace \/ Patches!NoTrampoline
Due == {d \in Dlls :
          \/ dll[d] = "delayed" /\ dll'[d] = "attached"
          \/ d = "KERNELBASE" /\ dll[d] = "attached" /\ core = "ntdll" /\ core' # core
          \/ d = "KERNEL32" /\ dll[d] = "attached" /\ core = "kernel" /\ core' # core}
RoutineFails == Due # {} /\ todo' = <<>>

MCInit == Init /\ failed = FALSE
MCNext == Next /\ failed' = (failed \/ PatchStepFails \/ RoutineFails)
MCSpec == MCInit /\ [][MCNext]_<<vars, failed>>

(* While nothing has failed: an attached DLL is hooked completely, unless it  *)
(* was in the host before the core and is none of the kernel DLLs             *)
(* (DllNotification, DelayInitDllEntry, Initialize).                          *)
AttachedIsHooked ==
    core = "running" /\ Patches!Idle /\ ~failed =>
      \A f \in Functions \ {"GetNamedLocaleHashNode"} :
        dll[Home[f]] = "attached" /\ (late[Home[f]] \/ Home[f] \in Kernel) => Patches!Jumps(f)

(* Hooks come after the DLL's own DllMain, and then all of them.              *)
HooksFollow == HookedAfterAttach /\ AttachedIsHooked

(* Hooks are made once in a mapping, and nothing is left of them and of the   *)
(* notification when the core is gone (LepGlobalData::UnInitialize).          *)
HooksGo == TypeOK /\ PatchedOnce /\ GoneIsUnhooked

Symmetry == Permutations(Blocks)
=============================================================================
