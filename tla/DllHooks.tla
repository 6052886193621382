------------------------------ MODULE DllHooks ------------------------------
(***************************************************************************)
(* When the core hooks and unhooks the DLLs of its process                 *)
(* (LocaleEmulatorPlus.cpp and the Hook...Routines of Hooks/): it is       *)
(* initialised as the first DLL of a child or loaded by a running host,    *)
(* hears of DLLs from the loader's notifications and borrows the entry     *)
(* point of a DLL to hook it right after its own DllMain.                  *)
(*                                                                         *)
(* All of it runs under the loader lock, but a DllMain may load further    *)
(* DLLs, so the loader's steps for several DLLs nest.  The patches         *)
(* themselves are made by MemoryPatch.                                     *)
(***************************************************************************)
EXTENDS Sequences, Naturals, FiniteSets

CONSTANTS
    Dlls,         \* of the DLLs below, those that are considered
    Functions,    \* of the functions below, those that are considered
    Blocks, None, PatchFails, ProtectFails,   \* see MemoryPatch
    HooksFail,    \* may a Hook...Routines fail before it patches?
    MaxLoads      \* bound: times a DLL is mapped

Kernel == Dlls \cap {"KERNELBASE", "KERNEL32"}

(* One function of each sort stands for all the hooked ones: the temporary   *)
(* one of KERNELBASE, those of KERNEL32 and USER32, and those of GDI32 that  *)
(* make a batch of their own, that UnHookGdi32Routines restores and that it  *)
(* does not.                                                                 *)
Home ==
    [GetNamedLocaleHashNode   |-> "KERNELBASE",
     GetUserDefaultUILanguage |-> "KERNEL32",
     QueryFontAssocStatus     |-> "GDI32",
     GetStockObject           |-> "GDI32",
     EnumFontFamiliesA        |-> "GDI32",
     SendMessageA             |-> "USER32"]

ASSUME HooksAssumption ==
    /\ Dlls \subseteq {"KERNELBASE", "KERNEL32", "GDI32", "USER32"}
    /\ Functions \subseteq {f \in DOMAIN Home : Home[f] \in Dlls}
    /\ HooksFail \in BOOLEAN /\ MaxLoads \in Nat

VARIABLES
    core,      \* the core: "absent", "starting", "ntdll" and "kernel" (hooking), "running",
               \* "stopping", "gone", or "dead" with its process
    host,      \* it was loaded into a running host, as an ordinary DLL
    cookie,    \* DllNotificationCookie
    dll,       \* a DLL: "absent", "mapped", "entered" (its DllMain), "delayed" (that,
               \* called by DelayInitDllEntry), "attached" or "leaving"
    entry,     \* its EntryPoint: its "own" or LEP's "delay"
    late,      \* it was mapped when the notification was registered
    loads,     \* how often it was mapped
    code, stub, block, relays, list, todo, at, cur, fault   \* see MemoryPatch

lifeVars == <<core, host, cookie, dll, entry, late, loads>>
patchVars == <<code, stub, block, relays, list, todo, at, cur, fault>>
vars == <<lifeVars, patchVars>>

(* No application threads here: MemoryPatch has them. *)
Patches == INSTANCE MemoryPatch WITH
    Threads <- {}, Quiescent <- TRUE, pc <- <<>>, fn <- <<>>, held <- <<>>

ASSUME BlocksAssumption ==
    /\ None \notin Blocks \cup Functions \cup Patches!Contents
    /\ Functions \cap Blocks = {} /\ {"native", "direct", "unmapped", Patches!Local} \cap Blocks = {}
    /\ PatchFails \in BOOLEAN /\ ProtectFails \in BOOLEAN

TypeOK ==
    /\ core \in {"absent", "starting", "ntdll", "kernel", "running", "stopping", "gone", "dead"}
    /\ host \in BOOLEAN /\ cookie \in BOOLEAN
    /\ dll \in [Dlls -> {"absent", "mapped", "entered", "delayed", "attached", "leaving"}]
    /\ entry \in [Dlls -> {"own", "delay"}]
    /\ late \in [Dlls -> BOOLEAN]
    /\ loads \in [Dlls -> 0 .. MaxLoads]
    /\ \A f \in Functions : code[f] = "unmapped" <=> dll[Home[f]] = "absent"

(* A request, if its function is one of those considered. *)
Request(do, f) == IF f \in Functions THEN <<[do |-> do, f |-> f]>> ELSE <<>>
Ask(requests) == todo' = requests /\ UNCHANGED <<code, stub, block, relays, list, at, cur, fault>>

(* The loader is about to do something else. *)
Quiet == Patches!Idle /\ core \in {"absent", "running", "gone"}

Init ==
    /\ core = "absent" /\ host \in BOOLEAN /\ cookie = FALSE
    /\ dll = [d \in Dlls |-> "absent"]
    /\ entry = [d \in Dlls |-> "own"]
    /\ late = [d \in Dlls |-> FALSE]
    /\ loads = [d \in Dlls |-> 0]
    /\ code = [f \in Functions |-> "unmapped"]
    /\ stub = [f \in Functions |-> None]
    /\ block = [b \in Blocks |-> None]
    /\ relays = {} /\ list = {} /\ todo = <<>> /\ at = "idle" /\ cur = None
    /\ fault = FALSE

-----------------------------------------------------------------------------
(* The named-locale cache is KernelBase's: patched for one GetUserDefaultLCID. *)
HackUserDefaultLCID2 == Request("patch", "GetNamedLocaleHashNode")
                          \o Request("restore", "GetNamedLocaleHashNode")

(* Entered for both DLLs; the UI language functions are those of KERNEL32. *)
HookKernel32Routines(d) ==
    IF d = "KERNELBASE" THEN HackUserDefaultLCID2
                        ELSE Request("patch", "GetUserDefaultUILanguage")

HookGdi32Routines == Request("patch", "QueryFontAssocStatus")
                       \o Request("patch", "GetStockObject")
                       \o Request("patch", "EnumFontFamiliesA")

HookUser32Routines == Request("patch", "SendMessageA")

UnHookKernel32Routines == Request("restore", "GetUserDefaultUILanguage")

UnHookGdi32Routines == Request("restore", "GetStockObject")
                         \o Request("restore", "QueryFontAssocStatus")

UnHookUser32Routines == Request("restore", "SendMessageA")

(* LookupDllHookEntry *)
HookRoutine(d) ==
    CASE d = "USER32" -> HookUser32Routines
      [] d = "GDI32"  -> HookGdi32Routines
      [] d \in Kernel -> HookKernel32Routines(d)

UnHookRoutine(d) ==
    CASE d = "USER32" -> UnHookUser32Routines
      [] d = "GDI32"  -> UnHookGdi32Routines
      [] d \in Kernel -> UnHookKernel32Routines

(* Each routine looks for functions, makes critical sections and registers   *)
(* system call filters before it patches, and returns when one is not there. *)
HookModule(d) == \/ Ask(HookRoutine(d))
                 \/ HooksFail /\ Ask(<<>>)

-----------------------------------------------------------------------------
(* The loader's steps for a DLL.                                             *)

Visible(d) == [f \in Functions |-> IF Home[f] = d THEN "native" ELSE code[f]]

(* Mapped; then DllNotification, to which the attach flag is never set yet.  *)
BadMapDll(d) ==              \* mutant: hooked at once, before its DllMain
    /\ Quiet
    /\ dll[d] = "absent" /\ loads[d] < MaxLoads
    /\ dll' = [dll EXCEPT ![d] = "mapped"]
    /\ loads' = [loads EXCEPT ![d] = @ + 1]
    /\ late' = [late EXCEPT ![d] = cookie]
    /\ entry' = [entry EXCEPT ![d] = "own"]
    /\ code' = Visible(d)
    /\ todo' = IF cookie THEN HookRoutine(d) ELSE <<>>
    /\ UNCHANGED <<core, host, cookie, stub, block, relays, list, at, cur, fault>>

MapDll(d) ==
    /\ Quiet
    /\ dll[d] = "absent" /\ loads[d] < MaxLoads
    /\ dll' = [dll EXCEPT ![d] = "mapped"]
    /\ loads' = [loads EXCEPT ![d] = @ + 1]
    /\ late' = [late EXCEPT ![d] = cookie]
    /\ entry' = [entry EXCEPT ![d] = IF cookie THEN "delay" ELSE "own"]
    /\ code' = Visible(d)
    /\ UNCHANGED <<core, host, cookie, stub, block, relays, list, todo, at, cur, fault>>

(* Its entry point is called: DelayInitDllEntry puts the DLL's own one back  *)
(* and calls it.                                                             *)
EnterDll(d) ==
    /\ Quiet
    /\ dll[d] = "mapped"
    /\ dll' = [dll EXCEPT ![d] = IF entry[d] = "delay" THEN "delayed" ELSE "entered"]
    /\ entry' = [entry EXCEPT ![d] = "own"]
    /\ UNCHANGED <<core, host, cookie, late, loads, patchVars>>

(* Its DllMain succeeds; DelayInitDllEntry, if that called it, hooks. *)
DllMainReturns(d) ==
    /\ Quiet
    /\ dll[d] \in {"entered", "delayed"}
    /\ dll' = [dll EXCEPT ![d] = "attached"]
    /\ IF dll[d] = "delayed" THEN HookModule(d) ELSE UNCHANGED patchVars
    /\ UNCHANGED <<core, host, cookie, entry, late, loads>>

(* It fails; DelayInitDllEntry returns at once and the loader unloads it. *)
DllMainFails(d) ==
    /\ Quiet
    /\ d \notin Kernel
    /\ dll[d] \in {"entered", "delayed"}
    /\ dll' = [dll EXCEPT ![d] = "leaving"]
    /\ entry' = [entry EXCEPT ![d] = IF cookie THEN "delay" ELSE "own"]
    /\ UNCHANGED <<core, host, cookie, late, loads, patchVars>>

BadNotifyUnload(d) ==        \* mutant: hooked again instead
    /\ Quiet
    /\ d \notin Kernel
    /\ dll[d] = "attached"
    /\ \E flag \in BOOLEAN :
         IF cookie /\ flag
         THEN Ask(HookRoutine(d)) /\ UNCHANGED entry
         ELSE UNCHANGED patchVars /\ entry' = [entry EXCEPT ![d] = IF cookie THEN "delay" ELSE "own"]
    /\ dll' = [dll EXCEPT ![d] = "leaving"]
    /\ UNCHANGED <<core, host, cookie, late, loads>>

(* It is freed: DllNotification finds it still listed and mapped, and takes  *)
(* its hooks back if the loader has left the attach flag set.                *)
NotifyUnload(d) ==
    /\ Quiet
    /\ d \notin Kernel
    /\ dll[d] = "attached"
    /\ \E flag \in BOOLEAN :
         IF cookie /\ flag
         THEN Ask(UnHookRoutine(d)) /\ UNCHANGED entry
         ELSE UNCHANGED patchVars /\ entry' = [entry EXCEPT ![d] = IF cookie THEN "delay" ELSE "own"]
    /\ dll' = [dll EXCEPT ![d] = "leaving"]
    /\ UNCHANGED <<core, host, cookie, late, loads>>

UnmapDll(d) ==
    /\ Quiet
    /\ dll[d] = "leaving"
    /\ dll' = [dll EXCEPT ![d] = "absent"]
    /\ entry' = [entry EXCEPT ![d] = "own"]
    /\ late' = [late EXCEPT ![d] = FALSE]
    /\ code' = [f \in Functions |-> IF Home[f] = d THEN "unmapped" ELSE code[f]]
    /\ UNCHANGED <<core, host, cookie, loads, stub, block, relays, list, todo, at, cur, fault>>

-----------------------------------------------------------------------------
(* Initialize, UnInitialize.                                                 *)

(* LoadFirstDll runs before any DLL has been initialised, a host has the     *)
(* kernel DLLs.                                                              *)
LoadCore ==
    /\ Quiet
    /\ core = "absent"
    /\ IF host THEN \A d \in Kernel : dll[d] = "attached"
               ELSE \A d \in Dlls : dll[d] \in {"absent", "mapped"}
    /\ core' = "starting"
    /\ UNCHANGED <<host, cookie, dll, entry, late, loads, patchVars>>

(* Registry redirection, NLS tables: nothing the DLLs see yet. *)
RegisterNotification ==
    /\ core = "starting" /\ ~cookie
    /\ cookie' = TRUE
    /\ UNCHANGED <<core, host, dll, entry, late, loads, patchVars>>

(* The hook port and the filters of ntdll's system calls. *)
HookNtdllRoutines ==
    /\ core = "starting" /\ cookie
    /\ core' = "ntdll"
    /\ UNCHANGED <<host, cookie, dll, entry, late, loads, patchVars>>

(* A step before the registration, InstallHookPort or HookNtdllRoutines      *)
(* fails.  DllMain calls UnInitialize; LoadFirstDll fails the first          *)
(* LdrLoadDll, with which the process ends.                                  *)
InitializeFails ==
    /\ core = "starting"
    /\ HooksFail
    /\ core' = IF host THEN "stopping" ELSE "dead"
    /\ UNCHANGED <<host, cookie, dll, entry, late, loads, patchVars>>

(* A kernel DLL that is attached is hooked, one that is only mapped will be. *)
HookKernel(d, step, next) ==
    /\ core = step /\ Patches!Idle
    /\ core' = next
    /\ entry' = IF d \in Dlls /\ dll[d] = "mapped" THEN [entry EXCEPT ![d] = "delay"] ELSE entry
    /\ IF d \in Dlls /\ dll[d] = "attached" THEN HookModule(d) ELSE UNCHANGED patchVars
    /\ UNCHANGED <<host, cookie, dll, late, loads>>

(* DLL_PROCESS_DETACH of a core that is an ordinary DLL; nobody frees it     *)
(* from the DllMain of another one.                                          *)
UnloadCore ==
    /\ Quiet
    /\ core = "running" /\ host
    /\ \A d \in Dlls : dll[d] \in {"absent", "attached"}
    /\ core' = "stopping"
    /\ UNCHANGED <<host, cookie, dll, entry, late, loads, patchVars>>

UnInitialize ==
    /\ core = "stopping"
    /\ core' = "gone"
    /\ cookie' = FALSE
    /\ Ask(UnHookGdi32Routines \o UnHookUser32Routines \o UnHookKernel32Routines)
    /\ UNCHANGED <<host, dll, entry, late, loads>>

-----------------------------------------------------------------------------

Next ==
    \/ \E d \in Dlls : \/ MapDll(d) \/ EnterDll(d) \/ DllMainReturns(d) \/ DllMainFails(d)
                       \/ NotifyUnload(d) \/ UnmapDll(d)
    \/ LoadCore \/ RegisterNotification \/ HookNtdllRoutines \/ InitializeFails
    \/ HookKernel("KERNELBASE", "ntdll", "kernel") \/ HookKernel("KERNEL32", "kernel", "running")
    \/ UnloadCore \/ UnInitialize
    \/ ~fault /\ Patches!EngineStep /\ UNCHANGED lifeVars

Spec == Init /\ [][Next]_vars

-----------------------------------------------------------------------------
(* No function of a DLL jumps to a hook before the DLL's own DllMain has      *)
(* succeeded: the purpose of DelayInitDllEntry (LocaleEmulatorPlus.cpp        *)
(* 89-119), also when DLLs load each other or are unloaded and loaded again.  *)
HookedAfterAttach == \A f \in Functions :
    Patches!Jumps(f) => dll[Home[f]] \in {"attached", "leaving"}

(* Whatever is mapped, attached, freed and mapped again in whatever order, a  *)
(* function is patched at most once per mapping: its trampoline has its own   *)
(* code, not a jump back to the hook.                                         *)
PatchedOnce == Patches!JumpHasTrampoline

(* After UnInitialize nothing leads into the core: no function jumps to a     *)
(* hook and no entry point is LEP's (LocaleEmulatorPlus.cpp 734-761).         *)
GoneIsUnhooked ==
    core = "gone" /\ Patches!Idle =>
      /\ \A f \in Functions : ~Patches!Jumps(f)
      /\ \A d \in Dlls : entry[d] = "own" /\ dll[d] # "delayed"
=============================================================================
