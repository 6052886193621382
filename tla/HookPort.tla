------------------------------ MODULE HookPort ------------------------------
(***************************************************************************)
(* The syscall hook port of the core DLL (HookPort.cpp, the x64 build).    *)
(*                                                                         *)
(* One "loader" actor performs the registration operations.  They all run  *)
(* under the loader lock (DllMain, LoadFirstDll or a DLL notification), so *)
(* they never overlap each other; their individual stores do interleave    *)
(* with the application threads that are executing patched system calls.   *)
(* A step of this module is one store, or one group of stores no other     *)
(* thread can tell apart.                                                  *)
(*                                                                         *)
(* Pointers held by a thread are modelled by what they still refer to:     *)
(* when the loader frees an object, every thread holding it is left with   *)
(* a "freed" one.  Using such a pointer is a fault, recorded in pc.        *)
(*                                                                         *)
(* A definition named Bad... (or Untested...) is a plausible mistake in    *)
(* the one after it; no specification uses it, it shows that a property    *)
(* can be violated.                                                        *)
(***************************************************************************)
EXTENDS Naturals, FiniteSets

CONSTANTS
  Calls,                \* routine hashes FindWrapperByHash knows a wrapper for
  Gui,                  \* the ones exported by user32/gdi32/win32u
  Filters,              \* callback routines
  Threads,              \* application threads
  None,                 \* the null pointer
  MaxFilterNumber,      \* slots of a callback array (32: bits of FilterBitmap)
  InitialPatchCapacity, \* first allocation of g_Patches (0x20)
  MaxRefCount,          \* bound: nested InstallHookPort calls
  MaxGuiLoads,          \* bound: how often the GUI modules are mapped
  CoreUnloads           \* may UnInitialize run while other threads live?

ASSUME CallsAssumption  == Gui \subseteq Calls /\ IsFiniteSet(Calls) /\ None \notin Calls
ASSUME FilterAssumption == None \notin Filters
ASSUME SizeAssumption   == /\ MaxFilterNumber \in Nat \ {0}
                           /\ InitialPatchCapacity \in Nat \ {0}
                           /\ MaxRefCount \in Nat \ {0}
                           /\ MaxGuiLoads \in Nat
                           /\ CoreUnloads \in BOOLEAN

(* g_Patches never grows: the project has 22 wrappers, the array 32 places. *)
CapacitySuffices == InitialPatchCapacity >= Cardinality(Calls)

Slots == 0 .. MaxFilterNumber - 1

VARIABLES
  refCount,   \* g_GlobalInfo->RefCount; 0 stands for g_GlobalInfo = nullptr
  table,      \* calls found in Info->HashTable
  slot,       \* SYSCALL_INFO.FilterCallbacks[i].Callback
  array,      \* is SYSCALL_INFO.FilterCallbacks allocated?
  bitmap,     \* SYSCALL_INFO.FilterBitmap
  enabled,    \* SYSCALL_INFO.Flags & SystemCallFilterEnable
  patches,    \* calls with an entry in g_Patches
  patchArray, \* g_Patches: "null", "live" or "freed"
  capacity,   \* g_PatchCapacity
  entry,      \* first bytes of the system call stub: "native" or "jump"
  gui,        \* the GUI modules: "absent", "mapped" or "leaving"
  guiLoads,   \* times they were mapped
  exiting,    \* process exit: only the loader's thread is left
  op,         \* the loader's operation in progress and what it works on
  pc,         \* what each application thread is doing
  call,       \* the call it is in
  held,       \* the hash table or SYSCALL_INFO memory it is reading
  orig,       \* its local variable Original
  bits,       \* its local copy of the bitmap, the bits not visited yet
  cur         \* the slot its pointer Filters is at

portVars   == << refCount, table, slot, array, bitmap, enabled >>
patchVars  == << patches, patchArray, capacity, entry >>
envVars    == << gui, guiLoads, exiting >>
threadVars == << pc, call, held, orig, bits, cur >>
vars == << portVars, patchVars, envVars, op, threadVars >>

Idle == [at |-> "idle", c |-> None, s |-> 0]

LoaderSteps == { "idle", "flag", "bit", "patch", "grow", "jump", "clearBit", "clearSlot",
                 "removeBit", "removeFlag", "destroyOld", "restore", "freePatches",
                 "freeCallbacks", "gone" }
Faults  == { "nullOriginal", "freedOriginal", "freedTable", "freedPatches", "freedCallbacks",
             "nullCallback" }
Running == { "search", "original", "filters", "scan", "invoke", "callOriginal", "inCall" }

At(step) == op.at = step
Goto(step) == op' = [op EXCEPT !.at = step]

(* The null callback array of a call that has no FilterCallbacks. *)
NoSlots == [s \in Slots |-> None]

Init ==
  /\ refCount = 0
  /\ table = {}
  /\ slot = [c \in Calls |-> NoSlots]
  /\ array = [c \in Calls |-> FALSE]
  /\ bitmap = [c \in Calls |-> {}]
  /\ enabled = [c \in Calls |-> FALSE]
  /\ patches = {}
  /\ patchArray = "null"
  /\ capacity = 0
  /\ entry = [c \in Calls |-> "native"]
  /\ gui = "absent"
  /\ guiLoads = 0
  /\ exiting = FALSE
  /\ op = Idle
  /\ pc = [t \in Threads |-> "out"]
  /\ call = [t \in Threads |-> None]
  /\ held = [t \in Threads |-> "none"]
  /\ orig = [t \in Threads |-> "null"]
  /\ bits = [t \in Threads |-> {}]
  /\ cur = [t \in Threads |-> 0]

-----------------------------------------------------------------------------
(* InstallHookPort: the first call builds the table of the ntdll exports   *)
(* and publishes it, the next ones count.  A failure frees everything.     *)

InstallHookPort ==
  /\ At("idle") /\ ~exiting /\ refCount < MaxRefCount
  /\ refCount' = refCount + 1
  /\ table' = IF refCount = 0 THEN Calls \ Gui ELSE table
  /\ UNCHANGED << slot, array, bitmap, enabled, patchVars, envVars, op, threadVars >>

(* HpAddSystemCall for a batch of GUI routines, those already known being  *)
(* skipped: the enlarged table is built aside, stored over Info->HashTable *)
(* and the old one is freed.                                               *)

Searching(t) == pc[t] = "search" /\ held[t] = "live"

BadHpAddSystemCall(batch) ==             \* the old entries are not copied
  /\ At("idle") /\ refCount > 0 /\ gui = "mapped"
  /\ batch # {} /\ batch \cap table = {}
  /\ table' = batch
  /\ held' = [t \in Threads |-> IF Searching(t) THEN "old" ELSE held[t]]
  /\ Goto("destroyOld")
  /\ UNCHANGED << refCount, slot, array, bitmap, enabled, patchVars, envVars,
                  pc, call, orig, bits, cur >>

HpAddSystemCall(batch) ==
  /\ At("idle") /\ refCount > 0 /\ gui = "mapped"
  /\ batch # {} /\ batch \cap table = {}
  /\ table' = table \cup batch
  /\ held' = [t \in Threads |-> IF Searching(t) THEN "old" ELSE held[t]]
  /\ Goto("destroyOld")
  /\ UNCHANGED << refCount, slot, array, bitmap, enabled, patchVars, envVars,
                  pc, call, orig, bits, cur >>

DestroyOldTable ==
  /\ At("destroyOld")
  /\ held' = [t \in Threads |-> IF held[t] = "old" THEN "freed" ELSE held[t]]
  /\ op' = Idle
  /\ UNCHANGED << portVars, patchVars, envVars, pc, call, orig, bits, cur >>

-----------------------------------------------------------------------------
(* HpAddSystemCallFilter.  The callback is stored in the lowest free slot, *)
(* then the call is enabled, then the bit is set, then the entry patched.  *)

LowestFree(c) == CHOOSE s \in Slots \ bitmap[c] : \A r \in Slots \ bitmap[c] : s <= r

HpAddSystemCallFilter(c, f) ==
  /\ At("idle") /\ ~exiting /\ c \in table
  /\ c \in Gui => gui = "mapped"
  /\ array' = [array EXCEPT ![c] = TRUE]
  /\ IF bitmap[c] = Slots                  \* STATUS_HOOK_PORT_TOO_MANY_FILTERS
       THEN UNCHANGED << slot, op >>
       ELSE /\ slot' = [slot EXCEPT ![c][LowestFree(c)] = f]
            /\ op' = [at |-> "flag", c |-> c, s |-> LowestFree(c)]
  /\ UNCHANGED << refCount, table, bitmap, enabled, patchVars, envVars, threadVars >>

SetEnableFlag ==
  /\ At("flag")
  /\ enabled' = [enabled EXCEPT ![op.c] = TRUE]
  /\ Goto("bit")
  /\ UNCHANGED << refCount, table, slot, array, bitmap, patchVars, envVars, threadVars >>

SetFilterBit ==
  /\ At("bit")
  /\ bitmap' = [bitmap EXCEPT ![op.c] = @ \cup {op.s}]
  /\ Goto("patch")
  /\ UNCHANGED << refCount, table, slot, array, enabled, patchVars, envVars, threadVars >>

(* PatchSystemCall: nothing to do when g_Patches has an entry, otherwise   *)
(* the artificial stub is allocated and AddPatch records it, growing the   *)
(* array when it is full.  Either allocation may fail.                     *)

BadAlreadyPatched ==                     \* any patch will do
  /\ At("patch") /\ patches # {}
  /\ op' = Idle
  /\ UNCHANGED << portVars, patchVars, envVars, threadVars >>

AlreadyPatched ==
  /\ At("patch") /\ op.c \in patches
  /\ op' = Idle
  /\ UNCHANGED << portVars, patchVars, envVars, threadVars >>

BadPatchFails ==                         \* also for a call that is patched
  /\ At("patch")
  /\ Goto("clearBit")
  /\ UNCHANGED << portVars, patchVars, envVars, threadVars >>

PatchFails ==
  /\ At("patch") /\ op.c \notin patches
  /\ Goto("clearBit")
  /\ UNCHANGED << portVars, patchVars, envVars, threadVars >>

Full == Cardinality(patches) = capacity

AddPatch ==
  /\ At("patch") /\ op.c \notin patches
  /\ Full => patchArray = "null"
  /\ capacity' = IF Full THEN InitialPatchCapacity ELSE capacity
  /\ patchArray' = "live"
  /\ patches' = patches \cup {op.c}
  /\ Goto("jump")
  /\ UNCHANGED << portVars, entry, envVars, threadVars >>

(* A full array is copied and freed before its replacement is published. *)
FreeFullArray ==
  /\ At("patch") /\ op.c \notin patches /\ Full /\ patchArray = "live"
  /\ patchArray' = "freed"
  /\ Goto("grow")
  /\ UNCHANGED << portVars, patches, capacity, entry, envVars, threadVars >>

PublishGrownArray ==
  /\ At("grow")
  /\ patchArray' = "live"
  /\ capacity' = 2 * capacity
  /\ patches' = patches \cup {op.c}
  /\ Goto("jump")
  /\ UNCHANGED << portVars, entry, envVars, threadVars >>

(* WriteSystemCallJump: relative jump, relay or absolute jump; or failure, *)
(* which drops the patch entry and frees the stub.                         *)

WriteSystemCallJump ==
  /\ At("jump")
  /\ entry' = [entry EXCEPT ![op.c] = "jump"]
  /\ op' = Idle
  /\ UNCHANGED << portVars, patches, patchArray, capacity, envVars, threadVars >>

StubFreed(c) ==
  orig' = [t \in Threads |-> IF call[t] = c /\ orig[t] = "live" THEN "freed" ELSE orig[t]]

JumpFails ==
  /\ At("jump")
  /\ patches' = patches \ {op.c}
  /\ StubFreed(op.c)
  /\ Goto("clearBit")
  /\ UNCHANGED << portVars, patchArray, capacity, entry, envVars, pc, call, held, bits, cur >>

(* The roll back of a failed registration.  The enable flag stays set. *)

ClearFilterBit ==
  /\ At("clearBit")
  /\ bitmap' = [bitmap EXCEPT ![op.c] = @ \ {op.s}]
  /\ Goto("clearSlot")
  /\ UNCHANGED << refCount, table, slot, array, enabled, patchVars, envVars, threadVars >>

ClearSlot ==
  /\ At("clearSlot")
  /\ slot' = [slot EXCEPT ![op.c][op.s] = None]
  /\ op' = Idle
  /\ UNCHANGED << refCount, table, array, bitmap, enabled, patchVars, envVars, threadVars >>

-----------------------------------------------------------------------------
(* HpRemoveSystemCallFilter: the callback, then the bit, then (when no     *)
(* filter is left) the enable flag.  The entry stays patched.  Filters are *)
(* removed when the GUI modules go away and when the core is unloaded.     *)

Registered(c, f) == { s \in bitmap[c] : slot[c][s] = f }

HpRemoveSystemCallFilter(c, f) ==
  /\ At("idle") /\ c \in table
  /\ Registered(c, f) # {}
  /\ c \in Gui /\ (gui = "leaving" \/ exiting \/ CoreUnloads)
  /\ LET s == CHOOSE s \in Registered(c, f) : \A r \in Registered(c, f) : s <= r
     IN  /\ slot' = [slot EXCEPT ![c][s] = None]
         /\ op' = [at |-> "removeBit", c |-> c, s |-> s]
  /\ UNCHANGED << refCount, table, array, bitmap, enabled, patchVars, envVars, threadVars >>

RemoveBit ==
  /\ At("removeBit")
  /\ bitmap' = [bitmap EXCEPT ![op.c] = @ \ {op.s}]
  /\ IF bitmap[op.c] \subseteq {op.s} THEN Goto("removeFlag") ELSE op' = Idle
  /\ UNCHANGED << refCount, table, slot, array, enabled, patchVars, envVars, threadVars >>

RemoveFlag ==
  /\ At("removeFlag")
  /\ enabled' = [enabled EXCEPT ![op.c] = FALSE]
  /\ op' = Idle
  /\ UNCHANGED << refCount, table, slot, array, bitmap, patchVars, envVars, threadVars >>

-----------------------------------------------------------------------------
(* UnInstallHookPort: the last reference unpublishes the global info, then *)
(* restores the entries and frees their stubs, then frees g_Patches, then  *)
(* the callback arrays and tables.  A restore fails when the protection of *)
(* the entry cannot be changed; the entry then stays patched.  Removing a  *)
(* call from patches stands for the loop going past its entry.             *)

DropReference ==
  /\ At("idle") /\ refCount > 1 /\ (exiting \/ CoreUnloads)
  /\ refCount' = refCount - 1
  /\ UNCHANGED << table, slot, array, bitmap, enabled, patchVars, envVars, op, threadVars >>

UnInstallHookPort ==
  /\ At("idle") /\ refCount = 1 /\ (exiting \/ CoreUnloads)
  /\ refCount' = 0
  /\ Goto("restore")
  /\ UNCHANGED << table, slot, array, bitmap, enabled, patchVars, envVars, threadVars >>

RestorePatch(c) ==
  /\ At("restore") /\ c \in patches
  /\ patches' = patches \ {c}
  /\ \/ /\ entry' = [entry EXCEPT ![c] = "native"]
        /\ StubFreed(c)
     \/ UNCHANGED << entry, orig >>
  /\ UNCHANGED << portVars, patchArray, capacity, envVars, op, pc, call, held, bits, cur >>

FreePatches ==
  /\ At("restore") /\ patches = {}
  /\ patchArray' = "freed"
  /\ Goto("freePatches")
  /\ UNCHANGED << portVars, patches, capacity, entry, envVars, threadVars >>

ForgetPatches ==
  /\ At("freePatches")
  /\ patchArray' = "null"
  /\ capacity' = 0
  /\ Goto("freeCallbacks")
  /\ UNCHANGED << portVars, patches, entry, envVars, threadVars >>

FreeCallbacks ==
  /\ At("freeCallbacks")
  /\ table' = {}
  /\ slot' = [c \in Calls |-> NoSlots]
  /\ array' = [c \in Calls |-> FALSE]
  /\ bitmap' = [c \in Calls |-> {}]
  /\ enabled' = [c \in Calls |-> FALSE]
  /\ held' = [t \in Threads |-> IF held[t] = "none" THEN "none" ELSE "freed"]
  /\ Goto("gone")
  /\ UNCHANGED << refCount, patchVars, envVars, pc, call, orig, bits, cur >>
-----------------------------------------------------------------------------
(* The environment: the GUI modules are mapped and unmapped (the core is   *)
(* notified of both, under the loader lock), and the process exits, which  *)
(* ends every other thread before the core's DllMain is called.            *)

GuiMapped ==
  /\ At("idle") /\ ~exiting /\ gui = "absent" /\ guiLoads < MaxGuiLoads
  /\ gui' = "mapped"
  /\ guiLoads' = guiLoads + 1
  /\ UNCHANGED << portVars, patchVars, exiting, op, threadVars >>

GuiLeaving ==
  /\ At("idle") /\ ~exiting /\ gui = "mapped"
  /\ gui' = "leaving"
  /\ UNCHANGED << portVars, patchVars, guiLoads, exiting, op, threadVars >>

(* A module mapped again has fresh code: its stubs are not patched. *)
GuiUnmapped ==
  /\ At("idle") /\ gui = "leaving"
  /\ \A c \in Gui : bitmap[c] = {}
  /\ gui' = "absent"
  /\ entry' = [c \in Calls |-> IF c \in Gui THEN "native" ELSE entry[c]]
  /\ UNCHANGED << portVars, patches, patchArray, capacity, guiLoads, exiting, op, threadVars >>

ExitProcess ==
  /\ At("idle") /\ ~exiting
  /\ exiting' = TRUE
  /\ pc' = [t \in Threads |-> "dead"]
  /\ held' = [t \in Threads |-> "none"]
  /\ orig' = [t \in Threads |-> "null"]
  /\ UNCHANGED << portVars, patchVars, gui, guiLoads, op, call, bits, cur >>

-----------------------------------------------------------------------------
(* A wrapper (HpNtClose and the others): the SYSCALL_INFO is looked up,    *)
(* then Original, then DispatchTypedFilter runs the callbacks, and unless  *)
(* one of them blocked the call, Original is called.                       *)

Step(t, from, to) == pc[t] = from /\ pc' = [pc EXCEPT ![t] = to]

(* What LookupSyscallOriginal returns: the stub of a call found in the     *)
(* table and in g_Patches.                                                 *)
Original(c) == IF refCount > 0 /\ c \in table /\ c \in patches THEN "live" ELSE "null"

EnterWrapper(t, c) ==
  /\ entry[c] = "jump"
  /\ c \in Gui => gui # "absent"
  /\ Step(t, "out", IF refCount > 0 THEN "search" ELSE "original")
  /\ call' = [call EXCEPT ![t] = c]
  /\ held' = [held EXCEPT ![t] = IF refCount > 0 THEN "live" ELSE "none"]
  /\ UNCHANGED << portVars, patchVars, envVars, op, orig, bits, cur >>

(* HpFindHashTableEntry in the table whose address was read before. *)
FindHashTableEntry(t) ==
  /\ \/ /\ held[t] = "freed"
        /\ Step(t, "search", "freedTable")
        /\ UNCHANGED held
     \/ /\ held[t] # "freed"
        /\ Step(t, "search", "original")
        /\ held' = [held EXCEPT ![t] = IF call[t] \in table THEN "live" ELSE "none"]
  /\ UNCHANGED << portVars, patchVars, envVars, op, call, orig, bits, cur >>

LookupSyscallOriginal(t) ==
  /\ \/ patchArray = "freed" /\ Step(t, "original", "freedPatches") /\ UNCHANGED orig
     \/ /\ patchArray # "freed"
        /\ Step(t, "original", "filters")
        /\ orig' = [orig EXCEPT ![t] = Original(call[t])]
  /\ UNCHANGED << portVars, patchVars, envVars, op, call, held, bits, cur >>

(* DispatchTypedFilter up to its copy of the bitmap. *)
SnapshotFilters(t) ==
  /\ \/ held[t] = "freed" /\ Step(t, "filters", "freedCallbacks") /\ UNCHANGED bits
     \/ /\ held[t] = "live" /\ array[call[t]] /\ enabled[call[t]]
        /\ Step(t, "filters", "scan")
        /\ bits' = [bits EXCEPT ![t] = bitmap[call[t]]]
     \/ /\ held[t] = "none" \/ (held[t] = "live" /\ ~(array[call[t]] /\ enabled[call[t]]))
        /\ Step(t, "filters", "callOriginal")
        /\ UNCHANGED bits
  /\ UNCHANGED << portVars, patchVars, envVars, op, call, held, orig, cur >>

LowestBit(t) == CHOOSE s \in bits[t] : \A r \in bits[t] : s <= r

BadScanFilter(t) ==                      \* the bitmap is not shifted
  /\ \/ bits[t] = {} /\ Step(t, "scan", "callOriginal") /\ UNCHANGED cur
     \/ /\ bits[t] # {} /\ held[t] # "freed"
        /\ cur' = [cur EXCEPT ![t] = LowestBit(t)]
        /\ Step(t, "scan", IF slot[call[t]][LowestBit(t)] = None THEN "scan" ELSE "invoke")
  /\ UNCHANGED << portVars, patchVars, envVars, op, call, held, orig, bits >>

UntestedScanFilter(t) ==                 \* an emptied slot is not skipped
  /\ \/ bits[t] = {} /\ Step(t, "scan", "callOriginal") /\ UNCHANGED << bits, cur >>
     \/ /\ bits[t] # {} /\ held[t] # "freed"
        /\ bits' = [bits EXCEPT ![t] = @ \ {LowestBit(t)}]
        /\ cur' = [cur EXCEPT ![t] = LowestBit(t)]
        /\ Step(t, "scan", "invoke")
  /\ UNCHANGED << portVars, patchVars, envVars, op, call, held, orig >>

(* One turn of the loop up to the test of Filters->Callback; an emptied    *)
(* slot is skipped.  The test reads the field once and the call reads it   *)
(* again; nothing in the code keeps the compiler from doing both.          *)
ScanFilter(t) ==
  /\ \/ bits[t] = {} /\ Step(t, "scan", "callOriginal") /\ UNCHANGED << bits, cur >>
     \/ bits[t] # {} /\ held[t] = "freed" /\ Step(t, "scan", "freedCallbacks") /\ UNCHANGED << bits, cur >>
     \/ /\ bits[t] # {} /\ held[t] # "freed"
        /\ bits' = [bits EXCEPT ![t] = @ \ {LowestBit(t)}]
        /\ cur' = [cur EXCEPT ![t] = LowestBit(t)]
        /\ Step(t, "scan", IF slot[call[t]][LowestBit(t)] = None THEN "scan" ELSE "invoke")
  /\ UNCHANGED << portVars, patchVars, envVars, op, call, held, orig >>

Leave(t) ==
  /\ pc' = [pc EXCEPT ![t] = "out"]
  /\ call' = [call EXCEPT ![t] = None]
  /\ held' = [held EXCEPT ![t] = "none"]
  /\ orig' = [orig EXCEPT ![t] = "null"]
  /\ bits' = [bits EXCEPT ![t] = {}]
  /\ cur' = [cur EXCEPT ![t] = 0]

RereadsBadCallback(t) ==
  /\ pc[t] = "invoke"
  /\ \/ held[t] = "freed" /\ Step(t, "invoke", "freedCallbacks")
     \/ held[t] # "freed" /\ slot[call[t]][cur[t]] = None /\ Step(t, "invoke", "nullCallback")
  /\ UNCHANGED << portVars, patchVars, envVars, op, call, held, orig, bits, cur >>

(* The callback lets the call continue. *)
InvokeContinues(t) ==
  /\ Step(t, "invoke", "scan")
  /\ UNCHANGED << portVars, patchVars, envVars, op, call, held, orig, bits, cur >>

(* The callback blocks the call. *)
InvokeBlocks(t) ==
  /\ pc[t] = "invoke"
  /\ Leave(t)
  /\ UNCHANGED << portVars, patchVars, envVars, op >>

(* The callback calls the system call itself (HpCallSysCall, which looks   *)
(* the original up again) and then blocks.                                 *)
InvokeCallsOriginal(t) ==
  /\ \/ patchArray = "freed" /\ Step(t, "invoke", "freedPatches") /\ UNCHANGED << orig, bits >>
     \/ /\ patchArray # "freed"
        /\ Step(t, "invoke", "callOriginal")
        /\ orig' = [orig EXCEPT ![t] = Original(call[t])]
        /\ bits' = [bits EXCEPT ![t] = {}]
  /\ UNCHANGED << portVars, patchVars, envVars, op, call, held, cur >>

CallOriginal(t) ==
  /\ Step(t, "callOriginal", CASE orig[t] = "null"  -> "nullOriginal"
                              [] orig[t] = "freed" -> "freedOriginal"
                              [] orig[t] = "live"  -> "inCall")
  /\ UNCHANGED << portVars, patchVars, envVars, op, call, held, orig, bits, cur >>

(* Back from the kernel, to the ret of the stub. *)
ReturnFromCall(t) ==
  /\ pc[t] = "inCall"
  /\ IF orig[t] = "freed"
       THEN pc' = [pc EXCEPT ![t] = "freedOriginal"] /\ UNCHANGED << call, held, orig, bits, cur >>
       ELSE Leave(t)
  /\ UNCHANGED << portVars, patchVars, envVars, op >>

-----------------------------------------------------------------------------
Register ==
  \/ InstallHookPort
  \/ \E c \in Calls, f \in Filters : HpAddSystemCallFilter(c, f)
  \/ SetEnableFlag \/ SetFilterBit
  \/ AlreadyPatched \/ PatchFails \/ AddPatch \/ FreeFullArray \/ PublishGrownArray
  \/ WriteSystemCallJump \/ JumpFails
  \/ ClearFilterBit \/ ClearSlot

Gui32 ==
  \/ GuiMapped \/ GuiLeaving \/ GuiUnmapped
  \/ \E batch \in SUBSET Gui : HpAddSystemCall(batch)
  \/ DestroyOldTable

Unregister ==
  \/ \E c \in Calls, f \in Filters : HpRemoveSystemCallFilter(c, f)
  \/ RemoveBit \/ RemoveFlag

Teardown ==
  \/ ExitProcess
  \/ DropReference \/ UnInstallHookPort
  \/ \E c \in Calls : RestorePatch(c)
  \/ FreePatches \/ ForgetPatches \/ FreeCallbacks

Dispatch(t) ==
  \/ FindHashTableEntry(t)
  \/ LookupSyscallOriginal(t)
  \/ SnapshotFilters(t)
  \/ ScanFilter(t)
  \/ RereadsBadCallback(t)
  \/ InvokeContinues(t)
  \/ InvokeBlocks(t)
  \/ InvokeCallsOriginal(t)
  \/ CallOriginal(t)
  \/ ReturnFromCall(t)

Next ==
  \/ Register \/ Gui32 \/ Unregister \/ Teardown
  \/ \E t \in Threads : Dispatch(t) \/ \E c \in Calls : EnterWrapper(t, c)

Spec == Init /\ [][Next]_vars

(* A thread inside a wrapper keeps running: the scheduler is fair to it,   *)
(* and the kernel completes the call.  Nothing is assumed of the loader.   *)
Fairness == \A t \in Threads : WF_vars(Dispatch(t))
FairSpec == Spec /\ Fairness

-----------------------------------------------------------------------------
PortTypes ==
  /\ refCount \in 0 .. MaxRefCount
  /\ table \subseteq Calls
  /\ slot \in [Calls -> [Slots -> Filters \cup {None}]]
  /\ array \in [Calls -> BOOLEAN]
  /\ bitmap \in [Calls -> SUBSET Slots]
  /\ enabled \in [Calls -> BOOLEAN]

PatchTypes ==
  /\ patches \subseteq Calls
  /\ patchArray \in {"null", "live", "freed"}
  /\ capacity \in Nat
  /\ entry \in [Calls -> {"native", "jump"}]

EnvTypes ==
  /\ gui \in {"absent", "mapped", "leaving"}
  /\ guiLoads \in 0 .. MaxGuiLoads
  /\ exiting \in BOOLEAN

(* An operation in progress works on a call; only the loader at rest and   *)
(* UnInstallHookPort do not.                                               *)
Whole == { "idle", "destroyOld", "restore", "freePatches", "freeCallbacks", "gone" }

OpTypes ==
  /\ op \in [at : LoaderSteps, c : Calls \cup {None}, s : Slots]
  /\ op.at \notin Whole => op.c \in Calls

ThreadTypes ==
  /\ pc \in [Threads -> Running \cup Faults \cup {"out", "dead"}]
  /\ call \in [Threads -> Calls \cup {None}]
  /\ \A t \in Threads : pc[t] \in Running => call[t] \in Calls
  /\ held \in [Threads -> {"none", "live", "old", "freed"}]
  /\ orig \in [Threads -> {"null", "live", "freed"}]
  /\ bits \in [Threads -> SUBSET Slots]
  /\ cur \in [Threads -> Slots]

(* Every variable has its type, and whatever works on a call knows which.  *)
TypeOK == PortTypes /\ PatchTypes /\ EnvTypes /\ OpTypes /\ ThreadTypes

(* No thread calls through a null or freed pointer and none reads freed    *)
(* memory in a wrapper: the wrapper always reaches the callbacks or the    *)
(* original the caller asked for (DispatchTypedFilter, HpNt...).           *)
NoFault == \A t \in Threads : pc[t] \notin Faults

(* The order of HpAddSystemCallFilter and PatchSystemCall: an entry jumps  *)
(* to its wrapper only once the wrapper finds the call in the table and    *)
(* its original in g_Patches.                                              *)
JumpHasOriginal ==
  refCount > 0 => \A c \in Calls : entry[c] = "jump" => c \in table /\ c \in patches

(* A bit of the bitmap always stands for a callback, except for the one    *)
(* slot the loader is emptying (HpRemoveSystemCallFilter).                 *)
BitHasCallback ==
  \A c \in Calls : \A s \in bitmap[c] :
    slot[c][s] # None \/ (At("removeBit") /\ op.c = c /\ op.s = s)

(* Rolling back a failed registration races with nobody: no thread can be  *)
(* in the wrapper of the call whose filter and stub are taken back.        *)
RollbackUnseen ==
  op.at \in {"clearBit", "clearSlot"} =>
    \A t \in Threads : pc[t] \in Running => call[t] # op.c

(* A thread that enters a wrapper leaves it, however many filters the      *)
(* loader keeps adding and removing meanwhile: the loop works on a copy of *)
(* the bitmap.                                                             *)
CallsReturn == \A t \in Threads : pc[t] \in Running ~> pc[t] \notin Running
=============================================================================
