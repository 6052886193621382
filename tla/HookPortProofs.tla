--------------------------- MODULE HookPortProofs ---------------------------
(* Theorems about HookPort for any number of calls, filters and threads.    *)
EXTENDS MCHookPort, FiniteSetTheorems, WellFoundedInduction, TLAPS

(* A nonempty set of naturals has a least element. *)
LEMMA LeastElement ==
  ASSUME NEW B \in SUBSET Nat, B # {}
  PROVE  \E s \in B : \A r \in B : s <= r
<1> DEFINE Less == OpToRel(<, Nat)
<1>1. IsWellFoundedOn(Less, Nat)
  BY NatLessThanWellFounded
<1>2. PICK s \in B : \A r \in B : ~ (<<r, s>> \in Less)
  <2> HIDE DEF Less
  <2> QED BY <1>1, WFMin
<1>3. \A r, q \in Nat : <<r, q>> \in Less <=> r < q
  BY DEF OpToRel
<1> QED
  <2> HIDE DEF Less
  <2>1. \A r \in B : ~(r < s) BY <1>2, <1>3
  <2> QED BY <2>1

(* CHOOSE of the least slot of a nonempty set of slots. *)
LEMMA LeastSlot ==
  ASSUME NEW B \in SUBSET Slots, B # {}
  PROVE  (CHOOSE s \in B : \A r \in B : s <= r) \in B
<1>1. B \in SUBSET Nat
  BY SizeAssumption DEF Slots
<1>2. \E s \in B : \A r \in B : s <= r
  BY <1>1, LeastElement
<1> QED BY <1>2

(* The slots LowestFree and LowestBit pick. *)
LEMMA LowestFreeIsFree ==
  ASSUME TypeOK, NEW c \in Calls, bitmap[c] # Slots
  PROVE  LowestFree(c) \in Slots \ bitmap[c]
<1>1. Slots \ bitmap[c] \in SUBSET Slots /\ Slots \ bitmap[c] # {}
  BY DEF TypeOK, PortTypes
<1> QED BY <1>1, LeastSlot DEF LowestFree

LEMMA LowestBitIsSet ==
  ASSUME TypeOK, NEW t \in Threads, bits[t] # {}
  PROVE  LowestBit(t) \in bits[t] /\ LowestBit(t) \in Slots
<1>1. bits[t] \in SUBSET Slots
  BY DEF TypeOK, ThreadTypes
<1> QED BY <1>1, LeastSlot DEF LowestBit

LEMMA ZeroIsSlot == 0 \in Slots
BY SizeAssumption DEF Slots

(* What the loader's next position is worth as a value of op. *)
LEMMA GotoTyped ==
  ASSUME OpTypes, NEW step \in LoaderSteps, op.at \notin Whole \/ step \in Whole, Goto(step)
  PROVE  OpTypes'
BY DEF OpTypes, Goto, LoaderSteps, Whole

LEMMA IdleTyped ==
  ASSUME op' = Idle
  PROVE  OpTypes'
BY ZeroIsSlot DEF OpTypes, Idle, LoaderSteps, Whole

(* A store into one slot of one callback array. *)
LEMMA SlotTyped ==
  ASSUME PortTypes, NEW c \in Calls, NEW s \in Slots, NEW f \in Filters \cup {None}
  PROVE  [slot EXCEPT ![c][s] = f] \in [Calls -> [Slots -> Filters \cup {None}]]
<1>1. [slot[c] EXCEPT ![s] = f] \in [Slots -> Filters \cup {None}]
  BY DEF PortTypes
<1> QED BY <1>1 DEF PortTypes

(* Every variable keeps its type. *)
LEMMA TypeInit == Init => TypeOK
<1> SUFFICES ASSUME Init PROVE TypeOK
  OBVIOUS
<1>1. PortTypes
  BY SizeAssumption DEF Init, PortTypes, NoSlots
<1>2. PatchTypes
  BY DEF Init, PatchTypes
<1>5. EnvTypes
  <2>1. guiLoads \in 0 .. MaxGuiLoads
    BY SizeAssumption DEF Init
  <2> QED BY <2>1 DEF Init, EnvTypes
<1>3. OpTypes
  BY ZeroIsSlot DEF Init, OpTypes, Idle, LoaderSteps, Whole
<1>4. ThreadTypes
  BY ZeroIsSlot DEF Init, ThreadTypes, Running
<1> QED BY <1>1, <1>2, <1>3, <1>4, <1>5 DEF TypeOK

LEMMA TypeStep == TypeOK /\ [Next]_vars => TypeOK'
<1> SUFFICES ASSUME TypeOK, [Next]_vars PROVE TypeOK'
  OBVIOUS
<1> USE SizeAssumption
<1>0. PortTypes /\ PatchTypes /\ EnvTypes /\ OpTypes /\ ThreadTypes
  BY DEF TypeOK
<1>u. /\ UNCHANGED portVars => PortTypes'
      /\ UNCHANGED patchVars => PatchTypes'
      /\ UNCHANGED envVars => EnvTypes'
      /\ UNCHANGED op => OpTypes'
      /\ UNCHANGED threadVars => ThreadTypes'
  BY <1>0 DEF portVars, PortTypes, patchVars, PatchTypes, envVars, EnvTypes, OpTypes, threadVars, ThreadTypes
<1>1. ASSUME InstallHookPort PROVE TypeOK'
  <2>1. PortTypes'
    BY <1>1, <1>0 DEF InstallHookPort, PortTypes
  <2>2. PatchTypes' /\ EnvTypes' /\ OpTypes' /\ ThreadTypes'
    BY <1>1, <1>u DEF InstallHookPort
  <2> QED BY <2>1, <2>2 DEF TypeOK
<1>2. ASSUME NEW c \in Calls, NEW f \in Filters, HpAddSystemCallFilter(c, f) PROVE TypeOK'
  <2>1. slot' \in [Calls -> [Slots -> Filters \cup {None}]]
    <3>1. CASE bitmap[c] = Slots
      BY <1>2, <1>0, <3>1 DEF HpAddSystemCallFilter, PortTypes
    <3>2. CASE bitmap[c] # Slots
      <4>1. LowestFree(c) \in Slots
        BY <3>2, LowestFreeIsFree
      <4>2. slot' = [slot EXCEPT ![c][LowestFree(c)] = f]
        BY <1>2, <3>2 DEF HpAddSystemCallFilter
      <4> QED BY <1>0, <4>1, <4>2, SlotTyped
    <3> QED BY <3>1, <3>2
  <2>2. array' \in [Calls -> BOOLEAN]
    BY <1>2, <1>0 DEF HpAddSystemCallFilter, PortTypes
  <2>3. PortTypes'
    BY <1>2, <1>0, <2>1, <2>2 DEF HpAddSystemCallFilter, PortTypes
  <2>4. OpTypes'
    BY <1>2, <1>0, LowestFreeIsFree DEF HpAddSystemCallFilter, OpTypes, LoaderSteps, Whole
  <2>5. PatchTypes' /\ EnvTypes' /\ ThreadTypes'
    BY <1>2, <1>u DEF HpAddSystemCallFilter
  <2> QED BY <2>3, <2>4, <2>5 DEF TypeOK
<1>3. ASSUME SetEnableFlag PROVE TypeOK'
  <2>1. PortTypes'
    BY <1>3, <1>0 DEF SetEnableFlag, PortTypes, OpTypes, At, Whole
  <2>2. OpTypes'
    BY <1>3, <1>0, GotoTyped DEF SetEnableFlag, At, LoaderSteps, Whole
  <2>3. PatchTypes' /\ EnvTypes' /\ ThreadTypes'
    BY <1>3, <1>u DEF SetEnableFlag
  <2> QED BY <2>1, <2>2, <2>3 DEF TypeOK
<1>4. ASSUME SetFilterBit PROVE TypeOK'
  <2>1. PortTypes'
    BY <1>4, <1>0 DEF SetFilterBit, PortTypes, OpTypes, At, Whole
  <2>2. OpTypes'
    BY <1>4, <1>0, GotoTyped DEF SetFilterBit, At, LoaderSteps, Whole
  <2>3. PatchTypes' /\ EnvTypes' /\ ThreadTypes'
    BY <1>4, <1>u DEF SetFilterBit
  <2> QED BY <2>1, <2>2, <2>3 DEF TypeOK
<1>5. ASSUME AlreadyPatched PROVE TypeOK'
  <2>1. OpTypes'
    BY <1>5, <1>0, IdleTyped DEF AlreadyPatched
  <2>2. PortTypes' /\ PatchTypes' /\ EnvTypes' /\ ThreadTypes'
    BY <1>5, <1>u DEF AlreadyPatched
  <2> QED BY <2>1, <2>2 DEF TypeOK
<1>6. ASSUME PatchFails PROVE TypeOK'
  <2>1. OpTypes'
    BY <1>6, <1>0, GotoTyped DEF PatchFails, At, LoaderSteps, Whole
  <2>2. PortTypes' /\ PatchTypes' /\ EnvTypes' /\ ThreadTypes'
    BY <1>6, <1>u DEF PatchFails
  <2> QED BY <2>1, <2>2 DEF TypeOK
<1>7. ASSUME AddPatch PROVE TypeOK'
  <2>1. PatchTypes'
    BY <1>7, <1>0 DEF AddPatch, PatchTypes, OpTypes, At, Whole
  <2>2. OpTypes'
    BY <1>7, <1>0, GotoTyped DEF AddPatch, At, LoaderSteps, Whole
  <2>3. PortTypes' /\ EnvTypes' /\ ThreadTypes'
    BY <1>7, <1>u DEF AddPatch
  <2> QED BY <2>1, <2>2, <2>3 DEF TypeOK
<1>8. ASSUME FreeFullArray PROVE TypeOK'
  <2>1. PatchTypes'
    BY <1>8, <1>0 DEF FreeFullArray, PatchTypes
  <2>2. OpTypes'
    BY <1>8, <1>0, GotoTyped DEF FreeFullArray, At, LoaderSteps, Whole
  <2>3. PortTypes' /\ EnvTypes' /\ ThreadTypes'
    BY <1>8, <1>u DEF FreeFullArray
  <2> QED BY <2>1, <2>2, <2>3 DEF TypeOK
<1>9. ASSUME PublishGrownArray PROVE TypeOK'
  <2>1. PatchTypes'
    BY <1>9, <1>0 DEF PublishGrownArray, PatchTypes, OpTypes, At, Whole
  <2>2. OpTypes'
    BY <1>9, <1>0, GotoTyped DEF PublishGrownArray, At, LoaderSteps, Whole
  <2>3. PortTypes' /\ EnvTypes' /\ ThreadTypes'
    BY <1>9, <1>u DEF PublishGrownArray
  <2> QED BY <2>1, <2>2, <2>3 DEF TypeOK
<1>10. ASSUME WriteSystemCallJump PROVE TypeOK'
  <2>1. PatchTypes'
    BY <1>10, <1>0 DEF WriteSystemCallJump, PatchTypes, OpTypes, At, Whole
  <2>2. OpTypes'
    BY <1>10, <1>0, IdleTyped DEF WriteSystemCallJump
  <2>3. PortTypes' /\ EnvTypes' /\ ThreadTypes'
    BY <1>10, <1>u DEF WriteSystemCallJump
  <2> QED BY <2>1, <2>2, <2>3 DEF TypeOK
<1>11. ASSUME JumpFails PROVE TypeOK'
  <2>1. PatchTypes'
    BY <1>11, <1>0 DEF JumpFails, PatchTypes
  <2>2. OpTypes'
    BY <1>11, <1>0, GotoTyped DEF JumpFails, At, LoaderSteps, Whole
  <2>3. ThreadTypes'
    BY <1>11, <1>0 DEF JumpFails, ThreadTypes, StubFreed
  <2>4. PortTypes' /\ EnvTypes'
    BY <1>11, <1>u DEF JumpFails
  <2> QED BY <2>1, <2>2, <2>3, <2>4 DEF TypeOK
<1>12. ASSUME ClearFilterBit PROVE TypeOK'
  <2>1. PortTypes'
    BY <1>12, <1>0 DEF ClearFilterBit, PortTypes, OpTypes, At, Whole
  <2>2. OpTypes'
    BY <1>12, <1>0, GotoTyped DEF ClearFilterBit, At, LoaderSteps, Whole
  <2>3. PatchTypes' /\ EnvTypes' /\ ThreadTypes'
    BY <1>12, <1>u DEF ClearFilterBit
  <2> QED BY <2>1, <2>2, <2>3 DEF TypeOK
<1>13. ASSUME ClearSlot PROVE TypeOK'
  <2>1. PortTypes'
    BY <1>13, <1>0, SlotTyped DEF ClearSlot, PortTypes, OpTypes, At, Whole
  <2>2. OpTypes'
    BY <1>13, <1>0, IdleTyped DEF ClearSlot
  <2>3. PatchTypes' /\ EnvTypes' /\ ThreadTypes'
    BY <1>13, <1>u DEF ClearSlot
  <2> QED BY <2>1, <2>2, <2>3 DEF TypeOK
<1>14. ASSUME GuiMapped PROVE TypeOK'
  <2>1. EnvTypes'
    BY <1>14, <1>0 DEF GuiMapped, EnvTypes
  <2>2. PortTypes' /\ PatchTypes' /\ OpTypes' /\ ThreadTypes'
    BY <1>14, <1>u DEF GuiMapped
  <2> QED BY <2>1, <2>2 DEF TypeOK
<1>15. ASSUME GuiLeaving PROVE TypeOK'
  <2>1. EnvTypes'
    BY <1>15, <1>0 DEF GuiLeaving, EnvTypes
  <2>2. PortTypes' /\ PatchTypes' /\ OpTypes' /\ ThreadTypes'
    BY <1>15, <1>u DEF GuiLeaving
  <2> QED BY <2>1, <2>2 DEF TypeOK
<1>16. ASSUME GuiUnmapped PROVE TypeOK'
  <2>1. EnvTypes'
    BY <1>16, <1>0 DEF GuiUnmapped, EnvTypes
  <2>2. PatchTypes'
    BY <1>16, <1>0 DEF GuiUnmapped, PatchTypes
  <2>3. PortTypes' /\ OpTypes' /\ ThreadTypes'
    BY <1>16, <1>u DEF GuiUnmapped
  <2> QED BY <2>1, <2>2, <2>3 DEF TypeOK
<1>17. ASSUME NEW batch \in SUBSET Gui, HpAddSystemCall(batch) PROVE TypeOK'
  <2>1. PortTypes'
    BY <1>17, <1>0, CallsAssumption DEF HpAddSystemCall, PortTypes
  <2>2. OpTypes'
    BY <1>17, <1>0, GotoTyped DEF HpAddSystemCall, At, LoaderSteps, Whole
  <2>3. ThreadTypes'
    BY <1>17, <1>0 DEF HpAddSystemCall, ThreadTypes
  <2>4. PatchTypes' /\ EnvTypes'
    BY <1>17, <1>u DEF HpAddSystemCall
  <2> QED BY <2>1, <2>2, <2>3, <2>4 DEF TypeOK
<1>18. ASSUME DestroyOldTable PROVE TypeOK'
  <2>1. OpTypes'
    BY <1>18, <1>0, IdleTyped DEF DestroyOldTable
  <2>2. ThreadTypes'
    BY <1>18, <1>0 DEF DestroyOldTable, ThreadTypes
  <2>3. PortTypes' /\ PatchTypes' /\ EnvTypes'
    BY <1>18, <1>u DEF DestroyOldTable
  <2> QED BY <2>1, <2>2, <2>3 DEF TypeOK
<1>19. ASSUME NEW c \in Calls, NEW f \in Filters, HpRemoveSystemCallFilter(c, f) PROVE TypeOK'
  <2> DEFINE s == CHOOSE s \in Registered(c, f) : \A r \in Registered(c, f) : s <= r
  <2>0. s \in Slots
    BY <1>19, <1>0, LeastSlot DEF HpRemoveSystemCallFilter, Registered, PortTypes
  <2>1. PortTypes' /\ OpTypes'
    <3> HIDE DEF s
    <3>1. slot' = [slot EXCEPT ![c][s] = None] /\ op' = [at |-> "removeBit", c |-> c, s |-> s]
      BY <1>19 DEF HpRemoveSystemCallFilter, s
    <3>4. slot' \in [Calls -> [Slots -> Filters \cup {None}]]
      BY <1>0, <2>0, <3>1, SlotTyped
    <3>2. PortTypes'
      BY <1>19, <1>0, <3>4 DEF HpRemoveSystemCallFilter, PortTypes
    <3>3. OpTypes'
      BY <2>0, <3>1 DEF OpTypes, LoaderSteps, Whole
    <3> QED BY <3>2, <3>3
  <2>2. PatchTypes' /\ EnvTypes' /\ ThreadTypes'
    BY <1>19, <1>u DEF HpRemoveSystemCallFilter
  <2> QED BY <2>1, <2>2 DEF TypeOK
<1>20. ASSUME RemoveBit PROVE TypeOK'
  <2>1. PortTypes'
    BY <1>20, <1>0 DEF RemoveBit, PortTypes, OpTypes, At, Whole
  <2>2. OpTypes'
    BY <1>20, <1>0, GotoTyped, IdleTyped DEF RemoveBit, At, LoaderSteps, Whole
  <2>3. PatchTypes' /\ EnvTypes' /\ ThreadTypes'
    BY <1>20, <1>u DEF RemoveBit
  <2> QED BY <2>1, <2>2, <2>3 DEF TypeOK
<1>21. ASSUME RemoveFlag PROVE TypeOK'
  <2>1. PortTypes'
    BY <1>21, <1>0 DEF RemoveFlag, PortTypes, OpTypes, At, Whole
  <2>2. OpTypes'
    BY <1>21, <1>0, IdleTyped DEF RemoveFlag
  <2>3. PatchTypes' /\ EnvTypes' /\ ThreadTypes'
    BY <1>21, <1>u DEF RemoveFlag
  <2> QED BY <2>1, <2>2, <2>3 DEF TypeOK
<1>22. ASSUME ExitProcess PROVE TypeOK'
  <2>1. EnvTypes'
    BY <1>22, <1>0 DEF ExitProcess, EnvTypes
  <2>2. ThreadTypes'
    BY <1>22, <1>0 DEF ExitProcess, ThreadTypes, Running
  <2>3. PortTypes' /\ PatchTypes' /\ OpTypes'
    BY <1>22, <1>u DEF ExitProcess
  <2> QED BY <2>1, <2>2, <2>3 DEF TypeOK
<1>23. ASSUME DropReference PROVE TypeOK'
  <2>1. PortTypes'
    BY <1>23, <1>0 DEF DropReference, PortTypes
  <2>2. PatchTypes' /\ EnvTypes' /\ OpTypes' /\ ThreadTypes'
    BY <1>23, <1>u DEF DropReference
  <2> QED BY <2>1, <2>2 DEF TypeOK
<1>24. ASSUME UnInstallHookPort PROVE TypeOK'
  <2>1. PortTypes'
    BY <1>24, <1>0 DEF UnInstallHookPort, PortTypes
  <2>2. OpTypes'
    BY <1>24, <1>0, GotoTyped DEF UnInstallHookPort, At, LoaderSteps, Whole
  <2>3. PatchTypes' /\ EnvTypes' /\ ThreadTypes'
    BY <1>24, <1>u DEF UnInstallHookPort
  <2> QED BY <2>1, <2>2, <2>3 DEF TypeOK
<1>25. ASSUME NEW c \in Calls, RestorePatch(c) PROVE TypeOK'
  <2>1. PatchTypes'
    BY <1>25, <1>0 DEF RestorePatch, PatchTypes
  <2>2. ThreadTypes'
    BY <1>25, <1>0 DEF RestorePatch, ThreadTypes, StubFreed
  <2>3. PortTypes' /\ EnvTypes' /\ OpTypes'
    BY <1>25, <1>u DEF RestorePatch
  <2> QED BY <2>1, <2>2, <2>3 DEF TypeOK
<1>26. ASSUME FreePatches PROVE TypeOK'
  <2>1. PatchTypes'
    BY <1>26, <1>0 DEF FreePatches, PatchTypes
  <2>2. OpTypes'
    BY <1>26, <1>0, GotoTyped DEF FreePatches, At, LoaderSteps, Whole
  <2>3. PortTypes' /\ EnvTypes' /\ ThreadTypes'
    BY <1>26, <1>u DEF FreePatches
  <2> QED BY <2>1, <2>2, <2>3 DEF TypeOK
<1>27. ASSUME ForgetPatches PROVE TypeOK'
  <2>1. PatchTypes'
    BY <1>27, <1>0 DEF ForgetPatches, PatchTypes
  <2>2. OpTypes'
    BY <1>27, <1>0, GotoTyped DEF ForgetPatches, At, LoaderSteps, Whole
  <2>3. PortTypes' /\ EnvTypes' /\ ThreadTypes'
    BY <1>27, <1>u DEF ForgetPatches
  <2> QED BY <2>1, <2>2, <2>3 DEF TypeOK
<1>28. ASSUME FreeCallbacks PROVE TypeOK'
  <2>1. PortTypes'
    BY <1>28, <1>0 DEF FreeCallbacks, PortTypes, NoSlots
  <2>2. OpTypes'
    BY <1>28, <1>0, GotoTyped DEF FreeCallbacks, At, LoaderSteps, Whole
  <2>3. ThreadTypes'
    BY <1>28, <1>0 DEF FreeCallbacks, ThreadTypes
  <2>4. PatchTypes' /\ EnvTypes'
    BY <1>28, <1>u DEF FreeCallbacks
  <2> QED BY <2>1, <2>2, <2>3, <2>4 DEF TypeOK
<1>29. ASSUME NEW t \in Threads, NEW c \in Calls, EnterWrapper(t, c) PROVE TypeOK'
  <2>1. ThreadTypes'
    BY <1>29, <1>0 DEF EnterWrapper, ThreadTypes, Step, Running
  <2>2. PortTypes' /\ PatchTypes' /\ EnvTypes' /\ OpTypes'
    BY <1>29, <1>u DEF EnterWrapper
  <2> QED BY <2>1, <2>2 DEF TypeOK
<1>30. ASSUME NEW t \in Threads, FindHashTableEntry(t) PROVE TypeOK'
  <2>1. ThreadTypes'
    BY <1>30, <1>0 DEF FindHashTableEntry, ThreadTypes, Step, Running, Faults
  <2>2. PortTypes' /\ PatchTypes' /\ EnvTypes' /\ OpTypes'
    BY <1>30, <1>u DEF FindHashTableEntry
  <2> QED BY <2>1, <2>2 DEF TypeOK
<1>31. ASSUME NEW t \in Threads, LookupSyscallOriginal(t) PROVE TypeOK'
  <2>1. ThreadTypes'
    BY <1>31, <1>0 DEF LookupSyscallOriginal, ThreadTypes, Step, Running, Faults, Original
  <2>2. PortTypes' /\ PatchTypes' /\ EnvTypes' /\ OpTypes'
    BY <1>31, <1>u DEF LookupSyscallOriginal
  <2> QED BY <2>1, <2>2 DEF TypeOK
<1>32. ASSUME NEW t \in Threads, SnapshotFilters(t) PROVE TypeOK'
  <2>1. pc' \in [Threads -> Running \cup Faults \cup {"out", "dead"}]
    BY <1>32, <1>0 DEF SnapshotFilters, ThreadTypes, Step, Running, Faults
  <2>2. bits' \in [Threads -> SUBSET Slots]
    <3>1. bitmap[call[t]] \in SUBSET Slots
      BY <1>32, <1>0 DEF SnapshotFilters, ThreadTypes, PortTypes, Step, Running
    <3> QED BY <1>32, <1>0, <3>1 DEF SnapshotFilters, ThreadTypes
  <2>3. \A u \in Threads : pc'[u] \in Running => call'[u] \in Calls
    BY <1>32, <1>0 DEF SnapshotFilters, ThreadTypes, Step, Running, Faults
  <2>4. ThreadTypes'
    BY <1>32, <1>0, <2>1, <2>2, <2>3 DEF SnapshotFilters, ThreadTypes
  <2>5. PortTypes' /\ PatchTypes' /\ EnvTypes' /\ OpTypes'
    BY <1>32, <1>u DEF SnapshotFilters
  <2> QED BY <2>4, <2>5 DEF TypeOK
<1>33. ASSUME NEW t \in Threads, ScanFilter(t) PROVE TypeOK'
  <2>1. ThreadTypes'
    BY <1>33, <1>0, LowestBitIsSet DEF ScanFilter, ThreadTypes, Step, Running, Faults
  <2>2. PortTypes' /\ PatchTypes' /\ EnvTypes' /\ OpTypes'
    BY <1>33, <1>u DEF ScanFilter
  <2> QED BY <2>1, <2>2 DEF TypeOK
<1>34. ASSUME NEW t \in Threads, RereadsBadCallback(t) PROVE TypeOK'
  <2>1. ThreadTypes'
    BY <1>34, <1>0 DEF RereadsBadCallback, ThreadTypes, Step, Running, Faults
  <2>2. PortTypes' /\ PatchTypes' /\ EnvTypes' /\ OpTypes'
    BY <1>34, <1>u DEF RereadsBadCallback
  <2> QED BY <2>1, <2>2 DEF TypeOK
<1>35. ASSUME NEW t \in Threads, InvokeContinues(t) PROVE TypeOK'
  <2>1. ThreadTypes'
    BY <1>35, <1>0 DEF InvokeContinues, ThreadTypes, Step, Running
  <2>2. PortTypes' /\ PatchTypes' /\ EnvTypes' /\ OpTypes'
    BY <1>35, <1>u DEF InvokeContinues
  <2> QED BY <2>1, <2>2 DEF TypeOK
<1>36. ASSUME NEW t \in Threads, InvokeBlocks(t) PROVE TypeOK'
  <2>1. ThreadTypes'
    BY <1>36, <1>0, ZeroIsSlot DEF InvokeBlocks, ThreadTypes, Leave, Running
  <2>2. PortTypes' /\ PatchTypes' /\ EnvTypes' /\ OpTypes'
    BY <1>36, <1>u DEF InvokeBlocks
  <2> QED BY <2>1, <2>2 DEF TypeOK
<1>37. ASSUME NEW t \in Threads, InvokeCallsOriginal(t) PROVE TypeOK'
  <2>1. ThreadTypes'
    BY <1>37, <1>0 DEF InvokeCallsOriginal, ThreadTypes, Step, Running, Faults, Original
  <2>2. PortTypes' /\ PatchTypes' /\ EnvTypes' /\ OpTypes'
    BY <1>37, <1>u DEF InvokeCallsOriginal
  <2> QED BY <2>1, <2>2 DEF TypeOK
<1>38. ASSUME NEW t \in Threads, CallOriginal(t) PROVE TypeOK'
  <2>1. ThreadTypes'
    BY <1>38, <1>0 DEF CallOriginal, ThreadTypes, Step, Running, Faults
  <2>2. PortTypes' /\ PatchTypes' /\ EnvTypes' /\ OpTypes'
    BY <1>38, <1>u DEF CallOriginal
  <2> QED BY <2>1, <2>2 DEF TypeOK
<1>39. ASSUME NEW t \in Threads, ReturnFromCall(t) PROVE TypeOK'
  <2>1. ThreadTypes'
    BY <1>39, <1>0, ZeroIsSlot DEF ReturnFromCall, ThreadTypes, Leave, Running, Faults
  <2>2. PortTypes' /\ PatchTypes' /\ EnvTypes' /\ OpTypes'
    BY <1>39, <1>u DEF ReturnFromCall
  <2> QED BY <2>1, <2>2 DEF TypeOK
<1>50. CASE UNCHANGED vars
  BY <1>50, <1>u DEF vars, TypeOK
<1> QED
  BY <1>1, <1>2, <1>3, <1>4, <1>5, <1>6, <1>7, <1>8, <1>9, <1>10, <1>11, <1>12, <1>13, <1>14, <1>15, <1>16, <1>17, <1>18, <1>19, <1>20, <1>21, <1>22, <1>23, <1>24, <1>25, <1>26, <1>27, <1>28, <1>29, <1>30, <1>31, <1>32, <1>33, <1>34, <1>35, <1>36, <1>37, <1>38, <1>39, <1>50
  DEF Next, Register, Gui32, Unregister, Teardown, Dispatch

THEOREM TypeCorrect == Spec => []TypeOK
<1> QED BY TypeInit, TypeStep, PTL DEF Spec

-----------------------------------------------------------------------------
(* An entry jumps to its wrapper only while its original is on record: the  *)
(* order of the stores of PatchSystemCall and of its roll back.             *)

Torn == { "restore", "freePatches", "freeCallbacks", "gone" }

JumpInv ==
  /\ JumpHasOriginal
  /\ At("idle") /\ refCount = 0 => table = {} /\ \A c \in Calls : entry[c] = "native"
  /\ op.at \in Torn => refCount = 0
  /\ op.at \notin Torn \cup {"idle"} => refCount > 0
  /\ op.at \notin Whole => op.c \in table
  /\ At("grow") => op.c \notin patches
  /\ At("jump") => op.c \in patches /\ entry[op.c] = "native"

LEMMA JumpInit == Init => JumpInv
BY DEF Init, JumpInv, JumpHasOriginal, Idle, Torn, Whole, At

LEMMA JumpStep == TypeOK /\ JumpInv /\ [Next]_vars => JumpInv'
<1> SUFFICES ASSUME TypeOK, JumpInv, [Next]_vars PROVE JumpInv'
  OBVIOUS
<1>0. PortTypes /\ PatchTypes /\ OpTypes
  BY DEF TypeOK
<1>u. UNCHANGED portVars /\ UNCHANGED patchVars /\ UNCHANGED op => JumpInv'
  BY <1>0 DEF portVars, patchVars, JumpInv, JumpHasOriginal, At
<1>1. ASSUME InstallHookPort PROVE JumpInv'
  BY <1>1, <1>0 DEF InstallHookPort, portVars, patchVars, JumpInv, JumpHasOriginal, PortTypes, PatchTypes, OpTypes, At, Goto, Idle, Whole, Torn
<1>2. ASSUME NEW c \in Calls, NEW f \in Filters, HpAddSystemCallFilter(c, f) PROVE JumpInv'
  BY <1>2, <1>0 DEF HpAddSystemCallFilter, portVars, patchVars, JumpInv, JumpHasOriginal, PortTypes, PatchTypes, OpTypes, At, Goto, Idle, Whole, Torn
<1>3. ASSUME SetEnableFlag PROVE JumpInv'
  BY <1>3, <1>0 DEF SetEnableFlag, portVars, patchVars, JumpInv, JumpHasOriginal, PortTypes, PatchTypes, OpTypes, At, Goto, Idle, Whole, Torn
<1>4. ASSUME SetFilterBit PROVE JumpInv'
  BY <1>4, <1>0 DEF SetFilterBit, portVars, patchVars, JumpInv, JumpHasOriginal, PortTypes, PatchTypes, OpTypes, At, Goto, Idle, Whole, Torn
<1>5. ASSUME AlreadyPatched PROVE JumpInv'
  BY <1>5, <1>0 DEF AlreadyPatched, portVars, patchVars, JumpInv, JumpHasOriginal, PortTypes, PatchTypes, OpTypes, At, Goto, Idle, Whole, Torn
<1>6. ASSUME PatchFails PROVE JumpInv'
  BY <1>6, <1>0 DEF PatchFails, portVars, patchVars, JumpInv, JumpHasOriginal, PortTypes, PatchTypes, OpTypes, At, Goto, Idle, Whole, Torn
<1>7. ASSUME AddPatch PROVE JumpInv'
  BY <1>7, <1>0 DEF AddPatch, Full, portVars, patchVars, JumpInv, JumpHasOriginal, PortTypes, PatchTypes, OpTypes, At, Goto, Idle, Whole, Torn
<1>8. ASSUME FreeFullArray PROVE JumpInv'
  BY <1>8, <1>0 DEF FreeFullArray, Full, portVars, patchVars, JumpInv, JumpHasOriginal, PortTypes, PatchTypes, OpTypes, At, Goto, Idle, Whole, Torn
<1>9. ASSUME PublishGrownArray PROVE JumpInv'
  BY <1>9, <1>0 DEF PublishGrownArray, portVars, patchVars, JumpInv, JumpHasOriginal, PortTypes, PatchTypes, OpTypes, At, Goto, Idle, Whole, Torn
<1>10. ASSUME WriteSystemCallJump PROVE JumpInv'
  BY <1>10, <1>0 DEF WriteSystemCallJump, portVars, patchVars, JumpInv, JumpHasOriginal, PortTypes, PatchTypes, OpTypes, At, Goto, Idle, Whole, Torn
<1>11. ASSUME JumpFails PROVE JumpInv'
  BY <1>11, <1>0 DEF JumpFails, portVars, patchVars, JumpInv, JumpHasOriginal, PortTypes, PatchTypes, OpTypes, At, Goto, Idle, Whole, Torn
<1>12. ASSUME ClearFilterBit PROVE JumpInv'
  BY <1>12, <1>0 DEF ClearFilterBit, portVars, patchVars, JumpInv, JumpHasOriginal, PortTypes, PatchTypes, OpTypes, At, Goto, Idle, Whole, Torn
<1>13. ASSUME ClearSlot PROVE JumpInv'
  BY <1>13, <1>0 DEF ClearSlot, portVars, patchVars, JumpInv, JumpHasOriginal, PortTypes, PatchTypes, OpTypes, At, Goto, Idle, Whole, Torn
<1>14. ASSUME GuiMapped PROVE JumpInv'
  BY <1>14, <1>u DEF GuiMapped
<1>15. ASSUME GuiLeaving PROVE JumpInv'
  BY <1>15, <1>u DEF GuiLeaving
<1>16. ASSUME GuiUnmapped PROVE JumpInv'
  BY <1>16, <1>0 DEF GuiUnmapped, portVars, patchVars, JumpInv, JumpHasOriginal, PortTypes, PatchTypes, OpTypes, At, Goto, Idle, Whole, Torn
<1>17. ASSUME NEW batch \in SUBSET Gui, HpAddSystemCall(batch) PROVE JumpInv'
  BY <1>17, <1>0 DEF HpAddSystemCall, portVars, patchVars, JumpInv, JumpHasOriginal, PortTypes, PatchTypes, OpTypes, At, Goto, Idle, Whole, Torn
<1>18. ASSUME DestroyOldTable PROVE JumpInv'
  BY <1>18, <1>0 DEF DestroyOldTable, portVars, patchVars, JumpInv, JumpHasOriginal, PortTypes, PatchTypes, OpTypes, At, Goto, Idle, Whole, Torn
<1>19. ASSUME NEW c \in Calls, NEW f \in Filters, HpRemoveSystemCallFilter(c, f) PROVE JumpInv'
  BY <1>19, <1>0 DEF HpRemoveSystemCallFilter, Registered, portVars, patchVars, JumpInv, JumpHasOriginal, PortTypes, PatchTypes, OpTypes, At, Goto, Idle, Whole, Torn
<1>20. ASSUME RemoveBit PROVE JumpInv'
  BY <1>20, <1>0 DEF RemoveBit, portVars, patchVars, JumpInv, JumpHasOriginal, PortTypes, PatchTypes, OpTypes, At, Goto, Idle, Whole, Torn
<1>21. ASSUME RemoveFlag PROVE JumpInv'
  BY <1>21, <1>0 DEF RemoveFlag, portVars, patchVars, JumpInv, JumpHasOriginal, PortTypes, PatchTypes, OpTypes, At, Goto, Idle, Whole, Torn
<1>22. ASSUME ExitProcess PROVE JumpInv'
  BY <1>22, <1>0 DEF ExitProcess, portVars, patchVars, JumpInv, JumpHasOriginal, PortTypes, PatchTypes, OpTypes, At, Goto, Idle, Whole, Torn
<1>23. ASSUME DropReference PROVE JumpInv'
  BY <1>23, <1>0 DEF DropReference, portVars, patchVars, JumpInv, JumpHasOriginal, PortTypes, PatchTypes, OpTypes, At, Goto, Idle, Whole, Torn
<1>24. ASSUME UnInstallHookPort PROVE JumpInv'
  BY <1>24, <1>0 DEF UnInstallHookPort, portVars, patchVars, JumpInv, JumpHasOriginal, PortTypes, PatchTypes, OpTypes, At, Goto, Idle, Whole, Torn
<1>25. ASSUME NEW c \in Calls, RestorePatch(c) PROVE JumpInv'
  BY <1>25, <1>0 DEF RestorePatch, portVars, patchVars, JumpInv, JumpHasOriginal, PortTypes, PatchTypes, OpTypes, At, Goto, Idle, Whole, Torn
<1>26. ASSUME FreePatches PROVE JumpInv'
  BY <1>26, <1>0 DEF FreePatches, portVars, patchVars, JumpInv, JumpHasOriginal, PortTypes, PatchTypes, OpTypes, At, Goto, Idle, Whole, Torn
<1>27. ASSUME ForgetPatches PROVE JumpInv'
  BY <1>27, <1>0 DEF ForgetPatches, portVars, patchVars, JumpInv, JumpHasOriginal, PortTypes, PatchTypes, OpTypes, At, Goto, Idle, Whole, Torn
<1>28. ASSUME FreeCallbacks PROVE JumpInv'
  BY <1>28, <1>0 DEF FreeCallbacks, portVars, patchVars, JumpInv, JumpHasOriginal, PortTypes, PatchTypes, OpTypes, At, Goto, Idle, Whole, Torn
<1>30. ASSUME NEW t \in Threads, Dispatch(t) \/ \E c \in Calls : EnterWrapper(t, c) PROVE JumpInv'
  BY <1>30, <1>u DEF Dispatch, EnterWrapper, FindHashTableEntry, LookupSyscallOriginal, SnapshotFilters, ScanFilter, RereadsBadCallback, InvokeContinues, InvokeBlocks, InvokeCallsOriginal, CallOriginal, ReturnFromCall
<1>31. CASE UNCHANGED vars
  BY <1>31, <1>u DEF vars
<1> QED
  BY <1>1, <1>2, <1>3, <1>4, <1>5, <1>6, <1>7, <1>8, <1>9, <1>10, <1>11, <1>12, <1>13, <1>14, <1>15, <1>16, <1>17, <1>18, <1>19, <1>20, <1>21, <1>22, <1>23, <1>24, <1>25, <1>26, <1>27, <1>28, <1>30, <1>31
  DEF Next, Register, Gui32, Unregister, Teardown

THEOREM JumpsHaveOriginals == Spec => []JumpHasOriginal
<1>1. JumpInv => JumpHasOriginal
  BY DEF JumpInv
<1> QED BY TypeInit, TypeStep, JumpInit, JumpStep, <1>1, PTL DEF Spec

-----------------------------------------------------------------------------
(* A bit stands for a callback: the order of the stores of                  *)
(* HpAddSystemCallFilter, of its roll back and of HpRemoveSystemCallFilter. *)

BitInv ==
  /\ BitHasCallback
  /\ op.at \in { "flag", "bit", "patch", "grow", "jump", "clearBit" } => slot[op.c][op.s] # None
  /\ At("clearSlot") => op.s \notin bitmap[op.c]

LEMMA BitInit == Init => BitInv
BY DEF Init, BitInv, BitHasCallback, Idle, At

LEMMA BitStep == TypeOK /\ BitInv /\ [Next]_vars => BitInv'
<1> SUFFICES ASSUME TypeOK, BitInv, [Next]_vars PROVE BitInv'
  OBVIOUS
<1>0. PortTypes /\ OpTypes
  BY DEF TypeOK
<1>u. UNCHANGED << slot, bitmap, op >> => BitInv'
  BY DEF BitInv, BitHasCallback, At
<1>1. ASSUME InstallHookPort PROVE BitInv'
  BY <1>1, <1>u DEF InstallHookPort, portVars
<1>2. ASSUME NEW c \in Calls, NEW f \in Filters, HpAddSystemCallFilter(c, f) PROVE BitInv'
  <2>1. CASE bitmap[c] = Slots
    BY <1>2, <1>u, <2>1 DEF HpAddSystemCallFilter
  <2>2. CASE bitmap[c] # Slots
    <3>1. LowestFree(c) \in Slots \ bitmap[c]
      BY <2>2, LowestFreeIsFree
    <3> QED BY <1>2, <1>0, <2>2, <3>1, FilterAssumption
            DEF HpAddSystemCallFilter, BitInv, BitHasCallback, PortTypes, At
  <2> QED BY <2>1, <2>2
<1>3. ASSUME SetEnableFlag PROVE BitInv'
  BY <1>3, <1>0 DEF SetEnableFlag, portVars, BitInv, BitHasCallback, PortTypes, OpTypes, At, Goto, Idle, Whole
<1>4. ASSUME SetFilterBit PROVE BitInv'
  BY <1>4, <1>0 DEF SetFilterBit, portVars, BitInv, BitHasCallback, PortTypes, OpTypes, At, Goto, Idle, Whole
<1>5. ASSUME AlreadyPatched PROVE BitInv'
  BY <1>5, <1>0 DEF AlreadyPatched, portVars, BitInv, BitHasCallback, PortTypes, OpTypes, At, Goto, Idle, Whole
<1>6. ASSUME PatchFails PROVE BitInv'
  BY <1>6, <1>0 DEF PatchFails, portVars, BitInv, BitHasCallback, PortTypes, OpTypes, At, Goto, Idle, Whole
<1>7. ASSUME AddPatch PROVE BitInv'
  BY <1>7, <1>0 DEF AddPatch, Full, portVars, BitInv, BitHasCallback, PortTypes, OpTypes, At, Goto, Idle, Whole
<1>8. ASSUME FreeFullArray PROVE BitInv'
  BY <1>8, <1>0 DEF FreeFullArray, Full, portVars, BitInv, BitHasCallback, PortTypes, OpTypes, At, Goto, Idle, Whole
<1>9. ASSUME PublishGrownArray PROVE BitInv'
  BY <1>9, <1>0 DEF PublishGrownArray, portVars, BitInv, BitHasCallback, PortTypes, OpTypes, At, Goto, Idle, Whole
<1>10. ASSUME WriteSystemCallJump PROVE BitInv'
  BY <1>10, <1>0 DEF WriteSystemCallJump, portVars, BitInv, BitHasCallback, PortTypes, OpTypes, At, Goto, Idle, Whole
<1>11. ASSUME JumpFails PROVE BitInv'
  BY <1>11, <1>0 DEF JumpFails, StubFreed, portVars, BitInv, BitHasCallback, PortTypes, OpTypes, At, Goto, Idle, Whole
<1>12. ASSUME ClearFilterBit PROVE BitInv'
  BY <1>12, <1>0 DEF ClearFilterBit, portVars, BitInv, BitHasCallback, PortTypes, OpTypes, At, Goto, Idle, Whole
<1>13. ASSUME ClearSlot PROVE BitInv'
  BY <1>13, <1>0 DEF ClearSlot, portVars, BitInv, BitHasCallback, PortTypes, OpTypes, At, Goto, Idle, Whole
<1>14. ASSUME GuiMapped PROVE BitInv'
  BY <1>14, <1>u DEF GuiMapped, portVars
<1>15. ASSUME GuiLeaving PROVE BitInv'
  BY <1>15, <1>u DEF GuiLeaving, portVars
<1>16. ASSUME GuiUnmapped PROVE BitInv'
  BY <1>16, <1>u DEF GuiUnmapped, portVars
<1>17. ASSUME NEW batch \in SUBSET Gui, HpAddSystemCall(batch) PROVE BitInv'
  BY <1>17, <1>0 DEF HpAddSystemCall, Searching, portVars, BitInv, BitHasCallback, PortTypes, OpTypes, At, Goto, Idle, Whole
<1>18. ASSUME DestroyOldTable PROVE BitInv'
  BY <1>18, <1>0 DEF DestroyOldTable, portVars, BitInv, BitHasCallback, PortTypes, OpTypes, At, Goto, Idle, Whole
<1>19. ASSUME NEW c \in Calls, NEW f \in Filters, HpRemoveSystemCallFilter(c, f) PROVE BitInv'
  <2> DEFINE s == CHOOSE s \in Registered(c, f) : \A r \in Registered(c, f) : s <= r
  <2>0. s \in Slots
    BY <1>19, <1>0, LeastSlot DEF HpRemoveSystemCallFilter, Registered, PortTypes
  <2>1. slot' = [slot EXCEPT ![c][s] = None] /\ op' = [at |-> "removeBit", c |-> c, s |-> s] /\ bitmap' = bitmap
    BY <1>19 DEF HpRemoveSystemCallFilter
  <2>2. At("idle")
    BY <1>19 DEF HpRemoveSystemCallFilter
  <2> HIDE DEF s
  <2> QED BY <1>0, <2>0, <2>1, <2>2 DEF BitInv, BitHasCallback, PortTypes, At
<1>20. ASSUME RemoveBit PROVE BitInv'
  BY <1>20, <1>0 DEF RemoveBit, portVars, BitInv, BitHasCallback, PortTypes, OpTypes, At, Goto, Idle, Whole
<1>21. ASSUME RemoveFlag PROVE BitInv'
  BY <1>21, <1>0 DEF RemoveFlag, portVars, BitInv, BitHasCallback, PortTypes, OpTypes, At, Goto, Idle, Whole
<1>22. ASSUME ExitProcess PROVE BitInv'
  BY <1>22, <1>u DEF ExitProcess, portVars
<1>23. ASSUME DropReference PROVE BitInv'
  BY <1>23, <1>u DEF DropReference, portVars
<1>24. ASSUME UnInstallHookPort PROVE BitInv'
  BY <1>24, <1>0 DEF UnInstallHookPort, portVars, BitInv, BitHasCallback, PortTypes, OpTypes, At, Goto, Idle, Whole
<1>25. ASSUME NEW c \in Calls, RestorePatch(c) PROVE BitInv'
  BY <1>25, <1>u DEF RestorePatch, portVars
<1>26. ASSUME FreePatches PROVE BitInv'
  BY <1>26, <1>0 DEF FreePatches, portVars, BitInv, BitHasCallback, PortTypes, OpTypes, At, Goto, Idle, Whole
<1>27. ASSUME ForgetPatches PROVE BitInv'
  BY <1>27, <1>0 DEF ForgetPatches, portVars, BitInv, BitHasCallback, PortTypes, OpTypes, At, Goto, Idle, Whole
<1>28. ASSUME FreeCallbacks PROVE BitInv'
  BY <1>28, <1>0 DEF FreeCallbacks, NoSlots, portVars, BitInv, BitHasCallback, PortTypes, OpTypes, At, Goto, Idle, Whole
<1>30. ASSUME NEW t \in Threads, Dispatch(t) \/ \E c \in Calls : EnterWrapper(t, c) PROVE BitInv'
  BY <1>30, <1>u DEF portVars, Dispatch, EnterWrapper, FindHashTableEntry, LookupSyscallOriginal, SnapshotFilters, ScanFilter, RereadsBadCallback, InvokeContinues, InvokeBlocks, InvokeCallsOriginal, CallOriginal, ReturnFromCall
<1>31. CASE UNCHANGED vars
  BY <1>31, <1>u DEF vars, portVars
<1> QED
  BY <1>1, <1>2, <1>3, <1>4, <1>5, <1>6, <1>7, <1>8, <1>9, <1>10, <1>11, <1>12, <1>13, <1>14, <1>15, <1>16, <1>17, <1>18, <1>19, <1>20, <1>21, <1>22, <1>23, <1>24, <1>25, <1>26, <1>27, <1>28, <1>30, <1>31
  DEF Next, Register, Gui32, Unregister, Teardown

THEOREM BitsHaveCallbacks == Spec => []BitHasCallback
<1>1. BitInv => BitHasCallback
  BY DEF BitInv
<1> QED BY TypeInit, TypeStep, BitInit, BitStep, <1>1, PTL DEF Spec

-----------------------------------------------------------------------------
(* A thread is in a wrapper only of a call on record in g_Patches, so a     *)
(* registration that is being rolled back has no thread in it.              *)

UnseenInv ==
  /\ refCount > 0 => \A t \in Threads : pc[t] \in Running =>
       call[t] \in patches /\ ~(At("jump") /\ call[t] = op.c)
  /\ At("idle") /\ refCount = 0 => \A t \in Threads : pc[t] \notin Running
  /\ op.at \in { "grow", "clearBit", "clearSlot" } => op.c \notin patches

LEMMA UnseenInit == Init => UnseenInv
BY DEF Init, UnseenInv, Idle, Running

LEMMA UnseenStep == TypeOK /\ JumpInv /\ UnseenInv /\ [Next]_vars => UnseenInv'
<1> SUFFICES ASSUME TypeOK, JumpInv, UnseenInv, [Next]_vars PROVE UnseenInv'
  OBVIOUS
<1>0. PortTypes /\ PatchTypes /\ OpTypes /\ ThreadTypes
  BY DEF TypeOK
<1>u. UNCHANGED << refCount, patches, op, pc, call >> => UnseenInv'
  BY DEF UnseenInv, At
<1>1. ASSUME InstallHookPort PROVE UnseenInv'
  BY <1>1, <1>0 DEF InstallHookPort, UnseenInv, JumpInv, JumpHasOriginal, portVars, patchVars, threadVars, PortTypes, PatchTypes, OpTypes, ThreadTypes, Running, Faults, At, Goto, Idle, Whole, Torn
<1>2. ASSUME NEW c \in Calls, NEW f \in Filters, HpAddSystemCallFilter(c, f) PROVE UnseenInv'
  BY <1>2, <1>0 DEF HpAddSystemCallFilter, UnseenInv, JumpInv, JumpHasOriginal, portVars, patchVars, threadVars, PortTypes, PatchTypes, OpTypes, ThreadTypes, Running, Faults, At, Goto, Idle, Whole, Torn
<1>3. ASSUME SetEnableFlag PROVE UnseenInv'
  BY <1>3, <1>0 DEF SetEnableFlag, UnseenInv, JumpInv, JumpHasOriginal, portVars, patchVars, threadVars, PortTypes, PatchTypes, OpTypes, ThreadTypes, Running, Faults, At, Goto, Idle, Whole, Torn
<1>4. ASSUME SetFilterBit PROVE UnseenInv'
  BY <1>4, <1>0 DEF SetFilterBit, UnseenInv, JumpInv, JumpHasOriginal, portVars, patchVars, threadVars, PortTypes, PatchTypes, OpTypes, ThreadTypes, Running, Faults, At, Goto, Idle, Whole, Torn
<1>5. ASSUME AlreadyPatched PROVE UnseenInv'
  BY <1>5, <1>0 DEF AlreadyPatched, UnseenInv, JumpInv, JumpHasOriginal, portVars, patchVars, threadVars, PortTypes, PatchTypes, OpTypes, ThreadTypes, Running, Faults, At, Goto, Idle, Whole, Torn
<1>6. ASSUME PatchFails PROVE UnseenInv'
  BY <1>6, <1>0 DEF PatchFails, UnseenInv, JumpInv, JumpHasOriginal, portVars, patchVars, threadVars, PortTypes, PatchTypes, OpTypes, ThreadTypes, Running, Faults, At, Goto, Idle, Whole, Torn
<1>7. ASSUME AddPatch PROVE UnseenInv'
  BY <1>7, <1>0 DEF AddPatch, Full, UnseenInv, JumpInv, JumpHasOriginal, portVars, patchVars, threadVars, PortTypes, PatchTypes, OpTypes, ThreadTypes, Running, Faults, At, Goto, Idle, Whole, Torn
<1>8. ASSUME FreeFullArray PROVE UnseenInv'
  BY <1>8, <1>0 DEF FreeFullArray, Full, UnseenInv, JumpInv, JumpHasOriginal, portVars, patchVars, threadVars, PortTypes, PatchTypes, OpTypes, ThreadTypes, Running, Faults, At, Goto, Idle, Whole, Torn
<1>9. ASSUME PublishGrownArray PROVE UnseenInv'
  BY <1>9, <1>0 DEF PublishGrownArray, UnseenInv, JumpInv, JumpHasOriginal, portVars, patchVars, threadVars, PortTypes, PatchTypes, OpTypes, ThreadTypes, Running, Faults, At, Goto, Idle, Whole, Torn
<1>10. ASSUME WriteSystemCallJump PROVE UnseenInv'
  BY <1>10, <1>0 DEF WriteSystemCallJump, UnseenInv, JumpInv, JumpHasOriginal, portVars, patchVars, threadVars, PortTypes, PatchTypes, OpTypes, ThreadTypes, Running, Faults, At, Goto, Idle, Whole, Torn
<1>11. ASSUME JumpFails PROVE UnseenInv'
  BY <1>11, <1>0 DEF JumpFails, StubFreed, UnseenInv, JumpInv, JumpHasOriginal, portVars, patchVars, threadVars, PortTypes, PatchTypes, OpTypes, ThreadTypes, Running, Faults, At, Goto, Idle, Whole, Torn
<1>12. ASSUME ClearFilterBit PROVE UnseenInv'
  BY <1>12, <1>0 DEF ClearFilterBit, UnseenInv, JumpInv, JumpHasOriginal, portVars, patchVars, threadVars, PortTypes, PatchTypes, OpTypes, ThreadTypes, Running, Faults, At, Goto, Idle, Whole, Torn
<1>13. ASSUME ClearSlot PROVE UnseenInv'
  BY <1>13, <1>0 DEF ClearSlot, UnseenInv, JumpInv, JumpHasOriginal, portVars, patchVars, threadVars, PortTypes, PatchTypes, OpTypes, ThreadTypes, Running, Faults, At, Goto, Idle, Whole, Torn
<1>14. ASSUME GuiMapped PROVE UnseenInv'
  BY <1>14, <1>u DEF GuiMapped, portVars, patchVars, threadVars
<1>15. ASSUME GuiLeaving PROVE UnseenInv'
  BY <1>15, <1>u DEF GuiLeaving, portVars, patchVars, threadVars
<1>16. ASSUME GuiUnmapped PROVE UnseenInv'
  BY <1>16, <1>u DEF GuiUnmapped, portVars, patchVars, threadVars
<1>17. ASSUME NEW batch \in SUBSET Gui, HpAddSystemCall(batch) PROVE UnseenInv'
  BY <1>17, <1>0 DEF HpAddSystemCall, Searching, UnseenInv, JumpInv, JumpHasOriginal, portVars, patchVars, threadVars, PortTypes, PatchTypes, OpTypes, ThreadTypes, Running, Faults, At, Goto, Idle, Whole, Torn
<1>18. ASSUME DestroyOldTable PROVE UnseenInv'
  BY <1>18, <1>0 DEF DestroyOldTable, UnseenInv, JumpInv, JumpHasOriginal, portVars, patchVars, threadVars, PortTypes, PatchTypes, OpTypes, ThreadTypes, Running, Faults, At, Goto, Idle, Whole, Torn
<1>19. ASSUME NEW c \in Calls, NEW f \in Filters, HpRemoveSystemCallFilter(c, f) PROVE UnseenInv'
  BY <1>19, <1>0 DEF HpRemoveSystemCallFilter, Registered, UnseenInv, JumpInv, JumpHasOriginal, portVars, patchVars, threadVars, PortTypes, PatchTypes, OpTypes, ThreadTypes, Running, Faults, At, Goto, Idle, Whole, Torn
<1>20. ASSUME RemoveBit PROVE UnseenInv'
  BY <1>20, <1>0 DEF RemoveBit, UnseenInv, JumpInv, JumpHasOriginal, portVars, patchVars, threadVars, PortTypes, PatchTypes, OpTypes, ThreadTypes, Running, Faults, At, Goto, Idle, Whole, Torn
<1>21. ASSUME RemoveFlag PROVE UnseenInv'
  BY <1>21, <1>0 DEF RemoveFlag, UnseenInv, JumpInv, JumpHasOriginal, portVars, patchVars, threadVars, PortTypes, PatchTypes, OpTypes, ThreadTypes, Running, Faults, At, Goto, Idle, Whole, Torn
<1>22. ASSUME ExitProcess PROVE UnseenInv'
  BY <1>22, <1>0 DEF ExitProcess, UnseenInv, JumpInv, JumpHasOriginal, portVars, patchVars, threadVars, PortTypes, PatchTypes, OpTypes, ThreadTypes, Running, Faults, At, Goto, Idle, Whole, Torn
<1>23. ASSUME DropReference PROVE UnseenInv'
  BY <1>23, <1>0 DEF DropReference, UnseenInv, JumpInv, JumpHasOriginal, portVars, patchVars, threadVars, PortTypes, PatchTypes, OpTypes, ThreadTypes, Running, Faults, At, Goto, Idle, Whole, Torn
<1>24. ASSUME UnInstallHookPort PROVE UnseenInv'
  BY <1>24, <1>0 DEF UnInstallHookPort, UnseenInv, JumpInv, JumpHasOriginal, portVars, patchVars, threadVars, PortTypes, PatchTypes, OpTypes, ThreadTypes, Running, Faults, At, Goto, Idle, Whole, Torn
<1>25. ASSUME NEW c \in Calls, RestorePatch(c) PROVE UnseenInv'
  BY <1>25, <1>0 DEF RestorePatch, StubFreed, UnseenInv, JumpInv, JumpHasOriginal, portVars, patchVars, threadVars, PortTypes, PatchTypes, OpTypes, ThreadTypes, Running, Faults, At, Goto, Idle, Whole, Torn
<1>26. ASSUME FreePatches PROVE UnseenInv'
  BY <1>26, <1>0 DEF FreePatches, UnseenInv, JumpInv, JumpHasOriginal, portVars, patchVars, threadVars, PortTypes, PatchTypes, OpTypes, ThreadTypes, Running, Faults, At, Goto, Idle, Whole, Torn
<1>27. ASSUME ForgetPatches PROVE UnseenInv'
  BY <1>27, <1>0 DEF ForgetPatches, UnseenInv, JumpInv, JumpHasOriginal, portVars, patchVars, threadVars, PortTypes, PatchTypes, OpTypes, ThreadTypes, Running, Faults, At, Goto, Idle, Whole, Torn
<1>28. ASSUME FreeCallbacks PROVE UnseenInv'
  BY <1>28, <1>0 DEF FreeCallbacks, NoSlots, UnseenInv, JumpInv, JumpHasOriginal, portVars, patchVars, threadVars, PortTypes, PatchTypes, OpTypes, ThreadTypes, Running, Faults, At, Goto, Idle, Whole, Torn
<1>29. ASSUME NEW t \in Threads, NEW c \in Calls, EnterWrapper(t, c) PROVE UnseenInv'
  BY <1>29, <1>0 DEF EnterWrapper, Step, UnseenInv, JumpInv, JumpHasOriginal, portVars, patchVars, threadVars, PortTypes, PatchTypes, OpTypes, ThreadTypes, Running, Faults, At, Goto, Idle, Whole, Torn
<1>30. ASSUME NEW t \in Threads, FindHashTableEntry(t) PROVE UnseenInv'
  BY <1>30, <1>0 DEF FindHashTableEntry, Step, UnseenInv, JumpInv, JumpHasOriginal, portVars, patchVars, threadVars, PortTypes, PatchTypes, OpTypes, ThreadTypes, Running, Faults, At, Goto, Idle, Whole, Torn
<1>31. ASSUME NEW t \in Threads, LookupSyscallOriginal(t) PROVE UnseenInv'
  BY <1>31, <1>0 DEF LookupSyscallOriginal, Original, Step, UnseenInv, JumpInv, JumpHasOriginal, portVars, patchVars, threadVars, PortTypes, PatchTypes, OpTypes, ThreadTypes, Running, Faults, At, Goto, Idle, Whole, Torn
<1>32. ASSUME NEW t \in Threads, SnapshotFilters(t) PROVE UnseenInv'
  BY <1>32, <1>0 DEF SnapshotFilters, Step, UnseenInv, JumpInv, JumpHasOriginal, portVars, patchVars, threadVars, PortTypes, PatchTypes, OpTypes, ThreadTypes, Running, Faults, At, Goto, Idle, Whole, Torn
<1>33. ASSUME NEW t \in Threads, ScanFilter(t) PROVE UnseenInv'
  BY <1>33, <1>0 DEF ScanFilter, Step, UnseenInv, JumpInv, JumpHasOriginal, portVars, patchVars, threadVars, PortTypes, PatchTypes, OpTypes, ThreadTypes, Running, Faults, At, Goto, Idle, Whole, Torn
<1>34. ASSUME NEW t \in Threads, RereadsBadCallback(t) PROVE UnseenInv'
  BY <1>34, <1>0 DEF RereadsBadCallback, Step, UnseenInv, JumpInv, JumpHasOriginal, portVars, patchVars, threadVars, PortTypes, PatchTypes, OpTypes, ThreadTypes, Running, Faults, At, Goto, Idle, Whole, Torn
<1>35. ASSUME NEW t \in Threads, InvokeContinues(t) PROVE UnseenInv'
  BY <1>35, <1>0 DEF InvokeContinues, Step, UnseenInv, JumpInv, JumpHasOriginal, portVars, patchVars, threadVars, PortTypes, PatchTypes, OpTypes, ThreadTypes, Running, Faults, At, Goto, Idle, Whole, Torn
<1>36. ASSUME NEW t \in Threads, InvokeBlocks(t) PROVE UnseenInv'
  BY <1>36, <1>0 DEF InvokeBlocks, Leave, Step, UnseenInv, JumpInv, JumpHasOriginal, portVars, patchVars, threadVars, PortTypes, PatchTypes, OpTypes, ThreadTypes, Running, Faults, At, Goto, Idle, Whole, Torn
<1>37. ASSUME NEW t \in Threads, InvokeCallsOriginal(t) PROVE UnseenInv'
  BY <1>37, <1>0 DEF InvokeCallsOriginal, Original, Step, UnseenInv, JumpInv, JumpHasOriginal, portVars, patchVars, threadVars, PortTypes, PatchTypes, OpTypes, ThreadTypes, Running, Faults, At, Goto, Idle, Whole, Torn
<1>38. ASSUME NEW t \in Threads, CallOriginal(t) PROVE UnseenInv'
  BY <1>38, <1>0 DEF CallOriginal, Step, UnseenInv, JumpInv, JumpHasOriginal, portVars, patchVars, threadVars, PortTypes, PatchTypes, OpTypes, ThreadTypes, Running, Faults, At, Goto, Idle, Whole, Torn
<1>39. ASSUME NEW t \in Threads, ReturnFromCall(t) PROVE UnseenInv'
  BY <1>39, <1>0 DEF ReturnFromCall, Leave, Step, UnseenInv, JumpInv, JumpHasOriginal, portVars, patchVars, threadVars, PortTypes, PatchTypes, OpTypes, ThreadTypes, Running, Faults, At, Goto, Idle, Whole, Torn
<1>50. CASE UNCHANGED vars
  BY <1>50, <1>u DEF vars, portVars, patchVars, threadVars
<1> QED
  BY <1>1, <1>2, <1>3, <1>4, <1>5, <1>6, <1>7, <1>8, <1>9, <1>10, <1>11, <1>12, <1>13, <1>14, <1>15, <1>16, <1>17, <1>18, <1>19, <1>20, <1>21, <1>22, <1>23, <1>24, <1>25, <1>26, <1>27, <1>28, <1>29, <1>30, <1>31, <1>32, <1>33, <1>34, <1>35, <1>36, <1>37, <1>38, <1>39, <1>50
  DEF Next, Register, Gui32, Unregister, Teardown, Dispatch

THEOREM RollbacksUnseen == Spec => []RollbackUnseen
<1>1. JumpInv /\ UnseenInv => RollbackUnseen
  BY DEF JumpInv, UnseenInv, RollbackUnseen, Torn
<1> QED BY TypeInit, TypeStep, JumpInit, JumpStep, UnseenInit, UnseenStep, <1>1, PTL DEF Spec

-----------------------------------------------------------------------------
(* No wrapper meets a null or freed pointer, as long as no GUI module is    *)
(* hooked (the hash table then never grows) and the core stays loaded until *)
(* the process exits.  g_Patches is never reallocated: it has room for      *)
(* every call there is a wrapper for.                                       *)

InOperation == { "idle", "flag", "bit", "patch", "jump", "clearBit", "clearSlot" }

(* What the loader keeps true while application threads may run. *)
LoaderInv ==
  /\ \/ exiting /\ op.at \in Torn \cup {"idle"} /\ \A t \in Threads : pc[t] = "dead"
     \/ ~exiting /\ op.at \in InOperation
  /\ ~exiting /\ patchArray # "live" => patchArray = "null" /\ patches = {} /\ capacity = 0
  /\ ~exiting /\ patchArray = "live" => capacity >= Cardinality(Calls)

(* What a thread in a wrapper relies on. *)
ThreadInv(t) ==
  /\ pc[t] \notin Faults
  /\ pc[t] \in Running =>
       /\ refCount > 0
       /\ entry[call[t]] = "jump"
       /\ held[t] = "live"
       /\ pc[t] \notin { "search", "original" } => orig[t] = "live"
       /\ pc[t] = "invoke" => slot[call[t]][cur[t]] # None

ServiceInv == LoaderInv /\ \A t \in Threads : ThreadInv(t)

(* A call without a patch leaves g_Patches room for one more. *)
LEMMA RoomForAll ==
  ASSUME NEW c \in Calls \ patches, patches \subseteq Calls
  PROVE  Cardinality(patches) < Cardinality(Calls) /\ Cardinality(patches) \in Nat
BY CallsAssumption, FS_Subset, FS_CardinalityType

LEMMA NothingRecorded == Cardinality({}) = 0
BY FS_EmptySet

LEMMA ServiceInit == Init => ServiceInv
BY DEF Init, ServiceInv, LoaderInv, ThreadInv, InOperation, Torn, Idle, Running, Faults

LEMMA LoaderInvStep ==
  ASSUME Gui = {}, CoreUnloads = FALSE, CapacitySuffices, TypeOK, JumpInv, ServiceInv, [Next]_vars
  PROVE  LoaderInv'
<1>0. LoaderInv /\ PortTypes /\ PatchTypes /\ OpTypes /\ ThreadTypes /\ (exiting \in BOOLEAN)
  BY DEF TypeOK, ServiceInv, EnvTypes
<1>u. UNCHANGED << exiting, pc, op, patches, patchArray, capacity >> => LoaderInv'
  BY <1>0 DEF LoaderInv
<1>1. ASSUME InstallHookPort PROVE LoaderInv'
  BY <1>1, <1>u DEF InstallHookPort, portVars, patchVars, envVars, threadVars
<1>2. ASSUME NEW c \in Calls, NEW f \in Filters, HpAddSystemCallFilter(c, f) PROVE LoaderInv'
  BY <1>2, <1>0 DEF HpAddSystemCallFilter, LoaderInv, InOperation, Torn, portVars, patchVars, envVars, threadVars, PatchTypes, OpTypes, ThreadTypes, At, Goto, Idle, Whole
<1>3. ASSUME SetEnableFlag PROVE LoaderInv'
  BY <1>3, <1>0 DEF SetEnableFlag, LoaderInv, InOperation, Torn, portVars, patchVars, envVars, threadVars, PatchTypes, OpTypes, ThreadTypes, At, Goto, Idle, Whole
<1>4. ASSUME SetFilterBit PROVE LoaderInv'
  BY <1>4, <1>0 DEF SetFilterBit, LoaderInv, InOperation, Torn, portVars, patchVars, envVars, threadVars, PatchTypes, OpTypes, ThreadTypes, At, Goto, Idle, Whole
<1>5. ASSUME AlreadyPatched PROVE LoaderInv'
  BY <1>5, <1>0 DEF AlreadyPatched, LoaderInv, InOperation, Torn, portVars, patchVars, envVars, threadVars, PatchTypes, OpTypes, ThreadTypes, At, Goto, Idle, Whole
<1>6. ASSUME PatchFails PROVE LoaderInv'
  BY <1>6, <1>0 DEF PatchFails, LoaderInv, InOperation, Torn, portVars, patchVars, envVars, threadVars, PatchTypes, OpTypes, ThreadTypes, At, Goto, Idle, Whole
<1>7. ASSUME AddPatch PROVE LoaderInv'
  <2>1. op.c \in Calls \ patches
    BY <1>7, <1>0 DEF AddPatch, OpTypes, At, Whole
  <2>2. Cardinality(patches) < Cardinality(Calls) /\ Cardinality(patches) \in Nat
    BY <2>1, <1>0, RoomForAll DEF PatchTypes
  <2>3. Cardinality(Calls) \in Nat
    BY CallsAssumption, FS_CardinalityType
  <2>4. capacity' >= Cardinality(Calls)
    <3>1. CASE Full
      BY <1>7, <3>1 DEF AddPatch, CapacitySuffices
    <3>2. CASE ~Full
      <4>1. ~exiting
        BY <1>7, <1>0, <2>1 DEF AddPatch, LoaderInv, Torn, At
      <4>2. patchArray = "live"
        BY <1>0, <3>2, <4>1, NothingRecorded DEF LoaderInv, Full
      <4>3. capacity' = capacity
        BY <1>7, <3>2 DEF AddPatch
      <4> QED BY <1>0, <4>1, <4>2, <4>3 DEF LoaderInv
    <3> QED BY <3>1, <3>2
  <2> QED BY <1>7, <1>0, <2>4 DEF AddPatch, LoaderInv, InOperation, Torn, portVars, patchVars, envVars, threadVars, PatchTypes, OpTypes, ThreadTypes, At, Goto, Idle, Whole
<1>8. ASSUME FreeFullArray PROVE LoaderInv'
  <2>1. op.c \in Calls \ patches
    BY <1>8, <1>0 DEF FreeFullArray, OpTypes, At, Whole
  <2>2. Cardinality(patches) < Cardinality(Calls) /\ Cardinality(patches) \in Nat
    BY <2>1, <1>0, RoomForAll DEF PatchTypes
  <2>3. Cardinality(Calls) \in Nat
    BY CallsAssumption, FS_CardinalityType
  <2> QED BY <1>8, <1>0, <2>2, <2>3 DEF FreeFullArray, Full, LoaderInv, InOperation, Torn, portVars, patchVars, envVars, threadVars, PatchTypes, OpTypes, ThreadTypes, At, Goto, Idle, Whole
<1>9. ASSUME PublishGrownArray PROVE LoaderInv'
  BY <1>9, <1>0 DEF PublishGrownArray, LoaderInv, InOperation, Torn, portVars, patchVars, envVars, threadVars, PatchTypes, OpTypes, ThreadTypes, At, Goto, Idle, Whole
<1>10. ASSUME WriteSystemCallJump PROVE LoaderInv'
  BY <1>10, <1>0 DEF WriteSystemCallJump, LoaderInv, InOperation, Torn, portVars, patchVars, envVars, threadVars, PatchTypes, OpTypes, ThreadTypes, At, Goto, Idle, Whole
<1>11. ASSUME JumpFails PROVE LoaderInv'
  BY <1>11, <1>0 DEF JumpFails, StubFreed, LoaderInv, InOperation, Torn, portVars, patchVars, envVars, threadVars, PatchTypes, OpTypes, ThreadTypes, At, Goto, Idle, Whole
<1>12. ASSUME ClearFilterBit PROVE LoaderInv'
  BY <1>12, <1>0 DEF ClearFilterBit, LoaderInv, InOperation, Torn, portVars, patchVars, envVars, threadVars, PatchTypes, OpTypes, ThreadTypes, At, Goto, Idle, Whole
<1>13. ASSUME ClearSlot PROVE LoaderInv'
  BY <1>13, <1>0 DEF ClearSlot, LoaderInv, InOperation, Torn, portVars, patchVars, envVars, threadVars, PatchTypes, OpTypes, ThreadTypes, At, Goto, Idle, Whole
<1>14. ASSUME GuiMapped PROVE LoaderInv'
  BY <1>14, <1>u DEF GuiMapped, portVars, patchVars, envVars, threadVars
<1>15. ASSUME GuiLeaving PROVE LoaderInv'
  BY <1>15, <1>u DEF GuiLeaving, portVars, patchVars, envVars, threadVars
<1>16. ASSUME GuiUnmapped PROVE LoaderInv'
  BY <1>16, <1>u DEF GuiUnmapped, portVars, patchVars, envVars, threadVars
<1>17. ASSUME NEW batch \in SUBSET Gui, HpAddSystemCall(batch) PROVE LoaderInv'
  BY <1>17 DEF HpAddSystemCall
<1>18. ASSUME DestroyOldTable PROVE LoaderInv'
  BY <1>18, <1>0 DEF DestroyOldTable, LoaderInv, InOperation, Torn, portVars, patchVars, envVars, threadVars, PatchTypes, OpTypes, ThreadTypes, At, Goto, Idle, Whole
<1>19. ASSUME NEW c \in Calls, NEW f \in Filters, HpRemoveSystemCallFilter(c, f) PROVE LoaderInv'
  BY <1>19 DEF HpRemoveSystemCallFilter
<1>20. ASSUME RemoveBit PROVE LoaderInv'
  BY <1>20, <1>0 DEF RemoveBit, LoaderInv, InOperation, Torn, portVars, patchVars, envVars, threadVars, PatchTypes, OpTypes, ThreadTypes, At, Goto, Idle, Whole
<1>21. ASSUME RemoveFlag PROVE LoaderInv'
  BY <1>21, <1>0 DEF RemoveFlag, LoaderInv, InOperation, Torn, portVars, patchVars, envVars, threadVars, PatchTypes, OpTypes, ThreadTypes, At, Goto, Idle, Whole
<1>22. ASSUME ExitProcess PROVE LoaderInv'
  BY <1>22, <1>0 DEF ExitProcess, LoaderInv, InOperation, Torn, portVars, patchVars, envVars, threadVars, PatchTypes, OpTypes, ThreadTypes, At, Goto, Idle, Whole
<1>23. ASSUME DropReference PROVE LoaderInv'
  BY <1>23, <1>u DEF DropReference, portVars, patchVars, envVars, threadVars
<1>24. ASSUME UnInstallHookPort PROVE LoaderInv'
  BY <1>24, <1>0 DEF UnInstallHookPort, LoaderInv, InOperation, Torn, portVars, patchVars, envVars, threadVars, PatchTypes, OpTypes, ThreadTypes, At, Goto, Idle, Whole
<1>25. ASSUME NEW c \in Calls, RestorePatch(c) PROVE LoaderInv'
  BY <1>25, <1>0 DEF RestorePatch, StubFreed, LoaderInv, InOperation, Torn, portVars, patchVars, envVars, threadVars, PatchTypes, OpTypes, ThreadTypes, At, Goto, Idle, Whole
<1>26. ASSUME FreePatches PROVE LoaderInv'
  BY <1>26, <1>0 DEF FreePatches, LoaderInv, InOperation, Torn, portVars, patchVars, envVars, threadVars, PatchTypes, OpTypes, ThreadTypes, At, Goto, Idle, Whole
<1>27. ASSUME ForgetPatches PROVE LoaderInv'
  BY <1>27, <1>0 DEF ForgetPatches, LoaderInv, InOperation, Torn, portVars, patchVars, envVars, threadVars, PatchTypes, OpTypes, ThreadTypes, At, Goto, Idle, Whole
<1>28. ASSUME FreeCallbacks PROVE LoaderInv'
  BY <1>28, <1>0 DEF FreeCallbacks, NoSlots, LoaderInv, InOperation, Torn, portVars, patchVars, envVars, threadVars, PatchTypes, OpTypes, ThreadTypes, At, Goto, Idle, Whole
<1>30. ASSUME NEW t \in Threads, Dispatch(t) \/ \E c \in Calls : EnterWrapper(t, c) PROVE LoaderInv'
  <2>1. UNCHANGED << exiting, op, patches, patchArray, capacity >> /\ pc[t] \in Running \cup {"out"}
    BY <1>30 DEF portVars, patchVars, envVars, Running, Step, Dispatch, EnterWrapper, FindHashTableEntry, LookupSyscallOriginal, SnapshotFilters, ScanFilter, RereadsBadCallback, InvokeContinues, InvokeBlocks, InvokeCallsOriginal, CallOriginal, ReturnFromCall
  <2>2. ~exiting
    BY <2>1, <1>0 DEF LoaderInv, Running
  <2> QED BY <2>1, <2>2, <1>0 DEF LoaderInv
<1>31. CASE UNCHANGED vars
  BY <1>31, <1>u DEF vars, portVars, patchVars, envVars, threadVars
<1> QED
  BY <1>1, <1>2, <1>3, <1>4, <1>5, <1>6, <1>7, <1>8, <1>9, <1>10, <1>11, <1>12, <1>13, <1>14, <1>15, <1>16, <1>17, <1>18, <1>19, <1>20, <1>21, <1>22, <1>23, <1>24, <1>25, <1>26, <1>27, <1>28, <1>30, <1>31
  DEF Next, Register, Gui32, Unregister, Teardown

LEMMA ThreadInvStep ==
  ASSUME Gui = {}, CoreUnloads = FALSE, CapacitySuffices, TypeOK, JumpInv, UnseenInv, ServiceInv, [Next]_vars, NEW t \in Threads
  PROVE  ThreadInv(t)'
<1>0. ThreadInv(t) /\ LoaderInv /\ PortTypes /\ PatchTypes /\ OpTypes /\ ThreadTypes /\ (exiting \in BOOLEAN)
  BY DEF TypeOK, ServiceInv, EnvTypes
<1>u. UNCHANGED << pc, call, held, orig, cur, refCount, entry, slot >> => ThreadInv(t)'
  BY <1>0 DEF ThreadInv
<1>d. exiting /\ UNCHANGED pc => ThreadInv(t)'
  BY <1>0 DEF LoaderInv, ThreadInv, Running, Faults
<1>1. ASSUME InstallHookPort PROVE ThreadInv(t)'
  BY <1>1, <1>0, <1>u DEF InstallHookPort, ThreadInv, JumpInv, UnseenInv, JumpHasOriginal, LoaderInv, portVars, patchVars, envVars, threadVars, PortTypes, PatchTypes, OpTypes, ThreadTypes, Running, Faults, At, Whole, Torn
<1>2. ASSUME NEW c \in Calls, NEW f \in Filters, HpAddSystemCallFilter(c, f) PROVE ThreadInv(t)'
  <2>1. CASE bitmap[c] = Slots
    BY <1>2, <1>u, <2>1 DEF HpAddSystemCallFilter, patchVars, threadVars
  <2>2. CASE bitmap[c] # Slots
    <3>1. LowestFree(c) \in Slots
      BY <2>2, LowestFreeIsFree
    <3>2. slot' = [slot EXCEPT ![c][LowestFree(c)] = f] /\ UNCHANGED << refCount, patchVars, threadVars >>
      BY <1>2, <2>2 DEF HpAddSystemCallFilter
    <3>3. \A d \in Calls, r \in Slots : slot[d][r] # None => slot'[d][r] # None
      BY <3>1, <3>2, <1>0, FilterAssumption DEF PortTypes
    <3> QED BY <3>2, <3>3, <1>0 DEF ThreadInv, ThreadTypes, patchVars, threadVars, Running
  <2> QED BY <2>1, <2>2
<1>3. ASSUME SetEnableFlag PROVE ThreadInv(t)'
  BY <1>3, <1>0, <1>u DEF SetEnableFlag, ThreadInv, JumpInv, UnseenInv, JumpHasOriginal, LoaderInv, portVars, patchVars, envVars, threadVars, PortTypes, PatchTypes, OpTypes, ThreadTypes, Running, Faults, At, Whole, Torn
<1>4. ASSUME SetFilterBit PROVE ThreadInv(t)'
  BY <1>4, <1>0, <1>u DEF SetFilterBit, ThreadInv, JumpInv, UnseenInv, JumpHasOriginal, LoaderInv, portVars, patchVars, envVars, threadVars, PortTypes, PatchTypes, OpTypes, ThreadTypes, Running, Faults, At, Whole, Torn
<1>5. ASSUME AlreadyPatched PROVE ThreadInv(t)'
  BY <1>5, <1>0, <1>u DEF AlreadyPatched, ThreadInv, JumpInv, UnseenInv, JumpHasOriginal, LoaderInv, portVars, patchVars, envVars, threadVars, PortTypes, PatchTypes, OpTypes, ThreadTypes, Running, Faults, At, Whole, Torn
<1>6. ASSUME PatchFails PROVE ThreadInv(t)'
  BY <1>6, <1>0, <1>u DEF PatchFails, ThreadInv, JumpInv, UnseenInv, JumpHasOriginal, LoaderInv, portVars, patchVars, envVars, threadVars, PortTypes, PatchTypes, OpTypes, ThreadTypes, Running, Faults, At, Whole, Torn
<1>7. ASSUME AddPatch PROVE ThreadInv(t)'
  BY <1>7, <1>0, <1>u DEF AddPatch, Full, ThreadInv, JumpInv, UnseenInv, JumpHasOriginal, LoaderInv, portVars, patchVars, envVars, threadVars, PortTypes, PatchTypes, OpTypes, ThreadTypes, Running, Faults, At, Whole, Torn
<1>8. ASSUME FreeFullArray PROVE ThreadInv(t)'
  BY <1>8, <1>0, <1>u DEF FreeFullArray, Full, ThreadInv, JumpInv, UnseenInv, JumpHasOriginal, LoaderInv, portVars, patchVars, envVars, threadVars, PortTypes, PatchTypes, OpTypes, ThreadTypes, Running, Faults, At, Whole, Torn
<1>9. ASSUME PublishGrownArray PROVE ThreadInv(t)'
  BY <1>9, <1>0, <1>u DEF PublishGrownArray, ThreadInv, JumpInv, UnseenInv, JumpHasOriginal, LoaderInv, portVars, patchVars, envVars, threadVars, PortTypes, PatchTypes, OpTypes, ThreadTypes, Running, Faults, At, Whole, Torn
<1>10. ASSUME WriteSystemCallJump PROVE ThreadInv(t)'
  BY <1>10, <1>0, <1>u DEF WriteSystemCallJump, ThreadInv, JumpInv, UnseenInv, JumpHasOriginal, LoaderInv, portVars, patchVars, envVars, threadVars, PortTypes, PatchTypes, OpTypes, ThreadTypes, Running, Faults, At, Whole, Torn
<1>11. ASSUME JumpFails PROVE ThreadInv(t)'
  BY <1>11, <1>0, <1>u DEF JumpFails, StubFreed, ThreadInv, JumpInv, UnseenInv, JumpHasOriginal, LoaderInv, portVars, patchVars, envVars, threadVars, PortTypes, PatchTypes, OpTypes, ThreadTypes, Running, Faults, At, Whole, Torn
<1>12. ASSUME ClearFilterBit PROVE ThreadInv(t)'
  BY <1>12, <1>0, <1>u DEF ClearFilterBit, ThreadInv, JumpInv, UnseenInv, JumpHasOriginal, LoaderInv, portVars, patchVars, envVars, threadVars, PortTypes, PatchTypes, OpTypes, ThreadTypes, Running, Faults, At, Whole, Torn
<1>13. ASSUME ClearSlot PROVE ThreadInv(t)'
  BY <1>13, <1>0, <1>u DEF ClearSlot, ThreadInv, JumpInv, UnseenInv, JumpHasOriginal, LoaderInv, portVars, patchVars, envVars, threadVars, PortTypes, PatchTypes, OpTypes, ThreadTypes, Running, Faults, At, Whole, Torn
<1>14. ASSUME GuiMapped PROVE ThreadInv(t)'
  BY <1>14, <1>0, <1>u DEF GuiMapped, ThreadInv, JumpInv, UnseenInv, JumpHasOriginal, LoaderInv, portVars, patchVars, envVars, threadVars, PortTypes, PatchTypes, OpTypes, ThreadTypes, Running, Faults, At, Whole, Torn
<1>15. ASSUME GuiLeaving PROVE ThreadInv(t)'
  BY <1>15, <1>0, <1>u DEF GuiLeaving, ThreadInv, JumpInv, UnseenInv, JumpHasOriginal, LoaderInv, portVars, patchVars, envVars, threadVars, PortTypes, PatchTypes, OpTypes, ThreadTypes, Running, Faults, At, Whole, Torn
<1>16. ASSUME GuiUnmapped PROVE ThreadInv(t)'
  BY <1>16, <1>0, <1>u DEF GuiUnmapped, ThreadInv, JumpInv, UnseenInv, JumpHasOriginal, LoaderInv, portVars, patchVars, envVars, threadVars, PortTypes, PatchTypes, OpTypes, ThreadTypes, Running, Faults, At, Whole, Torn
<1>17. ASSUME NEW batch \in SUBSET Gui, HpAddSystemCall(batch) PROVE ThreadInv(t)'
  BY <1>17 DEF HpAddSystemCall
<1>18. ASSUME DestroyOldTable PROVE ThreadInv(t)'
  BY <1>18, <1>0, <1>u DEF DestroyOldTable, ThreadInv, JumpInv, UnseenInv, JumpHasOriginal, LoaderInv, portVars, patchVars, envVars, threadVars, PortTypes, PatchTypes, OpTypes, ThreadTypes, Running, Faults, At, Whole, Torn
<1>19. ASSUME NEW c \in Calls, NEW f \in Filters, HpRemoveSystemCallFilter(c, f) PROVE ThreadInv(t)'
  BY <1>19 DEF HpRemoveSystemCallFilter
<1>20. ASSUME RemoveBit PROVE ThreadInv(t)'
  BY <1>20, <1>0, <1>u DEF RemoveBit, ThreadInv, JumpInv, UnseenInv, JumpHasOriginal, LoaderInv, portVars, patchVars, envVars, threadVars, PortTypes, PatchTypes, OpTypes, ThreadTypes, Running, Faults, At, Whole, Torn
<1>21. ASSUME RemoveFlag PROVE ThreadInv(t)'
  BY <1>21, <1>0, <1>u DEF RemoveFlag, ThreadInv, JumpInv, UnseenInv, JumpHasOriginal, LoaderInv, portVars, patchVars, envVars, threadVars, PortTypes, PatchTypes, OpTypes, ThreadTypes, Running, Faults, At, Whole, Torn
<1>22. ASSUME ExitProcess PROVE ThreadInv(t)'
  BY <1>22, <1>0, <1>u DEF ExitProcess, ThreadInv, JumpInv, UnseenInv, JumpHasOriginal, LoaderInv, portVars, patchVars, envVars, threadVars, PortTypes, PatchTypes, OpTypes, ThreadTypes, Running, Faults, At, Whole, Torn
<1>23. ASSUME DropReference PROVE ThreadInv(t)'
  BY <1>23, <1>0, <1>d DEF DropReference, LoaderInv, InOperation, Torn, At, threadVars
<1>24. ASSUME UnInstallHookPort PROVE ThreadInv(t)'
  BY <1>24, <1>0, <1>d DEF UnInstallHookPort, LoaderInv, InOperation, Torn, At, threadVars
<1>25. ASSUME NEW c \in Calls, RestorePatch(c) PROVE ThreadInv(t)'
  BY <1>25, <1>0, <1>d DEF RestorePatch, LoaderInv, InOperation, Torn, At, threadVars
<1>26. ASSUME FreePatches PROVE ThreadInv(t)'
  BY <1>26, <1>0, <1>d DEF FreePatches, LoaderInv, InOperation, Torn, At, threadVars
<1>27. ASSUME ForgetPatches PROVE ThreadInv(t)'
  BY <1>27, <1>0, <1>d DEF ForgetPatches, LoaderInv, InOperation, Torn, At, threadVars
<1>28. ASSUME FreeCallbacks PROVE ThreadInv(t)'
  BY <1>28, <1>0, <1>d DEF FreeCallbacks, LoaderInv, InOperation, Torn, At, threadVars
<1>29. ASSUME NEW u \in Threads, NEW c \in Calls, EnterWrapper(u, c) PROVE ThreadInv(t)'
  <2>1. CASE u # t
    BY <1>29, <1>0, <2>1 DEF EnterWrapper, ThreadInv, ThreadTypes, portVars, patchVars, envVars, Step
  <2>2. CASE u = t
    BY <1>29, <1>0, <2>2 DEF EnterWrapper, JumpInv, JumpHasOriginal, LoaderInv, InOperation, Torn, At, ThreadInv, PortTypes, ThreadTypes, portVars, patchVars, envVars, Running, Faults, Step
  <2> QED BY <2>1, <2>2
<1>30. ASSUME NEW u \in Threads, FindHashTableEntry(u) PROVE ThreadInv(t)'
  <2>1. CASE u # t
    BY <1>30, <1>0, <2>1 DEF FindHashTableEntry, ThreadInv, ThreadTypes, portVars, patchVars, envVars, Step
  <2>2. CASE u = t
    BY <1>30, <1>0, <2>2 DEF FindHashTableEntry, JumpInv, JumpHasOriginal, LoaderInv, InOperation, Torn, At, ThreadInv, PortTypes, ThreadTypes, portVars, patchVars, envVars, Running, Faults, Step
  <2> QED BY <2>1, <2>2
<1>31. ASSUME NEW u \in Threads, LookupSyscallOriginal(u) PROVE ThreadInv(t)'
  <2>1. CASE u # t
    BY <1>31, <1>0, <2>1 DEF LookupSyscallOriginal, ThreadInv, ThreadTypes, portVars, patchVars, envVars, Original, Step
  <2>2. CASE u = t
    BY <1>31, <1>0, <2>2 DEF LookupSyscallOriginal, JumpInv, JumpHasOriginal, LoaderInv, InOperation, Torn, At, ThreadInv, PortTypes, ThreadTypes, portVars, patchVars, envVars, Running, Faults, Original, Step
  <2> QED BY <2>1, <2>2
<1>32. ASSUME NEW u \in Threads, SnapshotFilters(u) PROVE ThreadInv(t)'
  <2>1. CASE u # t
    BY <1>32, <1>0, <2>1 DEF SnapshotFilters, ThreadInv, ThreadTypes, portVars, patchVars, envVars, Step
  <2>2. CASE u = t
    BY <1>32, <1>0, <2>2 DEF SnapshotFilters, JumpInv, JumpHasOriginal, LoaderInv, InOperation, Torn, At, ThreadInv, PortTypes, ThreadTypes, portVars, patchVars, envVars, Running, Faults, Step
  <2> QED BY <2>1, <2>2
<1>33. ASSUME NEW u \in Threads, ScanFilter(u) PROVE ThreadInv(t)'
  <2>1. CASE u # t
    BY <1>33, <1>0, <2>1 DEF ScanFilter, ThreadInv, ThreadTypes, portVars, patchVars, envVars, Step
  <2>2. CASE u = t
    BY <1>33, <1>0, <2>2, LowestBitIsSet DEF ScanFilter, JumpInv, JumpHasOriginal, LoaderInv, InOperation, Torn, At, ThreadInv, PortTypes, ThreadTypes, portVars, patchVars, envVars, Running, Faults, Step
  <2> QED BY <2>1, <2>2
<1>34. ASSUME NEW u \in Threads, RereadsBadCallback(u) PROVE ThreadInv(t)'
  <2>1. CASE u # t
    BY <1>34, <1>0, <2>1 DEF RereadsBadCallback, ThreadInv, ThreadTypes, portVars, patchVars, envVars, Step
  <2>2. CASE u = t
    BY <1>34, <1>0, <2>2 DEF RereadsBadCallback, JumpInv, JumpHasOriginal, LoaderInv, InOperation, Torn, At, ThreadInv, PortTypes, ThreadTypes, portVars, patchVars, envVars, Running, Faults, Step
  <2> QED BY <2>1, <2>2
<1>35. ASSUME NEW u \in Threads, InvokeContinues(u) PROVE ThreadInv(t)'
  <2>1. CASE u # t
    BY <1>35, <1>0, <2>1 DEF InvokeContinues, ThreadInv, ThreadTypes, portVars, patchVars, envVars, Step
  <2>2. CASE u = t
    BY <1>35, <1>0, <2>2 DEF InvokeContinues, JumpInv, JumpHasOriginal, LoaderInv, InOperation, Torn, At, ThreadInv, PortTypes, ThreadTypes, portVars, patchVars, envVars, Running, Faults, Step
  <2> QED BY <2>1, <2>2
<1>36. ASSUME NEW u \in Threads, InvokeBlocks(u) PROVE ThreadInv(t)'
  <2>1. CASE u # t
    BY <1>36, <1>0, <2>1 DEF InvokeBlocks, ThreadInv, ThreadTypes, portVars, patchVars, envVars, Leave, Step
  <2>2. CASE u = t
    BY <1>36, <1>0, <2>2 DEF InvokeBlocks, JumpInv, JumpHasOriginal, LoaderInv, InOperation, Torn, At, ThreadInv, PortTypes, ThreadTypes, portVars, patchVars, envVars, Running, Faults, Leave, Step
  <2> QED BY <2>1, <2>2
<1>37. ASSUME NEW u \in Threads, InvokeCallsOriginal(u) PROVE ThreadInv(t)'
  <2>1. CASE u # t
    BY <1>37, <1>0, <2>1 DEF InvokeCallsOriginal, ThreadInv, ThreadTypes, portVars, patchVars, envVars, Original, Step
  <2>2. CASE u = t
    BY <1>37, <1>0, <2>2 DEF InvokeCallsOriginal, JumpInv, JumpHasOriginal, LoaderInv, InOperation, Torn, At, ThreadInv, PortTypes, ThreadTypes, portVars, patchVars, envVars, Running, Faults, Original, Step
  <2> QED BY <2>1, <2>2
<1>38. ASSUME NEW u \in Threads, CallOriginal(u) PROVE ThreadInv(t)'
  <2>1. CASE u # t
    BY <1>38, <1>0, <2>1 DEF CallOriginal, ThreadInv, ThreadTypes, portVars, patchVars, envVars, Step
  <2>2. CASE u = t
    BY <1>38, <1>0, <2>2 DEF CallOriginal, JumpInv, JumpHasOriginal, LoaderInv, InOperation, Torn, At, ThreadInv, PortTypes, ThreadTypes, portVars, patchVars, envVars, Running, Faults, Step
  <2> QED BY <2>1, <2>2
<1>39. ASSUME NEW u \in Threads, ReturnFromCall(u) PROVE ThreadInv(t)'
  <2>1. CASE u # t
    BY <1>39, <1>0, <2>1 DEF ReturnFromCall, ThreadInv, ThreadTypes, portVars, patchVars, envVars, Leave, Step
  <2>2. CASE u = t
    BY <1>39, <1>0, <2>2 DEF ReturnFromCall, JumpInv, JumpHasOriginal, LoaderInv, InOperation, Torn, At, ThreadInv, PortTypes, ThreadTypes, portVars, patchVars, envVars, Running, Faults, Leave, Step
  <2> QED BY <2>1, <2>2
<1>50. CASE UNCHANGED vars
  BY <1>50, <1>u DEF vars, portVars, patchVars, threadVars
<1> QED
  BY <1>1, <1>2, <1>3, <1>4, <1>5, <1>6, <1>7, <1>8, <1>9, <1>10, <1>11, <1>12, <1>13, <1>14, <1>15, <1>16, <1>17, <1>18, <1>19, <1>20, <1>21, <1>22, <1>23, <1>24, <1>25, <1>26, <1>27, <1>28, <1>29, <1>30, <1>31, <1>32, <1>33, <1>34, <1>35, <1>36, <1>37, <1>38, <1>39, <1>50
  DEF Next, Register, Gui32, Unregister, Teardown, Dispatch

(* The filters registered at start-up are served without a fault for the    *)
(* life of the process (DispatchTypedFilter, LookupSyscallOriginal).        *)
THEOREM NoFaultInService ==
  ASSUME Gui = {}, CoreUnloads = FALSE, CapacitySuffices
  PROVE  Spec => []NoFault
<1>1. TypeOK /\ JumpInv /\ UnseenInv /\ ServiceInv /\ [Next]_vars => ServiceInv'
  BY LoaderInvStep, ThreadInvStep DEF ServiceInv
<1>2. ServiceInv => NoFault
  BY DEF ServiceInv, ThreadInv, NoFault
<1> QED BY TypeInit, TypeStep, JumpInit, JumpStep, UnseenInit, UnseenStep, ServiceInit, <1>1, <1>2, PTL DEF Spec

-----------------------------------------------------------------------------
(* A filter that was reported as registered is reached: the call it is set *)
(* on is patched and enabled.  The order of the stores alone does not give *)
(* it, a failure must also find no other filter of the call: a call is     *)
(* rolled back only while it has no patch, and then the bit that is being  *)
(* taken back is its only one.                                             *)

Unpatched(c) == c \notin patches \/ (At("jump") /\ op.c = c)

(* The one bit a call without a jump may have. *)
BitInProgress(c, s) == op.at \in { "patch", "grow", "jump", "clearBit" } /\ op.c = c /\ op.s = s

FilterInv ==
  /\ op.at \notin Torn => \A c \in Calls : Unpatched(c) => \A s \in bitmap[c] : BitInProgress(c, s)
  /\ \A c \in Calls : bitmap[c] # {} => enabled[c]
  /\ At("bit") => enabled[op.c]
  /\ At("removeFlag") => bitmap[op.c] = {}

(* What is hooked of the GUI modules is hooked while they are mapped; their *)
(* stubs lose the jump with them, once.                                     *)
MappedInv ==
  /\ op.at \notin Torn /\ guiLoads <= 1 =>
       \A c \in Calls : ~Unpatched(c) /\ (c \in Gui => gui # "absent") => entry[c] = "jump"
  /\ guiLoads = 0 => gui = "absent" /\ patches \cap Gui = {}
  /\ op.at \notin Whole /\ op.c \in Gui => gui # "absent"
  /\ \A c \in Gui : bitmap[c] # {} => gui # "absent"

LEMMA ReachInit == Init => FilterInv /\ MappedInv
BY CallsAssumption DEF Init, FilterInv, MappedInv, Unpatched, BitInProgress, Idle, At, Whole, Torn

LEMMA FilterStep ==
  ASSUME TypeOK, JumpInv, UnseenInv, FilterInv, [Next]_vars
  PROVE  FilterInv'
<1>0. PortTypes /\ PatchTypes /\ OpTypes /\ EnvTypes
  BY DEF TypeOK
<1>u. UNCHANGED << patches, bitmap, enabled, op >> => FilterInv'
  BY DEF FilterInv, Unpatched, BitInProgress, At
<1>1. ASSUME InstallHookPort PROVE FilterInv'
  BY <1>1, <1>0 DEF InstallHookPort, FilterInv, JumpInv, UnseenInv, Unpatched, BitInProgress, portVars, patchVars, envVars, threadVars, PortTypes, PatchTypes, OpTypes, EnvTypes, At, Goto, Idle, Whole, Torn
<1>2. ASSUME NEW c \in Calls, NEW f \in Filters, HpAddSystemCallFilter(c, f) PROVE FilterInv'
  BY <1>2, <1>0 DEF HpAddSystemCallFilter, FilterInv, JumpInv, UnseenInv, Unpatched, BitInProgress, portVars, patchVars, envVars, threadVars, PortTypes, PatchTypes, OpTypes, EnvTypes, At, Goto, Idle, Whole, Torn
<1>3. ASSUME SetEnableFlag PROVE FilterInv'
  BY <1>3, <1>0 DEF SetEnableFlag, FilterInv, JumpInv, UnseenInv, Unpatched, BitInProgress, portVars, patchVars, envVars, threadVars, PortTypes, PatchTypes, OpTypes, EnvTypes, At, Goto, Idle, Whole, Torn
<1>4. ASSUME SetFilterBit PROVE FilterInv'
  BY <1>4, <1>0 DEF SetFilterBit, FilterInv, JumpInv, UnseenInv, Unpatched, BitInProgress, portVars, patchVars, envVars, threadVars, PortTypes, PatchTypes, OpTypes, EnvTypes, At, Goto, Idle, Whole, Torn
<1>5. ASSUME AlreadyPatched PROVE FilterInv'
  BY <1>5, <1>0 DEF AlreadyPatched, FilterInv, JumpInv, UnseenInv, Unpatched, BitInProgress, portVars, patchVars, envVars, threadVars, PortTypes, PatchTypes, OpTypes, EnvTypes, At, Goto, Idle, Whole, Torn
<1>6. ASSUME PatchFails PROVE FilterInv'
  BY <1>6, <1>0 DEF PatchFails, FilterInv, JumpInv, UnseenInv, Unpatched, BitInProgress, portVars, patchVars, envVars, threadVars, PortTypes, PatchTypes, OpTypes, EnvTypes, At, Goto, Idle, Whole, Torn
<1>7. ASSUME AddPatch PROVE FilterInv'
  BY <1>7, <1>0 DEF AddPatch, Full, FilterInv, JumpInv, UnseenInv, Unpatched, BitInProgress, portVars, patchVars, envVars, threadVars, PortTypes, PatchTypes, OpTypes, EnvTypes, At, Goto, Idle, Whole, Torn
<1>8. ASSUME FreeFullArray PROVE FilterInv'
  BY <1>8, <1>0 DEF FreeFullArray, Full, FilterInv, JumpInv, UnseenInv, Unpatched, BitInProgress, portVars, patchVars, envVars, threadVars, PortTypes, PatchTypes, OpTypes, EnvTypes, At, Goto, Idle, Whole, Torn
<1>9. ASSUME PublishGrownArray PROVE FilterInv'
  BY <1>9, <1>0 DEF PublishGrownArray, FilterInv, JumpInv, UnseenInv, Unpatched, BitInProgress, portVars, patchVars, envVars, threadVars, PortTypes, PatchTypes, OpTypes, EnvTypes, At, Goto, Idle, Whole, Torn
<1>10. ASSUME WriteSystemCallJump PROVE FilterInv'
  BY <1>10, <1>0 DEF WriteSystemCallJump, FilterInv, JumpInv, UnseenInv, Unpatched, BitInProgress, portVars, patchVars, envVars, threadVars, PortTypes, PatchTypes, OpTypes, EnvTypes, At, Goto, Idle, Whole, Torn
<1>11. ASSUME JumpFails PROVE FilterInv'
  BY <1>11, <1>0 DEF JumpFails, StubFreed, FilterInv, JumpInv, UnseenInv, Unpatched, BitInProgress, portVars, patchVars, envVars, threadVars, PortTypes, PatchTypes, OpTypes, EnvTypes, At, Goto, Idle, Whole, Torn
<1>12. ASSUME ClearFilterBit PROVE FilterInv'
  BY <1>12, <1>0 DEF ClearFilterBit, FilterInv, JumpInv, UnseenInv, Unpatched, BitInProgress, portVars, patchVars, envVars, threadVars, PortTypes, PatchTypes, OpTypes, EnvTypes, At, Goto, Idle, Whole, Torn
<1>13. ASSUME ClearSlot PROVE FilterInv'
  BY <1>13, <1>0 DEF ClearSlot, FilterInv, JumpInv, UnseenInv, Unpatched, BitInProgress, portVars, patchVars, envVars, threadVars, PortTypes, PatchTypes, OpTypes, EnvTypes, At, Goto, Idle, Whole, Torn
<1>14. ASSUME GuiMapped PROVE FilterInv'
  BY <1>14, <1>0 DEF GuiMapped, FilterInv, JumpInv, UnseenInv, Unpatched, BitInProgress, portVars, patchVars, envVars, threadVars, PortTypes, PatchTypes, OpTypes, EnvTypes, At, Goto, Idle, Whole, Torn
<1>15. ASSUME GuiLeaving PROVE FilterInv'
  BY <1>15, <1>0 DEF GuiLeaving, FilterInv, JumpInv, UnseenInv, Unpatched, BitInProgress, portVars, patchVars, envVars, threadVars, PortTypes, PatchTypes, OpTypes, EnvTypes, At, Goto, Idle, Whole, Torn
<1>16. ASSUME GuiUnmapped PROVE FilterInv'
  BY <1>16, <1>0 DEF GuiUnmapped, FilterInv, JumpInv, UnseenInv, Unpatched, BitInProgress, portVars, patchVars, envVars, threadVars, PortTypes, PatchTypes, OpTypes, EnvTypes, At, Goto, Idle, Whole, Torn
<1>17. ASSUME NEW batch \in SUBSET Gui, HpAddSystemCall(batch) PROVE FilterInv'
  BY <1>17, <1>0 DEF HpAddSystemCall, Searching, FilterInv, JumpInv, UnseenInv, Unpatched, BitInProgress, portVars, patchVars, envVars, threadVars, PortTypes, PatchTypes, OpTypes, EnvTypes, At, Goto, Idle, Whole, Torn
<1>18. ASSUME DestroyOldTable PROVE FilterInv'
  BY <1>18, <1>0 DEF DestroyOldTable, FilterInv, JumpInv, UnseenInv, Unpatched, BitInProgress, portVars, patchVars, envVars, threadVars, PortTypes, PatchTypes, OpTypes, EnvTypes, At, Goto, Idle, Whole, Torn
<1>19. ASSUME NEW c \in Calls, NEW f \in Filters, HpRemoveSystemCallFilter(c, f) PROVE FilterInv'
  BY <1>19, <1>0 DEF HpRemoveSystemCallFilter, Registered, FilterInv, JumpInv, UnseenInv, Unpatched, BitInProgress, portVars, patchVars, envVars, threadVars, PortTypes, PatchTypes, OpTypes, EnvTypes, At, Goto, Idle, Whole, Torn
<1>20. ASSUME RemoveBit PROVE FilterInv'
  BY <1>20, <1>0 DEF RemoveBit, FilterInv, JumpInv, UnseenInv, Unpatched, BitInProgress, portVars, patchVars, envVars, threadVars, PortTypes, PatchTypes, OpTypes, EnvTypes, At, Goto, Idle, Whole, Torn
<1>21. ASSUME RemoveFlag PROVE FilterInv'
  BY <1>21, <1>0 DEF RemoveFlag, FilterInv, JumpInv, UnseenInv, Unpatched, BitInProgress, portVars, patchVars, envVars, threadVars, PortTypes, PatchTypes, OpTypes, EnvTypes, At, Goto, Idle, Whole, Torn
<1>22. ASSUME ExitProcess PROVE FilterInv'
  BY <1>22, <1>0 DEF ExitProcess, FilterInv, JumpInv, UnseenInv, Unpatched, BitInProgress, portVars, patchVars, envVars, threadVars, PortTypes, PatchTypes, OpTypes, EnvTypes, At, Goto, Idle, Whole, Torn
<1>23. ASSUME DropReference PROVE FilterInv'
  BY <1>23, <1>0 DEF DropReference, FilterInv, JumpInv, UnseenInv, Unpatched, BitInProgress, portVars, patchVars, envVars, threadVars, PortTypes, PatchTypes, OpTypes, EnvTypes, At, Goto, Idle, Whole, Torn
<1>24. ASSUME UnInstallHookPort PROVE FilterInv'
  BY <1>24, <1>0 DEF UnInstallHookPort, FilterInv, JumpInv, UnseenInv, Unpatched, BitInProgress, portVars, patchVars, envVars, threadVars, PortTypes, PatchTypes, OpTypes, EnvTypes, At, Goto, Idle, Whole, Torn
<1>25. ASSUME NEW c \in Calls, RestorePatch(c) PROVE FilterInv'
  BY <1>25, <1>0 DEF RestorePatch, StubFreed, FilterInv, JumpInv, UnseenInv, Unpatched, BitInProgress, portVars, patchVars, envVars, threadVars, PortTypes, PatchTypes, OpTypes, EnvTypes, At, Goto, Idle, Whole, Torn
<1>26. ASSUME FreePatches PROVE FilterInv'
  BY <1>26, <1>0 DEF FreePatches, FilterInv, JumpInv, UnseenInv, Unpatched, BitInProgress, portVars, patchVars, envVars, threadVars, PortTypes, PatchTypes, OpTypes, EnvTypes, At, Goto, Idle, Whole, Torn
<1>27. ASSUME ForgetPatches PROVE FilterInv'
  BY <1>27, <1>0 DEF ForgetPatches, FilterInv, JumpInv, UnseenInv, Unpatched, BitInProgress, portVars, patchVars, envVars, threadVars, PortTypes, PatchTypes, OpTypes, EnvTypes, At, Goto, Idle, Whole, Torn
<1>28. ASSUME FreeCallbacks PROVE FilterInv'
  BY <1>28, <1>0 DEF FreeCallbacks, FilterInv, JumpInv, UnseenInv, Unpatched, BitInProgress, portVars, patchVars, envVars, threadVars, PortTypes, PatchTypes, OpTypes, EnvTypes, At, Goto, Idle, Whole, Torn
<1>29. ASSUME NEW t \in Threads, Dispatch(t) \/ \E c \in Calls : EnterWrapper(t, c) PROVE FilterInv'
  BY <1>29, <1>u DEF portVars, patchVars, envVars, Dispatch, EnterWrapper, FindHashTableEntry, LookupSyscallOriginal, SnapshotFilters, ScanFilter, RereadsBadCallback, InvokeContinues, InvokeBlocks, InvokeCallsOriginal, CallOriginal, ReturnFromCall
<1>30. CASE UNCHANGED vars
  BY <1>30, <1>u DEF vars, portVars, patchVars, envVars
<1> QED
  BY <1>1, <1>2, <1>3, <1>4, <1>5, <1>6, <1>7, <1>8, <1>9, <1>10, <1>11, <1>12, <1>13, <1>14, <1>15, <1>16, <1>17, <1>18, <1>19, <1>20, <1>21, <1>22, <1>23, <1>24, <1>25, <1>26, <1>27, <1>28, <1>29, <1>30
  DEF Next, Register, Gui32, Unregister, Teardown

LEMMA MappedStep ==
  ASSUME TypeOK, JumpInv, UnseenInv, FilterInv, MappedInv, [Next]_vars
  PROVE  MappedInv'
<1>0. PortTypes /\ PatchTypes /\ OpTypes /\ EnvTypes
  BY DEF TypeOK
<1>u. UNCHANGED << patches, entry, bitmap, gui, guiLoads, op >> => MappedInv'
  BY DEF MappedInv, Unpatched, BitInProgress, At
<1>1. ASSUME InstallHookPort PROVE MappedInv'
  BY <1>1, <1>0 DEF InstallHookPort, MappedInv, FilterInv, JumpInv, UnseenInv, JumpHasOriginal, Unpatched, BitInProgress, portVars, patchVars, envVars, threadVars, PortTypes, PatchTypes, OpTypes, EnvTypes, At, Goto, Idle, Whole, Torn
<1>2. ASSUME NEW c \in Calls, NEW f \in Filters, HpAddSystemCallFilter(c, f) PROVE MappedInv'
  BY <1>2, <1>0 DEF HpAddSystemCallFilter, MappedInv, FilterInv, JumpInv, UnseenInv, JumpHasOriginal, Unpatched, BitInProgress, portVars, patchVars, envVars, threadVars, PortTypes, PatchTypes, OpTypes, EnvTypes, At, Goto, Idle, Whole, Torn
<1>3. ASSUME SetEnableFlag PROVE MappedInv'
  BY <1>3, <1>0 DEF SetEnableFlag, MappedInv, FilterInv, JumpInv, UnseenInv, JumpHasOriginal, Unpatched, BitInProgress, portVars, patchVars, envVars, threadVars, PortTypes, PatchTypes, OpTypes, EnvTypes, At, Goto, Idle, Whole, Torn
<1>4. ASSUME SetFilterBit PROVE MappedInv'
  BY <1>4, <1>0 DEF SetFilterBit, MappedInv, FilterInv, JumpInv, UnseenInv, JumpHasOriginal, Unpatched, BitInProgress, portVars, patchVars, envVars, threadVars, PortTypes, PatchTypes, OpTypes, EnvTypes, At, Goto, Idle, Whole, Torn
<1>5. ASSUME AlreadyPatched PROVE MappedInv'
  BY <1>5, <1>0 DEF AlreadyPatched, MappedInv, FilterInv, JumpInv, UnseenInv, JumpHasOriginal, Unpatched, BitInProgress, portVars, patchVars, envVars, threadVars, PortTypes, PatchTypes, OpTypes, EnvTypes, At, Goto, Idle, Whole, Torn
<1>6. ASSUME PatchFails PROVE MappedInv'
  BY <1>6, <1>0 DEF PatchFails, MappedInv, FilterInv, JumpInv, UnseenInv, JumpHasOriginal, Unpatched, BitInProgress, portVars, patchVars, envVars, threadVars, PortTypes, PatchTypes, OpTypes, EnvTypes, At, Goto, Idle, Whole, Torn
<1>7. ASSUME AddPatch PROVE MappedInv'
  BY <1>7, <1>0 DEF AddPatch, Full, MappedInv, FilterInv, JumpInv, UnseenInv, JumpHasOriginal, Unpatched, BitInProgress, portVars, patchVars, envVars, threadVars, PortTypes, PatchTypes, OpTypes, EnvTypes, At, Goto, Idle, Whole, Torn
<1>8. ASSUME FreeFullArray PROVE MappedInv'
  BY <1>8, <1>0 DEF FreeFullArray, Full, MappedInv, FilterInv, JumpInv, UnseenInv, JumpHasOriginal, Unpatched, BitInProgress, portVars, patchVars, envVars, threadVars, PortTypes, PatchTypes, OpTypes, EnvTypes, At, Goto, Idle, Whole, Torn
<1>9. ASSUME PublishGrownArray PROVE MappedInv'
  BY <1>9, <1>0 DEF PublishGrownArray, MappedInv, FilterInv, JumpInv, UnseenInv, JumpHasOriginal, Unpatched, BitInProgress, portVars, patchVars, envVars, threadVars, PortTypes, PatchTypes, OpTypes, EnvTypes, At, Goto, Idle, Whole, Torn
<1>10. ASSUME WriteSystemCallJump PROVE MappedInv'
  BY <1>10, <1>0 DEF WriteSystemCallJump, MappedInv, FilterInv, JumpInv, UnseenInv, JumpHasOriginal, Unpatched, BitInProgress, portVars, patchVars, envVars, threadVars, PortTypes, PatchTypes, OpTypes, EnvTypes, At, Goto, Idle, Whole, Torn
<1>11. ASSUME JumpFails PROVE MappedInv'
  BY <1>11, <1>0 DEF JumpFails, StubFreed, MappedInv, FilterInv, JumpInv, UnseenInv, JumpHasOriginal, Unpatched, BitInProgress, portVars, patchVars, envVars, threadVars, PortTypes, PatchTypes, OpTypes, EnvTypes, At, Goto, Idle, Whole, Torn
<1>12. ASSUME ClearFilterBit PROVE MappedInv'
  BY <1>12, <1>0 DEF ClearFilterBit, MappedInv, FilterInv, JumpInv, UnseenInv, JumpHasOriginal, Unpatched, BitInProgress, portVars, patchVars, envVars, threadVars, PortTypes, PatchTypes, OpTypes, EnvTypes, At, Goto, Idle, Whole, Torn
<1>13. ASSUME ClearSlot PROVE MappedInv'
  BY <1>13, <1>0 DEF ClearSlot, MappedInv, FilterInv, JumpInv, UnseenInv, JumpHasOriginal, Unpatched, BitInProgress, portVars, patchVars, envVars, threadVars, PortTypes, PatchTypes, OpTypes, EnvTypes, At, Goto, Idle, Whole, Torn
<1>14. ASSUME GuiMapped PROVE MappedInv'
  BY <1>14, <1>0 DEF GuiMapped, MappedInv, FilterInv, JumpInv, UnseenInv, JumpHasOriginal, Unpatched, BitInProgress, portVars, patchVars, envVars, threadVars, PortTypes, PatchTypes, OpTypes, EnvTypes, At, Goto, Idle, Whole, Torn
<1>15. ASSUME GuiLeaving PROVE MappedInv'
  BY <1>15, <1>0 DEF GuiLeaving, MappedInv, FilterInv, JumpInv, UnseenInv, JumpHasOriginal, Unpatched, BitInProgress, portVars, patchVars, envVars, threadVars, PortTypes, PatchTypes, OpTypes, EnvTypes, At, Goto, Idle, Whole, Torn
<1>16. ASSUME GuiUnmapped PROVE MappedInv'
  BY <1>16, <1>0 DEF GuiUnmapped, MappedInv, FilterInv, JumpInv, UnseenInv, JumpHasOriginal, Unpatched, BitInProgress, portVars, patchVars, envVars, threadVars, PortTypes, PatchTypes, OpTypes, EnvTypes, At, Goto, Idle, Whole, Torn
<1>17. ASSUME NEW batch \in SUBSET Gui, HpAddSystemCall(batch) PROVE MappedInv'
  BY <1>17, <1>0 DEF HpAddSystemCall, Searching, MappedInv, FilterInv, JumpInv, UnseenInv, JumpHasOriginal, Unpatched, BitInProgress, portVars, patchVars, envVars, threadVars, PortTypes, PatchTypes, OpTypes, EnvTypes, At, Goto, Idle, Whole, Torn
<1>18. ASSUME DestroyOldTable PROVE MappedInv'
  BY <1>18, <1>0 DEF DestroyOldTable, MappedInv, FilterInv, JumpInv, UnseenInv, JumpHasOriginal, Unpatched, BitInProgress, portVars, patchVars, envVars, threadVars, PortTypes, PatchTypes, OpTypes, EnvTypes, At, Goto, Idle, Whole, Torn
<1>19. ASSUME NEW c \in Calls, NEW f \in Filters, HpRemoveSystemCallFilter(c, f) PROVE MappedInv'
  BY <1>19, <1>0 DEF HpRemoveSystemCallFilter, Registered, MappedInv, FilterInv, JumpInv, UnseenInv, JumpHasOriginal, Unpatched, BitInProgress, portVars, patchVars, envVars, threadVars, PortTypes, PatchTypes, OpTypes, EnvTypes, At, Goto, Idle, Whole, Torn
<1>20. ASSUME RemoveBit PROVE MappedInv'
  BY <1>20, <1>0, CallsAssumption DEF RemoveBit, MappedInv, PortTypes, OpTypes, patchVars, envVars, Unpatched, At, Goto, Idle, Whole, Torn
<1>21. ASSUME RemoveFlag PROVE MappedInv'
  BY <1>21, <1>0 DEF RemoveFlag, MappedInv, FilterInv, JumpInv, UnseenInv, JumpHasOriginal, Unpatched, BitInProgress, portVars, patchVars, envVars, threadVars, PortTypes, PatchTypes, OpTypes, EnvTypes, At, Goto, Idle, Whole, Torn
<1>22. ASSUME ExitProcess PROVE MappedInv'
  BY <1>22, <1>0 DEF ExitProcess, MappedInv, FilterInv, JumpInv, UnseenInv, JumpHasOriginal, Unpatched, BitInProgress, portVars, patchVars, envVars, threadVars, PortTypes, PatchTypes, OpTypes, EnvTypes, At, Goto, Idle, Whole, Torn
<1>23. ASSUME DropReference PROVE MappedInv'
  BY <1>23, <1>0 DEF DropReference, MappedInv, FilterInv, JumpInv, UnseenInv, JumpHasOriginal, Unpatched, BitInProgress, portVars, patchVars, envVars, threadVars, PortTypes, PatchTypes, OpTypes, EnvTypes, At, Goto, Idle, Whole, Torn
<1>24. ASSUME UnInstallHookPort PROVE MappedInv'
  BY <1>24, <1>0 DEF UnInstallHookPort, MappedInv, FilterInv, JumpInv, UnseenInv, JumpHasOriginal, Unpatched, BitInProgress, portVars, patchVars, envVars, threadVars, PortTypes, PatchTypes, OpTypes, EnvTypes, At, Goto, Idle, Whole, Torn
<1>25. ASSUME NEW c \in Calls, RestorePatch(c) PROVE MappedInv'
  BY <1>25, <1>0 DEF RestorePatch, StubFreed, MappedInv, FilterInv, JumpInv, UnseenInv, JumpHasOriginal, Unpatched, BitInProgress, portVars, patchVars, envVars, threadVars, PortTypes, PatchTypes, OpTypes, EnvTypes, At, Goto, Idle, Whole, Torn
<1>26. ASSUME FreePatches PROVE MappedInv'
  BY <1>26, <1>0 DEF FreePatches, MappedInv, FilterInv, JumpInv, UnseenInv, JumpHasOriginal, Unpatched, BitInProgress, portVars, patchVars, envVars, threadVars, PortTypes, PatchTypes, OpTypes, EnvTypes, At, Goto, Idle, Whole, Torn
<1>27. ASSUME ForgetPatches PROVE MappedInv'
  BY <1>27, <1>0 DEF ForgetPatches, MappedInv, FilterInv, JumpInv, UnseenInv, JumpHasOriginal, Unpatched, BitInProgress, portVars, patchVars, envVars, threadVars, PortTypes, PatchTypes, OpTypes, EnvTypes, At, Goto, Idle, Whole, Torn
<1>28. ASSUME FreeCallbacks PROVE MappedInv'
  BY <1>28, <1>0, CallsAssumption DEF FreeCallbacks, MappedInv, patchVars, envVars, Unpatched, At, Goto, Whole, Torn
<1>29. ASSUME NEW t \in Threads, Dispatch(t) \/ \E c \in Calls : EnterWrapper(t, c) PROVE MappedInv'
  BY <1>29, <1>u DEF portVars, patchVars, envVars, Dispatch, EnterWrapper, FindHashTableEntry, LookupSyscallOriginal, SnapshotFilters, ScanFilter, RereadsBadCallback, InvokeContinues, InvokeBlocks, InvokeCallsOriginal, CallOriginal, ReturnFromCall
<1>30. CASE UNCHANGED vars
  BY <1>30, <1>u DEF vars, portVars, patchVars, envVars
<1> QED
  BY <1>1, <1>2, <1>3, <1>4, <1>5, <1>6, <1>7, <1>8, <1>9, <1>10, <1>11, <1>12, <1>13, <1>14, <1>15, <1>16, <1>17, <1>18, <1>19, <1>20, <1>21, <1>22, <1>23, <1>24, <1>25, <1>26, <1>27, <1>28, <1>29, <1>30
  DEF Next, Register, Gui32, Unregister, Teardown

(* Registered filters are reached, while the GUI modules are mapped for the *)
(* first time (HpAddSystemCallFilter, PatchSystemCall).                     *)
THEOREM RegisteredFiltersAreReached == MCSpec => []RegisteredIsReached
<1>1. JumpInv /\ FilterInv /\ MappedInv => RegisteredIsReached
  BY DEF JumpInv, FilterInv, MappedInv, Unpatched, BitInProgress, RegisteredIsReached, At, Torn, TypeOK, OpTypes, PortTypes
<1>2. MCInit => Init
  BY DEF MCInit
<1>3. [MCNext]_<<vars, retired>> => [Next]_vars
  BY DEF MCNext
<1>4. TypeOK /\ JumpInv /\ UnseenInv /\ FilterInv /\ MappedInv /\ [Next]_vars => FilterInv' /\ MappedInv'
  BY FilterStep, MappedStep
<1> QED BY <1>1, <1>2, <1>3, <1>4, TypeInit, TypeStep, JumpInit, JumpStep, UnseenInit, UnseenStep, ReachInit, PTL DEF MCSpec

-----------------------------------------------------------------------------
(* Until memory is taken away that a wrapper may be reading, no wrapper     *)
(* meets a null or freed pointer, with any GUI modules and any order of     *)
(* registrations, failures and removals.                                    *)

CalmThread(t) ==
  /\ pc[t] \notin Faults
  /\ pc[t] \in Running =>
       /\ refCount > 0
       /\ call[t] \in table
       /\ held[t] = "live"
       /\ pc[t] \notin { "search", "original" } => orig[t] = "live"
       /\ pc[t] = "invoke" => slot[call[t]][cur[t]] # None

CalmLoader == op.at \notin Torn \cup {"grow"} /\ patchArray # "freed"

CalmInv == ~retired => CalmLoader /\ \A t \in Threads : CalmThread(t)

LEMMA CalmInit == MCInit => CalmInv
BY DEF MCInit, Init, CalmInv, CalmLoader, CalmThread, Torn, Idle, Running, Faults

LEMMA CalmLoaderStep ==
  ASSUME TypeOK, JumpInv, UnseenInv, CalmLoader, Next, ~Retires
  PROVE  CalmLoader'
<1>0. PatchTypes /\ OpTypes
  BY DEF TypeOK
<1>u. UNCHANGED << op, patchArray >> => CalmLoader'
  BY DEF CalmLoader
<1>1. ASSUME InstallHookPort PROVE CalmLoader'
  BY <1>1, <1>0 DEF InstallHookPort, CalmLoader, Retires, JumpInv, PatchTypes, OpTypes, patchVars, At, Goto, Idle, Torn, Whole
<1>2. ASSUME NEW c \in Calls, NEW f \in Filters, HpAddSystemCallFilter(c, f) PROVE CalmLoader'
  BY <1>2, <1>0 DEF HpAddSystemCallFilter, CalmLoader, Retires, JumpInv, PatchTypes, OpTypes, patchVars, At, Goto, Idle, Torn, Whole
<1>3. ASSUME SetEnableFlag PROVE CalmLoader'
  BY <1>3, <1>0 DEF SetEnableFlag, CalmLoader, Retires, JumpInv, PatchTypes, OpTypes, patchVars, At, Goto, Idle, Torn, Whole
<1>4. ASSUME SetFilterBit PROVE CalmLoader'
  BY <1>4, <1>0 DEF SetFilterBit, CalmLoader, Retires, JumpInv, PatchTypes, OpTypes, patchVars, At, Goto, Idle, Torn, Whole
<1>5. ASSUME AlreadyPatched PROVE CalmLoader'
  BY <1>5, <1>0 DEF AlreadyPatched, CalmLoader, Retires, JumpInv, PatchTypes, OpTypes, patchVars, At, Goto, Idle, Torn, Whole
<1>6. ASSUME PatchFails PROVE CalmLoader'
  BY <1>6, <1>0 DEF PatchFails, CalmLoader, Retires, JumpInv, PatchTypes, OpTypes, patchVars, At, Goto, Idle, Torn, Whole
<1>7. ASSUME AddPatch PROVE CalmLoader'
  BY <1>7, <1>0 DEF AddPatch, Full, CalmLoader, Retires, JumpInv, PatchTypes, OpTypes, patchVars, At, Goto, Idle, Torn, Whole
<1>8. ASSUME FreeFullArray PROVE CalmLoader'
  BY <1>8, <1>0 DEF FreeFullArray, Full, CalmLoader, Retires, JumpInv, PatchTypes, OpTypes, patchVars, At, Goto, Idle, Torn, Whole
<1>9. ASSUME PublishGrownArray PROVE CalmLoader'
  BY <1>9, <1>0 DEF PublishGrownArray, CalmLoader, Retires, JumpInv, PatchTypes, OpTypes, patchVars, At, Goto, Idle, Torn, Whole
<1>10. ASSUME WriteSystemCallJump PROVE CalmLoader'
  BY <1>10, <1>0 DEF WriteSystemCallJump, CalmLoader, Retires, JumpInv, PatchTypes, OpTypes, patchVars, At, Goto, Idle, Torn, Whole
<1>11. ASSUME JumpFails PROVE CalmLoader'
  BY <1>11, <1>0 DEF JumpFails, StubFreed, CalmLoader, Retires, JumpInv, PatchTypes, OpTypes, patchVars, At, Goto, Idle, Torn, Whole
<1>12. ASSUME ClearFilterBit PROVE CalmLoader'
  BY <1>12, <1>0 DEF ClearFilterBit, CalmLoader, Retires, JumpInv, PatchTypes, OpTypes, patchVars, At, Goto, Idle, Torn, Whole
<1>13. ASSUME ClearSlot PROVE CalmLoader'
  BY <1>13, <1>0 DEF ClearSlot, CalmLoader, Retires, JumpInv, PatchTypes, OpTypes, patchVars, At, Goto, Idle, Torn, Whole
<1>14. ASSUME GuiMapped PROVE CalmLoader'
  BY <1>14, <1>0 DEF GuiMapped, CalmLoader, Retires, JumpInv, PatchTypes, OpTypes, patchVars, At, Goto, Idle, Torn, Whole
<1>15. ASSUME GuiLeaving PROVE CalmLoader'
  BY <1>15, <1>0 DEF GuiLeaving, CalmLoader, Retires, JumpInv, PatchTypes, OpTypes, patchVars, At, Goto, Idle, Torn, Whole
<1>16. ASSUME GuiUnmapped PROVE CalmLoader'
  BY <1>16, <1>0 DEF GuiUnmapped, CalmLoader, Retires, JumpInv, PatchTypes, OpTypes, patchVars, At, Goto, Idle, Torn, Whole
<1>17. ASSUME NEW batch \in SUBSET Gui, HpAddSystemCall(batch) PROVE CalmLoader'
  BY <1>17, <1>0 DEF HpAddSystemCall, Searching, CalmLoader, Retires, JumpInv, PatchTypes, OpTypes, patchVars, At, Goto, Idle, Torn, Whole
<1>18. ASSUME DestroyOldTable PROVE CalmLoader'
  BY <1>18, <1>0 DEF DestroyOldTable, CalmLoader, Retires, JumpInv, PatchTypes, OpTypes, patchVars, At, Goto, Idle, Torn, Whole
<1>19. ASSUME NEW c \in Calls, NEW f \in Filters, HpRemoveSystemCallFilter(c, f) PROVE CalmLoader'
  BY <1>19, <1>0 DEF HpRemoveSystemCallFilter, Registered, CalmLoader, Retires, JumpInv, PatchTypes, OpTypes, patchVars, At, Goto, Idle, Torn, Whole
<1>20. ASSUME RemoveBit PROVE CalmLoader'
  BY <1>20, <1>0 DEF RemoveBit, CalmLoader, Retires, JumpInv, PatchTypes, OpTypes, patchVars, At, Goto, Idle, Torn, Whole
<1>21. ASSUME RemoveFlag PROVE CalmLoader'
  BY <1>21, <1>0 DEF RemoveFlag, CalmLoader, Retires, JumpInv, PatchTypes, OpTypes, patchVars, At, Goto, Idle, Torn, Whole
<1>22. ASSUME ExitProcess PROVE CalmLoader'
  BY <1>22, <1>0 DEF ExitProcess, CalmLoader, Retires, JumpInv, PatchTypes, OpTypes, patchVars, At, Goto, Idle, Torn, Whole
<1>23. ASSUME DropReference PROVE CalmLoader'
  BY <1>23, <1>0 DEF DropReference, CalmLoader, Retires, JumpInv, PatchTypes, OpTypes, patchVars, At, Goto, Idle, Torn, Whole
<1>24. ASSUME UnInstallHookPort PROVE CalmLoader'
  BY <1>24, <1>0 DEF UnInstallHookPort, CalmLoader, Retires, JumpInv, PatchTypes, OpTypes, patchVars, At, Goto, Idle, Torn, Whole
<1>25. ASSUME NEW c \in Calls, RestorePatch(c) PROVE CalmLoader'
  BY <1>25, <1>0 DEF RestorePatch, StubFreed, CalmLoader, Retires, JumpInv, PatchTypes, OpTypes, patchVars, At, Goto, Idle, Torn, Whole
<1>26. ASSUME FreePatches PROVE CalmLoader'
  BY <1>26, <1>0 DEF FreePatches, CalmLoader, Retires, JumpInv, PatchTypes, OpTypes, patchVars, At, Goto, Idle, Torn, Whole
<1>27. ASSUME ForgetPatches PROVE CalmLoader'
  BY <1>27, <1>0 DEF ForgetPatches, CalmLoader, Retires, JumpInv, PatchTypes, OpTypes, patchVars, At, Goto, Idle, Torn, Whole
<1>28. ASSUME FreeCallbacks PROVE CalmLoader'
  BY <1>28, <1>0 DEF FreeCallbacks, CalmLoader, Retires, JumpInv, PatchTypes, OpTypes, patchVars, At, Goto, Idle, Torn, Whole
<1>29. ASSUME NEW t \in Threads, Dispatch(t) \/ \E c \in Calls : EnterWrapper(t, c) PROVE CalmLoader'
  BY <1>29, <1>u DEF portVars, patchVars, envVars, Dispatch, EnterWrapper, FindHashTableEntry, LookupSyscallOriginal, SnapshotFilters, ScanFilter, RereadsBadCallback, InvokeContinues, InvokeBlocks, InvokeCallsOriginal, CallOriginal, ReturnFromCall
<1> QED
  BY <1>1, <1>2, <1>3, <1>4, <1>5, <1>6, <1>7, <1>8, <1>9, <1>10, <1>11, <1>12, <1>13, <1>14, <1>15, <1>16, <1>17, <1>18, <1>19, <1>20, <1>21, <1>22, <1>23, <1>24, <1>25, <1>26, <1>27, <1>28, <1>29
  DEF Next, Register, Gui32, Unregister, Teardown

LEMMA CalmThreadStep ==
  ASSUME TypeOK, JumpInv, UnseenInv, CalmLoader, NEW t \in Threads, CalmThread(t), Next, ~Retires
  PROVE  CalmThread(t)'
<1>0. PortTypes /\ PatchTypes /\ OpTypes /\ ThreadTypes
  BY DEF TypeOK
<1>u. UNCHANGED << pc, call, held, orig, cur, refCount, table, slot >> => CalmThread(t)'
  BY DEF CalmThread
<1>1. ASSUME InstallHookPort PROVE CalmThread(t)'
  BY <1>1, <1>0, <1>u DEF InstallHookPort, CalmThread, CalmLoader, Retires, InUse, JumpInv, JumpHasOriginal, UnseenInv, portVars, patchVars, envVars, threadVars, PortTypes, PatchTypes, OpTypes, ThreadTypes, Running, Faults, At, Whole, Torn
<1>2. ASSUME NEW c \in Calls, NEW f \in Filters, HpAddSystemCallFilter(c, f) PROVE CalmThread(t)'
  <2>1. CASE bitmap[c] = Slots
    BY <1>2, <1>u, <2>1 DEF HpAddSystemCallFilter, patchVars, threadVars
  <2>2. CASE bitmap[c] # Slots
    <3>1. LowestFree(c) \in Slots
      BY <2>2, LowestFreeIsFree
    <3>2. slot' = [slot EXCEPT ![c][LowestFree(c)] = f] /\ UNCHANGED << refCount, table, patchVars, threadVars >>
      BY <1>2, <2>2 DEF HpAddSystemCallFilter
    <3>3. \A d \in Calls, r \in Slots : slot[d][r] # None => slot'[d][r] # None
      BY <3>1, <3>2, <1>0, FilterAssumption DEF PortTypes
    <3> QED BY <3>2, <3>3, <1>0 DEF CalmThread, ThreadTypes, threadVars, Running
  <2> QED BY <2>1, <2>2
<1>3. ASSUME SetEnableFlag PROVE CalmThread(t)'
  BY <1>3, <1>0, <1>u DEF SetEnableFlag, CalmThread, CalmLoader, Retires, InUse, JumpInv, JumpHasOriginal, UnseenInv, portVars, patchVars, envVars, threadVars, PortTypes, PatchTypes, OpTypes, ThreadTypes, Running, Faults, At, Whole, Torn
<1>4. ASSUME SetFilterBit PROVE CalmThread(t)'
  BY <1>4, <1>0, <1>u DEF SetFilterBit, CalmThread, CalmLoader, Retires, InUse, JumpInv, JumpHasOriginal, UnseenInv, portVars, patchVars, envVars, threadVars, PortTypes, PatchTypes, OpTypes, ThreadTypes, Running, Faults, At, Whole, Torn
<1>5. ASSUME AlreadyPatched PROVE CalmThread(t)'
  BY <1>5, <1>0, <1>u DEF AlreadyPatched, CalmThread, CalmLoader, Retires, InUse, JumpInv, JumpHasOriginal, UnseenInv, portVars, patchVars, envVars, threadVars, PortTypes, PatchTypes, OpTypes, ThreadTypes, Running, Faults, At, Whole, Torn
<1>6. ASSUME PatchFails PROVE CalmThread(t)'
  BY <1>6, <1>0, <1>u DEF PatchFails, CalmThread, CalmLoader, Retires, InUse, JumpInv, JumpHasOriginal, UnseenInv, portVars, patchVars, envVars, threadVars, PortTypes, PatchTypes, OpTypes, ThreadTypes, Running, Faults, At, Whole, Torn
<1>7. ASSUME AddPatch PROVE CalmThread(t)'
  BY <1>7, <1>0, <1>u DEF AddPatch, Full, CalmThread, CalmLoader, Retires, InUse, JumpInv, JumpHasOriginal, UnseenInv, portVars, patchVars, envVars, threadVars, PortTypes, PatchTypes, OpTypes, ThreadTypes, Running, Faults, At, Whole, Torn
<1>8. ASSUME FreeFullArray PROVE CalmThread(t)'
  BY <1>8, <1>0, <1>u DEF FreeFullArray, Full, CalmThread, CalmLoader, Retires, InUse, JumpInv, JumpHasOriginal, UnseenInv, portVars, patchVars, envVars, threadVars, PortTypes, PatchTypes, OpTypes, ThreadTypes, Running, Faults, At, Whole, Torn
<1>9. ASSUME PublishGrownArray PROVE CalmThread(t)'
  BY <1>9, <1>0, <1>u DEF PublishGrownArray, CalmThread, CalmLoader, Retires, InUse, JumpInv, JumpHasOriginal, UnseenInv, portVars, patchVars, envVars, threadVars, PortTypes, PatchTypes, OpTypes, ThreadTypes, Running, Faults, At, Whole, Torn
<1>10. ASSUME WriteSystemCallJump PROVE CalmThread(t)'
  BY <1>10, <1>0, <1>u DEF WriteSystemCallJump, CalmThread, CalmLoader, Retires, InUse, JumpInv, JumpHasOriginal, UnseenInv, portVars, patchVars, envVars, threadVars, PortTypes, PatchTypes, OpTypes, ThreadTypes, Running, Faults, At, Whole, Torn
<1>11. ASSUME JumpFails PROVE CalmThread(t)'
  BY <1>11, <1>0, <1>u DEF JumpFails, StubFreed, CalmThread, CalmLoader, Retires, InUse, JumpInv, JumpHasOriginal, UnseenInv, portVars, patchVars, envVars, threadVars, PortTypes, PatchTypes, OpTypes, ThreadTypes, Running, Faults, At, Whole, Torn
<1>12. ASSUME ClearFilterBit PROVE CalmThread(t)'
  BY <1>12, <1>0, <1>u DEF ClearFilterBit, CalmThread, CalmLoader, Retires, InUse, JumpInv, JumpHasOriginal, UnseenInv, portVars, patchVars, envVars, threadVars, PortTypes, PatchTypes, OpTypes, ThreadTypes, Running, Faults, At, Whole, Torn
<1>13. ASSUME ClearSlot PROVE CalmThread(t)'
  BY <1>13, <1>0, <1>u DEF ClearSlot, CalmThread, CalmLoader, Retires, InUse, JumpInv, JumpHasOriginal, UnseenInv, portVars, patchVars, envVars, threadVars, PortTypes, PatchTypes, OpTypes, ThreadTypes, Running, Faults, At, Whole, Torn
<1>14. ASSUME GuiMapped PROVE CalmThread(t)'
  BY <1>14, <1>0, <1>u DEF GuiMapped, CalmThread, CalmLoader, Retires, InUse, JumpInv, JumpHasOriginal, UnseenInv, portVars, patchVars, envVars, threadVars, PortTypes, PatchTypes, OpTypes, ThreadTypes, Running, Faults, At, Whole, Torn
<1>15. ASSUME GuiLeaving PROVE CalmThread(t)'
  BY <1>15, <1>0, <1>u DEF GuiLeaving, CalmThread, CalmLoader, Retires, InUse, JumpInv, JumpHasOriginal, UnseenInv, portVars, patchVars, envVars, threadVars, PortTypes, PatchTypes, OpTypes, ThreadTypes, Running, Faults, At, Whole, Torn
<1>16. ASSUME GuiUnmapped PROVE CalmThread(t)'
  BY <1>16, <1>0, <1>u DEF GuiUnmapped, CalmThread, CalmLoader, Retires, InUse, JumpInv, JumpHasOriginal, UnseenInv, portVars, patchVars, envVars, threadVars, PortTypes, PatchTypes, OpTypes, ThreadTypes, Running, Faults, At, Whole, Torn
<1>17. ASSUME NEW batch \in SUBSET Gui, HpAddSystemCall(batch) PROVE CalmThread(t)'
  BY <1>17, <1>0, <1>u DEF HpAddSystemCall, Searching, CalmThread, CalmLoader, Retires, InUse, JumpInv, JumpHasOriginal, UnseenInv, portVars, patchVars, envVars, threadVars, PortTypes, PatchTypes, OpTypes, ThreadTypes, Running, Faults, At, Whole, Torn
<1>18. ASSUME DestroyOldTable PROVE CalmThread(t)'
  BY <1>18, <1>0, <1>u DEF DestroyOldTable, CalmThread, CalmLoader, Retires, InUse, JumpInv, JumpHasOriginal, UnseenInv, portVars, patchVars, envVars, threadVars, PortTypes, PatchTypes, OpTypes, ThreadTypes, Running, Faults, At, Whole, Torn
<1>19. ASSUME NEW c \in Calls, NEW f \in Filters, HpRemoveSystemCallFilter(c, f) PROVE CalmThread(t)'
  BY <1>19, <1>0, <1>u DEF HpRemoveSystemCallFilter, Registered, CalmThread, CalmLoader, Retires, InUse, JumpInv, JumpHasOriginal, UnseenInv, portVars, patchVars, envVars, threadVars, PortTypes, PatchTypes, OpTypes, ThreadTypes, Running, Faults, At, Whole, Torn
<1>20. ASSUME RemoveBit PROVE CalmThread(t)'
  BY <1>20, <1>0, <1>u DEF RemoveBit, CalmThread, CalmLoader, Retires, InUse, JumpInv, JumpHasOriginal, UnseenInv, portVars, patchVars, envVars, threadVars, PortTypes, PatchTypes, OpTypes, ThreadTypes, Running, Faults, At, Whole, Torn
<1>21. ASSUME RemoveFlag PROVE CalmThread(t)'
  BY <1>21, <1>0, <1>u DEF RemoveFlag, CalmThread, CalmLoader, Retires, InUse, JumpInv, JumpHasOriginal, UnseenInv, portVars, patchVars, envVars, threadVars, PortTypes, PatchTypes, OpTypes, ThreadTypes, Running, Faults, At, Whole, Torn
<1>22. ASSUME ExitProcess PROVE CalmThread(t)'
  BY <1>22, <1>0, <1>u DEF ExitProcess, CalmThread, CalmLoader, Retires, InUse, JumpInv, JumpHasOriginal, UnseenInv, portVars, patchVars, envVars, threadVars, PortTypes, PatchTypes, OpTypes, ThreadTypes, Running, Faults, At, Whole, Torn
<1>23. ASSUME DropReference PROVE CalmThread(t)'
  BY <1>23, <1>0, <1>u DEF DropReference, CalmThread, CalmLoader, Retires, InUse, JumpInv, JumpHasOriginal, UnseenInv, portVars, patchVars, envVars, threadVars, PortTypes, PatchTypes, OpTypes, ThreadTypes, Running, Faults, At, Whole, Torn
<1>24. ASSUME UnInstallHookPort PROVE CalmThread(t)'
  BY <1>24, <1>0, <1>u DEF UnInstallHookPort, CalmThread, CalmLoader, Retires, InUse, JumpInv, JumpHasOriginal, UnseenInv, portVars, patchVars, envVars, threadVars, PortTypes, PatchTypes, OpTypes, ThreadTypes, Running, Faults, At, Whole, Torn
<1>25. ASSUME NEW c \in Calls, RestorePatch(c) PROVE CalmThread(t)'
  BY <1>25 DEF RestorePatch, CalmLoader, Torn, At
<1>26. ASSUME FreePatches PROVE CalmThread(t)'
  BY <1>26 DEF FreePatches, CalmLoader, Torn, At
<1>27. ASSUME ForgetPatches PROVE CalmThread(t)'
  BY <1>27 DEF ForgetPatches, CalmLoader, Torn, At
<1>28. ASSUME FreeCallbacks PROVE CalmThread(t)'
  BY <1>28 DEF FreeCallbacks, CalmLoader, Torn, At
<1>29. ASSUME NEW u \in Threads, NEW c \in Calls, EnterWrapper(u, c) PROVE CalmThread(t)'
  <2>1. CASE u # t
    BY <1>29, <1>0, <2>1 DEF EnterWrapper, CalmThread, ThreadTypes, portVars, patchVars, envVars, Step
  <2>2. CASE u = t
    BY <1>29, <1>0, <2>2 DEF EnterWrapper, Step, CalmThread, CalmLoader, Retires, InUse, JumpInv, JumpHasOriginal, UnseenInv, portVars, patchVars, envVars, threadVars, PortTypes, PatchTypes, OpTypes, ThreadTypes, Running, Faults, At, Whole, Torn
  <2> QED BY <2>1, <2>2
<1>30. ASSUME NEW u \in Threads, FindHashTableEntry(u) PROVE CalmThread(t)'
  <2>1. CASE u # t
    BY <1>30, <1>0, <2>1 DEF FindHashTableEntry, CalmThread, ThreadTypes, portVars, patchVars, envVars, Step
  <2>2. CASE u = t
    BY <1>30, <1>0, <2>2 DEF FindHashTableEntry, Step, CalmThread, CalmLoader, Retires, InUse, JumpInv, JumpHasOriginal, UnseenInv, portVars, patchVars, envVars, threadVars, PortTypes, PatchTypes, OpTypes, ThreadTypes, Running, Faults, At, Whole, Torn
  <2> QED BY <2>1, <2>2
<1>31. ASSUME NEW u \in Threads, LookupSyscallOriginal(u) PROVE CalmThread(t)'
  <2>1. CASE u # t
    BY <1>31, <1>0, <2>1 DEF LookupSyscallOriginal, CalmThread, ThreadTypes, portVars, patchVars, envVars, Original, Step
  <2>2. CASE u = t
    BY <1>31, <1>0, <2>2 DEF LookupSyscallOriginal, Original, Step, CalmThread, CalmLoader, Retires, InUse, JumpInv, JumpHasOriginal, UnseenInv, portVars, patchVars, envVars, threadVars, PortTypes, PatchTypes, OpTypes, ThreadTypes, Running, Faults, At, Whole, Torn
  <2> QED BY <2>1, <2>2
<1>32. ASSUME NEW u \in Threads, SnapshotFilters(u) PROVE CalmThread(t)'
  <2>1. CASE u # t
    BY <1>32, <1>0, <2>1 DEF SnapshotFilters, CalmThread, ThreadTypes, portVars, patchVars, envVars, Step
  <2>2. CASE u = t
    BY <1>32, <1>0, <2>2 DEF SnapshotFilters, Step, CalmThread, CalmLoader, Retires, InUse, JumpInv, JumpHasOriginal, UnseenInv, portVars, patchVars, envVars, threadVars, PortTypes, PatchTypes, OpTypes, ThreadTypes, Running, Faults, At, Whole, Torn
  <2> QED BY <2>1, <2>2
<1>33. ASSUME NEW u \in Threads, ScanFilter(u) PROVE CalmThread(t)'
  <2>1. CASE u # t
    BY <1>33, <1>0, <2>1 DEF ScanFilter, CalmThread, ThreadTypes, portVars, patchVars, envVars, Step
  <2>2. CASE u = t
    BY <1>33, <1>0, <2>2, LowestBitIsSet DEF ScanFilter, Step, CalmThread, CalmLoader, Retires, InUse, JumpInv, JumpHasOriginal, UnseenInv, portVars, patchVars, envVars, threadVars, PortTypes, PatchTypes, OpTypes, ThreadTypes, Running, Faults, At, Whole, Torn
  <2> QED BY <2>1, <2>2
<1>34. ASSUME NEW u \in Threads, RereadsBadCallback(u) PROVE CalmThread(t)'
  <2>1. CASE u # t
    BY <1>34, <1>0, <2>1 DEF RereadsBadCallback, CalmThread, ThreadTypes, portVars, patchVars, envVars, Step
  <2>2. CASE u = t
    BY <1>34, <1>0, <2>2 DEF RereadsBadCallback, Step, CalmThread, CalmLoader, Retires, InUse, JumpInv, JumpHasOriginal, UnseenInv, portVars, patchVars, envVars, threadVars, PortTypes, PatchTypes, OpTypes, ThreadTypes, Running, Faults, At, Whole, Torn
  <2> QED BY <2>1, <2>2
<1>35. ASSUME NEW u \in Threads, InvokeContinues(u) PROVE CalmThread(t)'
  <2>1. CASE u # t
    BY <1>35, <1>0, <2>1 DEF InvokeContinues, CalmThread, ThreadTypes, portVars, patchVars, envVars, Step
  <2>2. CASE u = t
    BY <1>35, <1>0, <2>2 DEF InvokeContinues, Step, CalmThread, CalmLoader, Retires, InUse, JumpInv, JumpHasOriginal, UnseenInv, portVars, patchVars, envVars, threadVars, PortTypes, PatchTypes, OpTypes, ThreadTypes, Running, Faults, At, Whole, Torn
  <2> QED BY <2>1, <2>2
<1>36. ASSUME NEW u \in Threads, InvokeBlocks(u) PROVE CalmThread(t)'
  <2>1. CASE u # t
    BY <1>36, <1>0, <2>1 DEF InvokeBlocks, CalmThread, ThreadTypes, portVars, patchVars, envVars, Leave, Step
  <2>2. CASE u = t
    BY <1>36, <1>0, <2>2 DEF InvokeBlocks, Leave, Step, CalmThread, CalmLoader, Retires, InUse, JumpInv, JumpHasOriginal, UnseenInv, portVars, patchVars, envVars, threadVars, PortTypes, PatchTypes, OpTypes, ThreadTypes, Running, Faults, At, Whole, Torn
  <2> QED BY <2>1, <2>2
<1>37. ASSUME NEW u \in Threads, InvokeCallsOriginal(u) PROVE CalmThread(t)'
  <2>1. CASE u # t
    BY <1>37, <1>0, <2>1 DEF InvokeCallsOriginal, CalmThread, ThreadTypes, portVars, patchVars, envVars, Original, Step
  <2>2. CASE u = t
    BY <1>37, <1>0, <2>2 DEF InvokeCallsOriginal, Original, Step, CalmThread, CalmLoader, Retires, InUse, JumpInv, JumpHasOriginal, UnseenInv, portVars, patchVars, envVars, threadVars, PortTypes, PatchTypes, OpTypes, ThreadTypes, Running, Faults, At, Whole, Torn
  <2> QED BY <2>1, <2>2
<1>38. ASSUME NEW u \in Threads, CallOriginal(u) PROVE CalmThread(t)'
  <2>1. CASE u # t
    BY <1>38, <1>0, <2>1 DEF CallOriginal, CalmThread, ThreadTypes, portVars, patchVars, envVars, Step
  <2>2. CASE u = t
    BY <1>38, <1>0, <2>2 DEF CallOriginal, Step, CalmThread, CalmLoader, Retires, InUse, JumpInv, JumpHasOriginal, UnseenInv, portVars, patchVars, envVars, threadVars, PortTypes, PatchTypes, OpTypes, ThreadTypes, Running, Faults, At, Whole, Torn
  <2> QED BY <2>1, <2>2
<1>39. ASSUME NEW u \in Threads, ReturnFromCall(u) PROVE CalmThread(t)'
  <2>1. CASE u # t
    BY <1>39, <1>0, <2>1 DEF ReturnFromCall, CalmThread, ThreadTypes, portVars, patchVars, envVars, Leave, Step
  <2>2. CASE u = t
    BY <1>39, <1>0, <2>2 DEF ReturnFromCall, Leave, Step, CalmThread, CalmLoader, Retires, InUse, JumpInv, JumpHasOriginal, UnseenInv, portVars, patchVars, envVars, threadVars, PortTypes, PatchTypes, OpTypes, ThreadTypes, Running, Faults, At, Whole, Torn
  <2> QED BY <2>1, <2>2
<1> QED
  BY <1>1, <1>2, <1>3, <1>4, <1>5, <1>6, <1>7, <1>8, <1>9, <1>10, <1>11, <1>12, <1>13, <1>14, <1>15, <1>16, <1>17, <1>18, <1>19, <1>20, <1>21, <1>22, <1>23, <1>24, <1>25, <1>26, <1>27, <1>28, <1>29, <1>30, <1>31, <1>32, <1>33, <1>34, <1>35, <1>36, <1>37, <1>38, <1>39
  DEF Next, Register, Gui32, Unregister, Teardown, Dispatch

(* No wrapper uses a null or freed pointer until memory it may be reading   *)
(* is taken away (DispatchTypedFilter, LookupSyscallOriginal, HpNt...).     *)
THEOREM NoFaultUntilRetired == MCSpec => []NoFaultYet
<1>1. CalmInv => NoFaultYet
  BY DEF CalmInv, CalmThread, NoFaultYet, NoFault
<1>2. MCInit => Init
  BY DEF MCInit
<1>3. [MCNext]_<<vars, retired>> => [Next]_vars
  BY DEF MCNext
<1>4. ASSUME TypeOK, JumpInv, UnseenInv, CalmInv, [MCNext]_<<vars, retired>> PROVE CalmInv'
  <2>1. CASE UNCHANGED <<vars, retired>>
    BY <1>4, <2>1 DEF CalmInv, CalmLoader, CalmThread, vars, portVars, patchVars, envVars, threadVars
  <2>2. CASE MCNext
    <3> SUFFICES ASSUME ~retired' PROVE CalmLoader' /\ \A t \in Threads : CalmThread(t)'
      BY DEF CalmInv
    <3>1. ~retired /\ ~Retires /\ Next
      BY <2>2 DEF MCNext
    <3>2. CalmLoader /\ \A t \in Threads : CalmThread(t)
      BY <1>4, <3>1 DEF CalmInv
    <3>3. CalmLoader'
      BY <1>4, <3>1, <3>2, CalmLoaderStep
    <3>4. ASSUME NEW t \in Threads PROVE CalmThread(t)'
      BY <1>4, <3>1, <3>2, CalmThreadStep
    <3> QED BY <3>3, <3>4
  <2> QED BY <1>4, <2>1, <2>2
<1>5. TypeOK /\ JumpInv /\ UnseenInv /\ CalmInv /\ [MCNext]_<<vars, retired>> => CalmInv'
  BY <1>4
<1> QED BY <1>1, <1>2, <1>3, <1>5, TypeInit, TypeStep, JumpInit, JumpStep, UnseenInit, UnseenStep, CalmInit, PTL DEF MCSpec
=============================================================================
