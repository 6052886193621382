--------------------------- MODULE ProcessProofs ----------------------------
(* Theorems about the parts MCProcess puts together: the virtual keys for any *)
(* number of threads, handles and slots, the start of the core and its        *)
(* payload for any number of calls, and the redirected registry for buffers   *)
(* of any length.                                                             *)
EXTENDS MCProcess, WellFoundedInduction, TLAPS

USE SlotAssumption, NoneAssumption

-----------------------------------------------------------------------------
(* The invariant: the initial states and each step of a thread. *)

LEMMA InitEstablishesIInv == Init => IInv
<1> SUFFICES ASSUME Init PROVE IInv
  OBVIOUS
<1>1. TypeOK BY DEF Init, TypeOK, Steps, Slots
<1>2. CallsInv BY DEF Init, CallsInv
<1>3. SlotsAreOpen BY DEF Init, SlotsAreOpen
<1> QED BY <1>1, <1>2, <1>3 DEF IInv

(* A call that begins with a handle that is open and free, or just opened.   *)
LEMMA BeginKeepsIInv ==
  ASSUME IInv, NEW t \in Threads, NEW h \in Handles, NEW step \in Steps \ {"idle"},
         Begin(t, h, step), UNCHANGED slot,
         \/ Usable(h) /\ UNCHANGED open /\ step \in {"removing", "naming", "parent"}
         \/ open[h] = None /\ open' = [open EXCEPT ![h] = Languages] /\ step = "adding"
  PROVE  IInv'
<1> USE DEF IInv, Begin, Keys
<1>1. TypeOK' BY DEF TypeOK, Slots
<1>2. \A u \in Threads : pc[u] # "idle" => handle[u] # h
  BY DEF CallsInv, Usable, Busy
<1>3. open'[h] # None /\ \A g \in Handles : g # h => open'[g] = open[g]
  BY DEF Usable, TypeOK, Languages
<1>4. pc'[t] = step /\ handle'[t] = h /\ cursor'[t] = 1
      /\ \A u \in Threads : u # t => pc'[u] = pc[u] /\ handle'[u] = handle[u] /\ cursor'[u] = cursor[u]
  BY DEF TypeOK
<1>5. CallsInv'
  <2>1. \A u \in Threads : pc'[u] # "idle" => handle'[u] \in Handles /\ open'[handle'[u]] # None
    BY <1>2, <1>3, <1>4 DEF CallsInv
  <2>2. \A u, v \in Threads : pc'[u] # "idle" /\ pc'[v] # "idle" /\ handle'[u] = handle'[v] => u = v
    BY <1>2, <1>4 DEF CallsInv
  <2>3. \A u \in Threads : pc'[u] = "adding" => open'[handle'[u]] = Languages
    BY <1>2, <1>3, <1>4 DEF CallsInv, TypeOK
  <2>4. \A u \in Threads : pc'[u] \in {"removing", "undoing", "naming"} =>
           \A i \in Slots : i < cursor'[u] => slot'[i] # handle'[u]
    BY <1>4 DEF CallsInv, Slots
  <2>5. \A u \in Threads : pc'[u] # "answered" => answer'[u] = None
    BY <1>4 DEF CallsInv, Steps
  <2> QED BY <2>1, <2>2, <2>3, <2>4, <2>5 DEF CallsInv
<1>6. SlotsAreOpen'
  <2>1. \A i \in Slots : slot'[i] \notin stray' \cup {None} => open'[slot'[i]] = Languages
    BY DEF SlotsAreOpen, TypeOK
  <2>2. step = "adding" /\ h \notin stray => \A i \in Slots : slot[i] # h
    BY DEF SlotsAreOpen, Usable, Languages
  <2>3. \A u \in Threads : pc'[u] \in {"adding", "undoing", "closing"} /\ handle'[u] \notin stray' =>
           \A i \in Slots : slot'[i] # handle'[u]
    BY <1>4, <2>2 DEF SlotsAreOpen
  <2> QED BY <2>1, <2>3 DEF SlotsAreOpen
<1> QED BY <1>1, <1>5, <1>6

(* A call that goes on with its handle, or returns; neither table changes.   *)
LEMMA GoingOnKeepsIInv ==
  ASSUME IInv, NEW t \in Threads, pc[t] # "idle", UNCHANGED <<open, slot, stray>>,
         \/ Return(t)
         \/ /\ Advance(t) /\ cursor[t] <= SlotCount
            /\ slot[cursor[t]] # handle[t] \/ pc[t] \in {"adding", "parent"}
         \/ Goto(t, "undoing") /\ pc[t] = "adding"
         \/ Goto(t, "closing") /\ pc[t] \in {"removing", "undoing"} /\ cursor[t] > SlotCount
         \/ \E k \in Keys : Reply(t, k)
  PROVE  IInv'
<1> USE DEF IInv
<1>1. TypeOK'
  <2>1. CASE Return(t) BY <2>1 DEF TypeOK, Steps, Return
  <2>2. CASE Advance(t) /\ cursor[t] <= SlotCount BY <2>2 DEF TypeOK, Advance
  <2>3. CASE Goto(t, "undoing") \/ Goto(t, "closing") BY <2>3 DEF TypeOK, Steps, Goto
  <2>4. CASE \E k \in Keys : Reply(t, k) BY <2>1, <2>4 DEF TypeOK, Steps, Reply, Return
  <2> QED BY <2>1, <2>2, <2>3, <2>4
<1>2. \A u \in Threads : u # t => /\ pc'[u] = pc[u] /\ handle'[u] = handle[u]
                                  /\ cursor'[u] = cursor[u] /\ answer'[u] = answer[u]
  BY DEF TypeOK, Return, Advance, Goto, Reply
<1>3. \/ pc'[t] = "idle" /\ answer'[t] = None
      \/ /\ handle'[t] = handle[t]
         /\ \/ pc'[t] = pc[t] /\ cursor'[t] = cursor[t] + 1 /\ answer'[t] = answer[t]
               /\ (slot[cursor[t]] # handle[t] \/ pc[t] \in {"adding", "parent"})
            \/ pc'[t] = "undoing" /\ cursor'[t] = 1 /\ answer'[t] = answer[t] /\ pc[t] = "adding"
            \/ pc'[t] = "closing" /\ cursor'[t] = 1 /\ answer'[t] = answer[t]
               /\ pc[t] \in {"removing", "undoing"} /\ cursor[t] > SlotCount
            \/ pc'[t] = "answered"
  BY DEF TypeOK, Return, Advance, Goto, Reply
<1>4. cursor[t] \in 1 .. SlotCount + 1 /\ \A i \in Slots : i \in Nat /\ 1 <= i /\ i <= SlotCount
  BY DEF TypeOK, Slots
<1>5. CallsInv'
  <2>1. \A u \in Threads : pc'[u] # "idle" => handle'[u] \in Handles /\ open'[handle'[u]] # None
    BY <1>2, <1>3 DEF CallsInv
  <2>2. \A u, v \in Threads : pc'[u] # "idle" /\ pc'[v] # "idle" /\ handle'[u] = handle'[v] => u = v
    BY <1>2, <1>3 DEF CallsInv
  <2>3. \A u \in Threads : pc'[u] = "adding" => open'[handle'[u]] = Languages
    BY <1>2, <1>3 DEF CallsInv
  <2>4. \A u \in Threads : pc'[u] \in {"removing", "undoing", "naming"} =>
           \A i \in Slots : i < cursor'[u] => slot'[i] # handle'[u]
    <3>1. ASSUME pc'[t] \in {"removing", "undoing", "naming"}, NEW i \in Slots, i < cursor'[t]
          PROVE  slot'[i] # handle'[t]
      BY <1>3, <1>4, <3>1 DEF CallsInv
    <3> QED BY <1>2, <3>1 DEF CallsInv
  <2>5. \A u \in Threads : pc'[u] # "answered" => answer'[u] = None
    BY <1>2, <1>3 DEF CallsInv
  <2> QED BY <2>1, <2>2, <2>3, <2>4, <2>5 DEF CallsInv
<1>6. SlotsAreOpen'
  <2>1. pc[t] \in {"removing", "undoing"} /\ cursor[t] > SlotCount =>
           \A i \in Slots : slot[i] # handle[t]
    BY <1>4 DEF CallsInv
  <2>2. \A u \in Threads : pc'[u] \in {"adding", "undoing", "closing"} /\ handle'[u] \notin stray' =>
           \A i \in Slots : slot'[i] # handle'[u]
    BY <1>2, <1>3, <2>1 DEF SlotsAreOpen
  <2> QED BY <2>2 DEF SlotsAreOpen
<1> QED BY <1>1, <1>5, <1>6

(* The handle is noted in a free place.                                      *)
LEMMA NotingKeepsIInv ==
  ASSUME IInv, NEW t \in Threads, pc[t] = "adding", cursor[t] \in Slots, slot[cursor[t]] = None,
         slot' = [slot EXCEPT ![cursor[t]] = handle[t]], Return(t), UNCHANGED <<open, stray>>
  PROVE  IInv'
<1> USE DEF IInv, Return
<1>1. handle[t] \in Handles /\ open[handle[t]] = Languages BY DEF CallsInv
<1>2. TypeOK' BY <1>1 DEF TypeOK, Steps, Slots
<1>3. pc'[t] = "idle" /\ answer'[t] = None
      /\ \A u \in Threads : u # t => /\ pc'[u] = pc[u] /\ handle'[u] = handle[u]
                                     /\ cursor'[u] = cursor[u] /\ answer'[u] = answer[u]
  BY DEF TypeOK
<1>4. slot'[cursor[t]] = handle[t] /\ \A i \in Slots : i # cursor[t] => slot'[i] = slot[i]
  BY DEF TypeOK
<1>5. \A u \in Threads : u # t /\ pc[u] # "idle" => handle[u] # handle[t]
  BY DEF CallsInv
<1>6. CallsInv' BY <1>3, <1>4, <1>5 DEF CallsInv
<1>7. SlotsAreOpen'
  <2>1. handle[t] \notin stray => \A i \in Slots : slot[i] # handle[t]
    BY DEF SlotsAreOpen
  <2>2. \A i \in Slots : slot'[i] \notin stray' \cup {None} => open'[slot'[i]] = Languages
    BY <1>1, <1>4 DEF SlotsAreOpen
  <2>3. \A i, j \in Slots : slot'[i] \notin stray' \cup {None} /\ slot'[i] = slot'[j] => i = j
    BY <1>4, <2>1 DEF SlotsAreOpen
  <2>4. \A u \in Threads : pc'[u] \in {"adding", "undoing", "closing"} /\ handle'[u] \notin stray' =>
           \A i \in Slots : slot'[i] # handle'[u]
    BY <1>3, <1>4, <1>5 DEF SlotsAreOpen
  <2> QED BY <2>2, <2>3, <2>4 DEF SlotsAreOpen
<1> QED BY <1>2, <1>6, <1>7

(* The place of the handle is emptied.                                       *)
LEMMA ForgettingKeepsIInv ==
  ASSUME IInv, NEW t \in Threads, pc[t] \in {"removing", "undoing"}, cursor[t] \in Slots,
         slot[cursor[t]] = handle[t], slot' = [slot EXCEPT ![cursor[t]] = None],
         Goto(t, "closing"), UNCHANGED <<open, stray>>
  PROVE  IInv'
<1> USE DEF IInv, Goto
<1>1. TypeOK' BY DEF TypeOK, Steps, Slots
<1>2. pc'[t] = "closing" /\ \A u \in Threads : u # t => pc'[u] = pc[u] /\ cursor'[u] = cursor[u]
  BY DEF TypeOK
<1>3. slot'[cursor[t]] = None /\ \A i \in Slots : i # cursor[t] => slot'[i] = slot[i]
  BY DEF TypeOK
<1>4. \A u \in Threads : pc'[u] # "idle" => pc[u] # "idle" /\ handle[u] \in Handles /\ handle[u] # None
  BY <1>2, NoneAssumption DEF CallsInv
<1>5. CallsInv'
  <2>1. \A u \in Threads : pc'[u] # "idle" => handle'[u] \in Handles /\ open'[handle'[u]] # None
    BY <1>4 DEF CallsInv
  <2>2. \A u, v \in Threads : pc'[u] # "idle" /\ pc'[v] # "idle" /\ handle'[u] = handle'[v] => u = v
    BY <1>4 DEF CallsInv
  <2>3. \A u \in Threads : pc'[u] = "adding" => open'[handle'[u]] = Languages
    BY <1>2 DEF CallsInv
  <2>4. \A u \in Threads : pc'[u] \in {"removing", "undoing", "naming"} =>
           \A i \in Slots : i < cursor'[u] => slot'[i] # handle'[u]
    BY <1>2, <1>3, <1>4 DEF CallsInv
  <2>5. \A u \in Threads : pc'[u] # "answered" => answer'[u] = None
    BY <1>2 DEF CallsInv
  <2> QED BY <2>1, <2>2, <2>3, <2>4, <2>5 DEF CallsInv
<1>6. SlotsAreOpen'
  <2>1. handle[t] \notin stray => \A i \in Slots : i # cursor[t] => slot[i] # handle[t]
    BY <1>4, <1>2 DEF SlotsAreOpen
  <2>2. \A i \in Slots : slot'[i] \notin stray' \cup {None} => open'[slot'[i]] = Languages
    BY <1>3 DEF SlotsAreOpen
  <2>3. \A i, j \in Slots : slot'[i] \notin stray' \cup {None} /\ slot'[i] = slot'[j] => i = j
    BY <1>3 DEF SlotsAreOpen
  <2>4. \A u \in Threads : pc'[u] \in {"adding", "undoing", "closing"} /\ handle'[u] \notin stray' =>
           \A i \in Slots : slot'[i] # handle'[u]
    BY <1>2, <1>3, <1>4, <2>1 DEF SlotsAreOpen
  <2> QED BY <2>2, <2>3, <2>4 DEF SlotsAreOpen
<1> QED BY <1>1, <1>5, <1>6

(* The kernel closes the handle, or refuses to.                              *)
LEMMA ClosingKeepsIInv ==
  ASSUME IInv, NEW t \in Threads, pc[t] = "closing", Return(t), UNCHANGED slot,
         \/ open' = [open EXCEPT ![handle[t]] = None] /\ UNCHANGED stray
         \/ stray' = stray \cup {handle[t]} /\ UNCHANGED open
  PROVE  IInv'
<1> USE DEF IInv, Return
<1>1. handle[t] \in Handles BY DEF CallsInv
<1>2. TypeOK' BY <1>1 DEF TypeOK, Steps, Slots
<1>3. pc'[t] = "idle" /\ answer'[t] = None
      /\ \A u \in Threads : u # t => /\ pc'[u] = pc[u] /\ handle'[u] = handle[u]
                                     /\ cursor'[u] = cursor[u] /\ answer'[u] = answer[u]
  BY DEF TypeOK
<1>4. \A h \in Handles : h # handle[t] => open'[h] = open[h]
  BY DEF TypeOK
<1>5. \A u \in Threads : u # t /\ pc[u] # "idle" => handle[u] # handle[t]
  BY DEF CallsInv
<1>6. CallsInv' BY <1>3, <1>4, <1>5 DEF CallsInv
<1>7. SlotsAreOpen'
  <2>1. stray \subseteq stray' /\ \A i \in Slots : slot[i] \in Handles \cup {None}
    BY DEF TypeOK
  <2>2. \A i \in Slots : slot'[i] \notin stray' \cup {None} => slot[i] # handle[t] \/ UNCHANGED open
    BY <2>1 DEF SlotsAreOpen
  <2>3. \A i \in Slots : slot'[i] \notin stray' \cup {None} => open'[slot'[i]] = Languages
    BY <1>4, <2>1, <2>2 DEF SlotsAreOpen
  <2>4. \A i, j \in Slots : slot'[i] \notin stray' \cup {None} /\ slot'[i] = slot'[j] => i = j
    BY <2>1 DEF SlotsAreOpen
  <2>5. \A u \in Threads : pc'[u] \in {"adding", "undoing", "closing"} /\ handle'[u] \notin stray' =>
           \A i \in Slots : slot'[i] # handle'[u]
    BY <1>3, <2>1 DEF SlotsAreOpen
  <2> QED BY <2>3, <2>4, <2>5 DEF SlotsAreOpen
<1> QED BY <1>2, <1>6, <1>7

(* What needs no thread of the program in a call: another key is opened, or  *)
(* a handle closed past the filters.                                         *)
LEMMA OutsideKeepsIInv ==
  ASSUME IInv, NEW h \in Handles, UNCHANGED <<slot, pc, handle, cursor, answer>>,
         \/ /\ open[h] = None /\ UNCHANGED stray
            /\ \E k \in {Languages, Other} : open' = [open EXCEPT ![h] = k]
         \/ ClosedElsewhere(h)
  PROVE  IInv'
<1> USE DEF IInv
<1>1. TypeOK' BY DEF TypeOK, ClosedElsewhere
<1>2. \A u \in Threads : pc[u] # "idle" => handle[u] # h
  BY DEF CallsInv, ClosedElsewhere, Usable, Busy
<1>3. \A g \in Handles : g # h => open'[g] = open[g]
  BY DEF TypeOK, ClosedElsewhere
<1>4. CallsInv' BY <1>2, <1>3 DEF CallsInv
<1>5. SlotsAreOpen'
  <2>1. stray \subseteq stray' /\ \A i \in Slots : slot[i] \in Handles \cup {None}
    BY DEF TypeOK, ClosedElsewhere
  <2>2. \A i \in Slots : slot[i] = h => h \in stray'
    BY NoneAssumption DEF SlotsAreOpen, ClosedElsewhere, Keys, Languages
  <2> QED BY <1>3, <2>1, <2>2 DEF SlotsAreOpen
<1> QED BY <1>1, <1>4, <1>5

(* The virtual key is asked for below an open key, its parent.               *)
LEMMA BelowParentKeepsIInv ==
  ASSUME IInv, NEW t \in Threads, NEW h \in Handles, OpenBelowParent(t, h)
  PROVE  IInv'
<1> USE DEF IInv, OpenBelowParent
<1>1. TypeOK' BY DEF TypeOK, Steps, Slots
<1>2. \A u \in Threads : pc[u] # "idle" => handle[u] # h
  BY DEF CallsInv
<1>3. open'[h] = Languages /\ \A g \in Handles : g # h => open'[g] = open[g]
  BY DEF TypeOK
<1>4. pc'[t] = "adding" /\ handle'[t] = h /\ cursor'[t] = 1
      /\ \A u \in Threads : u # t => pc'[u] = pc[u] /\ handle'[u] = handle[u] /\ cursor'[u] = cursor[u]
  BY DEF TypeOK
<1>5. CallsInv'
  BY <1>2, <1>3, <1>4, NoneAssumption DEF CallsInv, Keys
<1>6. SlotsAreOpen'
  <2>1. \A i \in Slots : slot[i] = h => h \in stray
    BY NoneAssumption DEF SlotsAreOpen, Keys, Languages
  <2>2. \A i \in Slots : slot'[i] \notin stray' \cup {None} => open'[slot'[i]] = Languages
    BY <1>3, <2>1 DEF SlotsAreOpen, TypeOK
  <2>3. \A u \in Threads : pc'[u] \in {"adding", "undoing", "closing"} /\ handle'[u] \notin stray' =>
           \A i \in Slots : slot'[i] # handle'[u]
    BY <1>4, <2>1 DEF SlotsAreOpen
  <2> QED BY <2>2, <2>3 DEF SlotsAreOpen
<1> QED BY <1>1, <1>5, <1>6

-----------------------------------------------------------------------------
(* Every step, and the theorems that follow from the invariant.              *)

LEMMA NextKeepsIInv == IInv /\ [Next]_vars => IInv'
<1> SUFFICES ASSUME IInv, [Next]_vars PROVE IInv'
  OBVIOUS
<1>1. CASE UNCHANGED vars
  BY <1>1 DEF IInv, TypeOK, CallsInv, SlotsAreOpen, vars
<1>2. CASE \E t \in Threads : Call(t)
  <2> SUFFICES ASSUME NEW t \in Threads, Call(t) PROVE IInv'
    BY <1>2
  <2> PICK h \in Handles : \/ \E k \in Keys : OpenOther(t, k, h)
                          \/ LepNtOpenKey(t, h)
                          \/ LepNtClose(t, h)
                          \/ LepNtQueryKey(t, h)
                          \/ LepIsVirtualMuiOpenRequest(t, h)
    BY DEF Call
  <2>1. CASE \E k \in Keys : OpenOther(t, k, h)
    BY <2>1, OutsideKeepsIInv DEF OpenOther
  <2>2. CASE LepNtOpenKey(t, h)
    BY <2>2, BeginKeepsIInv DEF LepNtOpenKey, Steps
  <2>3. CASE LepNtClose(t, h) \/ LepNtQueryKey(t, h) \/ LepIsVirtualMuiOpenRequest(t, h)
    BY <2>3, BeginKeepsIInv DEF LepNtClose, LepNtQueryKey, LepIsVirtualMuiOpenRequest, Steps
  <2> QED BY <2>1, <2>2, <2>3
<1>3. CASE \E t \in Threads : Step(t)
  <2> SUFFICES ASSUME NEW t \in Threads, Step(t) PROVE IInv'
    BY <1>3
  <2>1. cursor[t] \in Slots \/ cursor[t] > SlotCount
    BY DEF IInv, TypeOK, Slots
  <2>2. CASE LepAddVirtualMuiKeyHandle(t)
    <3>1. cursor[t] \in Slots BY <2>1, <2>2 DEF LepAddVirtualMuiKeyHandle, IInv, TypeOK
    <3> QED BY <2>2, <3>1, NotingKeepsIInv, GoingOnKeepsIInv DEF LepAddVirtualMuiKeyHandle
  <2>3. CASE TableFull(t)
    BY <2>3, GoingOnKeepsIInv DEF TableFull
  <2>4. CASE LepRemoveVirtualMuiKeyHandle(t)
    <3>1. CASE cursor[t] > SlotCount
      BY <2>4, <3>1, GoingOnKeepsIInv DEF LepRemoveVirtualMuiKeyHandle
    <3>2. CASE ~(cursor[t] > SlotCount)
      BY <2>1, <2>4, <3>2, ForgettingKeepsIInv, GoingOnKeepsIInv
         DEF LepRemoveVirtualMuiKeyHandle, IInv, TypeOK
    <3> QED BY <3>1, <3>2
  <2>5. CASE KernelClose(t) \/ KernelRefuses(t)
    BY <2>5, ClosingKeepsIInv DEF KernelClose, KernelRefuses
  <2>6. CASE LepIsVirtualMuiKeyHandle(t)
    <3>1. open[handle[t]] \in Keys
      BY <2>6 DEF LepIsVirtualMuiKeyHandle, IInv, TypeOK, CallsInv, Keys
    <3> QED BY <2>1, <2>6, <3>1, GoingOnKeepsIInv
            DEF LepIsVirtualMuiKeyHandle, Keys, IInv, TypeOK
  <2>7. CASE QueryReturns(t)
    BY <2>7, GoingOnKeepsIInv DEF QueryReturns
  <2>8. CASE LepIsMuiLanguagesKeyHandle(t)
    BY <2>8, GoingOnKeepsIInv DEF LepIsMuiLanguagesKeyHandle
  <2>9. CASE \E h \in Handles : OpenBelowParent(t, h)
    BY <2>9, BelowParentKeepsIInv
  <2> QED BY <2>2, <2>3, <2>4, <2>5, <2>6, <2>7, <2>8, <2>9 DEF Step
<1>4. CASE \E h \in Handles : ClosedElsewhere(h)
  <2> PICK h \in Handles : ClosedElsewhere(h)
    BY <1>4
  <2> QED BY OutsideKeepsIInv DEF ClosedElsewhere
<1> QED BY <1>1, <1>2, <1>3, <1>4 DEF Next

\* The strengthened invariant holds in every reachable state.
THEOREM KeysInvariant == Spec => []IInv
<1>1. Init => IInv BY InitEstablishesIInv
<1>2. IInv /\ [Next]_vars => IInv' BY NextKeepsIInv
<1> QED BY <1>1, <1>2, PTL DEF Spec

\* No slot of VirtualMuiKeyHandles outlives its handle, for any number of threads,
\* handles and slots: a value the kernel gives again to another key is never taken
\* for the virtual key, unless it was closed past NtClose.
THEOREM SlotsStayOpen == Spec => []SlotsAreOpen
<1>1. IInv => SlotsAreOpen BY DEF IInv
<1> QED BY <1>1, KeysInvariant, PTL

-----------------------------------------------------------------------------
(* The table implements RegistryView.                                        *)

LEMMA InitIsViewInit == Init => RV!Init
BY DEF Init, RV!Init, View

\* A step of one thread with one handle concerns no other handle.
LEMMA OthersSame ==
  ASSUME NEW t \in Threads, NEW h \in Handles, NEW g \in Handles, g # h,
         \A u \in Threads : u # t => pc'[u] = pc[u] /\ handle'[u] = handle[u],
         pc[t] \in {"adding", "undoing", "removing", "closing"} => handle[t] = h,
         pc'[t] \in {"adding", "undoing", "removing", "closing"} => handle'[t] = h
  PROVE  Using(g)' <=> Using(g)
BY DEF Using

\* The handle of a call is used by that call alone.
LEMMA OwnHandle ==
  ASSUME IInv, NEW t \in Threads, pc[t] # "idle"
  PROVE  /\ handle[t] \in Handles /\ open[handle[t]] # None
         /\ Using(handle[t]) <=> pc[t] \in {"adding", "undoing", "removing", "closing"}
BY DEF IInv, CallsInv, Using

\* What the program sees of a handle.
LEMMA ViewAt ==
  ASSUME NEW h \in Handles
  PROVE  View[h] = IF h \in stray \/ open[h] = None \/ Using(h) THEN None
                   ELSE IF \E i \in Slots : slot[i] = h THEN Virtual ELSE open[h]
BY DEF View

LEMMA ViewAtPrime ==
  ASSUME NEW h \in Handles
  PROVE  View'[h] = IF h \in stray' \/ open'[h] = None \/ Using(h)' THEN None
                    ELSE IF \E i \in Slots : slot'[i] = h THEN Virtual ELSE open'[h]
BY DEF View, Slots

\* If a step concerns one handle only, the program sees a change of that one only.
LEMMA OneViewChanges ==
  ASSUME NEW h \in Handles,
         \A g \in Handles : g # h =>
           /\ open'[g] = open[g]
           /\ g \in stray' <=> g \in stray
           /\ Using(g)' <=> Using(g)
           /\ (\E i \in Slots : slot'[i] = g) <=> (\E i \in Slots : slot[i] = g)
  PROVE  View' = [View EXCEPT ![h] = View'[h]]
<1>1. \A g \in Handles : g # h => View'[g] = View[g]
  BY ViewAt, ViewAtPrime
<1>2. View = [g \in Handles |-> View[g]]
  BY DEF View
<1>3. View' = [g \in Handles |-> View'[g]]
  BY DEF View
<1> QED BY <1>1, <1>2, <1>3

\* The answers are a function on the threads.
LEMMA AnswerStays ==
  ASSUME IInv, NEW t \in Threads, pc[t] # "answered", answer' = [answer EXCEPT ![t] = None]
  PROVE  answer' = answer
BY DEF IInv, TypeOK, CallsInv

LEMMA CallIsViewStep ==
  ASSUME IInv, IInv', NEW t \in Threads, Call(t)
  PROVE  [RV!Next]_RV!vars
<1> PICK h \in Handles : \/ \E k \in Keys : OpenOther(t, k, h)
                        \/ LepNtOpenKey(t, h)
                        \/ LepNtClose(t, h)
                        \/ LepNtQueryKey(t, h)
                        \/ LepIsVirtualMuiOpenRequest(t, h)
  BY DEF Call
<1>1. pc[t] = "idle" /\ answer' = answer /\ stray' = stray /\ slot' = slot
  BY DEF OpenOther, LepNtOpenKey, LepNtClose, LepNtQueryKey, LepIsVirtualMuiOpenRequest, Begin
<1>2. \A u \in Threads : u # t => pc'[u] = pc[u] /\ handle'[u] = handle[u]
  BY DEF OpenOther, LepNtOpenKey, LepNtClose, LepNtQueryKey, LepIsVirtualMuiOpenRequest,
         Begin, IInv, TypeOK
<1>3. pc'[t] = "idle" \/ handle'[t] = h
  BY <1>1 DEF OpenOther, LepNtOpenKey, LepNtClose, LepNtQueryKey, LepIsVirtualMuiOpenRequest,
         Begin, IInv, TypeOK
<1>4. \A g \in Handles : g # h => open'[g] = open[g]
  BY DEF OpenOther, LepNtOpenKey, LepNtClose, LepNtQueryKey, LepIsVirtualMuiOpenRequest,
         IInv, TypeOK
<1>5. View' = [View EXCEPT ![h] = View'[h]]
  BY <1>1, <1>2, <1>3, <1>4, OthersSame, OneViewChanges
<1>6. ~Using(h)
  BY DEF OpenOther, LepNtOpenKey, LepNtClose, LepNtQueryKey, LepIsVirtualMuiOpenRequest,
         Usable, Busy, Using, IInv, CallsInv
<1>7. CASE \E k \in Keys : OpenOther(t, k, h)
  <2> PICK k \in Keys : OpenOther(t, k, h)
    BY <1>7
  <2>1. View[h] = None BY ViewAt DEF OpenOther
  <2>2. Using(h)' <=> Using(h) BY DEF OpenOther, Using
  <2>3. open'[h] = k /\ k # None BY NoneAssumption DEF OpenOther, IInv, TypeOK
  <2>4. h \notin stray => \A i \in Slots : slot'[i] # h
    BY <1>1, NoneAssumption DEF OpenOther, IInv, SlotsAreOpen, Keys, Languages
  <2>5. View'[h] = None \/ View'[h] = k
    BY <1>1, <1>6, <2>2, <2>3, <2>4, ViewAtPrime
  <2> QED BY ZenonT(30), <1>1, <1>5, <2>1, <2>5 DEF RV!Next, RV!Open, RV!vars, View
<1>8. CASE LepNtOpenKey(t, h)
  <2>1. View[h] = None BY <1>8, ViewAt DEF LepNtOpenKey
  <2>2. Using(h)' BY <1>8 DEF LepNtOpenKey, Begin, Using, IInv, TypeOK
  <2>3. View'[h] = None BY <2>2, ViewAtPrime
  <2> QED BY <1>1, <1>5, <2>1, <2>3 DEF RV!vars, View
<1>9. CASE LepNtClose(t, h)
  <2>1. Using(h)' BY <1>9 DEF LepNtClose, Begin, Using, IInv, TypeOK
  <2>2. View'[h] = None BY <2>1, ViewAtPrime
  <2>3. CASE View[h] = None BY <1>1, <1>5, <2>2, <2>3 DEF RV!vars, View
  <2>4. CASE View[h] # None BY <1>1, <1>5, <2>2, <2>4 DEF RV!Next, RV!Close
  <2> QED BY <2>3, <2>4
<1>10. CASE LepNtQueryKey(t, h) \/ LepIsVirtualMuiOpenRequest(t, h)
  <2>1. Using(h)' <=> Using(h)
    BY <1>2, <1>10 DEF LepNtQueryKey, LepIsVirtualMuiOpenRequest, Begin, Using, IInv, TypeOK
  <2>2. View'[h] = View[h]
    BY <1>1, <1>10, <2>1, ViewAt, ViewAtPrime DEF LepNtQueryKey, LepIsVirtualMuiOpenRequest
  <2> QED BY <1>1, <1>5, <2>2 DEF RV!vars, View
<1> QED BY <1>7, <1>8, <1>9, <1>10

LEMMA StepIsViewStep ==
  ASSUME IInv, IInv', NEW t \in Threads, Step(t)
  PROVE  [RV!Next]_RV!vars
<1> DEFINE Held == {"adding", "undoing", "removing", "closing"}
<1>1. pc[t] # "idle" /\ handle[t] \in Handles /\ open[handle[t]] # None
  BY OwnHandle DEF Step, LepAddVirtualMuiKeyHandle, TableFull, LepRemoveVirtualMuiKeyHandle,
     KernelClose, KernelRefuses, LepIsVirtualMuiKeyHandle, QueryReturns,
     LepIsMuiLanguagesKeyHandle, OpenBelowParent
<1>2. \A u \in Threads : u # t => pc'[u] = pc[u] /\ handle'[u] = handle[u]
  BY DEF Step, LepAddVirtualMuiKeyHandle, TableFull, LepRemoveVirtualMuiKeyHandle,
     KernelClose, KernelRefuses, LepIsVirtualMuiKeyHandle, QueryReturns,
     LepIsMuiLanguagesKeyHandle, OpenBelowParent, Goto, Return, Reply, Advance, IInv, TypeOK
<1>3. Using(handle[t]) <=> pc[t] \in Held
  BY <1>1, OwnHandle
<1>4. \A g \in Handles : Using(g)' =>
         \E u \in Threads : pc'[u] \in Held /\ handle'[u] = g
  BY DEF Using
<1>5. CASE LepAddVirtualMuiKeyHandle(t) \/ TableFull(t) \/ LepRemoveVirtualMuiKeyHandle(t)
           \/ KernelClose(t) \/ KernelRefuses(t)
  <2> PICK h \in Handles : h = handle[t]
    BY <1>1
  <2>1. pc[t] \in Held /\ pc[t] # "answered"
    BY <1>5 DEF LepAddVirtualMuiKeyHandle, TableFull, LepRemoveVirtualMuiKeyHandle,
                KernelClose, KernelRefuses
  <2>2. pc'[t] = "idle" \/ (pc'[t] \in Held /\ handle'[t] = h)
    BY <1>5 DEF LepAddVirtualMuiKeyHandle, TableFull, LepRemoveVirtualMuiKeyHandle,
                KernelClose, KernelRefuses, Goto, Return, Advance, IInv, TypeOK
  <2>3. answer' = answer
    BY <1>5, <2>1, AnswerStays
       DEF LepAddVirtualMuiKeyHandle, TableFull, LepRemoveVirtualMuiKeyHandle,
           KernelClose, KernelRefuses, Goto, Return, Advance
  <2>4. \A g \in Handles : g # h =>
           /\ open'[g] = open[g]
           /\ g \in stray' <=> g \in stray
           /\ (\E i \in Slots : slot'[i] = g) <=> (\E i \in Slots : slot[i] = g)
    <3>1. CASE LepAddVirtualMuiKeyHandle(t)
      <4>1. \A g \in Handles : g # None BY NoneAssumption
      <4>2. \/ slot' = slot
            \/ /\ cursor[t] \in Slots /\ slot[cursor[t]] = None
               /\ slot' = [slot EXCEPT ![cursor[t]] = h]
        BY <3>1 DEF LepAddVirtualMuiKeyHandle, IInv, TypeOK, Slots
      <4>3. CASE slot' = slot BY <3>1, <4>3 DEF LepAddVirtualMuiKeyHandle
      <4>4. CASE /\ cursor[t] \in Slots /\ slot[cursor[t]] = None
                 /\ slot' = [slot EXCEPT ![cursor[t]] = h]
        <5>1. slot'[cursor[t]] = h /\ \A i \in Slots : i # cursor[t] => slot'[i] = slot[i]
          BY <4>4 DEF IInv, TypeOK
        <5> QED BY <3>1, <4>1, <4>4, <5>1 DEF LepAddVirtualMuiKeyHandle
      <4> QED BY <4>2, <4>3, <4>4
    <3>2. CASE LepRemoveVirtualMuiKeyHandle(t)
      <4>1. \A g \in Handles : g # None BY NoneAssumption
      <4>2. \/ slot' = slot
            \/ /\ cursor[t] \in Slots /\ slot[cursor[t]] = h
               /\ slot' = [slot EXCEPT ![cursor[t]] = None]
        BY <3>2 DEF LepRemoveVirtualMuiKeyHandle, IInv, TypeOK, Slots
      <4>3. CASE slot' = slot BY <3>2, <4>3 DEF LepRemoveVirtualMuiKeyHandle
      <4>4. CASE /\ cursor[t] \in Slots /\ slot[cursor[t]] = h
                 /\ slot' = [slot EXCEPT ![cursor[t]] = None]
        <5>1. slot'[cursor[t]] = None /\ \A i \in Slots : i # cursor[t] => slot'[i] = slot[i]
          BY <4>4 DEF IInv, TypeOK
        <5> QED BY <3>2, <4>1, <4>4, <5>1 DEF LepRemoveVirtualMuiKeyHandle
      <4> QED BY <4>2, <4>3, <4>4
    <3>3. CASE TableFull(t) \/ KernelClose(t) \/ KernelRefuses(t)
      BY <3>3 DEF TableFull, KernelClose, KernelRefuses, IInv, TypeOK
    <3> QED BY <1>5, <3>1, <3>2, <3>3
  <2>5. View' = [View EXCEPT ![h] = View'[h]]
    BY <1>1, <1>2, <2>2, <2>4, OthersSame, OneViewChanges
  <2>6. View[h] = None BY <1>1, <1>3, <2>1, ViewAt
  <2>7. View'[h] = None \/ View'[h] = Virtual
    <3>1. CASE pc'[t] \in Held /\ handle'[t] = h
      <4>1. Using(h)' BY <3>1 DEF Using
      <4> QED BY <1>1, <4>1, ViewAtPrime
    <3>2. CASE KernelClose(t)
      <4>1. open'[h] = None BY <1>1, <3>2 DEF KernelClose, IInv, TypeOK
      <4> QED BY <1>1, <4>1, ViewAtPrime
    <3>3. CASE KernelRefuses(t)
      <4>1. h \in stray' BY <3>3 DEF KernelRefuses
      <4> QED BY <1>1, <4>1, ViewAtPrime
    <3>4. CASE LepAddVirtualMuiKeyHandle(t) /\ pc'[t] = "idle"
      <4>1. cursor[t] \in Slots /\ slot' = [slot EXCEPT ![cursor[t]] = h]
        BY <1>1, <3>4 DEF LepAddVirtualMuiKeyHandle, Advance, IInv, TypeOK, Slots
      <4>2. slot'[cursor[t]] = h BY <4>1 DEF IInv, TypeOK
      <4> QED BY <1>1, <4>1, <4>2, ViewAtPrime
    <3> QED BY <1>5, <2>2, <3>1, <3>2, <3>3, <3>4
            DEF TableFull, LepRemoveVirtualMuiKeyHandle, Goto, Advance, IInv, TypeOK
  <2>8. CASE View'[h] = None BY <2>3, <2>5, <2>6, <2>8 DEF RV!vars, View
  <2>9. CASE View'[h] = Virtual
    BY <1>1, <2>3, <2>5, <2>6, <2>9 DEF RV!Next, RV!Open, Keys
  <2> QED BY <2>7, <2>8, <2>9
<1>6. CASE LepIsVirtualMuiKeyHandle(t) \/ QueryReturns(t) \/ LepIsMuiLanguagesKeyHandle(t)
  <2> PICK h \in Handles : h = handle[t]
    BY <1>1
  <2>1. pc[t] \notin Held /\ pc'[t] \notin Held
        /\ stray' = stray /\ open' = open /\ slot' = slot
    BY <1>6 DEF LepIsVirtualMuiKeyHandle, QueryReturns, LepIsMuiLanguagesKeyHandle,
                Return, Reply, Advance, IInv, TypeOK
  <2>2. \A g \in Handles : Using(g)' <=> Using(g)
    BY <1>2, <2>1 DEF Using
  <2>3. View' = View BY <2>1, <2>2 DEF View
  <2>4. CASE pc[t] = "answered"
    BY <1>6, <2>3, <2>4 DEF LepIsVirtualMuiKeyHandle, QueryReturns,
       LepIsMuiLanguagesKeyHandle, Return, RV!Next, RV!Return
  <2>5. CASE pc[t] # "answered" /\ (answer' = answer \/ answer' = [answer EXCEPT ![t] = None])
    BY <2>3, <2>5, AnswerStays DEF RV!vars
  <2>6. CASE LepIsVirtualMuiKeyHandle(t) /\ h \notin stray /\ answer' # answer
    <3>1. cursor[t] > SlotCount \/ cursor[t] \in Slots
      BY DEF IInv, TypeOK, Slots
    <3>2. CASE cursor[t] > SlotCount
      <4>1. \A i \in Slots : i < cursor[t]
        BY <3>2 DEF IInv, TypeOK, Slots
      <4>2. \A i \in Slots : slot[i] # h
        BY <2>6, <4>1 DEF LepIsVirtualMuiKeyHandle, IInv, CallsInv
      <4>3. View[h] = open[h] BY <1>1, <1>3, <2>1, <2>6, <4>2, ViewAt
      <4>4. answer' = [answer EXCEPT ![t] = open[h]]
        BY <2>6, <3>2 DEF LepIsVirtualMuiKeyHandle, Reply
      <4> QED BY <1>1, <2>3, <4>3, <4>4 DEF RV!Next, RV!Query
    <3>3. CASE cursor[t] \in Slots /\ ~(cursor[t] > SlotCount)
      <4>1. slot[cursor[t]] = h /\ answer' = [answer EXCEPT ![t] = Virtual]
        BY <2>6, <3>3 DEF LepIsVirtualMuiKeyHandle, Reply, Advance
      <4>2. View[h] = Virtual BY <1>1, <1>3, <2>1, <2>6, <3>3, <4>1, ViewAt
      <4>3. Virtual # None BY NoneAssumption DEF Keys
      <4> QED BY <1>1, <2>3, <4>1, <4>2, <4>3 DEF RV!Next, RV!Query
    <3> QED BY <3>1, <3>2, <3>3
  <2> QED BY <1>6, <2>4, <2>5, <2>6
          DEF LepIsVirtualMuiKeyHandle, QueryReturns, LepIsMuiLanguagesKeyHandle,
              Return, Reply, Advance
<1>7. CASE \E h \in Handles : OpenBelowParent(t, h)
  <2> PICK h \in Handles : OpenBelowParent(t, h)
    BY <1>7
  <2>1. pc[t] = "parent" /\ pc'[t] = "adding" /\ handle'[t] = h
        /\ answer' = answer /\ stray' = stray /\ slot' = slot
        /\ \A g \in Handles : g # h => open'[g] = open[g]
    BY DEF OpenBelowParent, IInv, TypeOK
  <2>2. View' = [View EXCEPT ![h] = View'[h]]
    BY <1>2, <2>1, OthersSame, OneViewChanges
  <2>3. Using(h)' BY <2>1 DEF Using
  <2>4. View[h] = None BY ViewAt DEF OpenBelowParent
  <2>5. View'[h] = None BY <2>3, ViewAtPrime
  <2>6. View' = View BY <2>2, <2>4, <2>5 DEF View
  <2> QED BY <2>1, <2>6 DEF RV!vars
<1> QED BY <1>5, <1>6, <1>7 DEF Step

LEMMA ClosedElsewhereIsViewStep ==
  ASSUME IInv, NEW h \in Handles, ClosedElsewhere(h)
  PROVE  [RV!Next]_RV!vars
<1>1. \A g \in Handles : Using(g)' <=> Using(g)
  BY DEF ClosedElsewhere, Using
<1>2. View' = [View EXCEPT ![h] = View'[h]] /\ answer' = answer
  BY <1>1, OneViewChanges DEF ClosedElsewhere, IInv, TypeOK
<1>3. View'[h] = None BY ViewAtPrime DEF ClosedElsewhere
<1>4. CASE View[h] = None BY <1>2, <1>3, <1>4 DEF RV!vars, View
<1>5. CASE View[h] # None BY <1>2, <1>3, <1>5 DEF RV!Next, RV!Close
<1> QED BY <1>4, <1>5

\* Whatever calls overlap, for any number of threads, handles and slots: a handle
\* stands for the key it was opened on until NtClose is called on it, and every query
\* is answered for that key (the filters of NtdllHook.cpp:707-764).
THEOREM KeysImplementView == Spec => ImplementsView
<1>1. Init => RV!Init BY InitIsViewInit
<1>2. IInv /\ IInv' /\ [Next]_vars => [RV!Next]_RV!vars
  <2> SUFFICES ASSUME IInv, IInv', [Next]_vars PROVE [RV!Next]_RV!vars
    OBVIOUS
  <2>1. CASE UNCHANGED vars
    BY <2>1 DEF vars, RV!vars, View, Using
  <2>2. CASE \E t \in Threads : Call(t) \/ Step(t)
    BY <2>2, CallIsViewStep, StepIsViewStep
  <2>3. CASE \E h \in Handles : ClosedElsewhere(h)
    BY <2>3, ClosedElsewhereIsViewStep
  <2> QED BY <2>1, <2>2, <2>3 DEF Next
<1> QED BY <1>1, <1>2, KeysInvariant, PTL DEF Spec, ImplementsView, RV!Spec

-----------------------------------------------------------------------------
(* Startup: the owner of a payload, what a core leaves, and the order of the *)
(* filters and of what is read from the host.                                *)

OwnedBy(c) == uData.own /\ uData.payload = c

OwnerInv ==
  /\ uCall \in 0 .. MaxCalls /\ uFrame \in U!Calls \cup {0}
  /\ uBlock \in [U!Calls -> {"none", "allocated", "freed"}]
  /\ uData \in [payload : U!Calls \cup {0}, own : BOOLEAN]
  /\ uData.own => uData.payload # 0 /\ uCore \in {"initializing", "attached", "failed"}
  /\ ~uMisused
  /\ \A c \in U!Calls : uBlock[c] = "allocated" <=> uFrame = c \/ OwnedBy(c)
  /\ uFrame # 0 => ~OwnedBy(uFrame)
  /\ \A c \in U!Calls : c > uCall => uBlock[c] = "none"
  /\ uAt = "idle" => uFrame = 0

(* Steps of LepGlobalData::Initialize before HookNtdllRoutines asks for the  *)
(* system calls of the locale, and before those of the language.             *)
BeforeLocales  == {"redirection", "metrics", "locale", "directory", "files", "view", "apply",
                   "notification", "port", "create", "locales"}
BeforeLanguage == BeforeLocales \cup {"advanced", "mui", "value", "licence"}
LocaleSteps    == {"locales", "advanced", "mui", "value", "licence", "continue"}

ReleaseInv ==
  /\ U!CleanExit
  /\ uCore = "entered" => uFilters = {}
  /\ uCore = "initializing" /\ uStage = "apply" => "view" \in uGot

(* Only a child gets to these steps, once.                                   *)
ApartInv ==
  /\ uRole \in {"loader", "child", "plain"}
  /\ uRole = "loader" /\ uCore \in {"entered", "initializing", "failed"} => uAt = "loading"
  /\ uRole = "plain" => uFrame = 0 /\ uCore # "initializing"
  /\ uRole # "child" => /\ uMapping = "none" /\ uLearned = "none"
                        /\ uCore = "initializing" => uStage \notin LocaleSteps
  /\ uRole = "child" => uCore \notin {"absent", "gone"}
  /\ uCore = "entered" \/ (uCore = "initializing" /\ uStage \in BeforeLocales) => uMapping = "none"
  /\ uCore = "initializing" /\ uStage \in BeforeLanguage => "NtQueryInstallUILanguage" \notin uFilters
  /\ U!LocalesApart

(* A payload that is accepted, with its parts one after the other.           *)
Arrives(p) == /\ U!LepValidateBootstrapPayload(p)
              /\ \A i, j \in 1 .. 4 : i < j => U!Parts(p)[i][2] < U!Parts(p)[j][1]

PayloadInv == \A c \in DOMAIN uPayload : uPayload[c] = U!NoPayload \/ Arrives(uPayload[c])

StartupInv == OwnerInv /\ ReleaseInv /\ ApartInv /\ PayloadInv

LEMMA MaxSizeIsNat == U!MaxSize \in Nat
BY SMT DEF U!MaxSize

(* Whatever path the core has: a payload with room for the path and its      *)
(* directory, in whole characters, is accepted.                              *)
LEMMA BuiltPayloadArrives ==
  ASSUME NEW full \in Nat, NEW dir \in Nat, full % 2 = 0, dir % 2 = 0, full + dir + 248 <= U!MaxSize,
         NEW value, U!LepValidateRuntimeEnvironment(value)
  PROVE  Arrives(U!LepBuildBootstrapPayload(value, full, dir))
<1> DEFINE total == 244 + full + 2 + dir + 2
           p == [total |-> total, value |-> value, environment |-> 40, full |-> 244, fullLength |-> full,
                 dir |-> 244 + full + 2, dirLength |-> dir]
<1>1. U!RoundUp(40, 8) = 40 /\ U!RoundUp(244, 2) = 244 BY DEF U!RoundUp
<1>2. total \in Nat /\ total <= U!MaxSize /\ total >= 40
  BY MaxSizeIsNat
<1>3. U!LepBootstrapPayloadSize(full, dir) = total
  BY <1>1, <1>2 DEF U!LepBootstrapPayloadSize, U!HeaderSize, U!EnvironmentSize, U!WideChar
<1>4. U!LepBuildBootstrapPayload(value, full, dir) = p
  BY <1>1, <1>3 DEF U!LepBuildBootstrapPayload, U!HeaderSize, U!EnvironmentSize, U!WideChar
<1>5. U!LepValidateBootstrapPayload(p)
  BY <1>2, MaxSizeIsNat DEF U!LepValidateBootstrapPayload, U!LepPayloadRangeValid, U!HeaderSize, U!EnvironmentSize, U!WideChar
<1>6. ASSUME NEW i \in 1 .. 4, NEW j \in 1 .. 4, i < j PROVE U!Parts(p)[i][2] < U!Parts(p)[j][1]
  <2>1. U!Parts(p) = << <<0, 39>>, <<40, 243>>, <<244, 244 + full + 1>>, <<244 + full + 2, 244 + full + 2 + dir + 1>> >>
    BY DEF U!Parts, U!HeaderSize, U!EnvironmentSize, U!WideChar
  <2> QED BY <1>6, <2>1
<1> QED BY <1>4, <1>5, <1>6 DEF Arrives

LEMMA PathsAreShort ==
  /\ \A path \in CorePaths :
       /\ path.full \in Nat /\ path.dir \in Nat /\ path.full % 2 = 0 /\ path.dir % 2 = 0
       /\ path.full + path.dir + 248 <= U!MaxSize
  /\ 80 + 60 + 248 <= U!MaxSize
BY SMT DEF CorePaths, U!MaxSize

LEMMA ResolvedArrives ==
  ASSUME NEW input, NEW wellFormed, NEW path \in CorePaths,
         NEW value \in U!LepResolveEnvironment(input, wellFormed)
  PROVE  Arrives(U!LepBuildBootstrapPayload(value, path.full, path.dir))
<1>1. U!LepValidateRuntimeEnvironment(value) BY DEF U!LepResolveEnvironment
<1> QED BY <1>1, PathsAreShort, BuiltPayloadArrives

LEMMA InitStartup == U!Init => StartupInv
<1> SUFFICES ASSUME U!Init PROVE StartupInv
  OBVIOUS
<1> USE DEF U!Init
<1>1. OwnerInv BY BoundsAssumption DEF OwnerInv, OwnedBy, U!NoData, U!Calls
<1>2. ReleaseInv BY DEF ReleaseInv, U!CleanExit
<1>3. ApartInv BY DEF ApartInv, U!LocalesApart, U!LocaleFilters, BeforeLocales, LocaleSteps
<1>4. PayloadInv
  <2>1. ASSUME NEW r \in 0 .. 2, NEW l \in {0, 2}
        PROVE  Arrives(U!LepBuildBootstrapPayload([registry |-> r, language |-> l, terminated |-> TRUE], 80, 60))
    <3>1. U!LepValidateRuntimeEnvironment([registry |-> r, language |-> l, terminated |-> TRUE])
      BY DEF U!LepValidateRuntimeEnvironment
    <3>2. 80 \in Nat /\ 60 \in Nat /\ 80 % 2 = 0 /\ 60 % 2 = 0 OBVIOUS
    <3> QED BY <3>1, <3>2, PathsAreShort, BuiltPayloadArrives
  <2>2. PICK p : /\ uPayload = [c \in U!Calls \cup {U!Image} |-> IF c = U!Image THEN p ELSE U!NoPayload]
                 /\ p = U!NoPayload \/ Arrives(p)
    BY <2>1
  <2> QED BY <2>2 DEF PayloadInv
<1> QED BY <1>1, <1>2, <1>3, <1>4 DEF StartupInv

(* LepCreateProcess and the loader.                                          *)
LEMMA LoaderKeepsStartup ==
  ASSUME StartupInv, U!RefuseEnvironment \/ U!LepCreateBootstrapPayload \/ U!LdrLoadDll \/ U!LdrLoadDllReturns
  PROVE  StartupInv'
<1> USE DEF StartupInv, U!coreVars
<1>1. CASE U!RefuseEnvironment
  BY <1>1, BoundsAssumption
  DEF U!RefuseEnvironment, OwnerInv, OwnedBy, U!Calls, ReleaseInv, U!CleanExit, ApartInv, U!LocalesApart, PayloadInv
<1>2. CASE U!LepCreateBootstrapPayload
  <2>1. PICK input \in U!Inputs, wellFormed \in BOOLEAN, path \in CorePaths :
          \E value \in U!LepResolveEnvironment(input, wellFormed) :
             uPayload' = [uPayload EXCEPT ![uCall + 1] = U!LepBuildBootstrapPayload(value, path.full, path.dir)]
    BY <1>2 DEF U!LepCreateBootstrapPayload
  <2>2. PICK p : Arrives(p) /\ uPayload' = [uPayload EXCEPT ![uCall + 1] = p] BY <2>1, ResolvedArrives
  <2>3. PayloadInv' BY <2>2 DEF PayloadInv
  <2>4. OwnerInv'
    <3>1. PICK n \in U!Calls : n = uCall + 1 /\ uBlock[n] = "none" /\ uFrame = 0
      BY <1>2, BoundsAssumption DEF U!LepCreateBootstrapPayload, OwnerInv, U!Calls
    <3>2. /\ uFrame' = n /\ uCall' = n /\ uAt' = "loading" /\ UNCHANGED <<uData, uCore, uMisused>>
          /\ uBlock' = [uBlock EXCEPT ![n] = "allocated"]
      BY <1>2, <3>1 DEF U!LepCreateBootstrapPayload
    <3>3. \A c \in U!Calls : OwnedBy(c)' = OwnedBy(c) /\ (OwnedBy(c) => c # n)
      BY <3>1, <3>2 DEF OwnerInv, OwnedBy
    <3>4. \A c \in U!Calls : uBlock'[c] = IF c = n THEN "allocated" ELSE uBlock[c]
      BY <3>2 DEF OwnerInv
    <3>5. \A c \in U!Calls : c > n => c > uCall /\ c # n BY <3>1 DEF OwnerInv, U!Calls
    <3>6. \A c \in U!Calls : uBlock'[c] = "allocated" <=> uFrame' = c \/ OwnedBy(c)'
      <4> SUFFICES ASSUME NEW c \in U!Calls PROVE uBlock'[c] = "allocated" <=> uFrame' = c \/ OwnedBy(c)
        BY <3>3
      <4>1. 0 # c BY DEF U!Calls
      <4>2. uBlock[c] = "allocated" <=> OwnedBy(c) BY <3>1, <4>1 DEF OwnerInv
      <4> QED BY <3>2, <3>3, <3>4, <4>2
    <3>7. uBlock' \in [U!Calls -> {"none", "allocated", "freed"}] BY <3>2 DEF OwnerInv
    <3>8. n \in 0 .. MaxCalls BY DEF U!Calls
    <3>9. ~OwnedBy(uFrame)' BY <3>2, <3>3 DEF OwnedBy
    <3>10. \A c \in U!Calls : c > uCall' => uBlock'[c] = "none" BY <3>2, <3>4, <3>5 DEF OwnerInv
    <3> QED BY <3>2, <3>6, <3>7, <3>8, <3>9, <3>10 DEF OwnerInv
  <2>5. ReleaseInv' /\ ApartInv'
    BY <1>2 DEF U!LepCreateBootstrapPayload, ReleaseInv, U!CleanExit, ApartInv, U!LocalesApart
  <2> QED BY <2>3, <2>4, <2>5
<1>3. CASE U!LdrLoadDll
  <2>1. OwnerInv' BY <1>3 DEF U!LdrLoadDll, OwnerInv, OwnedBy
  <2>2. ReleaseInv' BY <1>3 DEF U!LdrLoadDll, ReleaseInv, U!CleanExit
  <2>3. ApartInv' BY <1>3 DEF U!LdrLoadDll, ApartInv, U!LocalesApart
  <2>4. PayloadInv' BY <1>3 DEF U!LdrLoadDll, PayloadInv
  <2> QED BY <2>1, <2>2, <2>3, <2>4
<1>4. CASE U!LdrLoadDllReturns
  <2>1. OwnerInv'
    <3>1. /\ uFrame' = 0 /\ UNCHANGED <<uCall, uData, uCore>> /\ uAt' = "idle"
          /\ uBlock' = IF uFrame = 0 THEN uBlock ELSE [uBlock EXCEPT ![uFrame] = "freed"]
          /\ uMisused' = (uMisused \/ (uFrame # 0 /\ uBlock[uFrame] = "freed"))
      BY <1>4 DEF U!LdrLoadDllReturns
    <3>2. uFrame # 0 => uBlock[uFrame] = "allocated" BY DEF OwnerInv
    <3>3. ~uMisused' BY <3>1, <3>2 DEF OwnerInv
    <3>4. \A c \in U!Calls : OwnedBy(c)' = OwnedBy(c) BY <3>1 DEF OwnedBy
    <3>5. 0 \notin U!Calls BY DEF U!Calls
    <3>6. \A c \in U!Calls : uBlock'[c] = "allocated" <=> OwnedBy(c)
      BY <3>1, <3>5 DEF OwnerInv
    <3>7. \A c \in U!Calls : c > uCall' => uBlock'[c] = "none"
      BY <3>1, <3>2 DEF OwnerInv
    <3> QED BY <3>1, <3>3, <3>4, <3>5, <3>6, <3>7 DEF OwnerInv
  <2>2. ReleaseInv' BY <1>4 DEF U!LdrLoadDllReturns, ReleaseInv, U!CleanExit
  <2>3. ApartInv' BY <1>4 DEF U!LdrLoadDllReturns, ApartInv, U!LocalesApart
  <2>4. PayloadInv' BY <1>4 DEF U!LdrLoadDllReturns, PayloadInv
  <2> QED BY <2>1, <2>2, <2>3, <2>4
<1> QED BY <1>1, <1>2, <1>3, <1>4

(* Initialize takes the payload, or fails; UnInitialize frees it.            *)
LEMMA BeginningKeepsStartup ==
  ASSUME StartupInv, U!RefuseToInitialize \/ U!TakePayload \/ U!InitializeFails
  PROVE  StartupInv'
<1> USE DEF StartupInv, U!loaderVars
<1>1. CASE U!RefuseToInitialize \/ U!InitializeFails
  <2>1. OwnerInv' BY <1>1 DEF U!RefuseToInitialize, U!InitializeFails, OwnerInv, OwnedBy
  <2>2. ReleaseInv' BY <1>1 DEF U!RefuseToInitialize, U!InitializeFails, ReleaseInv, U!CleanExit
  <2>3. ApartInv' BY <1>1 DEF U!RefuseToInitialize, U!InitializeFails, ApartInv, U!LocalesApart
  <2>4. PayloadInv' BY <1>1 DEF U!RefuseToInitialize, U!InitializeFails, PayloadInv
  <2> QED BY <2>1, <2>2, <2>3, <2>4
<1>2. CASE U!TakePayload
  <2>1. /\ uCore = "entered" /\ uCore' = "initializing" /\ uStage' = "redirection" /\ uFrame' = 0
        /\ uData' = [payload |-> uFrame, own |-> uFrame # 0]
        /\ uMisused' = (uMisused \/ (uFrame # 0 /\ uBlock[uFrame] = "freed"))
        /\ UNCHANGED <<uRole, uCall, uAt, uBlock, uPayload, uGot, uFilters, uMapping, uLearned>>
    BY <1>2 DEF U!TakePayload
  <2>2. OwnerInv'
    <3>1. ~uData.own BY <2>1 DEF OwnerInv
    <3>2. uFrame # 0 => uBlock[uFrame] = "allocated" BY DEF OwnerInv
    <3>3. ~uMisused' BY <2>1, <3>2 DEF OwnerInv
    <3>4. \A c \in U!Calls : OwnedBy(c)' <=> uFrame = c
      <4> SUFFICES ASSUME NEW c \in U!Calls PROVE OwnedBy(c)' <=> uFrame = c
        OBVIOUS
      <4>1. c # 0 BY DEF U!Calls
      <4> QED BY <2>1, <4>1 DEF OwnedBy
    <3>5. \A c \in U!Calls : uBlock'[c] = "allocated" <=> uFrame' = c \/ OwnedBy(c)'
      <4> SUFFICES ASSUME NEW c \in U!Calls PROVE uBlock[c] = "allocated" <=> 0 = c \/ uFrame = c
        BY <2>1, <3>4
      <4>1. c # 0 BY DEF U!Calls
      <4> QED BY <3>1, <4>1 DEF OwnerInv, OwnedBy
    <3>6. uData' \in [payload : U!Calls \cup {0}, own : BOOLEAN] BY <2>1 DEF OwnerInv
    <3> QED BY <2>1, <3>3, <3>5, <3>6 DEF OwnerInv
  <2>3. ReleaseInv' BY <2>1 DEF ReleaseInv, U!CleanExit
  <2>4. uRole # "plain"
    <3>1. ASSUME uRole = "plain" PROVE FALSE
      <4>1. uFrame = 0 BY <3>1 DEF ApartInv
      <4>2. U!Found = U!NoPayload BY <3>1, <4>1 DEF U!Found
      <4> QED BY <1>2, <4>2 DEF U!TakePayload, U!Present
    <3> QED BY <3>1
  <2>5. ApartInv'
    BY <2>1, <2>4 DEF ApartInv, U!LocalesApart, ReleaseInv, BeforeLocales, BeforeLanguage, LocaleSteps
  <2>6. PayloadInv' BY <2>1 DEF PayloadInv
  <2> QED BY <2>2, <2>3, <2>5, <2>6
<1> QED BY <1>1, <1>2

LEMMA EndingKeepsStartup ==
  ASSUME StartupInv, U!DllMainFails \/ U!Detach
  PROVE  StartupInv'
<1> USE DEF StartupInv
<1>1. /\ uCore \in {"failed", "attached"} /\ uRole # "child"
      /\ uCore' = IF uCore = "failed" THEN "absent" ELSE "gone"
      /\ uData' = U!NoData /\ uFilters' = {} /\ uGot' = uGot \cap {"view", "applied"}
      /\ uBlock' = IF uData.own THEN [uBlock EXCEPT ![uData.payload] = "freed"] ELSE uBlock
      /\ uMisused' = (uMisused \/ (uData.own /\ uBlock[uData.payload] = "freed"))
      /\ uAt' = IF uAt = "loading" THEN "returned" ELSE uAt
      /\ UNCHANGED <<uRole, uCall, uPayload, uFrame, uStage, uMapping, uLearned>>
  BY DEF U!DllMainFails, U!Detach, U!UnInitialize
<1>2. OwnerInv'
  <2>1. uData.own => /\ uData.payload \in U!Calls /\ OwnedBy(uData.payload)
                     /\ uBlock[uData.payload] = "allocated" /\ uFrame # uData.payload
    BY DEF OwnerInv, OwnedBy
  <2>2. ~uMisused' BY <1>1, <2>1 DEF OwnerInv
  <2>3. uData' \in [payload : U!Calls \cup {0}, own : BOOLEAN] /\ ~uData'.own BY <1>1 DEF U!NoData
  <2>4. \A c \in U!Calls : uBlock'[c] = IF OwnedBy(c) THEN "freed" ELSE uBlock[c]
    BY <1>1, <2>1 DEF OwnerInv, OwnedBy
  <2>5. \A c \in U!Calls : uFrame = c => ~OwnedBy(c) BY <2>1 DEF OwnedBy
  <2>6. \A c \in U!Calls : uBlock'[c] = "allocated" <=> uFrame = c BY <2>4, <2>5 DEF OwnerInv
  <2>7. \A c \in U!Calls : c > uCall => uBlock'[c] = "none"
    <3>1. \A c \in U!Calls : OwnedBy(c) => uBlock[c] = "allocated" BY DEF OwnerInv
    <3> QED BY <2>4, <3>1 DEF OwnerInv
  <2>8. uBlock' \in [U!Calls -> {"none", "allocated", "freed"}] BY <1>1 DEF OwnerInv
  <2>9. \A c : ~OwnedBy(c)' BY <2>3 DEF OwnedBy
  <2> QED BY <1>1, <2>2, <2>3, <2>6, <2>7, <2>8, <2>9 DEF OwnerInv
<1>3. ReleaseInv' BY <1>1 DEF ReleaseInv, U!CleanExit
<1>4. ApartInv' BY <1>1 DEF ApartInv, U!LocalesApart, U!LocaleFilters
<1>5. PayloadInv' BY <1>1 DEF PayloadInv
<1> QED BY <1>2, <1>3, <1>4, <1>5

(* A step of LepGlobalData::Initialize: what it must not do by its place.    *)
LEMMA StepKeepsStartup ==
  ASSUME StartupInv, NEW from, NEW to, U!Step(from, to),
         "applied" \in uGot' => "view" \in uGot',
         to = "apply" => "view" \in uGot',
         to \in BeforeLocales => uMapping' = "none",
         to \in BeforeLanguage => "NtQueryInstallUILanguage" \notin uFilters',
         uRole # "child" => uMapping' = "none" /\ uLearned' = "none" /\ to \notin LocaleSteps,
         U!LocalesApart'
  PROVE  StartupInv'
<1> USE DEF StartupInv
<1>1. /\ uCore = "initializing" /\ uCore' = uCore /\ uStage' = to
      /\ UNCHANGED <<uRole, uCall, uAt, uBlock, uPayload, uFrame, uMisused, uData>>
  BY DEF U!Step, U!loaderVars
<1>2. OwnerInv' BY <1>1 DEF OwnerInv, OwnedBy
<1>3. ReleaseInv' BY <1>1 DEF ReleaseInv, U!CleanExit
<1>4. ApartInv' BY <1>1 DEF ApartInv
<1>5. PayloadInv' BY <1>1 DEF PayloadInv
<1> QED BY <1>2, <1>3, <1>4, <1>5

LEMMA AcquireKeepsStartup ==
  ASSUME StartupInv,
         \/ U!InitRegistryRedirectionMode \/ U!InitTextMetricCache \/ U!ReadOriginalLocale
         \/ U!DuplicateSystemDirectory \/ U!ReadCodePages \/ U!AllocCodePageMapView \/ U!ApplyCodePages
         \/ U!LdrRegisterDllNotification \/ U!InstallHookPort
  PROVE  StartupInv'
<1>1. ASSUME NEW from \in BeforeLocales \ {"create", "locales"}, NEW to \in BeforeLocales \ {"locales"}, U!Step(from, to),
             UNCHANGED <<uFilters, uMapping, uLearned>>, uGot \subseteq uGot',
             "applied" \in uGot' => "applied" \in uGot \/ from = "apply", to = "apply" => "view" \in uGot'
      PROVE  StartupInv'
  <2>1. uStage = from /\ uCore = "initializing" BY <1>1 DEF U!Step
  <2>2. "applied" \in uGot' => "view" \in uGot' BY <1>1, <2>1 DEF StartupInv, ReleaseInv, U!CleanExit
  <2>3. uMapping' = "none" /\ "NtQueryInstallUILanguage" \notin uFilters' /\ U!LocalesApart'
        /\ (uRole # "child" => uLearned' = "none")
    BY <1>1, <2>1 DEF StartupInv, ApartInv, U!LocalesApart, BeforeLanguage
  <2>4. to \notin LocaleSteps BY DEF LocaleSteps, BeforeLocales
  <2> QED BY <1>1, <2>2, <2>3, <2>4, StepKeepsStartup
<1>2. ASSUME NEW from \in BeforeLocales \ {"create", "locales"}, NEW to \in BeforeLocales \ {"locales"}, NEW what, U!Acquire(from, what, to),
             what = "applied" => from = "apply", to = "apply" => what = "view"
      PROVE  StartupInv'
  BY <1>1, <1>2 DEF U!Acquire
<1>3. CASE U!InitRegistryRedirectionMode BY <1>2, <1>3 DEF U!InitRegistryRedirectionMode, BeforeLocales
<1>4. CASE U!InitTextMetricCache BY <1>2, <1>4 DEF U!InitTextMetricCache, BeforeLocales
<1>5. CASE U!ReadOriginalLocale BY <1>2, <1>5 DEF U!ReadOriginalLocale, BeforeLocales
<1>6. CASE U!DuplicateSystemDirectory BY <1>2, <1>6 DEF U!DuplicateSystemDirectory, BeforeLocales
<1>7. CASE U!ReadCodePages BY <1>2, <1>7 DEF U!ReadCodePages, BeforeLocales
<1>8. CASE U!AllocCodePageMapView BY <1>2, <1>8 DEF U!AllocCodePageMapView, BeforeLocales
<1>9. CASE U!ApplyCodePages BY <1>2, <1>9 DEF U!ApplyCodePages, BeforeLocales
<1>10. CASE U!LdrRegisterDllNotification BY <1>1, <1>10 DEF U!LdrRegisterDllNotification, BeforeLocales
<1>11. CASE U!InstallHookPort BY <1>2, <1>11 DEF U!InstallHookPort, BeforeLocales
<1> QED BY <1>3, <1>4, <1>5, <1>6, <1>7, <1>8, <1>9, <1>10, <1>11

(* HookNtdllRoutines.                                                        *)
LEMMA FiltersKeepStartup ==
  ASSUME StartupInv,
         \/ U!AddCreateUserProcess \/ U!AddLocaleFilters \/ U!InitializeAdvancedRegistryRedirection
         \/ U!InitializeVirtualMuiLanguage \/ U!AddValueFilter \/ U!AddLanguageFilters \/ U!AddContinue
  PROVE  StartupInv'
<1> USE DEF StartupInv
<1>1. ASSUME NEW from, NEW to, U!Step(from, to), uGot' = uGot, to \notin {"apply"} \cup BeforeLocales,
             from \in LocaleSteps,
             to \in BeforeLanguage => from \in BeforeLanguage /\ ("NtQueryInstallUILanguage" \in uFilters' => "NtQueryInstallUILanguage" \in uFilters),
             U!LocalesApart'
      PROVE  StartupInv'
  <2>1. uStage = from /\ uCore = "initializing" /\ uRole' = uRole BY <1>1 DEF U!Step, U!loaderVars
  <2>2. "applied" \in uGot' => "view" \in uGot' BY <1>1 DEF ReleaseInv, U!CleanExit
  <2>3. uRole = "child" BY <1>1, <2>1 DEF ApartInv
  <2>4. to \in BeforeLanguage => "NtQueryInstallUILanguage" \notin uFilters' BY <1>1, <2>1 DEF ApartInv
  <2> QED BY <1>1, <2>2, <2>3, <2>4, StepKeepsStartup
<1>2. CASE U!AddCreateUserProcess
  <2> DEFINE to == IF U!IsLepLoader THEN "kernel" ELSE "locales"
  <2>1. U!Step("create", to) /\ uFilters' = uFilters \cup {"NtCreateUserProcess"} /\ UNCHANGED <<uGot, uMapping, uLearned>>
    BY <1>2 DEF U!AddCreateUserProcess
  <2> HIDE DEF to
  <2>2. uCore = "initializing" /\ uStage = "create" BY <2>1 DEF U!Step
  <2>3. uMapping = "none" /\ "NtQueryInstallUILanguage" \notin uFilters
    BY <2>2 DEF ApartInv, BeforeLocales, BeforeLanguage
  <2>4. U!LocalesApart' BY <2>1, <2>3 DEF ApartInv, U!LocalesApart
  <2>5. uRole # "child" => to = "kernel" BY <2>2 DEF ApartInv, U!IsLepLoader, to
  <2>6. to # "apply" BY DEF to
  <2>7. "applied" \in uGot' => "view" \in uGot' BY <2>1 DEF ReleaseInv, U!CleanExit
  <2>8. "kernel" \notin LocaleSteps BY DEF LocaleSteps
  <2> QED BY <2>1, <2>3, <2>4, <2>5, <2>6, <2>7, <2>8, StepKeepsStartup DEF ApartInv
<1>3. CASE U!AddLocaleFilters
  <2>1. PICK added \in SUBSET U!LocaleFilters : uFilters' = uFilters \cup added
    BY <1>3 DEF U!AddLocaleFilters, U!AddFilters
  <2>2. U!Step("locales", "advanced") /\ UNCHANGED <<uGot, uMapping, uLearned>>
    BY <1>3 DEF U!AddLocaleFilters, U!AddFilters
  <2>3. uMapping = "none" BY <2>2 DEF U!Step, ApartInv, BeforeLocales
  <2>4. U!LocalesApart' BY <2>2, <2>3 DEF ApartInv, U!LocalesApart
  <2>5. "NtQueryInstallUILanguage" \in uFilters' => "NtQueryInstallUILanguage" \in uFilters
    BY <2>1 DEF U!LocaleFilters
  <2> QED BY <1>1, <2>2, <2>4, <2>5 DEF BeforeLocales, BeforeLanguage, LocaleSteps
<1>4. U!LcidToCultureName => (U!LocaleFilters \subseteq uFilters => uMapping' # "host")
  BY DEF U!LcidToCultureName, ApartInv, U!LocalesApart
<1>5. CASE U!InitializeAdvancedRegistryRedirection
  <2>1. U!Step("advanced", "mui") /\ UNCHANGED <<uGot, uFilters, uLearned>> /\ (U!LcidToCultureName \/ uMapping' = uMapping)
    BY <1>5 DEF U!InitializeAdvancedRegistryRedirection
  <2>2. U!LocalesApart' BY <1>4, <2>1 DEF ApartInv, U!LocalesApart
  <2> QED BY <1>1, <2>1, <2>2 DEF BeforeLocales, BeforeLanguage, LocaleSteps
<1>6. CASE U!InitializeVirtualMuiLanguage
  <2>1. U!Step("mui", "value") /\ UNCHANGED <<uGot, uFilters>>
    BY <1>6 DEF U!InitializeVirtualMuiLanguage
  <2>2. "NtQueryInstallUILanguage" \notin uFilters BY <2>1 DEF U!Step, ApartInv, BeforeLanguage
  <2>3. U!LocalesApart' BY <1>4, <1>6, <2>2 DEF U!InitializeVirtualMuiLanguage, ApartInv, U!LocalesApart
  <2> QED BY <1>1, <2>1, <2>3 DEF BeforeLocales, BeforeLanguage, LocaleSteps
<1>7. ASSUME NEW added, uFilters' = uFilters \cup added, added \cap U!LocaleFilters = {}, UNCHANGED <<uMapping, uLearned>>
      PROVE  U!LocalesApart'
  BY <1>7 DEF ApartInv, U!LocalesApart
<1>8. CASE U!AddValueFilter
  <2>1. PICK added \in SUBSET {"NtQueryValueKey", "NtQuerySystemInformation"} : uFilters' = uFilters \cup added
    BY <1>8 DEF U!AddValueFilter, U!AddFilters
  <2>2. U!Step("value", "licence") /\ UNCHANGED <<uGot, uMapping, uLearned>>
    BY <1>8 DEF U!AddValueFilter, U!AddFilters
  <2>3. U!LocalesApart' BY <1>7, <2>1, <2>2 DEF U!LocaleFilters
  <2>4. "NtQueryInstallUILanguage" \in uFilters' => "NtQueryInstallUILanguage" \in uFilters BY <2>1
  <2> QED BY <1>1, <2>2, <2>3, <2>4 DEF BeforeLocales, BeforeLanguage, LocaleSteps
<1>9. CASE U!AddLanguageFilters
  <2>1. U!Step("licence", "continue") /\ UNCHANGED <<uGot, uMapping, uLearned>> BY <1>9 DEF U!AddLanguageFilters
  <2>2. PICK added : uFilters' = uFilters \cup added /\ added \cap U!LocaleFilters = {}
    <3>1. CASE uFilters' = uFilters
      <4>1. uFilters' = uFilters \cup {} /\ {} \cap U!LocaleFilters = {} BY <3>1
      <4> QED BY <4>1
    <3>2. CASE uFilters' # uFilters
      <4>1. PICK added \in SUBSET {"NtQueryDefaultUILanguage", "NtClose", "NtOpenKey", "NtQueryInstallUILanguage"} :
              uFilters' = uFilters \cup added \cup {"NtQueryLicenseValue"}
        BY <1>9, <3>2 DEF U!AddLanguageFilters
      <4>2. uFilters' = uFilters \cup (added \cup {"NtQueryLicenseValue"}) BY <4>1
      <4>3. (added \cup {"NtQueryLicenseValue"}) \cap U!LocaleFilters = {} BY DEF U!LocaleFilters
      <4> QED BY <4>2, <4>3
    <3> QED BY <3>1, <3>2
  <2>3. U!LocalesApart' BY <1>7, <2>1, <2>2
  <2> QED BY <1>1, <2>1, <2>3 DEF BeforeLocales, BeforeLanguage, LocaleSteps
<1>10. CASE U!AddContinue
  <2>1. PICK added \in SUBSET {"NtContinue"} : uFilters' = uFilters \cup added
    BY <1>10 DEF U!AddContinue, U!AddFilters
  <2>2. U!Step("continue", "kernel") /\ UNCHANGED <<uGot, uMapping, uLearned>>
    BY <1>10 DEF U!AddContinue, U!AddFilters
  <2>3. U!LocalesApart' BY <1>7, <2>1, <2>2 DEF U!LocaleFilters
  <2> QED BY <1>1, <2>2, <2>3 DEF BeforeLocales, BeforeLanguage, LocaleSteps
<1> QED BY <1>2, <1>3, <1>5, <1>6, <1>8, <1>9, <1>10

LEMMA HookKernelDllsKeepsStartup ==
  ASSUME StartupInv, U!HookKernelDlls
  PROVE  StartupInv'
<1> USE DEF StartupInv, U!HookKernelDlls
<1>1. OwnerInv' BY DEF OwnerInv, OwnedBy
<1>2. ReleaseInv' BY DEF ReleaseInv, U!CleanExit
<1>3. ApartInv' BY DEF ApartInv, U!LocalesApart
<1>4. PayloadInv' BY DEF PayloadInv
<1> QED BY <1>1, <1>2, <1>3, <1>4

LEMMA NextKeepsStartup == StartupInv /\ U!Next => StartupInv'
BY LoaderKeepsStartup, BeginningKeepsStartup, EndingKeepsStartup, AcquireKeepsStartup, FiltersKeepStartup,
   HookKernelDllsKeepsStartup DEF U!Next

LEMMA StartupInvariance == MCSpec => [](active = "startup" => StartupInv)
<1>1. MCInit => (active = "startup" => StartupInv) BY InitStartup DEF MCInit
<1>2. (active = "startup" => StartupInv) /\ [MCNext]_<<active, vars, RedirectionVars, StartupVars, CreationVars, NameVars>>
        => (active = "startup" => StartupInv)'
  <2> SUFFICES ASSUME active = "startup", StartupInv,
                      [MCNext]_<<active, vars, RedirectionVars, StartupVars, CreationVars, NameVars>>
               PROVE  StartupInv'
    BY DEF MCNext
  <2>1. CASE MCNext BY <2>1, NextKeepsStartup DEF MCNext
  <2>2. CASE UNCHANGED StartupVars
    BY <2>2 DEF StartupVars, StartupInv, OwnerInv, OwnedBy, ReleaseInv, U!CleanExit, ApartInv, U!LocalesApart, PayloadInv
  <2> QED BY <2>1, <2>2
<1> QED BY <1>1, <1>2, PTL DEF MCSpec

(* However often LepCreateProcess is called and wherever the loader or the    *)
(* core fails: a payload has one owner from its allocation until it is freed *)
(* once, and a core that has gone leaves nothing but the code pages          *)
(* (LepCreateBootstrapPayload, Initialize, LepGlobalData::UnInitialize).      *)
THEOREM PayloadsHaveOneOwner == MCSpec => []OwnedAndReleased
<1>1. (active = "startup" => StartupInv) => OwnedAndReleased
  <2> SUFFICES ASSUME active = "startup", StartupInv PROVE U!OneOwner /\ U!CleanExit
    BY DEF OwnedAndReleased
  <2>1. ASSUME NEW c \in U!Calls
        PROVE  (uBlock[c] = "allocated") <=> ((uFrame = c) # (uData.own /\ uData.payload = c))
    BY DEF StartupInv, OwnerInv, OwnedBy
  <2> QED BY <2>1 DEF StartupInv, OwnerInv, ReleaseInv, U!OneOwner
<1> QED BY <1>1, StartupInvariance, PTL

(* Each payload the loader builds is accepted by the core, with parts that   *)
(* do not overlap (LepBuildBootstrapPayload, LepValidateBootstrapPayload).   *)
THEOREM PayloadsArrive == MCSpec => []AcceptedArrives
<1>1. (active = "startup" => StartupInv) => AcceptedArrives
  BY DEF AcceptedArrives, StartupInv, PayloadInv, Arrives, U!AcceptedArrives
<1> QED BY <1>1, StartupInvariance, PTL

(* Whatever is filtered and whatever fails: ntdll's mapping is not the        *)
(* host's when it could have been filtered, and the host's language is heard *)
(* from the host (HookNtdllRoutines).                                        *)
THEOREM LocalesStayApart == MCSpec => []LocalesApart
<1>1. (active = "startup" => StartupInv) => LocalesApart
  BY DEF LocalesApart, StartupInv, ApartInv
<1> QED BY <1>1, StartupInvariance, PTL

-----------------------------------------------------------------------------
(* The redirected registry: the table is filled entry by entry, and what an  *)
(* answer says it needs is what it writes.                                   *)

Named == {"ACP", "Type", "LCID", "OEMCP", "ja-JP", "zh-CN", "en-US", "Locale", "Default", "LocaleName",
          "InstallLanguage", "DefaultFallback", "PreferredUILanguages", "InstallLanguageFallback",
          "MachinePreferredUILanguages"}

\* Every name that is answered has a size.
LEMMA NamesHaveSizes == \A name \in Named : R!NameSize(name) \in Nat
BY DEF Named, R!NameSize, R!Target, R!Host

LEMMA RoundUpGrows ==
  ASSUME NEW n \in Nat, NEW to \in {4, 8}
  PROVE  R!RoundUp(n, to) \in Nat /\ n <= R!RoundUp(n, to)
<1>1. CASE to = 4 BY <1>1 DEF R!RoundUp
<1>2. CASE to = 8 BY <1>2 DEF R!RoundUp
<1> QED BY <1>1, <1>2

\* A value, whatever its class: what is announced is what is written.
LEMMA ValuesAnnounce ==
  ASSUME NEW class \in R!Classes, NEW name \in Named, NEW size \in Nat
  PROVE  \E min, needed \in Nat : /\ min <= needed
           /\ \A q : q.class = class =>
                R!LepWriteVirtualKeyValue(q, name, size) = R!Answer(q.length, min, needed, needed)
<1> DEFINE min == R!Minimum[class]
           needed == R!Required(class, name, size)
<1>1. R!NameSize(name) \in Nat
  BY NamesHaveSizes
<1>2. min \in {8, 12, 20} /\ R!Minimum["basic"] = 12 /\ R!Minimum["partial"] = 12
      /\ R!Minimum["partial64"] = 8
  BY DEF R!Minimum, R!Classes
<1>3. needed \in Nat /\ min <= needed
  <2>1. CASE class \in {"full", "full64"}
    <3>1. R!DataOffset(class, name) \in Nat /\ min + R!NameSize(name) <= R!DataOffset(class, name)
      BY <1>1, <1>2, RoundUpGrows DEF R!DataOffset
    <3> QED BY <1>1, <1>2, <2>1, <3>1 DEF R!Required
  <2>2. CASE class \in {"basic", "partial", "partial64"}
    BY <1>1, <1>2, <2>2 DEF R!Required
  <2> QED BY <2>1, <2>2 DEF R!Classes
<1>4. ASSUME NEW q, q.class = class
      PROVE  R!LepWriteVirtualKeyValue(q, name, size) = R!Answer(q.length, min, needed, needed)
  <2>1. needed = CASE class \in {"full", "full64"} ->
                    R!RoundUp(R!Minimum[class] + R!NameSize(name), IF class = "full64" THEN 8 ELSE 4) + size
               [] class = "basic" -> 12 + R!NameSize(name)
               [] class = "partial" -> 12 + size
               [] OTHER -> 8 + size
    BY <1>2 DEF R!Required, R!DataOffset, R!Classes
  <2> HIDE DEF min, needed
  <2> QED BY <1>4, <2>1 DEF R!LepWriteVirtualKeyValue, min, needed
<1> QED
  <2> HIDE DEF min, needed
  <2>1. min \in Nat BY <1>2
  <2> QED BY <1>3, <1>4, <2>1

LEMMA LeastNatural ==
  ASSUME NEW B \in SUBSET Nat, B # {}
  PROVE  \E s \in B : \A r \in B : s <= r
<1> DEFINE Less == OpToRel(<, Nat)
<1>1. IsWellFoundedOn(Less, Nat)
  BY NatLessThanWellFounded
<1>2. PICK s \in B : \A r \in B : ~ (<<r, s>> \in Less)
  <2> HIDE DEF Less
  <2> QED BY <1>1, WFMin
<1>3. \A r, q \in Nat : <<r, q>> \in Less <=> r < q
  BY DEF OpToRel
<1> QED
  <2> HIDE DEF Less
  <2>1. \A r \in B : ~(r < s) BY <1>2, <1>3
  <2> QED BY <2>1

\* What the table is filled with.
Emulated == [key : {R!CodePage, R!NlsLanguage, R!International, R!Desktop, R!MuiCached},
             name : Named, size : Nat]

LEMMA LookupIsAPlace ==
  ASSUME rTable \in Seq(Emulated), NEW key, NEW name
  PROVE  R!LookupRegistryRedirectionEntry(key, name) \in 0 .. Len(rTable)
<1> DEFINE found == {i \in 1 .. Len(rTable) : rTable[i].key = key /\ rTable[i].name = name}
           place == IF found # {} THEN CHOOSE x \in found : \A y \in found : x =< y ELSE 0
<1>1. R!LookupRegistryRedirectionEntry(key, name) = place
  BY DEF R!LookupRegistryRedirectionEntry, R!SelectInSeq, R!Min
<1>2. found # {} => place \in found
  <2> SUFFICES ASSUME found # {} PROVE place \in found
    OBVIOUS
  <2>1. found \in SUBSET Nat
    OBVIOUS
  <2>2. \E s \in found : \A r \in found : s <= r
    <3> HIDE DEF found
    <3> QED BY <2>1, LeastNatural
  <2> HIDE DEF found
  <2> QED BY <2>2 DEF place
<1> QED BY <1>1, <1>2

\* A call of the program, with a buffer of any length.
Asked == [kind : {"value"}, value : R!Values, class : R!Classes, length : Nat]
         \cup [kind : {"enumerate key"}, index : 0 .. 3, class : {"basic", "full"}, length : Nat]
         \cup [kind : {"enumerate value"}, index : 0 .. 4, class : R!Classes, length : Nat]
         \cup [kind : {"key"}, class : {"name", "basic", "full"}, length : Nat]
         \cup [kind : {"license"}, length : Nat]

\* The same call at any length is refused for the same reason, or announces what it
\* would write.
Refuses(q) == \E s \in {"host", "not found", "no more", "invalid class"} :
                \A n \in Nat : R!Reply([q EXCEPT !.length = n]) = R!Error(s)
Announces(q) == \E min, needed \in Nat : /\ min <= needed
                  /\ \A n \in Nat : R!Reply([q EXCEPT !.length = n]) = R!Answer(n, min, needed, needed)

\* What a query needs to be answered: the entries of the table, and the installed
\* language with its fallback.
Ready == /\ rTable \in Seq(Emulated)
         /\ rModes.language = 2 => rChain \in {<<R!Host>>, <<R!Host, "en-US">>}

\* Calls of one kind that differ in their length only.
LEMMA SameCall ==
  ASSUME NEW q \in Asked, NEW n \in Nat
  PROVE  LET r == [q EXCEPT !.length = n]
         IN /\ r \in Asked /\ r.kind = q.kind /\ r.length = n
            /\ q.kind = "value" => r.value = q.value /\ r.class = q.class
            /\ q.kind \in {"enumerate key", "enumerate value"} => r.index = q.index /\ r.class = q.class
            /\ q.kind = "key" => r.class = q.class
BY DEF Asked

\* A value of the virtual language.
LEMMA LanguageAnswers ==
  ASSUME Ready, rModes.language = 2, NEW class \in R!Classes, NEW name
  PROVE  \/ \A q : q.class = class => R!LepQueryVirtualMuiKeyValue(q, name) = R!Error("not found")
         \/ \E min, needed \in Nat : min <= needed /\ \A q : q.class = class =>
              R!LepQueryVirtualMuiKeyValue(q, name) = R!Answer(q.length, min, needed, needed)
<1>1. CASE name \in {"Type", "LCID"}
  <2> DEFINE size == 4
  <2>1. name \in Named
    BY <1>1 DEF Named, R!Host
  <2>2. size \in Nat
    OBVIOUS
  <2>3. \A q : R!LepQueryVirtualMuiKeyValue(q, name) = R!LepWriteVirtualKeyValue(q, name, size)
    BY <1>1 DEF R!LepQueryVirtualMuiKeyValue, R!Host
  <2> HIDE DEF size
  <2>4. PICK min \in Nat, needed \in Nat : min <= needed /\ \A q : q.class = class =>
          R!LepWriteVirtualKeyValue(q, name, size) = R!Answer(q.length, min, needed, needed)
    BY <2>1, <2>2, ValuesAnnounce
  <2>5. \A q : q.class = class => R!LepQueryVirtualMuiKeyValue(q, name) = R!Answer(q.length, min, needed, needed)
    BY <2>3, <2>4
  <2> QED BY <2>4, <2>5
<1>2. CASE name = "DefaultFallback"
  <2> DEFINE size == R!NameSize(R!Host) + 2
  <2>1. name \in Named
    BY <1>2 DEF Named, R!Host
  <2>2. size \in Nat
    BY NamesHaveSizes DEF Named, R!Host
  <2>3. \A q : R!LepQueryVirtualMuiKeyValue(q, name) = R!LepWriteVirtualKeyValue(q, name, size)
    BY <1>2 DEF R!LepQueryVirtualMuiKeyValue, R!Host
  <2> HIDE DEF size
  <2>4. PICK min \in Nat, needed \in Nat : min <= needed /\ \A q : q.class = class =>
          R!LepWriteVirtualKeyValue(q, name, size) = R!Answer(q.length, min, needed, needed)
    BY <2>1, <2>2, ValuesAnnounce
  <2>5. \A q : q.class = class => R!LepQueryVirtualMuiKeyValue(q, name) = R!Answer(q.length, min, needed, needed)
    BY <2>3, <2>4
  <2> QED BY <2>4, <2>5
<1>3. CASE name = R!Host
  <2> DEFINE size == (IF Len(rChain) = 2 THEN 10 ELSE 0) + 4
  <2>1. name \in Named
    BY <1>3 DEF Named, R!Host
  <2>2. size \in Nat
    OBVIOUS
  <2>3. \A q : R!LepQueryVirtualMuiKeyValue(q, name) = R!LepWriteVirtualKeyValue(q, name, size)
    BY <1>3 DEF R!LepQueryVirtualMuiKeyValue, R!Host
  <2> HIDE DEF size
  <2>4. PICK min \in Nat, needed \in Nat : min <= needed /\ \A q : q.class = class =>
          R!LepWriteVirtualKeyValue(q, name, size) = R!Answer(q.length, min, needed, needed)
    BY <2>1, <2>2, ValuesAnnounce
  <2>5. \A q : q.class = class => R!LepQueryVirtualMuiKeyValue(q, name) = R!Answer(q.length, min, needed, needed)
    BY <2>3, <2>4
  <2> QED BY <2>4, <2>5
<1>4. CASE name \notin {"Type", "LCID", "DefaultFallback", R!Host}
  BY <1>4 DEF R!LepQueryVirtualMuiKeyValue
<1> QED BY <1>1, <1>2, <1>3, <1>4

LEMMA ValueAnswers ==
  ASSUME Ready, NEW q \in Asked, q.kind = "value"
  PROVE  Refuses(q) \/ Announces(q)
<1> DEFINE key == q.value[1]
           name == q.value[2]
           i == R!LookupRegistryRedirectionEntry(key, name)
<1>1. q.class \in R!Classes
  BY DEF Asked
<1>2. \A n \in Nat : LET r == [q EXCEPT !.length = n]
         IN r.length = n /\ r.class = q.class /\ r.value = q.value /\ R!Reply(r) = R!LepNtQueryValueKey(r)
  BY SameCall DEF R!Reply
<1> HIDE DEF Asked
<1>3. CASE rModes.language = 2 /\ key = R!VirtualKey
  <2>1. \A n \in Nat : LET r == [q EXCEPT !.length = n]
          IN R!Reply(r) = R!LepQueryVirtualMuiKeyValue(r, name)
    BY <1>2, <1>3 DEF R!LepNtQueryValueKey
  <2>2. CASE \A r : r.class = q.class => R!LepQueryVirtualMuiKeyValue(r, name) = R!Error("not found")
    <3>1. \A n \in Nat : R!Reply([q EXCEPT !.length = n]) = R!Error("not found")
      BY <1>2, <2>1, <2>2
    <3> QED BY <3>1 DEF Refuses
  <2>3. ASSUME NEW min \in Nat, NEW needed \in Nat, min <= needed,
               \A r : r.class = q.class =>
                 R!LepQueryVirtualMuiKeyValue(r, name) = R!Answer(r.length, min, needed, needed)
        PROVE  Announces(q)
    <3>1. \A n \in Nat : R!Reply([q EXCEPT !.length = n]) = R!Answer(n, min, needed, needed)
      BY <1>2, <2>1, <2>3
    <3> QED BY <2>3, <3>1 DEF Announces
  <2> QED BY <1>1, <1>3, <2>2, <2>3, LanguageAnswers
<1>4. CASE rModes.language = 2 /\ key = R!NlsLanguage /\ name = "InstallLanguageFallback" /\ key # R!VirtualKey
  <2> DEFINE size == R!SizeOfChain(rChain) + 2
  <2>1. size \in Nat
    BY <1>4 DEF Ready, R!SizeOfChain
  <2>2. \A n \in Nat : LET r == [q EXCEPT !.length = n]
          IN R!Reply(r) = R!LepWriteVirtualKeyValue(r, "InstallLanguageFallback", size)
    BY <1>2, <1>4 DEF R!LepNtQueryValueKey, R!LepQueryVirtualInstallLanguageFallback
  <2> HIDE DEF size
  <2>3. PICK min \in Nat, needed \in Nat : min <= needed /\ \A r : r.class = q.class =>
          R!LepWriteVirtualKeyValue(r, "InstallLanguageFallback", size) = R!Answer(r.length, min, needed, needed)
    BY <1>1, <2>1, ValuesAnnounce DEF Named
  <2>4. \A n \in Nat : R!Reply([q EXCEPT !.length = n]) = R!Answer(n, min, needed, needed)
    BY <1>2, <2>2, <2>3
  <2> QED BY <2>3, <2>4 DEF Announces
<1>5. CASE ~(rModes.language = 2 /\ key = R!VirtualKey)
           /\ ~(rModes.language = 2 /\ key = R!NlsLanguage /\ name = "InstallLanguageFallback") /\ i = 0
  BY <1>2, <1>5 DEF R!LepNtQueryValueKey, R!FromHost, Refuses
<1>6. CASE ~(rModes.language = 2 /\ key = R!VirtualKey)
           /\ ~(rModes.language = 2 /\ key = R!NlsLanguage /\ name = "InstallLanguageFallback") /\ i # 0
  <2>1. rTable[i] \in Emulated
    <3> HIDE DEF i, Emulated
    <3>1. i \in 0 .. Len(rTable)
      BY LookupIsAPlace DEF Ready, i
    <3> QED BY <1>6, <3>1 DEF Ready
  <2>2. rTable[i].name \in Named /\ rTable[i].size \in Nat
    BY <2>1 DEF Emulated
  <2>3. \A n \in Nat : LET r == [q EXCEPT !.length = n]
          IN R!Reply(r) = R!LepWriteVirtualKeyValue(r, rTable[i].name, rTable[i].size)
    BY <1>2, <1>6 DEF R!LepNtQueryValueKey
  <2> HIDE DEF i
  <2>4. PICK min \in Nat, needed \in Nat : min <= needed /\ \A r : r.class = q.class =>
          R!LepWriteVirtualKeyValue(r, rTable[i].name, rTable[i].size) = R!Answer(r.length, min, needed, needed)
    BY <1>1, <2>2, ValuesAnnounce
  <2>5. \A n \in Nat : R!Reply([q EXCEPT !.length = n]) = R!Answer(n, min, needed, needed)
    BY <1>2, <2>3, <2>4
  <2> QED BY <2>4, <2>5 DEF Announces
<1> QED BY <1>3, <1>4, <1>5, <1>6

\* An answer of a fixed size.
LEMMA FixedAnnounces ==
  ASSUME NEW q \in Asked, NEW min \in Nat, NEW size \in Nat,
         \A n \in Nat : LET r == [q EXCEPT !.length = n] IN R!Reply(r) = R!Fixed(r, min, size)
  PROVE  Announces(q)
<1>1. \A n \in Nat : [q EXCEPT !.length = n].length = n
  BY SameCall
<1>2. \A n \in Nat : R!Reply([q EXCEPT !.length = n]) = R!Answer(n, min, min + size, min + size)
  BY <1>1 DEF R!Fixed
<1>3. min <= min + size /\ min + size \in Nat
  OBVIOUS
<1> QED BY <1>2, <1>3 DEF Announces

LEMMA RefusalRefuses ==
  ASSUME NEW q \in Asked, NEW s \in {"host", "not found", "no more", "invalid class"},
         \A n \in Nat : R!Reply([q EXCEPT !.length = n]) = R!Error(s)
  PROVE  Refuses(q)
BY DEF Refuses

\* The keys and the values of the virtual language, and the licence.
LEMMA KeyAnswers ==
  ASSUME Ready, rModes.language = 2, NEW q \in Asked, q.kind # "value"
  PROVE  Refuses(q) \/ Announces(q)
<1>1. R!NameSize(R!Target) \in Nat
  BY NamesHaveSizes DEF Named, R!Target
<1>2. CASE q.kind = "enumerate key"
  <2>1. \A n \in Nat : LET r == [q EXCEPT !.length = n]
          IN r.index = q.index /\ r.class = q.class /\ R!Reply(r) = R!LepNtEnumerateKey(r)
    BY <1>2, SameCall DEF R!Reply
  <2>2. CASE q.index > 0 /\ q.index <= Len(R!Installed)
    BY <2>1, <2>2, RefusalRefuses DEF R!LepNtEnumerateKey, R!FromHost
  <2>3. CASE q.index > 0 /\ ~(q.index <= Len(R!Installed))
    BY <2>1, <2>3, RefusalRefuses DEF R!LepNtEnumerateKey
  <2>4. CASE ~(q.index > 0) /\ q.class # "basic"
    BY <2>1, <2>4, RefusalRefuses DEF R!LepNtEnumerateKey
  <2>5. CASE ~(q.index > 0) /\ q.class = "basic"
    <3>1. \A n \in Nat : LET r == [q EXCEPT !.length = n] IN R!Reply(r) = R!Fixed(r, 16, R!NameSize(R!Target))
      BY <2>1, <2>5 DEF R!LepNtEnumerateKey
    <3> QED BY <1>1, <3>1, FixedAnnounces
  <2> QED BY <2>2, <2>3, <2>4, <2>5
<1>3. CASE q.kind = "enumerate value"
  <2> DEFINE names == <<"DefaultFallback", R!Host, "LCID", "Type">>
             name == names[q.index + 1]
  <2>1. \A n \in Nat : LET r == [q EXCEPT !.length = n]
          IN r.length = n /\ r.index = q.index /\ r.class = q.class /\ R!Reply(r) = R!LepNtEnumerateValueKey(r)
    BY <1>3, SameCall DEF R!Reply
  <2>2. q.class \in R!Classes
    BY <1>3 DEF Asked
  <2>3. CASE ~(q.index < Len(names))
    BY <2>1, <2>3, RefusalRefuses DEF R!LepNtEnumerateValueKey
  <2>4. CASE q.index < Len(names)
    <3>1. \A n \in Nat : LET r == [q EXCEPT !.length = n] IN R!Reply(r) = R!LepQueryVirtualMuiKeyValue(r, name)
      BY <2>1, <2>4 DEF R!LepNtEnumerateValueKey
    <3> HIDE DEF name
    <3>2. CASE \A r : r.class = q.class => R!LepQueryVirtualMuiKeyValue(r, name) = R!Error("not found")
      <4>1. \A n \in Nat : R!Reply([q EXCEPT !.length = n]) = R!Error("not found")
        BY <2>1, <3>1, <3>2
      <4> QED BY <4>1, RefusalRefuses
    <3>3. ASSUME NEW min \in Nat, NEW needed \in Nat, min <= needed,
                 \A r : r.class = q.class =>
                   R!LepQueryVirtualMuiKeyValue(r, name) = R!Answer(r.length, min, needed, needed)
          PROVE  Announces(q)
      <4>1. ASSUME NEW n \in Nat
            PROVE  R!Reply([q EXCEPT !.length = n]) = R!Answer(n, min, needed, needed)
        <5> DEFINE r == [q EXCEPT !.length = n]
        <5>1. r.length = n /\ r.class = q.class /\ R!Reply(r) = R!LepQueryVirtualMuiKeyValue(r, name)
          BY <2>1, <3>1
        <5> HIDE DEF r
        <5>2. R!Reply(r) = R!Answer(r.length, min, needed, needed)
          BY <3>3, <5>1
        <5> QED BY <5>1, <5>2 DEF r
      <4> QED BY <3>3, <4>1 DEF Announces
    <3> QED BY <2>2, <3>2, <3>3, LanguageAnswers
  <2> QED BY <2>3, <2>4
<1>4. CASE q.kind = "key"
  <2>1. \A n \in Nat : LET r == [q EXCEPT !.length = n]
          IN r.class = q.class /\ R!Reply(r) = R!LepNtQueryKey(r)
    BY <1>4, SameCall DEF R!Reply
  <2>2. CASE q.class = "name"
    <3>1. \A n \in Nat : LET r == [q EXCEPT !.length = n] IN R!Reply(r) = R!Fixed(r, 4, 144)
      BY <2>1, <2>2 DEF R!LepNtQueryKey
    <3>2. 4 \in Nat /\ 144 \in Nat
      OBVIOUS
    <3> HIDE DEF Asked
    <3> QED BY ZenonT(30), <3>1, <3>2, FixedAnnounces
  <2>3. CASE q.class = "basic"
    <3>1. \A n \in Nat : LET r == [q EXCEPT !.length = n] IN R!Reply(r) = R!Fixed(r, 16, R!NameSize(R!Target))
      BY <2>1, <2>3 DEF R!LepNtQueryKey
    <3> QED BY <1>1, <3>1, FixedAnnounces
  <2>4. CASE q.class \notin {"name", "basic"}
    BY <2>1, <2>4, RefusalRefuses DEF R!LepNtQueryKey
  <2> QED BY <2>2, <2>3, <2>4
<1>5. CASE q.kind = "license"
  <2>1. \A n \in Nat : LET r == [q EXCEPT !.length = n] IN R!Reply(r) = R!Fixed(r, R!NameSize(R!Target) + 2, 0)
    BY <1>5, SameCall DEF R!Reply, R!LepNtQueryLicenseValue
  <2>2. R!NameSize(R!Target) + 2 \in Nat /\ 0 \in Nat
    BY <1>1
  <2> HIDE DEF Asked
  <2> QED BY <2>1, <2>2, FixedAnnounces
<1> QED BY <1>2, <1>3, <1>4, <1>5 DEF Asked

\* An answer of a size: nothing is written past the buffer, and a buffer of that size
\* is enough.
LEMMA AnswerOfASize ==
  ASSUME NEW length \in Nat, NEW min \in Nat, NEW needed \in Nat, min <= needed
  PROVE  LET r == R!Answer(length, min, needed, needed)
         IN /\ r.required = needed /\ r.end <= length
            /\ r.status = "success" => r.end = needed
            /\ length = needed => r.status = "success"
<1>1. CASE length < min
  BY <1>1 DEF R!Answer
<1>2. CASE ~(length < min) /\ length < needed
  BY <1>2 DEF R!Answer
<1>3. CASE ~(length < needed)
  BY <1>3 DEF R!Answer
<1> QED BY <1>1, <1>2, <1>3

\* A query that has been answered from the state it is in.
Answered == /\ Ready
            /\ rQuery \in Asked
            /\ rModes.language = 2 \/ rQuery.kind = "value"
            /\ rReply = R!Reply(rQuery)

LEMMA AnsweredFits ==
  ASSUME Answered
  PROVE  /\ R!AnswerFits
         /\ rReply.status \in {"too small", "overflow"} => rReply.required \in Nat
<1>0. 0 <= rQuery.length
  <2>1. rQuery.length \in Nat
    BY DEF Answered, Asked
  <2> QED BY <2>1
<1>1. rQuery.length \in Nat /\ [rQuery EXCEPT !.length = rQuery.length] = rQuery
  BY DEF Answered, Asked
<1>2. rReply = R!Reply([rQuery EXCEPT !.length = rQuery.length])
  BY <1>1 DEF Answered
<1>3. Refuses(rQuery) \/ Announces(rQuery)
  BY ValueAnswers, KeyAnswers DEF Answered
<1>4. CASE Refuses(rQuery)
  <2>1. PICK s \in {"host", "not found", "no more", "invalid class"} : rReply = R!Error(s)
    BY <1>1, <1>2, <1>4 DEF Refuses
  <2>2. rReply.end = 0 /\ rReply.status = s
    BY <2>1 DEF R!Error
  <2>3. s \notin {"success", "too small", "overflow"}
    OBVIOUS
  <2> QED BY <1>0, <2>2, <2>3 DEF R!AnswerFits
<1>5. CASE Announces(rQuery)
  <2>1. PICK min \in Nat, needed \in Nat : min <= needed /\
          \A n \in Nat : R!Reply([rQuery EXCEPT !.length = n]) = R!Answer(n, min, needed, needed)
    BY <1>5 DEF Announces
  <2>2. rReply = R!Answer(rQuery.length, min, needed, needed)
    BY <1>1, <1>2, <2>1
  <2>3. /\ rReply.required = needed /\ rReply.end <= rQuery.length
        /\ rReply.status = "success" => rReply.end = needed
    BY <1>1, <2>1, <2>2, AnswerOfASize
  <2>4. R!Reply([rQuery EXCEPT !.length = needed]).status = "success"
    <3>1. R!Reply([rQuery EXCEPT !.length = needed]) = R!Answer(needed, min, needed, needed)
      BY <2>1
    <3> QED BY <2>1, <3>1, AnswerOfASize
  <2> QED BY <2>3, <2>4 DEF R!AnswerFits
<1> QED BY <1>3, <1>4, <1>5

\* The table while it is filled, and the keys that are open meanwhile: the last entry
\* is a half-filled one while its configuration is worked on.
FillInv ==
  /\ rPending \in Seq(Emulated) /\ rWhole \in Seq(Emulated)
  /\ rStep \in {"open", "key", "openRedirected", "add", "path", "data", "ready", "failed"}
  /\ rStep \in {"key", "openRedirected", "add", "path", "data"} => rPending # <<>>
  /\ rStep \in {"open", "data", "ready", "failed"} => rHeld = {}
  /\ rStep = "key" => rHeld \in {{"root"}, {"original", "root"}}
  /\ rStep = "openRedirected" => rHeld = {"original"}
  /\ rStep = "add" => rHeld = {"original", "redirected"}
  /\ rStep = "path" => rHeld \in {{"original", "redirected"}, {"redirected"}}
  /\ ~rStarved => rTable = IF rStep \in {"path", "data"} THEN Append(rWhole, R!Config("", "", 0)) ELSE rWhole
  /\ rStep = "ready" /\ rModes.language = 2 => rChain \in {<<R!Host>>, <<R!Host, "en-US">>}

AnswerInv == \/ rQuery = R!NoReply /\ rReply = R!NoReply
             \/ rStep = "ready" /\ ~rStarved /\ Answered

RedirectionInv == FillInv /\ AnswerInv

LEMMA ModesAreConfigured == \A mode : R!ModeEntries(mode) \in Seq(Emulated)
<1>1. ASSUME NEW mode, mode = 0 PROVE R!ModeEntries(mode) \in Seq(Emulated)
  BY <1>1 DEF R!ModeEntries, R!Config, Emulated, Named
<1>2. ASSUME NEW mode, mode # 0 PROVE R!ModeEntries(mode) \in Seq(Emulated)
  BY <1>2 DEF R!ModeEntries, R!Config, Emulated, Named
<1> QED BY <1>1, <1>2

LEMMA UserIsConfigured == R!UserEntries \in Seq(Emulated)
BY DEF R!UserEntries, R!Config, Emulated, Named

\* A failing step takes the half-filled entry back; the last step fills it.
LEMMA LastEntry ==
  ASSUME NEW S, NEW s \in Seq(S), NEW e, NEW c \in S
  PROVE  LET t == Append(s, e)
         IN /\ t # <<>> /\ R!Front(t) = s
            /\ [t EXCEPT ![Len(t)] = c] = Append(s, c)
<1> DEFINE t == Append(s, e)
<1>1. /\ t \in Seq(S \cup {e}) /\ Len(t) = Len(s) + 1 /\ t # <<>>
      /\ \A i \in 1 .. Len(s) : t[i] = s[i]
  OBVIOUS
<1>2. R!Front(t) = s
  BY <1>1 DEF R!Front
<1>3. [t EXCEPT ![Len(t)] = c] = Append(s, c)
  <2> DEFINE u == [t EXCEPT ![Len(t)] = c]
             v == Append(s, c)
  <2>1. v \in Seq(S) /\ Len(v) = Len(s) + 1 /\ v[Len(s) + 1] = c /\ \A i \in 1 .. Len(s) : v[i] = s[i]
    OBVIOUS
  <2> HIDE DEF t, v
  <2>2. DOMAIN u = 1 .. Len(s) + 1 /\ DOMAIN v = 1 .. Len(s) + 1
    BY <1>1, <2>1
  <2>3. u = [i \in DOMAIN u |-> u[i]] /\ v = [i \in DOMAIN v |-> v[i]]
    <3>1. \E S1, S2 : v \in [S1 -> S2]
      BY <2>1
    <3> QED BY <3>1
  <2>4. \A i \in 1 .. Len(s) + 1 : u[i] = v[i]
    BY <1>1, <2>1
  <2> HIDE DEF u
  <2>5. u = v
    BY <2>2, <2>3, <2>4
  <2> QED BY <2>5 DEF u, v
<1> QED BY <1>1, <1>2, <1>3 DEF t

LEMMA RedirectionInit == R!Init => RedirectionInv
<1> SUFFICES ASSUME R!Init PROVE RedirectionInv
  OBVIOUS
<1>1. rPending \in Seq(Emulated)
  BY ModesAreConfigured DEF R!Init
<1>2. FillInv
  BY <1>1 DEF R!Init, FillInv
<1>3. AnswerInv
  BY DEF R!Init, AnswerInv
<1> QED BY <1>2, <1>3 DEF RedirectionInv

\* The table's lookup needs no more than its entries.
LEMMA FilledIsReady ==
  ASSUME FillInv, rStep = "ready", ~rStarved
  PROVE  Ready /\ R!RedirectionIsWhole
BY DEF FillInv, Ready, R!RedirectionIsWhole

LEMMA FillingKeeps ==
  ASSUME RedirectionInv, R!InitRegistryRedirection
  PROVE  RedirectionInv'
<1> DEFINE blank == R!Config("", "", 0)
<1>1. rQuery = R!NoReply /\ rReply = R!NoReply
  <2>1. rStep # "ready"
    BY DEF R!InitRegistryRedirection, R!OpenPredefinedKeyHandle, R!OpenKey, R!AddEntry,
           R!QueryRegKeyFullPath, R!FillEntry, R!InitAdvancedRegistryRedirection,
           R!LepInitializeVirtualMuiLanguage, R!NoVirtualLanguage, R!Filled
  <2> QED BY <2>1 DEF RedirectionInv, AnswerInv
<1>2. AnswerInv'
  BY <1>1 DEF AnswerInv, R!InitRegistryRedirection, R!NoReply
<1>3. rPending # <<>> => Tail(rPending) \in Seq(Emulated) /\ Head(rPending) \in Emulated
  <2>1. rPending \in Seq(Emulated)
    BY DEF RedirectionInv, FillInv
  <2> QED BY <2>1
<1>4. FillInv'
  <2> USE DEF RedirectionInv
  <2> HIDE DEF blank
  <2>0. LET t == Append(rWhole, R!Config("", "", 0))
        IN /\ t # <<>> /\ R!Front(t) = rWhole
           /\ \A c \in Emulated : [t EXCEPT ![Len(t)] = c] = Append(rWhole, c)
    <3>1. rWhole \in Seq(Emulated)
      BY DEF FillInv
    <3> DEFINE e == R!Config("", "", 0)
               t == Append(rWhole, e)
    <3> HIDE DEF e
    <3>3. \A c \in Emulated : t # <<>> /\ R!Front(t) = rWhole /\ [t EXCEPT ![Len(t)] = c] = Append(rWhole, c)
      <4> TAKE c \in Emulated
      <4> HIDE DEF Emulated
      <4> QED BY <3>1, LastEntry
    <3>4. R!Config(R!Desktop, "ACP", 0) \in Emulated
      BY DEF Emulated, R!Config, Named
    <3> QED BY <3>3, <3>4 DEF e
  <2>1. CASE R!OpenPredefinedKeyHandle
    BY <1>3, <2>1 DEF R!InitRegistryRedirection, R!OpenPredefinedKeyHandle, R!NextConfig, FillInv
  <2>2. CASE R!OpenKey
    BY <1>3, <2>2 DEF R!InitRegistryRedirection, R!OpenKey, R!NextConfig, FillInv
  <2>3. CASE R!AddEntry
    BY <1>3, <2>3 DEF R!InitRegistryRedirection, R!AddEntry, FillInv
  <2>4. CASE R!QueryRegKeyFullPath
    <3>1. ~rStarved /\ R!RemoveLast => rTable' = rWhole
      BY <2>4, <2>0 DEF R!QueryRegKeyFullPath, R!RemoveLast, FillInv
    <3> QED BY <1>3, <2>4, <3>1 DEF R!InitRegistryRedirection, R!QueryRegKeyFullPath, R!NextConfig, FillInv
  <2>5. CASE R!FillEntry
    <3>1. rPending # <<>>
      BY <2>5 DEF R!FillEntry, FillInv
    <3>2. ~rStarved /\ R!RemoveLast => rTable' = rWhole
      BY <2>5, <2>0 DEF R!FillEntry, R!RemoveLast, FillInv
    <3>3. ~rStarved /\ rTable' = (IF rTable = <<>> THEN <<>> ELSE [rTable EXCEPT ![Len(rTable)] = Head(rPending)])
          => rTable' = Append(rWhole, Head(rPending))
      BY <1>3, <2>5, <2>0, <3>1 DEF R!FillEntry, FillInv
    <3>4. Append(rWhole, Head(rPending)) \in Seq(Emulated)
      <4>1. rWhole \in Seq(Emulated)
        BY DEF FillInv
      <4> QED BY <1>3, <3>1, <4>1
    <3>5. rWhole' \in Seq(Emulated) /\ (~rStarved => rTable' = rWhole')
      BY <2>5, <3>2, <3>3, <3>4 DEF R!FillEntry, FillInv
    <3> QED BY <1>3, <2>5, <3>1, <3>5 DEF R!InitRegistryRedirection, R!FillEntry, R!NextConfig, FillInv
  <2>6. CASE R!InitAdvancedRegistryRedirection
    BY <2>6, UserIsConfigured DEF R!InitRegistryRedirection, R!InitAdvancedRegistryRedirection, FillInv
  <2>7. CASE R!LepInitializeVirtualMuiLanguage
    BY <2>7 DEF R!InitRegistryRedirection, R!LepInitializeVirtualMuiLanguage, R!Filled, FillInv
  <2>8. CASE R!NoVirtualLanguage
    BY <2>8 DEF R!InitRegistryRedirection, R!NoVirtualLanguage, R!Filled, FillInv
  <2> QED BY <2>1, <2>2, <2>3, <2>4, <2>5, <2>6, <2>7, <2>8 DEF R!InitRegistryRedirection
<1> QED BY <1>2, <1>4 DEF RedirectionInv

\* What a query is answered does not change while the table, the modes and the
\* installed language do not.
LEMMA SameAnswer ==
  ASSUME UNCHANGED <<rModes, rTable, rChain>>, NEW CONSTANT q
  PROVE  R!Reply(q)' = R!Reply(q)
<1>1. R!LepQueryVirtualInstallLanguageFallback(q)' = R!LepQueryVirtualInstallLanguageFallback(q)
  BY DEF R!LepQueryVirtualInstallLanguageFallback
<1>2. \A name : R!LepQueryVirtualMuiKeyValue(q, name)' = R!LepQueryVirtualMuiKeyValue(q, name)
  BY DEF R!LepQueryVirtualMuiKeyValue
<1>3. \A key, name : R!LookupRegistryRedirectionEntry(key, name)' = R!LookupRegistryRedirectionEntry(key, name)
  BY DEF R!LookupRegistryRedirectionEntry, R!SelectInSeq, R!Min
<1>4. R!LepNtQueryValueKey(q)' = R!LepNtQueryValueKey(q)
  BY <1>1, <1>2, <1>3 DEF R!LepNtQueryValueKey
<1>5. R!LepNtEnumerateValueKey(q)' = R!LepNtEnumerateValueKey(q)
  BY <1>2 DEF R!LepNtEnumerateValueKey
<1> QED BY <1>4, <1>5 DEF R!Reply

LEMMA QueryKeeps ==
  ASSUME RedirectionInv, R!Query
  PROVE  RedirectionInv'
<1>1. FillInv'
  BY DEF RedirectionInv, FillInv, R!Query
<1>2. PICK q : q \in R!Queries /\ rQuery' = q /\ rReply' = R!Reply(q)
  BY DEF R!Query
<1>3. q \in Asked /\ (rModes.language = 2 \/ q.kind = "value")
  <2>1. CASE q \in [kind : {"value"}, value : R!Values, class : R!Classes, length : BufferLengths]
    <3>1. q \in [kind : {"value"}, value : R!Values, class : R!Classes, length : Nat] /\ q.kind = "value"
      BY <2>1, BoundsAssumption
    <3> QED BY <3>1 DEF Asked
  <2>2. CASE rModes.language = 2 /\ q \notin [kind : {"value"}, value : R!Values, class : R!Classes,
                                              length : BufferLengths]
    <3>1. \/ q \in [kind : {"enumerate key"}, index : 0 .. 3, class : {"basic", "full"}, length : BufferLengths]
          \/ q \in [kind : {"enumerate value"}, index : 0 .. 4, class : R!Classes, length : BufferLengths]
          \/ q \in [kind : {"key"}, class : {"name", "basic", "full"}, length : BufferLengths]
          \/ q \in [kind : {"license"}, length : BufferLengths]
      BY <1>2, <2>2 DEF R!Queries
    <3>2. q \in Asked
      BY <3>1, BoundsAssumption DEF Asked
    <3> QED BY <2>2, <3>2
  <2> QED BY <1>2, <2>1, <2>2 DEF R!Queries
<1>4. Ready
  BY FilledIsReady DEF RedirectionInv, R!Query
<1>5. Ready' /\ R!Reply(q)' = R!Reply(q)
  BY <1>4, SameAnswer DEF Ready, R!Query
<1>6. AnswerInv'
  BY <1>2, <1>3, <1>5 DEF AnswerInv, Answered, R!Query
<1> QED BY <1>1, <1>6 DEF RedirectionInv

LEMMA QueryAgainKeeps ==
  ASSUME RedirectionInv, R!QueryAgain
  PROVE  RedirectionInv'
<1>1. FillInv'
  BY DEF RedirectionInv, FillInv, R!QueryAgain
<1>2. rStep = "ready" /\ ~rStarved /\ Answered
  <2>1. R!NoReply.status = "none"
    BY DEF R!NoReply
  <2> QED BY <2>1 DEF RedirectionInv, AnswerInv, R!QueryAgain
<1>3. rReply.required \in Nat
  BY <1>2, AnsweredFits DEF R!QueryAgain
<1>4. PICK q : q = [rQuery EXCEPT !.length = rReply.required]
  OBVIOUS
<1>5. q \in Asked /\ (rModes.language = 2 \/ q.kind = "value")
  BY <1>2, <1>3, <1>4, SameCall DEF Answered
<1>6. rQuery' = q /\ rReply' = R!Reply(q)
  BY <1>4 DEF R!QueryAgain
<1>7. Ready' /\ R!Reply(q)' = R!Reply(q)
  BY <1>2, SameAnswer DEF Answered, Ready, R!QueryAgain
<1>8. AnswerInv'
  BY <1>2, <1>5, <1>6, <1>7 DEF AnswerInv, Answered, R!QueryAgain
<1> QED BY <1>1, <1>8 DEF RedirectionInv

LEMMA RedirectionNext ==
  ASSUME RedirectionInv, R!Next \/ UNCHANGED RedirectionVars
  PROVE  RedirectionInv'
<1>1. CASE R!Next
  BY <1>1, FillingKeeps, QueryKeeps, QueryAgainKeeps DEF R!Next
<1>2. CASE UNCHANGED RedirectionVars
  <2>1. FillInv'
    BY <1>2 DEF RedirectionInv, FillInv, RedirectionVars
  <2>2. PICK q : q = rQuery
    OBVIOUS
  <2>3. R!Reply(q)' = R!Reply(q)
    BY <1>2, SameAnswer DEF RedirectionVars
  <2>4. AnswerInv'
    BY <1>2, <2>2, <2>3 DEF RedirectionInv, AnswerInv, Answered, Ready, RedirectionVars
  <2> QED BY <2>1, <2>4 DEF RedirectionInv
<1> QED BY <1>1, <1>2

LEMMA RedirectionInvImplies == RedirectionInv => R!RedirectionIsWhole /\ R!AnswerFits
<1> SUFFICES ASSUME RedirectionInv PROVE R!RedirectionIsWhole /\ R!AnswerFits
  OBVIOUS
<1>1. R!RedirectionIsWhole
  BY DEF RedirectionInv, FillInv, R!RedirectionIsWhole
<1>2. R!AnswerFits
  <2>1. CASE rReply = R!NoReply
    BY <2>1 DEF R!AnswerFits, R!NoReply
  <2>2. CASE Answered
    BY <2>2, AnsweredFits
  <2> QED BY <2>1, <2>2 DEF RedirectionInv, AnswerInv
<1> QED BY <1>1, <1>2

(* Once the table is filled it holds the entries of the configurations that  *)
(* were completed and no key is open, and every answer fits the buffer it is *)
(* written to and the length it announces: for any lengths of buffers.       *)
THEOREM RedirectionStaysRight == MCSpec => []RedirectionRight
<1> DEFINE Inv == active = "redirection" => RedirectionInv
<1>1. MCInit => Inv
  BY RedirectionInit DEF MCInit
<1>2. Inv /\ [MCNext]_<<active, vars, RedirectionVars, StartupVars, CreationVars, NameVars>> => Inv'
  <2> SUFFICES ASSUME Inv, [MCNext]_<<active, vars, RedirectionVars, StartupVars, CreationVars, NameVars>>
               PROVE  Inv'
    OBVIOUS
  <2>1. active' = active
    BY DEF MCNext
  <2>2. active = "redirection" => R!Next \/ UNCHANGED RedirectionVars
    BY DEF MCNext
  <2> QED BY <2>1, <2>2, RedirectionNext
<1>3. Inv => RedirectionRight
  BY RedirectionInvImplies DEF RedirectionRight
<1> QED BY <1>1, <1>2, <1>3, PTL DEF MCSpec

-----------------------------------------------------------------------------
(* Processes created on two threads of one process: the lemmas of            *)
(* InjectionProofs, for the five processes there are here.                   *)

J == INSTANCE InjectionProofs WITH Procs <- DOMAIN WordSize, Launcher <- launcher, Mortal <- {},
       MaxLaunches <- 1, Arch <- WordSize,
       run <- iRun, entry <- iEntry, prot <- iProt, remote <- iRemote, lep <- iLep,
       creator <- iCreator, outer <- iOuter, resumes <- iResumes, at <- iAt, status <- iStatus,
       held <- iHeld, frame <- iFrame, kind <- iKind, stage <- iStage, local <- iLocal,
       writable <- iWritable, outcome <- iOutcome, handle <- iHandle, result <- iResult

LEMMA SameStart == I!Init => J!Init
BY DEF I!Init, J!Init

LEMMA SameSteps == I!Next => J!Next
<1> USE DEF I!processVars, J!processVars, I!creatorVars, J!creatorVars, I!workVars,
            J!workVars, I!configVars, J!configVars, I!Set, J!Set, I!Thread,
            J!Thread, I!Broker, J!Broker, I!IsBroker, J!IsBroker,
            I!BrokerFrame, J!BrokerFrame, I!Alive, J!Alive, I!After, J!After,
            I!Working, J!Working, I!Stage, J!Stage, I!Advance, J!Advance,
            I!Acquire, J!Acquire, I!CrossAcquires, J!CrossAcquires, I!Cardinality,
            J!Cardinality
<1>1. \A c : I!SkipInjection(c) => J!SkipInjection(c)
  BY DEF I!SkipInjection, J!SkipInjection
<1>2. \A c : I!InjectSameArchitecture(c) => J!InjectSameArchitecture(c)
  BY DEF I!InjectSameArchitecture, J!InjectSameArchitecture
<1>3. \A c : I!InjectCrossArchitecture(c) => J!InjectCrossArchitecture(c)
  BY DEF I!InjectCrossArchitecture, J!InjectCrossArchitecture
<1>4. \A c : I!InjectionReturns(c) => J!InjectionReturns(c)
  BY DEF I!InjectionReturns, J!InjectionReturns
<1>5. \A c : I!BuildBrokerPayload(c) => J!BuildBrokerPayload(c)
  BY DEF I!BuildBrokerPayload, J!BuildBrokerPayload
<1>6. \A c : I!CreateFileMapping(c) => J!CreateFileMapping(c)
  BY DEF I!CreateFileMapping, J!CreateFileMapping
<1>7. \A c : I!MapViewOfFile(c) => J!MapViewOfFile(c)
  BY DEF I!MapViewOfFile, J!MapViewOfFile
<1>8. \A c : I!CrossFails(c) => J!CrossFails(c)
  BY DEF I!CrossFails, J!CrossFails
<1>9. \A c, b : I!LaunchBroker(c, b) => J!LaunchBroker(c, b)
  BY DEF I!LaunchBroker, J!LaunchBroker
<1>10. \A c : I!PopFrame(c) => J!PopFrame(c)
  BY DEF I!PopFrame, J!PopFrame
<1>11. \A c : I!DuplicateHandle(c) => J!DuplicateHandle(c)
  BY DEF I!DuplicateHandle, J!DuplicateHandle
<1>12. \A c : I!ResumeBroker(c) => J!ResumeBroker(c)
  BY DEF I!ResumeBroker, J!ResumeBroker
<1>13. \A c : I!ResumeBrokerFails(c) => J!ResumeBrokerFails(c)
  BY DEF I!ResumeBrokerFails, J!ResumeBrokerFails
<1>14. \A c : I!ReadResult(c) => J!ReadResult(c)
  BY DEF I!ReadResult, J!ReadResult
<1>15. \A c : I!ResumeLaunched(c) => J!ResumeLaunched(c)
  BY DEF I!ResumeLaunched, J!ResumeLaunched
<1>16. \A c : I!ResumeChild(c) => J!ResumeChild(c)
  BY DEF I!ResumeChild, J!ResumeChild
<1>17. \A c : I!LoadPeImage(c) => J!LoadPeImage(c)
  BY DEF I!LoadPeImage, J!LoadPeImage
<1>18. \A c : I!BuildBootstrapPayload(c) => J!BuildBootstrapPayload(c)
  BY DEF I!BuildBootstrapPayload, J!BuildBootstrapPayload
<1>19. \A c : I!ReadLdrLoadDll(c) => J!ReadLdrLoadDll(c)
  BY DEF I!ReadLdrLoadDll, J!ReadLdrLoadDll
<1>20. \A c : I!QueryAccess(c) => J!QueryAccess(c)
  BY DEF I!QueryAccess, J!QueryAccess
<1>21. \A c : I!AllocVirtualMemoryEx(c) => J!AllocVirtualMemoryEx(c)
  BY DEF I!AllocVirtualMemoryEx, J!AllocVirtualMemoryEx
<1>22. \A c : I!ProtectLdrLoadDll(c) => J!ProtectLdrLoadDll(c)
  BY DEF I!ProtectLdrLoadDll, J!ProtectLdrLoadDll
<1>23. \A c : I!WriteImage(c) => J!WriteImage(c)
  BY DEF I!WriteImage, J!WriteImage
<1>24. \A c : I!WritePayload(c) => J!WritePayload(c)
  BY DEF I!WritePayload, J!WritePayload
<1>25. \A c : I!WriteJump(c) => J!WriteJump(c)
  BY DEF I!WriteJump, J!WriteJump
<1>26. \A c : I!StageFails(c) => J!StageFails(c)
  BY DEF I!StageFails, J!StageFails
<1>27. \A c : I!ReportResult(c) => J!ReportResult(c)
  BY DEF I!ReportResult, J!ReportResult
<1>28. \A c : I!UnloadPeImage(c) => J!UnloadPeImage(c)
  BY DEF I!UnloadPeImage, J!UnloadPeImage
<1>29. \A c : I!RestoreProtection(c) => J!RestoreProtection(c)
  BY DEF I!RestoreProtection, J!RestoreProtection
<1>30. \A c : I!FreeRemoteImage(c) => J!FreeRemoteImage(c)
  BY DEF I!FreeRemoteImage, J!FreeRemoteImage
<1>31. \A c : I!OpenMapping(c) => J!OpenMapping(c)
  BY DEF I!OpenMapping, J!OpenMapping
<1>32. \A c : I!AcceptHandle(c) => J!AcceptHandle(c)
  BY DEF I!AcceptHandle, J!AcceptHandle
<1>33. \A c : I!BrokerExits(c) => J!BrokerExits(c)
  BY DEF I!BrokerExits, J!BrokerExits
<1>34. \A c : I!LoadFirstDll(c) => J!LoadFirstDll(c)
  BY DEF I!LoadFirstDll, J!LoadFirstDll
<1>35. \A c : I!RestorePage(c) => J!RestorePage(c)
  BY DEF I!RestorePage, J!RestorePage
<1>36. \A c : I!Initialize(c) => J!Initialize(c)
  BY DEF I!Initialize, J!Initialize
<1>37. \A c, asksToRun : I!LepCreateProcess2(c, asksToRun) => J!LepCreateProcess2(c, asksToRun)
  BY DEF I!LepCreateProcess2, J!LepCreateProcess2
<1>38. \A c : I!CallerResumes(c) => J!CallerResumes(c)
  BY DEF I!CallerResumes, J!CallerResumes
<1>39. \A p : I!Kill(p) => J!Kill(p)
  BY DEF I!Kill, J!Kill
<1>40. \A p, c, asksToRun :
         I!LepNtCreateUserProcess(p, c, asksToRun) => J!LepNtCreateUserProcess(p, c, asksToRun)
  BY DEF I!LepNtCreateUserProcess, J!LepNtCreateUserProcess
<1> HIDE DEF I!processVars, J!processVars, I!creatorVars, J!creatorVars, I!workVars,
             J!workVars, I!configVars, J!configVars, I!Set, J!Set, I!Thread,
             J!Thread, I!Broker, J!Broker, I!IsBroker, J!IsBroker,
             I!BrokerFrame, J!BrokerFrame, I!Alive, J!Alive, I!After, J!After,
             I!Working, J!Working, I!Stage, J!Stage, I!Advance, J!Advance,
             I!Acquire, J!Acquire, I!CrossAcquires, J!CrossAcquires, I!Cardinality,
             J!Cardinality
<1> QED BY <1>1, <1>2, <1>3, <1>4, <1>5, <1>6, <1>7, <1>8, <1>9, <1>10, <1>11, <1>12, <1>13,
           <1>14, <1>15, <1>16, <1>17, <1>18, <1>19, <1>20, <1>21, <1>22, <1>23, <1>24, <1>25,
           <1>26, <1>27, <1>28, <1>29, <1>30, <1>31, <1>32, <1>33, <1>34, <1>35, <1>36, <1>37,
           <1>38, <1>39, <1>40
       DEF I!Next, J!Next, I!Create, J!Create, I!Work, J!Work, I!Bootstrap, J!Bootstrap

LEMMA SameOutcome == J!SuccessIsArmed => I!SuccessIsArmed
BY DEF J!SuccessIsArmed, I!SuccessIsArmed, I!IsBroker, J!IsBroker

LEMMA SameVars == UNCHANGED CreationVars => UNCHANGED J!vars
BY DEF CreationVars, J!vars, J!processVars, J!creatorVars, J!workVars, J!configVars

LEMMA ChildrenInit == I!Init => J!IInv
BY SameStart, J!InitEstablishesIInv, ProcessesAssumption, SMT DEF WordSize

LEMMA ChildrenNext ==
  ASSUME J!IInv, I!Next \/ UNCHANGED CreationVars
  PROVE  J!IInv'
<1>1. J!Next \/ UNCHANGED J!vars
  BY SameSteps, SameVars
<1>2. launcher \in DOMAIN WordSize /\ None \notin DOMAIN WordSize
  BY ProcessesAssumption DEF WordSize
<1>3. WordSize \in [DOMAIN WordSize -> {"x86", "x64"}]
  BY DEF WordSize
<1> QED BY <1>1, <1>2, <1>3, J!NextKeepsIInv

LEMMA ChildrenArmed == J!IInv => I!SuccessIsArmed
<1>1. J!IInv => J!SuccessIsArmed
  BY DEF J!IInv, J!Local, J!WorkInv, J!ToldInv, J!SuccessIsArmed, J!IsBroker
<1> QED BY <1>1, SameOutcome

(* A child reported as injected starts in LEP's entry point with image and   *)
(* payload complete, also while two threads of its parent create processes.  *)
THEOREM ChildrenAreArmed == MCSpec => []SuccessIsArmed
<1> DEFINE Inv == active = "creation" => J!IInv
<1>1. MCInit => Inv
  BY ChildrenInit DEF MCInit
<1>2. Inv /\ [MCNext]_<<active, vars, RedirectionVars, StartupVars, CreationVars, NameVars>> => Inv'
  <2> SUFFICES ASSUME Inv, [MCNext]_<<active, vars, RedirectionVars, StartupVars, CreationVars, NameVars>>
               PROVE  Inv'
    OBVIOUS
  <2>1. active' = active
    BY DEF MCNext
  <2>2. active = "creation" => I!Next \/ UNCHANGED CreationVars
    BY DEF MCNext
  <2> QED BY <2>1, <2>2, ChildrenNext
<1>3. Inv => SuccessIsArmed
  BY ChildrenArmed DEF SuccessIsArmed
<1> QED BY <1>1, <1>2, <1>3, PTL DEF MCSpec
=============================================================================
