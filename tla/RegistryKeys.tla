---------------------------- MODULE RegistryKeys ----------------------------
(* The registry filters of Hooks/NtdllHook.cpp that present the emulated     *)
(* language as an installed MUI language. The key of that language does not  *)
(* exist: NtOpenKey opens its parent instead and notes the handle in a table *)
(* of slots, which NtClose empties and all other filters search. Slots are   *)
(* read and written one at a time with interlocked operations.               *)
EXTENDS Naturals, FiniteSets, Functions

CONSTANTS Threads,     \* threads of the program
          Handles,     \* the values the kernel gives to handles (bound)
          SlotCount,   \* places of VirtualMuiKeyHandles, 32 in the code
          None

Virtual   == "virtual"     \* UILanguages\<emulated language>
Languages == "languages"   \* UILanguages
Other     == "other"       \* any other key
Keys      == {Virtual, Languages, Other}
Slots     == 1 .. SlotCount

ASSUME SlotAssumption == SlotCount \in Nat
ASSUME NoneAssumption == None \notin Handles \cup Keys

VARIABLES open,      \* the kernel: the key behind each handle
          slot,      \* VirtualMuiKeyHandles
          pc,        \* where each thread is
          handle,    \* the handle its call works on
          cursor,    \* its place in the table
          answer,    \* the key its query was answered for
          stray      \* history: the values of handles closed past the filter

vars == <<open, slot, pc, handle, cursor, answer, stray>>

Steps == {"idle", "adding", "undoing", "removing", "closing", "naming", "answered", "parent"}

TypeOK == /\ open \in [Handles -> {Languages, Other, None}]
          /\ slot \in [Slots -> Handles \cup {None}]
          /\ pc \in [Threads -> Steps]
          /\ handle \in [Threads -> Handles \cup {None}]
          /\ cursor \in [Threads -> 1 .. SlotCount + 1]
          /\ answer \in [Threads -> Keys \cup {None}]
          /\ stray \subseteq Handles

Init == /\ open = [h \in Handles |-> None]
        /\ slot = [i \in Slots |-> None]
        /\ pc = [t \in Threads |-> "idle"]
        /\ handle = [t \in Threads |-> None]
        /\ cursor = [t \in Threads |-> 1]
        /\ answer = [t \in Threads |-> None]
        /\ stray = {}

-----------------------------------------------------------------------------
(* What the program may ask: a handle it was given and has not closed, and   *)
(* none that another of its threads is using or closing.                     *)

Busy(h)  == \E t \in Threads : pc[t] # "idle" /\ handle[t] = h
Usable(h) == open[h] # None /\ ~Busy(h)
Using(h) == \E t \in Threads : pc[t] \in {"adding", "undoing", "removing", "closing"} /\ handle[t] = h

Begin(t, h, step) == /\ pc[t] = "idle"
                     /\ pc' = [pc EXCEPT ![t] = step]
                     /\ handle' = [handle EXCEPT ![t] = h]
                     /\ cursor' = [cursor EXCEPT ![t] = 1]
                     /\ UNCHANGED <<answer, stray>>

Goto(t, step) == /\ pc' = [pc EXCEPT ![t] = step]
                 /\ cursor' = [cursor EXCEPT ![t] = 1]
                 /\ UNCHANGED <<handle, answer>>

Return(t) == /\ pc' = [pc EXCEPT ![t] = "idle"]
             /\ handle' = [handle EXCEPT ![t] = None]
             /\ cursor' = [cursor EXCEPT ![t] = 1]
             /\ answer' = [answer EXCEPT ![t] = None]

Reply(t, k) == IF handle[t] \in stray THEN Return(t)
               ELSE /\ pc' = [pc EXCEPT ![t] = "answered"]
                    /\ cursor' = [cursor EXCEPT ![t] = 1]
                    /\ answer' = [answer EXCEPT ![t] = k]
                    /\ UNCHANGED handle

Advance(t) == /\ cursor' = [cursor EXCEPT ![t] = @ + 1]
              /\ UNCHANGED <<pc, handle, answer>>

-----------------------------------------------------------------------------
(* NtOpenKey. A request for the virtual key opens its parent.                *)

OpenOther(t, k, h) == /\ k \in {Languages, Other}
                      /\ pc[t] = "idle"
                      /\ open[h] = None
                      /\ open' = [open EXCEPT ![h] = k]
                      /\ UNCHANGED <<slot, pc, handle, cursor, answer, stray>>

LepNtOpenKey(t, h) == /\ open[h] = None
                      /\ open' = [open EXCEPT ![h] = Languages]
                      /\ Begin(t, h, "adding")
                      /\ UNCHANGED slot

(* (mutant: the slot is taken without a comparison) *)
BadLepAddVirtualMuiKeyHandle(t) ==
  /\ pc[t] = "adding"
  /\ cursor[t] <= SlotCount
  /\ slot' = [slot EXCEPT ![cursor[t]] = handle[t]]
  /\ Return(t)
  /\ UNCHANGED <<open, stray>>

LepAddVirtualMuiKeyHandle(t) ==
  /\ pc[t] = "adding"
  /\ cursor[t] <= SlotCount
  /\ IF slot[cursor[t]] = None
     THEN /\ slot' = [slot EXCEPT ![cursor[t]] = handle[t]]
          /\ Return(t)
     ELSE Advance(t) /\ UNCHANGED slot
  /\ UNCHANGED <<open, stray>>

\* No place left: NtClose, which passes its own filter, and STATUS_NO_MEMORY.
TableFull(t) == /\ pc[t] = "adding"
                /\ cursor[t] > SlotCount
                /\ Goto(t, "undoing")
                /\ UNCHANGED <<open, slot, stray>>

-----------------------------------------------------------------------------
(* NtClose: the filter first, then the kernel.                               *)

(* (mutant: the kernel closes the handle, the table keeps it) *)
BadLepNtClose(t, h) == /\ Usable(h)
                       /\ Begin(t, h, "closing")
                       /\ UNCHANGED <<open, slot>>

LepNtClose(t, h) == /\ Usable(h)
                    /\ Begin(t, h, "removing")
                    /\ UNCHANGED <<open, slot>>

LepRemoveVirtualMuiKeyHandle(t) ==
  /\ pc[t] \in {"removing", "undoing"}
  /\ IF cursor[t] > SlotCount
     THEN Goto(t, "closing") /\ UNCHANGED slot
     ELSE IF slot[cursor[t]] = handle[t]
          THEN /\ slot' = [slot EXCEPT ![cursor[t]] = None]
               /\ Goto(t, "closing")
          ELSE Advance(t) /\ UNCHANGED slot
  /\ UNCHANGED <<open, stray>>

KernelClose(t) == /\ pc[t] = "closing"
                  /\ open' = [open EXCEPT ![handle[t]] = None]
                  /\ Return(t)
                  /\ UNCHANGED <<slot, stray>>

\* The handle is protected from close: NtClose fails after the filter has run.
KernelRefuses(t) == /\ pc[t] = "closing"
                    /\ Return(t)
                    /\ stray' = stray \cup {handle[t]}
                    /\ UNCHANGED <<open, slot>>

\* A handle is closed without NtClose of this process, as DuplicateHandle with
\* DUPLICATE_CLOSE_SOURCE does; no filter sees it.
ClosedElsewhere(h) == /\ Usable(h)
                      /\ open' = [open EXCEPT ![h] = None]
                      /\ stray' = stray \cup {h}
                      /\ UNCHANGED <<slot, pc, handle, cursor, answer>>

-----------------------------------------------------------------------------
(* NtQueryKey, NtEnumerateValueKey, NtQueryValueKey: a handle in the table   *)
(* is the virtual key, any other is what the kernel says.                    *)

LepNtQueryKey(t, h) == /\ Usable(h)
                       /\ Begin(t, h, "naming")
                       /\ UNCHANGED <<open, slot>>

LepIsVirtualMuiKeyHandle(t) ==
  /\ pc[t] = "naming"
  /\ IF cursor[t] > SlotCount THEN Reply(t, open[handle[t]])
     ELSE IF slot[cursor[t]] = handle[t] THEN Reply(t, Virtual)
     ELSE Advance(t)
  /\ UNCHANGED <<open, slot, stray>>

QueryReturns(t) == /\ pc[t] = "answered"
                   /\ Return(t)
                   /\ UNCHANGED <<open, slot, stray>>

\* NtOpenKey of the language's name below an open key. Whether that key is the
\* parent is asked of NtQueryKey, through its filter: the virtual key is not.
LepIsVirtualMuiOpenRequest(t, root) == /\ Usable(root)
                                       /\ Begin(t, root, "parent")
                                       /\ UNCHANGED <<open, slot>>

LepIsMuiLanguagesKeyHandle(t) ==
  /\ pc[t] = "parent"
  /\ IF cursor[t] <= SlotCount /\ slot[cursor[t]] # handle[t]
     THEN Advance(t)
     ELSE /\ cursor[t] <= SlotCount \/ open[handle[t]] # Languages
          /\ Return(t)
  /\ UNCHANGED <<open, slot, stray>>

OpenBelowParent(t, h) == /\ pc[t] = "parent"
                         /\ cursor[t] > SlotCount
                         /\ open[handle[t]] = Languages
                         /\ open[h] = None
                         /\ open' = [open EXCEPT ![h] = Languages]
                         /\ handle' = [handle EXCEPT ![t] = h]
                         /\ pc' = [pc EXCEPT ![t] = "adding"]
                         /\ cursor' = [cursor EXCEPT ![t] = 1]
                         /\ UNCHANGED <<slot, answer, stray>>

-----------------------------------------------------------------------------

\* A call of the program or the next step of one in progress.
Call(t) == \E h \in Handles : \/ \E k \in Keys : OpenOther(t, k, h)
                              \/ LepNtOpenKey(t, h)
                              \/ LepNtClose(t, h)
                              \/ LepNtQueryKey(t, h)
                              \/ LepIsVirtualMuiOpenRequest(t, h)

Step(t) == \/ LepAddVirtualMuiKeyHandle(t) \/ TableFull(t)
           \/ LepRemoveVirtualMuiKeyHandle(t) \/ KernelClose(t) \/ KernelRefuses(t)
           \/ LepIsVirtualMuiKeyHandle(t) \/ QueryReturns(t) \/ LepIsMuiLanguagesKeyHandle(t)
           \/ \E h \in Handles : OpenBelowParent(t, h)

Next == \/ \E t \in Threads : Call(t) \/ Step(t)
        \/ \E h \in Handles : ClosedElsewhere(h)

Spec == Init /\ [][Next]_vars

-----------------------------------------------------------------------------

\* A slot holds an open handle on the parent of the virtual key, no two slots the
\* same one, and none of them a handle whose close has passed the filter or that
\* is still being noted: no slot outlives its handle, so a value the kernel gives
\* again never turns another key into the virtual one. What is closed past the
\* filters harms later handles of the same value only (NtdllHook.cpp:1605, 1641).
SlotsAreOpen ==
  /\ \A i \in Slots : slot[i] \notin stray \cup {None} => open[slot[i]] = Languages
  /\ \A i, j \in Slots : slot[i] \notin stray \cup {None} /\ slot[i] = slot[j] => i = j
  /\ \A t \in Threads : pc[t] \in {"adding", "undoing", "closing"} /\ handle[t] \notin stray =>
                           \A i \in Slots : slot[i] # handle[t]

\* What a call in progress has established: its handle is open and no other call
\* has it; a handle to be noted is one of the parent; a search has not found it in
\* the places it has passed; only a query that was answered has an answer.
CallsInv ==
  /\ \A t \in Threads : pc[t] # "idle" => handle[t] \in Handles /\ open[handle[t]] # None
  /\ \A t, u \in Threads : pc[t] # "idle" /\ pc[u] # "idle" /\ handle[t] = handle[u] => t = u
  /\ \A t \in Threads : pc[t] = "adding" => open[handle[t]] = Languages
  /\ \A t \in Threads : pc[t] \in {"removing", "undoing", "naming"} =>
                           \A i \in Slots : i < cursor[t] => slot[i] # handle[t]
  /\ \A t \in Threads : pc[t] # "answered" => answer[t] = None

IInv == TypeOK /\ CallsInv /\ SlotsAreOpen

\* The key a handle of the program stands for. The program has a handle from the
\* return of NtOpenKey to the call of NtClose; strayed values promise nothing.
View == [h \in Handles |-> IF h \in stray \/ open[h] = None \/ Using(h) THEN None
                           ELSE IF \E i \in Slots : slot[i] = h THEN Virtual
                           ELSE open[h]]

RV == INSTANCE RegistryView WITH view <- View

\* Whatever calls overlap, a handle stands for the key it was opened on until it is
\* closed, and every query is answered for that key (NtdllHook.cpp:707-764).
ImplementsView == RV!Spec
=============================================================================
