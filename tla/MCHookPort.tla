----------------------------- MODULE MCHookPort -----------------------------
(* A small instance of HookPort with the GUI modules coming and going and  *)
(* the core being unloaded.  The history variable tells whether memory of  *)
(* the port was taken away that a wrapper may be reading.                  *)
EXTENDS HookPort

CONSTANTS nt1, gui1, f1, f2, t1

VARIABLE retired

InUse == \E t \in Threads : pc[t] \in Running

(* The table is replaced or a callback removed under a running wrapper,    *)
(* g_Patches grows, or the last UnInstallHookPort begins.                  *)
Retires == \/ InUse /\ table' # table
           \/ InUse /\ ~At("removeBit") /\ op'.at = "removeBit"
           \/ patchArray' = "freed"
           \/ refCount' = 0 /\ refCount # 0

MCInit == Init /\ retired = FALSE
MCNext == Next /\ retired' = (retired \/ Retires)
MCSpec == MCInit /\ [][MCNext]_<<vars, retired>> /\ Fairness

(* While filters are registered and removed, registrations fail and GUI    *)
(* modules come and go, a wrapper reaches the callbacks or the original    *)
(* its caller asked for: it never uses a null or freed pointer, until      *)
(* memory it may be reading is taken away (DispatchTypedFilter, HpNt...).  *)
NoFaultYet == retired \/ NoFault

(* A filter HpAddSystemCallFilter reported as registered is reached by     *)
(* callers: between operations, every call with a filter is patched and    *)
(* enabled.  It is not after the GUI modules were mapped a second time     *)
(* (PatchSystemCall takes the old entry of g_Patches for the new stub).    *)
RegisteredIsReached ==
  At("idle") /\ guiLoads <= 1 =>
    \A c \in Calls : bitmap[c] # {} => entry[c] = "jump" /\ enabled[c]
=============================================================================
