-------------------------- MODULE User32Environment --------------------------
(***************************************************************************)
(* The private copy of USER32's server information (User32Environment.cpp).*)
(* USER32 finds its settings through a pointer, the slot.  When the DBCS   *)
(* bit there is not the one of the emulated code page, the slot is made to *)
(* point to a copy with the right bit, which every hook that depends on it *)
(* refreshes first (SyncUser32Environment).                                *)
(*                                                                         *)
(* Threads synchronise under the critical section; USER32 itself reads the *)
(* slot on any thread (Readers) and the host changes the mapping or makes  *)
(* the slot point to another one without asking anybody.  The contents of  *)
(* a mapping are its DBCS bit and the number of changes of all the rest.   *)
(*                                                                         *)
(* A definition named Bad... is a plausible mistake in the one after it.   *)
(***************************************************************************)
EXTENDS Naturals, FiniteSets

CONSTANTS
  Threads,    \* threads that run hooks
  Readers,    \* threads inside USER32's own code
  Mappings,   \* server mappings, of which
  Unfit,      \* these have a readable tail below a page or above 1 MiB
  Copies,     \* bound: addresses AllocateVirtualMemory may return
  Dbcs,       \* TargetDbcs
  WritesFail, \* may SetServerInfoSlot fail?
  HostReturns,\* may the host store the mapping again that Source is?
  MaxChanges, \* bound: changes of a mapping
  MaxSwitches,\* bound: changes of the slot by the host
  MaxInits,   \* bound: calls of Initialize
  None

Addresses == Mappings \cup Copies

VARIABLES
  slot,      \* *Slot
  bit,       \* the DBCS bit at an address
  rest,      \* the number of changes of the rest that are visible there
  copy,      \* a copy: "free", "private" or "published"
  source,    \* Source
  shadow,    \* Shadow
  lockReady, \* LockReady
  stopped,   \* Stopped
  lock,      \* the thread in the critical section
  pc,        \* where a thread is in Synchronize
  original,  \* its local Original
  fresh,     \* its local NewShadow
  done,      \* it did what it came for, and the host did nothing meanwhile
  pointer,   \* what a reader loaded from the slot
  restoring, \* Restore has found the slot pointing to the copy
  changes, switches, inits

hostVars   == << changes, switches >>
memoryVars == << bit, rest, copy >>
stateVars  == << source, shadow, lockReady, stopped, restoring, inits >>
threadVars == << lock, pc, original, fresh, done >>
vars == << slot, memoryVars, stateVars, threadVars, pointer, hostVars >>

Init ==
  /\ slot \in Mappings \cup {None}
  /\ bit \in { f \in [Addresses -> BOOLEAN] : \A c \in Copies : ~f[c] }
  /\ rest = [a \in Addresses |-> 0]
  /\ copy = [c \in Copies |-> "free"]
  /\ source = None /\ shadow = None
  /\ lockReady = FALSE /\ stopped = FALSE
  /\ lock = None
  /\ pc = [t \in Threads |-> "out"]
  /\ original = [t \in Threads |-> None]
  /\ fresh = [t \in Threads |-> None]
  /\ done = [t \in Threads |-> FALSE]
  /\ pointer = [r \in Readers |-> None]
  /\ restoring = FALSE
  /\ changes = 0 /\ switches = 0 /\ inits = 0

-----------------------------------------------------------------------------
(* User32Environment::Initialize, called when USER32 has been loaded.  It  *)
(* may not recognise CheckDBCSEnabledExt or not get a critical section.    *)
Initialize(locates) ==
  /\ inits < MaxInits /\ inits' = inits + 1
  /\ ~lockReady
  /\ source' = None /\ shadow' = None /\ stopped' = FALSE
  /\ lockReady' = locates
  /\ UNCHANGED << slot, memoryVars, restoring, threadVars, pointer, hostVars >>

(* User32Environment::Restore: callers are quiescent.  The slot is tested, *)
(* then written.                                                           *)
Quiescent == \A t \in Threads : pc[t] = "out"

RestoreTest ==
  /\ lockReady /\ ~stopped /\ Quiescent
  /\ stopped' = TRUE
  /\ IF shadow # None /\ slot = shadow
       THEN restoring' = TRUE /\ UNCHANGED lockReady
       ELSE lockReady' = FALSE /\ UNCHANGED restoring
  /\ UNCHANGED << slot, memoryVars, source, shadow, inits, threadVars, pointer, hostVars >>

RestoreWrite ==
  /\ restoring
  /\ \/ slot' = source
     \/ WritesFail /\ UNCHANGED slot
  /\ restoring' = FALSE /\ lockReady' = FALSE
  /\ UNCHANGED << memoryVars, source, shadow, stopped, inits, threadVars, pointer, hostVars >>

-----------------------------------------------------------------------------
(* User32Environment::Synchronize. *)

Step(t, from, to) == pc[t] = from /\ pc' = [pc EXCEPT ![t] = to]

CallSynchronize(t) ==
  /\ Step(t, "out", "enter")
  /\ lockReady /\ ~stopped
  /\ done' = [done EXCEPT ![t] = FALSE]
  /\ UNCHANGED << slot, memoryVars, stateVars, lock, original, fresh, pointer, hostVars >>

EnterCriticalSection(t) ==
  /\ Step(t, "enter", "read")
  /\ lock = None
  /\ lock' = t
  /\ UNCHANGED << slot, memoryVars, stateVars, original, fresh, done, pointer, hostVars >>

(* ReadableRegion, Type = MEM_MAPPED and the bounds of the size. *)
Readable(a) == a \in Mappings \ Unfit

(* The mapping behind what the slot points to. *)
Original == IF slot = shadow THEN source ELSE slot

ReadSlot(t) ==
  /\ lock = t
  /\ IF stopped \/ slot = None \/ (Original # source /\ ~Readable(Original))
       THEN Step(t, "read", "leave") /\ UNCHANGED << original, done >>
       ELSE /\ Step(t, "read", "flags")
            /\ original' = [original EXCEPT ![t] = Original]
            /\ done' = [done EXCEPT ![t] = TRUE]
  /\ UNCHANGED << slot, memoryVars, stateVars, lock, fresh, pointer, hostVars >>

(* The bit is already right and there is no copy: nothing to do. *)
SameMode(t) ==
  /\ Step(t, "flags", "leave")
  /\ shadow = None /\ bit[original[t]] = Dbcs
  /\ source' = original[t]
  /\ UNCHANGED << slot, memoryVars, shadow, lockReady, stopped, restoring, inits,
                  lock, original, fresh, done, pointer, hostVars >>

BadNeedsCopy(t) == shadow = None         \* another mapping goes unnoticed

NeedsCopy(t) == original[t] # source \/ shadow = None

AllocateCopy(t) ==
  /\ pc[t] = "flags" /\ NeedsCopy(t)
  /\ ~(shadow = None /\ bit[original[t]] = Dbcs)
  /\ \/ \E c \in Copies :
          /\ copy[c] = "free"
          /\ Step(t, "flags", "publish")
          /\ fresh' = [fresh EXCEPT ![t] = c]
          /\ copy' = [copy EXCEPT ![c] = "private"]
          /\ bit' = [bit EXCEPT ![c] = Dbcs]
          /\ rest' = [rest EXCEPT ![c] = rest[original[t]]]
          /\ UNCHANGED done
     \/ /\ Step(t, "flags", "leave")
        /\ done' = [done EXCEPT ![t] = FALSE]
        /\ UNCHANGED << fresh, memoryVars >>
  /\ UNCHANGED << slot, stateVars, lock, original, pointer, hostVars >>

BadPublish(t) ==                         \* the retired copy is freed
  /\ Step(t, "publish", "leave")
  /\ slot' = fresh[t]
  /\ copy' = [c \in Copies |-> IF c = fresh[t] THEN "published"
                               ELSE IF c = shadow THEN "free" ELSE copy[c]]
  /\ source' = original[t] /\ shadow' = fresh[t]
  /\ UNCHANGED << bit, rest, lockReady, stopped, restoring, inits,
                  lock, original, fresh, done, pointer, hostVars >>

(* SetServerInfoSlot.  Copies published before stay where they are. *)
Publish(t) ==
  /\ Step(t, "publish", "leave")
  /\ slot' = fresh[t]
  /\ copy' = [copy EXCEPT ![fresh[t]] = "published"]
  /\ source' = original[t] /\ shadow' = fresh[t]
  /\ UNCHANGED << bit, rest, lockReady, stopped, restoring, inits,
                  lock, original, fresh, done, pointer, hostVars >>

PublishFails(t) ==
  /\ WritesFail
  /\ Step(t, "publish", "leave")
  /\ copy' = [copy EXCEPT ![fresh[t]] = "free"]
  /\ done' = [done EXCEPT ![t] = FALSE]
  /\ UNCHANGED << slot, bit, rest, stateVars, lock, original, fresh, pointer, hostVars >>

BadRefreshRest(t) ==                     \* from the first DWORD on
  /\ Step(t, "flags", "refresh")
  /\ ~NeedsCopy(t)
  /\ rest' = [rest EXCEPT ![shadow] = rest[source]]
  /\ bit' = [bit EXCEPT ![shadow] = bit[source]]
  /\ UNCHANGED << slot, copy, stateVars, lock, original, fresh, done, pointer, hostVars >>

(* Everything behind the first DWORD, then, with one exchange, the first. *)
RefreshRest(t) ==
  /\ Step(t, "flags", "refresh")
  /\ ~NeedsCopy(t)
  /\ rest' = [rest EXCEPT ![shadow] = rest[source]]
  /\ UNCHANGED << slot, bit, copy, stateVars, lock, original, fresh, done, pointer, hostVars >>

RefreshFlags(t) ==
  /\ Step(t, "refresh", "leave")
  /\ bit' = [bit EXCEPT ![shadow] = Dbcs]
  /\ UNCHANGED << slot, rest, copy, stateVars, lock, original, fresh, done, pointer, hostVars >>

LeaveCriticalSection(t) ==
  /\ Step(t, "leave", "out")
  /\ lock' = None
  /\ original' = [original EXCEPT ![t] = None]
  /\ fresh' = [fresh EXCEPT ![t] = None]
  /\ UNCHANGED << slot, memoryVars, stateVars, done, pointer, hostVars >>

-----------------------------------------------------------------------------
(* USER32's readers and the host. *)

LoadPointer(r) ==
  /\ pointer[r] = None /\ slot # None
  /\ pointer' = [pointer EXCEPT ![r] = slot]
  /\ UNCHANGED << slot, memoryVars, stateVars, threadVars, hostVars >>

DropPointer(r) ==
  /\ pointer[r] # None
  /\ pointer' = [pointer EXCEPT ![r] = None]
  /\ UNCHANGED << slot, memoryVars, stateVars, threadVars, hostVars >>

Disturbed == done' = [t \in Threads |-> FALSE]

HostChanges(m) ==
  /\ changes < MaxChanges /\ changes' = changes + 1
  /\ \/ rest' = [rest EXCEPT ![m] = @ + 1] /\ UNCHANGED bit
     \/ bit' = [bit EXCEPT ![m] = ~@] /\ UNCHANGED rest
  /\ Disturbed
  /\ UNCHANGED << slot, copy, stateVars, lock, pc, original, fresh, pointer, switches >>

(* Another window station, or USER32 loaded again. *)
HostSwitches(m) ==
  /\ HostReturns \/ m # source
  /\ switches < MaxSwitches /\ switches' = switches + 1
  /\ slot # m /\ slot' = m
  /\ Disturbed
  /\ UNCHANGED << memoryVars, stateVars, lock, pc, original, fresh, pointer, changes >>

-----------------------------------------------------------------------------
Critical(t) ==
  \/ ReadSlot(t) \/ SameMode(t) \/ AllocateCopy(t) \/ Publish(t) \/ PublishFails(t)
  \/ RefreshRest(t) \/ RefreshFlags(t) \/ LeaveCriticalSection(t)

Next ==
  \/ \E locates \in BOOLEAN : Initialize(locates)
  \/ RestoreTest \/ RestoreWrite
  \/ \E t \in Threads : CallSynchronize(t) \/ EnterCriticalSection(t) \/ Critical(t)
  \/ \E r \in Readers : LoadPointer(r) \/ DropPointer(r)
  \/ \E m \in Mappings : HostChanges(m) \/ HostSwitches(m)

Spec == Init /\ [][Next]_vars

-----------------------------------------------------------------------------
MemoryTypes ==
  /\ slot \in Addresses \cup {None}
  /\ bit \in [Addresses -> BOOLEAN]
  /\ rest \in [Addresses -> Nat]
  /\ copy \in [Copies -> {"free", "private", "published"}]
  /\ pointer \in [Readers -> Addresses \cup {None}]

CountTypes == changes \in Nat /\ switches \in Nat /\ inits \in Nat

FlagTypes == lockReady \in BOOLEAN /\ stopped \in BOOLEAN /\ restoring \in BOOLEAN

ThreadTypes ==
  /\ source \in Addresses \cup {None} /\ shadow \in Copies \cup {None}
  /\ lock \in Threads \cup {None}
  /\ pc \in [Threads -> {"out", "enter", "read", "flags", "publish", "refresh", "leave"}]
  /\ original \in [Threads -> Addresses \cup {None}]
  /\ fresh \in [Threads -> Copies \cup {None}]
  /\ done \in [Threads -> BOOLEAN]

Types == MemoryTypes /\ CountTypes /\ FlagTypes /\ ThreadTypes

Exclusion == \A t \in Threads : pc[t] \notin {"out", "enter"} <=> lock = t

(* Types, and the critical section excludes. *)
TypeOK == Types /\ Exclusion

Reachable == { slot } \cup { pointer[r] : r \in Readers }

(* Whatever USER32 may still read through was published and stays mapped:  *)
(* a reader that loaded the slot before a newer copy, or Restore, replaced *)
(* it goes on with the old one.                                            *)
NoDanglingReader ==
  \A c \in Copies : c \in Reachable => copy[c] = "published"

(* USER32 never sees the host's DBCS bit in a copy, not even while the     *)
(* copy is being refreshed.                                                *)
CopiesShowTarget ==
  \A c \in Copies : copy[c] = "published" => bit[c] = Dbcs

(* A copy is made of a server mapping, never of another copy, also when    *)
(* the slot could not be restored before the next Initialize.              *)
SourceIsServer == source \in (Mappings \ Unfit) \cup {None}

(* When Synchronize is through, unless it had to give up or the host       *)
(* changed something in the meantime, the slot leads to the emulated DBCS  *)
(* mode and to the present state of everything else.  (It does not when    *)
(* the host stored the mapping again of which there is a copy already:     *)
(* that copy is refreshed and not put back.  HostReturns leaves this out.) *)
SynchronizedInForce ==
  \A t \in Threads :
    pc[t] = "leave" /\ done[t] => bit[slot] = Dbcs /\ rest[slot] = rest[source]

(* What makes these inductive: what a thread in the critical section holds *)
(* on its way to a publication, that Restore has a mapping to store, and   *)
(* that no thread is left in Synchronize when the lock is not ready.       *)
OnTheWay ==
  \A t \in Threads :
    /\ pc[t] \in {"flags", "publish"} => original[t] \in Mappings \ Unfit
    /\ pc[t] = "publish" =>
         fresh[t] \in Copies /\ copy[fresh[t]] = "private" /\ bit[fresh[t]] = Dbcs
    /\ pc[t] = "refresh" => shadow # None

ShadowIsPublished ==
  /\ shadow # None => copy[shadow] = "published" /\ source # None
  /\ restoring => lockReady /\ stopped /\ shadow # None
  /\ restoring \/ ~lockReady => Quiescent

IInv == /\ Types /\ Exclusion
        /\ NoDanglingReader /\ CopiesShowTarget /\ SourceIsServer
        /\ OnTheWay /\ ShadowIsPublished

(* What makes SynchronizedInForce inductive when the host does not store a   *)
(* copied mapping again: the mapping of which there is a copy is not in the  *)
(* slot, and what a thread has done on its way is still present.             *)
MappingIsCopied == lockReady /\ shadow # None => slot # source

WorkIsPresent(t) ==
  /\ pc[t] \in {"enter", "read"} => ~done[t]
  /\ pc[t] \notin {"out", "enter"} /\ done[t] => slot # None
  /\ pc[t] = "flags" /\ done[t] => original[t] = Original
  /\ pc[t] = "publish" /\ done[t] => rest[fresh[t]] = rest[original[t]]
  /\ pc[t] = "refresh" /\ done[t] => slot = shadow /\ rest[shadow] = rest[source]
  /\ pc[t] = "leave" /\ done[t] => bit[slot] = Dbcs /\ rest[slot] = rest[source]

ForceInv == MappingIsCopied /\ \A t \in Threads : WorkIsPresent(t)
=============================================================================
