---------------------------- MODULE MemoryPatch -----------------------------
(***************************************************************************)
(* The inline patch engine (support/patch/MemoryPatch.cpp, the x64 build): *)
(* PatchMemory overwrites the entries of a batch of functions with jumps   *)
(* to hooks, RestoreMemory undoes one.  A hook calls the original through  *)
(* a stub variable that points to a trampoline in a heap block.            *)
(*                                                                         *)
(* One actor, the holder of the loader lock, patches and restores; its     *)
(* stores interleave with threads that call the functions.  The bytes of   *)
(* an entry change at once here.                                           *)
(***************************************************************************)
EXTENDS Sequences, Naturals, FiniteSets

CONSTANTS
    Functions,    \* functions a hook exists for
    Blocks,       \* bound: addresses of TRAMPOLINE_DATA the heap may return
    Threads,      \* application threads
    None,
    PatchFails,   \* may FindPlace, an allocation or Add fail?
    ProtectFails, \* may ProtectMemory fail before a jump is written?
    Quiescent     \* hooks are only restored while no thread runs in one

Entries == {"native", "direct", "unmapped"} \cup Blocks
Contents == [fn : Functions, relay : BOOLEAN, original : Entries]

Local == "local"     \* HandleFunctionPatch's own variable Relay

ASSUME PatchAssumption ==
    /\ None \notin Blocks \cup Functions \cup Contents
    /\ Functions \cap Blocks = {} /\ {"native", "direct", "unmapped", Local} \cap Blocks = {}
    /\ PatchFails \in BOOLEAN /\ ProtectFails \in BOOLEAN /\ Quiescent \in BOOLEAN

VARIABLES
    code,   \* the entry of a function: native, a direct jump or one to a block's relay
    stub,   \* HookStub: the trampoline a hook calls
    block,  \* what an allocated block holds
    relays, \* owners of the relay stubs allocated
    list,   \* TrampolineList
    todo,   \* the requests of the caller that are left
    at,     \* the step of the first of them
    cur,    \* its TrampolineData
    pc,     \* where a thread is
    fn,     \* the function it called
    held,   \* the block whose relay or trampoline it jumps to
    fault   \* a null or freed pointer was followed

patchVars  == <<code, stub, block, relays, list>>
engineVars == <<todo, at, cur>>
threadVars == <<pc, fn, held>>
vars == <<patchVars, engineVars, threadVars, fault>>

Jumps(f) == code[f] \notin {"native", "unmapped"}
Live == {b \in Blocks : block[b] # None}
Requests == [do : {"patch", "restore"}, f : Functions]

TypeOK ==
    /\ code \in [Functions -> Entries]
    /\ stub \in [Functions -> Blocks \cup {None}]
    /\ block \in [Blocks -> Contents \cup {None}]
    /\ relays \subseteq Blocks \cup {Local}
    /\ list \subseteq Blocks
    /\ todo \in Seq(Requests)
    /\ at \in {"idle", "allocate", "publish", "protect", "free", "clear"}
    /\ at # "idle" => todo # <<>>
    /\ at \in {"publish", "protect", "free", "clear"} => cur # None
    /\ cur \in Blocks \cup {None}
    /\ pc \in [Threads -> {"out", "relay", "hook", "original"}]
    /\ fn \in [Threads -> Functions \cup {None}]
    /\ \A t \in Threads : pc[t] # "out" => fn[t] \in Functions
    /\ held \in [Threads -> Blocks \cup {None}]
    /\ fault \in BOOLEAN

Idle == at = "idle" /\ todo = <<>>
Asked(do) == todo # <<>> /\ Head(todo).do = do
F == Head(todo).f

Init ==
    /\ code = [f \in Functions |-> "native"]
    /\ stub = [f \in Functions |-> None]
    /\ block = [b \in Blocks |-> None]
    /\ relays = {} /\ list = {}
    /\ todo = <<>> /\ at = "idle" /\ cur = None
    /\ pc = [t \in Threads |-> "out"]
    /\ fn = [t \in Threads |-> None] /\ held = [t \in Threads |-> None]
    /\ fault = FALSE

-----------------------------------------------------------------------------
(* PatchMemory.  A request that fails ends its batch and whatever its caller *)
(* would have done next (FAIL_RETURN); one that succeeds goes to the next.   *)

Fail == todo' = <<>> /\ at' = "idle" /\ cur' = None
Finish == todo' = Tail(todo) /\ at' = "idle" /\ cur' = None

(* Where the jump goes and over how many bytes; a hook that is out of the    *)
(* range of a short jump is reached through a relay stub near the function.  *)
FindPlace(relay) ==
    /\ at = "idle" /\ Asked("patch")
    /\ relays' = relays \cup (IF relay THEN {Local} ELSE {})
    /\ at' = "allocate"
    /\ UNCHANGED <<code, stub, block, list, todo, cur, threadVars, fault>>

(* A ret, a jump in the middle, or no memory near a function too short for   *)
(* the long jump.                                                            *)
NoPlace ==
    /\ PatchFails
    /\ at = "idle" /\ Asked("patch")
    /\ Fail
    /\ UNCHANGED <<patchVars, threadVars, fault>>

BadNoTrampoline ==       \* mutant: the relay is forgotten
    /\ PatchFails
    /\ at = "allocate"
    /\ Fail
    /\ UNCHANGED <<patchVars, threadVars, fault>>

NoTrampoline ==
    /\ PatchFails
    /\ at = "allocate"
    /\ relays' = relays \ {Local}
    /\ Fail
    /\ UNCHANGED <<code, stub, block, list, threadVars, fault>>

(* The block takes over the relay and a copy of the code it replaces. *)
AllocateTrampoline(b) ==
    /\ at = "allocate"
    /\ block[b] = None
    /\ block' = [block EXCEPT ![b] = [fn |-> F, relay |-> Local \in relays, original |-> code[F]]]
    /\ relays' = IF Local \in relays THEN (relays \ {Local}) \cup {b} ELSE relays
    /\ cur' = b
    /\ at' = "publish"
    /\ UNCHANGED <<code, stub, list, todo, threadVars, fault>>

(* Add reports no failure that HandleFunctionPatch would look at. *)
PublishStub(added) ==
    /\ at = "publish"
    /\ added \/ PatchFails
    /\ stub' = [stub EXCEPT ![F] = cur]
    /\ list' = list \cup (IF added THEN {cur} ELSE {})
    /\ at' = "protect"
    /\ UNCHANGED <<code, block, relays, todo, cur, threadVars, fault>>

FreeTrampolineData(b) ==
    /\ block' = [block EXCEPT ![b] = None]
    /\ relays' = relays \ {b}

(* The block is freed, the stub and the list keep its address. *)
ProtectMemoryFails ==
    /\ ProtectFails
    /\ at = "protect"
    /\ FreeTrampolineData(cur)
    /\ Fail
    /\ UNCHANGED <<code, stub, list, threadVars, fault>>

WriteJump ==
    /\ at = "protect"
    /\ code' = [code EXCEPT ![F] = IF block[cur].relay THEN cur ELSE "direct"]
    /\ Finish
    /\ UNCHANGED <<stub, block, relays, list, threadVars, fault>>

-----------------------------------------------------------------------------
(* RestoreMemory of one stub variable. *)

NothingToRestore ==
    /\ at = "idle" /\ Asked("restore")
    /\ stub[F] = None
    /\ Finish
    /\ UNCHANGED <<patchVars, threadVars, fault>>

(* The block is read for the original code and its place. *)
RestoreFreed ==
    /\ at = "idle" /\ Asked("restore")
    /\ stub[F] # None /\ block[stub[F]] = None
    /\ fault' = TRUE
    /\ UNCHANGED <<patchVars, engineVars, threadVars>>

CanWrite(f) == code[f] # "unmapped"

(* Its callers ignore the failure and go on. *)
RestoreFails ==
    /\ at = "idle" /\ Asked("restore")
    /\ stub[F] \in Live
    /\ ProtectFails \/ ~CanWrite(block[stub[F]].fn)
    /\ Finish
    /\ UNCHANGED <<patchVars, threadVars, fault>>

BadRestoreCode ==        \* mutant: the original code is not written back
    /\ at = "idle" /\ Asked("restore")
    /\ stub[F] \in Live
    /\ cur' = stub[F]
    /\ at' = "free"
    /\ UNCHANGED <<patchVars, todo, threadVars, fault>>

RestoreCode ==
    /\ at = "idle" /\ Asked("restore")
    /\ stub[F] \in Live
    /\ CanWrite(block[stub[F]].fn)
    /\ code' = [code EXCEPT ![block[stub[F]].fn] = block[stub[F]].original]
    /\ cur' = stub[F]
    /\ at' = "free"
    /\ UNCHANGED <<stub, block, relays, list, todo, threadVars, fault>>

(* A block that could not be added to the list is not freed. *)
RemoveTrampolineData ==
    /\ at = "free"
    /\ IF cur \in list
       THEN list' = list \ {cur} /\ FreeTrampolineData(cur)
       ELSE UNCHANGED <<list, block, relays>>
    /\ at' = "clear"
    /\ UNCHANGED <<code, stub, todo, cur, threadVars, fault>>

ClearStub ==
    /\ at = "clear"
    /\ stub' = [stub EXCEPT ![F] = None]
    /\ Finish
    /\ UNCHANGED <<code, block, relays, list, threadVars, fault>>

-----------------------------------------------------------------------------
(* Threads that call the functions. *)

Goto(t, step, b) == pc' = [pc EXCEPT ![t] = step] /\ held' = [held EXCEPT ![t] = b]
Restoring == \E i \in DOMAIN todo : todo[i].do = "restore"

(* The entry of function f, or the copy of it in a trampoline. *)
Run(t, first) ==
    IF first = "direct" THEN Goto(t, "hook", None)
    ELSE IF first \in Blocks THEN Goto(t, "relay", first)
    ELSE Goto(t, "out", None)

Enter(t, f) ==
    /\ pc[t] = "out"
    /\ Jumps(f)
    /\ ~(Quiescent /\ Restoring)
    /\ fn' = [fn EXCEPT ![t] = f]
    /\ Run(t, code[f])
    /\ UNCHANGED <<patchVars, engineVars, fault>>

RunRelay(t) ==
    /\ pc[t] = "relay"
    /\ IF held[t] \in relays /\ block[held[t]].fn = fn[t]
       THEN Goto(t, "hook", None) /\ UNCHANGED fault
       ELSE fault' = TRUE /\ UNCHANGED <<pc, held>>
    /\ UNCHANGED <<patchVars, engineVars, fn>>

(* A hook may answer without calling the original. *)
Leave(t) ==
    /\ pc[t] = "hook"
    /\ Goto(t, "out", None)
    /\ UNCHANGED <<patchVars, engineVars, fn, fault>>

CallOriginal(t) ==
    /\ pc[t] = "hook"
    /\ IF stub[fn[t]] # None
       THEN Goto(t, "original", stub[fn[t]]) /\ UNCHANGED fault
       ELSE fault' = TRUE /\ UNCHANGED <<pc, held>>
    /\ UNCHANGED <<patchVars, engineVars, fn>>

RunTrampoline(t) ==
    /\ pc[t] = "original"
    /\ IF held[t] \in Live /\ block[held[t]].fn = fn[t]
       THEN Run(t, block[held[t]].original) /\ UNCHANGED fault
       ELSE fault' = TRUE /\ UNCHANGED <<pc, held>>
    /\ UNCHANGED <<patchVars, engineVars, fn>>

ThreadStep == \E t \in Threads :
    \/ \E f \in Functions : Enter(t, f)
    \/ RunRelay(t) \/ Leave(t) \/ CallOriginal(t) \/ RunTrampoline(t)

EngineStep ==
    \/ \E relay \in BOOLEAN : FindPlace(relay)
    \/ NoPlace \/ NoTrampoline \/ ProtectMemoryFails \/ WriteJump
    \/ \E b \in Blocks : AllocateTrampoline(b)
    \/ \E added \in BOOLEAN : PublishStub(added)
    \/ NothingToRestore \/ RestoreFreed \/ RestoreFails \/ RestoreCode
    \/ RemoveTrampolineData \/ ClearStub

-----------------------------------------------------------------------------
(* A caller that patches a batch of functions, never one that is patched     *)
(* already, and restores some of them.                                       *)

Ask(do, functions) ==
    /\ Idle
    /\ todo' = [i \in DOMAIN functions |-> [do |-> do, f |-> functions[i]]]
    /\ UNCHANGED <<patchVars, at, cur, threadVars, fault>>

PatchMemory(functions) ==
    /\ \A i \in DOMAIN functions : code[functions[i]] = "native"
    /\ Ask("patch", functions)

RestoreMemory(functions) ==
    /\ Quiescent => \A t \in Threads : pc[t] = "out"
    /\ Ask("restore", functions)

Batches == [1 .. 1 -> Functions] \cup {s \in [1 .. 2 -> Functions] : s[1] # s[2]}

Next ==
    /\ ~fault
    /\ \/ EngineStep
       \/ ThreadStep
       \/ \E functions \in Batches : PatchMemory(functions) \/ RestoreMemory(functions)

Spec == Init /\ [][Next]_vars

-----------------------------------------------------------------------------
(* Neither a thread inside a hook nor RestoreMemory follows a null pointer or *)
(* one to freed memory (MemoryPatch.cpp 231-417, 1315-1323).                  *)
NoFault == ~fault

(* Wherever a batch fails and whoever calls meanwhile: a function that jumps  *)
(* to its hook has the stub the hook will call, with the code it replaced,    *)
(* and a relay it jumps through is allocated.                                 *)
JumpHasTrampoline == \A f \in Functions :
    Jumps(f) =>
      /\ stub[f] \in Live /\ block[stub[f]].fn = f
      /\ block[stub[f]].original = "native"
      /\ code[f] \in Blocks => code[f] = stub[f] /\ code[f] \in relays

(* Between requests each relay belongs to a trampoline and the list names no  *)
(* freed one: no early return leaks a relay or leaves a dangling entry.       *)
NothingLeaked ==
    Idle => /\ relays = {b \in Live : block[b].relay}
            /\ list \subseteq Live

-----------------------------------------------------------------------------
(* What holds between the steps of a request, for the proofs. *)

(* A batch patches different functions that are native until their turn.      *)
TodoInv ==
    /\ \A i \in DOMAIN todo : todo[i].do = "patch" => code[todo[i].f] = "native"
    /\ \A i, j \in DOMAIN todo :
         todo[i].do = "patch" /\ todo[j].do = "patch" /\ todo[i].f = todo[j].f => i = j

PatchingInv ==
    /\ at \in {"allocate", "publish", "protect"} => Asked("patch")
    /\ at \in {"publish", "protect"} =>
         cur \in Live /\ block[cur].fn = F /\ (block[cur].relay => cur \in relays)
    /\ at = "protect" => stub[F] = cur

RestoringInv ==
    /\ at \in {"free", "clear"} => Asked("restore") /\ ~Jumps(F)
    /\ at = "free" => cur \in Live /\ ~Jumps(block[cur].fn)

(* Trampolines hold code that was native when they were made. *)
BlockInv == \A b \in Live : block[b].original = "native"

JumpInv == TypeOK /\ TodoInv /\ PatchingInv /\ RestoringInv /\ BlockInv /\ JumpHasTrampoline

(* With quiescent callers and memory that can be written no stub dangles, and *)
(* what a thread in a hook will follow is there.                              *)
StubInv ==
    /\ \A f \in Functions :
         stub[f] # None /\ ~(at = "clear" /\ f = F) => stub[f] \in Live /\ block[stub[f]].fn = f
    /\ at = "free" => cur = stub[F]

ThreadInv ==
    /\ \A t \in Threads :
         /\ pc[t] \in {"relay", "hook"} => stub[fn[t]] # None
         /\ pc[t] \in {"relay", "original"} => held[t] \in Live /\ block[held[t]].fn = fn[t]
         /\ pc[t] = "relay" => held[t] \in relays
    /\ Restoring => \A t \in Threads : pc[t] = "out"

SoundInv == JumpInv /\ StubInv /\ ThreadInv /\ NoFault
=============================================================================
