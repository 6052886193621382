------------------------------ MODULE DllHooksProofs ------------------------------
(* Theorems about DllHooks for any of the DLLs and functions, any number of   *)
(* heap blocks and any number of loads: hooks come after the DLL's own        *)
(* DllMain, all of them while nothing fails, and go with the core.            *)
EXTENDS MCDllHooks, TLAPS

(* The lemmas about the patch engine, without application threads.           *)
Engine == INSTANCE MemoryPatchProofs WITH
    Threads <- {}, Quiescent <- TRUE, pc <- <<>>, fn <- <<>>, held <- <<>>

Pending(do, f) == \E i \in DOMAIN todo : todo[i].do = do /\ todo[i].f = f

(* What the core has done to the DLLs and the functions, by its state.       *)
LifeInv ==
  /\ core \in {"absent", "starting", "ntdll", "stopping", "dead"} => Patches!Idle
  /\ core \notin {"kernel", "running"} => \A d \in Dlls : entry[d] = "own" /\ dll[d] # "delayed"
  /\ \A d \in Dlls : entry[d] = "delay" => dll[d] \in {"mapped", "leaving"}
  /\ core \in {"absent", "gone"} => ~cookie
  /\ core \in {"ntdll", "kernel", "running"} => cookie
  /\ core \in {"absent", "starting", "ntdll", "dead"} => \A f \in Functions : ~Patches!Jumps(f)
  /\ core = "kernel" => \A f \in Functions :
       Patches!Jumps(f) \/ Pending("patch", f) => Home[f] = "KERNELBASE"
  /\ \A f \in Functions : Pending("patch", f) => dll[Home[f]] = "attached"
  /\ HookedAfterAttach

(* The patch of KERNELBASE is only there until it is restored; the requests  *)
(* of UnInitialize are left for whatever jumps still.                        *)
Cache == "GetNamedLocaleHashNode"

LeavingInv ==
  /\ \A f \in Functions : Pending("patch", f) /\ Pending("restore", Cache) => f = Cache
  /\ \A i, j \in DOMAIN todo : todo[i].do = "restore" /\ todo[j].do = "patch" => j < i
  /\ Cache \in Functions /\ (Patches!Jumps(Cache) \/ Pending("patch", Cache)) => Pending("restore", Cache)
  /\ core = "gone" => \A f \in Functions :
       ~Pending("patch", f) /\ (Patches!Jumps(f) => Pending("restore", f))

(* Which DLLs will be hooked, and which of their functions are.              *)
Ours(d) == late[d] \/ d \in Kernel

FollowInv ==
  /\ core \in {"absent", "starting", "ntdll", "kernel"} => \A d \in Dlls : ~late[d]
  /\ core \in {"starting", "ntdll", "kernel", "running"} => \A d \in Dlls : Ours(d) => dll[d] # "entered"
  /\ \A d \in Dlls : core = "running" \/ (core = "kernel" /\ d = "KERNELBASE") =>
       (Ours(d) /\ dll[d] = "mapped" => entry[d] = "delay")
  /\ core \in {"kernel", "running"} => \A f \in Functions :
       Pending("restore", f) => f = Cache \/ dll[Home[f]] = "leaving"
  /\ core = "running" /\ ~failed => \A f \in Functions \ {Cache} :
       dll[Home[f]] = "attached" /\ Ours(Home[f]) => Patches!Jumps(f) \/ Pending("patch", f)

-----------------------------------------------------------------------------
(* The engine of the lemmas is the one whose steps DllHooks takes.           *)
LEMMA SameState ==
  /\ Engine!JumpInv <=> Patches!JumpInv
  /\ Engine!StubInv <=> Patches!StubInv
BY DEF Engine!JumpInv, Patches!JumpInv, Engine!TypeOK, Patches!TypeOK, Engine!TodoInv, Patches!TodoInv,
       Engine!PatchingInv, Patches!PatchingInv, Engine!RestoringInv, Patches!RestoringInv,
       Engine!BlockInv, Patches!BlockInv, Engine!JumpHasTrampoline, Patches!JumpHasTrampoline,
       Engine!Entries, Patches!Entries, Engine!Contents, Patches!Contents, Engine!Requests, Patches!Requests,
       Engine!Local, Patches!Local, Engine!Jumps, Patches!Jumps, Engine!Live, Patches!Live,
       Engine!Asked, Patches!Asked, Engine!F, Patches!F, Engine!StubInv, Patches!StubInv

LEMMA SameNextState ==
  /\ Engine!JumpInv' <=> Patches!JumpInv'
  /\ Engine!StubInv' <=> Patches!StubInv'
BY SameState, PTL

LEMMA SameStep == Engine!EngineStep <=> Patches!EngineStep
BY DEF Engine!EngineStep, Patches!EngineStep, Engine!FindPlace, Patches!FindPlace, Engine!NoPlace, Patches!NoPlace,
       Engine!NoTrampoline, Patches!NoTrampoline, Engine!ProtectMemoryFails, Patches!ProtectMemoryFails,
       Engine!WriteJump, Patches!WriteJump, Engine!AllocateTrampoline, Patches!AllocateTrampoline,
       Engine!PublishStub, Patches!PublishStub, Engine!NothingToRestore, Patches!NothingToRestore,
       Engine!RestoreFreed, Patches!RestoreFreed, Engine!RestoreFails, Patches!RestoreFails,
       Engine!RestoreCode, Patches!RestoreCode, Engine!RemoveTrampolineData, Patches!RemoveTrampolineData,
       Engine!ClearStub, Patches!ClearStub, Engine!Fail, Patches!Fail, Engine!Finish, Patches!Finish,
       Engine!FreeTrampolineData, Patches!FreeTrampolineData, Engine!CanWrite, Patches!CanWrite,
       Engine!Asked, Patches!Asked, Engine!F, Patches!F, Engine!Live, Patches!Live, Engine!Local, Patches!Local,
       Engine!patchVars, Patches!patchVars, Engine!engineVars, Patches!engineVars,
       Engine!threadVars, Patches!threadVars

LEMMA EngineKeepsJumpInv ==
  ASSUME Patches!JumpInv, Patches!EngineStep
  PROVE  Patches!JumpInv'
BY SameState, SameNextState, SameStep, Engine!EngineStepJumpInv, BlocksAssumption
DEF Patches!Contents, Engine!Contents, Patches!Entries, Engine!Entries, Patches!Local, Engine!Local

(* No stub dangles if the protection of memory can be changed.               *)
LEMMA EngineKeepsStubInv ==
  ASSUME Patches!JumpInv, Patches!StubInv, ~fault, ~ProtectFails, Patches!EngineStep
  PROVE  Patches!StubInv' /\ ~fault'
<1> USE SameState, SameNextState, SameStep
<1>1. Engine!JumpInv /\ Engine!StubInv /\ Engine!JumpInv' /\ Engine!EngineStep BY EngineKeepsJumpInv
<1>2. Engine!SoundInv
  BY <1>1 DEF Engine!SoundInv, Engine!ThreadInv, Engine!NoFault
<1>3. ~Engine!ProtectMemoryFails BY DEF Engine!ProtectMemoryFails
<1>4. Engine!SoundInv'
  BY <1>1, <1>2, <1>3, Engine!PatchStepSound, Engine!RestoreStepSound, BlocksAssumption
  DEF Engine!EngineStep,
      Patches!Contents, Engine!Contents, Patches!Entries, Engine!Entries, Patches!Local, Engine!Local
<1> QED BY <1>4 DEF Engine!SoundInv, Engine!NoFault

-----------------------------------------------------------------------------
(* What a step of the engine does to the functions and to the requests.      *)

LEMMA HeadOfTodo ==
  ASSUME Patches!TypeOK, todo # <<>>
  PROVE  /\ 1 \in DOMAIN todo /\ todo[1] \in Patches!Requests /\ Patches!F = todo[1].f
         /\ Patches!F \in Functions /\ Head(todo) = todo[1]
<1>1. todo \in Seq(Patches!Requests) BY DEF Patches!TypeOK
<1>2. 1 \in DOMAIN todo /\ todo[1] \in Patches!Requests /\ Head(todo) = todo[1] BY <1>1
<1> QED BY <1>2 DEF Patches!F, Patches!Requests

Jumped(f) == code'[f] \notin {"native", "unmapped"}

Advances(do) ==
  /\ todo # <<>> /\ todo[1].do = do
  /\ todo' = Tail(todo)

LEMMA EngineEffect ==
  ASSUME Patches!JumpInv, Patches!EngineStep
  PROVE  /\ todo # <<>>
         /\ \A f \in Functions : code'[f] = "unmapped" <=> code[f] = "unmapped"
         /\ \/ /\ todo' = todo
               /\ \A f \in Functions : Jumped(f) => Patches!Jumps(f)
               /\ Patches!StubInv /\ ~fault' =>
                    \A f \in Functions : Patches!Jumps(f) => Jumped(f) \/ (todo[1].do = "restore" /\ f = todo[1].f)
            \/ Advances("patch") /\ \A f \in Functions : Jumped(f) <=> Patches!Jumps(f) \/ f = todo[1].f
            \/ /\ Advances("restore") /\ \A f \in Functions : Jumped(f) <=> Patches!Jumps(f)
               /\ ~ProtectFails => ~Patches!Jumps(todo[1].f)
            \/ /\ todo[1].do = "patch" /\ todo' = <<>> /\ code' = code
               /\ PatchStepFails \/ ProtectFails
<1> USE HeadOfTodo DEF Patches!JumpInv
<1>1. todo # <<>>
  BY DEF Patches!EngineStep, Patches!FindPlace, Patches!NoPlace, Patches!NoTrampoline, Patches!ProtectMemoryFails,
         Patches!WriteJump, Patches!AllocateTrampoline, Patches!PublishStub, Patches!NothingToRestore,
         Patches!RestoreFreed, Patches!RestoreFails, Patches!RestoreCode, Patches!RemoveTrampolineData,
         Patches!ClearStub, Patches!Asked, Patches!PatchingInv, Patches!RestoringInv
<1>2. /\ Patches!TypeOK /\ 1 \in DOMAIN todo /\ Head(todo) = todo[1] /\ Patches!F = todo[1].f /\ todo[1].f \in Functions
      /\ code \in [Functions -> Patches!Entries]
  BY <1>1 DEF Patches!TypeOK
<1>3. CASE /\ UNCHANGED <<code, todo>>
  BY <1>1, <1>2, <1>3 DEF Jumped, Patches!Jumps
<1>4. CASE Patches!NoPlace \/ Patches!NoTrampoline \/ Patches!ProtectMemoryFails
  <2>1. code' = code /\ todo' = <<>> /\ (PatchStepFails \/ ProtectFails)
    BY <1>4 DEF Patches!NoPlace, Patches!NoTrampoline, Patches!ProtectMemoryFails, Patches!Fail, PatchStepFails,
                Patches!patchVars
  <2>2. todo[1].do = "patch"
    BY <1>2, <1>4 DEF Patches!NoPlace, Patches!NoTrampoline, Patches!ProtectMemoryFails, Patches!Asked, Patches!PatchingInv
  <2> QED BY <1>1, <2>1, <2>2
<1>5. CASE Patches!WriteJump
  <2>1. /\ code' = [code EXCEPT ![todo[1].f] = IF block[cur].relay THEN cur ELSE "direct"]
        /\ todo' = Tail(todo) /\ todo[1].do = "patch" /\ cur \in Blocks
    BY <1>2, <1>5 DEF Patches!WriteJump, Patches!Finish, Patches!PatchingInv, Patches!Asked, Patches!Live
  <2>2. code[todo[1].f] = "native" BY <1>2, <2>1 DEF Patches!TodoInv
  <2>3. cur \notin {"native", "unmapped"} BY <2>1, BlocksAssumption
  <2> QED BY <1>1, <1>2, <2>1, <2>2, <2>3 DEF Advances, Jumped, Patches!Jumps
<1>6. CASE Patches!NothingToRestore
  <2>1. code' = code /\ todo' = Tail(todo) /\ todo[1].do = "restore" /\ stub[todo[1].f] = None
    BY <1>2, <1>6 DEF Patches!NothingToRestore, Patches!Finish, Patches!Asked, Patches!patchVars
  <2>2. ~Patches!Jumps(todo[1].f)
    BY <1>2, <2>1, BlocksAssumption DEF Patches!JumpHasTrampoline, Patches!Live
  <2> QED BY <1>1, <2>1, <2>2 DEF Advances, Jumped, Patches!Jumps
<1>7. CASE Patches!RestoreFails
  <2>1. /\ code' = code /\ todo' = Tail(todo) /\ todo[1].do = "restore"
        /\ ProtectFails \/ code[block[stub[todo[1].f]].fn] = "unmapped"
    BY <1>2, <1>7 DEF Patches!RestoreFails, Patches!Finish, Patches!Asked, Patches!patchVars, Patches!CanWrite
  <2>2. ~ProtectFails => ~Patches!Jumps(todo[1].f)
    BY <1>2, <2>1 DEF Patches!JumpHasTrampoline, Patches!Jumps
  <2> QED BY <1>1, <2>1, <2>2 DEF Advances, Jumped, Patches!Jumps
<1>8. CASE Patches!RestoreCode
  <2> DEFINE g == block[stub[todo[1].f]].fn
  <2>1. /\ todo' = todo /\ todo[1].do = "restore" /\ stub[todo[1].f] \in Blocks /\ block[stub[todo[1].f]] # None
        /\ code' = [code EXCEPT ![g] = block[stub[todo[1].f]].original]
        /\ code[g] # "unmapped" /\ at = "idle" /\ stub[todo[1].f] \in Patches!Live
    BY <1>2, <1>8 DEF Patches!RestoreCode, Patches!Asked, Patches!Live, Patches!CanWrite
  <2>2. code' = [code EXCEPT ![g] = "native"] BY <2>1 DEF Patches!BlockInv
  <2>3. g \in Functions
    <3>1. block[stub[todo[1].f]] \in Patches!Contents BY <2>1 DEF Patches!TypeOK
    <3> QED BY <3>1 DEF Patches!Contents
  <2>4. Patches!StubInv => g = todo[1].f
    BY <1>2, <2>1, BlocksAssumption DEF Patches!StubInv
  <2> QED BY <1>1, <1>2, <2>1, <2>2, <2>3, <2>4 DEF Jumped, Patches!Jumps
<1>9. CASE Patches!ClearStub
  <2>1. /\ code' = code /\ todo' = Tail(todo) /\ todo[1].do = "restore" /\ ~Patches!Jumps(todo[1].f)
    BY <1>2, <1>9 DEF Patches!ClearStub, Patches!Finish, Patches!RestoringInv, Patches!Asked
  <2> QED BY <1>1, <2>1 DEF Advances, Jumped, Patches!Jumps
<1> QED
  BY <1>3, <1>4, <1>5, <1>6, <1>7, <1>8, <1>9
  DEF Patches!EngineStep, Patches!FindPlace, Patches!AllocateTrampoline, Patches!PublishStub, Patches!RestoreFreed,
      Patches!RemoveTrampolineData, Patches!patchVars, Patches!engineVars

-----------------------------------------------------------------------------
(* The requests of the hook routines.                                        *)

IsBatch(r, do, names) ==
  /\ r \in Seq(Patches!Requests)
  /\ \A i \in DOMAIN r : r[i].do = do /\ r[i].f \in names \cap Functions
  /\ \A f \in names \cap Functions : \E i \in DOMAIN r : r[i].f = f
  /\ \A i, j \in DOMAIN r : r[i].f = r[j].f => i = j

LEMMA OneRequest ==
  ASSUME NEW do \in {"patch", "restore"}, NEW f
  PROVE  IsBatch(Request(do, f), do, {f})
<1>1. CASE f \in Functions
  <2>1. [do |-> do, f |-> f] \in Patches!Requests BY <1>1 DEF Patches!Requests
  <2> QED BY <1>1, <2>1 DEF Request, IsBatch
<1>2. CASE f \notin Functions
  <2>1. Request(do, f) = <<>> BY <1>2 DEF Request
  <2> QED BY <1>2, <2>1 DEF IsBatch
<1> QED BY <1>1, <1>2

LEMMA TwoBatches ==
  ASSUME NEW r, NEW s, NEW do, NEW A, NEW B, IsBatch(r, do, A), IsBatch(s, do, B), A \cap B = {}
  PROVE  IsBatch(r \o s, do, A \cup B)
<1> DEFINE n == Len(r)
           c == r \o s
<1>1. r \in Seq(Patches!Requests) /\ s \in Seq(Patches!Requests) BY DEF IsBatch
<1>2. /\ c \in Seq(Patches!Requests) /\ DOMAIN c = 1 .. n + Len(s) /\ n \in Nat /\ Len(s) \in Nat
      /\ DOMAIN r = 1 .. n /\ DOMAIN s = 1 .. Len(s)
      /\ \A i \in 1 .. n : c[i] = r[i]
      /\ \A i \in 1 .. Len(s) : c[n + i] = s[i]
  BY <1>1
<1> HIDE DEF c
<1>3. \A i \in DOMAIN c : \/ i \in DOMAIN r /\ c[i] = r[i] /\ c[i].f \in A \cap Functions /\ c[i].do = do
                          \/ i - n \in DOMAIN s /\ c[i] = s[i - n] /\ c[i].f \in B \cap Functions /\ c[i].do = do
  <2> SUFFICES ASSUME NEW i \in DOMAIN c
               PROVE  \/ i \in DOMAIN r /\ c[i] = r[i] /\ c[i].f \in A \cap Functions /\ c[i].do = do
                      \/ i - n \in DOMAIN s /\ c[i] = s[i - n] /\ c[i].f \in B \cap Functions /\ c[i].do = do
    OBVIOUS
  <2>1. CASE i <= n BY <1>2, <2>1 DEF IsBatch
  <2>2. CASE i > n
    <3>1. i - n \in 1 .. Len(s) /\ i = n + (i - n) BY <1>2, <2>2
    <3>2. c[i] = s[i - n] BY <1>2, <3>1
    <3> QED BY <1>2, <3>1, <3>2 DEF IsBatch
  <2> QED BY <1>2, <2>1, <2>2
<1>4. \A f \in (A \cup B) \cap Functions : \E i \in DOMAIN c : c[i].f = f
  <2>1. ASSUME NEW f \in A \cap Functions PROVE \E i \in DOMAIN c : c[i].f = f
    <3>1. PICK i \in DOMAIN r : r[i].f = f BY DEF IsBatch
    <3>2. i \in DOMAIN c /\ c[i] = r[i] BY <1>2
    <3> QED BY <3>1, <3>2
  <2>2. ASSUME NEW f \in B \cap Functions PROVE \E i \in DOMAIN c : c[i].f = f
    <3>1. PICK i \in DOMAIN s : s[i].f = f BY DEF IsBatch
    <3>2. n + i \in DOMAIN c /\ c[n + i] = s[i] BY <1>2
    <3> QED BY <3>1, <3>2
  <2> QED BY <2>1, <2>2
<1>5. ASSUME NEW i \in DOMAIN c, NEW j \in DOMAIN c, c[i].f = c[j].f PROVE i = j
  <2>1. CASE i \in DOMAIN r /\ j \in DOMAIN r /\ c[i] = r[i] /\ c[j] = r[j] BY <1>5, <2>1 DEF IsBatch
  <2>2. CASE i - n \in DOMAIN s /\ j - n \in DOMAIN s /\ c[i] = s[i - n] /\ c[j] = s[j - n]
    <3>1. i - n = j - n BY <1>5, <2>2 DEF IsBatch
    <3> QED BY <1>2, <3>1
  <2> QED BY <1>3, <1>5, <2>1, <2>2
<1> QED BY <1>2, <1>3, <1>4, <1>5 DEF IsBatch, c

LEMMA Batches ==
  /\ IsBatch(HookGdi32Routines, "patch", {"QueryFontAssocStatus", "GetStockObject", "EnumFontFamiliesA"})
  /\ IsBatch(HookUser32Routines, "patch", {"SendMessageA"})
  /\ IsBatch(Request("patch", "GetUserDefaultUILanguage"), "patch", {"GetUserDefaultUILanguage"})
  /\ IsBatch(UnHookKernel32Routines, "restore", {"GetUserDefaultUILanguage"})
  /\ IsBatch(UnHookGdi32Routines, "restore", {"GetStockObject", "QueryFontAssocStatus"})
  /\ IsBatch(UnHookUser32Routines, "restore", {"SendMessageA"})
  /\ IsBatch(UnHookGdi32Routines \o UnHookUser32Routines \o UnHookKernel32Routines, "restore",
             {"GetStockObject", "QueryFontAssocStatus", "SendMessageA", "GetUserDefaultUILanguage"})
<1>1. IsBatch(HookGdi32Routines, "patch", {"QueryFontAssocStatus", "GetStockObject", "EnumFontFamiliesA"})
  <2>1. IsBatch(Request("patch", "QueryFontAssocStatus") \o Request("patch", "GetStockObject"), "patch",
                {"QueryFontAssocStatus"} \cup {"GetStockObject"})
    BY OneRequest, TwoBatches
  <2>2. IsBatch(HookGdi32Routines, "patch",
                ({"QueryFontAssocStatus"} \cup {"GetStockObject"}) \cup {"EnumFontFamiliesA"})
    BY <2>1, OneRequest, TwoBatches DEF HookGdi32Routines
  <2>3. ({"QueryFontAssocStatus"} \cup {"GetStockObject"}) \cup {"EnumFontFamiliesA"}
          = {"QueryFontAssocStatus", "GetStockObject", "EnumFontFamiliesA"}
    OBVIOUS
  <2> QED BY <2>2, <2>3
<1>2. IsBatch(UnHookGdi32Routines, "restore", {"GetStockObject", "QueryFontAssocStatus"})
  <2>1. IsBatch(UnHookGdi32Routines, "restore", {"GetStockObject"} \cup {"QueryFontAssocStatus"})
    BY OneRequest, TwoBatches DEF UnHookGdi32Routines
  <2>2. {"GetStockObject"} \cup {"QueryFontAssocStatus"} = {"GetStockObject", "QueryFontAssocStatus"} OBVIOUS
  <2> QED BY <2>1, <2>2
<1>3. IsBatch(UnHookUser32Routines, "restore", {"SendMessageA"}) BY OneRequest DEF UnHookUser32Routines
<1>4. IsBatch(UnHookKernel32Routines, "restore", {"GetUserDefaultUILanguage"})
  BY OneRequest DEF UnHookKernel32Routines
<1>5. IsBatch(UnHookGdi32Routines \o UnHookUser32Routines \o UnHookKernel32Routines, "restore",
              {"GetStockObject", "QueryFontAssocStatus", "SendMessageA", "GetUserDefaultUILanguage"})
  <2>1. IsBatch(UnHookGdi32Routines \o UnHookUser32Routines, "restore",
                {"GetStockObject", "QueryFontAssocStatus"} \cup {"SendMessageA"})
    BY <1>2, <1>3, TwoBatches
  <2>2. IsBatch(UnHookGdi32Routines \o UnHookUser32Routines \o UnHookKernel32Routines, "restore",
                ({"GetStockObject", "QueryFontAssocStatus"} \cup {"SendMessageA"}) \cup {"GetUserDefaultUILanguage"})
    BY <1>4, <2>1, TwoBatches
  <2>3. ({"GetStockObject", "QueryFontAssocStatus"} \cup {"SendMessageA"}) \cup {"GetUserDefaultUILanguage"}
          = {"GetStockObject", "QueryFontAssocStatus", "SendMessageA", "GetUserDefaultUILanguage"}
    OBVIOUS
  <2> QED BY <2>2, <2>3
<1> QED BY <1>1, <1>2, <1>3, <1>4, <1>5, OneRequest DEF HookUser32Routines

(* The hooks of a DLL: each of its functions at most once; the one of         *)
(* KERNELBASE is restored right away.                                        *)
IsHooking(r, d) ==
  /\ r \in Seq(Patches!Requests)
  /\ \A i \in DOMAIN r : /\ r[i].f \in Functions /\ Home[r[i].f] = d
                         /\ r[i].do = "restore" => r[i].f = Cache
  /\ \A i, j \in DOMAIN r : r[i].do = "patch" /\ r[j].do = "patch" /\ r[i].f = r[j].f => i = j
  /\ \A i, j \in DOMAIN r : r[i].do = "restore" /\ r[j].do = "patch" => j < i
  /\ \A i \in DOMAIN r : r[i].f = Cache => \E j \in DOMAIN r : r[j].do = "restore" /\ r[j].f = Cache
  /\ (\E i \in DOMAIN r : r[i].do = "restore") => d = "KERNELBASE" /\ \A i \in DOMAIN r : r[i].f = Cache

IsComplete(r, d) ==
  \A f \in Functions \ {Cache} : Home[f] = d => \E i \in DOMAIN r : r[i].do = "patch" /\ r[i].f = f

LEMMA HookRoutineIsHooking ==
  ASSUME NEW d \in Dlls
  PROVE  IsHooking(HookRoutine(d), d) /\ IsComplete(HookRoutine(d), d)
<1> DEFINE r == HookRoutine(d)
<1>1. /\ \A f \in Functions : f \in DOMAIN Home /\ Home[f] \in Dlls
      /\ d \in {"KERNELBASE", "KERNEL32", "GDI32", "USER32"}
      /\ \A f \in Functions : f \in {"GetNamedLocaleHashNode", "GetUserDefaultUILanguage", "QueryFontAssocStatus",
                                     "GetStockObject", "EnumFontFamiliesA", "SendMessageA"}
  BY HooksAssumption DEF Home
<1>2. ASSUME NEW names \in SUBSET DOMAIN Home, IsBatch(r, "patch", names), Cache \notin names,
             \A f \in Functions : f \in names <=> Home[f] = d
      PROVE  IsHooking(r, d) /\ IsComplete(r, d)
  <2> HIDE DEF r
  <2>1. \A i \in DOMAIN r : r[i].f \in Functions /\ Home[r[i].f] = d /\ r[i].do = "patch" /\ r[i].f # Cache
    BY <1>2 DEF IsBatch
  <2>2. \A f \in Functions \ {Cache} : Home[f] = d => \E i \in DOMAIN r : r[i].do = "patch" /\ r[i].f = f
    BY <1>2, <2>1 DEF IsBatch
  <2> QED BY <1>2, <2>1, <2>2 DEF IsBatch, IsHooking, IsComplete
<1>3. CASE d = "USER32"
  <2>1. r = HookUser32Routines BY <1>3 DEF HookRoutine, Kernel
  <2>2. {"SendMessageA"} \in SUBSET DOMAIN Home /\ Cache \notin {"SendMessageA"} BY DEF Home, Cache
  <2>3. \A f \in Functions : f \in {"SendMessageA"} <=> Home[f] = d BY <1>1, <1>3 DEF Home
  <2> QED BY <1>2, <2>1, <2>2, <2>3, Batches
<1>4. CASE d = "GDI32"
  <2>1. r = HookGdi32Routines BY <1>4 DEF HookRoutine, Kernel
  <2>2. /\ {"QueryFontAssocStatus", "GetStockObject", "EnumFontFamiliesA"} \in SUBSET DOMAIN Home
        /\ Cache \notin {"QueryFontAssocStatus", "GetStockObject", "EnumFontFamiliesA"}
    BY DEF Home, Cache
  <2>3. \A f \in Functions :
          f \in {"QueryFontAssocStatus", "GetStockObject", "EnumFontFamiliesA"} <=> Home[f] = d
    BY <1>1, <1>4 DEF Home
  <2> QED BY <1>2, <2>1, <2>2, <2>3, Batches
<1>5. CASE d = "KERNEL32"
  <2>1. r = Request("patch", "GetUserDefaultUILanguage")
    BY <1>5 DEF HookRoutine, HookKernel32Routines, Kernel
  <2>2. {"GetUserDefaultUILanguage"} \in SUBSET DOMAIN Home /\ Cache \notin {"GetUserDefaultUILanguage"}
    BY DEF Home, Cache
  <2>3. \A f \in Functions : f \in {"GetUserDefaultUILanguage"} <=> Home[f] = d BY <1>1, <1>5 DEF Home
  <2> QED BY <1>2, <2>1, <2>2, <2>3, Batches
<1>6. CASE d = "KERNELBASE"
  <2>1. r = Request("patch", Cache) \o Request("restore", Cache)
    BY <1>6 DEF HookRoutine, HookKernel32Routines, Kernel, HackUserDefaultLCID2, Cache
  <2>2. \A f \in Functions : Home[f] = d <=> f = Cache BY <1>1, <1>6 DEF Home, Cache
  <2>3. CASE Cache \in Functions
    <3> DEFINE p == [do |-> "patch", f |-> Cache]
               q == [do |-> "restore", f |-> Cache]
    <3>1. r = <<p>> \o <<q>> BY <2>1, <2>3 DEF Request
    <3>2. p \in Patches!Requests /\ q \in Patches!Requests BY <2>3 DEF Patches!Requests
    <3>3. p.do = "patch" /\ p.f = Cache /\ q.do = "restore" /\ q.f = Cache OBVIOUS
    <3> HIDE DEF p, q, r
    <3>4. r \in Seq(Patches!Requests) /\ DOMAIN r = 1 .. 2 /\ r[1] = p /\ r[2] = q BY <3>1, <3>2
    <3>5. \A i \in DOMAIN r : i = 1 \/ i = 2 BY <3>4
    <3>6. \A i \in DOMAIN r : r[i].f = Cache /\ (r[i].do = "patch" => i = 1) /\ (r[i].do = "restore" => i = 2)
      BY <3>3, <3>4, <3>5
    <3>7. 2 \in DOMAIN r /\ r[2].do = "restore" /\ r[2].f = Cache BY <3>3, <3>4
    <3>8. \A i, j \in DOMAIN r : r[i].do = "restore" /\ r[j].do = "patch" => j < i
      BY <3>6
    <3>9. \A i \in DOMAIN r : r[i].f \in Functions /\ Home[r[i].f] = d /\ (r[i].do = "restore" => r[i].f = Cache)
      BY <2>2, <2>3, <3>6
    <3>10. \A f \in Functions \ {Cache} : Home[f] # d BY <2>2
    <3>11. \A i, j \in DOMAIN r : r[i].do = "patch" /\ r[j].do = "patch" /\ r[i].f = r[j].f => i = j
      BY <3>6
    <3>12. \E j \in DOMAIN r : r[j].do = "restore" /\ r[j].f = Cache BY <3>7
    <3>13. IsHooking(r, d) /\ IsComplete(r, d)
      BY <1>6, <3>4, <3>6, <3>8, <3>9, <3>10, <3>11, <3>12 DEF IsHooking, IsComplete
    <3> QED BY <3>13 DEF r
  <2>4. CASE Cache \notin Functions
    <3>1. r = <<>> BY <2>1, <2>4 DEF Request
    <3> QED BY <2>2, <2>4, <3>1 DEF IsHooking, IsComplete
  <2> QED BY <2>3, <2>4
<1> QED BY <1>1, <1>3, <1>4, <1>5, <1>6

(* HookModule asks for all hooks of the DLL or for none.                     *)
LEMMA HookModuleAsks ==
  ASSUME NEW d \in Dlls, HookModule(d)
  PROVE  Ask(todo') /\ IsHooking(todo', d) /\ (todo' = <<>> \/ IsComplete(todo', d))
<1>1. CASE Ask(HookRoutine(d)) BY <1>1, HookRoutineIsHooking DEF Ask
<1>2. CASE Ask(<<>>)
  <2>1. <<>> \in Seq(Patches!Requests) /\ DOMAIN <<>> = {} OBVIOUS
  <2> QED BY <1>2, <2>1 DEF Ask, IsHooking
<1> QED BY <1>1, <1>2 DEF HookModule

-----------------------------------------------------------------------------
(* The patches while the loader is at work.                                  *)

LEMMA LoaderKeepsPatches ==
  ASSUME Patches!JumpInv, UNCHANGED patchVars
  PROVE  Patches!JumpInv' /\ (Patches!StubInv => Patches!StubInv')
BY DEF patchVars, Patches!JumpInv, Patches!TypeOK, Patches!TodoInv, Patches!PatchingInv, Patches!RestoringInv,
       Patches!BlockInv, Patches!JumpHasTrampoline, Patches!StubInv, Patches!Jumps, Patches!Live, Patches!Asked, Patches!F

LEMMA AskKeepsPatches ==
  ASSUME Patches!JumpInv, Patches!Idle, Ask(todo'), todo' \in Seq(Patches!Requests),
         \A i \in DOMAIN todo' : todo'[i].do = "patch" => code[todo'[i].f] = "native",
         \A i, j \in DOMAIN todo' : todo'[i].do = "patch" /\ todo'[j].do = "patch" /\ todo'[i].f = todo'[j].f => i = j
  PROVE  Patches!JumpInv' /\ (Patches!StubInv => Patches!StubInv')
<1> USE DEF Ask, Patches!Idle, Patches!JumpInv
<1>1. Patches!TypeOK' BY DEF Patches!TypeOK
<1>2. Patches!TodoInv' BY DEF Patches!TodoInv
<1>3. Patches!PatchingInv' /\ Patches!RestoringInv' BY DEF Patches!PatchingInv, Patches!RestoringInv
<1>4. Patches!BlockInv' /\ Patches!JumpHasTrampoline'
  BY DEF Patches!BlockInv, Patches!JumpHasTrampoline, Patches!Jumps, Patches!Live
<1>5. Patches!StubInv => Patches!StubInv' BY DEF Patches!StubInv, Patches!Live
<1> QED BY <1>1, <1>2, <1>3, <1>4, <1>5

LEMMA MappingKeepsPatches ==
  ASSUME Patches!JumpInv, Patches!Idle, UNCHANGED <<stub, block, relays, list, todo, at, cur, fault>>,
         code' \in [Functions -> Patches!Entries],
         \A f \in Functions : Jumped(f) => code'[f] = code[f]
  PROVE  Patches!JumpInv' /\ (Patches!StubInv => Patches!StubInv')
<1> USE DEF Patches!Idle, Patches!JumpInv
<1>1. Patches!TypeOK' BY DEF Patches!TypeOK
<1>2. Patches!TodoInv'
  <2>1. DOMAIN todo' = {} OBVIOUS
  <2> QED BY <2>1 DEF Patches!TodoInv
<1>3. Patches!PatchingInv' /\ Patches!RestoringInv' BY DEF Patches!PatchingInv, Patches!RestoringInv
<1>4. Patches!BlockInv' BY DEF Patches!BlockInv, Patches!Live
<1>5. Patches!JumpHasTrampoline'
  BY DEF Patches!JumpHasTrampoline, Patches!Jumps, Patches!Live, Jumped
<1>6. Patches!StubInv => Patches!StubInv' BY DEF Patches!StubInv, Patches!Live
<1> QED BY <1>1, <1>2, <1>3, <1>4, <1>5, <1>6

LEMMA IdleNothingPending ==
  ASSUME Patches!Idle
  PROVE  \A do, f : ~Pending(do, f)
<1>1. todo = <<>> /\ DOMAIN todo = {} BY DEF Patches!Idle
<1> QED BY <1>1 DEF Pending

-----------------------------------------------------------------------------
(* The life of the DLLs and of the core, whatever fails.                     *)
HookInv == TypeOK /\ Patches!JumpInv /\ LifeInv

LEMMA InitHook == MCInit => HookInv /\ Patches!StubInv /\ ~fault
<1> SUFFICES ASSUME MCInit PROVE HookInv /\ Patches!StubInv /\ ~fault
  OBVIOUS
<1> USE DEF MCInit, Init
<1>1. \A f \in Functions : Home[f] \in Dlls BY HooksAssumption
<1>2. TypeOK
  <2>1. loads \in [Dlls -> 0 .. MaxLoads] BY HooksAssumption
  <2>2. \A f \in Functions : code[f] = "unmapped" <=> dll[Home[f]] = "absent" BY <1>1
  <2> QED BY <2>1, <2>2 DEF TypeOK
<1>3. todo \in Seq(Patches!Requests) /\ DOMAIN todo = {} OBVIOUS
<1>4. Patches!TypeOK
  <2>1. \A S : <<>> \in [{} -> S] OBVIOUS
  <2>2. /\ code \in [Functions -> Patches!Entries] /\ stub \in [Functions -> Blocks \cup {None}]
        /\ block \in [Blocks -> Patches!Contents \cup {None}]
    BY DEF Patches!Entries
  <2> QED BY <1>3, <2>1, <2>2 DEF Patches!TypeOK
<1>5. Patches!JumpInv
  BY <1>3, <1>4 DEF Patches!JumpInv, Patches!TodoInv, Patches!PatchingInv, Patches!RestoringInv, Patches!BlockInv,
                    Patches!JumpHasTrampoline, Patches!Live, Patches!Jumps
<1>6. LifeInv BY <1>3 DEF LifeInv, Patches!Idle, Patches!Jumps, Pending, HookedAfterAttach
<1>7. Patches!StubInv BY DEF Patches!StubInv
<1> QED BY <1>2, <1>5, <1>6, <1>7 DEF HookInv

(* A DLL no hook of which is in place is native once it is mapped.           *)
LEMMA MappedIsNative ==
  ASSUME HookInv, NEW f \in Functions, ~Patches!Jumps(f), dll[Home[f]] # "absent"
  PROVE  code[f] = "native"
BY DEF HookInv, TypeOK, Patches!Jumps

LEMMA HomeIsDll == \A f \in Functions : Home[f] \in Dlls
BY HooksAssumption

LEMMA MapKeepsHook ==
  ASSUME HookInv, NEW d \in Dlls, MapDll(d) \/ UnmapDll(d)
  PROVE  HookInv' /\ (Patches!StubInv => Patches!StubInv')
<1> USE HomeIsDll DEF HookInv
<1>1. /\ Patches!Idle /\ UNCHANGED <<stub, block, relays, list, todo, at, cur, fault, core, host, cookie>>
      /\ core \in {"absent", "running", "gone"}
      /\ \/ /\ dll[d] = "absent" /\ loads[d] < MaxLoads /\ dll' = [dll EXCEPT ![d] = "mapped"]
            /\ code' = [f \in Functions |-> IF Home[f] = d THEN "native" ELSE code[f]]
            /\ loads' = [loads EXCEPT ![d] = @ + 1] /\ late' = [late EXCEPT ![d] = cookie]
            /\ entry' = [entry EXCEPT ![d] = IF cookie THEN "delay" ELSE "own"]
         \/ /\ dll[d] = "leaving" /\ dll' = [dll EXCEPT ![d] = "absent"]
            /\ code' = [f \in Functions |-> IF Home[f] = d THEN "unmapped" ELSE code[f]]
            /\ loads' = loads /\ late' = [late EXCEPT ![d] = FALSE] /\ entry' = [entry EXCEPT ![d] = "own"]
  BY DEF MapDll, UnmapDll, Quiet, Visible
<1>2. \A f \in Functions : Jumped(f) => code'[f] = code[f] /\ Home[f] # d BY <1>1 DEF Jumped
<1>3. code' \in [Functions -> Patches!Entries]
  BY <1>1 DEF Patches!JumpInv, Patches!TypeOK, Patches!Entries
<1>4. Patches!JumpInv' /\ (Patches!StubInv => Patches!StubInv') BY <1>1, <1>2, <1>3, MappingKeepsPatches
<1>5. TypeOK'
  <2>1. loads' \in [Dlls -> 0 .. MaxLoads] BY <1>1, HooksAssumption DEF TypeOK
  <2>2. \A f \in Functions : code'[f] = "unmapped" <=> dll'[Home[f]] = "absent" BY <1>1 DEF TypeOK
  <2>3. /\ dll' \in [Dlls -> {"absent", "mapped", "entered", "delayed", "attached", "leaving"}]
        /\ entry' \in [Dlls -> {"own", "delay"}]
    BY <1>1 DEF TypeOK
  <2>4. late' \in [Dlls -> BOOLEAN]
    <3>1. PICK b \in BOOLEAN : late' = [late EXCEPT ![d] = b] BY <1>1, Zenon DEF TypeOK
    <3> QED BY <3>1 DEF TypeOK
  <2> QED BY <1>1, <2>1, <2>2, <2>3, <2>4 DEF TypeOK
<1>6. LifeInv'
  <2>1. \A do, f : ~Pending(do, f)' BY <1>1, IdleNothingPending DEF Pending
  <2>2. HookedAfterAttach' BY <1>1, <1>2 DEF LifeInv, HookedAfterAttach, Patches!Jumps, Jumped, TypeOK
  <2>3. \A f \in Functions : Jumped(f) => Patches!Jumps(f) BY <1>2 DEF Jumped, Patches!Jumps
  <2>4. Patches!Idle' BY <1>1 DEF Patches!Idle
  <2> QED BY <1>1, <2>1, <2>2, <2>3, <2>4 DEF LifeInv, TypeOK, Jumped, Patches!Jumps
<1> QED BY <1>4, <1>5, <1>6

(* The steps that leave the functions alone.                                 *)
LEMMA DllKeepsHook ==
  ASSUME HookInv, NEW d \in Dlls,
         EnterDll(d) \/ DllMainReturns(d) \/ DllMainFails(d) \/ NotifyUnload(d)
  PROVE  /\ HookInv' /\ (Patches!StubInv => Patches!StubInv')
         /\ code' = code /\ fault' = fault
<1> USE HomeIsDll DEF HookInv
<1>1. /\ Patches!Idle /\ core \in {"absent", "running", "gone"}
      /\ UNCHANGED <<core, host, cookie, late, loads>>
      /\ \A do, f : ~Pending(do, f)
  BY IdleNothingPending DEF EnterDll, DllMainReturns, DllMainFails, NotifyUnload, Quiet
<1>2. /\ dll' \in [Dlls -> {"absent", "mapped", "entered", "delayed", "attached", "leaving"}]
      /\ entry' \in [Dlls -> {"own", "delay"}]
      /\ \A c \in Dlls : c # d => dll'[c] = dll[c] /\ entry'[c] = entry[c]
      /\ dll[d] # "absent" /\ dll'[d] # "absent"
      /\ dll[d] \in {"attached", "leaving"} => dll'[d] \in {"attached", "leaving"}
      /\ entry'[d] = "delay" => dll'[d] \in {"mapped", "leaving"}
      /\ core # "running" => entry'[d] = "own" /\ dll'[d] # "delayed"
  BY <1>1 DEF EnterDll, DllMainReturns, DllMainFails, NotifyUnload, TypeOK, LifeInv
<1>3. CASE UNCHANGED patchVars
  <2>1. UNCHANGED <<code, todo, at, fault>> BY <1>3 DEF patchVars
  <2>2. Patches!JumpInv' /\ (Patches!StubInv => Patches!StubInv') BY <1>3, LoaderKeepsPatches
  <2>3. TypeOK' BY <1>1, <1>2, <2>1 DEF TypeOK
  <2>4. \A do, f : ~Pending(do, f)' BY <1>1, <2>1 DEF Pending
  <2>5. Patches!Idle' BY <1>1, <2>1 DEF Patches!Idle
  <2>6. \A f \in Functions : Patches!Jumps(f)' = Patches!Jumps(f) BY <2>1 DEF Patches!Jumps
  <2>7. HookedAfterAttach' BY <1>2, <2>6 DEF LifeInv, HookedAfterAttach
  <2>8. LifeInv' BY <1>1, <1>2, <2>4, <2>5, <2>6, <2>7 DEF LifeInv
  <2> QED BY <2>1, <2>2, <2>3, <2>8
<1>4. CASE ~UNCHANGED patchVars
  <2>1. /\ \/ dll[d] = "delayed" /\ dll'[d] = "attached" /\ HookModule(d)
           \/ dll'[d] = "leaving" /\ d \notin Kernel /\ cookie /\ Ask(UnHookRoutine(d))
        /\ cookie
    BY <1>1, <1>4 DEF EnterDll, DllMainReturns, DllMainFails, NotifyUnload, TypeOK, LifeInv
  <2>2. /\ Ask(todo') /\ todo' \in Seq(Patches!Requests)
        /\ \A i \in DOMAIN todo' : todo'[i].do = "patch" => Home[todo'[i].f] = d /\ dll[d] = "delayed" /\ dll'[d] = "attached"
        /\ \A i \in DOMAIN todo' : todo'[i].f \in Functions
        /\ \A i, j \in DOMAIN todo' : todo'[i].do = "patch" /\ todo'[j].do = "patch" /\ todo'[i].f = todo'[j].f => i = j
    <3>1. CASE dll[d] = "delayed" /\ dll'[d] = "attached" /\ HookModule(d)
      BY <3>1, HookModuleAsks DEF IsHooking
    <3>2. CASE d \notin Kernel /\ Ask(UnHookRoutine(d))
      <4>1. d \in {"USER32", "GDI32"} BY <3>2, HooksAssumption DEF Kernel
      <4>2. \E names : IsBatch(UnHookRoutine(d), "restore", names) BY <4>1, Batches DEF UnHookRoutine, Kernel
      <4> QED BY <3>2, <4>2 DEF IsBatch, Ask
    <3> QED BY <2>1, <3>1, <3>2
  <2>3. core = "running" BY <1>1, <2>1 DEF LifeInv
  <2>4. \A i \in DOMAIN todo' : todo'[i].do = "patch" => code[todo'[i].f] = "native"
    BY <2>2, MappedIsNative DEF LifeInv, HookedAfterAttach
  <2>5. Patches!JumpInv' /\ (Patches!StubInv => Patches!StubInv') BY <1>1, <2>2, <2>4, AskKeepsPatches
  <2>6. code' = code /\ fault' = fault BY <2>2 DEF Ask
  <2>7. TypeOK' BY <1>1, <1>2, <2>6 DEF TypeOK
  <2>8. \A f \in Functions : Patches!Jumps(f)' = Patches!Jumps(f) BY <2>6 DEF Patches!Jumps
  <2>9. HookedAfterAttach' BY <1>2, <2>8 DEF LifeInv, HookedAfterAttach
  <2>10. \A f \in Functions : Pending("patch", f)' => dll'[Home[f]] = "attached" BY <2>2 DEF Pending
  <2>11. LifeInv' BY <1>1, <1>2, <2>3, <2>8, <2>9, <2>10 DEF LifeInv
  <2> QED BY <2>5, <2>6, <2>7, <2>11
<1> QED BY <1>3, <1>4

LEMMA CoreKeepsHook ==
  ASSUME HookInv, LoadCore \/ RegisterNotification \/ HookNtdllRoutines \/ InitializeFails \/ UnloadCore
  PROVE  /\ HookInv' /\ (Patches!StubInv => Patches!StubInv')
         /\ UNCHANGED patchVars
<1> USE DEF HookInv
<1>1. UNCHANGED <<host, dll, entry, late, loads, patchVars>>
  BY DEF LoadCore, RegisterNotification, HookNtdllRoutines, InitializeFails, UnloadCore
<1>2. UNCHANGED <<code, stub, block, relays, list, todo, at, cur, fault>> BY <1>1 DEF patchVars
<1>3. Patches!JumpInv' /\ (Patches!StubInv => Patches!StubInv') BY <1>1, LoaderKeepsPatches
<1>4. /\ \A f \in Functions : Patches!Jumps(f)' = Patches!Jumps(f)
      /\ \A do, f : Pending(do, f)' = Pending(do, f)
      /\ Patches!Idle' = Patches!Idle /\ HookedAfterAttach' = HookedAfterAttach
  BY <1>1, <1>2 DEF Patches!Jumps, Pending, Patches!Idle, HookedAfterAttach
<1>5. TypeOK' /\ LifeInv'
  <2>1. CASE LoadCore
    BY <1>1, <1>2, <1>4, <2>1 DEF LoadCore, TypeOK, LifeInv, Quiet
  <2>2. CASE RegisterNotification \/ HookNtdllRoutines \/ InitializeFails
    BY <1>1, <1>2, <1>4, <2>2 DEF RegisterNotification, HookNtdllRoutines, InitializeFails, TypeOK, LifeInv
  <2>3. CASE UnloadCore
    <3>1. \A d \in Dlls : entry[d] = "own" /\ dll[d] # "delayed"
      BY <2>3 DEF UnloadCore, LifeInv, TypeOK
    <3> QED BY <1>1, <1>2, <1>4, <2>3, <3>1 DEF UnloadCore, TypeOK, LifeInv, Quiet
  <2> QED BY <2>1, <2>2, <2>3
     DEF LoadCore, RegisterNotification, HookNtdllRoutines, InitializeFails, UnloadCore
<1> QED BY <1>1, <1>3, <1>5

LEMMA KernelKeepsHook ==
  ASSUME HookInv,
         \/ HookKernel("KERNELBASE", "ntdll", "kernel")
         \/ HookKernel("KERNEL32", "kernel", "running")
  PROVE  /\ HookInv' /\ (Patches!StubInv => Patches!StubInv')
         /\ code' = code /\ fault' = fault
<1> USE HomeIsDll DEF HookInv
<1>1. PICK d \in {"KERNELBASE", "KERNEL32"} :
        /\ d = "KERNELBASE" => core = "ntdll" /\ core' = "kernel"
        /\ d = "KERNEL32" => core = "kernel" /\ core' = "running"
        /\ Patches!Idle /\ UNCHANGED <<host, cookie, dll, late, loads>>
        /\ entry' = IF d \in Dlls /\ dll[d] = "mapped" THEN [entry EXCEPT ![d] = "delay"] ELSE entry
        /\ IF d \in Dlls /\ dll[d] = "attached" THEN HookModule(d) ELSE UNCHANGED patchVars
  BY DEF HookKernel
<1>2. \A do, f : ~Pending(do, f) BY <1>1, IdleNothingPending
<1>3. /\ entry' \in [Dlls -> {"own", "delay"}]
      /\ \A c \in Dlls : entry'[c] = "delay" => dll'[c] \in {"mapped", "leaving"}
  BY <1>1 DEF TypeOK, LifeInv
<1>4. /\ code' = code /\ fault' = fault /\ Patches!JumpInv' /\ (Patches!StubInv => Patches!StubInv')
      /\ \A f \in Functions : Pending("patch", f)' => dll'[Home[f]] = "attached" /\ Home[f] = d
  <2>1. CASE UNCHANGED patchVars
    <3>1. UNCHANGED <<code, todo, fault>> BY <2>1 DEF patchVars
    <3> QED BY <1>2, <2>1, <3>1, LoaderKeepsPatches DEF Pending
  <2>2. CASE d \in Dlls /\ dll[d] = "attached" /\ HookModule(d)
    <3>1. Ask(todo') /\ IsHooking(todo', d) BY <2>2, HookModuleAsks
    <3>2. \A f \in Functions : Home[f] = d => ~Patches!Jumps(f) BY <1>1 DEF LifeInv
    <3>3. \A i \in DOMAIN todo' : todo'[i].do = "patch" => code[todo'[i].f] = "native"
      BY <2>2, <3>1, <3>2, MappedIsNative DEF IsHooking
    <3>4. Patches!JumpInv' /\ (Patches!StubInv => Patches!StubInv')
      BY <1>1, <3>1, <3>3, AskKeepsPatches DEF IsHooking
    <3>5. \A f \in Functions : Pending("patch", f)' => dll'[Home[f]] = "attached" /\ Home[f] = d
      BY <1>1, <2>2, <3>1 DEF IsHooking, Pending
    <3> QED BY <3>1, <3>4, <3>5 DEF Ask
  <2> QED BY <1>1, <2>1, <2>2
<1>5. TypeOK' BY <1>1, <1>3, <1>4 DEF TypeOK
<1>6. \A f \in Functions : Patches!Jumps(f)' = Patches!Jumps(f) BY <1>4 DEF Patches!Jumps
<1>7. HookedAfterAttach' BY <1>1, <1>6 DEF LifeInv, HookedAfterAttach
<1>8. cookie' BY <1>1 DEF LifeInv
<1>9. LifeInv' BY <1>1, <1>3, <1>4, <1>6, <1>7, <1>8 DEF LifeInv
<1> QED BY <1>4, <1>5, <1>9

LEMMA UnInitializeKeepsHook ==
  ASSUME HookInv, UnInitialize
  PROVE  /\ HookInv' /\ (Patches!StubInv => Patches!StubInv')
         /\ IsBatch(todo', "restore", {"GetStockObject", "QueryFontAssocStatus", "SendMessageA", "GetUserDefaultUILanguage"})
         /\ code' = code /\ fault' = fault
<1> USE DEF HookInv
<1>1. /\ core = "stopping" /\ core' = "gone" /\ cookie' = FALSE /\ UNCHANGED <<host, dll, entry, late, loads>>
      /\ Ask(todo')
      /\ IsBatch(todo', "restore", {"GetStockObject", "QueryFontAssocStatus", "SendMessageA", "GetUserDefaultUILanguage"})
  BY Batches DEF UnInitialize, Ask
<1>2. Patches!Idle BY <1>1 DEF LifeInv
<1>3. /\ todo' \in Seq(Patches!Requests) /\ \A i \in DOMAIN todo' : todo'[i].do = "restore" BY <1>1 DEF IsBatch
<1>4. Patches!JumpInv' /\ (Patches!StubInv => Patches!StubInv') BY <1>1, <1>2, <1>3, AskKeepsPatches
<1>5. code' = code /\ fault' = fault BY <1>1 DEF Ask
<1>6. TypeOK' BY <1>1, <1>5 DEF TypeOK
<1>7. \A f \in Functions : Patches!Jumps(f)' = Patches!Jumps(f) BY <1>5 DEF Patches!Jumps
<1>8. \A f : ~Pending("patch", f)' BY <1>3 DEF Pending
<1>9. HookedAfterAttach' BY <1>1, <1>7 DEF LifeInv, HookedAfterAttach
<1>10. LifeInv' BY <1>1, <1>7, <1>8, <1>9 DEF LifeInv
<1> QED BY <1>1, <1>4, <1>5, <1>6, <1>10

(* The requests that are left after a step of the engine were there before.  *)
LEMMA TailPending ==
  ASSUME todo \in Seq(Patches!Requests), todo # <<>>, todo' = Tail(todo)
  PROVE  /\ \A i \in DOMAIN todo' : i + 1 \in DOMAIN todo /\ todo'[i] = todo[i + 1] /\ i \in Nat
         /\ \A i \in DOMAIN todo : i # 1 => i - 1 \in DOMAIN todo' /\ todo'[i - 1] = todo[i]
         /\ \A do, f : Pending(do, f)' => Pending(do, f)
         /\ \A do, f : Pending(do, f) => Pending(do, f)' \/ (todo[1].do = do /\ todo[1].f = f)
<1>1. \A i \in DOMAIN todo' : i + 1 \in DOMAIN todo /\ todo'[i] = todo[i + 1] /\ i \in Nat OBVIOUS
<1>2. ASSUME NEW i \in DOMAIN todo, i # 1 PROVE i - 1 \in DOMAIN todo' /\ todo'[i - 1] = todo[i]
  <2>1. Len(todo) \in Nat /\ DOMAIN todo = 1 .. Len(todo) /\ DOMAIN todo' = 1 .. Len(todo) - 1 OBVIOUS
  <2>2. i - 1 \in DOMAIN todo' /\ (i - 1) + 1 = i BY <1>2, <2>1
  <2> QED BY <1>1, <2>2
<1>3. ASSUME NEW do, NEW f, Pending(do, f)' PROVE Pending(do, f) BY <1>1, <1>3 DEF Pending
<1>4. ASSUME NEW do, NEW f, Pending(do, f) PROVE Pending(do, f)' \/ (todo[1].do = do /\ todo[1].f = f)
  <2>1. PICK i \in DOMAIN todo : todo[i].do = do /\ todo[i].f = f BY <1>4 DEF Pending
  <2> QED BY <1>2, <2>1 DEF Pending
<1> QED BY <1>1, <1>2, <1>3, <1>4

LEMMA EnginePending ==
  ASSUME Patches!JumpInv, Patches!EngineStep
  PROVE  \A do, f : Pending(do, f)' => Pending(do, f)
<1>1. todo \in Seq(Patches!Requests) BY DEF Patches!JumpInv, Patches!TypeOK
<1>2. todo' = todo \/ (todo # <<>> /\ todo' = Tail(todo)) \/ todo' = <<>> BY EngineEffect DEF Advances
<1>3. CASE todo' = todo BY <1>3 DEF Pending
<1>4. CASE todo # <<>> /\ todo' = Tail(todo) BY <1>1, <1>4, TailPending
<1>5. CASE todo' = <<>> BY <1>5 DEF Pending
<1> QED BY <1>2, <1>3, <1>4, <1>5

LEMMA EngineKeepsHook ==
  ASSUME HookInv, Patches!EngineStep, UNCHANGED lifeVars
  PROVE  HookInv'
<1> USE DEF HookInv
<1>1. Patches!JumpInv' BY EngineKeepsJumpInv
<1>2. UNCHANGED <<core, host, cookie, dll, entry, late, loads>> BY DEF lifeVars
<1>3. TypeOK' BY <1>2, EngineEffect, HomeIsDll DEF TypeOK
<1>4. ~Patches!Idle BY EngineEffect DEF Patches!Idle
<1>5. \A f \in Functions : Patches!Jumps(f)' => Patches!Jumps(f) \/ Pending("patch", f)
  <2>1. 1 \in DOMAIN todo BY EngineEffect, HeadOfTodo DEF Patches!JumpInv
  <2>2. \A f \in Functions : Patches!Jumps(f)' <=> Jumped(f) BY DEF Jumped, Patches!Jumps
  <2>3. \A f \in Functions : Jumped(f) => Patches!Jumps(f) \/ (todo[1].do = "patch" /\ todo[1].f = f)
    <3>1. code' = code => \A f \in Functions : Jumped(f) <=> Patches!Jumps(f) BY DEF Jumped, Patches!Jumps
    <3> QED BY <3>1, EngineEffect DEF Advances
  <2> QED BY <2>1, <2>2, <2>3 DEF Pending
<1>6. HookedAfterAttach' BY <1>2, <1>5 DEF LifeInv, HookedAfterAttach
<1>7. LifeInv' BY <1>2, <1>4, <1>5, <1>6, EnginePending DEF LifeInv
<1> QED BY <1>1, <1>3, <1>7

LEMMA NextKeepsHook ==
  ASSUME HookInv, [Next]_vars
  PROVE  /\ HookInv'
         /\ ~ProtectFails /\ Patches!StubInv /\ ~fault => Patches!StubInv' /\ ~fault'
<1>1. CASE UNCHANGED vars
  <2>1. UNCHANGED patchVars /\ UNCHANGED lifeVars /\ UNCHANGED <<code, todo, at, fault>>
        /\ UNCHANGED <<core, host, cookie, dll, entry, late, loads>>
    BY <1>1 DEF vars, patchVars, lifeVars
  <2>2. Patches!JumpInv' /\ (Patches!StubInv => Patches!StubInv') BY <2>1, LoaderKeepsPatches DEF HookInv
  <2>3. TypeOK' /\ LifeInv'
    BY <2>1 DEF HookInv, TypeOK, LifeInv, Patches!Idle, Patches!Jumps, Pending, HookedAfterAttach
  <2> QED BY <2>1, <2>2, <2>3 DEF HookInv
<1>2. ASSUME NEW d \in Dlls, MapDll(d) \/ UnmapDll(d) PROVE HookInv' /\ (Patches!StubInv => Patches!StubInv') /\ fault' = fault
  BY <1>2, MapKeepsHook DEF MapDll, UnmapDll
<1>3. CASE LoadCore \/ RegisterNotification \/ HookNtdllRoutines \/ InitializeFails \/ UnloadCore
  BY <1>3, CoreKeepsHook DEF patchVars
<1>4. CASE Patches!EngineStep /\ UNCHANGED lifeVars
  BY <1>4, EngineKeepsHook, EngineKeepsStubInv DEF HookInv
<1> QED BY <1>1, <1>2, <1>3, <1>4, DllKeepsHook, KernelKeepsHook, UnInitializeKeepsHook DEF Next

(* Whatever fails and in whatever order DLLs are mapped, attached, freed and  *)
(* mapped again: no function of a DLL jumps to a hook before the DLL's own   *)
(* DllMain has succeeded (DelayInitDllEntry, DllNotification, Initialize).   *)
THEOREM HooksComeAfterDllMain == MCSpec => []HookedAfterAttach
<1>1. MCInit => HookInv BY InitHook
<1>2. HookInv /\ [MCNext]_<<vars, failed>> => HookInv'
  BY NextKeepsHook DEF MCNext
<1>3. HookInv => HookedAfterAttach BY DEF HookInv, LifeInv
<1> QED BY <1>1, <1>2, <1>3, PTL DEF MCSpec

(* A function is patched at most once in a mapping: its trampoline has its   *)
(* own code and never a jump back to the hook.                               *)
THEOREM HooksAreMadeOnce == MCSpec => []PatchedOnce
<1>1. MCInit => HookInv BY InitHook
<1>2. HookInv /\ [MCNext]_<<vars, failed>> => HookInv'
  BY NextKeepsHook DEF MCNext
<1>3. HookInv => PatchedOnce BY DEF HookInv, Patches!JumpInv, PatchedOnce
<1> QED BY <1>1, <1>2, <1>3, PTL DEF MCSpec

-----------------------------------------------------------------------------
(* What is left when the core goes.                                          *)

LEMMA QuietKeepsLeaving ==
  ASSUME LeavingInv, todo' = todo, core' = "gone" => core = "gone",
         \A f \in Functions : Jumped(f) => Patches!Jumps(f)
  PROVE  LeavingInv'
<1>1. \A do, f : Pending(do, f)' = Pending(do, f) BY DEF Pending
<1>2. \A f \in Functions : Patches!Jumps(f)' => Patches!Jumps(f) BY DEF Jumped, Patches!Jumps
<1> QED BY <1>1, <1>2 DEF LeavingInv

LEMMA HookingKeepsLeaving ==
  ASSUME HookInv, LeavingInv, Patches!Idle, NEW d, IsHooking(todo', d), code' = code, core' # "gone"
  PROVE  LeavingInv'
<1>1. Cache \in Functions => ~Patches!Jumps(Cache) BY IdleNothingPending DEF LeavingInv
<1>2. Cache \in Functions => ~Patches!Jumps(Cache)' BY <1>1 DEF Patches!Jumps
<1>3. \A f : Pending("patch", f)' /\ Pending("restore", Cache)' => f = Cache BY DEF IsHooking, Pending
<1>4. Pending("patch", Cache)' => Pending("restore", Cache)' BY DEF IsHooking, Pending
<1>5. \A i, j \in DOMAIN todo' : todo'[i].do = "restore" /\ todo'[j].do = "patch" => j < i BY DEF IsHooking
<1> QED BY <1>2, <1>3, <1>4, <1>5 DEF LeavingInv

(* UnHook...Routines: only functions of the DLL are restored.                *)
LEMMA UnHookingRestores ==
  ASSUME NEW d \in Dlls \ Kernel
  PROVE  \A i \in DOMAIN UnHookRoutine(d) : /\ UnHookRoutine(d)[i].do = "restore"
                                            /\ UnHookRoutine(d)[i].f \in Functions
                                            /\ Home[UnHookRoutine(d)[i].f] = d
<1>1. d \in {"USER32", "GDI32"} BY HooksAssumption DEF Kernel
<1>2. CASE d = "USER32"
  <2>1. UnHookRoutine(d) = UnHookUser32Routines BY <1>2 DEF UnHookRoutine, Kernel
  <2>2. \A f \in {"SendMessageA"} : Home[f] = d BY <1>2 DEF Home
  <2> QED BY <2>1, <2>2, Batches DEF IsBatch
<1>3. CASE d = "GDI32"
  <2>1. UnHookRoutine(d) = UnHookGdi32Routines BY <1>3 DEF UnHookRoutine, Kernel
  <2>2. \A f \in {"GetStockObject", "QueryFontAssocStatus"} : Home[f] = d BY <1>3 DEF Home
  <2>3. IsBatch(UnHookRoutine(d), "restore", {"GetStockObject", "QueryFontAssocStatus"}) BY <2>1, Batches
  <2> QED BY <2>2, <2>3 DEF IsBatch
<1> QED BY <1>1, <1>2, <1>3

LEMMA RestoringKeepsLeaving ==
  ASSUME HookInv, LeavingInv, Patches!Idle, \A i \in DOMAIN todo' : todo'[i].do = "restore",
         code' = code, core' # "gone"
  PROVE  LeavingInv'
<1>1. Cache \in Functions => ~Patches!Jumps(Cache) BY IdleNothingPending DEF LeavingInv
<1>2. Cache \in Functions => ~Patches!Jumps(Cache)' BY <1>1 DEF Patches!Jumps
<1>3. \A f : ~Pending("patch", f)' BY DEF Pending
<1> QED BY <1>2, <1>3 DEF LeavingInv

LEMMA UnInitializeKeepsLeaving ==
  ASSUME HookInv, LeavingInv, "EnumFontFamiliesA" \notin Functions, UnInitialize
  PROVE  LeavingInv'
<1> DEFINE names == {"GetStockObject", "QueryFontAssocStatus", "SendMessageA", "GetUserDefaultUILanguage"}
<1>1. Patches!Idle BY DEF HookInv, LifeInv, UnInitialize
<1>2. Cache \in Functions => ~Patches!Jumps(Cache) BY <1>1, IdleNothingPending DEF LeavingInv
<1>3. IsBatch(todo', "restore", names) /\ code' = code BY UnInitializeKeepsHook
<1>4. \A f \in Functions : Patches!Jumps(f)' <=> Patches!Jumps(f) BY <1>3 DEF Patches!Jumps
<1>5. \A f : ~Pending("patch", f)' BY <1>3 DEF Pending, IsBatch
<1>6. \A f \in Functions : f = Cache \/ f \in names BY HooksAssumption DEF Home, Cache
<1>7. \A f \in names \cap Functions : Pending("restore", f)' BY <1>3 DEF IsBatch, Pending
<1>8. \A i \in DOMAIN todo' : todo'[i].do = "restore" BY <1>3 DEF IsBatch
<1> QED BY <1>2, <1>4, <1>5, <1>6, <1>7, <1>8 DEF LeavingInv

LEMMA EngineKeepsLeaving ==
  ASSUME HookInv, LeavingInv, ~ProtectFails, Patches!EngineStep, UNCHANGED lifeVars
  PROVE  LeavingInv'
<1> USE DEF HookInv
<1>1. core' = core BY DEF lifeVars
<1>2. todo \in Seq(Patches!Requests) /\ todo # <<>> /\ 1 \in DOMAIN todo /\ todo[1].f \in Functions
  BY EngineEffect, HeadOfTodo DEF Patches!JumpInv, Patches!TypeOK
<1>3. \A do, f : Pending(do, f)' => Pending(do, f) BY EnginePending
<1>4. \A f \in Functions : Patches!Jumps(f)' <=> Jumped(f) BY DEF Jumped, Patches!Jumps
<1>5. CASE todo' = todo /\ \A f \in Functions : Jumped(f) => Patches!Jumps(f)
  BY <1>1, <1>5, QuietKeepsLeaving
<1>6. ASSUME todo' = Tail(todo)
      PROVE  \A i, j \in DOMAIN todo' : todo'[i].do = "restore" /\ todo'[j].do = "patch" => j < i
  <2> SUFFICES ASSUME NEW i \in DOMAIN todo', NEW j \in DOMAIN todo', todo'[i].do = "restore", todo'[j].do = "patch"
               PROVE  j < i
    OBVIOUS
  <2>1. /\ i + 1 \in DOMAIN todo /\ todo'[i] = todo[i + 1] /\ i \in Nat
        /\ j + 1 \in DOMAIN todo /\ todo'[j] = todo[j + 1] /\ j \in Nat
    BY <1>2, <1>6, TailPending
  <2>2. j + 1 < i + 1 BY <2>1 DEF LeavingInv
  <2> QED BY <2>1, <2>2
<1>7. CASE Advances("patch") /\ \A f \in Functions : Jumped(f) <=> Patches!Jumps(f) \/ f = todo[1].f
  <2>1. \A f : Pending("restore", f) => Pending("restore", f)' BY <1>2, <1>7, TailPending DEF Advances
  <2>2. Pending("patch", todo[1].f) BY <1>2, <1>7 DEF Advances, Pending
  <2>3. core # "gone" BY <1>2, <2>2 DEF LeavingInv
  <2> QED BY <1>1, <1>3, <1>4, <1>6, <1>7, <2>1, <2>2, <2>3 DEF LeavingInv, Advances
<1>8. CASE Advances("restore") /\ (\A f \in Functions : Jumped(f) <=> Patches!Jumps(f)) /\ ~Patches!Jumps(todo[1].f)
  <2>1. \A f : Pending("restore", f) /\ f # todo[1].f => Pending("restore", f)'
    BY <1>2, <1>8, TailPending DEF Advances
  <2>2. \A f : ~Pending("patch", f)'
    <3>1. ASSUME NEW j \in DOMAIN todo', todo'[j].do = "patch" PROVE FALSE
      <4>1. j + 1 \in DOMAIN todo /\ todo'[j] = todo[j + 1] /\ j \in Nat BY <1>2, <1>8, TailPending DEF Advances
      <4>2. j + 1 < 1 BY <1>2, <1>8, <3>1, <4>1 DEF LeavingInv, Advances
      <4> QED BY <4>1, <4>2
    <3> QED BY <3>1 DEF Pending
  <2> QED BY <1>1, <1>3, <1>4, <1>6, <1>8, <2>1, <2>2 DEF LeavingInv, Advances
<1>9. CASE todo[1].do = "patch" /\ todo' = <<>> /\ code' = code
  <2>1. Pending("patch", todo[1].f) BY <1>2, <1>9 DEF Pending
  <2>2. core # "gone" BY <1>2, <2>1 DEF LeavingInv
  <2>3. code[todo[1].f] = "native" BY <1>2, <1>9 DEF Patches!JumpInv, Patches!TodoInv
  <2>4. Cache \in Functions => ~Patches!Jumps(Cache)
    <3>1. ASSUME Cache \in Functions, Patches!Jumps(Cache) PROVE FALSE
      <4>1. Pending("restore", Cache) BY <3>1 DEF LeavingInv
      <4>2. todo[1].f = Cache BY <1>2, <2>1, <4>1 DEF LeavingInv
      <4> QED BY <2>3, <3>1, <4>2 DEF Patches!Jumps
    <3> QED BY <3>1
  <2>5. Cache \in Functions => ~Patches!Jumps(Cache)' BY <1>9, <2>4 DEF Patches!Jumps
  <2>6. DOMAIN todo' = {} /\ \A do, f : ~Pending(do, f)' BY <1>9 DEF Pending
  <2> QED BY <1>1, <2>2, <2>5, <2>6 DEF LeavingInv
<1> QED BY <1>5, <1>7, <1>8, <1>9, EngineEffect

LEMMA NextKeepsLeaving ==
  ASSUME HookInv, LeavingInv, ~ProtectFails, "EnumFontFamiliesA" \notin Functions, [Next]_vars
  PROVE  LeavingInv'
<1> USE DEF HookInv
<1>1. CASE UNCHANGED vars BY <1>1, QuietKeepsLeaving DEF vars, patchVars, lifeVars, Jumped, Patches!Jumps
<1>2. ASSUME NEW d \in Dlls, MapDll(d) \/ UnmapDll(d) PROVE LeavingInv'
  <2>1. todo' = todo /\ core' = core /\ \A f \in Functions : Jumped(f) => Patches!Jumps(f)
    BY <1>2 DEF MapDll, UnmapDll, Visible, Jumped, Patches!Jumps
  <2> QED BY <2>1, QuietKeepsLeaving
<1>3. ASSUME NEW d \in Dlls, EnterDll(d) \/ DllMainReturns(d) \/ DllMainFails(d) \/ NotifyUnload(d)
      PROVE  LeavingInv'
  <2>1. code' = code /\ core' = core /\ Patches!Idle
    BY <1>3, DllKeepsHook DEF EnterDll, DllMainReturns, DllMainFails, NotifyUnload, Quiet
  <2>2. \/ UNCHANGED patchVars
        \/ dll[d] = "delayed" /\ HookModule(d)
        \/ d \notin Kernel /\ cookie /\ Ask(UnHookRoutine(d))
    BY <1>3 DEF EnterDll, DllMainReturns, DllMainFails, NotifyUnload
  <2>3. CASE UNCHANGED patchVars BY <2>1, <2>3, QuietKeepsLeaving DEF patchVars, Jumped, Patches!Jumps
  <2>4. CASE dll[d] = "delayed" /\ HookModule(d)
    <3>1. core # "gone" BY <2>4 DEF LifeInv
    <3> QED BY <2>1, <2>4, <3>1, HookModuleAsks, HookingKeepsLeaving
  <2>5. CASE d \notin Kernel /\ cookie /\ Ask(UnHookRoutine(d))
    <3>1. core # "gone" BY <2>5 DEF LifeInv
    <3>2. \A i \in DOMAIN todo' : todo'[i].do = "restore" BY <2>5, UnHookingRestores DEF Ask
    <3> QED BY <2>1, <3>1, <3>2, RestoringKeepsLeaving
  <2> QED BY <2>2, <2>3, <2>4, <2>5
<1>4. CASE LoadCore \/ RegisterNotification \/ HookNtdllRoutines \/ InitializeFails \/ UnloadCore
  <2>1. UNCHANGED patchVars /\ core' # "gone"
    BY <1>4, CoreKeepsHook DEF LoadCore, RegisterNotification, HookNtdllRoutines, InitializeFails, UnloadCore, LifeInv
  <2> QED BY <2>1, QuietKeepsLeaving DEF patchVars, Jumped, Patches!Jumps
<1>5. ASSUME NEW d, NEW next \in {"kernel", "running"}, NEW step, HookKernel(d, step, next), code' = code PROVE LeavingInv'
  <2>1. core' # "gone" /\ Patches!Idle /\ (UNCHANGED patchVars \/ (d \in Dlls /\ HookModule(d)))
    BY <1>5 DEF HookKernel
  <2>2. CASE UNCHANGED patchVars BY <2>1, <2>2, QuietKeepsLeaving DEF patchVars, Jumped, Patches!Jumps
  <2>3. CASE d \in Dlls /\ HookModule(d) BY <1>5, <2>1, <2>3, HookModuleAsks, HookingKeepsLeaving
  <2> QED BY <2>1, <2>2, <2>3
<1>6. CASE HookKernel("KERNELBASE", "ntdll", "kernel") \/ HookKernel("KERNEL32", "kernel", "running")
  BY <1>5, <1>6, KernelKeepsHook
<1>7. CASE Patches!EngineStep /\ UNCHANGED lifeVars BY <1>7, EngineKeepsLeaving
<1> QED BY <1>1, <1>2, <1>3, <1>4, <1>6, <1>7, UnInitializeKeepsLeaving DEF Next

LEMMA LeavingMeansGone == HookInv /\ LeavingInv => HooksGo
<1> SUFFICES ASSUME HookInv, LeavingInv PROVE HooksGo
  OBVIOUS
<1>1. PatchedOnce BY DEF HookInv, Patches!JumpInv, PatchedOnce
<1>2. GoneIsUnhooked BY IdleNothingPending DEF HookInv, LifeInv, LeavingInv, GoneIsUnhooked
<1> QED BY <1>1, <1>2 DEF HooksGo, HookInv

(* When the protection of memory can be changed and each routine that hooks   *)
(* has one that restores (EnumFontFamiliesA is in none): however the DLLs     *)
(* came and went and whatever else failed, nothing leads into the core any   *)
(* more after UnInitialize.                                                  *)
THEOREM HooksGoWithTheCore ==
  ~ProtectFails /\ "EnumFontFamiliesA" \notin Functions => (MCSpec => []HooksGo)
<1> SUFFICES ASSUME ~ProtectFails, "EnumFontFamiliesA" \notin Functions PROVE MCSpec => []HooksGo
  OBVIOUS
<1>1. MCInit => HookInv /\ LeavingInv
  <2> SUFFICES ASSUME MCInit PROVE LeavingInv
    BY InitHook
  <2>1. core = "absent" /\ todo = <<>> /\ \A f \in Functions : ~Patches!Jumps(f)
    BY DEF MCInit, Init, Patches!Jumps
  <2>2. DOMAIN todo = {} BY <2>1
  <2> QED BY <2>1, <2>2 DEF LeavingInv, Pending
<1>2. HookInv /\ LeavingInv /\ [MCNext]_<<vars, failed>> => HookInv' /\ LeavingInv'
  BY NextKeepsHook, NextKeepsLeaving DEF MCNext
<1> QED BY <1>1, <1>2, LeavingMeansGone, PTL DEF MCSpec

-----------------------------------------------------------------------------
(* Which hooks are there while nothing fails.                                *)

LEMMA LoadingKeepsFollow ==
  ASSUME HookInv, FollowInv, NEW d \in Dlls, MapDll(d) \/ UnmapDll(d), failed => failed'
  PROVE  FollowInv'
<1> USE HomeIsDll DEF HookInv
<1>1. /\ Patches!Idle /\ todo' = todo /\ core' = core /\ core \in {"absent", "running", "gone"}
      /\ \A c \in Dlls : c # d => dll'[c] = dll[c] /\ entry'[c] = entry[c] /\ late'[c] = late[c]
      /\ \A f \in Functions : Home[f] # d => code'[f] = code[f]
  BY DEF MapDll, UnmapDll, Quiet, Visible, TypeOK
<1>2. \/ dll'[d] = "absent" /\ late'[d] = FALSE
      \/ dll'[d] = "mapped" /\ late'[d] = cookie /\ entry'[d] = IF cookie THEN "delay" ELSE "own"
  BY DEF MapDll, UnmapDll, TypeOK
<1>3. /\ core = "absent" => ~cookie
      /\ core = "running" => cookie
  BY DEF LifeInv
<1>4. \A do, f : Pending(do, f)' = Pending(do, f) /\ ~Pending(do, f) BY <1>1, IdleNothingPending DEF Pending
<1>5. \A f \in Functions : Home[f] # d => Patches!Jumps(f)' = Patches!Jumps(f) BY <1>1 DEF Patches!Jumps
<1>6. \A c \in Dlls : c # d => Ours(c)' = Ours(c) BY <1>1 DEF Ours
<1>7. core' \in {"absent", "starting", "ntdll", "kernel"} => \A c \in Dlls : ~late'[c]
  BY <1>1, <1>2, <1>3 DEF FollowInv
<1>8. core' \in {"starting", "ntdll", "kernel", "running"} => \A c \in Dlls : Ours(c)' => dll'[c] # "entered"
  BY <1>1, <1>2, <1>6 DEF FollowInv
<1>9. \A c \in Dlls : core' = "running" \/ (core' = "kernel" /\ c = "KERNELBASE") =>
        (Ours(c)' /\ dll'[c] = "mapped" => entry'[c] = "delay")
  BY <1>1, <1>2, <1>3, <1>6 DEF FollowInv
<1>10. core' = "running" /\ ~failed' => \A f \in Functions \ {Cache} :
         dll'[Home[f]] = "attached" /\ Ours(Home[f])' => Patches!Jumps(f)' \/ Pending("patch", f)'
  <2> SUFFICES ASSUME core' = "running", ~failed', NEW f \in Functions \ {Cache}, dll'[Home[f]] = "attached", Ours(Home[f])'
               PROVE  Patches!Jumps(f)'
    OBVIOUS
  <2>1. Home[f] # d BY <1>2
  <2>2. Ours(Home[f])
    <3>1. late'[Home[f]] = late[Home[f]] BY <1>1, <2>1
    <3> QED BY <3>1 DEF Ours
  <2> QED BY <1>1, <1>4, <1>5, <2>1, <2>2 DEF FollowInv
<1> QED BY <1>4, <1>7, <1>8, <1>9, <1>10 DEF FollowInv

LEMMA DllKeepsFollow ==
  ASSUME HookInv, FollowInv, NEW d \in Dlls,
         EnterDll(d) \/ DllMainReturns(d) \/ DllMainFails(d) \/ NotifyUnload(d),
         failed' = (failed \/ PatchStepFails \/ RoutineFails)
  PROVE  FollowInv'
<1> USE HomeIsDll DEF HookInv
<1>1. /\ Patches!Idle /\ core' = core /\ late' = late /\ code' = code /\ core \in {"absent", "running", "gone"}
      /\ \A c \in Dlls : c # d => dll'[c] = dll[c] /\ entry'[c] = entry[c]
  BY DllKeepsHook DEF EnterDll, DllMainReturns, DllMainFails, NotifyUnload, Quiet, TypeOK
<1>2. \/ dll[d] = "mapped" /\ dll'[d] = (IF entry[d] = "delay" THEN "delayed" ELSE "entered") /\ todo' = todo
      \/ dll[d] = "delayed" /\ dll'[d] = "attached" /\ HookModule(d)
      \/ dll[d] = "entered" /\ dll'[d] = "attached" /\ todo' = todo
      \/ dll'[d] = "leaving" /\ todo' = todo
      \/ dll'[d] = "leaving" /\ d \notin Kernel /\ todo' = UnHookRoutine(d)
  BY DEF EnterDll, DllMainReturns, DllMainFails, NotifyUnload, TypeOK, patchVars, Ask
<1>3. \A c \in Dlls : Ours(c)' = Ours(c) BY <1>1 DEF Ours
<1>4. \A f \in Functions : Patches!Jumps(f)' = Patches!Jumps(f) BY <1>1 DEF Patches!Jumps
<1>5. \A do, f : ~Pending(do, f) BY <1>1, IdleNothingPending
<1>6. dll'[d] # "mapped" BY <1>2
<1>7. core' \in {"starting", "ntdll", "kernel", "running"} => \A c \in Dlls : Ours(c)' => dll'[c] # "entered"
  BY <1>1, <1>2, <1>3 DEF FollowInv
<1>8. \A c \in Dlls : core' = "running" \/ (core' = "kernel" /\ c = "KERNELBASE") =>
        (Ours(c)' /\ dll'[c] = "mapped" => entry'[c] = "delay")
  BY <1>1, <1>3, <1>6 DEF FollowInv
<1>9. \A f \in Functions : Pending("restore", f)' => f = Cache \/ dll'[Home[f]] = "leaving"
  <2>1. CASE todo' = todo BY <1>5, <2>1 DEF Pending
  <2>2. CASE HookModule(d) BY <2>2, HookModuleAsks DEF IsHooking, Pending
  <2>3. CASE dll'[d] = "leaving" /\ d \notin Kernel /\ todo' = UnHookRoutine(d)
    BY <2>3, UnHookingRestores DEF Pending
  <2> QED BY <1>2, <2>1, <2>2, <2>3
<1>10. core' = "running" /\ ~failed' => \A f \in Functions \ {Cache} :
         dll'[Home[f]] = "attached" /\ Ours(Home[f])' => Patches!Jumps(f)' \/ Pending("patch", f)'
  <2> SUFFICES ASSUME core' = "running", ~failed', NEW f \in Functions \ {Cache}, dll'[Home[f]] = "attached", Ours(Home[f])'
               PROVE  Patches!Jumps(f)' \/ Pending("patch", f)'
    OBVIOUS
  <2>1. Ours(Home[f])
    <3>1. late'[Home[f]] = late[Home[f]] BY <1>1
    <3> QED BY <3>1 DEF Ours
  <2>2. CASE Home[f] # d \/ dll[d] = "attached" BY <1>1, <1>2, <1>4, <1>5, <2>1, <2>2 DEF FollowInv
  <2>3. CASE Home[f] = d /\ dll[d] = "entered" BY <1>1, <2>1, <2>3 DEF FollowInv
  <2>4. CASE Home[f] = d /\ dll[d] = "delayed"
    <3>1. ~RoutineFails /\ d \in Due BY <2>4 DEF Due
    <3>2. IsComplete(todo', d) BY <1>2, <2>4, <3>1, HookModuleAsks DEF RoutineFails
    <3> QED BY <2>4, <3>2 DEF IsComplete, Pending
  <2> QED BY <1>2, <2>2, <2>3, <2>4
<1> QED BY <1>1, <1>7, <1>8, <1>9, <1>10 DEF FollowInv

LEMMA CoreKeepsFollow ==
  ASSUME HookInv, FollowInv, failed' = (failed \/ PatchStepFails \/ RoutineFails),
         LoadCore \/ RegisterNotification \/ HookNtdllRoutines \/ InitializeFails \/ UnloadCore
  PROVE  FollowInv'
<1> USE HomeIsDll DEF HookInv
<1>1. UNCHANGED <<dll, entry, late, todo, code>>
  BY CoreKeepsHook DEF patchVars, LoadCore, RegisterNotification, HookNtdllRoutines, InitializeFails, UnloadCore
<1>2. core' \notin {"kernel", "running"}
  BY DEF LoadCore, RegisterNotification, HookNtdllRoutines, InitializeFails, UnloadCore
<1>3. \A c \in Dlls : Ours(c)' = Ours(c) BY <1>1 DEF Ours
<1>4. core' \in {"starting", "ntdll"} =>
        (\A c \in Dlls : ~late[c]) /\ (\A c \in Dlls : Ours(c) => dll[c] # "entered")
  <2>1. CASE LoadCore
    <3>1. \A c \in Dlls : ~late[c] BY <2>1 DEF LoadCore, FollowInv
    <3> QED BY <2>1, <3>1 DEF LoadCore, Ours
  <2>2. CASE ~LoadCore
    BY <2>2 DEF RegisterNotification, HookNtdllRoutines, InitializeFails, UnloadCore, FollowInv
  <2> QED BY <2>1, <2>2
<1>5. core' = "absent" => core = "absent"
  BY DEF LoadCore, RegisterNotification, HookNtdllRoutines, InitializeFails, UnloadCore
<1> QED BY <1>1, <1>2, <1>3, <1>4, <1>5 DEF FollowInv

(* Initialize: by now the DLLs that are its own are the kernel DLLs.         *)
LEMMA KernelKeepsFollow ==
  ASSUME HookInv, FollowInv, failed' = (failed \/ PatchStepFails \/ RoutineFails),
         \/ HookKernel("KERNELBASE", "ntdll", "kernel")
         \/ HookKernel("KERNEL32", "kernel", "running")
  PROVE  FollowInv'
<1> USE HomeIsDll DEF HookInv
<1>1. PICK d \in {"KERNELBASE", "KERNEL32"} :
        /\ d = "KERNELBASE" => core = "ntdll" /\ core' = "kernel"
        /\ d = "KERNEL32" => core = "kernel" /\ core' = "running"
        /\ Patches!Idle /\ UNCHANGED <<dll, late>>
        /\ entry' = IF d \in Dlls /\ dll[d] = "mapped" THEN [entry EXCEPT ![d] = "delay"] ELSE entry
        /\ IF d \in Dlls /\ dll[d] = "attached" THEN HookModule(d) ELSE UNCHANGED patchVars
  BY DEF HookKernel
<1>2. \A do, f : ~Pending(do, f) BY <1>1, IdleNothingPending
<1>3. \A c \in Dlls : Ours(c)' = Ours(c) /\ ~late[c] /\ (Ours(c) <=> c \in Kernel) BY <1>1 DEF Ours, FollowInv
<1>4. \A f \in Functions : Pending("restore", f)' => f = Cache
  <2>1. CASE UNCHANGED patchVars
    <3>1. todo' = todo BY <2>1 DEF patchVars
    <3> QED BY <1>2, <3>1 DEF Pending
  <2>2. CASE d \in Dlls /\ HookModule(d) BY <2>2, HookModuleAsks DEF IsHooking, Pending
  <2> QED BY <1>1, <2>1, <2>2
<1>5. \A c \in Dlls : c = d /\ dll[c] = "mapped" => entry'[c] = "delay" BY <1>1 DEF TypeOK
<1>6. \A c \in Dlls : entry[c] = "delay" => entry'[c] = "delay" BY <1>1 DEF TypeOK
<1>7. \A c \in Dlls : core' = "running" \/ (core' = "kernel" /\ c = "KERNELBASE") =>
        (Ours(c)' /\ dll'[c] = "mapped" => entry'[c] = "delay")
  <2> SUFFICES ASSUME NEW c \in Dlls, core' = "running" \/ (core' = "kernel" /\ c = "KERNELBASE"), Ours(c)', dll'[c] = "mapped"
               PROVE  entry'[c] = "delay"
    OBVIOUS
  <2>1. c \in Kernel BY <1>3
  <2>2. c = d \/ (c = "KERNELBASE" /\ core = "kernel") BY <1>1, <2>1 DEF Kernel
  <2>3. dll[c] = "mapped" /\ Ours(c) BY <1>1, <1>3
  <2> QED BY <1>5, <1>6, <2>2, <2>3 DEF FollowInv
<1>8. core' = "running" /\ ~failed' => \A f \in Functions \ {Cache} :
         dll'[Home[f]] = "attached" /\ Ours(Home[f])' => Patches!Jumps(f)' \/ Pending("patch", f)'
  <2> SUFFICES ASSUME core' = "running", ~failed', NEW f \in Functions \ {Cache}, dll[Home[f]] = "attached", Home[f] \in Kernel
               PROVE  Pending("patch", f)'
    BY <1>1, <1>3
  <2>1. d = "KERNEL32" /\ Home[f] = d
    <3>1. Home[f] # "KERNELBASE" BY HooksAssumption DEF Home, Cache
    <3> QED BY <1>1, <3>1 DEF Kernel
  <2>2. HookModule(d) /\ d \in Due /\ d \in Dlls BY <1>1, <2>1 DEF Due
  <2>3. IsComplete(todo', d) BY <2>2, HookModuleAsks DEF RoutineFails
  <2> QED BY <2>1, <2>3 DEF IsComplete, Pending
<1>9. core' \in {"starting", "ntdll", "kernel", "running"} => \A c \in Dlls : Ours(c)' => dll'[c] # "entered"
  BY <1>1, <1>3 DEF FollowInv
<1> QED BY <1>1, <1>3, <1>4, <1>7, <1>8, <1>9 DEF FollowInv

LEMMA UnInitializeKeepsFollow ==
  ASSUME FollowInv, UnInitialize
  PROVE  FollowInv'
BY DEF UnInitialize, FollowInv

LEMMA EngineKeepsFollow ==
  ASSUME HookInv, Patches!StubInv, FollowInv, ~ProtectFails, ~fault', Patches!EngineStep, UNCHANGED lifeVars,
         failed' = (failed \/ PatchStepFails \/ RoutineFails)
  PROVE  FollowInv'
<1> USE HomeIsDll DEF HookInv
<1>1. UNCHANGED <<core, dll, entry, late>> BY DEF lifeVars
<1>2. todo \in Seq(Patches!Requests) /\ todo # <<>> /\ 1 \in DOMAIN todo /\ todo[1].f \in Functions
  BY EngineEffect, HeadOfTodo DEF Patches!JumpInv, Patches!TypeOK
<1>3. \A do, f : Pending(do, f)' => Pending(do, f) BY EnginePending
<1>4. \A f \in Functions : Patches!Jumps(f)' <=> Jumped(f) BY DEF Jumped, Patches!Jumps
<1>5. \A c \in Dlls : Ours(c)' = Ours(c) BY <1>1 DEF Ours
<1>6. ASSUME core = "running", ~failed', NEW f \in Functions \ {Cache}, dll[Home[f]] = "attached", Ours(Home[f])
      PROVE  Jumped(f) \/ Pending("patch", f)'
  <2>1. ~failed /\ ~PatchStepFails BY <1>6
  <2>2. Patches!Jumps(f) \/ Pending("patch", f) BY <1>6, <2>1 DEF FollowInv
  <2>3. ~Pending("restore", f) BY <1>6 DEF FollowInv
  <2>4. CASE todo' = todo
    <3>1. Pending("patch", f)' = Pending("patch", f) BY <2>4 DEF Pending
    <3>2. todo[1].do = "restore" /\ f = todo[1].f => Pending("restore", f) BY <1>2 DEF Pending
    <3>3. code' = code => Jumped(f) = Patches!Jumps(f) BY DEF Jumped, Patches!Jumps
    <3>4. Tail(todo) # todo
      <4>1. Len(Tail(todo)) = Len(todo) - 1 /\ Len(todo) \in Nat BY <1>2
      <4>2. Len(Tail(todo)) # Len(todo) BY <4>1
      <4> QED BY <4>2
    <3> QED BY <1>2, <2>2, <2>3, <2>4, <3>1, <3>2, <3>4, EngineEffect DEF Advances
  <2>5. CASE Advances("patch") /\ \A g \in Functions : Jumped(g) <=> Patches!Jumps(g) \/ g = todo[1].f
    <3>1. Pending("patch", f) /\ f # todo[1].f => Pending("patch", f)' BY <1>2, <2>5, TailPending DEF Advances
    <3> QED BY <2>2, <2>5, <3>1
  <2>6. CASE Advances("restore") /\ \A g \in Functions : Jumped(g) <=> Patches!Jumps(g)
    <3>1. Pending("patch", f) => Pending("patch", f)' BY <1>2, <2>6, TailPending DEF Advances
    <3> QED BY <2>2, <2>6, <3>1
  <2> QED BY <2>1, <2>4, <2>5, <2>6, EngineEffect
<1> QED BY <1>1, <1>3, <1>4, <1>5, <1>6 DEF FollowInv

LEMMA NextKeepsFollow ==
  ASSUME HookInv, Patches!StubInv, ~fault, FollowInv, ~ProtectFails, [MCNext]_<<vars, failed>>
  PROVE  FollowInv'
<1> DEFINE Marked == failed' = (failed \/ PatchStepFails \/ RoutineFails)
<1>1. CASE UNCHANGED <<vars, failed>>
  BY <1>1 DEF vars, patchVars, lifeVars, FollowInv, Ours, Pending, Patches!Jumps
<1>2. ASSUME NEW d \in Dlls, MapDll(d) \/ UnmapDll(d), Marked PROVE FollowInv'
  BY <1>2, LoadingKeepsFollow
<1>3. ASSUME NEW d \in Dlls, EnterDll(d) \/ DllMainReturns(d) \/ DllMainFails(d) \/ NotifyUnload(d), Marked
      PROVE  FollowInv'
  BY <1>3, DllKeepsFollow
<1>4. CASE Patches!EngineStep /\ UNCHANGED lifeVars /\ Marked
  BY <1>4, EngineKeepsStubInv, EngineKeepsFollow DEF HookInv
<1> QED
  BY <1>1, <1>2, <1>3, <1>4, CoreKeepsFollow, KernelKeepsFollow, UnInitializeKeepsFollow DEF MCNext, Next

(* When the protection of memory can be changed, and while no patch and no    *)
(* hook routine has failed: each DLL the core is told of, and each kernel    *)
(* DLL, is hooked completely once its DllMain has succeeded, however the     *)
(* loader nests its steps (DllNotification, DelayInitDllEntry, Initialize).  *)
THEOREM HooksAlwaysFollow == ~ProtectFails => (MCSpec => []HooksFollow)
<1> SUFFICES ASSUME ~ProtectFails PROVE MCSpec => []HooksFollow
  OBVIOUS
<1> DEFINE Sound == HookInv /\ Patches!StubInv /\ ~fault /\ FollowInv
<1>1. MCInit => Sound
  <2> SUFFICES ASSUME MCInit PROVE FollowInv
    BY InitHook
  <2>1. core = "absent" /\ todo = <<>> /\ \A d \in Dlls : ~late[d] BY DEF MCInit, Init
  <2>2. DOMAIN todo = {} BY <2>1
  <2> QED BY <2>1, <2>2 DEF FollowInv, Pending
<1>2. Sound /\ [MCNext]_<<vars, failed>> => Sound'
  BY NextKeepsHook, NextKeepsFollow DEF MCNext
<1>3. Sound => HooksFollow
  <2> SUFFICES ASSUME Sound PROVE HooksFollow
    OBVIOUS
  <2>1. HookedAfterAttach BY DEF HookInv, LifeInv
  <2>2. AttachedIsHooked
    BY HomeIsDll, IdleNothingPending DEF FollowInv, AttachedIsHooked, Cache, Ours
  <2> QED BY <2>1, <2>2 DEF HooksFollow
<1> QED BY <1>1, <1>2, <1>3, PTL DEF MCSpec
=============================================================================
