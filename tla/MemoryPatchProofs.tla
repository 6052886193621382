-------------------------- MODULE MemoryPatchProofs --------------------------
(* Theorems about MemoryPatch for any number of functions, blocks and        *)
(* threads and any batches.                                                  *)
EXTENDS MemoryPatch, TLAPS

-----------------------------------------------------------------------------
(* The list of requests. *)

LEMMA TailKeepsRequests ==
  ASSUME todo \in Seq(Requests), todo # <<>>, TodoInv, code' = code, todo' = Tail(todo)
  PROVE  todo' \in Seq(Requests) /\ TodoInv'
<1>1. /\ todo' \in Seq(Requests)
      /\ \A i \in DOMAIN todo' : i + 1 \in DOMAIN todo /\ todo'[i] = todo[i + 1]
  OBVIOUS
<1>2. \A i, j \in DOMAIN todo' : i \in Nat /\ j \in Nat /\ (i + 1 = j + 1 => i = j)
  BY <1>1
<1> QED BY <1>1, <1>2 DEF TodoInv

LEMMA HeadIsRequest ==
  ASSUME todo \in Seq(Requests), todo # <<>>
  PROVE  1 \in DOMAIN todo /\ Head(todo) = todo[1] /\ Head(todo) \in Requests /\ F \in Functions
<1>1. 1 \in DOMAIN todo /\ Head(todo) = todo[1] /\ Head(todo) \in Requests OBVIOUS
<1>2. F \in Functions BY <1>1 DEF F, Requests
<1> QED BY <1>1, <1>2

LEMMA NoRequests ==
  ASSUME todo' = <<>>
  PROVE  todo' \in Seq(Requests) /\ TodoInv'
<1>1. DOMAIN todo' = {} OBVIOUS
<1> QED BY <1>1 DEF TodoInv

-----------------------------------------------------------------------------
(* JumpInv: the initial states and each step. *)

LEMMA InitEstablishesJumpInv == Init => JumpInv
<1> SUFFICES ASSUME Init PROVE JumpInv
  OBVIOUS
<1> USE DEF Init
<1>1. TypeOK
  <2>1. todo \in Seq(Requests) OBVIOUS
  <2> QED BY <2>1 DEF TypeOK, Entries
<1>2. TodoInv
  <2>1. DOMAIN todo = {} OBVIOUS
  <2> QED BY <2>1 DEF TodoInv
<1>3. PatchingInv /\ RestoringInv BY DEF PatchingInv, RestoringInv
<1>4. BlockInv /\ JumpHasTrampoline BY DEF BlockInv, JumpHasTrampoline, Live, Jumps
<1> QED BY <1>1, <1>2, <1>3, <1>4 DEF JumpInv

LEMMA FindPlaceJumpInv ==
  ASSUME JumpInv, NEW relay \in BOOLEAN, FindPlace(relay)
  PROVE  JumpInv'
<1> USE PatchAssumption DEF JumpInv, FindPlace, threadVars
<1>1. TypeOK' BY DEF TypeOK, Asked
<1>2. TodoInv' BY DEF TodoInv
<1>3. PatchingInv' /\ RestoringInv' BY DEF PatchingInv, RestoringInv, Asked
<1>4. BlockInv' BY DEF BlockInv, Live
<1>5. JumpHasTrampoline' BY DEF JumpHasTrampoline, Jumps, Live
<1> QED BY <1>1, <1>2, <1>3, <1>4, <1>5

LEMMA FailJumpInv ==
  ASSUME JumpInv, Fail, UNCHANGED <<code, stub, block, list, threadVars, fault>>,
         relays' \in {relays, relays \ {Local}}
  PROVE  JumpInv'
<1> USE PatchAssumption DEF JumpInv, Fail, threadVars
<1>1. TypeOK' BY NoRequests DEF TypeOK
<1>2. TodoInv' BY NoRequests
<1>3. PatchingInv' /\ RestoringInv' BY DEF PatchingInv, RestoringInv
<1>4. BlockInv' BY DEF BlockInv, Live
<1>5. JumpHasTrampoline' BY DEF JumpHasTrampoline, Jumps, Live
<1> QED BY <1>1, <1>2, <1>3, <1>4, <1>5

LEMMA AllocateTrampolineJumpInv ==
  ASSUME JumpInv, NEW b \in Blocks, AllocateTrampoline(b)
  PROVE  JumpInv'
<1> USE PatchAssumption DEF JumpInv, AllocateTrampoline, threadVars
<1>1. /\ todo # <<>> /\ Asked("patch") /\ F \in Functions /\ code[F] = "native"
  BY HeadIsRequest DEF PatchingInv, TypeOK, Asked, TodoInv, F
<1>2. [fn |-> F, relay |-> Local \in relays, original |-> code[F]] \in Contents
  BY <1>1 DEF Contents, TypeOK
<1>3. TypeOK' BY <1>1, <1>2 DEF TypeOK
<1>4. TodoInv' BY DEF TodoInv
<1>5. /\ Live' = Live \cup {b} /\ b \notin Live
      /\ \A c \in Live : c # b /\ block'[c] = block[c] /\ (c \in relays => c \in relays')
      /\ block'[b] = [fn |-> F, relay |-> Local \in relays, original |-> code[F]]
  BY <1>2 DEF Live, TypeOK
<1>6. PatchingInv'
  <2>1. block'[b].relay = (Local \in relays) BY <1>5
  <2>2. block'[b].relay => b \in relays' BY <2>1
  <2>3. b \in Live' /\ block'[b].fn = F' BY <1>5 DEF F
  <2> QED BY <1>1, <2>2, <2>3 DEF PatchingInv, Asked
<1>7. RestoringInv' BY DEF RestoringInv
<1>8. BlockInv' BY <1>1, <1>5 DEF BlockInv
<1>9. JumpHasTrampoline' BY <1>5 DEF JumpHasTrampoline, Jumps
<1> QED BY <1>3, <1>4, <1>6, <1>7, <1>8, <1>9

LEMMA PublishStubJumpInv ==
  ASSUME JumpInv, NEW added \in BOOLEAN, PublishStub(added)
  PROVE  JumpInv'
<1> USE PatchAssumption DEF JumpInv, PublishStub, threadVars
<1>1. /\ todo # <<>> /\ Asked("patch") /\ F \in Functions /\ code[F] = "native" /\ cur \in Blocks
  BY HeadIsRequest DEF PatchingInv, TypeOK, Asked, TodoInv, F, Live
<1>2. TypeOK' BY <1>1 DEF TypeOK
<1>3. TodoInv' BY DEF TodoInv
<1>4. PatchingInv' BY <1>1 DEF PatchingInv, Asked, F, Live, TypeOK
<1>5. RestoringInv' BY DEF RestoringInv
<1>6. BlockInv' BY DEF BlockInv, Live
<1>7. \A f \in Functions : Jumps(f) => f # F BY <1>1 DEF Jumps
<1>8. JumpHasTrampoline' BY <1>1, <1>7 DEF JumpHasTrampoline, Jumps, Live, TypeOK
<1> QED BY <1>2, <1>3, <1>4, <1>5, <1>6, <1>8

(* What is freed is no block a function jumps with. *)
LEMMA FreeKeepsJumps ==
  ASSUME JumpInv, NEW b \in Live, ~Jumps(block[b].fn), FreeTrampolineData(b),
         UNCHANGED <<code, stub>>
  PROVE  /\ block' \in [Blocks -> Contents \cup {None}] /\ relays' \subseteq Blocks \cup {Local}
         /\ BlockInv' /\ JumpHasTrampoline'
<1> USE PatchAssumption DEF JumpInv, FreeTrampolineData
<1>1. block' \in [Blocks -> Contents \cup {None}] /\ relays' \subseteq Blocks \cup {Local}
  BY DEF TypeOK
<1>2. /\ Live' = Live \ {b}
      /\ \A c \in Live \ {b} : block'[c] = block[c] /\ (c \in relays => c \in relays')
  BY DEF Live, TypeOK
<1>3. BlockInv' BY <1>2 DEF BlockInv
<1>4. \A f \in Functions : Jumps(f) => stub[f] # b BY DEF JumpHasTrampoline
<1>5. JumpHasTrampoline' BY <1>2, <1>4 DEF JumpHasTrampoline, Jumps
<1> QED BY <1>1, <1>3, <1>5

LEMMA ProtectMemoryFailsJumpInv ==
  ASSUME JumpInv, ProtectMemoryFails
  PROVE  JumpInv'
<1> USE PatchAssumption DEF JumpInv, ProtectMemoryFails, Fail, threadVars
<1>1. /\ cur \in Live /\ block[cur].fn = F /\ code[F] = "native"
  BY HeadIsRequest DEF PatchingInv, TypeOK, Asked, TodoInv, F
<1>2. ~Jumps(block[cur].fn) BY <1>1 DEF Jumps
<1>3. /\ block' \in [Blocks -> Contents \cup {None}] /\ relays' \subseteq Blocks \cup {Local}
      /\ BlockInv' /\ JumpHasTrampoline'
  BY <1>1, <1>2, FreeKeepsJumps
<1>4. TypeOK' BY <1>3, NoRequests DEF TypeOK
<1>5. TodoInv' BY NoRequests
<1>6. PatchingInv' /\ RestoringInv' BY DEF PatchingInv, RestoringInv
<1> QED BY <1>3, <1>4, <1>5, <1>6

LEMMA WriteJumpJumpInv ==
  ASSUME JumpInv, WriteJump
  PROVE  JumpInv'
<1> USE PatchAssumption DEF JumpInv, WriteJump, Finish, threadVars
<1>1. /\ todo # <<>> /\ Asked("patch") /\ 1 \in DOMAIN todo /\ F = todo[1].f /\ todo[1].do = "patch"
      /\ F \in Functions /\ cur \in Blocks
  BY HeadIsRequest DEF PatchingInv, TypeOK, Asked, F, Live
<1>2. /\ todo' \in Seq(Requests)
      /\ \A i \in DOMAIN todo' : i \in Nat /\ i + 1 \in DOMAIN todo /\ todo'[i] = todo[i + 1]
  BY <1>1 DEF TypeOK
<1>3. \A i \in DOMAIN todo' : todo'[i].do = "patch" => todo'[i].f # F BY <1>1, <1>2 DEF TodoInv
<1>4. TypeOK' BY <1>1, <1>2 DEF TypeOK, Entries
<1>5. TodoInv'
  <2>1. \A i \in DOMAIN todo' : todo'[i].do = "patch" => code'[todo'[i].f] = "native"
    BY <1>1, <1>2, <1>3 DEF TodoInv, TypeOK, Requests
  <2>2. \A i, j \in DOMAIN todo' :
          todo'[i].do = "patch" /\ todo'[j].do = "patch" /\ todo'[i].f = todo'[j].f => i = j
    <3>1. \A i, j \in DOMAIN todo' : i + 1 = j + 1 => i = j BY <1>2
    <3> QED BY <1>2, <3>1 DEF TodoInv
  <2> QED BY <2>1, <2>2 DEF TodoInv
<1>6. PatchingInv' /\ RestoringInv' BY DEF PatchingInv, RestoringInv
<1>7. BlockInv' BY DEF BlockInv, Live
<1>8. JumpHasTrampoline'
  <2> SUFFICES ASSUME NEW f \in Functions, Jumps(f)'
               PROVE  /\ stub[f] \in Live /\ block[stub[f]].fn = f
                      /\ block[stub[f]].original = "native"
                      /\ code'[f] \in Blocks => code'[f] = stub[f] /\ code'[f] \in relays
    BY DEF JumpHasTrampoline, Live
  <2>1. CASE f = F BY <1>1, <2>1 DEF PatchingInv, BlockInv, TypeOK
  <2>2. CASE f # F BY <1>1, <2>2 DEF JumpHasTrampoline, Jumps, TypeOK
  <2> QED BY <2>1, <2>2
<1> QED BY <1>4, <1>5, <1>6, <1>7, <1>8

(* A request for which nothing was done, or failed without consequence. *)
LEMMA FinishJumpInv ==
  ASSUME JumpInv, todo # <<>>, Finish, UNCHANGED <<patchVars, threadVars, fault>>
  PROVE  JumpInv'
<1> USE PatchAssumption DEF JumpInv, Finish, patchVars, threadVars
<1>1. todo' \in Seq(Requests) /\ TodoInv' BY TailKeepsRequests DEF TypeOK
<1>2. TypeOK' BY <1>1 DEF TypeOK
<1>3. PatchingInv' /\ RestoringInv' BY DEF PatchingInv, RestoringInv
<1>4. BlockInv' BY DEF BlockInv, Live
<1>5. JumpHasTrampoline' BY DEF JumpHasTrampoline, Jumps, Live
<1> QED BY <1>1, <1>2, <1>3, <1>4, <1>5

LEMMA RestoreFreedJumpInv ==
  ASSUME JumpInv, RestoreFreed
  PROVE  JumpInv'
<1> USE DEF JumpInv, RestoreFreed, patchVars, engineVars, threadVars
<1>1. TypeOK' BY DEF TypeOK
<1>2. TodoInv' /\ PatchingInv' /\ RestoringInv' BY DEF TodoInv, PatchingInv, RestoringInv
<1>3. BlockInv' /\ JumpHasTrampoline' BY DEF BlockInv, JumpHasTrampoline, Jumps, Live
<1> QED BY <1>1, <1>2, <1>3

LEMMA RestoreCodeJumpInv ==
  ASSUME JumpInv, RestoreCode
  PROVE  JumpInv'
<1> USE PatchAssumption DEF JumpInv, RestoreCode, threadVars
<1> DEFINE g == block[stub[F]].fn
<1>1. /\ todo # <<>> /\ F \in Functions /\ 1 \in DOMAIN todo /\ todo[1].do = "restore" /\ F = todo[1].f
  BY HeadIsRequest DEF Asked, TypeOK, F
<1>2. /\ stub[F] \in Blocks /\ block[stub[F]] \in Contents /\ g \in Functions
      /\ block[stub[F]].original = "native"
  BY DEF Live, TypeOK, Contents, BlockInv
<1>3. code' = [code EXCEPT ![g] = "native"] BY <1>2
<1>4. \A f \in Functions : code'[f] = IF f = g THEN "native" ELSE code[f] BY <1>3, <1>2 DEF TypeOK
<1>5. TypeOK' BY <1>1, <1>2, <1>3 DEF TypeOK, Entries
<1>6. TodoInv' BY <1>4 DEF TodoInv, TypeOK, Requests
<1>7. PatchingInv' BY DEF PatchingInv
<1>8. Jumps(F) => g = F BY <1>1 DEF JumpHasTrampoline
<1>9. RestoringInv' BY <1>1, <1>2, <1>4, <1>8 DEF RestoringInv, Asked, Jumps, F, Live
<1>10. BlockInv' BY DEF BlockInv, Live
<1>11. JumpHasTrampoline' BY <1>4 DEF JumpHasTrampoline, Jumps, Live
<1> QED BY <1>5, <1>6, <1>7, <1>9, <1>10, <1>11

LEMMA RemoveTrampolineDataJumpInv ==
  ASSUME JumpInv, RemoveTrampolineData
  PROVE  JumpInv'
<1> USE PatchAssumption DEF JumpInv, RemoveTrampolineData, threadVars
<1>1. cur \in Live /\ ~Jumps(block[cur].fn) BY DEF RestoringInv
<1>2. /\ block' \in [Blocks -> Contents \cup {None}] /\ relays' \subseteq Blocks \cup {Local}
      /\ BlockInv' /\ JumpHasTrampoline'
  <2>1. CASE cur \in list BY <1>1, <2>1, FreeKeepsJumps
  <2>2. CASE cur \notin list BY <2>2 DEF TypeOK, BlockInv, JumpHasTrampoline, Jumps, Live
  <2> QED BY <2>1, <2>2
<1>3. TypeOK' BY <1>2 DEF TypeOK
<1>4. TodoInv' BY DEF TodoInv
<1>5. PatchingInv' /\ RestoringInv' BY DEF PatchingInv, RestoringInv, Asked, Jumps, F
<1> QED BY <1>2, <1>3, <1>4, <1>5

LEMMA ClearStubJumpInv ==
  ASSUME JumpInv, ClearStub
  PROVE  JumpInv'
<1> USE PatchAssumption DEF JumpInv, ClearStub, Finish, threadVars
<1>1. /\ todo # <<>> /\ F \in Functions /\ ~Jumps(F) BY HeadIsRequest DEF RestoringInv, TypeOK
<1>2. todo' \in Seq(Requests) /\ TodoInv' BY <1>1, TailKeepsRequests DEF TypeOK
<1>3. TypeOK' BY <1>1, <1>2 DEF TypeOK
<1>4. PatchingInv' /\ RestoringInv' BY DEF PatchingInv, RestoringInv
<1>5. BlockInv' BY DEF BlockInv, Live
<1>6. JumpHasTrampoline' BY <1>1 DEF JumpHasTrampoline, Jumps, Live, TypeOK
<1> QED BY <1>2, <1>3, <1>4, <1>5, <1>6

(* A thread's step writes only what the thread owns. *)
LEMMA ThreadTypes ==
  ASSUME TypeOK, ThreadStep
  PROVE  /\ UNCHANGED <<patchVars, engineVars>>
         /\ pc' \in [Threads -> {"out", "relay", "hook", "original"}]
         /\ fn' \in [Threads -> Functions \cup {None}]
         /\ \A t \in Threads : pc'[t] # "out" => fn'[t] \in Functions
         /\ held' \in [Threads -> Blocks \cup {None}]
         /\ fault' \in BOOLEAN
<1>1. PICK t \in Threads :
        (\E f \in Functions : Enter(t, f)) \/ RunRelay(t) \/ Leave(t) \/ CallOriginal(t) \/ RunTrampoline(t)
  BY DEF ThreadStep
<1>2. CASE \E f \in Functions : Enter(t, f) BY <1>2 DEF Enter, Run, Goto, TypeOK
<1>3. CASE RunRelay(t) BY <1>3 DEF RunRelay, Goto, TypeOK
<1>4. CASE Leave(t) BY <1>4 DEF Leave, Goto, TypeOK
<1>5. CASE CallOriginal(t) BY <1>5 DEF CallOriginal, Goto, TypeOK
<1>6. CASE RunTrampoline(t) BY <1>6 DEF RunTrampoline, Run, Goto, TypeOK
<1> QED BY <1>1, <1>2, <1>3, <1>4, <1>5, <1>6

LEMMA ThreadStepJumpInv ==
  ASSUME JumpInv, ThreadStep
  PROVE  JumpInv'
<1> USE DEF JumpInv
<1>1. UNCHANGED <<code, stub, block, relays, list, todo, at, cur>>
  BY ThreadTypes DEF patchVars, engineVars
<1>2. TypeOK' BY <1>1, ThreadTypes DEF TypeOK
<1>3. TodoInv' BY <1>1 DEF TodoInv
<1>4. PatchingInv' /\ RestoringInv' BY <1>1 DEF PatchingInv, RestoringInv, Asked, Jumps, F, Live
<1>5. BlockInv' /\ JumpHasTrampoline' BY <1>1 DEF BlockInv, JumpHasTrampoline, Jumps, Live
<1> QED BY <1>2, <1>3, <1>4, <1>5

(* A batch is one function or two different ones. *)
LEMMA AskJumpInv ==
  ASSUME JumpInv, NEW functions \in Batches, PatchMemory(functions) \/ RestoreMemory(functions)
  PROVE  JumpInv'
<1> USE DEF JumpInv
<1>1. PICK do \in {"patch", "restore"} :
        /\ Ask(do, functions)
        /\ do = "patch" => \A i \in DOMAIN functions : code[functions[i]] = "native"
  BY DEF PatchMemory, RestoreMemory
<1>2. /\ Idle /\ todo' = [i \in DOMAIN functions |-> [do |-> do, f |-> functions[i]]]
      /\ UNCHANGED <<code, stub, block, relays, list, at, cur, pc, fn, held, fault>>
  BY <1>1 DEF Ask, patchVars, threadVars
<1>3. PICK n \in {1, 2} :
        /\ functions \in [1 .. n -> Functions]
        /\ \A i, j \in 1 .. n : functions[i] = functions[j] => i = j
  <2>1. CASE functions \in [1 .. 1 -> Functions] BY <2>1
  <2>2. CASE functions \in {s \in [1 .. 2 -> Functions] : s[1] # s[2]} BY <2>2
  <2> QED BY <2>1, <2>2 DEF Batches
<1>4. /\ DOMAIN functions = 1 .. n /\ DOMAIN todo' = 1 .. n
      /\ \A i \in 1 .. n : todo'[i] = [do |-> do, f |-> functions[i]] /\ functions[i] \in Functions
  BY <1>2, <1>3
<1>5. todo' \in Seq(Requests)
  <2>1. todo' \in [1 .. n -> Requests] BY <1>2, <1>3, <1>4 DEF Requests
  <2> QED BY <2>1
<1>6. TypeOK' BY <1>2, <1>5 DEF TypeOK, Idle
<1>7. TodoInv' BY <1>1, <1>2, <1>3, <1>4 DEF TodoInv
<1>8. PatchingInv' /\ RestoringInv' BY <1>2 DEF PatchingInv, RestoringInv, Idle
<1>9. BlockInv' /\ JumpHasTrampoline' BY <1>2 DEF BlockInv, JumpHasTrampoline, Jumps, Live
<1> QED BY <1>6, <1>7, <1>8, <1>9

LEMMA EngineStepJumpInv ==
  ASSUME JumpInv, EngineStep
  PROVE  JumpInv'
<1>1. CASE \E relay \in BOOLEAN : FindPlace(relay) BY <1>1, FindPlaceJumpInv
<1>2. CASE NoPlace BY <1>2, FailJumpInv DEF NoPlace, patchVars
<1>3. CASE NoTrampoline BY <1>3, FailJumpInv DEF NoTrampoline
<1>4. CASE ProtectMemoryFails BY <1>4, ProtectMemoryFailsJumpInv
<1>5. CASE WriteJump BY <1>5, WriteJumpJumpInv
<1>6. CASE \E b \in Blocks : AllocateTrampoline(b) BY <1>6, AllocateTrampolineJumpInv
<1>7. CASE \E added \in BOOLEAN : PublishStub(added) BY <1>7, PublishStubJumpInv
<1>8. CASE NothingToRestore BY <1>8, FinishJumpInv DEF NothingToRestore, Asked
<1>9. CASE RestoreFreed BY <1>9, RestoreFreedJumpInv
<1>10. CASE RestoreFails BY <1>10, FinishJumpInv DEF RestoreFails, Asked
<1>11. CASE RestoreCode BY <1>11, RestoreCodeJumpInv
<1>12. CASE RemoveTrampolineData BY <1>12, RemoveTrampolineDataJumpInv
<1>13. CASE ClearStub BY <1>13, ClearStubJumpInv
<1> QED BY <1>1, <1>2, <1>3, <1>4, <1>5, <1>6, <1>7, <1>8, <1>9, <1>10, <1>11, <1>12, <1>13 DEF EngineStep

LEMMA StutterJumpInv ==
  ASSUME JumpInv, UNCHANGED vars
  PROVE  JumpInv'
<1> USE DEF JumpInv, vars, patchVars, engineVars, threadVars
<1>1. TypeOK' /\ TodoInv' BY DEF TypeOK, TodoInv
<1>2. PatchingInv' /\ RestoringInv' BY DEF PatchingInv, RestoringInv, Asked, Jumps, F, Live
<1>3. BlockInv' /\ JumpHasTrampoline' BY DEF BlockInv, JumpHasTrampoline, Jumps, Live
<1> QED BY <1>1, <1>2, <1>3

LEMMA NextJumpInv ==
  ASSUME JumpInv, [Next]_vars
  PROVE  JumpInv'
<1>1. CASE EngineStep BY <1>1, EngineStepJumpInv
<1>2. CASE ThreadStep BY <1>2, ThreadStepJumpInv
<1>3. CASE \E functions \in Batches : PatchMemory(functions) \/ RestoreMemory(functions)
  BY <1>3, AskJumpInv
<1>4. CASE UNCHANGED vars BY <1>4, StutterJumpInv
<1> QED BY <1>1, <1>2, <1>3, <1>4 DEF Next

LEMMA JumpInvariance == Spec => []JumpInv
<1>1. Init => JumpInv BY InitEstablishesJumpInv
<1>2. JumpInv /\ [Next]_vars => JumpInv' BY NextJumpInv
<1> QED BY <1>1, <1>2, PTL DEF Spec

(* Every variable keeps its type, and a step of a request finds the request   *)
(* it belongs to (PatchMemory, RestoreMemory), for any functions and threads. *)
THEOREM TypeCorrect == Spec => []TypeOK
<1>1. JumpInv => TypeOK BY DEF JumpInv
<1> QED BY <1>1, JumpInvariance, PTL

(* A function jumps to its hook only while its stub names a trampoline that   *)
(* holds its original code, and the relay it jumps through is allocated:      *)
(* wherever HandleFunctionPatch and RestoreMemory fail, and whoever calls.    *)
THEOREM JumpsHaveTrampolines == Spec => []JumpHasTrampoline
<1>1. JumpInv => JumpHasTrampoline BY DEF JumpInv
<1> QED BY <1>1, JumpInvariance, PTL

-----------------------------------------------------------------------------
(* SoundInv, for callers that restore hooks while no thread is in one, until  *)
(* the protection of an entry cannot be changed.                              *)

LEMMA PatchStepSound ==
  ASSUME Quiescent, SoundInv, JumpInv',
         \/ \E relay \in BOOLEAN : FindPlace(relay)
         \/ NoPlace \/ NoTrampoline \/ WriteJump
         \/ \E b \in Blocks : AllocateTrampoline(b)
         \/ \E added \in BOOLEAN : PublishStub(added)
  PROVE  SoundInv'
<1> USE PatchAssumption DEF SoundInv, JumpInv
<1>1. CASE \E relay \in BOOLEAN : FindPlace(relay)
  <2> USE <1>1 DEF FindPlace, threadVars
  <2>1. StubInv' BY DEF StubInv, Live, F
  <2>2. ThreadInv' BY DEF ThreadInv, Live, Restoring
  <2> QED BY <2>1, <2>2 DEF NoFault
<1>2. CASE NoPlace \/ NoTrampoline
  <2>1. Fail /\ UNCHANGED <<stub, block, threadVars, fault>> /\ relays' \in {relays, relays \ {Local}}
    BY <1>2 DEF NoPlace, NoTrampoline, patchVars
  <2>2. at \in {"idle", "allocate"} BY <1>2 DEF NoPlace, NoTrampoline
  <2>3. StubInv' BY <2>1, <2>2 DEF StubInv, Live, Fail
  <2>4. ~Restoring' BY <2>1 DEF Restoring, Fail
  <2>5. ThreadInv' BY <2>1, <2>4 DEF ThreadInv, TypeOK, Live, threadVars
  <2> QED BY <2>1, <2>3, <2>5 DEF NoFault
<1>3. CASE WriteJump
  <2> USE <1>3 DEF WriteJump, threadVars
  <2>1. StubInv' BY DEF StubInv, Live, Finish
  <2>2. Restoring' => Restoring
    <3>1. \A i \in DOMAIN todo' : i + 1 \in DOMAIN todo /\ todo'[i] = todo[i + 1]
      BY DEF Finish, TypeOK
    <3> QED BY <3>1 DEF Restoring
  <2>3. ThreadInv' BY <2>2 DEF ThreadInv, Live
  <2> QED BY <2>1, <2>3 DEF NoFault
<1>4. CASE \E b \in Blocks : AllocateTrampoline(b)
  <2>1. PICK b \in Blocks : AllocateTrampoline(b) BY <1>4
  <2> USE <2>1 DEF AllocateTrampoline, threadVars
  <2>2. F \in Functions BY HeadIsRequest DEF PatchingInv, Asked, TypeOK
  <2>3. \A c \in Live : c # b /\ c \in Live' /\ block'[c] = block[c] /\ (c \in relays => c \in relays')
    BY DEF Live, TypeOK
  <2>4. StubInv' BY <2>3 DEF StubInv
  <2>5. ThreadInv' BY <2>3 DEF ThreadInv, Restoring
  <2> QED BY <2>4, <2>5 DEF NoFault
<1>5. CASE \E added \in BOOLEAN : PublishStub(added)
  <2> USE <1>5 DEF PublishStub, threadVars
  <2>1. /\ cur \in Live /\ cur # None /\ block[cur].fn = F /\ F \in Functions
    BY HeadIsRequest DEF PatchingInv, Asked, TypeOK, Live
  <2>2. \A f \in Functions : stub'[f] = IF f = F THEN cur ELSE stub[f] BY <2>1 DEF TypeOK
  <2>3. StubInv' BY <2>1, <2>2 DEF StubInv, Live
  <2>4. ThreadInv' BY <2>1, <2>2 DEF ThreadInv, TypeOK, Restoring, Live
  <2> QED BY <2>3, <2>4 DEF NoFault
<1> QED BY <1>1, <1>2, <1>3, <1>4, <1>5

(* While a request to restore is left, no thread is in a hook. *)
LEMMA RestoringIsQuiet ==
  ASSUME SoundInv, Asked("restore")
  PROVE  \A t \in Threads : pc[t] = "out"
<1>1. 1 \in DOMAIN todo /\ todo[1].do = "restore"
  BY HeadIsRequest DEF SoundInv, JumpInv, TypeOK, Asked
<1> QED BY <1>1 DEF Restoring, SoundInv, ThreadInv

LEMMA RestoreStepSound ==
  ASSUME Quiescent, SoundInv, JumpInv',
         \/ NothingToRestore \/ RestoreFreed \/ RestoreFails \/ RestoreCode
         \/ RemoveTrampolineData \/ ClearStub
  PROVE  SoundInv'
<1> USE PatchAssumption DEF SoundInv, JumpInv
<1>1. /\ \A t \in Threads : pc[t] = "out"
      /\ todo # <<>> /\ F \in Functions
  <2>1. Asked("restore")
    BY DEF NothingToRestore, RestoreFreed, RestoreFails, RestoreCode, RemoveTrampolineData, ClearStub, RestoringInv
  <2> QED BY <2>1, RestoringIsQuiet, HeadIsRequest DEF Asked, TypeOK
<1>2. UNCHANGED threadVars => ThreadInv'
  BY <1>1 DEF ThreadInv, threadVars
<1>3. CASE NothingToRestore \/ RestoreFails
  <2>1. Finish /\ UNCHANGED <<stub, block, threadVars, fault>> /\ at = "idle"
    BY <1>3 DEF NothingToRestore, RestoreFails, patchVars
  <2>2. StubInv' BY <2>1 DEF StubInv, Finish, Live
  <2> QED BY <2>1, <2>2, <1>2 DEF NoFault
<1>4. CASE RestoreFreed
  BY <1>4, <1>1 DEF RestoreFreed, StubInv, Live
<1>5. CASE RestoreCode
  <2> USE <1>5 DEF RestoreCode
  <2>1. StubInv' BY DEF StubInv, Live, F
  <2> QED BY <2>1, <1>2 DEF NoFault
<1>6. CASE RemoveTrampolineData
  <2> USE <1>6 DEF RemoveTrampolineData
  <2>1. cur \in Live /\ cur = stub[F] /\ block[cur].fn = F
    BY <1>1 DEF StubInv, RestoringInv, Live
  <2>2. \A f \in Functions \ {F} : stub[f] # None =>
           stub[f] \in Live /\ stub[f] # cur /\ block[stub[f]].fn = f
    BY <2>1 DEF StubInv
  <2>3. \A b \in Live \ {cur} : b \in Live' /\ block'[b] = block[b]
    BY DEF FreeTrampolineData, Live, TypeOK
  <2>4. StubInv' BY <2>2, <2>3 DEF StubInv, F
  <2> QED BY <2>4, <1>2 DEF NoFault
<1>7. CASE ClearStub
  <2> USE <1>7 DEF ClearStub
  <2>1. \A f \in Functions : stub'[f] = IF f = F THEN None ELSE stub[f] BY <1>1 DEF TypeOK
  <2>2. StubInv' BY <2>1 DEF StubInv, Finish, Live
  <2> QED BY <2>2, <1>2 DEF NoFault
<1> QED BY <1>3, <1>4, <1>5, <1>6, <1>7

LEMMA ThreadStepSound ==
  ASSUME Quiescent, SoundInv, JumpInv', ThreadStep
  PROVE  SoundInv'
<1> USE PatchAssumption DEF SoundInv, JumpInv
<1>1. UNCHANGED <<code, stub, block, relays, list, todo, at, cur>>
  BY ThreadTypes DEF patchVars, engineVars
<1>2. StubInv' BY <1>1 DEF StubInv, Live, F
<1>3. PICK t \in Threads :
        (\E f \in Functions : Enter(t, f)) \/ RunRelay(t) \/ Leave(t) \/ CallOriginal(t) \/ RunTrampoline(t)
  BY DEF ThreadStep
<1>4. CASE \E f \in Functions : Enter(t, f)
  <2>1. PICK f \in Functions : Enter(t, f) BY <1>4
  <2> USE <2>1 DEF Enter
  <2>2. /\ stub[f] \in Live /\ stub[f] # None /\ block[stub[f]].fn = f
        /\ code[f] \in Blocks => code[f] = stub[f] /\ code[f] \in relays
    BY DEF JumpHasTrampoline, Live
  <2>3. ~Restoring' BY <1>1 DEF Restoring
  <2>4. ThreadInv' BY <1>1, <2>2, <2>3 DEF ThreadInv, TypeOK, Run, Goto, Live
  <2> QED BY <1>2, <2>4 DEF NoFault
<1>5. CASE RunRelay(t)
  <2> USE <1>5 DEF RunRelay
  <2>1. held[t] \in relays /\ block[held[t]].fn = fn[t] BY DEF ThreadInv
  <2>2. Goto(t, "hook", None) /\ UNCHANGED <<fn, fault>> BY <2>1
  <2>3. ThreadInv' BY <1>1, <2>2 DEF ThreadInv, TypeOK, Goto, Live, Restoring
  <2> QED BY <1>2, <2>2, <2>3 DEF NoFault
<1>6. CASE Leave(t)
  <2> USE <1>6 DEF Leave
  <2>1. ThreadInv' BY <1>1 DEF ThreadInv, TypeOK, Goto, Live, Restoring
  <2> QED BY <1>2, <2>1 DEF NoFault
<1>7. CASE CallOriginal(t)
  <2> USE <1>7 DEF CallOriginal
  <2>1. fn[t] \in Functions /\ stub[fn[t]] # None /\ pc[t] # "out" BY DEF ThreadInv, TypeOK
  <2>2. Goto(t, "original", stub[fn[t]]) /\ UNCHANGED <<fn, fault>> BY <2>1
  <2>3. ~Restoring BY <2>1 DEF ThreadInv
  <2>4. \A f \in Functions : at = "clear" => f # F \/ Restoring
    <3>1. at = "clear" => Asked("restore") BY DEF RestoringInv
    <3>2. Asked("restore") => Restoring
      BY HeadIsRequest DEF Asked, Restoring, TypeOK
    <3> QED BY <3>1, <3>2
  <2>5. stub[fn[t]] \in Live /\ block[stub[fn[t]]].fn = fn[t] BY <2>1, <2>3, <2>4 DEF StubInv
  <2>6. ThreadInv' BY <1>1, <2>2, <2>3, <2>5 DEF ThreadInv, TypeOK, Goto, Live, Restoring
  <2> QED BY <1>2, <2>2, <2>6 DEF NoFault
<1>8. CASE RunTrampoline(t)
  <2> USE <1>8 DEF RunTrampoline
  <2>1. held[t] \in Live /\ block[held[t]].fn = fn[t] BY DEF ThreadInv
  <2>2. block[held[t]].original = "native" /\ "native" \notin Blocks BY <2>1 DEF BlockInv
  <2>3. Goto(t, "out", None) /\ UNCHANGED <<fn, fault>> BY <2>1, <2>2 DEF Run
  <2>4. ThreadInv' BY <1>1, <2>3 DEF ThreadInv, TypeOK, Goto, Live, Restoring
  <2> QED BY <1>2, <2>3, <2>4 DEF NoFault
<1> QED BY <1>3, <1>4, <1>5, <1>6, <1>7, <1>8

LEMMA AskSound ==
  ASSUME Quiescent, SoundInv, JumpInv',
         NEW functions \in Batches, PatchMemory(functions) \/ RestoreMemory(functions)
  PROVE  SoundInv'
<1> USE DEF SoundInv, JumpInv
<1>1. /\ at = "idle" /\ todo = <<>>
      /\ UNCHANGED <<code, stub, block, relays, at, cur, pc, fn, held, fault>>
  BY DEF PatchMemory, RestoreMemory, Ask, Idle, patchVars, threadVars
<1>2. StubInv' BY <1>1 DEF StubInv, Live
<1>3. Restoring' => \A t \in Threads : pc[t] = "out"
  <2>1. CASE PatchMemory(functions)
    <3>1. \A i \in DOMAIN todo' : todo'[i].do = "patch" BY <2>1 DEF PatchMemory, Ask
    <3> QED BY <3>1 DEF Restoring
  <2>2. CASE RestoreMemory(functions) BY <2>2 DEF RestoreMemory
  <2> QED BY <2>1, <2>2
<1>4. ThreadInv' BY <1>1, <1>3 DEF ThreadInv, Live
<1> QED BY <1>1, <1>2, <1>4 DEF NoFault

LEMMA NextSound ==
  ASSUME Quiescent, SoundInv, [Next]_vars, ~ProtectMemoryFails
  PROVE  SoundInv'
<1>1. JumpInv' BY NextJumpInv DEF SoundInv
<1>2. CASE EngineStep
  BY <1>1, <1>2, PatchStepSound, RestoreStepSound DEF EngineStep
<1>3. CASE ThreadStep BY <1>1, <1>3, ThreadStepSound
<1>4. CASE \E functions \in Batches : PatchMemory(functions) \/ RestoreMemory(functions)
  BY <1>1, <1>4, AskSound
<1>5. CASE UNCHANGED vars
  BY <1>1, <1>5 DEF SoundInv, StubInv, ThreadInv, NoFault, Restoring, Live, F,
                    vars, patchVars, engineVars, threadVars
<1> QED BY <1>2, <1>3, <1>4, <1>5 DEF Next

LEMMA InitSound == Init => SoundInv
<1> SUFFICES ASSUME Init PROVE SoundInv
  OBVIOUS
<1>1. JumpInv BY InitEstablishesJumpInv
<1>2. StubInv /\ NoFault BY DEF Init, StubInv, NoFault
<1>3. ~Restoring BY DEF Init, Restoring
<1>4. ThreadInv BY <1>3 DEF Init, ThreadInv
<1> QED BY <1>1, <1>2, <1>4 DEF SoundInv

(* When hooks are restored only while no thread is in one, and ProtectMemory  *)
(* does not fail, no thread and no RestoreMemory follows a null or freed      *)
(* pointer, whichever allocations fail and however many hooks there are.      *)
THEOREM NoFaultOfSoundCallers ==
  ASSUME Quiescent, ~ProtectFails
  PROVE  Spec => []NoFault
<1>1. SoundInv /\ [Next]_vars => SoundInv' BY NextSound DEF ProtectMemoryFails
<1>2. SoundInv => NoFault BY DEF SoundInv
<1> QED BY <1>1, <1>2, InitSound, PTL DEF Spec

-----------------------------------------------------------------------------
(* Who owns a relay, at each step of a request: the trampoline it was made    *)
(* for, or HandleFunctionPatch while it has no trampoline yet.                *)

OwnerInv ==
  /\ relays \ {Local} = {b \in Live : block[b].relay}
  /\ Local \in relays => at = "allocate"
  /\ list \subseteq Live

LEMMA InitOwners == Init => OwnerInv
BY DEF Init, OwnerInv, Live

LEMMA FreeKeepsOwners ==
  ASSUME NEW b \in Blocks, FreeTrampolineData(b), OwnerInv,
         block \in [Blocks -> Contents \cup {None}]
  PROVE  /\ Live' = Live \ {b}
         /\ relays' \ {Local} = {x \in Live' : block'[x].relay}
         /\ Local \in relays' => Local \in relays
<1>1. /\ \A x \in Blocks \ {b} : block'[x] = block[x]
      /\ block'[b] = None
  BY DEF FreeTrampolineData
<1>2. Live' = Live \ {b} BY <1>1 DEF Live
<1> QED BY <1>1, <1>2 DEF FreeTrampolineData, OwnerInv, Live

LEMMA NextOwners ==
  ASSUME JumpInv, OwnerInv, [Next]_vars, ~ProtectMemoryFails
  PROVE  OwnerInv'
<1> USE PatchAssumption DEF JumpInv, TypeOK
<1>1. ASSUME NEW relay \in BOOLEAN, FindPlace(relay) PROVE OwnerInv'
  BY <1>1 DEF FindPlace, OwnerInv, Live, Local
<1>2. CASE NoPlace
  BY <1>2 DEF NoPlace, Fail, patchVars, OwnerInv, Live
<1>3. CASE NoTrampoline
  BY <1>3 DEF NoTrampoline, Fail, OwnerInv, Live
<1>4. ASSUME NEW b \in Blocks, AllocateTrampoline(b) PROVE OwnerInv'
  <2>1. /\ block'[b] = [fn |-> F, relay |-> Local \in relays, original |-> code[F]]
        /\ \A x \in Blocks \ {b} : block'[x] = block[x]
        /\ b \notin Live /\ b # Local
        /\ relays' = IF Local \in relays THEN (relays \ {Local}) \cup {b} ELSE relays
        /\ list' = list
    BY <1>4 DEF AllocateTrampoline, Live
  <2>2. block'[b].relay = (Local \in relays) /\ block'[b] # None
    <3>1. todo # <<>> BY <1>4 DEF AllocateTrampoline
    <3>2. F \in Functions BY <3>1, HeadIsRequest
    <3>3. [fn |-> F, relay |-> Local \in relays, original |-> code[F]] \in Contents
      BY <3>2 DEF Contents
    <3>4. [fn |-> F, relay |-> Local \in relays, original |-> code[F]].relay = (Local \in relays)
      OBVIOUS
    <3> QED BY <2>1, <3>3, <3>4
  <2>3. Live' = Live \cup {b}
    BY <2>1, <2>2 DEF Live
  <2>4. relays' \ {Local} = {x \in Live' : block'[x].relay}
    <3>1. \A x \in Live : block'[x] = block[x] BY <2>1 DEF Live
    <3> QED BY <2>1, <2>2, <2>3, <3>1 DEF OwnerInv
  <2> QED BY <2>1, <2>3, <2>4 DEF OwnerInv
<1>5. ASSUME NEW added \in BOOLEAN, PublishStub(added) PROVE OwnerInv'
  BY <1>5 DEF PublishStub, PatchingInv, OwnerInv, Live
<1>6. CASE WriteJump
  BY <1>6 DEF WriteJump, Finish, OwnerInv, Live
<1>7. CASE NothingToRestore \/ RestoreFreed \/ RestoreFails \/ RestoreCode \/ ClearStub
  <2>1. UNCHANGED <<relays, block, list>> /\ at # "allocate"
    BY <1>7 DEF NothingToRestore, RestoreFreed, RestoreFails, RestoreCode, ClearStub, patchVars
  <2> QED BY <2>1 DEF OwnerInv, Live
<1>8. CASE RemoveTrampolineData
  <2>1. CASE cur \in list
    <3>1. FreeTrampolineData(cur) /\ list' = list \ {cur} /\ at = "free"
      BY <1>8, <2>1 DEF RemoveTrampolineData
    <3>2. cur \in Blocks BY <2>1
    <3> QED BY <3>1, <3>2, FreeKeepsOwners DEF OwnerInv
  <2>2. CASE cur \notin list
    BY <1>8, <2>2 DEF RemoveTrampolineData, OwnerInv, Live
  <2> QED BY <2>1, <2>2
<1>9. CASE ThreadStep
  BY <1>9, ThreadTypes DEF patchVars, engineVars, OwnerInv, Live
<1>10. CASE \E functions \in Batches : PatchMemory(functions) \/ RestoreMemory(functions)
  BY <1>10 DEF PatchMemory, RestoreMemory, Ask, Idle, patchVars, OwnerInv, Live
<1>11. CASE UNCHANGED vars
  BY <1>11 DEF vars, patchVars, engineVars, OwnerInv, Live
<1> QED BY <1>1, <1>2, <1>3, <1>4, <1>5, <1>6, <1>7, <1>8, <1>9, <1>10, <1>11 DEF Next, EngineStep

LEMMA OwnersLeakNothing == OwnerInv => NothingLeaked
BY DEF OwnerInv, NothingLeaked, Idle
=============================================================================
