------------------------------ MODULE HookCode ------------------------------
(* The code that support/patch/MemoryPatch.cpp generates: the jump written   *)
(* over a function's entry (GenerateHookCode) and the naked trampoline       *)
(* (GenerateNakedTrampoline), which hands a callback all registers and goes  *)
(* on with the function. A thread runs it, one instruction a step.           *)
EXTENDS Integers, Sequences

VARIABLES arch, hook, naked, execute, near,   \* what is asked for
          changed,                            \* the register the callback changes
          code,                               \* the instructions still to run
          regs, flags, sp, mem,               \* the thread; the stack in slots
          trace                               \* history: where it has been

asked == <<arch, hook, naked, execute, near, changed>>
vars  == <<asked, code, regs, flags, sp, mem, trace>>

Regs32 == <<"ax", "cx", "dx", "bx", "bp", "si", "di">>
Regs64 == Regs32 \o <<"r8", "r9", "r10", "r11", "r12", "r13", "r14", "r15">>
Regs   == IF arch = "x86" THEN Regs32 ELSE Regs64

RegisterJumps == <<"OpJRax", "OpJRcx", "OpJRdx", "OpJRbx", "OpJRbp", "OpJRsi", "OpJRdi">>
Extended      == {"OpJR10", "OpJR11"}
HookOps(a) == {"OpCall", "OpJump", "OpPush"} \cup {RegisterJumps[k] : k \in 1 .. 7}
              \cup IF a = "x64" THEN {"OpJumpIndirect"} \cup Extended ELSE {}

Value(r) == <<"entry", r>>     \* what a register holds at the function's entry
At(p)    == <<"code", p>>
Junk     == <<"junk", 0>>

-----------------------------------------------------------------------------
(* Instructions: an operation, a register, a slot or a value, its bytes.     *)

I(name, r, k, v, size) == [op |-> name, reg |-> r, slot |-> k, value |-> v, size |-> size]
Push(r)      == I("push", r, 0, Junk, 1)
Pop(r)       == I("pop", r, 0, Junk, 1)
Lea(k)       == I("lea", "sp", k, Junk, 5)
Store(r, k)  == I("store", r, k, Junk, 5)
Load(r, k)   == I("load", r, k, Junk, 5)
Mov(r, v)    == I("mov", r, 0, v, IF arch = "x86" THEN 5 ELSE 10)
CallAx       == I("callreg", "ax", 0, Junk, 2)
Ret          == I("ret", "sp", 0, Junk, 1)
Block        == I("block", "sp", 0, Junk, 0)      \* the copied instructions
Lost(size)   == I("lost", "sp", 0, Junk, size)    \* bytes that mean something else

(* The numbers of the registers in B8+r and FF E0+r.                         *)
Number == <<"ax", "cx", "dx", "bx", "sp", "bp", "si", "di", "r8", "r9", "r10", "r11">>

(* jmp r: two bytes written as one word.                                     *)
JumpRegister(word, first) ==
  IF word % 256 = \hFF /\ word \div 256 \in \hE0 .. \hE7
  THEN I("jmpreg", Number[first + (word \div 256) - \hE0 + 1], 0, Junk, 2)
  ELSE Lost(2)

(* The operations are \h10000000 apart: as a byte their distance is 0.       *)
RegisterIndex(op) == ((CHOOSE k \in 1 .. 7 : RegisterJumps[k] = op) - 1) * \h10000000

(* A push of the upper half; four bytes of the buffer that were never        *)
(* written; a store whose immediate is overwritten by the ret.               *)
Push64 == <<I("pushimm", "sp", 0, Junk, 5), Lost(8)>>

(* mutant: r10 and r11 without their prefix                                  *)
BadGenerateHookCode(op, target) ==
  CASE op \in {"OpCall", "OpJump"} -> IF arch = "x64" /\ ~near THEN <<>>
                                      ELSE <<I(IF op = "OpCall" THEN "call" ELSE "jmp", "sp", 0, At(target), 5)>>
    [] op = "OpJumpIndirect" -> <<I("jmp", "sp", 0, At(target), 14)>>
    [] op = "OpPush" -> IF arch = "x64" THEN Push64 ELSE <<I("pushimm", "sp", 0, At(target), 5), Ret>>
    [] op \in Extended -> <<Mov("dx", At(target)), JumpRegister(\hE2FF + (IF op = "OpJR10" THEN 0 ELSE 1), 8)>>
    [] OTHER -> <<Mov(Number[(RegisterIndex(op) % 256) + 1], At(target)),
                  JumpRegister((\hE0FF + RegisterIndex(op)) % 65536, 0)>>

GenerateHookCode(op, target) ==
  CASE op \in {"OpCall", "OpJump"} -> IF arch = "x64" /\ ~near THEN <<>>
                                      ELSE <<I(IF op = "OpCall" THEN "call" ELSE "jmp", "sp", 0, At(target), 5)>>
    [] op = "OpJumpIndirect" -> <<I("jmp", "sp", 0, At(target), 14)>>
    [] op = "OpPush" -> IF arch = "x64" THEN Push64 ELSE <<I("pushimm", "sp", 0, At(target), 5), Ret>>
    [] op \in Extended -> LET k == IF op = "OpJR10" THEN 2 ELSE 3
                          IN <<Mov(Number[8 + k + 1], At(target)), [JumpRegister(\hE2FF + (k - 2), 8) EXCEPT !.size = 3]>>
    [] OTHER -> <<Mov(Number[(RegisterIndex(op) % 256) + 1], At(target)),
                  JumpRegister((\hE0FF + RegisterIndex(op)) % 65536, 0)>>

GetSizeOfHookOpSize(op) ==
  CASE op \in {"OpCall", "OpJump"} -> 5
    [] op = "OpJumpIndirect" -> 14
    [] op = "OpPush" -> IF arch = "x86" THEN 6 ELSE 13
    [] op \in Extended -> 13
    [] OTHER -> IF arch = "x86" THEN 7 ELSE 12

-----------------------------------------------------------------------------
(* The naked trampoline. The slot above the saved flags takes the address to *)
(* go on at: that of the call, or one pushed for it.                         *)

ReturnSlot == IF hook = "OpCall" THEN <<>> ELSE <<Push("ax")>>

Reverse(s) == [k \in DOMAIN s |-> s[Len(s) + 1 - k]]

Naked32(back) ==
  ReturnSlot \o <<Push("sp"), Push("ax"), Push("cx"), Push("dx"), Push("bx"), Push("bp"), Push("si"), Push("di"),
                  Push("flags"), Mov("ax", At(back)), Store("ax", 9), Mov("ax", At("callback")), CallAx, Pop("flags")>>
    \o Reverse([k \in 1 .. 7 |-> Pop(Regs32[k])]) \o <<Pop("sp"), Ret>>

SizeOfContext == 15

SaveContext    == [k \in 1 .. SizeOfContext |-> Store(Regs64[k], k - 1)]
RestoreContext == [k \in 1 .. SizeOfContext |-> Load(Regs64[k], k - 1)]

BadCallCallback(back) == <<Mov("ax", At(back)), Store("ax", SizeOfContext + 1), Mov("ax", At("callback")), CallAx>>  \* mutant: no room for the callee
CallCallback(back) == <<Mov("ax", At(back)), Store("ax", SizeOfContext + 1), Mov("ax", At("callback")),
                        Lea(-4), CallAx, Lea(4)>>

Naked64(back) == ReturnSlot \o <<Push("flags"), Lea(-SizeOfContext)>> \o SaveContext \o CallCallback(back)
                   \o RestoreContext \o <<Lea(SizeOfContext), Pop("flags"), Ret>>

GenerateNakedTrampoline ==
  LET back == IF execute THEN "behind" ELSE "stub"
      call == IF arch = "x86" THEN Naked32(back) ELSE Naked64(back)
  IN IF execute THEN <<Block>> \o call ELSE call

-----------------------------------------------------------------------------

Init == /\ arch \in {"x86", "x64"}
        /\ hook \in HookOps(arch)
        /\ naked \in BOOLEAN /\ execute \in {FALSE, naked} /\ near \in BOOLEAN
        /\ changed \in {"none", "ax", "cx", "bp"}
        /\ code = GenerateHookCode(hook, "target")
        /\ regs = [k \in {Regs[i] : i \in DOMAIN Regs} |-> Value(k)]
        /\ flags = Value("flags")
        /\ sp = 0 /\ mem = [k \in -24 .. 0 |-> Junk]
        /\ trace = <<>>

Arrive(p) == /\ trace' = Append(trace, p)
             /\ code' = CASE p = "target" /\ naked -> GenerateNakedTrampoline
                          [] p = "stub" -> <<Block>>
                          [] OTHER -> <<>>

Read(r) == CASE r = "sp" -> <<"sp", sp>> [] r = "flags" -> flags [] OTHER -> regs[r]

(* The callback: registers it need not keep, its own arguments' room on the  *)
(* stack, and the context, in which it changes a register.                   *)
Volatile == {"ax", "cx", "dx", "r8", "r9", "r10", "r11"}
ContextSlot(r) ==
  LET k == CHOOSE i \in DOMAIN Regs : Regs[i] = r
  IN IF arch = "x86" THEN sp + 8 - k ELSE sp + 4 + k - 1

Callback ==
  /\ regs' = [r \in DOMAIN regs |-> IF r \in Volatile THEN Junk ELSE regs[r]]
  /\ flags' = Junk
  /\ mem' = [k \in DOMAIN mem |->
               CASE changed # "none" /\ k = ContextSlot(changed) -> <<"changed", changed>>
                 [] arch = "x64" /\ k \in sp .. sp + 3 -> Junk
                 [] OTHER -> mem[k]]
  /\ trace' = Append(trace, "callback")
  /\ code' = Tail(code) /\ UNCHANGED sp

Write(r, v) == CASE r = "sp" -> /\ sp' = v[2] /\ UNCHANGED <<flags, regs>>
                 [] r = "flags" -> flags' = v /\ sp' = sp + 1 /\ UNCHANGED regs
                 [] OTHER -> regs' = [regs EXCEPT ![r] = v] /\ sp' = sp + 1 /\ UNCHANGED flags

PushValue(v) == sp' = sp - 1 /\ mem' = [mem EXCEPT ![sp - 1] = v]

Run ==
  /\ code # <<>>
  /\ LET i == Head(code)
         Stay == code' = Tail(code) /\ UNCHANGED trace
         Keep == UNCHANGED <<regs, flags>>
     IN CASE i.op = "push"    -> PushValue(Read(i.reg)) /\ Stay /\ Keep
          [] i.op = "pushimm" -> PushValue(i.value) /\ Stay /\ Keep
          [] i.op = "pop"     -> Write(i.reg, mem[sp]) /\ Stay /\ UNCHANGED mem
          [] i.op = "lea"     -> sp' = sp + i.slot /\ Stay /\ Keep /\ UNCHANGED mem
          [] i.op = "store"   -> mem' = [mem EXCEPT ![sp + i.slot] = regs[i.reg]] /\ Stay /\ Keep /\ UNCHANGED sp
          [] i.op = "load"    -> regs' = [regs EXCEPT ![i.reg] = mem[sp + i.slot]] /\ Stay /\ UNCHANGED <<flags, sp, mem>>
          [] i.op = "mov"     -> regs' = [regs EXCEPT ![i.reg] = i.value] /\ Stay /\ UNCHANGED <<flags, sp, mem>>
          [] i.op = "jmp"     -> Arrive(i.value[2]) /\ Keep /\ UNCHANGED <<sp, mem>>
          [] i.op = "call"    -> Arrive(i.value[2]) /\ PushValue(At("behind")) /\ Keep
          [] i.op = "jmpreg"  -> Arrive(regs[i.reg][2]) /\ Keep /\ UNCHANGED <<sp, mem>>
          [] i.op = "callreg" -> Callback
          [] i.op = "ret"     -> Arrive(mem[sp][2]) /\ sp' = sp + 1 /\ Keep /\ UNCHANGED mem
          [] i.op = "block"   -> /\ trace' = Append(trace, <<"block", sp>>)
                                 /\ code' = Tail(code) /\ Keep /\ UNCHANGED <<sp, mem>>
          [] OTHER            -> Arrive("lost") /\ Keep /\ UNCHANGED <<sp, mem>>
  /\ UNCHANGED asked

Next == Run

Spec == Init /\ [][Next]_vars

-----------------------------------------------------------------------------
(* The ones the program asks for, and those that are right.                  *)
Broken == (arch = "x64" /\ hook = "OpPush") \/ hook = "OpJR11"

NamedRegister == CASE hook = "OpJR10" -> {"r10"} [] hook = "OpJR11" -> {"r11"}
                   [] hook \in HookOps("x86") \ {"OpCall", "OpJump", "OpPush"} -> {"ax"}
                   [] OTHER -> {}

Size == LET Sum[k \in Nat] == IF k = 0 THEN 0 ELSE Sum[k - 1] + GenerateHookCode(hook, "target")[k].size
        IN Sum[Len(GenerateHookCode(hook, "target"))]

(* HookReaches: the code written over an entry has the size that was cleared *)
(* for it, and it takes a caller to the hook with its registers but the one  *)
(* it jumps by, and its stack (MemoryPatch.cpp 419-555, 1137-1226).          *)
HookReaches ==
  /\ GenerateHookCode(hook, "target") # <<>> => Size = GetSizeOfHookOpSize(hook)
  /\ trace # <<>> /\ ~Broken => Head(trace) = "target"
  /\ trace = <<"target">> /\ ~naked =>
       /\ \A r \in DOMAIN regs \ NamedRegister : regs[r] = Value(r)
       /\ flags = Value("flags")
       /\ sp = IF hook = "OpCall" THEN -1 ELSE 0

(* NakedTransparent: the naked trampoline runs the callback and the copied   *)
(* instructions once, in the order asked for, and goes on with the registers *)
(* as the callback left them in the context and the stack of the entry. A    *)
(* called trampoline that runs the instructions first has the call's address *)
(* on the stack meanwhile (MemoryPatch.cpp 557-1006).                        *)
NakedTransparent ==
  naked /\ code = <<>> /\ trace # <<>> /\ ~Broken =>
    /\ trace = IF execute THEN <<"target", <<"block", IF hook = "OpCall" THEN -1 ELSE 0>>, "callback", "behind">>
               ELSE <<"target", "callback", "stub", <<"block", 0>>>>
    /\ \A r \in DOMAIN regs \ NamedRegister : regs[r] = IF r = changed THEN <<"changed", r>> ELSE Value(r)
    /\ flags = Value("flags") /\ sp = 0

(* RegisterJumpReaches: the comments of GetSizeOfHookOpSize and              *)
(* GenerateHookCode say of each operation which register it jumps by.        *)
RegisterJumpReaches == trace # <<>> /\ hook \in Extended => Head(trace) = "target"
=============================================================================
