----------------------------- MODULE PatchCode -----------------------------
(* How support/patch/MemoryPatch.cpp takes instructions out of a function's  *)
(* entry: GetHookAddressAndSize looks for the place and the size,            *)
(* CopyTrampolineStub copies them into the trampoline with CopyOneOpCode     *)
(* (Decoder.cpp), GenerateJumpBack ends it.                                  *)
EXTENDS Integers, Sequences

CONSTANTS Free       \* how many instructions a function begins with (bound)

VARIABLES arch, hookSize, function,   \* a function: its instructions in order
          phase,                      \* "scan", "copy", "done", "too small"
          at,                         \* the instruction the loop is at
          first, size,                \* the place found and the bytes to take
          copied                      \* the trampoline

vars == <<arch, hookSize, function, phase, at, first, size, copied>>

(* Addresses: the function at 0, what it calls further on, the trampoline    *)
(* far away.                                                                 *)
Outside    == 60
Trampoline == 100000

ShortBranch  == {"jcc8", "jmp8", "loop8"}
Length == [plain1 |-> 1, plain3 |-> 3, plain14 |-> 14, ret |-> 1, jcc8 |-> 2, jmp8 |-> 2, loop8 |-> 2,
           jcc32 |-> 6, jmp32 |-> 5, call32 |-> 5, jmpind |-> 6]
Relative == {"jcc8", "jmp8", "loop8", "jcc32", "jmp32", "call32"}

Address(f) == LET A[k \in 1 .. Len(f) + 1] == IF k = 1 THEN 0 ELSE A[k - 1] + Length[f[k - 1].kind]
              IN A
Start(k) == Address(function)[k]

(* A function: some instructions, branches to any of them or out of it, and  *)
(* one that is long enough to end any search.                                *)
Kinds == DOMAIN Length \ {"plain14"}
Entries ==
  { Append(f, [kind |-> "plain14", to |-> 0]) :
      f \in {g \in [1 .. Free -> [kind : Kinds, to : 0 .. Free + 2]] :
               \A k \in 1 .. Free : /\ (g[k].to = 0) <=> (g[k].kind \notin Relative \cup {"jmpind"})
                                    /\ ~(g[k].kind \in {"jmp8", "jmpind"} /\ g[k].to \in 1 .. k)} }

Goal(k) == IF function[k].to = Free + 2 THEN Outside ELSE Start(function[k].to)

Init == /\ arch \in {"x86", "x64"}
        /\ hookSize \in {5, 14}
        /\ function \in Entries
        /\ phase = "scan" /\ at = 1 /\ first = 1 /\ size = 0
        /\ copied = <<>>

-----------------------------------------------------------------------------
(* GetHookAddressAndSize, one instruction a step. Jumps the entry begins     *)
(* with are followed.                                                        *)

Follow(k) == at' = k /\ first' = k /\ UNCHANGED <<size, phase>>
TooSmall  == phase' = "too small" /\ UNCHANGED <<at, first, size>>
Count(k)  == at' = at + 1 /\ size' = size + Length[k] /\ UNCHANGED <<first, phase>>

(* A jump that is not the last instruction to take ends the function.        *)
CutsBehind(k) == k = "jmp8" /\ size # 0 /\ size < hookSize - Length[k]

GetHookAddressAndSize ==
  /\ phase = "scan" /\ size < hookSize
  /\ LET i == function[at]
         length == Length[i.kind]
     IN CASE i.kind = "ret" -> TooSmall
          [] i.kind = "jmp8" /\ size = 0 /\ Goal(at) # Start(at) + 2 ->
               IF i.to = Free + 2 THEN TooSmall ELSE Follow(i.to)      \* what is elsewhere is not modelled
          [] CutsBehind(i.kind) -> TooSmall
          [] i.kind = "jmpind" /\ arch = "x86" /\ size # 0 /\ size + length < hookSize -> TooSmall
          [] i.kind = "jmpind" /\ arch = "x86" /\ size = 0 /\ hookSize > length ->
               IF i.to = Free + 2 THEN TooSmall ELSE Follow(i.to)
          [] i.kind = "jmpind" /\ arch = "x64" ->
               IF size # 0 \/ i.to = Free + 2 THEN TooSmall ELSE Follow(i.to)
          [] OTHER -> Count(i.kind)
  /\ UNCHANGED <<arch, hookSize, function, copied>>

Found == /\ phase = "scan" /\ size >= hookSize
         /\ phase' = "copy" /\ at' = first
         /\ UNCHANGED <<arch, hookSize, function, first, size, copied>>

-----------------------------------------------------------------------------
(* CopyOneOpCode: where the copy of an instruction leads and how long it is. *)

End == IF copied = <<>> THEN Trampoline
       ELSE copied[Len(copied)].start + copied[Len(copied)].size

Rewritten == {"jcc8", "jmp8", "jcc32", "jmp32", "call32"}

(* The target is among the instructions taken, as seen from this one.        *)
Inside(offset, forward, backward) == IF offset < 0 THEN -offset < backward ELSE offset < forward

LongSize == [call32 |-> 16, jmp8 |-> 14, jmp32 |-> 14, jcc8 |-> 20, jcc32 |-> 20]

(* mutant: the new offset counts from the end of a one-byte opcode           *)
BadCopyOneOpCode(k, forward, backward) ==
  LET i == function[k]
      offset == Goal(k) - Start(k)
      opCodeLength == IF i.kind \in {"jcc8", "jcc32"} THEN 2 ELSE 1
      displacement == Goal(k) - (End + 1 + 4)
  IN CASE i.kind \notin Relative -> [size |-> Length[i.kind], goes |-> 0]
       [] i.kind \notin Rewritten \/ Inside(offset, forward, backward) ->
            [size |-> Length[i.kind], goes |-> End + offset]
       [] arch = "x64" -> [size |-> LongSize[i.kind], goes |-> Goal(k)]
       [] OTHER -> [size |-> opCodeLength + 4, goes |-> End + opCodeLength + 4 + displacement]

CopyOneOpCode(k, forward, backward) ==
  LET i == function[k]
      offset == Goal(k) - Start(k)
      opCodeLength == IF i.kind \in {"jcc8", "jcc32"} THEN 2 ELSE 1
      displacement == Goal(k) - (End + opCodeLength + 4)
  IN CASE i.kind \notin Relative -> [size |-> Length[i.kind], goes |-> 0]
       [] i.kind \notin Rewritten \/ Inside(offset, forward, backward) ->
            [size |-> Length[i.kind], goes |-> End + offset]
       [] arch = "x64" -> [size |-> LongSize[i.kind], goes |-> Goal(k)]
       [] OTHER -> [size |-> opCodeLength + 4, goes |-> End + opCodeLength + 4 + displacement]

Taken == Start(at) - Start(first)

CopyTrampolineStub ==
  /\ phase = "copy" /\ Taken < size
  /\ IF function[at].kind = "ret" THEN phase' = "too small" /\ UNCHANGED <<at, copied>>
     ELSE LET c == CopyOneOpCode(at, size - Taken, Taken)
          IN /\ copied' = Append(copied, [from |-> at, start |-> End, size |-> c.size, goes |-> c.goes])
             /\ at' = at + 1 /\ UNCHANGED phase
  /\ UNCHANGED <<arch, hookSize, function, first, size>>

(* A jump to the address behind the instructions taken.                      *)
GenerateJumpBack ==
  /\ phase = "copy" /\ Taken >= size
  /\ copied' = Append(copied, [from |-> 0, start |-> End, size |-> IF arch = "x64" THEN 14 ELSE 6,
                               goes |-> Start(first) + size])
  /\ phase' = "done"
  /\ UNCHANGED <<arch, hookSize, function, at, first, size>>

Next == GetHookAddressAndSize \/ Found \/ CopyTrampolineStub \/ GenerateJumpBack

Spec == Init /\ [][Next]_vars

-----------------------------------------------------------------------------

(* The copies between two points are as long as the instructions.            *)
Unchanged(k, l) == \A c \in DOMAIN copied :
                      copied[c].from \in k .. l - 1 => copied[c].size = Length[function[copied[c].from].kind]
Between(k, l) == IF k < l THEN Unchanged(k, l) ELSE Unchanged(l, k)

CopyOf(k) == {copied[c].start : c \in {d \in DOMAIN copied : copied[d].from = k}}

(* BranchesKept: a branch taken into the trampoline leads where it led, or   *)
(* to the copy of the instruction it led to; behind the copies the function  *)
(* goes on. Not so for loop and jecxz out of the block, which are copied as  *)
(* they are, nor across an instruction whose copy is longer                  *)
(* (Decoder.cpp 926-1123, MemoryPatch.cpp 1033-1057).                        *)
BranchesKept ==
  phase = "done" =>
    \A c \in 1 .. Len(copied) - 1 :
      LET k == copied[c].from
          to == function[k].to
          inside == to \in first .. at - 1
      IN function[k].kind \in Relative =>
           \/ copied[c].goes = Goal(k) /\ (~inside \/ to = first)
           \/ inside /\ copied[c].goes \in CopyOf(to)
           \/ function[k].kind = "loop8" /\ ~inside
           \/ inside /\ ~Between(k, to)

(* WholeInstructions: what is overwritten are whole instructions, at least as *)
(* many bytes as the jump needs, and none of them lies behind the return or  *)
(* the short or indirect jump at which the function ends; a long jump is not *)
(* looked for (MemoryPatch.cpp 1059-1135).                                   *)
WholeInstructions ==
  phase = "done" => /\ size >= hookSize
                    /\ Start(at) = Start(first) + size
                    /\ \A k \in first .. at - 1 : function[k].kind # "ret"
                    /\ \A k \in first .. at - 2 :
                         (function[k].kind \in {"jmp8", "jmpind"} /\ function[k].to # k + 1)
                           => Start(k + 1) - Start(first) >= hookSize

EntryMoves == BranchesKept /\ WholeInstructions
=============================================================================
