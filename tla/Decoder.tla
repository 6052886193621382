------------------------------ MODULE Decoder ------------------------------
(* The two length decoders of support/patch/Decoder.cpp against the          *)
(* processor's manual. The inline patches copy, and the searches for         *)
(* unexported functions walk, code by these lengths.                         *)
EXTENDS OpcodeTables, Sequences, SequencesExt

CONSTANT PrefixSets      \* sequences of prefix bytes (bound)

VARIABLES arch, prefixes, rex, escape, op      \* an instruction up to its opcode

vars == <<arch, prefixes, rex, escape, op>>

NoRex == -1     \* otherwise the low half of the REX byte

Init == /\ arch \in {"x86", "x64"}
        /\ prefixes \in PrefixSets
        /\ rex \in IF arch = "x64" THEN {NoRex, 0, 1, 8} ELSE {NoRex}
        /\ escape \in BOOLEAN
        /\ op = 0

(* The next opcode.                                                          *)
Next == /\ op < \hFF /\ op' = op + 1
        /\ UNCHANGED <<arch, prefixes, rex, escape>>

Spec == Init /\ [][Next]_vars

ModRMs == [mod : 0 .. 3, reg : {0, 2}, rm : {0, 4, 5, 6}, base : {0, 5}]

Last66 == prefixes # <<>> /\ Last(prefixes) = \h66
Last67 == prefixes # <<>> /\ Last(prefixes) = \h67
Any66  == \E i \in DOMAIN prefixes : prefixes[i] = \h66
Any67  == \E i \in DOMAIN prefixes : prefixes[i] = \h67

One(b) == IF b THEN 1 ELSE 0

-----------------------------------------------------------------------------

(* In F6 and F7 opcodes an immediate is present if reg is 0.                 *)
WithImmediate(flags, m) == flags \cup CASE ~escape /\ op = \hF6 /\ m.reg = 0 -> {"i8"}
                                        [] ~escape /\ op = \hF7 /\ m.reg = 0 -> {"pre"}
                                        [] OTHER -> {}

(* mutant: a register operand of mod 3 and rm 4 is taken for one with a SIB  *)
BadModRMSize(m, pfx67) ==
  LET sib == ~pfx67 /\ m.rm = 4
      offset == CASE sib /\ m.base = 5 /\ m.mod \in {0, 2} -> 4
                  [] m.mod = 0 /\ pfx67 /\ m.rm = 6 -> 2
                  [] m.mod = 0 /\ ~pfx67 /\ m.rm = 5 -> 4
                  [] m.mod = 1 -> 1
                  [] m.mod = 2 -> IF pfx67 THEN 2 ELSE 4
                  [] OTHER -> 0
  IN 1 + One(sib) + offset

ModRMSize(m, pfx67) ==
  LET sib == ~pfx67 /\ m.rm = 4 /\ m.mod # 3
      offset == CASE sib /\ m.base = 5 /\ m.mod \in {0, 2} -> 4
                  [] m.mod = 0 /\ pfx67 /\ m.rm = 6 -> 2
                  [] m.mod = 0 /\ ~pfx67 /\ m.rm = 5 -> 4
                  [] m.mod = 1 -> 1
                  [] m.mod = 2 -> IF pfx67 THEN 2 ELSE 4
                  [] OTHER -> 0
  IN 1 + One(sib) + offset

DataSize(flags, pfx66) == One("i8" \in flags) + 2 * One("i16" \in flags)
                            + IF "pre" \notin flags THEN 0 ELSE IF pfx66 THEN 2 ELSE 4

IsMoffs == ~escape /\ op \in \hA0 .. \hA3

(* A REX of 40 is taken for an opcode of one byte.                           *)
LdeGetOpCodeSize64(m) ==
  LET flags == WithImmediate(IF escape THEN GetOpCodeFlagsExt(op) ELSE GetOpCodeFlags(op), m)
      pfx66 == IF IsMoffs THEN Last67 ELSE Last66
      imm64 == ~escape /\ rex >= 8 /\ op \in \hB8 .. \hBF
  IN CASE Len(prefixes) > 16 -> 0
       [] rex = 0 -> Len(prefixes) + 1
       [] OTHER -> Len(prefixes) + One(rex > 0) + One(escape) + 1 + One("word" \in flags)
                     + (IF "modrm" \in flags THEN ModRMSize(m, Last67) ELSE 0)
                     + DataSize(flags, pfx66) + 4 * One(imm64)

LdeGetOpCodeSize32(m) ==
  LET flags == WithImmediate(GetOpCodeFlags32(escape, op), m)
      pfx66 == IF IsMoffs THEN Any67 ELSE Any66
  IN Len(prefixes) + One(escape) + 1
       + (IF "modrm" \in flags THEN ModRMSize(m, Any67) ELSE 0) + DataSize(flags, pfx66)

GetOpCodeSize(m) == IF arch = "x64" THEN LdeGetOpCodeSize64(m) ELSE LdeGetOpCodeSize32(m)

-----------------------------------------------------------------------------
(* The manual. Only the group opcodes F6 and F7 have an immediate by reg.    *)

Defined == IF escape THEN op \notin Undefined0F
           ELSE /\ op \notin PrefixTable \cup {\h0F}
                /\ arch = "x64" => op \notin OnlyX86

HasModRM == IF escape THEN op \notin ManualPlain0F ELSE op \in ManualModRM

HasSib(m) == /\ m.mod # 3 /\ m.rm = 4
             /\ ~(arch = "x86" /\ Any67) /\ ~(escape /\ op \in \h20 .. \h23)

Displacement(m) ==
  LET narrow == arch = "x86" /\ Any67
  IN CASE m.mod = 3 \/ (escape /\ op \in \h20 .. \h23) -> 0
       [] m.mod = 1 -> 1
       [] m.mod = 2 -> IF narrow THEN 2 ELSE 4
       [] narrow -> IF m.rm = 6 THEN 2 ELSE 0
       [] OTHER -> IF m.rm = 5 \/ (m.rm = 4 /\ m.base = 5) THEN 4 ELSE 0

Operand == IF Any66 /\ rex < 8 THEN 2 ELSE 4

Immediate(m) ==
  IF escape
  THEN CASE op \in \h80 .. \h8F -> IF arch = "x86" /\ Any66 THEN 2 ELSE 4
         [] op \in ManualByte0F -> 1
         [] OTHER -> 0
  ELSE CASE op \in {\hE8, \hE9} -> IF arch = "x86" /\ Any66 THEN 2 ELSE 4
         [] IsMoffs -> IF arch = "x64" THEN IF Any67 THEN 4 ELSE 8 ELSE IF Any67 THEN 2 ELSE 4
         [] op \in \hB8 .. \hBF /\ rex >= 8 -> 8
         [] OTHER -> One(op \in ManualByte \/ (op = \hF6 /\ m.reg = 0)) + 2 * One(op \in ManualWord)
                       + IF op \in ManualOperand \/ (op = \hF7 /\ m.reg = 0) THEN Operand ELSE 0

Manual(m) == Len(prefixes) + One(rex >= 0) + One(escape) + 1 + Immediate(m)
               + IF HasModRM
                 THEN 1 + One(HasSib(m)) + Displacement(m)
                 ELSE 0

(* What the decoders do not know: opcodes later than their tables, that     *)
(* control registers are never in memory, and in 64 bits an empty REX, 66   *)
(* before another prefix, a REX.W or a near branch, 67 with an operand in   *)
(* memory, absolute operands, and floating point operands in memory that    *)
(* need more than a register.                                               *)
Later == escape /\ op \in \h19 .. \h1F \cup {\h78, \h79, \hB8, \hB9, \hFF}

Unknown(m) ==
  \/ Later
  \/ escape /\ op \in \h20 .. \h23 /\ m.mod # 3
  \/ /\ arch = "x64"
     /\ \/ rex = 0 \/ IsMoffs
        \/ Any66 /\ (~Last66 \/ rex >= 8 \/ (escape /\ op \in \h80 .. \h8F) \/ (~escape /\ op \in {\hE8, \hE9}))
        \/ Any67 /\ HasModRM /\ m.mod # 3
        \/ ~escape /\ op \in \hD8 .. \hDF /\ m.mod # 3

(* DecodedRight: every other instruction has the length the decoders find;   *)
(* one byte less or more, and a patch cuts an instruction or a search reads  *)
(* operands as code (Decoder.cpp 557-688, 795-924).                          *)
DecodedRight == Defined => \A m \in ModRMs : ~Unknown(m) => GetOpCodeSize(m) = Manual(m)
=============================================================================
