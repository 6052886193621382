---------------------------- MODULE OpcodeTables ----------------------------
(* The opcode tables of the decoder (support/patch/Decoder.cpp): what        *)
(* follows an opcode. Flags are sets: a ModRM byte, one or two bytes of      *)
(* data, "pre" four bytes or two under a prefix, "word" one byte more.       *)
EXTENDS Integers

PrefixTable == {\h26, \h2E, \h36, \h3E, \h64, \h65, \h66, \h67, \hF0, \hF2, \hF3}

OpcodeFlagsLow == [op \in 0 .. \h7F |->
    CASE op < \h40 /\ op % 8 < 4 -> {"modrm"}
      [] op < \h40 /\ op % 8 = 4 -> {"i8"}
      [] op < \h40 /\ op % 8 = 5 -> {"pre"}
      [] op \in {\h62, \h63}     -> {"modrm"}
      [] op = \h68               -> {"pre"}
      [] op = \h69               -> {"modrm", "pre"}
      [] op = \h6B               -> {"modrm", "i8"}
      [] op = \h6A \/ op >= \h70 -> {"i8"}
      [] OTHER                   -> {}]

OpcodeFlagsHigh == [op \in \h80 .. \hFF |->
    CASE op \in {\h80, \h82, \h83, \hC0, \hC1, \hC6}  -> {"modrm", "i8"}
      [] op \in {\h81, \hC7}                          -> {"modrm", "pre"}
      [] op \in \h84 .. \h8F \cup {\hC4, \hC5, \hF6, \hF7, \hFE, \hFF} \cup \hD0 .. \hD3 -> {"modrm"}
      [] op \in \hA0 .. \hA3 \cup {\hA9} \cup \hB8 .. \hBF \cup {\hE8, \hE9} -> {"pre"}
      [] op \in {\hA8, \hCD, \hD4, \hD5, \hEB} \cup \hB0 .. \hB7 \cup \hE0 .. \hE7 -> {"i8"}
      [] op \in {\h9A, \hEA}                          -> {"pre", "i16"}
      [] op \in {\hC2, \hCA}                          -> {"i16"}
      [] op = \hC8                                    -> {"i8", "i16"}
      [] op \in \hD8 .. \hDF                          -> {"word"}
      [] OTHER                                        -> {}]

(* After 0F.                                                                 *)
OpcodeFlagsExtLow == [op \in 0 .. \h7F |->
    CASE op \in {\h0F} \cup \h70 .. \h73 -> {"modrm", "i8"}
      [] op \in 0 .. 3 \cup {\h0D} \cup \h10 .. \h18 \cup \h20 .. \h24 \cup {\h26} \cup \h28 .. \h2F
              \cup \h40 .. \h6F \cup \h74 .. \h76 \cup \h7C .. \h7F -> {"modrm"}
      [] OTHER -> {}]

OpcodeFlagsExtHigh == [op \in \h80 .. \hFF |->
    CASE op \in \h80 .. \h8F -> {"pre"}
      [] op \in {\hA4, \hAC, \hBA, \hC2} \cup \hC4 .. \hC6 -> {"modrm", "i8"}
      [] op \in \h90 .. \h9F \cup {\hA3, \hA5, \hAB} \cup \hAD .. \hB7 \cup \hBB .. \hC1
              \cup {\hC3, \hC7} \cup \hD0 .. \hFE -> {"modrm"}
      [] OTHER -> {}]

GetOpCodeFlags(op)    == IF op < \h80 THEN OpcodeFlagsLow[op] ELSE OpcodeFlagsHigh[op]
GetOpCodeFlagsExt(op) == IF op < \h80 THEN OpcodeFlagsExtLow[op] ELSE OpcodeFlagsExtHigh[op]

(* The packed table of the 32-bit decoder says the same but of the prefixes, *)
(* which it holds, and of the floating point opcodes.                        *)
GetOpCodeFlags32(escape, op) == CASE escape -> GetOpCodeFlagsExt(op)
                                  [] op \in PrefixTable -> {"prefix"}
                                  [] op \in \hD8 .. \hDF -> {"modrm"}
                                  [] OTHER -> GetOpCodeFlags(op)

-----------------------------------------------------------------------------
(* The opcodes of the processor's manual that are defined in either mode and *)
(* what follows them; the vector prefixes and other maps are left out.       *)

OnlyX86 == {\h06, \h07, \h0E, \h16, \h17, \h1E, \h1F, \h27, \h2F, \h37, \h3F, \h60, \h61, \h62, \h82, \h9A,
            \hC4, \hC5, \hCE, \hD4, \hD5, \hD6, \hEA} \cup \h40 .. \h4F
Undefined0F == {\h04, \h0A, \h0C, \h24, \h25, \h26, \h27, \h36, \h39, \h3B, \h7A, \h7B, \hA6, \hA7, \h38, \h3A}
                 \cup \h3C .. \h3F

ManualModRM == {n \in 0 .. \h3F : n % 8 < 4}
  \cup {\h62, \h63, \h69, \h6B, \hC0, \hC1, \hC4, \hC5, \hC6, \hC7, \hF6, \hF7, \hFE, \hFF}
  \cup \h80 .. \h8F \cup \hD0 .. \hD3 \cup \hD8 .. \hDF
ManualByte == {n \in 0 .. \h3F : n % 8 = 4}
  \cup {\h6A, \h6B, \h80, \h82, \h83, \hA8, \hC0, \hC1, \hC6, \hC8, \hCD, \hD4, \hD5, \hEB}
  \cup \h70 .. \h7F \cup \hB0 .. \hB7 \cup \hE0 .. \hE7
ManualWord == {\h9A, \hC2, \hC8, \hCA, \hEA}
ManualOperand == {n \in 0 .. \h3F : n % 8 = 5}
  \cup {\h68, \h69, \h81, \h9A, \hA9, \hC7, \hE8, \hE9, \hEA} \cup \hB8 .. \hBF

ManualPlain0F == \h05 .. \h09 \cup {\h0B, \h0E, \h77} \cup \h30 .. \h37 \cup \h80 .. \h8F \cup \hA0 .. \hA2
                   \cup \hA8 .. \hAA \cup \hC8 .. \hCF
ManualByte0F  == {\h0F, \hA4, \hAC, \hBA, \hC2, \hC4, \hC5, \hC6} \cup \h70 .. \h73
=============================================================================
