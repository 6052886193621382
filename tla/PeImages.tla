------------------------------ MODULE PeImages ------------------------------
(* LoadPeImage (support/native/Loader.cpp): a module is read from its file   *)
(* into memory of the process, section by section, moved to the base it got  *)
(* (or to the base it is a copy of) by its relocations, and bound to the     *)
(* modules it imports. Addresses count halves of 16 bits, whose values are   *)
(* 0 .. Half-1; a pointer is two of them, four in an image of 64 bits.       *)
EXTENDS Integers, Sequences, SequencesExt

CONSTANTS Half,                 \* values of a half (2^16 in the program)
          FileAlignment, SectionAlignment,
          Images,               \* the images in files (bounds)
          Bases                 \* addresses memory is given at

RoundDown(n, a) == n - (n % a)
RoundUp(n, a) == RoundDown(n + a - 1, a)

(* The digits of a value, the lowest first.                                  *)
Digit(v, i) == (v \div Half ^ i) % Half
Value(mem, at, width) == FoldFunctionOnSet(+, 0, [i \in 0 .. width - 1 |-> mem[at + i] * Half ^ i], 0 .. width - 1)
Width(type) == CASE type = "dir64" -> 4 [] type = "highlow" -> 2 [] OTHER -> 1

-----------------------------------------------------------------------------
(* An image: machine, base, size, sections [va, raw, size], relocation blocks*)
(* [page, entries [type, offset]], the targets that its relocated places mean*)
(* (relative to its base) and the modules it imports. Linked is what it holds*)
(* when its base is b: every pointer that its relocations list is the target *)
(* at that base; what is no pointer is told from the rest by its address.    *)
Fixups(img) == UNION {{[at |-> b.page + e.offset, type |-> e.type] : e \in Range(b.entries)} : b \in Range(img.blocks)}
Real(img) == {f \in Fixups(img) : f.type # "pad"}

Linked(img, b) ==
  [a \in 0 .. img.size - 1 |->
     IF \E f \in Real(img) : a - f.at \in 0 .. Width(f.type) - 1
     THEN LET f == CHOOSE f \in Real(img) : a - f.at \in 0 .. Width(f.type) - 1
          IN Digit(img.targets[f.at] + b, (a - f.at) + IF f.type = "high" THEN 1 ELSE 0)
     ELSE a % Half]

(* The bytes of the file: the section that holds position p, if any does.    *)
File(img, p) ==
  LET holds(s) == p - RoundDown(s.raw, FileAlignment) \in 0 .. s.size - 1
  IN IF \E s \in Range(img.sections) : holds(s)
     THEN LET s == CHOOSE s \in Range(img.sections) : holds(s)
          IN Linked(img, img.base)[s.va + p - RoundDown(s.raw, FileAlignment)]
     ELSE 0

Flags == SUBSET {"ignoreReloc", "ignoreIat", "continue"}

VARIABLES image, flags, old,    \* what is loaded, the flags, the base it is a copy of (0: none)
          step,                 \* "headers", "alloc", "sections", "relocate", "import", "done", "returned"
          base, mem,            \* the memory (0 and empty: none)
          read, bound,          \* sections read, imports bound
          status                \* "pending", "ok", "failed"

vars == <<image, flags, old, step, base, mem, read, bound, status>>
asked == <<image, flags, old>>

Init == /\ image \in Images /\ flags \in Flags /\ old \in Bases \cup {0}
        /\ step = "headers" /\ base = 0 /\ mem = <<>>
        /\ read = 0 /\ bound = <<>> /\ status = "pending"

Fail == step' = "done" /\ status' = "failed"

(* The headers are read, or are no image's, or cannot be read.               *)
ReadHeaders ==
  /\ step = "headers"
  /\ \/ step' = "alloc" /\ UNCHANGED status
     \/ Fail
  /\ UNCHANGED asked /\ UNCHANGED <<base, mem, read, bound>>

Allocate ==
  /\ step = "alloc"
  /\ \/ /\ base' \in Bases
        /\ mem' = [a \in 0 .. image.size - 1 |-> 0]
        /\ step' = "sections" /\ UNCHANGED status
     \/ Fail /\ UNCHANGED <<base, mem>>
  /\ UNCHANGED asked /\ UNCHANGED <<read, bound>>

(* (mutant: a section's bytes are taken from where its data ends in memory) *)
BadCopied(img, m, s) ==
  LET n == RoundUp(s.size, FileAlignment)
      va == RoundDown(s.va, SectionAlignment)
  IN [a \in DOMAIN m |-> IF a - va \in 0 .. n - 1 THEN File(img, a) ELSE m[a]]
Copied(img, m, s) ==
  LET n == RoundUp(s.size, FileAlignment)
      va == RoundDown(s.va, SectionAlignment)
  IN [a \in DOMAIN m |->
        IF a - va \in 0 .. n - 1 THEN File(img, RoundDown(s.raw, FileAlignment) + a - va) ELSE m[a]]

ReadSection ==
  /\ step = "sections"
  /\ \/ /\ read < Len(image.sections)
        /\ read' = read + 1
        /\ mem' = Copied(image, mem, image.sections[read + 1])
        /\ UNCHANGED <<step, status>>
     \/ /\ read < Len(image.sections) /\ Fail /\ UNCHANGED <<mem, read>>
     \/ /\ read = Len(image.sections)
        /\ step' = "relocate" /\ UNCHANGED <<mem, read, status>>
  /\ UNCHANGED asked /\ UNCHANGED <<base, bound>>

(* RelocBlock: one entry adds the offset, or its half, to what it points at. *)
Relocated(m, at, type, offset) ==
  LET width == Width(type)
      add == CASE type = "high" -> Digit(offset, 1)
               [] type = "low"  -> Digit(offset, 0)
               [] type = "pad"  -> 0
               [] OTHER         -> offset
      new == Value(m, at, width) + add
  IN [a \in DOMAIN m |-> IF a - at \in 0 .. width - 1 THEN Digit(new, a - at) ELSE m[a]]

RelocBlock(m, block, offset) ==
  FoldLeft(LAMBDA mm, e : IF e.type = "pad" THEN mm ELSE Relocated(mm, block.page + e.offset, e.type, offset),
           m, block.entries)

(* RelocPeImage: the blocks up to the directory's end, or to one of size 0.  *)
BaseOffset == (IF old = 0 THEN base ELSE old) - image.base
Wrapped(v) == v % Half ^ 4              \* LONG64 and ULONG additions wrap

Relocate ==
  /\ step = "relocate"
  /\ mem' = IF "ignoreReloc" \in flags THEN mem
            ELSE FoldLeft(LAMBDA m, b : RelocBlock(m, b, Wrapped(BaseOffset)), mem, image.blocks)
  /\ IF "ignoreIat" \in flags \/ image.imports = <<>>
     THEN step' = "done" /\ status' = "ok"
     ELSE step' = "import" /\ UNCHANGED status
  /\ UNCHANGED asked /\ UNCHANGED <<base, read, bound>>

(* ProcessStaticImport32 and 64: the next module is loaded and its thunks    *)
(* bound; one that is missing is passed over only in an image of 32 bits.    *)
Import ==
  LET i == Len(bound) + 1
  IN /\ step = "import"
     /\ \/ /\ bound' = Append(bound, TRUE)
           /\ IF i = Len(image.imports) THEN step' = "done" /\ status' = "ok" ELSE UNCHANGED <<step, status>>
        \/ /\ "continue" \in flags /\ image.machine = "I386"
           /\ bound' = Append(bound, FALSE)
           /\ IF i = Len(image.imports) THEN step' = "done" /\ status' = "ok" ELSE UNCHANGED <<step, status>>
        \/ /\ "continue" \notin flags \/ image.machine = "AMD64"
           /\ Fail /\ UNCHANGED bound
     /\ UNCHANGED asked /\ UNCHANGED <<base, mem, read>>

(* LoadPeImage: what was allocated for a load that failed is freed.          *)
LoadPeImage ==
  /\ step = "done" /\ step' = "returned"
  /\ mem' = IF status = "failed" THEN <<>> ELSE mem
  /\ UNCHANGED asked /\ UNCHANGED <<base, read, bound, status>>

Next == ReadHeaders \/ Allocate \/ ReadSection \/ Relocate \/ Import \/ LoadPeImage

Spec == Init /\ [][Next]_vars

-----------------------------------------------------------------------------
(* A module that was loaded is as if it had been linked for the base that was*)
(* wanted, all its sections in place and all its imports bound that it does  *)
(* not do without; one that failed at any step leaves no memory behind.      *)
Wanted == IF "ignoreReloc" \in flags THEN image.base ELSE image.base + BaseOffset

LoadedWhole ==
  step = "returned" =>
    IF status = "failed" THEN mem = <<>>
    ELSE /\ \A s \in Range(image.sections), i \in 0 .. SectionAlignment :
              i < s.size => mem[s.va + i] = Linked(image, Wanted)[s.va + i]
         /\ "ignoreIat" \notin flags =>
              \A i \in DOMAIN image.imports : bound[i] \/ "continue" \in flags
=============================================================================
