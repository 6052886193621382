------------------------------ MODULE PeTables ------------------------------
(* The walks over the tables of a module in memory and the searches that the *)
(* hooks make in them (support/pe/Image.h, Image.cpp): exports, imports and  *)
(* relocations. A name stands for its hash.                                  *)
EXTENDS Integers, Sequences, FiniteSets, SequencesExt

CONSTANTS BitsOf,               \* bits of an element of WalkedMask (32 in the program)
          Exporting, Importing, Relocating   \* the tables that are searched (bounds)

VARIABLES table, query, answer

vars == <<table, query, answer>>

Absent == "none"
Invalid == "invalid"            \* IMAGE_INVALID_VA, a null pointer

(* The walks call back with one entry after another until they are told to   *)
(* stop: Until gives what the callback has seen.                             *)
Until(seq, Stop(_)) ==
  LET step(s, e) == IF s.stop THEN s ELSE [seen |-> Append(s.seen, e), stop |-> Stop(e)]
  IN FoldLeft(step, [seen |-> <<>>, stop |-> FALSE], seq).seen

FirstOf(seq, Test(_)) ==
  IF \E i \in DOMAIN seq : Test(seq[i]) THEN SelectInSeq(seq, Test) ELSE 0

-----------------------------------------------------------------------------
(* Exports: magic of the headers, base of the ordinals, functions (their RVAs, 0 for none), names  *)
(* [name, ordinal] with ordinals counted from 0, the size of the image and   *)
(* the range of the directory, in which a forward's RVA lies.                *)
ValidateDataDirectory(dir, sizeOfImage) ==
  dir.size # 0 /\ dir.va <= sizeOfImage /\ dir.va + dir.size <= sizeOfImage

IsValidImage(dir) == dir.magic \in {"PE32", "PE32+"} /\ ValidateDataDirectory(dir, dir.sizeOfImage)

(* The bit of WalkedMask that an ordinal has: one shifted by -1 is the       *)
(* highest bit, as the processor takes the count modulo the width.           *)
(* (mutant: the words of the mask are told from each other by no index) *)
BadMaskBit(ordinal) ==
  LET shift == ((ordinal + 1) % BitsOf) - 1
  IN <<0, IF shift = -1 THEN BitsOf - 1 ELSE shift>>
MaskBit(ordinal) ==
  LET shift == ((ordinal + 1) % BitsOf) - 1
  IN <<ordinal \div BitsOf, IF shift = -1 THEN BitsOf - 1 ELSE shift>>

Data(dir, ordinal, name) ==
  LET rva == dir.functions[ordinal + 1]
  IN [ordinal |-> ordinal + dir.base, rva |-> rva, name |-> name,
      forward |-> rva \in dir.va .. dir.va + dir.size - 1]

Usable(dir, n) == /\ n.ordinal < Len(dir.functions)
                  /\ dir.functions[n.ordinal + 1] \in 1 .. dir.sizeOfImage - 1

(* WalkExportTableT: the named functions first, then those not walked yet.   *)
WalkExportTable(dir) ==
  LET names == SelectSeq(dir.names, LAMBDA n : Usable(dir, n))
      mask == {MaskBit(names[i].ordinal + dir.base) : i \in DOMAIN names}
      unnamed == SelectSeq([i \in DOMAIN dir.functions |-> i - 1],
                   LAMBDA o : MaskBit(o + dir.base) \notin mask /\ dir.functions[o + 1] # 0)
  IN IF ~IsValidImage(dir) THEN <<>>
     ELSE [i \in DOMAIN names |-> Data(dir, names[i].ordinal, names[i].name)]
          \o [i \in DOMAIN unnamed |-> Data(dir, unnamed[i], Absent)]

(* LookupExportTable: stops at the name, or at the first function without.   *)
LookupExportTable(dir, name) ==
  LET seen == Until(WalkExportTable(dir), LAMBDA d : d.name \in {name, Absent})
  IN IF seen # <<>> /\ Last(seen).name = name THEN Last(seen).rva ELSE Invalid

(* EATLookupRoutineByHashPNoFix and its like: the names alone, unchecked.    *)
EATLookupRoutineByHash(dir, name) ==
  LET i == FirstOf(dir.names, LAMBDA n : n.name = name)
  IN IF ~IsValidImage(dir) \/ i = 0 THEN Invalid
     ELSE dir.functions[dir.names[i].ordinal + 1]

-----------------------------------------------------------------------------
(* Imports: descriptors [dll, thunks], a thunk being [name, entry]: the     *)
(* name that is imported and the address it is bound to, Absent if it is not.  *)
(* A descriptor whose first entry is not bound is passed over; of one whose  *)
(* module is not among dlls the callback wants no more than the first thunk. *)
Place(d, i) == <<d, i>>

WalkImportTable(descriptors, dlls) ==
  LET walked == SelectSeq([d \in DOMAIN descriptors |-> d],
                  LAMBDA d : descriptors[d].thunks # <<>> /\ descriptors[d].thunks[1].entry # Absent)
      called(d) == LET ds == descriptors[d]
                       all == [i \in DOMAIN ds.thunks |->
                                 [dll |-> ds.dll, name |-> ds.thunks[i].name, at |-> Place(d, i), descriptor |-> d]]
                   IN IF ds.dll \in dlls THEN all ELSE <<all[1]>>
  IN FoldLeft(LAMBDA s, d : s \o called(d), <<>>, walked)

(* LookupImportTable: in the first descriptor of the module that is named,   *)
(* or in all of them when none is.                                           *)
LookupImportTable(descriptors, dll, name) ==
  LET target == FirstOf(descriptors, LAMBDA d : d.dll = dll /\ d.thunks # <<>> /\ d.thunks[1].entry # Absent)
      behind(e) == dll # Absent /\ target # 0 /\ e.descriptor > target
      mine(e) == dll = Absent \/ e.descriptor = target
      found(e) == mine(e) /\ e.name = name
      dlls == {descriptors[d].dll : d \in DOMAIN descriptors}
      seen == Until(WalkImportTable(descriptors, IF dll = Absent THEN dlls ELSE {dll}),
                    LAMBDA e : behind(e) \/ found(e))
  IN IF seen # <<>> /\ found(Last(seen)) THEN Last(seen).at ELSE Invalid

(* IATLookupRoutineRVAByHashNoFix: by name in every descriptor.              *)
IATLookupRoutineByHash(descriptors, name) ==
  LET d == FirstOf(descriptors, LAMBDA x : \E i \in DOMAIN x.thunks : x.thunks[i].name = name)
  IN IF d = 0 THEN Invalid ELSE Place(d, FirstOf(descriptors[d].thunks, LAMBDA t : t.name = name))

(* IATLookupRoutineByEntryNoFix: by the address, up to an unbound entry.     *)
BoundPart(thunks) ==
  LET i == FirstOf(thunks, LAMBDA t : t.entry = Absent) IN IF i = 0 THEN thunks ELSE SubSeq(thunks, 1, i - 1)

IATLookupRoutineByEntry(descriptors, entry) ==
  LET in(x) == FirstOf(BoundPart(x.thunks), LAMBDA t : t.entry = entry)
      d == FirstOf(descriptors, LAMBDA x : in(x) # 0)
  IN IF d = 0 THEN Invalid ELSE Place(d, in(descriptors[d]))

-----------------------------------------------------------------------------
(* Relocations: ReadRelocFromDisk takes the first section that the directory *)
(* touches, and reads from where it would lie in that section's data;        *)
(* ProcessOneRelocate replaces an address wherever a relocation lists it.    *)
RelocSection(sections, begin, end) ==
  FirstOf(sections, LAMBDA s : s.va <= end /\ s.va + s.size >= begin)

RelocPosition(sections, begin, size) ==
  LET i == RelocSection(sections, begin, begin + size)
  IN IF size = 0 \/ begin = 0 \/ i = 0 THEN Invalid ELSE sections[i].raw + begin - sections[i].va

(* The table is a sequence of blocks [at, size, entries]: the RVA of a page  *)
(* and its entries [type, offset]; sizes are counted in entries, and the     *)
(* head of a block has the size of BlockHead of them.                        *)
BlockHead == 4
Page == 4

Places(b) == [i \in DOMAIN b.entries |-> [type |-> b.entries[i].type, at |-> b.at + b.entries[i].offset]]

(* WalkRelocTableT: every entry of block after block, padding included, up   *)
(* to one that is smaller than its head, as large as the image or not at the *)
(* start of a page.                                                          *)
IllegalBlock(b, sizeOfImage) == b.size < BlockHead \/ b.size >= sizeOfImage \/ b.at % Page # 0

WalkRelocTable(dir) ==
  LET bad == FirstOf(dir.blocks, LAMBDA b : IllegalBlock(b, dir.sizeOfImage))
      legal == IF bad = 0 THEN dir.blocks ELSE SubSeq(dir.blocks, 1, bad - 1)
  IN IF ~ValidateDataDirectory(dir, dir.sizeOfImage) THEN <<>>
     ELSE FoldLeft(LAMBDA s, b : s \o Places(b), <<>>, legal)

(* ProcessOneRelocate checks nothing, and passes over padding.               *)
ProcessOneRelocate(places, blocks, address, new, CanRelocate) ==
  LET listed(a, b) == \E i \in DOMAIN b.entries :
                        /\ ~(b.entries[i].type = "absolute" /\ b.entries[i].offset = 0)
                        /\ b.entries[i].type \in {"absolute", "high", "low", "highlow"}
                        /\ Places(b)[i].at = a
  IN [a \in DOMAIN places |->
        IF places[a] = address /\ a \in CanRelocate /\ \E i \in DOMAIN blocks : listed(a, blocks[i])
        THEN new ELSE places[a]]

-----------------------------------------------------------------------------
(* One search in one table.                                                  *)
Queries == {"n1", "n2", "n3"}

Init == /\ \/ table \in Exporting /\ query \in [kind : {"export"}, name : Queries]
           \/ table \in Importing /\ query \in [kind : {"import"}, name : Queries, dll : {"d1", "d2", Absent}]
           \/ table \in Relocating /\ query = [kind |-> "reloc"]
        /\ answer = <<>>

Ask ==
  /\ answer = <<>>
  /\ answer' = CASE query.kind = "export" ->
                      [walk |-> WalkExportTable(table),
                       lookup |-> LookupExportTable(table, query.name),
                       hash |-> EATLookupRoutineByHash(table, query.name)]
                 [] query.kind = "import" ->
                      [lookup |-> LookupImportTable(table, query.dll, query.name),
                       hash |-> IATLookupRoutineByHash(table, query.name),
                       entry |-> IATLookupRoutineByEntry(table, query.name)]
                 [] OTHER ->
                      [position |-> RelocPosition(table.sections, table.va, table.size),
                       walk |-> WalkRelocTable(table),
                       places |-> ProcessOneRelocate(table.places, table.blocks, "old", "new", table.may)]
  /\ UNCHANGED <<table, query>>

Next == Ask

Spec == Init /\ [][Next]_vars

-----------------------------------------------------------------------------
(* Every export is walked: once under each of its names, once without a name *)
(* if it has none, whatever the ordinals are and however many words the mask *)
(* has; a name is found where the table has it, by the walk and by the       *)
(* search over the names alike.                                              *)
ExportsFound ==
  LET exported == {o \in 1 .. Len(table.functions) : table.functions[o] # 0}
      named == {o \in exported : \E i \in DOMAIN table.names : table.names[i].ordinal = o - 1}
      times(o, n) == Cardinality({i \in DOMAIN answer.walk :
                       answer.walk[i].ordinal = o - 1 + table.base /\ answer.walk[i].name = n})
      has(o) == {i \in DOMAIN table.names : table.names[i].name = query.name /\ table.names[i].ordinal = o - 1}
      where == {table.functions[table.names[i].ordinal + 1] :
                  i \in {j \in DOMAIN table.names : table.names[j].name = query.name}}
  IN IsValidImage(table) =>
     /\ \A o \in exported : /\ times(o, Absent) = (IF o \in named THEN 0 ELSE 1)
                            /\ times(o, query.name) = Cardinality(has(o))
     /\ answer.lookup = answer.hash
     /\ IF where = {} THEN answer.lookup = Invalid ELSE answer.lookup \in where

(* An import is found at a place that is imported under its name, from the   *)
(* module that was named; none is missed unless its module was not bound.    *)
ImportsFound ==
  LET places(dlls) == {Place(d, i) : d \in {x \in DOMAIN table : table[x].dll \in dlls}, i \in 1 .. 3}
      is(p) == p[2] \in DOMAIN table[p[1]].thunks /\ table[p[1]].thunks[p[2]].name = query.name
      bound(p) == table[p[1]].thunks[1].entry # Absent
      all == {p \in places({"d1", "d2"}) : is(p)}
      mine == {p \in (IF query.dll = Absent THEN all ELSE places({query.dll})) : is(p) /\ bound(p)}
  IN /\ IF mine = {} THEN answer.lookup = Invalid ELSE answer.lookup \in mine
     /\ IF all = {} THEN answer.hash = Invalid ELSE answer.hash \in all
     /\ answer.entry # Invalid => table[answer.entry[1]].thunks[answer.entry[2]].entry = query.name

(* The relocations are read from where the directory lies in the file; the   *)
(* walk over a table that the linker made sees each of its entries in turn,  *)
(* and an address is replaced in the places that list it and in no other.    *)
RelocationsFound ==
  LET end == table.va + table.size
      holding == {i \in DOMAIN table.sections : /\ table.sections[i].va <= table.va
                                                /\ end <= table.sections[i].va + table.sections[i].size}
      listing(a) == {e \in (DOMAIN table.blocks) \X (1 .. 3) :
                       /\ e[2] \in DOMAIN table.blocks[e[1]].entries
                       /\ table.blocks[e[1]].at + table.blocks[e[1]].entries[e[2]].offset = a
                       /\ table.blocks[e[1]].entries[e[2]].type = "highlow"}
      seen(a) == {i \in DOMAIN answer.walk : answer.walk[i] = [type |-> "highlow", at |-> a]}
  IN /\ \A i \in holding : answer.position = table.sections[i].raw + table.va - table.sections[i].va
     /\ (\A i \in DOMAIN table.blocks : ~IllegalBlock(table.blocks[i], table.sizeOfImage)) /\ end <= table.sizeOfImage
          => \A a \in DOMAIN table.places : Cardinality(seen(a)) = Cardinality(listing(a))
     /\ \A a \in DOMAIN table.places :
          answer.places[a] = IF table.places[a] = "old" /\ a \in table.may /\ listing(a) # {}
                             THEN "new" ELSE table.places[a]

TablesSearched ==
  answer # <<>> => CASE query.kind = "export" -> ExportsFound
                     [] query.kind = "import" -> ImportsFound
                     [] OTHER -> RelocationsFound
=============================================================================
