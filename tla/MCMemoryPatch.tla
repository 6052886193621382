--------------------------- MODULE MCMemoryPatch ----------------------------
(* Code and images: a small instance of MemoryPatch with every failure, and  *)
(* of the parts around it, which share no state with it: the decoder, the    *)
(* code it generates, the instructions it moves, the searches for the        *)
(* routines it patches, the loader of images, the searches in their tables   *)
(* and modules loaded from memory. A behaviour is one of one part, chosen at *)
(* the start.                                                                *)
(* The history variable tells whether ProtectMemory has failed for a         *)
(* published trampoline: from then on a stub variable names a freed block.   *)
EXTENDS MemoryPatch, OpcodeTables, TLC

CONSTANTS f1, f2, b1, b2, b3, t1, t2, \* of MemoryPatch
          Entry, Short, Long,         \* bounds on code
          Half, FileAlignment, SectionAlignment, \* of PeImages
          BitsOf,                     \* of PeTables
          MemPaths, Files, Handles, NoHandle, MaxLoads \* of MemoryDll

(* The buffers are loaded under names that no file has, and no handle is the  *)
(* null one (LoadDllFromMemory, NtOpenFile).                                  *)
ASSUME MemoryAssumption ==
  /\ MemPaths \cap Files = {} /\ "free" \notin Files
  /\ NoHandle \notin Handles

VARIABLES dangling, active,
          dArch, dPrefixes, dRex, dEscape, dOp,
          gArch, gHook, gNaked, gExecute, gNear, gChanged, gCode, gRegs, gFlags, gSp, gMem, gTrace,
          pArch, pHookSize, pFunction, pPhase, pAt, pFirst, pSize, pCopied,
          sSearch, sImage, sAnswer,
          lImage, lFlags, lOld, lStep, lBase, lMem, lRead, lBound, lStatus,
          wTable, wQuery, wAnswer,
          mFrames, mLoads, mObject, mViews, mBegun

D == INSTANCE Decoder WITH arch <- dArch, prefixes <- dPrefixes, rex <- dRex, escape <- dEscape, op <- dOp,
       PrefixSets <- {<<>>, <<\h66>>, <<\h67>>, <<\hF2>>, <<\h66, \hF2>>, <<\hF2, \h66>>}
G == INSTANCE HookCode WITH arch <- gArch, hook <- gHook, naked <- gNaked, execute <- gExecute, near <- gNear,
       changed <- gChanged, code <- gCode, regs <- gRegs, flags <- gFlags, sp <- gSp, mem <- gMem, trace <- gTrace
P == INSTANCE PatchCode WITH Free <- Entry, arch <- pArch, hookSize <- pHookSize, function <- pFunction,
       phase <- pPhase, at <- pAt, first <- pFirst, size <- pSize, copied <- pCopied
S == INSTANCE CodeSearch WITH search <- sSearch, image <- sImage, answer <- sAnswer

(* Images of three sections, of which the last is not in the file, with      *)
(* relocations of every type over two pages, and up to two imports.          *)
Relocations32 ==
  { << [page |-> 4, entries |-> << [type |-> "highlow", offset |-> 0], [type |-> "highlow", offset |-> 2] >>],
       [page |-> 8, entries |-> << [type |-> "highlow", offset |-> 1], [type |-> "pad", offset |-> 0] >>] >>,
    << [page |-> 4, entries |-> << [type |-> "high", offset |-> 1], [type |-> "low", offset |-> 0] >>] >>,
    <<>> }
Relocations64 ==
  { << [page |-> 8, entries |-> << [type |-> "dir64", offset |-> 0] >>],
       [page |-> 4, entries |-> << [type |-> "highlow", offset |-> 1] >>] >> }
ImagesOf(machine, sections, relocations) ==
  { [machine |-> machine, base |-> 8, size |-> 16, sections |-> sections, blocks |-> r,
     targets |-> [place \in 0 .. 15 |-> (place * 5) % 16], imports |-> i] :
    r \in relocations, i \in { <<>>, <<"x">>, <<"x", "y">> } }
PeFiles ==
  ImagesOf("I386", << [va |-> 4, raw |-> 2, size |-> 4], [va |-> 8, raw |-> 6, size |-> 3],
                      [va |-> 12, raw |-> 0, size |-> 0] >>, Relocations32)
  \cup ImagesOf("AMD64", << [va |-> 4, raw |-> 5, size |-> 3], [va |-> 8, raw |-> 8, size |-> 4] >>,
                Relocations64)
L == INSTANCE PeImages WITH Images <- PeFiles, Bases <- {4, 8, 28}, image <- lImage, flags <- lFlags,
       old <- lOld, step <- lStep, base <- lBase, mem <- lMem, read <- lRead, bound <- lBound,
       status <- lStatus

(* Export tables with up to five functions, with gaps and forwarders, and    *)
(* names in any order; two import descriptors, the first perhaps bound; three*)
(* sections and relocations of which the image may have none in a section.   *)
ExportNames == UNION { [1 .. i -> [name : {"n1", "n2"}, ordinal : 0 .. 3]] : i \in 1 .. 2 }
Named(names, functions) ==
  /\ \A i, j \in DOMAIN names : i # j => names[i].name # names[j].name
  /\ \A i \in DOMAIN names : /\ names[i].ordinal < Len(functions)
                             /\ functions[names[i].ordinal + 1] # 0
ExportTables ==
  { [magic |-> "PE32", base |-> first, functions |-> fs, names |-> ns, sizeOfImage |-> 32, va |-> 20, size |-> 10] :
    first \in {0, 1, 3}, fs \in { <<5>>, <<5, 0, 6>>, <<5, 6, 7, 25>>, <<5, 6, 7, 8, 9>> }, ns \in ExportNames }
ThunkLists == UNION { [1 .. i -> [name : {"n1", "n2"}, entry : {"n1", "n3"}]] : i \in 1 .. 2 }
ImportTables ==
  { << [dll |-> "d1", thunks |-> i], [dll |-> "d2", thunks |-> j] >> :
    i \in ThunkLists \cup { << [name |-> "n1", entry |-> "none"] >> }, j \in ThunkLists }
Block(page, entries, size) == [at |-> page, entries |-> entries, size |-> size]
EntriesAt(s) == [i \in DOMAIN s |-> IF s[i] = 3 THEN [type |-> "absolute", offset |-> 0]
                                            ELSE [type |-> "highlow", offset |-> s[i]]]
BlockLists == { << Block(4, EntriesAt(<<0>>), 5), Block(8, EntriesAt(<<1, 3>>), 6) >>,
                << Block(8, EntriesAt(<<1, 0>>), 6), Block(4, EntriesAt(<<1, 1>>), 6) >>,
                << Block(4, EntriesAt(<<0>>), 5), Block(9, EntriesAt(<<0>>), 5) >>,
                << Block(4, EntriesAt(<<0, 1, 2>>), 7), Block(8, EntriesAt(<<>>), 3), Block(8, EntriesAt(<<0>>), 5) >>,
                << >> }
RelocationTables ==
  { [sections |-> s, va |-> start, size |-> n, places |-> p, blocks |-> bs, may |-> m, sizeOfImage |-> 16] :
    s \in { << [va |-> 4, raw |-> 2, size |-> 4], [va |-> 8, raw |-> 6, size |-> 3], [va |-> 12, raw |-> 9, size |-> 4] >>,
            << [va |-> 4, raw |-> 2, size |-> 2], [va |-> 8, raw |-> 4, size |-> 4] >> },
    start \in {4, 8, 12, 14}, n \in {1, 3}, p \in [{4, 5, 9} -> {"old", "other"}],
    bs \in BlockLists, m \in { {4, 5, 9}, {4} } }
W == INSTANCE PeTables WITH Exporting <- { e \in ExportTables : Named(e.names, e.functions) },
       Importing <- ImportTables, Relocating <- RelocationTables,
       table <- wTable, query <- wQuery, answer <- wAnswer

M == INSTANCE MemoryDll WITH frames <- mFrames, loads <- mLoads, object <- mObject,
       views <- mViews, begun <- mBegun

PatchVars   == <<vars, dangling>>
DecoderVars == <<dArch, dPrefixes, dRex, dEscape, dOp>>
CodeVars    == <<gArch, gHook, gNaked, gExecute, gNear, gChanged, gCode, gRegs, gFlags, gSp, gMem, gTrace>>
MoveVars    == <<pArch, pHookSize, pFunction, pPhase, pAt, pFirst, pSize, pCopied>>
SearchVars  == <<sSearch, sImage, sAnswer>>
LoadVars    == <<lImage, lFlags, lOld, lStep, lBase, lMem, lRead, lBound, lStatus>>
TableVars   == <<wTable, wQuery, wAnswer>>
MemoryVars  == <<mFrames, mLoads, mObject, mViews, mBegun>>

MCInit ==
    /\ active \in {"patches", "decoder", "code", "move", "search", "load", "tables", "memory"}
    /\ Init /\ dangling = FALSE
    /\ IF active = "decoder" THEN D!Init
       ELSE dArch = 0 /\ dPrefixes = 0 /\ dRex = 0 /\ dEscape = 0 /\ dOp = 0
    /\ IF active = "code" THEN G!Init
       ELSE /\ gArch = 0 /\ gHook = 0 /\ gNaked = 0 /\ gExecute = 0 /\ gNear = 0 /\ gChanged = 0
            /\ gCode = 0 /\ gRegs = 0 /\ gFlags = 0 /\ gSp = 0 /\ gMem = 0 /\ gTrace = 0
    /\ IF active = "move" THEN P!Init
       ELSE /\ pArch = 0 /\ pHookSize = 0 /\ pFunction = 0 /\ pPhase = 0
            /\ pAt = 0 /\ pFirst = 0 /\ pSize = 0 /\ pCopied = 0
    /\ IF active = "search" THEN S!Init ELSE sSearch = 0 /\ sImage = 0 /\ sAnswer = 0
    /\ IF active = "load" THEN L!Init
       ELSE /\ lImage = 0 /\ lFlags = 0 /\ lOld = 0 /\ lStep = 0 /\ lBase = 0 /\ lMem = 0
            /\ lRead = 0 /\ lBound = 0 /\ lStatus = 0
    /\ IF active = "tables" THEN W!Init ELSE wTable = 0 /\ wQuery = 0 /\ wAnswer = 0
    /\ IF active = "memory" THEN M!Init
       ELSE mFrames = 0 /\ mLoads = 0 /\ mObject = 0 /\ mViews = 0 /\ mBegun = 0

MCNext ==
    /\ UNCHANGED active
    /\ \/ /\ active = "patches" /\ Next /\ dangling' = (dangling \/ ProtectMemoryFails)
          /\ UNCHANGED <<DecoderVars, CodeVars, MoveVars, SearchVars, LoadVars, TableVars, MemoryVars>>
       \/ /\ active = "decoder" /\ D!Next
          /\ UNCHANGED <<PatchVars, CodeVars, MoveVars, SearchVars, LoadVars, TableVars, MemoryVars>>
       \/ /\ active = "code" /\ G!Next
          /\ UNCHANGED <<PatchVars, DecoderVars, MoveVars, SearchVars, LoadVars, TableVars, MemoryVars>>
       \/ /\ active = "move" /\ P!Next
          /\ UNCHANGED <<PatchVars, DecoderVars, CodeVars, SearchVars, LoadVars, TableVars, MemoryVars>>
       \/ /\ active = "search" /\ S!Next
          /\ UNCHANGED <<PatchVars, DecoderVars, CodeVars, MoveVars, LoadVars, TableVars, MemoryVars>>
       \/ /\ active = "load" /\ L!Next
          /\ UNCHANGED <<PatchVars, DecoderVars, CodeVars, MoveVars, SearchVars, TableVars, MemoryVars>>
       \/ /\ active = "tables" /\ W!Next
          /\ UNCHANGED <<PatchVars, DecoderVars, CodeVars, MoveVars, SearchVars, LoadVars, MemoryVars>>
       \/ /\ active = "memory" /\ M!Next
          /\ UNCHANGED <<PatchVars, DecoderVars, CodeVars, MoveVars, SearchVars, LoadVars, TableVars>>

MCSpec == MCInit /\ [][MCNext]_<<active, PatchVars, DecoderVars, CodeVars, MoveVars, SearchVars,
                                 LoadVars, TableVars, MemoryVars>>

-----------------------------------------------------------------------------
(* Until ProtectMemory fails for a trampoline that is published already, no   *)
(* thread inside a hook and no RestoreMemory follows a null pointer or one to *)
(* freed memory, and no early return leaks a relay or leaves a freed block    *)
(* listed (MemoryPatch.cpp 231-417, 1315-1323).                               *)
SoundYet == dangling \/ (NoFault /\ NothingLeaked)

(* DecodedRight, of Decoder: an instruction is found as long as it is        *)
(* (LdeGetOpCodeSize32, LdeGetOpCodeSize64).                                 *)
DecodedRight == active = "decoder" => D!DecodedRight

(* HookTransparent, of HookCode: a caller arrives at the hook with registers *)
(* and stack as they were, and leaves a naked trampoline with what the       *)
(* callback made of them (GenerateHookCode, GenerateNakedTrampoline).        *)
HookTransparent == active = "code" => G!HookReaches /\ G!NakedTransparent

(* EntryMoves, of PatchCode: the instructions under the jump are whole and   *)
(* lead where they led (GetHookAddressAndSize, CopyTrampolineStub).          *)
EntryMoves == active = "move" => P!EntryMoves

(* SoughtIsFound, of CodeSearch: the searches for unexported routines find   *)
(* what their pattern describes, or nothing (FindNtUser..., FindDefaultEdit...).*)
SoughtIsFound == active = "search" => S!SoughtIsFound

(* LoadedWhole, of PeImages, and TablesSearched, of PeTables: an image is    *)
(* read, relocated and bound as a whole or not loaded, and what its tables   *)
(* list is found (LoadPeImage, LookupExportTable, LookupImportTable).        *)
ImagesRight == (active = "load" => L!LoadedWhole) /\ (active = "tables" => W!TablesSearched)

(* ViewsAreTheirs, of MemoryDll: a module is mapped from its own buffer or   *)
(* file, however loads nest (LoadDllFromMemory).                             *)
ViewsAreTheirs == active = "memory" => M!ViewsAreTheirs

Symmetry == Permutations(Functions) \cup Permutations(Blocks) \cup Permutations(Threads)
=============================================================================
