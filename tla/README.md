# A verification of LocaleEmulatorPlus-Core

LocaleEmulatorPlus runs a Windows program as if the system locale were another
one. A launcher creates the program suspended and injects the core DLL; the
core patches the system calls and the functions of ntdll, KernelBase/kernel32,
gdi32 and user32 in its process, converts what passes through them, and injects
itself into every child process. This directory holds TLA+ modules that model
the parts of it that are concurrent, ordered, easy to leave half done or easy to
get wrong at a boundary, the TLC configurations that check them on small
instances, and proofs for instances of any size.

Line numbers refer to the sources beside this directory; paths without a
directory are under `src/LocaleEmulatorPlus/`.

- [The system](#the-system): components, state, operations, interactions
- [What is hard about it](#what-is-hard-about-it)
- [The modules](#the-modules): how state and actions correspond to the code
- [The runs](#the-runs): what each checks, its bounds, and why they are enough
- [Fairness](#fairness)
- [What is proved](#what-is-proved)
- [What the checks found](#what-the-checks-found)
- [What is not modelled](#what-is-not-modelled)
- [What could come next](#what-could-come-next)

## The system

| component | state it keeps | operations | correct when |
|---|---|---|---|
| Hook port (`HookPort.cpp`) | hash table of known system calls; for each call a callback array, a bitmap and an enable flag; `g_Patches` with the saved original of each patched entry; a reference count | `InstallHookPort`, `HpAddSystemCall`, `HpAddSystemCallFilter`, `HpRemoveSystemCallFilter`, `UnInstallHookPort`; the wrapper of each call (`DispatchTypedFilter`) | a thread in a wrapper always finds callbacks and the original; a failed registration leaves no trace; a call returns |
| Launch, injection, broker (`LoaderDll/LoaderDll.cpp`, `Hooks/NtdllHook.cpp`, `LoaderDll/BrokerProtocol.h`) | the child: run state, first bytes and protection of `LdrLoadDll`, remote image and payload; the creating thread's handles, mapping, frame; the broker's record | `LepCreateProcess2`, the `NtCreateUserProcess` filter, same- and cross-architecture injection, `LepBrokerInject`, `LoadFirstDll` | a process is localised from its first `LdrLoadDll` or not at all; success is never reported for an unlocalised child; nothing leaks; creations return |
| Bootstrap payload and core start (`LocaleEmulatorPlus.cpp`, `LoaderDll/LoaderDll.cpp`, `Hooks/NtdllHook.cpp`) | the payload's block, the loader's frame, `g_GlobalData` with its payload, mapping and filters | `LepCreateProcess`, `DllMain`, `Initialize`, `HookNtdllRoutines`, `UnInitialize` | a payload has one owner; a failure leaves nothing; the host's locale is read before it is filtered |
| Environment resolution (`LoaderDll/Environment.cpp`, `LocaleEmulatorPlus.h`) | none | versions 2 to 4 of the public environment, time zones, layout and validation of the payload | what a loader accepts is what the core reads |
| Registry redirection (`LocaleEmulatorPlus.cpp`, `Hooks/NtdllHook.cpp`) | `RegistryRedirectionEntry`, the language lists of the host | `InitRegistryRedirection`, the filters of `NtQueryValueKey`, `NtEnumerateKey`, `NtEnumerateValueKey`, `NtQueryKey`, `NtQueryLicenseValue` | the table has the entries that could be filled; an answer is as long as it says |
| Virtual MUI keys (`Hooks/NtdllHook.cpp`) | 32 slots of handles | `NtOpenKey`, `NtClose` and the three queries | a handle stands for the key it was opened on |
| USER32 environment (`Hooks/User32Environment.cpp`) | the slot that leads to SERVERINFO, `Source`, `Shadow`, `LockReady`, `Stopped`, a critical section | `Initialize`, `Synchronize`, `Restore` | USER32's readers see the emulated DBCS bit and never freed memory |
| Window procedures (`Hooks/User32Hook.cpp`) | USER32's procedure of a window; the property "Asuna" with the program's ANSI procedure | the hooked A interface (`LepSetWindowLongA...`), `WindowProcW`, creation | the A interface is one register; messages reach the ANSI procedure once, through the wrapper |
| Window creation (`Hooks/User32Hook.cpp`) | the thread's CBT hooks and active frames; the record passed as `lpCreateParams` | `LepNtUserCreateWindowExWorker`, `CBTProc`, `CBTProcU` | each window is wrapped before its first message and gets its own parameter; hooks and frames are gone afterwards |
| Characters (`Hooks/User32Hook.cpp`) | the active frame with the pending trail byte | `CallAnsiCharacterProc`, `LepPeekMessageA`, `LepDefWindowProcA`, send and post | each byte arrives once, in order, at the control that got its lead byte |
| Edit positions (`Hooks/User32Hook.cpp`) | the captured text of one message | `UserfnEDIT_...`, `KernelfnEDIT_...` | positions are told and taken in the caller's count |
| Messages with text (`Hooks/User32Hook.cpp`, `Hooks/MessageTable.h`, `Utility/Utility.cpp`) | none of their own | the `Userfn...` and `Kernelfn...` thunks, reached through the message table | a text that fits arrives whole, in the coding its receiver is told |
| Clipboard (`Hooks/User32Hook.cpp`) | the system's formats | `LepSetClipboardData`, `LepGetClipboardData` | what a program reads and leaves there is what was copied |
| Fonts (`Hooks/Gdi32Hook.cpp`) | one made font per stock font under a lock; `TextMetricCache` | `LepGetStockObject`, `LepDeleteObject`, the device context hooks, the enumeration callbacks | one living font per stock object and context; a later enumeration reports what the first did |
| Active frames (`support/runtime/ActiveFrame.h`) | a chain per thread | `Push`, `Pop`, `Find` | the innermost frame of a kind is found |
| Inline patches (`support/patch/MemoryPatch.cpp`) | entries of functions, stub variables, heap blocks with trampolines, relays, `TrampolineList`; the generated code | `PatchMemory`, `RestoreMemory`, `GenerateHookCode`, `GenerateNakedTrampoline`, `GetHookAddressAndSize`, `CopyTrampolineStub` | a function that jumps to its hook has a trampoline; nothing freed is used; generated and moved code does what it stands for |
| Decoder (`support/patch/Decoder.cpp`) | tables of opcodes | `LdeGetOpCodeSize32`, `LdeGetOpCodeSize64` | an instruction is found as long as it is |
| Searches for routines (`Hooks/*Hook.cpp`, `Utility/Utility.cpp`) | none | `FindNtUser...`, `FindDefaultEdit...`, and the others | they find what their pattern describes, or nothing |
| Core lifecycle (`LocaleEmulatorPlus.cpp`, `Hooks/*Hook.cpp`) | notification cookie, entry points of DLLs, the hooks of each DLL | `Initialize`, `UnInitialize`, `DllNotification`, `DelayInitDllEntry`, `Hook...Routines`, `UnHook...Routines` | a DLL is hooked after its DllMain, once per mapping; nothing leads into a core that is gone |
| PE images (`support/native/Loader.cpp`, `support/pe/Image.h`) | an image in memory | `LoadPeImage`; walks and lookups over exports, imports, relocations | an image is read, relocated and bound as a whole or not loaded; what a table lists is found |
| Modules from memory (`support/pe/Image.cpp`) | the frame of a load with the slot of its handle | `LoadDllFromMemory` and the system calls it intercepts | a view shows the buffer or file it was opened for |
| Wild cards (`support/native/Path.cpp`) | two arrays of states | `IsNameInExpression` | a name matches if the expression describes it |

Interactions. A loader's `LepCreateProcess`, or the creator of a child, hands the
core its payload; `Initialize` (core start) takes it, fills the redirection table,
registers the notification, installs the hook port, hooks ntdll, then the kernel
DLLs; notifications hook gdi32 and user32 later, by requests to the inline patch
engine (which asks the decoder how long instructions are, and takes some places
from the searches), and register filters with the hook port, to which gui calls
are added first. The registry filters are filters of the hook port, and so is the
one on `NtCreateUserProcess` that injects the core into children; the child's
`LdrLoadDll` then runs `Initialize` again. Hooks of user32 functions call
`Synchronize` before the original. Window creation installs the wrapper of window
procedures; the wrapper splits characters and converts messages through the table.
They find their context through active frames, as do loads from memory and the
launch of a broker, which must not inject the broker itself.

Who runs concurrently: registration, hooking and unhooking happen under the
loader lock, so they never overlap one another, but threads of the program
execute the patched code at any moment. The processes of an injection run
against each other and can be killed. The USER32 environment, the slots of virtual
keys and the stock fonts are used by all threads. Windows belong to one thread, on
which creations and deliveries nest; other threads can still exchange window
procedures. The rest is sequential.

## What is hard about it

`PROJECT.json` lists the hazards line by line. They are of these kinds:

- *stores seen one by one*: a callback, a flag, a bit and a jump are published
  without a lock to threads that execute the wrapper (`HookPort.cpp:1616`); a
  stub and a jump likewise (`MemoryPatch.cpp:396`); the wrapper of a window and
  the procedure it calls (`User32Hook.cpp:381`); slots that are searched while
  handles are opened and closed (`NtdllHook.cpp:1605`);
- *memory taken away under a reader*: tables, callbacks, trampolines and copies
  of SERVERINFO are freed while another thread may hold a pointer into them;
- *failure half way*: eleven steps of an injection, each step of `Initialize`, each
  entry of the redirection table, each allocation of a patch, each batch of hooks,
  the write to the SERVERINFO slot;
- *death of a process* in the middle of an injection it performs, waits for, or
  is the object of;
- *nesting*: creations inside creations, characters inside characters, DllMains
  that load DLLs, modules loaded from memory that load others;
- *sequences*: modules mapped again at the same address, hooks taken back in
  another grouping than they were made in, text copied in one format and read in
  another;
- *counts in two units*: characters and bytes of edit texts, messages and buffers,
  bytes of instructions, alignments of sections;
- *limits*: the slots of a call, the array of patches, the slots of virtual keys,
  the array of states of an expression;
- *liveness*: a wrapper walking a bitmap that is being changed, and a creator
  that waits for a broker without a time limit.

## The modules

| module | models | written as |
|---|---|---|
| `HookPort` | `HookPort.cpp`, x64 build | one loader actor, one action per store; `Dispatch(t)` for threads |
| `Injection` | launch, injection, broker, bootstrap | one action per system call that can fail or be seen |
| `ProcessLife` | what injection promises of each process | abstract specification, refined by `Injection` |
| `Environment` | versions, time zones, layout and validation of payloads | operators of `Startup` |
| `Startup` | the core's start and end in one process | one action per step that can fail |
| `RegistryRedirection` | the redirection table and the answers made from it | initialisation step by step, then queries |
| `RegistryKeys` | virtual MUI keys | threads that read and write one slot at a time |
| `RegistryView` | what the virtual keys promise | abstract specification, refined by `RegistryKeys` |
| `User32Environment` | the private SERVERINFO copy | one action per store or group no other thread can tell apart |
| `WindowProcs` | one window and its procedures | worker calls split where another thread or message can come between |
| `AnsiWindow` | what the hooked A interface promises | abstract specification, refined by `WindowProcs` |
| `ActiveFrames` | the chain of frames | operators |
| `WindowCreation` | nested window creations of one thread | EXTENDS `ActiveFrames` |
| `CharacterDelivery` | nested character deliveries of one thread | EXTENDS `ActiveFrames` |
| `EditPositions` | messages with positions in an edit text | one action per message the thunk sends on |
| `Messages` | the rows of the table with strings or characters, and their thunks | one action per class of thunk and direction |
| `Clipboard` | set, get and the system's own conversion | one action per call |
| `StockFonts` | fonts made for stock objects, by threads | one action per step under or outside the lock |
| `FontEnumeration` | name tables, charsets, the metrics cache | one action per enumeration |
| `MemoryPatch` | the inline patch engine | one actor with a list of requests, and threads that call the functions |
| `HookCode` | the code the engine generates | a thread that runs it, one instruction a step |
| `PatchCode` | instructions moved out of an entry | one step per instruction scanned or copied |
| `OpcodeTables`, `Decoder` | the decoder's tables and length functions, and the processor's formats they are compared with | operators, walked over every opcode |
| `CodeSearch` | the walks over system code | operators, applied to small routines |
| `DllHooks` | core lifecycle and DLL hooking | composed with `MemoryPatch` by INSTANCE: both write the same entries, stubs and blocks |
| `PeImages` | `LoadPeImage` | one action per phase of a load |
| `PeTables` | walks and lookups over tables | operators, applied to small tables |
| `MemoryDll` | nested loads from memory | one action per intercepted call |
| `Wildcards` | `IsNameInExpression` | one step per character of the expression and state |
| `HookPortProofs`, `InjectionProofs`, `MCMessagesProofs`, `WindowProcsProofs`, `MemoryPatchProofs`, `MCMemoryPatchProofs`, `DllHooksProofs`, `ProcessProofs` | theorems; `InjectionProofs` and `MemoryPatchProofs` extend only the component's module, the others an `MC...` module and prove its properties, `MCMessagesProofs` and `WindowProcsProofs` also a component's | |
| `MC...` | model values, symmetry, bounds and history variables for TLC | |

A definition named `Bad...` (once `Untested...`) is a plausible mistake in the
definition that follows it. No specification uses it; putting it in place of
that definition makes TLC find a property violated, which `PROJECT.json` records
for every property under "mutants".

**HookPort.** `table`, `slot`, `array`, `bitmap`, `enabled` are the fields of
`SYSCALL_INFO` and its hash table; `patches`, `patchArray`, `capacity` are
`g_Patches`, `entry` is the first bytes of the stubs. `op` is the loader's program
counter; each registration runs store by store through `flag`, `bit`, `patch`,
`jump`, or back through `clearBit`, `clearSlot`. A thread has the local variables
of the wrapper (`held`, `orig`, `bits`, `cur`). A pointer is modelled by what it
still refers to: freeing an object turns the pointers that threads hold into
"freed" ones, and using one is a fault, recorded in `pc`. The search of the hash
table and of `g_Patches` are single steps.

**Injection.** For each process: `run`, `entry`, `prot`, `remote`, `lep`; for
the thread that creates it: `creator`, `at`, `status`, `held`, `frame`; for the
work on it by that thread or a broker: `kind`, `stage`, `local`, `outcome`; and
the broker's record `handle`, `result`. `After` gives the order of each of the
three injecting functions (`LepCreateProcessWithHook`, `InjectSelfToChildProcess`,
`LepBrokerInject`), which share their steps. Any step fails, any mortal process is
killed between any two steps. Remote writes fail whole, `NtTerminateProcess`
works, and failures before a child exists are left out, since they leave nothing
behind. All injections pass `LEP_INJECT_FULL`.

**Startup.** `role` says who loads the core: a loader with a frame, the creator of
a child, or neither. `block` and `payload` are the heap blocks of
`LepCreateProcess`, `data` is `g_GlobalData`; `stage` walks through
`LepGlobalData::Initialize` and `HookNtdllRoutines`, `got` collects what was acquired,
`filters`, `mapping` and `learned` what the locale was read from. A use of a freed
payload is recorded in `misused`. `Environment` resolves an environment whose
fields are fine or wrong in one of a few ways; lengths of paths are the only
numbers of the layout.

**RegistryRedirection.** `step` and `pending` walk through the configurations;
each allocation, open and query may fail. An answer is computed from the class of
information and the caller's length (`BufferLengths`: none, too small for the fixed
part, enough). Data is a size in bytes.

**RegistryKeys.** `open` is the kernel's table of handles, `slot` the table of the
code, `cursor` a thread's place in its search. A comparison with exchange is one
step, the next place another. `ClosedElsewhere` and `KernelRefuses` are what the
filter cannot see or notices too early; values closed that way are collected in
`stray`, and the properties say nothing of them. No program uses one handle on
two threads at once (`Usable`).

**User32Environment.** `slot`, `bit` and `rest` (the contents behind an address:
the DBCS bit and how current the rest is), `copy`, `source`, `shadow`,
`lockReady`, `stopped`, `lock`, and the local variables of `Synchronize`. Readers
load the slot and read later, without any lock; the host changes the mapping or
the slot at any time.

**WindowProcs.** `native` is USER32's procedure, `property` the saved one,
`beneath[p]` what procedure `p` was given as the previous one, which is what it
passes messages on to; `messages` are the nested deliveries of the owner. A
procedure stands for itself whether an interface shows it raw or as a call-proc
handle. `Foreign` says what other threads do: nothing, exchange procedures of a
wrapped window, or anything.

**WindowCreation.** `creations` is the stack of calls, `hooks` the thread's CBT
hooks, `frames` its active frames. A window stands for the record and the frame
of its creation. Each hook that runs during an `HCBT_CREATEWND` is one step. A
creation may fail at any point and may have no hook. The program's values of
`lpCreateParams` are readable memory and never equal to a frame's address.

**CharacterDelivery.** Each character is typed once and stands for itself;
`calls` are the procedures in progress with the byte each handles, `queue` the
posted characters, `received` the bytes in the order they arrived. An IME
character goes to the procedure packed into one parameter, and only what
`LepDefWindowProcA` makes of it is sent in bytes; `due` keeps which characters
are. `AnsiCharacterParamToUnicode` decodes two bytes: a packed character of three
arrives as another one, which then is the one that is due.

**EditPositions.** `text` is a sequence of characters of one or two bytes and of
new lines, `sel` the control's own selection. `call` is a message, `pc` the next
message of its thunk to the control, `copy` the captured text. The reference is
`Answer`, which counts on the text itself. `WCharToMByte` converts one unit more
than it is told, so the length `KernelfnEDIT_LINELENGTH` finds of any line but the
last includes the new line and what the fresh block holds after it (`Rests`).

**Messages.** A text is the sequence of its characters' widths; a buffer is
measured in its own units. `learned` is the length the caller asked for before it
sized a buffer, and whether the text has changed since. The conversion between
codings is by widths; a cut in the middle of a character is visible.

**Clipboard.** `unicode` and `ansi` are the system's two formats; a text belongs
to both code pages, only the target's, or neither, and converting it with the
wrong page loses it.

**StockFonts, FontEnumeration.** Threads are between the steps of
`LepGetStockObject`, holding or waiting for the lock; `spare` fonts bound how many
can be made, and creation may fail. An enumeration's outcome is a function of the
font's name table, the languages and the cache; `told` and `charset` keep what each
of them reported.

**MemoryPatch.** `todo` is the list of requests the caller has left; a failing
patch clears it, a failing restore does not (its callers ignore the result).
Blocks may be allocated again after they were freed. A thread is in a relay, a
hook or a trampoline. Where the jump goes and how many bytes it takes is a choice;
the bytes of an entry change at once.

**HookCode, PatchCode.** The bytes the engine writes, read as the instructions they
encode and run on a machine of registers, flags and a stack of slots. A function
to be patched is a few instructions with a length, a kind and a target; positions
are byte counts.

**Decoder.** `OpcodeTables` holds the tables as conditions on the opcode; `Decoder`
computes the length as the code does and as the processor's formats do. ModR/M, SIB
and operand bytes are quantified inside the property.

**CodeSearch, PeTables.** The state is a search, what it is applied to and its
answer: each operator folds over the instructions or entries as the loop does, and
the property compares with what the pattern describes. A routine is a sequence of
instructions; where the code counts bytes before a place (`FindNtUserDefSetText`
tries the calls up to 16 bytes before a push, the farthest first) the model counts
instructions, three calls (`Window`). The call of `NotifyWinEvent` is not taken for
one of the routine searched for.

**DllHooks.** `core`, `host`, `cookie`, `dll`, `entry`, `late`, and the variables
of `MemoryPatch`, whose `EngineStep` carries out what a hook routine asks for. One
function stands for each sort of hooked functions, chosen by which batch hooks it
and which routine restores it. The loader's steps of several DLLs interleave, as
DllMains that load DLLs make them. A process whose first `LdrLoadDll` fails ends.

**PeImages, MemoryDll.** Memory is halves of `Half` values, so that carries between
halves happen with small numbers; sections, relocations and imports are read as in
the file. A load from memory is a frame with the path it waits for and the slot
that holds a file's and then a section's handle; `object` says what each handle
value refers to now.

**Wildcards.** `previous` and `current` are the two arrays of the code, `src`,
`skip` and `k` its indices, with their short cuts and the moment the arrays grow. The
reference, `Describes`, is a recursive function on the two texts.

The MC modules `MCWindows`, `MCMessages`, `MCProcess` and `MCMemoryPatch` put
several parts into one run. The parts share no state: the variable `active`,
chosen at the start, says whose steps a behaviour takes, and the variables of the
others keep a fixed value. Such a run has the sum of the parts' states, and a
property of a part is stated for the behaviours of that part.

## The runs

| run | checks | instance |
|---|---|---|
| `hookport` | `NoFaultYet`, `JumpHasOriginal`, `RollbackUnseen`, `RegisteredIsReached`, `CallsReturn` | an ntdll and a GUI call, 1 filter, 2 slots, an array of 1 patch that grows, 2 references, 2 mappings of the GUI modules, unloading |
| `hookport_tablegrowth` | `NoFault` is violated | as above without unloading, 2 filters |
| `injection` | `EntryIsSound`, `OutcomeIsTrue`, `ImplementsLife`, `CreationsReturn` | the launcher and two 64-bit and two 32-bit processes, all mortal; one of them a broker |
| `process` | `SlotsAreOpen`, `ImplementsView`, `RedirectionRight`, `OwnedAndReleased`, `AcceptedArrives`, `LocalesApart`, `SuccessIsArmed`, `NamesAreDescribed` | keys: 2 threads, 3 handles, 2 slots, 1 stray; redirection: all modes, 3 lengths; start: 2 calls of `LepCreateProcess`, 2 paths of the core; creation: two threads creating a 32-bit and a 64-bit child; names: expressions of up to 3 of 7 characters, arrays of 4 states |
| `windows` | `EachOnce`, `CreatedRight`, `AnsiSetWraps`, `ImplementsAnsiWindow` | procedures: 3 ANSI and 3 Unicode, 2 nested messages; creation: 3 windows, nested up to 3, a CBT hook of the program |
| `windowprocs_threads` | `WrapperFindsProc` is violated | the procedures with a second thread |
| `messages` | `BytesPaired`, `QueueKept`, `Transparent`, `TextArrives`, `TextSurvives`, `FontsStay`, `NoDanglingReader`, `CopiesShowTarget`, `SynchronizedInForce` | characters: an EDIT control and another window, 4 characters of 0, 2, 2 and 3 bytes, 2 nested deliveries; edit texts of 3 characters; message texts of 2; 5 kinds of clipboard texts; 2 threads, 2 stock fonts, 3 fonts that can be made; 3 enumerations; environment: 2 threads, 1 reader, 2 mappings, 3 copies, 1 change of contents, 2 of the slot, 2 initialisations |
| `memorypatch` | `JumpHasTrampoline`, `SoundYet`, `DecodedRight`, `HookTransparent`, `EntryMoves`, `SoughtIsFound`, `ImagesRight`, `ViewsAreTheirs` | 2 functions, 3 blocks, 2 threads, every failure; every opcode; routines of up to 4 instructions; images of 3 sections, halves of 4 values; 3 handles, 4 loads |
| `dllhooks` | `HooksFollow`, `HooksGo` | KernelBase, kernel32, gdi32; 4 functions, 4 blocks, 2 mappings of each |
| `dllhooks_gdi` | `GoneIsUnhooked` is violated | gdi32 alone, with a function of its last batch |
| `hookcode_registers` | `RegisterJumpReaches` is violated | jumps by r10 and r11 |
| `editpositions_lengths` | `LengthsConverted` is violated | texts of 3 characters, one message |

What they show:

- `hookport`: the four stores of a registration are in the right order for any
  thread that is executing the wrapper; a rollback meets no thread, because the
  entry was not patched yet; between operations a registered filter is reached; a
  wrapper returns although filters keep coming and going. `NoFaultYet` holds up to
  the moment memory is taken away that a wrapper may be reading. The history
  variable `retired` of `MCHookPort` names these moments, exactly four: the table
  is replaced or a callback removed under a running wrapper, `g_Patches` grows,
  the last `UnInstallHookPort` begins.
- `injection`: whichever step fails and whichever process dies, a process that
  runs never enters an incomplete image, a creation that reports success has left
  a process that will be localised, one that reports failure has left it untouched
  (unless the process working on it was killed), everything is released, and the
  creator's unlimited wait for the broker ends. Each process follows `ProcessLife`.
- `process`: a payload is freed once by whoever has it, whichever step of the
  start fails, and every payload a loader may build is accepted and read as it was
  meant; the host's locale is read before it is filtered. The redirection table is
  what could be filled, answers have the length they claim. A handle stands for
  the key it was opened on however the calls of two threads overlap. A broker
  launched by one thread never makes the hook skip the child of another. The
  automaton of expressions agrees with its definition, with growing arrays.
- `windows`: the hooked A interface is an atomic register although the worker
  reads and writes in steps, the wrapper and the procedures beneath it never form
  a cycle, whatever is subclassed and restored through both interfaces; and the
  contexts of creations found through frames are the right ones at any nesting.
- `messages`: bytes of characters, positions, texts and the clipboard arrive as
  they would without LEP, but for the lengths and characters listed under *What the
  checks found*; stock fonts and enumerations stay what they were. Of the
  USER32 environment: a reader never holds freed memory, no reader sees the host's
  DBCS bit in a copy at any step, and a completed `Synchronize` without
  interference leaves a current copy in force.
- `memorypatch`, `dllhooks`: hooks are complete or absent at every step, batches
  may fail anywhere, modules may go and come back at the same address; lengths,
  generated code, moved code, searches, images and modules in memory agree with
  their reference definitions on every instance within the bounds.

History variables say where the code itself stops promising anything; each is
defined in its MC module, and the property holds without condition until then:

| variable | set when |
|---|---|
| `retired` (`MCHookPort`) | the port frees memory a wrapper may be reading |
| `overtaken` (`MCWindowProcs`) | a Unicode component restores over procedures set after its own |
| `pumped` (`MCMessages`) | a procedure other than the EDIT control's runs a message loop during a delivery |
| `dangling` (`MCMemoryPatch`) | `ProtectMemory` fails for a trampoline that is already published |
| `failed` (`MCDllHooks`, for `AttachedIsHooked` only) | a hook routine or one of its patches fails |
| `stray` (`RegistryKeys`, for one handle value) | a handle was closed without its filter, or the close refused after it |

Bounds. Every bound is a constant with "bound" in its comment, or a named predicate
of the MC module. Threads of the program only read the port's tables, so one thread
in `hookport` meets every interleaving with the loader; two threads are needed
where threads write (the USER32 environment, the patch engine, keys, stock fonts). Two of a thing
and room for one (slots, patches, copies) reach the full and the growing case; two
mappings of a module reach the second mapping at the same address; three nested
creations have a hook that is neither the innermost nor the outermost. Three blocks
for two functions allow a freed block to be given to the other function while a
stub still names it. Three handles and two slots let a table fill up while a third
key is opened, and a value be given again to another key; one stray value
(`MaxStray`) is enough, since the properties speak of the others. `OneChild`
(`MCInjection`) lets a process create a child of its own word size or one through a
broker, not both; `Roles` (`MCProcess`) fixes who creates whom, so that there both
happen at once. Texts of three characters have a double-byte one before, at and
behind each position, and a new line; expressions of three characters have every
pair of wild cards with a character on one side. Halves of four values and
alignments of two and four make every carry and every cut of a section happen.
Symmetry is used for model values that the specification and the properties treat
alike (functions, blocks, threads, handles), only in runs without liveness
properties. Deadlock is not checked: every model really stops when the bounded
environment has nothing left to do (all modules mapped as often as allowed, all
characters typed, the core gone, the answer given).

## Fairness

Only `hookport` and `injection` have liveness properties.

- `HookPort`: weak fairness of `Dispatch(t)` for each thread. The scheduler runs a
  thread that is inside a wrapper, and the kernel completes the call. Nothing is
  assumed of the loader: `CallsReturn` holds while filters are added and removed
  for ever, because the wrapper walks a copy of the bitmap.
- `Injection`: weak fairness of `Create(c)` and `Work(c)`, the threads of living
  processes. Nothing is assumed of callers, of who kills processes, or of
  the child. `CreationsReturn` includes the wait for the broker: it ends because the
  broker runs to its exit or is killed, and either signals the handle.

## What is proved

TLAPS checks these theorems for every value of the constants that the named
assumptions allow. Those with `MCSpec` are about the specification a run checks,
history variables included; their sets of handles, threads, DLLs, paths and the
bounds on them are still any.

| module | theorem | states |
|---|---|---|
| `HookPortProofs` | `TypeCorrect`, `JumpsHaveOriginals`, `BitsHaveCallbacks`, `RollbacksUnseen` | the safety invariants of `HookPort` under every operation, failure and teardown |
| | `NoFaultInService` | with ntdll calls only, no unloading and an array with a place for each wrapper, no null or freed pointer is followed |
| | `NoFaultUntilRetired` | no wrapper meets one before the port frees a table, array or bitmap, whichever GUI modules come and go and however registrations fail |
| | `RegisteredFiltersAreReached` | the call a filter is registered on is patched and enabled as long as its module is mapped for the first time |
| `InjectionProofs` | `InjectionInvariant`, `EntriesAreSound`, `OutcomesAreTrue` | the safety invariants of `Injection`, for any number of processes and launches, whoever is killed |
| | `InjectionImplementsLife` | `Injection` refines `ProcessLife` |
| `MCMessagesProofs` | `EveryByteOnce` | in `CharacterDelivery`, for any characters, windows and nesting: each byte of a `WM_CHAR`'s character, and of what `LepDefWindowProcA` makes of an IME character, reaches its window once, the lead byte first, and all of them when it is done with; no other character's bytes are sent |
| | `BytesArePaired`, `QueueAlwaysKept` | the same for the composed module, and that a trail byte goes to the procedure with the lead byte unless another one runs a message loop; a control that may still have its trail byte takes nothing from the queue |
| | `TextAlwaysSurvives` | what is pasted is what was copied, as long as no step fails, for any texts of the five kinds and any number of copies |
| | `PositionsAlwaysTransparent` | for a control with any text and selection: `EM_GETSEL`, `EM_SETSEL` and `EM_LINEINDEX` tell and make what a control that counts as the caller does would, in both directions. `EM_LINELENGTH` does for an index in the text, or -1 with nothing selected: of every line for a Unicode caller of an ANSI control, of the last line only for an ANSI caller of a Unicode control |
| | `TextAlwaysArrives` | of any text, through a buffer of any size: who learned a length and made room for it gets all of the text, no message that is told the size of its buffer writes past it, and a receiver is told the coding of what it is passed |
| | `FontsAlwaysStay` | one living font for each stock object, for any threads, contexts and fonts; enumerations agree with the first one, for any name tables and any number of them |
| | `ReadersAreSafe`, `CopiesAlwaysShowTarget`, `SourcesAreServers`, `Invariance` | the safety invariants of `User32Environment`, also when the host returns to the copied mapping or writes fail |
| | `SynchronizedStaysInForce` | unless the host stores a mapping again that is copied already: when `Synchronize` is through, and neither had to give up nor met a change, the slot leads to the DBCS mode and to the present state of everything else |
| `WindowProcsProofs` | `OwnersSeeARegister` | with the owner's calls only (`Foreign = "never"`), `WindowProcs` refines `AnsiWindow` |
| | `WrapperAlwaysFindsProc`, `NoProcedureTwice`, `ProcsTypeOK` | unless other threads convert a window for the first time (`Foreign # "any"`), the wrapper finds a procedure to call, and no message meets a procedure twice |
| | `CreationsAreRight` | for any windows, parameters of the program and nesting of creations: `lpCreateParams` arrives, ANSI windows are wrapped once and in time, no hook or frame is left or out of order |
| `MemoryPatchProofs` | `TypeCorrect`, `JumpsHaveTrampolines` | a function that jumps to its hook has its trampoline, with no assumption about callers or failures |
| | `NoFaultOfSoundCallers` | with `Quiescent` callers and no failure of `ProtectMemory`, nothing freed is followed |
| `MCMemoryPatchProofs` | `SoundUntilProtectFails` | the same, and that nothing leaks, up to the first failure of `ProtectMemory` for a published trampoline |
| | `ViewsOfMemory` | modules loaded from memory are mapped from their own buffers, their imports from their files, for any nesting |
| `DllHooksProofs` | `HooksComeAfterDllMain`, `HooksAreMadeOnce` | order and uniqueness of hooks, whatever fails |
| | `HooksAlwaysFollow` | without failures of `ProtectMemory`, and before any other one, each DLL is hooked completely after its `DllMain` |
| | `HooksGoWithTheCore` | without failures of `ProtectMemory`, and leaving out the function no routine restores, nothing jumps into a core that is gone |
| `ProcessProofs` | `KeysInvariant`, `SlotsStayOpen` | no slot outlives its handle, for any number of threads, handles and slots |
| | `KeysImplementView` | the table refines `RegistryView` |
| | `RedirectionStaysRight` | the redirection table has the entries that could be filled, no key it opened stays open, and an emulated value is as long as it is told to be |
| | `PayloadsHaveOneOwner`, `PayloadsArrive`, `LocalesStayApart` | a payload has one owner and is freed once, a core that stops leaves nothing, and what a loader asks for is what the core accepts; the mapping is not made for the host's locale when its calls are filtered, and the host's language is asked for before it is |
| | `ChildrenAreArmed` | a child reported as injected has entry, image and payload in place, whichever threads and brokers race |

The assumptions say that model values differ (`ProcessesAssumption`,
`PatchAssumption`, `BlocksAssumption`), that buffers are loaded under names no file
has (`MemoryAssumption`; the code composes them), that the program's creation
parameters are not the addresses of LEP's records (`CreationAssumption`), nor a frame
the mark for none (`CharAssumption`), that kinds of texts, fonts and mappings are
disjoint (`TextAssumption`, `FontAssumption`, `SetsAssumption`), that a name table is
a sequence of named records (`TableAssumption`), that bounds are natural numbers
(`BoundsAssumption`, `BoundAssumption`, `HooksAssumption`, `ValueAssumption`), and which procedures are ANSI ones
(`ProcAssumption`). TLC evaluates each of them in a run.

The arguments:

- *HookPort.* `JumpHasOriginal` alone is not inductive: between `AddPatch` and the
  jump the call must be in the table and in `g_Patches`, and a rollback must not
  have a jump. `JumpInv` says this for each step of the loader. `BitInv` says that
  the slot whose bit is about to be set holds a callback. `UnseenInv` adds that a
  thread in a wrapper is in a call whose entry jumps, so the call being rolled back
  has none. `ServiceInv` ties each thread's local variables to the tables
  (`LoaderInv`, `ThreadInv`). `CalmInv` does so for the whole port, until the loader
  gets to a step that frees (`retired`). That a registered filter is reached needs
  more than the order of the stores: `FilterInv` says that a call without a jump has
  at most the bit in progress (so a rollback takes no one else's), `MappedInv` that
  what is hooked of a GUI module is hooked while it is there.
- *Injection.* What a creation may tell depends on everything done before. For each
  process `ProgressInv` says how far its creation and the work on it are,
  `WorkInv` what the work has written and still holds (the jump only over a full
  image; restored and freed before a failure is over), `ToldInv` what the broker's
  record and the creator's status say of it. `BrokersInv` relates a process to its
  broker: the broker's own creation is over before it is started, and while its
  work is not over it runs - so a creator whose wait has ended reads a true result,
  or the work was lost. `AdvanceKeepsIInv` treats all steps of the work that succeed
  at once. For the refinement, `OneLife` lists the ways one process can change, and
  every action falls under one of them.
- *User32Environment.* `IInv` joins the types, mutual exclusion of the critical
  section, `OnTheWay` (what each step of `Synchronize` has established for its
  local variables) and `ShadowIsPublished` (the copy in force is the one `Shadow`
  names) to the three properties, which are not inductive without them: the copy
  becomes visible only after its bit was set, and replaced copies are kept because
  a reader may hold them. `ForceInv` adds that the mapping of which there is
  a copy is not in the slot (`MappingIsCopied`) and that what a thread has copied on
  its way is still the present state (`WorkIsPresent`): the first breaks when the host
  returns to the copied mapping, which is why `HostReturns` is excluded there.
- *CharacterDelivery.* `BytesOnce` speaks of bytes received; where the next one may
  come from is in `DeliveryInv`. `OnePlace` says that a character is queued or in
  one call, but for a packed call that has posted it again (`PostedAgain`) and has
  nothing more to send. `FramesFollow` ties frames to the calls that handle a lead
  byte for an EDIT control, in the same order, so that a peek that finds the
  innermost frame finds the innermost such call. `UnsentQueued` and `SentByCalls`
  say which bytes each place has sent: none from the queue, and by a call the first
  ones up to its own, and the trail byte exactly when its frame is consumed.
  `AllSent` is what is left when the last call returns, and `DueIs` says which
  characters that concerns: those of a `WM_CHAR` and not those of a packed call that
  nobody has defaulted. What a packed call posts is either its own character or one
  not typed before, of which nothing was received (`Arrived`). Steps are treated by what
  they do to the sequences: a call pushed, popped, its byte advanced, a frame
  consumed.
- *EditPositions.* Both counts of a text grow from one character to the next
  (`PositionsGrow`), since the bytes of a beginning are its characters and the
  double-byte ones among them (`FrontCounts`). So a position is at one character
  only, and each of the thunks' conversions, which search for a least or a greatest
  index, finds that character again (`CharIsAt`, `OffsetsAre`). `EditInv` says of each
  stage of a thunk what the control was asked, of which text, and that the answer is
  the one to that question; then there is one lemma per message (`GetSelRight`,
  `SetSelRight`, `LineIndexRight`, `LineLengthRight`). That `EM_LINEINDEX` finds a
  line for every number below the count of lines is `NumberedElement`.
- *Messages.* `MessagesInv` adds only types to `TextArrives`. The proof follows the
  class of thunk a row of the table leads to (`RowsOfTexts`): what `AnsiToUnicode` and
  `UnicodeToAnsi` write into a buffer of a given size, whole when it has room
  (`AnsiToUnicodeFills`, `UnicodeToAnsiFills`), and what each thunk makes of it
  (`UserFills`, `KernelFills`).
- *Clipboard.* `TextSurvives` is inductive with the types alone, since each hooked
  call sets both formats or fails; the proof is the algebra of the two conversions.
- *StockFonts.* `MakerIsAlone` adds to `StockFontsStay` that who makes a font has the
  lock and the object has none yet; a thread that waited tests again.
- *FontEnumeration.* `EnumerationInv` says that the cache has no other entry than
  the one of the font's adjusted name, and that each report is determined by
  whether that is the name looked for (`FoundAgain`): either every enumeration looks
  or every one but the first finds. That a face is skipped exactly when it is not
  named in the host's language needs the first and the last index of a name in any
  table (`LeastIndex`, `GreatestIndex`, by well-founded induction).
- *MemoryPatch.* `JumpInv` says that a batch has only native functions left
  (`TodoInv`), which block the request in progress works on (`PatchingInv`), and
  that a block is freed only after the function it belongs to is native again
  (`RestoringInv`); it is inductive even when stubs already name freed blocks.
  `SoundInv` adds that no stub dangles (`StubInv`) and that what a thread in a relay,
  hook or trampoline will follow is there (`ThreadInv`), for which quiescence is needed.
  `OwnerInv` says who owns a relay at each step: the trampoline, or the request that
  has no trampoline yet; and that what is listed is alive. Both are kept by every
  step but the failing `ProtectMemory`.
- *DllHooks.* The same engine works there without threads, so the lemmas of
  `MemoryPatchProofs` are used through an INSTANCE (`SameState`, `SameStep`). `LifeInv` says what each state of the core allows: no
  delayed entry and no jump before the hooks of ntdll are made, patches asked for
  only of attached DLLs. `LeavingInv` says that requests to restore come after the
  last one to patch and cover whatever jumps; `FollowInv` that a DLL to be
  hooked is delayed while it is mapped, then hooked or being hooked.
- *MemoryDll.* `FramesOfLoads` says that the frames are those of the loads of
  buffers, in the same order, so that a load finds its own frame on top.
  `InnermostHandles` says that only the innermost load has handles and only its own
  frame a slot: a handle value given out again cannot be taken for another load's.
  `Progress` ties slot and handles to how far the load has come, `ViewsInv` joins
  them. Loads push and pop in three lemmas; the other steps change the innermost
  load and frame (`StepKeeps`).
- *RegistryKeys.* `SlotsAreOpen` needs `CallsInv`: a search that has passed places
  has not seen its handle in them (so a search that ends without it may let the
  kernel close), a handle is in the hands of one call, and one that is to be noted
  is open on the parent. The refinement maps a handle to nothing while a call that
  opens or closes it is on the way (`View`). Noting the handle in a slot, or
  the open of another key, is the abstract `Open`; the call of `NtClose`, not the
  kernel's close, is `Close`; the step of the search that finds the handle or ends is
  `Query`, for which `CallsInv` says that the places passed do not have it.
  Each lemma treats the steps with the same effect; a step of one thread with one
  handle changes the view of that handle alone (`OneViewChanges`).
- *Startup, RegistryRedirection, Injection in one process tree.* `StartupInv` says who
  owns a payload (the frame that made it or the core that took it over, never
  both), what the core has acquired at each stage, and which of the reads of the host
  come before which filters. `FillInv` says what is held open and which entry is
  half-filled at each step of the table's initialisation, `AnswerInv` that an answer
  was made from a whole table. `ChildrenAreArmed` instantiates `InjectionProofs`
  (`J`) and shows that the steps are the same.
- *WindowProcs.* `CallsInv` says which windows each step of the worker works on: the
  steps of a first conversion are the owner's and find no saved procedure.
  `Unwrapped` adds that until a procedure is saved the wrapper occurs nowhere - not
  as a procedure given back to the program, not in a message on its way - except as
  USER32's procedure between the last two steps of the owner's call, in which no
  message is delivered. In the refinement the exchange is the native
  `SetWindowLongA` on a window not wrapped yet and the store to the property on the
  others; the remaining steps of the worker stutter (`Stutters`, `Exchanges`).
  That no procedure is met twice is the existence of an order: `OrderInv` says there
  are ranks that fall from a procedure to the one beneath it, and a set of
  procedures behind the wrapper from which nothing leads back; a message goes down
  in front of the wrapper and then behind it. `OriginInv` says that what is given
  back was installed before, so a new procedure can be ranked above all others.

- *WindowCreation.* `NothingLeft` orders hooks and frames like the creations they
  belong to; `OwnersInv` says which hook and frame a creation has, so the frame found
  last is the innermost creation's, and an enclosing creation's hook is below its
  own. `TurnsInv` says that a creation waits at a hook of the program or in a
  procedure, below all hooks of the creations inside it: taking one of these out
  moves nothing it still has to call. `ParamsInv` says that until its own hook has
  had its turn (`Waits`) a creation has LEP's record as parameter and no wrapper, and
  afterwards the program's value and one; `OwnRecord` then shows that a hook accepts
  exactly its own creation's record. Steps of the innermost creation share `TopStep`.

Each inductive invariant was checked by TLC on the instances above before it was
proved. Each proof has one lemma or case per action.

Only model-checked, and why:

- `CallsReturn` and `CreationsReturn`: liveness under fairness and ENABLED are
  outside the prover.
- `DecodedRight`, `EntryMoves`, `SoughtIsFound`, `ImagesRight`, `NamesAreDescribed`:
  what the algorithms compute (`Decoder`, `PatchCode`, `CodeSearch`, `PeImages`,
  `PeTables`, `Wildcards`) needs induction over data, which the installed provers
  cannot instantiate.
- `HookTransparent`: the code a request generates is a finite list for each request;
  there is nothing to generalise over.
- `AnsiSetWraps`: the procedures a message meets are computed by a recursive
  function over the chain (`Met`), so what it finds needs the same induction.

## What the checks found

Five runs end in a violation of what the documentation says of the code:

- `hookport_tablegrowth`: `HpAddSystemCall` frees the old hash table at once
  (`HookPort.cpp:1805`), while a thread may be searching it.
- `windowprocs_threads`: `InitUnicodeProc` makes `WindowProcW` the procedure of a
  window before the procedure it is to call is saved (`User32Hook.cpp:381`); when
  another thread than the owner sets the first ANSI procedure, the owner may
  deliver a message in between.
- `dllhooks_gdi`: `UnHookGdi32Routines` does not restore the last batch of
  gdi32 hooks (`Gdi32Hook.cpp:1321`), so functions go on jumping into a core that
  was unloaded from a host.
- `hookcode_registers`: a jump by r11 is generated as the bytes 00 E3, which are no
  jump (`MemoryPatch.cpp:540`). No caller asks for that form today.
- `editpositions_lengths`: `KernelfnEDIT_LINELENGTH` (`User32Hook.cpp:938`) converts
  the line with `WCharToMByte`, which converts one unit more than it is told
  (`Utility.cpp:17`). For every line but the last the answer to an ANSI caller counts
  the new line, and the bytes of the fresh block up to a zero. `HOOK_INVENTORY.md`
  371-376 says that `EM_LINELENGTH` is converted, so that lengths within a line stay
  consistent. `Transparent` holds of what is left: see `OneLine` and `LastLine`.

While modelling, further limits of the code were met. They are in the models, and
a constant, a history variable or a condition of a property marks each one that
a property would otherwise trip over.

*Hook port.*
- A GUI module that is mapped a second time is taken for patched, since its entry
  of `g_Patches` stays (`HookPort.cpp:1371`): `RegisteredIsReached` is stated for
  the first mapping.
- Unloading the core while threads are in wrappers frees what they use; process
  exit, the usual case, has no other threads left (`HookPort.cpp:1547`).
- A growing `g_Patches` is freed before its copy is published
  (`HookPort.cpp:620`); the array has 32 places for 22 wrappers, so it never grows.

*Injection and start.*
- A second `LepCreateProcess` with another environment finds the core loaded: its
  payload is freed and the first environment stays (`LoaderDll.cpp` 672-741).
- `HOOK_INVENTORY.md:9` gives another order of `Initialize` than the code, which
  registers the notification before it hooks ntdll (`LocaleEmulatorPlus.cpp:382`).

*USER32 environment and windows.*
- When the host stores the mapping again that was copied before, `Synchronize`
  takes the copy for current, though `HOOK_INVENTORY.md:396` says it notices
  changes of the server information (`User32Environment.cpp:106`; `HostReturns`).
- `Restore` and `Publish` test the slot and write it in two steps; a pointer the
  host stores in between is lost (`User32Environment.cpp:144`).
- When a Unicode component has taken the wrapper out of a window by restoring what
  it found, a later `SetWindowLongA` changes only the property, and the procedure
  set gets no message, though `HOOK_INVENTORY.md:322` says that it installs the
  wrapper (`User32Hook.cpp:2431`; `overtaken`).
- Two threads that exchange procedures at once can be given the same previous
  procedure, or the wrapper itself (`User32Hook.cpp:2430`; `Foreign`).
- `VerifyWindowParam` reads `lpCreateParams` of nested windows, a value of the
  program, as a record; the comment there says that the exception handler around
  the read does not work (`User32Hook.cpp:1820`).

*Messages, clipboard, fonts.*
- A packed IME character of three bytes loses its first one:
  `AnsiCharacterParamToUnicode` decodes the low word only (`User32Hook.cpp:1285`),
  so `LepDefWindowProcA`, `LepSendMessageA` and `LepPostMessageA` pass another
  character on. `CallAnsiCharacterProc` packs all three
  (`User32Hook.cpp:1412`); `HOOK_INVENTORY.md` speaks of double-byte characters.
  `BytesOnce` follows the character that was made of it.
- `EM_LINELENGTH` for -1 with a selection is converted, in both directions, as if it
  were the length of a line's beginning, while the control tells what is not selected
  of the selection's lines; for an index behind the text both thunks clip the index
  and the last line's length is told for 0. A text that another thread changes between
  the capture and the message is not noticed.
- `WM_GETTEXT`-like messages leave a longer text without a terminator and an empty
  one untouched; `LB_ERR` is halved like a length; the buffer of a list entry is
  sized by a length asked for before; `WM_ASKCBFORMATNAME` is sent on as the next
  message; large window names are cut to 16 bits (`Utility/Utility.cpp` 146-170).
- A text set as Unicode and read as ANSI loses what the emulated code page lacks,
  as it would on a host with that locale.
- On x86 a hit of the metrics cache reports the font's own charset; the cache has
  no lock; `tmFirstChar` is filled from `tmStruckOut`; a name record's offset is
  not checked against its table; `LepGetStockObject` returns null when the font
  cannot be made.

*Patches, decoder, searches.*
- A failing `ProtectMemory` frees a trampoline that is already in its stub variable
  and in `TrampolineList` (`MemoryPatch.cpp:402`; `dangling`).
- `RestoreMemory` frees a trampoline whether or not a thread is in it
  (`MemoryPatch.cpp:1320`; `Quiescent`).
- The operations `OpJRcx` to `OpJRdi` all jump by rax, and `OpPush` of amd64 pushes
  wrongly; no hook uses them.
- A branch to the first instruction of a block is treated as leaving it; a copy
  that grows shifts the block's own branches; `loop`, `jecxz` and operands relative
  to rip are copied as they are; a jump to itself is followed for ever.
- The decoder has no entry for 0F 19-1F, 0F 38, 0F 3A, for a 66 before another
  prefix, for 67 with memory operands, for absolute moves and some more; a length
  of 0 lets a walk over code stand still.
- Some walks over system code go on behind the routine's return
  (`FindNtGdiHfontCreate`, `SearchLdrInitNtContinue`, `FindNtUserMessageCall2`).
  `FindNtUserMessageCall` and `FindSendMessageWorker` are called by nobody.

*Images, containers, paths.*
- An image without relocations that could not get its base is reported as loaded
  (`Loader.cpp` about 465); a failed relocation is overwritten by the result of the
  imports; imported modules stay loaded after a failure, and `*DllBaseAddress` then
  refers to freed memory; `HIGHADJ` adds its operand twice.
- A relocation block of odd size and an export table without names make their walks
  wrap around; forwarded exports are taken for addresses.
- `LoadDllFromMemory` does not test whether its patches succeeded.
- An expression that begins with `*` looks for further wild cards only up to the
  first backslash; the growth of the arrays is not tested for success
  (`Path.cpp` about 569).

## What is not modelled

- The bytes of a jump and their non-atomic writing: an entry changes at once.
- Data patches of the engine, stateless hooks of ntdll and kernel32 (conversions of
  names, code pages, time zones and locales that keep nothing between calls).
- The forming of paths, resources, version information and header checks of images.
- Heap, strings, arrays and the hash table container as such: the hook port's use of
  its table is modelled, with one step per search. `HandleTable.cpp` is compiled in
  and called by nobody.
- Files and native wrappers: thin calls of the system. Section protector, logging
  and diagnostics: no state the properties speak of.
- The x86 build where the hook port differs (return sizes, stdcall stubs, a 32-bit
  bitmap).
- Build scripts and what they generate, except the message table; tests, examples,
  CRT shims.

## What could come next

- `WindowCreation` and `CharacterDelivery` over one chain of frames: a character
  delivered during a creation, a window created while a trail byte is pending.
- The wrapper of the x86 build, whose bitmap walk shifts by up to 32.
- The enumeration callbacks with threads that share `TextMetricCache`.
