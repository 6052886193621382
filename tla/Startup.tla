------------------------------- MODULE Startup -------------------------------
(* How the core comes up in a process: LepCreateProcess of LoaderDll hands  *)
(* it an environment as a payload in an active frame, a child finds its     *)
(* payload behind the core's image; DllMain, Initialize and                 *)
(* LepGlobalData::Initialize take it and acquire what the core needs,       *)
(* HookNtdllRoutines registers the filters and UnInitialize undoes it.      *)
(* Injection models how a child gets its image, RegistryRedirection what    *)
(* the two language steps compute, DllHooks the patches of the DLLs.        *)
EXTENDS Environment, Sequences

CONSTANTS MaxCalls,   \* bound: calls of LepCreateProcess
          Paths       \* lengths in bytes of the core's path, and of its directory (bound)

VARIABLES role,       \* "loader", "child", or "plain": loaded by something else
          call,       \* how often LepCreateProcess was called
          at,         \* where the last call is: "idle", "loading" or "returned" (LdrLoadDll)
          block,      \* the heap block of each call's payload
          payload,    \* its layout and environment
          frame,      \* Data of the LEP_LOADER_PROCESS frame: a call's block, or 0
          core,       \* "absent", "entered", "initializing", "attached", "failed" or "gone"
          data,       \* g_GlobalData's BootstrapPayload and OwnBootstrapPayload
          stage,      \* the next step of LepGlobalData::Initialize
          got,        \* what the core has allocated or registered
          filters,    \* the filtered system calls
          mapping,    \* the locale in ntdll's NLS mapping, which is made on demand
          learned,    \* the host's language, as the MUI initialization heard it
          misused     \* history: a block was freed twice or used after

loaderVars == <<role, call, at, block, payload, frame, misused>>
coreVars   == <<core, data, stage, got, filters, mapping, learned>>
vars       == <<loaderVars, coreVars>>

Calls     == 1 .. MaxCalls
Image     == 0                           \* the payload behind a child's image
NoData    == [payload |-> 0, own |-> FALSE]
NoPayload == [total |-> 0]

IsLepLoader == role = "loader" /\ at # "idle"

Init == /\ role \in {"loader", "child", "plain"}
        /\ call = 0 /\ at = "idle"
        /\ block = [c \in Calls |-> "none"]
        /\ payload \in { [c \in Calls \cup {Image} |-> IF c = Image THEN p ELSE NoPayload] :
                p \in IF role = "child"
                      THEN {LepBuildBootstrapPayload([registry |-> r, language |-> l, terminated |-> TRUE], 80, 60)
                              : r \in 0 .. 2, l \in {0, 2}}
                      ELSE {NoPayload} }
        /\ frame = 0
        /\ core = IF role = "loader" THEN "absent" ELSE "entered"
        /\ data = NoData
        /\ stage = "none"
        /\ got = {} /\ filters = {}
        /\ mapping = "none" /\ learned = "none"
        /\ misused = FALSE

-----------------------------------------------------------------------------
(* LepCreateProcess.                                                         *)

(* The environment is refused, or there is no memory.                        *)
RefuseEnvironment ==
  /\ role = "loader" /\ at = "idle" /\ call < MaxCalls /\ core # "gone"
  /\ call' = call + 1
  /\ UNCHANGED <<role, at, block, payload, frame, misused, coreVars>>

(* The payload is built and put into the frame, which is pushed.             *)
LepCreateBootstrapPayload ==
  /\ role = "loader" /\ at = "idle" /\ call < MaxCalls /\ core # "gone"
  /\ \E input \in Inputs, wellFormed \in BOOLEAN, path \in Paths :
       \E value \in LepResolveEnvironment(input, wellFormed) :
          payload' = [payload EXCEPT ![call + 1] =
                        LepBuildBootstrapPayload(value, path.full, path.dir)]
  /\ call' = call + 1
  /\ block' = [block EXCEPT ![call + 1] = "allocated"]
  /\ frame' = call + 1
  /\ at' = "loading"
  /\ UNCHANGED <<role, misused, coreVars>>

(* The loader maps the core and calls DllMain, unless it is loaded already.  *)
LdrLoadDll ==
  /\ at = "loading"
  /\ \/ core = "absent" /\ core' = "entered" /\ UNCHANGED at
     \/ core \in {"absent", "attached"} /\ at' = "returned" /\ UNCHANGED core
  /\ UNCHANGED <<role, call, block, payload, frame, misused, data, stage, got, filters, mapping, learned>>

(* Frees the payload the core has not taken. Then the process is created.    *)
LdrLoadDllReturns ==
  /\ at = "returned"
  /\ at' = "idle" /\ frame' = 0
  /\ block' = IF frame = 0 THEN block ELSE [block EXCEPT ![frame] = "freed"]
  /\ misused' = (misused \/ (frame # 0 /\ block[frame] = "freed"))
  /\ UNCHANGED <<role, call, payload, coreVars>>

-----------------------------------------------------------------------------
(* Initialize and UnInitialize.                                              *)

(* The payload is the child's image's or the frame's, when that is valid.    *)
Found == CASE role = "child" -> payload[Image]
           [] frame # 0      -> payload[frame]
           [] OTHER          -> NoPayload

Present == Found # NoPayload /\ LepValidateBootstrapPayload(Found)

(* No payload (with a message when KERNEL32 was first), or no GlobalData:    *)
(* the payload stays where it was.                                           *)
RefuseToInitialize ==
  /\ core = "entered"
  /\ core' = "failed"
  /\ UNCHANGED <<loaderVars, data, stage, got, filters, mapping, learned>>

BadTakePayload ==        \* mutant: the frame keeps what the core has taken
  /\ core = "entered" /\ Present
  /\ core' = "initializing" /\ stage' = "redirection"
  /\ data' = [payload |-> frame, own |-> frame # 0]
  /\ misused' = (misused \/ (frame # 0 /\ block[frame] = "freed"))
  /\ UNCHANGED <<role, call, at, block, payload, frame, got, filters, mapping, learned>>

(* The core takes the loader's payload out of the frame.                     *)
TakePayload ==
  /\ core = "entered" /\ Present
  /\ core' = "initializing" /\ stage' = "redirection"
  /\ data' = [payload |-> frame, own |-> frame # 0]
  /\ misused' = (misused \/ (frame # 0 /\ block[frame] = "freed"))
  /\ frame' = 0
  /\ UNCHANGED <<role, call, at, block, payload, got, filters, mapping, learned>>

InitializeFails ==
  /\ core = "initializing"
  /\ stage \in {"redirection", "metrics", "locale", "directory", "files", "view", "port",
                "create", "advanced", "mui", "licence"}
  /\ core' = "failed" /\ stage' = "none"
  /\ UNCHANGED <<loaderVars, data, got, filters, mapping, learned>>

BadUnInitialize ==       \* mutant: the code pages are unmapped
  /\ core' = IF core = "failed" THEN "absent" ELSE "gone"
  /\ data' = NoData /\ filters' = {}
  /\ got' = got \cap {"applied"}
  /\ block' = IF data.own THEN [block EXCEPT ![data.payload] = "freed"] ELSE block
  /\ misused' = (misused \/ (data.own /\ block[data.payload] = "freed"))
  /\ at' = IF at = "loading" THEN "returned" ELSE at
  /\ UNCHANGED <<role, call, payload, frame, stage, mapping, learned>>

(* The GlobalData is deleted, with all it holds but the code pages; the heap *)
(* goes with the last reference.                                             *)
UnInitialize ==
  /\ core' = IF core = "failed" THEN "absent" ELSE "gone"
  /\ data' = NoData /\ filters' = {}
  /\ got' = got \cap {"view", "applied"}
  /\ block' = IF data.own THEN [block EXCEPT ![data.payload] = "freed"] ELSE block
  /\ misused' = (misused \/ (data.own /\ block[data.payload] = "freed"))
  /\ at' = IF at = "loading" THEN "returned" ELSE at
  /\ UNCHANGED <<role, call, payload, frame, stage, mapping, learned>>

(* DllMain of a core that could not start, and of one that goes with the     *)
(* loader's process. A child's LoadFirstDll returns the failure as it is.    *)
DllMainFails == core = "failed" /\ role # "child" /\ UnInitialize
Detach       == core = "attached" /\ role = "loader" /\ at = "idle" /\ UnInitialize

-----------------------------------------------------------------------------
(* The steps of LepGlobalData::Initialize and, from "create" on, of          *)
(* HookNtdllRoutines. Those InitializeFails names may fail instead.          *)

Step(from, to) ==
  /\ core = "initializing" /\ stage = from /\ stage' = to
  /\ UNCHANGED <<loaderVars, core, data>>

Acquire(from, what, to) ==
  /\ Step(from, to)
  /\ got' = got \cup {what}
  /\ UNCHANGED <<filters, mapping, learned>>

InForce == payload[data.payload].value      \* GetEnvironment

InitRegistryRedirectionMode == Acquire("redirection", "entries", "metrics")
InitTextMetricCache         == Acquire("metrics", "cache", "locale")
ReadOriginalLocale          == Acquire("locale", "locale", "directory")  \* its view is unmapped again
DuplicateSystemDirectory    == Acquire("directory", "directory", "files")
ReadCodePages               == Acquire("files", "names", "view")         \* the names are freed at the end
AllocCodePageMapView        == Acquire("view", "view", "apply")
ApplyCodePages              == Acquire("apply", "applied", "notification")

(* Its status is not looked at.                                              *)
LdrRegisterDllNotification ==
  /\ Step("notification", "port")
  /\ got' \in {got, got \cup {"cookie"}}
  /\ UNCHANGED <<filters, mapping, learned>>

InstallHookPort == Acquire("port", "port", "create")

AddFilters(from, to, names) ==
  /\ Step(from, to)
  /\ \E added \in SUBSET names : filters' = filters \cup added
  /\ UNCHANGED <<got, mapping, learned>>

LocaleFilters == {"NtInitializeNlsFiles", "NtQueryDefaultLocale"}

(* The one call of the loader's core.                                        *)
AddCreateUserProcess ==
  /\ Step("create", IF IsLepLoader THEN "kernel" ELSE "locales")
  /\ filters' = filters \cup {"NtCreateUserProcess"}
  /\ UNCHANGED <<got, mapping, learned>>

BadAddLocaleFilters ==   \* mutant: the language filters come with them
  AddFilters("locales", "advanced", LocaleFilters \cup {"NtQueryInstallUILanguage"})

AddLocaleFilters == AddFilters("locales", "advanced", LocaleFilters)

(* ntdll makes its NLS mapping when a culture's name is looked up.           *)
LcidToCultureName ==
  mapping' = CASE mapping # "none" -> mapping
               [] LocaleFilters \subseteq filters -> "emulated"
               [] OTHER -> "host"

InitializeAdvancedRegistryRedirection ==
  /\ Step("advanced", "mui")
  /\ IF InForce.registry = 2 THEN LcidToCultureName ELSE UNCHANGED mapping
  /\ UNCHANGED <<got, filters, learned>>

InitializeVirtualMuiLanguage ==
  /\ Step("mui", "value")
  /\ IF InForce.language = 2
     THEN /\ LcidToCultureName
          /\ learned' = IF "NtQueryInstallUILanguage" \in filters THEN "emulated" ELSE "host"
     ELSE UNCHANGED <<mapping, learned>>
  /\ UNCHANGED <<got, filters>>

(* NtQueryValueKey when there is something to redirect; these statuses are   *)
(* not looked at.                                                            *)
AddValueFilter == AddFilters("value", "licence", {"NtQueryValueKey", "NtQuerySystemInformation"})

AddLanguageFilters ==
  /\ Step("licence", "continue")
  /\ IF InForce.language = 2
     THEN \E added \in SUBSET {"NtQueryDefaultUILanguage", "NtClose", "NtOpenKey", "NtQueryInstallUILanguage"} :
            filters' = filters \cup added \cup {"NtQueryLicenseValue"}
     ELSE UNCHANGED filters
  /\ UNCHANGED <<got, mapping, learned>>

AddContinue == AddFilters("continue", "kernel", {"NtContinue"})

(* HackAnsiOemCodeHashNodes, and the kernel DLLs hooked or to be hooked.     *)
HookKernelDlls ==
  /\ core = "initializing" /\ stage = "kernel" /\ stage' = "none"
  /\ core' = "attached"
  /\ at' = IF at = "loading" THEN "returned" ELSE at
  /\ UNCHANGED <<role, call, block, payload, frame, misused, data, got, filters, mapping, learned>>

-----------------------------------------------------------------------------

Next == \/ RefuseEnvironment \/ LepCreateBootstrapPayload \/ LdrLoadDll \/ LdrLoadDllReturns
        \/ RefuseToInitialize \/ TakePayload \/ InitializeFails \/ DllMainFails \/ Detach
        \/ InitRegistryRedirectionMode \/ InitTextMetricCache \/ ReadOriginalLocale
        \/ DuplicateSystemDirectory \/ ReadCodePages \/ AllocCodePageMapView \/ ApplyCodePages
        \/ LdrRegisterDllNotification \/ InstallHookPort \/ AddCreateUserProcess
        \/ AddLocaleFilters \/ InitializeAdvancedRegistryRedirection
        \/ InitializeVirtualMuiLanguage \/ AddValueFilter \/ AddLanguageFilters \/ AddContinue
        \/ HookKernelDlls

Spec == Init /\ [][Next]_vars

-----------------------------------------------------------------------------
(* From LepCreateBootstrapPayload on a payload has exactly one owner, the    *)
(* frame or the GlobalData, whatever fails; it is freed once and not used    *)
(* after (LoaderDll.cpp 703-727, LocaleEmulatorPlus.cpp 860-905, 752-757).   *)
OneOwner ==
  /\ ~misused
  /\ \A c \in Calls :
       (block[c] = "allocated") <=> ((frame = c) # (data.own /\ data.payload = c))

(* A payload the loader has built is one the core accepts, with its          *)
(* environment, and its parts do not overlap (LocaleEmulatorPlus.h 404-518). *)
AcceptedArrives ==
  \A c \in DOMAIN payload : payload[c] # NoPayload =>
    /\ LepValidateBootstrapPayload(payload[c])
    /\ \A i, j \in 1 .. 4 : i < j => Parts(payload[c])[i][2] < Parts(payload[c])[j][1]

(* A core that is gone or could not start leaves nothing registered; the     *)
(* code pages stay, for the PEB and ntdll refer to them                      *)
(* (LocaleEmulatorPlus.cpp 734-766).                                         *)
CleanExit ==
  /\ core \in {"absent", "gone"} => got \subseteq {"view", "applied"} /\ filters = {}
  /\ "applied" \in got => "view" \in got

(* ntdll's mapping is not made for the host's locale when its two system     *)
(* calls could be filtered, and the host's language is asked for while       *)
(* nothing answers for it (NtdllHook.cpp 2960-2964).                         *)
LocalesApart ==
  /\ LocaleFilters \subseteq filters => mapping # "host"
  /\ learned # "emulated"
=============================================================================
