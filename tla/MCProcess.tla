----------------------------- MODULE MCProcess ------------------------------
(***************************************************************************)
(* What makes a process localised and keeps it so: the start of the core,  *)
(* the registry values it redirects, the keys it presents, the processes it*)
(* creates on two threads, and the names of files.  The parts share no     *)
(* state, so one behaviour is a behaviour of one of them, chosen at the    *)
(* start; the variables of the others keep a fixed value.                  *)
(***************************************************************************)
EXTENDS RegistryKeys, Environment, Sequences, TLC

CONSTANTS h1, h2, h3, t1, t2,       \* of RegistryKeys
          MaxStray,                 \* bound: handles closed past the filter
          BufferLengths,            \* of RegistryRedirection
          MaxCalls,                 \* of Startup
          launcher, parent, narrow, broker, wide, \* of Injection
          MATCHES_ARRAY_SIZE        \* of Wildcards

ASSUME ProcessesAssumption == None \notin {launcher, parent, narrow, broker, wide}
ASSUME BoundsAssumption == MaxCalls \in Nat /\ BufferLengths \subseteq Nat

VARIABLES active,
          rModes, rTable, rStep, rPending, rUser, rHeld, rWhole, rStarved, rChain, rQuery, rReply,
          uRole, uCall, uAt, uBlock, uPayload, uFrame, uCore, uData, uStage, uGot, uFilters,
          uMapping, uLearned, uMisused,
          iRun, iEntry, iProt, iRemote, iLep, iCreator, iOuter, iResumes, iAt, iStatus, iHeld,
          iFrame, iKind, iStage, iLocal, iWritable, iOutcome, iHandle, iResult,
          wExpr, wName, wPhase, wVerdict, wAt, wFinished, wPrevious, wCurrent, wSrc, wSkip, wK, wGrown

R == INSTANCE RegistryRedirection WITH Lengths <- BufferLengths, modes <- rModes, table <- rTable,
       step <- rStep, pending <- rPending, user <- rUser, held <- rHeld, whole <- rWhole,
       starved <- rStarved, chain <- rChain, query <- rQuery, reply <- rReply

(* The core in a directory below the root, and in the root.                *)
CorePaths == {[full |-> 80, dir |-> 60], [full |-> 82, dir |-> 82]}
U == INSTANCE Startup WITH Paths <- CorePaths, role <- uRole, call <- uCall, at <- uAt,
       block <- uBlock, payload <- uPayload, frame <- uFrame, core <- uCore, data <- uData,
       stage <- uStage, got <- uGot, filters <- uFilters, mapping <- uMapping,
       learned <- uLearned, misused <- uMisused

(* The localised process parent has two threads and creates narrow, of the *)
(* other word size and therefore through broker, and wide.                 *)
WordSize == [p \in {launcher, parent, narrow, broker, wide} |-> IF p \in {narrow, broker} THEN "x86" ELSE "x64"]
I == INSTANCE Injection WITH Procs <- DOMAIN WordSize, Launcher <- launcher, Mortal <- {},
       MaxLaunches <- 1, Arch <- WordSize,
       run <- iRun, entry <- iEntry, prot <- iProt, remote <- iRemote, lep <- iLep,
       creator <- iCreator, outer <- iOuter, resumes <- iResumes, at <- iAt, status <- iStatus,
       held <- iHeld, frame <- iFrame, kind <- iKind, stage <- iStage, local <- iLocal,
       writable <- iWritable, outcome <- iOutcome, handle <- iHandle, result <- iResult

(* Bound: launcher, parent and broker are who they are called, and only      *)
(* parent creates processes.                                                 *)
Roles == /\ \A c \in {narrow, wide} : iCreator'[c] \in {None, parent} /\ iOuter'[c] = None
         /\ iCreator'[parent] \in {None, launcher}
         /\ iOuter'[broker] \in {None, narrow}

Texts(chars, n) == UNION { [1 .. i -> chars] : i \in 0 .. n }
W == INSTANCE Wildcards WITH Exprs <- Texts({"A", ".", "*", "?", "<", ">", "q"}, 3),
       Names <- Texts({"a", "."}, 3) \cup {<<"A">>, <<"A", "b">>},
       expr <- wExpr, name <- wName, phase <- wPhase, verdict <- wVerdict, at <- wAt,
       finished <- wFinished, previous <- wPrevious, current <- wCurrent, src <- wSrc,
       skip <- wSkip, k <- wK, grown <- wGrown

Components == {"keys", "redirection", "startup", "creation", "names"}
RedirectionVars == <<rModes, rTable, rStep, rPending, rUser, rHeld, rWhole, rStarved, rChain, rQuery, rReply>>
StartupVars     == <<uRole, uCall, uAt, uBlock, uPayload, uFrame, uCore, uData, uStage, uGot, uFilters,
                     uMapping, uLearned, uMisused>>
CreationVars    == <<iRun, iEntry, iProt, iRemote, iLep, iCreator, iOuter, iResumes, iAt, iStatus, iHeld,
                     iFrame, iKind, iStage, iLocal, iWritable, iOutcome, iHandle, iResult>>
NameVars        == <<wExpr, wName, wPhase, wVerdict, wAt, wFinished, wPrevious, wCurrent, wSrc, wSkip, wK, wGrown>>

MCInit ==
    /\ active \in Components
    /\ Init
    /\ IF active = "redirection" THEN R!Init
       ELSE /\ rModes = 0 /\ rTable = 0 /\ rStep = 0 /\ rPending = 0 /\ rUser = 0 /\ rHeld = 0
            /\ rWhole = 0 /\ rStarved = 0 /\ rChain = 0 /\ rQuery = 0 /\ rReply = 0
    /\ IF active = "startup" THEN U!Init
       ELSE /\ uRole = 0 /\ uCall = 0 /\ uAt = 0 /\ uBlock = 0 /\ uPayload = 0 /\ uFrame = 0
            /\ uCore = 0 /\ uData = 0 /\ uStage = 0 /\ uGot = 0 /\ uFilters = 0 /\ uMapping = 0
            /\ uLearned = 0 /\ uMisused = 0
    /\ IF active = "creation" THEN I!Init
       ELSE /\ iRun = 0 /\ iEntry = 0 /\ iProt = 0 /\ iRemote = 0 /\ iLep = 0 /\ iCreator = 0
            /\ iOuter = 0 /\ iResumes = 0 /\ iAt = 0 /\ iStatus = 0 /\ iHeld = 0 /\ iFrame = 0
            /\ iKind = 0 /\ iStage = 0 /\ iLocal = 0 /\ iWritable = 0 /\ iOutcome = 0
            /\ iHandle = 0 /\ iResult = 0
    /\ IF active = "names" THEN W!Init
       ELSE /\ wExpr = 0 /\ wName = 0 /\ wPhase = 0 /\ wVerdict = 0 /\ wAt = 0 /\ wFinished = 0
            /\ wPrevious = 0 /\ wCurrent = 0 /\ wSrc = 0 /\ wSkip = 0 /\ wK = 0 /\ wGrown = 0

MCNext ==
    /\ UNCHANGED active
    /\ \/ /\ active = "keys" /\ Next /\ Cardinality(stray') <= MaxStray
          /\ UNCHANGED <<RedirectionVars, StartupVars, CreationVars, NameVars>>
       \/ /\ active = "redirection" /\ R!Next
          /\ UNCHANGED <<vars, StartupVars, CreationVars, NameVars>>
       \/ /\ active = "startup" /\ U!Next
          /\ UNCHANGED <<vars, RedirectionVars, CreationVars, NameVars>>
       \/ /\ active = "creation" /\ I!Next /\ Roles
          /\ UNCHANGED <<vars, RedirectionVars, StartupVars, NameVars>>
       \/ /\ active = "names" /\ W!Next
          /\ UNCHANGED <<vars, RedirectionVars, StartupVars, CreationVars>>

MCSpec == MCInit /\ [][MCNext]_<<active, vars, RedirectionVars, StartupVars, CreationVars, NameVars>>

-----------------------------------------------------------------------------
(* RedirectionIsWhole and AnswerFits, of RegistryRedirection: the table has  *)
(* the entries that could be filled and no key stays open, and an emulated   *)
(* value is as long as it is told (InitRegistryRedirection, LepNtQueryValueKey). *)
RedirectionRight == active = "redirection" => R!RedirectionIsWhole /\ R!AnswerFits

(* OneOwner and CleanExit, of Startup: a payload is freed once by the one who*)
(* has it, and a core that stops leaves nothing (InitializeLEP, UnInitialize). *)
OwnedAndReleased == active = "startup" => U!OneOwner /\ U!CleanExit

(* AcceptedArrives, of Startup: what a loader may ask for is what the core   *)
(* reads (LepBuildBootstrapPayload, LepValidateBootstrapPayload).            *)
AcceptedArrives == active = "startup" => U!AcceptedArrives

(* LocalesApart, of Startup: what the host's locale is read from is read     *)
(* before it is filtered (HookNtdllRoutines).                                *)
LocalesApart == active = "startup" => U!LocalesApart

(* SuccessIsArmed, of Injection, with two threads creating processes at once *)
(* in one process: a child reported as injected is (LepNtCreateUserProcess). *)
SuccessIsArmed == active = "creation" => I!SuccessIsArmed

(* NamesAreDescribed, of Wildcards: a name is taken for a match if the       *)
(* expression describes it (IsNameInExpression).                             *)
NamesAreDescribed == active = "names" => W!NamesAreDescribed

KeySymmetry == Permutations(Threads) \cup Permutations(Handles)
=============================================================================
