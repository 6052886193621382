----------------------------- MODULE Injection -----------------------------
(***************************************************************************)
(* How the core DLL gets into a process: LepCreateProcess2 (LoaderDll) for *)
(* the first one, LepNtCreateUserProcess (the core's own hook) for all its *)
(* descendants, through a broker process when the child has the other      *)
(* word size, and LoadFirstDll, which the child runs when its loader first *)
(* calls the patched LdrLoadDll.                                           *)
(*                                                                         *)
(* A process being created is driven by one thread of its creator (at) and *)
(* worked on by that thread or by a broker (stage).  Every process may be  *)
(* killed between any two steps.  Operations on a target may fail at any   *)
(* time, and always fail when it is dead.  The flags of every injection    *)
(* are LEP_INJECT_FULL, the only ones the code passes.                     *)
(*                                                                         *)
(* A definition named Bad... is a plausible mistake in the one after it.   *)
(***************************************************************************)
EXTENDS Naturals, FiniteSets

CONSTANTS
  Procs,      \* process identifiers
  Launcher,   \* the process that calls LepCreateProcess2
  Mortal,     \* the processes that may be killed from outside
  Arch,       \* Arch[p]: the word size of p
  MaxLaunches,\* bound: calls of LepCreateProcess2 that create a process
  None

ASSUME LauncherAssumption == Launcher \in Procs /\ None \notin Procs /\ Mortal \subseteq Procs
ASSUME ArchAssumption     == Arch \in [Procs -> {"x86", "x64"}] /\ MaxLaunches \in Nat

VARIABLES
  \* a process as the kernel and its own code see it
  run,      \* "absent", "suspended", "running" or "dead"
  entry,    \* first bytes of LdrLoadDll: "native" or "jump" (to LoadFirstDll)
  prot,     \* protection of that page: "rx" or "rwx"
  remote,   \* memory allocated in it: "none", "blank", "image" or "full" (payload too)
  lep,      \* progress of LoadFirstDll
  \* the thread that creates it
  creator,  \* the process of that thread
  outer,    \* the target a broker is created for
  resumes,  \* ResumeAfterInjection, CREATE_SUSPENDED being off
  at,       \* its step
  status,   \* its Status (Status2): "ok" or "failed"
  held,     \* what it must still release
  frame,    \* is BrokerLaunchFrame pushed?
  \* the work on it, by its creator or by a broker
  kind,     \* which function does it
  stage,    \* its step
  local,    \* what the worker must still release
  writable, \* LdrLoadDllWritable
  outcome,  \* its Status
  \* LEP_BROKER_CONFIG in the mapping
  handle,   \* ProcessHandleValue # 0
  result    \* Result

processVars == << run, entry, prot, remote, lep >>
creatorVars == << creator, outer, resumes, at, status, held, frame >>
workVars    == << kind, stage, local, writable, outcome >>
configVars  == << handle, result >>
vars == << processVars, creatorVars, workVars, configVars >>

Init ==
  /\ run = [p \in Procs |-> IF p = Launcher THEN "running" ELSE "absent"]
  /\ entry = [p \in Procs |-> "native"]
  /\ prot = [p \in Procs |-> "rx"]
  /\ remote = [p \in Procs |-> "none"]
  /\ lep = [p \in Procs |-> "none"]
  /\ creator = [p \in Procs |-> None]
  /\ outer = [p \in Procs |-> None]
  /\ resumes = [p \in Procs |-> FALSE]
  /\ at = [p \in Procs |-> "none"]
  /\ status = [p \in Procs |-> "ok"]
  /\ held = [p \in Procs |-> {}]
  /\ frame = [p \in Procs |-> FALSE]
  /\ kind = [p \in Procs |-> "none"]
  /\ stage = [p \in Procs |-> "none"]
  /\ local = [p \in Procs |-> {}]
  /\ writable = [p \in Procs |-> FALSE]
  /\ outcome = [p \in Procs |-> "ok"]
  /\ handle = [p \in Procs |-> FALSE]
  /\ result = [p \in Procs |-> "failed"]

Set(f, c, value) == f' = [f EXCEPT ![c] = value]
Thread(c, from, to) == at[c] = from /\ Set(at, c, to)

Broker(c)   == { b \in Procs : outer[b] = c }
IsBroker(c) == outer[c] # None

-----------------------------------------------------------------------------
(* LepCreateProcess2 and LepCreateProcessWithHook: the payload is built,   *)
(* then the process is created suspended.  A failure up to there leaves    *)
(* nothing behind.                                                         *)
LepCreateProcess2(c, asksToRun) ==
  /\ run[Launcher] = "running" /\ run[c] = "absent" /\ Arch[c] = Arch[Launcher]
  /\ Cardinality({ p \in Procs : creator[p] = Launcher }) < MaxLaunches
  /\ Set(run, c, "suspended")
  /\ Set(creator, c, Launcher)
  /\ Set(resumes, c, asksToRun)
  /\ Set(kind, c, "launch")
  /\ Set(local, c, {"payload"})
  /\ Set(stage, c, "load")
  /\ Set(at, c, "stages")
  /\ UNCHANGED << entry, prot, remote, lep, outer, status, held, frame,
                  writable, outcome, configVars >>

BadLepNtCreateUserProcess(p, c, asksToRun) ==   \* the flag is not forced
  /\ run[p] = "running" /\ lep[p] = "ready" /\ run[c] = "absent"
  /\ Set(run, c, IF asksToRun THEN "running" ELSE "suspended")
  /\ Set(creator, c, p)
  /\ Set(resumes, c, asksToRun)
  /\ Set(at, c, "inject")
  /\ UNCHANGED << entry, prot, remote, lep, outer, status, held, frame, workVars, configVars >>

(* LepNtCreateUserProcess: whatever the caller asked, the child is created *)
(* suspended.                                                              *)
LepNtCreateUserProcess(p, c, asksToRun) ==
  /\ run[p] = "running" /\ lep[p] = "ready" /\ run[c] = "absent"
  /\ Set(run, c, "suspended")
  /\ Set(creator, c, p)
  /\ Set(resumes, c, asksToRun)
  /\ Set(at, c, "inject")
  /\ UNCHANGED << entry, prot, remote, lep, outer, status, held, frame, workVars, configVars >>

(* InjectSelfToChildProcess.  The frame is looked up in the list of the    *)
(* thread: only a thread that is launching a broker finds it.              *)
BadBrokerFrame(c) == \E x \in Procs : creator[x] = creator[c] /\ frame[x]   \* in the process

BrokerFrame(c) == IsBroker(c) /\ frame[outer[c]]

SkipInjection(c) ==
  /\ Thread(c, "inject", "resume")
  /\ BrokerFrame(c)
  /\ Set(status, c, "ok")
  /\ UNCHANGED << processVars, creator, outer, resumes, held, frame, workVars, configVars >>

InjectSameArchitecture(c) ==
  /\ Thread(c, "inject", "stages")
  /\ ~BrokerFrame(c) /\ Arch[c] = Arch[creator[c]]
  /\ Set(kind, c, "same")
  /\ Set(stage, c, "read")
  /\ UNCHANGED << processVars, creator, outer, resumes, status, held, frame,
                  local, writable, outcome, configVars >>

InjectCrossArchitecture(c) ==
  /\ Thread(c, "inject", "build")
  /\ ~BrokerFrame(c) /\ Arch[c] # Arch[creator[c]]
  /\ UNCHANGED << processVars, creator, outer, resumes, status, held, frame, workVars, configVars >>

-----------------------------------------------------------------------------
(* The work on the target.  The three functions do the same things in      *)
(* their own order; After is the order of each.                            *)

BadAfter(c) ==                           \* the payload is forgotten
  [mapping |-> "open", open |-> "query", query |-> "load", payload |-> "load", load |-> "alloc",
   alloc |-> "read", read |-> "protect", protect |-> "image", image |-> "jump"]

After(c) ==
  CASE kind[c] = "same" ->
         [read |-> "protect", protect |-> "payload", payload |-> "load", load |-> "alloc",
          alloc |-> "image", image |-> "writePayload", writePayload |-> "jump"]
    [] kind[c] = "launch" ->
         [load |-> "alloc", alloc |-> "read", read |-> "protect", protect |-> "image",
          image |-> "writePayload", writePayload |-> "jump"]
    [] kind[c] = "broker" ->
         [mapping |-> "open", open |-> "query", query |-> "load", load |-> "alloc",
          alloc |-> "read", read |-> "protect", protect |-> "image",
          image |-> "writePayload", writePayload |-> "jump"]

(* The creator's thread is at "stages" while it works itself; a broker     *)
(* works as long as it runs.                                               *)
Working(c) == at[c] = "stages" \/ \E b \in Broker(c) : run[b] = "running"

Stage(c, name) == Working(c) /\ stage[c] = name
Advance(c) == Set(stage, c, After(c)[stage[c]])
Alive(c) == run[c] # "dead"

(* What only the worker notices: the core image is loaded, the payload     *)
(* built, the bytes of LdrLoadDll saved, the handle checked.               *)
Acquire(c, name, thing) ==
  /\ Stage(c, name)
  /\ local' = [local EXCEPT ![c] = @ \cup thing]
  /\ Advance(c)
  /\ UNCHANGED << processVars, creatorVars, kind, writable, outcome, configVars >>

LoadPeImage(c)           == Acquire(c, "load", {"image"})
BuildBootstrapPayload(c) == Acquire(c, "payload", {"payload"})
ReadLdrLoadDll(c)        == Alive(c) /\ Acquire(c, "read", {})
QueryAccess(c)           == Alive(c) /\ Acquire(c, "query", {})

AllocVirtualMemoryEx(c) ==
  /\ Stage(c, "alloc") /\ Alive(c)
  /\ Set(remote, c, "blank")
  /\ Advance(c)
  /\ UNCHANGED << run, entry, prot, lep, creatorVars, kind, local, writable, outcome, configVars >>

ProtectLdrLoadDll(c) ==
  /\ Stage(c, "protect") /\ Alive(c)
  /\ Set(prot, c, "rwx")
  /\ Set(writable, c, TRUE)
  /\ Advance(c)
  /\ UNCHANGED << run, entry, remote, lep, creatorVars, kind, local, outcome, configVars >>

(* The relocated image with the bootstrap data filled in. *)
WriteImage(c) ==
  /\ Stage(c, "image") /\ Alive(c)
  /\ Set(remote, c, "image")
  /\ Advance(c)
  /\ UNCHANGED << run, entry, prot, lep, creatorVars, kind, local, writable, outcome, configVars >>

WritePayload(c) ==
  /\ Stage(c, "writePayload") /\ Alive(c)
  /\ Set(remote, c, "full")
  /\ Advance(c)
  /\ UNCHANGED << run, entry, prot, lep, creatorVars, kind, local, writable, outcome, configVars >>

WriteJump(c) ==
  /\ Stage(c, "jump") /\ Alive(c)
  /\ Set(entry, c, "jump")
  /\ Set(stage, c, IF kind[c] = "broker" THEN "report" ELSE "unload")
  /\ UNCHANGED << run, prot, remote, lep, creatorVars, kind, local, writable, outcome, configVars >>

(* A step fails.  The broker reports before it cleans up, unless it could  *)
(* not open the mapping.                                                   *)
StageFails(c) ==
  /\ Working(c)
  /\ stage[c] \in { "mapping", "open", "query", "read", "protect", "payload", "load", "alloc",
                    "image", "writePayload", "jump" }
  /\ Set(outcome, c, "failed")
  /\ Set(stage, c, IF kind[c] = "broker" /\ stage[c] # "mapping" THEN "report" ELSE "unload")
  /\ UNCHANGED << processVars, creatorVars, kind, local, writable, configVars >>

(* INJECT_FINISH_NEW, FAIL_NEW, BROKER_FINISH_NEW: the local image and the *)
(* payload, then after a failure the protection and the remote memory.     *)
ReportResult(c) ==
  /\ Stage(c, "report")
  /\ Set(result, c, outcome[c])
  /\ Set(stage, c, "unload")
  /\ UNCHANGED << processVars, creatorVars, kind, local, writable, outcome, handle >>

UnloadPeImage(c) ==
  /\ Stage(c, "unload")
  /\ Set(local, c, {})
  /\ Set(stage, c, IF outcome[c] = "ok" THEN "over" ELSE "restore")
  /\ UNCHANGED << processVars, creatorVars, kind, writable, outcome, configVars >>

BadRestoreProtection(c) ==               \* only the memory is given back
  /\ Stage(c, "restore")
  /\ Set(stage, c, "free")
  /\ UNCHANGED << processVars, creatorVars, kind, local, writable, outcome, configVars >>

RestoreProtection(c) ==
  /\ Stage(c, "restore")
  /\ IF writable[c] /\ Alive(c) THEN Set(prot, c, "rx") ELSE UNCHANGED prot
  /\ Set(stage, c, "free")
  /\ UNCHANGED << run, entry, remote, lep, creatorVars, kind, local, writable, outcome, configVars >>

FreeRemoteImage(c) ==
  /\ Stage(c, "free")
  /\ IF Alive(c) THEN Set(remote, c, "none") ELSE UNCHANGED remote
  /\ Set(stage, c, "over")
  /\ UNCHANGED << run, entry, prot, lep, creatorVars, kind, local, writable, outcome, configVars >>

(* The work of the creator's own thread is over. *)
InjectionReturns(c) ==
  /\ Thread(c, "stages", "resume")
  /\ stage[c] = "over"
  /\ Set(status, c, outcome[c])
  /\ UNCHANGED << processVars, creator, outer, resumes, held, frame, workVars, configVars >>

-----------------------------------------------------------------------------
(* InjectCrossArchitecture, the creator's side.  Whatever fails, what was  *)
(* acquired before is released and the child goes on.                      *)

BadCrossFails(c) ==                      \* the mapping stays open
  /\ at[c] \in { "build", "map", "view", "launch" }
  /\ Set(at, c, "resume")
  /\ Set(status, c, "failed")
  /\ held' = [held EXCEPT ![c] = @ \ {"payload", "view"}]
  /\ UNCHANGED << processVars, creator, outer, resumes, frame, workVars, configVars >>

CrossFails(c) ==
  /\ at[c] \in { "build", "map", "view", "launch" }
  /\ Set(at, c, "resume")
  /\ Set(status, c, "failed")
  /\ Set(held, c, {})
  /\ UNCHANGED << processVars, creator, outer, resumes, frame, workVars, configVars >>

CrossAcquires(c, from, to, now) ==
  /\ Thread(c, from, to)
  /\ Set(held, c, now)
  /\ UNCHANGED << processVars, creator, outer, resumes, status, frame, workVars, configVars >>

BuildBrokerPayload(c) == CrossAcquires(c, "build", "map", {"payload"})
CreateFileMapping(c)  == CrossAcquires(c, "map", "view", {"payload", "mapping"})
MapViewOfFile(c)      == CrossAcquires(c, "view", "launch", {"mapping", "view"})

(* CreateProcessW, CREATE_SUSPENDED, with the frame pushed: the call gets  *)
(* to LepNtCreateUserProcess on this very thread.                          *)
LaunchBroker(c, b) ==
  /\ at[c] = "launch" /\ run[b] = "absent" /\ Arch[b] = Arch[c]
  /\ Set(frame, c, TRUE)
  /\ Set(run, b, "suspended")
  /\ Set(creator, b, creator[c])
  /\ Set(outer, b, c)
  /\ at' = [at EXCEPT ![c] = "launching", ![b] = "inject"]
  /\ UNCHANGED << entry, prot, remote, lep, resumes, status, held, workVars, configVars >>

PopFrame(c) ==
  /\ Thread(c, "launching", "duplicate")
  /\ \A b \in Broker(c) : at[b] = "done"
  /\ Set(frame, c, FALSE)
  /\ UNCHANGED << processVars, creator, outer, resumes, status, held, workVars, configVars >>

(* The broker gets a handle of its own; when that fails it opens one. *)
DuplicateHandle(c) ==
  /\ Thread(c, "duplicate", "start")
  /\ held' = [held EXCEPT ![c] = @ \cup {"broker"}]
  /\ \E duplicated \in BOOLEAN : Set(handle, c, duplicated)
  /\ UNCHANGED << processVars, creator, outer, resumes, status, frame, workVars, result >>

ResumeBroker(c) ==
  /\ Thread(c, "start", "wait")
  /\ \E b \in Broker(c) : run[b] = "suspended" /\ Set(run, b, "running")
  /\ Set(kind, c, "broker")
  /\ Set(stage, c, "mapping")
  /\ UNCHANGED << entry, prot, remote, lep, creator, outer, resumes, status, held, frame,
                  local, writable, outcome, configVars >>

ResumeBrokerFails(c) ==
  /\ Thread(c, "start", "resume")
  /\ \E b \in Broker(c) : Set(run, b, "dead")
  /\ Set(status, c, "failed")
  /\ Set(held, c, {})
  /\ UNCHANGED << entry, prot, remote, lep, creator, outer, resumes, frame, workVars, configVars >>

BadReadResult(c) ==                      \* the broker's exit says nothing
  /\ Thread(c, "wait", "resume")
  /\ \A b \in Broker(c) : run[b] = "dead"
  /\ Set(status, c, "ok")
  /\ Set(held, c, {})
  /\ UNCHANGED << processVars, creator, outer, resumes, frame, workVars, configVars >>

BadWaitForResult(c) ==                   \* polls for a success instead
  /\ Thread(c, "wait", "resume")
  /\ result[c] = "ok"
  /\ Set(status, c, "ok")
  /\ Set(held, c, {})
  /\ UNCHANGED << processVars, creator, outer, resumes, frame, workVars, configVars >>

(* WaitForSingleObject(INFINITE), then Config->Result. *)
ReadResult(c) ==
  /\ Thread(c, "wait", "resume")
  /\ \A b \in Broker(c) : run[b] = "dead"
  /\ Set(status, c, result[c])
  /\ Set(held, c, {})
  /\ UNCHANGED << processVars, creator, outer, resumes, frame, workVars, configVars >>

-----------------------------------------------------------------------------
(* LepBrokerInject before the work: the mapping must still be open in the  *)
(* creator or here, and Result starts as a failure.                        *)

OpenMapping(c) ==
  /\ Stage(c, "mapping") /\ "mapping" \in held[c]
  /\ Set(result, c, "failed")
  /\ Advance(c)
  /\ UNCHANGED << processVars, creatorVars, kind, local, writable, outcome, handle >>

(* The duplicated handle, or OpenProcess. *)
AcceptHandle(c) ==
  /\ handle[c] \/ Alive(c)
  /\ Acquire(c, "open", {"process"})

BrokerExits(c) ==
  /\ stage[c] = "over" /\ kind[c] = "broker"
  /\ \E b \in Broker(c) : run[b] = "running" /\ Set(run, b, "dead")
  /\ UNCHANGED << entry, prot, remote, lep, creatorVars, workVars, configVars >>

-----------------------------------------------------------------------------
(* The end of a creation. *)

ResumeLaunched(c) ==
  /\ Thread(c, "resume", "done") /\ kind[c] = "launch"
  /\ CASE status[c] = "failed" -> Set(run, c, "dead")
       [] status[c] = "ok" /\ ~resumes[c] -> UNCHANGED run
       [] status[c] = "ok" /\ resumes[c] ->
            run' \in { [run EXCEPT ![c] = s] : s \in IF Alive(c) THEN {"running", "dead"} ELSE {"dead"} }
  /\ UNCHANGED << entry, prot, remote, lep, creator, outer, resumes, status, held, frame,
                  workVars, configVars >>

(* Whatever Status2 says; a failure of NtResumeThread is only logged. *)
ResumeChild(c) ==
  /\ Thread(c, "resume", "done") /\ kind[c] # "launch"
  /\ \/ resumes[c] /\ Alive(c) /\ Set(run, c, "running")
     \/ UNCHANGED run
  /\ UNCHANGED << entry, prot, remote, lep, creator, outer, resumes, status, held, frame,
                  workVars, configVars >>

(* A caller that asked for a suspended process resumes it when it likes. *)
CallerResumes(c) ==
  /\ at[c] = "done" /\ ~IsBroker(c)
  /\ run[c] = "suspended" /\ run[creator[c]] = "running"
  /\ Set(run, c, "running")
  /\ UNCHANGED << entry, prot, remote, lep, creatorVars, workVars, configVars >>

(* A process dies with its threads: what they held is closed by the        *)
(* kernel, what they were doing stays half done.                           *)
Kill(p) ==
  /\ p \in Mortal /\ run[p] \in {"suspended", "running"}
  /\ Set(run, p, "dead")
  /\ LET Left == { c \in Procs : creator[c] = p /\ at[c] \notin {"none", "done"} }
         Cut  == { c \in Procs : /\ stage[c] \notin {"none", "over"}
                                 /\ (c \in Left /\ at[c] = "stages") \/ p \in Broker(c) }
     IN /\ at' = [c \in Procs |-> IF c \in Left THEN "abandoned" ELSE at[c]]
        /\ held' = [c \in Procs |-> IF c \in Left THEN {} ELSE held[c]]
        /\ frame' = [c \in Procs |-> IF c \in Left THEN FALSE ELSE frame[c]]
        /\ stage' = [c \in Procs |-> IF c \in Cut THEN "lost" ELSE stage[c]]
        /\ local' = [c \in Procs |-> IF c \in Cut THEN {} ELSE local[c]]
  /\ UNCHANGED << entry, prot, remote, lep, creator, outer, resumes, status,
                  kind, writable, outcome, configVars >>

-----------------------------------------------------------------------------
(* The child.  Its loader calls LdrLoadDll: LoadFirstDll puts the bytes    *)
(* and the protection back, then validates the payload and initialises.    *)

LoadFirstDll(c) ==
  /\ run[c] = "running" /\ entry[c] = "jump" /\ lep[c] = "none"
  /\ IF remote[c] \in {"image", "full"}
       THEN Set(entry, c, "native") /\ Set(lep, c, "restored")
       ELSE Set(lep, c, "crashed") /\ UNCHANGED entry
  /\ UNCHANGED << run, prot, remote, creatorVars, workVars, configVars >>

RestorePage(c) ==
  /\ run[c] = "running" /\ lep[c] = "restored"
  /\ \/ Set(prot, c, "rx") /\ Set(lep, c, "protected")
     \/ Set(lep, c, "failed") /\ UNCHANGED prot
  /\ UNCHANGED << run, entry, remote, creatorVars, workVars, configVars >>

Initialize(c) ==
  /\ run[c] = "running" /\ lep[c] = "protected"
  /\ \/ remote[c] = "full" /\ Set(lep, c, "ready")
     \/ Set(lep, c, "failed")
  /\ UNCHANGED << run, entry, prot, remote, creatorVars, workVars, configVars >>

-----------------------------------------------------------------------------
Work(c) ==
  \/ LoadPeImage(c) \/ BuildBootstrapPayload(c) \/ ReadLdrLoadDll(c) \/ QueryAccess(c)
  \/ AllocVirtualMemoryEx(c) \/ ProtectLdrLoadDll(c)
  \/ WriteImage(c) \/ WritePayload(c) \/ WriteJump(c)
  \/ StageFails(c)
  \/ ReportResult(c) \/ UnloadPeImage(c) \/ RestoreProtection(c) \/ FreeRemoteImage(c)
  \/ OpenMapping(c) \/ AcceptHandle(c) \/ BrokerExits(c)

Create(c) ==
  \/ SkipInjection(c) \/ InjectSameArchitecture(c) \/ InjectCrossArchitecture(c)
  \/ InjectionReturns(c)
  \/ BuildBrokerPayload(c) \/ CreateFileMapping(c) \/ MapViewOfFile(c) \/ CrossFails(c)
  \/ \E b \in Procs : LaunchBroker(c, b)
  \/ PopFrame(c) \/ DuplicateHandle(c) \/ ResumeBroker(c) \/ ResumeBrokerFails(c) \/ ReadResult(c)
  \/ ResumeLaunched(c) \/ ResumeChild(c)

Bootstrap(c) == LoadFirstDll(c) \/ RestorePage(c) \/ Initialize(c)

Next ==
  \E c \in Procs :
    \/ \E asksToRun \in BOOLEAN :
         \/ LepCreateProcess2(c, asksToRun)
         \/ \E p \in Procs : LepNtCreateUserProcess(p, c, asksToRun)
    \/ Create(c) \/ Work(c) \/ Bootstrap(c)
    \/ CallerResumes(c)
    \/ Kill(c)

Spec == Init /\ [][Next]_vars

(* The threads of living processes are scheduled.  Nothing is assumed of   *)
(* callers, nor of who kills processes.                                    *)
Fairness == \A c \in Procs : WF_vars(Create(c)) /\ WF_vars(Work(c))
FairSpec == Spec /\ Fairness

-----------------------------------------------------------------------------
Steps  == { "none", "inject", "stages", "build", "map", "view", "launch", "launching",
            "duplicate", "start", "wait", "resume", "done", "abandoned" }
Stages == { "none", "mapping", "open", "query", "read", "protect", "payload", "load", "alloc",
            "image", "writePayload", "jump", "report", "unload", "restore", "free", "over", "lost" }

(* Every variable has its type; a process exists from its creation on. *)
TypeOK ==
  /\ run \in [Procs -> {"absent", "suspended", "running", "dead"}]
  /\ entry \in [Procs -> {"native", "jump"}]
  /\ prot \in [Procs -> {"rx", "rwx"}]
  /\ remote \in [Procs -> {"none", "blank", "image", "full"}]
  /\ lep \in [Procs -> {"none", "restored", "protected", "ready", "failed", "crashed"}]
  /\ creator \in [Procs -> Procs \cup {None}]
  /\ outer \in [Procs -> Procs \cup {None}]
  /\ resumes \in [Procs -> BOOLEAN]
  /\ at \in [Procs -> Steps]
  /\ status \in [Procs -> {"ok", "failed"}]
  /\ held \in [Procs -> SUBSET {"payload", "mapping", "view", "broker"}]
  /\ frame \in [Procs -> BOOLEAN]
  /\ kind \in [Procs -> {"none", "launch", "same", "broker"}]
  /\ stage \in [Procs -> Stages]
  /\ local \in [Procs -> SUBSET {"payload", "image", "process"}]
  /\ writable \in [Procs -> BOOLEAN]
  /\ outcome \in [Procs -> {"ok", "failed"}]
  /\ handle \in [Procs -> BOOLEAN]
  /\ result \in [Procs -> {"ok", "failed"}]
  /\ \A p \in Procs : run[p] = "absent" => at[p] = "none" /\ entry[p] = "native"

(* A process that runs never jumps from LdrLoadDll into memory that does   *)
(* not hold the whole image and its payload, however the injection ended   *)
(* and whoever was killed during it (LepCreateProcessWithHook,             *)
(* InjectSelfToChildProcess, LepBrokerInject).                             *)
EntryIsSound ==
  \A c \in Procs :
    /\ run[c] = "running" /\ entry[c] = "jump" => remote[c] = "full"
    /\ lep[c] # "crashed"

(* A creation that tells success left a suspended child that will start in *)
(* LoadFirstDll, brokers excepted; also when a broker reported it.         *)
SuccessIsArmed ==
  \A c \in Procs :
    at[c] \in {"resume", "done"} /\ status[c] = "ok" /\ run[c] = "suspended" /\ ~IsBroker(c) =>
      entry[c] = "jump" /\ remote[c] = "full"

(* A failed injection leaves the child as it was, unless the process that  *)
(* worked on it was killed.                                                *)
FailureIsClean ==
  \A c \in Procs :
    at[c] \in {"resume", "done"} /\ status[c] = "failed" /\ stage[c] # "lost" /\ run[c] # "dead" =>
      entry[c] = "native" /\ prot[c] = "rx" /\ remote[c] = "none"

(* Every way out of a creation releases the payload, mapping, view, local  *)
(* image and broker handles, and pops the frame.                           *)
NothingLeaked ==
  \A c \in Procs :
    /\ at[c] \in {"resume", "done"} => held[c] = {} /\ ~frame[c]
    /\ stage[c] = "over" => local[c] \subseteq {"process"}

(* What a creation tells its caller is so, and it leaves nothing behind:   *)
(* the child is armed after success and untouched after a failure          *)
(* (LepCreateProcessWithHook, InjectCrossArchitecture).                    *)
OutcomeIsTrue == SuccessIsArmed /\ FailureIsClean /\ NothingLeaked

(* A creation returns, whatever fails and whoever is killed; in particular *)
(* the endless wait for the broker ends.                                   *)
CreationsReturn ==
  \A c \in Procs : at[c] # "none" ~> at[c] \in {"done", "abandoned"}

-----------------------------------------------------------------------------
(* What all of this is for: the life of a process as its creator sees it.  *)

Phase(c) ==
  CASE run[c] = "absent"    -> "absent"
    [] run[c] = "dead"      -> "dead"
    [] run[c] = "suspended" -> IF entry[c] = "jump" THEN "armed" ELSE "held"
    [] run[c] = "running"   ->
         CASE lep[c] = "none" -> IF entry[c] = "jump" THEN "entering" ELSE "plain"
           [] lep[c] \in {"restored", "protected"} -> "entering"
           [] OTHER -> lep[c]

Life == INSTANCE ProcessLife WITH phase <- [c \in Procs |-> Phase(c)]

(* Injection implements ProcessLife: a process becomes localised only by   *)
(* being armed while it is suspended, and one that started plain stays so. *)
ImplementsLife == Life!Spec
=============================================================================
