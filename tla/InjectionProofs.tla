--------------------------- MODULE InjectionProofs ---------------------------
(* Theorems about Injection for any processes and creations: an entry that   *)
(* jumps has its whole image, what a creation tells its caller is so, and    *)
(* each process follows ProcessLife.                                         *)
EXTENDS Injection, TLAPS

-----------------------------------------------------------------------------
(* The invariant.  Early are the steps of a creation before the work on its  *)
(* process begins; each function works through its own stages.               *)

Early   == {"inject", "build", "map", "view", "launch", "launching", "duplicate", "start"}
Common  == {"load", "alloc", "read", "protect", "image", "writePayload", "jump"}
Ending  == {"unload", "restore", "free", "over", "lost"}
StagesOf(k) == Common \cup Ending \cup
               CASE k = "same"   -> {"payload"}
                 [] k = "launch" -> {}
                 [] k = "broker" -> {"mapping", "open", "query", "report"}

(* How far a creation is and how far the work on its process.                *)
ProgressInv(c) ==
  /\ run[c] = "absent" => at[c] = "none" /\ outer[c] = None
  /\ at[c] \in Early \cup {"none"} => stage[c] = "none"
  /\ at[c] = "wait" => stage[c] # "none" /\ kind[c] = "broker"
  /\ stage[c] \notin {"none", "over", "lost"} => at[c] \in {"stages", "wait", "abandoned"}
  /\ stage[c] # "none" => kind[c] # "none" /\ stage[c] \in StagesOf(kind[c])
  /\ at[c] \notin {"none", "done"} => run[c] \in {"suspended", "dead"}
  /\ run[c] \in {"absent", "suspended"} => lep[c] = "none"

(* What the work has done to the process.                                    *)
WorkInv(c) ==
  /\ stage[c] = "none" => /\ entry[c] = "native" /\ prot[c] = "rx" /\ remote[c] = "none"
                          /\ outcome[c] = "ok"
  /\ stage[c] = "jump" => remote[c] = "full"
  /\ outcome[c] = "failed" => stage[c] \in Ending \cup {"report"}
  /\ stage[c] \in {"restore", "free"} => outcome[c] = "failed"
  /\ entry[c] = "jump" => /\ remote[c] = "full" /\ outcome[c] = "ok"
                          /\ stage[c] \in {"report", "unload", "over", "lost"}
  /\ prot[c] = "rwx" => writable[c]
  /\ stage[c] = "free" /\ run[c] # "dead" => prot[c] = "rx"
  /\ stage[c] = "over" /\ outcome[c] = "failed" /\ run[c] # "dead" =>
       prot[c] = "rx" /\ remote[c] = "none"
  /\ stage[c] \in {"restore", "free", "over"} => local[c] = {}
  /\ lep[c] # "crashed"

(* What is told of it, and what the creation holds.                          *)
ToldInv(c) ==
  /\ stage[c] \in {"report", "unload", "over"} /\ outcome[c] = "ok" /\ run[c] = "suspended" =>
       entry[c] = "jump"
  /\ result[c] = "ok" => /\ outcome[c] = "ok" /\ stage[c] \in {"unload", "over", "lost"}
                         /\ run[c] = "suspended" => entry[c] = "jump"
  /\ kind[c] = "broker" /\ stage[c] \in {"unload", "restore", "free", "over"} =>
       result[c] = outcome[c]
  /\ at[c] \in {"resume", "done"} /\ status[c] = "ok" /\ outer[c] = None /\ run[c] = "suspended" =>
       entry[c] = "jump"
  /\ at[c] \in {"resume", "done"} /\ status[c] = "failed" /\ stage[c] # "lost" =>
       stage[c] = "none" \/ (stage[c] = "over" /\ outcome[c] = "failed")
  /\ at[c] \in {"none", "inject", "stages", "build", "resume", "done"} => held[c] = {}
  /\ frame[c] => at[c] = "launching"

Local(c) == ProgressInv(c) /\ WorkInv(c) /\ ToldInv(c)

(* A broker's own creation is over before it is started, and one runs while  *)
(* its work is not over.                                                     *)
BrokersInv ==
  \A c \in Procs :
    /\ at[c] \in {"duplicate", "start", "wait"} => \A b \in Broker(c) : at[b] = "done"
    /\ at[c] = "wait" /\ stage[c] \notin {"over", "lost"} => \E b \in Broker(c) : run[b] = "running"

IInv == TypeOK /\ (\A c \in Procs : Local(c)) /\ BrokersInv

-----------------------------------------------------------------------------

LEMMA InitEstablishesIInv == Init => IInv
<1> SUFFICES ASSUME Init PROVE IInv
  OBVIOUS
<1> USE LauncherAssumption DEF Init
<1>1. TypeOK BY DEF TypeOK, Steps, Stages
<1>2. ASSUME NEW c \in Procs PROVE Local(c)
  BY DEF Local, ProgressInv, WorkInv, ToldInv, Early
<1>3. BrokersInv BY DEF BrokersInv
<1> QED BY <1>1, <1>2, <1>3 DEF IInv

(* Nothing of a process changes.                                             *)
SameAt(d) ==
  /\ run'[d] = run[d] /\ entry'[d] = entry[d] /\ prot'[d] = prot[d]
  /\ remote'[d] = remote[d] /\ lep'[d] = lep[d]
  /\ outer'[d] = outer[d] /\ at'[d] = at[d] /\ status'[d] = status[d]
  /\ held'[d] = held[d] /\ frame'[d] = frame[d]
  /\ kind'[d] = kind[d] /\ stage'[d] = stage[d] /\ local'[d] = local[d]
  /\ writable'[d] = writable[d] /\ outcome'[d] = outcome[d] /\ result'[d] = result[d]

LEMMA LocalStays == ASSUME NEW d \in Procs, Local(d), SameAt(d) PROVE Local(d)'
BY DEF Local, ProgressInv, WorkInv, ToldInv, SameAt

(* A step of the creation of c, or of the work on c, that starts no broker   *)
(* and ends no process.                                                      *)
LEMMA BrokersStay ==
  ASSUME IInv, NEW c \in Procs, outer' = outer,
         \A d \in Procs : d # c => at'[d] = at[d] /\ stage'[d] = stage[d],
         \A d \in Procs : run[d] = "running" => run'[d] = "running",
         at[c] = "done" => at'[c] = "done",
         at'[c] \in {"duplicate", "start", "wait"} =>
           at[c] \in {"duplicate", "start", "wait"} /\ (at'[c] = "wait" => at[c] = "wait"),
         stage'[c] \notin {"over", "lost"} => stage[c] \notin {"over", "lost"}
  PROVE  BrokersInv'
<1>1. ASSUME NEW d \in Procs, at'[d] \in {"duplicate", "start", "wait"}, NEW b \in Broker(d)'
      PROVE  at'[b] = "done"
  BY <1>1 DEF IInv, BrokersInv, Broker
<1>2. ASSUME NEW d \in Procs, at'[d] = "wait", stage'[d] \notin {"over", "lost"}
      PROVE  \E b \in Broker(d)' : run'[b] = "running"
  BY <1>2 DEF IInv, BrokersInv, Broker
<1> QED BY <1>1, <1>2 DEF BrokersInv

(* A step that changes one process, well.                                    *)
LEMMA OneProcess ==
  ASSUME IInv, NEW c \in Procs, TypeOK', Local(c)', BrokersInv',
         \A d \in Procs \ {c} : SameAt(d)
  PROVE  IInv'
<1>1. ASSUME NEW d \in Procs, d # c PROVE Local(d)'
  BY <1>1, LocalStays DEF IInv
<1> QED BY <1>1 DEF IInv

(* The next stage of a function is one of its own; only the payload's is     *)
(* followed by the jump.                                                     *)
LEMMA NextStage ==
  ASSUME IInv, NEW c \in Procs, stage[c] \in Common \cup {"mapping", "open", "query", "payload"},
         stage[c] # "jump", Advance(c)
  PROVE  \E next \in Stages : /\ stage' = [stage EXCEPT ![c] = next]
                              /\ next \in StagesOf(kind[c]) \ (Ending \cup {"report", "none"})
                              /\ next = "jump" <=> stage[c] = "writePayload"
<1>1. kind[c] \in {"same", "launch", "broker"} /\ stage[c] \in StagesOf(kind[c])
  BY DEF IInv, TypeOK, Local, ProgressInv, Common
<1>2. stage' = [stage EXCEPT ![c] = After(c)[stage[c]]]
  BY <1>1 DEF Advance, Set
<1>3. CASE kind[c] = "same"
  <2>1. /\ After(c)[stage[c]] \in Common \cup {"payload"}
        /\ After(c)[stage[c]] = "jump" <=> stage[c] = "writePayload"
    BY <1>1, <1>3 DEF After, StagesOf, Common, Ending
  <2>2. After(c)[stage[c]] \in Stages \cap (StagesOf("same") \ (Ending \cup {"report", "none"}))
    BY <2>1 DEF StagesOf, Common, Ending, Stages
  <2> QED BY <1>2, <1>3, <2>1, <2>2
<1>4. CASE kind[c] = "launch"
  <2>1. After(c)[stage[c]] \in Common /\ (After(c)[stage[c]] = "jump" <=> stage[c] = "writePayload")
    BY <1>1, <1>4 DEF After, StagesOf, Common, Ending
  <2>2. After(c)[stage[c]] \in Stages \cap (StagesOf("launch") \ (Ending \cup {"report", "none"}))
    BY <2>1 DEF StagesOf, Common, Ending, Stages
  <2> QED BY <1>2, <1>4, <2>1, <2>2
<1>5. CASE kind[c] = "broker"
  <2>1. /\ After(c)[stage[c]] \in Common \cup {"open", "query"}
        /\ After(c)[stage[c]] = "jump" <=> stage[c] = "writePayload"
    BY <1>1, <1>5 DEF After, StagesOf, Common, Ending
  <2>2. After(c)[stage[c]] \in Stages \cap (StagesOf("broker") \ (Ending \cup {"report", "none"}))
    BY <2>1 DEF StagesOf, Common, Ending, Stages
  <2> QED BY <1>2, <1>5, <2>1, <2>2
<1> QED BY <1>1, <1>3, <1>4, <1>5

(* A step of the work that succeeds: the next stage begins.                  *)
LEMMA AdvanceKeepsIInv ==
  ASSUME IInv, NEW c \in Procs, stage[c] \in Common \cup {"mapping", "open", "query", "payload"},
         stage[c] # "jump", Advance(c),
         remote' \in [Procs -> {"none", "blank", "image", "full"}],
         prot' \in [Procs -> {"rx", "rwx"}], writable' \in [Procs -> BOOLEAN],
         local' \in [Procs -> SUBSET {"payload", "image", "process"}],
         result' \in [Procs -> {"ok", "failed"}],
         \A d \in Procs \ {c} : SameAt(d),
         stage[c] = "writePayload" => remote'[c] = "full",
         prot'[c] = "rwx" => writable'[c],
         result'[c] \in {result[c], "failed"},
         UNCHANGED << run, entry, lep, creatorVars, kind, outcome, handle >>
  PROVE  IInv'
<1>1. PICK next \in Stages : /\ stage' = [stage EXCEPT ![c] = next]
                             /\ next \in StagesOf(kind[c]) \ (Ending \cup {"report", "none"})
                             /\ next = "jump" <=> stage[c] = "writePayload"
  BY NextStage
<1>2. UNCHANGED << run, entry, lep, creator, outer, resumes, at, status, held, frame, kind, outcome, handle >>
  BY DEF creatorVars
<1>3. TypeOK BY DEF IInv
<1>4. TypeOK' BY <1>1, <1>2, <1>3 DEF TypeOK
<1>5. stage'[c] = next BY <1>1, <1>3 DEF TypeOK
<1>6. stage[c] \notin Ending \cup {"none", "report"} BY DEF Common, Ending
<1>7. Local(c) BY DEF IInv
<1>8. ProgressInv(c)'
  BY <1>1, <1>2, <1>5, <1>6, <1>7 DEF Local, ProgressInv, Ending, Early, StagesOf
<1>9. outcome[c] = "ok" /\ entry[c] = "native" /\ result[c] = "failed"
  BY <1>3, <1>6, <1>7 DEF Local, WorkInv, ToldInv, Ending, TypeOK
<1>10. WorkInv(c)'
  BY <1>1, <1>2, <1>5, <1>6, <1>7, <1>9 DEF Local, WorkInv, Ending
<1>11. ToldInv(c)'
  BY <1>1, <1>2, <1>5, <1>6, <1>7, <1>9 DEF Local, ToldInv, ProgressInv, Ending
<1>12. BrokersInv'
  BY <1>2, <1>5, <1>6, BrokersStay DEF SameAt, Ending
<1> QED BY <1>4, <1>8, <1>10, <1>11, <1>12, OneProcess DEF Local

(* What only the worker notices.                                             *)
LEMMA AcquireKeepsIInv ==
  ASSUME IInv, NEW c \in Procs, NEW name \in Common \cup {"open", "query", "payload"},
         name \notin {"jump", "writePayload"},
         NEW thing \in SUBSET {"payload", "image", "process"}, Acquire(c, name, thing)
  PROVE  IInv'
<1>t. TypeOK BY DEF IInv
<1>w. prot[c] = "rwx" => writable[c] BY DEF IInv, Local, WorkInv
<1>1. /\ stage[c] = name /\ Advance(c)
      /\ UNCHANGED << run, entry, prot, remote, lep, creatorVars, kind, writable, outcome, handle, result >>
      /\ local' = [local EXCEPT ![c] = @ \cup thing]
  BY DEF Acquire, Stage, processVars, configVars
<1>2. local' \in [Procs -> SUBSET {"payload", "image", "process"}] BY <1>t, <1>1 DEF TypeOK
<1>3. \A d \in Procs \ {c} : SameAt(d)
  BY <1>t, <1>1 DEF TypeOK, SameAt, Advance, Set, creatorVars
<1>4. /\ remote' \in [Procs -> {"none", "blank", "image", "full"}]
      /\ prot' \in [Procs -> {"rx", "rwx"}] /\ writable' \in [Procs -> BOOLEAN]
      /\ result' \in [Procs -> {"ok", "failed"}]
      /\ (prot'[c] = "rwx" => writable'[c]) /\ result'[c] \in {result[c], "failed"}
  BY <1>t, <1>w, <1>1 DEF TypeOK
<1> QED BY <1>1, <1>2, <1>3, <1>4, AdvanceKeepsIInv

(* The work on a process, while nothing fails.                               *)
LEMMA WorkKeepsIInv ==
  ASSUME IInv, NEW c \in Procs,
         LoadPeImage(c) \/ BuildBootstrapPayload(c) \/ ReadLdrLoadDll(c) \/ QueryAccess(c) \/ AcceptHandle(c)
         \/ AllocVirtualMemoryEx(c) \/ ProtectLdrLoadDll(c) \/ WriteImage(c) \/ WritePayload(c) \/ OpenMapping(c)
  PROVE  IInv'
<1> USE DEF Set
<1>t. TypeOK BY DEF IInv
<1>w. prot[c] = "rwx" => writable[c] BY DEF IInv, Local, WorkInv
<1>1. CASE AllocVirtualMemoryEx(c)
  <2>1. /\ stage[c] = "alloc" /\ Advance(c)
        /\ UNCHANGED << run, entry, lep, creatorVars, kind, outcome, handle >>
    BY <1>1 DEF AllocVirtualMemoryEx, Stage, processVars, configVars
  <2>2. /\ remote' \in [Procs -> {"none", "blank", "image", "full"}]
        /\ prot' \in [Procs -> {"rx", "rwx"}] /\ writable' \in [Procs -> BOOLEAN]
        /\ local' \in [Procs -> SUBSET {"payload", "image", "process"}]
        /\ result' \in [Procs -> {"ok", "failed"}]
    BY <1>t, <1>1 DEF AllocVirtualMemoryEx, TypeOK, processVars, configVars
  <2>3. \A d \in Procs \ {c} : SameAt(d)
    BY <1>t, <1>1 DEF AllocVirtualMemoryEx, TypeOK, SameAt, Advance, processVars, creatorVars, configVars
  <2>4. /\ prot'[c] = "rwx" => writable'[c]
        /\ result'[c] \in {result[c], "failed"}
        /\ stage[c] = "writePayload" => remote'[c] = "full"
    BY <1>t, <1>w, <1>1 DEF AllocVirtualMemoryEx, TypeOK, Stage, processVars, configVars
  <2>5. stage[c] \in Common \cup {"mapping", "open", "query", "payload"} /\ stage[c] # "jump"
    BY <2>1 DEF Common
  <2> QED BY <2>1, <2>2, <2>3, <2>4, <2>5, AdvanceKeepsIInv
<1>2. CASE ProtectLdrLoadDll(c)
  <2>1. /\ stage[c] = "protect" /\ Advance(c)
        /\ UNCHANGED << run, entry, lep, creatorVars, kind, outcome, handle >>
    BY <1>2 DEF ProtectLdrLoadDll, Stage, processVars, configVars
  <2>2. /\ remote' \in [Procs -> {"none", "blank", "image", "full"}]
        /\ prot' \in [Procs -> {"rx", "rwx"}] /\ writable' \in [Procs -> BOOLEAN]
        /\ local' \in [Procs -> SUBSET {"payload", "image", "process"}]
        /\ result' \in [Procs -> {"ok", "failed"}]
    BY <1>t, <1>2 DEF ProtectLdrLoadDll, TypeOK, processVars, configVars
  <2>3. \A d \in Procs \ {c} : SameAt(d)
    BY <1>t, <1>2 DEF ProtectLdrLoadDll, TypeOK, SameAt, Advance, processVars, creatorVars, configVars
  <2>4. /\ prot'[c] = "rwx" => writable'[c]
        /\ result'[c] \in {result[c], "failed"}
        /\ stage[c] = "writePayload" => remote'[c] = "full"
    BY <1>t, <1>w, <1>2 DEF ProtectLdrLoadDll, TypeOK, Stage, processVars, configVars
  <2>5. stage[c] \in Common \cup {"mapping", "open", "query", "payload"} /\ stage[c] # "jump"
    BY <2>1 DEF Common
  <2> QED BY <2>1, <2>2, <2>3, <2>4, <2>5, AdvanceKeepsIInv
<1>3. CASE WriteImage(c)
  <2>1. /\ stage[c] = "image" /\ Advance(c)
        /\ UNCHANGED << run, entry, lep, creatorVars, kind, outcome, handle >>
    BY <1>3 DEF WriteImage, Stage, processVars, configVars
  <2>2. /\ remote' \in [Procs -> {"none", "blank", "image", "full"}]
        /\ prot' \in [Procs -> {"rx", "rwx"}] /\ writable' \in [Procs -> BOOLEAN]
        /\ local' \in [Procs -> SUBSET {"payload", "image", "process"}]
        /\ result' \in [Procs -> {"ok", "failed"}]
    BY <1>t, <1>3 DEF WriteImage, TypeOK, processVars, configVars
  <2>3. \A d \in Procs \ {c} : SameAt(d)
    BY <1>t, <1>3 DEF WriteImage, TypeOK, SameAt, Advance, processVars, creatorVars, configVars
  <2>4. /\ prot'[c] = "rwx" => writable'[c]
        /\ result'[c] \in {result[c], "failed"}
        /\ stage[c] = "writePayload" => remote'[c] = "full"
    BY <1>t, <1>w, <1>3 DEF WriteImage, TypeOK, Stage, processVars, configVars
  <2>5. stage[c] \in Common \cup {"mapping", "open", "query", "payload"} /\ stage[c] # "jump"
    BY <2>1 DEF Common
  <2> QED BY <2>1, <2>2, <2>3, <2>4, <2>5, AdvanceKeepsIInv
<1>4. CASE WritePayload(c)
  <2>1. /\ stage[c] = "writePayload" /\ Advance(c)
        /\ UNCHANGED << run, entry, lep, creatorVars, kind, outcome, handle >>
    BY <1>4 DEF WritePayload, Stage, processVars, configVars
  <2>2. /\ remote' \in [Procs -> {"none", "blank", "image", "full"}]
        /\ prot' \in [Procs -> {"rx", "rwx"}] /\ writable' \in [Procs -> BOOLEAN]
        /\ local' \in [Procs -> SUBSET {"payload", "image", "process"}]
        /\ result' \in [Procs -> {"ok", "failed"}]
    BY <1>t, <1>4 DEF WritePayload, TypeOK, processVars, configVars
  <2>3. \A d \in Procs \ {c} : SameAt(d)
    BY <1>t, <1>4 DEF WritePayload, TypeOK, SameAt, Advance, processVars, creatorVars, configVars
  <2>4. /\ prot'[c] = "rwx" => writable'[c]
        /\ result'[c] \in {result[c], "failed"}
        /\ stage[c] = "writePayload" => remote'[c] = "full"
    BY <1>t, <1>w, <1>4 DEF WritePayload, TypeOK, Stage, processVars, configVars
  <2>5. stage[c] \in Common \cup {"mapping", "open", "query", "payload"} /\ stage[c] # "jump"
    BY <2>1 DEF Common
  <2> QED BY <2>1, <2>2, <2>3, <2>4, <2>5, AdvanceKeepsIInv
<1>5. CASE OpenMapping(c)
  <2>1. /\ stage[c] = "mapping" /\ Advance(c)
        /\ UNCHANGED << run, entry, lep, creatorVars, kind, outcome, handle >>
    BY <1>5 DEF OpenMapping, Stage, processVars, configVars
  <2>2. /\ remote' \in [Procs -> {"none", "blank", "image", "full"}]
        /\ prot' \in [Procs -> {"rx", "rwx"}] /\ writable' \in [Procs -> BOOLEAN]
        /\ local' \in [Procs -> SUBSET {"payload", "image", "process"}]
        /\ result' \in [Procs -> {"ok", "failed"}]
    BY <1>t, <1>5 DEF OpenMapping, TypeOK, processVars, configVars
  <2>3. \A d \in Procs \ {c} : SameAt(d)
    BY <1>t, <1>5 DEF OpenMapping, TypeOK, SameAt, Advance, processVars, creatorVars, configVars
  <2>4. /\ prot'[c] = "rwx" => writable'[c]
        /\ result'[c] \in {result[c], "failed"}
        /\ stage[c] = "writePayload" => remote'[c] = "full"
    BY <1>t, <1>w, <1>5 DEF OpenMapping, TypeOK, Stage, processVars, configVars
  <2>5. stage[c] \in Common \cup {"mapping", "open", "query", "payload"} /\ stage[c] # "jump"
    BY <2>1 DEF Common
  <2> QED BY <2>1, <2>2, <2>3, <2>4, <2>5, AdvanceKeepsIInv
<1>6. CASE LoadPeImage(c)
  <2>1. Acquire(c, "load", {"image"}) BY <1>6 DEF LoadPeImage
  <2>2. "load" \in Common \cup {"open", "query", "payload"} BY DEF Common
  <2>3. {"image"} \in SUBSET {"payload", "image", "process"} OBVIOUS
  <2> QED BY <2>1, <2>2, <2>3, AcquireKeepsIInv
<1>7. CASE BuildBootstrapPayload(c)
  <2>1. Acquire(c, "payload", {"payload"}) BY <1>7 DEF BuildBootstrapPayload
  <2>2. "payload" \in Common \cup {"open", "query", "payload"} BY DEF Common
  <2>3. {"payload"} \in SUBSET {"payload", "image", "process"} OBVIOUS
  <2> QED BY <2>1, <2>2, <2>3, AcquireKeepsIInv
<1>8. CASE ReadLdrLoadDll(c)
  <2>1. Acquire(c, "read", {}) BY <1>8 DEF ReadLdrLoadDll
  <2>2. "read" \in Common \cup {"open", "query", "payload"} BY DEF Common
  <2>3. {} \in SUBSET {"payload", "image", "process"} OBVIOUS
  <2> QED BY <2>1, <2>2, <2>3, AcquireKeepsIInv
<1>9. CASE QueryAccess(c)
  <2>1. Acquire(c, "query", {}) BY <1>9 DEF QueryAccess
  <2>2. "query" \in Common \cup {"open", "query", "payload"} BY DEF Common
  <2>3. {} \in SUBSET {"payload", "image", "process"} OBVIOUS
  <2> QED BY <2>1, <2>2, <2>3, AcquireKeepsIInv
<1>10. CASE AcceptHandle(c)
  <2>1. Acquire(c, "open", {"process"}) BY <1>10 DEF AcceptHandle
  <2>2. "open" \in Common \cup {"open", "query", "payload"} BY DEF Common
  <2>3. {"process"} \in SUBSET {"payload", "image", "process"} OBVIOUS
  <2> QED BY <2>1, <2>2, <2>3, AcquireKeepsIInv
<1> QED BY <1>1, <1>2, <1>3, <1>4, <1>5, <1>6, <1>7, <1>8, <1>9, <1>10

(* The creator's thread.                                                     *)
LEMMA CreationKeepsIInv ==
  ASSUME IInv, NEW c \in Procs,
         SkipInjection(c) \/ InjectSameArchitecture(c) \/ InjectCrossArchitecture(c)
         \/ InjectionReturns(c) \/ BuildBrokerPayload(c) \/ CreateFileMapping(c) \/ MapViewOfFile(c)
         \/ CrossFails(c) \/ DuplicateHandle(c)
  PROVE  IInv'
<1> USE DEF Thread, Set, processVars, creatorVars, workVars, configVars
<1>1. CASE SkipInjection(c)
  <2> USE <1>1 DEF SkipInjection, IsBroker, BrokerFrame
  <2>1. TypeOK' BY DEF IInv, TypeOK, Steps, Stages
  <2>2. ProgressInv(c)' BY <2>1 DEF IInv, TypeOK, Local, ProgressInv, Early, Ending, Common, StagesOf
  <2>3. WorkInv(c)' BY <2>1 DEF IInv, TypeOK, Local, ProgressInv, WorkInv, Ending
  <2>4. ToldInv(c)' BY <2>1 DEF IInv, TypeOK, Local, ProgressInv, WorkInv, ToldInv, Early, Ending
  <2>5. \A d \in Procs \ {c} : SameAt(d) BY DEF IInv, TypeOK, SameAt
  <2>6. BrokersInv' BY <2>5, BrokersStay DEF IInv, TypeOK, SameAt
  <2> QED BY <2>1, <2>2, <2>3, <2>4, <2>5, <2>6, OneProcess DEF Local
<1>2. CASE InjectSameArchitecture(c)
  <2> USE <1>2 DEF InjectSameArchitecture
  <2>0. stage[c] = "none" BY DEF IInv, Local, ProgressInv, Early
  <2>1. TypeOK' BY DEF IInv, TypeOK, Steps, Stages
  <2>2. ProgressInv(c)' BY <2>0, <2>1 DEF IInv, TypeOK, Local, ProgressInv, Early, Ending, Common, StagesOf
  <2>3. WorkInv(c)' BY <2>0, <2>1 DEF IInv, TypeOK, Local, ProgressInv, WorkInv, Ending
  <2>4. ToldInv(c)' BY <2>0, <2>1 DEF IInv, TypeOK, Local, ProgressInv, WorkInv, ToldInv, Early, Ending
  <2>5. \A d \in Procs \ {c} : SameAt(d) BY DEF IInv, TypeOK, SameAt
  <2>6. BrokersInv' BY <2>0, <2>5, BrokersStay DEF IInv, TypeOK, SameAt
  <2> QED BY <2>1, <2>2, <2>3, <2>4, <2>5, <2>6, OneProcess DEF Local
<1>3. CASE InjectCrossArchitecture(c)
  <2> USE <1>3 DEF InjectCrossArchitecture
  <2>1. TypeOK' BY DEF IInv, TypeOK, Steps, Stages
  <2>2. ProgressInv(c)' BY <2>1 DEF IInv, TypeOK, Local, ProgressInv, Early, Ending, Common, StagesOf
  <2>3. WorkInv(c)' BY <2>1 DEF IInv, TypeOK, Local, ProgressInv, WorkInv, Ending
  <2>4. ToldInv(c)' BY <2>1 DEF IInv, TypeOK, Local, ProgressInv, WorkInv, ToldInv, Early, Ending
  <2>5. \A d \in Procs \ {c} : SameAt(d) BY DEF IInv, TypeOK, SameAt
  <2>6. BrokersInv' BY <2>5, BrokersStay DEF IInv, TypeOK, SameAt
  <2> QED BY <2>1, <2>2, <2>3, <2>4, <2>5, <2>6, OneProcess DEF Local
<1>4. CASE InjectionReturns(c)
  <2> USE <1>4 DEF InjectionReturns
  <2>1. TypeOK' BY DEF IInv, TypeOK, Steps, Stages
  <2>2. ProgressInv(c)' BY <2>1 DEF IInv, TypeOK, Local, ProgressInv, Early, Ending, Common, StagesOf
  <2>3. WorkInv(c)' BY <2>1 DEF IInv, TypeOK, Local, ProgressInv, WorkInv, Ending
  <2>4. ToldInv(c)' BY <2>1 DEF IInv, TypeOK, Local, ProgressInv, WorkInv, ToldInv, Early, Ending
  <2>5. \A d \in Procs \ {c} : SameAt(d) BY DEF IInv, TypeOK, SameAt
  <2>6. BrokersInv' BY <2>5, BrokersStay DEF IInv, TypeOK, SameAt
  <2> QED BY <2>1, <2>2, <2>3, <2>4, <2>5, <2>6, OneProcess DEF Local
<1>5. CASE BuildBrokerPayload(c)
  <2> USE <1>5 DEF BuildBrokerPayload, CrossAcquires
  <2>1. TypeOK' BY DEF IInv, TypeOK, Steps, Stages
  <2>2. ProgressInv(c)' BY <2>1 DEF IInv, TypeOK, Local, ProgressInv, Early, Ending, Common, StagesOf
  <2>3. WorkInv(c)' BY <2>1 DEF IInv, TypeOK, Local, ProgressInv, WorkInv, Ending
  <2>4. ToldInv(c)' BY <2>1 DEF IInv, TypeOK, Local, ProgressInv, WorkInv, ToldInv, Early, Ending
  <2>5. \A d \in Procs \ {c} : SameAt(d) BY DEF IInv, TypeOK, SameAt
  <2>6. BrokersInv' BY <2>5, BrokersStay DEF IInv, TypeOK, SameAt
  <2> QED BY <2>1, <2>2, <2>3, <2>4, <2>5, <2>6, OneProcess DEF Local
<1>6. CASE CreateFileMapping(c)
  <2> USE <1>6 DEF CreateFileMapping, CrossAcquires
  <2>1. TypeOK' BY DEF IInv, TypeOK, Steps, Stages
  <2>2. ProgressInv(c)' BY <2>1 DEF IInv, TypeOK, Local, ProgressInv, Early, Ending, Common, StagesOf
  <2>3. WorkInv(c)' BY <2>1 DEF IInv, TypeOK, Local, ProgressInv, WorkInv, Ending
  <2>4. ToldInv(c)' BY <2>1 DEF IInv, TypeOK, Local, ProgressInv, WorkInv, ToldInv, Early, Ending
  <2>5. \A d \in Procs \ {c} : SameAt(d) BY DEF IInv, TypeOK, SameAt
  <2>6. BrokersInv' BY <2>5, BrokersStay DEF IInv, TypeOK, SameAt
  <2> QED BY <2>1, <2>2, <2>3, <2>4, <2>5, <2>6, OneProcess DEF Local
<1>7. CASE MapViewOfFile(c)
  <2> USE <1>7 DEF MapViewOfFile, CrossAcquires
  <2>1. TypeOK' BY DEF IInv, TypeOK, Steps, Stages
  <2>2. ProgressInv(c)' BY <2>1 DEF IInv, TypeOK, Local, ProgressInv, Early, Ending, Common, StagesOf
  <2>3. WorkInv(c)' BY <2>1 DEF IInv, TypeOK, Local, ProgressInv, WorkInv, Ending
  <2>4. ToldInv(c)' BY <2>1 DEF IInv, TypeOK, Local, ProgressInv, WorkInv, ToldInv, Early, Ending
  <2>5. \A d \in Procs \ {c} : SameAt(d) BY DEF IInv, TypeOK, SameAt
  <2>6. BrokersInv' BY <2>5, BrokersStay DEF IInv, TypeOK, SameAt
  <2> QED BY <2>1, <2>2, <2>3, <2>4, <2>5, <2>6, OneProcess DEF Local
<1>8. CASE CrossFails(c)
  <2> USE <1>8 DEF CrossFails
  <2>1. TypeOK' BY DEF IInv, TypeOK, Steps, Stages
  <2>2. ProgressInv(c)' BY <2>1 DEF IInv, TypeOK, Local, ProgressInv, Early, Ending, Common, StagesOf
  <2>3. WorkInv(c)' BY <2>1 DEF IInv, TypeOK, Local, ProgressInv, WorkInv, Ending
  <2>4. ToldInv(c)' BY <2>1 DEF IInv, TypeOK, Local, ProgressInv, WorkInv, ToldInv, Early, Ending
  <2>5. \A d \in Procs \ {c} : SameAt(d) BY DEF IInv, TypeOK, SameAt
  <2>6. BrokersInv' BY <2>5, BrokersStay DEF IInv, TypeOK, SameAt
  <2> QED BY <2>1, <2>2, <2>3, <2>4, <2>5, <2>6, OneProcess DEF Local
<1>9. CASE DuplicateHandle(c)
  <2> USE <1>9 DEF DuplicateHandle
  <2>1. TypeOK' BY DEF IInv, TypeOK, Steps, Stages
  <2>2. ProgressInv(c)' BY <2>1 DEF IInv, TypeOK, Local, ProgressInv, Early, Ending, Common, StagesOf
  <2>3. WorkInv(c)' BY <2>1 DEF IInv, TypeOK, Local, ProgressInv, WorkInv, Ending
  <2>4. ToldInv(c)' BY <2>1 DEF IInv, TypeOK, Local, ProgressInv, WorkInv, ToldInv, Early, Ending
  <2>5. \A d \in Procs \ {c} : SameAt(d) BY DEF IInv, TypeOK, SameAt
  <2>6. BrokersInv' BY <2>5, BrokersStay DEF IInv, TypeOK, SameAt
  <2> QED BY <2>1, <2>2, <2>3, <2>4, <2>5, <2>6, OneProcess DEF Local
<1> QED BY <1>1, <1>2, <1>3, <1>4, <1>5, <1>6, <1>7, <1>8, <1>9

(* The last stages, and those that fail.                                     *)
LEMMA EndingKeepsIInv ==
  ASSUME IInv, NEW c \in Procs,
         WriteJump(c) \/ StageFails(c) \/ ReportResult(c)
         \/ UnloadPeImage(c) \/ RestoreProtection(c) \/ FreeRemoteImage(c)
  PROVE  IInv'
<1> USE DEF Thread, Set, processVars, creatorVars, workVars, configVars
<1>1. CASE WriteJump(c)
  <2> USE <1>1 DEF WriteJump, Stage, Alive
  <2>1. TypeOK'
    <3>1. stage' \in [Procs -> Stages] /\ entry' \in [Procs -> {"native", "jump"}]
      BY DEF IInv, TypeOK, Stages
    <3>2. run[c] # "absent" BY DEF IInv, Local, ProgressInv
    <3> QED BY <3>1, <3>2 DEF IInv, TypeOK
  <2>2. ProgressInv(c)' BY <2>1 DEF IInv, TypeOK, Local, ProgressInv, Early, Ending, Common, StagesOf
  <2>3. WorkInv(c)' BY <2>1 DEF IInv, TypeOK, Local, ProgressInv, WorkInv, Ending
  <2>4. ToldInv(c)' BY <2>1 DEF IInv, TypeOK, Local, ProgressInv, WorkInv, ToldInv, Early, Ending
  <2>5. \A d \in Procs \ {c} : SameAt(d) BY DEF IInv, TypeOK, SameAt
  <2>6. BrokersInv' BY <2>5, BrokersStay DEF IInv, TypeOK, SameAt
  <2> QED BY <2>1, <2>2, <2>3, <2>4, <2>5, <2>6, OneProcess DEF Local
<1>2. CASE StageFails(c)
  <2> USE <1>2 DEF StageFails, Stage, Alive, Working
  <2>1. TypeOK' BY DEF IInv, TypeOK, Steps, Stages
  <2>2. ProgressInv(c)' BY <2>1 DEF IInv, TypeOK, Local, ProgressInv, Early, Ending, Common, StagesOf
  <2>3. WorkInv(c)' BY <2>1 DEF IInv, TypeOK, Local, ProgressInv, WorkInv, Ending
  <2>4. ToldInv(c)' BY <2>1 DEF IInv, TypeOK, Local, ProgressInv, WorkInv, ToldInv, Early, Ending
  <2>5. \A d \in Procs \ {c} : SameAt(d) BY DEF IInv, TypeOK, SameAt
  <2>6. BrokersInv' BY <2>5, BrokersStay DEF IInv, TypeOK, SameAt
  <2> QED BY <2>1, <2>2, <2>3, <2>4, <2>5, <2>6, OneProcess DEF Local
<1>3. CASE ReportResult(c)
  <2> USE <1>3 DEF ReportResult, Stage, Alive
  <2>1. TypeOK' BY DEF IInv, TypeOK, Steps, Stages
  <2>2. ProgressInv(c)' BY <2>1 DEF IInv, TypeOK, Local, ProgressInv, Early, Ending, Common, StagesOf
  <2>3. WorkInv(c)' BY <2>1 DEF IInv, TypeOK, Local, ProgressInv, WorkInv, Ending
  <2>4. ToldInv(c)' BY <2>1 DEF IInv, TypeOK, Local, ProgressInv, WorkInv, ToldInv, Early, Ending
  <2>5. \A d \in Procs \ {c} : SameAt(d) BY DEF IInv, TypeOK, SameAt
  <2>6. BrokersInv' BY <2>5, BrokersStay DEF IInv, TypeOK, SameAt
  <2> QED BY <2>1, <2>2, <2>3, <2>4, <2>5, <2>6, OneProcess DEF Local
<1>4. CASE UnloadPeImage(c)
  <2> USE <1>4 DEF UnloadPeImage, Stage, Alive
  <2>1. TypeOK' BY DEF IInv, TypeOK, Steps, Stages
  <2>2. ProgressInv(c)' BY <2>1 DEF IInv, TypeOK, Local, ProgressInv, Early, Ending, Common, StagesOf
  <2>3. WorkInv(c)' BY <2>1 DEF IInv, TypeOK, Local, ProgressInv, WorkInv, Ending
  <2>4. ToldInv(c)' BY <2>1 DEF IInv, TypeOK, Local, ProgressInv, WorkInv, ToldInv, Early, Ending
  <2>5. \A d \in Procs \ {c} : SameAt(d) BY DEF IInv, TypeOK, SameAt
  <2>6. BrokersInv' BY <2>5, BrokersStay DEF IInv, TypeOK, SameAt
  <2> QED BY <2>1, <2>2, <2>3, <2>4, <2>5, <2>6, OneProcess DEF Local
<1>5. CASE RestoreProtection(c)
  <2> USE <1>5 DEF RestoreProtection, Stage, Alive
  <2>1. TypeOK' BY DEF IInv, TypeOK, Steps, Stages
  <2>2. ProgressInv(c)' BY <2>1 DEF IInv, TypeOK, Local, ProgressInv, Early, Ending, Common, StagesOf
  <2>3. WorkInv(c)' BY <2>1 DEF IInv, TypeOK, Local, ProgressInv, WorkInv, Ending
  <2>4. ToldInv(c)' BY <2>1 DEF IInv, TypeOK, Local, ProgressInv, WorkInv, ToldInv, Early, Ending
  <2>5. \A d \in Procs \ {c} : SameAt(d) BY DEF IInv, TypeOK, SameAt
  <2>6. BrokersInv' BY <2>5, BrokersStay DEF IInv, TypeOK, SameAt
  <2> QED BY <2>1, <2>2, <2>3, <2>4, <2>5, <2>6, OneProcess DEF Local
<1>6. CASE FreeRemoteImage(c)
  <2> USE <1>6 DEF FreeRemoteImage, Stage, Alive
  <2>1. TypeOK' BY DEF IInv, TypeOK, Steps, Stages
  <2>2. ProgressInv(c)' BY <2>1 DEF IInv, TypeOK, Local, ProgressInv, Early, Ending, Common, StagesOf
  <2>3. WorkInv(c)' BY <2>1 DEF IInv, TypeOK, Local, ProgressInv, WorkInv, Ending
  <2>4. ToldInv(c)' BY <2>1 DEF IInv, TypeOK, Local, ProgressInv, WorkInv, ToldInv, Early, Ending
  <2>5. \A d \in Procs \ {c} : SameAt(d) BY DEF IInv, TypeOK, SameAt
  <2>6. BrokersInv' BY <2>5, BrokersStay DEF IInv, TypeOK, SameAt
  <2> QED BY <2>1, <2>2, <2>3, <2>4, <2>5, <2>6, OneProcess DEF Local
<1> QED BY <1>1, <1>2, <1>3, <1>4, <1>5, <1>6

(* The child's own steps.                                                    *)
LEMMA ChildKeepsIInv ==
  ASSUME IInv, NEW c \in Procs,
         LoadFirstDll(c) \/ RestorePage(c) \/ Initialize(c) \/ ResumeChild(c) \/ CallerResumes(c)
  PROVE  IInv'
<1> USE DEF Thread, Set, processVars, creatorVars, workVars, configVars
<1>1. CASE LoadFirstDll(c)
  <2> USE <1>1 DEF LoadFirstDll
  <2>1. TypeOK' BY DEF IInv, TypeOK, Steps, Stages
  <2>2. ProgressInv(c)' BY <2>1 DEF IInv, TypeOK, Local, ProgressInv, Early, Ending, Common, StagesOf
  <2>3. WorkInv(c)' BY <2>1 DEF IInv, TypeOK, Local, ProgressInv, WorkInv, Ending
  <2>4. ToldInv(c)' BY <2>1 DEF IInv, TypeOK, Local, ProgressInv, WorkInv, ToldInv, Early, Ending
  <2>5. \A d \in Procs \ {c} : SameAt(d) BY DEF IInv, TypeOK, SameAt
  <2>6. BrokersInv' BY <2>5, BrokersStay DEF IInv, TypeOK, SameAt
  <2> QED BY <2>1, <2>2, <2>3, <2>4, <2>5, <2>6, OneProcess DEF Local
<1>2. CASE RestorePage(c)
  <2> USE <1>2 DEF RestorePage
  <2>1. TypeOK'
    <3>1. prot' \in [Procs -> {"rx", "rwx"}] BY DEF IInv, TypeOK
    <3>2. lep' \in [Procs -> {"none", "restored", "protected", "ready", "failed", "crashed"}]
      BY DEF IInv, TypeOK
    <3> QED BY <3>1, <3>2 DEF IInv, TypeOK
  <2>2. ProgressInv(c)' BY <2>1 DEF IInv, TypeOK, Local, ProgressInv, Early, Ending, Common, StagesOf
  <2>3. WorkInv(c)' BY <2>1 DEF IInv, TypeOK, Local, ProgressInv, WorkInv, Ending
  <2>4. ToldInv(c)' BY <2>1 DEF IInv, TypeOK, Local, ProgressInv, WorkInv, ToldInv, Early, Ending
  <2>5. \A d \in Procs \ {c} : SameAt(d) BY DEF IInv, TypeOK, SameAt
  <2>6. BrokersInv' BY <2>5, BrokersStay DEF IInv, TypeOK, SameAt
  <2> QED BY <2>1, <2>2, <2>3, <2>4, <2>5, <2>6, OneProcess DEF Local
<1>3. CASE Initialize(c)
  <2> USE <1>3 DEF Initialize
  <2>1. TypeOK' BY DEF IInv, TypeOK, Steps, Stages
  <2>2. ProgressInv(c)' BY <2>1 DEF IInv, TypeOK, Local, ProgressInv, Early, Ending, Common, StagesOf
  <2>3. WorkInv(c)' BY <2>1 DEF IInv, TypeOK, Local, ProgressInv, WorkInv, Ending
  <2>4. ToldInv(c)' BY <2>1 DEF IInv, TypeOK, Local, ProgressInv, WorkInv, ToldInv, Early, Ending
  <2>5. \A d \in Procs \ {c} : SameAt(d) BY DEF IInv, TypeOK, SameAt
  <2>6. BrokersInv' BY <2>5, BrokersStay DEF IInv, TypeOK, SameAt
  <2> QED BY <2>1, <2>2, <2>3, <2>4, <2>5, <2>6, OneProcess DEF Local
<1>4. CASE ResumeChild(c)
  <2> USE <1>4 DEF ResumeChild, Alive
  <2>1. TypeOK'
    <3>1. run' \in [Procs -> {"absent", "suspended", "running", "dead"}] BY DEF IInv, TypeOK
    <3>2. at' \in [Procs -> Steps] BY DEF IInv, TypeOK, Steps
    <3>3. \A d \in Procs : run'[d] = "absent" => run[d] = "absent" /\ d # c
      BY DEF IInv, TypeOK, Local, ProgressInv
    <3> QED BY <3>1, <3>2, <3>3 DEF IInv, TypeOK
  <2>2. ProgressInv(c)' BY <2>1 DEF IInv, TypeOK, Local, ProgressInv, Early, Ending, Common, StagesOf
  <2>3. WorkInv(c)' BY <2>1 DEF IInv, TypeOK, Local, ProgressInv, WorkInv, Ending
  <2>4. ToldInv(c)' BY <2>1 DEF IInv, TypeOK, Local, ProgressInv, WorkInv, ToldInv, Early, Ending
  <2>5. \A d \in Procs \ {c} : SameAt(d) BY DEF IInv, TypeOK, SameAt
  <2>6. BrokersInv' BY <2>5, BrokersStay DEF IInv, TypeOK, SameAt
  <2> QED BY <2>1, <2>2, <2>3, <2>4, <2>5, <2>6, OneProcess DEF Local
<1>5. CASE CallerResumes(c)
  <2> USE <1>5 DEF CallerResumes, IsBroker
  <2>1. TypeOK' BY DEF IInv, TypeOK, Steps, Stages
  <2>2. ProgressInv(c)' BY <2>1 DEF IInv, TypeOK, Local, ProgressInv, Early, Ending, Common, StagesOf
  <2>3. WorkInv(c)' BY <2>1 DEF IInv, TypeOK, Local, ProgressInv, WorkInv, Ending
  <2>4. ToldInv(c)' BY <2>1 DEF IInv, TypeOK, Local, ProgressInv, WorkInv, ToldInv, Early, Ending
  <2>5. \A d \in Procs \ {c} : SameAt(d) BY DEF IInv, TypeOK, SameAt
  <2>6. BrokersInv' BY <2>5, BrokersStay DEF IInv, TypeOK, SameAt
  <2> QED BY <2>1, <2>2, <2>3, <2>4, <2>5, <2>6, OneProcess DEF Local
<1> QED BY <1>1, <1>2, <1>3, <1>4, <1>5

(* Only whether processes run changes: some die, or start after their        *)
(* creation.                                                                 *)
SameButRun(d) ==
  /\ entry'[d] = entry[d] /\ prot'[d] = prot[d] /\ remote'[d] = remote[d] /\ lep'[d] = lep[d]
  /\ outer'[d] = outer[d] /\ at'[d] = at[d] /\ status'[d] = status[d]
  /\ held'[d] = held[d] /\ frame'[d] = frame[d]
  /\ kind'[d] = kind[d] /\ stage'[d] = stage[d] /\ local'[d] = local[d]
  /\ writable'[d] = writable[d] /\ outcome'[d] = outcome[d] /\ result'[d] = result[d]

LEMMA LocalRuns ==
  ASSUME NEW d \in Procs, Local(d), SameButRun(d),
         \/ run'[d] = "dead"
         \/ run'[d] = "running" /\ run[d] = "suspended" /\ at[d] = "done"
  PROVE  Local(d)'
BY DEF Local, ProgressInv, WorkInv, ToldInv, SameButRun

(* Creation of a process, by a loader or a process that is localised.        *)
LEMMA CreateKeepsIInv ==
  ASSUME IInv, NEW c \in Procs, NEW p \in Procs, NEW asksToRun \in BOOLEAN,
         LepCreateProcess2(c, asksToRun) \/ LepNtCreateUserProcess(p, c, asksToRun)
  PROVE  IInv'
<1> USE DEF Set, processVars, creatorVars, workVars, configVars
<1>n. /\ at[c] = "none" /\ outer[c] = None /\ stage[c] = "none" /\ lep[c] = "none"
      /\ run[c] = "absent" /\ Launcher \in Procs
  BY LauncherAssumption DEF IInv, Local, ProgressInv, LepCreateProcess2, LepNtCreateUserProcess
<1>1. CASE LepCreateProcess2(c, asksToRun)
  <2> USE <1>1 DEF LepCreateProcess2
  <2>1. TypeOK' BY <1>n DEF IInv, TypeOK, Steps, Stages
  <2>2. ProgressInv(c)' BY <1>n, <2>1 DEF IInv, TypeOK, Local, ProgressInv, Early, Ending, Common, StagesOf
  <2>3. WorkInv(c)' BY <1>n, <2>1 DEF IInv, TypeOK, Local, ProgressInv, WorkInv, Ending
  <2>4. ToldInv(c)' BY <1>n, <2>1 DEF IInv, TypeOK, Local, ProgressInv, WorkInv, ToldInv, Early, Ending
  <2>5. \A d \in Procs \ {c} : SameAt(d) BY <1>n DEF IInv, TypeOK, SameAt
  <2>6. BrokersInv'
    <3>1. at'[c] \in {"stages", "inject"} /\ outer' = outer BY <1>n DEF IInv, TypeOK
    <3>2. \A d \in Procs : run[d] = "running" => run'[d] = "running" BY <1>n DEF IInv, TypeOK
    <3> QED BY <1>n, <2>5, <3>1, <3>2, BrokersStay DEF SameAt
  <2> QED BY <2>1, <2>2, <2>3, <2>4, <2>5, <2>6, OneProcess DEF Local
<1>2. CASE LepNtCreateUserProcess(p, c, asksToRun)
  <2> USE <1>2 DEF LepNtCreateUserProcess
  <2>1. TypeOK' BY <1>n DEF IInv, TypeOK, Steps, Stages
  <2>2. ProgressInv(c)' BY <1>n, <2>1 DEF IInv, TypeOK, Local, ProgressInv, Early, Ending, Common, StagesOf
  <2>3. WorkInv(c)' BY <1>n, <2>1 DEF IInv, TypeOK, Local, ProgressInv, WorkInv, Ending
  <2>4. ToldInv(c)' BY <1>n, <2>1 DEF IInv, TypeOK, Local, ProgressInv, WorkInv, ToldInv, Early, Ending
  <2>5. \A d \in Procs \ {c} : SameAt(d) BY <1>n DEF IInv, TypeOK, SameAt
  <2>6. BrokersInv'
    <3>1. at'[c] \in {"stages", "inject"} /\ outer' = outer BY <1>n DEF IInv, TypeOK
    <3>2. \A d \in Procs : run[d] = "running" => run'[d] = "running" BY <1>n DEF IInv, TypeOK
    <3> QED BY <1>n, <2>5, <3>1, <3>2, BrokersStay DEF SameAt
  <2> QED BY <2>1, <2>2, <2>3, <2>4, <2>5, <2>6, OneProcess DEF Local
<1> QED BY <1>1, <1>2

(* The broker is created: two processes change.                              *)
LEMMA LaunchKeepsIInv ==
  ASSUME IInv, NEW c \in Procs, NEW b \in Procs, LaunchBroker(c, b)
  PROVE  IInv'
<1> USE DEF LaunchBroker, Set, workVars, configVars
<1>1. /\ at[b] = "none" /\ outer[b] = None /\ stage[b] = "none" /\ lep[b] = "none" /\ b # c
      /\ run[b] = "absent" /\ at[c] = "launch"
  BY DEF IInv, Local, ProgressInv
<1>2. TypeOK' BY <1>1 DEF IInv, TypeOK, Steps
<1>3. Local(c)'
  BY <1>1 DEF IInv, TypeOK, Local, ProgressInv, WorkInv, ToldInv, Early
<1>4. ProgressInv(b)' BY <1>1, <1>2 DEF IInv, TypeOK, Local, ProgressInv, Early
<1>5. WorkInv(b)' BY <1>1 DEF IInv, TypeOK, Local, WorkInv
<1>6. ToldInv(b)' BY <1>1 DEF IInv, TypeOK, Local, ToldInv, Ending
<1>7. ASSUME NEW d \in Procs \ {b, c} PROVE SameAt(d)
  <2>1. at'[d] = at[d] BY DEF IInv, TypeOK
  <2>2. run'[d] = run[d] BY DEF IInv, TypeOK
  <2>3. outer'[d] = outer[d] BY DEF IInv, TypeOK
  <2>4. frame' = [frame EXCEPT ![c] = TRUE] /\ frame \in [Procs -> BOOLEAN] BY DEF IInv, TypeOK
  <2>5. frame'[d] = frame[d] BY <2>4, Zenon
  <2> QED BY <2>1, <2>2, <2>3, <2>5 DEF SameAt
<1>8. ASSUME NEW d \in Procs PROVE Local(d)'
  BY <1>3, <1>4, <1>5, <1>6, <1>7, LocalStays DEF Local, IInv
<1>9. ASSUME NEW d \in Procs, at'[d] \in {"duplicate", "start", "wait"}
      PROVE  d \in Procs \ {b, c} /\ \A e \in Broker(d)' : e \in Broker(d) \ {b, c}
  <2>1. d \in Procs \ {b, c} BY <1>1, <1>9 DEF IInv, TypeOK
  <2>2. at[d] = at'[d] BY <1>7, <2>1 DEF SameAt
  <2>3. c \notin Broker(d) BY <1>1, <1>9, <2>2 DEF IInv, BrokersInv
  <2> QED BY <1>1, <2>1, <2>3 DEF IInv, TypeOK, Broker
<1>10. BrokersInv'
  <2>1. ASSUME NEW d \in Procs, at'[d] \in {"duplicate", "start", "wait"}, NEW e \in Broker(d)'
        PROVE  at'[e] = "done"
    <3>1. e \in Broker(d) \ {b, c} /\ d \in Procs \ {b, c} BY <1>9, <2>1
    <3>2. SameAt(d) /\ SameAt(e) BY <1>7, <3>1 DEF Broker
    <3> QED BY <2>1, <3>1, <3>2 DEF IInv, BrokersInv, SameAt
  <2>2. ASSUME NEW d \in Procs, at'[d] = "wait", stage'[d] \notin {"over", "lost"}
        PROVE  \E e \in Broker(d)' : run'[e] = "running"
    <3>1. SameAt(d) BY <1>7, <1>9, <2>2
    <3>2. PICK e \in Broker(d) : run[e] = "running"
      BY <2>2, <3>1 DEF IInv, BrokersInv, SameAt
    <3>3. e # b /\ e \in Procs BY <1>1, <3>2 DEF Broker
    <3> QED BY <1>1, <3>2, <3>3 DEF IInv, TypeOK, Broker
  <2> QED BY <2>1, <2>2 DEF BrokersInv
<1> QED BY <1>2, <1>8, <1>10 DEF IInv

(* The call that created the broker returns.                                 *)
LEMMA PopKeepsIInv ==
  ASSUME IInv, NEW c \in Procs, PopFrame(c)
  PROVE  IInv'
<1> USE DEF PopFrame, Thread, Set, processVars, workVars, configVars
<1>1. TypeOK' BY DEF IInv, TypeOK, Steps
<1>2. Local(c)' BY <1>1 DEF IInv, TypeOK, Local, ProgressInv, WorkInv, ToldInv, Early
<1>3. \A d \in Procs \ {c} : SameAt(d) BY DEF IInv, TypeOK, SameAt
<1>4. BrokersInv' BY DEF IInv, TypeOK, BrokersInv, Broker
<1> QED BY <1>1, <1>2, <1>3, <1>4, OneProcess

(* The broker is resumed.                                                    *)
LEMMA ResumeBrokerKeepsIInv ==
  ASSUME IInv, NEW c \in Procs, ResumeBroker(c)
  PROVE  IInv'
<1> USE DEF ResumeBroker, Thread, Set, configVars
<1>1. PICK b \in Broker(c) : run[b] = "suspended" /\ run' = [run EXCEPT ![b] = "running"]
  OBVIOUS
<1>2. b \in Procs /\ outer[b] = c /\ at[c] = "start" /\ at[b] = "done" /\ b # c
  BY <1>1 DEF IInv, BrokersInv, Broker
<1>3. stage[c] = "none" BY <1>2 DEF IInv, Local, ProgressInv, Early
<1>4. TypeOK' BY <1>1, <1>2 DEF IInv, TypeOK, Steps, Stages
<1>5. ProgressInv(c)'
  BY <1>1, <1>2, <1>3 DEF IInv, TypeOK, Local, ProgressInv, Early, StagesOf
<1>6. WorkInv(c)' BY <1>1, <1>2, <1>3 DEF IInv, TypeOK, Local, WorkInv, Ending
<1>7. ToldInv(c)' BY <1>1, <1>2, <1>3 DEF IInv, TypeOK, Local, ToldInv, Ending
<1>8. SameButRun(b) /\ run'[b] = "running" BY <1>1, <1>2 DEF IInv, TypeOK, SameButRun
<1>9. \A d \in Procs \ {b, c} : SameAt(d) BY <1>1, <1>2 DEF IInv, TypeOK, SameAt
<1>10. ASSUME NEW d \in Procs PROVE Local(d)'
  BY <1>1, <1>2, <1>5, <1>6, <1>7, <1>8, <1>9, LocalStays, LocalRuns DEF Local, IInv
<1>11. BrokersInv'
  <2>1. ASSUME NEW d \in Procs, at'[d] \in {"duplicate", "start", "wait"}, NEW e \in Broker(d)'
        PROVE  at'[e] = "done"
    <3>1. at[d] \in {"duplicate", "start", "wait"} /\ e \in Broker(d)
      BY <1>2, <2>1 DEF IInv, TypeOK, Broker
    <3>2. at[e] = "done" BY <3>1 DEF IInv, BrokersInv
    <3> QED BY <1>2, <3>2 DEF IInv, TypeOK
  <2>2. ASSUME NEW d \in Procs, at'[d] = "wait", stage'[d] \notin {"over", "lost"}
        PROVE  \E e \in Broker(d)' : run'[e] = "running"
    <3>1. CASE d = c BY <1>1, <1>2, <3>1 DEF IInv, TypeOK, Broker
    <3>2. CASE d # c
      <4>1. at[d] = "wait" /\ stage[d] \notin {"over", "lost"} BY <2>2, <3>2 DEF IInv, TypeOK
      <4>2. PICK e \in Broker(d) : run[e] = "running" BY <4>1 DEF IInv, BrokersInv
      <4> QED BY <1>1, <1>2, <4>2 DEF IInv, TypeOK, Broker
    <3> QED BY <3>1, <3>2
  <2> QED BY <2>1, <2>2 DEF BrokersInv
<1> QED BY <1>4, <1>10, <1>11 DEF IInv

(* It could not be resumed, and is terminated.                               *)
LEMMA ResumeFailsKeepsIInv ==
  ASSUME IInv, NEW c \in Procs, ResumeBrokerFails(c)
  PROVE  IInv'
<1> USE DEF ResumeBrokerFails, Thread, Set, workVars, configVars
<1>1. PICK b \in Broker(c) : run' = [run EXCEPT ![b] = "dead"]
  OBVIOUS
<1>2. b \in Procs /\ outer[b] = c /\ at[c] = "start" /\ at[b] = "done" /\ b # c
  BY <1>1 DEF IInv, BrokersInv, Broker
<1>3. stage[c] = "none" BY <1>2 DEF IInv, Local, ProgressInv, Early
<1>4. TypeOK'
  <2>1. run[b] # "absent" BY <1>2 DEF IInv, Local, ProgressInv
  <2>2. run' \in [Procs -> {"absent", "suspended", "running", "dead"}]
    BY <1>1, <1>2 DEF IInv, TypeOK
  <2>3. at' \in [Procs -> Steps] BY DEF IInv, TypeOK, Steps
  <2>4. \A d \in Procs : run'[d] = "absent" => run[d] = "absent" /\ d # c
    BY <1>1, <1>2, <2>1 DEF IInv, TypeOK, Local, ProgressInv
  <2> QED BY <2>2, <2>3, <2>4 DEF IInv, TypeOK
<1>5. Local(c)'
  BY <1>1, <1>2, <1>3 DEF IInv, TypeOK, Local, ProgressInv, WorkInv, ToldInv, Early
<1>6. SameButRun(b) /\ run'[b] = "dead" BY <1>1, <1>2 DEF IInv, TypeOK, SameButRun
<1>7. \A d \in Procs \ {b, c} : SameAt(d) BY <1>1, <1>2 DEF IInv, TypeOK, SameAt
<1>8. ASSUME NEW d \in Procs PROVE Local(d)'
  BY <1>2, <1>5, <1>6, <1>7, LocalStays, LocalRuns DEF IInv
<1>9. BrokersInv'
  <2>1. ASSUME NEW d \in Procs, at'[d] \in {"duplicate", "start", "wait"}, NEW e \in Broker(d)'
        PROVE  at'[e] = "done"
    <3>1. at[d] \in {"duplicate", "start", "wait"} /\ e \in Broker(d)
      BY <1>2, <2>1 DEF IInv, TypeOK, Broker
    <3>2. at[e] = "done" BY <3>1 DEF IInv, BrokersInv
    <3> QED BY <1>2, <3>2 DEF IInv, TypeOK
  <2>2. ASSUME NEW d \in Procs, at'[d] = "wait", stage'[d] \notin {"over", "lost"}
        PROVE  \E e \in Broker(d)' : run'[e] = "running"
    <3>1. d # c /\ at[d] = "wait" /\ stage[d] \notin {"over", "lost"}
      BY <1>2, <2>2 DEF IInv, TypeOK
    <3>2. PICK e \in Broker(d) : run[e] = "running" BY <3>1 DEF IInv, BrokersInv
    <3>3. e # b BY <1>2, <3>1, <3>2 DEF Broker
    <3> QED BY <1>1, <3>2, <3>3 DEF IInv, TypeOK, Broker
  <2> QED BY <2>1, <2>2 DEF BrokersInv
<1> QED BY <1>4, <1>8, <1>9 DEF IInv

(* The broker is gone: it has reported, or is lost.                          *)
LEMMA ReadKeepsIInv ==
  ASSUME IInv, NEW c \in Procs, ReadResult(c)
  PROVE  IInv'
<1> USE DEF ReadResult, Thread, Set, processVars, workVars, configVars
<1>1. stage[c] \in {"over", "lost"} /\ kind[c] = "broker"
  BY DEF IInv, BrokersInv, Local, ProgressInv
<1>2. TypeOK' BY DEF IInv, TypeOK, Steps
<1>3. ProgressInv(c)' BY <1>1 DEF IInv, TypeOK, Local, ProgressInv, Early
<1>4. WorkInv(c)' BY <1>1 DEF IInv, TypeOK, Local, WorkInv
<1>5. ToldInv(c)' BY <1>1 DEF IInv, TypeOK, Local, ToldInv
<1>6. \A d \in Procs \ {c} : SameAt(d) BY DEF IInv, TypeOK, SameAt
<1>7. BrokersInv' BY <1>6, BrokersStay DEF IInv, TypeOK, SameAt
<1> QED BY <1>2, <1>3, <1>4, <1>5, <1>6, <1>7, OneProcess DEF Local

(* Processes die or go their way; nothing else changes.                      *)
LEMMA RunsKeepsIInv ==
  ASSUME IInv, run' \in [Procs -> {"absent", "suspended", "running", "dead"}],
         UNCHANGED << entry, prot, remote, lep, creatorVars, workVars, configVars >>,
         \A d \in Procs : run'[d] \in {run[d], "dead"} /\ (run'[d] = "absent" <=> run[d] = "absent"),
         \A e \in Procs : run[e] = "running" =>
           run'[e] = "running" \/ \A d \in Procs : outer[e] = d => stage[d] \in {"over", "lost"}
  PROVE  IInv'
<1> USE DEF creatorVars, workVars, configVars
<1>1. TypeOK' BY DEF IInv, TypeOK
<1>2. ASSUME NEW d \in Procs PROVE Local(d)'
  <2>1. CASE run'[d] = "dead" BY <2>1, LocalRuns DEF IInv, SameButRun
  <2>2. CASE run'[d] = run[d] BY <2>2, LocalStays DEF IInv, SameAt
  <2> QED BY <2>1, <2>2
<1>3. BrokersInv' BY DEF IInv, BrokersInv, Broker
<1> QED BY <1>1, <1>2, <1>3 DEF IInv

(* The broker's work is over.                                                *)
LEMMA ExitKeepsIInv ==
  ASSUME IInv, NEW c \in Procs, BrokerExits(c)
  PROVE  IInv'
<1>1. PICK b \in Broker(c) : run[b] = "running" /\ run' = [run EXCEPT ![b] = "dead"]
  BY DEF BrokerExits, Set
<1>2. b \in Procs /\ outer[b] = c BY DEF Broker
<1>3. run' \in [Procs -> {"absent", "suspended", "running", "dead"}]
  BY <1>1, <1>2 DEF IInv, TypeOK
<1>4. \A d \in Procs : run'[d] \in {run[d], "dead"} /\ (run'[d] = "absent" <=> run[d] = "absent")
  BY <1>1, <1>2 DEF IInv, TypeOK
<1>5. \A e \in Procs : run[e] = "running" =>
        run'[e] = "running" \/ \A d \in Procs : outer[e] = d => stage[d] \in {"over", "lost"}
  <2>1. stage[c] = "over" BY DEF BrokerExits
  <2> QED BY <1>1, <1>2, <2>1 DEF IInv, TypeOK
<1>6. UNCHANGED << entry, prot, remote, lep, creatorVars, workVars, configVars >>
  BY DEF BrokerExits
<1> QED BY <1>3, <1>4, <1>5, <1>6, RunsKeepsIInv

(* The end of LepCreateProcessWithHook.                                      *)
LEMMA LaunchedKeepsIInv ==
  ASSUME IInv, NEW c \in Procs, ResumeLaunched(c)
  PROVE  IInv'
<1> USE DEF Thread, Set, workVars, configVars
<1>1. /\ at[c] = "resume" /\ at' = [at EXCEPT ![c] = "done"]
      /\ UNCHANGED << entry, prot, remote, lep, creator, outer, resumes, status, held, frame,
                      workVars, configVars >>
  BY DEF ResumeLaunched
<1>2. PICK r \in {run[c], "running", "dead"} : /\ run' = [run EXCEPT ![c] = r]
                                               /\ r = "running" => run[c] # "dead"
  <2>1. run = [run EXCEPT ![c] = run[c]] /\ status[c] \in {"ok", "failed"} /\ resumes[c] \in BOOLEAN
    BY DEF IInv, TypeOK
  <2>2. CASE status[c] = "failed" BY <2>2 DEF ResumeLaunched
  <2>3. CASE status[c] = "ok" /\ ~resumes[c] BY <2>1, <2>3 DEF ResumeLaunched
  <2>4. CASE status[c] = "ok" /\ resumes[c] BY <2>4 DEF ResumeLaunched, Alive
  <2> QED BY <2>1, <2>2, <2>3, <2>4
<1>3. run[c] \in {"suspended", "dead"} BY <1>1 DEF IInv, Local, ProgressInv
<1>4. TypeOK' BY <1>1, <1>2, <1>3 DEF IInv, TypeOK, Steps
<1>5. ProgressInv(c)' BY <1>1, <1>2, <1>3 DEF IInv, TypeOK, Local, ProgressInv, Early
<1>6. WorkInv(c)' BY <1>1, <1>2, <1>3 DEF IInv, TypeOK, Local, WorkInv
<1>8. ToldInv(c)' BY <1>1, <1>2, <1>3 DEF IInv, TypeOK, Local, ToldInv
<1>9. \A d \in Procs \ {c} : SameAt(d) BY <1>1, <1>2 DEF IInv, TypeOK, SameAt
<1>10. BrokersInv' BY <1>1, <1>3, <1>9, BrokersStay DEF IInv, TypeOK, SameAt
<1> QED BY <1>4, <1>5, <1>6, <1>8, <1>9, <1>10, OneProcess DEF Local

(* A process dies with its threads.                                          *)
LEMMA KillKeepsIInv ==
  ASSUME IInv, NEW p \in Procs, Kill(p)
  PROVE  IInv'
<1> DEFINE Left == { c \in Procs : creator[c] = p /\ at[c] \notin {"none", "done"} }
           Cut  == { c \in Procs : /\ stage[c] \notin {"none", "over"}
                                   /\ (c \in Left /\ at[c] = "stages") \/ p \in Broker(c) }
<1>1. /\ run[p] \in {"suspended", "running"} /\ run' = [run EXCEPT ![p] = "dead"]
      /\ at' = [c \in Procs |-> IF c \in Left THEN "abandoned" ELSE at[c]]
      /\ held' = [c \in Procs |-> IF c \in Left THEN {} ELSE held[c]]
      /\ frame' = [c \in Procs |-> IF c \in Left THEN FALSE ELSE frame[c]]
      /\ stage' = [c \in Procs |-> IF c \in Cut THEN "lost" ELSE stage[c]]
      /\ local' = [c \in Procs |-> IF c \in Cut THEN {} ELSE local[c]]
      /\ UNCHANGED << entry, prot, remote, lep, creator, outer, resumes, status,
                      kind, writable, outcome, handle, result >>
  BY DEF Kill, Set, configVars
<1>2. ASSUME NEW d \in Procs
      PROVE  /\ d \in Left => at[d] \notin {"none", "done"}
             /\ d \in Cut => stage[d] \notin {"none", "over"} /\ (d \in Left \/ p \in Broker(d))
             /\ p \in Broker(d) /\ stage[d] \notin {"none", "over"} => d \in Cut
  OBVIOUS
<1> HIDE DEF Left, Cut
<1>3. TypeOK'
  <2>1. run' \in [Procs -> {"absent", "suspended", "running", "dead"}] BY <1>1 DEF IInv, TypeOK
  <2>2. at' \in [Procs -> Steps] BY <1>1 DEF IInv, TypeOK, Steps
  <2>3. held' \in [Procs -> SUBSET {"payload", "mapping", "view", "broker"}]
    BY <1>1 DEF IInv, TypeOK
  <2>4. frame' \in [Procs -> BOOLEAN] BY <1>1 DEF IInv, TypeOK
  <2>5. stage' \in [Procs -> Stages] BY <1>1 DEF IInv, TypeOK, Stages
  <2>6. local' \in [Procs -> SUBSET {"payload", "image", "process"}] BY <1>1 DEF IInv, TypeOK
  <2>7. ASSUME NEW d \in Procs, run'[d] = "absent" PROVE at'[d] = "none" /\ entry'[d] = "native"
    BY <1>1, <1>2, <2>7 DEF IInv, TypeOK
  <2> QED BY <1>1, <2>1, <2>2, <2>3, <2>4, <2>5, <2>6, <2>7 DEF IInv, TypeOK
<1>4. ASSUME NEW d \in Procs PROVE Local(d)'
  <2>1. /\ run'[d] = "dead" \/ run'[d] = run[d]
        /\ run'[d] = "absent" => run[d] = "absent"
    BY <1>1 DEF IInv, TypeOK
  <2>2. /\ \/ d \in Left /\ at'[d] = "abandoned" /\ held'[d] = {} /\ ~frame'[d]
           \/ d \notin Left /\ at'[d] = at[d] /\ held'[d] = held[d] /\ frame'[d] = frame[d]
        /\ \/ d \in Cut /\ stage'[d] = "lost" /\ local'[d] = {}
           \/ d \notin Cut /\ stage'[d] = stage[d] /\ local'[d] = local[d]
    BY <1>1 DEF IInv, TypeOK
  <2>3. Local(d) BY DEF IInv
  <2>4. ProgressInv(d)'
    BY <1>1, <1>2, <2>1, <2>2, <2>3 DEF Local, ProgressInv, Early, Ending, StagesOf
  <2>5. WorkInv(d)' BY <1>1, <1>2, <2>1, <2>2, <2>3 DEF Local, WorkInv, Ending
  <2>6. ToldInv(d)' BY <1>1, <1>2, <2>1, <2>2, <2>3 DEF Local, ToldInv
  <2> QED BY <2>4, <2>5, <2>6 DEF Local
<1>5. BrokersInv'
  <2>1. ASSUME NEW d \in Procs, at'[d] \in {"duplicate", "start", "wait"}, NEW e \in Broker(d)'
        PROVE  at'[e] = "done"
    <3>1. at[d] = at'[d] /\ e \in Broker(d) BY <1>1, <2>1 DEF IInv, TypeOK, Broker
    <3>2. at[e] = "done" /\ e \in Procs BY <2>1, <3>1 DEF IInv, BrokersInv, Broker
    <3> QED BY <1>1, <1>2, <3>2
  <2>2. ASSUME NEW d \in Procs, at'[d] = "wait", stage'[d] \notin {"over", "lost"}
        PROVE  \E e \in Broker(d)' : run'[e] = "running"
    <3>1. at[d] = "wait" /\ stage[d] = stage'[d] /\ d \notin Cut BY <1>1, <2>2
    <3>2. PICK e \in Broker(d) : run[e] = "running" BY <2>2, <3>1 DEF IInv, BrokersInv
    <3>3. stage[d] # "none" BY <3>1 DEF IInv, Local, ProgressInv
    <3>4. p \notin Broker(d) BY <1>2, <2>2, <3>1, <3>3
    <3>5. e # p /\ e \in Procs BY <3>2, <3>4 DEF Broker
    <3> QED BY <1>1, <3>2, <3>5 DEF IInv, TypeOK, Broker
  <2> QED BY <2>1, <2>2 DEF BrokersInv
<1> QED BY <1>3, <1>4, <1>5 DEF IInv

LEMMA NextKeepsIInv == IInv /\ [Next]_vars => IInv'
<1> SUFFICES ASSUME IInv, [Next]_vars PROVE IInv'
  OBVIOUS
<1>1. CASE UNCHANGED vars
  <2>1. \A d \in Procs : SameAt(d)
    BY <1>1 DEF vars, processVars, creatorVars, workVars, configVars, SameAt
  <2>2. \A d \in Procs : Local(d)' BY <2>1, LocalStays DEF IInv
  <2>3. TypeOK' /\ BrokersInv'
    BY <1>1 DEF IInv, TypeOK, BrokersInv, Broker, vars, processVars, creatorVars, workVars, configVars
  <2> QED BY <2>2, <2>3 DEF IInv
<1>2. ASSUME NEW c \in Procs, NEW asksToRun \in BOOLEAN,
             LepCreateProcess2(c, asksToRun)
               \/ \E p \in Procs : LepNtCreateUserProcess(p, c, asksToRun)
      PROVE  IInv'
  BY <1>2, CreateKeepsIInv, LauncherAssumption
<1>3. ASSUME NEW c \in Procs, Create(c) PROVE IInv'
  BY <1>3, CreationKeepsIInv, LaunchKeepsIInv, PopKeepsIInv, ResumeBrokerKeepsIInv,
     ResumeFailsKeepsIInv, ReadKeepsIInv, LaunchedKeepsIInv, ChildKeepsIInv DEF Create
<1>4. ASSUME NEW c \in Procs, Work(c) PROVE IInv'
  BY <1>4, WorkKeepsIInv, EndingKeepsIInv, ExitKeepsIInv DEF Work
<1>5. ASSUME NEW c \in Procs, Bootstrap(c) \/ CallerResumes(c) PROVE IInv'
  BY <1>5, ChildKeepsIInv DEF Bootstrap
<1>6. ASSUME NEW c \in Procs, Kill(c) PROVE IInv' BY <1>6, KillKeepsIInv
<1> QED BY <1>1, <1>2, <1>3, <1>4, <1>5, <1>6 DEF Next

(* What the work has done, what is told and where brokers are is as IInv     *)
(* says in every reachable state, whoever is killed.                         *)
THEOREM InjectionInvariant == Spec => []IInv
<1>1. Init => IInv BY InitEstablishesIInv
<1>2. IInv /\ [Next]_vars => IInv' BY NextKeepsIInv
<1> QED BY <1>1, <1>2, PTL DEF Spec

(* A process that runs never jumps into an incomplete image: for any number  *)
(* of processes, launches and deaths (LoadFirstDll, WriteJump).              *)
THEOREM EntriesAreSound == Spec => []EntryIsSound
<1>1. IInv => EntryIsSound BY DEF IInv, Local, WorkInv, EntryIsSound
<1> QED BY <1>1, InjectionInvariant, PTL

(* What a creation tells its caller is so, and it leaves nothing behind.     *)
THEOREM OutcomesAreTrue == Spec => []OutcomeIsTrue
<1>1. IInv => OutcomeIsTrue
  <2> SUFFICES ASSUME IInv PROVE OutcomeIsTrue
    OBVIOUS
  <2>1. SuccessIsArmed BY DEF IInv, Local, WorkInv, ToldInv, SuccessIsArmed, IsBroker
  <2>2. FailureIsClean
    BY DEF IInv, TypeOK, Local, WorkInv, ToldInv, FailureIsClean, Ending
  <2>3. NothingLeaked BY DEF IInv, Local, WorkInv, ToldInv, NothingLeaked
  <2> QED BY <2>1, <2>2, <2>3 DEF OutcomeIsTrue
<1> QED BY <1>1, InjectionInvariant, PTL

-----------------------------------------------------------------------------
(* Injection implements ProcessLife.                                         *)

LEMMA PhaseNow ==
  ASSUME NEW c \in Procs, TypeOK
  PROVE  /\ run[c] = "absent" => Phase(c) = "absent"
         /\ run[c] = "dead" => Phase(c) = "dead"
         /\ run[c] = "suspended" => Phase(c) = IF entry[c] = "jump" THEN "armed" ELSE "held"
         /\ run[c] = "running" /\ lep[c] = "none" =>
              Phase(c) = IF entry[c] = "jump" THEN "entering" ELSE "plain"
         /\ run[c] = "running" /\ lep[c] \in {"restored", "protected"} => Phase(c) = "entering"
         /\ run[c] = "running" /\ lep[c] \in {"ready", "failed"} => Phase(c) = lep[c]
BY DEF TypeOK, Phase

LEMMA PhaseNext ==
  ASSUME NEW c \in Procs, TypeOK'
  PROVE  /\ run'[c] = "absent" => Phase(c)' = "absent"
         /\ run'[c] = "dead" => Phase(c)' = "dead"
         /\ run'[c] = "suspended" => Phase(c)' = IF entry'[c] = "jump" THEN "armed" ELSE "held"
         /\ run'[c] = "running" /\ lep'[c] = "none" =>
              Phase(c)' = IF entry'[c] = "jump" THEN "entering" ELSE "plain"
         /\ run'[c] = "running" /\ lep'[c] \in {"restored", "protected"} => Phase(c)' = "entering"
         /\ run'[c] = "running" /\ lep'[c] \in {"ready", "failed"} => Phase(c)' = lep'[c]
BY DEF TypeOK, Phase

(* Nothing its phase depends on.                                             *)
LivesOn(d) == run'[d] = run[d] /\ entry'[d] = entry[d] /\ lep'[d] = lep[d]

LEMMA TurnIs ==
  ASSUME NEW c \in Procs, \A d \in Procs \ {c} : LivesOn(d),
         NEW from, NEW to, Phase(c) \in from, Phase(c)' = to
  PROVE  Life!Turn(c, from, to)
<1>1. \A d \in Procs \ {c} : Phase(d)' = Phase(d) BY DEF LivesOn, Phase
<1> QED BY <1>1 DEF Life!Turn

(* What one process does is a step of its life.                              *)
LEMMA OneLife ==
  ASSUME IInv, IInv', NEW c \in Procs, \A d \in Procs \ {c} : LivesOn(d),
         \/ LivesOn(c)
         \/ run[c] = "absent" /\ run'[c] = "suspended" /\ entry'[c] = "native"
         \/ run[c] = "suspended" /\ run'[c] = "suspended" /\ entry[c] = "native" /\ entry'[c] = "jump"
         \/ run[c] # "absent" /\ run'[c] = "dead"
         \/ /\ run[c] = "suspended" /\ run'[c] = "running" /\ entry'[c] = entry[c] /\ lep'[c] = lep[c]
         \/ /\ run[c] = "running" /\ run'[c] = "running"
            /\ \/ lep[c] = "none" /\ entry[c] = "jump" /\ lep'[c] = "restored"
               \/ lep[c] \in {"restored", "protected"} /\ lep'[c] \in {"protected", "ready", "failed"}
  PROVE  Life!Next \/ \A d \in Procs : Phase(d)' = Phase(d)
<1>1. TypeOK /\ TypeOK' /\ Local(c) /\ Local(c)' BY DEF IInv
<1>2. lep[c] # "crashed" /\ (run[c] \in {"absent", "suspended"} => lep[c] = "none")
  BY <1>1 DEF Local, ProgressInv, WorkInv
<1>3. \A d \in Procs \ {c} : Phase(d)' = Phase(d) BY DEF LivesOn, Phase
<1>4. CASE LivesOn(c)
  <2>1. Phase(c)' = Phase(c) BY <1>4 DEF LivesOn, Phase
  <2> QED BY <1>3, <2>1
<1>5. CASE run[c] = "absent" /\ run'[c] = "suspended" /\ entry'[c] = "native"
  <2>1. Phase(c) = "absent" /\ Phase(c)' = "held" BY <1>1, <1>5, PhaseNow, PhaseNext
  <2>2. Life!Create(c) BY <2>1, TurnIs DEF Life!Create
  <2> QED BY <2>2 DEF Life!Next
<1>6. CASE run[c] = "suspended" /\ run'[c] = "suspended" /\ entry[c] = "native" /\ entry'[c] = "jump"
  <2>1. Phase(c) = "held" /\ Phase(c)' = "armed" BY <1>1, <1>6, PhaseNow, PhaseNext
  <2>2. Life!Arm(c) BY <2>1, TurnIs DEF Life!Arm
  <2> QED BY <2>2 DEF Life!Next
<1>7. CASE run[c] # "absent" /\ run'[c] = "dead"
  <2>1. Phase(c)' = "dead" BY <1>1, <1>7, PhaseNext
  <2>2. Phase(c) \in {"held", "armed", "plain", "entering", "ready", "failed", "dead"}
    <3>1. /\ run[c] \in {"suspended", "running", "dead"}
          /\ lep[c] \in {"none", "restored", "protected", "ready", "failed"}
      BY <1>1, <1>2, <1>7 DEF TypeOK
    <3>2. CASE run[c] = "suspended" BY <1>1, <3>2, PhaseNow
    <3>3. CASE run[c] = "dead" BY <1>1, <3>3, PhaseNow
    <3>4. CASE run[c] = "running" BY <1>1, <3>1, <3>4, PhaseNow
    <3> QED BY <3>1, <3>2, <3>3, <3>4
  <2>3. CASE Phase(c) = "dead" BY <1>3, <2>1, <2>3
  <2>4. CASE Phase(c) # "dead"
    <3>1. Life!Die(c) BY <2>1, <2>2, <2>4, TurnIs DEF Life!Die
    <3> QED BY <3>1 DEF Life!Next
  <2> QED BY <2>3, <2>4
<1>8. CASE run[c] = "suspended" /\ run'[c] = "running" /\ entry'[c] = entry[c] /\ lep'[c] = lep[c]
  <2>1. CASE entry[c] = "jump"
    <3>1. Phase(c) = "armed" /\ Phase(c)' = "entering"
      BY <1>1, <1>2, <1>8, <2>1, PhaseNow, PhaseNext
    <3>2. Life!StartLocalised(c) BY <3>1, TurnIs DEF Life!StartLocalised
    <3> QED BY <3>2 DEF Life!Next
  <2>2. CASE entry[c] # "jump"
    <3>1. Phase(c) = "held" /\ Phase(c)' = "plain"
      BY <1>1, <1>2, <1>8, <2>2, PhaseNow, PhaseNext
    <3>2. Life!StartPlain(c) BY <3>1, TurnIs DEF Life!StartPlain
    <3> QED BY <3>2 DEF Life!Next
  <2> QED BY <2>1, <2>2
<1>9. CASE /\ run[c] = "running" /\ run'[c] = "running"
           /\ lep[c] = "none" /\ entry[c] = "jump" /\ lep'[c] = "restored"
  <2>1. Phase(c) = "entering" /\ Phase(c)' = "entering" BY <1>1, <1>9, PhaseNow, PhaseNext
  <2> QED BY <1>3, <2>1
<1>10. CASE /\ run[c] = "running" /\ run'[c] = "running"
            /\ lep[c] \in {"restored", "protected"} /\ lep'[c] \in {"protected", "ready", "failed"}
  <2>1. Phase(c) = "entering" BY <1>1, <1>10, PhaseNow
  <2>2. CASE lep'[c] = "protected"
    <3>1. Phase(c)' = "entering" BY <1>1, <1>10, <2>2, PhaseNext
    <3> QED BY <1>3, <2>1, <3>1
  <2>3. CASE lep'[c] = "ready"
    <3>1. Phase(c)' = "ready" BY <1>1, <1>10, <2>3, PhaseNext
    <3>2. Life!Localise(c) BY <2>1, <3>1, TurnIs DEF Life!Localise
    <3> QED BY <3>2 DEF Life!Next
  <2>4. CASE lep'[c] = "failed"
    <3>1. Phase(c)' = "failed" BY <1>1, <1>10, <2>4, PhaseNext
    <3>2. Life!GiveUp(c) BY <2>1, <3>1, TurnIs DEF Life!GiveUp
    <3> QED BY <3>2 DEF Life!Next
  <2> QED BY <1>10, <2>2, <2>3, <2>4
<1> QED BY <1>4, <1>5, <1>6, <1>7, <1>8, <1>9, <1>10

(* What ProcessLife allows.                                                  *)
Follows == Life!Next \/ \A d \in Procs : Phase(d)' = Phase(d)

(* Steps that neither start nor end a process nor touch its first bytes.     *)
LEMMA QuietSteps ==
  ASSUME NEW c \in Procs,
         \/ SkipInjection(c) \/ InjectSameArchitecture(c) \/ InjectCrossArchitecture(c)
         \/ InjectionReturns(c) \/ BuildBrokerPayload(c) \/ CreateFileMapping(c)
         \/ MapViewOfFile(c) \/ CrossFails(c) \/ PopFrame(c) \/ DuplicateHandle(c) \/ ReadResult(c)
         \/ LoadPeImage(c) \/ BuildBootstrapPayload(c) \/ ReadLdrLoadDll(c) \/ QueryAccess(c)
         \/ AllocVirtualMemoryEx(c) \/ ProtectLdrLoadDll(c) \/ WriteImage(c) \/ WritePayload(c)
         \/ StageFails(c) \/ ReportResult(c) \/ UnloadPeImage(c) \/ RestoreProtection(c)
         \/ FreeRemoteImage(c) \/ OpenMapping(c) \/ AcceptHandle(c)
  PROVE  UNCHANGED << run, entry, lep >>
<1> USE DEF processVars
<1>1. CASE SkipInjection(c) \/ InjectSameArchitecture(c) \/ InjectCrossArchitecture(c)
             \/ InjectionReturns(c) \/ BuildBrokerPayload(c) \/ CreateFileMapping(c)
             \/ MapViewOfFile(c) \/ CrossFails(c) \/ PopFrame(c) \/ DuplicateHandle(c) \/ ReadResult(c)
  BY <1>1 DEF SkipInjection, InjectSameArchitecture, InjectCrossArchitecture, InjectionReturns,
              BuildBrokerPayload, CreateFileMapping, MapViewOfFile, CrossAcquires, CrossFails,
              PopFrame, DuplicateHandle, ReadResult
<1>2. CASE LoadPeImage(c) \/ BuildBootstrapPayload(c) \/ ReadLdrLoadDll(c) \/ QueryAccess(c)
             \/ AcceptHandle(c)
  BY <1>2 DEF LoadPeImage, BuildBootstrapPayload, ReadLdrLoadDll, QueryAccess, AcceptHandle, Acquire
<1>3. CASE AllocVirtualMemoryEx(c) \/ ProtectLdrLoadDll(c) \/ WriteImage(c) \/ WritePayload(c)
             \/ OpenMapping(c)
  BY <1>3 DEF AllocVirtualMemoryEx, ProtectLdrLoadDll, WriteImage, WritePayload, OpenMapping
<1>4. CASE StageFails(c) \/ ReportResult(c) \/ UnloadPeImage(c) \/ RestoreProtection(c)
             \/ FreeRemoteImage(c)
  BY <1>4 DEF StageFails, ReportResult, UnloadPeImage, RestoreProtection, FreeRemoteImage
<1> QED BY <1>1, <1>2, <1>3, <1>4

LEMMA QuietFollows ==
  ASSUME UNCHANGED << run, entry, lep >>
  PROVE  Follows
BY DEF Follows, Phase

LEMMA CreationFollows ==
  ASSUME IInv, IInv', NEW c \in Procs, NEW p \in Procs, NEW asksToRun \in BOOLEAN,
         LepCreateProcess2(c, asksToRun) \/ LepNtCreateUserProcess(p, c, asksToRun) \/ LaunchBroker(p, c)
  PROVE  Follows
<1>1. run[c] = "absent" /\ run' = [run EXCEPT ![c] = "suspended"] /\ UNCHANGED << entry, lep >>
  BY DEF LepCreateProcess2, LepNtCreateUserProcess, LaunchBroker, Set
<1>2. run'[c] = "suspended" /\ entry'[c] = "native" BY <1>1 DEF IInv, TypeOK
<1>3. \A d \in Procs \ {c} : LivesOn(d) BY <1>1 DEF IInv, TypeOK, LivesOn
<1> QED BY <1>1, <1>2, <1>3, OneLife DEF Follows

LEMMA JumpFollows ==
  ASSUME IInv, IInv', NEW c \in Procs, WriteJump(c)
  PROVE  Follows
<1>1. stage[c] = "jump" /\ run[c] # "dead" /\ entry' = [entry EXCEPT ![c] = "jump"]
      /\ UNCHANGED << run, lep >>
  BY DEF WriteJump, Stage, Alive, Set
<1>2. run[c] = "suspended" BY <1>1 DEF IInv, Local, ProgressInv
<1>3. entry[c] = "native"
  <2>1. WorkInv(c) /\ entry[c] \in {"native", "jump"} BY DEF IInv, TypeOK, Local
  <2> QED BY <1>1, <2>1 DEF WorkInv
<1>4. entry'[c] = "jump" /\ run'[c] = "suspended" BY <1>1, <1>2 DEF IInv, TypeOK
<1>5. \A d \in Procs \ {c} : LivesOn(d) BY <1>1 DEF IInv, TypeOK, LivesOn
<1> QED BY <1>2, <1>3, <1>4, <1>5, OneLife DEF Follows

(* A process starts or dies.                                                 *)
LEMMA RunFollows ==
  ASSUME IInv, IInv', NEW c \in Procs, NEW r \in {"running", "dead"},
         run' = [run EXCEPT ![c] = r], UNCHANGED << entry, lep >>,
         r = "running" => run[c] = "suspended",
         run[c] # "absent"
  PROVE  Follows
<1>1. run'[c] = r /\ entry'[c] = entry[c] /\ lep'[c] = lep[c] BY DEF IInv, TypeOK
<1>2. \A d \in Procs \ {c} : LivesOn(d) BY DEF IInv, TypeOK, LivesOn
<1> QED BY <1>1, <1>2, OneLife DEF Follows

LEMMA StartsFollow ==
  ASSUME IInv, IInv', NEW c \in Procs,
         \/ ResumeBroker(c) \/ ResumeBrokerFails(c) \/ BrokerExits(c) \/ ResumeLaunched(c)
         \/ ResumeChild(c) \/ CallerResumes(c) \/ Kill(c)
  PROVE  Follows
<1> USE DEF Set
<1>1. CASE ResumeBroker(c)
  <2>1. PICK b \in Broker(c) : run[b] = "suspended" /\ run' = [run EXCEPT ![b] = "running"]
    BY <1>1 DEF ResumeBroker
  <2>2. UNCHANGED << entry, lep >> BY <1>1 DEF ResumeBroker
  <2> QED BY <2>1, <2>2, RunFollows DEF Broker
<1>2. CASE ResumeBrokerFails(c) \/ BrokerExits(c)
  <2>1. PICK b \in Broker(c) : run' = [run EXCEPT ![b] = "dead"]
    BY <1>2 DEF ResumeBrokerFails, BrokerExits
  <2>2. UNCHANGED << entry, lep >> BY <1>2 DEF ResumeBrokerFails, BrokerExits
  <2>3. b \in Procs /\ run[b] # "absent"
    BY <2>1, LauncherAssumption DEF Broker, IInv, Local, ProgressInv
  <2> QED BY <2>1, <2>2, <2>3, RunFollows
<1>3. CASE ResumeLaunched(c) \/ ResumeChild(c)
  <2>1. at[c] = "resume" /\ UNCHANGED << entry, lep >>
    BY <1>3 DEF ResumeLaunched, ResumeChild, Thread
  <2>2. run[c] \in {"suspended", "dead"} BY <2>1 DEF IInv, Local, ProgressInv
  <2>3. run' = run \/ \E r \in {"running", "dead"} : /\ run' = [run EXCEPT ![c] = r]
                                                     /\ r = "running" => run[c] # "dead"
    <3>1. CASE ResumeChild(c) BY <3>1 DEF ResumeChild, Alive
    <3>2. CASE ResumeLaunched(c)
      <4>1. status[c] \in {"ok", "failed"} /\ resumes[c] \in BOOLEAN BY DEF IInv, TypeOK
      <4>2. CASE status[c] = "failed" BY <3>2, <4>2 DEF ResumeLaunched
      <4>3. CASE status[c] = "ok" /\ ~resumes[c] BY <3>2, <4>3 DEF ResumeLaunched
      <4>4. CASE status[c] = "ok" /\ resumes[c] BY <3>2, <4>4 DEF ResumeLaunched, Alive
      <4> QED BY <4>1, <4>2, <4>3, <4>4
    <3> QED BY <1>3, <3>1, <3>2
  <2> QED BY <2>1, <2>2, <2>3, RunFollows, QuietFollows
<1>4. CASE CallerResumes(c)
  <2>1. /\ run[c] = "suspended" /\ run' = [run EXCEPT ![c] = "running"] /\ UNCHANGED << entry, lep >>
    BY <1>4 DEF CallerResumes
  <2> QED BY <2>1, RunFollows
<1>5. CASE Kill(c)
  <2>1. /\ run[c] # "absent" /\ run' = [run EXCEPT ![c] = "dead"] /\ UNCHANGED << entry, lep >>
    BY <1>5 DEF Kill
  <2> QED BY <2>1, RunFollows
<1> QED BY <1>1, <1>2, <1>3, <1>4, <1>5

LEMMA ChildFollows ==
  ASSUME IInv, IInv', NEW c \in Procs, Bootstrap(c)
  PROVE  Follows
<1> USE DEF Set
<1>1. \A d \in Procs \ {c} : LivesOn(d)
  BY DEF Bootstrap, LoadFirstDll, RestorePage, Initialize, IInv, TypeOK, LivesOn
<1>2. run[c] = "running" /\ run'[c] = "running"
  BY DEF Bootstrap, LoadFirstDll, RestorePage, Initialize
<1>3. CASE LoadFirstDll(c)
  <2>1. entry[c] = "jump" /\ lep[c] = "none" BY <1>3 DEF LoadFirstDll
  <2>2. remote[c] = "full" BY <2>1 DEF IInv, Local, WorkInv
  <2>3. lep'[c] = "restored" BY <1>3, <2>2 DEF LoadFirstDll, IInv, TypeOK
  <2> QED BY <1>1, <1>2, <2>1, <2>3, OneLife DEF Follows
<1>4. CASE RestorePage(c)
  <2>1. lep[c] = "restored" /\ lep'[c] \in {"protected", "failed"}
    BY <1>4 DEF RestorePage, IInv, TypeOK
  <2> QED BY <1>1, <1>2, <2>1, OneLife DEF Follows
<1>5. CASE Initialize(c)
  <2>1. lep[c] = "protected" /\ lep'[c] \in {"ready", "failed"}
    BY <1>5 DEF Initialize, IInv, TypeOK
  <2> QED BY <1>1, <1>2, <2>1, OneLife DEF Follows
<1> QED BY <1>3, <1>4, <1>5 DEF Bootstrap

LEMMA StepFollows ==
  ASSUME IInv, IInv', [Next]_vars
  PROVE  Follows
<1>1. CASE UNCHANGED vars BY <1>1, QuietFollows DEF vars, processVars
<1>2. ASSUME NEW c \in Procs, NEW asksToRun \in BOOLEAN,
             LepCreateProcess2(c, asksToRun)
               \/ \E p \in Procs : LepNtCreateUserProcess(p, c, asksToRun)
      PROVE  Follows
  BY <1>2, CreationFollows
<1>3. ASSUME NEW c \in Procs, Create(c) PROVE Follows
  <2>1. ASSUME NEW b \in Procs, LaunchBroker(c, b) PROVE Follows
    BY <2>1, CreationFollows
  <2> QED BY <1>3, <2>1, QuietSteps, QuietFollows, StartsFollow DEF Create
<1>4. ASSUME NEW c \in Procs, Work(c) PROVE Follows
  BY <1>4, QuietSteps, QuietFollows, JumpFollows, StartsFollow DEF Work
<1>5. ASSUME NEW c \in Procs, Bootstrap(c) PROVE Follows BY <1>5, ChildFollows
<1>6. ASSUME NEW c \in Procs, CallerResumes(c) \/ Kill(c) PROVE Follows BY <1>6, StartsFollow
<1> QED BY <1>1, <1>2, <1>3, <1>4, <1>5, <1>6 DEF Next

(* Each process follows ProcessLife, whatever fails and whoever is killed: it *)
(* becomes localised only by being armed while it is suspended.              *)
THEOREM InjectionImplementsLife == Spec => ImplementsLife
<1>1. Init => Life!Init
  BY LauncherAssumption DEF Init, Life!Init, Phase
<1>2. IInv /\ IInv' /\ [Next]_vars => [Life!Next]_[c \in Procs |-> Phase(c)]
  BY StepFollows DEF Follows
<1> QED BY <1>1, <1>2, InjectionInvariant, PTL DEF Spec, ImplementsLife, Life!Spec

=============================================================================
