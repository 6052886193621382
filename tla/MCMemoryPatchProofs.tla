------------------------- MODULE MCMemoryPatchProofs -------------------------
(* What is proved of a module that is loaded from memory, whatever buffers,   *)
(* files and handles there are, and of the patch engine together with the     *)
(* threads of the process, with every failure there is but the one of         *)
(* ProtectMemory for a published trampoline.                                  *)
EXTENDS MCMemoryPatch, MemoryPatchProofs

FrameType == [path : MemPaths, slot : Handles \cup {NoHandle}]
LoadType == [path : MemPaths \cup Files, file : Handles \cup {NoHandle},
             section : Handles \cup {NoHandle},
             told : {<<>>} \cup ({"buffer", "file"} \X (MemPaths \cup Files \cup {"lz32", "memory"})),
             pc : {"attributes", "open", "create", "query", "map", "imports", "initialize", "failed"}]

(* A sequence with an element in front, another first element, or without it. *)
LEMMA Pushed ==
  ASSUME NEW T, NEW s \in Seq(T), NEW x \in T, NEW t, t = <<x>> \o s
  PROVE  /\ t \in Seq(T) /\ t # <<>> /\ Len(t) = Len(s) + 1 /\ Head(t) = x /\ t[1] = x
         /\ \A i \in DOMAIN s : i + 1 \in DOMAIN t /\ t[i + 1] = s[i]
         /\ \A i \in DOMAIN t : i # 1 => i - 1 \in DOMAIN s /\ t[i] = s[i - 1]
         /\ DOMAIN t \in SUBSET Nat /\ DOMAIN s \in SUBSET Nat /\ 1 \in DOMAIN t
         /\ \A i \in DOMAIN t : i >= 1
OBVIOUS

LEMMA FirstReplaced ==
  ASSUME NEW T, NEW s \in Seq(T), s # <<>>, NEW x \in T, NEW t, t = <<x>> \o Tail(s)
  PROVE  /\ t \in Seq(T) /\ t # <<>> /\ Len(t) = Len(s) /\ Head(t) = x /\ t[1] = x
         /\ DOMAIN t = DOMAIN s /\ 1 \in DOMAIN s /\ Head(s) = s[1] /\ Head(s) \in T
         /\ \A i \in DOMAIN s : i # 1 => t[i] = s[i]
OBVIOUS

LEMMA Popped ==
  ASSUME NEW T, NEW s \in Seq(T), s # <<>>, NEW t, t = Tail(s)
  PROVE  /\ t \in Seq(T) /\ Len(t) = Len(s) - 1 /\ Head(s) = s[1] /\ Head(s) \in T /\ 1 \in DOMAIN s
         /\ \A i \in DOMAIN t : i + 1 \in DOMAIN s /\ t[i] = s[i + 1]
         /\ \A i \in DOMAIN s : i # 1 => i - 1 \in DOMAIN t /\ s[i] = t[i - 1]
         /\ DOMAIN t \in SUBSET Nat /\ DOMAIN s \in SUBSET Nat
         /\ t # <<>> => Head(t) = t[1] /\ Len(t) \in DOMAIN t /\ s[Len(s)] = t[Len(t)]
OBVIOUS

LEMMA FirstOfSequence ==
  ASSUME NEW T, NEW s \in Seq(T), s # <<>>
  PROVE  /\ Head(s) = s[1] /\ Head(s) \in T /\ 1 \in DOMAIN s /\ Len(s) \in DOMAIN s
         /\ DOMAIN s \in SUBSET Nat /\ \A i \in DOMAIN s : i >= 1
OBVIOUS

(* A load of a buffer finds its own frame, a load of a file another one.     *)
LEMMA OwnFrame ==
  ASSUME M!Types, M!FramesOfLoads, mLoads # <<>>
  PROVE  /\ mFrames # <<>> /\ (M!Ours <=> M!Buffered)
         /\ M!Load = mLoads[1] /\ M!Load \in LoadType /\ 1 \in DOMAIN mLoads
         /\ M!Frame = mFrames[1] /\ M!Frame \in FrameType /\ 1 \in DOMAIN mFrames
<1>1. /\ M!Load = mLoads[1] /\ M!Load \in LoadType /\ 1 \in DOMAIN mLoads /\ Len(mLoads) \in DOMAIN mLoads
      /\ DOMAIN mLoads \in SUBSET Nat /\ \A i \in DOMAIN mLoads : i >= 1
  <2>1. mLoads \in Seq(LoadType) BY DEF M!Types, LoadType
  <2> QED BY <2>1, FirstOfSequence DEF M!Load
<1>2. mFrames # <<>>
  BY <1>1 DEF M!FramesOfLoads
<1>3. /\ M!Frame = mFrames[1] /\ M!Frame \in FrameType /\ 1 \in DOMAIN mFrames
      /\ DOMAIN mFrames \in SUBSET Nat /\ \A k \in DOMAIN mFrames : k >= 1
  <2>1. mFrames \in Seq(FrameType) BY DEF M!Types, FrameType
  <2> QED BY <1>2, <2>1, FirstOfSequence DEF M!Frame
<1>4. ASSUME M!Buffered PROVE M!Ours
  <2>1. PICK k \in DOMAIN mFrames : mFrames[k].path = mLoads[1].path
    BY <1>1, <1>4 DEF M!FramesOfLoads, M!Buffered
  <2>2. PICK i \in DOMAIN mLoads : mLoads[i].path = mFrames[1].path
    BY <1>3 DEF M!FramesOfLoads
  <2>3. i < 1 <=> 1 < k
    BY <1>1, <1>3, <2>1, <2>2 DEF M!FramesOfLoads
  <2>4. k = 1
    BY <1>1, <1>3, <2>3
  <2> QED BY <1>1, <1>3, <2>1, <2>4 DEF M!Ours
<1>5. M!Ours => M!Buffered
  BY <1>3 DEF M!Ours, M!Buffered, FrameType
<1> QED BY <1>1, <1>2, <1>3, <1>4, <1>5

(* What the frames and loads are after a step of the innermost load, which    *)
(* may store into the slot of the innermost frame.                           *)
LEMMA StepOfLoad ==
  ASSUME M!Types, M!FramesOfLoads, M!InnermostHandles, mLoads # <<>>,
         NEW l \in LoadType, l.path = M!Load.path, M!Put(l),
         NEW h \in Handles \cup {NoHandle}, NEW mine \in BOOLEAN,
         mine => M!SetSlot(h) /\ (M!Ours \/ h = NoHandle), ~mine => UNCHANGED mFrames
  PROVE  /\ mFrames' \in Seq(FrameType) /\ mLoads' \in Seq(LoadType)
         /\ M!FramesOfLoads'
         /\ mLoads' # <<>> /\ M!Load' = l
         /\ M!Frame'.path = M!Frame.path /\ M!Frame'.slot = IF mine THEN h ELSE M!Frame.slot
         /\ \A i \in DOMAIN mLoads' : i > 1 => i \in DOMAIN mLoads /\ mLoads'[i] = mLoads[i]
         /\ \A k \in DOMAIN mFrames' : mFrames'[k].slot # NoHandle => k = 1 /\ M!Ours'
<1> USE OwnFrame
<1>0. mFrames \in Seq(FrameType) /\ mLoads \in Seq(LoadType)
  BY DEF M!Types, FrameType, LoadType
<1>1. /\ mLoads' \in Seq(LoadType) /\ mLoads' # <<>> /\ Len(mLoads') = Len(mLoads) /\ M!Load' = l /\ mLoads'[1] = l
      /\ DOMAIN mLoads' = DOMAIN mLoads /\ \A i \in DOMAIN mLoads : i # 1 => mLoads'[i] = mLoads[i]
  BY <1>0, FirstReplaced DEF M!Put, M!Load
<1>2. ASSUME mine
      PROVE  /\ mFrames' \in Seq(FrameType)
             /\ mFrames'[1] = M!Frame' /\ M!Frame'.path = M!Frame.path /\ M!Frame'.slot = h
             /\ DOMAIN mFrames' = DOMAIN mFrames /\ \A k \in DOMAIN mFrames : k # 1 => mFrames'[k] = mFrames[k]
  <2> DEFINE x == [M!Frame EXCEPT !.slot = h]
  <2>1. x \in FrameType /\ x.path = M!Frame.path /\ x.slot = h
    BY DEF FrameType
  <2>2. mFrames' = <<x>> \o Tail(mFrames) BY <1>2 DEF M!SetSlot
  <2> HIDE DEF x
  <2>3. /\ mFrames' \in Seq(FrameType) /\ mFrames'[1] = x /\ Head(mFrames') = x
        /\ DOMAIN mFrames' = DOMAIN mFrames /\ \A k \in DOMAIN mFrames : k # 1 => mFrames'[k] = mFrames[k]
    BY <1>0, <2>1, <2>2, FirstReplaced
  <2> QED BY <2>1, <2>3 DEF M!Frame
<1>3. /\ mFrames' \in Seq(FrameType) /\ DOMAIN mFrames' = DOMAIN mFrames
      /\ \A k \in DOMAIN mFrames : mFrames'[k].path = mFrames[k].path
      /\ mFrames'[1] = M!Frame' /\ M!Frame'.path = M!Frame.path /\ M!Frame'.slot = IF mine THEN h ELSE M!Frame.slot
      /\ \A k \in DOMAIN mFrames' : k # 1 => mFrames'[k] = mFrames[k]
  <2>1. CASE mine BY <1>2, <2>1 DEF M!Frame
  <2>2. CASE ~mine BY <1>0, <2>2 DEF M!Frame
  <2> QED BY <2>1, <2>2
<1>4. \A i \in DOMAIN mLoads : mLoads'[i].path = mLoads[i].path
  BY <1>1
<1>5. M!FramesOfLoads'
  <2>1. mLoads'[Len(mLoads')].path \in MemPaths
    <3>1. Len(mLoads) \in DOMAIN mLoads BY <1>0
    <3> QED BY <1>1, <1>4, <3>1 DEF M!FramesOfLoads
  <2>2. \A k \in DOMAIN mFrames' : \E i \in DOMAIN mLoads' : mLoads'[i].path = mFrames'[k].path
    BY <1>1, <1>3, <1>4 DEF M!FramesOfLoads
  <2>3. \A i \in DOMAIN mLoads' : mLoads'[i].path \in MemPaths => \E k \in DOMAIN mFrames' : mFrames'[k].path = mLoads'[i].path
    BY <1>1, <1>3, <1>4 DEF M!FramesOfLoads
  <2>4. ASSUME NEW i \in DOMAIN mLoads', NEW j \in DOMAIN mLoads', NEW k \in DOMAIN mFrames', NEW m \in DOMAIN mFrames',
               mLoads'[i].path = mFrames'[k].path, mLoads'[j].path = mFrames'[m].path
        PROVE  i < j <=> k < m
    <3>1. /\ i \in DOMAIN mLoads /\ j \in DOMAIN mLoads /\ k \in DOMAIN mFrames /\ m \in DOMAIN mFrames
          /\ mLoads[i].path = mFrames[k].path /\ mLoads[j].path = mFrames[m].path
      BY <1>1, <1>3, <1>4, <2>4
    <3> QED BY <3>1 DEF M!FramesOfLoads
  <2> QED BY <1>1, <2>1, <2>2, <2>3, <2>4 DEF M!FramesOfLoads
<1>6. DOMAIN mLoads \in SUBSET Nat BY <1>0
<1>7. ASSUME NEW k \in DOMAIN mFrames', mFrames'[k].slot # NoHandle
      PROVE  k = 1 /\ M!Ours'
  <2>1. M!Ours' <=> M!Ours BY <1>1, <1>3 DEF M!Ours
  <2>2. CASE k = 1
    BY <1>3, <1>7, <2>1, <2>2 DEF M!InnermostHandles
  <2>3. CASE k # 1 BY <1>3, <1>7, <2>3 DEF M!InnermostHandles
  <2> QED BY <2>2, <2>3
<1> QED BY <1>1, <1>3, <1>5, <1>6, <1>7

-----------------------------------------------------------------------------
(* The steps of the innermost load.                                          *)

Objects == MemPaths \cup Files \cup {"lz32", "memory", "free"}

(* What is left to show of such a step: what it has done to the handles.     *)
LEMMA StepKeeps ==
  ASSUME M!ViewsInv, mLoads # <<>>, NEW l \in LoadType, l.path = M!Load.path, M!Put(l),
         NEW h \in Handles \cup {NoHandle}, NEW mine \in BOOLEAN,
         mine => M!SetSlot(h) /\ (M!Ours \/ h = NoHandle), ~mine => UNCHANGED mFrames,
         mObject' \in [Handles -> Objects],
         \A g \in Handles : mObject'[g] # "free" <=> g \in {l.file, l.section},
         l.file = NoHandle \/ l.file # l.section
  PROVE  /\ M!Load' = l /\ (M!Buffered' <=> M!Buffered) /\ mLoads' # <<>>
         /\ M!Frame'.path = M!Frame.path /\ M!Frame'.slot = IF mine THEN h ELSE M!Frame.slot
         /\ (UNCHANGED mViews \/ M!ViewsAreTheirs') /\ M!Progress' => M!ViewsInv'
<1> USE DEF M!ViewsInv
<1>1. /\ mFrames' \in Seq(FrameType) /\ mLoads' \in Seq(LoadType)
      /\ M!FramesOfLoads'
      /\ mLoads' # <<>> /\ M!Load' = l
      /\ M!Frame'.path = M!Frame.path /\ M!Frame'.slot = IF mine THEN h ELSE M!Frame.slot
      /\ \A i \in DOMAIN mLoads' : i > 1 => i \in DOMAIN mLoads /\ mLoads'[i] = mLoads[i]
      /\ \A k \in DOMAIN mFrames' : mFrames'[k].slot # NoHandle => k = 1 /\ M!Ours'
  BY StepOfLoad
<1>2. M!Types' BY <1>1 DEF M!Types, FrameType, LoadType, Objects
<1>3. M!InnermostHandles' BY <1>1 DEF M!InnermostHandles
<1>4. UNCHANGED mViews => M!ViewsAreTheirs' BY <1>1 DEF M!ViewsAreTheirs
<1>5. M!Buffered' <=> M!Buffered BY <1>1 DEF M!Buffered
<1> QED BY <1>1, <1>2, <1>3, <1>4, <1>5

(* A step that only goes on, or is told something.                           *)
LEMMA StepGoesOn ==
  ASSUME M!ViewsInv, mLoads # <<>>, NEW l \in LoadType, l.path = M!Load.path, M!Put(l),
         l.file = M!Load.file, l.section = M!Load.section, UNCHANGED <<mFrames, mObject>>
  PROVE  /\ M!Load' = l /\ (M!Buffered' <=> M!Buffered) /\ mLoads' # <<>>
         /\ M!Frame'.path = M!Frame.path /\ M!Frame'.slot = M!Frame.slot
         /\ (UNCHANGED mViews \/ M!ViewsAreTheirs') /\ M!Progress' => M!ViewsInv'
<1>1. mObject' \in [Handles -> Objects]
  BY DEF M!ViewsInv, M!Types, Objects
<1>2. \A g \in Handles : mObject'[g] # "free" <=> g \in {l.file, l.section}
  BY DEF M!ViewsInv, M!InnermostHandles
<1>3. l.file = NoHandle \/ l.file # l.section
  BY DEF M!ViewsInv, M!InnermostHandles
<1> QED BY <1>1, <1>2, <1>3, StepKeeps

LEMMA GoesTo ==
  ASSUME M!ViewsInv, mLoads # <<>>, UNCHANGED <<mFrames, mObject>>,
         NEW to \in {"open", "imports", "initialize", "failed"}, M!Goto(to)
  PROVE  /\ M!Load' = [M!Load EXCEPT !.pc = to] /\ M!Load \in LoadType /\ (M!Buffered' <=> M!Buffered)
         /\ mLoads' # <<>> /\ M!Frame'.path = M!Frame.path /\ M!Frame'.slot = M!Frame.slot
         /\ (UNCHANGED mViews \/ M!ViewsAreTheirs') /\ M!Progress' => M!ViewsInv'
<1>0. M!Load \in LoadType BY OwnFrame DEF M!ViewsInv
<1> DEFINE l == [M!Load EXCEPT !.pc = to]
<1>1. l \in LoadType /\ l.path = M!Load.path /\ l.file = M!Load.file /\ l.section = M!Load.section
  BY <1>0 DEF LoadType
<1>2. M!Put(l) BY DEF M!Goto
<1> HIDE DEF l
<1>3. M!Load' = l BY <1>1, <1>2, StepGoesOn
<1> QED BY <1>0, <1>1, <1>2, <1>3, StepGoesOn DEF l

LEMMA Fails ==
  ASSUME M!ViewsInv, mLoads # <<>>, UNCHANGED <<mFrames, mObject, mViews>>, M!Goto("failed")
  PROVE  M!ViewsInv'
<1>1. M!Progress'
  BY GoesTo DEF M!ViewsInv, M!Progress, M!Closed, LoadType
<1> QED BY <1>1, GoesTo

LEMMA NtQueryAttributesFileStep ==
  ASSUME M!ViewsInv, M!NtQueryAttributesFile PROVE M!ViewsInv'
<1>1. mLoads # <<>> /\ M!Load.pc = "attributes" /\ UNCHANGED <<mFrames, mObject, mViews>>
  BY DEF M!NtQueryAttributesFile, M!At
<1>2. CASE M!Goto("open")
  <2>1. M!Progress'
    BY <1>1, <1>2, GoesTo DEF M!ViewsInv, M!Progress, M!Closed, LoadType
  <2> QED BY <1>1, <1>2, <2>1, GoesTo
<1> QED BY <1>1, <1>2, Fails DEF M!NtQueryAttributesFile

LEMMA NtOpenFileStep ==
  ASSUME M!ViewsInv, M!NtOpenFile PROVE M!ViewsInv'
<1>1. mLoads # <<>> /\ M!Load.pc = "open" /\ UNCHANGED mViews BY DEF M!NtOpenFile, M!At
<1>2. /\ M!Load \in LoadType /\ (M!Ours <=> M!Buffered) /\ M!Frame \in FrameType
      /\ M!Load.file = NoHandle /\ M!Load.section = NoHandle /\ M!Frame.slot = NoHandle
  BY <1>1, OwnFrame DEF M!ViewsInv, M!Progress, M!Closed
<1>3. ASSUME NEW h \in M!Free,
             mObject' = [mObject EXCEPT ![h] = IF M!Ours THEN "lz32" ELSE M!Load.path],
             M!Put([M!Load EXCEPT !.file = h, !.pc = "create"]),
             IF M!Ours THEN M!SetSlot(h) ELSE UNCHANGED mFrames
      PROVE  M!ViewsInv'
  <2> DEFINE l == [M!Load EXCEPT !.file = h, !.pc = "create"]
  <2>1. /\ l \in LoadType /\ l.path = M!Load.path /\ l.file = h /\ l.section = NoHandle
        /\ l.pc = "create"
    BY <1>2 DEF LoadType, M!Free
  <2>2. M!Put(l) BY <1>3
  <2> HIDE DEF l
  <2>3. h \in Handles /\ h # NoHandle /\ (~M!Ours => M!Load.path \in Files /\ M!Load.path # "free")
    BY <1>2, MemoryAssumption DEF M!Free, LoadType, M!Buffered
  <2>4. /\ mObject' \in [Handles -> Objects] /\ mObject'[h] = IF M!Ours THEN "lz32" ELSE M!Load.path
        /\ \A g \in Handles \ {h} : mObject'[g] = mObject[g]
    BY <1>3, <2>3 DEF M!ViewsInv, M!Types, Objects
  <2>5. \A g \in Handles : mObject'[g] # "free" <=> g \in {l.file, l.section}
    BY <1>2, <2>1, <2>3, <2>4, MemoryAssumption DEF M!ViewsInv, M!InnermostHandles
  <2>6. /\ M!Load' = l /\ (M!Buffered' <=> M!Buffered) /\ M!Frame'.slot = IF M!Ours THEN h ELSE M!Frame.slot
        /\ UNCHANGED mViews /\ M!Progress' => M!ViewsInv'
    <3> DEFINE mine == M!Ours
    <3>1. mine \in BOOLEAN BY DEF M!Ours
    <3>2. /\ mine => M!SetSlot(h) /\ (M!Ours \/ h = NoHandle)
          /\ ~mine => UNCHANGED mFrames
      BY <1>3
    <3> HIDE DEF mine
    <3>3. /\ M!Load' = l /\ (M!Buffered' <=> M!Buffered) /\ M!Frame'.slot = IF mine THEN h ELSE M!Frame.slot
          /\ UNCHANGED mViews /\ M!Progress' => M!ViewsInv'
      BY <1>1, <2>1, <2>2, <2>3, <2>4, <2>5, <3>1, <3>2, StepKeeps
    <3> QED BY <3>3 DEF mine
  <2>7. M!Progress'
    BY <1>2, <2>1, <2>3, <2>4, <2>6 DEF M!Progress, M!Closed, M!Buffered
  <2> QED BY <1>1, <2>6, <2>7
<1> QED BY <1>1, <1>3, Fails DEF M!NtOpenFile

LEMMA NtCreateSectionStep ==
  ASSUME M!ViewsInv, M!NtCreateSection PROVE M!ViewsInv'
<1>1. mLoads # <<>> /\ M!Load.pc = "create" /\ UNCHANGED mViews BY DEF M!NtCreateSection, M!At
<1>2. /\ M!Load \in LoadType /\ (M!Ours <=> M!Buffered) /\ M!Frame \in FrameType
      /\ M!Load.file # NoHandle /\ M!Load.section = NoHandle
      /\ M!Frame.slot = (IF M!Buffered THEN M!Load.file ELSE NoHandle)
      /\ mObject[M!Load.file] = IF M!Buffered THEN "lz32" ELSE M!Load.path
  BY <1>1, OwnFrame DEF M!ViewsInv, M!Progress, M!Closed
<1>3. ASSUME NEW h \in M!Free,
             mObject' = [mObject EXCEPT ![h] = IF M!Frame.slot = M!Load.file THEN "memory" ELSE mObject[M!Load.file]],
             M!Put([M!Load EXCEPT !.section = h, !.pc = "query"]),
             IF M!Frame.slot = M!Load.file THEN M!SetSlot(h) ELSE UNCHANGED mFrames
      PROVE  M!ViewsInv'
  <2> DEFINE l == [M!Load EXCEPT !.section = h, !.pc = "query"]
  <2>1. /\ l \in LoadType /\ l.path = M!Load.path /\ l.file = M!Load.file /\ l.section = h
        /\ l.pc = "query"
    BY <1>2 DEF LoadType, M!Free
  <2>2. M!Put(l) BY <1>3
  <2> HIDE DEF l
  <2>3. /\ h \in Handles /\ h # NoHandle /\ mObject[h] = "free"
        /\ M!Load.file \in Handles /\ mObject[M!Load.file] # "free" /\ h # M!Load.file
        /\ (~M!Buffered => M!Load.path # "free")
    BY <1>1, <1>2, MemoryAssumption DEF M!Free, LoadType, M!Buffered, M!ViewsInv, M!InnermostHandles
  <2>4. /\ mObject' \in [Handles -> Objects]
        /\ mObject'[h] = IF M!Buffered THEN "memory" ELSE M!Load.path
        /\ \A g \in Handles \ {h} : mObject'[g] = mObject[g]
    BY <1>2, <1>3, <2>3 DEF M!ViewsInv, M!Types, Objects
  <2>5. \A g \in Handles : mObject'[g] # "free" <=> g \in {l.file, l.section}
    BY <1>1, <1>2, <2>1, <2>3, <2>4, MemoryAssumption DEF M!ViewsInv, M!InnermostHandles
  <2>6. /\ M!Load' = l /\ (M!Buffered' <=> M!Buffered) /\ M!Frame'.slot = IF M!Buffered THEN h ELSE NoHandle
        /\ UNCHANGED mViews /\ M!Progress' => M!ViewsInv'
    <3> DEFINE mine == M!Buffered
    <3>1. mine \in BOOLEAN BY DEF M!Buffered
    <3>2. /\ mine => M!SetSlot(h) /\ (M!Ours \/ h = NoHandle)
          /\ ~mine => UNCHANGED mFrames
      BY <1>2, <1>3
    <3>4. M!Frame.slot = IF mine THEN M!Load.file ELSE NoHandle BY <1>2
    <3> HIDE DEF mine
    <3>3. /\ M!Load' = l /\ (M!Buffered' <=> M!Buffered) /\ M!Frame'.slot = IF mine THEN h ELSE M!Frame.slot
          /\ UNCHANGED mViews /\ M!Progress' => M!ViewsInv'
      BY <1>1, <2>1, <2>2, <2>3, <2>4, <2>5, <3>1, <3>2, StepKeeps
    <3> QED BY <3>3, <3>4 DEF mine
  <2>7. M!Progress'
    BY <1>2, <2>1, <2>3, <2>4, <2>6 DEF M!Progress, M!Closed, M!Buffered
  <2> QED BY <1>1, <2>6, <2>7
<1> QED BY <1>1, <1>3, Fails DEF M!NtCreateSection

(* A section shows what its load wants.                                      *)
LEMMA ShownIsRight ==
  ASSUME M!ViewsInv, mLoads # <<>>, M!Load.pc \in {"query", "map"}
  PROVE  M!Shown(M!Load.section) = M!What(M!Load.path)
<1>1. /\ (M!Ours <=> M!Buffered) /\ M!Load.section # NoHandle
      /\ M!Frame.slot = (IF M!Buffered THEN M!Load.section ELSE NoHandle)
      /\ mObject[M!Load.section] = IF M!Buffered THEN "memory" ELSE M!Load.path
  BY OwnFrame DEF M!ViewsInv, M!Progress
<1> QED BY <1>1 DEF M!Shown, M!What, M!Ours, M!Buffered

LEMMA NtQuerySectionStep ==
  ASSUME M!ViewsInv, M!NtQuerySection PROVE M!ViewsInv'
<1>1. /\ mLoads # <<>> /\ M!Load.pc = "query" /\ UNCHANGED <<mFrames, mObject, mViews>>
      /\ M!Put([M!Load EXCEPT !.told = M!Shown(M!Load.section), !.pc = "map"])
  BY DEF M!NtQuerySection, M!At
<1>2. M!Load \in LoadType BY <1>1, OwnFrame DEF M!ViewsInv
<1>3. M!Shown(M!Load.section) = M!What(M!Load.path) BY <1>1, ShownIsRight
<1> DEFINE l == [M!Load EXCEPT !.told = M!What(M!Load.path), !.pc = "map"]
<1>4. /\ l \in LoadType /\ l.path = M!Load.path /\ l.file = M!Load.file /\ l.section = M!Load.section
      /\ l.pc = "map" /\ l.told = M!What(l.path)
  BY <1>2 DEF LoadType, M!What
<1>5. M!Put(l) BY <1>1, <1>3
<1> HIDE DEF l
<1>6. M!Progress'
  BY <1>1, <1>4, <1>5, StepGoesOn DEF M!ViewsInv, M!Progress, M!Closed
<1> QED BY <1>1, <1>4, <1>5, <1>6, StepGoesOn

LEMMA NtMapViewOfSectionStep ==
  ASSUME M!ViewsInv, M!NtMapViewOfSection PROVE M!ViewsInv'
<1>1. mLoads # <<>> /\ M!Load.pc = "map" /\ UNCHANGED <<mFrames, mObject>>
  BY DEF M!NtMapViewOfSection, M!At
<1>2. CASE /\ mViews' = mViews \cup {[path |-> M!Load.path, shown |-> M!Shown(M!Load.section), told |-> M!Load.told]}
           /\ M!Goto("imports")
  <2>1. M!Load.told = M!What(M!Load.path) /\ M!Shown(M!Load.section) = M!What(M!Load.path)
    BY <1>1, ShownIsRight DEF M!ViewsInv, M!Progress
  <2>2. mLoads' # <<>> BY <1>1, <1>2, GoesTo
  <2>3. M!ViewsAreTheirs'
    BY <1>2, <2>1, <2>2 DEF M!ViewsInv, M!ViewsAreTheirs, M!What
  <2>4. M!Progress'
    BY <1>1, <1>2, GoesTo DEF M!ViewsInv, M!Progress, M!Closed, LoadType
  <2> QED BY <1>1, <1>2, <2>3, <2>4, GoesTo
<1> QED BY <1>1, <1>2, Fails DEF M!NtMapViewOfSection

LEMMA NtCloseStep ==
  ASSUME M!ViewsInv, NEW h \in Handles, M!NtClose(h) PROVE M!ViewsInv'
<1>1. /\ mLoads # <<>> /\ h # NoHandle /\ M!Closable(h) /\ UNCHANGED mViews
      /\ IF M!Forgets(h) THEN M!SetSlot(NoHandle) ELSE UNCHANGED mFrames
      /\ mObject' = [mObject EXCEPT ![h] = "free"]
      /\ M!Put(IF h = M!Load.file THEN [M!Load EXCEPT !.file = NoHandle] ELSE [M!Load EXCEPT !.section = NoHandle])
  BY DEF M!NtClose
<1>2. /\ M!Load \in LoadType /\ M!Frame \in FrameType /\ (M!Ours <=> M!Buffered) /\ M!Progress
      /\ h \in {M!Load.file, M!Load.section} /\ M!Load.file # M!Load.section
      /\ M!Load.pc \in {"query", "map", "imports", "failed"}
      /\ h = M!Load.section => M!Load.pc \in {"imports", "failed"}
  BY <1>1, OwnFrame DEF M!ViewsInv, M!Closable, M!InnermostHandles
<1> DEFINE l == IF h = M!Load.file THEN [M!Load EXCEPT !.file = NoHandle] ELSE [M!Load EXCEPT !.section = NoHandle]
           mine == M!Forgets(h)
<1>3. /\ l \in LoadType /\ l.path = M!Load.path /\ l.pc = M!Load.pc /\ l.told = M!Load.told
      /\ l.file = (IF h = M!Load.file THEN NoHandle ELSE M!Load.file)
      /\ l.section = (IF h = M!Load.section THEN NoHandle ELSE M!Load.section)
  BY <1>2 DEF LoadType
<1>4. M!Put(l) BY <1>1
<1>5. /\ mine \in BOOLEAN /\ (mine <=> M!Frame.slot = h)
      /\ mine => M!SetSlot(NoHandle) /\ (M!Ours \/ NoHandle = NoHandle)
      /\ ~mine => UNCHANGED mFrames
  BY <1>1 DEF M!Forgets
<1> HIDE DEF l, mine
<1>6. /\ mObject' \in [Handles -> Objects] /\ mObject'[h] = "free"
      /\ \A g \in Handles \ {h} : mObject'[g] = mObject[g]
  BY <1>1 DEF M!ViewsInv, M!Types, Objects
<1>7. \A g \in Handles : mObject'[g] # "free" <=> g \in {l.file, l.section}
  BY <1>1, <1>2, <1>3, <1>6, MemoryAssumption DEF M!ViewsInv, M!InnermostHandles
<1>8. l.file = NoHandle \/ l.file # l.section
  BY <1>2, <1>3
<1>9. /\ M!Load' = l /\ (M!Buffered' <=> M!Buffered) /\ M!Frame'.slot = IF mine THEN NoHandle ELSE M!Frame.slot
      /\ UNCHANGED mViews /\ M!Progress' => M!ViewsInv'
  BY <1>1, <1>3, <1>4, <1>5, <1>6, <1>7, <1>8, StepKeeps
<1>10. M!Progress'
  BY <1>1, <1>2, <1>3, <1>5, <1>6, <1>9 DEF M!Progress, M!Closed, LoadType
<1> QED BY <1>1, <1>9, <1>10

LEMMA InitializeStep ==
  ASSUME M!ViewsInv, M!Initialize PROVE M!ViewsInv'
<1>1. mLoads # <<>> /\ M!Load.pc = "imports" /\ M!Closed /\ UNCHANGED <<mFrames, mObject, mViews>> /\ M!Goto("initialize")
  BY DEF M!Initialize, M!At
<1>2. M!Progress'
  BY <1>1, GoesTo DEF M!ViewsInv, M!Progress, M!Closed, LoadType
<1> QED BY <1>1, <1>2, GoesTo

-----------------------------------------------------------------------------
(* Loads that begin and return: no handle is open then.                      *)

LEMMA NothingOpen ==
  ASSUME M!ViewsInv, mLoads = <<>> \/ M!Closed
  PROVE  /\ \A k \in DOMAIN mFrames : mFrames[k].slot = NoHandle
         /\ \A h \in Handles : mObject[h] = "free"
         /\ mLoads = <<>> => mFrames = <<>>
         /\ \A i \in DOMAIN mLoads : mLoads[i].file = NoHandle /\ mLoads[i].section = NoHandle
<1>1. \A h \in Handles : mObject[h] = "free"
  BY MemoryAssumption DEF M!ViewsInv, M!InnermostHandles, M!Closed
<1>2. mLoads = <<>> => mFrames = <<>>
  <2>1. SUFFICES ASSUME mLoads = <<>>, mFrames # <<>> PROVE FALSE
    OBVIOUS
  <2>2. mFrames \in Seq(FrameType) BY DEF M!ViewsInv, M!Types, FrameType
  <2>3. 1 \in DOMAIN mFrames BY <2>1, <2>2, FirstOfSequence
  <2> QED BY <2>1, <2>3 DEF M!ViewsInv, M!FramesOfLoads
<1>3. ASSUME NEW k \in DOMAIN mFrames, mLoads # <<>> PROVE mFrames[k].slot = NoHandle
  <2>1. mFrames[k].slot # NoHandle => k = 1 /\ M!Ours
    BY DEF M!ViewsInv, M!InnermostHandles
  <2>2. M!Frame = mFrames[1] /\ M!Frame.slot \in {NoHandle, M!Load.file, M!Load.section}
    BY <1>3, OwnFrame DEF M!ViewsInv, M!Progress
  <2> QED BY <1>3, <2>1, <2>2 DEF M!Closed
<1>4. ASSUME NEW i \in DOMAIN mLoads PROVE mLoads[i].file = NoHandle /\ mLoads[i].section = NoHandle
  <2>1. mLoads \in Seq(LoadType) /\ mLoads # <<>> BY <1>4 DEF M!ViewsInv, M!Types, LoadType
  <2>2. i \in Nat /\ i >= 1 BY <2>1, FirstOfSequence
  <2>3. CASE i > 1 BY <2>3 DEF M!ViewsInv, M!InnermostHandles
  <2>4. CASE i = 1
    BY <2>1, <2>4, FirstOfSequence DEF M!Closed, M!Load
  <2> QED BY <2>2, <2>3, <2>4
<1> QED BY <1>1, <1>2, <1>3, <1>4

(* When the loads are as they were, one less or one more, and no handle is   *)
(* open, the innermost load has just begun or goes on after another one.     *)
Settled ==
  /\ mFrames \in Seq(FrameType) /\ mLoads \in Seq(LoadType) /\ M!FramesOfLoads /\ M!ViewsAreTheirs
  /\ \A k \in DOMAIN mFrames : mFrames[k].slot = NoHandle
  /\ mObject \in [Handles -> Objects]
  /\ \A h \in Handles : mObject[h] = "free"
  /\ \A i \in DOMAIN mLoads : mLoads[i].file = NoHandle /\ mLoads[i].section = NoHandle
  /\ \A i \in DOMAIN mLoads : i > 1 => mLoads[i].pc \in {"imports", "initialize"}
  /\ mLoads # <<>> => M!Load.pc \in {"attributes", "imports", "initialize", "failed"}

LEMMA SettledIsSound == Settled => M!ViewsInv
<1> SUFFICES ASSUME Settled PROVE M!ViewsInv
  OBVIOUS
<1> USE DEF Settled
<1>1. M!Types BY DEF M!Types, FrameType, LoadType, Objects
<1>2. ASSUME mLoads # <<>>
      PROVE  M!Load.file = NoHandle /\ M!Load.section = NoHandle /\ M!Frame.slot = NoHandle
  <2>1. M!Frame = mFrames[1] /\ 1 \in DOMAIN mFrames /\ M!Load = mLoads[1] /\ 1 \in DOMAIN mLoads
    BY <1>1, <1>2, OwnFrame
  <2> QED BY <2>1
<1>3. M!InnermostHandles BY <1>2, MemoryAssumption DEF M!InnermostHandles
<1>4. mLoads # <<>> => M!Progress BY <1>2 DEF M!Progress, M!Closed
<1> QED BY <1>1, <1>3, <1>4 DEF M!ViewsInv

LEMMA SettledNext == Settled' => M!ViewsInv'
BY SettledIsSound, PTL

LEMMA LoadDllFromMemoryStep ==
  ASSUME M!ViewsInv, NEW p \in MemPaths, M!LoadDllFromMemory(p) PROVE M!ViewsInv'
<1>1. /\ mLoads = <<>> \/ (mLoads # <<>> /\ M!Load.pc = "initialize")
      /\ \A k \in DOMAIN mFrames : mFrames[k].path # p
      /\ mFrames' = <<[path |-> p, slot |-> NoHandle]>> \o mFrames
      /\ mLoads' = <<M!NewLoad(p)>> \o mLoads
      /\ UNCHANGED <<mObject, mViews>>
  BY DEF M!LoadDllFromMemory, M!At
<1>2. mLoads = <<>> \/ M!Closed
  BY <1>1 DEF M!ViewsInv, M!Progress
<1>3. /\ mFrames \in Seq(FrameType) /\ mLoads \in Seq(LoadType)
      /\ [path |-> p, slot |-> NoHandle] \in FrameType /\ M!NewLoad(p) \in LoadType
      /\ M!NewLoad(p).path = p /\ M!NewLoad(p).pc = "attributes"
      /\ M!NewLoad(p).file = NoHandle /\ M!NewLoad(p).section = NoHandle
  BY DEF M!ViewsInv, M!Types, FrameType, LoadType, M!NewLoad
<1> DEFINE x == M!NewLoad(p)
           y == [path |-> p, slot |-> NoHandle]
<1>4. y \in FrameType /\ y.path = p /\ y.slot = NoHandle /\ mFrames' = <<y>> \o mFrames
  BY <1>1, <1>3
<1> HIDE DEF x, y
<1>5. /\ mLoads' \in Seq(LoadType) /\ mLoads' # <<>> /\ Len(mLoads') = Len(mLoads) + 1 /\ Head(mLoads') = x /\ mLoads'[1] = x
      /\ \A i \in DOMAIN mLoads : i + 1 \in DOMAIN mLoads' /\ mLoads'[i + 1] = mLoads[i]
      /\ \A i \in DOMAIN mLoads' : i # 1 => i - 1 \in DOMAIN mLoads /\ mLoads'[i] = mLoads[i - 1]
      /\ DOMAIN mLoads' \in SUBSET Nat /\ DOMAIN mLoads \in SUBSET Nat /\ 1 \in DOMAIN mLoads'
      /\ \A i \in DOMAIN mLoads' : i >= 1
  BY <1>1, <1>3, Pushed DEF x
<1>6. /\ mFrames' \in Seq(FrameType) /\ mFrames'[1] = y
      /\ \A i \in DOMAIN mFrames : i + 1 \in DOMAIN mFrames' /\ mFrames'[i + 1] = mFrames[i]
      /\ \A i \in DOMAIN mFrames' : i # 1 => i - 1 \in DOMAIN mFrames /\ mFrames'[i] = mFrames[i - 1]
      /\ DOMAIN mFrames' \in SUBSET Nat /\ DOMAIN mFrames \in SUBSET Nat /\ 1 \in DOMAIN mFrames'
      /\ \A i \in DOMAIN mFrames' : i >= 1
  BY <1>3, <1>4, Pushed
<1>7. \A i \in DOMAIN mLoads : mLoads[i].path # p
  BY <1>1 DEF M!ViewsInv, M!FramesOfLoads
<1>8. M!FramesOfLoads'
  <2>1. mLoads'[Len(mLoads')].path \in MemPaths
    <3>1. CASE mLoads = <<>>
      <4>1. Len(mLoads') = 1 BY <1>5, <3>1
      <4> QED BY <1>3, <1>5, <4>1 DEF x
    <3>2. CASE mLoads # <<>>
      <4>1. Len(mLoads) \in DOMAIN mLoads BY <1>3, <3>2, FirstOfSequence
      <4> QED BY <1>5, <3>2, <4>1 DEF M!ViewsInv, M!FramesOfLoads
    <3> QED BY <3>1, <3>2
  <2>2. \A k \in DOMAIN mFrames' : \E i \in DOMAIN mLoads' : mLoads'[i].path = mFrames'[k].path
    <3>1. ASSUME NEW k \in DOMAIN mFrames', k # 1 PROVE \E i \in DOMAIN mLoads' : mLoads'[i].path = mFrames'[k].path
      <4>1. PICK i \in DOMAIN mLoads : mLoads[i].path = mFrames[k - 1].path
        BY <1>6, <3>1 DEF M!ViewsInv, M!FramesOfLoads
      <4>2. i + 1 \in DOMAIN mLoads' /\ mLoads'[i + 1] = mLoads[i] BY <1>5
      <4>3. mFrames'[k] = mFrames[k - 1] BY <1>6, <3>1
      <4> QED BY <4>1, <4>2, <4>3
    <3>2. /\ 1 \in DOMAIN mLoads' /\ 1 \in DOMAIN mFrames' /\ mLoads'[1].path = p /\ mFrames'[1].path = p
      BY <1>3, <1>4, <1>5, <1>6 DEF x
    <3> QED BY <3>1, <3>2
  <2>3. \A i \in DOMAIN mLoads' : mLoads'[i].path \in MemPaths => \E k \in DOMAIN mFrames' : mFrames'[k].path = mLoads'[i].path
    <3>1. ASSUME NEW i \in DOMAIN mLoads', i # 1, mLoads'[i].path \in MemPaths
          PROVE  \E k \in DOMAIN mFrames' : mFrames'[k].path = mLoads'[i].path
      <4>1. PICK k \in DOMAIN mFrames : mFrames[k].path = mLoads[i - 1].path
        BY <1>5, <3>1 DEF M!ViewsInv, M!FramesOfLoads
      <4>2. k + 1 \in DOMAIN mFrames' /\ mFrames'[k + 1] = mFrames[k] BY <1>6
      <4>3. mLoads'[i] = mLoads[i - 1] BY <1>5, <3>1
      <4> QED BY <4>1, <4>2, <4>3
    <3>2. /\ 1 \in DOMAIN mLoads' /\ 1 \in DOMAIN mFrames' /\ mLoads'[1].path = p /\ mFrames'[1].path = p
      BY <1>3, <1>4, <1>5, <1>6 DEF x
    <3> QED BY <3>1, <3>2
  <2>4. ASSUME NEW i \in DOMAIN mLoads', NEW j \in DOMAIN mLoads', NEW k \in DOMAIN mFrames', NEW l \in DOMAIN mFrames',
               mLoads'[i].path = mFrames'[k].path, mLoads'[j].path = mFrames'[l].path
        PROVE  i < j <=> k < l
    <3>0. /\ \A m \in DOMAIN mLoads' : mLoads'[m].path = p <=> m = 1
          /\ \A m \in DOMAIN mFrames' : mFrames'[m].path = p <=> m = 1
      <4>1. x.path = p BY <1>3 DEF x
      <4>2. ASSUME NEW m \in DOMAIN mLoads' PROVE mLoads'[m].path = p <=> m = 1
        BY <1>5, <1>7, <4>1, <4>2
      <4>3. ASSUME NEW m \in DOMAIN mFrames' PROVE mFrames'[m].path = p <=> m = 1
        BY <1>1, <1>4, <1>6, <4>3
      <4> QED BY <4>2, <4>3
    <3>1. (i = 1 <=> k = 1) /\ (j = 1 <=> l = 1)
      BY <2>4, <3>0
    <3>2. i >= 1 /\ j >= 1 /\ k >= 1 /\ l >= 1 /\ i \in Nat /\ j \in Nat /\ k \in Nat /\ l \in Nat
      BY <1>5, <1>6
    <3>3. CASE i # 1 /\ j # 1
      <4>1. i - 1 < j - 1 <=> k - 1 < l - 1
        <5>1. /\ i - 1 \in DOMAIN mLoads /\ j - 1 \in DOMAIN mLoads
              /\ k - 1 \in DOMAIN mFrames /\ l - 1 \in DOMAIN mFrames
              /\ mLoads[i - 1].path = mFrames[k - 1].path /\ mLoads[j - 1].path = mFrames[l - 1].path
          BY <1>5, <1>6, <2>4, <3>1, <3>3
        <5> QED BY <5>1 DEF M!ViewsInv, M!FramesOfLoads
      <4> QED BY <3>2, <4>1
    <3>4. CASE i = 1 \/ j = 1
      BY <3>1, <3>2, <3>4
    <3> QED BY <3>3, <3>4
  <2> QED BY <2>1, <2>2, <2>3, <2>4 DEF M!FramesOfLoads
<1>9. M!ViewsAreTheirs'
  BY <1>1, <1>5 DEF M!ViewsInv, M!ViewsAreTheirs
<1>10. /\ \A k \in DOMAIN mFrames' : mFrames'[k].slot = NoHandle
       /\ mObject' \in [Handles -> Objects]
       /\ \A h \in Handles : mObject'[h] = "free"
       /\ \A i \in DOMAIN mLoads' : mLoads'[i].file = NoHandle /\ mLoads'[i].section = NoHandle
  BY <1>1, <1>2, <1>3, <1>4, <1>5, <1>6, NothingOpen DEF x, M!ViewsInv, M!Types, Objects
<1>11. \A i \in DOMAIN mLoads' : i > 1 => mLoads'[i].pc \in {"imports", "initialize"}
  <2> SUFFICES ASSUME NEW i \in DOMAIN mLoads', i > 1 PROVE mLoads'[i].pc \in {"imports", "initialize"}
    OBVIOUS
  <2>1. i - 1 \in DOMAIN mLoads /\ mLoads'[i] = mLoads[i - 1] /\ i \in Nat BY <1>5
  <2>2. CASE i - 1 = 1
    <3>1. mLoads # <<>> BY <2>1
    <3>2. M!Load = mLoads[1] BY <1>3, <3>1, FirstOfSequence DEF M!Load
    <3> QED BY <1>1, <2>1, <2>2, <3>1, <3>2
  <2>3. CASE i - 1 > 1 BY <2>1, <2>3 DEF M!ViewsInv, M!InnermostHandles
  <2> QED BY <2>1, <2>2, <2>3
<1>12. M!Load'.pc = "attributes" BY <1>3, <1>5 DEF M!Load, x
<1> QED BY <1>5, <1>6, <1>8, <1>9, <1>10, <1>11, <1>12, SettledNext DEF Settled

(* Shape of the frames after a load of a file begins or ends in front of the *)
(* others: the frames stay.                                                  *)
LEMMA LoadImportStep ==
  ASSUME M!ViewsInv, NEW f \in Files, M!LoadImport(f) PROVE M!ViewsInv'
<1>1. /\ mLoads # <<>> /\ M!Load.pc = "imports" /\ M!Closed
      /\ mLoads' = <<M!NewLoad(f)>> \o mLoads
      /\ UNCHANGED <<mFrames, mObject, mViews>>
  BY DEF M!LoadImport, M!At
<1>2. /\ mFrames \in Seq(FrameType) /\ mLoads \in Seq(LoadType) /\ M!NewLoad(f) \in LoadType
      /\ M!NewLoad(f).path = f /\ M!NewLoad(f).pc = "attributes"
      /\ M!NewLoad(f).file = NoHandle /\ M!NewLoad(f).section = NoHandle
  BY DEF M!ViewsInv, M!Types, FrameType, LoadType, M!NewLoad
<1> DEFINE x == M!NewLoad(f)
<1> HIDE DEF x
<1>3. /\ mLoads' \in Seq(LoadType) /\ mLoads' # <<>> /\ Len(mLoads') = Len(mLoads) + 1 /\ Head(mLoads') = x /\ mLoads'[1] = x
      /\ \A i \in DOMAIN mLoads : i + 1 \in DOMAIN mLoads' /\ mLoads'[i + 1] = mLoads[i]
      /\ \A i \in DOMAIN mLoads' : i # 1 => i - 1 \in DOMAIN mLoads /\ mLoads'[i] = mLoads[i - 1]
      /\ DOMAIN mLoads' \in SUBSET Nat /\ DOMAIN mLoads \in SUBSET Nat /\ 1 \in DOMAIN mLoads'
      /\ \A i \in DOMAIN mLoads' : i >= 1
  BY <1>1, <1>2, Pushed DEF x
<1>4. x.path = f /\ f \notin MemPaths /\ \A k \in DOMAIN mFrames : mFrames[k].path # f
  <2>1. \A k \in DOMAIN mFrames : mFrames[k] \in FrameType BY <1>2
  <2> QED BY <1>2, <2>1, MemoryAssumption DEF x, FrameType
<1>5. M!FramesOfLoads'
  <2>1. mLoads'[Len(mLoads')].path \in MemPaths
    <3>1. Len(mLoads) \in DOMAIN mLoads BY <1>1, <1>2, FirstOfSequence
    <3> QED BY <1>1, <1>3, <3>1 DEF M!ViewsInv, M!FramesOfLoads
  <2>2. ASSUME NEW k \in DOMAIN mFrames PROVE \E i \in DOMAIN mLoads' : mLoads'[i].path = mFrames[k].path
    <3>1. PICK i \in DOMAIN mLoads : mLoads[i].path = mFrames[k].path
      BY DEF M!ViewsInv, M!FramesOfLoads
    <3> QED BY <1>3, <3>1
  <2>3. ASSUME NEW i \in DOMAIN mLoads', mLoads'[i].path \in MemPaths
        PROVE  \E k \in DOMAIN mFrames : mFrames[k].path = mLoads'[i].path
    <3>1. i # 1 BY <1>3, <1>4, <2>3
    <3> QED BY <1>3, <2>3, <3>1 DEF M!ViewsInv, M!FramesOfLoads
  <2>4. ASSUME NEW i \in DOMAIN mLoads', NEW j \in DOMAIN mLoads', NEW k \in DOMAIN mFrames, NEW l \in DOMAIN mFrames,
               mLoads'[i].path = mFrames[k].path, mLoads'[j].path = mFrames[l].path
        PROVE  i < j <=> k < l
    <3>1. i # 1 /\ j # 1 BY <1>3, <1>4, <2>4
    <3>2. /\ i - 1 \in DOMAIN mLoads /\ j - 1 \in DOMAIN mLoads /\ i \in Nat /\ j \in Nat
          /\ mLoads[i - 1].path = mFrames[k].path /\ mLoads[j - 1].path = mFrames[l].path
      BY <1>3, <2>4, <3>1
    <3>3. i - 1 < j - 1 <=> k < l BY <3>2 DEF M!ViewsInv, M!FramesOfLoads
    <3> QED BY <3>2, <3>3
  <2>5. mFrames' = mFrames BY <1>1
  <2> QED BY <2>1, <2>2, <2>3, <2>4, <2>5 DEF M!FramesOfLoads
<1>6. M!ViewsAreTheirs'
  BY <1>1, <1>3 DEF M!ViewsInv, M!ViewsAreTheirs
<1>7. /\ \A k \in DOMAIN mFrames : mFrames[k].slot = NoHandle
      /\ mObject' \in [Handles -> Objects]
      /\ \A h \in Handles : mObject'[h] = "free"
      /\ \A i \in DOMAIN mLoads' : mLoads'[i].file = NoHandle /\ mLoads'[i].section = NoHandle
  BY <1>1, <1>2, <1>3, NothingOpen DEF x, M!ViewsInv, M!Types, Objects
<1>8. \A i \in DOMAIN mLoads' : i > 1 => mLoads'[i].pc \in {"imports", "initialize"}
  <2> SUFFICES ASSUME NEW i \in DOMAIN mLoads', i > 1 PROVE mLoads'[i].pc \in {"imports", "initialize"}
    OBVIOUS
  <2>1. i - 1 \in DOMAIN mLoads /\ mLoads'[i] = mLoads[i - 1] /\ i \in Nat BY <1>3
  <2>2. CASE i - 1 = 1
    <3>1. M!Load = mLoads[1] BY <1>1, <1>2, FirstOfSequence DEF M!Load
    <3> QED BY <1>1, <2>1, <2>2, <3>1
  <2>3. CASE i - 1 > 1 BY <2>1, <2>3 DEF M!ViewsInv, M!InnermostHandles
  <2> QED BY <2>1, <2>2, <2>3
<1>9. M!Load'.pc = "attributes" BY <1>2, <1>3 DEF M!Load, x
<1> QED BY <1>1, <1>2, <1>3, <1>5, <1>6, <1>7, <1>8, <1>9, SettledNext DEF Settled

LEMMA ReturnStep ==
  ASSUME M!ViewsInv, M!Return PROVE M!ViewsInv'
<1>1. /\ mLoads # <<>> /\ M!Load.pc \in {"initialize", "failed"} /\ M!Closed
      /\ mLoads' = IF M!Load.pc = "failed" /\ ~M!Ours
                  THEN <<[mLoads[2] EXCEPT !.pc = "failed"]>> \o Tail(Tail(mLoads)) ELSE Tail(mLoads)
      /\ mFrames' = IF M!Ours THEN Tail(mFrames) ELSE mFrames
      /\ UNCHANGED <<mObject, mViews>>
  BY DEF M!Return, M!At, M!ViewsInv, M!Progress
<1>2. /\ mFrames \in Seq(FrameType) /\ mLoads \in Seq(LoadType) /\ mFrames # <<>> /\ (M!Ours <=> M!Buffered)
      /\ M!Load = mLoads[1] /\ M!Frame = mFrames[1] /\ 1 \in DOMAIN mLoads /\ 1 \in DOMAIN mFrames
      /\ \A k \in DOMAIN mFrames : mFrames[k] \in FrameType
  <2>1. mFrames \in Seq(FrameType) /\ mLoads \in Seq(LoadType) BY DEF M!ViewsInv, M!Types, FrameType, LoadType
  <2>2. \A k \in DOMAIN mFrames : mFrames[k] \in FrameType BY <2>1
  <2> QED BY <1>1, <2>1, <2>2, OwnFrame DEF M!ViewsInv
<1> DEFINE rest == Tail(mLoads)
<1>3. /\ rest \in Seq(LoadType) /\ Len(rest) = Len(mLoads) - 1
      /\ \A i \in DOMAIN rest : i + 1 \in DOMAIN mLoads /\ rest[i] = mLoads[i + 1]
      /\ \A i \in DOMAIN mLoads : i # 1 => i - 1 \in DOMAIN rest /\ mLoads[i] = rest[i - 1]
      /\ DOMAIN rest \in SUBSET Nat /\ DOMAIN mLoads \in SUBSET Nat
      /\ rest # <<>> => Head(rest) = rest[1] /\ Len(rest) \in DOMAIN rest /\ mLoads[Len(mLoads)] = rest[Len(rest)]
  BY <1>1, <1>2, Popped
(* The load that goes on is the one under the returning one, perhaps failed. *)
<1>4. /\ mLoads' \in Seq(LoadType) /\ Len(mLoads') = Len(rest) /\ DOMAIN mLoads' = DOMAIN rest
      /\ \A i \in DOMAIN rest : /\ mLoads'[i].path = rest[i].path
                                /\ mLoads'[i].file = rest[i].file /\ mLoads'[i].section = rest[i].section
                                /\ i # 1 => mLoads'[i].pc = rest[i].pc
                                /\ mLoads'[i].pc \in {rest[i].pc, "failed"}
      /\ mLoads' # <<>> <=> rest # <<>>
  <2>1. CASE M!Load.pc = "failed" /\ ~M!Ours
    <3>1. rest # <<>> /\ mLoads[2] = Head(rest)
      <4>1. mLoads[1].path \notin MemPaths BY <1>2, <2>1 DEF M!Buffered
      <4>2. Len(mLoads) \in DOMAIN mLoads /\ mLoads[Len(mLoads)].path \in MemPaths
        BY <1>1, <1>2, FirstOfSequence DEF M!ViewsInv, M!FramesOfLoads
      <4>3. Len(mLoads) # 1 BY <4>1, <4>2
      <4>4. rest # <<>> BY <1>3, <4>2, <4>3
      <4>5. 1 \in DOMAIN rest /\ Head(rest) = rest[1] BY <1>3, <4>4, FirstOfSequence
      <4> QED BY <1>3, <4>4, <4>5
    <3> DEFINE y == [Head(rest) EXCEPT !.pc = "failed"]
    <3>2. Head(rest) \in LoadType BY <1>3, <3>1, FirstOfSequence
    <3>3. /\ y \in LoadType /\ y.path = Head(rest).path /\ y.file = Head(rest).file
          /\ y.section = Head(rest).section /\ y.pc = "failed"
      BY <3>2 DEF LoadType
    <3>4. mLoads' = <<y>> \o Tail(rest) BY <1>1, <2>1, <3>1
    <3> HIDE DEF y, rest
    <3>5. /\ mLoads' \in Seq(LoadType) /\ mLoads' # <<>> /\ Len(mLoads') = Len(rest) /\ mLoads'[1] = y
          /\ DOMAIN mLoads' = DOMAIN rest /\ Head(rest) = rest[1]
          /\ \A i \in DOMAIN rest : i # 1 => mLoads'[i] = rest[i]
      <4>1. rest \in Seq(LoadType) /\ rest # <<>> /\ y \in LoadType /\ mLoads' = <<y>> \o Tail(rest)
        BY <1>3, <3>1, <3>3, <3>4
      <4> QED BY <4>1, FirstReplaced
    <3>6. ASSUME NEW i \in DOMAIN rest
          PROVE  /\ mLoads'[i].path = rest[i].path
                 /\ mLoads'[i].file = rest[i].file /\ mLoads'[i].section = rest[i].section
                 /\ i # 1 => mLoads'[i].pc = rest[i].pc
                 /\ mLoads'[i].pc \in {rest[i].pc, "failed"}
      BY <3>3, <3>5
    <3> QED BY <3>1, <3>5, <3>6
  <2>2. CASE ~(M!Load.pc = "failed" /\ ~M!Ours)
    BY <1>1, <1>3, <2>2
  <2> QED BY <2>1, <2>2
<1> HIDE DEF rest
<1>5. mFrames' \in Seq(FrameType) /\ M!FramesOfLoads'
  <2>1. ASSUME mLoads' # <<>> PROVE mLoads'[Len(mLoads')].path \in MemPaths
    <3>1. Len(rest) \in DOMAIN rest /\ mLoads[Len(mLoads)] = rest[Len(rest)] BY <1>3, <1>4, <2>1
    <3>2. mLoads[Len(mLoads)].path \in MemPaths BY <1>1 DEF M!ViewsInv, M!FramesOfLoads
    <3>3. Len(mLoads') = Len(rest) /\ mLoads'[Len(rest)].path = rest[Len(rest)].path BY <1>4, <3>1
    <3> QED BY <3>1, <3>2, <3>3
  <2>2. CASE M!Ours
    <3>1. /\ mFrames' \in Seq(FrameType) /\ Len(mFrames') = Len(mFrames) - 1
          /\ \A k \in DOMAIN mFrames' : k + 1 \in DOMAIN mFrames /\ mFrames'[k] = mFrames[k + 1]
          /\ \A k \in DOMAIN mFrames : k # 1 => k - 1 \in DOMAIN mFrames' /\ mFrames[k] = mFrames'[k - 1]
          /\ DOMAIN mFrames' \in SUBSET Nat /\ DOMAIN mFrames \in SUBSET Nat
      BY <1>1, <1>2, <2>2, Popped
    <3>2. mLoads[1].path = mFrames[1].path BY <1>2, <2>2 DEF M!Ours
    <3>3. ASSUME NEW i \in DOMAIN mLoads, NEW k \in DOMAIN mFrames, mLoads[i].path = mFrames[k].path
          PROVE  (i < 1 <=> k < 1) /\ (1 < i <=> 1 < k)
      BY <1>2, <3>2, <3>3 DEF M!ViewsInv, M!FramesOfLoads
    <3>4. \A i \in DOMAIN mLoads, k \in DOMAIN mFrames : mLoads[i].path = mFrames[k].path => (i = 1 <=> k = 1)
      <4>1. /\ DOMAIN mLoads \in SUBSET Nat /\ \A i \in DOMAIN mLoads : i >= 1
            /\ DOMAIN mFrames \in SUBSET Nat /\ \A k \in DOMAIN mFrames : k >= 1
        BY <1>1, <1>2, FirstOfSequence
      <4> SUFFICES ASSUME NEW i \in DOMAIN mLoads, NEW k \in DOMAIN mFrames, mLoads[i].path = mFrames[k].path
                   PROVE  i = 1 <=> k = 1
        OBVIOUS
      <4>2. (i < 1 <=> k < 1) /\ (1 < i <=> 1 < k) BY <3>3
      <4> QED BY <4>1, <4>2
    <3>5. ASSUME NEW k \in DOMAIN mFrames' PROVE \E i \in DOMAIN mLoads' : mLoads'[i].path = mFrames'[k].path
      <4>0. k + 1 \in DOMAIN mFrames /\ mFrames'[k] = mFrames[k + 1] /\ k \in Nat /\ k + 1 # 1
        <5>1. k >= 1 BY <3>1
        <5> QED BY <3>1, <5>1
      <4>1. PICK i \in DOMAIN mLoads : mLoads[i].path = mFrames[k + 1].path
        BY <4>0 DEF M!ViewsInv, M!FramesOfLoads
      <4>2. i # 1 BY <3>4, <4>0, <4>1
      <4>3. i - 1 \in DOMAIN rest /\ mLoads[i] = rest[i - 1] BY <1>3, <4>2
      <4> QED BY <1>4, <4>0, <4>1, <4>3
    <3>6. ASSUME NEW i \in DOMAIN mLoads', mLoads'[i].path \in MemPaths
          PROVE  \E k \in DOMAIN mFrames' : mFrames'[k].path = mLoads'[i].path
      <4>0. i + 1 \in DOMAIN mLoads /\ mLoads'[i].path = mLoads[i + 1].path /\ i \in Nat /\ i + 1 # 1
        <5>1. i >= 1 BY <1>4
        <5> QED BY <1>3, <1>4, <5>1
      <4>1. PICK k \in DOMAIN mFrames : mFrames[k].path = mLoads[i + 1].path
        BY <3>6, <4>0 DEF M!ViewsInv, M!FramesOfLoads
      <4>2. k # 1 BY <3>4, <4>0, <4>1
      <4> QED BY <3>1, <4>0, <4>1, <4>2
    <3>7. ASSUME NEW i \in DOMAIN mLoads', NEW j \in DOMAIN mLoads', NEW k \in DOMAIN mFrames', NEW l \in DOMAIN mFrames',
                 mLoads'[i].path = mFrames'[k].path, mLoads'[j].path = mFrames'[l].path
          PROVE  i < j <=> k < l
      <4>1. /\ i \in Nat /\ j \in Nat /\ k \in Nat /\ l \in Nat
            /\ i + 1 \in DOMAIN mLoads /\ j + 1 \in DOMAIN mLoads
            /\ k + 1 \in DOMAIN mFrames /\ l + 1 \in DOMAIN mFrames
            /\ mLoads[i + 1].path = mFrames[k + 1].path /\ mLoads[j + 1].path = mFrames[l + 1].path
        <5>1. i \in DOMAIN rest /\ j \in DOMAIN rest BY <1>4
        <5>2. /\ i \in Nat /\ j \in Nat /\ i + 1 \in DOMAIN mLoads /\ j + 1 \in DOMAIN mLoads
              /\ rest[i] = mLoads[i + 1] /\ rest[j] = mLoads[j + 1]
          BY <1>3, <5>1
        <5>3. /\ k \in Nat /\ l \in Nat /\ k + 1 \in DOMAIN mFrames /\ l + 1 \in DOMAIN mFrames
              /\ mFrames'[k] = mFrames[k + 1] /\ mFrames'[l] = mFrames[l + 1]
          BY <3>1
        <5>4. mLoads'[i].path = rest[i].path /\ mLoads'[j].path = rest[j].path BY <1>4, <5>1
        <5> QED BY <3>7, <5>2, <5>3, <5>4
      <4>2. i + 1 < j + 1 <=> k + 1 < l + 1
        BY <4>1 DEF M!ViewsInv, M!FramesOfLoads
      <4> QED BY <4>1, <4>2
    <3> QED BY <2>1, <3>1, <3>5, <3>6, <3>7 DEF M!FramesOfLoads
  <2>3. CASE ~M!Ours
    <3>1. mFrames' = mFrames BY <1>1, <2>3
    <3>2. \A k \in DOMAIN mFrames : mLoads[1].path # mFrames[k].path
      BY <1>2, <2>3 DEF M!Buffered, FrameType
    <3>3. ASSUME NEW k \in DOMAIN mFrames PROVE \E i \in DOMAIN mLoads' : mLoads'[i].path = mFrames[k].path
      <4>1. PICK i \in DOMAIN mLoads : mLoads[i].path = mFrames[k].path
        BY DEF M!ViewsInv, M!FramesOfLoads
      <4>2. i # 1 BY <3>2, <4>1
      <4>3. i - 1 \in DOMAIN rest /\ mLoads[i] = rest[i - 1] BY <1>3, <4>2
      <4> QED BY <1>4, <4>1, <4>3
    <3>4. ASSUME NEW i \in DOMAIN mLoads', mLoads'[i].path \in MemPaths
          PROVE  \E k \in DOMAIN mFrames : mFrames[k].path = mLoads'[i].path
      <4>1. i \in DOMAIN rest /\ mLoads'[i].path = rest[i].path BY <1>4
      <4>2. i + 1 \in DOMAIN mLoads /\ rest[i] = mLoads[i + 1] BY <1>3, <4>1
      <4>3. mLoads[i + 1].path \in MemPaths BY <3>4, <4>1, <4>2
      <4> QED BY <4>1, <4>2, <4>3 DEF M!ViewsInv, M!FramesOfLoads
    <3>5. ASSUME NEW i \in DOMAIN mLoads', NEW j \in DOMAIN mLoads', NEW k \in DOMAIN mFrames, NEW l \in DOMAIN mFrames,
                 mLoads'[i].path = mFrames[k].path, mLoads'[j].path = mFrames[l].path
          PROVE  i < j <=> k < l
      <4>1. /\ i \in Nat /\ j \in Nat
            /\ i + 1 \in DOMAIN mLoads /\ j + 1 \in DOMAIN mLoads
            /\ mLoads[i + 1].path = mFrames[k].path /\ mLoads[j + 1].path = mFrames[l].path
        <5>1. i \in DOMAIN rest /\ j \in DOMAIN rest BY <1>4
        <5>2. /\ i \in Nat /\ j \in Nat /\ i + 1 \in DOMAIN mLoads /\ j + 1 \in DOMAIN mLoads
              /\ rest[i] = mLoads[i + 1] /\ rest[j] = mLoads[j + 1]
          BY <1>3, <5>1
        <5>3. mLoads'[i].path = rest[i].path /\ mLoads'[j].path = rest[j].path BY <1>4, <5>1
        <5> QED BY <3>5, <5>2, <5>3
      <4>2. i + 1 < j + 1 <=> k < l
        BY <4>1 DEF M!ViewsInv, M!FramesOfLoads
      <4> QED BY <4>1, <4>2
    <3> QED BY <1>2, <2>1, <3>1, <3>3, <3>4, <3>5 DEF M!FramesOfLoads
  <2> QED BY <2>2, <2>3
<1>6. /\ \A k \in DOMAIN mFrames' : mFrames'[k].slot = NoHandle
      /\ mObject' \in [Handles -> Objects]
      /\ \A h \in Handles : mObject'[h] = "free"
      /\ \A i \in DOMAIN mLoads' : mLoads'[i].file = NoHandle /\ mLoads'[i].section = NoHandle
  <2>1. \A k \in DOMAIN mFrames' : \E m \in DOMAIN mFrames : mFrames'[k] = mFrames[m]
    <3>1. CASE M!Ours
      <4>1. mFrames' = Tail(mFrames) BY <1>1, <3>1
      <4> QED BY <1>2, <4>1, Popped
    <3>2. CASE ~M!Ours BY <1>1, <3>2
    <3> QED BY <3>1, <3>2
  <2>2. \A i \in DOMAIN mLoads' : mLoads'[i].file = mLoads[i + 1].file /\ mLoads'[i].section = mLoads[i + 1].section
                                 /\ i + 1 \in DOMAIN mLoads
    BY <1>3, <1>4
  <2>3. UNCHANGED mObject /\ mObject \in [Handles -> Objects] BY <1>1 DEF M!ViewsInv, M!Types, Objects
  <2>4. /\ \A k \in DOMAIN mFrames : mFrames[k].slot = NoHandle
        /\ \A h \in Handles : mObject[h] = "free"
        /\ \A i \in DOMAIN mLoads : mLoads[i].file = NoHandle /\ mLoads[i].section = NoHandle
    BY <1>1, NothingOpen
  <2> QED BY <2>1, <2>2, <2>3, <2>4
<1>7. \A i \in DOMAIN rest : rest[i].pc \in {"imports", "initialize"}
  <2> SUFFICES ASSUME NEW i \in DOMAIN rest PROVE rest[i].pc \in {"imports", "initialize"}
    OBVIOUS
  <2>1. i + 1 \in DOMAIN mLoads /\ rest[i] = mLoads[i + 1] /\ i + 1 > 1
    <3>1. i \in Nat /\ i >= 1 BY <1>3
    <3> QED BY <1>3, <3>1
  <2> QED BY <2>1 DEF M!ViewsInv, M!InnermostHandles
<1>8. \A i \in DOMAIN mLoads' : i > 1 => mLoads'[i].pc \in {"imports", "initialize"}
  <2> SUFFICES ASSUME NEW i \in DOMAIN mLoads', i > 1 PROVE mLoads'[i].pc \in {"imports", "initialize"}
    OBVIOUS
  <2>1. i \in DOMAIN rest BY <1>4
  <2>2. i # 1 BY <1>3, <2>1
  <2>3. mLoads'[i].pc = rest[i].pc BY <1>4, <2>1, <2>2
  <2> QED BY <1>7, <2>1, <2>3
<1>9. mLoads' # <<>> => M!Load'.pc \in {"imports", "initialize", "failed"}
  <2> SUFFICES ASSUME mLoads' # <<>> PROVE M!Load'.pc \in {"imports", "initialize", "failed"}
    OBVIOUS
  <2>1. M!Load' = mLoads'[1] /\ 1 \in DOMAIN mLoads' BY <1>4, FirstOfSequence DEF M!Load
  <2> QED BY <1>4, <1>7, <2>1
<1>10. M!ViewsAreTheirs'
  <2>1. mLoads' = <<>> => mFrames' = <<>>
    <3>1. ASSUME mFrames' # <<>> PROVE 1 \in DOMAIN mFrames'
      BY <1>5, <3>1, FirstOfSequence
    <3> QED BY <1>5, <3>1 DEF M!FramesOfLoads
  <2> QED BY <1>1, <1>6, <2>1 DEF M!ViewsInv, M!ViewsAreTheirs, M!Free
<1> QED BY <1>4, <1>5, <1>6, <1>8, <1>9, <1>10, SettledNext DEF Settled

-----------------------------------------------------------------------------
LEMMA ViewsInit == M!Init => M!ViewsInv
<1> SUFFICES ASSUME M!Init PROVE M!ViewsInv
  OBVIOUS
<1>1. DOMAIN mFrames = {} /\ DOMAIN mLoads = {} /\ mFrames \in Seq(FrameType) /\ mLoads \in Seq(LoadType)
  BY DEF M!Init
<1>2. M!ViewsAreTheirs BY DEF M!Init, M!ViewsAreTheirs, M!Free
<1> QED BY <1>1, <1>2, SettledIsSound DEF M!Init, Settled, M!FramesOfLoads, Objects

LEMMA ViewsStep == M!ViewsInv /\ [M!Next]_(M!vars) => M!ViewsInv'
<1> SUFFICES ASSUME M!ViewsInv, [M!Next]_(M!vars) PROVE M!ViewsInv'
  OBVIOUS
<1>1. CASE M!Next
  BY <1>1, LoadDllFromMemoryStep, NtQueryAttributesFileStep, NtOpenFileStep, NtCreateSectionStep,
     NtQuerySectionStep, NtMapViewOfSectionStep, NtCloseStep, LoadImportStep, InitializeStep, ReturnStep DEF M!Next
<1>2. CASE UNCHANGED M!vars
  <2>1. UNCHANGED <<mFrames, mLoads, mObject, mViews>> BY <1>2 DEF M!vars
  <2>2. M!Types' BY <2>1 DEF M!ViewsInv, M!Types
  <2>3. M!FramesOfLoads' BY <2>1 DEF M!ViewsInv, M!FramesOfLoads
  <2>4. M!InnermostHandles' BY <2>1 DEF M!ViewsInv, M!InnermostHandles, M!Load, M!Frame, M!Ours
  <2>5. mLoads' # <<>> => M!Progress'
    BY <2>1 DEF M!ViewsInv, M!Progress, M!Load, M!Frame, M!Closed, M!Buffered
  <2>6. M!ViewsAreTheirs' BY <2>1 DEF M!ViewsInv, M!ViewsAreTheirs, M!Free
  <2> QED BY <2>2, <2>3, <2>4, <2>5, <2>6 DEF M!ViewsInv
<1> QED BY <1>1, <1>2

-----------------------------------------------------------------------------
MCVars == <<active, PatchVars, DecoderVars, CodeVars, MoveVars, SearchVars, LoadVars, TableVars, MemoryVars>>

(* Whatever values the kernel gives to handles and however loads from memory  *)
(* nest, a module is mapped from its own buffer and every import from its own *)
(* file, and no handle stays open (LoadDllFromMemory and the hooks of the     *)
(* second ntdll).                                                             *)
THEOREM ViewsOfMemory == MCSpec => []ViewsAreTheirs
<1> DEFINE Inv == active = "memory" => M!ViewsInv
<1>1. MCInit => Inv
  BY ViewsInit DEF MCInit
<1>2. Inv /\ [MCNext]_MCVars => Inv'
  <2> SUFFICES ASSUME Inv, [MCNext]_MCVars, active' = "memory" PROVE M!ViewsInv'
    OBVIOUS
  <2>1. active = "memory" BY DEF MCNext, MCVars
  <2>2. [M!Next]_(M!vars) BY <2>1 DEF MCNext, MCVars, MemoryVars, M!vars
  <2> QED BY <2>1, <2>2, ViewsStep
<1>3. Inv => ViewsAreTheirs
  BY DEF M!ViewsInv, ViewsAreTheirs
<1> HIDE DEF Inv
<1> QED BY <1>1, <1>2, <1>3, PTL DEF MCSpec, MCVars

(* Where hooks are restored while no thread is inside, no thread and no       *)
(* RestoreMemory follows a null pointer or one to freed memory, and no relay  *)
(* leaks and no freed block stays listed, as long as ProtectMemory has not    *)
(* failed for a published trampoline (MemoryPatch.cpp 231-417, 1315-1323).    *)
THEOREM SoundUntilProtectFails ==
  ASSUME Quiescent
  PROVE  MCSpec => []SoundYet
<1> DEFINE Inv == dangling \in BOOLEAN /\ (dangling \/ (SoundInv /\ OwnerInv))
<1>1. MCInit => Inv
  BY InitSound, InitOwners DEF MCInit
<1>2. Inv /\ [MCNext]_MCVars => Inv'
  <2> SUFFICES ASSUME Inv, [MCNext]_MCVars PROVE Inv'
    OBVIOUS
  <2>1. dangling' \in BOOLEAN
    BY DEF MCNext, MCVars, PatchVars
  <2>2. ASSUME ~dangling' PROVE (SoundInv /\ OwnerInv)'
    <3>1. ~dangling /\ [Next]_vars /\ (UNCHANGED vars \/ ~ProtectMemoryFails)
      BY <2>2 DEF MCNext, MCVars, PatchVars
    <3>2. UNCHANGED vars => ~ProtectMemoryFails
      BY DEF vars, engineVars, ProtectMemoryFails, Fail
    <3> QED BY <2>2, <3>1, <3>2, NextSound, NextOwners DEF SoundInv
  <2> QED BY <2>1, <2>2
<1>3. Inv => SoundYet
  BY OwnersLeakNothing DEF SoundYet, SoundInv
<1> HIDE DEF Inv
<1> QED BY <1>1, <1>2, <1>3, PTL DEF MCSpec, MCVars
=============================================================================
