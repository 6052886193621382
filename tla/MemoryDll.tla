------------------------------ MODULE MemoryDll ------------------------------
(* LoadDllFromMemory (support/pe/Image.cpp): the loader of a second copy of  *)
(* ntdll loads a module from a buffer. Six of the copy's system calls are    *)
(* hooked, so that the file the loader opens is lz32.dll in its place, and   *)
(* the section it makes of that file is memory that is filled from the buffer*)
(* when it is mapped. One slot of the load's frame holds the file's handle   *)
(* and then the section's (they are a union). A module's entry point may load*)
(* another one from memory.                                                  *)
EXTENDS Integers, Sequences

CONSTANTS MemPaths,             \* paths under which buffers are loaded
          Files,                \* paths of modules in files
          Handles,
          NoHandle,
          MaxLoads              \* loads of the loader in all (a bound)

VARIABLES frames,               \* LOAD_MEM_DLL_INFO, innermost first: [path, slot]
          loads,                \* what the loader is loading, innermost first
          object,               \* of each handle: what it refers to, or "free"
          views,                \* what has been mapped: [path, shown, told]
          begun

vars == <<frames, loads, object, views, begun>>

Init == /\ frames = <<>> /\ loads = <<>> /\ views = {} /\ begun = 0
        /\ object = [h \in Handles |-> "free"]

(* A load: its path, its handles, what the loader was told of the section    *)
(* and where it stands.                                                      *)
NewLoad(p) == [path |-> p, file |-> NoHandle, section |-> NoHandle, told |-> <<>>, pc |-> "attributes"]

Load == Head(loads)
Frame == Head(frames)           \* GetLaodMemDllInfo
Free == {h \in Handles : object[h] = "free"}
Ours == Load.path = Frame.path  \* RtlCompareUnicodeString of the paths

At(pc) == loads # <<>> /\ Load.pc = pc
Put(l) == loads' = <<l>> \o Tail(loads)
Goto(pc) == Put([Load EXCEPT !.pc = pc])
SetSlot(h) == frames' = <<[Frame EXCEPT !.slot = h]>> \o Tail(frames)

(* The copy of ntdll is loaded, the frame pushed and the calls patched; the  *)
(* second time from the entry point of the module that is being loaded.      *)
LoadDllFromMemory(p) ==
  /\ begun < MaxLoads
  /\ loads = <<>> \/ At("initialize")
  /\ \A i \in DOMAIN frames : frames[i].path # p
  /\ frames' = <<[path |-> p, slot |-> NoHandle]>> \o frames
  /\ loads' = <<NewLoad(p)>> \o loads
  /\ begun' = begun + 1
  /\ UNCHANGED <<object, views>>

NtQueryAttributesFile ==
  /\ At("attributes")
  /\ \/ Goto("open")
     \/ ~Ours /\ Goto("failed")
  /\ UNCHANGED <<frames, object, views, begun>>

NtOpenFile ==
  /\ At("open")
  /\ \/ \E h \in Free :
          /\ object' = [object EXCEPT ![h] = IF Ours THEN "lz32" ELSE Load.path]
          /\ Put([Load EXCEPT !.file = h, !.pc = "create"])
          /\ IF Ours THEN SetSlot(h) ELSE UNCHANGED frames
     \/ Goto("failed") /\ UNCHANGED <<object, frames>>
  /\ UNCHANGED <<views, begun>>

NtCreateSection ==
  /\ At("create")
  /\ \/ \E h \in Free :
          LET ours == Frame.slot = Load.file
          IN /\ object' = [object EXCEPT ![h] = IF ours THEN "memory" ELSE object[Load.file]]
             /\ Put([Load EXCEPT !.section = h, !.pc = "query"])
             /\ IF ours THEN SetSlot(h) ELSE UNCHANGED frames
     \/ Goto("failed") /\ UNCHANGED <<object, frames>>
  /\ UNCHANGED <<views, begun>>

(* What a section shows: the buffer of the load when the slot names it.      *)
Shown(h) == IF Frame.slot = h THEN <<"buffer", Frame.path>> ELSE <<"file", object[h]>>

NtQuerySection ==
  /\ At("query")
  /\ Put([Load EXCEPT !.told = Shown(Load.section), !.pc = "map"])
  /\ UNCHANGED <<frames, object, views, begun>>

NtMapViewOfSection ==
  /\ At("map")
  /\ \/ /\ views' = views \cup {[path |-> Load.path, shown |-> Shown(Load.section), told |-> Load.told]}
        /\ Goto("imports")
     \/ Goto("failed") /\ UNCHANGED views
  /\ UNCHANGED <<frames, object, begun>>

(* The file is closed when the section has been made, the section when it    *)
(* has been mapped, both when the load fails.                                *)
Closable(h) == \/ h = Load.file /\ Load.pc \in {"query", "map", "imports", "failed"}
               \/ h = Load.section /\ Load.pc \in {"imports", "failed"}

(* (mutant: the slot is left as it is when the handle is closed) *)
BadForgets(h) == FALSE
Forgets(h) == Frame.slot = h

NtClose(h) ==
  /\ loads # <<>> /\ h # NoHandle /\ Closable(h)
  /\ IF Forgets(h) THEN SetSlot(NoHandle) ELSE UNCHANGED frames
  /\ object' = [object EXCEPT ![h] = "free"]
  /\ Put(IF h = Load.file THEN [Load EXCEPT !.file = NoHandle] ELSE [Load EXCEPT !.section = NoHandle])
  /\ UNCHANGED <<views, begun>>

Closed == Load.file = NoHandle /\ Load.section = NoHandle

(* The module's imports are loaded from files, then its entry point is run.  *)
LoadImport(f) ==
  /\ At("imports") /\ Closed /\ begun < MaxLoads
  /\ \A i \in DOMAIN loads : loads[i].path # f
  /\ loads' = <<NewLoad(f)>> \o loads
  /\ begun' = begun + 1
  /\ UNCHANGED <<frames, object, views>>

Initialize ==
  /\ At("imports") /\ Closed /\ Goto("initialize")
  /\ UNCHANGED <<frames, object, views, begun>>

(* LdrLoadDll returns; with the load of the buffer the calls are restored    *)
(* and the frame popped. A failed import fails the load that wanted it.      *)
Return ==
  /\ At("initialize") \/ (At("failed") /\ Closed)
  /\ loads' = IF Load.pc = "failed" /\ ~Ours
              THEN <<[loads[2] EXCEPT !.pc = "failed"]>> \o Tail(Tail(loads)) ELSE Tail(loads)
  /\ frames' = IF Ours THEN Tail(frames) ELSE frames
  /\ UNCHANGED <<object, views, begun>>

Next == \/ \E p \in MemPaths : LoadDllFromMemory(p)
        \/ NtQueryAttributesFile \/ NtOpenFile \/ NtCreateSection
        \/ NtQuerySection \/ NtMapViewOfSection
        \/ \E h \in Handles : NtClose(h)
        \/ \E f \in Files : LoadImport(f)
        \/ Initialize \/ Return

Spec == Init /\ [][Next]_vars

-----------------------------------------------------------------------------
(* Whatever handle values the kernel gives out again, the module that is     *)
(* loaded from memory is mapped from its own buffer and described as that,   *)
(* and every module it imports from its own file; no handle is left open     *)
(* when the last load has returned.                                          *)
ViewsAreTheirs ==
  /\ \A v \in views : /\ v.shown = IF v.path \in MemPaths THEN <<"buffer", v.path>> ELSE <<"file", v.path>>
                      /\ v.told = v.shown
  /\ loads = <<>> => Free = Handles /\ frames = <<>>

-----------------------------------------------------------------------------
(* What holds between the steps, for the proof.                              *)

Types ==
  /\ frames \in Seq([path : MemPaths, slot : Handles \cup {NoHandle}])
  /\ loads \in Seq([path : MemPaths \cup Files, file : Handles \cup {NoHandle},
                    section : Handles \cup {NoHandle},
                    told : {<<>>} \cup ({"buffer", "file"} \X (MemPaths \cup Files \cup {"lz32", "memory"})),
                    pc : {"attributes", "open", "create", "query", "map", "imports", "initialize", "failed"}])
  /\ object \in [Handles -> MemPaths \cup Files \cup {"lz32", "memory", "free"}]

(* The frames are those of the loads of buffers, in the same order: the      *)
(* outermost load is one, and the calls of a load find its own frame first.  *)
FramesOfLoads ==
  /\ loads # <<>> => loads[Len(loads)].path \in MemPaths
  /\ \A k \in DOMAIN frames : \E i \in DOMAIN loads : loads[i].path = frames[k].path
  /\ \A i \in DOMAIN loads : loads[i].path \in MemPaths => \E k \in DOMAIN frames : frames[k].path = loads[i].path
  /\ \A i, j \in DOMAIN loads, k, l \in DOMAIN frames :
       loads[i].path = frames[k].path /\ loads[j].path = frames[l].path => (i < j <=> k < l)

(* Only the innermost load has handles, and only its own frame holds one.    *)
InnermostHandles ==
  /\ \A i \in DOMAIN loads : i > 1 =>
       loads[i].pc \in {"imports", "initialize"} /\ loads[i].file = NoHandle /\ loads[i].section = NoHandle
  /\ \A k \in DOMAIN frames : frames[k].slot # NoHandle => k = 1 /\ Ours
  /\ \A h \in Handles : object[h] # "free" <=> loads # <<>> /\ h \in {Load.file, Load.section}
  /\ loads # <<>> => Load.file = NoHandle \/ Load.file # Load.section

(* How far the innermost load has come, and what its frame's slot is then.   *)
Buffered == Load.path \in MemPaths
What(p) == IF p \in MemPaths THEN <<"buffer", p>> ELSE <<"file", p>>

Progress ==
  /\ Load.pc \in {"attributes", "open"} => Closed /\ Frame.slot = NoHandle
  /\ Load.pc = "create" => /\ Load.file # NoHandle /\ Load.section = NoHandle
                           /\ Frame.slot = IF Buffered THEN Load.file ELSE NoHandle
  /\ Load.pc \in {"query", "map"} => Load.section # NoHandle
  /\ Load.pc \in {"query", "map", "imports"} =>
       Frame.slot = IF Buffered THEN Load.section ELSE NoHandle
  /\ Load.pc = "map" => Load.told = What(Load.path)
  /\ Load.pc = "initialize" => Closed
  /\ Frame.slot \in {NoHandle, Load.file, Load.section}
  /\ Load.file # NoHandle => object[Load.file] = IF Buffered THEN "lz32" ELSE Load.path
  /\ Load.section # NoHandle => object[Load.section] = IF Buffered THEN "memory" ELSE Load.path

ViewsInv == Types /\ FramesOfLoads /\ InnermostHandles /\ (loads # <<>> => Progress) /\ ViewsAreTheirs
=============================================================================
