---------------------------- MODULE ActiveFrames ----------------------------
(* A thread's chain of active frames (support/runtime/ActiveFrame.h), the    *)
(* innermost frame last.  A frame is a record with at least the fields kind  *)
(* and owner, the call whose stack holds it.                                 *)
EXTENDS Naturals, Sequences, FiniteSetsExt

CONSTANT NoFrame

(* ActiveFrame::Push *)
PushFrame(frames, frame) == Append(frames, frame)

(* ActiveFrame::Pop: RtlPopFrame unlinks the frame and all within it; a call *)
(* that has not pushed one pops nothing (NeedPop).                           *)
PopFrame(frames, owner) ==
    LET pushed == {i \in DOMAIN frames : frames[i].owner = owner}
    IN  IF pushed = {} THEN frames ELSE SubSeq(frames, 1, Max(pushed) - 1)

(* mutant: the frame pushed first *)
BadFindFrame(frames, kind) ==
    LET found == {i \in DOMAIN frames : frames[i].kind = kind}
    IN  IF found = {} THEN NoFrame ELSE frames[Min(found)]

(* ActiveFrame::Find: the innermost frame of this kind. *)
FindFrame(frames, kind) ==
    LET found == {i \in DOMAIN frames : frames[i].kind = kind}
    IN  IF found = {} THEN NoFrame ELSE frames[Max(found)]
=============================================================================
