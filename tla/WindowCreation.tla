--------------------------- MODULE WindowCreation ---------------------------
(***************************************************************************)
(* Window creation on one thread (Hooks/User32Hook.cpp): the worker behind *)
(* NtUserCreateWindowEx installs a CBT hook and an active frame for the    *)
(* time of the call, passes its own record for the program's lpCreateParams *)
(* and lets the hook put the program's value back and wrap the window.     *)
(*                                                                         *)
(* Creations nest: the program's procedures and its own CBT hooks run      *)
(* during a creation and create further windows, whose HCBT_CREATEWND goes *)
(* through the hooks of all the creations in progress.                     *)
(***************************************************************************)
EXTENDS ActiveFrames

CONSTANTS
    Windows,      \* windows, each created at most once
    Params,       \* values the program passes as lpCreateParams, no windows
    NullParam,    \* neither of the two
    MaxNested     \* bound: creations in progress

VARIABLES
    creations,  \* calls of the worker in progress, the innermost last
    hooks,      \* the thread's WH_CBT hooks, the one called first last
    frames,     \* the thread's active frames
    wrapped,    \* how often each window was given the wrapper
    received    \* the lpCreateParams each window's procedure saw

vars == <<creations, hooks, frames, wrapped, received>>

Kind == "CPPC"              \* CBT_PROC_PARAM_CONTEXT, of both hooks
Given == Params \cup {NullParam}

(* A window stands for the CBT_CREATE_PARAM of its creation, and for the    *)
(* stack pointer the record and the frame share.                            *)
Creations ==
    [win : Windows, ansi : BOOLEAN, own : Given, param : Given \cup Windows,
     step : {"called", "hooks", "messages", "failed"}, turn : Nat]

NotSeen == "not seen"

TypeOK ==
    /\ creations \in Seq(Creations) /\ Len(creations) <= MaxNested
    /\ hooks \in Seq([proc : {"CBTProc", "CBTProcU", "program"}, owner : Windows \cup {NullParam}])
    /\ frames \in Seq([kind : {Kind}, owner : Windows, stack : Windows \cup {NullParam}])
    /\ wrapped \in [Windows -> Nat]
    /\ received \in [Windows -> Given \cup Windows \cup {NotSeen}]

Top == creations[Len(creations)]
SetTop(creation) == creations' = [creations EXCEPT ![Len(creations)] = creation]
Hook == hooks[Top.turn]

(* The program's code runs: between creations, in a procedure handling the   *)
(* messages of a creation, or in a CBT hook of its own.                      *)
InProgram ==
    IF creations = <<>> THEN TRUE
    ELSE Top.step = "messages"
         \/ (Top.step = "hooks" /\ Top.turn # 0 /\ Hook.proc = "program")

Used(w) == received[w] # NotSeen \/ \E i \in DOMAIN creations : creations[i].win = w

Init ==
    /\ creations = <<>>
    /\ hooks = <<>>
    /\ frames = <<>>
    /\ wrapped = [w \in Windows |-> 0]
    /\ received = [w \in Windows |-> NotSeen]

-----------------------------------------------------------------------------
(* The worker up to the system call. *)

(* InstallCbtHook: the hook, the frame, and the record passed on. *)
InstallCbtHook(w) ==
    /\ hooks' = Append(hooks, [proc |-> "CBTProc", owner |-> w])
    /\ frames' = PushFrame(frames, [kind |-> Kind, owner |-> w, stack |-> w])

(* InstallUnicodeCbtHook: the frame's stack pointer is never set. *)
InstallUnicodeCbtHook(w) ==
    /\ hooks' = Append(hooks, [proc |-> "CBTProcU", owner |-> w])
    /\ frames' = PushFrame(frames, [kind |-> Kind, owner |-> w, stack |-> NullParam])

(* CreateWindowExA and CreateWindowExW; without a hook when the window name  *)
(* could not be captured or SetWindowsHookExA failed.                        *)
CreateWindow(w, ansi, own, hooked) ==
    /\ InProgram
    /\ ~Used(w)
    /\ Len(creations) < MaxNested
    /\ IF ~hooked THEN UNCHANGED <<hooks, frames>>
       ELSE IF ansi THEN InstallCbtHook(w)
       ELSE InstallUnicodeCbtHook(w)
    /\ creations' = Append(creations,
          [win |-> w, ansi |-> ansi, own |-> own,
           param |-> IF hooked /\ ansi THEN w ELSE own,
           step |-> "called", turn |-> 0])
    /\ UNCHANGED <<wrapped, received>>

(* The program hooks the thread itself. *)
ProgramHook ==
    /\ InProgram
    /\ \A i \in DOMAIN hooks : hooks[i].proc # "program"
    /\ hooks' = Append(hooks, [proc |-> "program", owner |-> NullParam])
    /\ UNCHANGED <<creations, frames, wrapped, received>>

-----------------------------------------------------------------------------
(* HCBT_CREATEWND. *)

CallHooks ==
    /\ creations # <<>> /\ Top.step = "called"
    /\ SetTop([Top EXCEPT !.step = "hooks", !.turn = Len(hooks)])
    /\ UNCHANGED <<hooks, frames, wrapped, received>>

(* CallNextHookEx *)
NextHook == [Top EXCEPT !.turn = @ - 1]

(* VerifyWindowParam: a null value is refused, any other one is read as a    *)
(* record and its stack pointer compared with the frame's.  A value of the   *)
(* program is taken to be readable there, and what it holds to differ from   *)
(* the address of a frame of the worker and from what the unset stack        *)
(* pointer of a Unicode frame is.                                            *)
Verified(frame) == frame # NoFrame /\ Top.param = frame.stack /\ Top.param # NullParam

(* mutant: the record is not verified *)
BadCBTProcUnverified ==
    /\ creations # <<>> /\ Top.step = "hooks" /\ Top.turn # 0
    /\ Hook.proc = "CBTProc"
    /\ SetTop([NextHook EXCEPT !.param = Top.own])
    /\ wrapped' = IF wrapped[Top.win] = 0
                  THEN [wrapped EXCEPT ![Top.win] = @ + 1] ELSE wrapped
    /\ UNCHANGED <<hooks, frames, received>>

(* CBTProc: the first hook of an ANSI creation finds its own frame; the      *)
(* hooks of the creations around it run on the same window afterwards.       *)
CBTProc ==
    /\ creations # <<>> /\ Top.step = "hooks" /\ Top.turn # 0
    /\ Hook.proc = "CBTProc"
    /\ IF Verified(FindFrame(frames, Kind))
       THEN /\ SetTop([NextHook EXCEPT !.param = Top.own])
            /\ wrapped' = IF wrapped[Top.win] = 0
                          THEN [wrapped EXCEPT ![Top.win] = @ + 1] ELSE wrapped
       ELSE SetTop(NextHook) /\ UNCHANGED wrapped
    /\ UNCHANGED <<hooks, frames, received>>

(* CBTProcU, and a hook of the program that has nothing more to do. *)
OtherHook ==
    /\ creations # <<>> /\ Top.step = "hooks" /\ Top.turn # 0
    /\ Hook.proc # "CBTProc"
    /\ SetTop(NextHook)
    /\ UNCHANGED <<hooks, frames, wrapped, received>>

(* WM_NCCREATE and the messages after it go to the window's procedure. *)
SendMessages ==
    /\ creations # <<>> /\ Top.step = "hooks" /\ Top.turn = 0
    /\ SetTop([Top EXCEPT !.step = "messages"])
    /\ received' = [received EXCEPT ![Top.win] = Top.param]
    /\ UNCHANGED <<hooks, frames, wrapped>>

(* The system refuses the creation before the hooks run, or a hook does. *)
Fail ==
    /\ creations # <<>> /\ Top.step \in {"called", "hooks"}
    /\ SetTop([Top EXCEPT !.step = "failed"])
    /\ UNCHANGED <<hooks, frames, wrapped, received>>

(* UnhookWindowsHookEx: the hooks above it stay. *)
Unhook(w) ==
    LET at == {k \in DOMAIN hooks : hooks[k].owner = w}
    IN  hooks' = IF at = {} THEN hooks
                 ELSE SubSeq(hooks, 1, Max(at) - 1) \o SubSeq(hooks, Max(at) + 1, Len(hooks))

(* mutant: the frame stays *)
BadUninstallCbtHook(w) ==
    /\ Unhook(w)
    /\ frames' = IF Top.ansi THEN PopFrame(frames, w) ELSE frames

(* UninstallCbtHook: a call without a hook has no frame either. *)
UninstallCbtHook(w) ==
    /\ Unhook(w)
    /\ frames' = PopFrame(frames, w)

Return ==
    /\ creations # <<>> /\ Top.step \in {"messages", "failed"}
    /\ UninstallCbtHook(Top.win)
    /\ creations' = SubSeq(creations, 1, Len(creations) - 1)
    /\ received' = [received EXCEPT ![Top.win] = IF @ = NotSeen THEN Top.own ELSE @]
    /\ UNCHANGED <<wrapped>>

Next ==
    \/ \E w \in Windows, ansi, hooked \in BOOLEAN, own \in Given :
          CreateWindow(w, ansi, own, hooked)
    \/ ProgramHook
    \/ CallHooks
    \/ CBTProc
    \/ OtherHook
    \/ SendMessages
    \/ Fail
    \/ Return

Spec == Init /\ [][Next]_vars
-----------------------------------------------------------------------------
(* Properties. *)

(* A window's procedure never sees LEP's record: whatever creations the call *)
(* is nested in, lpCreateParams is the program's own value.                  *)
ParamsArrive ==
    \A i \in DOMAIN creations :
        creations[i].step = "messages" => received[creations[i].win] = creations[i].own

(* A window of CreateWindowExA whose hook could be installed is wrapped,     *)
(* once, before its first message; no other window is, also not by the hook  *)
(* of a creation around it.                                                  *)
Hooked(c) == \E i \in DOMAIN hooks : hooks[i].owner = c.win
WrappedInTime ==
    \A i \in DOMAIN creations :
        LET c == creations[i]
        IN  c.step = "messages" =>
               wrapped[c.win] = (IF c.ansi /\ Hooked(c) THEN 1 ELSE 0)

(* Hooks and frames belong to the creations in progress, in their order:     *)
(* none is left when a call has returned, by success or by failure.          *)
NothingLeft ==
    /\ \A k \in DOMAIN hooks : hooks[k].proc # "program" =>
          \E i \in DOMAIN frames : frames[i].owner = hooks[k].owner
    /\ \A i \in DOMAIN frames :
          /\ \E k \in DOMAIN hooks : hooks[k].owner = frames[i].owner
          /\ \E m \in DOMAIN creations : creations[m].win = frames[i].owner
    /\ \A i, j \in DOMAIN frames :
          /\ \A k, l \in DOMAIN hooks :
                hooks[k].owner = frames[i].owner /\ hooks[l].owner = frames[j].owner => (i < j <=> k < l)
          /\ \A m, n \in DOMAIN creations :
                creations[m].win = frames[i].owner /\ creations[n].win = frames[j].owner => (i < j <=> m < n)

-----------------------------------------------------------------------------
(* What holds between the steps, for the proof.                              *)

(* Whose a hook and a frame are, and that a window is created once.          *)
OwnersInv ==
    /\ \A i, j \in DOMAIN creations : creations[i].win = creations[j].win => i = j
    /\ \A k \in DOMAIN hooks : hooks[k].proc = "program" <=> hooks[k].owner = NullParam
    /\ \A m \in DOMAIN creations :
          /\ \A k \in DOMAIN hooks : hooks[k].owner = creations[m].win =>
                hooks[k].proc = IF creations[m].ansi THEN "CBTProc" ELSE "CBTProcU"
          /\ \A i \in DOMAIN frames : frames[i].owner = creations[m].win =>
                frames[i].stack = IF creations[m].ansi THEN creations[m].win ELSE NullParam

(* A creation waits while the program's code in it creates windows, whose    *)
(* hooks are all above the one that has its turn.                            *)
TurnsInv ==
    \A m \in DOMAIN creations :
       /\ m < Len(creations) =>
             \/ creations[m].step = "messages"
             \/ /\ creations[m].step = "hooks" /\ creations[m].turn # 0
                /\ hooks[creations[m].turn].proc = "program"
       /\ creations[m].step = "hooks" =>
             /\ creations[m].turn <= Len(hooks)
             /\ \A n \in DOMAIN creations, k \in DOMAIN hooks :
                   n > m /\ hooks[k].owner = creations[n].win => k > creations[m].turn

(* The creation's own hook has not had its turn.                             *)
Waits(c) == c.step = "called" \/ (c.step = "hooks" /\ \E k \in DOMAIN hooks : hooks[k].owner = c.win /\ k <= c.turn)

(* The program's value is put back, and the window wrapped, when the hook    *)
(* has its turn.                                                             *)
ParamRight(c) ==
    /\ c.step # "messages" => received[c.win] = NotSeen
    /\ c.step = "messages" => received[c.win] = c.own
    /\ c.step # "failed" =>
          /\ c.param = IF c.ansi /\ Hooked(c) /\ Waits(c) THEN c.win ELSE c.own
          /\ wrapped[c.win] = IF c.ansi /\ Hooked(c) /\ ~Waits(c) THEN 1 ELSE 0

ParamsInv ==
    /\ \A m \in DOMAIN creations : ParamRight(creations[m])
    /\ \A w \in Windows : ~Used(w) => wrapped[w] = 0

CreationInv == TypeOK /\ NothingLeft /\ OwnersInv /\ TurnsInv /\ ParamsInv
=============================================================================
