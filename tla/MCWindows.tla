------------------------------ MODULE MCWindows ------------------------------
(* Windows: their procedures and their creation. The two parts share no     *)
(* state; a behaviour is one of one of them, chosen at the start.           *)
EXTENDS MCWindowProcs

CONSTANTS Windows, Params, NoFrame, NullParam, MaxCreations

(* The program's values are no records and no frames of the worker; no value *)
(* stands for two of these.                                                  *)
ASSUME CreationAssumption ==
    /\ NullParam \notin Params \cup Windows /\ Params \cap Windows = {}
    /\ "not seen" \notin Windows \cup Params \cup {NullParam}
    /\ MaxCreations \in Nat
    /\ NoFrame \notin [kind : {"CPPC"}, owner : Windows, stack : Windows \cup {NullParam}]

VARIABLES active, cCreations, cHooks, cFrames, cWrapped, cReceived

C == INSTANCE WindowCreation WITH MaxNested <- MaxCreations,
       creations <- cCreations, hooks <- cHooks, frames <- cFrames,
       wrapped <- cWrapped, received <- cReceived

ProcVars     == <<vars, overtaken>>
CreationVars == <<cCreations, cHooks, cFrames, cWrapped, cReceived>>

WindowsInit ==
    /\ active \in {"procedures", "creation"}
    /\ MCInit
    /\ IF active = "creation" THEN C!Init
       ELSE cCreations = 0 /\ cHooks = 0 /\ cFrames = 0 /\ cWrapped = 0 /\ cReceived = 0

WindowsNext ==
    /\ UNCHANGED active
    /\ \/ active = "procedures" /\ MCNext /\ UNCHANGED CreationVars
       \/ active = "creation" /\ C!Next /\ UNCHANGED ProcVars

WindowsSpec == WindowsInit /\ [][WindowsNext]_<<active, ProcVars, CreationVars>>

-----------------------------------------------------------------------------
(* ParamsArrive, WrappedInTime and NothingLeft, of WindowCreation: each      *)
(* creation, however nested, hands the program its own parameter, wraps its  *)
(* own window in time, and takes its hook and frame away (CBTProc).          *)
CreatedRight == active = "creation" => C!ParamsArrive /\ C!WrappedInTime /\ C!NothingLeft
=============================================================================
