---------------------------- MODULE WindowProcs -----------------------------
(***************************************************************************)
(* The ANSI window-procedure wrapper of one window                         *)
(* (Hooks/User32Hook.cpp).  USER32 keeps the window's procedure, LEP keeps *)
(* a second one in the window property "Asuna": the wrapper WindowProcW is *)
(* what USER32 calls, the property is what the wrapper calls.  The hooked  *)
(* A interface reads and writes the property; the W interface is not       *)
(* hooked and reads and writes USER32's procedure.                         *)
(*                                                                         *)
(* A procedure stands for itself whether an interface shows it raw or as a *)
(* call-proc handle: both name the same procedure to CallWindowProc and to *)
(* SetWindowLong.  Messages are delivered by the owning thread, which may  *)
(* call the interfaces and send nested messages from inside a procedure.   *)
(***************************************************************************)
EXTENDS Naturals, Sequences, FiniteSets

CONSTANTS
    Threads,      \* threads that use the window
    Owner,        \* the thread that created it and delivers its messages
    AnsiProcs,    \* the program's ANSI procedures
    WideProcs,    \* the Unicode procedures of the program and its libraries
    ClassProcs,   \* those of them a window class may have
    WindowProcW,  \* LEP's wrapper
    Null,
    MaxNested,    \* bound: messages in delivery at once
    Foreign       \* other threads set procedures: "never", "wrapped" windows' or "any"

ASSUME ProcAssumption ==
    /\ Owner \in Threads
    /\ AnsiProcs \cap WideProcs = {}
    /\ ClassProcs \subseteq AnsiProcs \cup WideProcs
    /\ WindowProcW \notin AnsiProcs \cup WideProcs
    /\ Null \notin AnsiProcs \cup WideProcs \cup {WindowProcW}
    /\ MaxNested \in Nat
    /\ Foreign \in {"never", "wrapped", "any"}

AppProcs == AnsiProcs \cup WideProcs
Procs == AppProcs \cup {WindowProcW}

VARIABLES
    created,   \* the window exists
    native,    \* USER32's window procedure
    property,  \* the property "Asuna", Null when the window has none
    beneath,   \* what each procedure was given as the previous one
    calls,     \* a LepSetWindowLongA in progress on each thread
    returned,  \* what the last LepSetWindowLongA returned
    messages   \* the owner's messages in delivery, the innermost last

vars == <<created, native, property, beneath, calls, returned, messages>>

NoCall == [step |-> "none", new |-> Null, old |-> Null]
Steps == {"none", "store", "native", "wrap", "save"}
Calls == [step : Steps, new : Procs \cup {Null}, old : Procs \cup {Null}]
Messages == [at : Procs \cup {Null}, seen : SUBSET Procs, wrapped : BOOLEAN]

TypeOK ==
    /\ created \in BOOLEAN
    /\ native \in Procs
    /\ property \in Procs \cup {Null}
    /\ beneath \in [AppProcs -> Procs \cup {Null}]
    /\ calls \in [Threads -> Calls]
    /\ \A t \in Threads : calls[t].step \in {"store", "wrap", "save"} => calls[t].old # Null
    /\ returned \in Procs \cup {Null}
    /\ messages \in Seq(Messages) /\ Len(messages) <= MaxNested

-----------------------------------------------------------------------------
(* The calls the program makes. *)

(* GetWindowDataA *)
Saved == property # Null

(* LepGetWindowLongAWorker: the property if there is one. *)
LepGetWindowLongA == IF Saved THEN property ELSE native

(* LepIsWindowUnicode *)
LepIsWindowUnicode == ~Saved /\ native \notin AnsiProcs

Top == messages[Len(messages)]

(* The owner runs program code between messages and inside a procedure of   *)
(* the program.                                                             *)
InProgram == messages # <<>> => Top.at \in AppProcs

(* The thread may call an interface. *)
Free(t) ==
    /\ created
    /\ calls[t].step = "none"
    /\ IF t = Owner THEN InProgram ELSE Foreign = "any" \/ (Foreign = "wrapped" /\ Saved)

Installed(p) == beneath[p] # Null

Init ==
    /\ created = FALSE
    /\ native \in ClassProcs
    /\ property = Null
    /\ beneath = [p \in AppProcs |-> Null]
    /\ calls = [t \in Threads |-> NoCall]
    /\ returned = Null
    /\ messages = <<>>

(* CBTProc wraps a window that CreateWindowExA makes, before its first     *)
(* message and before any other thread knows it.                           *)
CreateAnsi ==
    /\ ~created
    /\ created' = TRUE
    /\ native' = WindowProcW
    /\ property' = native
    /\ UNCHANGED <<beneath, calls, returned, messages>>

(* CreateWindowExW, or CreateWindowExA when the CBT hook could not be set. *)
CreateNative ==
    /\ ~created
    /\ created' = TRUE
    /\ UNCHANGED <<native, property, beneath, calls, returned, messages>>

(* LepSetWindowLongAWorker looks whether the window is wrapped and, if not, *)
(* goes the native way first.                                               *)
CallSetWindowLongA(t, new) ==
    /\ Free(t)
    /\ calls' = [calls EXCEPT ![t] =
                   [step |-> IF Saved THEN "store" ELSE "native",
                    new |-> new, old |-> property]]
    /\ UNCHANGED <<created, native, property, beneath, returned, messages>>

(* A program subclasses with a procedure it has not used yet, or takes out  *)
(* the one on top.                                                          *)
Subclass(t, p) ==
    /\ ~Installed(p) /\ p \notin ClassProcs
    /\ \A s \in Threads : calls[s].new # p
    /\ CallSetWindowLongA(t, p)

Restore(t, p) ==
    /\ LepGetWindowLongA = p /\ Installed(p)
    /\ CallSetWindowLongA(t, beneath[p])

(* The worker returns: the program keeps the procedure it was given, except *)
(* when it put an earlier one back.                                         *)
Returns(t, old) ==
    LET new == calls[t].new
    IN  /\ returned' = old
        /\ beneath' = IF new \in AnsiProcs \ ClassProcs /\ ~Installed(new)
                      THEN [beneath EXCEPT ![new] = old] ELSE beneath
        /\ calls' = [calls EXCEPT ![t] = NoCall]

(* mutant: USER32's procedure is returned *)
BadStoreStale(t) ==
    /\ calls[t].step = "store"
    /\ property' = calls[t].new
    /\ Returns(t, native)
    /\ UNCHANGED <<created, native, messages>>

(* SetWindowDataA on a window that is wrapped already. *)
Store(t) ==
    /\ calls[t].step = "store"
    /\ property' = calls[t].new
    /\ Returns(t, calls[t].old)
    /\ UNCHANGED <<created, native, messages>>

(* The native SetWindowLongA. *)
SetNative(t) ==
    /\ calls[t].step = "native"
    /\ native' = calls[t].new
    /\ calls' = [calls EXCEPT ![t].step = "wrap", ![t].old = native]
    /\ UNCHANGED <<created, property, beneath, returned, messages>>

(* mutant: no SetWindowLongPtrW *)
BadWrap(t) ==
    /\ calls[t].step = "wrap"
    /\ calls' = [calls EXCEPT ![t].step = "save"]
    /\ UNCHANGED <<created, native, property, beneath, returned, messages>>

(* InitUnicodeProc: SetWindowLongPtrW, then SetWindowDataA. *)
Wrap(t) ==
    /\ calls[t].step = "wrap"
    /\ native' = WindowProcW
    /\ calls' = [calls EXCEPT ![t].step = "save"]
    /\ UNCHANGED <<created, property, beneath, returned, messages>>

(* mutant: the procedure is read back after it was replaced *)
BadSaveWrapper(t) ==
    /\ calls[t].step = "save"
    /\ property' = native
    /\ Returns(t, calls[t].old)
    /\ UNCHANGED <<created, native, messages>>

Save(t) ==
    /\ calls[t].step = "save"
    /\ property' = calls[t].new
    /\ Returns(t, calls[t].old)
    /\ UNCHANGED <<created, native, messages>>

(* The W interface, which LEP leaves alone. *)
SubclassWide(t, p) ==
    /\ Free(t)
    /\ ~Installed(p) /\ p \notin ClassProcs
    /\ beneath' = [beneath EXCEPT ![p] = native]
    /\ native' = p
    /\ UNCHANGED <<created, property, calls, returned, messages>>

(* A component may put back what it found although others have set their   *)
(* procedures since.                                                        *)
RestoreWide(t, p) ==
    /\ Free(t)
    /\ Installed(p)
    /\ native' = beneath[p]
    /\ UNCHANGED <<created, property, beneath, calls, returned, messages>>

-----------------------------------------------------------------------------
(* Delivery of messages by the owning thread. *)

Dispatch ==
    /\ created
    /\ Len(messages) < MaxNested
    /\ calls[Owner].step = "none"
    /\ InProgram
    /\ messages' = Append(messages, [at |-> native, seen |-> {}, wrapped |-> Saved])
    /\ UNCHANGED <<created, native, property, beneath, calls, returned>>

(* The procedure that has the message hands it to another one. *)
HandsTo(p) ==
    /\ calls[Owner].step = "none"
    /\ messages' = [messages EXCEPT ![Len(messages)].at = p,
                                    ![Len(messages)].seen = @ \cup {Top.at}]
    /\ UNCHANGED <<created, native, property, beneath, calls, returned>>

(* WindowProcW looks up the saved procedure and calls it. *)
CallSaved ==
    /\ messages # <<>>
    /\ Top.at = WindowProcW
    /\ HandsTo(property)

(* A procedure of the program passes the message to CallWindowProc. *)
CallBeneath ==
    /\ messages # <<>>
    /\ Top.at \in AppProcs
    /\ Installed(Top.at)
    /\ HandsTo(beneath[Top.at])

(* The message is done with: by a procedure of the program, or by          *)
(* WindowProcW itself for the messages of dialogs it does not pass on.     *)
Finish ==
    /\ messages # <<>>
    /\ Top.at # Null
    /\ calls[Owner].step = "none"
    /\ messages' = SubSeq(messages, 1, Len(messages) - 1)
    /\ UNCHANGED <<created, native, property, beneath, calls, returned>>

SetWindowLongA(t) ==
    \/ \E p \in AnsiProcs : Subclass(t, p) \/ Restore(t, p)
    \/ Store(t)
    \/ SetNative(t)
    \/ Wrap(t)
    \/ Save(t)

SetWindowLongW(t) == \E p \in WideProcs : SubclassWide(t, p) \/ RestoreWide(t, p)

Deliver == Dispatch \/ CallSaved \/ CallBeneath \/ Finish

Next ==
    \/ CreateAnsi
    \/ CreateNative
    \/ \E t \in Threads : SetWindowLongA(t) \/ SetWindowLongW(t)
    \/ Deliver

Spec == Init /\ [][Next]_vars
-----------------------------------------------------------------------------
(* Properties. *)

(* Every message the wrapper gets finds the procedure saved for its window: *)
(* WindowProcW never calls a null procedure.                                *)
WrapperFindsProc == \A i \in DOMAIN messages : messages[i].at # Null

(* No procedure gets one message twice: the wrapper and the procedures       *)
(* beneath it never form a cycle, in which CallWindowProcA would recurse     *)
(* until the stack is gone.                                                  *)
EachOnce == \A i \in DOMAIN messages : messages[i].at \notin messages[i].seen

(* The Unicode procedures a message meets on its way from USER32. *)
Met[n \in Nat] ==
    IF n = 0 THEN native
    ELSE IF Met[n - 1] \in WideProcs THEN beneath[Met[n - 1]] ELSE Null

WrapperInForce == \E n \in 0 .. Cardinality(WideProcs) : Met[n] = WindowProcW

(* What the A interface shows and returns is a register changed in one step. *)
InWrap == {t \in Threads : calls[t].step \in {"wrap", "save"}}
Wrapper == CHOOSE t \in InWrap : TRUE

AnsiView == INSTANCE AnsiWindow WITH
    ansi     <- Saved \/ InWrap # {},
    proc     <- IF Saved THEN property
                ELSE IF InWrap # {} THEN calls[Wrapper].new ELSE native,
    returned <- IF InWrap # {} THEN calls[Wrapper].old ELSE returned

ImplementsAnsiWindow == AnsiView!Spec
=============================================================================
