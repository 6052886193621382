----------------------------- MODULE StockFonts -----------------------------
(***************************************************************************)
(* Stock fonts with the target's charset (Hooks/Gdi32Hook.cpp and the      *)
(* device context hooks of Hooks/User32Hook.cpp).  LEP makes one font per  *)
(* stock font when it is first asked for, gives it out in place of the     *)
(* system's and selects it into every device context a program gets.       *)
(*                                                                         *)
(* Threads ask at once; making a font may fail; USER32's hooks may be      *)
(* active before GDI32's.                                                  *)
(***************************************************************************)
EXTENDS Naturals, FiniteSets

CONSTANTS
    Threads,
    Objects,   \* the stock fonts; SystemFont is selected in a memory DC
    SystemFont,
    Made,      \* the fonts that can be made: a bound on CreateFontIndirectW
    DCs,
    None

Original(i) == [stock |-> i]
Originals == {Original(i) : i \in Objects}

VARIABLES
    StockObject, \* HookRoutineData.Gdi32.StockObject
    gdiLock,     \* GdiLock: its owner
    call,        \* per thread: [pc, object, dc, font]
    selected,    \* the font in each device context, or None if it is not in use
    alive,       \* made fonts that are not deleted
    spare,       \* fonts yet to be made
    hooked,      \* the GetStockObject trampoline is there
    early        \* history: contexts given out before that, or when making failed

vars == <<StockObject, gdiLock, call, selected, alive, spare, hooked, early>>

Idle == [pc |-> "idle", object |-> None, dc |-> None, font |-> None]

Init ==
    /\ StockObject = [i \in Objects |-> None] /\ gdiLock = None
    /\ call = [t \in Threads |-> Idle] /\ selected = [d \in DCs |-> None]
    /\ alive = {} /\ spare = Made /\ hooked = FALSE /\ early = {}

HookGdi32Routines ==
    /\ ~hooked /\ hooked' = TRUE
    /\ UNCHANGED <<StockObject, gdiLock, call, selected, alive, spare, early>>

(***************************************************************************)
(* LepGetStockObject: the array is read without the lock first.            *)
(***************************************************************************)
Step(t, c) == call' = [call EXCEPT ![t] = c]

(* dc is None for a program that calls GetStockObject. *)
GetStockObject(t, i, dc) ==
    Step(t, [pc |-> IF StockObject[i] # None THEN "got" ELSE "wait",
             object |-> i, dc |-> dc, font |-> StockObject[i]])

AskStockObject(t, i) ==
    /\ hooked /\ call[t].pc = "idle"
    /\ GetStockObject(t, i, None)
    /\ UNCHANGED <<StockObject, gdiLock, selected, alive, spare, hooked, early>>

(* mutant: the array is not read again under the lock *)
BadLock(t) ==
    /\ call[t].pc = "wait" /\ gdiLock = None
    /\ gdiLock' = t
    /\ Step(t, [call[t] EXCEPT !.pc = "make"])
    /\ UNCHANGED <<StockObject, selected, alive, spare, hooked, early>>
Lock(t) ==
    /\ call[t].pc = "wait" /\ gdiLock = None
    /\ LET font == StockObject[call[t].object]
       IN  IF font = None
           THEN gdiLock' = t /\ Step(t, [call[t] EXCEPT !.pc = "make"])
           ELSE UNCHANGED gdiLock /\ Step(t, [call[t] EXCEPT !.pc = "got", !.font = font])
    /\ UNCHANGED <<StockObject, selected, alive, spare, hooked, early>>

(* GetFontFromFont; the font is stored, whatever it is, and the lock left. *)
GetFontFromFont(t, font) ==
    /\ call[t].pc = "make" /\ font \in spare \cup {None}
    /\ StockObject' = [StockObject EXCEPT ![call[t].object] = font]
    /\ alive' = alive \cup ({font} \ {None}) /\ spare' = spare \ {font}
    /\ gdiLock' = None
    /\ Step(t, [call[t] EXCEPT !.pc = "got", !.font = font])
    /\ UNCHANGED <<selected, hooked, early>>

(* The program, or the device context that asked, gets the font. *)
Got(t) ==
    /\ call[t].pc = "got"
    /\ LET dc == call[t].dc
           font == call[t].font
       IN  /\ selected' = IF dc # None /\ font # None THEN [selected EXCEPT ![dc] = font] ELSE selected
           /\ early' = IF dc # None /\ font = None THEN early \cup {dc} ELSE early
    /\ Step(t, Idle)
    /\ UNCHANGED <<StockObject, gdiLock, alive, spare, hooked>>

(***************************************************************************)
(* Device contexts.  A new one has one of the system's stock fonts.        *)
(***************************************************************************)
FindOriginalStockFontObject(font) ==
    IF font \in Originals THEN CHOOSE i \in Objects : Original(i) = font ELSE None

LepSelectTargetStockFontInDC(t, dc, font) ==
    LET object == FindOriginalStockFontObject(font)
    IN  IF ~hooked \/ object = None THEN UNCHANGED call ELSE GetStockObject(t, object, dc)

(* GetDC, GetDCEx, GetWindowDC and BeginPaint *)
LepGetDC(t, dc, i) ==
    /\ call[t].pc = "idle" /\ selected[dc] = None
    /\ selected' = [selected EXCEPT ![dc] = Original(i)]
    /\ early' = IF hooked THEN early ELSE early \cup {dc}
    /\ LepSelectTargetStockFontInDC(t, dc, Original(i))
    /\ UNCHANGED <<StockObject, gdiLock, alive, spare, hooked>>

LepCreateCompatibleDC(t, dc) ==
    /\ hooked /\ call[t].pc = "idle" /\ selected[dc] = None
    /\ selected' = [selected EXCEPT ![dc] = Original(SystemFont)]
    /\ GetStockObject(t, SystemFont, dc)
    /\ UNCHANGED <<StockObject, gdiLock, alive, spare, hooked, early>>

(* A context goes back, unless a thread is still getting it. *)
ReleaseDC(dc) ==
    /\ selected[dc] # None /\ \A t \in Threads : call[t].dc # dc
    /\ selected' = [selected EXCEPT ![dc] = None] /\ early' = early \ {dc}
    /\ UNCHANGED <<StockObject, gdiLock, call, alive, spare, hooked>>

(* A program may delete any font it was given; the system keeps its own. *)
LepDeleteObject(font) ==
    /\ hooked /\ font \in alive
    /\ alive' = IF \E i \in Objects : StockObject[i] = font THEN alive ELSE alive \ {font}
    /\ UNCHANGED <<StockObject, gdiLock, call, selected, spare, hooked, early>>

Next ==
    \/ HookGdi32Routines
    \/ \E t \in Threads :
          \/ \E i \in Objects : AskStockObject(t, i)
          \/ Lock(t) \/ Got(t)
          \/ \E font \in Made \cup {None} : GetFontFromFont(t, font)
          \/ \E dc \in DCs, i \in Objects : LepGetDC(t, dc, i)
          \/ \E dc \in DCs : LepCreateCompatibleDC(t, dc)
    \/ \E dc \in DCs : ReleaseDC(dc)
    \/ \E font \in alive : LepDeleteObject(font)

Spec == Init /\ [][Next]_vars
------------------------------------------------------------------------------
(* StockFontsStay: whoever asks gets the same font of an object, which lives *)
(* and is kept in the array however the threads raced to make it; a device   *)
(* context a program holds has no font of the host's charset, unless it was  *)
(* given out before the hooks or its font could not be made                  *)
(* (LepGetStockObject, LepDeleteObject, LepSelectTargetStockFontInDC).       *)
Held(dc) == selected[dc] # None /\ \A t \in Threads : call[t].dc # dc
StockFontsStay ==
    /\ alive = {StockObject[i] : i \in Objects} \ {None}
    /\ \A t \in Threads : call[t].pc = "got" =>
          call[t].font \in {None, StockObject[call[t].object]}
    /\ \A dc \in DCs : selected[dc] \in Originals \cup alive \cup {None}
    /\ \A dc \in DCs : Held(dc) /\ dc \notin early => selected[dc] \in alive

(* What makes it inductive: a thread that makes a font has the lock, and the *)
(* object it makes it for has none yet; a thread outside LepGetStockObject   *)
(* keeps no context back.                                                    *)
Types ==
    /\ StockObject \in [Objects -> Made \cup {None}]
    /\ call \in [Threads -> [pc : {"idle", "wait", "make", "got"}, object : Objects \cup {None},
                             dc : DCs \cup {None}, font : Made \cup {None}]]
    /\ selected \in [DCs -> Originals \cup Made \cup {None}]
    /\ spare \subseteq Made /\ hooked \in BOOLEAN /\ early \subseteq DCs
MakerIsAlone ==
    \A t \in Threads :
        /\ call[t].pc = "make" => gdiLock = t /\ StockObject[call[t].object] = None
        /\ call[t].pc = "idle" => call[t].dc = None
        /\ call[t].pc # "idle" => call[t].object \in Objects
StockInv == Types /\ MakerIsAlone /\ StockFontsStay
=============================================================================
