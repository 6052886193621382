----------------------------- MODULE Clipboard ------------------------------
(***************************************************************************)
(* Text on the clipboard (LepSetClipboardData and LepGetClipboardData of   *)
(* Hooks/User32Hook.cpp).  The clipboard holds a Unicode text, an ANSI     *)
(* text or both; the system derives the missing one with the host's code   *)
(* page, and LEP puts both there in the target's.  LEP publishes what it   *)
(* converted through the exported SetClipboardData, which it has hooked    *)
(* itself.                                                                 *)
(***************************************************************************)
EXTENDS Naturals

CONSTANTS
    Common,   \* texts the host's and the target's code pages share
    Local,    \* texts only the target's code page has
    Alien,    \* texts the target's code page cannot encode
    Empty, Lossy, \* the empty text; what is left of an Alien one
    Absent

VARIABLES
    unicode, \* the Unicode text on the clipboard
    ansi,    \* the ANSI text: [text, page]
    read,    \* what the last LepGetClipboardData returned
    was,     \* history: the Unicode text that read began with
    failed   \* a step has failed since the clipboard was emptied

vars == <<unicode, ansi, read, was, failed>>

Texts == Common \cup Local \cup Alien \cup {Empty, Lossy}
Ansi == [text : Texts, page : {"host", "target"}]
NoAnsi == [text |-> Absent, page |-> "host"]

Encode(u) == [text |-> IF u \in Alien THEN Lossy ELSE u, page |-> "target"]
(* Bytes read in another code page than they were written in. *)
Decode(a, page) ==
    IF a.page = page \/ a.text \in Common \cup {Empty} THEN a.text ELSE Lossy

(* What the system gives: the format itself, or one derived from the other. *)
NativeUnicode == IF unicode # Absent \/ ansi = NoAnsi THEN unicode ELSE Decode(ansi, "host")
NativeAnsi(u, a) ==
    IF a # NoAnsi \/ u = Absent THEN a
    ELSE [text |-> IF u \in Common \cup {Empty} THEN u ELSE Lossy, page |-> "host"]

Init ==
    /\ unicode = Absent /\ ansi = NoAnsi /\ read = NoAnsi
    /\ was = Absent /\ failed = FALSE

EmptyClipboard ==
    /\ unicode' = Absent /\ ansi' = NoAnsi /\ read' = NoAnsi
    /\ was' = Absent /\ failed' = FALSE

(* Another program copies a Unicode text. *)
OtherCopies(u) ==
    /\ unicode' = u /\ ansi' = NoAnsi /\ read' = NoAnsi /\ was' = Absent
    /\ failed' = FALSE

(***************************************************************************)
(* What LepSetClipboardData does with an ANSI text: memory for the Unicode *)
(* one, accept by the system of the Unicode text and of the ANSI one.      *)
(***************************************************************************)
(* mutant: the Unicode text is decoded with the host's code page *)
BadSetUnicode(a, memory, accept, u) ==
    IF a.text # Empty /\ memory /\ accept THEN Decode(a, "host") ELSE u
SetUnicode(a, memory, accept, u) ==
    IF a.text # Empty /\ memory /\ accept THEN Decode(a, "target") ELSE u

LepSetClipboardData(t, memory, acceptUnicode, acceptAnsi) ==
    LET a == [text |-> t, page |-> "target"]
    IN  /\ unicode' = SetUnicode(a, memory, acceptUnicode, unicode)
        /\ ansi' = IF acceptAnsi THEN a ELSE ansi
        /\ failed' = (failed \/ ~memory \/ ~acceptUnicode \/ ~acceptAnsi)
        /\ read' = NoAnsi /\ was' = Absent

(* memory, room: for the ANSI text and, in the nested set, the Unicode one. *)
LepGetClipboardData(memory, room, acceptUnicode, acceptAnsi) ==
    LET u == NativeUnicode
        a == Encode(u)
        publish == u # Absent /\ memory
        newUnicode == IF publish THEN SetUnicode(a, room, acceptUnicode, unicode) ELSE unicode
        newAnsi == IF publish /\ acceptAnsi THEN a ELSE ansi
    IN  /\ unicode' = newUnicode
        /\ ansi' = newAnsi
        /\ read' = NativeAnsi(newUnicode, newAnsi)
        /\ was' = u
        /\ failed' = (failed \/ ~memory \/ ~room \/ ~acceptUnicode \/ ~acceptAnsi)

Next ==
    \/ EmptyClipboard
    \/ \E u \in Texts : OtherCopies(u)
    \/ \E m, r, u, a \in BOOLEAN :
          \/ \E t \in Texts \ Alien : LepSetClipboardData(t, m, u, a)
          \/ LepGetClipboardData(m, r, u, a)

Spec == Init /\ [][Next]_vars
------------------------------------------------------------------------------
(* TextSurvives: while no step fails, a program under LEP reads the target's *)
(* encoding of what was copied, the two formats say the same, and reading    *)
(* changes no text the target's code page can encode: LepGetClipboardData    *)
(* publishes through its own hook, which sets the Unicode text again         *)
(* (LepSetClipboardData, LepGetClipboardData).  The empty ANSI text is       *)
(* skipped and does not replace a Unicode one.                               *)
TextSurvives ==
    ~failed =>
         /\ was # Absent => read = Encode(was)
         /\ was \notin Alien \cup {Absent} => unicode \in {was, Absent}
         /\ unicode # Absent /\ ansi # NoAnsi /\ ansi.text # Empty => ansi = Encode(unicode)

(* Inductive with the types alone: each step sets both formats.              *)
ClipboardInv ==
    /\ unicode \in Texts \cup {Absent} /\ was \in Texts \cup {Absent}
    /\ ansi \in Ansi \cup {NoAnsi} /\ read \in Ansi \cup {NoAnsi} /\ failed \in BOOLEAN
    /\ TextSurvives
=============================================================================
