--------------------------- MODULE EditPositions ----------------------------
(***************************************************************************)
(* The messages of an edit control that carry positions in its text        *)
(* (Hooks/User32Hook.cpp).  A Unicode control counts characters, an ANSI   *)
(* one bytes; LEP translates when the caller counts the other way:         *)
(*   User    the control is ANSI, the caller Unicode (WindowProcW)         *)
(*   Kernel  the control is Unicode, the caller ANSI (LepNtUserMessageCall)*)
(* A thunk calls the control more than once: for its text, for the answer, *)
(* for the caret's line.                                                   *)
(***************************************************************************)
EXTENDS Integers, Sequences, FiniteSets, FiniteSetsExt

CONSTANTS
    MaxText  \* bound: characters of a text

VARIABLES
    side,   \* "User" or "Kernel"
    text,   \* the control's text: single- and double-byte characters, new lines
    sel,    \* its selection, in the control's own count
    call,   \* the message being sent: [msg, w, l]
    pc,     \* the next step of its thunk
    copy,   \* the captured text, or NoText
    got,    \* the control's answer
    reply,  \* the thunk's answer
    before  \* history: text and selection when the message was sent

vars == <<side, text, sel, call, pc, copy, got, reply, before>>

Texts == UNION {[1 .. n -> {"single", "double", "line"}] : n \in 0 .. MaxText}
NoText == <<"none">>
Bytes(t) == Len(t) + Cardinality({i \in DOMAIN t : t[i] = "double"})
Prefix(t, k) == SubSeq(t, 1, k)

(* Counts of the caller (Out) and of the control (In); -1 stands for itself. *)
Size(unit, t) == IF unit = "chars" THEN Len(t) ELSE Bytes(t)
CallerUnit == IF side = "User" THEN "chars" ELSE "bytes"
ControlUnit == IF side = "User" THEN "bytes" ELSE "chars"

AnsiCharOffsetToByteOffset(t, n) == Bytes(Prefix(t, Min({n, Len(t)})))

AnsiByteOffsetToCharOffset(t, b) ==
    Min({k \in 0 .. Len(t) : Bytes(Prefix(t, k)) >= Min({b, Bytes(t)})})

UnicodeLineStartCharFromOffset(t, n) ==
    Max({0} \cup {k \in 1 .. Min({n, Len(t)}) : t[k] = "line"})
AnsiLineStartByteFromOffset(t, b) ==
    Bytes(Prefix(t, UnicodeLineStartCharFromOffset(t, AnsiByteOffsetToCharOffset(t, b))))

(***************************************************************************)
(* An edit control that counts in `unit'.                                  *)
(***************************************************************************)
Starts(t) == {0} \cup {k \in 1 .. Len(t) : t[k] = "line"}
LineEnd(t, k) == Min({Len(t)} \cup {j - 1 : j \in {i \in k + 1 .. Len(t) : t[i] = "line"}})
CharAt(unit, t, p) ==
    IF unit = "chars" THEN Min({p, Len(t)})
    ELSE Max({k \in 0 .. Len(t) : Bytes(Prefix(t, k)) <= Min({p, Bytes(t)})})
At(unit, t, k) == Size(unit, Prefix(t, k))

SetSel(unit, t, s, w, l) ==
    IF w = -1 THEN <<s[2], s[2]>>
    ELSE LET a == Min({w, Size(unit, t)})
             b == IF l = -1 THEN Size(unit, t) ELSE Min({l, Size(unit, t)})
         IN  <<Min({a, b}), Max({a, b})>>

LineIndex(unit, t, s, w) ==
    IF w = -1 THEN At(unit, t, UnicodeLineStartCharFromOffset(t, CharAt(unit, t, s[2])))
    ELSE IF w >= Cardinality(Starts(t)) THEN -1
    ELSE At(unit, t, CHOOSE k \in Starts(t) : Cardinality({j \in Starts(t) : j < k}) = w)

(* For -1, the part of the selection's lines that is not selected. *)
LineLength(unit, t, s, w) ==
    LET Length(p) == LET k == UnicodeLineStartCharFromOffset(t, CharAt(unit, t, p))
                     IN  Size(unit, SubSeq(t, k + 1, LineEnd(t, k)))
        Start(p) == At(unit, t, UnicodeLineStartCharFromOffset(t, CharAt(unit, t, p)))
    IN  IF w # -1 THEN IF w > Size(unit, t) THEN 0 ELSE Length(w)
        ELSE (s[1] - Start(s[1])) + (Start(s[2]) + Length(s[2]) - s[2])

Answer(unit, t, s, c) ==
    CASE c.msg = "EM_GETSEL" -> s
      [] c.msg = "EM_SETSEL" -> SetSel(unit, t, s, c.w, c.l)
      [] c.msg = "EM_LINEINDEX" -> LineIndex(unit, t, s, c.w)
      [] c.msg = "EM_LINELENGTH" -> LineLength(unit, t, s, c.w)

(***************************************************************************)
(* The thunks.                                                             *)
(***************************************************************************)
IsEditTextPositionMessage == {"EM_GETSEL", "EM_SETSEL", "EM_LINEINDEX", "EM_LINELENGTH"}

(* A position of the caller for the control, by the captured text. *)
ConvertIn(t, p) ==
    IF p = -1 \/ t = NoText THEN p
    ELSE IF side = "User" THEN AnsiCharOffsetToByteOffset(t, p) ELSE AnsiByteOffsetToCharOffset(t, p)
ConvertOut(t, p) ==
    IF p = -1 \/ t = NoText THEN p
    ELSE IF side = "User" THEN AnsiByteOffsetToCharOffset(t, p) ELSE AnsiCharOffsetToByteOffset(t, p)

ConvertEditSelToAnsiByteOffsets(t, w, l) ==
    IF w = -1 THEN <<w, l>> ELSE <<ConvertIn(t, w), ConvertIn(t, l)>>
KernelfnEDIT_SETSEL(t, w, l) ==
    IF w = -1 THEN <<w, l>> ELSE <<ConvertIn(t, w), ConvertIn(t, l)>>

UserfnEDIT_LINEINDEX(t, r) == ConvertOut(t, r)
KernelfnEDIT_LINEINDEX(t, r) == ConvertOut(t, r)
UserfnEDIT_GETSEL(t, r) == <<ConvertOut(t, r[1]), ConvertOut(t, r[2])>>
KernelfnEDIT_GETSEL(t, r) == <<ConvertOut(t, r[1]), ConvertOut(t, r[2])>>

(* A length within the line that starts at k characters of the text. *)
(* mutant: the length is converted from the start of the text *)
BadUserfnEDIT_LINELENGTH(t, start, r) ==
    IF t = NoText THEN r ELSE AnsiByteOffsetToCharOffset(t, r)
UserfnEDIT_LINELENGTH(t, start, r) ==
    IF t = NoText THEN r
    ELSE AnsiByteOffsetToCharOffset(SubSeq(t, CharAt("bytes", t, start) + 1, Len(t)), r)
(* WCharToMByte converts one unit more than it is told: at the end of the    *)
(* text that is its terminator; before it, a new line, and it is counted with*)
(* what the fresh block holds before a zero byte, `rest' of them.            *)
Rests == 0 .. 1
KernelfnEDIT_LINELENGTH(t, start, r, rest) ==
    IF t = NoText THEN r
    ELSE IF start + r >= Len(t) THEN Bytes(SubSeq(t, start + 1, Len(t)))
    ELSE Bytes(SubSeq(t, start + 1, start + r)) + 1 + rest

(* Where the line of a length starts, in the control's count: by the text,   *)
(* or as the control says of its caret's line.                               *)
LineStart == IF call.w = -1 THEN IF got.caret < 0 THEN 0 ELSE got.caret
             ELSE IF side = "User" THEN AnsiLineStartByteFromOffset(copy, ConvertIn(copy, call.w))
             ELSE UnicodeLineStartCharFromOffset(copy, ConvertIn(copy, call.w))

NoCall == [msg |-> "none", w |-> 0, l |-> 0]

Init ==
    /\ side \in {"User", "Kernel"}
    /\ text \in Texts
    /\ \E i \in 0 .. Len(text), j \in 0 .. Len(text) :
          i <= j /\ sel = <<At(ControlUnit, text, i), At(ControlUnit, text, j)>>
    /\ call = NoCall /\ pc = "idle" /\ copy = NoText
    /\ got = [answer |-> 0, caret |-> -1] /\ reply = 0
    /\ before = [text |-> text, sel |-> sel, failed |-> FALSE]

(* UserfnEDIT_TEXT_POSITION: which thunk, and what it asks first. *)
Send(msg, w, l) ==
    /\ pc = "idle"
    /\ call' = [msg |-> msg, w |-> w, l |-> l]
    /\ before' = [text |-> text, sel |-> sel, failed |-> FALSE]
    /\ pc' = IF msg = "EM_LINELENGTH" \/ (msg = "EM_SETSEL" /\ w # -1) THEN "capture" ELSE "ask"
    /\ UNCHANGED <<side, text, sel, copy, got, reply>>

(* CaptureEditTextA, CaptureEditTextW and the conversion to bytes: the text,  *)
(* or nothing when the control refuses it or there is no memory.              *)
Capture(t) ==
    /\ pc = "capture" /\ t \in {text, NoText}
    /\ copy' = t
    /\ before' = [before EXCEPT !.failed = @ \/ t = NoText]
    /\ pc' = IF call.msg \in {"EM_LINELENGTH", "EM_SETSEL"} THEN "ask" ELSE "reply"
    /\ UNCHANGED <<side, text, sel, call, got, reply>>

Ask ==
    /\ pc = "ask"
    /\ LET c == CASE call.msg = "EM_SETSEL" /\ side = "User" ->
                       LET p == ConvertEditSelToAnsiByteOffsets(copy, call.w, call.l)
                       IN  [call EXCEPT !.w = p[1], !.l = p[2]]
                  [] call.msg = "EM_SETSEL" /\ side = "Kernel" ->
                       LET p == KernelfnEDIT_SETSEL(copy, call.w, call.l)
                       IN  [call EXCEPT !.w = p[1], !.l = p[2]]
                  [] call.msg = "EM_LINELENGTH" -> [call EXCEPT !.w = ConvertIn(copy, call.w)]
                  [] OTHER -> call
           answer == Answer(ControlUnit, text, sel, c)
       IN  /\ got' = [got EXCEPT !.answer = answer]
           /\ sel' = IF call.msg = "EM_SETSEL" THEN answer ELSE sel
           /\ pc' = CASE call.msg = "EM_SETSEL" \/ (call.msg = "EM_LINEINDEX" /\ answer = -1) -> "reply"
                      [] call.msg = "EM_LINELENGTH" ->
                           IF call.w = -1 /\ copy # NoText THEN "askLine" ELSE "reply"
                      [] OTHER -> "capture"
    /\ UNCHANGED <<side, text, call, copy, reply, before>>

AskLine ==
    /\ pc = "askLine"
    /\ got' = [got EXCEPT !.caret = LineIndex(ControlUnit, text, sel, -1)]
    /\ pc' = "reply"
    /\ UNCHANGED <<side, text, sel, call, copy, reply, before>>

Reply ==
    /\ pc = "reply"
    /\ \E rest \in Rests :
       reply' = CASE call.msg = "EM_GETSEL" ->
                       IF side = "User" THEN UserfnEDIT_GETSEL(copy, got.answer)
                                        ELSE KernelfnEDIT_GETSEL(copy, got.answer)
                  [] call.msg = "EM_SETSEL" -> 0
                  [] call.msg = "EM_LINEINDEX" ->
                       IF side = "User" THEN UserfnEDIT_LINEINDEX(copy, got.answer)
                                        ELSE KernelfnEDIT_LINEINDEX(copy, got.answer)
                  [] call.msg = "EM_LINELENGTH" ->
                       IF copy = NoText THEN got.answer
                       ELSE IF side = "User" THEN UserfnEDIT_LINELENGTH(copy, LineStart, got.answer)
                       ELSE KernelfnEDIT_LINELENGTH(copy, LineStart, got.answer, rest)
    /\ pc' = "done"
    /\ UNCHANGED <<side, text, sel, call, copy, got, before>>

Next ==
    \/ \E msg \in IsEditTextPositionMessage, w, l \in -1 .. Size(CallerUnit, text) + 1 :
          /\ msg = "EM_GETSEL" => w = 0
          /\ msg # "EM_SETSEL" => l = 0
          /\ Send(msg, w, l)
    \/ \E t \in {text, NoText} : Capture(t)
    \/ Ask \/ AskLine \/ Reply

Spec == Init /\ [][Next]_vars
------------------------------------------------------------------------------
(* The positions of the caller that are between two characters. *)
Boundary(p) == p = -1 \/ p >= Size(CallerUnit, before.text)
               \/ \E k \in 0 .. Len(before.text) : p = At(CallerUnit, before.text, k)
Theirs(t, s) == [i \in 1 .. 2 |-> At(CallerUnit, t, CharAt(ControlUnit, t, s[i]))]

(* A length of one line is asked for: not past the text, where the thunk     *)
(* clips the index, nor by -1 when text is selected.                         *)
OneLine == IF call.w = -1 THEN before.sel[1] = before.sel[2]
           ELSE call.w <= Size(CallerUnit, before.text)
LastLine == LineStart + got.answer = Len(copy)

(* Transparent: when the text is captured and stays, a caller makes the      *)
(* selection and gets the answer it would with a control that counts as the  *)
(* caller does (UserfnEDIT_* and KernelfnEDIT_* of User32Hook.cpp). Of       *)
(* lengths this says less than HOOK_INVENTORY.md: not past the text, where   *)
(* the last line's is told for 0; not for -1 when text is selected, which is *)
(* converted as if it were a line's beginning; and for an ANSI caller of a   *)
(* Unicode control only of the last line (see LengthsConverted).             *)
Transparent ==
    pc = "done" /\ ~before.failed /\ Boundary(call.w) /\ Boundary(call.l) =>
        LET mine == Answer(CallerUnit, before.text, Theirs(before.text, before.sel), call)
        IN  CASE call.msg = "EM_SETSEL" -> Theirs(text, sel) = mine
              [] call.msg = "EM_LINELENGTH" /\ ~(OneLine /\ (side = "Kernel" => LastLine)) -> TRUE
              [] OTHER -> reply = mine

(* LengthsConverted: an ANSI caller of a Unicode control gets the length of  *)
(* any line of the captured text in bytes (KernelfnEDIT_LINELENGTH). It does *)
(* not: only the last line's is right.                                       *)
LengthsConverted ==
    /\ pc = "done" /\ ~before.failed /\ side = "Kernel"
    /\ call.msg = "EM_LINELENGTH" /\ Boundary(call.w) /\ OneLine
    => reply = Answer(CallerUnit, before.text, Theirs(before.text, before.sel), call)

(* What makes it inductive: when the text could be captured, the control has *)
(* answered the caller's question of its own text, and what the thunk        *)
(* replies with is the captured text, or -1 needs none.                      *)
CallTypes ==
    /\ side \in {"User", "Kernel"} /\ text \in Texts
    /\ call \in [msg : IsEditTextPositionMessage \cup {"none"}, w : Nat \cup {-1}, l : Nat \cup {-1}]
    /\ got = [answer |-> got.answer, caret |-> got.caret]
    /\ before = [text |-> text, sel |-> before.sel, failed |-> before.failed]
    /\ before.failed \in BOOLEAN
    /\ \E i, j \in 0 .. Len(text) :
          i <= j /\ before.sel = <<At(ControlUnit, text, i), At(ControlUnit, text, j)>>
CapturesFirst == call.msg = "EM_LINELENGTH" \/ (call.msg = "EM_SETSEL" /\ call.w # -1)
Answered ==
    /\ IF call.msg = "EM_SETSEL"
       THEN sel = IF call.w = -1 THEN SetSel(ControlUnit, text, before.sel, -1, call.l)
                  ELSE SetSel(ControlUnit, text, before.sel, ConvertIn(text, call.w), ConvertIn(text, call.l))
       ELSE sel = before.sel
    /\ call.msg = "EM_GETSEL" => got.answer = sel
    /\ call.msg = "EM_LINEINDEX" => got.answer = LineIndex(ControlUnit, text, sel, call.w)
    /\ call.msg = "EM_LINELENGTH" => got.answer = LineLength(ControlUnit, text, sel, ConvertIn(text, call.w))
Stages ==
    /\ pc = "idle" => sel = before.sel
    /\ pc = "capture" => IF CapturesFirst THEN sel = before.sel ELSE call.msg # "EM_SETSEL" /\ Answered
    /\ pc = "ask" => sel = before.sel /\ (CapturesFirst => copy = text)
    /\ pc = "askLine" => call.msg = "EM_LINELENGTH" /\ Answered /\ copy = text
    /\ pc = "reply" =>
          /\ call.msg # "none" /\ Answered
          /\ copy = text \/ call.msg = "EM_SETSEL" \/ (call.msg = "EM_LINEINDEX" /\ got.answer = -1)
          /\ call.msg = "EM_LINELENGTH" /\ call.w = -1 => got.caret = LineIndex(ControlUnit, text, sel, -1)
EditInv ==
    /\ CallTypes
    /\ IF pc = "idle" THEN ~before.failed ELSE call.msg # "none"
    /\ ~before.failed => Stages
    /\ Transparent
=============================================================================
