------------------------------ MODULE Messages ------------------------------
(***************************************************************************)
(* The messages whose parameters carry text (Hooks/User32Hook.cpp,         *)
(* Hooks/MessageTable.h, Utility/Utility.cpp, support/native/Nls.cpp).     *)
(*   User    a Unicode caller, an ANSI window procedure (Userfn thunks)    *)
(*   Kernel  an ANSI caller, a Unicode window (NtUserfn thunks)            *)
(* A text is the sequence of its characters' widths in the target code     *)
(* page; a buffer is measured in its own units, WCHARs or bytes.           *)
(***************************************************************************)
EXTENDS Integers, Sequences, FiniteSets, FiniteSetsExt

CONSTANT MaxText \* bound: characters of a text

VARIABLES
    side,    \* "User" or "Kernel"
    text,    \* the window's text
    learned, \* the length the caller was told last, and whether of this text
    out,     \* the caller's buffer after the last message that fills one
    passed   \* the strings the last message passed on

vars == <<side, text, learned, out, passed>>

Texts == UNION {[1 .. n -> {1, 2}] : n \in 0 .. MaxText}
Bytes(t) == Len(t) + Cardinality({i \in DOMAIN t : t[i] = 2})
Prefix(t, k) == SubSeq(t, 1, k)
CallerUnits(t) == IF side = "User" THEN Len(t) ELSE Bytes(t)

(* RtlMultiByteToUnicodeN: a lead byte without its trail byte is a character. *)
CharsIn(t, bytes) == Min({k \in 0 .. Len(t) : Bytes(Prefix(t, k)) >= Min({bytes, Bytes(t)})})
(* RtlUnicodeToMultiByteN: a character that does not fit ends the conversion. *)
FitsIn(t, bytes) == Max({k \in 0 .. Len(t) : Bytes(Prefix(t, k)) <= bytes})

(* A size of -1: the caller has no say. *)
Unbounded == 4 * MaxText + 4
Untouched == [units |-> 0, ended |-> FALSE, ret |-> 0]

(* The first bytes of an ANSI text, into a buffer of so many WCHARs. *)
AnsiToUnicode(size, t, bytes) ==
    LET n == Min({CharsIn(t, bytes), size})
    IN  [units |-> n, ended |-> n < size, ret |-> n]
(* The first characters of a Unicode text, into a buffer of so many bytes. *)
UnicodeToAnsi(size, t, chars) ==
    LET n == Bytes(Prefix(t, FitsIn(Prefix(t, chars), size)))
    IN  [units |-> n, ended |-> n < size, ret |-> n]

(***************************************************************************)
(* MessageTable (Hooks/MessageTable.h) by number, in pieces: the messages  *)
(* with strings or characters, and WM_CHAR.  The class of every other row  *)
(* has no thunk of its own, so that its parameters pass unchanged.         *)
(***************************************************************************)
Rows0x000 == [WM_CREATE |-> "INLPCREATESTRUCT", WM_SETTEXT |-> "INSTRINGNULL",
    WM_GETTEXT |-> "OUTSTRING", WM_GETTEXTLENGTH |-> "GETDBCSTEXTLENGTHS",
    WM_SETTINGCHANGE |-> "INSTRINGNULL", WM_DEVMODECHANGE |-> "INSTRING",
    WM_CHARTOITEM |-> "INWPARAMCHAR", WM_NCCREATE |-> "INLPCREATESTRUCT"]
Rows0x095 == [EM_REPLACESEL |-> "INSTRINGNULL", EM_GETLINE |-> "INCNTOUTSTRING",
    WM_CHAR |-> "NCDESTROY3", WM_DEADCHAR |-> "INWPARAMCHAR", WM_SYSCHAR |-> "INWPARAMCHAR",
    WM_SYSDEADCHAR |-> "INWPARAMCHAR", WM_IME_KEYLAST |-> "INWPARAMCHAR",
    WM_MENUCHAR |-> "INWPARAMCHAR"]
Rows0x12B == [CB_ADDSTRING |-> "INCBOXSTRING", CB_DIR |-> "INSTRING",
    CB_GETLBTEXT |-> "OUTCBOXSTRING", CB_GETLBTEXTLEN |-> "GETDBCSTEXTLENGTHS",
    CB_INSERTSTRING |-> "INCBOXSTRING", CB_FINDSTRING |-> "INCBOXSTRING",
    CB_SELECTSTRING |-> "INCBOXSTRING", CB_FINDSTRINGEXACT |-> "INCBOXSTRING",
    LB_ADDSTRING |-> "INLBOXSTRING", LB_INSERTSTRING |-> "INLBOXSTRING",
    LB_GETTEXT |-> "OUTLBOXSTRING", LB_GETTEXTLEN |-> "GETDBCSTEXTLENGTHS",
    LB_SELECTSTRING |-> "INLBOXSTRING", LB_DIR |-> "INSTRING",
    LB_FINDSTRING |-> "INLBOXSTRING", LB_ADDFILE |-> "INSTRING",
    LB_FINDSTRINGEXACT |-> "INLBOXSTRING", LB_01AA |-> "INLBOXSTRING",
    LB_01AB |-> "INLBOXSTRING", LB_01AC |-> "INLBOXSTRING", LB_01AD |-> "INLBOXSTRING"]
Rows0x1C1 == [WM_MDICREATE |-> "INLPMDICREATESTRUCT"]
Rows0x257 == [WM_IME_CHAR |-> "INWPARAMCHAR"]
Rows0x2ED == [WM_ASKCBFORMATNAME |-> "INCNTOUTSTRINGNULL"]
Pieces == {Rows0x000, Rows0x095, Rows0x12B, Rows0x1C1, Rows0x257, Rows0x2ED}
MessageTable ==
    [message \in UNION {DOMAIN rows : rows \in Pieces} |->
        (CHOOSE rows \in Pieces : message \in DOMAIN rows)[message]]

(***************************************************************************)
(* Which thunk a message goes to.                                          *)
(***************************************************************************)
IsListBoxStringMessage == {"LB_ADDSTRING", "LB_INSERTSTRING", "LB_GETTEXT", "LB_GETTEXTLEN",
                           "LB_SELECTSTRING", "LB_FINDSTRING", "LB_FINDSTRINGEXACT"}
IsComboBoxStringMessage == {"CB_ADDSTRING", "CB_INSERTSTRING", "CB_GETLBTEXT", "CB_GETLBTEXTLEN",
                            "CB_FINDSTRING", "CB_SELECTSTRING", "CB_FINDSTRINGEXACT"}

(* control: the window's class, and whether its items are without strings. *)
IsOwnerDrawItemDataMessage(control, message) ==
    /\ control.ownerDrawn
    /\ \/ control.class = "ListBox" /\ message \in IsListBoxStringMessage
       \/ control.class = "ComboBox" /\ message \in IsComboBoxStringMessage

UserDispatch(control, message) ==
    IF message \in {"WM_SETTEXT", "WM_NCCREATE"} /\ control.class = "#32770" THEN "DefWindowProcW"
    ELSE IF message \in {"WM_CHAR", "WM_IME_CHAR", "WM_SYSCHAR", "WM_DEADCHAR", "WM_SYSDEADCHAR"}
         THEN "CallAnsiCharacterProc"
    ELSE IF IsOwnerDrawItemDataMessage(control, message) THEN "EMPTY"
    ELSE MessageTable[message]
KernelDispatch(control, message) ==
    IF IsOwnerDrawItemDataMessage(control, message) THEN "EMPTY" ELSE MessageTable[message]

(* gapfnMessageCall: a class without a thunk of its own passes everything on. *)
gapfnMessageCall(name) ==
    CASE name \in {"INSTRING", "INCBOXSTRING", "INLBOXSTRING"} -> "INSTRINGNULL"
      [] name = "OUTLBOXSTRING" -> "OUTCBOXSTRING"
      [] name = "INCNTOUTSTRINGNULL" -> "OUTSTRING"
      [] name = "NCDESTROY3" -> "EMPTY"
      [] OTHER -> name
Thunk(control, message) ==
    gapfnMessageCall(IF side = "User" THEN UserDispatch(control, message)
                                      ELSE KernelDispatch(control, message))

(***************************************************************************)
(* Thunks that fill a buffer: ok says whether there is memory for theirs.  *)
(***************************************************************************)
UserOUTSTRING(t, size, ok) ==
    LET bytes == Min({Bytes(t), Max({2 * size - 1, 0})})
    IN  IF ~ok \/ bytes = 0 THEN Untouched ELSE AnsiToUnicode(size, t, bytes)
KernelOUTSTRING(t, size, ok) ==
    IF ~ok \/ t = <<>> THEN Untouched ELSE UnicodeToAnsi(size, t, Len(t))

UserINCNTOUTSTRING(t, size, ok) ==
    LET bytes == Min({Bytes(t), 2 * size})
    IN  IF ~ok \/ bytes = 0 THEN Untouched ELSE AnsiToUnicode(size, t, bytes)
KernelINCNTOUTSTRING(t, size, ok) ==
    LET chars == Min({Len(t), size})
    IN  IF ~ok \/ chars = 0 THEN Untouched ELSE UnicodeToAnsi(size, t, chars)

UserOUTCBOXSTRING(t, ok) ==
    IF ~ok \/ t = <<>> THEN Untouched ELSE AnsiToUnicode(Unbounded, t, Bytes(t))
KernelOUTCBOXSTRING(t, ok) ==
    IF ~ok \/ t = <<>> THEN Untouched ELSE UnicodeToAnsi(Unbounded, t, Len(t))

(* The text is fetched to know its length in the caller's units. *)
UserGETDBCSTEXTLENGTHS(t, ok) == IF ok THEN CharsIn(t, Bytes(t)) ELSE 0
(* mutant: the receiver's length is passed through *)
BadKernelGETDBCSTEXTLENGTHS(t, ok) == IF ok THEN Len(t) ELSE 0
KernelGETDBCSTEXTLENGTHS(t, ok) == IF ok THEN Bytes(t) ELSE 0

(***************************************************************************)
(* WM_CREATE and WM_MDICREATE: a structure with a class (a name or an      *)
(* atom) and a title (none, a text, a resource's number).  live: strings   *)
(* of the thunk in use; coded: the coding of what is passed on; told: the  *)
(* coding the receiver is told.                                            *)
(***************************************************************************)
ClassString(class, ok) == IF class = "atom" THEN "atom" ELSE IF ok THEN "converted" ELSE "null"
TitleString(title, ok) ==
    CASE title = "none" -> "none" [] ~ok -> "null"
      [] title = "number" -> "number" [] OTHER -> "converted"

Native == IF side = "User" THEN "A" ELSE "W"
Foreign == IF side = "User" THEN "W" ELSE "A"

(* mutant: the receiver is told the coding before the title is converted *)
BadCreateStruct(class, title, okClass, okTitle) ==
    LET c == ClassString(class, okClass)
        s == IF c = "null" THEN "null" ELSE TitleString(title, okTitle)
    IN  [coded |-> IF c # "null" /\ s # "null" THEN Native ELSE Foreign,
         told |-> IF side = "User" \/ c # "null" THEN Native ELSE Foreign,
         class |-> c, title |-> s]
CreateStruct(class, title, okClass, okTitle) ==
    LET c == ClassString(class, okClass)
        s == IF c = "null" THEN "null" ELSE TitleString(title, okTitle)
        whole == c # "null" /\ s # "null"
    IN  [coded |-> IF whole THEN Native ELSE Foreign,
         told |-> IF side = "User" \/ whole THEN Native ELSE Foreign,
         class |-> c, title |-> s]

(* The caller's own string is passed on when it is empty or there is no       *)
(* memory; a Kernel thunk then leaves the receiver told so.                   *)
INSTRINGNULL(t, ok) ==
    LET converted == ok /\ t # <<>>
    IN  [coded |-> IF converted THEN Native ELSE Foreign,
         told |-> IF side = "User" \/ converted THEN Native ELSE Foreign,
         class |-> "atom",
         title |-> IF converted THEN "converted" ELSE "null"]

(* A packed character that is not exactly one Unicode character stays. *)
KernelINWPARAMCHAR(ok) ==
    LET coding == IF ok THEN "W" ELSE "A"
    IN  [coded |-> coding, told |-> coding, class |-> "atom",
         title |-> IF ok THEN "converted" ELSE "null"]

(***************************************************************************)
(* Window names of win32k, LARGE_UNICODE_STRINGs: they tell their coding   *)
(* themselves.  The lengths of the strings they are converted through have *)
(* 16 bits: the Unicode form of a "long" name does not fit, and of a       *)
(* "huge" one only the length's low bits are left.                         *)
(***************************************************************************)
WindowNames == {"none", "empty", "number", "short", "long", "huge"}
LargeStringDuplicate(name, ok) == IF ok THEN name ELSE "null"
LargeStringAnsiToUnicode(name, ok) ==
    IF name \in {"none", "long"} \/ ~ok THEN "null"
    ELSE IF name = "huge" THEN "cut" ELSE "converted"
CaptureAnsiWindowName(name, ok) ==
    IF name \in {"none", "empty"} THEN "null"
    ELSE IF name = "number" THEN LargeStringDuplicate("number", ok)
    ELSE LargeStringAnsiToUnicode(name, ok)

(* What is passed on: the new string, or the caller's if there is none. *)
LargeName(new) ==
    LET coding == IF new = "null" THEN "A" ELSE "W"
    IN  [coded |-> coding, told |-> coding, class |-> "atom", title |-> new]
LepNtUserDefSetText(name, wrapped, ok) ==
    LargeName(IF wrapped THEN LargeStringAnsiToUnicode(name, ok) ELSE "null")

------------------------------------------------------------------------------
Sizes == 0 .. 2 * MaxText + 1
Controls == [class : {"Edit", "#32770"}, ownerDrawn : {FALSE}]
    \cup [class : {"ListBox", "ComboBox"}, ownerDrawn : BOOLEAN]

Nothing == [msg |-> "none", size |-> 0, fill |-> Untouched, ok |-> TRUE]
Untold == [length |-> -1, fresh |-> FALSE]
Kept == [coded |-> "A", told |-> "A", class |-> "atom", title |-> "none"]

Init ==
    /\ side \in {"User", "Kernel"} /\ text \in Texts
    /\ learned = Untold /\ out = Nothing /\ passed = Kept

(* A string that becomes the window's text, or is only looked for. *)
Stored == {"WM_SETTEXT", "EM_REPLACESEL", "CB_ADDSTRING", "CB_INSERTSTRING",
           "LB_ADDSTRING", "LB_INSERTSTRING"}
PassString(t, control, message, ok) ==
    /\ Thunk(control, message) \in {"INSTRINGNULL", "EMPTY", "DefWindowProcW"}
    /\ text' = IF message \in Stored THEN t ELSE text
    /\ passed' = IF Thunk(control, message) = "INSTRINGNULL" THEN INSTRINGNULL(t, ok) ELSE Kept
    /\ learned' = Untold /\ out' = Nothing
    /\ UNCHANGED side

PassCharacter(control, message, ok) ==
    /\ side = "Kernel" /\ Thunk(control, message) = "INWPARAMCHAR"
    /\ passed' = KernelINWPARAMCHAR(ok)
    /\ out' = Nothing /\ learned' = Untold
    /\ UNCHANGED <<side, text>>

PassName(name, wrapped, ok) ==
    /\ passed' \in {LepNtUserDefSetText(name, wrapped, ok),
                     LargeName(CaptureAnsiWindowName(name, ok))}
    /\ out' = Nothing /\ learned' = Untold
    /\ UNCHANGED <<side, text>>

(* The window's own procedure or thread changes the text.  The history of the *)
(* last message is dropped.                                                   *)
Change(t) ==
    /\ text' = t /\ out' = Nothing /\ passed' = Kept
    /\ learned' = [learned EXCEPT !.fresh = @ /\ t = text]
    /\ UNCHANGED side

GetLength(control, message, ok) ==
    /\ Thunk(control, message) = "GETDBCSTEXTLENGTHS"
    /\ learned' = [fresh |-> ok,
          length |-> IF side = "User" THEN UserGETDBCSTEXTLENGTHS(text, ok \/ text = <<>>)
                     ELSE KernelGETDBCSTEXTLENGTHS(text, ok \/ text = <<>>)]
    /\ out' = Nothing /\ passed' = Kept
    /\ UNCHANGED <<side, text>>

Fill(control, message, size, ok) ==
    LET name == Thunk(control, message)
    IN  /\ name \in {"OUTSTRING", "INCNTOUTSTRING", "OUTCBOXSTRING"}
        /\ out' = [msg |-> message, size |-> size, ok |-> ok, fill |->
             CASE name = "OUTSTRING" -> IF side = "User" THEN UserOUTSTRING(text, size, ok)
                                        ELSE KernelOUTSTRING(text, size, ok)
               [] name = "INCNTOUTSTRING" -> IF side = "User" THEN UserINCNTOUTSTRING(text, size, ok)
                                             ELSE KernelINCNTOUTSTRING(text, size, ok)
               [] name = "OUTCBOXSTRING" -> IF side = "User" THEN UserOUTCBOXSTRING(text, ok)
                                            ELSE KernelOUTCBOXSTRING(text, ok)]
        /\ passed' = Kept
        /\ UNCHANGED <<side, text, learned>>

Create(class, title, okClass, okTitle) ==
    /\ passed' = CreateStruct(class, title, okClass, okTitle)
    /\ out' = Nothing /\ learned' = Untold
    /\ UNCHANGED <<side, text>>

(* Messages a control of that class gets. *)
Sends(control, message) ==
    CASE message \in DOMAIN Rows0x095 \ {"WM_MENUCHAR"} -> control.class = "Edit"
      [] message \in IsListBoxStringMessage
            \cup {"LB_DIR", "LB_ADDFILE", "LB_01AA", "LB_01AB", "LB_01AC", "LB_01AD"} ->
            control.class = "ListBox"
      [] message \in IsComboBoxStringMessage \cup {"CB_DIR"} -> control.class = "ComboBox"
      [] message \in DOMAIN Rows0x2ED -> FALSE \* its length message is another one
      [] OTHER -> control.class \in {"Edit", "#32770"}

(* A message is sent when the history of the one before has been dropped. *)
Quiet == out = Nothing /\ passed = Kept

Next ==
    \/ /\ Quiet
       /\ \/ \E control \in Controls, message \in DOMAIN MessageTable, ok \in BOOLEAN :
                /\ Sends(control, message)
                /\ \/ \E t \in IF message \in Stored THEN Texts ELSE {<<>>, <<2>>} :
                         PassString(t, control, message, ok)
                   \/ PassCharacter(control, message, ok)
                   \/ GetLength(control, message, ok)
                   \/ \E size \in Sizes : Fill(control, message, size, ok)
          \/ \E class \in {"atom", "name"}, title \in {"none", "text", "number"}, c, s \in BOOLEAN :
                Create(class, title, c, s)
          \/ \E name \in WindowNames, wrapped, ok \in BOOLEAN : PassName(name, wrapped, ok)
    \/ \E t \in Texts : Change(t)

Spec == Init /\ [][Next]_vars
------------------------------------------------------------------------------
(* TextArrives: a buffer with room for the text and its end gets the whole   *)
(* text, ended, and the caller is told its length; a smaller one is not      *)
(* written past its size (OUTSTRING, INCNTOUTSTRING).  A list box's text has *)
(* no size: it fits when the caller allocated what the length message said   *)
(* and the text stayed (OUTCBOXSTRING, GETDBCSTEXTLENGTHS).  An empty text   *)
(* leaves the buffer alone.                                                  *)
TextArrives ==
    LET written == out.fill.units + (IF out.fill.ended THEN 1 ELSE 0)
        sized == learned.fresh /\ out.size = learned.length + 1
    IN  /\ learned.fresh => learned.length = CallerUnits(text)
        /\ out.msg \in {"WM_GETTEXT", "EM_GETLINE"} => written <= out.size
        /\ out.msg \in {"LB_GETTEXT", "CB_GETLBTEXT"} /\ sized => written <= out.size
        /\ (out.msg # "none" /\ out.ok /\ text # <<>> /\ sized) =>
              out.fill = [units |-> learned.length, ended |-> TRUE, ret |-> learned.length]

(* CodingTold: a creation structure is passed on in the coding the receiver   *)
(* is told, also when the class could be converted and the title could not;  *)
(* an ANSI procedure cannot be told, and gets the caller's own structure when *)
(* a string is missing (INLPCREATESTRUCT, INLPMDICREATESTRUCT).               *)
CodingTold == passed.coded = passed.told \/ (side = "User" /\ "null" \in {passed.class, passed.title})

(* Inductive with the types alone: a message that fills a buffer finds the    *)
(* text that the caller learned the length of, or one it did not.             *)
MessagesInv ==
    /\ side \in {"User", "Kernel"} /\ text \in Texts
    /\ learned \in [length : Int, fresh : BOOLEAN]
    /\ TextArrives /\ CodingTold
=============================================================================
