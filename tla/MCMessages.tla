----------------------------- MODULE MCMessages -----------------------------
(***************************************************************************)
(* What LEP converts for a program: characters, edit positions, the        *)
(* parameters of messages, the clipboard's text and fonts; and the copy of *)
(* USER32's settings that makes USER32 itself expect double-byte text.     *)
(* The parts share no state, so one behaviour is a behaviour of one of     *)
(* them, chosen at the start; the variables of the others keep a fixed     *)
(* value.                                                                  *)
(***************************************************************************)
EXTENDS CharacterDelivery

CONSTANTS
    EditText, MessageText,                        \* bounds on texts
    Common, Local, Alien, Empty, Lossy, Absent,   \* of Clipboard
    Threads, None,
    Objects, SystemFont, Made, DCs,               \* of StockFonts
    Tables, Host, Target, English, MaxRounds,     \* of FontEnumeration
    Readers, Mappings, Unfit, Copies, Dbcs,       \* of User32Environment
    WritesFail, HostReturns, MaxChanges, MaxSwitches, MaxInits

VARIABLES active, pumped,
          eSide, eText, eSel, eCall, ePc, eCopy, eGot, eReply, eBefore,
          mSide, mText, mLearned, mOut, mPassed,
          cUnicode, cAnsi, cRead, cWas, cFailed,
          sStock, sLock, sCall, sSelected, sAlive, sSpare, sHooked, sEarly,
          fArch, fFont, fCache, fTold, fCharset,
          uSlot, uBit, uRest, uCopy, uSource, uShadow, uLockReady, uStopped, uLock, uPc, uOriginal,
          uFresh, uDone, uPointer, uRestoring, uChanges, uSwitches, uInits

E == INSTANCE EditPositions WITH MaxText <- EditText, side <- eSide, text <- eText, sel <- eSel,
       call <- eCall, pc <- ePc, copy <- eCopy, got <- eGot, reply <- eReply, before <- eBefore
M == INSTANCE Messages WITH MaxText <- MessageText, side <- mSide, text <- mText,
       learned <- mLearned, out <- mOut, passed <- mPassed
(* The null values are no values; a text is of one kind; a copy is no server *)
(* mapping; a name table is a list of records.                               *)
ASSUME TextAssumption ==
    /\ Absent \notin Common \cup Local \cup Alien \cup {Empty, Lossy}
    /\ Empty # Lossy /\ {Empty, Lossy} \cap (Common \cup Local \cup Alien) = {}
    /\ Common \cap (Local \cup Alien) = {} /\ Local \cap Alien = {}
ASSUME FontAssumption ==
    /\ None \notin Threads \cup Made \cup Objects \cup DCs \cup {[stock |-> i] : i \in Objects}
    /\ Made \cap {[stock |-> i] : i \in Objects} = {} /\ SystemFont \in Objects
ASSUME TableAssumption ==
    /\ Tables \subseteq Seq([name : STRING, language : STRING, text : STRING])
    /\ MaxRounds \in Nat
ASSUME SetsAssumption ==
    /\ Mappings \cap Copies = {} /\ Unfit \subseteq Mappings
    /\ None \notin Threads \cup Readers \cup Mappings \cup Copies
ASSUME BoundAssumption == EditText \in Nat /\ MessageText \in Nat
ASSUME ValueAssumption ==
    /\ Dbcs \in BOOLEAN /\ WritesFail \in BOOLEAN /\ HostReturns \in BOOLEAN
    /\ MaxChanges \in Nat /\ MaxSwitches \in Nat /\ MaxInits \in Nat

C == INSTANCE Clipboard WITH unicode <- cUnicode, ansi <- cAnsi, read <- cRead, was <- cWas,
       failed <- cFailed
S == INSTANCE StockFonts WITH StockObject <- sStock, gdiLock <- sLock, call <- sCall,
       selected <- sSelected, alive <- sAlive, spare <- sSpare, hooked <- sHooked, early <- sEarly
F == INSTANCE FontEnumeration WITH arch <- fArch, font <- fFont, cache <- fCache, told <- fTold,
       charset <- fCharset
U == INSTANCE User32Environment WITH slot <- uSlot, bit <- uBit, rest <- uRest, copy <- uCopy,
       source <- uSource, shadow <- uShadow, lockReady <- uLockReady, stopped <- uStopped,
       lock <- uLock, pc <- uPc, original <- uOriginal, fresh <- uFresh, done <- uDone,
       pointer <- uPointer, restoring <- uRestoring, changes <- uChanges,
       switches <- uSwitches, inits <- uInits

Components == {"characters", "edit", "messages", "clipboard", "stock", "fonts", "environment"}
CharacterVars == <<vars, pumped>>
EditVars == <<eSide, eText, eSel, eCall, ePc, eCopy, eGot, eReply, eBefore>>
MessageVars == <<mSide, mText, mLearned, mOut, mPassed>>
ClipboardVars == <<cUnicode, cAnsi, cRead, cWas, cFailed>>
StockVars == <<sStock, sLock, sCall, sSelected, sAlive, sSpare, sHooked, sEarly>>
FontVars == <<fArch, fFont, fCache, fTold, fCharset>>
EnvironmentVars == <<uSlot, uBit, uRest, uCopy, uSource, uShadow, uLockReady, uStopped, uLock, uPc,
                     uOriginal, uFresh, uDone, uPointer, uRestoring, uChanges, uSwitches, uInits>>

MCInit ==
    /\ active \in Components
    /\ Init /\ pumped = FALSE
    /\ IF active = "edit" THEN E!Init
       ELSE /\ eSide = 0 /\ eText = 0 /\ eSel = 0 /\ eCall = 0 /\ ePc = "idle" /\ eCopy = 0
            /\ eGot = 0 /\ eReply = 0 /\ eBefore = 0
    /\ IF active = "messages" THEN M!Init
       ELSE mSide = 0 /\ mText = 0 /\ mLearned = 0 /\ mOut = 0 /\ mPassed = 0
    /\ IF active = "clipboard" THEN C!Init
       ELSE /\ cUnicode = 0 /\ cAnsi = 0 /\ cRead = 0 /\ cWas = 0 /\ cFailed = 0
    /\ IF active = "stock" THEN S!Init
       ELSE /\ sStock = 0 /\ sLock = 0 /\ sCall = 0 /\ sSelected = 0 /\ sAlive = 0 /\ sSpare = 0
            /\ sHooked = 0 /\ sEarly = 0
    /\ IF active = "fonts" THEN F!Init
       ELSE fArch = 0 /\ fFont = 0 /\ fCache = 0 /\ fTold = 0 /\ fCharset = 0
    /\ IF active = "environment" THEN U!Init
       ELSE /\ uSlot = 0 /\ uBit = 0 /\ uRest = 0 /\ uCopy = 0 /\ uSource = 0 /\ uShadow = 0
            /\ uLockReady = 0 /\ uStopped = 0 /\ uLock = 0 /\ uPc = 0 /\ uOriginal = 0 /\ uFresh = 0
            /\ uDone = 0 /\ uPointer = 0 /\ uRestoring = 0 /\ uChanges = 0 /\ uSwitches = 0 /\ uInits = 0

(* A procedure other than the EDIT control's runs a message loop while it    *)
(* handles a byte.                                                           *)
Pumped == calls # <<>> /\ ~HandlesLead /\ LepPeekMessageA

MCNext ==
    /\ UNCHANGED active
    /\ \/ /\ active = "characters" /\ Next /\ pumped' = (pumped \/ Pumped)
          /\ UNCHANGED <<EditVars, MessageVars, ClipboardVars, StockVars, FontVars, EnvironmentVars>>
       \/ /\ active = "edit" /\ E!Next
          /\ UNCHANGED <<CharacterVars, MessageVars, ClipboardVars, StockVars, FontVars, EnvironmentVars>>
       \/ /\ active = "messages" /\ M!Next
          /\ UNCHANGED <<CharacterVars, EditVars, ClipboardVars, StockVars, FontVars, EnvironmentVars>>
       \/ /\ active = "clipboard" /\ C!Next
          /\ UNCHANGED <<CharacterVars, EditVars, MessageVars, StockVars, FontVars, EnvironmentVars>>
       \/ /\ active = "stock" /\ S!Next
          /\ UNCHANGED <<CharacterVars, EditVars, MessageVars, ClipboardVars, FontVars, EnvironmentVars>>
       \/ /\ active = "fonts" /\ F!Next
          /\ UNCHANGED <<CharacterVars, EditVars, MessageVars, ClipboardVars, StockVars, EnvironmentVars>>
       \/ /\ active = "environment" /\ U!Next
          /\ UNCHANGED <<CharacterVars, EditVars, MessageVars, ClipboardVars, StockVars, FontVars>>

MCVars == <<active, CharacterVars, EditVars, MessageVars, ClipboardVars, StockVars, FontVars,
            EnvironmentVars>>
MCSpec == MCInit /\ [][MCNext]_MCVars

-----------------------------------------------------------------------------
(* BytesPaired: each byte of a WM_CHAR's character, and of what DefWindowProcA*)
(* makes of an IME character, reaches its window once, and a trail byte taken*)
(* by PeekMessageA goes to the procedure that handles the lead byte of the   *)
(* same character, unless another procedure runs a message loop:             *)
(* LepPeekMessageA gives a pending byte to whoever peeks.                    *)
BytesPaired ==
    BytesOnce /\ (pumped \/ \A i \in DOMAIN received : received[i].by = received[i].char)

(* Transparent, of EditPositions: positions of an edit control, and the      *)
(* lengths it names, are told and taken in the caller's count                *)
(* (UserfnEDIT_TEXT_POSITION, KernelfnEDIT_TEXT_POSITION).                   *)
Transparent == active = "edit" => E!Transparent

(* TextArrives and CodingTold, of Messages: a text that fits is told and read *)
(* whole, and a receiver is told the coding of what it is passed (OUTSTRING, *)
(* INCNTOUTSTRING, GETDBCSTEXTLENGTHS, INLPCREATESTRUCT, INSTRINGNULL).      *)
TextArrives == active = "messages" => M!TextArrives /\ M!CodingTold

(* TextSurvives, of Clipboard: what a program reads and leaves on the        *)
(* clipboard is what was copied (LepSetClipboardData, LepGetClipboardData).  *)
TextSurvives == active = "clipboard" => C!TextSurvives

(* StockFontsStay, of StockFonts, and EnumerationsAgree, of FontEnumeration: *)
(* each stock object and context has one living font, and a later enumeration*)
(* reports what the first one did (LepGetStockObject,                        *)
(* LepSelectTargetStockFontInDC, LepEnumFontCallbackW).                      *)
FontsStay == (active = "stock" => S!StockFontsStay) /\ (active = "fonts" => F!EnumerationsAgree)

(* NoDanglingReader, CopiesShowTarget and SynchronizedInForce, of            *)
(* User32Environment: no reader of USER32 is left with a freed copy, a       *)
(* published copy never shows the host's DBCS bit, and a synchronisation     *)
(* that is through has put the emulated mode and present data in force       *)
(* (User32Environment::Synchronize, Restore).                                *)
NoDanglingReader == active = "environment" => U!NoDanglingReader
CopiesShowTarget == active = "environment" => U!CopiesShowTarget
SynchronizedInForce == active = "environment" => U!SynchronizedInForce

-----------------------------------------------------------------------------
(* For model checking.  Name tables: an English name first and other ones in *)
(* the host's and the target's language, English and the target's only, the  *)
(* target's only.  Threads and copies are alike.                             *)
R(name, language, text) == [name |-> name, language |-> language, text |-> text]
NameTables == { <<R("FACENAME", "en", "B"), R("FACENAME", "zh", "A"), R("FACENAME", "ja", "B"),
                  R("FULLNAME", "ja", "B")>>,
                <<R("FACENAME", "ja", "B"), R("FACENAME", "en", "A")>>,
                <<R("FACENAME", "ja", "A"), R("FULLNAME", "en", "A")>> }
Symmetry == Permutations(Threads) \cup Permutations(Copies)
=============================================================================
