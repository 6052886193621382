------------------------- MODULE CharacterDelivery --------------------------
(***************************************************************************)
(* Delivery of Unicode characters to wrapped ANSI windows on one thread    *)
(* (Hooks/User32Hook.cpp).  CallAnsiCharacterProc calls the ANSI procedure *)
(* once per byte; for a double-byte character and an EDIT control it keeps *)
(* the trail byte in an active frame, where LepPeekMessageA finds it while *)
(* the control handles the lead byte.                                      *)
(*                                                                         *)
(* A procedure that handles a byte may send and post further characters    *)
(* and peek for messages, so deliveries nest.  Every character is typed    *)
(* once and stands for itself; one of three bytes that an ANSI caller      *)
(* packs into a parameter is decoded to another character.                 *)
(***************************************************************************)
EXTENDS ActiveFrames, SequencesExt

CONSTANTS
    Edits, Others,          \* wrapped windows: EDIT controls and others
    Single, Double, Triple, \* characters by their bytes in the target code page
    Lost,                   \* characters it cannot encode
    AnyWindow,              \* PeekMessageA without a window
    MaxNested               \* bound: procedures called at once

Windows == Edits \cup Others
Chars == Single \cup Double \cup Triple \cup Lost

Kind == "DBCS"
Frames == [kind : {Kind}, owner : Chars, win : Windows, consumed : BOOLEAN]

ASSUME CharAssumption ==
    /\ Edits \cap Others = {} /\ AnyWindow \notin Windows
    /\ \A A, B \in {Single, Double, Triple, Lost} : A = B \/ A \cap B = {}
    /\ NoFrame \notin Frames
    /\ MaxNested \in Nat

VARIABLES
    queue,     \* the thread's posted characters
    calls,     \* calls of an ANSI procedure, the innermost last
    frames,    \* the thread's active frames
    typed,     \* characters typed, or decoded for them, so far
    due,       \* history: those of them a window is to get byte by byte
    received   \* the bytes procedures got, in order

vars == <<queue, calls, frames, typed, due, received>>

(* RtlUnicodeToMultiByteN *)
Bytes(c) == IF c \in Lost THEN 0 ELSE IF c \in Single THEN 1 ELSE IF c \in Double THEN 2 ELSE 3

Messages == [msg : {"WM_CHAR", "WM_IME_CHAR"}, char : Chars, win : Windows]

(* index: the byte the procedure handles, 0 for all of them in one message. *)
Calls == [char : Chars, win : Windows, index : 0 .. 3, defaulted : BOOLEAN]
Received == [char : Chars, index : 1 .. 3, win : Windows, by : Chars]

TypeOK ==
    /\ queue \in Seq(Messages)
    /\ calls \in Seq(Calls) /\ Len(calls) <= MaxNested
    /\ \A i \in DOMAIN calls : calls[i].index <= Bytes(calls[i].char)
    /\ frames \in Seq(Frames)
    /\ typed \subseteq Chars /\ due \subseteq typed
    /\ received \in Seq(Received)

Top == calls[Len(calls)]

(* The frame of the innermost delivery to an EDIT control. *)
Pending == FindFrame(frames, Kind)

Init ==
    /\ queue = <<>>
    /\ calls = <<>>
    /\ frames = <<>>
    /\ typed = {} /\ due = {}
    /\ received = <<>>

-----------------------------------------------------------------------------
(* CallAnsiCharacterProc *)

(* Every EDIT delivery of a double-byte character has a frame. *)
Framed(c, w) == Bytes(c) = 2 /\ w \in Edits

Got(c, i, w, by) == [char |-> c, index |-> i, win |-> w, by |-> by]

(* WindowProcW with a character: an unencodable one is dropped, an IME       *)
(* character is packed in one call, WM_CHAR begins with the first byte.      *)
CallAnsiCharacterProc(m) ==
    LET c == m.char w == m.win packed == m.msg = "WM_IME_CHAR"
    IN  IF Bytes(c) = 0 THEN UNCHANGED <<calls, frames, received>>
        ELSE /\ Len(calls) < MaxNested
             /\ calls' = Append(calls, [char |-> c, win |-> w, defaulted |-> FALSE,
                                        index |-> IF packed THEN 0 ELSE 1])
             /\ received' = IF packed THEN received ELSE Append(received, Got(c, 1, w, c))
             /\ frames' = IF ~packed /\ Framed(c, w)
                          THEN PushFrame(frames, [kind |-> Kind, owner |-> c, win |-> w,
                                                  consumed |-> FALSE])
                          ELSE frames

(* The trail byte was taken while the lead byte was handled. *)
Consumed(c) == \E i \in DOMAIN frames : frames[i].owner = c /\ frames[i].consumed

(* The procedure returns: the frame is popped, and the next byte follows     *)
(* unless it is the trail byte the procedure has taken itself.               *)
ReturnFromProc ==
    /\ calls # <<>>
    /\ IF Top.index \in 1 .. (Bytes(Top.char) - 1) /\ ~Consumed(Top.char)
       THEN /\ calls' = [calls EXCEPT ![Len(calls)].index = @ + 1]
            /\ received' = Append(received, Got(Top.char, Top.index + 1, Top.win, Top.char))
       ELSE /\ calls' = SubSeq(calls, 1, Len(calls) - 1)
            /\ UNCHANGED received
    /\ frames' = PopFrame(frames, Top.char)
    /\ UNCHANGED <<queue, typed, due>>

-----------------------------------------------------------------------------
(* What the program does, inside a procedure or between messages. *)

(* A packed character of an ANSI caller is decoded from two bytes: one of    *)
(* three becomes what its last two are, another character.                   *)
AnsiCharacterParamToUnicode(c) ==
    IF Bytes(c) <= 2 THEN {c} ELSE Chars \ (typed \cup {c})

(* What the wrapper gets of a message: a Unicode caller's as it is, an IME   *)
(* character of LepPostMessageA and LepSendMessageA decoded.                 *)
Arrivals(m) ==
    {m.char} \cup IF m.msg = "WM_IME_CHAR" /\ Bytes(m.char) > 0
                  THEN AnsiCharacterParamToUnicode(m.char) ELSE {}

Type(m, c) ==
    /\ m.char \notin typed
    /\ typed' = typed \cup {m.char, c}
    /\ due' = IF m.msg = "WM_CHAR" THEN due \cup {c} ELSE due

Post(m) ==
    /\ \E c \in Arrivals(m) : Type(m, c) /\ queue' = Append(queue, [m EXCEPT !.char = c])
    /\ UNCHANGED <<calls, frames, received>>

(* SendMessage calls the wrapper at once; so does LepSendMessageA. *)
Send(m) ==
    /\ \E c \in Arrivals(m) : Type(m, c) /\ CallAnsiCharacterProc([m EXCEPT !.char = c])
    /\ UNCHANGED queue

(* LepDefWindowProcA posts the IME character it decodes as one WM_CHAR. *)
DefWindowProc ==
    /\ calls # <<>> /\ Top.index = 0 /\ ~Top.defaulted
    /\ \E c \in AnsiCharacterParamToUnicode(Top.char) :
          /\ queue' = Append(queue, [msg |-> "WM_CHAR", char |-> c, win |-> Top.win])
          /\ typed' = typed \cup {c} /\ due' = due \cup {c}
    /\ calls' = [calls EXCEPT ![Len(calls)].defaulted = TRUE]
    /\ UNCHANGED <<frames, received>>

(* A message loop peeks for any window, also when a procedure runs it; an    *)
(* EDIT control peeks for its own window when it handles a lead byte.        *)
HandlesLead == Top.index = 1 /\ Framed(Top.char, Top.win)
Filters == IF calls = <<>> THEN {AnyWindow} ELSE {AnyWindow, Top.win}

(* The ranges of messages asked for: all (0, 0), WM_CHAR alone, or others. *)
Ranges == {"all", "char", "other"}

(* mutant: a range is only open when both its ends are 0 *)
BadCovers(range) == range = "all"
Covers(range) == range \in {"all", "char"}

Offers(w, range) ==
    /\ Pending # NoFrame
    /\ ~Pending.consumed
    /\ w \in {AnyWindow, Pending.win}
    /\ Covers(range)

(* The peeking procedure gets the trail byte, and the frame remembers it. *)
Take ==
    /\ frames' = [i \in DOMAIN frames |->
                     IF frames[i] = Pending THEN [Pending EXCEPT !.consumed = TRUE] ELSE frames[i]]
    /\ received' = Append(received, Got(Pending.owner, 2, Pending.win, Top.char))

(* LepPeekMessageA gives the trail byte of the innermost frame; only         *)
(* PM_REMOVE takes it.                                                       *)
PeekPending(w, range, remove) ==
    /\ calls # <<>> /\ Offers(w, range)
    /\ IF remove THEN Take ELSE UNCHANGED <<frames, received>>
    /\ UNCHANGED <<queue, calls, typed, due>>

(* Otherwise the native PeekMessageA takes the first character of the queue, *)
(* and the program dispatches it.                                            *)
PeekQueue(w, range) ==
    /\ ~Offers(w, range) /\ range # "other"
    /\ \E i \in DOMAIN queue :
          /\ w \in {AnyWindow, queue[i].win}
          /\ \A j \in 1 .. (i - 1) : w \notin {AnyWindow, queue[j].win}
          /\ queue' = RemoveAt(queue, i)
          /\ CallAnsiCharacterProc(queue[i])
    /\ UNCHANGED <<typed, due>>

LepPeekMessageA ==
    \E w \in Filters, range \in Ranges, remove \in BOOLEAN :
        PeekPending(w, range, remove) \/ (remove /\ PeekQueue(w, range))

Next ==
    \/ \E m \in Messages : Post(m) \/ Send(m)
    \/ DefWindowProc
    \/ LepPeekMessageA
    \/ ReturnFromProc

Spec == Init /\ [][Next]_vars
-----------------------------------------------------------------------------
(* Properties. *)

(* A WM_CHAR that is done with has reached its window completely: each byte  *)
(* once, after all those before it, by a call or taken by PeekMessageA; so   *)
(* has what DefWindowProcA made of an IME character. No other character is   *)
(* got in bytes.                                                             *)
Open(c) ==
    \/ \E i \in DOMAIN calls : calls[i].char = c
    \/ \E i \in DOMAIN queue : queue[i].char = c
Parts(c, n) == {received[i].index : i \in {j \in 1 .. n : received[j].char = c}}
InOrder ==
    \A i \in DOMAIN received :
       LET got == received[i]
       IN  /\ Parts(got.char, i - 1) = 1 .. (got.index - 1)
           /\ \A j \in 1 .. i : received[j].char = got.char => received[j].win = got.win
BytesOnce ==
    /\ InOrder
    /\ \A c \in typed : ~Open(c) =>
          Parts(c, Len(received)) = IF c \in due THEN 1 .. Bytes(c) ELSE {}

(* While the trail byte is to be had, the control that handles the lead byte *)
(* takes nothing from the queue in its place.                                *)
QueueKept ==
    [][calls # <<>> /\ HandlesLead /\ ~Consumed(Top.char)
          => Len(queue') >= Len(queue)]_vars

-----------------------------------------------------------------------------
(* The inductive invariant.                                                  *)

(* A character is in one place: a packed call that has posted it again is    *)
(* the only one that may be left when it is queued or delivered again.       *)
PostedAgain(call) == call.index = 0 /\ call.defaulted
OnePlace ==
    /\ \A i, j \in DOMAIN queue : queue[i].char = queue[j].char => i = j
    /\ \A i \in DOMAIN queue, k \in DOMAIN calls :
          queue[i].char = calls[k].char => PostedAgain(calls[k]) /\ queue[i].msg = "WM_CHAR"
    /\ \A k, l \in DOMAIN calls :
          k < l /\ calls[k].char = calls[l].char => PostedAgain(calls[k]) /\ calls[l].index # 0
    /\ \A i \in DOMAIN queue : queue[i].char \in typed
    /\ \A k \in DOMAIN calls : calls[k].char \in typed
    /\ \A j \in DOMAIN received : received[j].char \in typed

(* Each call with the lead byte for an EDIT control has one frame, and the   *)
(* frames are in the order of their calls.                                   *)
Leads(call) == call.index = 1 /\ Framed(call.char, call.win)
FramesFollow ==
    /\ \A i \in DOMAIN frames : \E k \in DOMAIN calls :
          Leads(calls[k]) /\ calls[k].char = frames[i].owner /\ calls[k].win = frames[i].win
    /\ \A k \in DOMAIN calls : Leads(calls[k]) => \E i \in DOMAIN frames : frames[i].owner = calls[k].char
    /\ \A i, j \in DOMAIN frames, k, l \in DOMAIN calls :
          /\ i < j /\ Leads(calls[k]) /\ Leads(calls[l])
          /\ frames[i].owner = calls[k].char /\ frames[j].owner = calls[l].char
          => k < l

(* The bytes of a character that have been sent, by where it is.             *)
Sent(c) == Parts(c, Len(received))
SentTo(c, w) == \A j \in DOMAIN received : received[j].char = c => received[j].win = w
Live(c) ==
    \/ \E i \in DOMAIN queue : queue[i].char = c
    \/ \E k \in DOMAIN calls : calls[k].char = c /\ ~PostedAgain(calls[k])
UnsentQueued == \A c \in Chars : \A i \in DOMAIN queue : queue[i].char = c => Sent(c) = {}
SentByCalls ==
    \A c \in Chars, w \in Windows : \A k \in DOMAIN calls :
       calls[k].char = c /\ calls[k].win = w =>
          /\ calls[k].index = 0 /\ ~PostedAgain(calls[k]) => Sent(c) = {}
          /\ calls[k].index # 0 =>
                /\ Sent(c) = 1 .. IF Consumed(c) THEN 2 ELSE calls[k].index
                /\ SentTo(c, w)
AllSent == \A c \in typed : ~Live(c) => Sent(c) = IF c \in due THEN 1 .. Bytes(c) ELSE {}

(* What is due: WM_CHARs, and no packed character yet to be defaulted.       *)
DueIs ==
    /\ \A i \in DOMAIN queue : queue[i].char \in due <=> queue[i].msg = "WM_CHAR"
    /\ \A k \in DOMAIN calls :
          /\ calls[k].index # 0 => calls[k].char \in due
          /\ calls[k].index = 0 /\ ~PostedAgain(calls[k]) => calls[k].char \notin due

DeliveryInv ==
    /\ TypeOK /\ OnePlace /\ FramesFollow /\ InOrder
    /\ UnsentQueued /\ SentByCalls /\ AllSent /\ DueIs
=============================================================================
