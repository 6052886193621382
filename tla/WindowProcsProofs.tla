-------------------------- MODULE WindowProcsProofs --------------------------
(* Theorems about WindowProcs for any procedures and any depth of nested     *)
(* messages: with only the owner's calls the hooked A interface is a         *)
(* register changed in one step; and as long as other threads touch only     *)
(* wrapped windows, the wrapper always finds the procedure to call and no    *)
(* procedure gets a message twice.  And about WindowCreation for any number  *)
(* of windows and any nesting: each creation hands the program its own       *)
(* parameter and takes away what it installed.                               *)
EXTENDS MCWindows, SequenceTheorems, TLAPS

LEMMA ProcFacts ==
  /\ Owner \in Threads /\ WindowProcW \in Procs /\ Null \notin Procs
  /\ WindowProcW \notin AppProcs /\ ClassProcs \subseteq AppProcs
BY ProcAssumption DEF Procs, AppProcs

-----------------------------------------------------------------------------
(* The calls in progress: an owner's call that wraps the window works on one *)
(* without a saved procedure, other threads' calls on one that has it.       *)
CallsInv ==
  /\ created \in BOOLEAN
  /\ native \in Procs /\ property \in Procs \cup {Null} /\ returned \in Procs \cup {Null}
  /\ beneath \in [AppProcs -> Procs \cup {Null}]
  /\ calls \in [Threads -> Calls]
  /\ ~created => property = Null /\ \A t \in Threads : calls[t] = NoCall
  /\ \A t \in Threads :
       /\ calls[t].step # "none" => calls[t].new \in Procs
       /\ calls[t].step \in {"store", "wrap", "save"} => calls[t].old \in Procs
       /\ calls[t].step = "store" => Saved
       /\ calls[t].step \in {"native", "wrap", "save"} => t = Owner /\ ~Saved

LEMMA InitCalls == Init => CallsInv
<1> SUFFICES ASSUME Init PROVE CallsInv
  OBVIOUS
<1>1. calls \in [Threads -> Calls] BY DEF Init, NoCall, Calls, Steps
<1>2. \A t \in Threads : calls[t] = NoCall BY DEF Init
<1>3. beneath \in [AppProcs -> Procs \cup {Null}] BY DEF Init
<1>4. created = FALSE /\ native \in Procs /\ property = Null /\ returned = Null
  BY ProcFacts DEF Init, Procs
<1>5. \A t \in Threads : calls[t].step = "none" BY <1>2 DEF NoCall
<1> QED BY <1>1, <1>2, <1>3, <1>4, <1>5 DEF CallsInv

LEMMA CallKeepsCalls ==
  ASSUME CallsInv, Foreign # "any", NEW t \in Threads, NEW new \in Procs, CallSetWindowLongA(t, new)
  PROVE  CallsInv'
<1> USE DEF CallSetWindowLongA, CallsInv, Saved
<1>1. Foreign \in {"never", "wrapped"} BY ProcAssumption
<1>2. created /\ (t # Owner => property # Null) BY <1>1 DEF Free
<1>3. calls' \in [Threads -> Calls] BY DEF Calls, Steps
<1>4. \A s \in Threads : s # t => calls'[s] = calls[s] OBVIOUS
<1>5. calls'[t] = [step |-> IF property # Null THEN "store" ELSE "native", new |-> new, old |-> property]
  OBVIOUS
<1> QED BY <1>2, <1>3, <1>4, <1>5

LEMMA SetNativeCall ==
  ASSUME calls \in [Threads -> Calls], NEW t \in Threads, SetNative(t)
  PROVE  calls' = [calls EXCEPT ![t] = [step |-> "wrap", new |-> calls[t].new, old |-> native]]
<1>1. calls' = [calls EXCEPT ![t] = [calls[t] EXCEPT !.step = "wrap", !.old = native]]
  BY DEF SetNative
<1>2. calls[t] \in Calls OBVIOUS
<1>3. [calls[t] EXCEPT !.step = "wrap", !.old = native]
        = [step |-> "wrap", new |-> calls[t].new, old |-> native]
  <2> DEFINE c == calls[t]
  <2>1. c = [step |-> c.step, new |-> c.new, old |-> c.old] BY <1>2 DEF Calls
  <2> HIDE DEF c
  <2>2. [c EXCEPT !.step = "wrap", !.old = native] = [step |-> "wrap", new |-> c.new, old |-> native]
    <3> DEFINE d == [c EXCEPT !.step = "wrap", !.old = native]
               e == [step |-> "wrap", new |-> c.new, old |-> native]
    <3>1. DOMAIN c = {"step", "new", "old"} BY <2>1
    <3>2. d \in [{"step", "new", "old"} -> {d["step"], d["new"], d["old"]}] BY <3>1
    <3>3. e \in [{"step", "new", "old"} -> {e["step"], e["new"], e["old"]}] OBVIOUS
    <3>4. d["step"] = e["step"] /\ d["new"] = e["new"] /\ d["old"] = e["old"] BY <3>1
    <3> HIDE DEF d, e
    <3>5. d = e BY <3>2, <3>3, <3>4
    <3> QED BY <3>5 DEF d, e
  <2> QED BY <2>2 DEF c
<1> QED BY <1>1, <1>3

LEMMA SetKeepsCalls ==
  ASSUME CallsInv, NEW t \in Threads, Store(t) \/ SetNative(t) \/ Wrap(t) \/ Save(t)
  PROVE  CallsInv'
<1> USE ProcFacts DEF CallsInv, Saved
<1>1. ASSUME NEW s \in Threads, calls[s].step # "none" PROVE created BY <1>1 DEF NoCall
<1>2. CASE Store(t) \/ Save(t)
  <2>1. /\ property' = calls[t].new /\ returned' = calls[t].old /\ calls' = [calls EXCEPT ![t] = NoCall]
        /\ calls[t].step \in {"store", "save"} /\ UNCHANGED << created, native >>
    BY <1>2 DEF Store, Save, Returns
  <2>2. beneath' \in [AppProcs -> Procs \cup {Null}]
    BY <1>2 DEF Store, Save, Returns, AppProcs
  <2>3. calls' \in [Threads -> Calls] BY <2>1 DEF NoCall, Calls, Steps
  <2>4. \A s \in Threads : calls'[s] = NoCall \/ (s # t /\ calls'[s] = calls[s]) BY <2>1
  <2>5. created /\ property' \in Procs BY <1>1, <2>1
  <2>6. ASSUME NEW s \in Threads, calls'[s].step \in {"native", "wrap", "save"} PROVE FALSE
    BY <2>1, <2>4, <2>6 DEF NoCall
  <2> QED BY <2>1, <2>2, <2>3, <2>4, <2>5, <2>6 DEF NoCall
<1>3. CASE SetNative(t)
  <2>1. /\ native' = calls[t].new /\ calls' = [calls EXCEPT ![t].step = "wrap", ![t].old = native]
        /\ calls[t].step = "native" /\ UNCHANGED << created, property, beneath, returned >>
    BY <1>3 DEF SetNative
  <2>2. calls' = [calls EXCEPT ![t] = [step |-> "wrap", new |-> calls[t].new, old |-> native]]
    BY <1>3, SetNativeCall
  <2>3. [step |-> "wrap", new |-> calls[t].new, old |-> native] \in Calls BY <2>1 DEF Calls, Steps
  <2>4. calls' \in [Threads -> Calls] BY <2>2, <2>3
  <2>5. /\ \A s \in Threads \ {t} : calls'[s] = calls[s]
        /\ calls'[t].step = "wrap" /\ calls'[t].new = calls[t].new /\ calls'[t].old = native
    BY <2>2 DEF Calls
  <2> QED BY <1>1, <2>1, <2>4, <2>5
<1>4. CASE Wrap(t)
  <2>1. /\ native' = WindowProcW /\ calls' = [calls EXCEPT ![t].step = "save"]
        /\ calls[t].step = "wrap" /\ UNCHANGED << created, property, beneath, returned >>
    BY <1>4 DEF Wrap
  <2>2. calls' \in [Threads -> Calls] BY <2>1 DEF Calls, Steps
  <2>3. /\ \A s \in Threads \ {t} : calls'[s] = calls[s]
        /\ calls'[t].step = "save" /\ calls'[t].new = calls[t].new /\ calls'[t].old = calls[t].old
    BY <2>1 DEF Calls
  <2> QED BY <1>1, <2>1, <2>2, <2>3
<1> QED BY <1>2, <1>3, <1>4

LEMMA OthersKeepCalls ==
  ASSUME CallsInv,
         \/ CreateAnsi \/ CreateNative \/ Deliver
         \/ \E t \in Threads : SetWindowLongW(t)
  PROVE  CallsInv'
<1> USE ProcFacts DEF CallsInv, Saved
<1>1. CASE CreateAnsi BY <1>1 DEF CreateAnsi, NoCall
<1>2. CASE CreateNative BY <1>2 DEF CreateNative, NoCall
<1>3. CASE Deliver
  BY <1>3 DEF Deliver, Dispatch, CallSaved, CallBeneath, HandsTo, Finish
<1>4. ASSUME NEW t \in Threads, NEW p \in WideProcs, SubclassWide(t, p) \/ RestoreWide(t, p)
      PROVE  CallsInv'
  <2>1. p \in AppProcs BY DEF AppProcs
  <2>2. native' \in Procs BY <1>4, <2>1 DEF SubclassWide, RestoreWide, Installed, Procs
  <2>3. beneath' \in [AppProcs -> Procs \cup {Null}] BY <1>4, <2>1 DEF SubclassWide, RestoreWide
  <2> QED BY <1>4, <2>2, <2>3 DEF SubclassWide, RestoreWide
<1> QED BY <1>1, <1>2, <1>3, <1>4 DEF SetWindowLongW

LEMMA NextKeepsCalls == Foreign # "any" /\ CallsInv /\ [Next]_vars => CallsInv'
<1> SUFFICES ASSUME Foreign # "any", CallsInv, [Next]_vars PROVE CallsInv'
  OBVIOUS
<1>1. CASE UNCHANGED vars BY <1>1 DEF vars, CallsInv, Saved
<1>2. ASSUME NEW t \in Threads, NEW p \in AnsiProcs, Subclass(t, p) \/ Restore(t, p)
      PROVE  CallsInv'
  <2>1. p \in AppProcs /\ p \in Procs BY DEF AppProcs, Procs
  <2>2. CASE Subclass(t, p) BY <2>1, <2>2, CallKeepsCalls DEF Subclass
  <2>3. CASE Restore(t, p)
    <3>1. beneath[p] \in Procs BY <2>1, <2>3 DEF Restore, Installed, CallsInv
    <3> QED BY <2>3, <3>1, CallKeepsCalls DEF Restore
  <2> QED BY <1>2, <2>2, <2>3
<1>3. ASSUME NEW t \in Threads, SetWindowLongA(t) PROVE CallsInv'
  BY <1>2, <1>3, SetKeepsCalls DEF SetWindowLongA
<1> QED BY <1>1, <1>3, OthersKeepCalls DEF Next

-----------------------------------------------------------------------------
(* Until the window is wrapped the wrapper occurs nowhere, except as USER32's *)
(* procedure between the last two steps of the owner's call.                 *)
Unwrapped ==
  /\ native = WindowProcW => calls[Owner].step = "save"
  /\ \A p \in AppProcs : beneath[p] # WindowProcW
  /\ \A t \in Threads : calls[t].new # WindowProcW /\ calls[t].old # WindowProcW
  /\ \A i \in DOMAIN messages : messages[i].at # WindowProcW

MessagesInv ==
  /\ messages \in Seq(Messages) /\ Len(messages) <= MaxNested
  /\ WrapperFindsProc
  /\ ~Saved => Unwrapped

LEMMA InitMessages == Init => MessagesInv
<1> SUFFICES ASSUME Init PROVE MessagesInv
  OBVIOUS
<1>1. messages = << >> /\ messages \in Seq(Messages) BY DEF Init
<1>2. \A p \in AppProcs : beneath[p] # WindowProcW BY ProcFacts DEF Init
<1>3. \A t \in Threads : calls[t].new # WindowProcW /\ calls[t].old # WindowProcW
  BY ProcFacts DEF Init, NoCall
<1>4. native # WindowProcW BY ProcFacts DEF Init
<1> QED BY <1>1, <1>2, <1>3, <1>4, ProcAssumption DEF MessagesInv, WrapperFindsProc, Unwrapped

(* The steps that leave the messages alone.                                  *)
LEMMA QuietKeepsMessages ==
  ASSUME Foreign # "any", CallsInv, MessagesInv, messages' = messages,
         ~Saved' => Unwrapped'
  PROVE  MessagesInv'
BY DEF MessagesInv, WrapperFindsProc

LEMMA CallKeepsMessages ==
  ASSUME Foreign # "any", CallsInv, MessagesInv, NEW t \in Threads, NEW new \in Procs,
         CallSetWindowLongA(t, new), ~Saved => new # WindowProcW
  PROVE  MessagesInv'
<1>1. /\ UNCHANGED << native, property, beneath, messages >>
      /\ calls' = [calls EXCEPT ![t] = [step |-> IF Saved THEN "store" ELSE "native",
                                        new |-> new, old |-> property]]
      /\ calls[t].step = "none"
  BY DEF CallSetWindowLongA, Free
<1>2. ASSUME ~Saved' PROVE Unwrapped'
  <2>1. ~Saved /\ Unwrapped BY <1>1, <1>2 DEF MessagesInv, Saved
  <2>2. native' # WindowProcW \/ (t # Owner /\ calls[Owner].step = "save")
    BY <1>1, <2>1 DEF Unwrapped
  <2>3. /\ \A s \in Threads : s # t => calls'[s] = calls[s]
        /\ calls'[t].new = new /\ calls'[t].old = property
    BY <1>1 DEF CallsInv
  <2> QED BY <1>1, <2>1, <2>2, <2>3, ProcFacts DEF Unwrapped, Saved
<1> QED BY <1>1, <1>2, QuietKeepsMessages

LEMMA SetKeepsMessages ==
  ASSUME Foreign # "any", CallsInv, MessagesInv, NEW t \in Threads,
         Store(t) \/ SetNative(t) \/ Wrap(t) \/ Save(t)
  PROVE  MessagesInv'
<1>1. CASE Store(t) \/ Save(t)
  <2>1. Saved' /\ messages' = messages
    BY <1>1, ProcFacts DEF Store, Save, Saved, CallsInv
  <2> QED BY <2>1, QuietKeepsMessages
<1>2. CASE SetNative(t)
  <2>1. /\ native' = calls[t].new /\ UNCHANGED << property, beneath, messages >>
        /\ t = Owner /\ ~Saved /\ calls[t].step = "native"
    BY <1>2 DEF SetNative, CallsInv
  <2>2. /\ \A s \in Threads : s # t => calls'[s] = calls[s]
        /\ calls'[t].new = calls[t].new /\ calls'[t].old = native
    BY <1>2, SetNativeCall DEF CallsInv
  <2>3. Unwrapped BY <2>1 DEF MessagesInv
  <2>4. native # WindowProcW /\ native' # WindowProcW BY <2>1, <2>3 DEF Unwrapped
  <2>5. Unwrapped' BY <2>1, <2>2, <2>3, <2>4 DEF Unwrapped
  <2> QED BY <2>1, <2>5, QuietKeepsMessages
<1>3. CASE Wrap(t)
  <2>1. /\ calls' = [calls EXCEPT ![t].step = "save"] /\ UNCHANGED << property, beneath, messages >>
        /\ t = Owner /\ ~Saved
    BY <1>3 DEF Wrap, CallsInv
  <2>2. /\ \A s \in Threads : calls'[s].new = calls[s].new /\ calls'[s].old = calls[s].old
        /\ calls'[Owner].step = "save"
    BY <2>1 DEF CallsInv, Calls
  <2>3. Unwrapped BY <2>1 DEF MessagesInv
  <2>4. Unwrapped' BY <2>1, <2>2, <2>3 DEF Unwrapped
  <2> QED BY <2>1, <2>4, QuietKeepsMessages
<1> QED BY <1>1, <1>2, <1>3

LEMMA WideKeepsMessages ==
  ASSUME Foreign # "any", CallsInv, MessagesInv, NEW t \in Threads, SetWindowLongW(t)
  PROVE  MessagesInv'
<1>1. PICK p \in WideProcs : SubclassWide(t, p) \/ RestoreWide(t, p) BY DEF SetWindowLongW
<1>2. p \in AppProcs BY DEF AppProcs
<1>3. /\ UNCHANGED << property, calls, messages >> /\ Free(t)
      /\ native' = p \/ native' = beneath[p]
      /\ beneath' = beneath \/ beneath' = [beneath EXCEPT ![p] = native]
  BY <1>1 DEF SubclassWide, RestoreWide
<1>4. ASSUME ~Saved' PROVE Unwrapped'
  <2>1. ~Saved /\ Unwrapped BY <1>3, <1>4 DEF MessagesInv, Saved
  <2>2. t = Owner /\ calls[Owner].step = "none"
    BY <1>3, <2>1, ProcAssumption DEF Free
  <2>3. native # WindowProcW BY <2>1, <2>2 DEF Unwrapped
  <2>4. native' # WindowProcW BY <1>2, <1>3, <2>1, ProcFacts DEF Unwrapped
  <2>5. \A q \in AppProcs : beneath'[q] # WindowProcW
    BY <1>2, <1>3, <2>1, <2>3 DEF Unwrapped, CallsInv
  <2> QED BY <1>3, <2>1, <2>4, <2>5 DEF Unwrapped
<1> QED BY <1>3, <1>4, QuietKeepsMessages

LEMMA HandsOn ==
  ASSUME CallsInv, MessagesInv, messages # << >>, NEW p \in Procs, HandsTo(p),
         ~Saved => p # WindowProcW
  PROVE  MessagesInv'
<1> DEFINE n == Len(messages)
           m == messages[n]
           s == m.seen \cup {m.at}
<1>1. n \in Nat /\ n \in 1 .. n /\ DOMAIN messages = 1 .. n /\ m \in Messages
  BY DEF MessagesInv
<1>2. m.at \in Procs /\ m.seen \subseteq Procs /\ m.wrapped \in BOOLEAN
  BY <1>1 DEF MessagesInv, WrapperFindsProc, Messages
<1>3. messages' = [messages EXCEPT ![n] = [messages[n] EXCEPT !.at = p, !.seen = s]]
  BY DEF HandsTo, Top
<1>4. [m EXCEPT !.at = p, !.seen = s] \in Messages /\ [m EXCEPT !.at = p, !.seen = s].at = p
  <2>1. [m EXCEPT !.at = p] \in Messages /\ [m EXCEPT !.at = p].at = p BY <1>1 DEF Messages
  <2>2. s \subseteq Procs BY <1>2
  <2> QED BY <2>1, <2>2, <1>1 DEF Messages
<1>5. /\ messages' \in Seq(Messages) /\ Len(messages') = n
      /\ messages'[n].at = p /\ \A i \in 1 .. n : i # n => messages'[i] = messages[i]
  BY <1>1, <1>3, <1>4 DEF MessagesInv
<1>6. DOMAIN messages' = 1 .. n BY <1>1, <1>3
<1>7. WrapperFindsProc' BY <1>1, <1>5, <1>6, ProcFacts DEF WrapperFindsProc, MessagesInv
<1>8. UNCHANGED << native, property, beneath, calls >> BY DEF HandsTo
<1>9. ~Saved' => Unwrapped'
  BY <1>1, <1>5, <1>6, <1>8 DEF MessagesInv, Unwrapped, Saved
<1> QED BY <1>5, <1>7, <1>9 DEF MessagesInv

LEMMA DeliverKeepsMessages ==
  ASSUME CallsInv, MessagesInv, Deliver
  PROVE  MessagesInv'
<1>1. UNCHANGED << native, property, beneath, calls >>
  BY DEF Deliver, Dispatch, CallSaved, CallBeneath, HandsTo, Finish
<1>2. CASE Dispatch
  <2> DEFINE m == [at |-> native, seen |-> {}, wrapped |-> Saved]
  <2>1. messages' = Append(messages, m) /\ Len(messages) < MaxNested /\ calls[Owner].step = "none"
    BY <1>2 DEF Dispatch
  <2>2. m \in Messages BY DEF Messages, CallsInv, Saved
  <2>3. /\ messages' \in Seq(Messages) /\ Len(messages') = Len(messages) + 1
        /\ messages'[Len(messages) + 1] = m
        /\ \A i \in 1 .. Len(messages) : messages'[i] = messages[i]
        /\ Len(messages) \in Nat
    BY <2>1, <2>2 DEF MessagesInv
  <2>4. /\ DOMAIN messages = 1 .. Len(messages) /\ DOMAIN messages' = 1 .. Len(messages) + 1
    BY <2>3 DEF MessagesInv
  <2>5. WrapperFindsProc'
    BY <2>3, <2>4, ProcFacts DEF MessagesInv, WrapperFindsProc, CallsInv
  <2>6. ~Saved' => Unwrapped'
    BY <1>1, <2>1, <2>3, <2>4 DEF MessagesInv, Unwrapped, Saved
  <2> QED BY <2>1, <2>3, <2>5, <2>6, ProcAssumption DEF MessagesInv
<1>3. CASE CallSaved
  <2>1. messages # << >> /\ Top.at = WindowProcW /\ HandsTo(property) BY <1>3 DEF CallSaved
  <2>2. Len(messages) \in DOMAIN messages BY <2>1 DEF MessagesInv
  <2>3. Saved BY <2>1, <2>2 DEF MessagesInv, Unwrapped, Top
  <2> QED BY <2>1, <2>3, HandsOn DEF CallsInv, Saved
<1>4. CASE CallBeneath
  <2>1. messages # << >> /\ Top.at \in AppProcs /\ Installed(Top.at) /\ HandsTo(beneath[Top.at])
    BY <1>4 DEF CallBeneath
  <2>2. beneath[Top.at] \in Procs BY <2>1 DEF Installed, CallsInv
  <2>3. ~Saved => beneath[Top.at] # WindowProcW BY <2>1 DEF MessagesInv, Unwrapped
  <2> QED BY <2>1, <2>2, <2>3, HandsOn
<1>5. CASE Finish
  <2> DEFINE n == Len(messages)
  <2>1. messages # << >> /\ messages' = SubSeq(messages, 1, n - 1) BY <1>5 DEF Finish
  <2>2. n \in Nat \ {0} /\ DOMAIN messages = 1 .. n BY <2>1 DEF MessagesInv
  <2>3. /\ messages' \in Seq(Messages) /\ Len(messages') = n - 1
        /\ \A i \in 1 .. n - 1 : messages'[i] = messages[i]
    BY <2>1, <2>2 DEF MessagesInv
  <2>4. DOMAIN messages' = 1 .. n - 1 BY <2>2, <2>3
  <2>5. WrapperFindsProc' BY <2>2, <2>3, <2>4, ProcFacts DEF MessagesInv, WrapperFindsProc
  <2>6. ~Saved' => Unwrapped'
    BY <1>1, <2>2, <2>3, <2>4 DEF MessagesInv, Unwrapped, Saved
  <2> QED BY <2>2, <2>3, <2>5, <2>6, ProcAssumption DEF MessagesInv
<1> QED BY <1>2, <1>3, <1>4, <1>5 DEF Deliver

LEMMA NextKeepsMessages ==
  Foreign # "any" /\ CallsInv /\ MessagesInv /\ [Next]_vars => MessagesInv'
<1> SUFFICES ASSUME Foreign # "any", CallsInv, MessagesInv, [Next]_vars PROVE MessagesInv'
  OBVIOUS
<1>1. CASE UNCHANGED vars
  BY <1>1 DEF vars, MessagesInv, WrapperFindsProc, Saved, Unwrapped
<1>2. CASE CreateAnsi
  <2>1. Saved' /\ messages' = messages BY <1>2, ProcFacts DEF CreateAnsi, Saved, CallsInv
  <2> QED BY <2>1, QuietKeepsMessages
<1>3. CASE CreateNative
  BY <1>3, QuietKeepsMessages DEF CreateNative, MessagesInv, Saved, Unwrapped
<1>4. ASSUME NEW t \in Threads, NEW p \in AnsiProcs, Subclass(t, p) \/ Restore(t, p)
      PROVE  MessagesInv'
  <2>1. p \in AppProcs /\ p \in Procs BY DEF AppProcs, Procs
  <2>2. CASE Subclass(t, p) BY <2>1, <2>2, CallKeepsMessages, ProcFacts DEF Subclass
  <2>3. CASE Restore(t, p)
    <3>1. beneath[p] \in Procs BY <2>1, <2>3 DEF Restore, Installed, CallsInv
    <3>2. ~Saved => beneath[p] # WindowProcW BY <2>1 DEF MessagesInv, Unwrapped
    <3> QED BY <2>3, <3>1, <3>2, CallKeepsMessages DEF Restore
  <2> QED BY <1>4, <2>2, <2>3
<1>5. ASSUME NEW t \in Threads, SetWindowLongA(t) PROVE MessagesInv'
  BY <1>4, <1>5, SetKeepsMessages DEF SetWindowLongA
<1> QED BY <1>1, <1>2, <1>3, <1>5, WideKeepsMessages, DeliverKeepsMessages DEF Next

(* As long as other threads set procedures only on wrapped windows, every    *)
(* message that reaches the wrapper finds a saved procedure to call, for any *)
(* procedures and any depth of nested messages (WindowProcW, GetWindowDataA  *)
(* and the order of InitUnicodeProc's two steps).                            *)
THEOREM WrapperAlwaysFindsProc == Foreign # "any" => (Spec => []WrapperFindsProc)
<1> SUFFICES ASSUME Foreign # "any" PROVE Spec => []WrapperFindsProc
  OBVIOUS
<1>1. Init => CallsInv /\ MessagesInv BY InitCalls, InitMessages
<1>2. CallsInv /\ MessagesInv /\ [Next]_vars => CallsInv' /\ MessagesInv'
  BY NextKeepsCalls, NextKeepsMessages
<1>3. MessagesInv => WrapperFindsProc BY DEF MessagesInv
<1> QED BY <1>1, <1>2, <1>3, PTL DEF Spec

(* The state has its type under the same condition.                          *)
THEOREM ProcsTypeOK == Foreign # "any" => (Spec => []TypeOK)
<1> SUFFICES ASSUME Foreign # "any" PROVE Spec => []TypeOK
  OBVIOUS
<1>1. Init => CallsInv /\ MessagesInv BY InitCalls, InitMessages
<1>2. CallsInv /\ MessagesInv /\ [Next]_vars => CallsInv' /\ MessagesInv'
  BY NextKeepsCalls, NextKeepsMessages
<1>3. CallsInv /\ MessagesInv => TypeOK
  BY ProcFacts DEF CallsInv, MessagesInv, TypeOK
<1> QED BY <1>1, <1>2, <1>3, PTL DEF Spec

-----------------------------------------------------------------------------
(* A procedure anything names has been installed or is a window class's,     *)
(* apart from the one an A call is just setting.                             *)
Settled(p) == p \in AppProcs => p \in ClassProcs \/ Installed(p)

OriginInv ==
  /\ Settled(native) \/ calls[Owner].step = "wrap"
  /\ Settled(property)
  /\ \A p \in AppProcs : Settled(beneath[p])
  /\ \A t \in Threads : calls[t].step # "none" =>
       Settled(calls[t].old) /\ (calls[t].new \in AnsiProcs \/ Settled(calls[t].new))
  /\ \A i \in DOMAIN messages : Settled(messages[i].at) /\ \A q \in messages[i].seen : Settled(q)

(* The procedures behind the wrapper: nothing leads from them back to it.    *)
Inner(inner) ==
  /\ inner \in SUBSET AppProcs /\ AnsiProcs \subseteq inner
  /\ \A p \in inner : beneath[p] \in inner \cup {Null}
  /\ IF Saved THEN property \in inner ELSE inner = AppProcs
  /\ \A t \in Threads : /\ calls[t].step # "none" => calls[t].new \in inner
                        /\ calls[t].step \in {"store", "wrap", "save"} => calls[t].old \in inner

(* An order in which the procedures were installed.                          *)
Ranked(rank) ==
  /\ rank \in [AppProcs -> Nat]
  /\ \A p \in AppProcs : beneath[p] \in AppProcs => rank[beneath[p]] < rank[p]

(* A message goes down the ranks in front of the wrapper and behind it.      *)
GoesDown(m, rank, inner) ==
  /\ m.at \notin inner => m.seen \subseteq AppProcs \ inner
  /\ \A q \in m.seen \cap AppProcs :
       m.at \in AppProcs /\ (q \in inner <=> m.at \in inner) => rank[m.at] < rank[q]

AllGoDown(rank, inner) == \A i \in DOMAIN messages : GoesDown(messages[i], rank, inner)

OrderInv ==
  \E rank \in [AppProcs -> Nat], inner \in SUBSET AppProcs :
    Inner(inner) /\ Ranked(rank) /\ AllGoDown(rank, inner)

LEMMA OrderForbidsCycles == MessagesInv /\ OrderInv => EachOnce
<1> SUFFICES ASSUME MessagesInv, OrderInv, NEW i \in DOMAIN messages, messages[i].at \in messages[i].seen
             PROVE  FALSE
  BY DEF EachOnce
<1>1. PICK rank \in [AppProcs -> Nat], inner \in SUBSET AppProcs : GoesDown(messages[i], rank, inner)
  BY DEF OrderInv, AllGoDown
<1>2. messages[i].at \in Procs
  <2>1. messages[i] \in Messages BY DEF MessagesInv
  <2> QED BY <2>1 DEF MessagesInv, WrapperFindsProc, Messages
<1>3. CASE messages[i].at \in AppProcs
  <2>1. rank[messages[i].at] < rank[messages[i].at] BY <1>1, <1>3 DEF GoesDown
  <2>2. rank[messages[i].at] \in Nat BY <1>3
  <2> QED BY <2>1, <2>2
<1>4. CASE messages[i].at = WindowProcW
  <2>1. messages[i].at \notin AppProcs /\ messages[i].at \notin inner BY <1>4, ProcFacts
  <2> QED BY <1>1, <2>1 DEF GoesDown
<1> QED BY <1>2, <1>3, <1>4 DEF Procs

LEMMA InitOrder == Init => OriginInv /\ OrderInv
<1> SUFFICES ASSUME Init PROVE OriginInv /\ OrderInv
  OBVIOUS
<1>1. /\ native \in ClassProcs /\ property = Null /\ messages = << >>
      /\ \A p \in AppProcs : beneath[p] = Null
      /\ \A t \in Threads : calls[t].step = "none"
  BY DEF Init, NoCall
<1>2. Null \notin AppProcs BY ProcFacts DEF Procs
<1>3. OriginInv BY <1>1, <1>2 DEF OriginInv, Settled
<1> DEFINE rank == [p \in AppProcs |-> 0]
<1>4. Inner(AppProcs) BY <1>1 DEF Inner, Saved, AppProcs
<1>5. rank \in [AppProcs -> Nat] /\ Ranked(rank) BY <1>1, <1>2 DEF Ranked
<1>6. AllGoDown(rank, AppProcs) BY <1>1 DEF AllGoDown
<1> QED BY <1>3, <1>4, <1>5, <1>6 DEF OrderInv

(* A procedure is settled after a step.                                      *)
SettledThen(p) == p \in AppProcs => p \in ClassProcs \/ beneath'[p] # Null

(* Procedures only become settled.                                           *)
LEMMA OriginKept ==
  ASSUME OriginInv, \A q \in AppProcs : Installed(q) => beneath'[q] # Null, messages' = messages,
         SettledThen(native') \/ calls'[Owner].step = "wrap", SettledThen(property'),
         \A p \in AppProcs : beneath'[p] = beneath[p] \/ SettledThen(beneath'[p]),
         \A s \in Threads : calls'[s].step # "none" =>
           \/ calls[s].step # "none" /\ calls'[s].new = calls[s].new /\ calls'[s].old = calls[s].old
           \/ SettledThen(calls'[s].old) /\ (calls'[s].new \in AnsiProcs \/ SettledThen(calls'[s].new))
  PROVE  OriginInv'
<1>1. ASSUME NEW p, Settled(p) PROVE SettledThen(p) BY <1>1 DEF Settled, SettledThen
<1>2. \A p \in AppProcs : SettledThen(beneath'[p]) BY <1>1 DEF OriginInv
<1>3. \A s \in Threads : calls'[s].step # "none" =>
        SettledThen(calls'[s].old) /\ (calls'[s].new \in AnsiProcs \/ SettledThen(calls'[s].new))
  BY <1>1 DEF OriginInv
<1>4. \A i \in DOMAIN messages :
        SettledThen(messages[i].at) /\ \A q \in messages[i].seen : SettledThen(q)
  BY <1>1 DEF OriginInv
<1> QED BY <1>2, <1>3, <1>4 DEF OriginInv, Settled, SettledThen, Installed

(* What a new procedure on top of the others does to the ranks.              *)
LEMMA NewOnTop ==
  ASSUME CallsInv, OriginInv, NEW rank, Ranked(rank), NEW p \in AppProcs, ~Settled(p), NEW b, Settled(b),
         beneath' = [beneath EXCEPT ![p] = b]
  PROVE  \E r \in [AppProcs -> Nat] : Ranked(r)' /\ \A q \in AppProcs : q # p => r[q] = rank[q]
<1> DEFINE top == IF b \in AppProcs THEN rank[b] + 1 ELSE 0
           r == [rank EXCEPT ![p] = top]
<1>1. rank \in [AppProcs -> Nat] /\ top \in Nat BY DEF Ranked
<1>2. r \in [AppProcs -> Nat] /\ r[p] = top /\ \A q \in AppProcs : q # p => r[q] = rank[q]
  BY <1>1
<1> HIDE DEF r
<1>3. b # p OBVIOUS
<1>4. ASSUME NEW q \in AppProcs, beneath'[q] \in AppProcs PROVE r[beneath'[q]] < r[q]
  <2>1. CASE q = p
    <3>1. beneath'[q] = b BY <2>1 DEF CallsInv
    <3> QED BY <1>1, <1>2, <1>3, <1>4, <2>1, <3>1
  <2>2. CASE q # p
    <3>1. beneath'[q] = beneath[q] BY <2>2 DEF CallsInv
    <3>2. beneath[q] # p BY DEF OriginInv
    <3> QED BY <1>2, <1>4, <2>2, <3>1, <3>2 DEF Ranked
  <2> QED BY <2>1, <2>2
<1>5. Ranked(r)' BY <1>2, <1>4 DEF Ranked
<1> QED BY <1>2, <1>5

(* A procedure nobody names does not matter to the messages.                 *)
LEMMA NewInNoMessage ==
  ASSUME MessagesInv, OriginInv, NEW rank, NEW r, NEW inner \in SUBSET AppProcs, NEW outer \in SUBSET AppProcs,
         NEW p, ~Settled(p), messages' = messages, AllGoDown(rank, inner),
         \A q \in AppProcs : q # p => r[q] = rank[q] /\ (q \in outer <=> q \in inner),
         outer \subseteq inner
  PROVE  AllGoDown(r, outer)'
<1> SUFFICES ASSUME NEW i \in DOMAIN messages PROVE GoesDown(messages[i], r, outer)
  BY DEF AllGoDown, GoesDown
<1> DEFINE m == messages[i]
<1>1. m.at # p /\ \A q \in m.seen : q # p BY DEF OriginInv
<1>2. GoesDown(m, rank, inner) BY DEF AllGoDown
<1> QED BY <1>1, <1>2 DEF GoesDown

(* The procedure a call has set is installed when the call returns.          *)
LEMMA ReturnsKeepsOrder ==
  ASSUME CallsInv, MessagesInv, OriginInv, OrderInv, NEW t \in Threads,
         calls[t].step \in {"store", "save"}, property' = calls[t].new,
         Returns(t, calls[t].old), UNCHANGED << created, native, messages >>
  PROVE  OriginInv' /\ OrderInv'
<1> DEFINE new == calls[t].new
           old == calls[t].old
<1>1. /\ calls' = [calls EXCEPT ![t] = NoCall] /\ UNCHANGED << native, messages >>
      /\ beneath' = IF new \in AnsiProcs \ ClassProcs /\ ~Installed(new)
                    THEN [beneath EXCEPT ![new] = old] ELSE beneath
  BY DEF Returns
<1>2. new \in Procs /\ old \in Procs /\ Settled(old) /\ (new \in AnsiProcs \/ Settled(new))
  BY DEF CallsInv, OriginInv
<1>3. /\ \A s \in Threads : calls'[s].step # "none" => s # t /\ calls'[s] = calls[s]
      /\ calls'[t].step = "none"
  BY <1>1 DEF CallsInv, NoCall
<1>4. AnsiProcs \subseteq AppProcs BY DEF AppProcs
<1>5. \A q \in AppProcs : Installed(q) => beneath'[q] # Null
  BY <1>1, <1>2, ProcFacts DEF CallsInv, Installed
<1>6. \A p : Settled(p) => SettledThen(p) BY <1>5 DEF Settled, SettledThen
<1>7. SettledThen(new)
  <2>1. CASE new \in AnsiProcs \ ClassProcs /\ ~Installed(new)
    BY <1>1, <1>2, <1>4, <2>1, ProcFacts DEF CallsInv, Installed, SettledThen
  <2>2. CASE ~(new \in AnsiProcs \ ClassProcs /\ ~Installed(new))
    <3>1. Settled(new) BY <1>2, <2>2 DEF Settled
    <3> QED BY <1>6, <3>1
  <2> QED BY <2>1, <2>2
<1>8. SettledThen(native') \/ calls'[Owner].step = "wrap"
  <2>1. CASE Settled(native) BY <1>1, <1>6, <2>1
  <2>2. CASE calls[Owner].step = "wrap" BY <1>1, <2>2, ProcFacts DEF CallsInv
  <2> QED BY <2>1, <2>2 DEF OriginInv
<1>9. \A p \in AppProcs : beneath'[p] = beneath[p] \/ SettledThen(beneath'[p])
  BY <1>1, <1>2, <1>6 DEF CallsInv
<1>11. OriginInv' BY <1>1, <1>3, <1>5, <1>7, <1>8, <1>9, OriginKept
<1>12. PICK rank \in [AppProcs -> Nat], inner \in SUBSET AppProcs :
         Inner(inner) /\ Ranked(rank) /\ AllGoDown(rank, inner)
  BY DEF OrderInv
<1>13. new \in inner /\ old \in inner BY <1>12 DEF Inner
<1>14. Inner(inner)'
  <2>1. Saved' BY <1>2, ProcFacts DEF Saved
  <2>2. \A p \in inner : beneath'[p] \in inner \cup {Null}
    BY <1>1, <1>12, <1>13 DEF Inner, CallsInv
  <2>3. property' \in inner BY <1>13
  <2> QED BY <1>3, <1>12, <2>1, <2>2, <2>3 DEF Inner
<1>15. CASE new \in AnsiProcs \ ClassProcs /\ ~Installed(new)
  <2>1. new \in AppProcs /\ ~Settled(new) BY <1>4, <1>15 DEF Settled
  <2>2. PICK r \in [AppProcs -> Nat] : Ranked(r)' /\ \A q \in AppProcs : q # new => r[q] = rank[q]
    BY <1>1, <1>2, <1>12, <1>15, <2>1, NewOnTop
  <2>3. AllGoDown(r, inner)' BY <1>12, <2>1, <2>2, NewInNoMessage
  <2>4. OrderInv' BY <1>14, <2>2, <2>3 DEF OrderInv
  <2> QED BY <1>11, <2>4
<1>16. CASE ~(new \in AnsiProcs \ ClassProcs /\ ~Installed(new))
  <2>1. beneath' = beneath BY <1>1, <1>16
  <2>2. Ranked(rank)' /\ AllGoDown(rank, inner)' BY <1>12, <2>1 DEF Ranked, AllGoDown, GoesDown
  <2>3. OrderInv' BY <1>14, <2>2 DEF OrderInv
  <2> QED BY <1>11, <2>3
<1> QED BY <1>15, <1>16

(* The steps that leave what is beneath the procedures and the messages      *)
(* alone keep the order if what they set is behind the wrapper.              *)
LEMMA SetsInside ==
  ASSUME OrderInv, UNCHANGED << beneath, messages >>,
         \A inner \in SUBSET AppProcs : Inner(inner) => Inner(inner)'
  PROVE  OrderInv'
<1>1. PICK rank \in [AppProcs -> Nat], inner \in SUBSET AppProcs :
        Inner(inner) /\ Ranked(rank) /\ AllGoDown(rank, inner)
  BY DEF OrderInv
<1>2. Inner(inner)' /\ Ranked(rank)' /\ AllGoDown(rank, inner)'
  BY <1>1 DEF Ranked, AllGoDown, GoesDown
<1> QED BY <1>2 DEF OrderInv

LEMMA CallKeepsOrder ==
  ASSUME CallsInv, OriginInv, OrderInv, NEW t \in Threads, NEW new,
         new \in AnsiProcs \/ (new \in Procs /\ Settled(new)),
         new \in AnsiProcs \/ \E p \in AnsiProcs \cup {LepGetWindowLongA} : p \in AppProcs /\ new = beneath[p],
         ~Saved => new \in AppProcs,
         CallSetWindowLongA(t, new)
  PROVE  OriginInv' /\ OrderInv'
<1>1. /\ UNCHANGED << native, property, beneath, messages >> /\ calls[t].step = "none"
      /\ calls' = [calls EXCEPT ![t] = [step |-> IF Saved THEN "store" ELSE "native",
                                        new |-> new, old |-> property]]
  BY DEF CallSetWindowLongA, Free
<1>2. /\ \A s \in Threads : s # t => calls'[s] = calls[s]
      /\ calls'[t].new = new /\ calls'[t].old = property
      /\ calls'[t].step = IF Saved THEN "store" ELSE "native"
  BY <1>1 DEF CallsInv
<1>3. calls[Owner].step = "wrap" => calls'[Owner].step = "wrap" BY <1>1, <1>2, ProcFacts
<1>4. OriginInv' BY <1>1, <1>2, <1>3 DEF OriginInv, Settled, Installed
<1>5. ASSUME NEW inner \in SUBSET AppProcs, Inner(inner) PROVE Inner(inner)'
  <2>1. new \in inner
    <3>1. CASE new \in AnsiProcs BY <1>5, <3>1 DEF Inner
    <3>2. CASE ~Saved BY <1>5, <3>2 DEF Inner
    <3>3. CASE Saved /\ new \notin AnsiProcs
      <4>1. PICK p \in AnsiProcs \cup {property} : new = beneath[p] BY <3>3 DEF LepGetWindowLongA
      <4>2. p \in inner BY <1>5, <3>3 DEF Inner
      <4> QED BY <1>5, <3>3, <4>1, <4>2, ProcFacts DEF Inner
    <3> QED BY <3>1, <3>2, <3>3
  <2>2. Saved => property \in inner BY <1>5 DEF Inner
  <2> QED BY <1>1, <1>2, <1>5, <2>1, <2>2 DEF Inner, Saved
<1>6. OrderInv' BY <1>1, <1>5, SetsInside
<1> QED BY <1>4, <1>6

LEMMA SetKeepsOrder ==
  ASSUME CallsInv, MessagesInv, OriginInv, OrderInv, NEW t \in Threads, SetNative(t) \/ Wrap(t)
  PROVE  OriginInv' /\ OrderInv'
<1>1. CASE SetNative(t)
  <2>1. /\ native' = calls[t].new /\ UNCHANGED << property, beneath, messages >>
        /\ t = Owner /\ ~Saved /\ calls[t].step = "native" /\ native \in Procs
    BY <1>1 DEF SetNative, CallsInv
  <2>2. /\ \A s \in Threads : s # t => calls'[s] = calls[s]
        /\ calls'[t].new = calls[t].new /\ calls'[t].old = native /\ calls'[t].step = "wrap"
    BY <1>1, SetNativeCall DEF CallsInv
  <2>3. native \in AppProcs BY <2>1 DEF MessagesInv, Unwrapped, Procs
  <2>4. OriginInv' BY <2>1, <2>2 DEF OriginInv, Settled, Installed
  <2>5. ASSUME NEW inner \in SUBSET AppProcs, Inner(inner) PROVE Inner(inner)'
    BY <2>1, <2>2, <2>3, <2>5 DEF Inner, Saved
  <2> QED BY <2>1, <2>4, <2>5, SetsInside
<1>2. CASE Wrap(t)
  <2>1. /\ calls' = [calls EXCEPT ![t].step = "save"] /\ UNCHANGED << property, beneath, messages >>
        /\ native' = WindowProcW /\ calls[t].step = "wrap"
    BY <1>2 DEF Wrap
  <2>2. /\ \A s \in Threads : calls'[s].new = calls[s].new /\ calls'[s].old = calls[s].old
        /\ \A s \in Threads : s # t => calls'[s] = calls[s]
        /\ calls'[t].step = "save"
    BY <2>1 DEF CallsInv, Calls
  <2>3. Settled(native)' BY <2>1, ProcFacts DEF Settled
  <2>4. OriginInv' BY <2>1, <2>2, <2>3 DEF OriginInv, Settled, Installed
  <2>5. ASSUME NEW inner \in SUBSET AppProcs, Inner(inner) PROVE Inner(inner)'
    BY <2>1, <2>2, <2>5 DEF Inner, Saved
  <2> QED BY <2>1, <2>4, <2>5, SetsInside
<1> QED BY <1>1, <1>2

LEMMA WideKeepsOrder ==
  ASSUME Foreign # "any", CallsInv, MessagesInv, OriginInv, OrderInv, NEW t \in Threads, SetWindowLongW(t)
  PROVE  OriginInv' /\ OrderInv'
<1>1. PICK p \in WideProcs : SubclassWide(t, p) \/ RestoreWide(t, p) BY DEF SetWindowLongW
<1>2. p \in AppProcs /\ p \notin AnsiProcs BY ProcAssumption DEF AppProcs
<1>3. CASE RestoreWide(t, p)
  <2>1. native' = beneath[p] /\ UNCHANGED << property, beneath, calls, messages >>
    BY <1>3 DEF RestoreWide
  <2>2. OriginInv' BY <1>2, <2>1 DEF OriginInv, Settled, Installed
  <2>3. ASSUME NEW inner \in SUBSET AppProcs, Inner(inner) PROVE Inner(inner)'
    BY <2>1, <2>3 DEF Inner, Saved
  <2> QED BY <2>1, <2>2, <2>3, SetsInside
<1>4. CASE SubclassWide(t, p)
  <2>1. /\ native' = p /\ UNCHANGED << property, calls, messages >>
        /\ beneath' = [beneath EXCEPT ![p] = native]
        /\ ~Settled(p) /\ (Saved \/ (t = Owner /\ calls[Owner].step = "none"))
    BY <1>2, <1>4, ProcAssumption DEF SubclassWide, Free, Settled
  <2>2. ~Saved => native \in AppProcs
    BY <2>1 DEF CallsInv, MessagesInv, Unwrapped, Procs
  <2>3. Settled(native)
    <3>1. calls[Owner].step # "wrap" BY <2>1, ProcFacts DEF CallsInv
    <3> QED BY <3>1 DEF OriginInv
  <2>4. native # Null BY ProcFacts DEF CallsInv
  <2>5. OriginInv'
    <3>1. \A q \in AppProcs : Installed(q) => beneath'[q] # Null
      BY <2>1, <2>4 DEF CallsInv, Installed
    <3>2. \A q : Settled(q) => SettledThen(q) BY <3>1 DEF Settled, SettledThen
    <3>3. SettledThen(native') BY <1>2, <2>1, <2>4 DEF CallsInv, SettledThen
    <3>4. \A q \in AppProcs : beneath'[q] = beneath[q] \/ SettledThen(beneath'[q])
      BY <2>1, <2>3, <3>2 DEF CallsInv
    <3>5. SettledThen(property') BY <2>1, <3>2 DEF OriginInv
    <3> QED BY <2>1, <3>1, <3>3, <3>4, <3>5, OriginKept
  <2>6. PICK rank \in [AppProcs -> Nat], inner \in SUBSET AppProcs :
          Inner(inner) /\ Ranked(rank) /\ AllGoDown(rank, inner)
    BY DEF OrderInv
  <2>7. PICK r \in [AppProcs -> Nat] : Ranked(r)' /\ \A q \in AppProcs : q # p => r[q] = rank[q]
    BY <1>2, <2>1, <2>3, <2>6, NewOnTop
  <2> PICK outer \in SUBSET AppProcs : outer = IF Saved THEN inner \ {p} ELSE inner
    OBVIOUS
  <2>8. outer \subseteq inner /\ \A q \in AppProcs : q # p => (q \in outer <=> q \in inner)
    OBVIOUS
  <2>9. Inner(outer)'
    <3>1. CASE ~Saved
      BY <2>1, <2>2, <2>6, <3>1 DEF Inner, Saved, CallsInv
    <3>2. CASE Saved
      <4>1. \A q \in AppProcs : q # p => beneath'[q] = beneath[q] /\ beneath[q] # p
        BY <2>1 DEF CallsInv, OriginInv
      <4>2. property # p BY <2>1 DEF OriginInv
      <4>3. \A s \in Threads : calls[s].step # "none" => calls[s].new # p /\ calls[s].old # p
        BY <1>2, <2>1 DEF OriginInv
      <4>4. \A q \in outer : beneath'[q] \in outer \cup {Null}
        BY <2>6, <3>2, <4>1 DEF Inner
      <4> QED BY <1>2, <2>1, <2>6, <3>2, <4>2, <4>3, <4>4 DEF Inner, Saved
    <3> QED BY <3>1, <3>2
  <2>10. AllGoDown(r, outer)' BY <2>1, <2>6, <2>7, <2>8, NewInNoMessage
  <2>11. OrderInv' BY <2>7, <2>8, <2>9, <2>10 DEF OrderInv
  <2> QED BY <2>5, <2>11
<1> QED BY <1>1, <1>3, <1>4

LEMMA CreationKeepsOrder ==
  ASSUME CallsInv, MessagesInv, OriginInv, OrderInv, CreateAnsi \/ CreateNative
  PROVE  OriginInv' /\ OrderInv'
<1>1. /\ ~created /\ UNCHANGED << beneath, calls, messages >>
      /\ (property' = native /\ native' = WindowProcW) \/ UNCHANGED << native, property >>
  BY DEF CreateAnsi, CreateNative
<1>2. property = Null /\ \A t \in Threads : calls[t].step = "none" BY <1>1 DEF CallsInv, NoCall
<1>3. native \in AppProcs
  BY <1>2, ProcFacts DEF CallsInv, MessagesInv, Unwrapped, Saved, Procs
<1>4. Settled(native) /\ Settled(WindowProcW) BY <1>2, ProcFacts DEF OriginInv, Settled
<1>5. OriginInv' BY <1>1, <1>4 DEF OriginInv, Settled, Installed
<1>6. ASSUME NEW inner \in SUBSET AppProcs, Inner(inner) PROVE Inner(inner)'
  <2>1. inner = AppProcs BY <1>2, <1>6 DEF Inner, Saved
  <2> QED BY <1>1, <1>2, <1>3, <1>6, <2>1 DEF Inner, Saved
<1> QED BY <1>1, <1>5, <1>6, SetsInside

(* What the delivery of messages changes in one of them.                     *)
LEMMA Delivered ==
  ASSUME CallsInv, MessagesInv, Deliver, NEW i \in DOMAIN messages'
  PROVE  \/ i \in DOMAIN messages /\ messages'[i] = messages[i]
         \/ messages'[i].at = native /\ messages'[i].seen = {} /\ calls[Owner].step = "none"
         \/ /\ i \in DOMAIN messages
            /\ messages'[i].seen = messages[i].seen \cup {messages[i].at}
            /\ \/ Saved /\ messages[i].at = WindowProcW /\ messages'[i].at = property
               \/ /\ messages[i].at \in AppProcs /\ Installed(messages[i].at)
                  /\ messages'[i].at = beneath[messages[i].at]
<1> DEFINE n == Len(messages)
<1>1. n \in Nat /\ DOMAIN messages = 1 .. n /\ messages \in Seq(Messages) BY DEF MessagesInv
<1>2. CASE Dispatch
  <2> DEFINE m == [at |-> native, seen |-> {}, wrapped |-> Saved]
  <2>1. messages' = Append(messages, m) /\ calls[Owner].step = "none" BY <1>2 DEF Dispatch
  <2>2. DOMAIN messages' = 1 .. n + 1 /\ messages'[n + 1] = m /\ \A k \in 1 .. n : messages'[k] = messages[k]
    BY <1>1, <2>1
  <2>3. m.at = native /\ m.seen = {} OBVIOUS
  <2> HIDE DEF m
  <2> QED BY <1>1, <2>1, <2>2, <2>3
<1>3. ASSUME NEW p, HandsTo(p), messages # << >>
      PROVE  /\ DOMAIN messages' = 1 .. n /\ \A k \in 1 .. n : k # n => messages'[k] = messages[k]
             /\ messages'[n].at = p /\ messages'[n].seen = messages[n].seen \cup {messages[n].at}
  <2> DEFINE s == messages[n].seen \cup {messages[n].at}
  <2>1. messages' = [messages EXCEPT ![n] = [messages[n] EXCEPT !.at = p, !.seen = s]]
    BY <1>3 DEF HandsTo, Top
  <2>2. n \in 1 .. n /\ messages[n] \in Messages BY <1>1, <1>3
  <2>3. /\ [messages[n] EXCEPT !.at = p, !.seen = s].at = p
        /\ [messages[n] EXCEPT !.at = p, !.seen = s].seen = s
    BY <2>2 DEF Messages
  <2> HIDE DEF s
  <2>4. DOMAIN messages' = 1 .. n /\ messages'[n] = [messages[n] EXCEPT !.at = p, !.seen = s]
        /\ \A k \in 1 .. n : k # n => messages'[k] = messages[k]
    BY <1>1, <2>1, <2>2
  <2>5. messages'[n].at = p /\ messages'[n].seen = s BY <2>3, <2>4
  <2> QED BY <2>4, <2>5 DEF s
<1>4. CASE CallSaved
  <2>1. messages # << >> /\ messages[n].at = WindowProcW /\ HandsTo(property) BY <1>4 DEF CallSaved, Top
  <2>2. n \in DOMAIN messages BY <1>1, <2>1
  <2>3. Saved BY <2>1, <2>2 DEF MessagesInv, Unwrapped
  <2> QED BY <1>1, <1>3, <2>1, <2>3
<1>5. CASE CallBeneath
  <2>1. /\ messages # << >> /\ messages[n].at \in AppProcs /\ Installed(messages[n].at)
        /\ HandsTo(beneath[messages[n].at])
    BY <1>5 DEF CallBeneath, Top
  <2> QED BY <1>1, <1>3, <2>1
<1>6. CASE Finish
  <2>1. messages' = SubSeq(messages, 1, n - 1) /\ messages # << >> BY <1>6 DEF Finish
  <2>2. DOMAIN messages' = 1 .. n - 1 /\ \A k \in 1 .. n - 1 : messages'[k] = messages[k]
    BY <1>1, <2>1
  <2> QED BY <1>1, <2>2
<1> QED BY <1>2, <1>4, <1>5, <1>6 DEF Deliver

LEMMA DeliverKeepsOrder ==
  ASSUME CallsInv, MessagesInv, OriginInv, OrderInv, Deliver
  PROVE  OriginInv' /\ OrderInv'
<1>1. UNCHANGED << native, property, beneath, calls >>
  BY DEF Deliver, Dispatch, CallSaved, CallBeneath, HandsTo, Finish
<1>2. ASSUME NEW i \in DOMAIN messages'
      PROVE  Settled(messages'[i].at) /\ \A q \in messages'[i].seen : Settled(q)
  <2>1. CASE i \in DOMAIN messages /\ messages'[i] = messages[i] BY <2>1 DEF OriginInv
  <2>2. CASE messages'[i].at = native /\ messages'[i].seen = {} /\ calls[Owner].step = "none"
    BY <2>2 DEF OriginInv
  <2>3. CASE /\ i \in DOMAIN messages
             /\ messages'[i].seen = messages[i].seen \cup {messages[i].at}
             /\ messages'[i].at = property \/ (messages[i].at \in AppProcs /\ messages'[i].at = beneath[messages[i].at])
    BY <2>3 DEF OriginInv
  <2> QED BY <2>1, <2>2, <2>3, Delivered
<1>3. OriginInv'
  <2>1. \A i \in DOMAIN messages' : Settled(messages[i].at)' /\ \A q \in messages'[i].seen : Settled(q)'
    BY <1>1, <1>2 DEF Settled, Installed
  <2> QED BY <1>1, <2>1 DEF OriginInv, Settled, Installed
<1>4. PICK rank \in [AppProcs -> Nat], inner \in SUBSET AppProcs :
        Inner(inner) /\ Ranked(rank) /\ AllGoDown(rank, inner)
  BY DEF OrderInv
<1>5. ASSUME NEW i \in DOMAIN messages' PROVE GoesDown(messages'[i], rank, inner)
  <2> DEFINE m == messages[i]
             d == messages'[i]
  <2>1. CASE i \in DOMAIN messages /\ d = m BY <1>4, <2>1 DEF AllGoDown
  <2>2. CASE d.seen = {} BY <2>2 DEF GoesDown
  <2>3. CASE /\ i \in DOMAIN messages /\ d.seen = m.seen \cup {m.at}
             /\ Saved /\ m.at = WindowProcW /\ d.at = property
    <3>1. m.seen \subseteq AppProcs \ inner BY <1>4, <2>3, ProcFacts DEF AllGoDown, GoesDown
    <3>2. d.at \in inner BY <1>4, <2>3 DEF Inner
    <3>3. \A q \in d.seen \cap AppProcs : q \notin inner BY <2>3, <3>1, ProcFacts
    <3> QED BY <3>2, <3>3 DEF GoesDown
  <2>4. CASE /\ i \in DOMAIN messages /\ d.seen = m.seen \cup {m.at}
             /\ m.at \in AppProcs /\ Installed(m.at) /\ d.at = beneath[m.at]
    <3>1. GoesDown(m, rank, inner) BY <1>4, <2>4 DEF AllGoDown
    <3>2. m.at \in inner => d.at \in inner BY <1>4, <2>4 DEF Inner, Installed
    <3>3. ASSUME d.at \notin inner PROVE d.seen \subseteq AppProcs \ inner
      BY <2>4, <3>1, <3>2, <3>3 DEF GoesDown
    <3>4. ASSUME NEW q \in d.seen \cap AppProcs, d.at \in AppProcs, q \in inner <=> d.at \in inner
          PROVE  rank[d.at] < rank[q]
      <4>1. rank[d.at] < rank[m.at] BY <1>4, <2>4, <3>4 DEF Ranked
      <4>2. CASE q = m.at BY <4>1, <4>2
      <4>3. CASE q \in m.seen
        <5>1. q \in inner <=> m.at \in inner BY <2>4, <3>1, <3>2, <3>4, <4>3 DEF GoesDown
        <5>2. rank[m.at] < rank[q] BY <2>4, <3>1, <3>4, <4>3, <5>1 DEF GoesDown
        <5>3. rank[d.at] \in Nat /\ rank[m.at] \in Nat /\ rank[q] \in Nat BY <2>4, <3>4
        <5> QED BY <4>1, <5>2, <5>3
      <4> QED BY <2>4, <3>4, <4>2, <4>3
    <3> QED BY <3>3, <3>4 DEF GoesDown
  <2> QED BY <2>1, <2>2, <2>3, <2>4, Delivered
<1>6. AllGoDown(rank, inner)' BY <1>5 DEF AllGoDown, GoesDown
<1>7. Inner(inner)' /\ Ranked(rank)' BY <1>1, <1>4 DEF Inner, Ranked, Saved
<1>8. OrderInv' BY <1>6, <1>7 DEF OrderInv
<1> QED BY <1>3, <1>8

LEMMA NextKeepsOrder ==
  ASSUME Foreign # "any", CallsInv, MessagesInv, OriginInv, OrderInv, [Next]_vars
  PROVE  OriginInv' /\ OrderInv'
<1>1. CASE UNCHANGED vars
  <2>1. UNCHANGED << native, property, beneath, calls, messages >> BY <1>1 DEF vars
  <2>2. OriginInv' BY <2>1 DEF OriginInv, Settled, Installed
  <2>3. OrderInv' BY <2>1, SetsInside DEF Inner, Saved
  <2> QED BY <2>2, <2>3
<1>2. ASSUME NEW t \in Threads, NEW p \in AnsiProcs, Subclass(t, p) PROVE OriginInv' /\ OrderInv'
  BY <1>2, CallKeepsOrder DEF Subclass, AppProcs
<1>3. ASSUME NEW t \in Threads, NEW p \in AnsiProcs, Restore(t, p) PROVE OriginInv' /\ OrderInv'
  <2>1. p \in AppProcs BY DEF AppProcs
  <2>2. /\ CallSetWindowLongA(t, beneath[p]) /\ LepGetWindowLongA = p
        /\ beneath[p] \in Procs /\ Settled(beneath[p])
    BY <1>3, <2>1 DEF Restore, Installed, CallsInv, OriginInv
  <2>3. ~Saved => beneath[p] \in AppProcs
    BY <2>1, <2>2 DEF MessagesInv, Unwrapped, Procs
  <2> QED BY <2>1, <2>2, <2>3, CallKeepsOrder
<1>4. ASSUME NEW t \in Threads, Store(t) \/ Save(t) PROVE OriginInv' /\ OrderInv'
  BY <1>4, ReturnsKeepsOrder DEF Store, Save
<1>5. ASSUME NEW t \in Threads, SetWindowLongA(t) PROVE OriginInv' /\ OrderInv'
  BY <1>2, <1>3, <1>4, <1>5, SetKeepsOrder DEF SetWindowLongA
<1> QED BY <1>1, <1>5, WideKeepsOrder, CreationKeepsOrder, DeliverKeepsOrder DEF Next

(* As long as other threads set procedures only on wrapped windows, no       *)
(* procedure gets one message twice, whatever the program subclasses and     *)
(* restores: the wrapper and the procedures beneath it form no cycle in      *)
(* which CallWindowProcA would recurse (WindowProcW,                         *)
(* LepSetWindowLongAWorker).                                                 *)
THEOREM NoProcedureTwice == Foreign # "any" => (Spec => []EachOnce)
<1> SUFFICES ASSUME Foreign # "any" PROVE Spec => []EachOnce
  OBVIOUS
<1> DEFINE IInv == CallsInv /\ MessagesInv /\ OriginInv /\ OrderInv
<1>1. Init => IInv BY InitCalls, InitMessages, InitOrder
<1>2. IInv /\ [Next]_vars => IInv'
  BY NextKeepsCalls, NextKeepsMessages, NextKeepsOrder
<1>3. IInv => EachOnce BY OrderForbidsCycles
<1> HIDE DEF IInv
<1> QED BY <1>1, <1>2, <1>3, PTL DEF Spec

-----------------------------------------------------------------------------
(* The refinement, with the owner's calls only.                              *)

OwnersOnly == /\ \A t \in Threads \ {Owner} : calls[t] = NoCall
              /\ calls[Owner].step = "store" => calls[Owner].old = property

LEMMA OwnersStay ==
  ASSUME Foreign = "never", CallsInv, OwnersOnly, [Next]_vars
  PROVE  OwnersOnly'
<1> USE ProcFacts DEF CallsInv
<1>1. \A t \in Threads \ {Owner} : calls[t].step = "none" BY DEF OwnersOnly, NoCall
<1>2. CASE UNCHANGED << calls, property >> BY <1>2 DEF OwnersOnly
<1>3. ASSUME NEW t \in Threads, NEW p, CallSetWindowLongA(t, p) PROVE OwnersOnly'
  <2>1. /\ calls' = [calls EXCEPT ![Owner] =
                       [step |-> IF Saved THEN "store" ELSE "native", new |-> p, old |-> property]]
        /\ property' = property
    BY <1>3 DEF CallSetWindowLongA, Free
  <2> QED BY <2>1 DEF OwnersOnly
<1>4. ASSUME NEW t \in Threads, Store(t) \/ SetNative(t) \/ Wrap(t) \/ Save(t)
      PROVE  OwnersOnly'
  <2>1. t = Owner BY <1>1, <1>4 DEF Store, SetNative, Wrap, Save
  <2>2. calls'[Owner].step \in {"none", "wrap", "save"}
    BY <1>4, <2>1 DEF Store, SetNative, Wrap, Save, Returns, Calls, NoCall
  <2>3. \A s \in Threads \ {Owner} : calls'[s] = calls[s]
    BY <1>4, <2>1 DEF Store, SetNative, Wrap, Save, Returns
  <2> QED BY <2>2, <2>3 DEF OwnersOnly
<1>5. ASSUME NEW t \in Threads, SetWindowLongA(t) PROVE OwnersOnly'
  BY <1>3, <1>4, <1>5 DEF SetWindowLongA, Subclass, Restore
<1>6. CASE UNCHANGED vars BY <1>2, <1>6 DEF vars
<1>7. CASE CreateAnsi
  <2>1. calls'[Owner].step = "none" /\ calls' = calls BY <1>7 DEF CreateAnsi, NoCall
  <2> QED BY <2>1 DEF OwnersOnly
<1>8. ASSUME CreateNative \/ Deliver \/ \E t \in Threads : SetWindowLongW(t)
      PROVE  UNCHANGED << calls, property >>
  BY <1>8 DEF CreateNative, Deliver, Dispatch, CallSaved, CallBeneath, HandsTo, Finish,
              SetWindowLongW, SubclassWide, RestoreWide
<1> QED BY <1>2, <1>5, <1>6, <1>7, <1>8 DEF Next

(* What AnsiWindow sees of the window, by the step of the owner's call.      *)
Wrapping == calls[Owner].step \in {"wrap", "save"}

ViewProc     == IF Saved THEN property ELSE IF Wrapping THEN calls[Owner].new ELSE native
ViewReturned == IF Wrapping THEN calls[Owner].old ELSE returned

LEMMA ViewNow ==
  ASSUME OwnersOnly
  PROVE  /\ InWrap # {} <=> Wrapping
         /\ InWrap # {} => Wrapper = Owner
<1>1. \A t \in Threads : t # Owner => calls[t].step = "none" BY DEF OwnersOnly, NoCall
<1>2. \A t \in Threads : t \in InWrap <=> (t = Owner /\ Wrapping)
  BY <1>1 DEF InWrap, Wrapping
<1>3. ASSUME InWrap # {} PROVE Wrapper \in InWrap BY <1>3 DEF Wrapper
<1>4. InWrap \subseteq Threads BY DEF InWrap
<1> QED BY <1>2, <1>3, <1>4, ProcFacts

LEMMA ViewNext ==
  ASSUME OwnersOnly'
  PROVE  /\ InWrap' # {} <=> Wrapping'
         /\ InWrap' # {} => Wrapper' = Owner
<1>1. \A t \in Threads : t # Owner => calls'[t].step = "none" BY DEF OwnersOnly, NoCall
<1>2. \A t \in Threads : t \in InWrap' <=> (t = Owner /\ Wrapping')
  BY <1>1 DEF InWrap, Wrapping
<1>3. ASSUME InWrap' # {} PROVE Wrapper' \in InWrap' BY <1>3 DEF Wrapper
<1>4. InWrap' \subseteq Threads BY DEF InWrap
<1> QED BY <1>2, <1>3, <1>4, ProcFacts

VInv == CallsInv /\ OwnersOnly

(* The abstract steps in terms of the view.                                  *)
LEMMA Stutters ==
  ASSUME VInv, VInv', created' = created, Saved' \/ Wrapping' <=> Saved \/ Wrapping,
         ViewProc' = ViewProc, ViewReturned' = ViewReturned
  PROVE  UNCHANGED AnsiView!vars
BY ViewNow, ViewNext DEF VInv, AnsiView!vars, ViewProc, ViewReturned, Saved, Wrapping

LEMMA Exchanges ==
  ASSUME VInv, VInv', created, created', Saved' \/ Wrapping', NEW new \in Procs,
         ViewProc' = new, ViewReturned' = ViewProc
  PROVE  AnsiView!Next
<1>1. AnsiView!Exchange(new)
  BY ViewNow, ViewNext DEF VInv, AnsiView!Exchange, ViewProc, ViewReturned, Saved, Wrapping, CallsInv
<1> QED BY <1>1 DEF AnsiView!Next

LEMMA CreationIsView ==
  ASSUME VInv, VInv', CreateAnsi \/ CreateNative
  PROVE  AnsiView!Next
<1>1. ~Saved /\ ~Wrapping /\ ~Wrapping' /\ native \in Procs
  BY ProcFacts DEF VInv, CallsInv, Saved, Wrapping, NoCall, CreateAnsi, CreateNative
<1>2. InWrap = {} /\ InWrap' = {} BY <1>1, ViewNow, ViewNext DEF VInv
<1>3. /\ created = FALSE /\ created' = TRUE /\ returned' = returned
      /\ (IF Saved' THEN property' ELSE native') = native
  <2>1. CASE CreateAnsi
    <3>1. property' = native /\ property' # Null /\ created = FALSE /\ created' = TRUE /\ returned' = returned
      BY <1>1, <2>1, ProcFacts DEF VInv, CallsInv, CreateAnsi
    <3> QED BY <3>1 DEF Saved
  <2>2. CASE CreateNative
    <3>1. /\ property' = property /\ native' = native
          /\ created = FALSE /\ created' = TRUE /\ returned' = returned
      BY <2>2 DEF VInv, CallsInv, CreateNative
    <3> QED BY <1>1, <3>1 DEF Saved
  <2> QED BY <2>1, <2>2
<1>4. AnsiView!Create BY <1>1, <1>2, <1>3 DEF AnsiView!Create
<1> QED BY <1>4 DEF AnsiView!Next

LEMMA SetIsView ==
  ASSUME VInv, VInv', NEW t \in Threads, SetWindowLongA(t)
  PROVE  [AnsiView!Next]_AnsiView!vars
<1> USE DEF VInv
<1>1. ASSUME NEW new, CallSetWindowLongA(t, new)
      PROVE  UNCHANGED AnsiView!vars
  <2>1. ~Wrapping /\ ~Wrapping'
    BY <1>1, ProcFacts DEF CallSetWindowLongA, Free, CallsInv, OwnersOnly, NoCall, Wrapping
  <2>2. UNCHANGED << created, native, property, returned >> BY <1>1 DEF CallSetWindowLongA
  <2> QED BY <2>1, <2>2, Stutters DEF Saved, ViewProc, ViewReturned
<1>2. ASSUME calls[t].step # "none" PROVE t = Owner /\ created /\ calls[t].new \in Procs
  BY <1>2 DEF CallsInv, OwnersOnly, NoCall
<1>3. CASE Store(t)
  <2>1. /\ calls[t].step = "store" /\ property' = calls[t].new /\ returned' = calls[t].old
        /\ created' = created /\ calls' = [calls EXCEPT ![t] = NoCall]
    BY <1>3 DEF Store, Returns
  <2>2. ~Wrapping' /\ Saved /\ calls[t].old = property
    BY <1>2, <2>1, ProcFacts DEF CallsInv, OwnersOnly, Wrapping, NoCall
  <2>3. Saved' /\ ~Wrapping BY <1>2, <2>1, ProcFacts DEF Saved, Wrapping
  <2> QED BY <1>2, <2>1, <2>2, <2>3, Exchanges DEF ViewProc, ViewReturned
<1>4. CASE SetNative(t)
  <2>1. /\ calls[t].step = "native" /\ UNCHANGED << created, property, returned >>
        /\ calls' = [calls EXCEPT ![t] = [step |-> "wrap", new |-> calls[t].new, old |-> native]]
    BY <1>4, SetNativeCall DEF SetNative, CallsInv
  <2>2. Wrapping' /\ calls'[Owner].new = calls[t].new /\ calls'[Owner].old = native
    BY <1>2, <2>1, ProcFacts DEF CallsInv, Calls, Wrapping
  <2>3. ~Saved /\ ~Saved' /\ ~Wrapping
    BY <1>2, <2>1 DEF CallsInv, Saved, Wrapping
  <2> QED BY <1>2, <2>1, <2>2, <2>3, Exchanges DEF ViewProc, ViewReturned
<1>5. CASE Wrap(t)
  <2>1. /\ calls[t].step = "wrap" /\ UNCHANGED << created, property, returned >>
        /\ calls' = [calls EXCEPT ![t].step = "save"]
    BY <1>5 DEF Wrap
  <2>2. /\ Wrapping' /\ Wrapping /\ calls'[Owner].new = calls[Owner].new
        /\ calls'[Owner].old = calls[Owner].old
    BY <1>2, <2>1, ProcFacts DEF CallsInv, Calls, Wrapping
  <2>3. ~Saved /\ ~Saved' BY <1>2, <2>1 DEF CallsInv, Saved
  <2> QED BY <2>1, <2>2, <2>3, Stutters DEF ViewProc, ViewReturned
<1>6. CASE Save(t)
  <2>1. /\ calls[t].step = "save" /\ property' = calls[t].new /\ returned' = calls[t].old
        /\ created' = created /\ calls' = [calls EXCEPT ![t] = NoCall]
    BY <1>6 DEF Save, Returns
  <2>2. ~Wrapping' /\ ~Saved /\ Saved' /\ Wrapping
    BY <1>2, <2>1, ProcFacts DEF CallsInv, Wrapping, NoCall, Saved
  <2> QED BY <1>2, <2>1, <2>2, Stutters DEF ViewProc, ViewReturned
<1> QED BY <1>1, <1>3, <1>4, <1>5, <1>6 DEF SetWindowLongA, Subclass, Restore

LEMMA WideIsView ==
  ASSUME VInv, VInv', NEW t \in Threads, SetWindowLongW(t), Foreign = "never"
  PROVE  [AnsiView!Next]_AnsiView!vars
<1>1. t = Owner /\ created /\ ~Wrapping /\ ~Wrapping'
  BY DEF SetWindowLongW, SubclassWide, RestoreWide, Free, Wrapping
<1>2. UNCHANGED << created, property, returned, calls >> /\ native' \in Procs
  BY DEF VInv, CallsInv, SetWindowLongW, SubclassWide, RestoreWide
<1>3. CASE Saved BY <1>1, <1>2, <1>3, Stutters DEF ViewProc, ViewReturned, Saved
<1>4. CASE ~Saved
  <2>1. AnsiView!WideReplaces(native')
    BY <1>1, <1>2, <1>4, ViewNow, ViewNext DEF VInv, AnsiView!WideReplaces, Saved
  <2> QED BY <1>2, <2>1 DEF AnsiView!Next
<1> QED BY <1>3, <1>4

(* With the owner's calls only: what the hooked SetWindowLongA,              *)
(* GetWindowLongA and IsWindowUnicode show is a register changed in one      *)
(* step, whatever the worker's own steps and the W interface do              *)
(* (LepSetWindowLongAWorker).                                                *)
THEOREM OwnersSeeARegister == Foreign = "never" => (Spec => ImplementsAnsiWindow)
<1> SUFFICES ASSUME Foreign = "never" PROVE Spec => ImplementsAnsiWindow
  OBVIOUS
<1>1. Init => VInv /\ AnsiView!Init
  <2> SUFFICES ASSUME Init PROVE VInv /\ AnsiView!Init
    OBVIOUS
  <2>1. VInv BY InitCalls, ProcFacts DEF VInv, OwnersOnly, Init, NoCall
  <2>2. ~Saved /\ ~Wrapping /\ native \in Procs
    BY ProcFacts DEF Init, Saved, Wrapping, NoCall, Procs
  <2> QED BY <2>1, <2>2, ViewNow DEF Init, VInv, AnsiView!Init
<1>2. VInv /\ [Next]_vars => VInv'
  BY NextKeepsCalls, OwnersStay DEF VInv
<1>3. VInv /\ VInv' /\ [Next]_vars => [AnsiView!Next]_AnsiView!vars
  <2> SUFFICES ASSUME VInv, VInv', [Next]_vars PROVE [AnsiView!Next]_AnsiView!vars
    OBVIOUS
  <2>1. CASE UNCHANGED vars
    BY <2>1, Stutters DEF vars, ViewProc, ViewReturned, Saved, Wrapping
  <2>2. CASE Deliver
    <3>1. UNCHANGED << created, native, property, returned, calls >>
      BY <2>2 DEF Deliver, Dispatch, CallSaved, CallBeneath, HandsTo, Finish
    <3> QED BY <3>1, Stutters DEF ViewProc, ViewReturned, Saved, Wrapping
  <2>3. CASE CreateAnsi \/ CreateNative BY <2>3, CreationIsView
  <2>4. ASSUME NEW t \in Threads, SetWindowLongA(t) \/ SetWindowLongW(t)
        PROVE  [AnsiView!Next]_AnsiView!vars
    BY <2>4, SetIsView, WideIsView
  <2> QED BY <2>1, <2>2, <2>3, <2>4 DEF Next
<1> QED BY <1>1, <1>2, <1>3, PTL DEF Spec, ImplementsAnsiWindow, AnsiView!Spec

-----------------------------------------------------------------------------
(* Window creation.  The invariant of WindowCreation says whose each hook    *)
(* and frame is, that the hooks of the creations inside one are above the    *)
(* hook whose turn it is there, and which of the two values is in the record *)
(* before and after the creation's own hook has run.                         *)

(* The sequences of the creations: one added, the last cut or replaced, one  *)
(* taken out.                                                                *)
HookType == [proc : {"CBTProc", "CBTProcU", "program"}, owner : Windows \cup {NullParam}]
FrameType == [kind : {C!Kind}, owner : Windows, stack : Windows \cup {NullParam}]

LEMMA Appended ==
  ASSUME NEW T, NEW s \in Seq(T), NEW x \in T, NEW t, t = Append(s, x)
  PROVE  /\ t \in Seq(T) /\ Len(t) = Len(s) + 1 /\ t[Len(t)] = x /\ Len(t) \in DOMAIN t
         /\ DOMAIN t \in SUBSET Nat /\ DOMAIN s \in SUBSET Nat /\ Len(s) \in Nat /\ Len(t) \in Nat
         /\ \A i \in DOMAIN s : i \in DOMAIN t /\ t[i] = s[i] /\ i < Len(t) /\ i <= Len(s)
         /\ \A i \in DOMAIN t : i # Len(t) => i \in DOMAIN s /\ t[i] = s[i] /\ i < Len(t)
OBVIOUS

ButLast(s) == SubSeq(s, 1, Len(s) - 1)
Without(s, k) == SubSeq(s, 1, k - 1) \o SubSeq(s, k + 1, Len(s))

LEMMA LastCut ==
  ASSUME NEW T, NEW s \in Seq(T), s # <<>>, NEW t, t = ButLast(s)
  PROVE  /\ t \in Seq(T) /\ Len(t) = Len(s) - 1
         /\ DOMAIN t \in SUBSET Nat /\ DOMAIN s \in SUBSET Nat /\ Len(s) \in Nat /\ Len(s) \in DOMAIN s
         /\ \A i \in DOMAIN t : i \in DOMAIN s /\ t[i] = s[i] /\ i < Len(s)
         /\ \A i \in DOMAIN s : i # Len(s) => i \in DOMAIN t
<1>1. Len(s) \in Nat /\ Len(s) >= 1 /\ DOMAIN s = 1 .. Len(s) OBVIOUS
<1>2. t \in Seq(T) /\ Len(t) = Len(s) - 1 /\ \A i \in 1 .. Len(s) - 1 : t[i] = s[i] BY <1>1 DEF ButLast
<1>3. DOMAIN t = 1 .. Len(s) - 1 BY <1>2
<1> QED BY <1>1, <1>2, <1>3

LEMMA LastPut ==
  ASSUME NEW T, NEW s \in Seq(T), s # <<>>, NEW x \in T, NEW t, t = [s EXCEPT ![Len(s)] = x]
  PROVE  /\ t \in Seq(T) /\ Len(t) = Len(s) /\ t # <<>>
         /\ DOMAIN t \in SUBSET Nat /\ DOMAIN t = DOMAIN s /\ Len(s) \in Nat /\ Len(s) \in DOMAIN s
         /\ t[Len(s)] = x /\ s[Len(s)] \in T
         /\ \A i \in DOMAIN s : i <= Len(s) /\ (i # Len(s) => t[i] = s[i])
<1>1. Len(s) \in Nat /\ Len(s) >= 1 /\ DOMAIN s = 1 .. Len(s) OBVIOUS
<1>2. t \in Seq(T) /\ Len(t) = Len(s) /\ DOMAIN t = DOMAIN s BY <1>1
<1> QED BY <1>1, <1>2

LEMMA Removed ==
  ASSUME NEW T, NEW s \in Seq(T), NEW k \in DOMAIN s,
         NEW t, t = Without(s, k)
  PROVE  /\ t \in Seq(T) /\ DOMAIN t \in SUBSET Nat /\ DOMAIN s \in SUBSET Nat
         /\ \A i \in DOMAIN t : /\ i < k => i \in DOMAIN s /\ t[i] = s[i]
                                /\ i >= k => i + 1 \in DOMAIN s /\ t[i] = s[i + 1]
         /\ \A i \in DOMAIN s : /\ i < k => i \in DOMAIN t /\ t[i] = s[i]
                                /\ i > k => i - 1 \in DOMAIN t /\ t[i - 1] = s[i]
<1> DEFINE n == Len(s)
           a == SubSeq(s, 1, k - 1)
           b == SubSeq(s, k + 1, n)
<1>1. k \in Nat /\ k >= 1 /\ k <= n /\ n \in Nat /\ DOMAIN s = 1 .. n OBVIOUS
<1>2. a \in Seq(T) /\ Len(a) = k - 1 /\ \A i \in 1 .. k - 1 : a[i] = s[i] BY <1>1
<1>3. b \in Seq(T) /\ Len(b) = n - k /\ \A i \in 1 .. n - k : b[i] = s[i + k]
  <2>1. \A i \in k + 1 .. n : s[i] \in T BY <1>1
  <2>2. k + 1 \in Int /\ n \in Int BY <1>1
  <2>3. /\ b \in Seq(T) /\ Len(b) = IF k + 1 <= n THEN n - (k + 1) + 1 ELSE 0
        /\ \A i \in 1 .. n - (k + 1) + 1 : b[i] = s[(k + 1) + i - 1]
    BY <2>1, <2>2, SubSeqProperties
  <2> HIDE DEF b, n
  <2>4. n - (k + 1) + 1 = n - k /\ (k + 1 <= n \/ n - k = 0) BY <1>1
  <2>5. \A i \in 1 .. n - k : (k + 1) + i - 1 = i + k BY <1>1
  <2> QED BY <2>3, <2>4, <2>5
<1> HIDE DEF n
<1>4. t = a \o b BY DEF n, Without
<1> HIDE DEF a, b
<1>5. t \in Seq(T) BY <1>2, <1>3, <1>4
<1>6. /\ Len(t) = Len(a) + Len(b)
      /\ \A i \in 1 .. Len(a) + Len(b) : t[i] = IF i <= Len(a) THEN a[i] ELSE b[i - Len(a)]
  <2>1. a \in Seq(T) /\ b \in Seq(T) BY <1>2, <1>3
  <2>2. /\ Len(a \o b) = Len(a) + Len(b)
        /\ \A i \in 1 .. Len(a) + Len(b) : (a \o b)[i] = IF i <= Len(a) THEN a[i] ELSE b[i - Len(a)]
    BY <2>1, ConcatProperties
  <2> QED BY <1>4, <2>2
<1>7. DOMAIN t = 1 .. n - 1
  <2>1. DOMAIN t = 1 .. Len(t) BY <1>5
  <2>2. Len(t) = n - 1 BY <1>1, <1>2, <1>3, <1>6
  <2> QED BY <2>1, <2>2
<1>8. \A i \in 1 .. n - 1 : t[i] = IF i < k THEN s[i] ELSE s[i + 1]
  <2> SUFFICES ASSUME NEW i \in 1 .. n - 1 PROVE t[i] = IF i < k THEN s[i] ELSE s[i + 1]
    OBVIOUS
  <2>1. i \in 1 .. Len(a) + Len(b) BY <1>1, <1>2, <1>3
  <2>2. CASE i < k
    <3>1. i <= Len(a) /\ i \in 1 .. k - 1 BY <1>1, <1>2, <2>2
    <3> QED BY <1>2, <1>6, <2>1, <2>2, <3>1
  <2>3. CASE ~(i < k)
    <3>1. Len(a) = k - 1 BY <1>2
    <3>4. ~(i <= Len(a)) /\ i - Len(a) \in 1 .. n - k /\ (i - Len(a)) + k = i + 1 BY <1>1, <2>3, <3>1
    <3>2. t[i] = b[i - Len(a)] BY <1>6, <2>1, <3>4
    <3>3. b[i - Len(a)] = s[i + 1] BY <1>3, <3>4
    <3> QED BY <2>3, <3>2, <3>3
  <2> QED BY <2>2, <2>3
<1>9. ASSUME NEW i \in 1 .. n - 1
      PROVE  /\ i < k => i \in 1 .. n /\ t[i] = s[i]
             /\ i >= k => i + 1 \in 1 .. n /\ t[i] = s[i + 1]
  <2>1. i < k => i \in 1 .. n BY <1>1
  <2>2. i >= k => ~(i < k) /\ i + 1 \in 1 .. n BY <1>1
  <2> QED BY <1>8, <2>1, <2>2
<1>10. ASSUME NEW i \in 1 .. n
       PROVE  /\ i < k => i \in 1 .. n - 1 /\ t[i] = s[i]
              /\ i > k => i - 1 \in 1 .. n - 1 /\ t[i - 1] = s[i]
  <2>1. i < k => i \in 1 .. n - 1 BY <1>1
  <2>2. i > k => i - 1 \in 1 .. n - 1 /\ ~(i - 1 < k) /\ (i - 1) + 1 = i BY <1>1
  <2> QED BY <1>8, <2>1, <2>2
<1>11. DOMAIN t \in SUBSET Nat /\ DOMAIN s \in SUBSET Nat BY <1>1, <1>7
<1>12. DOMAIN s = 1 .. n BY <1>1
<1> QED BY <1>5, <1>7, <1>9, <1>10, <1>11, <1>12

-----------------------------------------------------------------------------
LEMMA InitCreations == C!Init => C!CreationInv
<1> SUFFICES ASSUME C!Init PROVE C!CreationInv
  OBVIOUS
<1>1. DOMAIN cCreations = {} /\ DOMAIN cHooks = {} /\ DOMAIN cFrames = {} BY DEF C!Init
<1>2. C!TypeOK
  <2>1. Len(cCreations) <= MaxCreations
    <3>1. cCreations = <<>> BY DEF C!Init
    <3>2. Len(cCreations) = 0 BY <3>1
    <3>3. MaxCreations \in Nat BY CreationAssumption
    <3> QED BY <3>2, <3>3
  <2> QED BY <2>1 DEF C!Init, C!TypeOK
<1> QED BY <1>1, <1>2 DEF C!Init, C!CreationInv, C!NothingLeft, C!OwnersInv, C!TurnsInv, C!ParamsInv, C!Used

(* A step of the innermost creation that leaves hooks and frames alone.      *)
LEMMA TopStep ==
  ASSUME C!CreationInv, cCreations # <<>>, NEW c \in C!Creations,
         c.win = C!Top.win, c.ansi = C!Top.ansi, c.own = C!Top.own, C!SetTop(c), UNCHANGED <<cHooks, cFrames>>,
         cWrapped' \in [Windows -> Nat], cReceived' \in [Windows -> C!Given \cup Windows \cup {C!NotSeen}],
         \A w \in Windows : w # c.win => cWrapped'[w] = cWrapped[w] /\ cReceived'[w] = cReceived[w],
         c.step = "hooks" => c.turn <= Len(cHooks),
         c.step # "messages" => cReceived'[c.win] = C!NotSeen,
         c.step = "messages" => cReceived'[c.win] = c.own,
         c.step # "failed" =>
           /\ c.param = IF c.ansi /\ C!Hooked(c) /\ C!Waits(c) THEN c.win ELSE c.own
           /\ cWrapped'[c.win] = IF c.ansi /\ C!Hooked(c) /\ ~C!Waits(c) THEN 1 ELSE 0
  PROVE  C!CreationInv'
<1> DEFINE n == Len(cCreations)
<1>1. cCreations \in Seq(C!Creations) /\ cHooks \in Seq(HookType) /\ cFrames \in Seq(FrameType)
  BY DEF C!CreationInv, C!TypeOK, HookType, FrameType
<1>2. /\ cCreations' \in Seq(C!Creations) /\ Len(cCreations') = n /\ cCreations' # <<>>
      /\ DOMAIN cCreations \in SUBSET Nat /\ DOMAIN cCreations' = DOMAIN cCreations /\ n \in Nat /\ n \in DOMAIN cCreations
      /\ cCreations'[n] = c /\ cCreations[n] = C!Top
      /\ \A i \in DOMAIN cCreations : i <= n /\ (i # n => cCreations'[i] = cCreations[i])
  BY <1>1, LastPut DEF C!SetTop, C!Top
<1>3. \A i \in DOMAIN cCreations : cCreations'[i].win = cCreations[i].win /\ cCreations'[i].ansi = cCreations[i].ansi
  BY <1>2
<1>4. \A i \in DOMAIN cCreations : i # n => cCreations[i].win # c.win
  BY <1>2 DEF C!CreationInv, C!OwnersInv
<1>5. C!TypeOK' BY <1>1, <1>2 DEF C!CreationInv, C!TypeOK
<1>6. C!NothingLeft'
  <2>1. UNCHANGED cHooks /\ UNCHANGED cFrames OBVIOUS
  <2>2. \A i \in DOMAIN cFrames : \E m \in DOMAIN cCreations' : cCreations'[m].win = cFrames[i].owner
    BY <1>2, <1>3 DEF C!CreationInv, C!NothingLeft
  <2>3. \A i, j \in DOMAIN cFrames : \A m, l \in DOMAIN cCreations' :
          cCreations'[m].win = cFrames[i].owner /\ cCreations'[l].win = cFrames[j].owner => (i < j <=> m < l)
    BY <1>2, <1>3 DEF C!CreationInv, C!NothingLeft
  <2> QED BY <2>1, <2>2, <2>3 DEF C!CreationInv, C!NothingLeft
<1>7. C!OwnersInv' BY <1>2, <1>3 DEF C!CreationInv, C!OwnersInv
<1>8. C!TurnsInv'
  <2> SUFFICES ASSUME NEW m \in DOMAIN cCreations'
               PROVE  (/\ m < Len(cCreations) =>
                            \/ cCreations[m].step = "messages"
                            \/ /\ cCreations[m].step = "hooks" /\ cCreations[m].turn # 0
                               /\ cHooks[cCreations[m].turn].proc = "program"
                       /\ cCreations[m].step = "hooks" =>
                            /\ cCreations[m].turn <= Len(cHooks)
                            /\ \A l \in DOMAIN cCreations, k \in DOMAIN cHooks :
                                 l > m /\ cHooks[k].owner = cCreations[l].win => k > cCreations[m].turn)'
    BY DEF C!TurnsInv
  <2>1. CASE m = n
    <3>1. \A l \in DOMAIN cCreations' : ~(l > m) BY <1>2, <2>1
    <3> QED BY <1>2, <2>1, <3>1
  <2>2. CASE m # n
    <3>1. cCreations'[m] = cCreations[m] /\ m \in DOMAIN cCreations BY <1>2, <2>2
    <3> QED BY <1>2, <1>3, <3>1 DEF C!CreationInv, C!TurnsInv
  <2> QED BY <2>1, <2>2
<1>9. C!ParamsInv'
  <2>1. ASSUME NEW m \in DOMAIN cCreations' PROVE C!ParamRight(cCreations[m])'
    <3>1. CASE m = n
      BY <1>2, <3>1 DEF C!ParamRight, C!Hooked, C!Waits
    <3>2. CASE m # n
      <4>1. cCreations'[m] = cCreations[m] /\ m \in DOMAIN cCreations BY <1>2, <3>2
      <4>2. cCreations[m].win # c.win /\ cCreations[m].win \in Windows
        <5>1. cCreations[m] \in C!Creations BY <1>1, <4>1
        <5> QED BY <5>1, <1>4, <3>2, <4>1 DEF C!Creations
      <4>3. C!ParamRight(cCreations[m]) BY <4>1 DEF C!CreationInv, C!ParamsInv
      <4> QED BY <4>1, <4>2, <4>3 DEF C!ParamRight, C!Hooked, C!Waits
    <3> QED BY <3>1, <3>2
  <2>2. ASSUME NEW w \in Windows, ~C!Used(w)' PROVE cWrapped'[w] = 0
    <3>1. w # c.win BY <1>2, <2>2 DEF C!Used
    <3>2. ~C!Used(w) BY <1>2, <1>3, <2>2, <3>1 DEF C!Used
    <3> QED BY <3>1, <3>2 DEF C!CreationInv, C!ParamsInv
  <2> QED BY <2>1, <2>2 DEF C!ParamsInv
<1> QED BY <1>5, <1>6, <1>7, <1>8, <1>9 DEF C!CreationInv

LEMMA MaxIs ==
  ASSUME NEW S \in SUBSET Nat, NEW m \in S, \A y \in S : y <= m
  PROVE  C!Max(S) = m
<1>1. \A x \in S : (\A y \in S : x >= y) => x = m OBVIOUS
<1>2. \A y \in S : m >= y OBVIOUS
<1> QED BY <1>1, <1>2 DEF C!Max

(* What the invariant says of the innermost creation.                        *)
LEMMA TopFacts ==
  ASSUME C!CreationInv, cCreations # <<>>
  PROVE  /\ cCreations \in Seq(C!Creations) /\ cHooks \in Seq(HookType) /\ cFrames \in Seq(FrameType)
         /\ Len(cCreations) \in DOMAIN cCreations /\ Len(cCreations) \in Nat /\ DOMAIN cCreations \in SUBSET Nat
         /\ cCreations[Len(cCreations)] = C!Top /\ C!Top \in C!Creations /\ C!Top.win \in Windows
         /\ \A m \in DOMAIN cCreations :
               /\ m <= Len(cCreations) /\ cCreations[m].win \in Windows
               /\ m # Len(cCreations) => m < Len(cCreations) /\ cCreations[m].win # C!Top.win
         /\ C!Top.ansi \in BOOLEAN /\ C!Top.own \in C!Given /\ C!Top.turn \in Nat /\ C!ParamRight(C!Top)
         /\ C!Top.win # NullParam
         /\ C!Top.step = "hooks" => C!Top.turn <= Len(cHooks)
         /\ \A k \in DOMAIN cHooks : cHooks[k].owner = C!Top.win =>
               cHooks[k].proc = (IF C!Top.ansi THEN "CBTProc" ELSE "CBTProcU")
         /\ \A i \in DOMAIN cFrames : cFrames[i].owner = C!Top.win =>
               cFrames[i].stack = (IF C!Top.ansi THEN C!Top.win ELSE NullParam)
<1> DEFINE n == Len(cCreations)
<1>1. cCreations \in Seq(C!Creations) /\ cHooks \in Seq(HookType) /\ cFrames \in Seq(FrameType)
  BY DEF C!CreationInv, C!TypeOK, HookType, FrameType
<1>2. n \in DOMAIN cCreations /\ n \in Nat /\ DOMAIN cCreations \in SUBSET Nat /\ \A m \in DOMAIN cCreations : m <= n
  BY <1>1
<1>3. cCreations[n] = C!Top BY DEF C!Top
<1>4. \A m \in DOMAIN cCreations : cCreations[m] \in C!Creations BY <1>1
<1>5. \A m \in DOMAIN cCreations : cCreations[m].win \in Windows BY <1>4 DEF C!Creations
<1>6. C!Top \in C!Creations BY <1>2, <1>3, <1>4
<1>7. C!Top.win \in Windows /\ C!Top.ansi \in BOOLEAN /\ C!Top.own \in C!Given /\ C!Top.turn \in Nat
  BY <1>6 DEF C!Creations
<1>8. \A m \in DOMAIN cCreations : m # n => m < n /\ cCreations[m].win # C!Top.win
  <2>1. \A m \in DOMAIN cCreations : m # n => m < n BY <1>2
  <2> QED BY <1>2, <1>3, <2>1 DEF C!CreationInv, C!OwnersInv
<1>9. C!Top.win # NullParam BY <1>7, CreationAssumption
<1>10. C!ParamRight(C!Top) BY <1>2, <1>3 DEF C!CreationInv, C!ParamsInv
<1>11. C!Top.step = "hooks" => C!Top.turn <= Len(cHooks) BY <1>2, <1>3 DEF C!CreationInv, C!TurnsInv
<1>12. /\ \A k \in DOMAIN cHooks : cHooks[k].owner = C!Top.win =>
             cHooks[k].proc = (IF C!Top.ansi THEN "CBTProc" ELSE "CBTProcU")
       /\ \A i \in DOMAIN cFrames : cFrames[i].owner = C!Top.win =>
             cFrames[i].stack = (IF C!Top.ansi THEN C!Top.win ELSE NullParam)
  BY <1>2, <1>3 DEF C!CreationInv, C!OwnersInv
<1> HIDE DEF n
<1>13. \A m \in DOMAIN cCreations :
          /\ m <= n /\ cCreations[m].win \in Windows
          /\ m # n => m < n /\ cCreations[m].win # C!Top.win
  BY <1>2, <1>5, <1>8
<1> QED BY <1>1, <1>2, <1>3, <1>6, <1>7, <1>9, <1>10, <1>11, <1>12, <1>13 DEF n

(* Its hook is above the hooks of the creations around it, its frame the     *)
(* innermost.                                                                *)
LEMMA TopOwns ==
  ASSUME C!CreationInv, cCreations # <<>>
  PROVE  /\ \A k, l \in DOMAIN cHooks :
               cHooks[k].owner = C!Top.win /\ cHooks[l].proc # "program" => l <= k
         /\ \A k, l \in DOMAIN cHooks :
               cHooks[k].owner = C!Top.win /\ cHooks[l].owner = C!Top.win => l = k
         /\ \A i \in DOMAIN cFrames : cFrames[i].owner = C!Top.win => i = Len(cFrames)
         /\ (\E k \in DOMAIN cHooks : cHooks[k].owner = C!Top.win)
               <=> cFrames # <<>> /\ cFrames[Len(cFrames)].owner = C!Top.win
<1> DEFINE n == Len(cCreations)
<1>1. /\ n \in DOMAIN cCreations /\ cCreations[n] = C!Top /\ C!Top.win # NullParam
      /\ DOMAIN cCreations \in SUBSET Nat /\ \A m \in DOMAIN cCreations : m <= n
  BY TopFacts
<1> HIDE DEF n
<1>2. DOMAIN cHooks \in SUBSET Nat /\ DOMAIN cFrames \in SUBSET Nat /\ Len(cFrames) \in Nat
      /\ DOMAIN cFrames = 1 .. Len(cFrames)
  BY TopFacts
<1>3. \A k \in DOMAIN cHooks : cHooks[k].proc # "program" =>
         \E i \in DOMAIN cFrames : cFrames[i].owner = cHooks[k].owner
  BY DEF C!CreationInv, C!NothingLeft
<1>4. \A k \in DOMAIN cHooks : cHooks[k].owner = C!Top.win => cHooks[k].proc # "program"
  BY <1>1 DEF C!CreationInv, C!OwnersInv
<1>5. \A i, j \in DOMAIN cFrames : cFrames[i].owner = C!Top.win => j <= i
  <2> SUFFICES ASSUME NEW i \in DOMAIN cFrames, NEW j \in DOMAIN cFrames, cFrames[i].owner = C!Top.win
               PROVE  j <= i
    OBVIOUS
  <2>1. PICK m \in DOMAIN cCreations : cCreations[m].win = cFrames[j].owner
    BY DEF C!CreationInv, C!NothingLeft
  <2>2. i < j <=> n < m BY <1>1, <2>1 DEF C!CreationInv, C!NothingLeft
  <2>3. ~(n < m) BY <1>1
  <2> QED BY <1>2, <2>2, <2>3
<1>6. \A i \in DOMAIN cFrames : cFrames[i].owner = C!Top.win => i = Len(cFrames) BY <1>2, <1>5
<1>7. \A k, l \in DOMAIN cHooks : cHooks[k].owner = C!Top.win /\ cHooks[l].proc # "program" => l <= k
  <2> SUFFICES ASSUME NEW k \in DOMAIN cHooks, NEW l \in DOMAIN cHooks,
                      cHooks[k].owner = C!Top.win, cHooks[l].proc # "program"
               PROVE  l <= k
    OBVIOUS
  <2>1. PICK i \in DOMAIN cFrames : cFrames[i].owner = cHooks[k].owner BY <1>3, <1>4
  <2>2. PICK j \in DOMAIN cFrames : cFrames[j].owner = cHooks[l].owner BY <1>3
  <2>3. i < j <=> k < l BY <2>1, <2>2 DEF C!CreationInv, C!NothingLeft
  <2>4. ~(i < j) BY <1>2, <1>5, <2>1
  <2> QED BY <1>2, <2>3, <2>4
<1>8. \A k, l \in DOMAIN cHooks : cHooks[k].owner = C!Top.win /\ cHooks[l].owner = C!Top.win => l = k
  BY <1>2, <1>4, <1>7
<1>9. ASSUME NEW k \in DOMAIN cHooks, cHooks[k].owner = C!Top.win
      PROVE  cFrames # <<>> /\ cFrames[Len(cFrames)].owner = C!Top.win
  <2>1. PICK i \in DOMAIN cFrames : cFrames[i].owner = cHooks[k].owner BY <1>3, <1>4, <1>9
  <2> QED BY <1>6, <1>9, <2>1
<1>10. ASSUME cFrames # <<>>, cFrames[Len(cFrames)].owner = C!Top.win
       PROVE  \E k \in DOMAIN cHooks : cHooks[k].owner = C!Top.win
  <2>1. Len(cFrames) \in DOMAIN cFrames BY <1>10, TopFacts
  <2> QED BY <1>10, <2>1 DEF C!CreationInv, C!NothingLeft
<1> QED BY <1>6, <1>7, <1>8, <1>9, <1>10

LEMMA StepCallHooks == C!CreationInv /\ C!CallHooks => C!CreationInv'
<1> SUFFICES ASSUME C!CreationInv, C!CallHooks PROVE C!CreationInv'
  OBVIOUS
<1> DEFINE c == [C!Top EXCEPT !.step = "hooks", !.turn = Len(cHooks)]
<1>1. cCreations # <<>> /\ C!Top.step = "called" /\ C!SetTop(c) /\ UNCHANGED <<cHooks, cFrames, cWrapped, cReceived>>
  BY DEF C!CallHooks
<1>2. Len(cHooks) \in Nat /\ \A k \in DOMAIN cHooks : k <= Len(cHooks) BY <1>1, TopFacts
<1>3. C!Top \in C!Creations /\ C!Top.win \in Windows /\ C!ParamRight(C!Top) BY <1>1, TopFacts
<1>4. c \in C!Creations BY <1>2, <1>3 DEF C!Creations
<1>5. /\ c.win = C!Top.win /\ c.ansi = C!Top.ansi /\ c.own = C!Top.own /\ c.param = C!Top.param
      /\ c.step = "hooks" /\ c.turn = Len(cHooks)
  BY <1>3 DEF C!Creations
<1> HIDE DEF c
<1>6. cWrapped \in [Windows -> Nat] /\ cReceived \in [Windows -> C!Given \cup Windows \cup {C!NotSeen}]
  BY DEF C!CreationInv, C!TypeOK
<1>7. C!Hooked(c) = C!Hooked(C!Top) /\ (C!Hooked(c) => C!Waits(c)) /\ C!Waits(C!Top)
  BY <1>1, <1>2, <1>5 DEF C!Hooked, C!Waits
<1>8. /\ cReceived[c.win] = C!NotSeen
      /\ c.param = IF c.ansi /\ C!Hooked(c) /\ C!Waits(c) THEN c.win ELSE c.own
      /\ cWrapped[c.win] = IF c.ansi /\ C!Hooked(c) /\ ~C!Waits(c) THEN 1 ELSE 0
  BY <1>1, <1>3, <1>5, <1>7 DEF C!ParamRight
<1> QED BY <1>1, <1>2, <1>4, <1>5, <1>6, <1>8, TopStep

LEMMA StepOtherHook == C!CreationInv /\ C!OtherHook => C!CreationInv'
<1> SUFFICES ASSUME C!CreationInv, C!OtherHook PROVE C!CreationInv'
  OBVIOUS
<1> DEFINE c == C!NextHook
<1>1. /\ cCreations # <<>> /\ C!Top.step = "hooks" /\ C!Top.turn # 0 /\ C!Hook.proc # "CBTProc"
      /\ C!SetTop(c) /\ UNCHANGED <<cHooks, cFrames, cWrapped, cReceived>>
  BY DEF C!OtherHook
<1>2. Len(cHooks) \in Nat /\ DOMAIN cHooks \in SUBSET Nat BY <1>1, TopFacts
<1>3. /\ C!Top \in C!Creations /\ C!Top.win \in Windows /\ C!ParamRight(C!Top) /\ C!Top.turn \in Nat
      /\ C!Top.turn <= Len(cHooks)
  BY <1>1, TopFacts
<1>4. c \in C!Creations BY <1>1, <1>3 DEF C!Creations, C!NextHook
<1>5. /\ c.win = C!Top.win /\ c.ansi = C!Top.ansi /\ c.own = C!Top.own /\ c.param = C!Top.param
      /\ c.step = "hooks" /\ c.turn = C!Top.turn - 1
  BY <1>1, <1>3 DEF C!Creations, C!NextHook
<1> HIDE DEF c
<1>6. cWrapped \in [Windows -> Nat] /\ cReceived \in [Windows -> C!Given \cup Windows \cup {C!NotSeen}]
  BY DEF C!CreationInv, C!TypeOK
<1>7. C!Hooked(c) = C!Hooked(C!Top) BY <1>5 DEF C!Hooked
<1>8. c.ansi => C!Waits(c) = C!Waits(C!Top)
  <2> SUFFICES ASSUME c.ansi PROVE C!Waits(c) = C!Waits(C!Top)
    OBVIOUS
  <2>1. \A k \in DOMAIN cHooks : cHooks[k].owner = C!Top.win => k # C!Top.turn
    BY <1>1, <1>5, TopFacts DEF C!Hook
  <2>2. \A k \in DOMAIN cHooks : cHooks[k].owner = C!Top.win => (k <= c.turn <=> k <= C!Top.turn)
    BY <1>2, <1>3, <1>5, <2>1
  <2> QED BY <1>1, <1>5, <2>2 DEF C!Waits
<1>9. /\ cReceived[c.win] = C!NotSeen
      /\ c.param = IF c.ansi /\ C!Hooked(c) /\ C!Waits(c) THEN c.win ELSE c.own
      /\ cWrapped[c.win] = IF c.ansi /\ C!Hooked(c) /\ ~C!Waits(c) THEN 1 ELSE 0
  BY <1>1, <1>3, <1>5, <1>7, <1>8 DEF C!ParamRight
<1>10. c.turn <= Len(cHooks) BY <1>2, <1>3, <1>5
<1> QED BY <1>1, <1>4, <1>5, <1>6, <1>9, <1>10, TopStep

(* The frame a CBT hook finds is the innermost.                              *)
LEMMA FoundFrame ==
  ASSUME C!CreationInv, cCreations # <<>>
  PROVE  C!FindFrame(cFrames, C!Kind) = IF cFrames = <<>> THEN NoFrame ELSE cFrames[Len(cFrames)]
<1> DEFINE found == {i \in DOMAIN cFrames : cFrames[i].kind = C!Kind}
<1>1. cFrames \in Seq(FrameType) BY TopFacts
<1>2. \A i \in DOMAIN cFrames : cFrames[i] \in FrameType BY <1>1
<1>3. \A i \in DOMAIN cFrames : cFrames[i].kind = C!Kind BY <1>2 DEF FrameType
<1>4. found = DOMAIN cFrames BY <1>3
<1>5. CASE cFrames = <<>>
  <2>1. found = {} BY <1>4, <1>5
  <2> QED BY <1>5, <2>1 DEF C!FindFrame
<1>6. CASE cFrames # <<>>
  <2>1. /\ found \in SUBSET Nat /\ Len(cFrames) \in found /\ \A i \in found : i <= Len(cFrames)
    BY <1>1, <1>4, <1>6
  <2>2. C!Max(found) = Len(cFrames) BY <2>1, MaxIs
  <2>3. found # {} BY <2>1
  <2> QED BY <1>6, <2>2, <2>3 DEF C!FindFrame
<1> QED BY <1>5, <1>6

(* A CBT hook accepts the record of the creation that installed it, and no   *)
(* other value.                                                              *)
LEMMA OwnRecord ==
  ASSUME C!CreationInv, cCreations # <<>>, C!Top.step = "hooks", C!Top.turn # 0, C!Hook.proc = "CBTProc"
  PROVE  /\ C!Hook.owner = C!Top.win => C!Top.ansi /\ C!Hooked(C!Top) /\ C!Waits(C!Top) /\ C!Verified(C!FindFrame(cFrames, C!Kind))
         /\ C!Hook.owner # C!Top.win =>
               ~(C!Hooked(C!Top) /\ C!Waits(C!Top)) /\ ~C!Verified(C!FindFrame(cFrames, C!Kind))
<1>1. /\ C!Top.turn \in DOMAIN cHooks /\ C!Top.turn \in Nat /\ DOMAIN cHooks \in SUBSET Nat
      /\ C!Top.win \in Windows /\ C!Top.win # NullParam /\ C!ParamRight(C!Top) /\ C!Top.own \in C!Given
      /\ Len(cFrames) \in Nat /\ (cFrames # <<>> => Len(cFrames) \in DOMAIN cFrames)
  BY TopFacts
<1>2. C!Hook = cHooks[C!Top.turn] BY DEF C!Hook
<1>3. ASSUME C!Hook.owner = C!Top.win
      PROVE  C!Top.ansi /\ C!Hooked(C!Top) /\ C!Waits(C!Top) /\ C!Verified(C!FindFrame(cFrames, C!Kind))
  <2>1. C!Top.ansi BY <1>1, <1>2, <1>3, TopFacts
  <2>2. C!Hooked(C!Top) BY <1>1, <1>2, <1>3 DEF C!Hooked
  <2>3. C!Top.turn <= C!Top.turn BY <1>1
  <2>4. C!Waits(C!Top) BY <1>1, <1>2, <1>3, <2>3 DEF C!Waits
  <2>5. C!Top.param = C!Top.win BY <1>1, <2>1, <2>2, <2>4 DEF C!ParamRight
  <2>6. cFrames # <<>> /\ cFrames[Len(cFrames)].owner = C!Top.win BY <1>1, <1>2, <1>3, TopOwns
  <2>7. cFrames[Len(cFrames)].stack = C!Top.win BY <1>1, <2>1, <2>6, TopFacts
  <2>8. C!FindFrame(cFrames, C!Kind) = cFrames[Len(cFrames)] BY <2>6, FoundFrame
  <2>9. cFrames[Len(cFrames)] # NoFrame
    <3>1. cFrames[Len(cFrames)] \in FrameType BY <1>1, <2>6, TopFacts
    <3> QED BY <3>1, CreationAssumption DEF FrameType, C!Kind
  <2> QED BY <1>1, <2>1, <2>2, <2>4, <2>5, <2>7, <2>8, <2>9 DEF C!Verified
<1>4. ASSUME C!Hook.owner # C!Top.win
      PROVE  ~(C!Hooked(C!Top) /\ C!Waits(C!Top)) /\ ~C!Verified(C!FindFrame(cFrames, C!Kind))
  <2>1. ~(C!Hooked(C!Top) /\ C!Waits(C!Top))
    <3> SUFFICES ASSUME NEW k \in DOMAIN cHooks, cHooks[k].owner = C!Top.win, k <= C!Top.turn
                 PROVE  FALSE
      BY DEF C!Waits, C!Hooked
    <3>1. C!Top.turn <= k BY <1>1, <1>2, TopOwns
    <3>2. k = C!Top.turn BY <1>1, <3>1
    <3> QED BY <1>2, <1>4, <3>2
  <2>2. C!Top.param = C!Top.own BY <1>1, <2>1 DEF C!ParamRight
  <2>3. ASSUME C!Verified(C!FindFrame(cFrames, C!Kind)) PROVE FALSE
    <3>1. C!FindFrame(cFrames, C!Kind) # NoFrame /\ C!Top.param = C!FindFrame(cFrames, C!Kind).stack
          /\ C!Top.param # NullParam
      BY <2>3 DEF C!Verified
    <3>2. cFrames # <<>> /\ C!FindFrame(cFrames, C!Kind) = cFrames[Len(cFrames)] BY <3>1, FoundFrame
    <3>3. cFrames[Len(cFrames)] \in FrameType BY <1>1, <3>2, TopFacts
    <3>4. cFrames[Len(cFrames)].stack \in Windows \cup {NullParam} BY <3>3 DEF FrameType
    <3>5. C!Top.own \in Windows /\ C!Top.own # NullParam BY <2>2, <3>1, <3>2, <3>4
    <3>6. C!Top.own \in Params BY <1>1, <3>5 DEF C!Given
    <3> QED BY <3>5, <3>6, CreationAssumption
  <2> QED BY <2>1, <2>3
<1> QED BY <1>3, <1>4

LEMMA StepCBTProc == C!CreationInv /\ C!CBTProc => C!CreationInv'
<1> SUFFICES ASSUME C!CreationInv, C!CBTProc PROVE C!CreationInv'
  OBVIOUS
<1> DEFINE own == C!Hook.owner = C!Top.win
           c == IF own THEN [C!NextHook EXCEPT !.param = C!Top.own] ELSE C!NextHook
<1>1. /\ cCreations # <<>> /\ C!Top.step = "hooks" /\ C!Top.turn # 0 /\ C!Hook.proc = "CBTProc"
      /\ UNCHANGED <<cHooks, cFrames, cReceived>>
  BY DEF C!CBTProc
<1>2. C!Verified(C!FindFrame(cFrames, C!Kind)) <=> own BY <1>1, OwnRecord
<1>3. /\ C!Top \in C!Creations /\ C!Top.win \in Windows /\ C!ParamRight(C!Top) /\ C!Top.turn \in Nat
      /\ C!Top.turn <= Len(cHooks) /\ C!Top.own \in C!Given /\ C!Top.turn \in DOMAIN cHooks
      /\ Len(cHooks) \in Nat /\ DOMAIN cHooks \in SUBSET Nat
  BY <1>1, TopFacts
<1>4. own => C!Top.ansi /\ C!Hooked(C!Top) /\ C!Waits(C!Top) BY <1>1, OwnRecord
<1>5. ~own => ~(C!Hooked(C!Top) /\ C!Waits(C!Top)) BY <1>1, OwnRecord
<1>6. cWrapped \in [Windows -> Nat] /\ cReceived \in [Windows -> C!Given \cup Windows \cup {C!NotSeen}]
  BY DEF C!CreationInv, C!TypeOK
<1>7. cWrapped[C!Top.win] = IF C!Top.ansi /\ C!Hooked(C!Top) /\ ~C!Waits(C!Top) THEN 1 ELSE 0
  BY <1>1, <1>3 DEF C!ParamRight
<1>8. /\ C!SetTop(c)
      /\ cWrapped' = IF own THEN [cWrapped EXCEPT ![C!Top.win] = @ + 1] ELSE cWrapped
  <2>1. own => cWrapped[C!Top.win] = 0 BY <1>4, <1>7
  <2> QED BY <1>2, <2>1 DEF C!CBTProc
<1>9. /\ c \in C!Creations /\ c.win = C!Top.win /\ c.ansi = C!Top.ansi /\ c.own = C!Top.own
      /\ c.param = (IF own THEN C!Top.own ELSE C!Top.param) /\ c.step = "hooks" /\ c.turn = C!Top.turn - 1
  <2>1. /\ C!NextHook \in C!Creations /\ C!NextHook.win = C!Top.win /\ C!NextHook.ansi = C!Top.ansi
        /\ C!NextHook.own = C!Top.own /\ C!NextHook.param = C!Top.param /\ C!NextHook.step = "hooks"
        /\ C!NextHook.turn = C!Top.turn - 1
    BY <1>1, <1>3 DEF C!Creations, C!NextHook
  <2>2. CASE own BY <1>3, <2>1, <2>2 DEF C!Creations
  <2>3. CASE ~own BY <2>1, <2>3
  <2> QED BY <2>2, <2>3
<1> HIDE DEF c
<1>10. C!Hooked(c) = C!Hooked(C!Top) BY <1>9 DEF C!Hooked
<1>11. ~(C!Hooked(c) /\ C!Waits(c))
  <2> SUFFICES ASSUME NEW k \in DOMAIN cHooks, cHooks[k].owner = C!Top.win, k <= c.turn
               PROVE  FALSE
    BY <1>9 DEF C!Hooked, C!Waits
  <2>1. k < C!Top.turn BY <1>1, <1>3, <1>9
  <2>2. CASE own
    <3>1. C!Top.turn = k BY <1>1, <1>3, <2>2, TopOwns DEF C!Hook
    <3> QED BY <1>3, <2>1, <3>1
  <2>3. CASE ~own
    <3>1. k <= C!Top.turn BY <1>3, <2>1
    <3> QED BY <1>5, <2>3, <3>1, <1>1 DEF C!Hooked, C!Waits
  <2> QED BY <2>2, <2>3
<1>12. c.param = C!Top.own
  <2>1. CASE own BY <1>9, <2>1
  <2>2. CASE ~own BY <1>1, <1>3, <1>5, <1>9, <2>2 DEF C!ParamRight
  <2> QED BY <2>1, <2>2
<1>13. /\ cWrapped' \in [Windows -> Nat]
       /\ \A w \in Windows : w # c.win => cWrapped'[w] = cWrapped[w]
       /\ cWrapped'[c.win] = IF own THEN cWrapped[C!Top.win] + 1 ELSE cWrapped[C!Top.win]
  <2>1. CASE own
    <3>1. cWrapped' = [cWrapped EXCEPT ![C!Top.win] = @ + 1] BY <1>8, <2>1
    <3> QED BY <1>3, <1>6, <1>9, <2>1, <3>1
  <2>2. CASE ~own
    <3>1. cWrapped' = cWrapped BY <1>8, <2>2
    <3> QED BY <1>6, <1>9, <2>2, <3>1
  <2> QED BY <2>1, <2>2
<1>14. cWrapped'[c.win] = IF c.ansi /\ C!Hooked(c) THEN 1 ELSE 0
  <2>1. CASE own BY <1>4, <1>7, <1>9, <1>10, <1>13, <2>1
  <2>2. CASE ~own BY <1>5, <1>7, <1>9, <1>10, <1>13, <2>2
  <2> QED BY <2>1, <2>2
<1>15. cReceived[c.win] = C!NotSeen BY <1>1, <1>3, <1>9 DEF C!ParamRight
<1>16. c.turn <= Len(cHooks) BY <1>3, <1>9, <1>1
<1> HIDE DEF own
<1>17. /\ c.param = IF c.ansi /\ C!Hooked(c) /\ C!Waits(c) THEN c.win ELSE c.own
       /\ cWrapped'[c.win] = IF c.ansi /\ C!Hooked(c) /\ ~C!Waits(c) THEN 1 ELSE 0
  BY <1>9, <1>11, <1>12, <1>14
<1> QED BY <1>1, <1>6, <1>8, <1>9, <1>13, <1>15, <1>16, <1>17, TopStep

LEMMA StepSendMessages == C!CreationInv /\ C!SendMessages => C!CreationInv'
<1> SUFFICES ASSUME C!CreationInv, C!SendMessages PROVE C!CreationInv'
  OBVIOUS
<1> DEFINE c == [C!Top EXCEPT !.step = "messages"]
<1>1. /\ cCreations # <<>> /\ C!Top.step = "hooks" /\ C!Top.turn = 0 /\ C!SetTop(c)
      /\ cReceived' = [cReceived EXCEPT ![C!Top.win] = C!Top.param] /\ UNCHANGED <<cHooks, cFrames, cWrapped>>
  BY DEF C!SendMessages
<1>2. /\ C!Top \in C!Creations /\ C!Top.win \in Windows /\ C!ParamRight(C!Top) /\ C!Top.own \in C!Given
      /\ \A k \in DOMAIN cHooks : k \in Nat /\ k >= 1
  BY <1>1, TopFacts
<1>3. /\ c \in C!Creations /\ c.win = C!Top.win /\ c.ansi = C!Top.ansi /\ c.own = C!Top.own
      /\ c.param = C!Top.param /\ c.step = "messages"
  BY <1>2 DEF C!Creations
<1> HIDE DEF c
<1>4. cWrapped \in [Windows -> Nat] /\ cReceived \in [Windows -> C!Given \cup Windows \cup {C!NotSeen}]
  BY DEF C!CreationInv, C!TypeOK
<1>5. ~C!Waits(C!Top) BY <1>1, <1>2 DEF C!Waits
<1>6. ~C!Waits(c) BY <1>3 DEF C!Waits
<1>7. C!Hooked(c) = C!Hooked(C!Top) BY <1>3 DEF C!Hooked
<1>8. /\ c.param = c.own /\ C!Top.param = C!Top.own
      /\ cWrapped[c.win] = IF c.ansi /\ C!Hooked(c) THEN 1 ELSE 0
  BY <1>1, <1>2, <1>3, <1>5, <1>7 DEF C!ParamRight
<1>9. /\ cReceived' \in [Windows -> C!Given \cup Windows \cup {C!NotSeen}]
      /\ \A w \in Windows : w # c.win => cReceived'[w] = cReceived[w]
      /\ cReceived'[c.win] = c.own
  BY <1>1, <1>2, <1>3, <1>4, <1>8
<1> QED BY <1>1, <1>3, <1>4, <1>6, <1>8, <1>9, TopStep

LEMMA StepFail == C!CreationInv /\ C!Fail => C!CreationInv'
<1> SUFFICES ASSUME C!CreationInv, C!Fail PROVE C!CreationInv'
  OBVIOUS
<1> DEFINE c == [C!Top EXCEPT !.step = "failed"]
<1>1. /\ cCreations # <<>> /\ C!Top.step \in {"called", "hooks"} /\ C!SetTop(c)
      /\ UNCHANGED <<cHooks, cFrames, cWrapped, cReceived>>
  BY DEF C!Fail
<1>2. C!Top \in C!Creations /\ C!ParamRight(C!Top) BY <1>1, TopFacts
<1>3. /\ c \in C!Creations /\ c.win = C!Top.win /\ c.ansi = C!Top.ansi /\ c.own = C!Top.own
      /\ c.step = "failed"
  BY <1>2 DEF C!Creations
<1> HIDE DEF c
<1>4. cWrapped \in [Windows -> Nat] /\ cReceived \in [Windows -> C!Given \cup Windows \cup {C!NotSeen}]
  BY DEF C!CreationInv, C!TypeOK
<1>5. cReceived[c.win] = C!NotSeen BY <1>1, <1>2, <1>3 DEF C!ParamRight
<1> QED BY <1>1, <1>3, <1>4, <1>5, TopStep

(* A creation whose hooks, parameters and wrapper a step leaves alone.       *)
LEMMA RightStays ==
  ASSUME NEW c, C!ParamRight(c),
         \A k : k \in DOMAIN cHooks' /\ cHooks'[k].owner = c.win
                <=> k \in DOMAIN cHooks /\ cHooks[k].owner = c.win,
         cWrapped'[c.win] = cWrapped[c.win], cReceived'[c.win] = cReceived[c.win]
  PROVE  C!ParamRight(c)'
<1>1. C!Hooked(c)' = C!Hooked(c) BY DEF C!Hooked
<1>2. C!Waits(c)' = C!Waits(c) BY DEF C!Waits
<1> QED BY <1>1, <1>2 DEF C!ParamRight

LEMMA StepProgramHook == C!CreationInv /\ C!ProgramHook => C!CreationInv'
<1> SUFFICES ASSUME C!CreationInv, C!ProgramHook PROVE C!CreationInv'
  OBVIOUS
<1> DEFINE h == [proc |-> "program", owner |-> NullParam]
<1>1. cHooks' = Append(cHooks, h) /\ UNCHANGED <<cCreations, cFrames, cWrapped, cReceived>>
  BY DEF C!ProgramHook
<1>2. h \in HookType /\ h.proc = "program" /\ h.owner = NullParam BY DEF HookType
<1> HIDE DEF h
<1>3. cHooks \in Seq(HookType) /\ cCreations \in Seq(C!Creations) /\ cFrames \in Seq(FrameType)
  BY DEF C!CreationInv, C!TypeOK, HookType, FrameType
<1>4. /\ cHooks' \in Seq(HookType) /\ Len(cHooks') = Len(cHooks) + 1 /\ cHooks'[Len(cHooks')] = h
      /\ DOMAIN cHooks' \in SUBSET Nat /\ DOMAIN cHooks \in SUBSET Nat /\ Len(cHooks) \in Nat
      /\ \A i \in DOMAIN cHooks : i \in DOMAIN cHooks' /\ cHooks'[i] = cHooks[i]
      /\ \A i \in DOMAIN cHooks' : i # Len(cHooks') => i \in DOMAIN cHooks /\ cHooks'[i] = cHooks[i]
  BY <1>1, <1>2, <1>3, Appended
<1>5. \A k, w : w # NullParam => (k \in DOMAIN cHooks' /\ cHooks'[k].owner = w
                                  <=> k \in DOMAIN cHooks /\ cHooks[k].owner = w)
  BY <1>2, <1>4
<1>6. \A k \in DOMAIN cHooks' : cHooks'[k].proc # "program" =>
         k \in DOMAIN cHooks /\ cHooks'[k] = cHooks[k]
  BY <1>2, <1>4
<1>7. /\ \A i \in DOMAIN cFrames : cFrames[i].owner # NullParam
      /\ \A m \in DOMAIN cCreations : cCreations[m].win # NullParam /\ cCreations[m].win \in Windows
                                     /\ (cCreations[m].turn # 0 => cCreations[m].turn \in Nat)
  <2>1. \A m \in DOMAIN cCreations : cCreations[m] \in C!Creations BY <1>3
  <2>2. \A m \in DOMAIN cCreations : cCreations[m].win \in Windows /\ cCreations[m].turn \in Nat
    BY <2>1 DEF C!Creations
  <2>3. \A i \in DOMAIN cFrames : cFrames[i] \in FrameType BY <1>3
  <2>4. \A i \in DOMAIN cFrames : cFrames[i].owner \in Windows BY <2>3 DEF FrameType
  <2> QED BY <2>2, <2>4, CreationAssumption
<1>8. C!TypeOK' BY <1>1, <1>4 DEF C!CreationInv, C!TypeOK, HookType
<1>9. C!NothingLeft'
  <2>1. \A k \in DOMAIN cHooks' : cHooks'[k].proc # "program" =>
          \E i \in DOMAIN cFrames : cFrames[i].owner = cHooks'[k].owner
    BY <1>6 DEF C!CreationInv, C!NothingLeft
  <2>2. \A i \in DOMAIN cFrames : \E k \in DOMAIN cHooks' : cHooks'[k].owner = cFrames[i].owner
    <3> TAKE i \in DOMAIN cFrames
    <3>1. PICK k \in DOMAIN cHooks : cHooks[k].owner = cFrames[i].owner BY DEF C!CreationInv, C!NothingLeft
    <3> QED BY <1>4, <3>1
  <2>3. \A i, j \in DOMAIN cFrames : \A k, l \in DOMAIN cHooks' :
          cHooks'[k].owner = cFrames[i].owner /\ cHooks'[l].owner = cFrames[j].owner => (i < j <=> k < l)
    <3> TAKE i, j \in DOMAIN cFrames
    <3> TAKE k, l \in DOMAIN cHooks'
    <3> HAVE cHooks'[k].owner = cFrames[i].owner /\ cHooks'[l].owner = cFrames[j].owner
    <3>1. /\ k \in DOMAIN cHooks /\ cHooks[k].owner = cFrames[i].owner
          /\ l \in DOMAIN cHooks /\ cHooks[l].owner = cFrames[j].owner
      BY <1>5, <1>7
    <3> QED BY <3>1 DEF C!CreationInv, C!NothingLeft
  <2> QED BY <1>1, <2>1, <2>2, <2>3 DEF C!CreationInv, C!NothingLeft
<1>10. C!OwnersInv'
  <2>1. \A k \in DOMAIN cHooks' : cHooks'[k].proc = "program" <=> cHooks'[k].owner = NullParam
    BY <1>2, <1>4 DEF C!CreationInv, C!OwnersInv
  <2>2. \A m \in DOMAIN cCreations : \A k \in DOMAIN cHooks' : cHooks'[k].owner = cCreations[m].win =>
          cHooks'[k].proc = (IF cCreations[m].ansi THEN "CBTProc" ELSE "CBTProcU")
    <3> TAKE m \in DOMAIN cCreations
    <3> TAKE k \in DOMAIN cHooks'
    <3> HAVE cHooks'[k].owner = cCreations[m].win
    <3>1. k \in DOMAIN cHooks /\ cHooks[k].owner = cCreations[m].win /\ cHooks'[k] = cHooks[k] BY <1>4, <1>5, <1>7
    <3> QED BY <3>1 DEF C!CreationInv, C!OwnersInv
  <2> QED BY <1>1, <2>1, <2>2 DEF C!CreationInv, C!OwnersInv
<1>11. C!TurnsInv'
  <2>1. ASSUME NEW m \in DOMAIN cCreations, cCreations[m].step = "hooks"
        PROVE  /\ cCreations[m].turn <= Len(cHooks')
               /\ cCreations[m].turn # 0 => cCreations[m].turn \in DOMAIN cHooks
               /\ \A l \in DOMAIN cCreations, k \in DOMAIN cHooks' :
                     l > m /\ cHooks'[k].owner = cCreations[l].win => k > cCreations[m].turn
    <3>1. cCreations[m].turn <= Len(cHooks) BY <2>1 DEF C!CreationInv, C!TurnsInv
    <3>2. cCreations[m].turn \in Nat BY <1>7
    <3>3. cCreations[m].turn <= Len(cHooks') BY <1>4, <3>1, <3>2
    <3>4. cCreations[m].turn # 0 => cCreations[m].turn \in DOMAIN cHooks BY <1>3, <3>1, <3>2
    <3>5. \A l \in DOMAIN cCreations, k \in DOMAIN cHooks' :
             l > m /\ cHooks'[k].owner = cCreations[l].win => k > cCreations[m].turn
      <4> TAKE l \in DOMAIN cCreations, k \in DOMAIN cHooks'
      <4> HAVE l > m /\ cHooks'[k].owner = cCreations[l].win
      <4>1. k \in DOMAIN cHooks /\ cHooks[k].owner = cCreations[l].win BY <1>5, <1>7
      <4> QED BY <2>1, <4>1 DEF C!CreationInv, C!TurnsInv
    <3> QED BY <3>3, <3>4, <3>5
  <2>2. \A m \in DOMAIN cCreations : m < Len(cCreations) =>
          \/ cCreations[m].step = "messages"
          \/ /\ cCreations[m].step = "hooks" /\ cCreations[m].turn # 0
             /\ cHooks'[cCreations[m].turn].proc = "program"
    BY <1>4, <2>1 DEF C!CreationInv, C!TurnsInv
  <2> QED BY <1>1, <2>1, <2>2 DEF C!TurnsInv
<1>12. C!ParamsInv'
  <2>1. ASSUME NEW m \in DOMAIN cCreations PROVE C!ParamRight(cCreations[m])'
    <3> DEFINE c == cCreations[m]
    <3>1. C!ParamRight(c) /\ c.win # NullParam /\ c' = c BY <1>1, <1>7 DEF C!CreationInv, C!ParamsInv
    <3>2. cWrapped' = cWrapped /\ cReceived' = cReceived /\ cCreations' = cCreations BY <1>1
    <3>3. \A k : k \in DOMAIN cHooks' /\ cHooks'[k].owner = c.win
                 <=> k \in DOMAIN cHooks /\ cHooks[k].owner = c.win
      BY <1>5, <3>1
    <3>4. C!Hooked(c)' = C!Hooked(c) BY <3>2, <3>3 DEF C!Hooked
    <3>5. C!Waits(c)' = C!Waits(c) BY <3>2, <3>3 DEF C!Waits
    <3> QED BY <3>1, <3>2, <3>4, <3>5 DEF C!ParamRight
  <2>2. \A w \in Windows : C!Used(w)' = C!Used(w) BY <1>1 DEF C!Used
  <2> QED BY <1>1, <2>1, <2>2 DEF C!CreationInv, C!ParamsInv
<1> QED BY <1>8, <1>9, <1>10, <1>11, <1>12 DEF C!CreationInv

(* The windows of the creations, and the hooks and frames, are no others'.   *)
LEMMA OwnersAre ==
  ASSUME C!CreationInv
  PROVE  /\ cCreations \in Seq(C!Creations) /\ cHooks \in Seq(HookType) /\ cFrames \in Seq(FrameType)
         /\ DOMAIN cCreations \in SUBSET Nat /\ DOMAIN cHooks \in SUBSET Nat /\ DOMAIN cFrames \in SUBSET Nat
         /\ \A m \in DOMAIN cCreations : /\ cCreations[m].win \in Windows /\ cCreations[m].win # NullParam
                                         /\ cCreations[m].turn \in Nat
         /\ \A i \in DOMAIN cFrames : /\ cFrames[i].owner \in Windows /\ cFrames[i].owner # NullParam
                                      /\ \E m \in DOMAIN cCreations : cCreations[m].win = cFrames[i].owner
         /\ \A k \in DOMAIN cHooks : cHooks[k].owner # NullParam =>
               /\ cHooks[k].proc # "program"
               /\ \E i \in DOMAIN cFrames : cFrames[i].owner = cHooks[k].owner
               /\ \E m \in DOMAIN cCreations : cCreations[m].win = cHooks[k].owner
         /\ \A k \in DOMAIN cHooks : cHooks[k].proc # "program" => cHooks[k].owner # NullParam
         /\ NullParam \notin Windows
<1>1. cCreations \in Seq(C!Creations) /\ cHooks \in Seq(HookType) /\ cFrames \in Seq(FrameType)
  BY DEF C!CreationInv, C!TypeOK, HookType, FrameType
<1>2. \A m \in DOMAIN cCreations : cCreations[m] \in C!Creations BY <1>1
<1>3. \A m \in DOMAIN cCreations : cCreations[m].win \in Windows /\ cCreations[m].turn \in Nat
  BY <1>2 DEF C!Creations
<1>4. \A i \in DOMAIN cFrames : cFrames[i] \in FrameType BY <1>1
<1>5. \A i \in DOMAIN cFrames : cFrames[i].owner \in Windows BY <1>4 DEF FrameType
<1>6. NullParam \notin Windows BY CreationAssumption
<1>7. \A i \in DOMAIN cFrames : \E m \in DOMAIN cCreations : cCreations[m].win = cFrames[i].owner
  BY DEF C!CreationInv, C!NothingLeft
<1>8. \A k \in DOMAIN cHooks : cHooks[k].owner # NullParam <=> cHooks[k].proc # "program"
  BY DEF C!CreationInv, C!OwnersInv
<1>9. \A k \in DOMAIN cHooks : cHooks[k].proc # "program" =>
         \E i \in DOMAIN cFrames : cFrames[i].owner = cHooks[k].owner
  BY DEF C!CreationInv, C!NothingLeft
<1>10. DOMAIN cCreations \in SUBSET Nat /\ DOMAIN cHooks \in SUBSET Nat /\ DOMAIN cFrames \in SUBSET Nat
  BY <1>1
<1> QED BY <1>1, <1>3, <1>5, <1>6, <1>7, <1>8, <1>9, <1>10

(* A new creation, the innermost, with a hook and a frame or without both.   *)
LEMMA Begun ==
  ASSUME C!CreationInv, C!InProgram, NEW c \in C!Creations, ~C!Used(c.win), Len(cCreations) < MaxCreations,
         c.step = "called", cCreations' = Append(cCreations, c), UNCHANGED <<cWrapped, cReceived>>,
         NEW hooked \in BOOLEAN, NEW h \in HookType, NEW fr \in FrameType,
         h.owner = c.win, h.proc = (IF c.ansi THEN "CBTProc" ELSE "CBTProcU"),
         fr.owner = c.win, fr.stack = (IF c.ansi THEN c.win ELSE NullParam),
         hooked => cHooks' = Append(cHooks, h) /\ cFrames' = Append(cFrames, fr),
         ~hooked => UNCHANGED <<cHooks, cFrames>>,
         c.param = (IF c.ansi /\ hooked THEN c.win ELSE c.own)
  PROVE  C!CreationInv'
<1> DEFINE n == Len(cCreations)
<1>1. c.win \in Windows /\ c.win # NullParam BY OwnersAre DEF C!Creations
<1>2. /\ cCreations' \in Seq(C!Creations) /\ Len(cCreations') = n + 1 /\ cCreations'[n + 1] = c
      /\ n + 1 \in DOMAIN cCreations' /\ DOMAIN cCreations' \in SUBSET Nat /\ DOMAIN cCreations \in SUBSET Nat
      /\ n \in Nat
      /\ \A m \in DOMAIN cCreations : m \in DOMAIN cCreations' /\ cCreations'[m] = cCreations[m] /\ m < n + 1 /\ m <= n
      /\ \A m \in DOMAIN cCreations' : m # n + 1 =>
            m \in DOMAIN cCreations /\ cCreations'[m] = cCreations[m] /\ m < n + 1
  BY Appended, OwnersAre
<1>3. /\ cHooks' \in Seq(HookType) /\ DOMAIN cHooks' \in SUBSET Nat /\ Len(cHooks) \in Nat /\ Len(cHooks') \in Nat
      /\ Len(cHooks) <= Len(cHooks')
      /\ hooked => /\ Len(cHooks) + 1 \in DOMAIN cHooks' /\ cHooks'[Len(cHooks) + 1] = h
      /\ \A k \in DOMAIN cHooks : k \in DOMAIN cHooks' /\ cHooks'[k] = cHooks[k] /\ k <= Len(cHooks)
      /\ \A k \in DOMAIN cHooks' : k \notin DOMAIN cHooks =>
            hooked /\ k = Len(cHooks) + 1 /\ cHooks'[k] = h
  <2>1. CASE hooked
    <3>1. cHooks \in Seq(HookType) /\ cHooks' = Append(cHooks, h) BY <2>1, OwnersAre
    <3>2. /\ cHooks' \in Seq(HookType) /\ Len(cHooks') = Len(cHooks) + 1 /\ cHooks'[Len(cHooks')] = h
          /\ Len(cHooks') \in DOMAIN cHooks' /\ DOMAIN cHooks' \in SUBSET Nat /\ Len(cHooks) \in Nat
          /\ \A k \in DOMAIN cHooks : k \in DOMAIN cHooks' /\ cHooks'[k] = cHooks[k] /\ k <= Len(cHooks)
          /\ \A k \in DOMAIN cHooks' : k # Len(cHooks') => k \in DOMAIN cHooks
      BY <3>1, Appended
    <3> QED BY <2>1, <3>2
  <2>2. CASE ~hooked
    <3>1. cHooks \in Seq(HookType) /\ cHooks' = cHooks BY <2>2, OwnersAre
    <3> QED BY <2>2, <3>1
  <2> QED BY <2>1, <2>2
<1>4. /\ cFrames' \in Seq(FrameType) /\ DOMAIN cFrames' \in SUBSET Nat /\ Len(cFrames) \in Nat
      /\ hooked => /\ Len(cFrames) + 1 \in DOMAIN cFrames' /\ cFrames'[Len(cFrames) + 1] = fr
      /\ \A k \in DOMAIN cFrames : k \in DOMAIN cFrames' /\ cFrames'[k] = cFrames[k] /\ k <= Len(cFrames)
      /\ \A k \in DOMAIN cFrames' : k \notin DOMAIN cFrames =>
            hooked /\ k = Len(cFrames) + 1 /\ cFrames'[k] = fr
  <2>1. CASE hooked
    <3>1. cFrames \in Seq(FrameType) /\ cFrames' = Append(cFrames, fr) BY <2>1, OwnersAre
    <3>2. /\ cFrames' \in Seq(FrameType) /\ Len(cFrames') = Len(cFrames) + 1 /\ cFrames'[Len(cFrames')] = fr
          /\ Len(cFrames') \in DOMAIN cFrames' /\ DOMAIN cFrames' \in SUBSET Nat /\ Len(cFrames) \in Nat
          /\ \A k \in DOMAIN cFrames : k \in DOMAIN cFrames' /\ cFrames'[k] = cFrames[k] /\ k <= Len(cFrames)
          /\ \A k \in DOMAIN cFrames' : k # Len(cFrames') => k \in DOMAIN cFrames
      BY <3>1, Appended
    <3> QED BY <2>1, <3>2
  <2>2. CASE ~hooked
    <3>1. cFrames \in Seq(FrameType) /\ cFrames' = cFrames BY <2>2, OwnersAre
    <3> QED BY <2>2, <3>1
  <2> QED BY <2>1, <2>2
<1>5. /\ \A m \in DOMAIN cCreations : cCreations[m].win # c.win
      /\ \A i \in DOMAIN cFrames : cFrames[i].owner # c.win
      /\ \A k \in DOMAIN cHooks : cHooks[k].owner # c.win
  <2>1. \A m \in DOMAIN cCreations : cCreations[m].win # c.win BY DEF C!Used
  <2> QED BY <1>1, <2>1, OwnersAre
<1> HIDE DEF n
<1>20. \A m \in DOMAIN cCreations' :
          IF m \in DOMAIN cCreations THEN cCreations'[m] = cCreations[m] /\ m < n + 1
          ELSE m = n + 1 /\ cCreations'[m] = c
  BY <1>2
<1>21. \A m \in DOMAIN cCreations' : cCreations'[m].win = c.win <=> m \notin DOMAIN cCreations
  BY <1>5, <1>20
<1>30. \A k \in DOMAIN cHooks' :
          IF k \in DOMAIN cHooks THEN cHooks'[k] = cHooks[k] /\ k <= Len(cHooks)
          ELSE hooked /\ k = Len(cHooks) + 1 /\ cHooks'[k] = h
  BY <1>3
<1>31. \A k \in DOMAIN cHooks' : cHooks'[k].owner = c.win <=> k \notin DOMAIN cHooks
  BY <1>5, <1>30
<1>40. \A i \in DOMAIN cFrames' :
          IF i \in DOMAIN cFrames THEN cFrames'[i] = cFrames[i] /\ i <= Len(cFrames)
          ELSE hooked /\ i = Len(cFrames) + 1 /\ cFrames'[i] = fr
  BY <1>4
<1>41. \A i \in DOMAIN cFrames' : cFrames'[i].owner = c.win <=> i \notin DOMAIN cFrames
  BY <1>5, <1>40
<1>42. /\ DOMAIN cHooks' \in SUBSET Nat /\ DOMAIN cFrames' \in SUBSET Nat /\ DOMAIN cCreations' \in SUBSET Nat
       /\ Len(cHooks) \in Nat /\ Len(cFrames) \in Nat /\ n \in Nat
  BY <1>2, <1>3, <1>4
<1>6. \A k, w : w # c.win => (k \in DOMAIN cHooks' /\ cHooks'[k].owner = w
                              <=> k \in DOMAIN cHooks /\ cHooks[k].owner = w)
  BY <1>3
<1>7. C!TypeOK'
  <2>1. n + 1 <= MaxCreations
    <3>1. MaxCreations \in Nat BY CreationAssumption
    <3> QED BY <1>2, <3>1 DEF n
  <2>2. Len(cCreations') <= MaxCreations BY <1>2, <2>1
  <2> QED BY <1>2, <1>3, <1>4, <2>2 DEF C!CreationInv, C!TypeOK, HookType, FrameType
<1>8. C!NothingLeft'
  <2>1. \A k \in DOMAIN cHooks' : cHooks'[k].proc # "program" =>
          \E i \in DOMAIN cFrames' : cFrames'[i].owner = cHooks'[k].owner
    <3> TAKE k \in DOMAIN cHooks'
    <3> HAVE cHooks'[k].proc # "program"
    <3>1. CASE k \in DOMAIN cHooks
      <4>1. cHooks'[k] = cHooks[k] BY <1>3, <3>1
      <4>2. PICK i \in DOMAIN cFrames : cFrames[i].owner = cHooks[k].owner
        BY <3>1, <4>1 DEF C!CreationInv, C!NothingLeft
      <4> QED BY <1>4, <4>1, <4>2
    <3>2. CASE k \notin DOMAIN cHooks BY <1>3, <1>4, <3>2
    <3> QED BY <3>1, <3>2
  <2>2. \A i \in DOMAIN cFrames' :
          /\ \E k \in DOMAIN cHooks' : cHooks'[k].owner = cFrames'[i].owner
          /\ \E m \in DOMAIN cCreations' : cCreations'[m].win = cFrames'[i].owner
    <3> TAKE i \in DOMAIN cFrames'
    <3>1. CASE i \in DOMAIN cFrames
      <4>1. cFrames'[i] = cFrames[i] BY <1>4, <3>1
      <4>2. PICK k \in DOMAIN cHooks : cHooks[k].owner = cFrames[i].owner
        BY <3>1 DEF C!CreationInv, C!NothingLeft
      <4>3. PICK m \in DOMAIN cCreations : cCreations[m].win = cFrames[i].owner
        BY <3>1 DEF C!CreationInv, C!NothingLeft
      <4> QED BY <1>2, <1>3, <4>1, <4>2, <4>3
    <3>2. CASE i \notin DOMAIN cFrames
      <4>1. hooked /\ cFrames'[i].owner = c.win BY <1>40, <3>2
      <4>2. Len(cHooks) + 1 \in DOMAIN cHooks' /\ cHooks'[Len(cHooks) + 1].owner = c.win BY <1>3, <4>1
      <4>3. n + 1 \in DOMAIN cCreations' /\ cCreations'[n + 1].win = c.win BY <1>2
      <4> QED BY <4>1, <4>2, <4>3
    <3> QED BY <3>1, <3>2
  <2>3. ASSUME NEW i \in DOMAIN cFrames', NEW j \in DOMAIN cFrames',
               NEW k \in DOMAIN cHooks', NEW l \in DOMAIN cHooks',
               cHooks'[k].owner = cFrames'[i].owner, cHooks'[l].owner = cFrames'[j].owner
        PROVE  i < j <=> k < l
    <3>1. i \in DOMAIN cFrames <=> k \in DOMAIN cHooks BY <1>31, <1>41, <2>3
    <3>2. j \in DOMAIN cFrames <=> l \in DOMAIN cHooks BY <1>31, <1>41, <2>3
    <3>3. i \in Nat /\ j \in Nat /\ k \in Nat /\ l \in Nat /\ Len(cHooks) \in Nat /\ Len(cFrames) \in Nat
      BY <1>42
    <3>4. i \notin DOMAIN cFrames => i = Len(cFrames) + 1 /\ k = Len(cHooks) + 1 BY <1>30, <1>40, <3>1
    <3>5. j \notin DOMAIN cFrames => j = Len(cFrames) + 1 /\ l = Len(cHooks) + 1 BY <1>30, <1>40, <3>2
    <3>6. i \in DOMAIN cFrames => i <= Len(cFrames) /\ k <= Len(cHooks) BY <1>30, <1>40, <3>1
    <3>7. j \in DOMAIN cFrames => j <= Len(cFrames) /\ l <= Len(cHooks) BY <1>30, <1>40, <3>2
    <3>8. CASE i \in DOMAIN cFrames /\ j \in DOMAIN cFrames
      <4>1. cHooks'[k] = cHooks[k] /\ cHooks'[l] = cHooks[l] BY <1>30, <3>1, <3>2, <3>8
      <4>2. cFrames'[i] = cFrames[i] /\ cFrames'[j] = cFrames[j] BY <1>40, <3>8
      <4>3. cHooks[k].owner = cFrames[i].owner /\ cHooks[l].owner = cFrames[j].owner BY <2>3, <4>1, <4>2
      <4> QED BY <3>1, <3>2, <3>8, <4>3 DEF C!CreationInv, C!NothingLeft
    <3>9. CASE ~(i \in DOMAIN cFrames /\ j \in DOMAIN cFrames) BY <3>3, <3>4, <3>5, <3>6, <3>7, <3>9
    <3> QED BY <3>8, <3>9
  <2>4. ASSUME NEW i \in DOMAIN cFrames', NEW j \in DOMAIN cFrames',
               NEW k \in DOMAIN cCreations', NEW l \in DOMAIN cCreations',
               cCreations'[k].win = cFrames'[i].owner, cCreations'[l].win = cFrames'[j].owner
        PROVE  i < j <=> k < l
    <3>1. i \in DOMAIN cFrames <=> k \in DOMAIN cCreations BY <1>21, <1>41, <2>4
    <3>2. j \in DOMAIN cFrames <=> l \in DOMAIN cCreations BY <1>21, <1>41, <2>4
    <3>3. i \in Nat /\ j \in Nat /\ k \in Nat /\ l \in Nat /\ n \in Nat /\ Len(cFrames) \in Nat
      BY <1>42
    <3>4. i \notin DOMAIN cFrames => i = Len(cFrames) + 1 /\ k = n + 1 BY <1>20, <1>40, <3>1
    <3>5. j \notin DOMAIN cFrames => j = Len(cFrames) + 1 /\ l = n + 1 BY <1>20, <1>40, <3>2
    <3>6. i \in DOMAIN cFrames => i <= Len(cFrames) /\ k < n + 1 BY <1>20, <1>40, <3>1
    <3>7. j \in DOMAIN cFrames => j <= Len(cFrames) /\ l < n + 1 BY <1>20, <1>40, <3>2
    <3>8. CASE i \in DOMAIN cFrames /\ j \in DOMAIN cFrames
      <4>1. cCreations'[k] = cCreations[k] /\ cCreations'[l] = cCreations[l] BY <1>20, <3>1, <3>2, <3>8
      <4>2. cFrames'[i] = cFrames[i] /\ cFrames'[j] = cFrames[j] BY <1>40, <3>8
      <4>3. cCreations[k].win = cFrames[i].owner /\ cCreations[l].win = cFrames[j].owner BY <2>4, <4>1, <4>2
      <4> QED BY <3>1, <3>2, <3>8, <4>3 DEF C!CreationInv, C!NothingLeft
    <3>9. CASE ~(i \in DOMAIN cFrames /\ j \in DOMAIN cFrames) BY <3>3, <3>4, <3>5, <3>6, <3>7, <3>9
    <3> QED BY <3>8, <3>9
  <2>5. \A i, j \in DOMAIN cFrames' : \A k, l \in DOMAIN cHooks' :
          cHooks'[k].owner = cFrames'[i].owner /\ cHooks'[l].owner = cFrames'[j].owner => (i < j <=> k < l)
    BY <2>3
  <2>6. \A i, j \in DOMAIN cFrames' : \A k, l \in DOMAIN cCreations' :
          cCreations'[k].win = cFrames'[i].owner /\ cCreations'[l].win = cFrames'[j].owner => (i < j <=> k < l)
    BY <2>4
  <2> QED BY <2>1, <2>2, <2>5, <2>6 DEF C!NothingLeft
<1>9. C!OwnersInv'
  <2>1. \A i, j \in DOMAIN cCreations' : cCreations'[i].win = cCreations'[j].win => i = j
    BY <1>2, <1>5 DEF C!CreationInv, C!OwnersInv
  <2>2. \A k \in DOMAIN cHooks' : cHooks'[k].proc = "program" <=> cHooks'[k].owner = NullParam
    BY <1>1, <1>3 DEF C!CreationInv, C!OwnersInv
  <2>3. ASSUME NEW m \in DOMAIN cCreations'
        PROVE  /\ \A k \in DOMAIN cHooks' : cHooks'[k].owner = cCreations'[m].win =>
                     cHooks'[k].proc = (IF cCreations'[m].ansi THEN "CBTProc" ELSE "CBTProcU")
               /\ \A i \in DOMAIN cFrames' : cFrames'[i].owner = cCreations'[m].win =>
                     cFrames'[i].stack = (IF cCreations'[m].ansi THEN cCreations'[m].win ELSE NullParam)
    <3>1. CASE m = n + 1
      <4>1. cCreations'[m] = c BY <1>2, <3>1
      <4>2. \A k \in DOMAIN cHooks' : cHooks'[k].owner = c.win => cHooks'[k] = h BY <1>30, <1>31
      <4>3. \A i \in DOMAIN cFrames' : cFrames'[i].owner = c.win => cFrames'[i] = fr BY <1>40, <1>41
      <4> QED BY <4>1, <4>2, <4>3
    <3>2. CASE m # n + 1
      <4>1. m \in DOMAIN cCreations /\ cCreations'[m] = cCreations[m] BY <1>2, <3>2
      <4>2. cCreations[m].win # c.win BY <1>5, <4>1
      <4>3. ASSUME NEW k \in DOMAIN cHooks', cHooks'[k].owner = cCreations[m].win
            PROVE  cHooks'[k].proc = (IF cCreations[m].ansi THEN "CBTProc" ELSE "CBTProcU")
        <5>1. k \in DOMAIN cHooks /\ cHooks'[k] = cHooks[k] BY <1>3, <4>2, <4>3
        <5> QED BY <4>1, <4>3, <5>1 DEF C!CreationInv, C!OwnersInv
      <4>4. ASSUME NEW i \in DOMAIN cFrames', cFrames'[i].owner = cCreations[m].win
            PROVE  cFrames'[i].stack = (IF cCreations[m].ansi THEN cCreations[m].win ELSE NullParam)
        <5>1. i \in DOMAIN cFrames /\ cFrames'[i] = cFrames[i] BY <1>4, <4>2, <4>4
        <5> QED BY <4>1, <4>4, <5>1 DEF C!CreationInv, C!OwnersInv
      <4> QED BY <4>1, <4>3, <4>4
    <3> QED BY <3>1, <3>2
  <2> QED BY <2>1, <2>2, <2>3 DEF C!OwnersInv
<1>10. C!TurnsInv'
  <2>1. ASSUME NEW m \in DOMAIN cCreations', m # n + 1
        PROVE  /\ \/ cCreations'[m].step = "messages"
                  \/ /\ cCreations'[m].step = "hooks" /\ cCreations'[m].turn # 0
                     /\ cCreations'[m].turn \in DOMAIN cHooks
                     /\ cHooks[cCreations'[m].turn].proc = "program"
               /\ cCreations'[m].step = "hooks" => cCreations'[m].turn <= Len(cHooks)
               /\ m \in DOMAIN cCreations /\ cCreations'[m] = cCreations[m] /\ cCreations[m].turn \in Nat
    <3>1. m \in DOMAIN cCreations /\ cCreations'[m] = cCreations[m] /\ cCreations[m].turn \in Nat
      BY <1>2, <2>1, OwnersAre
    <3>2. cCreations[m].step = "hooks" => cCreations[m].turn <= Len(cHooks)
      BY <3>1 DEF C!CreationInv, C!TurnsInv
    <3>3. cCreations[m].step = "hooks" /\ cCreations[m].turn # 0 => cCreations[m].turn \in DOMAIN cHooks
      BY <3>1, <3>2, OwnersAre
    <3>4. \/ cCreations[m].step = "messages"
          \/ /\ cCreations[m].step = "hooks" /\ cCreations[m].turn # 0
             /\ cHooks[cCreations[m].turn].proc = "program"
      <4>1. CASE m < n BY <3>1, <4>1 DEF C!CreationInv, C!TurnsInv, n
      <4>2. CASE ~(m < n)
        <5>1. m = n /\ cCreations # <<>> BY <1>2, <3>1, <4>2 DEF n
        <5>2. cCreations[m] = C!Top BY <5>1 DEF C!Top, n
        <5> QED BY <5>1, <5>2 DEF C!InProgram, C!Hook
      <4> QED BY <4>1, <4>2
    <3> QED BY <3>1, <3>2, <3>3, <3>4
  <2>2. ASSUME NEW m \in DOMAIN cCreations', cCreations'[m].step = "hooks",
               NEW l \in DOMAIN cCreations', NEW k \in DOMAIN cHooks',
               l > m, cHooks'[k].owner = cCreations'[l].win
        PROVE  k > cCreations'[m].turn
    <3>1. m # n + 1 BY <1>2, <2>2
    <3>2. CASE l = n + 1
      <4>1. k = Len(cHooks) + 1 BY <1>2, <1>3, <1>5, <2>2, <3>2
      <4>2. cCreations'[m].turn <= Len(cHooks) /\ cCreations'[m].turn \in Nat BY <2>1, <2>2, <3>1
      <4> QED BY <1>3, <4>1, <4>2
    <3>3. CASE l # n + 1
      <4>1. l \in DOMAIN cCreations /\ cCreations'[l] = cCreations[l] BY <1>2, <3>3
      <4>2. k \in DOMAIN cHooks /\ cHooks[k].owner = cCreations[l].win BY <1>5, <1>6, <2>2, <4>1
      <4>3. m \in DOMAIN cCreations /\ cCreations'[m] = cCreations[m] BY <2>1, <3>1
      <4> QED BY <2>2, <4>1, <4>2, <4>3 DEF C!CreationInv, C!TurnsInv
    <3> QED BY <3>2, <3>3
  <2>3. \A m \in DOMAIN cCreations' : cCreations'[m].step = "hooks" => cCreations'[m].turn <= Len(cHooks')
    <3> TAKE m \in DOMAIN cCreations'
    <3> HAVE cCreations'[m].step = "hooks"
    <3>1. m # n + 1 BY <1>2
    <3> QED BY <1>3, <2>1, <3>1
  <2>4. \A m \in DOMAIN cCreations' : m < Len(cCreations') =>
          \/ cCreations'[m].step = "messages"
          \/ /\ cCreations'[m].step = "hooks" /\ cCreations'[m].turn # 0
             /\ cHooks'[cCreations'[m].turn].proc = "program"
    <3> TAKE m \in DOMAIN cCreations'
    <3> HAVE m < Len(cCreations')
    <3>1. m # n + 1 BY <1>2
    <3> QED BY <1>3, <2>1, <3>1
  <2> QED BY <2>2, <2>3, <2>4 DEF C!TurnsInv
<1>11. C!ParamsInv'
  <2>1. ASSUME NEW m \in DOMAIN cCreations' PROVE C!ParamRight(cCreations[m])'
    <3>1. CASE m = n + 1
      <4>1. cCreations'[m] = c BY <1>2, <3>1
      <4>2. C!Hooked(c)' = hooked
        <5>1. hooked => Len(cHooks) + 1 \in DOMAIN cHooks' /\ cHooks'[Len(cHooks) + 1].owner = c.win BY <1>3
        <5>2. \A k \in DOMAIN cHooks' : cHooks'[k].owner = c.win => hooked BY <1>30, <1>31
        <5> QED BY <5>1, <5>2 DEF C!Hooked
      <4>3. C!Waits(c)' = TRUE BY DEF C!Waits
      <4>4. cWrapped'[c.win] = 0 /\ cReceived'[c.win] = C!NotSeen
        BY <1>1 DEF C!CreationInv, C!ParamsInv, C!Used
      <4>5. C!ParamRight(c)' BY <4>2, <4>3, <4>4 DEF C!ParamRight
      <4> QED BY <4>1, <4>5 DEF C!ParamRight, C!Hooked, C!Waits
    <3>2. CASE m # n + 1
      <4> DEFINE d == cCreations[m]
      <4>1. m \in DOMAIN cCreations /\ cCreations'[m] = d /\ d.win # c.win /\ d.win \in Windows
        BY <1>2, <1>5, <3>2, OwnersAre
      <4>2. C!ParamRight(d) BY <4>1 DEF C!CreationInv, C!ParamsInv
      <4>3. \A k : k \in DOMAIN cHooks' /\ cHooks'[k].owner = d.win
                   <=> k \in DOMAIN cHooks /\ cHooks[k].owner = d.win
        BY <1>6, <4>1
      <4> QED BY <4>1, <4>2, <4>3 DEF C!ParamRight, C!Hooked, C!Waits
    <3> QED BY <3>1, <3>2
  <2>2. ASSUME NEW w \in Windows, ~C!Used(w)' PROVE cWrapped'[w] = 0
    <3>1. ~C!Used(w) BY <1>2, <2>2 DEF C!Used
    <3> QED BY <3>1 DEF C!CreationInv, C!ParamsInv
  <2> QED BY <2>1, <2>2 DEF C!ParamsInv
<1> QED BY <1>7, <1>8, <1>9, <1>10, <1>11 DEF C!CreationInv

LEMMA StepCreateWindow ==
  ASSUME C!CreationInv, NEW w \in Windows, NEW ansi \in BOOLEAN, NEW hooked \in BOOLEAN, NEW own \in C!Given,
         C!CreateWindow(w, ansi, own, hooked)
  PROVE  C!CreationInv'
<1> DEFINE c == [win |-> w, ansi |-> ansi, own |-> own, param |-> IF hooked /\ ansi THEN w ELSE own,
                 step |-> "called", turn |-> 0]
           h == [proc |-> IF ansi THEN "CBTProc" ELSE "CBTProcU", owner |-> w]
           fr == [kind |-> C!Kind, owner |-> w, stack |-> IF ansi THEN w ELSE NullParam]
<1>1. /\ C!InProgram /\ ~C!Used(w) /\ Len(cCreations) < MaxCreations
      /\ cCreations' = Append(cCreations, c) /\ UNCHANGED <<cWrapped, cReceived>>
  BY DEF C!CreateWindow
<1>2. hooked => cHooks' = Append(cHooks, h) /\ cFrames' = Append(cFrames, fr)
  BY DEF C!CreateWindow, C!InstallCbtHook, C!InstallUnicodeCbtHook, C!PushFrame
<1>3. ~hooked => UNCHANGED <<cHooks, cFrames>> BY DEF C!CreateWindow
<1>4. /\ c \in C!Creations /\ c.win = w /\ c.ansi = ansi /\ c.own = own /\ c.step = "called"
      /\ c.param = (IF hooked /\ ansi THEN w ELSE own)
  BY DEF C!Creations
<1>5. h \in HookType /\ h.owner = w /\ h.proc = (IF ansi THEN "CBTProc" ELSE "CBTProcU")
  BY DEF HookType
<1>6. fr \in FrameType /\ fr.owner = w /\ fr.stack = (IF ansi THEN w ELSE NullParam)
  BY DEF FrameType
<1> HIDE DEF c, h, fr
<1>7. c.param = (IF c.ansi /\ hooked THEN c.win ELSE c.own) BY <1>4
<1>8. h.proc = (IF c.ansi THEN "CBTProc" ELSE "CBTProcU") /\ fr.stack = (IF c.ansi THEN c.win ELSE NullParam)
  BY <1>4, <1>5, <1>6
<1> QED BY <1>1, <1>2, <1>3, <1>4, <1>5, <1>6, <1>7, <1>8, Begun

(* What a return leaves: the hooks of the creations around it, at their      *)
(* places, and their frames.                                                 *)
LEMMA Uninstalled ==
  ASSUME C!CreationInv, cCreations # <<>>, C!UninstallCbtHook(C!Top.win)
  PROVE  /\ cHooks' \in Seq(HookType) /\ cFrames' \in Seq(FrameType)
         /\ \A k \in DOMAIN cHooks' : cHooks'[k].proc = "program" <=> cHooks'[k].owner = NullParam
         /\ \A k, w : w # NullParam /\ w # C!Top.win =>
               (k \in DOMAIN cHooks' /\ cHooks'[k].owner = w <=> k \in DOMAIN cHooks /\ cHooks[k].owner = w)
         /\ \A k \in DOMAIN cHooks' : cHooks'[k].owner # C!Top.win
         /\ \A k \in DOMAIN cHooks' : cHooks'[k].owner # NullParam => k \in DOMAIN cHooks /\ cHooks'[k] = cHooks[k]
         /\ \A i : i \in DOMAIN cFrames' <=> i \in DOMAIN cFrames /\ cFrames[i].owner # C!Top.win
         /\ \A i \in DOMAIN cFrames' : cFrames'[i] = cFrames[i]
         /\ \A t \in DOMAIN cHooks :
               (\A k \in DOMAIN cHooks : cHooks[k].owner = C!Top.win => k > t) =>
                  t \in DOMAIN cHooks' /\ cHooks'[t] = cHooks[t]
<1> DEFINE at == {k \in DOMAIN cHooks : cHooks[k].owner = C!Top.win}
           pushed == {i \in DOMAIN cFrames : cFrames[i].owner = C!Top.win}
<1>1. /\ cHooks \in Seq(HookType) /\ cFrames \in Seq(FrameType) /\ C!Top.win # NullParam
      /\ DOMAIN cHooks \in SUBSET Nat /\ DOMAIN cFrames \in SUBSET Nat
  BY TopFacts
<1>2. /\ cHooks' = IF at = {} THEN cHooks
                  ELSE SubSeq(cHooks, 1, C!Max(at) - 1) \o SubSeq(cHooks, C!Max(at) + 1, Len(cHooks))
      /\ cFrames' = IF pushed = {} THEN cFrames ELSE SubSeq(cFrames, 1, C!Max(pushed) - 1)
  BY DEF C!UninstallCbtHook, C!Unhook, C!PopFrame
<1>3. \A k \in DOMAIN cHooks : cHooks[k].proc = "program" <=> cHooks[k].owner = NullParam
  BY DEF C!CreationInv, C!OwnersInv
<1>4. CASE at = {}
  <2>1. ~(cFrames # <<>> /\ cFrames[Len(cFrames)].owner = C!Top.win) BY <1>4, TopOwns
  <2>2. \A i \in DOMAIN cFrames : cFrames[i].owner # C!Top.win
    <3> SUFFICES ASSUME NEW i \in DOMAIN cFrames, cFrames[i].owner = C!Top.win PROVE FALSE
      OBVIOUS
    <3>1. i = Len(cFrames) BY TopOwns
    <3>2. cFrames # <<>> OBVIOUS
    <3> QED BY <2>1, <3>1, <3>2
  <2>3. pushed = {} BY <2>2
  <2>4. cHooks' = cHooks /\ cFrames' = cFrames BY <1>2, <1>4, <2>3
  <2>5. \A k \in DOMAIN cHooks : cHooks[k].owner # C!Top.win BY <1>4
  <2> HIDE DEF at, pushed
  <2> QED BY <1>1, <1>3, <2>2, <2>4, <2>5
<1>5. CASE at # {}
  <2>1. PICK k \in DOMAIN cHooks : cHooks[k].owner = C!Top.win BY <1>5
  <2>2. at = {k} BY <2>1, TopOwns
  <2>3. k \in Nat /\ k <= k BY <1>1
  <2>4. C!Max(at) = k
    <3>1. at \in SUBSET Nat /\ k \in at /\ \A y \in at : y <= k BY <2>2, <2>3
    <3> QED BY <3>1, MaxIs
  <2>5. cHooks' = Without(cHooks, k) BY <1>2, <1>5, <2>4 DEF Without
  <2>6. /\ cHooks' \in Seq(HookType) /\ DOMAIN cHooks' \in SUBSET Nat /\ DOMAIN cHooks \in SUBSET Nat
        /\ \A i \in DOMAIN cHooks' : /\ i < k => i \in DOMAIN cHooks /\ cHooks'[i] = cHooks[i]
                                     /\ i >= k => i + 1 \in DOMAIN cHooks /\ cHooks'[i] = cHooks[i + 1]
        /\ \A i \in DOMAIN cHooks : /\ i < k => i \in DOMAIN cHooks' /\ cHooks'[i] = cHooks[i]
                                    /\ i > k => i - 1 \in DOMAIN cHooks' /\ cHooks'[i - 1] = cHooks[i]
    <3>1. cHooks \in Seq(HookType) BY <1>1
    <3> QED BY <2>5, <3>1, Removed
  <2>7. cFrames # <<>> /\ cFrames[Len(cFrames)].owner = C!Top.win BY <2>1, TopOwns
  <2>8. Len(cFrames) \in DOMAIN cFrames /\ Len(cFrames) \in Nat BY <1>1, <2>7
  <2>9. pushed = {Len(cFrames)} BY <2>7, <2>8, TopOwns
  <2>10. C!Max(pushed) = Len(cFrames)
    <3>1. pushed \in SUBSET Nat /\ Len(cFrames) \in pushed /\ \A y \in pushed : y <= Len(cFrames) BY <2>8, <2>9
    <3> QED BY <3>1, MaxIs
  <2>11. cFrames' = ButLast(cFrames) BY <1>2, <2>9, <2>10 DEF ButLast
  <2>12. /\ cFrames' \in Seq(FrameType)
         /\ \A i \in DOMAIN cFrames' : i \in DOMAIN cFrames /\ cFrames'[i] = cFrames[i] /\ i < Len(cFrames)
         /\ \A i \in DOMAIN cFrames : i # Len(cFrames) => i \in DOMAIN cFrames'
    BY <1>1, <2>7, <2>11, LastCut
  <2> HIDE DEF at, pushed
  <2>13. \A i \in DOMAIN cFrames : cFrames[i].owner = C!Top.win <=> i = Len(cFrames) BY <2>7, TopOwns
  <2>14. \A i : i \in DOMAIN cFrames' <=> i \in DOMAIN cFrames /\ cFrames[i].owner # C!Top.win
    BY <2>8, <2>12, <2>13
  <2>15. \A l \in DOMAIN cHooks : cHooks[l].owner = C!Top.win => l = k BY <2>1, TopOwns
  <2>16. \A l \in DOMAIN cHooks : l > k => cHooks[l].proc = "program" /\ cHooks[l].owner = NullParam
    <3> TAKE l \in DOMAIN cHooks
    <3> HAVE l > k
    <3>1. ~(l <= k) BY <1>1
    <3> QED BY <1>3, <2>1, <3>1, TopOwns
  <2>17. \A i \in DOMAIN cHooks' : i >= k => cHooks'[i].proc = "program" /\ cHooks'[i].owner = NullParam
    <3> TAKE i \in DOMAIN cHooks'
    <3> HAVE i >= k
    <3>1. i + 1 \in DOMAIN cHooks /\ cHooks'[i] = cHooks[i + 1] BY <2>6
    <3>2. i + 1 > k BY <2>3, <2>6
    <3> QED BY <2>16, <3>1, <3>2
  <2>18. \A i \in DOMAIN cHooks' : i < k \/ i >= k BY <2>3, <2>6
  <2>19. \A i \in DOMAIN cHooks' : cHooks'[i].owner # NullParam =>
            i < k /\ i \in DOMAIN cHooks /\ cHooks'[i] = cHooks[i]
    BY <2>6, <2>17, <2>18
  <2>20. \A i \in DOMAIN cHooks' : cHooks'[i].proc = "program" <=> cHooks'[i].owner = NullParam
    <3> TAKE i \in DOMAIN cHooks'
    <3>1. CASE i < k
      <4>1. i \in DOMAIN cHooks /\ cHooks'[i] = cHooks[i] BY <2>6, <3>1
      <4> QED BY <1>3, <4>1
    <3>2. CASE i >= k BY <2>17, <3>2
    <3> QED BY <2>18, <3>1, <3>2
  <2>21. \A i \in DOMAIN cHooks' : cHooks'[i].owner # C!Top.win
    <3> SUFFICES ASSUME NEW i \in DOMAIN cHooks', cHooks'[i].owner = C!Top.win PROVE FALSE
      OBVIOUS
    <3>1. i < k /\ i \in DOMAIN cHooks /\ cHooks[i].owner = C!Top.win BY <1>1, <2>19
    <3> QED BY <2>3, <2>15, <3>1
  <2>22. ASSUME NEW i, NEW w, w # NullParam, w # C!Top.win
         PROVE  i \in DOMAIN cHooks' /\ cHooks'[i].owner = w <=> i \in DOMAIN cHooks /\ cHooks[i].owner = w
    <3>1. ASSUME i \in DOMAIN cHooks', cHooks'[i].owner = w PROVE i \in DOMAIN cHooks /\ cHooks[i].owner = w
      BY <2>19, <2>22, <3>1
    <3>2. ASSUME i \in DOMAIN cHooks, cHooks[i].owner = w PROVE i \in DOMAIN cHooks' /\ cHooks'[i].owner = w
      <4>1. ~(i > k) BY <2>16, <2>22, <3>2
      <4>2. i # k BY <2>1, <2>22, <3>2
      <4>3. i < k BY <1>1, <2>3, <3>2, <4>1, <4>2
      <4> QED BY <2>6, <3>2, <4>3
    <3> QED BY <3>1, <3>2
  <2>23. ASSUME NEW t \in DOMAIN cHooks, \A l \in DOMAIN cHooks : cHooks[l].owner = C!Top.win => l > t
         PROVE  t \in DOMAIN cHooks' /\ cHooks'[t] = cHooks[t]
    <3>1. k > t BY <2>1, <2>23
    <3>2. t < k BY <1>1, <3>1
    <3> QED BY <2>6, <3>2
  <2>24. cHooks' \in Seq(HookType) /\ cFrames' \in Seq(FrameType) /\ \A i \in DOMAIN cFrames' : cFrames'[i] = cFrames[i]
    BY <2>6, <2>12
  <2>25. \A i \in DOMAIN cHooks' : cHooks'[i].owner # NullParam => i \in DOMAIN cHooks /\ cHooks'[i] = cHooks[i]
    BY <2>19
  <2> QED BY <2>14, <2>20, <2>21, <2>22, <2>23, <2>24, <2>25
<1> QED BY <1>4, <1>5

LEMMA StepReturn == C!CreationInv /\ C!Return => C!CreationInv'
<1> SUFFICES ASSUME C!CreationInv, C!Return PROVE C!CreationInv'
  OBVIOUS
<1> DEFINE n == Len(cCreations)
<1>1. /\ cCreations # <<>> /\ C!UninstallCbtHook(C!Top.win) /\ cWrapped' = cWrapped
      /\ cCreations' = SubSeq(cCreations, 1, n - 1)
      /\ cReceived' = [cReceived EXCEPT ![C!Top.win] = IF @ = C!NotSeen THEN C!Top.own ELSE @]
  BY DEF C!Return
<1>2. /\ cCreations' \in Seq(C!Creations) /\ Len(cCreations') = n - 1 /\ n \in Nat /\ n \in DOMAIN cCreations
      /\ DOMAIN cCreations' \in SUBSET Nat /\ DOMAIN cCreations \in SUBSET Nat
      /\ \A m \in DOMAIN cCreations' : m \in DOMAIN cCreations /\ cCreations'[m] = cCreations[m] /\ m < n
      /\ \A m \in DOMAIN cCreations : m # n => m \in DOMAIN cCreations'
  <2>1. cCreations \in Seq(C!Creations) /\ cCreations # <<>> BY <1>1, OwnersAre
  <2>2. cCreations' = ButLast(cCreations) BY <1>1 DEF ButLast
  <2>3. /\ cCreations' \in Seq(C!Creations) /\ Len(cCreations') = Len(cCreations) - 1
        /\ DOMAIN cCreations' \in SUBSET Nat /\ DOMAIN cCreations \in SUBSET Nat
        /\ Len(cCreations) \in Nat /\ Len(cCreations) \in DOMAIN cCreations
        /\ \A m \in DOMAIN cCreations' : m \in DOMAIN cCreations /\ cCreations'[m] = cCreations[m] /\ m < Len(cCreations)
        /\ \A m \in DOMAIN cCreations : m # Len(cCreations) => m \in DOMAIN cCreations'
    BY <2>1, <2>2, LastCut
  <2> QED BY <2>3
<1>3. /\ \A m \in DOMAIN cCreations : m # n => cCreations[m].win # C!Top.win
      /\ cCreations[n] = C!Top /\ C!Top.win \in Windows /\ C!Top.win # NullParam /\ C!Top.own \in C!Given
  BY <1>1, TopFacts
<1> HIDE DEF n
<1>4. \A m \in DOMAIN cCreations' : /\ cCreations[m].win # C!Top.win /\ cCreations[m].win # NullParam
                                    /\ cCreations[m].win \in Windows
  BY <1>2, <1>3, OwnersAre
<1>5. /\ cHooks' \in Seq(HookType) /\ cFrames' \in Seq(FrameType)
      /\ \A k \in DOMAIN cHooks' : cHooks'[k].proc = "program" <=> cHooks'[k].owner = NullParam
      /\ \A k \in DOMAIN cHooks' : cHooks'[k].owner # NullParam => k \in DOMAIN cHooks /\ cHooks'[k] = cHooks[k]
      /\ \A k \in DOMAIN cHooks' : cHooks'[k].owner # C!Top.win
      /\ \A i : i \in DOMAIN cFrames' <=> i \in DOMAIN cFrames /\ cFrames[i].owner # C!Top.win
      /\ \A i \in DOMAIN cFrames' : cFrames'[i] = cFrames[i]
  BY <1>1, Uninstalled
<1>6. \A k, w : w # NullParam /\ w # C!Top.win =>
         (k \in DOMAIN cHooks' /\ cHooks'[k].owner = w <=> k \in DOMAIN cHooks /\ cHooks[k].owner = w)
  BY <1>1, Uninstalled
<1>7. \A t \in DOMAIN cHooks : (\A k \in DOMAIN cHooks : cHooks[k].owner = C!Top.win => k > t) =>
         t \in DOMAIN cHooks' /\ cHooks'[t] = cHooks[t]
  BY <1>1, Uninstalled
<1>8. /\ cReceived \in [Windows -> C!Given \cup Windows \cup {C!NotSeen}]
      /\ cWrapped \in [Windows -> Nat]
  BY DEF C!CreationInv, C!TypeOK
<1>9. /\ cReceived' \in [Windows -> C!Given \cup Windows \cup {C!NotSeen}]
      /\ \A w \in Windows : w # C!Top.win => cReceived'[w] = cReceived[w]
      /\ cReceived'[C!Top.win] # C!NotSeen
  <2>1. C!Top.own # C!NotSeen BY <1>3, CreationAssumption DEF C!Given, C!NotSeen
  <2> QED BY <1>1, <1>3, <1>8, <2>1
<1>10. C!TypeOK'
  <2>1. Len(cCreations') <= MaxCreations
    <3>1. MaxCreations \in Nat BY CreationAssumption
    <3>2. n <= MaxCreations BY DEF C!CreationInv, C!TypeOK, n
    <3> QED BY <1>2, <3>1, <3>2
  <2> QED BY <1>1, <1>2, <1>5, <1>8, <1>9, <2>1 DEF C!TypeOK, HookType, FrameType
<1>11. C!NothingLeft'
  <2>1. ASSUME NEW k \in DOMAIN cHooks', cHooks'[k].proc # "program"
        PROVE  \E i \in DOMAIN cFrames' : cFrames'[i].owner = cHooks'[k].owner
    <3>1. k \in DOMAIN cHooks /\ cHooks'[k] = cHooks[k] /\ cHooks[k].owner # C!Top.win BY <1>5, <2>1
    <3>2. PICK i \in DOMAIN cFrames : cFrames[i].owner = cHooks[k].owner
      BY <2>1, <3>1 DEF C!CreationInv, C!NothingLeft
    <3> QED BY <1>5, <3>1, <3>2
  <2>2. ASSUME NEW i \in DOMAIN cFrames'
        PROVE  /\ \E k \in DOMAIN cHooks' : cHooks'[k].owner = cFrames'[i].owner
               /\ \E m \in DOMAIN cCreations' : cCreations'[m].win = cFrames'[i].owner
    <3>1. /\ i \in DOMAIN cFrames /\ cFrames'[i] = cFrames[i] /\ cFrames[i].owner # C!Top.win
          /\ cFrames[i].owner # NullParam
      BY <1>5, OwnersAre
    <3>2. PICK k \in DOMAIN cHooks : cHooks[k].owner = cFrames[i].owner
      BY <3>1 DEF C!CreationInv, C!NothingLeft
    <3>3. k \in DOMAIN cHooks' /\ cHooks'[k].owner = cFrames[i].owner BY <1>6, <3>1, <3>2
    <3>4. PICK m \in DOMAIN cCreations : cCreations[m].win = cFrames[i].owner
      BY <3>1 DEF C!CreationInv, C!NothingLeft
    <3>5. m # n BY <1>3, <3>1, <3>4
    <3>6. m \in DOMAIN cCreations' /\ cCreations'[m] = cCreations[m] BY <1>2, <3>5
    <3> QED BY <3>1, <3>3, <3>4, <3>6
  <2>3. ASSUME NEW i \in DOMAIN cFrames', NEW j \in DOMAIN cFrames',
               NEW k \in DOMAIN cHooks', NEW l \in DOMAIN cHooks',
               cHooks'[k].owner = cFrames'[i].owner, cHooks'[l].owner = cFrames'[j].owner
        PROVE  i < j <=> k < l
    <3>1. /\ i \in DOMAIN cFrames /\ j \in DOMAIN cFrames /\ cFrames'[i] = cFrames[i] /\ cFrames'[j] = cFrames[j]
          /\ cFrames[i].owner # NullParam /\ cFrames[j].owner # NullParam
      BY <1>5, OwnersAre
    <3>2. /\ k \in DOMAIN cHooks /\ cHooks'[k] = cHooks[k] /\ l \in DOMAIN cHooks /\ cHooks'[l] = cHooks[l]
      BY <1>5, <2>3, <3>1
    <3> QED BY <2>3, <3>1, <3>2 DEF C!CreationInv, C!NothingLeft
  <2>4. ASSUME NEW i \in DOMAIN cFrames', NEW j \in DOMAIN cFrames',
               NEW k \in DOMAIN cCreations', NEW l \in DOMAIN cCreations',
               cCreations'[k].win = cFrames'[i].owner, cCreations'[l].win = cFrames'[j].owner
        PROVE  i < j <=> k < l
    <3>1. i \in DOMAIN cFrames /\ j \in DOMAIN cFrames /\ cFrames'[i] = cFrames[i] /\ cFrames'[j] = cFrames[j]
      BY <1>5
    <3> QED BY <1>2, <2>4, <3>1 DEF C!CreationInv, C!NothingLeft
  <2>5. \A i, j \in DOMAIN cFrames' : \A k, l \in DOMAIN cHooks' :
          cHooks'[k].owner = cFrames'[i].owner /\ cHooks'[l].owner = cFrames'[j].owner => (i < j <=> k < l)
    BY <2>3
  <2>6. \A i, j \in DOMAIN cFrames' : \A k, l \in DOMAIN cCreations' :
          cCreations'[k].win = cFrames'[i].owner /\ cCreations'[l].win = cFrames'[j].owner => (i < j <=> k < l)
    BY <2>4
  <2> QED BY <2>1, <2>2, <2>5, <2>6 DEF C!NothingLeft
<1>12. C!OwnersInv'
  <2>1. \A i, j \in DOMAIN cCreations' : cCreations'[i].win = cCreations'[j].win => i = j
    BY <1>2 DEF C!CreationInv, C!OwnersInv
  <2>2. ASSUME NEW m \in DOMAIN cCreations', NEW k \in DOMAIN cHooks', cHooks'[k].owner = cCreations'[m].win
        PROVE  cHooks'[k].proc = (IF cCreations'[m].ansi THEN "CBTProc" ELSE "CBTProcU")
    <3>1. m \in DOMAIN cCreations /\ cCreations'[m] = cCreations[m] BY <1>2
    <3>2. cHooks'[k].owner # NullParam BY <1>4, <2>2, <3>1
    <3>3. k \in DOMAIN cHooks /\ cHooks'[k] = cHooks[k] BY <1>5, <3>2
    <3> QED BY <2>2, <3>1, <3>3 DEF C!CreationInv, C!OwnersInv
  <2>3. ASSUME NEW m \in DOMAIN cCreations', NEW i \in DOMAIN cFrames', cFrames'[i].owner = cCreations'[m].win
        PROVE  cFrames'[i].stack = (IF cCreations'[m].ansi THEN cCreations'[m].win ELSE NullParam)
    <3>1. m \in DOMAIN cCreations /\ cCreations'[m] = cCreations[m] BY <1>2
    <3>2. i \in DOMAIN cFrames /\ cFrames'[i] = cFrames[i] BY <1>5
    <3> QED BY <2>3, <3>1, <3>2 DEF C!CreationInv, C!OwnersInv
  <2> QED BY <1>5, <2>1, <2>2, <2>3 DEF C!OwnersInv
<1>13. C!TurnsInv'
  <2>1. ASSUME NEW m \in DOMAIN cCreations'
        PROVE  /\ m \in DOMAIN cCreations /\ cCreations'[m] = cCreations[m]
               /\ \/ cCreations[m].step = "messages"
                  \/ /\ cCreations[m].step = "hooks" /\ cCreations[m].turn # 0
                     /\ cCreations[m].turn \in DOMAIN cHooks'
                     /\ cHooks'[cCreations[m].turn].proc = "program"
    <3>1. m \in DOMAIN cCreations /\ cCreations'[m] = cCreations[m] /\ m < n /\ cCreations[m].turn \in Nat
      BY <1>2, OwnersAre
    <3>2. \/ cCreations[m].step = "messages"
          \/ /\ cCreations[m].step = "hooks" /\ cCreations[m].turn # 0
             /\ cHooks[cCreations[m].turn].proc = "program"
      BY <3>1 DEF C!CreationInv, C!TurnsInv, n
    <3>3. ASSUME cCreations[m].step = "hooks", cCreations[m].turn # 0
          PROVE  cCreations[m].turn \in DOMAIN cHooks' /\ cHooks'[cCreations[m].turn] = cHooks[cCreations[m].turn]
      <4>1. cCreations[m].turn <= Len(cHooks) BY <3>1, <3>3 DEF C!CreationInv, C!TurnsInv
      <4>2. cCreations[m].turn \in DOMAIN cHooks BY <3>1, <3>3, <4>1, OwnersAre
      <4>3. n > m BY <1>2, <3>1
      <4>4. \A k \in DOMAIN cHooks : cHooks[k].owner = C!Top.win => k > cCreations[m].turn
        BY <1>2, <1>3, <3>1, <3>3, <4>3 DEF C!CreationInv, C!TurnsInv
      <4> QED BY <1>7, <4>2, <4>4
    <3> QED BY <3>1, <3>2, <3>3
  <2>2. \A m \in DOMAIN cCreations' : cCreations'[m].step = "hooks" => cCreations'[m].turn <= Len(cHooks')
    BY <1>5, <2>1
  <2>3. ASSUME NEW m \in DOMAIN cCreations', cCreations'[m].step = "hooks",
               NEW l \in DOMAIN cCreations', NEW k \in DOMAIN cHooks',
               l > m, cHooks'[k].owner = cCreations'[l].win
        PROVE  k > cCreations'[m].turn
    <3>1. /\ m \in DOMAIN cCreations /\ cCreations'[m] = cCreations[m]
          /\ l \in DOMAIN cCreations /\ cCreations'[l] = cCreations[l]
      BY <1>2
    <3>2. k \in DOMAIN cHooks /\ cHooks[k].owner = cCreations[l].win BY <1>4, <1>6, <2>3, <3>1
    <3> QED BY <2>3, <3>1, <3>2 DEF C!CreationInv, C!TurnsInv
  <2> QED BY <2>1, <2>2, <2>3 DEF C!TurnsInv
<1>14. C!ParamsInv'
  <2>1. ASSUME NEW m \in DOMAIN cCreations' PROVE C!ParamRight(cCreations[m])'
    <3> DEFINE d == cCreations[m]
    <3>1. /\ m \in DOMAIN cCreations /\ cCreations'[m] = d /\ d.win # C!Top.win /\ d.win # NullParam
          /\ d.win \in Windows
      BY <1>2, <1>4
    <3>2. C!ParamRight(d) BY <3>1 DEF C!CreationInv, C!ParamsInv
    <3>3. \A k : k \in DOMAIN cHooks' /\ cHooks'[k].owner = d.win
                 <=> k \in DOMAIN cHooks /\ cHooks[k].owner = d.win
      BY <1>6, <3>1
    <3>4. cReceived'[d.win] = cReceived[d.win] /\ cWrapped'[d.win] = cWrapped[d.win] BY <1>1, <1>9, <3>1
    <3> QED BY <3>1, <3>2, <3>3, <3>4 DEF C!ParamRight, C!Hooked, C!Waits
  <2>2. ASSUME NEW w \in Windows, ~C!Used(w)' PROVE cWrapped'[w] = 0
    <3>1. w # C!Top.win BY <1>9, <2>2 DEF C!Used
    <3>2. \A m \in DOMAIN cCreations : cCreations[m].win # w
      <4> TAKE m \in DOMAIN cCreations
      <4>1. CASE m = n BY <1>3, <3>1, <4>1
      <4>2. CASE m # n BY <1>2, <2>2, <4>2 DEF C!Used
      <4> QED BY <4>1, <4>2
    <3>3. ~C!Used(w) BY <1>9, <2>2, <3>1, <3>2 DEF C!Used
    <3> QED BY <1>1, <3>3 DEF C!CreationInv, C!ParamsInv
  <2> QED BY <2>1, <2>2 DEF C!ParamsInv
<1> QED BY <1>10, <1>11, <1>12, <1>13, <1>14 DEF C!CreationInv

LEMMA NextCreations == C!CreationInv /\ [C!Next]_(C!vars) => C!CreationInv'
<1> SUFFICES ASSUME C!CreationInv, [C!Next]_(C!vars) PROVE C!CreationInv'
  OBVIOUS
<1>1. CASE \E w \in Windows, ansi, hooked \in BOOLEAN, own \in C!Given : C!CreateWindow(w, ansi, own, hooked)
  BY <1>1, StepCreateWindow
<1>2. CASE UNCHANGED C!vars
  BY <1>2 DEF C!vars, C!CreationInv, C!TypeOK, C!NothingLeft, C!OwnersInv, C!TurnsInv, C!ParamsInv, C!ParamRight,
              C!Hooked, C!Waits, C!Used
<1> QED BY <1>1, <1>2, StepProgramHook, StepCallHooks, StepCBTProc, StepOtherHook, StepSendMessages,
           StepFail, StepReturn DEF C!Next

LEMMA CreationsRight == C!CreationInv => C!ParamsArrive /\ C!WrappedInTime /\ C!NothingLeft
<1> SUFFICES ASSUME C!CreationInv PROVE C!ParamsArrive /\ C!WrappedInTime
  BY DEF C!CreationInv
<1>1. \A m \in DOMAIN cCreations : C!ParamRight(cCreations[m]) BY DEF C!CreationInv, C!ParamsInv
<1>2. \A m \in DOMAIN cCreations : cCreations[m].step = "messages" => ~C!Waits(cCreations[m]) BY DEF C!Waits
<1>3. C!ParamsArrive BY <1>1 DEF C!ParamsArrive, C!ParamRight
<1>4. C!WrappedInTime BY <1>1, <1>2 DEF C!WrappedInTime, C!ParamRight
<1> QED BY <1>3, <1>4

(* However creations nest, between the program's procedures and its own CBT  *)
(* hooks, each procedure sees the program's own lpCreateParams, each window  *)
(* of an ANSI creation is wrapped once before its first message, and the     *)
(* hook and the frame of a call go with it (CBTProc, UninstallCbtHook).      *)
THEOREM CreationsAreRight == WindowsSpec => []CreatedRight
<1> DEFINE IInv == active = "creation" => C!CreationInv
<1>1. WindowsInit => IInv BY InitCreations DEF WindowsInit
<1>2. IInv /\ [WindowsNext]_<<active, ProcVars, CreationVars>> => IInv'
  <2> SUFFICES ASSUME IInv, [WindowsNext]_<<active, ProcVars, CreationVars>>, active' = "creation"
               PROVE  C!CreationInv'
    OBVIOUS
  <2>1. active = "creation" /\ C!CreationInv BY DEF WindowsNext
  <2>2. [C!Next]_(C!vars) BY <2>1 DEF WindowsNext, CreationVars, C!vars
  <2> QED BY <2>1, <2>2, NextCreations
<1>3. IInv => CreatedRight BY CreationsRight DEF CreatedRight
<1> QED BY <1>1, <1>2, <1>3, PTL DEF WindowsSpec
=============================================================================
