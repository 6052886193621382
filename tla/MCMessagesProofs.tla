-------------------------- MODULE MCMessagesProofs ---------------------------
(* What is proved of characters, messages, edit positions, the clipboard,    *)
(* fonts and the environment of USER32, for every value of the constants and *)
(* at any number of steps.                                                   *)
EXTENDS MCMessages, FiniteSetTheorems, SequenceTheorems, WellFoundedInduction, TLAPS

-----------------------------------------------------------------------------
(* Sequences with an element added, the last one cut or replaced, or one      *)
(* taken out; greatest elements.                                              *)
LEMMA Appended ==
  ASSUME NEW T, NEW s \in Seq(T), NEW x \in T, NEW t, t = Append(s, x)
  PROVE  /\ t \in Seq(T) /\ Len(t) = Len(s) + 1 /\ t[Len(t)] = x /\ Len(t) \in DOMAIN t
         /\ DOMAIN t \in SUBSET Nat /\ DOMAIN s \in SUBSET Nat /\ Len(s) \in Nat /\ Len(t) \in Nat
         /\ \A i \in DOMAIN s : i \in DOMAIN t /\ t[i] = s[i] /\ i < Len(t) /\ i <= Len(s)
         /\ \A i \in DOMAIN t : i # Len(t) => i \in DOMAIN s /\ t[i] = s[i] /\ i < Len(t)
OBVIOUS

ButLast(s) == SubSeq(s, 1, Len(s) - 1)
Without(s, k) == SubSeq(s, 1, k - 1) \o SubSeq(s, k + 1, Len(s))

LEMMA LastCut ==
  ASSUME NEW T, NEW s \in Seq(T), s # <<>>, NEW t, t = ButLast(s)
  PROVE  /\ t \in Seq(T) /\ Len(t) = Len(s) - 1
         /\ DOMAIN t \in SUBSET Nat /\ DOMAIN s \in SUBSET Nat /\ Len(s) \in Nat /\ Len(s) \in DOMAIN s
         /\ \A i \in DOMAIN t : i \in DOMAIN s /\ t[i] = s[i] /\ i < Len(s)
         /\ \A i \in DOMAIN s : i # Len(s) => i \in DOMAIN t
<1>1. Len(s) \in Nat /\ Len(s) >= 1 /\ DOMAIN s = 1 .. Len(s) OBVIOUS
<1>2. t \in Seq(T) /\ Len(t) = Len(s) - 1 /\ \A i \in 1 .. Len(s) - 1 : t[i] = s[i] BY <1>1 DEF ButLast
<1>3. DOMAIN t = 1 .. Len(s) - 1 BY <1>2
<1> QED BY <1>1, <1>2, <1>3

LEMMA LastPut ==
  ASSUME NEW T, NEW s \in Seq(T), s # <<>>, NEW x \in T, NEW t, t = [s EXCEPT ![Len(s)] = x]
  PROVE  /\ t \in Seq(T) /\ Len(t) = Len(s) /\ t # <<>>
         /\ DOMAIN t \in SUBSET Nat /\ DOMAIN t = DOMAIN s /\ Len(s) \in Nat /\ Len(s) \in DOMAIN s
         /\ t[Len(s)] = x /\ s[Len(s)] \in T
         /\ \A i \in DOMAIN s : i <= Len(s) /\ (i # Len(s) => t[i] = s[i])
<1>1. Len(s) \in Nat /\ Len(s) >= 1 /\ DOMAIN s = 1 .. Len(s) OBVIOUS
<1>2. t \in Seq(T) /\ Len(t) = Len(s) /\ DOMAIN t = DOMAIN s BY <1>1
<1> QED BY <1>1, <1>2

LEMMA Removed ==
  ASSUME NEW T, NEW s \in Seq(T), NEW k \in DOMAIN s,
         NEW t, t = Without(s, k)
  PROVE  /\ t \in Seq(T) /\ DOMAIN t \in SUBSET Nat /\ DOMAIN s \in SUBSET Nat
         /\ \A i \in DOMAIN t : /\ i < k => i \in DOMAIN s /\ t[i] = s[i]
                                /\ i >= k => i + 1 \in DOMAIN s /\ t[i] = s[i + 1]
         /\ \A i \in DOMAIN s : /\ i < k => i \in DOMAIN t /\ t[i] = s[i]
                                /\ i > k => i - 1 \in DOMAIN t /\ t[i - 1] = s[i]
<1> DEFINE n == Len(s)
           a == SubSeq(s, 1, k - 1)
           b == SubSeq(s, k + 1, n)
<1>1. k \in Nat /\ k >= 1 /\ k <= n /\ n \in Nat /\ DOMAIN s = 1 .. n OBVIOUS
<1>2. a \in Seq(T) /\ Len(a) = k - 1 /\ \A i \in 1 .. k - 1 : a[i] = s[i] BY <1>1
<1>3. b \in Seq(T) /\ Len(b) = n - k /\ \A i \in 1 .. n - k : b[i] = s[i + k]
  <2>1. \A i \in k + 1 .. n : s[i] \in T BY <1>1
  <2>2. k + 1 \in Int /\ n \in Int BY <1>1
  <2>3. /\ b \in Seq(T) /\ Len(b) = IF k + 1 <= n THEN n - (k + 1) + 1 ELSE 0
        /\ \A i \in 1 .. n - (k + 1) + 1 : b[i] = s[(k + 1) + i - 1]
    BY <2>1, <2>2, SubSeqProperties
  <2> HIDE DEF b, n
  <2>4. n - (k + 1) + 1 = n - k /\ (k + 1 <= n \/ n - k = 0) BY <1>1
  <2>5. \A i \in 1 .. n - k : (k + 1) + i - 1 = i + k BY <1>1
  <2> QED BY <2>3, <2>4, <2>5
<1> HIDE DEF n
<1>4. t = a \o b BY DEF n, Without
<1> HIDE DEF a, b
<1>5. t \in Seq(T) BY <1>2, <1>3, <1>4
<1>6. /\ Len(t) = Len(a) + Len(b)
      /\ \A i \in 1 .. Len(a) + Len(b) : t[i] = IF i <= Len(a) THEN a[i] ELSE b[i - Len(a)]
  <2>1. a \in Seq(T) /\ b \in Seq(T) BY <1>2, <1>3
  <2>2. /\ Len(a \o b) = Len(a) + Len(b)
        /\ \A i \in 1 .. Len(a) + Len(b) : (a \o b)[i] = IF i <= Len(a) THEN a[i] ELSE b[i - Len(a)]
    BY <2>1, ConcatProperties
  <2> QED BY <1>4, <2>2
<1>7. DOMAIN t = 1 .. n - 1
  <2>1. DOMAIN t = 1 .. Len(t) BY <1>5
  <2>2. Len(t) = n - 1 BY <1>1, <1>2, <1>3, <1>6
  <2> QED BY <2>1, <2>2
<1>8. \A i \in 1 .. n - 1 : t[i] = IF i < k THEN s[i] ELSE s[i + 1]
  <2> SUFFICES ASSUME NEW i \in 1 .. n - 1 PROVE t[i] = IF i < k THEN s[i] ELSE s[i + 1]
    OBVIOUS
  <2>1. i \in 1 .. Len(a) + Len(b) BY <1>1, <1>2, <1>3
  <2>2. CASE i < k
    <3>1. i <= Len(a) /\ i \in 1 .. k - 1 BY <1>1, <1>2, <2>2
    <3> QED BY <1>2, <1>6, <2>1, <2>2, <3>1
  <2>3. CASE ~(i < k)
    <3>1. Len(a) = k - 1 BY <1>2
    <3>4. ~(i <= Len(a)) /\ i - Len(a) \in 1 .. n - k /\ (i - Len(a)) + k = i + 1 BY <1>1, <2>3, <3>1
    <3>2. t[i] = b[i - Len(a)] BY <1>6, <2>1, <3>4
    <3>3. b[i - Len(a)] = s[i + 1] BY <1>3, <3>4
    <3> QED BY <2>3, <3>2, <3>3
  <2> QED BY <2>2, <2>3
<1>9. ASSUME NEW i \in 1 .. n - 1
      PROVE  /\ i < k => i \in 1 .. n /\ t[i] = s[i]
             /\ i >= k => i + 1 \in 1 .. n /\ t[i] = s[i + 1]
  <2>1. i < k => i \in 1 .. n BY <1>1
  <2>2. i >= k => ~(i < k) /\ i + 1 \in 1 .. n BY <1>1
  <2> QED BY <1>8, <2>1, <2>2
<1>10. ASSUME NEW i \in 1 .. n
       PROVE  /\ i < k => i \in 1 .. n - 1 /\ t[i] = s[i]
              /\ i > k => i - 1 \in 1 .. n - 1 /\ t[i - 1] = s[i]
  <2>1. i < k => i \in 1 .. n - 1 BY <1>1
  <2>2. i > k => i - 1 \in 1 .. n - 1 /\ ~(i - 1 < k) /\ (i - 1) + 1 = i BY <1>1
  <2> QED BY <1>8, <2>1, <2>2
<1>11. DOMAIN t \in SUBSET Nat /\ DOMAIN s \in SUBSET Nat BY <1>1, <1>7
<1>12. DOMAIN s = 1 .. n BY <1>1
<1> QED BY <1>5, <1>7, <1>9, <1>10, <1>11, <1>12


LEMMA MaxIs ==
  ASSUME NEW s \in SUBSET Nat, NEW m \in s, \A y \in s : y <= m
  PROVE  Max(s) = m
<1>1. \A x \in s : (\A y \in s : x >= y) => x = m OBVIOUS
<1>2. \A y \in s : m >= y OBVIOUS
<1> QED BY <1>1, <1>2 DEF Max

LEMMA BytesOf == ASSUME NEW c \in Chars PROVE Bytes(c) \in 0 .. 3
BY DEF Bytes

(* The parts of a character in a list of received bytes, and in a longer one.*)
PartsIn(r, c, n) == {r[i].index : i \in {j \in 1 .. n : r[j].char = c}}

LEMMA PartsKept ==
  ASSUME NEW r \in Seq(Received), NEW x \in Received, NEW c, NEW k \in 0 .. Len(r)
  PROVE  PartsIn(Append(r, x), c, k) = PartsIn(r, c, k)
<1> DEFINE t == Append(r, x)
           n == Len(r)
<1>1. /\ n \in Nat /\ \A i \in 1 .. n : t[i] = r[i] OBVIOUS
<1>2. k \in 0 .. n OBVIOUS
<1> HIDE DEF n, t
<1>3. \A i \in 1 .. k : i \in 1 .. n BY <1>1, <1>2
<1>4. {j \in 1 .. k : t[j].char = c} = {j \in 1 .. k : r[j].char = c} BY <1>1, <1>3
<1> DEFINE at == {j \in 1 .. k : r[j].char = c}
<1>5. \A i \in at : t[i] = r[i] BY <1>1, <1>3
<1> QED BY <1>4, <1>5 DEF PartsIn, t

LEMMA PartsGrow ==
  ASSUME NEW r \in Seq(Received), NEW x \in Received, NEW c
  PROVE  PartsIn(Append(r, x), c, Len(r) + 1) = IF c = x.char THEN PartsIn(r, c, Len(r)) \cup {x.index}
                                 ELSE PartsIn(r, c, Len(r))
<1> DEFINE t == Append(r, x)
           n == Len(r)
<1>1. n \in Nat /\ Len(t) = n + 1 /\ t[n + 1] = x /\ \A i \in 1 .. n : t[i] = r[i] OBVIOUS
<1>2. PartsIn(t, c, n) = PartsIn(r, c, n)
  <2>1. n \in 0 .. Len(r) BY <1>1
  <2>2. PartsIn(Append(r, x), c, n) = PartsIn(r, c, n)
    <3> HIDE DEF n, t
    <3> QED BY <2>1, PartsKept
  <2> QED BY <2>2
<1> HIDE DEF n, t
<1>3. PartsIn(t, c, n + 1) = IF c = x.char THEN PartsIn(t, c, n) \cup {x.index} ELSE PartsIn(t, c, n)
  <2>1. 1 .. n + 1 = (1 .. n) \cup {n + 1} BY <1>1
  <2>2. CASE c = x.char
    <3>1. {j \in 1 .. n + 1 : t[j].char = c} = {j \in 1 .. n : t[j].char = c} \cup {n + 1}
      BY <1>1, <2>1, <2>2
    <3> QED BY <1>1, <2>2, <3>1 DEF PartsIn
  <2>3. CASE c # x.char
    <3>1. {j \in 1 .. n + 1 : t[j].char = c} = {j \in 1 .. n : t[j].char = c}
      BY <1>1, <2>1, <2>3
    <3> QED BY <1>1, <2>3, <3>1 DEF PartsIn
  <2> QED BY <2>2, <2>3
<1> QED BY <1>1, <1>2, <1>3 DEF n, t

(* The next byte of a character is received.                                 *)
LEMMA ByteSent ==
  ASSUME received \in Seq(Received), InOrder,
         NEW x \in Received, received' = Append(received, x),
         Sent(x.char) = 1 .. (x.index - 1), SentTo(x.char, x.win)
  PROVE  /\ received' \in Seq(Received) /\ InOrder'
         /\ \A c : Sent(c)' = IF c = x.char THEN 1 .. x.index ELSE Sent(c)
         /\ \A c, w : SentTo(c, w) /\ (c = x.char => w = x.win) => SentTo(c, w)'
         /\ \A j \in DOMAIN received' : received'[j] = x \/ (j \in DOMAIN received /\ received'[j] = received[j])
<1> DEFINE n == Len(received)
<1>1. /\ received' \in Seq(Received) /\ Len(received') = n + 1 /\ n \in Nat
      /\ DOMAIN received = 1 .. n /\ DOMAIN received' = 1 .. n + 1
      /\ received'[n + 1] = x /\ \A i \in 1 .. n : received'[i] = received[i]
  OBVIOUS
<1>2. /\ \A c : \A k \in 0 .. n : PartsIn(received', c, k) = PartsIn(received, c, k)
      /\ \A c : PartsIn(received', c, n + 1) = IF c = x.char THEN PartsIn(received, c, n) \cup {x.index}
                                               ELSE PartsIn(received, c, n)
  <2>1. /\ \A c : \A k \in 0 .. Len(received) : PartsIn(received', c, k) = PartsIn(received, c, k)
        /\ \A c : PartsIn(received', c, Len(received')) =
                    IF c = x.char THEN PartsIn(received, c, Len(received)) \cup {x.index}
                    ELSE PartsIn(received, c, Len(received))
    <3>1. ASSUME NEW c, NEW k \in 0 .. Len(received)
          PROVE PartsIn(Append(received, x), c, k) = PartsIn(received, c, k) BY PartsKept
    <3>2. ASSUME NEW c
          PROVE PartsIn(Append(received, x), c, Len(received) + 1) =
                             IF c = x.char THEN PartsIn(received, c, Len(received)) \cup {x.index}
                             ELSE PartsIn(received, c, Len(received)) BY PartsGrow
    <3> QED BY <1>1, <3>1, <3>2
  <2> QED BY <1>1, <2>1
<1>3. \A c, k : Parts(c, k) = PartsIn(received, c, k) /\ Parts(c, k)' = PartsIn(received', c, k)
  BY DEF Parts, PartsIn
<1>4. \A c : Sent(c) = PartsIn(received, c, n) /\ Sent(c)' = PartsIn(received', c, n + 1)
  BY <1>1, <1>3 DEF Sent
<1> HIDE DEF n
<1>5. x.index \in 1 .. 3 BY DEF Received
<1>6. (1 .. (x.index - 1)) \cup {x.index} = 1 .. x.index BY <1>5
<1>7. \A c : Sent(c)' = IF c = x.char THEN 1 .. x.index ELSE Sent(c) BY <1>2, <1>4, <1>6
<1>8. \A c, w : SentTo(c, w) /\ (c = x.char => w = x.win) => SentTo(c, w)'
  <2> SUFFICES ASSUME NEW c, NEW w, SentTo(c, w), c = x.char => w = x.win,
                      NEW j \in 1 .. n + 1, received'[j].char = c
               PROVE  received'[j].win = w
    BY <1>1 DEF SentTo
  <2>1. j = n + 1 \/ j \in 1 .. n BY <1>1
  <2> QED BY <1>1, <2>1 DEF SentTo
<1>9. InOrder'
  <2> SUFFICES ASSUME NEW i \in 1 .. n + 1
               PROVE  /\ PartsIn(received', received'[i].char, i - 1) = 1 .. (received'[i].index - 1)
                      /\ \A j \in 1 .. i : received'[j].char = received'[i].char
                                             => received'[j].win = received'[i].win
    BY <1>1 DEF InOrder, Parts, PartsIn
  <2>1. CASE i = n + 1
    <3>1. i - 1 = n /\ n \in 0 .. n BY <1>1, <2>1
    <3>2. PartsIn(received', x.char, i - 1) = 1 .. (x.index - 1) BY <1>2, <1>4, <3>1
    <3>3. \A j \in 1 .. i : received'[j].char = x.char => received'[j].win = x.win
      <4> TAKE j \in 1 .. i
      <4>1. j = n + 1 \/ j \in 1 .. n BY <1>1, <2>1
      <4> QED BY <1>1, <4>1 DEF SentTo
    <3> QED BY <1>1, <2>1, <3>2, <3>3
  <2>2. CASE i # n + 1
    <3>1. i \in 1 .. n /\ i - 1 \in 0 .. n /\ received'[i] = received[i] BY <1>1, <2>2
    <3>2. \A j \in 1 .. i : received'[j] = received[j] BY <1>1, <3>1
    <3>3. PartsIn(received', received[i].char, i - 1) = Parts(received[i].char, i - 1) BY <1>2, <1>3, <3>1
    <3>4. /\ Parts(received[i].char, i - 1) = 1 .. (received[i].index - 1)
          /\ \A j \in 1 .. i : received[j].char = received[i].char => received[j].win = received[i].win
      BY <1>1, <3>1 DEF InOrder
    <3> QED BY <3>1, <3>2, <3>3, <3>4
  <2> QED BY <2>1, <2>2
<1> QED BY <1>1, <1>7, <1>8, <1>9

(* A character of which nothing has been sent was not received; one that no  *)
(* call handles the lead byte of has no frame.                               *)
LEMMA NoneSent ==
  ASSUME received \in Seq(Received), NEW c, Sent(c) = {}
  PROVE  (\A j \in DOMAIN received : received[j].char # c) /\ \A w : SentTo(c, w)
<1>1. DOMAIN received = 1 .. Len(received) OBVIOUS
<1>2. ASSUME NEW j \in DOMAIN received, received[j].char = c PROVE FALSE
  <2>1. received[j].index \in Parts(c, Len(received)) BY <1>1, <1>2 DEF Parts
  <2> QED BY <2>1 DEF Sent
<1> QED BY <1>2 DEF SentTo

LEMMA NoFrameOf ==
  ASSUME FramesFollow, NEW c, \A k \in DOMAIN calls : calls[k].char = c => ~Leads(calls[k])
  PROVE  (\A i \in DOMAIN frames : frames[i].owner # c) /\ ~Consumed(c)
BY DEF FramesFollow, Consumed

LEMMA SameSent ==
  ASSUME received' = received
  PROVE  (\A c : Sent(c)' = Sent(c)) /\ (\A c, w : SentTo(c, w)' <=> SentTo(c, w)) /\ (InOrder' <=> InOrder)
BY DEF Sent, Parts, SentTo, InOrder

LEMMA SameFrames ==
  ASSUME frames' = frames
  PROVE  \A c : Consumed(c)' <=> Consumed(c)
BY DEF Consumed

(* The frames follow the calls as long as the calls with a lead byte are the *)
(* same.                                                                     *)
LEMMA FramesKept ==
  ASSUME FramesFollow, frames' = frames,
         \A k \in DOMAIN calls' : Leads(calls'[k]) => k \in DOMAIN calls /\ calls'[k] = calls[k],
         \A k \in DOMAIN calls : Leads(calls[k]) => k \in DOMAIN calls' /\ calls'[k] = calls[k]
  PROVE  FramesFollow'
<1>1. ASSUME NEW i \in DOMAIN frames'
      PROVE  \E k \in DOMAIN calls' :
               Leads(calls'[k]) /\ calls'[k].char = frames'[i].owner /\ calls'[k].win = frames'[i].win
  <2>1. i \in DOMAIN frames /\ frames'[i] = frames[i] OBVIOUS
  <2>2. PICK k \in DOMAIN calls : Leads(calls[k]) /\ calls[k].char = frames[i].owner /\ calls[k].win = frames[i].win
    BY <2>1 DEF FramesFollow
  <2> QED BY <2>1, <2>2
<1>2. ASSUME NEW k \in DOMAIN calls', Leads(calls'[k])
      PROVE  \E i \in DOMAIN frames' : frames'[i].owner = calls'[k].char
  <2>1. k \in DOMAIN calls /\ calls'[k] = calls[k] BY <1>2
  <2>2. PICK i \in DOMAIN frames : frames[i].owner = calls[k].char BY <1>2, <2>1 DEF FramesFollow
  <2> QED BY <2>1, <2>2
<1>3. ASSUME NEW i \in DOMAIN frames', NEW j \in DOMAIN frames', NEW k \in DOMAIN calls', NEW l \in DOMAIN calls',
             i < j, Leads(calls'[k]), Leads(calls'[l]),
             frames'[i].owner = calls'[k].char, frames'[j].owner = calls'[l].char
      PROVE  k < l
  BY <1>3 DEF FramesFollow
<1> QED BY <1>1, <1>2, <1>3 DEF FramesFollow

(* A procedure is called with a character.                                   *)
LEMMA NewCall ==
  ASSUME DeliveryInv, NEW m \in Messages, CallAnsiCharacterProc(m), Sent(m.char) = {},
         \A k \in DOMAIN calls : calls[k].char = m.char => PostedAgain(calls[k]) /\ m.msg = "WM_CHAR",
         queue' \in Seq(Messages),
         \A i, j \in DOMAIN queue' : queue'[i].char = queue'[j].char => i = j,
         \A i \in DOMAIN queue' : queue'[i].char # m.char /\ \E j \in DOMAIN queue : queue'[i] = queue[j],
         \A j \in DOMAIN queue : queue[j].char = m.char \/ \E i \in DOMAIN queue' : queue'[i] = queue[j],
         typed \cup {m.char} \subseteq typed', typed' \subseteq Chars, due' \subseteq typed',
         m.char \in due' <=> m.msg = "WM_CHAR",
         \A d : d # m.char => (d \in due' <=> d \in due),
         \A d \in typed' : d \in typed \/ d = m.char \/ (d \notin due' /\ Sent(d) = {})
  PROVE  DeliveryInv'
<1> DEFINE c == m.char
           w == m.win
           lead == m.msg # "WM_IME_CHAR"
           i0 == IF lead THEN 1 ELSE 0
           new == [char |-> c, win |-> w, defaulted |-> FALSE, index |-> i0]
           got == Got(c, 1, w, c)
           frame == [kind |-> Kind, owner |-> c, win |-> w, consumed |-> FALSE]
<1>1. c \in Chars /\ w \in Windows /\ (lead \/ ~lead) BY DEF Messages
<1>2. /\ i0 \in {0, 1} /\ (lead <=> i0 = 1)
      /\ new \in Calls /\ new.char = c /\ new.win = w /\ new.index = i0 /\ ~PostedAgain(new)
      /\ Leads(new) <=> lead /\ Framed(c, w)
  BY <1>1 DEF Calls, PostedAgain, Leads
<1>3. got \in Received /\ got.char = c /\ got.win = w /\ got.index = 1 BY <1>1 DEF Received, Got
<1>4. frame \in Frames /\ frame.owner = c /\ frame.win = w /\ ~frame.consumed BY <1>1 DEF Frames
<1>5. /\ queue \in Seq(Messages) /\ calls \in Seq(Calls) /\ frames \in Seq(Frames)
      /\ received \in Seq(Received) /\ typed \subseteq Chars
      /\ OnePlace /\ FramesFollow /\ InOrder /\ UnsentQueued /\ SentByCalls /\ AllSent /\ DueIs
      /\ \A k \in DOMAIN calls : calls[k].index <= Bytes(calls[k].char)
  BY DEF DeliveryInv, TypeOK
<1>6. /\ \A k \in DOMAIN calls : calls[k].char = c => PostedAgain(calls[k]) /\ calls[k].index = 0 /\ ~Leads(calls[k]) /\ lead
      /\ \A i \in DOMAIN frames : frames[i].owner # c
      /\ ~Consumed(c)
  <2>1. \A k \in DOMAIN calls : calls[k].char = c => PostedAgain(calls[k]) /\ calls[k].index = 0 /\ ~Leads(calls[k]) /\ lead
    BY DEF PostedAgain, Leads
  <2> QED BY <1>5, <2>1, NoFrameOf
<1>7. /\ \A j \in DOMAIN received : received[j].char # c
      /\ SentTo(c, w) /\ Sent(c) = {}
  BY <1>5, NoneSent
<1>12. /\ due' \subseteq typed' /\ (c \in due' <=> lead)
       /\ \A d : d # c => (d \in due' <=> d \in due)
       /\ \A d \in typed' : d \in typed \/ d = c \/ (d \notin due' /\ Sent(d) = {})
  BY DEF Messages
<1> HIDE DEF c, w, lead, i0, new, got, frame
<1>8. /\ \A i \in DOMAIN queue' : queue'[i].char # c /\ \E j \in DOMAIN queue : queue'[i] = queue[j]
      /\ \A j \in DOMAIN queue : queue[j].char = c \/ \E i \in DOMAIN queue' : queue'[i] = queue[j]
      /\ typed \subseteq typed' /\ c \in typed' /\ typed' \subseteq Chars
  BY <1>1, <1>5 DEF c
<1> DEFINE dropped == Bytes(c) = 0 /\ UNCHANGED <<calls, frames, received>>
           called == /\ Bytes(c) # 0 /\ Len(calls) < MaxNested /\ calls' = Append(calls, new)
                     /\ received' = IF lead THEN Append(received, got) ELSE received
                     /\ frames' = IF lead /\ Framed(c, w) THEN Append(frames, frame) ELSE frames
<1>9. CASE dropped
  <2>1. /\ \A d : Sent(d)' = Sent(d) /\ (Consumed(d)' <=> Consumed(d))
        /\ \A d, v : SentTo(d, v)' <=> SentTo(d, v)
        /\ InOrder'
    BY <1>5, <1>9, SameSent, SameFrames
  <2>2. TypeOK' BY <1>5, <1>8, <1>9, <1>12 DEF TypeOK, DeliveryInv
  <2>3. OnePlace' BY <1>5, <1>8, <1>9 DEF OnePlace
  <2>4. FramesFollow' BY <1>5, <1>9 DEF FramesFollow
  <2>5. UnsentQueued' BY <1>5, <1>8, <2>1 DEF UnsentQueued
  <2>6. SentByCalls' BY <1>5, <1>9, <2>1 DEF SentByCalls
  <2>7. AllSent'
    <3> SUFFICES ASSUME NEW d \in typed', ~Live(d)'
                 PROVE  Sent(d) = IF d \in due' THEN 1 .. Bytes(d) ELSE {}
      BY <2>1 DEF AllSent
    <3>1. CASE d = c
      <4>1. 1 .. Bytes(c) = {} BY <1>9
      <4> QED BY <1>7, <3>1, <4>1
    <3>2. CASE d # c /\ d \in typed
      <4>1. ~Live(d) BY <1>8, <1>9, <3>2 DEF Live
      <4> QED BY <1>5, <1>12, <3>2, <4>1 DEF AllSent
    <3>3. CASE d # c /\ d \notin typed BY <1>12, <3>3
    <3> QED BY <3>1, <3>2, <3>3
  <2>8. DueIs'
    <3>1. \A i \in DOMAIN queue' : queue'[i].char \in due' <=> queue'[i].msg = "WM_CHAR"
      BY <1>5, <1>8, <1>12 DEF DueIs
    <3>2. \A k \in DOMAIN calls' :
             /\ calls'[k].index # 0 => calls'[k].char \in due'
             /\ calls'[k].index = 0 /\ ~PostedAgain(calls'[k]) => calls'[k].char \notin due'
      <4> TAKE k \in DOMAIN calls'
      <4>1. k \in DOMAIN calls /\ calls'[k] = calls[k] BY <1>9
      <4>2. CASE calls[k].char = c BY <1>6, <4>1, <4>2
      <4>3. CASE calls[k].char # c BY <1>5, <1>12, <4>1, <4>3 DEF DueIs
      <4> QED BY <4>2, <4>3
    <3> QED BY <3>1, <3>2 DEF DueIs
  <2> QED BY <2>1, <2>2, <2>3, <2>4, <2>5, <2>6, <2>7, <2>8 DEF DeliveryInv
<1>10. CASE called
  <2> DEFINE n == Len(calls')
  <2>1. /\ calls' \in Seq(Calls) /\ n \in DOMAIN calls' /\ calls'[n] = new /\ n \in Nat
        /\ DOMAIN calls \in SUBSET Nat /\ DOMAIN calls' \in SUBSET Nat /\ n <= MaxNested
        /\ \A k \in DOMAIN calls : k \in DOMAIN calls' /\ calls'[k] = calls[k] /\ k < n
        /\ \A k \in DOMAIN calls' : k # n => k \in DOMAIN calls /\ calls'[k] = calls[k] /\ k < n
    <3>1. calls \in Seq(Calls) /\ new \in Calls BY <1>2, <1>5
    <3>2. calls' = Append(calls, new) BY <1>10
    <3>3. n = Len(calls) + 1 /\ MaxNested \in Nat /\ Len(calls) \in Nat /\ Len(calls) < MaxNested
      BY <1>10, <3>1, <3>2, CharAssumption
    <3> QED BY <3>1, <3>2, <3>3, Appended
  <2> HIDE DEF n
  <2>2. /\ received' \in Seq(Received) /\ InOrder'
        /\ \A d : d # c => Sent(d)' = Sent(d)
        /\ Sent(c)' = IF lead THEN 1 .. 1 ELSE {}
        /\ \A d, v : SentTo(d, v) /\ (d = c => v = w) => SentTo(d, v)'
        /\ \A j \in DOMAIN received' : received'[j].char \in typed'
    <3>1. CASE lead
      <4>1. received' = Append(received, got) BY <1>10, <3>1
      <4>2. Sent(got.char) = 1 .. (got.index - 1) /\ SentTo(got.char, got.win) BY <1>3, <1>7
      <4>3. /\ received' \in Seq(Received) /\ InOrder'
            /\ \A d : Sent(d)' = IF d = got.char THEN 1 .. got.index ELSE Sent(d)
            /\ \A d, v : SentTo(d, v) /\ (d = got.char => v = got.win) => SentTo(d, v)'
            /\ \A j \in DOMAIN received' :
                  received'[j] = got \/ (j \in DOMAIN received /\ received'[j] = received[j])
        BY <1>3, <1>5, <4>1, <4>2, ByteSent
      <4>4. \A j \in DOMAIN received' : received'[j].char \in typed'
        BY <1>3, <1>5, <1>8, <4>3 DEF OnePlace
      <4> QED BY <1>3, <3>1, <4>3, <4>4
    <3>2. CASE ~lead
      <4>1. received' = received BY <1>10, <3>2
      <4>2. InOrder' /\ (\A d : Sent(d)' = Sent(d)) /\ (\A d, v : SentTo(d, v)' <=> SentTo(d, v))
        BY <1>5, <4>1, SameSent
      <4>3. \A j \in DOMAIN received' : received'[j].char \in typed' BY <1>5, <1>8, <4>1 DEF OnePlace
      <4> QED BY <1>5, <1>7, <3>2, <4>1, <4>2, <4>3
    <3> QED BY <3>1, <3>2
  <2>3. /\ frames' \in Seq(Frames) /\ FramesFollow'
        /\ \A d : Consumed(d)' <=> Consumed(d)
    <3>1. CASE lead /\ Framed(c, w)
      <4> DEFINE f == Len(frames')
      <4>1. frames' = Append(frames, frame) BY <1>10, <3>1
      <4>2. /\ frames' \in Seq(Frames) /\ f \in DOMAIN frames' /\ frames'[f] = frame
            /\ \A i \in DOMAIN frames : i \in DOMAIN frames' /\ frames'[i] = frames[i] /\ i < f
            /\ \A i \in DOMAIN frames' : i # f => i \in DOMAIN frames /\ frames'[i] = frames[i] /\ i < f
            /\ f \in Nat /\ DOMAIN frames' \in SUBSET Nat
        <5>1. frames \in Seq(Frames) BY <1>5
        <5> QED BY <1>4, <4>1, <5>1, Appended
      <4> HIDE DEF f
      <4>3. \A d : Consumed(d)' <=> Consumed(d) BY <1>4, <4>2 DEF Consumed
      <4>4. Leads(new) BY <1>2, <3>1
      <4>5. \A i \in DOMAIN frames' : \E k \in DOMAIN calls' :
               Leads(calls'[k]) /\ calls'[k].char = frames'[i].owner /\ calls'[k].win = frames'[i].win
        <5> TAKE i \in DOMAIN frames'
        <5>1. CASE i = f BY <1>2, <1>4, <2>1, <4>2, <4>4, <5>1
        <5>2. CASE i # f
          <6>1. i \in DOMAIN frames /\ frames'[i] = frames[i] BY <4>2, <5>2
          <6>2. PICK k \in DOMAIN calls : Leads(calls[k]) /\ calls[k].char = frames[i].owner /\ calls[k].win = frames[i].win
            BY <1>5, <6>1 DEF FramesFollow
          <6> QED BY <2>1, <6>1, <6>2
        <5> QED BY <5>1, <5>2
      <4>6. \A k \in DOMAIN calls' : Leads(calls'[k]) => \E i \in DOMAIN frames' : frames'[i].owner = calls'[k].char
        <5> SUFFICES ASSUME NEW k \in DOMAIN calls', Leads(calls'[k])
                     PROVE  \E i \in DOMAIN frames' : frames'[i].owner = calls'[k].char
          OBVIOUS
        <5>1. CASE k = n BY <1>2, <1>4, <2>1, <4>2, <5>1
        <5>2. CASE k # n
          <6>1. k \in DOMAIN calls /\ calls'[k] = calls[k] BY <2>1, <5>2
          <6>2. PICK i \in DOMAIN frames : frames[i].owner = calls[k].char BY <1>5, <6>1 DEF FramesFollow
          <6> QED BY <4>2, <6>1, <6>2
        <5> QED BY <5>1, <5>2
      <4>7. ASSUME NEW i \in DOMAIN frames', NEW j \in DOMAIN frames', NEW k \in DOMAIN calls', NEW l \in DOMAIN calls',
                   i < j, Leads(calls'[k]), Leads(calls'[l]),
                   frames'[i].owner = calls'[k].char, frames'[j].owner = calls'[l].char
            PROVE  k < l
        <5>1. i # f
          <6>1. j <= f BY <4>2
          <6>2. i \in Nat /\ j \in Nat /\ f \in Nat BY <4>2
          <6> QED BY <4>7, <6>1, <6>2
        <5>2. i \in DOMAIN frames /\ frames[i].owner = calls'[k].char BY <4>2, <4>7, <5>1
        <5>3. k # n BY <1>2, <1>6, <2>1, <5>2
        <5>4. CASE j = f
          <6>1. l = n BY <1>4, <1>6, <2>1, <4>2, <4>7, <5>4
          <6> QED BY <2>1, <5>3, <6>1
        <5>5. CASE j # f
          <6>1. j \in DOMAIN frames /\ frames[j].owner = calls'[l].char BY <4>2, <4>7, <5>5
          <6>2. l # n BY <1>2, <1>6, <2>1, <6>1
          <6>3. k \in DOMAIN calls /\ l \in DOMAIN calls /\ calls'[k] = calls[k] /\ calls'[l] = calls[l]
            BY <2>1, <5>3, <6>2
          <6>4. /\ i < j /\ Leads(calls[k]) /\ Leads(calls[l])
                /\ frames[i].owner = calls[k].char /\ frames[j].owner = calls[l].char
            BY <4>7, <5>2, <6>1, <6>3
          <6>5. FramesFollow BY <1>5
          <6> QED BY <5>2, <6>1, <6>3, <6>4, <6>5 DEF FramesFollow
        <5> QED BY <5>4, <5>5
      <4>8. FramesFollow' BY <4>5, <4>6, <4>7 DEF FramesFollow
      <4> QED BY <4>2, <4>3, <4>8
    <3>2. CASE ~(lead /\ Framed(c, w))
      <4>1. frames' = frames /\ ~Leads(new) BY <1>2, <1>10, <3>2
      <4>2. \A d : Consumed(d)' <=> Consumed(d) BY <4>1, SameFrames
      <4>3. \A k \in DOMAIN calls' : Leads(calls'[k]) => k \in DOMAIN calls /\ calls'[k] = calls[k]
        BY <2>1, <4>1
      <4>4. \A k \in DOMAIN calls : Leads(calls[k]) => k \in DOMAIN calls' /\ calls'[k] = calls[k]
        BY <2>1
      <4>7. FramesFollow' BY <1>5, <4>1, <4>3, <4>4, FramesKept
      <4> QED BY <1>5, <4>1, <4>2, <4>7
    <3> QED BY <3>1, <3>2
  <2>4. TypeOK'
    <3>1. i0 <= Bytes(c)
      <4>1. Bytes(c) \in 0 .. 3 BY <1>1, BytesOf
      <4>2. Bytes(c) # 0 /\ i0 \in {0, 1} BY <1>2, <1>10
      <4> QED BY <4>1, <4>2
    <3>2. \A k \in DOMAIN calls' : calls'[k].index <= Bytes(calls'[k].char) BY <1>2, <1>5, <2>1, <3>1
    <3>3. Len(calls') <= MaxNested BY <2>1 DEF n
    <3> QED BY <1>8, <1>12, <2>1, <2>2, <2>3, <3>2, <3>3 DEF TypeOK
  <2>5. OnePlace'
    <3>1. \A i \in DOMAIN queue', k \in DOMAIN calls' :
            queue'[i].char = calls'[k].char => PostedAgain(calls'[k]) /\ queue'[i].msg = "WM_CHAR"
      <4> SUFFICES ASSUME NEW i \in DOMAIN queue', NEW k \in DOMAIN calls', queue'[i].char = calls'[k].char
                   PROVE  PostedAgain(calls'[k]) /\ queue'[i].msg = "WM_CHAR"
        OBVIOUS
      <4>1. PICK j \in DOMAIN queue : queue'[i] = queue[j] BY <1>8
      <4>2. k # n BY <1>2, <1>8, <2>1
      <4>3. k \in DOMAIN calls /\ calls'[k] = calls[k] BY <2>1, <4>2
      <4> QED BY <1>5, <4>1, <4>3 DEF OnePlace
    <3>2. \A k, l \in DOMAIN calls' :
            k < l /\ calls'[k].char = calls'[l].char => PostedAgain(calls'[k]) /\ calls'[l].index # 0
      <4> SUFFICES ASSUME NEW k \in DOMAIN calls', NEW l \in DOMAIN calls', k < l, calls'[k].char = calls'[l].char
                   PROVE  PostedAgain(calls'[k]) /\ calls'[l].index # 0
        OBVIOUS
      <4>1. k # n BY <2>1
      <4>2. k \in DOMAIN calls /\ calls'[k] = calls[k] BY <2>1, <4>1
      <4>3. CASE l = n BY <1>2, <1>6, <2>1, <4>2, <4>3
      <4>4. CASE l # n BY <1>5, <2>1, <4>2, <4>4 DEF OnePlace
      <4> QED BY <4>3, <4>4
    <3>3. \A i \in DOMAIN queue' : queue'[i].char \in typed' BY <1>5, <1>8 DEF OnePlace
    <3>4. \A k \in DOMAIN calls' : calls'[k].char \in typed' BY <1>2, <1>5, <1>8, <2>1 DEF OnePlace
    <3> QED BY <2>2, <3>1, <3>2, <3>3, <3>4 DEF OnePlace
  <2>6. UnsentQueued' BY <1>5, <1>8, <2>2 DEF UnsentQueued
  <2>7. SentByCalls'
    <3> SUFFICES ASSUME NEW d \in Chars, NEW v \in Windows, NEW k \in DOMAIN calls',
                        calls'[k].char = d, calls'[k].win = v
                 PROVE  /\ calls'[k].index = 0 /\ ~PostedAgain(calls'[k]) => Sent(d)' = {}
                        /\ calls'[k].index # 0 =>
                              /\ Sent(d)' = 1 .. IF Consumed(d)' THEN 2 ELSE calls'[k].index
                              /\ SentTo(d, v)'
      BY DEF SentByCalls
    <3>1. CASE k = n
      <4>1. d = c /\ v = w /\ calls'[k].index = i0 BY <1>2, <2>1, <3>1
      <4>2. ~Consumed(d)' BY <1>6, <2>3, <4>1
      <4>3. Sent(d)' = IF lead THEN 1 .. 1 ELSE {} BY <2>2, <4>1
      <4>4. SentTo(d, v)' BY <1>7, <2>2, <4>1
      <4>5. lead <=> i0 = 1 BY <1>2
      <4>6. i0 = 0 => Sent(d)' = {} BY <4>3, <4>5
      <4>7. i0 # 0 => i0 = 1 BY <1>2
      <4>8. i0 # 0 => Sent(d)' = 1 .. IF Consumed(d)' THEN 2 ELSE i0 BY <4>2, <4>3, <4>5, <4>7
      <4> QED BY <4>1, <4>4, <4>6, <4>8
    <3>2. CASE k # n
      <4>1. k \in DOMAIN calls /\ calls'[k] = calls[k] BY <2>1, <3>2
      <4>2. CASE d = c BY <1>6, <4>1, <4>2
      <4>3. CASE d # c
        <5>1. /\ calls[k].index = 0 /\ ~PostedAgain(calls[k]) => Sent(d) = {}
              /\ calls[k].index # 0 =>
                    /\ Sent(d) = 1 .. IF Consumed(d) THEN 2 ELSE calls[k].index
                    /\ SentTo(d, v)
          BY <1>5, <4>1 DEF SentByCalls
        <5>2. Sent(d)' = Sent(d) /\ (Consumed(d)' <=> Consumed(d)) /\ (SentTo(d, v) => SentTo(d, v)')
          BY <2>2, <2>3, <4>3
        <5> QED BY <4>1, <5>1, <5>2
      <4> QED BY <4>2, <4>3
    <3> QED BY <3>1, <3>2
  <2>8. AllSent'
    <3> SUFFICES ASSUME NEW d \in typed', ~Live(d)'
                 PROVE  Sent(d)' = IF d \in due' THEN 1 .. Bytes(d) ELSE {}
      BY DEF AllSent
    <3>1. d # c BY <1>2, <2>1 DEF Live
    <3>2. CASE d \in typed
      <4>1. ~Live(d) BY <1>8, <2>1, <3>1 DEF Live
      <4> QED BY <1>5, <1>12, <2>2, <3>1, <3>2, <4>1 DEF AllSent
    <3>3. CASE d \notin typed BY <1>12, <2>2, <3>1, <3>3
    <3> QED BY <3>2, <3>3
  <2>9. DueIs'
    <3>1. \A i \in DOMAIN queue' : queue'[i].char \in due' <=> queue'[i].msg = "WM_CHAR"
      BY <1>5, <1>8, <1>12 DEF DueIs
    <3>2. \A k \in DOMAIN calls' :
             /\ calls'[k].index # 0 => calls'[k].char \in due'
             /\ calls'[k].index = 0 /\ ~PostedAgain(calls'[k]) => calls'[k].char \notin due'
      <4> TAKE k \in DOMAIN calls'
      <4>1. CASE k = n BY <1>2, <1>12, <2>1, <4>1
      <4>2. CASE k # n
        <5>1. k \in DOMAIN calls /\ calls'[k] = calls[k] BY <2>1, <4>2
        <5>2. CASE calls[k].char = c BY <1>6, <5>1, <5>2
        <5>3. CASE calls[k].char # c BY <1>5, <1>12, <5>1, <5>3 DEF DueIs
        <5> QED BY <5>2, <5>3
      <4> QED BY <4>1, <4>2
    <3> QED BY <3>1, <3>2 DEF DueIs
  <2> QED BY <2>2, <2>3, <2>4, <2>5, <2>6, <2>7, <2>8, <2>9 DEF DeliveryInv
<1>11. dropped \/ called
  BY DEF CallAnsiCharacterProc, PushFrame, c, w, lead, i0, new, got, frame
<1> QED
  <2> HIDE DEF dropped, called
  <2> QED BY <1>9, <1>10, <1>11

LEMMA InitDelivery == Init => DeliveryInv
<1> SUFFICES ASSUME Init PROVE DeliveryInv
  OBVIOUS
<1>1. queue = <<>> /\ calls = <<>> /\ frames = <<>> /\ typed = {} /\ due = {} /\ received = <<>>
  BY DEF Init
<1>2. DOMAIN queue = {} /\ DOMAIN calls = {} /\ DOMAIN frames = {} /\ DOMAIN received = {} BY <1>1
<1>3. TypeOK BY <1>1, CharAssumption DEF TypeOK
<1>4. OnePlace /\ FramesFollow /\ InOrder BY <1>1, <1>2 DEF OnePlace, FramesFollow, InOrder
<1>5. UnsentQueued /\ SentByCalls /\ AllSent /\ DueIs
  BY <1>1, <1>2 DEF UnsentQueued, SentByCalls, AllSent, DueIs
<1> QED BY <1>3, <1>4, <1>5 DEF DeliveryInv

(* The parts of the invariant, and a character that was not typed.           *)
LEMMA DeliveryFacts ==
  ASSUME DeliveryInv
  PROVE  /\ queue \in Seq(Messages) /\ calls \in Seq(Calls) /\ frames \in Seq(Frames)
         /\ received \in Seq(Received) /\ typed \subseteq Chars /\ due \subseteq typed
         /\ Len(calls) <= MaxNested
         /\ \A k \in DOMAIN calls : calls[k].index <= Bytes(calls[k].char)
         /\ OnePlace /\ FramesFollow /\ InOrder /\ UnsentQueued /\ SentByCalls /\ AllSent /\ DueIs
BY DEF DeliveryInv, TypeOK

LEMMA SameDelivery ==
  ASSUME DeliveryInv, queue' = queue, calls' = calls, frames' = frames, typed' = typed, due' = due,
         received' = received
  PROVE  DeliveryInv'
<1>1. OnePlace /\ FramesFollow /\ InOrder /\ UnsentQueued /\ SentByCalls /\ AllSent /\ DueIs
  BY DeliveryFacts
<1>2. /\ \A d : Sent(d)' = Sent(d) /\ (Consumed(d)' <=> Consumed(d))
      /\ \A d, v : SentTo(d, v)' <=> SentTo(d, v)
      /\ InOrder'
  BY <1>1, SameSent, SameFrames
<1>3. TypeOK' BY DEF TypeOK, DeliveryInv
<1>4. OnePlace' BY <1>1 DEF OnePlace
<1>5. FramesFollow' BY <1>1 DEF FramesFollow
<1>6. UnsentQueued' BY <1>1, <1>2 DEF UnsentQueued
<1>7. SentByCalls' BY <1>1, <1>2 DEF SentByCalls
<1>8. \A d : Live(d)' <=> Live(d) BY DEF Live
<1>9. AllSent' BY <1>1, <1>2, <1>8 DEF AllSent
<1>10. DueIs' BY <1>1 DEF DueIs
<1> QED BY <1>2, <1>3, <1>4, <1>5, <1>6, <1>7, <1>9, <1>10 DEF DeliveryInv

(* The character a message arrives with, and the one it was sent with.       *)
LEMMA Arrived ==
  ASSUME NEW m \in Messages, NEW c \in Arrivals(m), m.char \notin typed
  PROVE  /\ c \in Chars /\ c \notin typed /\ m.char \in Chars
         /\ [m EXCEPT !.char = c] \in Messages
         /\ [m EXCEPT !.char = c].char = c /\ [m EXCEPT !.char = c].msg = m.msg
         /\ m.msg = "WM_CHAR" => c = m.char
<1>1. m.char \in Chars BY DEF Messages
<1>2. c = m.char \/ (m.msg = "WM_IME_CHAR" /\ c \in AnsiCharacterParamToUnicode(m.char)) BY DEF Arrivals
<1>3. c \in Chars /\ c \notin typed BY <1>1, <1>2 DEF AnsiCharacterParamToUnicode
<1>4. /\ [m EXCEPT !.char = c] \in Messages
      /\ [m EXCEPT !.char = c].char = c /\ [m EXCEPT !.char = c].msg = m.msg
  BY <1>3 DEF Messages
<1>5. m.msg = "WM_CHAR" => c = m.char BY <1>2
<1> QED BY <1>1, <1>3, <1>4, <1>5

LEMMA NotTyped ==
  ASSUME OnePlace, received \in Seq(Received), NEW c, c \notin typed
  PROVE  /\ Sent(c) = {}
         /\ \A k \in DOMAIN calls : calls[k].char # c
         /\ \A i \in DOMAIN queue : queue[i].char # c
<1>1. \A j \in 1 .. Len(received) : received[j].char # c
  <2>1. DOMAIN received = 1 .. Len(received) OBVIOUS
  <2> QED BY <2>1 DEF OnePlace
<1>2. {j \in 1 .. Len(received) : received[j].char = c} = {} BY <1>1
<1>3. Sent(c) = {} BY <1>2 DEF Sent, Parts
<1> QED BY <1>3 DEF OnePlace

LEMMA SendKeeps ==
  ASSUME DeliveryInv, NEW sent \in Messages, Send(sent)
  PROVE  DeliveryInv'
<1>7. PICK c \in Arrivals(sent) : Type(sent, c) /\ CallAnsiCharacterProc([sent EXCEPT !.char = c]) BY DEF Send
<1>8. sent.char \notin typed BY <1>7 DEF Type
<1>9. PICK m : m = [sent EXCEPT !.char = c] OBVIOUS
<1>10. /\ c \in Chars /\ c \notin typed /\ sent.char \in Chars
       /\ m \in Messages /\ m.char = c /\ m.msg = sent.msg
       /\ sent.msg = "WM_CHAR" => c = sent.char
  BY <1>8, <1>9, Arrived
<1>1. /\ queue' = queue /\ typed' = typed \cup {sent.char, m.char} /\ CallAnsiCharacterProc(m) /\ m.char \notin typed
      /\ due' = IF m.msg = "WM_CHAR" THEN due \cup {m.char} ELSE due
  BY <1>7, <1>9, <1>10 DEF Send, Type
<1>2. /\ queue \in Seq(Messages) /\ received \in Seq(Received) /\ OnePlace
      /\ typed \subseteq Chars /\ due \subseteq typed
  BY DeliveryFacts
<1>11. Sent(sent.char) = {} BY <1>2, <1>8, NotTyped
<1>12. /\ typed \cup {m.char} \subseteq typed' /\ typed' \subseteq Chars /\ due' \subseteq typed'
       /\ m.char \in due' <=> m.msg = "WM_CHAR"
       /\ \A d : d # m.char => (d \in due' <=> d \in due)
       /\ \A d \in typed' : d \in typed \/ d = m.char \/ (d \notin due' /\ Sent(d) = {})
  <2>1. typed' \subseteq Chars BY <1>1, <1>2, <1>10
  <2>2. m.char \notin due /\ sent.char \notin due BY <1>1, <1>2, <1>8
  <2> QED BY <1>1, <1>2, <1>11, <2>1, <2>2
<1>3. /\ Sent(m.char) = {}
      /\ \A k \in DOMAIN calls : calls[k].char # m.char
      /\ \A i \in DOMAIN queue : queue[i].char # m.char
  BY <1>1, <1>2, NotTyped
<1>4. \A i, j \in DOMAIN queue' : queue'[i].char = queue'[j].char => i = j BY <1>1, <1>2 DEF OnePlace
<1>5. \A i \in DOMAIN queue' : queue'[i].char # m.char /\ \E j \in DOMAIN queue : queue'[i] = queue[j] BY <1>1, <1>3
<1>6. \A j \in DOMAIN queue : queue[j].char = m.char \/ \E i \in DOMAIN queue' : queue'[i] = queue[j] BY <1>1
<1> QED BY <1>1, <1>2, <1>3, <1>4, <1>5, <1>6, <1>10, <1>12, NewCall

LEMMA PeekQueueKeeps ==
  ASSUME DeliveryInv, NEW w, NEW range, PeekQueue(w, range)
  PROVE  DeliveryInv'
<1>1. PICK k \in DOMAIN queue : queue' = RemoveAt(queue, k) /\ CallAnsiCharacterProc(queue[k])
  BY DEF PeekQueue
<1>2. typed' = typed /\ due' = due BY DEF PeekQueue
<1>3. /\ queue \in Seq(Messages) /\ received \in Seq(Received) /\ OnePlace /\ UnsentQueued
      /\ DueIs /\ typed \subseteq Chars /\ due \subseteq typed
  BY DeliveryFacts
<1> DEFINE m == queue[k]
<1>4. m \in Messages /\ m.char \in Chars
  <2>1. queue[k] \in Messages
    <3>1. queue \in Seq(Messages) BY <1>3
    <3> QED BY <3>1
  <2> QED BY <2>1 DEF Messages
<1>5. queue' = Without(queue, k) BY <1>1 DEF Without, RemoveAt
<1>6. /\ queue' \in Seq(Messages) /\ DOMAIN queue' \in SUBSET Nat /\ DOMAIN queue \in SUBSET Nat
      /\ \A i \in DOMAIN queue' : /\ i < k => i \in DOMAIN queue /\ queue'[i] = queue[i]
                                  /\ i >= k => i + 1 \in DOMAIN queue /\ queue'[i] = queue[i + 1]
      /\ \A i \in DOMAIN queue : /\ i < k => i \in DOMAIN queue' /\ queue'[i] = queue[i]
                                 /\ i > k => i - 1 \in DOMAIN queue' /\ queue'[i - 1] = queue[i]
  BY <1>3, <1>5, Removed
<1>7. Sent(m.char) = {} BY <1>3, <1>4 DEF UnsentQueued
<1>8. \A j \in DOMAIN calls : calls[j].char = m.char => PostedAgain(calls[j]) /\ m.msg = "WM_CHAR"
  BY <1>3 DEF OnePlace
<1>9. m.char \in typed /\ (m.char \in due <=> m.msg = "WM_CHAR") BY <1>3 DEF OnePlace, DueIs
<1>10. \A i, j \in DOMAIN queue : queue[i].char = queue[j].char => i = j BY <1>3 DEF OnePlace
<1>11. CallAnsiCharacterProc(m) BY <1>1
<1> HIDE DEF m
<1>12. \A i, j \in DOMAIN queue' : queue'[i].char = queue'[j].char => i = j
  <2> SUFFICES ASSUME NEW i \in DOMAIN queue', NEW j \in DOMAIN queue', queue'[i].char = queue'[j].char
               PROVE  i = j
    OBVIOUS
  <2>1. i \in Nat /\ j \in Nat /\ k \in Nat BY <1>6
  <2>2. (i < k \/ i >= k) /\ (j < k \/ j >= k) BY <2>1
  <2>3. CASE i < k /\ j < k BY <1>6, <1>10, <2>3
  <2>4. CASE i < k /\ j >= k
    <3>1. i = j + 1 BY <1>6, <1>10, <2>4
    <3> QED BY <2>1, <2>4, <3>1
  <2>5. CASE i >= k /\ j < k
    <3>1. j = i + 1 BY <1>6, <1>10, <2>5
    <3> QED BY <2>1, <2>5, <3>1
  <2>6. CASE i >= k /\ j >= k
    <3>1. i + 1 = j + 1 BY <1>6, <1>10, <2>6
    <3> QED BY <2>1, <3>1
  <2> QED BY <2>2, <2>3, <2>4, <2>5, <2>6
<1>13. \A i \in DOMAIN queue' : queue'[i].char # m.char /\ \E j \in DOMAIN queue : queue'[i] = queue[j]
  <2> TAKE i \in DOMAIN queue'
  <2>1. i \in Nat /\ k \in Nat BY <1>6
  <2>2. CASE i < k
    <3>1. i \in DOMAIN queue /\ queue'[i] = queue[i] /\ i # k BY <1>6, <2>1, <2>2
    <3> QED BY <1>10, <3>1 DEF m
  <2>3. CASE i >= k
    <3>1. i + 1 \in DOMAIN queue /\ queue'[i] = queue[i + 1] /\ i + 1 # k BY <1>6, <2>1, <2>3
    <3> QED BY <1>10, <3>1 DEF m
  <2> QED BY <2>1, <2>2, <2>3
<1>14. \A j \in DOMAIN queue : queue[j].char = m.char \/ \E i \in DOMAIN queue' : queue'[i] = queue[j]
  <2> TAKE j \in DOMAIN queue
  <2>1. j \in Nat /\ k \in Nat BY <1>6
  <2>2. j < k \/ j = k \/ j > k BY <2>1
  <2>3. CASE j < k BY <1>6, <2>3
  <2>4. CASE j = k BY <2>4 DEF m
  <2>5. CASE j > k BY <1>6, <2>5
  <2> QED BY <2>2, <2>3, <2>4, <2>5
<1>15. /\ typed \cup {m.char} \subseteq typed' /\ typed' \subseteq Chars /\ due' \subseteq typed'
       /\ m.char \in due' <=> m.msg = "WM_CHAR"
       /\ \A d : d # m.char => (d \in due' <=> d \in due)
       /\ \A d \in typed' : d \in typed \/ d = m.char \/ (d \notin due' /\ Sent(d) = {})
  BY <1>2, <1>3, <1>9
<1> QED BY <1>4, <1>6, <1>7, <1>8, <1>11, <1>12, <1>13, <1>14, <1>15, NewCall

LEMMA PostKeeps ==
  ASSUME DeliveryInv, NEW posted \in Messages, Post(posted)
  PROVE  DeliveryInv'
<1> DEFINE n == Len(queue')
<1>14. PICK c \in Arrivals(posted) : Type(posted, c) /\ queue' = Append(queue, [posted EXCEPT !.char = c])
  BY DEF Post
<1>15. posted.char \notin typed BY <1>14 DEF Type
<1>16. PICK m : m = [posted EXCEPT !.char = c] OBVIOUS
<1>2. /\ c \in Chars /\ c \notin typed /\ posted.char \in Chars
      /\ m \in Messages /\ m.char = c /\ m.msg = posted.msg
      /\ posted.msg = "WM_CHAR" => c = posted.char
  BY <1>15, <1>16, Arrived
<1>1. /\ queue' = Append(queue, m) /\ typed' = typed \cup {posted.char, c}
      /\ due' = IF m.msg = "WM_CHAR" THEN due \cup {c} ELSE due
      /\ calls' = calls /\ frames' = frames /\ received' = received
  BY <1>2, <1>14, <1>16 DEF Post, Type
<1>3. /\ queue \in Seq(Messages) /\ received \in Seq(Received) /\ calls \in Seq(Calls) /\ typed \subseteq Chars
      /\ frames \in Seq(Frames) /\ due \subseteq typed
      /\ OnePlace /\ FramesFollow /\ InOrder /\ UnsentQueued /\ SentByCalls /\ AllSent /\ DueIs
  BY DeliveryFacts
<1>4. /\ Sent(c) = {} /\ Sent(posted.char) = {}
      /\ \A k \in DOMAIN calls : calls[k].char # c
      /\ \A i \in DOMAIN queue : queue[i].char # c
  BY <1>2, <1>3, <1>15, NotTyped
<1>5. /\ \A d : Sent(d)' = Sent(d) /\ (Consumed(d)' <=> Consumed(d))
      /\ \A d, v : SentTo(d, v)' <=> SentTo(d, v)
      /\ InOrder'
  BY <1>1, <1>3, SameSent, SameFrames
<1>6. /\ queue' \in Seq(Messages) /\ n \in DOMAIN queue' /\ queue'[n] = m
      /\ \A i \in DOMAIN queue : i \in DOMAIN queue' /\ queue'[i] = queue[i]
      /\ \A i \in DOMAIN queue' : i # n => i \in DOMAIN queue /\ queue'[i] = queue[i]
  BY <1>1, <1>2, <1>3, Appended
<1>7. /\ m.char = c /\ typed' \subseteq Chars /\ typed \subseteq typed' /\ c \in typed' /\ due' \subseteq typed'
      /\ c \in due' <=> m.msg = "WM_CHAR"
      /\ \A d : d # c => (d \in due' <=> d \in due)
      /\ \A d \in typed' : d \in typed \/ d = c \/ (d \notin due' /\ Sent(d) = {})
  <2>1. typed' \subseteq Chars BY <1>1, <1>2, <1>3
  <2>2. c \notin due /\ posted.char \notin due BY <1>2, <1>3, <1>15
  <2> QED BY <1>1, <1>2, <1>3, <1>4, <2>1, <2>2
<1> HIDE DEF n
<1>8. TypeOK' BY <1>1, <1>6, <1>7 DEF TypeOK, DeliveryInv
<1>9. OnePlace'
  <2>1. \A i, j \in DOMAIN queue' : queue'[i].char = queue'[j].char => i = j
    <3> SUFFICES ASSUME NEW i \in DOMAIN queue', NEW j \in DOMAIN queue', queue'[i].char = queue'[j].char
                 PROVE  i = j
      OBVIOUS
    <3>1. CASE i = n /\ j = n BY <3>1
    <3>2. CASE i # n /\ j = n BY <1>4, <1>6, <1>7, <3>2
    <3>3. CASE i = n /\ j # n BY <1>4, <1>6, <1>7, <3>3
    <3>4. CASE i # n /\ j # n BY <1>3, <1>6, <3>4 DEF OnePlace
    <3> QED BY <3>1, <3>2, <3>3, <3>4
  <2>2. \A i \in DOMAIN queue', k \in DOMAIN calls :
          queue'[i].char = calls[k].char => PostedAgain(calls[k]) /\ queue'[i].msg = "WM_CHAR"
    <3> SUFFICES ASSUME NEW i \in DOMAIN queue', NEW k \in DOMAIN calls, queue'[i].char = calls[k].char
                 PROVE  PostedAgain(calls[k]) /\ queue'[i].msg = "WM_CHAR"
      OBVIOUS
    <3>1. i # n BY <1>4, <1>6, <1>7
    <3>2. i \in DOMAIN queue /\ queue'[i] = queue[i] BY <1>6, <3>1
    <3> QED BY <1>3, <3>2 DEF OnePlace
  <2>3. \A i \in DOMAIN queue' : queue'[i].char \in typed' BY <1>3, <1>6, <1>7 DEF OnePlace
  <2>4. \A k \in DOMAIN calls : calls[k].char \in typed' BY <1>3, <1>7 DEF OnePlace
  <2>5. \A j \in DOMAIN received : received[j].char \in typed' BY <1>3, <1>7 DEF OnePlace
  <2>6. \A k, l \in DOMAIN calls :
          k < l /\ calls[k].char = calls[l].char => PostedAgain(calls[k]) /\ calls[l].index # 0
    BY <1>3 DEF OnePlace
  <2> QED BY <1>1, <2>1, <2>2, <2>3, <2>4, <2>5, <2>6 DEF OnePlace
<1>10. FramesFollow' BY <1>1, <1>3 DEF FramesFollow
<1>11. UnsentQueued' BY <1>3, <1>4, <1>5, <1>6, <1>7 DEF UnsentQueued
<1>12. SentByCalls' BY <1>1, <1>3, <1>5 DEF SentByCalls
<1>13. AllSent'
  <2> SUFFICES ASSUME NEW d \in typed', ~Live(d)'
               PROVE  Sent(d) = IF d \in due' THEN 1 .. Bytes(d) ELSE {}
    BY <1>5 DEF AllSent
  <2>1. d # c BY <1>6, <1>7 DEF Live
  <2>2. CASE d \in typed
    <3>1. ~Live(d) BY <1>1, <1>6 DEF Live
    <3> QED BY <1>3, <1>7, <2>1, <2>2, <3>1 DEF AllSent
  <2>3. CASE d \notin typed BY <1>7, <2>1, <2>3
  <2> QED BY <2>2, <2>3
<1>17. DueIs'
  <2>1. \A i \in DOMAIN queue' : queue'[i].char \in due' <=> queue'[i].msg = "WM_CHAR"
    <3> TAKE i \in DOMAIN queue'
    <3>1. CASE i = n BY <1>6, <1>7, <3>1
    <3>2. CASE i # n BY <1>3, <1>4, <1>6, <1>7, <3>2 DEF DueIs
    <3> QED BY <3>1, <3>2
  <2>2. \A k \in DOMAIN calls : calls[k].char \in due' <=> calls[k].char \in due BY <1>4, <1>7
  <2> QED BY <1>1, <1>3, <2>1, <2>2 DEF DueIs
<1> QED BY <1>5, <1>8, <1>9, <1>10, <1>11, <1>12, <1>13, <1>17 DEF DeliveryInv

(* The innermost call, and the characters of the others.                     *)
LEMMA TopCall ==
  ASSUME DeliveryInv, calls # <<>>
  PROVE  /\ Len(calls) \in DOMAIN calls /\ Len(calls) \in Nat /\ DOMAIN calls \in SUBSET Nat
         /\ Top = calls[Len(calls)] /\ Top \in Calls /\ Top.char \in Chars /\ Top.win \in Windows
         /\ Top.index \in 0 .. 3 /\ Top.index <= Bytes(Top.char) /\ Top.char \in typed
         /\ \A k \in DOMAIN calls : k <= Len(calls)
         /\ \A k \in DOMAIN calls : k # Len(calls) /\ calls[k].char = Top.char =>
               /\ PostedAgain(calls[k]) /\ ~Leads(calls[k]) /\ calls[k].index = 0
               /\ Top.index # 0
<1>1. /\ calls \in Seq(Calls) /\ OnePlace
      /\ \A k \in DOMAIN calls : calls[k].index <= Bytes(calls[k].char)
  BY DeliveryFacts
<1>2. Len(calls) \in DOMAIN calls /\ Len(calls) \in Nat /\ DOMAIN calls = 1 .. Len(calls) BY <1>1
<1>3. Top = calls[Len(calls)] BY DEF Top
<1>4. calls[Len(calls)] \in Calls BY <1>1, <1>2
<1>5. /\ Top \in Calls /\ Top.char \in Chars /\ Top.win \in Windows /\ Top.index \in 0 .. 3
  BY <1>3, <1>4 DEF Calls
<1>6. Top.index <= Bytes(Top.char) /\ Top.char \in typed BY <1>1, <1>2, <1>3 DEF OnePlace
<1>7. ASSUME NEW k \in DOMAIN calls, k # Len(calls), calls[k].char = Top.char
      PROVE  PostedAgain(calls[k]) /\ Top.index # 0
  <2>1. k < Len(calls) BY <1>2, <1>7
  <2> QED BY <1>1, <1>2, <1>3, <1>7, <2>1 DEF OnePlace
<1>8. \A k \in DOMAIN calls : PostedAgain(calls[k]) => ~Leads(calls[k]) /\ calls[k].index = 0
  BY DEF PostedAgain, Leads
<1> QED BY <1>2, <1>3, <1>5, <1>6, <1>7, <1>8

LEMMA DefWindowProcKeeps ==
  ASSUME DeliveryInv, DefWindowProc
  PROVE  DeliveryInv'
<1> DEFINE n == Len(calls)
           c == Top.char
           w == Top.win
           new == [Top EXCEPT !.defaulted = TRUE]
           q == Len(queue')
<1>17. PICK e \in AnsiCharacterParamToUnicode(c) :
          /\ queue' = Append(queue, [msg |-> "WM_CHAR", char |-> e, win |-> w])
          /\ typed' = typed \cup {e} /\ due' = due \cup {e}
  BY DEF DefWindowProc
<1> DEFINE m == [msg |-> "WM_CHAR", char |-> e, win |-> w]
<1>1. /\ calls # <<>> /\ Top.index = 0 /\ ~Top.defaulted
      /\ queue' = Append(queue, m) /\ calls' = [calls EXCEPT ![n].defaulted = TRUE]
      /\ frames' = frames /\ received' = received
      /\ typed' = typed \cup {e} /\ due' = due \cup {e}
  BY <1>17 DEF DefWindowProc
<1>2. /\ n \in DOMAIN calls /\ DOMAIN calls \in SUBSET Nat
      /\ Top = calls[n] /\ Top \in Calls /\ c \in Chars /\ w \in Windows /\ c \in typed
      /\ \A k \in DOMAIN calls : k # n => calls[k].char # c
  BY <1>1, TopCall
<1>3. calls' = [calls EXCEPT ![n] = new] BY <1>1, <1>2
<1>18. e \in Chars /\ (e = c \/ e \notin typed) BY <1>2 DEF AnsiCharacterParamToUnicode
<1>4. /\ m \in Messages /\ m.char = e /\ m.msg = "WM_CHAR" BY <1>2, <1>18 DEF Messages
<1>5. /\ new \in Calls /\ new.char = c /\ new.win = w /\ new.index = 0 /\ PostedAgain(new)
      /\ ~Leads(new) /\ ~PostedAgain(Top) /\ ~Leads(Top)
  <2>1. new \in Calls /\ new.char = c /\ new.win = w /\ new.index = Top.index BY <1>2 DEF Calls
  <2>2. new.defaulted = TRUE BY <1>2 DEF Calls
  <2>3. PostedAgain(new) BY <1>1, <2>1, <2>2 DEF PostedAgain
  <2>4. ~Leads(new) /\ ~PostedAgain(Top) /\ ~Leads(Top) BY <1>1, <2>1 DEF PostedAgain, Leads
  <2> QED BY <1>1, <2>1, <2>3, <2>4
<1>6. /\ queue \in Seq(Messages) /\ received \in Seq(Received) /\ calls \in Seq(Calls) /\ typed \subseteq Chars
      /\ frames \in Seq(Frames) /\ Len(calls) <= MaxNested /\ due \subseteq typed
      /\ OnePlace /\ FramesFollow /\ InOrder /\ UnsentQueued /\ SentByCalls /\ AllSent /\ DueIs
      /\ \A k \in DOMAIN calls : calls[k].index <= Bytes(calls[k].char)
  BY DeliveryFacts
<1>7. /\ calls' \in Seq(Calls) /\ Len(calls') = n /\ DOMAIN calls' = DOMAIN calls
      /\ calls'[n] = new /\ \A k \in DOMAIN calls : k # n => calls'[k] = calls[k]
  <2>1. calls \in Seq(Calls) /\ calls # <<>> /\ new \in Calls /\ calls' = [calls EXCEPT ![Len(calls)] = new]
    BY <1>1, <1>3, <1>5, <1>6
  <2> HIDE DEF new
  <2> QED BY <2>1, LastPut
<1>8. /\ queue' \in Seq(Messages) /\ q \in DOMAIN queue' /\ queue'[q] = m
      /\ \A i \in DOMAIN queue : i \in DOMAIN queue' /\ queue'[i] = queue[i]
      /\ \A i \in DOMAIN queue' : i # q => i \in DOMAIN queue /\ queue'[i] = queue[i]
  BY <1>1, <1>4, <1>6, Appended
<1>9. /\ \A d : Sent(d)' = Sent(d) /\ (Consumed(d)' <=> Consumed(d))
      /\ \A d, v : SentTo(d, v)' <=> SentTo(d, v)
      /\ InOrder'
  BY <1>1, <1>6, SameSent, SameFrames
<1>10. /\ Sent(c) = {} /\ Sent(e) = {} /\ Top.index = 0 /\ c \notin due
       /\ \A i \in DOMAIN queue : queue[i].char # c /\ queue[i].char # e
       /\ \A k \in DOMAIN calls : k # n => calls[k].char # e
  <2>1. Sent(c) = {} BY <1>1, <1>2, <1>5, <1>6 DEF SentByCalls
  <2>2. \A i \in DOMAIN queue : queue[i].char # c BY <1>2, <1>5, <1>6 DEF OnePlace
  <2>3. c \notin due BY <1>1, <1>2, <1>5, <1>6 DEF DueIs
  <2>4. CASE e = c BY <1>1, <1>2, <2>1, <2>2, <2>3, <2>4
  <2>5. CASE e \notin typed
    <3>1. /\ Sent(e) = {}
          /\ \A k \in DOMAIN calls : calls[k].char # e
          /\ \A i \in DOMAIN queue : queue[i].char # e
      BY <1>6, <2>5, NotTyped
    <3> QED BY <1>1, <2>1, <2>2, <2>3, <3>1
  <2> QED BY <1>18, <2>4, <2>5
<1>20. Top = calls[n] BY <1>2
<1> HIDE DEF n, c, w, m, new, q
<1>19. /\ typed \subseteq typed' /\ e \in typed' /\ typed' \subseteq Chars /\ due' \subseteq typed'
       /\ typed' = typed \cup {e} /\ due' = due \cup {e}
  BY <1>1, <1>6, <1>18
<1>11. TypeOK'
  <2>1. \A k \in DOMAIN calls' : calls'[k].index <= Bytes(calls'[k].char)
    <3> TAKE k \in DOMAIN calls'
    <3>1. calls[n].char = c /\ calls[n].index = 0 BY <1>10, <1>20 DEF c
    <3>2. CASE k = n BY <1>2, <1>5, <1>6, <1>7, <3>1, <3>2
    <3>3. CASE k # n BY <1>6, <1>7, <3>3
    <3> QED BY <3>2, <3>3
  <2>2. Len(calls') <= MaxNested BY <1>6, <1>7 DEF n
  <2> QED BY <1>1, <1>6, <1>7, <1>8, <1>19, <2>1, <2>2 DEF TypeOK
<1>12. OnePlace'
  <2>1. \A i, j \in DOMAIN queue' : queue'[i].char = queue'[j].char => i = j
    <3> TAKE i, j \in DOMAIN queue'
    <3> QED BY <1>4, <1>6, <1>8, <1>10 DEF OnePlace
  <2>2. \A i \in DOMAIN queue', k \in DOMAIN calls' :
          queue'[i].char = calls'[k].char => PostedAgain(calls'[k]) /\ queue'[i].msg = "WM_CHAR"
    <3> SUFFICES ASSUME NEW i \in DOMAIN queue', NEW k \in DOMAIN calls', queue'[i].char = calls'[k].char
                 PROVE  PostedAgain(calls'[k]) /\ queue'[i].msg = "WM_CHAR"
      OBVIOUS
    <3>1. CASE k = n
      <4>1. i = q
        <5>1. queue'[i].char = c BY <1>5, <1>7, <3>1
        <5> QED BY <1>8, <1>10, <5>1
      <4> QED BY <1>4, <1>5, <1>7, <1>8, <3>1, <4>1
    <3>2. CASE k # n
      <4>1. i # q BY <1>4, <1>7, <1>8, <1>10, <3>2
      <4>2. /\ k \in DOMAIN calls /\ calls'[k] = calls[k] /\ i \in DOMAIN queue /\ queue'[i] = queue[i]
        BY <1>7, <1>8, <3>2, <4>1
      <4> QED BY <1>6, <4>2 DEF OnePlace
    <3> QED BY <3>1, <3>2
  <2>3. \A i \in DOMAIN queue' : queue'[i].char \in typed' BY <1>4, <1>6, <1>8, <1>19 DEF OnePlace
  <2>4. \A k \in DOMAIN calls' : calls'[k].char \in typed' BY <1>2, <1>5, <1>6, <1>7, <1>19 DEF OnePlace
  <2>5. \A j \in DOMAIN received : received[j].char \in typed' BY <1>6, <1>19 DEF OnePlace
  <2>6. \A k, l \in DOMAIN calls' :
          k < l /\ calls'[k].char = calls'[l].char => PostedAgain(calls'[k]) /\ calls'[l].index # 0
    <3> SUFFICES ASSUME NEW k \in DOMAIN calls', NEW l \in DOMAIN calls', k < l, calls'[k].char = calls'[l].char
                 PROVE  PostedAgain(calls'[k]) /\ calls'[l].index # 0
      OBVIOUS
    <3>1. k # l BY <1>2, <1>7
    <3>2. k # n /\ l # n BY <1>2, <1>5, <1>7, <3>1
    <3>3. k \in DOMAIN calls /\ l \in DOMAIN calls /\ calls'[k] = calls[k] /\ calls'[l] = calls[l] BY <1>7, <3>2
    <3> QED BY <1>6, <3>3 DEF OnePlace
  <2> QED BY <1>1, <2>1, <2>2, <2>3, <2>4, <2>5, <2>6 DEF OnePlace
<1>13. FramesFollow'
  <2>1. \A k \in DOMAIN calls' : Leads(calls'[k]) => k \in DOMAIN calls /\ calls'[k] = calls[k] BY <1>5, <1>7
  <2>2. \A k \in DOMAIN calls : Leads(calls[k]) => k \in DOMAIN calls' /\ calls'[k] = calls[k]
    BY <1>5, <1>7, <1>20
  <2> QED BY <1>1, <1>6, <2>1, <2>2, FramesKept
<1>14. UnsentQueued' BY <1>4, <1>6, <1>8, <1>9, <1>10 DEF UnsentQueued
<1>15. SentByCalls'
  <2> SUFFICES ASSUME NEW d \in Chars, NEW v \in Windows, NEW k \in DOMAIN calls',
                      calls'[k].char = d, calls'[k].win = v
               PROVE  /\ calls'[k].index = 0 /\ ~PostedAgain(calls'[k]) => Sent(d) = {}
                      /\ calls'[k].index # 0 =>
                            /\ Sent(d) = 1 .. IF Consumed(d) THEN 2 ELSE calls'[k].index
                            /\ SentTo(d, v)
    BY <1>9 DEF SentByCalls
  <2>1. CASE k = n BY <1>5, <1>7, <2>1
  <2>2. CASE k # n
    <3>1. k \in DOMAIN calls /\ calls'[k] = calls[k] BY <1>7, <2>2
    <3> QED BY <1>6, <3>1 DEF SentByCalls
  <2> QED BY <2>1, <2>2
<1>16. AllSent'
  <2> SUFFICES ASSUME NEW d \in typed', ~Live(d)'
               PROVE  Sent(d) = IF d \in due' THEN 1 .. Bytes(d) ELSE {}
    BY <1>9 DEF AllSent
  <2>3. d # e /\ d \in typed BY <1>4, <1>8, <1>19 DEF Live
  <2>4. CASE d = c BY <1>10, <1>19, <2>3, <2>4
  <2>5. ASSUME d # c PROVE ~Live(d)
    <3>1. \A i \in DOMAIN queue : queue[i].char # d BY <1>8 DEF Live
    <3>2. \A k \in DOMAIN calls : calls[k].char = d => PostedAgain(calls[k])
      <4> TAKE k \in DOMAIN calls
      <4>1. CASE k = n BY <1>20, <2>5, <4>1 DEF c
      <4>2. CASE k # n BY <1>7, <4>2 DEF Live
      <4> QED BY <4>1, <4>2
    <3> QED BY <3>1, <3>2 DEF Live
  <2>6. CASE d # c BY <1>6, <1>19, <2>3, <2>5, <2>6 DEF AllSent
  <2> QED BY <2>4, <2>6
<1>21. DueIs'
  <2>1. \A i \in DOMAIN queue' : queue'[i].char \in due' <=> queue'[i].msg = "WM_CHAR"
    <3> TAKE i \in DOMAIN queue'
    <3>1. CASE i = q BY <1>4, <1>8, <1>19, <3>1
    <3>2. CASE i # q BY <1>6, <1>8, <1>10, <1>19, <3>2 DEF DueIs
    <3> QED BY <3>1, <3>2
  <2>2. \A k \in DOMAIN calls' :
           /\ calls'[k].index # 0 => calls'[k].char \in due'
           /\ calls'[k].index = 0 /\ ~PostedAgain(calls'[k]) => calls'[k].char \notin due'
    <3> TAKE k \in DOMAIN calls'
    <3>1. CASE k = n BY <1>5, <1>7, <3>1
    <3>2. CASE k # n BY <1>6, <1>7, <1>10, <1>19, <3>2 DEF DueIs
    <3> QED BY <3>1, <3>2
  <2> QED BY <2>1, <2>2 DEF DueIs
<1> QED BY <1>9, <1>11, <1>12, <1>13, <1>14, <1>15, <1>16, <1>21 DEF DeliveryInv

(* The innermost frame is the pending one, and no two have one owner.        *)
LEMMA PendingIs ==
  ASSUME frames \in Seq(Frames)
  PROVE  /\ Pending # NoFrame => frames # <<>>
         /\ frames # <<>> => /\ Len(frames) \in DOMAIN frames /\ Pending = frames[Len(frames)]
                             /\ Pending \in Frames /\ Pending # NoFrame
<1>1. DOMAIN frames = 1 .. Len(frames) /\ Len(frames) \in Nat OBVIOUS
<1>2. \A i \in DOMAIN frames : frames[i] \in Frames OBVIOUS
<1>3. \A i \in DOMAIN frames : frames[i].kind = Kind BY <1>2 DEF Frames
<1>4. {i \in DOMAIN frames : frames[i].kind = Kind} = DOMAIN frames BY <1>3
<1>5. CASE frames = <<>>
  <2>1. DOMAIN frames = {} BY <1>5
  <2> QED BY <1>4, <1>5, <2>1 DEF Pending, FindFrame
<1>6. CASE frames # <<>>
  <2>1. Len(frames) \in DOMAIN frames /\ DOMAIN frames # {} BY <1>6
  <2>2. \A i \in DOMAIN frames : i <= Len(frames) BY <1>1
  <2>3. Max(DOMAIN frames) = Len(frames) BY <1>1, <2>1, <2>2, MaxIs
  <2>4. Pending = frames[Len(frames)] BY <1>4, <2>1, <2>3 DEF Pending, FindFrame
  <2> QED BY <1>2, <1>6, <2>1, <2>4, CharAssumption
<1> QED BY <1>5, <1>6

LEMMA OwnersDiffer ==
  ASSUME DeliveryInv, NEW i \in DOMAIN frames, NEW j \in DOMAIN frames, frames[i].owner = frames[j].owner
  PROVE  i = j
<1>1. FramesFollow /\ frames \in Seq(Frames) /\ calls \in Seq(Calls) BY DeliveryFacts
<1>2. DOMAIN frames \in SUBSET Nat /\ DOMAIN calls \in SUBSET Nat BY <1>1
<1>3. PICK k \in DOMAIN calls : Leads(calls[k]) /\ calls[k].char = frames[i].owner BY <1>1 DEF FramesFollow
<1>4. ~(i < j) /\ ~(j < i)
  <2>1. ~(k < k) BY <1>2
  <2> QED BY <1>1, <1>3, <2>1 DEF FramesFollow
<1> QED BY <1>2, <1>4

(* The call of a frame.                                                      *)
LEMMA OwnerCalled ==
  ASSUME DeliveryInv, NEW i \in DOMAIN frames
  PROVE  \E k \in DOMAIN calls :
            /\ calls[k].char = frames[i].owner /\ calls[k].win = frames[i].win
            /\ calls[k].index = 1 /\ Leads(calls[k]) /\ ~PostedAgain(calls[k])
            /\ Bytes(frames[i].owner) = 2
            /\ frames[i].owner \in Chars /\ frames[i].win \in Windows /\ frames[i].owner \in typed
            /\ \A l \in DOMAIN calls : calls[l].char = frames[i].owner /\ l # k =>
                  PostedAgain(calls[l]) \/ calls[l].index # 0
            /\ \A l \in DOMAIN queue : queue[l].char # frames[i].owner
<1>1. FramesFollow /\ OnePlace /\ frames \in Seq(Frames) /\ calls \in Seq(Calls) BY DeliveryFacts
<1>2. PICK k \in DOMAIN calls : Leads(calls[k]) /\ calls[k].char = frames[i].owner /\ calls[k].win = frames[i].win
  BY <1>1 DEF FramesFollow
<1>3. calls[k] \in Calls /\ DOMAIN calls \in SUBSET Nat BY <1>1
<1>4. calls[k].char \in Chars /\ calls[k].win \in Windows BY <1>3 DEF Calls
<1>5. calls[k].index = 1 /\ ~PostedAgain(calls[k]) /\ Bytes(calls[k].char) = 2
  BY <1>2 DEF Leads, Framed, PostedAgain
<1>6. calls[k].char \in typed BY <1>1 DEF OnePlace
<1>7. ASSUME NEW l \in DOMAIN calls, calls[l].char = calls[k].char, l # k
      PROVE  PostedAgain(calls[l]) \/ calls[l].index # 0
  <2>1. l < k \/ k < l BY <1>3, <1>7
  <2> QED BY <1>1, <1>7, <2>1 DEF OnePlace
<1>8. \A l \in DOMAIN queue : queue[l].char # calls[k].char BY <1>1, <1>5 DEF OnePlace
<1> QED BY <1>2, <1>4, <1>5, <1>6, <1>7, <1>8

(* The call that handles a lead byte has the innermost frame.                *)
LEMMA TopFrame ==
  ASSUME DeliveryInv, calls # <<>>, Leads(Top)
  PROVE  /\ frames # <<>> /\ Len(frames) \in DOMAIN frames /\ Pending = frames[Len(frames)]
         /\ Pending # NoFrame /\ Pending.owner = Top.char /\ Pending.win = Top.win
         /\ \A i \in DOMAIN frames : frames[i].owner = Top.char => i = Len(frames)
         /\ Pending.consumed <=> Consumed(Top.char)
<1>1. FramesFollow /\ OnePlace /\ frames \in Seq(Frames) BY DeliveryFacts
<1>2. /\ Len(calls) \in DOMAIN calls /\ DOMAIN calls \in SUBSET Nat /\ Top = calls[Len(calls)]
      /\ \A k \in DOMAIN calls : k <= Len(calls)
      /\ \A k \in DOMAIN calls : k # Len(calls) /\ calls[k].char = Top.char => ~Leads(calls[k])
  BY TopCall
<1>3. PICK i \in DOMAIN frames : frames[i].owner = Top.char BY <1>1, <1>2 DEF FramesFollow
<1> DEFINE f == Len(frames)
<1>4. DOMAIN frames = 1 .. f /\ f \in Nat /\ f \in DOMAIN frames /\ frames # <<>> BY <1>1, <1>3
<1> HIDE DEF f
<1>5. i = f
  <2> SUFFICES ASSUME i # f PROVE FALSE
    OBVIOUS
  <2>1. i < f BY <1>4
  <2>2. PICK l \in DOMAIN calls : Leads(calls[l]) /\ calls[l].char = frames[f].owner BY <1>1, <1>4 DEF FramesFollow
  <2>3. Len(calls) < l BY <1>1, <1>2, <1>3, <1>4, <2>1, <2>2 DEF FramesFollow
  <2> QED BY <1>2, <2>3
<1>6. Pending = frames[f] /\ Pending # NoFrame BY <1>1, <1>4, PendingIs DEF f
<1>7. \A j \in DOMAIN frames : frames[j].owner = Top.char => j = f BY <1>3, <1>5, OwnersDiffer
<1>8. PICK k \in DOMAIN calls : Leads(calls[k]) /\ calls[k].char = frames[f].owner /\ calls[k].win = frames[f].win
  BY <1>1, <1>4 DEF FramesFollow
<1>9. k = Len(calls) BY <1>2, <1>3, <1>5, <1>8
<1>10. Pending.consumed <=> Consumed(Top.char) BY <1>3, <1>4, <1>5, <1>6, <1>7 DEF Consumed
<1> QED BY <1>2, <1>3, <1>4, <1>5, <1>6, <1>7, <1>8, <1>9, <1>10 DEF f

(* The trail byte is taken.                                                  *)
LEMMA PeekPendingKeeps ==
  ASSUME DeliveryInv, NEW w, NEW range, NEW remove \in BOOLEAN, PeekPending(w, range, remove)
  PROVE  DeliveryInv'
<1>1. /\ calls # <<>> /\ Pending # NoFrame /\ ~Pending.consumed
      /\ queue' = queue /\ calls' = calls /\ typed' = typed /\ due' = due
      /\ IF remove THEN Take ELSE UNCHANGED <<frames, received>>
  BY DEF PeekPending, Offers
<1>2. /\ queue \in Seq(Messages) /\ received \in Seq(Received) /\ calls \in Seq(Calls) /\ typed \subseteq Chars
      /\ frames \in Seq(Frames)
      /\ OnePlace /\ FramesFollow /\ InOrder /\ UnsentQueued /\ SentByCalls /\ AllSent /\ DueIs
  BY DeliveryFacts
<1>3. CASE ~remove
  <2>1. frames' = frames /\ received' = received BY <1>1, <1>3
  <2> QED BY <1>1, <2>1, SameDelivery
<1>4. CASE remove
  <2> DEFINE f == Len(frames)
             c == Pending.owner
             got == Got(c, 2, Pending.win, Top.char)
             taken == [Pending EXCEPT !.consumed = TRUE]
  <2>1. /\ f \in DOMAIN frames /\ Pending = frames[f] /\ Pending \in Frames BY <1>1, <1>2, PendingIs
  <2>2. \A i \in DOMAIN frames : frames[i] = Pending => i = f BY <2>1, OwnersDiffer
  <2>3. /\ frames' = [i \in DOMAIN frames |-> IF frames[i] = Pending THEN taken ELSE frames[i]]
        /\ received' = Append(received, got)
    BY <1>1, <1>4 DEF Take
  <2>4. /\ taken \in Frames /\ taken.owner = c /\ taken.win = Pending.win /\ taken.consumed = TRUE
        /\ Pending.owner = c
    BY <2>1 DEF Frames
  <2>5. PICK k \in DOMAIN calls :
            /\ calls[k].char = c /\ calls[k].win = Pending.win
            /\ calls[k].index = 1 /\ Leads(calls[k]) /\ ~PostedAgain(calls[k])
            /\ Bytes(c) = 2
            /\ c \in Chars /\ Pending.win \in Windows /\ c \in typed
            /\ \A l \in DOMAIN calls : calls[l].char = c /\ l # k =>
                  PostedAgain(calls[l]) \/ calls[l].index # 0
            /\ \A l \in DOMAIN queue : queue[l].char # c
    BY <2>1, OwnerCalled
  <2>6. /\ got \in Received /\ got.char = c /\ got.index = 2 /\ got.win = Pending.win
    <3>1. Top.char \in Chars BY <1>1, TopCall
    <3> QED BY <2>5, <3>1 DEF Got, Received
  <2>7. ~Consumed(c)
    <3>1. \A i \in DOMAIN frames : frames[i].owner = c => i = f BY <2>1, OwnersDiffer
    <3> QED BY <1>1, <2>1, <3>1 DEF Consumed
  <2>30. \A i \in DOMAIN frames : frames[i].owner = c => i = f BY <2>1, OwnersDiffer
  <2> HIDE DEF f, c, got, taken
  <2>8. /\ frames' \in Seq(Frames) /\ DOMAIN frames' = DOMAIN frames /\ frames'[f] = taken
        /\ \A i \in DOMAIN frames : i # f => frames'[i] = frames[i]
    <3>1. DOMAIN frames' = DOMAIN frames BY <2>3
    <3>2. \A i \in DOMAIN frames : frames'[i] = IF frames[i] = Pending THEN taken ELSE frames[i] BY <2>3
    <3>3. frames' \in Seq(Frames)
      <4>1. \A i \in DOMAIN frames : frames'[i] \in Frames
        <5> TAKE i \in DOMAIN frames
        <5>1. frames[i] \in Frames /\ taken \in Frames BY <1>2, <2>4
        <5>2. frames'[i] = IF frames[i] = Pending THEN taken ELSE frames[i] BY <3>2
        <5> QED BY <5>1, <5>2
      <4>2. DOMAIN frames = 1 .. Len(frames) /\ Len(frames) \in Nat BY <1>2
      <4>3. frames' \in [1 .. Len(frames) -> Frames] BY <2>3, <4>1, <4>2
      <4> QED BY <4>2, <4>3
    <3> QED BY <2>1, <2>2, <3>1, <3>2, <3>3
  <2>9. Sent(c) = 1 .. 1 /\ SentTo(c, Pending.win) BY <1>2, <2>5, <2>7 DEF SentByCalls
  <2>10. /\ received' \in Seq(Received) /\ InOrder'
         /\ \A d : Sent(d)' = IF d = c THEN 1 .. 2 ELSE Sent(d)
         /\ \A d, v : SentTo(d, v) /\ (d = c => v = Pending.win) => SentTo(d, v)'
         /\ \A j \in DOMAIN received' :
               received'[j] = got \/ (j \in DOMAIN received /\ received'[j] = received[j])
    <3>1. Sent(got.char) = 1 .. (got.index - 1) /\ SentTo(got.char, got.win) BY <2>6, <2>9
    <3>2. /\ received' \in Seq(Received) /\ InOrder'
          /\ \A d : Sent(d)' = IF d = got.char THEN 1 .. got.index ELSE Sent(d)
          /\ \A d, v : SentTo(d, v) /\ (d = got.char => v = got.win) => SentTo(d, v)'
          /\ \A j \in DOMAIN received' :
                received'[j] = got \/ (j \in DOMAIN received /\ received'[j] = received[j])
      BY <1>2, <2>3, <2>6, <3>1, ByteSent
    <3> QED BY <2>6, <3>2
  <2>11. \A d : Consumed(d)' <=> Consumed(d) \/ d = c
    <3>1. ASSUME NEW d, Consumed(d)' PROVE Consumed(d) \/ d = c
      <4>1. PICK i \in DOMAIN frames' : frames'[i].owner = d /\ frames'[i].consumed BY <3>1 DEF Consumed
      <4>2. CASE i = f BY <2>4, <2>8, <4>1, <4>2
      <4>3. CASE i # f BY <2>8, <4>1, <4>3 DEF Consumed
      <4> QED BY <4>2, <4>3
    <3>2. ASSUME NEW d, d = c PROVE Consumed(d)' BY <2>1, <2>4, <2>8, <3>2 DEF Consumed
    <3>3. ASSUME NEW d, Consumed(d) PROVE Consumed(d)'
      <4>1. PICK i \in DOMAIN frames : frames[i].owner = d /\ frames[i].consumed BY <3>3 DEF Consumed
      <4>2. i # f BY <1>1, <2>1, <4>1
      <4> QED BY <2>8, <4>1, <4>2 DEF Consumed
    <3> QED BY <3>1, <3>2, <3>3
  <2>12. TypeOK' BY <1>1, <2>8, <2>10 DEF TypeOK, DeliveryInv
  <2>13. OnePlace'
    <3>1. \A j \in DOMAIN received' : received'[j].char \in typed' BY <1>1, <1>2, <2>5, <2>6, <2>10 DEF OnePlace
    <3> QED BY <1>1, <1>2, <3>1 DEF OnePlace
  <2>14. FramesFollow'
    <3>1. \A i \in DOMAIN frames' : frames'[i].owner = frames[i].owner /\ frames'[i].win = frames[i].win
      BY <2>1, <2>4, <2>8
    <3>2. ASSUME NEW i \in DOMAIN frames'
          PROVE  \E l \in DOMAIN calls :
                   Leads(calls[l]) /\ calls[l].char = frames'[i].owner /\ calls[l].win = frames'[i].win
      <4>1. i \in DOMAIN frames BY <2>8
      <4>2. PICK l \in DOMAIN calls : Leads(calls[l]) /\ calls[l].char = frames[i].owner /\ calls[l].win = frames[i].win
        BY <1>2, <4>1 DEF FramesFollow
      <4> QED BY <3>1, <4>2
    <3>3. ASSUME NEW l \in DOMAIN calls, Leads(calls[l])
          PROVE  \E i \in DOMAIN frames' : frames'[i].owner = calls[l].char
      <4>1. PICK i \in DOMAIN frames : frames[i].owner = calls[l].char BY <1>2, <3>3 DEF FramesFollow
      <4> QED BY <2>8, <3>1, <4>1
    <3>4. ASSUME NEW i \in DOMAIN frames', NEW j \in DOMAIN frames', NEW l \in DOMAIN calls, NEW h \in DOMAIN calls,
                 i < j, Leads(calls[l]), Leads(calls[h]),
                 frames'[i].owner = calls[l].char, frames'[j].owner = calls[h].char
          PROVE  l < h
      <4>1. i \in DOMAIN frames /\ j \in DOMAIN frames BY <2>8
      <4>2. frames[i].owner = calls[l].char /\ frames[j].owner = calls[h].char BY <3>1, <3>4
      <4> QED BY <1>2, <3>4, <4>1, <4>2 DEF FramesFollow
    <3> QED BY <1>1, <3>2, <3>3, <3>4 DEF FramesFollow
  <2>15. UnsentQueued' BY <1>1, <1>2, <2>5, <2>10 DEF UnsentQueued
  <2>16. SentByCalls'
    <3> SUFFICES ASSUME NEW d \in Chars, NEW v \in Windows, NEW l \in DOMAIN calls,
                        calls[l].char = d, calls[l].win = v
                 PROVE  /\ calls[l].index = 0 /\ ~PostedAgain(calls[l]) => Sent(d)' = {}
                        /\ calls[l].index # 0 =>
                              /\ Sent(d)' = 1 .. IF Consumed(d)' THEN 2 ELSE calls[l].index
                              /\ SentTo(d, v)'
      BY <1>1 DEF SentByCalls
    <3>1. CASE d = c
      <4>1. calls[l].index = 0 => PostedAgain(calls[l]) BY <2>5, <3>1
      <4>2. Sent(d)' = 1 .. 2 /\ Consumed(d)' BY <2>10, <2>11, <3>1
      <4>3. calls[l].index # 0 => SentTo(d, v)'
        <5> SUFFICES ASSUME calls[l].index # 0 PROVE SentTo(d, v)'
          OBVIOUS
        <5>1. SentTo(c, v) BY <1>2, <3>1 DEF SentByCalls
        <5>2. PICK j \in DOMAIN received : received[j].char = c
          <6> SUFFICES ASSUME \A j \in DOMAIN received : received[j].char # c PROVE FALSE
            OBVIOUS
          <6>1. DOMAIN received = 1 .. Len(received) BY <1>2
          <6>2. {j \in 1 .. Len(received) : received[j].char = c} = {} BY <6>1
          <6>3. Sent(c) = {} BY <6>2 DEF Sent, Parts
          <6>4. 1 \in 1 .. 1 OBVIOUS
          <6> QED BY <2>9, <6>3, <6>4
        <5>3. v = Pending.win BY <2>9, <5>1, <5>2 DEF SentTo
        <5> QED BY <2>10, <3>1, <5>1, <5>3
      <4> QED BY <4>1, <4>2, <4>3
    <3>2. CASE d # c
      <4>1. Sent(d)' = Sent(d) /\ (Consumed(d)' <=> Consumed(d)) /\ (SentTo(d, v) => SentTo(d, v)')
        BY <2>10, <2>11, <3>2
      <4> QED BY <1>2, <4>1 DEF SentByCalls
    <3> QED BY <3>1, <3>2
  <2>17. AllSent'
    <3> SUFFICES ASSUME NEW d \in typed, ~Live(d)'
                 PROVE  Sent(d)' = IF d \in due THEN 1 .. Bytes(d) ELSE {}
      BY <1>1 DEF AllSent
    <3>1. ~Live(d) BY <1>1 DEF Live
    <3>2. d # c BY <2>5, <3>1 DEF Live
    <3>3. Sent(d)' = Sent(d) BY <2>10, <3>2
    <3> QED BY <1>2, <3>1, <3>3 DEF AllSent
  <2>18. DueIs' BY <1>1, <1>2 DEF DueIs
  <2> QED BY <2>10, <2>12, <2>13, <2>14, <2>15, <2>16, <2>17, <2>18 DEF DeliveryInv
<1> QED BY <1>3, <1>4

(* The procedure returns and its frame is popped.                            *)
LEMMA Popped ==
  ASSUME DeliveryInv, calls # <<>>, frames' = PopFrame(frames, Top.char), NEW c, c = Top.char
  PROVE  /\ frames' \in Seq(Frames)
         /\ \A i \in DOMAIN frames' : i \in DOMAIN frames /\ frames'[i] = frames[i] /\ frames[i].owner # c
         /\ \A i \in DOMAIN frames : frames[i].owner # c => i \in DOMAIN frames'
         /\ \A d : Consumed(d)' <=> Consumed(d) /\ d # c
         /\ Consumed(c) => Leads(Top)
<1>1. /\ FramesFollow /\ frames \in Seq(Frames) BY DeliveryFacts
<1>2. /\ Len(calls) \in DOMAIN calls /\ Top = calls[Len(calls)]
      /\ \A k \in DOMAIN calls : k # Len(calls) /\ calls[k].char = Top.char => ~Leads(calls[k])
  BY TopCall
<1> DEFINE pushed == {i \in DOMAIN frames : frames[i].owner = Top.char}
<1>3. frames' = IF pushed = {} THEN frames ELSE SubSeq(frames, 1, Max(pushed) - 1) BY DEF PopFrame
<1>4. CASE Leads(Top)
  <2> DEFINE f == Len(frames)
  <2>1. /\ frames # <<>> /\ f \in DOMAIN frames /\ Pending = frames[f] /\ Pending.owner = Top.char
        /\ \A i \in DOMAIN frames : frames[i].owner = Top.char => i = f
    BY <1>4, TopFrame
  <2>2. pushed = {f} BY <2>1
  <2>3. f \in Nat BY <1>1
  <2>4. Max({f}) = f
    <3> HIDE DEF f
    <3> QED BY <2>3, MaxIs
  <2>5. frames' = ButLast(frames) BY <1>3, <2>2, <2>4 DEF ButLast
  <2> HIDE DEF f, pushed
  <2>6. /\ frames' \in Seq(Frames)
        /\ DOMAIN frames' \in SUBSET Nat /\ DOMAIN frames \in SUBSET Nat
        /\ \A i \in DOMAIN frames' : i \in DOMAIN frames /\ frames'[i] = frames[i] /\ i < f
        /\ \A i \in DOMAIN frames : i # f => i \in DOMAIN frames'
    BY <1>1, <2>1, <2>5, LastCut DEF f
  <2>7. \A i \in DOMAIN frames' : frames[i].owner # c
    <3> TAKE i \in DOMAIN frames'
    <3>1. i < f /\ i \in Nat /\ f \in Nat BY <2>3, <2>6
    <3>2. i # f BY <3>1
    <3> QED BY <2>1, <2>6, <3>2
  <2>8. \A i \in DOMAIN frames : frames[i].owner # c => i \in DOMAIN frames' BY <2>1, <2>6
  <2>9. \A d : Consumed(d)' <=> Consumed(d) /\ d # c
    <3>1. ASSUME NEW d, Consumed(d)' PROVE Consumed(d) /\ d # c
      <4>1. PICK i \in DOMAIN frames' : frames'[i].owner = d /\ frames'[i].consumed BY <3>1 DEF Consumed
      <4> QED BY <2>6, <2>7, <4>1 DEF Consumed
    <3>2. ASSUME NEW d, Consumed(d), d # c PROVE Consumed(d)'
      <4>1. PICK i \in DOMAIN frames : frames[i].owner = d /\ frames[i].consumed BY <3>2 DEF Consumed
      <4>2. i \in DOMAIN frames' /\ frames'[i] = frames[i] BY <2>6, <2>8, <3>2, <4>1
      <4> QED BY <4>1, <4>2 DEF Consumed
    <3> QED BY <3>1, <3>2
  <2> QED BY <1>4, <2>6, <2>7, <2>8, <2>9
<1>5. CASE ~Leads(Top)
  <2>1. \A k \in DOMAIN calls : calls[k].char = c => ~Leads(calls[k]) BY <1>2, <1>5
  <2>2. (\A i \in DOMAIN frames : frames[i].owner # c) /\ ~Consumed(c) BY <1>1, <2>1, NoFrameOf
  <2>3. pushed = {} BY <2>2
  <2>4. frames' = frames BY <1>3, <2>3
  <2>5. \A d : Consumed(d)' <=> Consumed(d) BY <2>4, SameFrames
  <2>6. \A d : Consumed(d)' <=> Consumed(d) /\ d # c BY <2>2, <2>5
  <2> QED BY <1>1, <2>2, <2>4, <2>6
<1> QED BY <1>4, <1>5

(* The frames follow the calls that are left.                                *)
LEMMA PoppedFollow ==
  ASSUME DeliveryInv, calls # <<>>, NEW c, c = Top.char, NEW n, n = Len(calls),
         \A i \in DOMAIN frames' : i \in DOMAIN frames /\ frames'[i] = frames[i] /\ frames[i].owner # c,
         \A i \in DOMAIN frames : frames[i].owner # c => i \in DOMAIN frames',
         \A k \in DOMAIN calls' : Leads(calls'[k]) => k \in DOMAIN calls /\ k # n /\ calls'[k] = calls[k],
         \A k \in DOMAIN calls : k # n => k \in DOMAIN calls' /\ calls'[k] = calls[k]
  PROVE  FramesFollow'
<1>1. FramesFollow BY DeliveryFacts
<1>2. /\ n \in DOMAIN calls /\ calls[n].char = c
      /\ \A k \in DOMAIN calls : k # n /\ calls[k].char = c => ~Leads(calls[k])
  BY TopCall
<1>3. ASSUME NEW i \in DOMAIN frames'
      PROVE  \E k \in DOMAIN calls' :
               Leads(calls'[k]) /\ calls'[k].char = frames'[i].owner /\ calls'[k].win = frames'[i].win
  <2>1. i \in DOMAIN frames /\ frames'[i] = frames[i] /\ frames[i].owner # c OBVIOUS
  <2>2. PICK k \in DOMAIN calls : Leads(calls[k]) /\ calls[k].char = frames[i].owner /\ calls[k].win = frames[i].win
    BY <1>1, <2>1 DEF FramesFollow
  <2>3. k \in DOMAIN calls' /\ calls'[k] = calls[k] BY <1>2, <2>1, <2>2
  <2> QED BY <2>1, <2>2, <2>3
<1>4. ASSUME NEW k \in DOMAIN calls', Leads(calls'[k])
      PROVE  \E i \in DOMAIN frames' : frames'[i].owner = calls'[k].char
  <2>1. k \in DOMAIN calls /\ k # n /\ calls'[k] = calls[k] BY <1>4
  <2>2. PICK i \in DOMAIN frames : frames[i].owner = calls[k].char BY <1>1, <1>4, <2>1 DEF FramesFollow
  <2>3. frames[i].owner # c BY <1>2, <1>4, <2>1, <2>2
  <2> QED BY <2>1, <2>2, <2>3
<1>5. ASSUME NEW i \in DOMAIN frames', NEW j \in DOMAIN frames', NEW k \in DOMAIN calls', NEW l \in DOMAIN calls',
             i < j, Leads(calls'[k]), Leads(calls'[l]),
             frames'[i].owner = calls'[k].char, frames'[j].owner = calls'[l].char
      PROVE  k < l
  <2>1. i \in DOMAIN frames /\ frames'[i] = frames[i] /\ j \in DOMAIN frames /\ frames'[j] = frames[j] OBVIOUS
  <2>2. k \in DOMAIN calls /\ calls'[k] = calls[k] /\ l \in DOMAIN calls /\ calls'[l] = calls[l] BY <1>5
  <2>3. /\ Leads(calls[k]) /\ Leads(calls[l])
        /\ frames[i].owner = calls[k].char /\ frames[j].owner = calls[l].char
    BY <1>5, <2>1, <2>2
  <2> QED BY <1>1, <1>5, <2>1, <2>2, <2>3 DEF FramesFollow
<1> QED BY <1>3, <1>4, <1>5 DEF FramesFollow

LEMMA ReturnKeeps ==
  ASSUME DeliveryInv, ReturnFromProc
  PROVE  DeliveryInv'
<1> DEFINE n == Len(calls)
           next == Top.index \in 1 .. (Bytes(Top.char) - 1) /\ ~Consumed(Top.char)
           got == Got(Top.char, Top.index + 1, Top.win, Top.char)
           new == [Top EXCEPT !.index = Top.index + 1]
<1>1. /\ calls # <<>>
      /\ next => calls' = [calls EXCEPT ![n].index = @ + 1] /\ received' = Append(received, got)
      /\ ~next => calls' = ButLast(calls) /\ received' = received
      /\ frames' = PopFrame(frames, Top.char)
      /\ queue' = queue /\ typed' = typed /\ due' = due
  BY DEF ReturnFromProc, ButLast
<1>2. PICK c : c = Top.char OBVIOUS
<1>3. PICK w : w = Top.win OBVIOUS
<1>4. PICK x : x = Top.index OBVIOUS
<1>5. /\ n \in DOMAIN calls /\ DOMAIN calls \in SUBSET Nat
      /\ Top = calls[n] /\ Top \in Calls /\ c \in Chars /\ w \in Windows /\ c \in typed
      /\ x \in 0 .. 3 /\ x <= Bytes(c) /\ Bytes(c) \in 0 .. 3
      /\ \A k \in DOMAIN calls : k <= n
      /\ \A k \in DOMAIN calls : k # n /\ calls[k].char = c =>
            PostedAgain(calls[k]) /\ ~Leads(calls[k]) /\ calls[k].index = 0 /\ x # 0
  BY <1>1, <1>2, <1>3, <1>4, TopCall, BytesOf
<1>6. /\ queue \in Seq(Messages) /\ received \in Seq(Received) /\ calls \in Seq(Calls) /\ typed \subseteq Chars
      /\ frames \in Seq(Frames) /\ Len(calls) <= MaxNested
      /\ OnePlace /\ FramesFollow /\ InOrder /\ UnsentQueued /\ SentByCalls /\ AllSent /\ DueIs
      /\ \A k \in DOMAIN calls : calls[k].index <= Bytes(calls[k].char)
  BY DeliveryFacts
<1>7. /\ frames' \in Seq(Frames)
      /\ \A i \in DOMAIN frames' : i \in DOMAIN frames /\ frames'[i] = frames[i] /\ frames[i].owner # c
      /\ \A i \in DOMAIN frames : frames[i].owner # c => i \in DOMAIN frames'
      /\ \A d : Consumed(d)' <=> Consumed(d) /\ d # c
      /\ Consumed(c) => Leads(Top)
  BY <1>1, <1>2, Popped
<1>8. /\ calls[n].char = c /\ calls[n].win = w /\ calls[n].index = x BY <1>2, <1>3, <1>4, <1>5
<1>9. /\ x = 0 /\ ~PostedAgain(calls[n]) => Sent(c) = {}
      /\ x # 0 => Sent(c) = 1 .. (IF Consumed(c) THEN 2 ELSE x) /\ SentTo(c, w)
  BY <1>5, <1>6, <1>8 DEF SentByCalls
<1>14. /\ x = 0 /\ ~PostedAgain(calls[n]) => c \notin due
       /\ x # 0 => c \in due
  BY <1>5, <1>6, <1>8 DEF DueIs
<1>10. /\ next <=> x \in 1 .. (Bytes(c) - 1) /\ ~Consumed(c)
       /\ next => /\ received' = Append(received, Got(c, x + 1, w, c))
                  /\ calls' = [calls EXCEPT ![n] = new]
  BY <1>1, <1>2, <1>3, <1>4, <1>5
<1>11. x \in 1 .. 2 => /\ new \in Calls /\ new.char = c /\ new.win = w /\ new.index = x + 1
                       /\ ~PostedAgain(new) /\ ~Leads(new)
  <2> SUFFICES ASSUME x \in 1 .. 2
               PROVE  /\ new \in Calls /\ new.char = c /\ new.win = w /\ new.index = x + 1
                      /\ ~PostedAgain(new) /\ ~Leads(new)
    OBVIOUS
  <2>1. /\ new \in Calls /\ new.char = c /\ new.win = w /\ new.index = x + 1
    BY <1>2, <1>3, <1>4, <1>5 DEF Calls
  <2> QED BY <2>1 DEF PostedAgain, Leads
<1>12. CASE next
  <2>1. x \in 1 .. 2 /\ x + 1 <= Bytes(c) /\ x < Bytes(c) /\ ~Consumed(c) BY <1>5, <1>10, <1>12
  <2>2. Sent(c) = 1 .. x /\ SentTo(c, w) BY <1>9, <2>1
  <2> DEFINE g == Got(c, x + 1, w, c)
  <2>3. g \in Received /\ g.char = c /\ g.win = w /\ g.index = x + 1 BY <1>5, <2>1 DEF Got, Received
  <2>4. received' = Append(received, g) BY <1>10, <1>12
  <2>5. calls \in Seq(Calls) /\ calls # <<>> /\ new \in Calls /\ calls' = [calls EXCEPT ![Len(calls)] = new]
    BY <1>1, <1>6, <1>10, <1>11, <1>12, <2>1
  <2>6. /\ new.char = c /\ new.win = w /\ new.index = x + 1 /\ ~PostedAgain(new) /\ ~Leads(new)
    BY <1>11, <2>1
  <2> HIDE DEF g, new, next, got
  <2>7. /\ calls' \in Seq(Calls) /\ Len(calls') = n /\ DOMAIN calls' = DOMAIN calls
        /\ calls'[n] = new /\ \A k \in DOMAIN calls : k # n => calls'[k] = calls[k]
    BY <2>5, LastPut
  <2>8. /\ received' \in Seq(Received) /\ InOrder'
        /\ \A d : Sent(d)' = IF d = c THEN 1 .. x + 1 ELSE Sent(d)
        /\ \A d, v : SentTo(d, v) /\ (d = c => v = w) => SentTo(d, v)'
        /\ \A j \in DOMAIN received' :
              received'[j] = g \/ (j \in DOMAIN received /\ received'[j] = received[j])
    <3>1. Sent(g.char) = 1 .. (g.index - 1) /\ SentTo(g.char, g.win) BY <2>1, <2>2, <2>3
    <3>2. /\ received' \in Seq(Received) /\ InOrder'
          /\ \A d : Sent(d)' = IF d = g.char THEN 1 .. g.index ELSE Sent(d)
          /\ \A d, v : SentTo(d, v) /\ (d = g.char => v = g.win) => SentTo(d, v)'
          /\ \A j \in DOMAIN received' :
                received'[j] = g \/ (j \in DOMAIN received /\ received'[j] = received[j])
      BY <1>6, <2>3, <2>4, <3>1, ByteSent
    <3> QED BY <2>3, <3>2
  <2> HIDE DEF n
  <2>9. TypeOK'
    <3>1. \A k \in DOMAIN calls' : calls'[k].index <= Bytes(calls'[k].char)
      <4> TAKE k \in DOMAIN calls'
      <4>1. CASE k = n BY <2>1, <2>6, <2>7, <4>1
      <4>2. CASE k # n BY <1>6, <2>7, <4>2
      <4> QED BY <4>1, <4>2
    <3>2. Len(calls') <= MaxNested BY <1>6, <2>7 DEF n
    <3>3. queue' \in Seq(Messages) /\ typed' \subseteq Chars /\ due' \subseteq typed'
      BY <1>1 DEF DeliveryInv, TypeOK
    <3>4. calls' \in Seq(Calls) BY <2>7
    <3>5. frames' \in Seq(Frames) BY <1>7
    <3>6. received' \in Seq(Received) BY <2>8
    <3> QED BY <3>1, <3>2, <3>3, <3>4, <3>5, <3>6 DEF TypeOK
  <2>10. \A i \in DOMAIN queue : queue[i].char # c
    <3>1. ~PostedAgain(calls[n]) BY <1>8, <2>1 DEF PostedAgain
    <3> QED BY <1>5, <1>6, <1>8, <3>1 DEF OnePlace
  <2>11. OnePlace'
    <3>1. \A i \in DOMAIN queue, k \in DOMAIN calls' :
            queue[i].char = calls'[k].char => PostedAgain(calls'[k]) /\ queue[i].msg = "WM_CHAR"
      <4> SUFFICES ASSUME NEW i \in DOMAIN queue, NEW k \in DOMAIN calls', queue[i].char = calls'[k].char
                   PROVE  PostedAgain(calls'[k]) /\ queue[i].msg = "WM_CHAR"
        OBVIOUS
      <4>1. k # n BY <2>6, <2>7, <2>10
      <4>2. k \in DOMAIN calls /\ calls'[k] = calls[k] BY <2>7, <4>1
      <4> QED BY <1>6, <4>2 DEF OnePlace
    <3>2. \A k, l \in DOMAIN calls' :
            k < l /\ calls'[k].char = calls'[l].char => PostedAgain(calls'[k]) /\ calls'[l].index # 0
      <4> SUFFICES ASSUME NEW k \in DOMAIN calls', NEW l \in DOMAIN calls', k < l, calls'[k].char = calls'[l].char
                   PROVE  PostedAgain(calls'[k]) /\ calls'[l].index # 0
        OBVIOUS
      <4>1. k # n
        <5>1. l <= n /\ l \in Nat /\ k \in Nat /\ n \in Nat BY <1>5, <2>7
        <5> QED BY <5>1
      <4>2. k \in DOMAIN calls /\ calls'[k] = calls[k] BY <2>7, <4>1
      <4>3. CASE l = n
        <5>1. calls'[l].index # 0 BY <2>1, <2>6, <2>7, <4>3
        <5>2. calls[k].char = c BY <2>6, <2>7, <4>2, <4>3
        <5> QED BY <1>5, <4>1, <4>2, <5>1, <5>2
      <4>4. CASE l # n BY <1>6, <2>7, <4>2, <4>4 DEF OnePlace
      <4> QED BY <4>3, <4>4
    <3>3. \A k \in DOMAIN calls' : calls'[k].char \in typed BY <1>5, <1>6, <2>6, <2>7 DEF OnePlace
    <3>4. \A j \in DOMAIN received' : received'[j].char \in typed BY <1>5, <1>6, <2>3, <2>8 DEF OnePlace
    <3>5. (\A i, j \in DOMAIN queue : queue[i].char = queue[j].char => i = j)
          /\ \A i \in DOMAIN queue : queue[i].char \in typed
      BY <1>6 DEF OnePlace
    <3> QED BY <1>1, <3>1, <3>2, <3>3, <3>4, <3>5 DEF OnePlace
  <2>12. FramesFollow'
    <3>1. \A k \in DOMAIN calls' : Leads(calls'[k]) => k \in DOMAIN calls /\ k # n /\ calls'[k] = calls[k]
      BY <2>6, <2>7
    <3>2. \A k \in DOMAIN calls : k # n => k \in DOMAIN calls' /\ calls'[k] = calls[k] BY <2>7
    <3>3. calls # <<>> /\ n = Len(calls) BY <1>1 DEF n
    <3>4. /\ \A i \in DOMAIN frames' : i \in DOMAIN frames /\ frames'[i] = frames[i] /\ frames[i].owner # c
          /\ \A i \in DOMAIN frames : frames[i].owner # c => i \in DOMAIN frames'
      BY <1>7
    <3> QED BY <1>2, <3>1, <3>2, <3>3, <3>4, PoppedFollow
  <2>13. UnsentQueued' BY <1>1, <1>6, <2>8, <2>10 DEF UnsentQueued
  <2>14. SentByCalls'
    <3> SUFFICES ASSUME NEW d \in Chars, NEW v \in Windows, NEW k \in DOMAIN calls',
                        calls'[k].char = d, calls'[k].win = v
                 PROVE  /\ calls'[k].index = 0 /\ ~PostedAgain(calls'[k]) => Sent(d)' = {}
                        /\ calls'[k].index # 0 =>
                              /\ Sent(d)' = 1 .. IF Consumed(d)' THEN 2 ELSE calls'[k].index
                              /\ SentTo(d, v)'
      BY DEF SentByCalls
    <3>1. CASE k = n
      <4>1. d = c /\ v = w /\ calls'[k].index = x + 1 BY <2>6, <2>7, <3>1
      <4>2. ~Consumed(d)' BY <1>7, <4>1
      <4>3. Sent(d)' = 1 .. x + 1 /\ SentTo(d, v)' BY <2>2, <2>8, <4>1
      <4> QED BY <2>1, <4>1, <4>2, <4>3
    <3>2. CASE k # n
      <4>1. k \in DOMAIN calls /\ calls'[k] = calls[k] BY <2>7, <3>2
      <4>2. CASE d = c BY <1>5, <3>2, <4>1, <4>2
      <4>3. CASE d # c
        <5>1. Sent(d)' = Sent(d) /\ (Consumed(d)' <=> Consumed(d)) /\ (SentTo(d, v) => SentTo(d, v)')
          BY <1>7, <2>8, <4>3
        <5> QED BY <1>6, <4>1, <5>1 DEF SentByCalls
      <4> QED BY <4>2, <4>3
    <3> QED BY <3>1, <3>2
  <2>15. AllSent'
    <3> SUFFICES ASSUME NEW d \in typed, ~Live(d)'
                 PROVE  Sent(d)' = IF d \in due THEN 1 .. Bytes(d) ELSE {}
      BY <1>1 DEF AllSent
    <3>1. d # c BY <1>5, <2>6, <2>7 DEF Live
    <3>2. ~Live(d)
      <4>1. \A i \in DOMAIN queue : queue[i].char # d BY <1>1 DEF Live
      <4>2. \A k \in DOMAIN calls : calls[k].char = d => PostedAgain(calls[k])
        <5> TAKE k \in DOMAIN calls
        <5>1. CASE k = n BY <1>8, <3>1, <5>1
        <5>2. CASE k # n BY <2>7, <5>2 DEF Live
        <5> QED BY <5>1, <5>2
      <4> QED BY <4>1, <4>2 DEF Live
    <3>3. Sent(d)' = Sent(d) BY <2>8, <3>1
    <3> QED BY <1>6, <3>2, <3>3 DEF AllSent
  <2>16. DueIs'
    <3>1. \A k \in DOMAIN calls' :
             /\ calls'[k].index # 0 => calls'[k].char \in due
             /\ calls'[k].index = 0 /\ ~PostedAgain(calls'[k]) => calls'[k].char \notin due
      <4> TAKE k \in DOMAIN calls'
      <4>1. CASE k = n BY <1>14, <2>1, <2>6, <2>7, <4>1
      <4>2. CASE k # n BY <1>6, <2>7, <4>2 DEF DueIs
      <4> QED BY <4>1, <4>2
    <3> QED BY <1>1, <1>6, <3>1 DEF DueIs
  <2> QED BY <2>8, <2>9, <2>11, <2>12, <2>13, <2>14, <2>15, <2>16 DEF DeliveryInv
<1>13. CASE ~next
  <2>1. calls' = ButLast(calls) /\ received' = received BY <1>1, <1>13
  <2>2. /\ calls' \in Seq(Calls) /\ Len(calls') = n - 1
        /\ DOMAIN calls' \in SUBSET Nat /\ Len(calls) \in Nat
        /\ \A k \in DOMAIN calls' : k \in DOMAIN calls /\ calls'[k] = calls[k] /\ k < n
        /\ \A k \in DOMAIN calls : k # n => k \in DOMAIN calls'
    BY <1>1, <1>6, <2>1, LastCut
  <2>3. /\ \A d : Sent(d)' = Sent(d)
        /\ \A d, v : SentTo(d, v)' <=> SentTo(d, v)
        /\ InOrder'
    BY <1>6, <2>1, SameSent
  <2>4. /\ ~(x \in 1 .. (Bytes(c) - 1)) \/ Consumed(c) BY <1>10, <1>13
  <2>5. Len(calls') <= MaxNested BY <1>6, <2>2, CharAssumption
  <2>6. \A k \in DOMAIN calls' : k # n
    <3>1. n \in Nat BY <2>2
    <3> QED BY <2>2, <3>1
  <2> HIDE DEF n, next, got, new
  <2>9. TypeOK'
    <3>1. \A k \in DOMAIN calls' : calls'[k].index <= Bytes(calls'[k].char) BY <1>6, <2>2
    <3>3. queue' \in Seq(Messages) /\ typed' \subseteq Chars /\ due' \subseteq typed'
      BY <1>1 DEF DeliveryInv, TypeOK
    <3>4. calls' \in Seq(Calls) BY <2>2
    <3>5. frames' \in Seq(Frames) BY <1>7
    <3>6. received' \in Seq(Received) BY <1>6, <2>1
    <3> QED BY <2>5, <3>1, <3>3, <3>4, <3>5, <3>6 DEF TypeOK
  <2>11. OnePlace'
    <3>1. \A i \in DOMAIN queue, k \in DOMAIN calls' :
            queue[i].char = calls'[k].char => PostedAgain(calls'[k]) /\ queue[i].msg = "WM_CHAR"
      BY <1>6, <2>2 DEF OnePlace
    <3>2. \A k, l \in DOMAIN calls' :
            k < l /\ calls'[k].char = calls'[l].char => PostedAgain(calls'[k]) /\ calls'[l].index # 0
      BY <1>6, <2>2 DEF OnePlace
    <3>3. \A k \in DOMAIN calls' : calls'[k].char \in typed BY <1>6, <2>2 DEF OnePlace
    <3>4. /\ \A i, j \in DOMAIN queue : queue[i].char = queue[j].char => i = j
          /\ \A i \in DOMAIN queue : queue[i].char \in typed
          /\ \A j \in DOMAIN received : received[j].char \in typed
      BY <1>6 DEF OnePlace
    <3> QED BY <1>1, <2>1, <3>1, <3>2, <3>3, <3>4 DEF OnePlace
  <2>12. FramesFollow'
    <3>1. \A k \in DOMAIN calls' : Leads(calls'[k]) => k \in DOMAIN calls /\ k # n /\ calls'[k] = calls[k]
      BY <2>2, <2>6
    <3>2. \A k \in DOMAIN calls : k # n => k \in DOMAIN calls' /\ calls'[k] = calls[k] BY <2>2
    <3>3. calls # <<>> /\ n = Len(calls) BY <1>1 DEF n
    <3>4. /\ \A i \in DOMAIN frames' : i \in DOMAIN frames /\ frames'[i] = frames[i] /\ frames[i].owner # c
          /\ \A i \in DOMAIN frames : frames[i].owner # c => i \in DOMAIN frames'
      BY <1>7
    <3> QED BY <1>2, <3>1, <3>2, <3>3, <3>4, PoppedFollow
  <2>13. UnsentQueued' BY <1>1, <1>6, <2>3 DEF UnsentQueued
  <2>14. SentByCalls'
    <3> SUFFICES ASSUME NEW d \in Chars, NEW v \in Windows, NEW k \in DOMAIN calls',
                        calls'[k].char = d, calls'[k].win = v
                 PROVE  /\ calls'[k].index = 0 /\ ~PostedAgain(calls'[k]) => Sent(d) = {}
                        /\ calls'[k].index # 0 =>
                              /\ Sent(d) = 1 .. IF Consumed(d)' THEN 2 ELSE calls'[k].index
                              /\ SentTo(d, v)
      BY <2>3 DEF SentByCalls
    <3>1. k \in DOMAIN calls /\ calls'[k] = calls[k] /\ k # n BY <2>2, <2>6
    <3>2. CASE d = c BY <1>5, <3>1, <3>2
    <3>3. CASE d # c
      <4>1. Consumed(d)' <=> Consumed(d) BY <1>7, <3>3
      <4> QED BY <1>6, <3>1, <4>1 DEF SentByCalls
    <3> QED BY <3>2, <3>3
  <2>15. AllSent'
    <3> SUFFICES ASSUME NEW d \in typed, ~Live(d)'
                 PROVE  Sent(d) = IF d \in due THEN 1 .. Bytes(d) ELSE {}
      BY <1>1, <2>3 DEF AllSent
    <3>1. CASE ~Live(d) BY <1>6, <3>1 DEF AllSent
    <3>2. CASE Live(d)
      <4>1. PICK k \in DOMAIN calls : calls[k].char = d /\ ~PostedAgain(calls[k]) BY <1>1, <3>2 DEF Live
      <4>2. k = n BY <2>2, <4>1 DEF Live
      <4>3. d = c /\ ~PostedAgain(calls[n]) BY <1>8, <4>1, <4>2
      <4>4. CASE x = 0 BY <1>9, <1>14, <4>3, <4>4
      <4>5. CASE x # 0 /\ Consumed(c)
        <5>1. Bytes(c) = 2 BY <1>2, <1>7, <4>5 DEF Leads, Framed
        <5> QED BY <1>9, <1>14, <4>3, <4>5, <5>1
      <4>6. CASE x # 0 /\ ~Consumed(c)
        <5>1. x = Bytes(c) BY <1>5, <2>4, <4>6
        <5> QED BY <1>9, <1>14, <4>3, <4>6, <5>1
      <4> QED BY <4>4, <4>5, <4>6
    <3> QED BY <3>1, <3>2
  <2>16. DueIs' BY <1>1, <1>6, <2>2 DEF DueIs
  <2> QED BY <2>3, <2>9, <2>11, <2>12, <2>13, <2>14, <2>15, <2>16 DEF DeliveryInv
<1> QED BY <1>12, <1>13

LEMMA DeliveryStep == DeliveryInv /\ [Next]_vars => DeliveryInv'
<1> SUFFICES ASSUME DeliveryInv, [Next]_vars PROVE DeliveryInv'
  OBVIOUS
<1>1. CASE UNCHANGED vars
  <2>1. /\ queue' = queue /\ calls' = calls /\ frames' = frames /\ typed' = typed /\ due' = due
        /\ received' = received
    BY <1>1 DEF vars
  <2> QED BY <2>1, SameDelivery
<1>2. CASE \E m \in Messages : Post(m) \/ Send(m) BY <1>2, PostKeeps, SendKeeps
<1>3. CASE DefWindowProc BY <1>3, DefWindowProcKeeps
<1>4. CASE LepPeekMessageA
  <2>1. PICK w \in Filters, range \in Ranges, remove \in BOOLEAN :
           PeekPending(w, range, remove) \/ (remove /\ PeekQueue(w, range))
    BY <1>4 DEF LepPeekMessageA
  <2>2. CASE PeekPending(w, range, remove) BY <2>2, PeekPendingKeeps
  <2>3. CASE PeekQueue(w, range) BY <2>3, PeekQueueKeeps
  <2> QED BY <2>1, <2>2, <2>3
<1>5. CASE ReturnFromProc BY <1>5, ReturnKeeps
<1> QED BY <1>1, <1>2, <1>3, <1>4, <1>5 DEF Next

(* The bytes that a procedure got by a call are of the character it was      *)
(* called with; the one it took itself is, unless some procedure pumped.     *)
BySelf == \A i \in DOMAIN received : received[i].by = received[i].char

LEMMA BySelfKept ==
  ASSUME DeliveryInv, NEW x \in Received, received' = Append(received, x), x.by = x.char, BySelf
  PROVE  BySelf'
<1>1. received \in Seq(Received) BY DeliveryFacts
<1>2. \A i \in DOMAIN received' : received'[i] = x \/ (i \in DOMAIN received /\ received'[i] = received[i])
  BY <1>1, Appended
<1> QED BY <1>2 DEF BySelf

LEMMA CalledBySelf ==
  ASSUME DeliveryInv, NEW m \in Messages, CallAnsiCharacterProc(m), BySelf
  PROVE  BySelf'
<1> DEFINE got == Got(m.char, 1, m.win, m.char)
<1>1. m.char \in Chars /\ m.win \in Windows BY DEF Messages
<1>2. got \in Received /\ got.by = got.char BY <1>1 DEF Got, Received
<1>3. received' = received \/ received' = Append(received, got) BY DEF CallAnsiCharacterProc
<1> HIDE DEF got
<1> QED BY <1>2, <1>3, BySelfKept DEF BySelf

LEMMA ReturnedBySelf ==
  ASSUME DeliveryInv, ReturnFromProc, BySelf
  PROVE  BySelf'
<1> DEFINE got == Got(Top.char, Top.index + 1, Top.win, Top.char)
<1>1. /\ calls # <<>>
      /\ received' = received \/ (received' = Append(received, got) /\ Top.index \in 1 .. (Bytes(Top.char) - 1))
  BY DEF ReturnFromProc
<1>2. /\ Top.char \in Chars /\ Top.win \in Windows /\ Bytes(Top.char) \in 0 .. 3 BY <1>1, TopCall, BytesOf
<1>3. CASE Top.index \in 1 .. (Bytes(Top.char) - 1) /\ received' = Append(received, got)
  <2>1. Top.index + 1 \in 1 .. 3 BY <1>2, <1>3
  <2>2. got \in Received /\ got.by = got.char BY <1>2, <2>1 DEF Got, Received
  <2>3. received' = Append(received, got) BY <1>3
  <2> HIDE DEF got
  <2> QED BY <2>2, <2>3, BySelfKept
<1>4. CASE received' = received BY <1>4 DEF BySelf
<1> QED BY <1>1, <1>3, <1>4

LEMMA TakenBySelf ==
  ASSUME DeliveryInv, NEW w, NEW range, NEW remove \in BOOLEAN, PeekPending(w, range, remove),
         HandlesLead, BySelf
  PROVE  BySelf'
<1> DEFINE got == Got(Pending.owner, 2, Pending.win, Top.char)
<1>1. /\ calls # <<>>
      /\ received' = received \/ received' = Append(received, got)
  BY DEF PeekPending, Take
<1>2. Leads(Top) BY DEF HandlesLead, Leads
<1>3. Pending.owner = Top.char /\ Pending.win = Top.win BY <1>1, <1>2, TopFrame
<1>4. Top.char \in Chars /\ Top.win \in Windows BY <1>1, TopCall
<1>5. got \in Received /\ got.by = got.char BY <1>3, <1>4 DEF Got, Received
<1> HIDE DEF got
<1> QED BY <1>1, <1>5, BySelfKept DEF BySelf

(* The first half of BytesPaired: the bytes of each character arrive in order*)
(* and, when it is done with, all of them have arrived if it was due.        *)
LEMMA DeliveredOnce == DeliveryInv => BytesOnce
<1> SUFFICES ASSUME DeliveryInv PROVE BytesOnce
  OBVIOUS
<1>1. InOrder /\ AllSent BY DeliveryFacts
<1>2. \A c \in typed : ~Open(c) => Sent(c) = IF c \in due THEN 1 .. Bytes(c) ELSE {}
  BY <1>1 DEF AllSent, Live, Open
<1> QED BY <1>1, <1>2 DEF BytesOnce, Sent

(* The trail byte is offered to the control that handles the lead byte before*)
(* anything of the queue.                                                    *)
LEMMA QueueWaits ==
  ASSUME DeliveryInv, [Next]_vars, calls # <<>>, HandlesLead, ~Consumed(Top.char)
  PROVE  Len(queue') >= Len(queue)
<1>1. queue \in Seq(Messages) BY DeliveryFacts
<1>2. Len(queue) \in Nat BY <1>1
<1>3. CASE queue' = queue BY <1>2, <1>3
<1>4. ASSUME NEW m, m \in Messages, queue' = Append(queue, m) PROVE Len(queue') >= Len(queue)
  <2>1. Len(queue') = Len(queue) + 1 BY <1>1, <1>4
  <2> QED BY <1>2, <2>1
<1>5. CASE DefWindowProc
  <2>1. Top.index = 0 BY <1>5 DEF DefWindowProc
  <2> QED BY <2>1 DEF HandlesLead
<1>6. ASSUME NEW w \in Filters, NEW range \in Ranges, PeekQueue(w, range) PROVE FALSE
  <2>1. Leads(Top) BY DEF HandlesLead, Leads
  <2>2. Pending # NoFrame /\ Pending.win = Top.win /\ ~Pending.consumed BY <2>1, TopFrame
  <2>3. w \in {AnyWindow, Top.win} BY <1>6 DEF Filters
  <2>4. ~Offers(w, range) /\ range # "other" BY <1>6 DEF PeekQueue
  <2>5. Covers(range) BY <1>6, <2>4 DEF Ranges, Covers
  <2> QED BY <2>2, <2>3, <2>4, <2>5 DEF Offers
<1>7. CASE LepPeekMessageA
  <2>1. PICK w \in Filters, range \in Ranges, remove \in BOOLEAN : PeekPending(w, range, remove)
    BY <1>6, <1>7 DEF LepPeekMessageA
  <2>2. queue' = queue BY <2>1 DEF PeekPending
  <2> QED BY <1>3, <2>2
<1>8. CASE \E m \in Messages : Post(m) \/ Send(m)
  <2>1. PICK m \in Messages : Post(m) \/ Send(m) BY <1>8
  <2>2. CASE Send(m)
    <3>1. queue' = queue BY <2>2 DEF Send
    <3> QED BY <1>3, <3>1
  <2>3. CASE Post(m)
    <3>1. PICK c \in Arrivals(m) : Type(m, c) /\ queue' = Append(queue, [m EXCEPT !.char = c]) BY <2>3 DEF Post
    <3>2. [m EXCEPT !.char = c] \in Messages BY <3>1, Arrived DEF Type
    <3> QED BY <1>4, <3>1, <3>2
  <2> QED BY <2>1, <2>2, <2>3
<1>9. CASE ReturnFromProc
  <2>1. queue' = queue BY <1>9 DEF ReturnFromProc
  <2> QED BY <1>3, <2>1
<1>10. CASE UNCHANGED vars
  <2>1. queue' = queue BY <1>10 DEF vars
  <2> QED BY <1>3, <2>1
<1> QED BY <1>5, <1>7, <1>8, <1>9, <1>10 DEF Next

(* Each byte of a character reaches its window once, in order: when it is    *)
(* done with, all of them if it was a WM_CHAR, or was made one of an IME     *)
(* character, and none otherwise (CallAnsiCharacterProc, LepPeekMessageA,    *)
(* LepDefWindowProcA).                                                       *)
THEOREM EveryByteOnce == Spec => [](TypeOK /\ BytesOnce)
<1>1. DeliveryInv => TypeOK /\ BytesOnce BY DeliveredOnce DEF DeliveryInv
<1> QED BY <1>1, InitDelivery, DeliveryStep, PTL DEF Spec

-----------------------------------------------------------------------------
(* Characters.                                                               *)
CharactersInv == DeliveryInv /\ pumped \in BOOLEAN /\ (pumped \/ BySelf)

LEMMA NextCharacters ==
  ASSUME CharactersInv, Next, pumped' = (pumped \/ Pumped)
  PROVE  CharactersInv'
<1>1. DeliveryInv /\ pumped \in BOOLEAN BY DEF CharactersInv
<1>2. DeliveryInv' BY <1>1, DeliveryStep
<1>3. pumped' \in BOOLEAN
  <2>1. pumped' = (pumped \/ Pumped) OBVIOUS
  <2>2. pumped' = TRUE \/ pumped' = FALSE BY <2>1
  <2> QED BY <2>2
<1>4. ASSUME ~pumped' PROVE BySelf'
  <2>1. ~pumped /\ ~Pumped BY <1>4
  <2>2. BySelf BY <2>1 DEF CharactersInv
  <2>3. CASE \E m \in Messages : Post(m)
    <3>1. received' = received BY <2>3 DEF Post
    <3> QED BY <2>2, <3>1 DEF BySelf
  <2>4. CASE \E m \in Messages : Send(m)
    <3>1. PICK m \in Messages : Send(m) BY <2>4
    <3>2. PICK c \in Arrivals(m) : Type(m, c) /\ CallAnsiCharacterProc([m EXCEPT !.char = c]) BY <3>1 DEF Send
    <3>3. [m EXCEPT !.char = c] \in Messages BY <3>2, Arrived DEF Type
    <3> QED BY <1>1, <2>2, <3>2, <3>3, CalledBySelf
  <2>5. CASE DefWindowProc
    <3>1. received' = received BY <2>5 DEF DefWindowProc
    <3> QED BY <2>2, <3>1 DEF BySelf
  <2>6. CASE LepPeekMessageA
    <3>1. PICK w \in Filters, range \in Ranges, remove \in BOOLEAN :
             PeekPending(w, range, remove) \/ (remove /\ PeekQueue(w, range))
      BY <2>6 DEF LepPeekMessageA
    <3>2. CASE PeekPending(w, range, remove)
      <4>1. calls # <<>> BY <3>2 DEF PeekPending
      <4>2. HandlesLead BY <2>1, <2>6, <4>1 DEF Pumped
      <4> QED BY <1>1, <2>2, <3>2, <4>2, TakenBySelf
    <3>3. CASE PeekQueue(w, range)
      <4>1. PICK k \in DOMAIN queue : CallAnsiCharacterProc(queue[k]) BY <3>3 DEF PeekQueue
      <4>2. queue \in Seq(Messages) BY <1>1, DeliveryFacts
      <4>3. queue[k] \in Messages BY <4>2
      <4> QED BY <1>1, <2>2, <4>1, <4>3, CalledBySelf
    <3> QED BY <3>1, <3>2, <3>3
  <2>7. CASE ReturnFromProc BY <1>1, <2>2, <2>7, ReturnedBySelf
  <2> QED BY <2>3, <2>4, <2>5, <2>6, <2>7 DEF Next
<1> QED BY <1>2, <1>3, <1>4 DEF CharactersInv

LEMMA CharacterSteps == CharactersInv /\ [MCNext]_MCVars => CharactersInv'
<1> SUFFICES ASSUME CharactersInv, [MCNext]_MCVars PROVE CharactersInv'
  OBVIOUS
<1>1. CASE Next /\ pumped' = (pumped \/ Pumped) BY <1>1, NextCharacters
<1>2. CASE UNCHANGED CharacterVars
  <2>1. /\ queue' = queue /\ calls' = calls /\ frames' = frames /\ typed' = typed /\ due' = due
        /\ received' = received /\ pumped' = pumped
    BY <1>2 DEF CharacterVars, vars
  <2>2. DeliveryInv' BY <2>1, SameDelivery DEF CharactersInv
  <2> QED BY <2>1, <2>2 DEF CharactersInv, BySelf
<1> QED BY <1>1, <1>2 DEF MCNext, MCVars

LEMMA InitCharacters == MCInit => CharactersInv
<1> SUFFICES ASSUME MCInit PROVE CharactersInv
  OBVIOUS
<1>1. Init /\ pumped = FALSE BY DEF MCInit
<1>2. BySelf
  <2>1. received = <<>> BY <1>1 DEF Init
  <2>2. DOMAIN received = {} BY <2>1
  <2> QED BY <2>2 DEF BySelf
<1> QED BY <1>1, <1>2, InitDelivery DEF CharactersInv

(* BytesPaired: the bytes of a WM_CHAR, and of the one DefWindowProcA makes  *)
(* of an IME character, reach its window once, in order, and all of them;    *)
(* the trail byte goes to the procedure that handles the lead byte as long   *)
(* as no other procedure runs a message loop inside a delivery.              *)
THEOREM BytesArePaired == MCSpec => []BytesPaired
<1>1. MCInit => CharactersInv BY InitCharacters
<1>2. CharactersInv /\ [MCNext]_MCVars => CharactersInv' BY CharacterSteps
<1>3. CharactersInv => BytesPaired
  <2> SUFFICES ASSUME CharactersInv PROVE BytesPaired
    OBVIOUS
  <2>1. DeliveryInv /\ (pumped \/ BySelf) BY DEF CharactersInv
  <2> QED BY <2>1, DeliveredOnce DEF BytesPaired, BySelf
<1> QED BY <1>1, <1>2, <1>3, PTL DEF MCSpec

(* QueueKept: while the trail byte is to be had, the control that handles the*)
(* lead byte takes nothing from the queue in its place.                      *)
THEOREM QueueAlwaysKept == MCSpec => QueueKept
<1>1. MCInit => CharactersInv BY InitCharacters
<1>2. CharactersInv /\ [MCNext]_MCVars => CharactersInv' BY CharacterSteps
<1>3. CharactersInv /\ [MCNext]_MCVars
        => [calls # <<>> /\ HandlesLead /\ ~Consumed(Top.char) => Len(queue') >= Len(queue)]_vars
  <2> SUFFICES ASSUME CharactersInv, [MCNext]_MCVars, calls # <<>>, HandlesLead, ~Consumed(Top.char)
               PROVE  UNCHANGED vars \/ Len(queue') >= Len(queue)
    OBVIOUS
  <2>1. DeliveryInv BY DEF CharactersInv
  <2>2. CASE Next BY <2>1, <2>2, QueueWaits
  <2>3. CASE UNCHANGED CharacterVars BY <2>3 DEF CharacterVars
  <2> QED BY <2>2, <2>3 DEF MCNext, MCVars
<1> QED BY <1>1, <1>2, <1>3, PTL DEF MCSpec, QueueKept
-----------------------------------------------------------------------------
(* The clipboard.                                                            *)
LEMMA InitClipboard == C!Init => C!ClipboardInv
BY DEF C!Init, C!ClipboardInv, C!TextSurvives

(* Encodings and what they are decoded to.                                   *)
LEMMA Encoded ==
  ASSUME NEW u \in C!Texts
  PROVE  /\ C!Encode(u) \in C!Ansi /\ C!Encode(u) # C!NoAnsi /\ C!Encode(u).page = "target"
         /\ C!Encode(u).text = IF u \in Alien THEN Lossy ELSE u
         /\ C!Encode(C!Encode(u).text) = C!Encode(u)
<1>1. C!Encode(u) = [text |-> IF u \in Alien THEN Lossy ELSE u, page |-> "target"] BY DEF C!Encode
<1>2. C!Encode(u).page = "target" /\ C!Encode(u).text = (IF u \in Alien THEN Lossy ELSE u) BY <1>1
<1>3. C!Encode(u) \in C!Ansi BY <1>1 DEF C!Ansi, C!Texts
<1>4. C!NoAnsi.page = "host" BY DEF C!NoAnsi
<1>5. C!Encode(u).text \notin Alien BY <1>2, TextAssumption
<1>6. C!Encode(C!Encode(u).text) = [text |-> C!Encode(u).text, page |-> "target"] BY <1>5 DEF C!Encode
<1>7. C!Encode(u) = [text |-> C!Encode(u).text, page |-> "target"] BY <1>1, <1>2
<1> QED BY <1>2, <1>3, <1>4, <1>6, <1>7

LEMMA DecodedText ==
  ASSUME NEW a \in C!Ansi, NEW page
  PROVE  /\ C!Decode(a, page) \in C!Texts
         /\ a.page = page => C!Decode(a, page) = a.text
BY DEF C!Decode, C!Ansi, C!Texts

(* LepSetClipboardData, called by the program or by LepGetClipboardData,     *)
(* with an ANSI text of the target's code page.                              *)
LEMMA SetUnicodeIs ==
  ASSUME NEW a \in C!Ansi, a.page = "target", NEW memory \in BOOLEAN, NEW accept \in BOOLEAN,
         NEW u \in C!Texts \cup {Absent}
  PROVE  /\ C!SetUnicode(a, memory, accept, u) \in C!Texts \cup {Absent}
         /\ C!SetUnicode(a, TRUE, TRUE, u) = IF a.text # Empty THEN a.text ELSE u
<1>1. C!Decode(a, "target") \in C!Texts /\ C!Decode(a, "target") = a.text BY DecodedText
<1> QED BY <1>1 DEF C!SetUnicode

LEMMA SetClipboard ==
  ASSUME C!ClipboardInv, NEW t \in C!Texts \ Alien,
         NEW memory \in BOOLEAN, NEW u \in BOOLEAN, NEW a \in BOOLEAN,
         C!LepSetClipboardData(t, memory, u, a)
  PROVE  C!ClipboardInv'
<1> DEFINE text == [text |-> t, page |-> "target"]
<1>1. text = C!Encode(t) /\ text \in C!Ansi /\ text.page = "target" /\ text.text = t
      /\ text # C!NoAnsi
  BY Encoded DEF C!Encode
<1> HIDE DEF text
<1>2. /\ cUnicode' = C!SetUnicode(text, memory, u, cUnicode)
      /\ cAnsi' = IF a THEN text ELSE cAnsi
      /\ cFailed' = (cFailed \/ ~memory \/ ~u \/ ~a)
      /\ cRead' = C!NoAnsi /\ cWas' = Absent
  BY DEF C!LepSetClipboardData, text
<1>3. cUnicode \in C!Texts \cup {Absent} /\ cAnsi \in C!Ansi \cup {C!NoAnsi} BY DEF C!ClipboardInv
<1>4. cUnicode' \in C!Texts \cup {Absent} BY <1>1, <1>2, <1>3, SetUnicodeIs
<1>5. cFailed' \in BOOLEAN BY <1>2 DEF C!ClipboardInv
<1>6. ASSUME ~cFailed', cAnsi'.text # Empty PROVE cAnsi' = C!Encode(cUnicode')
  <2>1. memory = TRUE /\ u = TRUE /\ a = TRUE BY <1>2, <1>6
  <2>2. cAnsi' = text /\ t # Empty BY <1>1, <1>2, <1>6, <2>1
  <2>3. cUnicode' = t BY <1>1, <1>2, <1>3, <2>1, <2>2, SetUnicodeIs
  <2> QED BY <1>1, <2>2, <2>3
<1>7. C!TextSurvives' BY <1>2, <1>6 DEF C!TextSurvives
<1> QED BY <1>1, <1>2, <1>3, <1>4, <1>5, <1>7 DEF C!ClipboardInv

LEMMA GetClipboard ==
  ASSUME C!ClipboardInv,
         NEW memory \in BOOLEAN, NEW room \in BOOLEAN, NEW u \in BOOLEAN, NEW a \in BOOLEAN,
         C!LepGetClipboardData(memory, room, u, a)
  PROVE  C!ClipboardInv'
<1> DEFINE text == C!NativeUnicode
           code == C!Encode(text)
           publish == text # Absent /\ memory
<1>1. cUnicode \in C!Texts \cup {Absent} /\ cAnsi \in C!Ansi \cup {C!NoAnsi} /\ cFailed \in BOOLEAN
  BY DEF C!ClipboardInv
<1>2. text \in C!Texts \cup {Absent} /\ (cUnicode # Absent => text = cUnicode)
  BY <1>1, DecodedText DEF C!NativeUnicode
<1>3. /\ cUnicode' = IF publish THEN C!SetUnicode(code, room, u, cUnicode) ELSE cUnicode
      /\ cAnsi' = IF publish /\ a THEN code ELSE cAnsi
      /\ cRead' = C!NativeAnsi(cUnicode', cAnsi') /\ cWas' = text
      /\ cFailed' = (cFailed \/ ~memory \/ ~room \/ ~u \/ ~a)
  BY DEF C!LepGetClipboardData
<1> HIDE DEF text
<1>4. text # Absent => /\ code \in C!Ansi /\ code # C!NoAnsi /\ code.page = "target"
                       /\ code.text = IF text \in Alien THEN Lossy ELSE text
                       /\ C!Encode(code.text) = code
  BY <1>2, Encoded
<1> HIDE DEF code
<1>5. cUnicode' \in C!Texts \cup {Absent} BY <1>1, <1>2, <1>3, <1>4, SetUnicodeIs
<1>6. cAnsi' \in C!Ansi \cup {C!NoAnsi} BY <1>1, <1>3, <1>4
<1>7. cRead' \in C!Ansi \cup {C!NoAnsi}
  <2>1. cUnicode' # Absent =>
          [text |-> IF cUnicode' \in Common \cup {Empty} THEN cUnicode' ELSE Lossy, page |-> "host"]
          \in C!Ansi
    BY <1>5 DEF C!Ansi, C!Texts
  <2> QED BY <1>3, <1>6, <2>1 DEF C!NativeAnsi
<1>8. cFailed' \in BOOLEAN BY <1>1, <1>3
<1>9. ASSUME ~cFailed'
      PROVE  /\ cWas' # Absent => cRead' = C!Encode(cWas')
             /\ cWas' \notin Alien \cup {Absent} => cUnicode' \in {cWas', Absent}
             /\ cUnicode' # Absent /\ cAnsi' # C!NoAnsi /\ cAnsi'.text # Empty =>
                   cAnsi' = C!Encode(cUnicode')
  <2>1. ~cFailed /\ memory = TRUE /\ room = TRUE /\ u = TRUE /\ a = TRUE BY <1>3, <1>9
  <2>2. CASE text = Absent
    <3>1. cUnicode' = cUnicode /\ cAnsi' = cAnsi /\ cWas' = Absent BY <1>3, <2>2
    <3> QED BY <2>1, <3>1 DEF C!ClipboardInv, C!TextSurvives
  <2>3. CASE text # Absent
    <3>1. publish BY <2>1, <2>3
    <3>2. cAnsi' = code /\ cWas' = text BY <1>3, <2>1, <3>1
    <3>3. cUnicode' = C!SetUnicode(code, TRUE, TRUE, cUnicode) BY <1>3, <2>1, <3>1
    <3>4. cUnicode' = IF code.text # Empty THEN code.text ELSE cUnicode
      BY <1>1, <1>4, <2>3, <3>3, SetUnicodeIs
    <3>5. cRead' = code BY <1>3, <1>4, <2>3, <3>2 DEF C!NativeAnsi
    <3>6. cRead' = C!Encode(cWas') BY <3>2, <3>5 DEF code
    <3>7. text \notin Alien => cUnicode' \in {text, Absent}
      <4>1. text \notin Alien => code.text = text BY <1>4, <2>3
      <4> QED BY <1>2, <3>4, <4>1
    <3>8. code.text # Empty => cAnsi' = C!Encode(cUnicode') BY <1>4, <2>3, <3>2, <3>4
    <3> QED BY <3>2, <3>6, <3>7, <3>8
  <2> QED BY <2>2, <2>3
<1>10. C!TextSurvives' BY <1>9 DEF C!TextSurvives
<1> QED BY <1>2, <1>3, <1>5, <1>6, <1>7, <1>8, <1>10 DEF C!ClipboardInv

LEMMA NextClipboard ==
  ASSUME C!ClipboardInv, [C!Next]_(C!vars)
  PROVE  C!ClipboardInv'
<1>1. CASE UNCHANGED C!vars BY <1>1 DEF C!vars, C!ClipboardInv, C!TextSurvives
<1>2. CASE C!EmptyClipboard BY <1>2 DEF C!EmptyClipboard, C!ClipboardInv, C!TextSurvives
<1>3. ASSUME NEW u \in C!Texts, C!OtherCopies(u) PROVE C!ClipboardInv'
  BY <1>3 DEF C!OtherCopies, C!ClipboardInv, C!TextSurvives
<1> QED BY <1>1, <1>2, <1>3, SetClipboard, GetClipboard DEF C!Next

LEMMA ClipboardSteps ==
  ASSUME [MCNext]_MCVars, active' = "clipboard"
  PROVE  active = "clipboard" /\ [C!Next]_(C!vars)
BY DEF MCNext, MCVars, ClipboardVars, C!vars

(* Whatever programs put on the clipboard and however often LEP republishes  *)
(* it through its own hook, as long as no step fails a program reads the     *)
(* target's encoding of what was copied and leaves the Unicode text as it    *)
(* was (LepSetClipboardData, LepGetClipboardData).                           *)
THEOREM TextAlwaysSurvives == MCSpec => []TextSurvives
<1> DEFINE Inv == active = "clipboard" => C!ClipboardInv
<1>1. MCInit => Inv BY InitClipboard DEF MCInit
<1>2. Inv /\ [MCNext]_MCVars => Inv' BY ClipboardSteps, NextClipboard
<1>3. Inv => TextSurvives BY DEF C!ClipboardInv, TextSurvives
<1> QED BY <1>1, <1>2, <1>3, PTL DEF MCSpec

-----------------------------------------------------------------------------
(* Stock fonts.  One lemma per action; the thread's next call is a record of *)
(* the type, whatever its fields.                                            *)
StockCalls == [pc : {"idle", "wait", "make", "got"}, object : Objects \cup {None},
               dc : DCs \cup {None}, font : Made \cup {None}]

LEMMA InitStock == S!Init => S!StockInv
<1> SUFFICES ASSUME S!Init PROVE S!StockInv
  OBVIOUS
<1> USE DEF S!Init
<1>1. S!Idle \in StockCalls /\ S!Idle.pc = "idle" /\ S!Idle.dc = None BY DEF S!Idle, StockCalls
<1>2. sCall \in [Threads -> StockCalls] /\ \A t \in Threads : sCall[t] = S!Idle BY <1>1
<1>3. S!Types BY <1>2 DEF S!Types, StockCalls
<1>4. S!MakerIsAlone BY <1>1, <1>2 DEF S!MakerIsAlone
<1>5. {sStock[i] : i \in Objects} \ {None} = {} BY <1>3
<1>6. S!StockFontsStay BY <1>1, <1>2, <1>5 DEF S!StockFontsStay, S!Held
<1> QED BY <1>3, <1>4, <1>6 DEF S!StockInv

(* A font of the system is none of LEP's, nor the null one, and names its    *)
(* object.                                                                   *)
LEMMA OriginalsAreApart ==
  /\ S!Originals \cap (Made \cup {None}) = {}
  /\ \A i \in Objects : S!Original(i) \in S!Originals /\ S!FindOriginalStockFontObject(S!Original(i)) = i
<1>1. S!Originals \cap (Made \cup {None}) = {} BY FontAssumption DEF S!Originals, S!Original
<1>2. ASSUME NEW i \in Objects
      PROVE  S!Original(i) \in S!Originals /\ S!FindOriginalStockFontObject(S!Original(i)) = i
  <2>1. \A j \in Objects : S!Original(j) = S!Original(i) => j = i
    <3> SUFFICES ASSUME NEW j \in Objects, S!Original(j) = S!Original(i) PROVE j = i
      OBVIOUS
    <3>1. S!Original(j).stock = j /\ S!Original(i).stock = i BY DEF S!Original
    <3> QED BY <3>1
  <2>2. S!Original(i) \in S!Originals BY DEF S!Originals
  <2> QED BY <2>1, <2>2 DEF S!FindOriginalStockFontObject
<1> QED BY <1>1, <1>2

(* A step that stores no font and deletes none, of one thread or of none:    *)
(* what it leaves to be shown of the threads and of the contexts.            *)
LEMMA OneCallChanges ==
  ASSUME S!StockInv, NEW t \in Threads, NEW c \in StockCalls, S!Step(t, c),
         UNCHANGED <<sStock, sAlive, sSpare, sHooked>>,
         sLock' = sLock \/ (sLock = None /\ sLock' = t),
         c.pc = "make" => sLock' = t /\ sStock[c.object] = None,
         c.pc = "idle" => c.dc = None,
         c.pc # "idle" => c.object \in Objects,
         c.pc = "got" => c.font \in {None, sStock[c.object]},
         sSelected' \in [DCs -> S!Originals \cup Made \cup {None}],
         \A dc \in DCs : sSelected'[dc] \in S!Originals \cup sAlive \cup {None},
         sEarly' \subseteq DCs,
         \A dc \in DCs : S!Held(dc)' /\ dc \notin sEarly' => sSelected'[dc] \in sAlive
  PROVE  S!StockInv'
<1> USE DEF S!StockInv
<1>1. sCall' = [sCall EXCEPT ![t] = c] /\ sCall \in [Threads -> StockCalls]
  BY DEF S!Step, S!Types, StockCalls
<1>2. sCall' \in [Threads -> StockCalls] /\ sCall'[t] = c BY <1>1
<1>3. \A s \in Threads : s # t => sCall'[s] = sCall[s] BY <1>1
<1>4. S!Types' BY <1>2 DEF S!Types, StockCalls
<1>5. S!MakerIsAlone'
  <2> SUFFICES ASSUME NEW s \in Threads
               PROVE  /\ sCall'[s].pc = "make" => sLock' = s /\ sStock'[sCall'[s].object] = None
                      /\ sCall'[s].pc = "idle" => sCall'[s].dc = None
                      /\ sCall'[s].pc # "idle" => sCall'[s].object \in Objects
    BY DEF S!MakerIsAlone
  <2>1. CASE s = t BY <2>1, <1>2
  <2>2. CASE s # t
    <3>1. sCall[s].pc = "make" => sLock = s /\ sStock[sCall[s].object] = None BY DEF S!MakerIsAlone
    <3>2. sLock = s => sLock' = s BY FontAssumption
    <3> QED BY <2>2, <1>3, <3>1, <3>2 DEF S!MakerIsAlone
  <2> QED BY <2>1, <2>2
<1>6. \A s \in Threads : sCall'[s].pc = "got" => sCall'[s].font \in {None, sStock'[sCall'[s].object]}
  BY <1>2, <1>3 DEF S!StockFontsStay
<1>7. S!StockFontsStay' BY <1>6 DEF S!StockFontsStay
<1> QED BY <1>4, <1>5, <1>7

(* What a call of LepGetStockObject is like at its start.                    *)
LEMMA GetStockObjectIsCall ==
  ASSUME S!StockInv, NEW t \in Threads, NEW i \in Objects, NEW dc \in DCs \cup {None},
         S!GetStockObject(t, i, dc)
  PROVE  \E c \in StockCalls :
            /\ S!Step(t, c) /\ c.object = i /\ c.dc = dc /\ c.pc \in {"got", "wait"}
            /\ c.font = sStock[i]
<1> DEFINE c == [pc |-> IF sStock[i] # None THEN "got" ELSE "wait",
                 object |-> i, dc |-> dc, font |-> sStock[i]]
<1>1. sStock[i] \in Made \cup {None} BY DEF S!StockInv, S!Types
<1>2. c \in StockCalls BY <1>1 DEF StockCalls
<1>3. S!Step(t, c) BY DEF S!GetStockObject
<1> QED BY <1>2, <1>3

LEMMA AskStockObjectStock ==
  ASSUME S!StockInv, NEW t \in Threads, NEW i \in Objects, S!AskStockObject(t, i)
  PROVE  S!StockInv'
<1>1. PICK c \in StockCalls : /\ S!Step(t, c) /\ c.object = i /\ c.dc = None
                              /\ c.pc \in {"got", "wait"} /\ c.font = sStock[i]
  BY GetStockObjectIsCall DEF S!AskStockObject
<1>2. UNCHANGED <<sStock, sLock, sSelected, sAlive, sSpare, sHooked, sEarly>> /\ sCall[t].pc = "idle"
  BY DEF S!AskStockObject
<1>3. sCall[t].dc = None BY <1>2 DEF S!StockInv, S!MakerIsAlone
<1>4. \A dc \in DCs : S!Held(dc)' => S!Held(dc)
  BY <1>1, <1>2, <1>3, FontAssumption DEF S!Held, S!Step
<1> QED BY <1>1, <1>2, <1>4, OneCallChanges DEF S!StockInv, S!Types, S!StockFontsStay

LEMMA LockStock ==
  ASSUME S!StockInv, NEW t \in Threads, S!Lock(t)
  PROVE  S!StockInv'
<1> DEFINE call == sCall[t] font == sStock[call.object]
           c == IF font = None THEN [call EXCEPT !.pc = "make"]
                ELSE [call EXCEPT !.pc = "got", !.font = font]
<1>1. call \in StockCalls /\ call.pc = "wait" /\ call.object \in Objects
  BY DEF S!StockInv, S!Types, S!MakerIsAlone, S!Lock, StockCalls
<1>2. font \in Made \cup {None} BY <1>1 DEF S!StockInv, S!Types
<1>3. c \in StockCalls /\ c.object = call.object /\ c.dc = call.dc
  BY <1>1, <1>2 DEF StockCalls
<1>4. c.pc \in {"make", "got"} /\ (c.pc = "make" => font = None)
      /\ (c.pc = "got" => font # None /\ c.font = font)
  BY <1>1, <1>2 DEF StockCalls
<1>5. S!Step(t, c) BY DEF S!Lock
<1>6. UNCHANGED <<sStock, sSelected, sAlive, sSpare, sHooked, sEarly>> BY DEF S!Lock
<1>7. sLock' = sLock \/ (sLock = None /\ sLock' = t) BY DEF S!Lock
<1>8. c.pc = "make" => sLock' = t BY <1>4 DEF S!Lock
<1>9. \A dc \in DCs : S!Held(dc)' => S!Held(dc)
  <2> HIDE DEF c
  <2>1. sCall' = [sCall EXCEPT ![t] = c] /\ sCall \in [Threads -> StockCalls]
    BY <1>5 DEF S!Step, S!StockInv, S!Types, StockCalls
  <2>2. \A s \in Threads : sCall'[s].dc = sCall[s].dc BY <1>3, <2>1
  <2> QED BY <1>6, <2>2 DEF S!Held
<1>10. \A dc \in DCs : S!Held(dc)' /\ dc \notin sEarly' => sSelected'[dc] \in sAlive
  BY <1>6, <1>9 DEF S!StockInv, S!StockFontsStay
<1>11. /\ sSelected' \in [DCs -> S!Originals \cup Made \cup {None}] /\ sEarly' \subseteq DCs
       /\ \A dc \in DCs : sSelected'[dc] \in S!Originals \cup sAlive \cup {None}
  BY <1>6 DEF S!StockInv, S!StockFontsStay, S!Types
<1> HIDE DEF c
<1> QED BY <1>1, <1>3, <1>4, <1>5, <1>6, <1>7, <1>8, <1>10, <1>11, OneCallChanges

LEMMA GetFontFromFontStock ==
  ASSUME S!StockInv, NEW t \in Threads, NEW font \in Made \cup {None}, S!GetFontFromFont(t, font)
  PROVE  S!StockInv'
<1> DEFINE i == sCall[t].object
<1>1. /\ sCall[t].pc = "make" /\ font \in sSpare \cup {None}
      /\ sStock' = [sStock EXCEPT ![i] = font]
      /\ sAlive' = sAlive \cup ({font} \ {None}) /\ sSpare' = sSpare \ {font} /\ sLock' = None
      /\ UNCHANGED <<sSelected, sHooked, sEarly>>
  BY DEF S!GetFontFromFont
<1>2. i \in Objects /\ sStock[i] = None /\ sLock = t BY <1>1 DEF S!StockInv, S!MakerIsAlone
<1>3. sStock \in [Objects -> Made \cup {None}] /\ sCall \in [Threads -> StockCalls]
  BY DEF S!StockInv, S!Types, StockCalls
<1>4. sCall' = [sCall EXCEPT ![t] = [sCall[t] EXCEPT !.pc = "got", !.font = font]]
  BY DEF S!GetFontFromFont, S!Step
<1>5. sCall' \in [Threads -> StockCalls] /\ sCall'[t].pc = "got" /\ sCall'[t].font = font
      /\ sCall'[t].object = i /\ sCall'[t].dc = sCall[t].dc
  BY <1>3, <1>4 DEF StockCalls
<1>6. \A s \in Threads : s # t => sCall'[s] = sCall[s] BY <1>3, <1>4
<1>7. /\ sStock' \in [Objects -> Made \cup {None}] /\ sStock'[i] = font
      /\ \A j \in Objects : j # i => sStock'[j] = sStock[j]
  BY <1>1, <1>2, <1>3
<1>8. S!Types' BY <1>1, <1>5, <1>7 DEF S!StockInv, S!Types, StockCalls
<1>9. S!MakerIsAlone'
  <2> SUFFICES ASSUME NEW s \in Threads
               PROVE  /\ sCall'[s].pc # "make"
                      /\ sCall'[s].pc = "idle" => sCall'[s].dc = None
                      /\ sCall'[s].pc # "idle" => sCall'[s].object \in Objects
    BY DEF S!MakerIsAlone
  <2>1. CASE s = t BY <2>1, <1>2, <1>5
  <2>2. CASE s # t
    <3>1. sCall[s].pc # "make" BY <2>2, <1>2 DEF S!StockInv, S!MakerIsAlone
    <3> QED BY <2>2, <3>1, <1>6 DEF S!StockInv, S!MakerIsAlone
  <2> QED BY <2>1, <2>2
<1>10. sAlive' = {sStock'[j] : j \in Objects} \ {None}
  <2>1. sAlive = {sStock[j] : j \in Objects} \ {None} BY DEF S!StockInv, S!StockFontsStay
  <2> QED BY <2>1, <1>1, <1>2, <1>7
<1>11. \A s \in Threads : sCall'[s].pc = "got" => sCall'[s].font \in {None, sStock'[sCall'[s].object]}
  <2> SUFFICES ASSUME NEW s \in Threads, sCall'[s].pc = "got"
               PROVE  sCall'[s].font \in {None, sStock'[sCall'[s].object]}
    OBVIOUS
  <2>1. CASE s = t BY <2>1, <1>5, <1>7
  <2>2. CASE s # t
    <3>1. sCall[s].font \in {None, sStock[sCall[s].object]} /\ sCall[s].object \in Objects
      BY <2>2, <1>6 DEF S!StockInv, S!StockFontsStay, S!MakerIsAlone
    <3> QED BY <2>2, <3>1, <1>2, <1>6, <1>7
  <2> QED BY <2>1, <2>2
<1>12. \A dc \in DCs : S!Held(dc)' => S!Held(dc)
  BY <1>1, <1>5, <1>6 DEF S!Held
<1>13. sAlive \subseteq sAlive' BY <1>1
<1>14. S!StockFontsStay'
  BY <1>1, <1>10, <1>11, <1>12, <1>13 DEF S!StockInv, S!StockFontsStay
<1> QED BY <1>8, <1>9, <1>14 DEF S!StockInv

LEMMA GotStock ==
  ASSUME S!StockInv, NEW t \in Threads, S!Got(t)
  PROVE  S!StockInv'
<1> DEFINE dc == sCall[t].dc font == sCall[t].font
<1>1. /\ S!Idle \in StockCalls /\ S!Idle.pc = "idle" /\ S!Idle.dc = None /\ S!Step(t, S!Idle)
      /\ UNCHANGED <<sStock, sLock, sAlive, sSpare, sHooked>>
  BY DEF S!Idle, StockCalls, S!Got
<1>2. /\ sSelected' = IF dc # None /\ font # None THEN [sSelected EXCEPT ![dc] = font] ELSE sSelected
      /\ sEarly' = IF dc # None /\ font = None THEN sEarly \cup {dc} ELSE sEarly
  BY DEF S!Got
<1>3. sSelected \in [DCs -> S!Originals \cup Made \cup {None}] /\ sEarly \subseteq DCs
      /\ sCall \in [Threads -> StockCalls]
  BY DEF S!StockInv, S!Types, StockCalls
<1>4. dc \in DCs \cup {None} /\ font \in Made \cup {None} BY <1>3 DEF StockCalls
<1>5. font # None => font \in sAlive
  <2>1. sCall[t].pc = "got" BY DEF S!Got
  <2>2. font \in {None, sStock[sCall[t].object]} /\ sCall[t].object \in Objects
    BY <2>1 DEF S!StockInv, S!StockFontsStay, S!MakerIsAlone
  <2> QED BY <2>2 DEF S!StockInv, S!StockFontsStay
<1>6. \A d \in DCs : d # dc => sSelected'[d] = sSelected[d] BY <1>2, <1>3
<1>7. dc # None => sSelected'[dc] = IF font # None THEN font ELSE sSelected[dc] BY <1>2, <1>3, <1>4
<1>8. sSelected' \in [DCs -> S!Originals \cup Made \cup {None}] BY <1>2, <1>3, <1>4
<1>9. sEarly' \subseteq DCs BY <1>2, <1>3, <1>4
<1>10. ASSUME NEW d \in DCs PROVE sSelected'[d] \in S!Originals \cup sAlive \cup {None}
  BY <1>5, <1>6, <1>7, FontAssumption DEF S!StockInv, S!StockFontsStay
<1>11. ASSUME NEW d \in DCs, S!Held(d)', d \notin sEarly' PROVE sSelected'[d] \in sAlive
  <2>1. CASE d = dc
    <3>1. dc # None BY <2>1, FontAssumption
    <3>2. font # None BY <3>1, <2>1, <1>2, <1>11
    <3> QED BY <2>1, <3>1, <3>2, <1>5, <1>7
  <2>2. CASE d # dc
    <3>1. \A s \in Threads : s # t => sCall'[s] = sCall[s] BY <1>1, <1>3 DEF S!Step
    <3>2. S!Held(d) BY <2>2, <3>1, <1>6, <1>11 DEF S!Held
    <3>3. d \notin sEarly BY <1>2, <1>11
    <3> QED BY <2>2, <3>2, <3>3, <1>6 DEF S!StockInv, S!StockFontsStay
  <2> QED BY <2>1, <2>2
<1> QED BY <1>1, <1>8, <1>9, <1>10, <1>11, OneCallChanges

LEMMA NewDCStock ==
  ASSUME S!StockInv, NEW t \in Threads, NEW dc \in DCs, NEW i \in Objects,
         sCall[t].pc = "idle", sSelected[dc] = None,
         sSelected' = [sSelected EXCEPT ![dc] = S!Original(i)],
         S!GetStockObject(t, i, dc),
         UNCHANGED <<sStock, sLock, sAlive, sSpare, sHooked, sEarly>>
  PROVE  S!StockInv'
<1>1. PICK c \in StockCalls : /\ S!Step(t, c) /\ c.object = i /\ c.dc = dc
                              /\ c.pc \in {"got", "wait"} /\ c.font = sStock[i]
  BY GetStockObjectIsCall
<1>2. sSelected \in [DCs -> S!Originals \cup Made \cup {None}] /\ sEarly \subseteq DCs
      /\ sCall \in [Threads -> StockCalls] /\ sCall[t].dc = None
  BY DEF S!StockInv, S!Types, StockCalls, S!MakerIsAlone
<1>3. sSelected' \in [DCs -> S!Originals \cup Made \cup {None}] /\ sSelected'[dc] = S!Original(i)
      /\ \A d \in DCs : d # dc => sSelected'[d] = sSelected[d]
  BY <1>2, OriginalsAreApart
<1>4. \A d \in DCs : sSelected'[d] \in S!Originals \cup sAlive \cup {None}
  BY <1>3, OriginalsAreApart DEF S!StockInv, S!StockFontsStay
<1>5. sCall'[t] = c /\ \A s \in Threads : s # t => sCall'[s] = sCall[s] BY <1>1, <1>2 DEF S!Step
<1>6. ASSUME NEW d \in DCs, S!Held(d)' PROVE d # dc /\ S!Held(d)
  BY <1>1, <1>2, <1>3, <1>5, <1>6, FontAssumption DEF S!Held
<1>7. \A d \in DCs : S!Held(d)' /\ d \notin sEarly' => sSelected'[d] \in sAlive
  BY <1>3, <1>6 DEF S!StockInv, S!StockFontsStay
<1> QED BY <1>1, <1>2, <1>3, <1>4, <1>7, OneCallChanges

LEMMA LepGetDCStock ==
  ASSUME S!StockInv, NEW t \in Threads, NEW dc \in DCs, NEW i \in Objects, S!LepGetDC(t, dc, i)
  PROVE  S!StockInv'
<1>1. /\ sCall[t].pc = "idle" /\ sSelected[dc] = None
      /\ sSelected' = [sSelected EXCEPT ![dc] = S!Original(i)]
      /\ sEarly' = (IF sHooked THEN sEarly ELSE sEarly \cup {dc})
      /\ UNCHANGED <<sStock, sLock, sAlive, sSpare, sHooked>>
  BY DEF S!LepGetDC
<1>2. i # None BY FontAssumption
<1>3. S!FindOriginalStockFontObject(S!Original(i)) = i BY OriginalsAreApart
<1>4. IF ~sHooked THEN UNCHANGED sCall ELSE S!GetStockObject(t, i, dc)
  BY <1>2, <1>3 DEF S!LepGetDC, S!LepSelectTargetStockFontInDC
<1>5. CASE sHooked BY <1>1, <1>4, <1>5, NewDCStock
<1>6. CASE ~sHooked
  <2>1. UNCHANGED <<sStock, sLock, sCall, sAlive, sSpare, sHooked>> /\ sEarly' = sEarly \cup {dc}
    BY <1>1, <1>4, <1>6
  <2>2. sSelected \in [DCs -> S!Originals \cup Made \cup {None}] BY DEF S!StockInv, S!Types
  <2>3. /\ sSelected' \in [DCs -> S!Originals \cup Made \cup {None}] /\ sSelected'[dc] = S!Original(i)
        /\ \A d \in DCs : d # dc => sSelected'[d] = sSelected[d]
    BY <1>1, <2>2, OriginalsAreApart
  <2>4. S!Types' BY <2>1, <2>3 DEF S!StockInv, S!Types
  <2>5. S!MakerIsAlone' BY <2>1 DEF S!StockInv, S!MakerIsAlone
  <2>6. ASSUME NEW d \in DCs, S!Held(d)', d \notin sEarly' PROVE sSelected'[d] \in sAlive'
    <3>1. d # dc /\ d \notin sEarly BY <2>1, <2>6
    <3>2. S!Held(d) BY <3>1, <2>1, <2>3, <2>6 DEF S!Held
    <3> QED BY <3>1, <3>2, <2>1, <2>3 DEF S!StockInv, S!StockFontsStay
  <2>7. \A d \in DCs : sSelected'[d] \in S!Originals \cup sAlive' \cup {None}
    BY <2>1, <2>3, OriginalsAreApart DEF S!StockInv, S!StockFontsStay
  <2>8. S!StockFontsStay' BY <2>1, <2>6, <2>7 DEF S!StockInv, S!StockFontsStay
  <2> QED BY <2>4, <2>5, <2>8 DEF S!StockInv
<1> QED BY <1>5, <1>6

LEMMA LepCreateCompatibleDCStock ==
  ASSUME S!StockInv, NEW t \in Threads, NEW dc \in DCs, S!LepCreateCompatibleDC(t, dc)
  PROVE  S!StockInv'
<1>1. SystemFont \in Objects BY FontAssumption
<1> QED BY <1>1, NewDCStock DEF S!LepCreateCompatibleDC

LEMMA ReleaseDCStock ==
  ASSUME S!StockInv, NEW dc \in DCs, S!ReleaseDC(dc)
  PROVE  S!StockInv'
<1>1. /\ sSelected' = [sSelected EXCEPT ![dc] = None] /\ sEarly' = sEarly \ {dc}
      /\ UNCHANGED <<sStock, sLock, sCall, sAlive, sSpare, sHooked>>
  BY DEF S!ReleaseDC
<1>2. sSelected \in [DCs -> S!Originals \cup Made \cup {None}] BY DEF S!StockInv, S!Types
<1>3. /\ sSelected' \in [DCs -> S!Originals \cup Made \cup {None}] /\ sSelected'[dc] = None
      /\ \A d \in DCs : d # dc => sSelected'[d] = sSelected[d]
  BY <1>1, <1>2
<1>4. S!Types' BY <1>1, <1>3 DEF S!StockInv, S!Types
<1>5. S!MakerIsAlone' BY <1>1 DEF S!StockInv, S!MakerIsAlone
<1>6. ASSUME NEW d \in DCs, S!Held(d)', d \notin sEarly' PROVE sSelected'[d] \in sAlive'
  <2>1. d # dc BY <1>3, <1>6 DEF S!Held
  <2>2. S!Held(d) /\ d \notin sEarly BY <2>1, <1>1, <1>3, <1>6 DEF S!Held
  <2> QED BY <2>1, <2>2, <1>1, <1>3 DEF S!StockInv, S!StockFontsStay
<1>7. \A d \in DCs : sSelected'[d] \in S!Originals \cup sAlive' \cup {None}
  BY <1>1, <1>3 DEF S!StockInv, S!StockFontsStay
<1>8. S!StockFontsStay' BY <1>1, <1>6, <1>7 DEF S!StockInv, S!StockFontsStay
<1> QED BY <1>4, <1>5, <1>8 DEF S!StockInv

(* A stored font is not deleted, and there is no other one.                  *)
LEMMA LepDeleteObjectStock ==
  ASSUME S!StockInv, NEW font \in sAlive, S!LepDeleteObject(font)
  PROVE  S!StockInv'
<1>1. \E i \in Objects : sStock[i] = font BY DEF S!StockInv, S!StockFontsStay
<1>2. UNCHANGED <<sStock, sLock, sCall, sSelected, sAlive, sSpare, sHooked, sEarly>>
  BY <1>1 DEF S!LepDeleteObject
<1> QED BY <1>2 DEF S!StockInv, S!Types, S!MakerIsAlone, S!StockFontsStay, S!Held

LEMMA NextStock ==
  ASSUME S!StockInv, [S!Next]_(S!vars)
  PROVE  S!StockInv'
<1>1. CASE UNCHANGED S!vars
  BY <1>1 DEF S!vars, S!StockInv, S!Types, S!MakerIsAlone, S!StockFontsStay, S!Held
<1>2. CASE S!HookGdi32Routines
  BY <1>2 DEF S!HookGdi32Routines, S!StockInv, S!Types, S!MakerIsAlone, S!StockFontsStay, S!Held
<1>3. ASSUME NEW t \in Threads,
             \/ \E i \in Objects : S!AskStockObject(t, i)
             \/ S!Lock(t) \/ S!Got(t)
             \/ \E font \in Made \cup {None} : S!GetFontFromFont(t, font)
      PROVE  S!StockInv'
  BY <1>3, AskStockObjectStock, LockStock, GotStock, GetFontFromFontStock
<1>4. ASSUME NEW t \in Threads,
             \/ \E dc \in DCs, i \in Objects : S!LepGetDC(t, dc, i)
             \/ \E dc \in DCs : S!LepCreateCompatibleDC(t, dc)
      PROVE  S!StockInv'
  BY <1>4, LepGetDCStock, LepCreateCompatibleDCStock
<1>5. CASE \/ \E dc \in DCs : S!ReleaseDC(dc)
           \/ \E font \in sAlive : S!LepDeleteObject(font)
  BY <1>5, ReleaseDCStock, LepDeleteObjectStock
<1> QED BY <1>1, <1>2, <1>3, <1>4, <1>5 DEF S!Next

LEMMA StockSteps ==
  ASSUME [MCNext]_MCVars, active' = "stock"
  PROVE  active = "stock" /\ [S!Next]_(S!vars)
BY DEF MCNext, MCVars, StockVars, S!vars
-----------------------------------------------------------------------------
(* Font enumeration.  The first and the last of some indices.                *)
LEMMA LeastIndex ==
  ASSUME NEW I \in SUBSET Nat, I # {}
  PROVE  \E k \in I : \A j \in I : k <= j
<1>1. IsWellFoundedOn(OpToRel(<, Nat), Nat) BY NatLessThanWellFounded
<1>2. PICK k \in I : \A j \in I : ~(<<j, k>> \in OpToRel(<, Nat)) BY <1>1, WFMin
<1>3. \A j \in I : j \in Nat /\ k \in Nat /\ ~(j < k) BY <1>2 DEF OpToRel
<1> QED BY <1>3

LEMMA GreatestIndex ==
  ASSUME NEW n \in Nat, NEW I \in SUBSET (1 .. n), I # {}
  PROVE  \E k \in I : \A j \in I : j <= k
<1> DEFINE D == {n - i : i \in I}
<1>1. D \in SUBSET Nat /\ D # {}
  <2>1. \A i \in I : n - i \in Nat OBVIOUS
  <2> QED BY <2>1
<1>2. PICK d \in D : \A e \in D : d <= e BY <1>1, LeastIndex
<1>3. PICK k \in I : d = n - k BY <1>2
<1>4. \A j \in I : n - k <= n - j BY <1>2, <1>3
<1> QED BY <1>4

LEMMA FirstChosen ==
  ASSUME NEW I \in SUBSET Nat, NEW k \in I, \A j \in I : k <= j
  PROVE  (CHOOSE i \in I : \A j \in I : i <= j) = k
<1>1. \A i \in I : (\A j \in I : i <= j) => i = k OBVIOUS
<1> QED BY <1>1

LEMMA LastChosen ==
  ASSUME NEW I \in SUBSET Nat, NEW k \in I, \A j \in I : j <= k
  PROVE  (CHOOSE i \in I : \A j \in I : i >= j) = k
<1>1. \A i \in I : (\A j \in I : i >= j) => i = k OBVIOUS
<1>2. \A j \in I : k >= j OBVIOUS
<1> QED BY <1>1, <1>2

(* The name the code takes from a font's table is the one HostNamed means.   *)
LEMMA HostNameIs ==
  ASSUME fFont \in F!Fonts
  PROVE  F!GetNameRecordFromNameTable(fFont.table, "FACENAME", Host) = fFont.face <=> F!HostNamed
<1> DEFINE table == fFont.table
           own == F!Records(table, "FACENAME", Host)
           english == F!Records(table, "FACENAME", English)
           name == F!GetNameRecordFromNameTable(table, "FACENAME", Host)
<1>1. table \in Seq([name : STRING, language : STRING, text : STRING])
      /\ fFont.face # F!NoText
  <2>1. fFont.table \in Tables \cup {<<>>} /\ fFont.face \in {"A", "B"} BY DEF F!Fonts
  <2>2. <<>> \in Seq([name : STRING, language : STRING, text : STRING]) OBVIOUS
  <2>3. fFont.table \in Seq([name : STRING, language : STRING, text : STRING])
    BY <2>1, <2>2, TableAssumption
  <2> QED BY <2>1, <2>3 DEF F!NoText
<1> DEFINE n == Len(table)
<1>2. n \in Nat /\ DOMAIN table = 1 .. n BY <1>1
<1> HIDE DEF n
<1>3. /\ own \in SUBSET (1 .. n) /\ english \in SUBSET (1 .. n)
      /\ \A i \in 1 .. n : i \in own <=> F!NameOf(Host, i)
      /\ \A i \in 1 .. n : i \in english <=> F!NameOf(English, i)
  BY <1>2 DEF F!Records, F!NameOf
<1>4. own \in SUBSET Nat /\ english \in SUBSET Nat BY <1>2, <1>3
<1> DEFINE Right(i) == \/ i \in own /\ \A j \in 1 .. (i - 1) : j \notin own
                       \/ own = {} /\ i \in english /\ \A j \in english : j <= i
<1>5. F!HostNamed <=> \E i \in 1 .. n : table[i].text = fFont.face /\ Right(i)
  <2>1. \A i \in 1 .. n : \A j \in 1 .. (i - 1) : j \in 1 .. n BY <1>2
  <2>2. own = {} <=> \A j \in 1 .. n : ~F!NameOf(Host, j) BY <1>3
  <2> QED BY <1>2, <1>3, <2>1, <2>2 DEF F!HostNamed
<1>6. name = IF own # {} THEN table[CHOOSE i \in own : \A j \in own : i <= j].text
             ELSE IF english # {} THEN table[CHOOSE i \in english : \A j \in english : i >= j].text
             ELSE F!NoText
  BY DEF F!GetNameRecordFromNameTable
<1> HIDE DEF own, english, name
<1>7. CASE own # {}
  <2>1. PICK k \in own : \A j \in own : k <= j BY <1>4, <1>7, LeastIndex
  <2>2. name = table[k].text BY <1>4, <1>6, <1>7, <2>1, FirstChosen
  <2>3. k \in 1 .. n /\ \A i \in 1 .. n : Right(i) <=> i = k
    BY <1>2, <1>3, <1>7, <2>1
  <2> HIDE DEF Right
  <2>4. F!HostNamed <=> table[k].text = fFont.face BY <1>5, <2>3
  <2> QED BY <2>2, <2>4 DEF name
<1>8. CASE own = {} /\ english # {}
  <2>1. PICK k \in english : \A j \in english : j <= k BY <1>2, <1>3, <1>8, GreatestIndex
  <2>2. name = table[k].text BY <1>4, <1>6, <1>8, <2>1, LastChosen
  <2>3. k \in 1 .. n /\ \A i \in 1 .. n : Right(i) <=> i = k
    BY <1>2, <1>3, <1>8, <2>1
  <2> HIDE DEF Right
  <2>4. F!HostNamed <=> table[k].text = fFont.face BY <1>5, <2>3
  <2> QED BY <2>2, <2>4 DEF name
<1>9. CASE own = {} /\ english = {}
  <2>1. name # fFont.face BY <1>1, <1>6, <1>9
  <2>2. \A i \in 1 .. n : ~Right(i) BY <1>9
  <2>3. ~F!HostNamed BY <1>5, <2>2
  <2> QED BY <2>1, <2>3 DEF name
<1> QED BY <1>7, <1>8, <1>9

(* What is found of a font, and when it is hidden.                           *)
Hidden == fFont.made /\ ~fFont.raster /\ ~F!HostNamed

LEMMA AdjustedIs ==
  ASSUME fFont \in F!Fonts, NEW a, a = F!AdjustFontData(fFont)
  PROVE  /\ a.status \in {"NAME_NOT_FOUND", "CONTEXT_MISMATCH"} <=> Hidden
         /\ a.face # F!NoText
<1> DEFINE i == F!AdjustFontDataInternal(fFont)
           face == F!GetNameRecordFromNameTable(fFont.table, "FACENAME", Target)
           full == F!GetNameRecordFromNameTable(fFont.table, "FULLNAME", Target)
           host == F!GetNameRecordFromNameTable(fFont.table, "FACENAME", Host)
<1>1. /\ fFont.face # F!NoText
      /\ fFont.made \in BOOLEAN /\ fFont.raster \in BOOLEAN
  BY DEF F!Fonts, F!NoText
<1>3. host = fFont.face <=> F!HostNamed BY HostNameIs
<1>4. fFont.table = <<>> => ~F!HostNamed BY DEF F!HostNamed
<1>5. i = IF fFont.raster THEN [status |-> "NOT_SUPPORTED", face |-> fFont.face, full |-> fFont.full]
          ELSE IF fFont.table = <<>>
               THEN [status |-> "NAME_NOT_FOUND", face |-> fFont.face, full |-> fFont.full]
          ELSE IF host # fFont.face
               THEN [status |-> "CONTEXT_MISMATCH", face |-> fFont.face, full |-> fFont.full]
          ELSE IF F!NoText \in {face, full}
               THEN [status |-> "NOT_FOUND", face |-> fFont.face, full |-> fFont.full]
          ELSE [status |-> "SUCCESS", face |-> face, full |-> full]
  BY DEF F!AdjustFontDataInternal
<1> HIDE DEF i, face, full, host
<1>6. /\ i.status \in {"NAME_NOT_FOUND", "CONTEXT_MISMATCH"} <=> ~fFont.raster /\ ~F!HostNamed
      /\ i.face # F!NoText
  BY <1>1, <1>3, <1>4, <1>5
<1>7. a = IF ~fFont.made THEN [status |-> "UNSUCCESSFUL", face |-> fFont.face, full |-> fFont.full,
                               filled |-> FALSE]
          ELSE [status |-> i.status, face |-> i.face, full |-> i.full,
                filled |-> i.status # "CONTEXT_MISMATCH"]
  BY DEF F!AdjustFontData, i
<1> QED BY <1>1, <1>6, <1>7 DEF Hidden

(* The first enumeration and every other one that looks: whether the font is *)
(* reported, and what is kept of it.                                         *)
LEMMA LookIs ==
  ASSUME fFont \in F!Fonts, NEW c, NEW look, look = F!Look(fFont, c)
  PROVE  /\ look.key = F!LookKey
         /\ look.told = F!Skip <=> Hidden
         /\ F!Found(fFont, look.entry) = F!Skip <=> Hidden
         /\ ~Hidden => F!Found(fFont, look.entry).face = fFont.face
         /\ ~Hidden => look.told.metrics = F!Found(fFont, look.entry).metrics
<1> DEFINE a == F!AdjustFontData(fFont)
           charset == F!LepNtGdiHfontCreateWorker(F!TargetCharset(fFont, c), TRUE)
           skip == a.status \in {"NAME_NOT_FOUND", "CONTEXT_MISMATCH"}
<1>1. skip <=> Hidden BY AdjustedIs
<1>2. a.face # F!NoText /\ fFont.face # F!NoText BY AdjustedIs DEF F!Fonts, F!NoText
<1>3. look = [key |-> F!BuildTextMetricCacheKey(a.full, fFont.charset),
              entry |-> [magic |-> ~skip, filled |-> a.filled, metrics |-> charset],
              told |-> IF skip THEN F!Skip
                       ELSE IF a.filled THEN [face |-> a.face, charset |-> charset, metrics |-> charset]
                       ELSE [F!Given(fFont) EXCEPT !.face = a.face]]
  BY DEF F!Look
<1>4. F!LookKey = F!BuildTextMetricCacheKey(a.full, fFont.charset) BY DEF F!LookKey
<1> HIDE DEF a, charset
<1>5. look.key = F!LookKey BY <1>3, <1>4
<1>6. look.entry = [magic |-> ~skip, filled |-> a.filled, metrics |-> charset] BY <1>3
<1>7. look.told = IF skip THEN F!Skip
                  ELSE IF a.filled THEN [face |-> a.face, charset |-> charset, metrics |-> charset]
                  ELSE [face |-> a.face, charset |-> fFont.charset, metrics |-> "system"]
  BY <1>3 DEF F!Given
<1>8. F!Found(fFont, look.entry) =
        IF skip THEN F!Skip
        ELSE IF ~a.filled THEN [face |-> fFont.face, charset |-> fFont.charset, metrics |-> "system"]
        ELSE [face |-> fFont.face, charset |-> fFont.charset, metrics |-> charset]
  <2>1. look.entry.magic = ~skip /\ look.entry.filled = a.filled /\ look.entry.metrics = charset
    <3> DEFINE kept == ~skip
    <3>1. look.entry = [magic |-> kept, filled |-> a.filled, metrics |-> charset] BY <1>6
    <3> HIDE DEF kept
    <3>2. look.entry.magic = kept /\ look.entry.filled = a.filled /\ look.entry.metrics = charset BY <3>1
    <3> QED BY <3>2 DEF kept
  <2>2. F!Given(fFont) = [face |-> fFont.face, charset |-> fFont.charset, metrics |-> "system"]
    BY DEF F!Given
  <2>3. F!Found(fFont, look.entry) =
          IF ~look.entry.magic THEN F!Skip
          ELSE IF ~look.entry.filled THEN F!Given(fFont)
          ELSE [face |-> fFont.face, charset |-> fFont.charset, metrics |-> look.entry.metrics]
    BY DEF F!Found
  <2>4. CASE skip BY <2>1, <2>3, <2>4
  <2>5. CASE ~skip
    <3>1. look.entry.magic BY <2>1, <2>5
    <3> HIDE <1>6
    <3> QED BY <2>1, <2>2, <2>3, <2>5, <3>1
  <2> QED BY <2>4, <2>5
<1>9. F!Skip.face = F!NoText BY DEF F!Skip
<1>10. look.told = F!Skip <=> skip
  <2>1. ~skip => look.told.face = a.face BY <1>7
  <2> QED BY <1>2, <1>7, <1>9, <2>1
<1>11. F!Found(fFont, look.entry) = F!Skip <=> skip
  <2>1. ~skip => F!Found(fFont, look.entry).face = fFont.face BY <1>8
  <2> QED BY <1>2, <1>8, <1>9, <2>1
<1>12. ~skip => F!Found(fFont, look.entry).face = fFont.face BY <1>8
<1>13. ~skip => look.told.metrics = F!Found(fFont, look.entry).metrics BY <1>7, <1>8
<1> QED BY <1>1, <1>5, <1>10, <1>11, <1>12, <1>13

(* The face name told while looking does not depend on the charset asked for.*)
LEMMA LookFace ==
  ASSUME NEW c, NEW d
  PROVE  fFont \in F!Fonts => F!Look(fFont, c).told.face = F!Look(fFont, d).told.face
BY DEF F!Look, F!Given, F!Skip

LEMMA InitEnumeration == F!Init => F!EnumerationInv
BY DEF F!Init, F!EnumerationInv

LEMMA EnumerationsRight == F!EnumerationInv => F!EnumerationsAgree
<1> SUFFICES ASSUME F!EnumerationInv, NEW i \in DOMAIN fTold
             PROVE  /\ fTold[i] = F!Skip <=> Hidden
                    /\ \A j \in 1 .. i : fTold[j].face = fFont.face =>
                          /\ fTold[i].face = fFont.face
                          /\ fCharset[i] = fCharset[j] => fTold[i].metrics = fTold[j].metrics
  BY DEF F!EnumerationsAgree, Hidden
<1> USE DEF F!EnumerationInv
<1>1. fFont \in F!Fonts /\ Len(fTold) \in Nat /\ DOMAIN fTold = 1 .. Len(fTold) OBVIOUS
<1> DEFINE Seen(k) == IF F!FoundAgain /\ k > 1 THEN F!Found(fFont, F!Look(fFont, fCharset[1]).entry)
                      ELSE F!Look(fFont, fCharset[k]).told
<1>2. \A k \in DOMAIN fTold : fTold[k] = Seen(k) OBVIOUS
<1>3. fTold[i] = F!Skip <=> Hidden BY <1>1, <1>2, LookIs
<1>4. ASSUME NEW j \in 1 .. i, fTold[j].face = fFont.face
      PROVE  /\ fTold[i].face = fFont.face
             /\ fCharset[i] = fCharset[j] => fTold[i].metrics = fTold[j].metrics
  <2>1. j \in DOMAIN fTold /\ j \in Nat /\ i \in Nat /\ j <= i /\ j >= 1 BY <1>1
  <2>2. ~Hidden
    <3>1. fFont.face # F!Skip.face BY <1>1 DEF F!Fonts, F!Skip, F!NoText
    <3>2. fTold[j] # F!Skip BY <1>4, <3>1
    <3> QED BY <1>1, <1>2, <2>1, <3>2, LookIs
  <2>3. CASE F!FoundAgain /\ i > 1
    <3>1. fTold[i] = F!Found(fFont, F!Look(fFont, fCharset[1]).entry) BY <1>2, <2>3
    <3>2. fTold[i].face = fFont.face BY <1>1, <2>2, <3>1, LookIs
    <3>3. CASE j > 1
      <4>1. fTold[j] = fTold[i] BY <1>2, <2>1, <2>3, <3>1, <3>3
      <4> QED BY <3>2, <4>1
    <3>4. CASE j = 1
      <4>1. fTold[j] = F!Look(fFont, fCharset[1]).told BY <1>2, <2>1, <3>4
      <4> QED BY <1>1, <2>2, <3>1, <3>2, <4>1, LookIs
    <3> QED BY <2>1, <3>3, <3>4
  <2>4. CASE ~(F!FoundAgain /\ i > 1)
    <3>1. fTold[i] = F!Look(fFont, fCharset[i]).told BY <1>2, <2>4
    <3>2. fTold[j] = F!Look(fFont, fCharset[j]).told BY <1>2, <2>1, <2>4
    <3>3. fTold[i].face = fTold[j].face BY <1>1, <3>1, <3>2, LookFace
    <3> QED BY <1>4, <3>1, <3>2, <3>3
  <2> QED BY <2>3, <2>4
<1> QED BY <1>3, <1>4

(* One more enumeration: the cache is read under the name the system         *)
(* reports and written under the one the program is told.                    *)
LEMMA EnumerationStep ==
  ASSUME F!EnumerationInv, NEW asked \in F!Asked, F!LepEnumFontCallbackW(asked)
  PROVE  F!EnumerationInv'
<1> DEFINE key == F!BuildTextMetricCacheKey(fFont.full, fFont.charset)
           look == F!Look(fFont, asked)
           hit == fArch = "x86" /\ key \in DOMAIN fCache
           report == IF hit THEN F!Found(fFont, fCache[key]) ELSE look.told
           n == Len(fTold)
           Seen(k, s) == IF F!FoundAgain /\ k > 1 THEN F!Found(fFont, F!Look(fFont, s[1]).entry)
                         ELSE F!Look(fFont, s[k]).told
<1>1. /\ fTold' = Append(fTold, report) /\ fCharset' = Append(fCharset, asked)
      /\ UNCHANGED <<fArch, fFont>>
      /\ fCache' = IF hit THEN fCache
                   ELSE [k \in DOMAIN fCache \cup {look.key} |->
                            IF k = look.key THEN look.entry ELSE fCache[k]]
  BY DEF F!LepEnumFontCallbackW
<1>2. /\ fFont \in F!Fonts /\ fArch \in {"x86", "x64"}
      /\ fTold \in Seq(F!Reports) /\ fCharset \in Seq(F!Asked) /\ n = Len(fCharset) /\ n \in Nat
      /\ DOMAIN fTold = 1 .. n /\ DOMAIN fCharset = 1 .. n
      /\ DOMAIN fCache \subseteq {F!LookKey} /\ (fTold = <<>> => DOMAIN fCache = {})
      /\ \A k \in 1 .. n : fTold[k] = Seen(k, fCharset)
      /\ F!FoundAgain /\ fTold # <<>> =>
            F!LookKey \in DOMAIN fCache /\ fCache[F!LookKey] = F!Look(fFont, fCharset[1]).entry
  BY DEF F!EnumerationInv
<1>3. look.key = F!LookKey BY <1>2, LookIs
<1>4. F!FoundAgain <=> fArch = "x86" /\ F!LookKey = key BY DEF F!FoundAgain
<1>5. hit <=> F!FoundAgain /\ n > 0
  <2>1. fTold # <<>> <=> n > 0 BY <1>2
  <2> QED BY <1>2, <1>4, <2>1
<1>6. \A k \in 1 .. n : fCharset[k] \in F!Asked BY <1>2
<1>7. report = Seen(n + 1, Append(fCharset, asked))
  <2>1. Append(fCharset, asked)[n + 1] = asked BY <1>2
  <2>2. n > 0 => Append(fCharset, asked)[1] = fCharset[1] BY <1>2
  <2>3. CASE hit
    <3>1. F!FoundAgain /\ n > 0 /\ key = F!LookKey /\ fTold # <<>> BY <1>2, <1>4, <1>5, <2>3
    <3>2. fCache[key] = F!Look(fFont, fCharset[1]).entry BY <1>2, <3>1
    <3> HIDE DEF key, look, hit
    <3> QED BY <1>2, <2>2, <2>3, <3>1, <3>2
  <2>4. CASE ~hit
    <3>1. ~(F!FoundAgain /\ n + 1 > 1) BY <1>2, <1>5, <2>4
    <3> QED BY <2>1, <2>4, <3>1
  <2> QED BY <2>3, <2>4
<1>8. report \in F!Reports
  <2>1. CASE hit
    <3>1. F!FoundAgain /\ n > 0 /\ key = F!LookKey /\ fTold # <<>> BY <1>2, <1>4, <1>5, <2>1
    <3>2. fCache[key] = F!Look(fFont, fCharset[1]).entry /\ fCharset[1] \in F!Asked BY <1>2, <1>6, <3>1
    <3> QED BY <2>1, <3>2 DEF F!Reports
  <2>2. CASE ~hit BY <2>2 DEF F!Reports
  <2> QED BY <2>1, <2>2
<1>9. /\ fTold' \in Seq(F!Reports) /\ fCharset' \in Seq(F!Asked) /\ Len(fTold') = n + 1
      /\ Len(fCharset') = n + 1 /\ DOMAIN fTold' = 1 .. n + 1 /\ fTold' # <<>>
  <2> HIDE DEF report
  <2> QED BY <1>1, <1>2, <1>8
<1>10. /\ F!LookKey' = F!LookKey /\ F!FoundAgain' = F!FoundAgain /\ F!Reports' = F!Reports
       /\ \A c : F!Look(fFont, c)' = F!Look(fFont, c)
  BY <1>1 DEF F!LookKey, F!FoundAgain, F!Reports
<1>11. ASSUME NEW k \in 1 .. n + 1 PROVE fTold'[k] = Seen(k, fCharset')
  <2>1. CASE k = n + 1
    <3>1. fTold'[n + 1] = report
      <4> HIDE DEF report
      <4> QED BY <1>1, <1>2
    <3> QED BY <1>1, <1>7, <2>1, <3>1
  <2>2. CASE k # n + 1
    <3>1. k \in 1 .. n BY <1>2, <2>2
    <3>2. fTold'[k] = fTold[k]
      <4> HIDE DEF report
      <4> QED BY <1>1, <1>2, <3>1
    <3>3. fCharset'[k] = fCharset[k] /\ fCharset'[1] = fCharset[1] BY <1>1, <1>2, <3>1
    <3> QED BY <1>2, <3>1, <3>2, <3>3
  <2> QED BY <2>1, <2>2
<1>12. DOMAIN fCache' \subseteq {F!LookKey} BY <1>1, <1>2, <1>3
<1>13. F!FoundAgain => F!LookKey \in DOMAIN fCache' /\ fCache'[F!LookKey] = F!Look(fFont, fCharset'[1]).entry
  <2> SUFFICES ASSUME F!FoundAgain
               PROVE  F!LookKey \in DOMAIN fCache' /\ fCache'[F!LookKey] = F!Look(fFont, fCharset'[1]).entry
    OBVIOUS
  <2>1. CASE hit
    <3>1. n > 0 /\ fTold # <<>> /\ fCache' = fCache BY <1>1, <1>2, <1>5, <2>1
    <3>2. fCharset'[1] = fCharset[1] BY <1>1, <1>2, <3>1
    <3> QED BY <1>2, <3>1, <3>2
  <2>2. CASE ~hit
    <3>1. n = 0 BY <1>2, <1>5, <2>2
    <3>2. fCharset'[1] = asked BY <1>1, <1>2, <3>1
    <3>3. fCache' = [k \in DOMAIN fCache \cup {look.key} |->
                        IF k = look.key THEN look.entry ELSE fCache[k]]
      BY <1>1, <2>2
    <3>4. F!LookKey \in DOMAIN fCache' /\ fCache'[F!LookKey] = look.entry
      <4> HIDE DEF look
      <4> QED BY <1>3, <3>3
    <3> QED BY <3>2, <3>4
  <2> QED BY <2>1, <2>2
<1> HIDE DEF report, key, look, hit
<1>14. fFont' \in F!Fonts /\ fArch' \in {"x86", "x64"} BY <1>1, <1>2 DEF F!Fonts
<1>15. \A k \in DOMAIN fTold' :
         fTold'[k] = IF F!FoundAgain' /\ k > 1 THEN F!Found(fFont', F!Look(fFont', fCharset'[1]).entry)
                     ELSE F!Look(fFont', fCharset'[k]).told
  BY <1>1, <1>9, <1>10, <1>11
<1> QED BY <1>1, <1>9, <1>10, <1>12, <1>13, <1>14, <1>15 DEF F!EnumerationInv

LEMMA NextEnumeration ==
  ASSUME F!EnumerationInv, [F!Next]_(F!vars)
  PROVE  F!EnumerationInv'
<1>1. CASE UNCHANGED F!vars
  BY <1>1 DEF F!vars, F!EnumerationInv, F!LookKey, F!FoundAgain, F!Reports, F!Fonts
<1>2. CASE F!Next
  <2>1. PICK asked \in F!Asked : F!LepEnumFontCallbackW(asked)
    BY <1>2 DEF F!Next, F!EnumFontFamiliesEx, F!EnumFontFamilies, F!EnumFonts, F!Asked
  <2> QED BY <2>1, EnumerationStep
<1> QED BY <1>1, <1>2

LEMMA EnumerationSteps ==
  ASSUME [MCNext]_MCVars, active' = "fonts"
  PROVE  active = "fonts" /\ [F!Next]_(F!vars)
BY DEF MCNext, MCVars, FontVars, F!vars

(* Fonts.  However threads race to make a stock font, and however many fail, *)
(* there is one living font per object, the one everybody gets, and a        *)
(* context in use has it; and enumerations, however many and of whatever     *)
(* name tables, agree with the first one (LepGetStockObject,                 *)
(* LepSelectTargetStockFontInDC, LepEnumFontCallbackW).                      *)
THEOREM FontsAlwaysStay == MCSpec => []FontsStay
<1> DEFINE Stock == active = "stock" => S!StockInv
           Enumeration == active = "fonts" => F!EnumerationInv
<1>1. MCInit => Stock /\ Enumeration BY InitStock, InitEnumeration DEF MCInit
<1>2. Stock /\ [MCNext]_MCVars => Stock' BY StockSteps, NextStock
<1>3. Enumeration /\ [MCNext]_MCVars => Enumeration' BY EnumerationSteps, NextEnumeration
<1>4. Stock /\ Enumeration => FontsStay BY EnumerationsRight DEF S!StockInv, FontsStay
<1> QED BY <1>1, <1>2, <1>3, <1>4, PTL DEF MCSpec
LEMMA InitEnvironment == U!Init => U!IInv
<1> SUFFICES ASSUME U!Init PROVE U!IInv
  OBVIOUS
<1> USE SetsAssumption DEF U!Init, U!Addresses
<1>1. U!Types BY DEF U!Types, U!MemoryTypes, U!CountTypes, U!FlagTypes, U!ThreadTypes
<1>2. U!Exclusion BY DEF U!Exclusion
<1>3. U!NoDanglingReader BY DEF U!NoDanglingReader, U!Reachable
<1>4. U!CopiesShowTarget /\ U!SourceIsServer /\ U!OnTheWay /\ U!ShadowIsPublished
  BY DEF U!CopiesShowTarget, U!SourceIsServer, U!OnTheWay, U!ShadowIsPublished, U!Quiescent
<1> QED BY <1>1, <1>2, <1>3, <1>4 DEF U!IInv

LEMMA InitializePreserves ==
  ASSUME U!IInv, NEW locates \in BOOLEAN, U!Initialize(locates)
  PROVE  U!IInv'
<1> USE SetsAssumption, ValueAssumption DEF U!IInv, U!Initialize, U!memoryVars, U!stateVars, U!threadVars, U!hostVars
<1>1. U!Types'
  <2>1. U!MemoryTypes' BY DEF U!Types, U!MemoryTypes, U!ThreadTypes, U!Addresses
  <2>2. U!CountTypes' BY DEF U!Types, U!CountTypes
  <2>3. U!FlagTypes' BY DEF U!Types, U!FlagTypes
  <2>4. U!ThreadTypes' BY DEF U!Types, U!MemoryTypes, U!ThreadTypes, U!Addresses
  <2> QED BY <2>1, <2>2, <2>3, <2>4 DEF U!Types
<1>2. U!Exclusion' BY DEF U!Exclusion, U!Types, U!ThreadTypes
<1>3. U!NoDanglingReader' BY DEF U!NoDanglingReader, U!Reachable, U!SourceIsServer, U!OnTheWay, U!ShadowIsPublished, U!Types, U!MemoryTypes, U!ThreadTypes, U!Addresses
<1>4. U!CopiesShowTarget' BY DEF U!CopiesShowTarget, U!OnTheWay, U!Types, U!MemoryTypes, U!ThreadTypes, U!Addresses
<1>5. U!SourceIsServer' BY DEF U!SourceIsServer, U!OnTheWay
<1>6. U!OnTheWay' BY DEF U!OnTheWay, U!Types, U!MemoryTypes, U!ThreadTypes, U!Exclusion, U!SourceIsServer, U!ShadowIsPublished, U!Quiescent, U!Addresses
<1>7. U!ShadowIsPublished' BY DEF U!ShadowIsPublished, U!Quiescent, U!OnTheWay, U!Types, U!MemoryTypes, U!FlagTypes, U!ThreadTypes
<1> QED BY <1>1, <1>2, <1>3, <1>4, <1>5, <1>6, <1>7

LEMMA RestoreTestPreserves ==
  ASSUME U!IInv, U!RestoreTest
  PROVE  U!IInv'
<1> USE SetsAssumption, ValueAssumption DEF U!IInv, U!RestoreTest, U!Quiescent, U!memoryVars, U!stateVars, U!threadVars, U!hostVars
<1>1. U!Types'
  <2>1. U!MemoryTypes' BY DEF U!Types, U!MemoryTypes, U!ThreadTypes, U!Addresses
  <2>2. U!CountTypes' BY DEF U!Types, U!CountTypes
  <2>3. U!FlagTypes' BY DEF U!Types, U!FlagTypes
  <2>4. U!ThreadTypes' BY DEF U!Types, U!MemoryTypes, U!ThreadTypes, U!Addresses
  <2> QED BY <2>1, <2>2, <2>3, <2>4 DEF U!Types
<1>2. U!Exclusion' BY DEF U!Exclusion, U!Types, U!ThreadTypes
<1>3. U!NoDanglingReader' BY DEF U!NoDanglingReader, U!Reachable, U!SourceIsServer, U!OnTheWay, U!ShadowIsPublished, U!Types, U!MemoryTypes, U!ThreadTypes, U!Addresses
<1>4. U!CopiesShowTarget' BY DEF U!CopiesShowTarget, U!OnTheWay, U!Types, U!MemoryTypes, U!ThreadTypes, U!Addresses
<1>5. U!SourceIsServer' BY DEF U!SourceIsServer, U!OnTheWay
<1>6. U!OnTheWay' BY DEF U!OnTheWay, U!Types, U!MemoryTypes, U!ThreadTypes, U!Exclusion, U!SourceIsServer, U!ShadowIsPublished, U!Quiescent, U!Addresses
<1>7. U!ShadowIsPublished' BY DEF U!ShadowIsPublished, U!Quiescent, U!OnTheWay, U!Types, U!MemoryTypes, U!FlagTypes, U!ThreadTypes
<1> QED BY <1>1, <1>2, <1>3, <1>4, <1>5, <1>6, <1>7

LEMMA RestoreWritePreserves ==
  ASSUME U!IInv, U!RestoreWrite
  PROVE  U!IInv'
<1> USE SetsAssumption, ValueAssumption DEF U!IInv, U!RestoreWrite, U!memoryVars, U!stateVars, U!threadVars, U!hostVars
<1>1. U!Types'
  <2>1. U!MemoryTypes' BY DEF U!Types, U!MemoryTypes, U!ThreadTypes, U!Addresses
  <2>2. U!CountTypes' BY DEF U!Types, U!CountTypes
  <2>3. U!FlagTypes' BY DEF U!Types, U!FlagTypes
  <2>4. U!ThreadTypes' BY DEF U!Types, U!MemoryTypes, U!ThreadTypes, U!Addresses
  <2> QED BY <2>1, <2>2, <2>3, <2>4 DEF U!Types
<1>2. U!Exclusion' BY DEF U!Exclusion, U!Types, U!ThreadTypes
<1>3. U!NoDanglingReader' BY DEF U!NoDanglingReader, U!Reachable, U!SourceIsServer, U!OnTheWay, U!ShadowIsPublished, U!Types, U!MemoryTypes, U!ThreadTypes, U!Addresses
<1>4. U!CopiesShowTarget' BY DEF U!CopiesShowTarget, U!OnTheWay, U!Types, U!MemoryTypes, U!ThreadTypes, U!Addresses
<1>5. U!SourceIsServer' BY DEF U!SourceIsServer, U!OnTheWay
<1>6. U!OnTheWay' BY DEF U!OnTheWay, U!Types, U!MemoryTypes, U!ThreadTypes, U!Exclusion, U!SourceIsServer, U!ShadowIsPublished, U!Quiescent, U!Addresses
<1>7. U!ShadowIsPublished' BY DEF U!ShadowIsPublished, U!Quiescent, U!OnTheWay, U!Types, U!MemoryTypes, U!FlagTypes, U!ThreadTypes
<1> QED BY <1>1, <1>2, <1>3, <1>4, <1>5, <1>6, <1>7

LEMMA CallSynchronizePreserves ==
  ASSUME U!IInv, NEW t \in Threads, U!CallSynchronize(t)
  PROVE  U!IInv'
<1> USE SetsAssumption, ValueAssumption DEF U!IInv, U!CallSynchronize, U!Step, U!memoryVars, U!stateVars, U!threadVars, U!hostVars
<1>1. U!Types'
  <2>1. U!MemoryTypes' BY DEF U!Types, U!MemoryTypes, U!ThreadTypes, U!Addresses
  <2>2. U!CountTypes' BY DEF U!Types, U!CountTypes
  <2>3. U!FlagTypes' BY DEF U!Types, U!FlagTypes
  <2>4. U!ThreadTypes' BY DEF U!Types, U!MemoryTypes, U!ThreadTypes, U!Addresses
  <2> QED BY <2>1, <2>2, <2>3, <2>4 DEF U!Types
<1>2. U!Exclusion' BY DEF U!Exclusion, U!Types, U!ThreadTypes
<1>3. U!NoDanglingReader' BY DEF U!NoDanglingReader, U!Reachable, U!SourceIsServer, U!OnTheWay, U!ShadowIsPublished, U!Types, U!MemoryTypes, U!ThreadTypes, U!Addresses
<1>4. U!CopiesShowTarget' BY DEF U!CopiesShowTarget, U!OnTheWay, U!Types, U!MemoryTypes, U!ThreadTypes, U!Addresses
<1>5. U!SourceIsServer' BY DEF U!SourceIsServer, U!OnTheWay
<1>6. U!OnTheWay' BY DEF U!OnTheWay, U!Types, U!MemoryTypes, U!ThreadTypes, U!Exclusion, U!SourceIsServer, U!ShadowIsPublished, U!Quiescent, U!Addresses
<1>7. U!ShadowIsPublished' BY DEF U!ShadowIsPublished, U!Quiescent, U!OnTheWay, U!Types, U!MemoryTypes, U!FlagTypes, U!ThreadTypes
<1> QED BY <1>1, <1>2, <1>3, <1>4, <1>5, <1>6, <1>7

LEMMA EnterCriticalSectionPreserves ==
  ASSUME U!IInv, NEW t \in Threads, U!EnterCriticalSection(t)
  PROVE  U!IInv'
<1> USE SetsAssumption, ValueAssumption DEF U!IInv, U!EnterCriticalSection, U!Step, U!memoryVars, U!stateVars, U!threadVars, U!hostVars
<1>1. U!Types'
  <2>1. U!MemoryTypes' BY DEF U!Types, U!MemoryTypes, U!ThreadTypes, U!Addresses
  <2>2. U!CountTypes' BY DEF U!Types, U!CountTypes
  <2>3. U!FlagTypes' BY DEF U!Types, U!FlagTypes
  <2>4. U!ThreadTypes' BY DEF U!Types, U!MemoryTypes, U!ThreadTypes, U!Addresses
  <2> QED BY <2>1, <2>2, <2>3, <2>4 DEF U!Types
<1>2. U!Exclusion' BY DEF U!Exclusion, U!Types, U!ThreadTypes
<1>3. U!NoDanglingReader' BY DEF U!NoDanglingReader, U!Reachable, U!SourceIsServer, U!OnTheWay, U!ShadowIsPublished, U!Types, U!MemoryTypes, U!ThreadTypes, U!Addresses
<1>4. U!CopiesShowTarget' BY DEF U!CopiesShowTarget, U!OnTheWay, U!Types, U!MemoryTypes, U!ThreadTypes, U!Addresses
<1>5. U!SourceIsServer' BY DEF U!SourceIsServer, U!OnTheWay
<1>6. U!OnTheWay' BY DEF U!OnTheWay, U!Types, U!MemoryTypes, U!ThreadTypes, U!Exclusion, U!SourceIsServer, U!ShadowIsPublished, U!Quiescent, U!Addresses
<1>7. U!ShadowIsPublished' BY DEF U!ShadowIsPublished, U!Quiescent, U!OnTheWay, U!Types, U!MemoryTypes, U!FlagTypes, U!ThreadTypes
<1> QED BY <1>1, <1>2, <1>3, <1>4, <1>5, <1>6, <1>7

LEMMA ReadSlotPreserves ==
  ASSUME U!IInv, NEW t \in Threads, U!ReadSlot(t)
  PROVE  U!IInv'
<1> USE SetsAssumption, ValueAssumption DEF U!IInv, U!ReadSlot, U!Step, U!Original, U!Readable, U!memoryVars, U!stateVars, U!threadVars, U!hostVars
<1>1. U!Types'
  <2>1. U!MemoryTypes' BY DEF U!Types, U!MemoryTypes, U!ThreadTypes, U!Addresses
  <2>2. U!CountTypes' BY DEF U!Types, U!CountTypes
  <2>3. U!FlagTypes' BY DEF U!Types, U!FlagTypes
  <2>4. U!ThreadTypes'
    <3>1. (uSource \in U!Addresses \cup {None} /\ uShadow \in Copies \cup {None})' BY DEF U!Types, U!MemoryTypes, U!ThreadTypes, U!Addresses
    <3>2. (uLock \in Threads \cup {None})' BY DEF U!Types, U!MemoryTypes, U!ThreadTypes, U!Addresses
    <3>3. (uPc \in [Threads -> {"out", "enter", "read", "flags", "publish", "refresh", "leave"}])' BY DEF U!Types, U!MemoryTypes, U!ThreadTypes, U!Addresses
    <3>4. (uOriginal \in [Threads -> U!Addresses \cup {None}])' BY DEF U!Types, U!MemoryTypes, U!ThreadTypes, U!Addresses
    <3>5. (uFresh \in [Threads -> Copies \cup {None}])' BY DEF U!Types, U!MemoryTypes, U!ThreadTypes, U!Addresses
    <3>6. (uDone \in [Threads -> BOOLEAN])' BY DEF U!Types, U!MemoryTypes, U!ThreadTypes, U!Addresses
    <3> QED BY <3>1, <3>2, <3>3, <3>4, <3>5, <3>6 DEF U!ThreadTypes
  <2> QED BY <2>1, <2>2, <2>3, <2>4 DEF U!Types
<1>2. U!Exclusion' BY DEF U!Exclusion, U!Types, U!ThreadTypes
<1>3. U!NoDanglingReader' BY DEF U!NoDanglingReader, U!Reachable, U!SourceIsServer, U!OnTheWay, U!ShadowIsPublished, U!Types, U!MemoryTypes, U!ThreadTypes, U!Addresses
<1>4. U!CopiesShowTarget' BY DEF U!CopiesShowTarget, U!OnTheWay, U!Types, U!MemoryTypes, U!ThreadTypes, U!Addresses
<1>5. U!SourceIsServer' BY DEF U!SourceIsServer, U!OnTheWay
<1>6. U!OnTheWay' BY DEF U!OnTheWay, U!Types, U!MemoryTypes, U!ThreadTypes, U!Exclusion, U!SourceIsServer, U!ShadowIsPublished, U!Quiescent, U!Addresses
<1>7. U!ShadowIsPublished' BY DEF U!ShadowIsPublished, U!Quiescent, U!OnTheWay, U!Types, U!MemoryTypes, U!FlagTypes, U!ThreadTypes
<1> QED BY <1>1, <1>2, <1>3, <1>4, <1>5, <1>6, <1>7

LEMMA SameModePreserves ==
  ASSUME U!IInv, NEW t \in Threads, U!SameMode(t)
  PROVE  U!IInv'
<1> USE SetsAssumption, ValueAssumption DEF U!IInv, U!SameMode, U!Step, U!memoryVars, U!stateVars, U!threadVars, U!hostVars
<1>1. U!Types'
  <2>1. U!MemoryTypes' BY DEF U!Types, U!MemoryTypes, U!ThreadTypes, U!Addresses
  <2>2. U!CountTypes' BY DEF U!Types, U!CountTypes
  <2>3. U!FlagTypes' BY DEF U!Types, U!FlagTypes
  <2>4. U!ThreadTypes' BY DEF U!Types, U!MemoryTypes, U!ThreadTypes, U!Addresses
  <2> QED BY <2>1, <2>2, <2>3, <2>4 DEF U!Types
<1>2. U!Exclusion' BY DEF U!Exclusion, U!Types, U!ThreadTypes
<1>3. U!NoDanglingReader' BY DEF U!NoDanglingReader, U!Reachable, U!SourceIsServer, U!OnTheWay, U!ShadowIsPublished, U!Types, U!MemoryTypes, U!ThreadTypes, U!Addresses
<1>4. U!CopiesShowTarget' BY DEF U!CopiesShowTarget, U!OnTheWay, U!Types, U!MemoryTypes, U!ThreadTypes, U!Addresses
<1>5. U!SourceIsServer' BY DEF U!SourceIsServer, U!OnTheWay
<1>6. U!OnTheWay' BY DEF U!OnTheWay, U!Types, U!MemoryTypes, U!ThreadTypes, U!Exclusion, U!SourceIsServer, U!ShadowIsPublished, U!Quiescent, U!Addresses
<1>7. U!ShadowIsPublished' BY DEF U!ShadowIsPublished, U!Quiescent, U!OnTheWay, U!Types, U!MemoryTypes, U!FlagTypes, U!ThreadTypes
<1> QED BY <1>1, <1>2, <1>3, <1>4, <1>5, <1>6, <1>7

LEMMA AllocateCopyPreserves ==
  ASSUME U!IInv, NEW t \in Threads, U!AllocateCopy(t)
  PROVE  U!IInv'
<1> USE SetsAssumption, ValueAssumption DEF U!IInv, U!AllocateCopy, U!Step, U!memoryVars, U!stateVars, U!threadVars, U!hostVars
<1>1. U!Types'
  <2>1. U!MemoryTypes'
    <3>1. (uSlot \in U!Addresses \cup {None})' BY DEF U!Types, U!MemoryTypes, U!ThreadTypes, U!Addresses
    <3>2. (uBit \in [U!Addresses -> BOOLEAN])' BY DEF U!Types, U!MemoryTypes, U!ThreadTypes, U!Addresses
    <3>3. (uRest \in [U!Addresses -> Nat])'
      <4>1. uRest \in [U!Addresses -> Nat] BY DEF U!Types, U!MemoryTypes
      <4>2. uRest[uOriginal[t]] \in Nat BY <4>1 DEF U!OnTheWay, U!Addresses
      <4>3. uRest' = uRest \/ \E c \in Copies : uRest' = [uRest EXCEPT ![c] = uRest[uOriginal[t]]] OBVIOUS
      <4> QED BY ONLY <4>1, <4>2, <4>3
    <3>4. (uCopy \in [Copies -> {"free", "private", "published"}])' BY DEF U!Types, U!MemoryTypes, U!ThreadTypes, U!Addresses
    <3>5. (uPointer \in [Readers -> U!Addresses \cup {None}])' BY DEF U!Types, U!MemoryTypes, U!ThreadTypes, U!Addresses
    <3> QED BY <3>1, <3>2, <3>3, <3>4, <3>5 DEF U!MemoryTypes
  <2>2. U!CountTypes' BY DEF U!Types, U!CountTypes
  <2>3. U!FlagTypes' BY DEF U!Types, U!FlagTypes
  <2>4. U!ThreadTypes'
    <3>1. (uSource \in U!Addresses \cup {None} /\ uShadow \in Copies \cup {None})' BY DEF U!Types, U!MemoryTypes, U!ThreadTypes, U!Addresses
    <3>2. (uLock \in Threads \cup {None})' BY DEF U!Types, U!MemoryTypes, U!ThreadTypes, U!Addresses
    <3>3. (uPc \in [Threads -> {"out", "enter", "read", "flags", "publish", "refresh", "leave"}])' BY DEF U!Types, U!MemoryTypes, U!ThreadTypes, U!Addresses
    <3>4. (uOriginal \in [Threads -> U!Addresses \cup {None}])' BY DEF U!Types, U!MemoryTypes, U!ThreadTypes, U!Addresses
    <3>5. (uFresh \in [Threads -> Copies \cup {None}])' BY DEF U!Types, U!MemoryTypes, U!ThreadTypes, U!Addresses
    <3>6. (uDone \in [Threads -> BOOLEAN])' BY DEF U!Types, U!MemoryTypes, U!ThreadTypes, U!Addresses
    <3> QED BY <3>1, <3>2, <3>3, <3>4, <3>5, <3>6 DEF U!ThreadTypes
  <2> QED BY <2>1, <2>2, <2>3, <2>4 DEF U!Types
<1>2. U!Exclusion' BY DEF U!Exclusion, U!Types, U!ThreadTypes
<1>3. U!NoDanglingReader' BY DEF U!NoDanglingReader, U!Reachable, U!SourceIsServer, U!OnTheWay, U!ShadowIsPublished, U!Types, U!MemoryTypes, U!ThreadTypes, U!Addresses
<1>4. U!CopiesShowTarget' BY DEF U!CopiesShowTarget, U!OnTheWay, U!Types, U!MemoryTypes, U!ThreadTypes, U!Addresses
<1>5. U!SourceIsServer' BY DEF U!SourceIsServer, U!OnTheWay
<1>6. U!OnTheWay' BY DEF U!OnTheWay, U!Types, U!MemoryTypes, U!ThreadTypes, U!Exclusion, U!SourceIsServer, U!ShadowIsPublished, U!Quiescent, U!Addresses
<1>7. U!ShadowIsPublished' BY DEF U!ShadowIsPublished, U!Quiescent, U!OnTheWay, U!Types, U!MemoryTypes, U!FlagTypes, U!ThreadTypes
<1> QED BY <1>1, <1>2, <1>3, <1>4, <1>5, <1>6, <1>7

LEMMA PublishPreserves ==
  ASSUME U!IInv, NEW t \in Threads, U!Publish(t)
  PROVE  U!IInv'
<1> USE SetsAssumption, ValueAssumption DEF U!IInv, U!Publish, U!Step, U!memoryVars, U!stateVars, U!threadVars, U!hostVars
<1>1. U!Types'
  <2>1. U!MemoryTypes' BY DEF U!Types, U!MemoryTypes, U!ThreadTypes, U!Addresses
  <2>2. U!CountTypes' BY DEF U!Types, U!CountTypes
  <2>3. U!FlagTypes' BY DEF U!Types, U!FlagTypes
  <2>4. U!ThreadTypes' BY DEF U!Types, U!MemoryTypes, U!ThreadTypes, U!Addresses
  <2> QED BY <2>1, <2>2, <2>3, <2>4 DEF U!Types
<1>2. U!Exclusion' BY DEF U!Exclusion, U!Types, U!ThreadTypes
<1>3. U!NoDanglingReader' BY DEF U!NoDanglingReader, U!Reachable, U!SourceIsServer, U!OnTheWay, U!ShadowIsPublished, U!Types, U!MemoryTypes, U!ThreadTypes, U!Addresses
<1>4. U!CopiesShowTarget' BY DEF U!CopiesShowTarget, U!OnTheWay, U!Types, U!MemoryTypes, U!ThreadTypes, U!Addresses
<1>5. U!SourceIsServer' BY DEF U!SourceIsServer, U!OnTheWay
<1>6. U!OnTheWay' BY DEF U!OnTheWay, U!Types, U!MemoryTypes, U!ThreadTypes, U!Exclusion, U!SourceIsServer, U!ShadowIsPublished, U!Quiescent, U!Addresses
<1>7. U!ShadowIsPublished' BY DEF U!ShadowIsPublished, U!Quiescent, U!OnTheWay, U!Types, U!MemoryTypes, U!FlagTypes, U!ThreadTypes
<1> QED BY <1>1, <1>2, <1>3, <1>4, <1>5, <1>6, <1>7

LEMMA PublishFailsPreserves ==
  ASSUME U!IInv, NEW t \in Threads, U!PublishFails(t)
  PROVE  U!IInv'
<1> USE SetsAssumption, ValueAssumption DEF U!IInv, U!PublishFails, U!Step, U!memoryVars, U!stateVars, U!threadVars, U!hostVars
<1>1. U!Types'
  <2>1. U!MemoryTypes' BY DEF U!Types, U!MemoryTypes, U!ThreadTypes, U!Addresses
  <2>2. U!CountTypes' BY DEF U!Types, U!CountTypes
  <2>3. U!FlagTypes' BY DEF U!Types, U!FlagTypes
  <2>4. U!ThreadTypes' BY DEF U!Types, U!MemoryTypes, U!ThreadTypes, U!Addresses
  <2> QED BY <2>1, <2>2, <2>3, <2>4 DEF U!Types
<1>2. U!Exclusion' BY DEF U!Exclusion, U!Types, U!ThreadTypes
<1>3. U!NoDanglingReader' BY DEF U!NoDanglingReader, U!Reachable, U!SourceIsServer, U!OnTheWay, U!ShadowIsPublished, U!Types, U!MemoryTypes, U!ThreadTypes, U!Addresses
<1>4. U!CopiesShowTarget' BY DEF U!CopiesShowTarget, U!OnTheWay, U!Types, U!MemoryTypes, U!ThreadTypes, U!Addresses
<1>5. U!SourceIsServer' BY DEF U!SourceIsServer, U!OnTheWay
<1>6. U!OnTheWay' BY DEF U!OnTheWay, U!Types, U!MemoryTypes, U!ThreadTypes, U!Exclusion, U!SourceIsServer, U!ShadowIsPublished, U!Quiescent, U!Addresses
<1>7. U!ShadowIsPublished' BY DEF U!ShadowIsPublished, U!Quiescent, U!OnTheWay, U!Types, U!MemoryTypes, U!FlagTypes, U!ThreadTypes
<1> QED BY <1>1, <1>2, <1>3, <1>4, <1>5, <1>6, <1>7

LEMMA RefreshRestPreserves ==
  ASSUME U!IInv, NEW t \in Threads, U!RefreshRest(t)
  PROVE  U!IInv'
<1> USE SetsAssumption, ValueAssumption DEF U!IInv, U!RefreshRest, U!Step, U!NeedsCopy, U!memoryVars, U!stateVars, U!threadVars, U!hostVars
<1>1. U!Types'
  <2>1. U!MemoryTypes'
    <3>1. (uSlot \in U!Addresses \cup {None})' BY DEF U!Types, U!MemoryTypes, U!ThreadTypes, U!Addresses
    <3>2. (uBit \in [U!Addresses -> BOOLEAN])' BY DEF U!Types, U!MemoryTypes, U!ThreadTypes, U!Addresses
    <3>3. (uRest \in [U!Addresses -> Nat])'
      <4>1. uRest \in [U!Addresses -> Nat] BY DEF U!Types, U!MemoryTypes
      <4>2. uRest[uSource] \in Nat BY <4>1 DEF U!ShadowIsPublished, U!SourceIsServer, U!Addresses
      <4>3. uRest' = [uRest EXCEPT ![uShadow] = uRest[uSource]] OBVIOUS
      <4> QED BY ONLY <4>1, <4>2, <4>3
    <3>4. (uCopy \in [Copies -> {"free", "private", "published"}])' BY DEF U!Types, U!MemoryTypes, U!ThreadTypes, U!Addresses
    <3>5. (uPointer \in [Readers -> U!Addresses \cup {None}])' BY DEF U!Types, U!MemoryTypes, U!ThreadTypes, U!Addresses
    <3> QED BY <3>1, <3>2, <3>3, <3>4, <3>5 DEF U!MemoryTypes
  <2>2. U!CountTypes' BY DEF U!Types, U!CountTypes
  <2>3. U!FlagTypes' BY DEF U!Types, U!FlagTypes
  <2>4. U!ThreadTypes' BY DEF U!Types, U!MemoryTypes, U!ThreadTypes, U!Addresses
  <2> QED BY <2>1, <2>2, <2>3, <2>4 DEF U!Types
<1>2. U!Exclusion' BY DEF U!Exclusion, U!Types, U!ThreadTypes
<1>3. U!NoDanglingReader' BY DEF U!NoDanglingReader, U!Reachable, U!SourceIsServer, U!OnTheWay, U!ShadowIsPublished, U!Types, U!MemoryTypes, U!ThreadTypes, U!Addresses
<1>4. U!CopiesShowTarget' BY DEF U!CopiesShowTarget, U!OnTheWay, U!Types, U!MemoryTypes, U!ThreadTypes, U!Addresses
<1>5. U!SourceIsServer' BY DEF U!SourceIsServer, U!OnTheWay
<1>6. U!OnTheWay' BY DEF U!OnTheWay, U!Types, U!MemoryTypes, U!ThreadTypes, U!Exclusion, U!SourceIsServer, U!ShadowIsPublished, U!Quiescent, U!Addresses
<1>7. U!ShadowIsPublished' BY DEF U!ShadowIsPublished, U!Quiescent, U!OnTheWay, U!Types, U!MemoryTypes, U!FlagTypes, U!ThreadTypes
<1> QED BY <1>1, <1>2, <1>3, <1>4, <1>5, <1>6, <1>7

LEMMA RefreshFlagsPreserves ==
  ASSUME U!IInv, NEW t \in Threads, U!RefreshFlags(t)
  PROVE  U!IInv'
<1> USE SetsAssumption, ValueAssumption DEF U!IInv, U!RefreshFlags, U!Step, U!memoryVars, U!stateVars, U!threadVars, U!hostVars
<1>1. U!Types'
  <2>1. U!MemoryTypes' BY DEF U!Types, U!MemoryTypes, U!ThreadTypes, U!Addresses
  <2>2. U!CountTypes' BY DEF U!Types, U!CountTypes
  <2>3. U!FlagTypes' BY DEF U!Types, U!FlagTypes
  <2>4. U!ThreadTypes' BY DEF U!Types, U!MemoryTypes, U!ThreadTypes, U!Addresses
  <2> QED BY <2>1, <2>2, <2>3, <2>4 DEF U!Types
<1>2. U!Exclusion' BY DEF U!Exclusion, U!Types, U!ThreadTypes
<1>3. U!NoDanglingReader' BY DEF U!NoDanglingReader, U!Reachable, U!SourceIsServer, U!OnTheWay, U!ShadowIsPublished, U!Types, U!MemoryTypes, U!ThreadTypes, U!Addresses
<1>4. U!CopiesShowTarget' BY DEF U!CopiesShowTarget, U!OnTheWay, U!Types, U!MemoryTypes, U!ThreadTypes, U!Addresses
<1>5. U!SourceIsServer' BY DEF U!SourceIsServer, U!OnTheWay
<1>6. U!OnTheWay' BY DEF U!OnTheWay, U!Types, U!MemoryTypes, U!ThreadTypes, U!Exclusion, U!SourceIsServer, U!ShadowIsPublished, U!Quiescent, U!Addresses
<1>7. U!ShadowIsPublished' BY DEF U!ShadowIsPublished, U!Quiescent, U!OnTheWay, U!Types, U!MemoryTypes, U!FlagTypes, U!ThreadTypes
<1> QED BY <1>1, <1>2, <1>3, <1>4, <1>5, <1>6, <1>7

LEMMA LeaveCriticalSectionPreserves ==
  ASSUME U!IInv, NEW t \in Threads, U!LeaveCriticalSection(t)
  PROVE  U!IInv'
<1> USE SetsAssumption, ValueAssumption DEF U!IInv, U!LeaveCriticalSection, U!Step, U!memoryVars, U!stateVars, U!threadVars, U!hostVars
<1>1. U!Types'
  <2>1. U!MemoryTypes' BY DEF U!Types, U!MemoryTypes, U!ThreadTypes, U!Addresses
  <2>2. U!CountTypes' BY DEF U!Types, U!CountTypes
  <2>3. U!FlagTypes' BY DEF U!Types, U!FlagTypes
  <2>4. U!ThreadTypes' BY DEF U!Types, U!MemoryTypes, U!ThreadTypes, U!Addresses
  <2> QED BY <2>1, <2>2, <2>3, <2>4 DEF U!Types
<1>2. U!Exclusion' BY DEF U!Exclusion, U!Types, U!ThreadTypes
<1>3. U!NoDanglingReader' BY DEF U!NoDanglingReader, U!Reachable, U!SourceIsServer, U!OnTheWay, U!ShadowIsPublished, U!Types, U!MemoryTypes, U!ThreadTypes, U!Addresses
<1>4. U!CopiesShowTarget' BY DEF U!CopiesShowTarget, U!OnTheWay, U!Types, U!MemoryTypes, U!ThreadTypes, U!Addresses
<1>5. U!SourceIsServer' BY DEF U!SourceIsServer, U!OnTheWay
<1>6. U!OnTheWay' BY DEF U!OnTheWay, U!Types, U!MemoryTypes, U!ThreadTypes, U!Exclusion, U!SourceIsServer, U!ShadowIsPublished, U!Quiescent, U!Addresses
<1>7. U!ShadowIsPublished' BY DEF U!ShadowIsPublished, U!Quiescent, U!OnTheWay, U!Types, U!MemoryTypes, U!FlagTypes, U!ThreadTypes
<1> QED BY <1>1, <1>2, <1>3, <1>4, <1>5, <1>6, <1>7

LEMMA LoadPointerPreserves ==
  ASSUME U!IInv, NEW r \in Readers, U!LoadPointer(r)
  PROVE  U!IInv'
<1> USE SetsAssumption, ValueAssumption DEF U!IInv, U!LoadPointer, U!memoryVars, U!stateVars, U!threadVars, U!hostVars
<1>1. U!Types'
  <2>1. U!MemoryTypes' BY DEF U!Types, U!MemoryTypes, U!ThreadTypes, U!Addresses
  <2>2. U!CountTypes' BY DEF U!Types, U!CountTypes
  <2>3. U!FlagTypes' BY DEF U!Types, U!FlagTypes
  <2>4. U!ThreadTypes' BY DEF U!Types, U!MemoryTypes, U!ThreadTypes, U!Addresses
  <2> QED BY <2>1, <2>2, <2>3, <2>4 DEF U!Types
<1>2. U!Exclusion' BY DEF U!Exclusion, U!Types, U!ThreadTypes
<1>3. U!NoDanglingReader' BY DEF U!NoDanglingReader, U!Reachable, U!SourceIsServer, U!OnTheWay, U!ShadowIsPublished, U!Types, U!MemoryTypes, U!ThreadTypes, U!Addresses
<1>4. U!CopiesShowTarget' BY DEF U!CopiesShowTarget, U!OnTheWay, U!Types, U!MemoryTypes, U!ThreadTypes, U!Addresses
<1>5. U!SourceIsServer' BY DEF U!SourceIsServer, U!OnTheWay
<1>6. U!OnTheWay' BY DEF U!OnTheWay, U!Types, U!MemoryTypes, U!ThreadTypes, U!Exclusion, U!SourceIsServer, U!ShadowIsPublished, U!Quiescent, U!Addresses
<1>7. U!ShadowIsPublished' BY DEF U!ShadowIsPublished, U!Quiescent, U!OnTheWay, U!Types, U!MemoryTypes, U!FlagTypes, U!ThreadTypes
<1> QED BY <1>1, <1>2, <1>3, <1>4, <1>5, <1>6, <1>7

LEMMA DropPointerPreserves ==
  ASSUME U!IInv, NEW r \in Readers, U!DropPointer(r)
  PROVE  U!IInv'
<1> USE SetsAssumption, ValueAssumption DEF U!IInv, U!DropPointer, U!memoryVars, U!stateVars, U!threadVars, U!hostVars
<1>1. U!Types'
  <2>1. U!MemoryTypes' BY DEF U!Types, U!MemoryTypes, U!ThreadTypes, U!Addresses
  <2>2. U!CountTypes' BY DEF U!Types, U!CountTypes
  <2>3. U!FlagTypes' BY DEF U!Types, U!FlagTypes
  <2>4. U!ThreadTypes' BY DEF U!Types, U!MemoryTypes, U!ThreadTypes, U!Addresses
  <2> QED BY <2>1, <2>2, <2>3, <2>4 DEF U!Types
<1>2. U!Exclusion' BY DEF U!Exclusion, U!Types, U!ThreadTypes
<1>3. U!NoDanglingReader' BY DEF U!NoDanglingReader, U!Reachable, U!SourceIsServer, U!OnTheWay, U!ShadowIsPublished, U!Types, U!MemoryTypes, U!ThreadTypes, U!Addresses
<1>4. U!CopiesShowTarget' BY DEF U!CopiesShowTarget, U!OnTheWay, U!Types, U!MemoryTypes, U!ThreadTypes, U!Addresses
<1>5. U!SourceIsServer' BY DEF U!SourceIsServer, U!OnTheWay
<1>6. U!OnTheWay' BY DEF U!OnTheWay, U!Types, U!MemoryTypes, U!ThreadTypes, U!Exclusion, U!SourceIsServer, U!ShadowIsPublished, U!Quiescent, U!Addresses
<1>7. U!ShadowIsPublished' BY DEF U!ShadowIsPublished, U!Quiescent, U!OnTheWay, U!Types, U!MemoryTypes, U!FlagTypes, U!ThreadTypes
<1> QED BY <1>1, <1>2, <1>3, <1>4, <1>5, <1>6, <1>7

LEMMA HostChangesPreserves ==
  ASSUME U!IInv, NEW m \in Mappings, U!HostChanges(m)
  PROVE  U!IInv'
<1> USE SetsAssumption, ValueAssumption DEF U!IInv, U!HostChanges, U!Disturbed, U!memoryVars, U!stateVars, U!threadVars, U!hostVars
<1>1. U!Types'
  <2>1. U!MemoryTypes'
    <3>1. (uSlot \in U!Addresses \cup {None})' BY DEF U!Types, U!MemoryTypes, U!ThreadTypes, U!Addresses
    <3>2. (uBit \in [U!Addresses -> BOOLEAN])' BY DEF U!Types, U!MemoryTypes, U!ThreadTypes, U!Addresses
    <3>3. (uRest \in [U!Addresses -> Nat])' BY DEF U!Types, U!MemoryTypes, U!ThreadTypes, U!Addresses
    <3>4. (uCopy \in [Copies -> {"free", "private", "published"}])' BY DEF U!Types, U!MemoryTypes, U!ThreadTypes, U!Addresses
    <3>5. (uPointer \in [Readers -> U!Addresses \cup {None}])' BY DEF U!Types, U!MemoryTypes, U!ThreadTypes, U!Addresses
    <3> QED BY <3>1, <3>2, <3>3, <3>4, <3>5 DEF U!MemoryTypes
  <2>2. U!CountTypes' BY DEF U!Types, U!CountTypes
  <2>3. U!FlagTypes' BY DEF U!Types, U!FlagTypes
  <2>4. U!ThreadTypes' BY DEF U!Types, U!MemoryTypes, U!ThreadTypes, U!Addresses
  <2> QED BY <2>1, <2>2, <2>3, <2>4 DEF U!Types
<1>2. U!Exclusion' BY DEF U!Exclusion, U!Types, U!ThreadTypes
<1>3. U!NoDanglingReader' BY DEF U!NoDanglingReader, U!Reachable, U!SourceIsServer, U!OnTheWay, U!ShadowIsPublished, U!Types, U!MemoryTypes, U!ThreadTypes, U!Addresses
<1>4. U!CopiesShowTarget' BY DEF U!CopiesShowTarget, U!OnTheWay, U!Types, U!MemoryTypes, U!ThreadTypes, U!Addresses
<1>5. U!SourceIsServer' BY DEF U!SourceIsServer, U!OnTheWay
<1>6. U!OnTheWay' BY DEF U!OnTheWay, U!Types, U!MemoryTypes, U!ThreadTypes, U!Exclusion, U!SourceIsServer, U!ShadowIsPublished, U!Quiescent, U!Addresses
<1>7. U!ShadowIsPublished' BY DEF U!ShadowIsPublished, U!Quiescent, U!OnTheWay, U!Types, U!MemoryTypes, U!FlagTypes, U!ThreadTypes
<1> QED BY <1>1, <1>2, <1>3, <1>4, <1>5, <1>6, <1>7

LEMMA HostSwitchesPreserves ==
  ASSUME U!IInv, NEW m \in Mappings, U!HostSwitches(m)
  PROVE  U!IInv'
<1> USE SetsAssumption, ValueAssumption DEF U!IInv, U!HostSwitches, U!Disturbed, U!memoryVars, U!stateVars, U!threadVars, U!hostVars
<1>1. U!Types'
  <2>1. U!MemoryTypes' BY DEF U!Types, U!MemoryTypes, U!ThreadTypes, U!Addresses
  <2>2. U!CountTypes' BY DEF U!Types, U!CountTypes
  <2>3. U!FlagTypes' BY DEF U!Types, U!FlagTypes
  <2>4. U!ThreadTypes' BY DEF U!Types, U!MemoryTypes, U!ThreadTypes, U!Addresses
  <2> QED BY <2>1, <2>2, <2>3, <2>4 DEF U!Types
<1>2. U!Exclusion' BY DEF U!Exclusion, U!Types, U!ThreadTypes
<1>3. U!NoDanglingReader' BY DEF U!NoDanglingReader, U!Reachable, U!SourceIsServer, U!OnTheWay, U!ShadowIsPublished, U!Types, U!MemoryTypes, U!ThreadTypes, U!Addresses
<1>4. U!CopiesShowTarget' BY DEF U!CopiesShowTarget, U!OnTheWay, U!Types, U!MemoryTypes, U!ThreadTypes, U!Addresses
<1>5. U!SourceIsServer' BY DEF U!SourceIsServer, U!OnTheWay
<1>6. U!OnTheWay' BY DEF U!OnTheWay, U!Types, U!MemoryTypes, U!ThreadTypes, U!Exclusion, U!SourceIsServer, U!ShadowIsPublished, U!Quiescent, U!Addresses
<1>7. U!ShadowIsPublished' BY DEF U!ShadowIsPublished, U!Quiescent, U!OnTheWay, U!Types, U!MemoryTypes, U!FlagTypes, U!ThreadTypes
<1> QED BY <1>1, <1>2, <1>3, <1>4, <1>5, <1>6, <1>7

LEMMA StutteringPreserves ==
  ASSUME U!IInv, UNCHANGED U!vars
  PROVE  U!IInv'
BY DEF U!IInv, U!vars, U!memoryVars, U!stateVars, U!threadVars, U!hostVars, U!Types, U!MemoryTypes,
       U!CountTypes, U!FlagTypes, U!ThreadTypes, U!Quiescent, U!Exclusion,
       U!NoDanglingReader, U!Reachable, U!CopiesShowTarget, U!SourceIsServer, U!OnTheWay, U!ShadowIsPublished

LEMMA EnvironmentInvariant ==
  ASSUME U!IInv, [U!Next]_(U!vars)
  PROVE  U!IInv'
<1>1. CASE UNCHANGED U!vars BY <1>1, StutteringPreserves
<1>2. CASE U!Next
  <2>1. ASSUME NEW t \in Threads, U!CallSynchronize(t) \/ U!EnterCriticalSection(t) \/ U!Critical(t)
        PROVE  U!IInv'
    BY <2>1, CallSynchronizePreserves, EnterCriticalSectionPreserves, ReadSlotPreserves,
       SameModePreserves, AllocateCopyPreserves, PublishPreserves, PublishFailsPreserves,
       RefreshRestPreserves, RefreshFlagsPreserves, LeaveCriticalSectionPreserves DEF U!Critical
  <2>2. ASSUME NEW m \in Mappings, U!HostChanges(m) \/ U!HostSwitches(m) PROVE U!IInv'
    BY <2>2, HostChangesPreserves, HostSwitchesPreserves
  <2>3. ASSUME NEW reader \in Readers, U!LoadPointer(reader) \/ U!DropPointer(reader) PROVE U!IInv'
    BY <2>3, LoadPointerPreserves, DropPointerPreserves
  <2>4. ASSUME NEW locates \in BOOLEAN, U!Initialize(locates) PROVE U!IInv'
    BY <2>4, InitializePreserves
  <2>5. CASE U!RestoreTest \/ U!RestoreWrite
    BY <2>5, RestoreTestPreserves, RestoreWritePreserves
  <2> QED BY <1>2, <2>1, <2>2, <2>3, <2>4, <2>5 DEF U!Next
<1> QED BY <1>1, <1>2

(* The other parts leave the environment alone.                              *)
LEMMA EnvironmentSteps ==
  ASSUME [MCNext]_MCVars, active' = "environment"
  PROVE  active = "environment" /\ [U!Next]_(U!vars)
BY DEF MCNext, MCVars, EnvironmentVars, U!vars, U!memoryVars, U!stateVars, U!threadVars, U!hostVars

(* Whatever the threads, USER32 and the host do, in any interleaving, IInv   *)
(* holds (Synchronize, Initialize and Restore).                              *)
THEOREM Invariance == MCSpec => [](active = "environment" => U!IInv)
<1> DEFINE Inv == active = "environment" => U!IInv
<1>1. MCInit => Inv BY InitEnvironment DEF MCInit
<1>2. Inv /\ [MCNext]_MCVars => Inv' BY EnvironmentSteps, EnvironmentInvariant
<1> QED BY <1>1, <1>2, PTL DEF MCSpec

(* No thread inside USER32 is ever left with the address of an unpublished   *)
(* or freed copy.                                                            *)
THEOREM ReadersAreSafe == MCSpec => []NoDanglingReader
<1>1. (active = "environment" => U!IInv) => NoDanglingReader BY DEF U!IInv, NoDanglingReader
<1> QED BY <1>1, Invariance, PTL

(* A published copy shows the emulated DBCS mode at every moment.            *)
THEOREM CopiesAlwaysShowTarget == MCSpec => []CopiesShowTarget
<1>1. (active = "environment" => U!IInv) => CopiesShowTarget BY DEF U!IInv, CopiesShowTarget
<1> QED BY <1>1, Invariance, PTL

(* Copies are made of server mappings of an accepted size only; types and    *)
(* mutual exclusion.                                                         *)
THEOREM SourcesAreServers ==
    MCSpec => [](active = "environment" => U!SourceIsServer /\ U!TypeOK)
<1>1. (active = "environment" => U!IInv) => (active = "environment" => U!SourceIsServer /\ U!TypeOK)
  BY DEF U!IInv, U!TypeOK
<1> QED BY <1>1, Invariance, PTL

-----------------------------------------------------------------------------
(* SynchronizedInForce, when the host does not store a mapping again that is  *)
(* copied already.                                                           *)

LEMMA InitForce == U!Init => U!ForceInv
BY SetsAssumption DEF U!Init, U!ForceInv, U!MappingIsCopied, U!WorkIsPresent, U!Original

(* What Original is when nobody publishes and no copy is put in or taken out. *)
LEMMA OriginalStays ==
  ASSUME UNCHANGED << uSlot, uSource, uShadow >>
  PROVE  U!Original' = U!Original
BY DEF U!Original

(* The steps in which a thread goes on and changes its own done only.        *)
LEMMA MappingStays ==
  ASSUME U!MappingIsCopied, UNCHANGED << uSlot, uSource, uShadow, uLockReady >>
  PROVE  U!MappingIsCopied'
BY DEF U!MappingIsCopied

LEMMA WorkStays ==
  ASSUME U!IInv, U!ForceInv, UNCHANGED << uSlot, uSource, uShadow, uBit, uRest, uOriginal, uFresh, uDone, uPc >>
  PROVE  \A t \in Threads : U!WorkIsPresent(t)'
<1>1. U!Original' = U!Original BY OriginalStays
<1> QED BY <1>1 DEF U!ForceInv, U!WorkIsPresent

LEMMA OutsideForce ==
  ASSUME U!IInv, U!ForceInv,
         \/ \E locates \in BOOLEAN : U!Initialize(locates)
         \/ U!RestoreTest \/ U!RestoreWrite
         \/ \E r \in Readers : U!LoadPointer(r) \/ U!DropPointer(r)
         \/ \E m \in Mappings : U!HostChanges(m)
         \/ UNCHANGED U!vars
  PROVE  U!ForceInv'
<1> USE DEF U!ForceInv, U!memoryVars, U!stateVars, U!threadVars, U!hostVars
<1>1. CASE \E locates \in BOOLEAN : U!Initialize(locates)
  <2>1. uShadow' = None /\ \A t \in Threads : uPc'[t] = "out"
    BY <1>1 DEF U!Initialize, U!IInv, U!ShadowIsPublished, U!Quiescent
  <2> QED BY <2>1 DEF U!MappingIsCopied, U!WorkIsPresent
<1>2. CASE U!RestoreTest
  <2>1. \A t \in Threads : uPc'[t] = "out" BY <1>2 DEF U!RestoreTest, U!Quiescent
  <2>2. U!MappingIsCopied' BY <1>2 DEF U!RestoreTest, U!MappingIsCopied
  <2> QED BY <2>1, <2>2 DEF U!WorkIsPresent
<1>3. CASE U!RestoreWrite
  <2>1. ~uLockReady' /\ \A t \in Threads : uPc'[t] = "out"
    BY <1>3 DEF U!RestoreWrite, U!IInv, U!ShadowIsPublished, U!Quiescent
  <2> QED BY <2>1 DEF U!MappingIsCopied, U!WorkIsPresent
<1>4. CASE \E r \in Readers : U!LoadPointer(r) \/ U!DropPointer(r)
  BY <1>4, WorkStays, MappingStays DEF U!LoadPointer, U!DropPointer
<1>5. CASE \E m \in Mappings : U!HostChanges(m)
  <2>1. \A t \in Threads : ~uDone'[t] BY <1>5 DEF U!HostChanges, U!Disturbed
  <2>2. U!MappingIsCopied' BY <1>5, MappingStays DEF U!HostChanges
  <2> QED BY <2>1, <2>2 DEF U!WorkIsPresent
<1>6. CASE UNCHANGED U!vars BY <1>6, WorkStays, MappingStays DEF U!vars
<1> QED BY <1>1, <1>2, <1>3, <1>4, <1>5, <1>6

LEMMA SwitchForce ==
  ASSUME U!IInv, U!ForceInv, ~HostReturns, NEW m \in Mappings, U!HostSwitches(m)
  PROVE  U!ForceInv'
<1>1. \A t \in Threads : ~uDone'[t] BY DEF U!HostSwitches, U!Disturbed
<1>2. uSlot' # uSource' BY DEF U!HostSwitches, U!stateVars
<1> QED BY <1>1, <1>2 DEF U!ForceInv, U!WorkIsPresent, U!MappingIsCopied

(* The thread in the critical section is alone there.                        *)
LEMMA OthersAreOutside ==
  ASSUME U!IInv, NEW t \in Threads, uPc[t] \notin {"out", "enter"}
  PROVE  /\ \A s \in Threads : s # t => uPc[s] \in {"out", "enter"}
         /\ uLockReady /\ ~uRestoring
BY DEF U!IInv, U!Exclusion, U!ShadowIsPublished, U!Quiescent

(* Its steps disturb no other thread.                                        *)
LEMMA AloneForce ==
  ASSUME U!IInv, U!ForceInv, NEW t \in Threads, uPc[t] \notin {"out", "enter"},
         \A s \in Threads : s # t => uPc'[s] = uPc[s] /\ uDone'[s] = uDone[s],
         U!MappingIsCopied', U!WorkIsPresent(t)'
  PROVE  U!ForceInv'
<1>1. \A s \in Threads : s # t => U!WorkIsPresent(s)'
  BY OthersAreOutside DEF U!ForceInv, U!WorkIsPresent
<1> QED BY <1>1 DEF U!ForceInv

LEMMA CriticalForce ==
  ASSUME U!IInv, U!ForceInv, NEW t \in Threads, U!Critical(t)
  PROVE  U!ForceInv'
<1> USE DEF U!memoryVars, U!stateVars, U!threadVars, U!hostVars, U!Step
<1>1. uPc \in [Threads -> {"out", "enter", "read", "flags", "publish", "refresh", "leave"}]
      /\ uDone \in [Threads -> BOOLEAN] /\ uOriginal \in [Threads -> U!Addresses \cup {None}]
      /\ uFresh \in [Threads -> Copies \cup {None}] /\ uBit \in [U!Addresses -> BOOLEAN]
      /\ uRest \in [U!Addresses -> Nat] /\ uShadow \in Copies \cup {None} /\ uCopy \in [Copies -> {"free", "private", "published"}]
  BY DEF U!IInv, U!Types, U!ThreadTypes, U!MemoryTypes
<1>2. uPc[t] \notin {"out", "enter"}
  BY DEF U!Critical, U!ReadSlot, U!SameMode, U!AllocateCopy, U!Publish, U!PublishFails, U!RefreshRest,
         U!RefreshFlags, U!LeaveCriticalSection
<1>3. \A s \in Threads : s # t => uPc'[s] = uPc[s] /\ uDone'[s] = uDone[s]
  BY <1>1 DEF U!Critical, U!ReadSlot, U!SameMode, U!AllocateCopy, U!Publish, U!PublishFails, U!RefreshRest,
         U!RefreshFlags, U!LeaveCriticalSection
<1>4. uLockReady /\ U!MappingIsCopied /\ U!WorkIsPresent(t) BY <1>2, OthersAreOutside DEF U!ForceInv
<1>5. CASE U!ReadSlot(t)
  <2>1. U!MappingIsCopied' BY <1>4, <1>5, MappingStays DEF U!ReadSlot
  <2>2. U!Original' = U!Original BY <1>5, OriginalStays DEF U!ReadSlot
  <2>3. U!WorkIsPresent(t)' BY <1>1, <1>4, <1>5, <2>2 DEF U!ReadSlot, U!WorkIsPresent
  <2> QED BY <1>2, <1>3, <2>1, <2>3, AloneForce
<1>6. CASE U!SameMode(t)
  <2>1. U!MappingIsCopied' BY <1>6 DEF U!SameMode, U!MappingIsCopied
  <2>2. uDone[t] => uSlot = uOriginal[t] BY <1>4, <1>6 DEF U!SameMode, U!WorkIsPresent, U!Original
  <2>3. U!WorkIsPresent(t)' BY <1>1, <1>4, <1>6, <2>2 DEF U!SameMode, U!WorkIsPresent
  <2> QED BY <1>2, <1>3, <2>1, <2>3, AloneForce
<1>7. CASE U!AllocateCopy(t)
  <2>1. U!MappingIsCopied' BY <1>4, <1>7, MappingStays DEF U!AllocateCopy
  <2>2. uOriginal[t] \in Mappings BY <1>7 DEF U!IInv, U!OnTheWay, U!AllocateCopy
  <2>3. U!WorkIsPresent(t)'
    <3>1. CASE uPc'[t] = "leave" /\ uDone' = [uDone EXCEPT ![t] = FALSE] BY <1>1, <3>1 DEF U!WorkIsPresent
    <3>2. CASE uPc'[t] = "publish"
      <4>1. PICK c \in Copies : /\ uFresh' = [uFresh EXCEPT ![t] = c]
                                /\ uRest' = [uRest EXCEPT ![c] = uRest[uOriginal[t]]]
                                /\ uDone' = uDone
        BY <1>1, <1>7, <3>2 DEF U!AllocateCopy
      <4>2. c # uOriginal[t] /\ c \in U!Addresses /\ uOriginal'[t] = uOriginal[t] /\ uSlot' = uSlot
        BY <1>7, <2>2, SetsAssumption DEF U!AllocateCopy, U!Addresses
      <4>3. uRest'[uFresh'[t]] = uRest'[uOriginal'[t]] BY <1>1, <4>1, <4>2
      <4>4. uPc[t] = "flags" BY <1>7 DEF U!AllocateCopy
      <4> QED BY <1>4, <3>2, <4>1, <4>2, <4>3, <4>4 DEF U!WorkIsPresent
    <3> QED BY <1>1, <1>7, <3>1, <3>2 DEF U!AllocateCopy
  <2> QED BY <1>2, <1>3, <2>1, <2>3, AloneForce
<1>8. CASE U!Publish(t)
  <2>1. uFresh[t] \in Copies /\ uBit[uFresh[t]] = Dbcs /\ uOriginal[t] \in Mappings
    BY <1>8 DEF U!IInv, U!OnTheWay, U!Publish
  <2>2. uSlot' = uFresh[t] /\ uSource' = uOriginal[t] /\ UNCHANGED << uBit, uRest, uFresh, uOriginal, uDone >>
        /\ uPc' = [uPc EXCEPT ![t] = "leave"]
    BY <1>8 DEF U!Publish
  <2>3. U!MappingIsCopied' BY <2>1, <2>2, SetsAssumption DEF U!MappingIsCopied
  <2>4. U!WorkIsPresent(t)' BY <1>1, <1>4, <1>8, <2>1, <2>2, SetsAssumption DEF U!WorkIsPresent, U!Publish
  <2> QED BY <1>2, <1>3, <2>3, <2>4, AloneForce
<1>9. CASE U!PublishFails(t)
  <2>1. U!MappingIsCopied' BY <1>4, <1>9, MappingStays DEF U!PublishFails
  <2>2. U!WorkIsPresent(t)' BY <1>1, <1>9 DEF U!PublishFails, U!WorkIsPresent
  <2> QED BY <1>2, <1>3, <2>1, <2>2, AloneForce
<1>10. CASE U!RefreshRest(t)
  <2>1. U!MappingIsCopied' BY <1>4, <1>10, MappingStays DEF U!RefreshRest
  <2>2. uShadow \in Copies /\ uSource = uOriginal[t] /\ uOriginal[t] \in Mappings /\ uRest' = [uRest EXCEPT ![uShadow] = uRest[uSource]]
    BY <1>1, <1>10 DEF U!RefreshRest, U!NeedsCopy, U!IInv, U!OnTheWay
  <2>3. uRest'[uShadow] = uRest[uSource] /\ uRest'[uSource] = uRest[uSource]
    BY <1>1, <2>2, SetsAssumption DEF U!Addresses
  <2>4. uDone[t] => uSlot = uShadow
    BY <1>4, <1>10, <2>2, SetsAssumption DEF U!MappingIsCopied, U!WorkIsPresent, U!Original, U!RefreshRest
  <2>5. U!WorkIsPresent(t)' BY <1>1, <1>4, <1>10, <2>3, <2>4 DEF U!RefreshRest, U!WorkIsPresent
  <2> QED BY <1>2, <1>3, <2>1, <2>5, AloneForce
<1>11. CASE U!RefreshFlags(t)
  <2>1. U!MappingIsCopied' BY <1>4, <1>11, MappingStays DEF U!RefreshFlags
  <2>2. uShadow \in Copies BY <1>1, <1>11 DEF U!RefreshFlags, U!IInv, U!OnTheWay
  <2>3. U!WorkIsPresent(t)' BY <1>1, <1>4, <1>11, <2>2 DEF U!RefreshFlags, U!WorkIsPresent, U!Addresses
  <2> QED BY <1>2, <1>3, <2>1, <2>3, AloneForce
<1>12. CASE U!LeaveCriticalSection(t)
  <2>1. U!MappingIsCopied' BY <1>4, <1>12, MappingStays DEF U!LeaveCriticalSection
  <2>2. U!WorkIsPresent(t)' BY <1>1, <1>12 DEF U!LeaveCriticalSection, U!WorkIsPresent
  <2> QED BY <1>2, <1>3, <2>1, <2>2, AloneForce
<1> QED BY <1>5, <1>6, <1>7, <1>8, <1>9, <1>10, <1>11, <1>12 DEF U!Critical

LEMMA EnterForce ==
  ASSUME U!IInv, U!ForceInv, NEW t \in Threads, U!CallSynchronize(t) \/ U!EnterCriticalSection(t)
  PROVE  U!ForceInv'
<1> USE DEF U!memoryVars, U!stateVars, U!threadVars, U!hostVars, U!Step
<1>1. UNCHANGED << uSlot, uSource, uShadow, uLockReady, uBit, uRest, uOriginal, uFresh >>
  BY DEF U!CallSynchronize, U!EnterCriticalSection
<1>2. U!MappingIsCopied' /\ U!Original' = U!Original BY <1>1, MappingStays, OriginalStays DEF U!ForceInv
<1>3. uPc'[t] \in {"enter", "read"} /\ ~uDone'[t]
  BY DEF U!CallSynchronize, U!EnterCriticalSection, U!IInv, U!Types, U!ThreadTypes, U!ForceInv, U!WorkIsPresent
<1>4. \A s \in Threads : s # t => uPc'[s] = uPc[s] /\ uDone'[s] = uDone[s]
  BY DEF U!CallSynchronize, U!EnterCriticalSection, U!IInv, U!Types, U!ThreadTypes
<1>5. U!WorkIsPresent(t)' BY <1>3 DEF U!WorkIsPresent
<1>6. \A s \in Threads : s # t => U!WorkIsPresent(s)' BY <1>1, <1>2, <1>4 DEF U!ForceInv, U!WorkIsPresent
<1> QED BY <1>2, <1>5, <1>6 DEF U!ForceInv

LEMMA EnvironmentForce ==
  ASSUME ~HostReturns, U!IInv, U!ForceInv, [U!Next]_(U!vars)
  PROVE  U!ForceInv'
<1>1. ASSUME NEW t \in Threads, U!CallSynchronize(t) \/ U!EnterCriticalSection(t) \/ U!Critical(t)
      PROVE  U!ForceInv'
  BY <1>1, CriticalForce, EnterForce
<1>2. ASSUME NEW m \in Mappings, U!HostChanges(m) \/ U!HostSwitches(m) PROVE U!ForceInv'
  BY <1>2, OutsideForce, SwitchForce
<1> QED BY <1>1, <1>2, OutsideForce DEF U!Next

(* As long as the host does not store the mapping again of which there is a  *)
(* copy: whatever it, USER32 and the other threads do, a thread that leaves  *)
(* Synchronize with its work done and undisturbed leaves the target's DBCS   *)
(* mode and everything else up to date in force (SyncUser32Environment).     *)
THEOREM SynchronizedStaysInForce == ~HostReturns => (MCSpec => []SynchronizedInForce)
<1> SUFFICES ASSUME ~HostReturns PROVE MCSpec => []SynchronizedInForce
  OBVIOUS
<1> DEFINE Inv == active = "environment" => U!IInv
           Stays == active = "environment" => U!ForceInv
<1>1. MCInit => Stays BY InitForce DEF MCInit
<1>2. Inv /\ Stays /\ [MCNext]_MCVars => Stays' BY EnvironmentSteps, EnvironmentForce
<1>3. Stays => SynchronizedInForce
  BY DEF U!ForceInv, U!WorkIsPresent, U!SynchronizedInForce, SynchronizedInForce
<1> QED BY <1>1, <1>2, <1>3, Invariance, PTL DEF MCSpec
-----------------------------------------------------------------------------
(* Positions in texts.  The least and the greatest of some of them.          *)
LEMMA GreatestPosition ==
  ASSUME NEW n \in Nat, NEW J \in SUBSET (0 .. n), J # {}
  PROVE  \E k \in J : \A j \in J : j <= k
<1> DEFINE D == {n - i : i \in J}
<1>1. D \in SUBSET Nat /\ D # {}
  <2>1. \A i \in J : n - i \in Nat OBVIOUS
  <2> QED BY <2>1
<1>2. PICK d \in D : \A e \in D : d <= e BY <1>1, LeastIndex
<1>3. PICK k \in J : d = n - k BY <1>2
<1>4. \A j \in J : n - k <= n - j BY <1>2, <1>3
<1> QED BY <1>4

Least(I) == CHOOSE x \in I : \A y \in I : x <= y
Greatest(I) == CHOOSE x \in I : \A y \in I : x >= y

LEMMA LeastIs ==
  ASSUME NEW I \in SUBSET Nat, I # {}
  PROVE  Least(I) \in I /\ \A j \in I : Least(I) <= j
BY LeastIndex DEF Least

LEMMA GreatestIs ==
  ASSUME NEW n \in Nat, NEW I \in SUBSET (0 .. n), I # {}
  PROVE  Greatest(I) \in I /\ \A j \in I : j <= Greatest(I)
<1>1. PICK k \in I : \A j \in I : j <= k BY GreatestPosition
<1>2. \A j \in I : k >= j BY <1>1
<1> QED BY <1>2 DEF Greatest

LEMMA OfTwo ==
  ASSUME NEW a \in Int, NEW b \in Int
  PROVE  /\ Least({a, b}) = IF a <= b THEN a ELSE b
         /\ Greatest({a, b}) = IF a >= b THEN a ELSE b
<1>1. \A x \in {a, b} : (\A y \in {a, b} : x <= y) <=> x = IF a <= b THEN a ELSE b OBVIOUS
<1>2. \A x \in {a, b} : (\A y \in {a, b} : x >= y) <=> x = IF a >= b THEN a ELSE b OBVIOUS
<1> QED BY <1>1, <1>2 DEF Least, Greatest

(* The bytes of a text, whose double-byte characters are those equal to d.   *)
Count(t, d) == Len(t) + Cardinality({i \in DOMAIN t : t[i] = d})
Upto(t, k) == SubSeq(t, 1, k)

LEMMA FrontIs ==
  ASSUME NEW T, NEW t \in Seq(T), NEW k \in 0 .. Len(t)
  PROVE  /\ Upto(t, k) \in Seq(T) /\ Len(Upto(t, k)) = k
         /\ \A i \in 1 .. k : Upto(t, k)[i] = t[i]
         /\ Len(t) \in Nat /\ k \in Nat
BY DEF Upto

LEMMA WholeFront ==
  ASSUME NEW T, NEW t \in Seq(T)
  PROVE  Upto(t, Len(t)) = t /\ Len(t) \in 0 .. Len(t) /\ 0 \in 0 .. Len(t)
BY DEF Upto

LEMMA FrontOfFront ==
  ASSUME NEW T, NEW t \in Seq(T), NEW c \in 0 .. Len(t), NEW k \in 0 .. c
  PROVE  Upto(Upto(t, c), k) = Upto(t, k)
BY DEF Upto

DoublesTo(t, d, k) == {i \in 1 .. k : t[i] = d}
LEMMA FrontCounts ==
  ASSUME NEW T, NEW t \in Seq(T), NEW d, NEW k \in 0 .. Len(t)
  PROVE  /\ Count(Upto(t, k), d) = k + Cardinality(DoublesTo(t, d, k))
         /\ Cardinality(DoublesTo(t, d, k)) \in Nat /\ Cardinality(DoublesTo(t, d, k)) <= k
         /\ IsFiniteSet(DoublesTo(t, d, k)) /\ k \in Nat
<1>1. /\ Upto(t, k) \in Seq(T) /\ Len(Upto(t, k)) = k /\ k \in Nat
      /\ \A i \in 1 .. k : Upto(t, k)[i] = t[i]
  BY FrontIs
<1>2. {i \in DOMAIN Upto(t, k) : Upto(t, k)[i] = d} = DoublesTo(t, d, k)
  <2>1. DOMAIN Upto(t, k) = 1 .. k BY <1>1
  <2> QED BY <1>1, <2>1 DEF DoublesTo
<1>3. IsFiniteSet(1 .. k) /\ Cardinality(1 .. k) = k BY <1>1, FS_Interval
<1>4. DoublesTo(t, d, k) \in SUBSET (1 .. k) BY DEF DoublesTo
<1>5. IsFiniteSet(DoublesTo(t, d, k)) /\ Cardinality(DoublesTo(t, d, k)) <= k BY <1>3, <1>4, FS_Subset
<1> QED BY <1>1, <1>2, <1>5, FS_CardinalityType DEF Count

LEMMA FrontsGrow ==
  ASSUME NEW T, NEW t \in Seq(T), NEW d, NEW j \in 0 .. Len(t), NEW k \in 0 .. Len(t), j < k
  PROVE  Count(Upto(t, j), d) < Count(Upto(t, k), d)
<1>1. j \in Nat /\ k \in Nat BY FrontCounts
<1>2. DoublesTo(t, d, j) \in SUBSET DoublesTo(t, d, k) BY <1>1 DEF DoublesTo
<1>3. Cardinality(DoublesTo(t, d, j)) <= Cardinality(DoublesTo(t, d, k)) BY <1>2, FrontCounts, FS_Subset
<1> QED BY <1>3, FrontCounts

LEMMA CountsAre ==
  ASSUME NEW T, NEW t \in Seq(T), NEW d
  PROVE  /\ Count(t, d) \in Nat /\ Len(t) \in Nat /\ Len(t) <= Count(t, d) /\ Count(t, d) <= 2 * Len(t)
         /\ \A k \in 0 .. Len(t) : Count(Upto(t, k), d) \in Nat /\ Count(Upto(t, k), d) <= Count(t, d)
         /\ Count(Upto(t, 0), d) = 0
<1>1. Len(t) \in Nat /\ Upto(t, Len(t)) = t /\ Len(t) \in 0 .. Len(t) BY WholeFront, FrontIs
<1>2. Count(t, d) \in Nat /\ Len(t) <= Count(t, d) /\ Count(t, d) <= 2 * Len(t) BY <1>1, FrontCounts
<1>3. ASSUME NEW k \in 0 .. Len(t)
      PROVE  Count(Upto(t, k), d) \in Nat /\ Count(Upto(t, k), d) <= Count(t, d)
  <2>1. Count(Upto(t, k), d) \in Nat BY FrontCounts
  <2>2. k < Len(t) => Count(Upto(t, k), d) < Count(Upto(t, Len(t)), d) BY <1>1, FrontsGrow
  <2> QED BY <1>1, <1>2, <2>1, <2>2
<1>4. Count(Upto(t, 0), d) = 0 BY <1>1, FrontCounts
<1> QED BY <1>1, <1>2, <1>3, <1>4

(* The character at which so many bytes are reached, and the last one up to  *)
(* which the text fits into so many.                                         *)
Reach(t, d, b) == Least({k \in 0 .. Len(t) : Count(Upto(t, k), d) >= Least({b, Count(t, d)})})
Fit(t, d, b) == Greatest({k \in 0 .. Len(t) : Count(Upto(t, k), d) <= b})

LEMMA ReachIs ==
  ASSUME NEW T, NEW t \in Seq(T), NEW d, NEW b \in Nat
  PROVE  /\ Reach(t, d, b) \in 0 .. Len(t)
         /\ \A k \in 0 .. Len(t) : b = Count(Upto(t, k), d) => Reach(t, d, b) = k
         /\ b >= Count(t, d) => Reach(t, d, b) = Len(t)
<1> DEFINE m == Least({b, Count(t, d)})
           I == {k \in 0 .. Len(t) : Count(Upto(t, k), d) >= m}
<1>1. /\ Count(t, d) \in Nat /\ Len(t) \in Nat /\ Upto(t, Len(t)) = t /\ Len(t) \in 0 .. Len(t)
      /\ \A k \in 0 .. Len(t) : Count(Upto(t, k), d) \in Nat /\ Count(Upto(t, k), d) <= Count(t, d)
  BY CountsAre, WholeFront
<1>2. m \in Nat /\ m <= Count(t, d) /\ (b <= Count(t, d) => m = b) /\ (b >= Count(t, d) => m = Count(t, d))
  BY <1>1, OfTwo
<1> HIDE DEF m
<1>3. Len(t) \in I BY <1>1, <1>2
<1>4. I \in SUBSET Nat BY <1>1
<1>5. Least(I) \in I /\ \A j \in I : Least(I) <= j BY <1>3, <1>4, LeastIs
<1>6. Reach(t, d, b) = Least(I) BY DEF Reach, m
<1> DEFINE r == Reach(t, d, b)
<1>7. r \in 0 .. Len(t) /\ Count(Upto(t, r), d) >= m /\ \A j \in I : r <= j BY <1>5, <1>6
<1> HIDE DEF r
<1>8. ASSUME NEW k \in 0 .. Len(t), m = Count(Upto(t, k), d) PROVE r = k
  <2>1. k \in I BY <1>1, <1>8
  <2>2. r <= k BY <1>7, <2>1
  <2>3. r < k => Count(Upto(t, r), d) < Count(Upto(t, k), d) BY <1>7, FrontsGrow
  <2>4. Count(Upto(t, r), d) \in Nat BY <1>1, <1>7
  <2> QED BY <1>1, <1>7, <1>8, <2>2, <2>3, <2>4
<1>9. \A k \in 0 .. Len(t) : b = Count(Upto(t, k), d) => r = k BY <1>1, <1>2, <1>8
<1>10. b >= Count(t, d) => r = Len(t) BY <1>1, <1>2, <1>8
<1> QED BY <1>7, <1>9, <1>10 DEF r

LEMMA FitIs ==
  ASSUME NEW T, NEW t \in Seq(T), NEW d, NEW b \in Nat
  PROVE  /\ Fit(t, d, b) \in 0 .. Len(t) /\ Count(Upto(t, Fit(t, d, b)), d) \in Nat
         /\ Count(Upto(t, Fit(t, d, b)), d) <= b
         /\ \A k \in 0 .. Len(t) : b = Count(Upto(t, k), d) => Fit(t, d, b) = k
         /\ b >= Count(t, d) => Fit(t, d, b) = Len(t)
<1> DEFINE I == {k \in 0 .. Len(t) : Count(Upto(t, k), d) <= b}
           f == Fit(t, d, b)
<1>1. /\ Count(t, d) \in Nat /\ Len(t) \in Nat /\ Upto(t, Len(t)) = t /\ Len(t) \in 0 .. Len(t)
      /\ \A k \in 0 .. Len(t) : Count(Upto(t, k), d) \in Nat /\ Count(Upto(t, k), d) <= Count(t, d)
      /\ Count(Upto(t, 0), d) = 0
  BY CountsAre, WholeFront
<1>2. 0 \in I BY <1>1
<1>3. Greatest(I) \in I /\ \A j \in I : j <= Greatest(I) BY <1>1, <1>2, GreatestIs
<1>4. f \in 0 .. Len(t) /\ Count(Upto(t, f), d) <= b /\ \A j \in I : j <= f BY <1>3 DEF Fit
<1> HIDE DEF f
<1>5. ASSUME NEW k \in 0 .. Len(t), b = Count(Upto(t, k), d) PROVE f = k
  <2>1. k \in I BY <1>1, <1>5
  <2>2. k <= f BY <1>4, <2>1
  <2>3. k < f => Count(Upto(t, k), d) < Count(Upto(t, f), d) BY <1>4, FrontsGrow
  <2>4. Count(Upto(t, f), d) \in Nat BY <1>1, <1>4
  <2> QED BY <1>1, <1>4, <1>5, <2>2, <2>3, <2>4
<1>6. b >= Count(t, d) => f = Len(t)
  <2>1. b >= Count(t, d) => Len(t) \in I BY <1>1
  <2> QED BY <1>1, <1>4, <2>1
<1> QED BY <1>1, <1>4, <1>5, <1>6 DEF f

-----------------------------------------------------------------------------
(* Messages.  Texts of characters of one or two bytes.                       *)
Widths == Seq({1, 2})

LEMMA SameSizes == \A I : M!Cardinality(I) = Cardinality(I) /\ E!Cardinality(I) = Cardinality(I)
BY DEF M!Cardinality, E!Cardinality, Cardinality

LEMMA TextsAre ==
  ASSUME NEW t \in M!Texts
  PROVE  t \in Widths /\ Len(t) \in Nat /\ Len(t) <= MessageText
<1>1. PICK n \in 0 .. MessageText : t \in [1 .. n -> {1, 2}] BY DEF M!Texts
<1>2. n \in Nat /\ n <= MessageText BY BoundAssumption
<1>3. t \in Seq({1, 2}) /\ Len(t) = n BY <1>1, <1>2
<1> QED BY <1>2, <1>3 DEF Widths

LEMMA WidthsCount ==
  /\ \A t : M!Bytes(t) = Count(t, 2)
  /\ \A t, k : M!Prefix(t, k) = Upto(t, k)
  /\ \A t, b : M!CharsIn(t, b) = Reach(t, 2, b) /\ M!FitsIn(t, b) = Fit(t, 2, b)
  /\ \A I : M!Min(I) = Least(I) /\ M!Max(I) = Greatest(I)
<1>1. \A I : M!Min(I) = Least(I) /\ M!Max(I) = Greatest(I) BY DEF M!Min, M!Max, Least, Greatest
<1>2. \A t : M!Bytes(t) = Count(t, 2) BY SameSizes DEF M!Bytes, Count
<1>3. \A t, k : M!Prefix(t, k) = Upto(t, k) BY DEF M!Prefix, Upto
<1>4. \A t, b : M!CharsIn(t, b) = Reach(t, 2, b) BY <1>1, <1>2, <1>3 DEF M!CharsIn, Reach
<1>5. \A t, b : M!FitsIn(t, b) = Fit(t, 2, b) BY <1>1, <1>2, <1>3 DEF M!FitsIn, Fit
<1> QED BY <1>1, <1>2, <1>3, <1>4, <1>5

LEMMA MinOfTwo ==
  ASSUME NEW a \in Int, NEW b \in Int
  PROVE  /\ M!Min({a, b}) = IF a <= b THEN a ELSE b
         /\ M!Max({a, b}) = IF a >= b THEN a ELSE b
BY OfTwo, WidthsCount

LEMMA BytesAre ==
  ASSUME NEW t \in Widths
  PROVE  /\ M!Bytes(t) \in Nat /\ Len(t) \in Nat /\ Len(t) <= M!Bytes(t) /\ M!Bytes(t) <= 2 * Len(t)
         /\ M!Prefix(t, Len(t)) = t /\ Len(t) \in 0 .. Len(t)
BY CountsAre, WholeFront, WidthsCount DEF Widths

LEMMA PrefixIs ==
  ASSUME NEW t \in Widths, NEW c \in 0 .. Len(t)
  PROVE  /\ M!Prefix(t, c) \in Widths /\ Len(M!Prefix(t, c)) = c
         /\ \A k \in 0 .. c : M!Prefix(M!Prefix(t, c), k) = M!Prefix(t, k)
BY FrontIs, FrontOfFront, WidthsCount DEF Widths

(* The conversions of a whole text take it whole; no other takes more.       *)
LEMMA CharsInText ==
  ASSUME NEW t \in Widths, NEW bytes \in Nat
  PROVE  M!CharsIn(t, bytes) \in 0 .. Len(t) /\ M!CharsIn(t, M!Bytes(t)) = Len(t)
BY ReachIs, BytesAre, WidthsCount DEF Widths

LEMMA FitsInText ==
  ASSUME NEW t \in Widths, NEW b \in Nat
  PROVE  /\ M!FitsIn(t, b) \in 0 .. Len(t) /\ M!Bytes(M!Prefix(t, M!FitsIn(t, b))) \in Nat
         /\ M!Bytes(M!Prefix(t, M!FitsIn(t, b))) <= b
         /\ M!Bytes(t) <= b => M!Bytes(M!Prefix(t, M!FitsIn(t, b))) = M!Bytes(t)
<1>1. M!Bytes(t) <= b => M!FitsIn(t, b) = Len(t) BY FitIs, BytesAre, WidthsCount DEF Widths
<1>2. /\ M!FitsIn(t, b) \in 0 .. Len(t) /\ M!Bytes(M!Prefix(t, M!FitsIn(t, b))) \in Nat
      /\ M!Bytes(M!Prefix(t, M!FitsIn(t, b))) <= b
  BY FitIs, WidthsCount DEF Widths
<1> QED BY <1>1, <1>2, BytesAre

(* What a thunk leaves in the buffer: never more than its size, and the whole*)
(* text with its end where there is room.                                    *)
Written(fill) == fill.units + (IF fill.ended THEN 1 ELSE 0)
WithinSize(fill, size) == fill.units \in Nat /\ Written(fill) <= size
Whole(length) == [units |-> length, ended |-> TRUE, ret |-> length]

LEMMA AnsiToUnicodeFills ==
  ASSUME NEW size \in Nat, NEW t \in Widths, NEW bytes \in Nat
  PROVE  /\ WithinSize(M!AnsiToUnicode(size, t, bytes), size)
         /\ Len(t) < size => M!AnsiToUnicode(size, t, M!Bytes(t)) = Whole(Len(t))
<1>1. /\ \A b \in Nat : M!CharsIn(t, b) \in 0 .. Len(t) /\ M!CharsIn(t, M!Bytes(t)) = Len(t)
      /\ Len(t) \in Nat /\ M!Bytes(t) \in Nat
  BY CharsInText, BytesAre
<1>2. WithinSize(M!AnsiToUnicode(size, t, bytes), size)
  <2> DEFINE n == M!CharsIn(t, bytes)
  <2>1. n \in Nat BY <1>1
  <2> HIDE DEF n
  <2> DEFINE m == M!Min({n, size})
  <2>2. m \in Nat /\ m <= size BY <2>1, MinOfTwo
  <2>3. M!AnsiToUnicode(size, t, bytes) = [units |-> m, ended |-> m < size, ret |-> m]
    BY DEF M!AnsiToUnicode, n
  <2> HIDE DEF m
  <2>4. CASE m < size
    <3>1. M!AnsiToUnicode(size, t, bytes) = [units |-> m, ended |-> TRUE, ret |-> m] BY <2>3, <2>4
    <3> QED BY <2>2, <2>4, <3>1 DEF WithinSize, Written
  <2>5. CASE ~(m < size)
    <3>1. (m < size) = FALSE BY <2>5
    <3>2. M!AnsiToUnicode(size, t, bytes) = [units |-> m, ended |-> FALSE, ret |-> m] BY <2>3, <3>1
    <3> QED BY <2>2, <2>5, <3>2 DEF WithinSize, Written
  <2> QED BY <2>4, <2>5
<1>3. Len(t) < size => M!AnsiToUnicode(size, t, M!Bytes(t)) = Whole(Len(t))
  <2> SUFFICES ASSUME Len(t) < size PROVE M!AnsiToUnicode(size, t, M!Bytes(t)) = Whole(Len(t)) OBVIOUS
  <2>1. M!Min({Len(t), size}) = Len(t)
    <3>1. Len(t) \in Int BY <1>1
    <3> QED BY <3>1, MinOfTwo
  <2>2. M!CharsIn(t, M!Bytes(t)) = Len(t) BY <1>1
  <2> QED BY <2>1, <2>2 DEF M!AnsiToUnicode, Whole
<1> QED BY <1>2, <1>3

LEMMA UnicodeToAnsiFills ==
  ASSUME NEW size \in Nat, NEW t \in Widths, NEW chars \in 0 .. Len(t)
  PROVE  /\ WithinSize(M!UnicodeToAnsi(size, t, chars), size)
         /\ M!Bytes(t) < size => M!UnicodeToAnsi(size, t, Len(t)) = Whole(M!Bytes(t))
<1> DEFINE p == M!Prefix(t, chars)
           n == M!Bytes(M!Prefix(p, M!FitsIn(p, size)))
<1>1. p \in Widths /\ Len(p) = chars BY PrefixIs
<1>2. /\ M!FitsIn(p, size) \in 0 .. chars /\ n \in Nat /\ n <= size
      /\ M!Bytes(p) <= size => n = M!Bytes(p)
  <2> HIDE DEF p
  <2> QED BY <1>1, FitsInText
<1>3. M!Prefix(p, M!FitsIn(p, size)) = M!Prefix(t, M!FitsIn(p, size)) BY <1>2, PrefixIs
<1>4. M!UnicodeToAnsi(size, t, chars) = [units |-> n, ended |-> n < size, ret |-> n]
  BY <1>3 DEF M!UnicodeToAnsi
<1>5. WithinSize(M!UnicodeToAnsi(size, t, chars), size)
  <2> HIDE DEF n
  <2>1. CASE n < size
    <3>1. M!UnicodeToAnsi(size, t, chars) = [units |-> n, ended |-> TRUE, ret |-> n] BY <1>4, <2>1
    <3> QED BY <1>2, <2>1, <3>1 DEF WithinSize, Written
  <2>2. CASE ~(n < size)
    <3>1. (n < size) = FALSE BY <2>2
    <3>2. M!UnicodeToAnsi(size, t, chars) = [units |-> n, ended |-> FALSE, ret |-> n] BY <1>4, <3>1
    <3> QED BY <1>2, <2>2, <3>2 DEF WithinSize, Written
  <2> QED BY <2>1, <2>2
<1>6. M!Bytes(t) < size => M!UnicodeToAnsi(size, t, Len(t)) = Whole(M!Bytes(t))
  <2> SUFFICES ASSUME M!Bytes(t) < size PROVE M!UnicodeToAnsi(size, t, Len(t)) = Whole(M!Bytes(t)) OBVIOUS
  <2> DEFINE m == M!Bytes(M!Prefix(t, M!FitsIn(t, size)))
  <2>1. M!Bytes(t) \in Nat BY BytesAre
  <2>2. m = M!Bytes(t) BY <2>1, FitsInText
  <2>3. M!UnicodeToAnsi(size, t, Len(t)) = [units |-> m, ended |-> m < size, ret |-> m]
    BY BytesAre DEF M!UnicodeToAnsi
  <2> HIDE DEF m
  <2> QED BY <2>2, <2>3 DEF Whole
<1> QED BY <1>5, <1>6

(* What is written by the five thunks that fill a buffer.                    *)
LEMMA Untouches == \A size \in Nat : WithinSize(M!Untouched, size)
BY DEF WithinSize, Written, M!Untouched

LEMMA UserFills ==
  ASSUME NEW t \in M!Texts, NEW size \in Nat, NEW ok \in BOOLEAN
  PROVE  /\ WithinSize(M!UserOUTSTRING(t, size, ok), size)
         /\ WithinSize(M!UserINCNTOUTSTRING(t, size, ok), size)
         /\ ok /\ t # <<>> /\ size = Len(t) + 1 =>
               /\ M!UserOUTSTRING(t, size, ok) = Whole(Len(t))
               /\ M!UserINCNTOUTSTRING(t, size, ok) = Whole(Len(t))
         /\ ok /\ t # <<>> => M!UserOUTCBOXSTRING(t, ok) = Whole(Len(t))
<1>1. /\ t \in Widths /\ Len(t) \in Nat /\ Len(t) <= MessageText /\ M!Bytes(t) \in Nat
      /\ Len(t) <= M!Bytes(t) /\ M!Bytes(t) <= 2 * Len(t) /\ MessageText \in Nat
  BY TextsAre, BytesAre, BoundAssumption
<1>2. t # <<>> => M!Bytes(t) # 0 BY <1>1 DEF Widths
<1> DEFINE most == M!Max({2 * size - 1, 0})
           b == M!Min({M!Bytes(t), most})
           c == M!Min({M!Bytes(t), 2 * size})
<1>3. most \in Nat /\ (size >= 1 => most = 2 * size - 1)
  <2> DEFINE x == 2 * size - 1
  <2>1. x \in Int /\ 0 \in Int /\ (size >= 1 => x >= 0) OBVIOUS
  <2> HIDE DEF x
  <2>2. M!Max({x, 0}) = IF x >= 0 THEN x ELSE 0 BY <2>1, MinOfTwo
  <2>3. most = M!Max({x, 0}) BY DEF x
  <2>4. most \in Nat /\ (size >= 1 => most = x) BY <2>1, <2>2, <2>3
  <2> QED BY <2>4 DEF x
<1>4. b \in Nat /\ c \in Nat
  <2> HIDE DEF most
  <2> QED BY <1>1, <1>3, MinOfTwo
<1>5. size = Len(t) + 1 => b = M!Bytes(t) /\ c = M!Bytes(t)
  <2> SUFFICES ASSUME size = Len(t) + 1 PROVE b = M!Bytes(t) /\ c = M!Bytes(t) OBVIOUS
  <2>1. most = 2 * size - 1 /\ M!Bytes(t) <= most BY <1>1, <1>3
  <2> HIDE DEF most
  <2> QED BY <1>1, <1>3, <2>1, MinOfTwo
<1>6. /\ M!UserOUTSTRING(t, size, ok) = IF ~ok \/ b = 0 THEN M!Untouched ELSE M!AnsiToUnicode(size, t, b)
      /\ M!UserINCNTOUTSTRING(t, size, ok) = IF ~ok \/ c = 0 THEN M!Untouched ELSE M!AnsiToUnicode(size, t, c)
  BY DEF M!UserOUTSTRING, M!UserINCNTOUTSTRING
<1> HIDE DEF b, c
<1>7. WithinSize(M!AnsiToUnicode(size, t, b), size) /\ WithinSize(M!AnsiToUnicode(size, t, c), size)
  BY <1>1, <1>4, AnsiToUnicodeFills
<1>8. WithinSize(M!UserOUTSTRING(t, size, ok), size) /\ WithinSize(M!UserINCNTOUTSTRING(t, size, ok), size)
  BY <1>6, <1>7, Untouches
<1>9. size = Len(t) + 1 => M!AnsiToUnicode(size, t, M!Bytes(t)) = Whole(Len(t))
  BY <1>1, AnsiToUnicodeFills
<1>10. ok /\ t # <<>> => M!UserOUTCBOXSTRING(t, ok) = Whole(Len(t))
  <2>1. M!Unbounded \in Nat /\ Len(t) < M!Unbounded BY <1>1 DEF M!Unbounded
  <2>2. M!AnsiToUnicode(M!Unbounded, t, M!Bytes(t)) = Whole(Len(t)) BY <1>1, <2>1, AnsiToUnicodeFills
  <2> QED BY <2>2 DEF M!UserOUTCBOXSTRING
<1> QED BY <1>2, <1>5, <1>6, <1>8, <1>9, <1>10

LEMMA KernelFills ==
  ASSUME NEW t \in M!Texts, NEW size \in Nat, NEW ok \in BOOLEAN
  PROVE  /\ WithinSize(M!KernelOUTSTRING(t, size, ok), size)
         /\ WithinSize(M!KernelINCNTOUTSTRING(t, size, ok), size)
         /\ ok /\ t # <<>> /\ size = M!Bytes(t) + 1 =>
               /\ M!KernelOUTSTRING(t, size, ok) = Whole(M!Bytes(t))
               /\ M!KernelINCNTOUTSTRING(t, size, ok) = Whole(M!Bytes(t))
         /\ ok /\ t # <<>> => M!KernelOUTCBOXSTRING(t, ok) = Whole(M!Bytes(t))
<1>1. /\ t \in Widths /\ Len(t) \in Nat /\ Len(t) <= MessageText /\ M!Bytes(t) \in Nat
      /\ Len(t) <= M!Bytes(t) /\ M!Bytes(t) <= 2 * Len(t) /\ MessageText \in Nat /\ Len(t) \in 0 .. Len(t)
  BY TextsAre, BytesAre, BoundAssumption
<1>2. t # <<>> => Len(t) # 0 BY <1>1 DEF Widths
<1> DEFINE chars == M!Min({Len(t), size})
<1>3. chars \in 0 .. Len(t) /\ (size = M!Bytes(t) + 1 => chars = Len(t)) BY <1>1, MinOfTwo
<1>4. M!KernelINCNTOUTSTRING(t, size, ok) = IF ~ok \/ chars = 0 THEN M!Untouched ELSE M!UnicodeToAnsi(size, t, chars)
  BY DEF M!KernelINCNTOUTSTRING
<1>5. M!KernelOUTSTRING(t, size, ok) = IF ~ok \/ t = <<>> THEN M!Untouched ELSE M!UnicodeToAnsi(size, t, Len(t))
  BY DEF M!KernelOUTSTRING
<1> HIDE DEF chars
<1>6. WithinSize(M!UnicodeToAnsi(size, t, chars), size) /\ WithinSize(M!UnicodeToAnsi(size, t, Len(t)), size)
  BY <1>1, <1>3, UnicodeToAnsiFills
<1>7. size = M!Bytes(t) + 1 => M!UnicodeToAnsi(size, t, Len(t)) = Whole(M!Bytes(t))
  BY <1>1, UnicodeToAnsiFills
<1>8. ok /\ t # <<>> => M!KernelOUTCBOXSTRING(t, ok) = Whole(M!Bytes(t))
  <2>1. M!Unbounded \in Nat /\ M!Bytes(t) < M!Unbounded BY <1>1 DEF M!Unbounded
  <2>2. M!UnicodeToAnsi(M!Unbounded, t, Len(t)) = Whole(M!Bytes(t)) BY <1>1, <2>1, UnicodeToAnsiFills
  <2> QED BY <2>2 DEF M!KernelOUTCBOXSTRING
<1> QED BY <1>2, <1>3, <1>4, <1>5, <1>6, <1>7, <1>8, Untouches

LEMMA SomethingTold == M!Nothing.msg = "none" /\ M!Nothing.fill = M!Untouched /\ M!Kept.coded = M!Kept.told
                       /\ M!Untold = [length |-> -1, fresh |-> FALSE]
BY DEF M!Nothing, M!Kept, M!Untold

(* Without a message in the buffer only the length counts.                   *)
LEMMA NothingFilled ==
  ASSUME mOut' = M!Nothing, mLearned'.fresh => mLearned'.length = M!CallerUnits(mText)'
  PROVE  M!TextArrives'
<1>1. mOut'.msg = "none" BY SomethingTold
<1> QED BY <1>1 DEF M!TextArrives

LEMMA RowsOfTexts ==
  /\ M!MessageTable["WM_GETTEXT"] = "OUTSTRING"
  /\ M!MessageTable["EM_GETLINE"] = "INCNTOUTSTRING"
<1>1. /\ "WM_GETTEXT" \in DOMAIN M!Rows0x000 /\ "WM_GETTEXT" \notin DOMAIN M!Rows0x095
      /\ "WM_GETTEXT" \notin DOMAIN M!Rows0x12B /\ "WM_GETTEXT" \notin DOMAIN M!Rows0x1C1
      /\ "WM_GETTEXT" \notin DOMAIN M!Rows0x257 /\ "WM_GETTEXT" \notin DOMAIN M!Rows0x2ED
  BY DEF M!Rows0x000, M!Rows0x095, M!Rows0x12B, M!Rows0x1C1, M!Rows0x257, M!Rows0x2ED
<1>2. /\ "EM_GETLINE" \in DOMAIN M!Rows0x095 /\ "EM_GETLINE" \notin DOMAIN M!Rows0x000
      /\ "EM_GETLINE" \notin DOMAIN M!Rows0x12B /\ "EM_GETLINE" \notin DOMAIN M!Rows0x1C1
      /\ "EM_GETLINE" \notin DOMAIN M!Rows0x257 /\ "EM_GETLINE" \notin DOMAIN M!Rows0x2ED
  BY DEF M!Rows0x000, M!Rows0x095, M!Rows0x12B, M!Rows0x1C1, M!Rows0x257, M!Rows0x2ED
<1>3. M!MessageTable["WM_GETTEXT"] = M!Rows0x000["WM_GETTEXT"] BY <1>1 DEF M!MessageTable, M!Pieces
<1>4. M!MessageTable["EM_GETLINE"] = M!Rows0x095["EM_GETLINE"] BY <1>2 DEF M!MessageTable, M!Pieces
<1> QED BY <1>3, <1>4 DEF M!Rows0x000, M!Rows0x095

(* A window's text and a line are asked for with a size.                     *)
LEMMA TextsHaveSizes ==
  ASSUME NEW control, NEW message \in {"WM_GETTEXT", "EM_GETLINE"}
  PROVE  M!Thunk(control, message) # "OUTCBOXSTRING"
<1>1. ~M!IsOwnerDrawItemDataMessage(control, message)
  BY DEF M!IsOwnerDrawItemDataMessage, M!IsListBoxStringMessage, M!IsComboBoxStringMessage
<1>2. M!UserDispatch(control, message) = M!MessageTable[message] BY <1>1 DEF M!UserDispatch
<1>3. M!KernelDispatch(control, message) = M!MessageTable[message] BY <1>1 DEF M!KernelDispatch
<1>4. M!Thunk(control, message) = M!gapfnMessageCall(M!MessageTable[message]) BY <1>2, <1>3 DEF M!Thunk
<1>5. M!MessageTable[message] \in {"OUTSTRING", "INCNTOUTSTRING"} BY RowsOfTexts
<1>6. M!gapfnMessageCall(M!MessageTable[message]) = M!MessageTable[message] BY <1>5 DEF M!gapfnMessageCall
<1> QED BY <1>4, <1>5, <1>6

LEMMA FillArrives ==
  ASSUME M!MessagesInv, NEW control, NEW message, NEW size \in M!Sizes, NEW ok \in BOOLEAN,
         M!Fill(control, message, size, ok)
  PROVE  M!TextArrives'
<1> DEFINE name == M!Thunk(control, message)
           length == M!CallerUnits(mText)
           fill == mOut'.fill
<1>1. /\ name \in {"OUTSTRING", "INCNTOUTSTRING", "OUTCBOXSTRING"}
      /\ mOut'.msg = message /\ mOut'.size = size /\ mOut'.ok = ok
      /\ name = "OUTSTRING" => fill = IF mSide = "User" THEN M!UserOUTSTRING(mText, size, ok)
                                      ELSE M!KernelOUTSTRING(mText, size, ok)
      /\ name = "INCNTOUTSTRING" => fill = IF mSide = "User" THEN M!UserINCNTOUTSTRING(mText, size, ok)
                                           ELSE M!KernelINCNTOUTSTRING(mText, size, ok)
      /\ name = "OUTCBOXSTRING" => fill = IF mSide = "User" THEN M!UserOUTCBOXSTRING(mText, ok)
                                          ELSE M!KernelOUTCBOXSTRING(mText, ok)
  BY DEF M!Fill
<1>2. UNCHANGED <<mSide, mText, mLearned>> BY DEF M!Fill
<1>3. /\ mText \in M!Texts /\ size \in Nat /\ length \in Nat
      /\ mLearned.fresh => mLearned.length = length
  <2>1. mText \in M!Texts /\ MessageText \in Nat /\ mSide \in {"User", "Kernel"} BY BoundAssumption DEF M!MessagesInv
  <2>2. M!Bytes(mText) \in Nat /\ Len(mText) \in Nat BY <2>1, TextsAre, BytesAre
  <2> QED BY <2>1, <2>2 DEF M!MessagesInv, M!TextArrives, M!CallerUnits, M!Sizes
<1>4. name # "OUTCBOXSTRING" => WithinSize(fill, size) BY <1>1, <1>3, UserFills, KernelFills
<1>5. ok /\ mText # <<>> /\ size = length + 1 => fill = Whole(length)
  BY <1>1, <1>3, UserFills, KernelFills DEF M!CallerUnits
<1>6. name = "OUTCBOXSTRING" /\ (~ok \/ mText = <<>>) => fill = M!Untouched
  BY <1>1 DEF M!UserOUTCBOXSTRING, M!KernelOUTCBOXSTRING
<1>7. message \in {"WM_GETTEXT", "EM_GETLINE"} => WithinSize(fill, size)
  BY <1>4, TextsHaveSizes
<1>8. size = length + 1 => WithinSize(fill, size)
  <2> SUFFICES ASSUME size = length + 1 PROVE WithinSize(fill, size) OBVIOUS
  <2>1. CASE fill = M!Untouched BY <2>1, <1>3, Untouches
  <2>2. CASE fill = Whole(length)
    <3>1. Whole(length).units = length /\ Whole(length).ended BY DEF Whole
    <3> HIDE DEF length
    <3> QED BY <2>2, <3>1, <1>3 DEF WithinSize, Written
  <2> QED BY <2>1, <2>2, <1>4, <1>5, <1>6
<1> HIDE DEF name, length
<1>9. length = M!CallerUnits(mText)' BY <1>2 DEF length, M!CallerUnits
<1>10. /\ mLearned'.fresh => mLearned'.length = length
       /\ mLearned'.fresh /\ mOut'.size = mLearned'.length + 1 => size = length + 1
  BY <1>1, <1>2, <1>3
<1> QED BY <1>1, <1>2, <1>5, <1>7, <1>8, <1>9, <1>10 DEF M!TextArrives, WithinSize, Written, Whole

(* What is passed on is in the coding the receiver is told.                  *)
Told(p) == p.coded = p.told \/ (mSide = "User" /\ "null" \in {p.class, p.title})
LEMMA StringsTold ==
  ASSUME mSide \in {"User", "Kernel"}
  PROVE  /\ Told(M!Kept)
         /\ \A t : \A ok \in BOOLEAN : Told(M!INSTRINGNULL(t, ok))
         /\ \A ok \in BOOLEAN : Told(M!KernelINWPARAMCHAR(ok))
         /\ \A new : Told(M!LargeName(new))
         /\ \A class, title, c, s : Told(M!CreateStruct(class, title, c, s))
BY DEF Told, M!Kept, M!INSTRINGNULL, M!KernelINWPARAMCHAR, M!LargeName, M!CreateStruct, M!Native, M!Foreign

LEMMA InitMessages == M!Init => M!MessagesInv
<1> SUFFICES ASSUME M!Init PROVE M!MessagesInv OBVIOUS
<1>1. /\ mSide \in {"User", "Kernel"} /\ mText \in M!Texts /\ mLearned = M!Untold /\ mOut = M!Nothing
      /\ mPassed = M!Kept
  BY DEF M!Init
<1>2. mLearned \in [length : Int, fresh : BOOLEAN] /\ ~mLearned.fresh BY <1>1, SomethingTold
<1>3. mOut.msg = "none" BY <1>1, SomethingTold
<1>4. M!TextArrives BY <1>2, <1>3 DEF M!TextArrives
<1>5. M!CodingTold BY <1>1, SomethingTold DEF M!CodingTold
<1> QED BY <1>1, <1>2, <1>4, <1>5 DEF M!MessagesInv

(* A step that leaves no text in a buffer.                                   *)
LEMMA QuietStep ==
  ASSUME M!MessagesInv, mSide' = mSide, mText' \in M!Texts, mOut' = M!Nothing,
         mLearned' \in [length : Int, fresh : BOOLEAN],
         mLearned'.fresh => mLearned'.length = M!CallerUnits(mText)', Told(mPassed')
  PROVE  M!MessagesInv'
<1>1. M!TextArrives' BY NothingFilled
<1>2. M!CodingTold' BY DEF M!CodingTold, Told
<1> QED BY <1>1, <1>2 DEF M!MessagesInv

LEMMA UntoldIs ==
  ASSUME mLearned' = M!Untold
  PROVE  mLearned' \in [length : Int, fresh : BOOLEAN] /\ ~mLearned'.fresh
BY SomethingTold

LEMMA MessagesStep == M!MessagesInv /\ [M!Next]_M!vars => M!MessagesInv'
<1> SUFFICES ASSUME M!MessagesInv, [M!Next]_M!vars PROVE M!MessagesInv' OBVIOUS
<1>1. /\ mSide \in {"User", "Kernel"} /\ mText \in M!Texts /\ mLearned \in [length : Int, fresh : BOOLEAN]
      /\ mLearned.fresh => mLearned.length = M!CallerUnits(mText)
  BY DEF M!MessagesInv, M!TextArrives
<1>2. ASSUME NEW control \in M!Controls, NEW message \in DOMAIN M!MessageTable, NEW ok \in BOOLEAN,
             NEW t \in M!Texts \cup {<<>>, << 2 >>}, message \in M!Stored => t \in M!Texts,
             M!PassString(t, control, message, ok)
      PROVE  M!MessagesInv'
  <2>1. /\ mSide' = mSide /\ mText' \in M!Texts /\ mOut' = M!Nothing /\ mLearned' = M!Untold
        /\ mPassed' \in {M!INSTRINGNULL(t, ok), M!Kept}
    BY <1>1, <1>2 DEF M!PassString
  <2>2. Told(mPassed') BY <1>1, <2>1, StringsTold
  <2> QED BY <2>1, <2>2, UntoldIs, QuietStep
<1>3. ASSUME NEW control, NEW message, NEW ok \in BOOLEAN, M!PassCharacter(control, message, ok)
      PROVE  M!MessagesInv'
  <2>1. /\ mSide' = mSide /\ mText' = mText /\ mOut' = M!Nothing /\ mLearned' = M!Untold
        /\ mPassed' = M!KernelINWPARAMCHAR(ok)
    BY <1>3 DEF M!PassCharacter
  <2>2. Told(mPassed') BY <1>1, <2>1, StringsTold
  <2> QED BY <1>1, <2>1, <2>2, UntoldIs, QuietStep
<1>4. ASSUME NEW control, NEW message, NEW ok \in BOOLEAN, M!GetLength(control, message, ok)
      PROVE  M!MessagesInv'
  <2> DEFINE n == IF mSide = "User" THEN M!UserGETDBCSTEXTLENGTHS(mText, ok \/ mText = <<>>)
                  ELSE M!KernelGETDBCSTEXTLENGTHS(mText, ok \/ mText = <<>>)
  <2>1. /\ mSide' = mSide /\ mText' = mText /\ mOut' = M!Nothing /\ mPassed' = M!Kept
        /\ mLearned' = [fresh |-> ok, length |-> n]
    BY <1>4 DEF M!GetLength
  <2>2. mText \in Widths /\ M!Bytes(mText) \in Nat /\ Len(mText) \in Nat /\ M!CharsIn(mText, M!Bytes(mText)) = Len(mText)
    BY <1>1, TextsAre, BytesAre, CharsInText
  <2>3. n \in Int /\ (ok => n = M!CallerUnits(mText))
    BY <2>2 DEF M!UserGETDBCSTEXTLENGTHS, M!KernelGETDBCSTEXTLENGTHS, M!CallerUnits
  <2> HIDE DEF n
  <2>4. mLearned' \in [length : Int, fresh : BOOLEAN] /\ mLearned'.fresh = ok /\ mLearned'.length = n
    BY <2>1, <2>3
  <2>5. M!CallerUnits(mText)' = M!CallerUnits(mText) BY <2>1 DEF M!CallerUnits
  <2>6. Told(mPassed') BY <1>1, <2>1, StringsTold
  <2> QED BY <1>1, <2>1, <2>3, <2>4, <2>5, <2>6, QuietStep
<1>5. ASSUME NEW control, NEW message, NEW ok \in BOOLEAN, NEW size \in M!Sizes,
             M!Fill(control, message, size, ok)
      PROVE  M!MessagesInv'
  <2>1. M!TextArrives' BY <1>5, FillArrives
  <2>2. UNCHANGED <<mSide, mText, mLearned>> /\ mPassed' = M!Kept BY <1>5 DEF M!Fill
  <2>3. M!CodingTold' BY <2>2, SomethingTold DEF M!CodingTold
  <2> QED BY <1>1, <2>1, <2>2, <2>3 DEF M!MessagesInv
<1>6. ASSUME NEW class, NEW title, NEW c, NEW s, M!Create(class, title, c, s) PROVE M!MessagesInv'
  <2>1. /\ mSide' = mSide /\ mText' = mText /\ mOut' = M!Nothing /\ mLearned' = M!Untold
        /\ mPassed' = M!CreateStruct(class, title, c, s)
    BY <1>6 DEF M!Create
  <2>2. Told(mPassed') BY <1>1, <2>1, StringsTold
  <2> QED BY <1>1, <2>1, <2>2, UntoldIs, QuietStep
<1>7. ASSUME NEW name, NEW wrapped, NEW ok, M!PassName(name, wrapped, ok) PROVE M!MessagesInv'
  <2>1. /\ mSide' = mSide /\ mText' = mText /\ mOut' = M!Nothing /\ mLearned' = M!Untold
        /\ \E new : mPassed' = M!LargeName(new)
    BY <1>7 DEF M!PassName, M!LepNtUserDefSetText
  <2>2. Told(mPassed') BY <1>1, <2>1, StringsTold
  <2> QED BY <1>1, <2>1, <2>2, UntoldIs, QuietStep
<1>8. ASSUME NEW t \in M!Texts, M!Change(t) PROVE M!MessagesInv'
  <2>1. /\ mSide' = mSide /\ mText' = t /\ mOut' = M!Nothing /\ mPassed' = M!Kept
        /\ mLearned' = [mLearned EXCEPT !.fresh = @ /\ t = mText]
    BY <1>8 DEF M!Change
  <2>2. /\ mLearned' \in [length : Int, fresh : BOOLEAN] /\ mLearned'.length = mLearned.length
        /\ mLearned'.fresh => mLearned.fresh /\ t = mText
    BY <1>1, <2>1
  <2>3. t = mText => M!CallerUnits(mText)' = M!CallerUnits(mText) BY <2>1 DEF M!CallerUnits
  <2>4. Told(mPassed') BY <1>1, <2>1, StringsTold
  <2> QED BY <1>1, <2>1, <2>2, <2>3, <2>4, QuietStep
<1>9. CASE UNCHANGED M!vars
  <2>1. UNCHANGED <<mSide, mText, mLearned, mOut, mPassed>> BY <1>9 DEF M!vars
  <2> QED BY <2>1 DEF M!MessagesInv, M!TextArrives, M!CodingTold, M!CallerUnits
<1>10. CASE M!Next
  <2>1. CASE \E t \in M!Texts : M!Change(t) BY <1>8, <2>1
  <2>2. CASE \E class \in {"atom", "name"}, title \in {"none", "text", "number"}, c, s \in BOOLEAN :
                M!Create(class, title, c, s)
    BY <1>6, <2>2
  <2>3. CASE \E name \in M!WindowNames, wrapped, ok \in BOOLEAN : M!PassName(name, wrapped, ok)
    BY <1>7, <2>3
  <2>4. ASSUME NEW control \in M!Controls, NEW message \in DOMAIN M!MessageTable, NEW ok \in BOOLEAN,
               \/ \E t \in IF message \in M!Stored THEN M!Texts ELSE {<<>>, << 2 >>} :
                     M!PassString(t, control, message, ok)
               \/ M!PassCharacter(control, message, ok)
               \/ M!GetLength(control, message, ok)
               \/ \E size \in M!Sizes : M!Fill(control, message, size, ok)
        PROVE  M!MessagesInv'
    <3>1. CASE \E t \in IF message \in M!Stored THEN M!Texts ELSE {<<>>, << 2 >>} :
                 M!PassString(t, control, message, ok)
      BY <1>2, <3>1
    <3> QED BY <1>3, <1>4, <1>5, <2>4, <3>1
  <2> QED BY <1>10, <2>1, <2>2, <2>3, <2>4 DEF M!Next
<1> QED BY <1>9, <1>10

LEMMA MessageSteps ==
  ASSUME [MCNext]_MCVars, active' = "messages"
  PROVE  active = "messages" /\ [M!Next]_(M!vars)
BY DEF MCNext, MCVars, MessageVars, M!vars

(* Of any text, through any buffer: a caller that learned a length and made  *)
(* room for it gets the whole text and its end, no conversion writes past    *)
(* the buffer, and a receiver is told the coding of what it is passed        *)
(* (OUTSTRING, INCNTOUTSTRING, GETDBCSTEXTLENGTHS, INLPCREATESTRUCT).        *)
THEOREM TextAlwaysArrives == MCSpec => []TextArrives
<1> DEFINE Inv == active = "messages" => M!MessagesInv
<1>1. MCInit => Inv BY InitMessages DEF MCInit
<1>2. Inv /\ [MCNext]_MCVars => Inv' BY MessageSteps, MessagesStep
<1>3. Inv => TextArrives BY DEF M!MessagesInv, TextArrives
<1> QED BY <1>1, <1>2, <1>3, PTL DEF MCSpec

-----------------------------------------------------------------------------
(* Positions in edit controls.  Texts of single- and double-byte characters  *)
(* and new lines.                                                            *)
Letters == Seq({"single", "double", "line"})

LEMMA EditTextsAre ==
  ASSUME NEW t \in E!Texts
  PROVE  t \in Letters /\ t # E!NoText
<1>1. PICK n \in 0 .. EditText : t \in [1 .. n -> {"single", "double", "line"}] BY DEF E!Texts
<1>2. n \in Nat BY BoundAssumption
<1>3. t \in Seq({"single", "double", "line"}) BY <1>1, <1>2
<1>4. t # E!NoText
  <2> SUFFICES ASSUME t = E!NoText PROVE FALSE OBVIOUS
  <2>1. Len(t) = 1 /\ t[1] = "none" BY DEF E!NoText
  <2>2. \A i \in 1 .. Len(t) : t[i] \in {"single", "double", "line"} BY <1>3
  <2>3. t[1] \in {"single", "double", "line"} BY <2>1, <2>2
  <2> QED BY <2>1, <2>3
<1> QED BY <1>3, <1>4 DEF Letters

LEMMA LettersCount ==
  /\ \A t : E!Bytes(t) = Count(t, "double")
  /\ \A t, k : E!Prefix(t, k) = Upto(t, k)
  /\ \A t, b : E!AnsiByteOffsetToCharOffset(t, b) = Reach(t, "double", b)
  /\ \A I : E!Min(I) = Least(I) /\ E!Max(I) = Greatest(I)
<1>1. \A I : E!Min(I) = Least(I) /\ E!Max(I) = Greatest(I) BY DEF E!Min, E!Max, Least, Greatest
<1>2. \A t : E!Bytes(t) = Count(t, "double") BY SameSizes DEF E!Bytes, Count
<1>3. \A t, k : E!Prefix(t, k) = Upto(t, k) BY DEF E!Prefix, Upto
<1>4. \A t, b : E!AnsiByteOffsetToCharOffset(t, b) = Reach(t, "double", b)
  BY <1>1, <1>2, <1>3 DEF E!AnsiByteOffsetToCharOffset, Reach
<1> QED BY <1>1, <1>2, <1>3, <1>4

LEMMA EditOfTwo ==
  ASSUME NEW a \in Int, NEW b \in Int
  PROVE  /\ E!Min({a, b}) = IF a <= b THEN a ELSE b
         /\ E!Max({a, b}) = IF a >= b THEN a ELSE b
BY OfTwo, LettersCount

Units == {"chars", "bytes"}
LEMMA OtherUnits ==
  ASSUME eSide \in {"User", "Kernel"}
  PROVE  /\ E!CallerUnit \in Units /\ E!ControlUnit \in Units
         /\ eSide = "User" => E!CallerUnit = "chars" /\ E!ControlUnit = "bytes"
         /\ eSide = "Kernel" => E!CallerUnit = "bytes" /\ E!ControlUnit = "chars"
BY DEF Units, E!CallerUnit, E!ControlUnit

(* In either count positions grow from 0 to the size of the text.            *)
LEMMA PositionsGrow ==
  ASSUME NEW t \in Letters, NEW unit \in Units
  PROVE  /\ \A k \in 0 .. Len(t) : E!At(unit, t, k) \in Nat /\ E!At(unit, t, k) <= E!Size(unit, t)
         /\ \A j, k \in 0 .. Len(t) : j < k => E!At(unit, t, j) < E!At(unit, t, k)
         /\ E!At(unit, t, 0) = 0 /\ E!At(unit, t, Len(t)) = E!Size(unit, t)
         /\ E!Size(unit, t) \in Nat /\ Len(t) \in Nat
         /\ Len(t) \in 0 .. Len(t) /\ 0 \in 0 .. Len(t)
<1>1. /\ Len(t) \in Nat /\ Len(t) \in 0 .. Len(t) /\ 0 \in 0 .. Len(t) /\ Upto(t, Len(t)) = t
      /\ \A k \in 0 .. Len(t) : Len(Upto(t, k)) = k
  BY FrontIs, WholeFront DEF Letters
<1>2. CASE unit = "chars"
  <2>1. \A k \in 0 .. Len(t) : E!At(unit, t, k) = k BY <1>1, <1>2, LettersCount DEF E!At, E!Size
  <2>2. E!Size(unit, t) = Len(t) BY <1>2 DEF E!Size
  <2> QED BY <1>1, <2>1, <2>2
<1>3. CASE unit = "bytes"
  <2>1. \A k : E!At(unit, t, k) = Count(Upto(t, k), "double") BY <1>3, LettersCount DEF E!At, E!Size
  <2>2. E!Size(unit, t) = Count(t, "double") BY <1>3, LettersCount DEF E!Size
  <2>3. /\ Count(t, "double") \in Nat
        /\ \A k \in 0 .. Len(t) : /\ Count(Upto(t, k), "double") \in Nat
                                  /\ Count(Upto(t, k), "double") <= Count(t, "double")
        /\ Count(Upto(t, 0), "double") = 0
    BY CountsAre DEF Letters
  <2>4. \A j, k \in 0 .. Len(t) : j < k => Count(Upto(t, j), "double") < Count(Upto(t, k), "double")
    BY FrontsGrow DEF Letters
  <2> QED BY <1>1, <2>1, <2>2, <2>3, <2>4
<1> QED BY <1>2, <1>3 DEF Units

(* A position is at a character, or past the text.                           *)
IsAt(unit, t, p, k) == p \in Nat /\ (p = E!At(unit, t, k) \/ (p >= E!Size(unit, t) /\ k = Len(t)))

LEMMA CharIsAt ==
  ASSUME NEW t \in Letters, NEW unit \in Units, NEW k \in 0 .. Len(t), NEW p, IsAt(unit, t, p, k)
  PROVE  E!CharAt(unit, t, p) = k /\ E!Min({p, E!Size(unit, t)}) = E!At(unit, t, k)
<1>1. /\ p \in Nat /\ Len(t) \in Nat /\ E!Size(unit, t) \in Nat /\ k \in Nat
      /\ \/ p = E!At(unit, t, k) /\ p <= E!Size(unit, t)
         \/ p >= E!Size(unit, t) /\ k = Len(t)
      /\ E!At(unit, t, Len(t)) = E!Size(unit, t)
  BY PositionsGrow DEF IsAt
<1>2. E!Min({p, E!Size(unit, t)}) = E!At(unit, t, k) BY <1>1, EditOfTwo
<1>3. CASE unit = "chars"
  <2>1. E!At(unit, t, k) = k /\ E!Size(unit, t) = Len(t) BY <1>3, FrontIs, LettersCount DEF E!At, E!Size, Letters
  <2> QED BY <1>2, <1>3, <2>1 DEF E!CharAt
<1>4. CASE unit = "bytes"
  <2> DEFINE m == Count(Upto(t, k), "double")
  <2>1. E!Size(unit, t) = E!Bytes(t) BY <1>4 DEF E!Size
  <2>2. E!At(unit, t, k) = m BY <1>4, LettersCount DEF E!At, E!Size
  <2>3. E!Min({p, E!Bytes(t)}) = m BY <1>2, <2>1, <2>2
  <2>4. E!CharAt(unit, t, p) = E!Max({j \in 0 .. Len(t) : E!Bytes(E!Prefix(t, j)) <= m})
    BY <1>4, <2>3 DEF E!CharAt
  <2>5. E!CharAt(unit, t, p) = Fit(t, "double", m) BY <2>4, LettersCount DEF Fit
  <2>6. m \in Nat BY FrontCounts DEF Letters
  <2>7. Fit(t, "double", m) = k BY <2>6, FitIs DEF Letters
  <2> QED BY <1>2, <2>5, <2>7
<1> QED BY <1>3, <1>4 DEF Units

(* The thunks' conversions keep the character.                               *)
LEMMA OffsetsAre ==
  ASSUME NEW t \in Letters, NEW k \in 0 .. Len(t), NEW p
  PROVE  /\ IsAt("chars", t, p, k) => E!AnsiCharOffsetToByteOffset(t, p) = E!At("bytes", t, k)
         /\ IsAt("bytes", t, p, k) => E!AnsiByteOffsetToCharOffset(t, p) = E!At("chars", t, k)
         /\ E!At("chars", t, k) = k
<1>1. E!At("chars", t, k) = k /\ E!Size("chars", t) = Len(t) BY FrontIs, LettersCount DEF E!At, E!Size, Letters
<1>2. ASSUME IsAt("chars", t, p, k) PROVE E!AnsiCharOffsetToByteOffset(t, p) = E!At("bytes", t, k)
  <2>1. E!Min({p, Len(t)}) = k BY <1>1, <1>2, CharIsAt DEF Units
  <2> QED BY <2>1 DEF E!AnsiCharOffsetToByteOffset, E!At, E!Size
<1>3. ASSUME IsAt("bytes", t, p, k) PROVE E!AnsiByteOffsetToCharOffset(t, p) = k
  <2>1. E!At("bytes", t, k) = Count(Upto(t, k), "double") /\ E!Size("bytes", t) = Count(t, "double")
    BY LettersCount DEF E!At, E!Size
  <2>2. E!AnsiByteOffsetToCharOffset(t, p) = Reach(t, "double", p) BY LettersCount
  <2> QED BY <1>3, <2>1, <2>2, ReachIs DEF IsAt, Letters
<1> QED BY <1>1, <1>2, <1>3

LEMMA Converted ==
  ASSUME eSide \in {"User", "Kernel"}, NEW t \in Letters, t # E!NoText, NEW k \in 0 .. Len(t), NEW p
  PROVE  /\ IsAt(E!CallerUnit, t, p, k) => E!ConvertIn(t, p) = E!At(E!ControlUnit, t, k)
         /\ IsAt(E!ControlUnit, t, p, k) => E!ConvertOut(t, p) = E!At(E!CallerUnit, t, k)
<1>1. \A unit : IsAt(unit, t, p, k) => p # -1 BY DEF IsAt
<1> QED BY <1>1, OffsetsAre, OtherUnits DEF E!ConvertIn, E!ConvertOut

(* A selection between two characters.                                       *)
LEMMA Selects ==
  ASSUME NEW t \in Letters, NEW unit \in Units, NEW s, NEW j \in 0 .. Len(t), NEW k \in 0 .. Len(t),
         NEW p, NEW q, IsAt(unit, t, p, j), IsAt(unit, t, q, k) \/ (q = -1 /\ k = Len(t))
  PROVE  E!SetSel(unit, t, s, p, q) = IF j <= k THEN <<E!At(unit, t, j), E!At(unit, t, k)>>
                                    ELSE <<E!At(unit, t, k), E!At(unit, t, j)>>
<1>1. /\ E!At(unit, t, j) \in Nat /\ E!At(unit, t, k) \in Nat /\ j \in Nat /\ k \in Nat /\ p # -1
      /\ j < k => E!At(unit, t, j) < E!At(unit, t, k)
      /\ k < j => E!At(unit, t, k) < E!At(unit, t, j)
      /\ E!At(unit, t, Len(t)) = E!Size(unit, t)
  BY PositionsGrow DEF IsAt
<1>2. E!Min({p, E!Size(unit, t)}) = E!At(unit, t, j) BY CharIsAt
<1>3. (IF q = -1 THEN E!Size(unit, t) ELSE E!Min({q, E!Size(unit, t)})) = E!At(unit, t, k)
  <2>1. IsAt(unit, t, q, k) => q # -1 BY DEF IsAt
  <2>2. ASSUME NEW r, IsAt(unit, t, r, k) PROVE E!Min({r, E!Size(unit, t)}) = E!At(unit, t, k)
    <3> HIDE <1>1, <1>2
    <3>1. E!Min({r, E!Size(unit, t)}) = E!At(unit, t, k) BY ONLY <2>2, CharIsAt, t \in Letters, unit \in Units, k \in 0 .. Len(t)
    <3> QED BY <3>1
  <2> QED BY <1>1, <2>1, <2>2
<1> DEFINE a == E!At(unit, t, j)
           b == E!At(unit, t, k)
<1>4. E!SetSel(unit, t, s, p, q) = <<E!Min({a, b}), E!Max({a, b})>> BY <1>1, <1>2, <1>3 DEF E!SetSel
<1>5. a \in Int /\ b \in Int BY <1>1
<1>6. j <= k => a <= b BY <1>1
<1>7. ~(j <= k) => b <= a /\ ~(a <= b) BY <1>1
<1> HIDE DEF a, b
<1>8. E!Min({a, b}) = (IF a <= b THEN a ELSE b) /\ E!Max({a, b}) = (IF a >= b THEN a ELSE b)
  BY <1>5, EditOfTwo
<1>9. j <= k => E!Min({a, b}) = a /\ E!Max({a, b}) = b BY <1>5, <1>6, <1>8
<1>10. ~(j <= k) => E!Min({a, b}) = b /\ E!Max({a, b}) = a BY <1>5, <1>7, <1>8
<1> QED BY <1>4, <1>9, <1>10 DEF a, b

(* Lines.                                                                    *)
LEMMA LineStartsBefore ==
  ASSUME NEW t \in Letters, NEW k \in 0 .. Len(t)
  PROVE  E!UnicodeLineStartCharFromOffset(t, k) \in 0 .. k
<1>1. Len(t) \in Nat /\ k \in Nat BY FrontIs DEF Letters
<1>2. E!Min({k, Len(t)}) = k BY <1>1, EditOfTwo
<1> DEFINE I == {0} \cup {i \in 1 .. k : t[i] = "line"}
<1>3. I \in SUBSET (0 .. k) /\ I # {} BY <1>1
<1>4. Greatest(I) \in I BY <1>1, <1>3, GreatestIs
<1>5. E!UnicodeLineStartCharFromOffset(t, k) = Greatest(I)
  BY <1>2, LettersCount DEF E!UnicodeLineStartCharFromOffset
<1> QED BY <1>3, <1>4, <1>5

LEMMA LineEndsAfter ==
  ASSUME NEW t \in Letters, NEW k \in 0 .. Len(t)
  PROVE  E!LineEnd(t, k) \in k .. Len(t)
<1>1. Len(t) \in Nat /\ k \in Nat BY FrontIs DEF Letters
<1> DEFINE I == {Len(t)} \cup {j - 1 : j \in {i \in k + 1 .. Len(t) : t[i] = "line"}}
<1>2. \A e \in I : e \in k .. Len(t) BY <1>1
<1>3. I \in SUBSET Nat /\ I # {} BY <1>1, <1>2
<1>4. Least(I) \in I BY <1>3, LeastIs
<1>5. E!LineEnd(t, k) = Least(I) BY LettersCount DEF E!LineEnd
<1> QED BY <1>2, <1>4, <1>5

(* The starts of lines are numbered without a gap.                           *)
LEMMA NumberedElement ==
  ASSUME NEW n \in Nat, NEW I \in SUBSET (0 .. n), NEW w \in Nat, w < Cardinality(I)
  PROVE  \E k \in I : Cardinality({j \in I : j < k}) = w
<1> DEFINE Below(k) == {j \in I : j < k}
<1>1. IsFiniteSet(I) /\ \A j \in I : j \in Nat /\ j <= n
  <2>1. IsFiniteSet(0 .. n) BY FS_Interval
  <2>2. IsFiniteSet(I) BY <2>1, FS_Subset
  <2>3. \A j \in I : j \in Nat /\ j <= n OBVIOUS
  <2> QED BY <2>2, <2>3
<1>2. ASSUME NEW k \in Nat PROVE IsFiniteSet(Below(k)) /\ Cardinality(Below(k)) \in Nat
  <2>1. Below(k) \in SUBSET I OBVIOUS
  <2> HIDE DEF Below
  <2> QED BY <1>1, <2>1, FS_Subset, FS_CardinalityType
<1>3. Below(0) = {} /\ Below(n + 1) = I
  <2>1. \A j \in I : ~(j < 0) /\ j < n + 1 BY <1>1
  <2> QED BY <2>1
<1> DEFINE Past == {k \in Nat : Cardinality(Below(k)) > w}
<1>4. n + 1 \in Past BY <1>3
<1>5. PICK m \in Past : \A k \in Past : m <= k
  <2>1. Past \in SUBSET Nat /\ Past # {} BY <1>4
  <2> HIDE DEF Past
  <2> QED BY <2>1, LeastIndex
<1>6. m \in Nat /\ Cardinality(Below(m)) > w BY <1>5
<1>7. m # 0
  <2> SUFFICES ASSUME m = 0 PROVE FALSE OBVIOUS
  <2>1. Below(m) = {} BY <1>3
  <2>2. Cardinality(Below(m)) = 0 BY <2>1, FS_EmptySet
  <2> HIDE DEF Below
  <2> QED BY <1>6, <2>2
<1>8. PICK l \in Nat : m = l + 1
  <2>1. m - 1 \in Nat /\ m = (m - 1) + 1 BY <1>6, <1>7
  <2> QED BY <2>1
<1>9. ~(Cardinality(Below(l)) > w)
  <2>1. ~(m <= l) BY <1>6, <1>8
  <2>2. l \notin Past BY <1>5, <2>1
  <2> QED BY <2>2
<1>10. \A j \in I : j < m <=> j < l \/ j = l BY <1>1, <1>8
<1>11. l \in I
  <2> SUFFICES ASSUME l \notin I PROVE FALSE OBVIOUS
  <2>1. Below(m) = Below(l) BY <1>10
  <2> HIDE DEF Below
  <2> QED BY <1>6, <1>9, <2>1
<1>12. Cardinality(Below(m)) = Cardinality(Below(l)) + 1
  <2>1. ~(l < l) BY <1>8
  <2>2. l \notin Below(l) BY <2>1
  <2>3. \A j : j \in Below(m) <=> j \in Below(l) \cup {l} BY <1>10, <1>11
  <2>4. Below(m) = Below(l) \cup {l} BY <2>3
  <2>5. IsFiniteSet(Below(l)) BY <1>2
  <2> HIDE DEF Below
  <2> QED BY <2>2, <2>4, <2>5, FS_AddElement
<1>13. Cardinality(Below(l)) \in Nat BY <1>2
<1> DEFINE c == Cardinality(Below(l))
           d == Cardinality(Below(m))
<1>14. c \in Nat /\ d = c + 1 /\ d > w /\ ~(c > w) BY <1>6, <1>9, <1>12, <1>13
<1> HIDE DEF c, d
<1>15. c = w BY <1>14
<1> QED BY <1>11, <1>15 DEF c

LEMMA IndexedLine ==
  ASSUME NEW t \in Letters, NEW w \in Nat, w < Cardinality(E!Starts(t))
  PROVE  (CHOOSE k \in E!Starts(t) : Cardinality({j \in E!Starts(t) : j < k}) = w) \in 0 .. Len(t)
<1>1. Len(t) \in Nat BY FrontIs DEF Letters
<1>2. E!Starts(t) \in SUBSET (0 .. Len(t)) BY <1>1 DEF E!Starts
<1>3. \E k \in E!Starts(t) : Cardinality({j \in E!Starts(t) : j < k}) = w BY <1>1, <1>2, NumberedElement
<1>4. (CHOOSE k \in E!Starts(t) : Cardinality({j \in E!Starts(t) : j < k}) = w) \in E!Starts(t) BY <1>3
<1> QED BY <1>2, <1>4

(* The line of a character.                                                  *)
StartOf(t, k) == E!UnicodeLineStartCharFromOffset(t, k)
LineOf(t, k) == SubSeq(t, StartOf(t, k) + 1, E!LineEnd(t, StartOf(t, k)))

LEMMA LineOfCaret ==
  ASSUME NEW t \in Letters, NEW unit \in Units, NEW k \in 0 .. Len(t), NEW s, s[2] = E!At(unit, t, k)
  PROVE  E!LineIndex(unit, t, s, -1) = E!At(unit, t, StartOf(t, k)) /\ StartOf(t, k) \in 0 .. Len(t)
<1>1. E!At(unit, t, k) \in Nat /\ Len(t) \in Nat /\ k \in Nat BY PositionsGrow
<1>2. E!CharAt(unit, t, s[2]) = k
  <2>1. IsAt(unit, t, s[2], k) BY <1>1 DEF IsAt
  <2> QED BY <2>1, CharIsAt
<1>3. StartOf(t, k) \in 0 .. Len(t) BY <1>1, LineStartsBefore DEF StartOf
<1> QED BY <1>2, <1>3 DEF E!LineIndex, StartOf

LEMMA LengthOfLine ==
  ASSUME NEW t \in Letters, NEW unit \in Units, NEW k \in 0 .. Len(t), NEW s
  PROVE  /\ E!LineLength(unit, t, s, E!At(unit, t, k)) = E!Size(unit, LineOf(t, k))
         /\ s = <<E!At(unit, t, k), E!At(unit, t, k)>> => E!LineLength(unit, t, s, -1) = E!Size(unit, LineOf(t, k))
         /\ LineOf(t, k) \in Letters /\ E!Size(unit, LineOf(t, k)) \in Nat
<1> DEFINE p == E!At(unit, t, k)
           Length(q) == LET c == E!UnicodeLineStartCharFromOffset(t, E!CharAt(unit, t, q))
                        IN  E!Size(unit, SubSeq(t, c + 1, E!LineEnd(t, c)))
           Start(q) == E!At(unit, t, E!UnicodeLineStartCharFromOffset(t, E!CharAt(unit, t, q)))
<1>1. p \in Nat /\ p <= E!Size(unit, t) /\ Len(t) \in Nat /\ k \in Nat /\ E!Size(unit, t) \in Nat BY PositionsGrow
<1>2. E!CharAt(unit, t, p) = k
  <2>1. IsAt(unit, t, p, k) BY <1>1 DEF IsAt
  <2> QED BY <2>1, CharIsAt
<1>3. StartOf(t, k) \in 0 .. Len(t) BY <1>1, LineStartsBefore DEF StartOf
<1>4. E!LineEnd(t, StartOf(t, k)) \in StartOf(t, k) .. Len(t) BY <1>3, LineEndsAfter
<1>5. LineOf(t, k) \in Letters BY <1>1, <1>3, <1>4 DEF LineOf, Letters
<1>6. E!Size(unit, LineOf(t, k)) \in Nat BY <1>5, PositionsGrow
<1>7. Length(p) = E!Size(unit, LineOf(t, k)) BY <1>2 DEF LineOf, StartOf
<1>8. Start(p) = E!At(unit, t, StartOf(t, k)) BY <1>2 DEF StartOf
<1>9. Start(p) \in Nat BY <1>3, <1>8, PositionsGrow
<1>10. p # -1 /\ ~(p > E!Size(unit, t)) BY <1>1
<1>11. E!LineLength(unit, t, s, p) = Length(p) BY <1>10 DEF E!LineLength
<1>12. E!LineLength(unit, t, s, -1) = (s[1] - Start(s[1])) + (Start(s[2]) + Length(s[2]) - s[2]) BY DEF E!LineLength
<1>13. s = <<p, p>> => E!LineLength(unit, t, s, -1) = (p - Start(p)) + (Start(p) + Length(p) - p) BY <1>12
<1> HIDE DEF p, Length, Start
<1>14. (p - Start(p)) + (Start(p) + Length(p) - p) = Length(p) BY <1>1, <1>6, <1>7, <1>9
<1> QED BY <1>5, <1>6, <1>7, <1>11, <1>13, <1>14 DEF p

(* A selection as the caller counts it.                                      *)
LEMMA TheirsAre ==
  ASSUME eSide \in {"User", "Kernel"}, NEW t \in Letters, NEW i \in 0 .. Len(t), NEW j \in 0 .. Len(t)
  PROVE  E!Theirs(t, <<E!At(E!ControlUnit, t, i), E!At(E!ControlUnit, t, j)>>) =
           <<E!At(E!CallerUnit, t, i), E!At(E!CallerUnit, t, j)>>
<1> DEFINE s == <<E!At(E!ControlUnit, t, i), E!At(E!ControlUnit, t, j)>>
<1>1. ASSUME NEW k \in 0 .. Len(t) PROVE E!CharAt(E!ControlUnit, t, E!At(E!ControlUnit, t, k)) = k
  <2>1. IsAt(E!ControlUnit, t, E!At(E!ControlUnit, t, k), k) BY OtherUnits, PositionsGrow DEF IsAt
  <2> QED BY <2>1, OtherUnits, CharIsAt
<1>2. s[1] = E!At(E!ControlUnit, t, i) /\ s[2] = E!At(E!ControlUnit, t, j) OBVIOUS
<1>3. E!CharAt(E!ControlUnit, t, s[1]) = i /\ E!CharAt(E!ControlUnit, t, s[2]) = j BY <1>1, <1>2
<1> HIDE DEF s
<1>4. E!Theirs(t, s) = [x \in 1 .. 2 |-> E!At(E!CallerUnit, t, E!CharAt(E!ControlUnit, t, s[x]))] BY DEF E!Theirs
<1>5. E!Theirs(t, s)[1] = E!At(E!CallerUnit, t, i) /\ E!Theirs(t, s)[2] = E!At(E!CallerUnit, t, j) BY <1>3, <1>4
<1>6. E!Theirs(t, s) = <<E!Theirs(t, s)[1], E!Theirs(t, s)[2]>> BY <1>4
<1> QED BY <1>5, <1>6 DEF s

(* What a caller asks for.                                                   *)
LEMMA BoundariesAre ==
  ASSUME eSide \in {"User", "Kernel"}, NEW p \in Nat \cup {-1}, eBefore.text \in Letters, E!Boundary(p)
  PROVE  p = -1 \/ \E k \in 0 .. Len(eBefore.text) : IsAt(E!CallerUnit, eBefore.text, p, k)
<1> DEFINE t == eBefore.text
<1>1. SUFFICES ASSUME p # -1 PROVE \E k \in 0 .. Len(t) : IsAt(E!CallerUnit, t, p, k) OBVIOUS
<1>2. p \in Nat BY <1>1
<1>3. CASE p >= E!Size(E!CallerUnit, t)
  <2>1. IsAt(E!CallerUnit, t, p, Len(t)) BY <1>2, <1>3 DEF IsAt
  <2>2. Len(t) \in 0 .. Len(t) BY OtherUnits, PositionsGrow
  <2> QED BY <2>1, <2>2
<1>4. ASSUME NEW k \in 0 .. Len(t), p = E!At(E!CallerUnit, t, k) PROVE IsAt(E!CallerUnit, t, p, k)
  BY <1>2, <1>4 DEF IsAt
<1> QED BY <1>1, <1>3, <1>4 DEF E!Boundary

Mine == E!Answer(E!CallerUnit, eBefore.text, E!Theirs(eBefore.text, eBefore.sel), eCall)
RightReply(r) ==
    CASE eCall.msg = "EM_SETSEL" -> E!Theirs(eText, eSel) = Mine
      [] eCall.msg = "EM_LINELENGTH" /\ ~(E!OneLine /\ (eSide = "Kernel" => E!LastLine)) -> TRUE
      [] OTHER -> r = Mine
Says(rest) ==
          CASE eCall.msg = "EM_GETSEL" ->
               IF eSide = "User" THEN E!UserfnEDIT_GETSEL(eCopy, eGot.answer)
                                ELSE E!KernelfnEDIT_GETSEL(eCopy, eGot.answer)
          [] eCall.msg = "EM_SETSEL" -> 0
          [] eCall.msg = "EM_LINEINDEX" ->
               IF eSide = "User" THEN E!UserfnEDIT_LINEINDEX(eCopy, eGot.answer)
                                ELSE E!KernelfnEDIT_LINEINDEX(eCopy, eGot.answer)
          [] eCall.msg = "EM_LINELENGTH" ->
               IF eCopy = E!NoText THEN eGot.answer
               ELSE IF eSide = "User" THEN E!UserfnEDIT_LINELENGTH(eCopy, E!LineStart, eGot.answer)
               ELSE E!KernelfnEDIT_LINELENGTH(eCopy, E!LineStart, eGot.answer, rest)

(* The thunk has its answer and the text it was given for.                   *)
Answering ==
    /\ E!CallTypes /\ eCall.msg # "none" /\ E!Answered
    /\ eCopy = eText \/ eCall.msg = "EM_SETSEL" \/ (eCall.msg = "EM_LINEINDEX" /\ eGot.answer = -1)
    /\ eCall.msg = "EM_LINELENGTH" /\ eCall.w = -1 => eGot.caret = E!LineIndex(E!ControlUnit, eText, eSel, -1)
    /\ E!Boundary(eCall.w) /\ E!Boundary(eCall.l)

LEMMA Selection ==
  ASSUME Answering
  PROVE  /\ eSide \in {"User", "Kernel"} /\ eText \in Letters /\ eText # E!NoText /\ eBefore.text = eText
         /\ eCall.w \in Nat \cup {-1} /\ eCall.l \in Nat \cup {-1}
         /\ E!CallerUnit \in Units /\ E!ControlUnit \in Units
         /\ eCall.msg \in E!IsEditTextPositionMessage
         /\ \E i, j \in 0 .. Len(eText) :
               /\ eBefore.sel = <<E!At(E!ControlUnit, eText, i), E!At(E!ControlUnit, eText, j)>>
               /\ E!Theirs(eText, eBefore.sel) = <<E!At(E!CallerUnit, eText, i), E!At(E!CallerUnit, eText, j)>>
<1>1. eSide \in {"User", "Kernel"} /\ eText \in Letters /\ eText # E!NoText
  BY EditTextsAre DEF Answering, E!CallTypes
<1>2. eBefore = [text |-> eText, sel |-> eBefore.sel, failed |-> eBefore.failed] BY DEF Answering, E!CallTypes
<1>3. eBefore.text = eText BY <1>2
<1>4. /\ eCall \in [msg : E!IsEditTextPositionMessage \cup {"none"}, w : Nat \cup {-1}, l : Nat \cup {-1}]
      /\ eCall.msg # "none"
  BY DEF Answering, E!CallTypes
<1>5. PICK i, j \in 0 .. Len(eText) : eBefore.sel = <<E!At(E!ControlUnit, eText, i), E!At(E!ControlUnit, eText, j)>>
  BY DEF Answering, E!CallTypes
<1>6. E!Theirs(eText, eBefore.sel) = <<E!At(E!CallerUnit, eText, i), E!At(E!CallerUnit, eText, j)>> BY <1>1, <1>5, TheirsAre
<1>7. /\ eCall.w \in Nat \cup {-1} /\ eCall.l \in Nat \cup {-1} /\ eCall.msg \in E!IsEditTextPositionMessage
  BY <1>4
<1> QED BY <1>1, <1>3, <1>5, <1>6, <1>7, OtherUnits

LEMMA GetSelRight ==
  ASSUME Answering, eCall.msg = "EM_GETSEL", NEW rest
  PROVE  RightReply(Says(rest))
<1>1. PICK i, j \in 0 .. Len(eText) :
         /\ eBefore.sel = <<E!At(E!ControlUnit, eText, i), E!At(E!ControlUnit, eText, j)>>
         /\ E!Theirs(eText, eBefore.sel) = <<E!At(E!CallerUnit, eText, i), E!At(E!CallerUnit, eText, j)>>
  BY Selection
<1>2. eSide \in {"User", "Kernel"} /\ eText \in Letters /\ eText # E!NoText /\ eBefore.text = eText
  BY Selection
<1>3. eCopy = eText /\ eGot.answer = eSel /\ eSel = eBefore.sel BY DEF Answering, E!Answered
<1>4. ASSUME NEW k \in 0 .. Len(eText) PROVE E!ConvertOut(eText, E!At(E!ControlUnit, eText, k)) = E!At(E!CallerUnit, eText, k)
  <2>1. IsAt(E!ControlUnit, eText, E!At(E!ControlUnit, eText, k), k) BY <1>2, OtherUnits, PositionsGrow DEF IsAt
  <2> QED BY <1>2, <2>1, Converted
<1>5. eGot.answer[1] = E!At(E!ControlUnit, eText, i) /\ eGot.answer[2] = E!At(E!ControlUnit, eText, j) BY <1>1, <1>3
<1>6. Says(rest) = <<E!ConvertOut(eText, eGot.answer[1]), E!ConvertOut(eText, eGot.answer[2])>>
  BY <1>3 DEF Says, E!UserfnEDIT_GETSEL, E!KernelfnEDIT_GETSEL
<1>7. Says(rest) = E!Theirs(eText, eBefore.sel) BY <1>1, <1>4, <1>5, <1>6
<1>8. Mine = E!Theirs(eText, eBefore.sel) BY <1>2 DEF Mine, E!Answer
<1> QED BY <1>7, <1>8 DEF RightReply

LEMMA SetSelRight ==
  ASSUME Answering, eCall.msg = "EM_SETSEL", NEW rest
  PROVE  RightReply(Says(rest))
<1>1. PICK i, j \in 0 .. Len(eText) :
         /\ eBefore.sel = <<E!At(E!ControlUnit, eText, i), E!At(E!ControlUnit, eText, j)>>
         /\ E!Theirs(eText, eBefore.sel) = <<E!At(E!CallerUnit, eText, i), E!At(E!CallerUnit, eText, j)>>
  BY Selection
<1>2. /\ eSide \in {"User", "Kernel"} /\ eText \in Letters /\ eText # E!NoText /\ eBefore.text = eText
      /\ eCall.w \in Nat \cup {-1} /\ eCall.l \in Nat \cup {-1}
      /\ E!CallerUnit \in Units /\ E!ControlUnit \in Units
  BY Selection
<1> DEFINE their == E!Theirs(eText, eBefore.sel)
<1>3. Mine = E!SetSel(E!CallerUnit, eText, their, eCall.w, eCall.l) BY <1>2 DEF Mine, E!Answer
<1> SUFFICES E!Theirs(eText, eSel) = E!SetSel(E!CallerUnit, eText, their, eCall.w, eCall.l) BY <1>3 DEF RightReply
<1>4. CASE eCall.w = -1
  <2>1. eSel = E!SetSel(E!ControlUnit, eText, eBefore.sel, -1, eCall.l) BY <1>4 DEF Answering, E!Answered
  <2>2. eSel = <<eBefore.sel[2], eBefore.sel[2]>> BY <2>1 DEF E!SetSel
  <2>3. eSel = <<E!At(E!ControlUnit, eText, j), E!At(E!ControlUnit, eText, j)>> BY <1>1, <2>2
  <2>4. E!Theirs(eText, eSel) = <<E!At(E!CallerUnit, eText, j), E!At(E!CallerUnit, eText, j)>> BY <1>2, <2>3, TheirsAre
  <2>5. E!SetSel(E!CallerUnit, eText, their, eCall.w, eCall.l) = <<their[2], their[2]>> BY <1>4 DEF E!SetSel
  <2>6. their[2] = E!At(E!CallerUnit, eText, j) BY <1>1
  <2> QED BY <2>4, <2>5, <2>6
<1>5. CASE eCall.w # -1
  <2>1. eSel = E!SetSel(E!ControlUnit, eText, eBefore.sel, E!ConvertIn(eText, eCall.w), E!ConvertIn(eText, eCall.l))
    BY <1>5 DEF Answering, E!Answered
  <2>2. PICK a \in 0 .. Len(eText) : IsAt(E!CallerUnit, eText, eCall.w, a)
    BY <1>2, <1>5, BoundariesAre DEF Answering
  <2>3. ASSUME NEW k \in 0 .. Len(eText) PROVE IsAt(E!ControlUnit, eText, E!At(E!ControlUnit, eText, k), k)
    BY <1>2, PositionsGrow DEF IsAt
  <2>4. E!ConvertIn(eText, eCall.w) = E!At(E!ControlUnit, eText, a) BY <1>2, <2>2, Converted
  <2>5. \E b \in 0 .. Len(eText) :
          /\ IsAt(E!CallerUnit, eText, eCall.l, b) \/ (eCall.l = -1 /\ b = Len(eText))
          /\ IsAt(E!ControlUnit, eText, E!ConvertIn(eText, eCall.l), b) \/ (E!ConvertIn(eText, eCall.l) = -1 /\ b = Len(eText))
    <3>1. CASE eCall.l = -1
      <4>1. E!ConvertIn(eText, eCall.l) = -1 BY <3>1 DEF E!ConvertIn
      <4>2. Len(eText) \in 0 .. Len(eText) BY <1>2, PositionsGrow
      <4> QED BY <3>1, <4>1, <4>2
    <3>2. CASE eCall.l # -1
      <4>1. PICK b \in 0 .. Len(eText) : IsAt(E!CallerUnit, eText, eCall.l, b)
        BY <1>2, <3>2, BoundariesAre DEF Answering
      <4>2. E!ConvertIn(eText, eCall.l) = E!At(E!ControlUnit, eText, b) BY <1>2, <4>1, Converted
      <4>3. IsAt(E!ControlUnit, eText, E!ConvertIn(eText, eCall.l), b) BY <2>3, <4>2
      <4> QED BY <4>1, <4>3
    <3> QED BY <3>1, <3>2
  <2>6. PICK b \in 0 .. Len(eText) :
          /\ IsAt(E!CallerUnit, eText, eCall.l, b) \/ (eCall.l = -1 /\ b = Len(eText))
          /\ IsAt(E!ControlUnit, eText, E!ConvertIn(eText, eCall.l), b) \/ (E!ConvertIn(eText, eCall.l) = -1 /\ b = Len(eText))
    BY <2>5
  <2>7. IsAt(E!ControlUnit, eText, E!ConvertIn(eText, eCall.w), a) BY <2>3, <2>4
  <2> DEFINE p == E!ConvertIn(eText, eCall.w)
             q == E!ConvertIn(eText, eCall.l)
             x == eCall.w
             y == eCall.l
             c == E!ControlUnit
  <2>8. /\ c \in Units /\ IsAt(c, eText, p, a)
        /\ IsAt(c, eText, q, b) \/ (q = -1 /\ b = Len(eText))
    BY <1>2, <2>6, <2>7
  <2>9. IsAt(E!CallerUnit, eText, x, a) /\ (IsAt(E!CallerUnit, eText, y, b) \/ (y = -1 /\ b = Len(eText)))
    BY <2>2, <2>6
  <2> HIDE DEF p, q, x, y, c, their
  <2>10. E!SetSel(c, eText, eBefore.sel, p, q) = IF a <= b THEN <<E!At(c, eText, a), E!At(c, eText, b)>>
                                             ELSE <<E!At(c, eText, b), E!At(c, eText, a)>>
    BY <1>2, <2>8, Selects
  <2>11. E!SetSel(E!CallerUnit, eText, their, x, y) =
           IF a <= b THEN <<E!At(E!CallerUnit, eText, a), E!At(E!CallerUnit, eText, b)>>
           ELSE <<E!At(E!CallerUnit, eText, b), E!At(E!CallerUnit, eText, a)>>
    BY <1>2, <2>9, Selects
  <2>12. eSel = E!SetSel(c, eText, eBefore.sel, p, q) BY <2>1 DEF p, q, c
  <2>13. CASE a <= b
    <3>1. eSel = <<E!At(E!ControlUnit, eText, a), E!At(E!ControlUnit, eText, b)>> BY <2>10, <2>12, <2>13 DEF c
    <3>2. E!Theirs(eText, eSel) = <<E!At(E!CallerUnit, eText, a), E!At(E!CallerUnit, eText, b)>> BY <1>2, <3>1, TheirsAre
    <3> QED BY <2>11, <2>13, <3>2 DEF x, y
  <2>14. CASE ~(a <= b)
    <3>1. eSel = <<E!At(E!ControlUnit, eText, b), E!At(E!ControlUnit, eText, a)>> BY <2>10, <2>12, <2>14 DEF c
    <3>2. E!Theirs(eText, eSel) = <<E!At(E!CallerUnit, eText, b), E!At(E!CallerUnit, eText, a)>> BY <1>2, <3>1, TheirsAre
    <3> QED BY <2>11, <2>14, <3>2 DEF x, y
  <2> QED BY <2>13, <2>14
<1> QED BY <1>4, <1>5

LEMMA LineIndexRight ==
  ASSUME Answering, eCall.msg = "EM_LINEINDEX", NEW rest
  PROVE  RightReply(Says(rest))
<1>1. PICK i, j \in 0 .. Len(eText) :
         /\ eBefore.sel = <<E!At(E!ControlUnit, eText, i), E!At(E!ControlUnit, eText, j)>>
         /\ E!Theirs(eText, eBefore.sel) = <<E!At(E!CallerUnit, eText, i), E!At(E!CallerUnit, eText, j)>>
  BY Selection
<1>2. /\ eSide \in {"User", "Kernel"} /\ eText \in Letters /\ eText # E!NoText /\ eBefore.text = eText
      /\ eCall.w \in Nat \cup {-1} /\ E!CallerUnit \in Units /\ E!ControlUnit \in Units
  BY Selection
<1> DEFINE their == E!Theirs(eText, eBefore.sel)
<1>3. /\ eGot.answer = E!LineIndex(E!ControlUnit, eText, eBefore.sel, eCall.w)
      /\ eCopy = eText \/ eGot.answer = -1
  BY DEF Answering, E!Answered
<1>4. Mine = E!LineIndex(E!CallerUnit, eText, their, eCall.w) BY <1>2 DEF Mine, E!Answer
<1>5. Says(rest) = E!ConvertOut(eCopy, eGot.answer) BY DEF Says, E!UserfnEDIT_LINEINDEX, E!KernelfnEDIT_LINEINDEX
<1> SUFFICES E!ConvertOut(eCopy, eGot.answer) = E!LineIndex(E!CallerUnit, eText, their, eCall.w)
  BY <1>4, <1>5 DEF RightReply
<1>6. ASSUME NEW k \in 0 .. Len(eText), eGot.answer = E!At(E!ControlUnit, eText, k)
      PROVE  E!ConvertOut(eCopy, eGot.answer) = E!At(E!CallerUnit, eText, k)
  <2>1. E!At(E!ControlUnit, eText, k) \in Nat BY <1>2, PositionsGrow
  <2>2. eCopy = eText BY <1>3, <1>6, <2>1
  <2>3. IsAt(E!ControlUnit, eText, E!At(E!ControlUnit, eText, k), k) BY <2>1 DEF IsAt
  <2> QED BY <1>2, <1>6, <2>2, <2>3, Converted
<1>7. CASE eCall.w = -1
  <2>1. eBefore.sel[2] = E!At(E!ControlUnit, eText, j) /\ their[2] = E!At(E!CallerUnit, eText, j) BY <1>1
  <2> HIDE DEF their
  <2>2. E!LineIndex(E!ControlUnit, eText, eBefore.sel, -1) = E!At(E!ControlUnit, eText, StartOf(eText, j))
    BY <1>2, <2>1, LineOfCaret
  <2>3. E!LineIndex(E!CallerUnit, eText, their, -1) = E!At(E!CallerUnit, eText, StartOf(eText, j))
    BY <1>2, <2>1, LineOfCaret
  <2>4. StartOf(eText, j) \in 0 .. Len(eText) BY <1>2, <2>1, LineOfCaret
  <2> QED BY <1>3, <1>6, <1>7, <2>2, <2>3, <2>4
<1>8. CASE eCall.w # -1 /\ eCall.w >= Cardinality(E!Starts(eText))
  <2>1. eGot.answer = -1 /\ E!LineIndex(E!CallerUnit, eText, their, eCall.w) = -1 BY <1>3, <1>8, SameSizes DEF E!LineIndex
  <2> QED BY <2>1 DEF E!ConvertOut
<1>9. CASE eCall.w # -1 /\ ~(eCall.w >= Cardinality(E!Starts(eText)))
  <2> DEFINE k == CHOOSE k \in E!Starts(eText) : Cardinality({x \in E!Starts(eText) : x < k}) = eCall.w
             w == eCall.w
  <2>1. eGot.answer = E!At(E!ControlUnit, eText, k) /\ E!LineIndex(E!CallerUnit, eText, their, eCall.w) = E!At(E!CallerUnit, eText, k)
    BY <1>3, <1>9, SameSizes DEF E!LineIndex
  <2>2. IsFiniteSet(E!Starts(eText))
    <3>1. Len(eText) \in Nat BY <1>2, PositionsGrow
    <3>2. IsFiniteSet(0 .. Len(eText)) BY <3>1, FS_Interval
    <3>3. E!Starts(eText) \in SUBSET (0 .. Len(eText)) BY <3>1 DEF E!Starts
    <3> QED BY <3>2, <3>3, FS_Subset
  <2>3. Cardinality(E!Starts(eText)) \in Nat BY <2>2, FS_CardinalityType
  <2>4. w \in Nat /\ w < Cardinality(E!Starts(eText)) BY <1>2, <1>9, <2>3
  <2>5. k = CHOOSE c \in E!Starts(eText) : Cardinality({x \in E!Starts(eText) : x < c}) = w OBVIOUS
  <2> HIDE DEF k, w
  <2>6. k \in 0 .. Len(eText) BY <1>2, <2>4, <2>5, IndexedLine
  <2> QED BY <1>6, <2>1, <2>6
<1> QED BY <1>7, <1>8, <1>9

(* The line of a length starts where the thunk says.                         *)
LEMMA LengthsAre ==
  ASSUME Answering, eCall.msg = "EM_LINELENGTH", E!OneLine
  PROVE  /\ eCopy = eText
         /\ \E k \in 0 .. Len(eText) :
              /\ E!LineStart = E!At(E!ControlUnit, eText, StartOf(eText, k))
              /\ eGot.answer = E!Size(E!ControlUnit, LineOf(eText, k))
              /\ Mine = E!Size(E!CallerUnit, LineOf(eText, k))
<1>1. PICK i, j \in 0 .. Len(eText) :
         /\ eBefore.sel = <<E!At(E!ControlUnit, eText, i), E!At(E!ControlUnit, eText, j)>>
         /\ E!Theirs(eText, eBefore.sel) = <<E!At(E!CallerUnit, eText, i), E!At(E!CallerUnit, eText, j)>>
  BY Selection
<1>2. /\ eSide \in {"User", "Kernel"} /\ eText \in Letters /\ eText # E!NoText /\ eBefore.text = eText
      /\ eCall.w \in Nat \cup {-1} /\ E!CallerUnit \in Units /\ E!ControlUnit \in Units
  BY Selection
<1> DEFINE their == E!Theirs(eText, eBefore.sel)
<1>3. /\ eGot.answer = E!LineLength(E!ControlUnit, eText, eBefore.sel, E!ConvertIn(eText, eCall.w))
      /\ eCopy = eText
  BY DEF Answering, E!Answered
<1>4. Mine = E!LineLength(E!CallerUnit, eText, their, eCall.w) BY <1>2 DEF Mine, E!Answer
<1>5. CASE eCall.w = -1
  <2>1. eBefore.sel[1] = eBefore.sel[2] BY <1>5 DEF E!OneLine
  <2>2. E!At(E!ControlUnit, eText, i) = E!At(E!ControlUnit, eText, j) BY <1>1, <2>1
  <2>3. i = j
    <3>1. /\ E!At(E!ControlUnit, eText, i) \in Nat /\ i \in Nat /\ j \in Nat
          /\ i < j => E!At(E!ControlUnit, eText, i) < E!At(E!ControlUnit, eText, j)
          /\ j < i => E!At(E!ControlUnit, eText, j) < E!At(E!ControlUnit, eText, i)
      BY <1>2, PositionsGrow
    <3> QED BY <2>2, <3>1
  <2>4. E!ConvertIn(eText, eCall.w) = -1 BY <1>5 DEF E!ConvertIn
  <2>5. eGot.caret = E!LineIndex(E!ControlUnit, eText, eBefore.sel, -1) BY <1>5 DEF Answering, E!Answered
  <2>6. eBefore.sel[2] = E!At(E!ControlUnit, eText, j) BY <1>1
  <2> DEFINE s == eBefore.sel
             c == E!ControlUnit
             d == E!CallerUnit
  <2>7. /\ s = <<E!At(c, eText, j), E!At(c, eText, j)>> /\ their = <<E!At(d, eText, j), E!At(d, eText, j)>>
        /\ s[2] = E!At(c, eText, j) /\ c \in Units /\ d \in Units
    BY <1>1, <1>2, <2>3
  <2> HIDE DEF s, c, d, their
  <2>8. E!LineLength(c, eText, s, -1) = E!Size(c, LineOf(eText, j)) BY <1>2, <2>7, LengthOfLine
  <2>9. E!LineLength(d, eText, their, -1) = E!Size(d, LineOf(eText, j)) BY <1>2, <2>7, LengthOfLine
  <2>10. E!LineIndex(c, eText, s, -1) = E!At(c, eText, StartOf(eText, j)) /\ StartOf(eText, j) \in 0 .. Len(eText)
    BY <1>2, <2>7, LineOfCaret
  <2>11. E!At(c, eText, StartOf(eText, j)) \in Nat BY <1>2, <2>7, <2>10, PositionsGrow
  <2>12. eGot.caret = E!At(c, eText, StartOf(eText, j)) BY <2>5, <2>10 DEF c, s
  <2>13. E!LineStart = eGot.caret BY <1>5, <2>11, <2>12 DEF E!LineStart
  <2>14. eGot.answer = E!Size(c, LineOf(eText, j)) BY <1>3, <2>4, <2>8 DEF c, s
  <2>15. Mine = E!Size(d, LineOf(eText, j)) BY <1>4, <1>5, <2>9 DEF d
  <2> QED BY <1>3, <2>12, <2>13, <2>14, <2>15 DEF c, d
<1>6. CASE eCall.w # -1
  <2>1. eCall.w \in Nat /\ eCall.w <= E!Size(E!CallerUnit, eText) BY <1>2, <1>6 DEF E!OneLine
  <2>2. PICK k \in 0 .. Len(eText) : IsAt(E!CallerUnit, eText, eCall.w, k)
    BY <1>2, <1>6, BoundariesAre DEF Answering
  <2>3. eCall.w = E!At(E!CallerUnit, eText, k)
    <3>1. E!Size(E!CallerUnit, eText) \in Nat /\ E!At(E!CallerUnit, eText, Len(eText)) = E!Size(E!CallerUnit, eText)
      BY <1>2, PositionsGrow
    <3> QED BY <2>1, <2>2, <3>1 DEF IsAt
  <2>4. E!ConvertIn(eText, eCall.w) = E!At(E!ControlUnit, eText, k) BY <1>2, <2>2, Converted
  <2> DEFINE s == eBefore.sel
             c == E!ControlUnit
             d == E!CallerUnit
  <2>5. c \in Units /\ d \in Units BY <1>2
  <2>6. eGot.answer = E!LineLength(c, eText, s, E!At(c, eText, k)) BY <1>3, <2>4
  <2>7. Mine = E!LineLength(d, eText, their, E!At(d, eText, k)) BY <1>4, <2>3
  <2> HIDE DEF s, c, d, their
  <2>8. E!LineLength(c, eText, s, E!At(c, eText, k)) = E!Size(c, LineOf(eText, k)) BY <1>2, <2>5, LengthOfLine
  <2>9. E!LineLength(d, eText, their, E!At(d, eText, k)) = E!Size(d, LineOf(eText, k)) BY <1>2, <2>5, LengthOfLine
  <2>10. E!LineStart = E!At(c, eText, StartOf(eText, k))
    <3>1. StartOf(eText, k) \in 0 .. Len(eText)
      <4>1. k \in Nat /\ Len(eText) \in Nat BY <1>2, <2>5, PositionsGrow
      <4>2. StartOf(eText, k) \in 0 .. k BY <1>2, LineStartsBefore DEF StartOf
      <4> QED BY <4>1, <4>2
    <3>2. IsAt("bytes", eText, E!At("bytes", eText, k), k) BY <1>2, PositionsGrow DEF IsAt, Units
    <3>3. E!AnsiByteOffsetToCharOffset(eText, E!At("bytes", eText, k)) = k BY <1>2, <3>2, OffsetsAre
    <3>4. CASE eSide = "User"
      <4>1. c = "bytes" BY <1>2, <3>4, OtherUnits DEF c
      <4>2. E!LineStart = E!AnsiLineStartByteFromOffset(eText, E!At("bytes", eText, k))
        BY <1>3, <1>6, <2>4, <3>4, <4>1 DEF E!LineStart, c
      <4>3. E!LineStart = E!Bytes(E!Prefix(eText, StartOf(eText, k)))
        BY <3>3, <4>2 DEF E!AnsiLineStartByteFromOffset, StartOf
      <4> QED BY <4>1, <4>3 DEF E!At, E!Size
    <3>5. CASE eSide = "Kernel"
      <4>1. c = "chars" BY <1>2, <3>5, OtherUnits DEF c
      <4>2. E!At("chars", eText, k) = k /\ E!At("chars", eText, StartOf(eText, k)) = StartOf(eText, k)
        BY <1>2, <3>1, OffsetsAre
      <4>3. E!LineStart = E!UnicodeLineStartCharFromOffset(eText, k)
        BY <1>3, <1>6, <2>4, <3>5, <4>1, <4>2 DEF E!LineStart, c
      <4> QED BY <4>1, <4>2, <4>3 DEF StartOf
    <3> QED BY <1>2, <3>4, <3>5
  <2> QED BY <1>3, <2>6, <2>7, <2>8, <2>9, <2>10 DEF c, d
<1> QED BY <1>5, <1>6

LEMMA LineLengthRight ==
  ASSUME Answering, eCall.msg = "EM_LINELENGTH", NEW rest
  PROVE  RightReply(Says(rest))
<1> SUFFICES ASSUME E!OneLine, eSide = "Kernel" => E!LastLine PROVE Says(rest) = Mine BY DEF RightReply
<1>1. /\ eSide \in {"User", "Kernel"} /\ eText \in Letters /\ eText # E!NoText
      /\ E!CallerUnit \in Units /\ E!ControlUnit \in Units
  BY Selection
<1>2. PICK k \in 0 .. Len(eText) :
        /\ E!LineStart = E!At(E!ControlUnit, eText, StartOf(eText, k))
        /\ eGot.answer = E!Size(E!ControlUnit, LineOf(eText, k))
        /\ Mine = E!Size(E!CallerUnit, LineOf(eText, k))
  BY LengthsAre
<1>3. eCopy = eText BY LengthsAre
<1> DEFINE a == StartOf(eText, k)
           e == E!LineEnd(eText, a)
           u == SubSeq(eText, a + 1, Len(eText))
           l == LineOf(eText, k)
<1>4. Len(eText) \in Nat /\ k \in Nat BY <1>1, PositionsGrow
<1>5. a \in 0 .. k BY <1>1, LineStartsBefore DEF StartOf
<1>6. a \in 0 .. Len(eText) /\ a \in Nat BY <1>4, <1>5
<1>7. e \in a .. Len(eText) BY <1>1, <1>6, LineEndsAfter
<1>8. l = SubSeq(eText, a + 1, e) BY DEF LineOf
<1> HIDE DEF a, e, l
<1>9. eText \in Seq({"single", "double", "line"}) BY <1>1 DEF Letters
<1>10. l \in Letters /\ Len(l) = e - a BY <1>4, <1>6, <1>7, <1>8, <1>9 DEF Letters
<1>11. CASE eSide = "User"
  <2>1. E!ControlUnit = "bytes" /\ E!CallerUnit = "chars" BY <1>1, <1>11, OtherUnits
  <2>2. u \in Letters /\ Len(u) = Len(eText) - a BY <1>4, <1>6, <1>9 DEF Letters
  <2>3. e - a \in 0 .. Len(u) BY <1>4, <1>6, <1>7, <2>2
  <2>4. l = E!Prefix(u, e - a)
    <3> DEFINE o == e - a
               p == E!Prefix(u, o)
    <3>1. o \in 0 .. Len(u) /\ p = Upto(u, o) BY <2>3, LettersCount
    <3>2. u \in Seq({"single", "double", "line"}) BY <2>2 DEF Letters
    <3> HIDE DEF o, p, u
    <3>3. p \in Seq({"single", "double", "line"}) /\ Len(p) = o /\ \A x \in 1 .. o : p[x] = u[x]
      BY <3>1, <3>2, FrontIs
    <3> USE DEF o, u
    <3>4. \A x \in 1 .. e - a : l[x] = p[x]
      <4> TAKE x \in 1 .. e - a
      <4>1. l[x] = eText[a + x] BY <1>4, <1>6, <1>7, <1>8, <1>9
      <4>2. u[x] = eText[a + x] BY <1>4, <1>6, <1>7, <1>9
      <4> QED BY <3>3, <4>1, <4>2
    <3>5. l = p BY <1>10, <3>3, <3>4 DEF Letters
    <3> QED BY <3>5 DEF p
  <2>5. E!At("bytes", u, e - a) = E!Bytes(l) BY <2>4 DEF E!At, E!Size
  <2> DEFINE n == e - a
             b == E!Bytes(l)
  <2>6. n \in 0 .. Len(u) /\ b = E!At("bytes", u, n) BY <2>3, <2>5
  <2> HIDE DEF n, b, u
  <2>7. b \in Nat BY <2>2, <2>6, PositionsGrow DEF Units
  <2>8. IsAt("bytes", u, b, n) BY <2>6, <2>7 DEF IsAt
  <2>9. E!AnsiByteOffsetToCharOffset(u, b) = n BY <2>2, <2>6, <2>8, OffsetsAre
  <2>10. E!CharAt("bytes", eText, E!LineStart) = a
    <3>1. E!LineStart = E!At("bytes", eText, a) BY <1>2, <2>1 DEF a
    <3>2. IsAt("bytes", eText, E!LineStart, a) BY <1>1, <1>6, <3>1, PositionsGrow DEF IsAt, Units
    <3> QED BY <1>1, <1>6, <3>2, CharIsAt DEF Units
  <2>11. eGot.answer = b /\ Mine = n BY <1>2, <1>10, <2>1 DEF E!Size, l, b, n
  <2>12. Says(rest) = E!UserfnEDIT_LINELENGTH(eText, E!LineStart, eGot.answer) BY <1>1, <1>3, <1>11 DEF Says
  <2>13. Says(rest) = E!AnsiByteOffsetToCharOffset(u, b)
    BY <1>1, <2>10, <2>11, <2>12 DEF E!UserfnEDIT_LINELENGTH, u
  <2> QED BY <2>9, <2>11, <2>13
<1>12. CASE eSide = "Kernel"
  <2>1. E!ControlUnit = "chars" /\ E!CallerUnit = "bytes" BY <1>1, <1>12, OtherUnits
  <2>2. E!LineStart = a
    <3>1. E!LineStart = E!At("chars", eText, a) BY <1>2, <2>1 DEF a
    <3> QED BY <1>1, <1>6, <3>1, OffsetsAre
  <2>3. eGot.answer = e - a BY <1>2, <1>10, <2>1 DEF E!Size, l
  <2>4. a + eGot.answer = e BY <1>6, <1>7, <2>3
  <2>5. E!LineStart + eGot.answer = Len(eText) BY <1>3, <1>12 DEF E!LastLine
  <2>6. Says(rest) = E!KernelfnEDIT_LINELENGTH(eText, E!LineStart, eGot.answer, rest) BY <1>1, <1>3, <1>12 DEF Says
  <2>7. Says(rest) = E!Bytes(SubSeq(eText, E!LineStart + 1, E!LineStart + eGot.answer))
    <3>1. Len(eText) \in Nat BY <1>1, PositionsGrow
    <3>2. E!LineStart + eGot.answer >= Len(eText) BY <2>5, <3>1
    <3> QED BY <1>1, <2>5, <2>6, <3>2 DEF E!KernelfnEDIT_LINELENGTH
  <2>8. Says(rest) = E!Bytes(l) BY <1>8, <2>2, <2>4, <2>7
  <2>9. Mine = E!Bytes(l) BY <1>2, <2>1 DEF E!Size, l
  <2> QED BY <2>8, <2>9
<1> QED BY <1>1, <1>11, <1>12

LEMMA RepliesRight ==
  ASSUME Answering, NEW rest
  PROVE  RightReply(Says(rest))
<1>1. eCall.msg \in {"EM_GETSEL", "EM_SETSEL", "EM_LINEINDEX", "EM_LINELENGTH"}
  BY Selection DEF E!IsEditTextPositionMessage
<1> QED BY <1>1, GetSelRight, SetSelRight, LineIndexRight, LineLengthRight

(* No step but the sending changes the text or the call.                     *)
Calling == <<eSide, eText, eCall>>
LEMMA TypesKept ==
  ASSUME E!CallTypes, UNCHANGED Calling,
         eBefore' = [eBefore EXCEPT !.failed = eBefore'.failed], eBefore'.failed \in BOOLEAN,
         eGot' = [answer |-> eGot'.answer, caret |-> eGot'.caret]
  PROVE  E!CallTypes'
<1>1. eBefore = [text |-> eText, sel |-> eBefore.sel, failed |-> eBefore.failed] BY DEF E!CallTypes
<1> DEFINE f == eBefore'.failed
<1>2. eBefore' = [eBefore EXCEPT !.failed = f] /\ f \in BOOLEAN OBVIOUS
<1> HIDE DEF f
<1>3. eBefore' = [text |-> eText, sel |-> eBefore.sel, failed |-> f] BY <1>1, <1>2
<1>4. eBefore'.sel = eBefore.sel /\ eBefore'.failed = f /\ eBefore'.text = eText BY <1>3
<1>5. eBefore' = [text |-> eText', sel |-> eBefore'.sel, failed |-> eBefore'.failed] BY <1>3, <1>4 DEF Calling
<1> HIDE DEF f
<1> QED BY <1>2, <1>4, <1>5 DEF E!CallTypes, Calling, E!ControlUnit

LEMMA AnsweredKept ==
  ASSUME UNCHANGED Calling, eSel' = eSel, eBefore'.sel = eBefore.sel, eGot'.answer = eGot.answer
  PROVE  E!Answered' = E!Answered /\ E!CapturesFirst' = E!CapturesFirst
BY DEF E!Answered, E!CapturesFirst, Calling, E!ControlUnit, E!ConvertIn

LEMMA InitEdit ==
  ASSUME E!Init
  PROVE  E!EditInv
<1>1. E!CallTypes BY DEF E!Init, E!CallTypes, E!NoCall
<1>2. ePc = "idle" /\ ~eBefore.failed /\ eSel = eBefore.sel BY DEF E!Init
<1> QED BY <1>1, <1>2 DEF E!EditInv, E!Stages, E!Transparent

LEMMA PositionSent ==
  ASSUME E!EditInv, NEW msg \in E!IsEditTextPositionMessage,
         NEW w \in -1 .. E!Size(E!CallerUnit, eText) + 1, NEW l \in -1 .. E!Size(E!CallerUnit, eText) + 1,
         E!Send(msg, w, l)
  PROVE  E!EditInv'
<1>1. /\ E!CallTypes /\ ePc = "idle" /\ eSel = eBefore.sel
  BY DEF E!EditInv, E!Send, E!Stages
<1>2. eSide \in {"User", "Kernel"} /\ eText \in E!Texts BY <1>1 DEF E!CallTypes
<1>3. E!Size(E!CallerUnit, eText) \in Nat BY <1>2, EditTextsAre, OtherUnits, PositionsGrow
<1>4. w \in Nat \cup {-1} /\ l \in Nat \cup {-1} BY <1>3
<1>5. /\ eCall' = [msg |-> msg, w |-> w, l |-> l] /\ eBefore' = [text |-> eText, sel |-> eSel, failed |-> FALSE]
      /\ ePc' = IF msg = "EM_LINELENGTH" \/ (msg = "EM_SETSEL" /\ w # -1) THEN "capture" ELSE "ask"
      /\ eSide' = eSide /\ eText' = eText /\ eSel' = eSel /\ eCopy' = eCopy /\ eGot' = eGot
  BY DEF E!Send
<1>6. E!CallTypes' BY <1>1, <1>2, <1>4, <1>5 DEF E!CallTypes, E!ControlUnit
<1>7. /\ eCall'.msg = msg /\ eCall'.w = w /\ eBefore'.sel = eSel /\ eBefore'.failed = FALSE /\ msg # "none"
  BY <1>5 DEF E!IsEditTextPositionMessage
<1>8. ePc' \in {"capture", "ask"} /\ (ePc' = "capture" <=> E!CapturesFirst') BY <1>5, <1>7 DEF E!CapturesFirst
<1>9. E!Stages' BY <1>5, <1>7, <1>8 DEF E!Stages
<1> QED BY <1>6, <1>7, <1>8, <1>9 DEF E!EditInv, E!Transparent

LEMMA CaptureKeeps ==
  ASSUME E!EditInv, NEW t \in {eText, E!NoText}, E!Capture(t)
  PROVE  E!EditInv'
<1>1. /\ E!CallTypes /\ ePc = "capture" /\ eCall.msg # "none" BY DEF E!EditInv, E!Capture
<1>2. /\ eCopy' = t /\ eBefore' = [eBefore EXCEPT !.failed = eBefore.failed \/ t = E!NoText]
      /\ ePc' = IF eCall.msg \in {"EM_LINELENGTH", "EM_SETSEL"} THEN "ask" ELSE "reply"
      /\ eSide' = eSide /\ eText' = eText /\ eSel' = eSel /\ eCall' = eCall /\ eGot' = eGot
  BY DEF E!Capture
<1>3. eBefore = [text |-> eText, sel |-> eBefore.sel, failed |-> eBefore.failed] /\ eBefore.failed \in BOOLEAN
  BY <1>1 DEF E!CallTypes
<1>4. eBefore'.failed = (eBefore.failed \/ t = E!NoText) /\ eBefore'.sel = eBefore.sel /\ eBefore'.failed \in BOOLEAN
  BY <1>2, <1>3
<1>5. E!CallTypes'
  <2>1. eGot = [answer |-> eGot.answer, caret |-> eGot.caret] BY <1>1 DEF E!CallTypes
  <2>2. eBefore' = [eBefore EXCEPT !.failed = eBefore'.failed] BY <1>2, <1>4
  <2>3. eGot' = [answer |-> eGot'.answer, caret |-> eGot'.caret] BY <1>2, <2>1
  <2> QED BY <1>1, <1>2, <1>4, <2>2, <2>3, TypesKept DEF Calling
<1>6. ePc' \in {"ask", "reply"} /\ eCall'.msg # "none" BY <1>1, <1>2
<1>7. ASSUME ~eBefore'.failed PROVE E!Stages'
  <2>1. ~eBefore.failed /\ eCopy' = eText BY <1>2, <1>3, <1>4, <1>7
  <2>2. E!Stages BY <2>1 DEF E!EditInv
  <2>3. IF E!CapturesFirst THEN eSel = eBefore.sel ELSE eCall.msg # "EM_SETSEL" /\ E!Answered
    BY <1>1, <2>2 DEF E!Stages
  <2>4. E!Answered' = E!Answered /\ E!CapturesFirst' = E!CapturesFirst BY <1>2, <1>4, AnsweredKept DEF Calling
  <2>5. CASE eCall.msg \in {"EM_LINELENGTH", "EM_SETSEL"}
    <3>1. E!CapturesFirst BY <2>3, <2>5 DEF E!CapturesFirst
    <3>2. eSel = eBefore.sel /\ ePc' = "ask" BY <1>2, <2>3, <2>5, <3>1
    <3> QED BY <1>2, <1>4, <2>1, <3>2 DEF E!Stages
  <2>6. CASE eCall.msg \notin {"EM_LINELENGTH", "EM_SETSEL"}
    <3>1. ~E!CapturesFirst BY <2>6 DEF E!CapturesFirst
    <3>2. E!Answered' /\ ePc' = "reply" BY <1>2, <2>3, <2>4, <2>6, <3>1
    <3> QED BY <1>1, <1>2, <2>1, <2>6, <3>2 DEF E!Stages
  <2> QED BY <2>5, <2>6
<1> QED BY <1>5, <1>6, <1>7 DEF E!EditInv, E!Transparent

LEMMA AskKeeps ==
  ASSUME E!EditInv, E!Ask
  PROVE  E!EditInv'
<1>1. /\ E!CallTypes /\ ePc = "ask" /\ eCall.msg # "none" BY DEF E!EditInv, E!Ask
<1> DEFINE c == CASE eCall.msg = "EM_SETSEL" /\ eSide = "User" ->
                       LET p == E!ConvertEditSelToAnsiByteOffsets(eCopy, eCall.w, eCall.l)
                       IN  [eCall EXCEPT !.w = p[1], !.l = p[2]]
                  [] eCall.msg = "EM_SETSEL" /\ eSide = "Kernel" ->
                       LET p == E!KernelfnEDIT_SETSEL(eCopy, eCall.w, eCall.l)
                       IN  [eCall EXCEPT !.w = p[1], !.l = p[2]]
                  [] eCall.msg = "EM_LINELENGTH" -> [eCall EXCEPT !.w = E!ConvertIn(eCopy, eCall.w)]
                  [] OTHER -> eCall
           a == E!Answer(E!ControlUnit, eText, eSel, c)
<1>2. /\ eGot' = [eGot EXCEPT !.answer = a]
      /\ eSel' = IF eCall.msg = "EM_SETSEL" THEN a ELSE eSel
      /\ ePc' = CASE eCall.msg = "EM_SETSEL" \/ (eCall.msg = "EM_LINEINDEX" /\ a = -1) -> "reply"
                 [] eCall.msg = "EM_LINELENGTH" ->
                      IF eCall.w = -1 /\ eCopy # E!NoText THEN "askLine" ELSE "reply"
                 [] OTHER -> "capture"
      /\ eSide' = eSide /\ eText' = eText /\ eCall' = eCall /\ eCopy' = eCopy /\ eBefore' = eBefore
  BY DEF E!Ask
<1>3. /\ eGot = [answer |-> eGot.answer, caret |-> eGot.caret] /\ eSide \in {"User", "Kernel"}
      /\ eBefore = [text |-> eText, sel |-> eBefore.sel, failed |-> eBefore.failed] /\ eBefore.failed \in BOOLEAN
      /\ eCall \in [msg : E!IsEditTextPositionMessage \cup {"none"}, w : Nat \cup {-1}, l : Nat \cup {-1}]
      /\ eText # E!NoText
  BY <1>1, EditTextsAre DEF E!CallTypes
<1>4. eCall.msg \in {"EM_GETSEL", "EM_SETSEL", "EM_LINEINDEX", "EM_LINELENGTH"}
  BY <1>1, <1>3 DEF E!IsEditTextPositionMessage
<1>5. ASSUME E!CapturesFirst => eCopy = eText
      PROVE  a = CASE eCall.msg = "EM_GETSEL" -> eSel
                   [] eCall.msg = "EM_SETSEL" ->
                        IF eCall.w = -1 THEN E!SetSel(E!ControlUnit, eText, eSel, -1, eCall.l)
                        ELSE E!SetSel(E!ControlUnit, eText, eSel, E!ConvertIn(eText, eCall.w), E!ConvertIn(eText, eCall.l))
                   [] eCall.msg = "EM_LINEINDEX" -> E!LineIndex(E!ControlUnit, eText, eSel, eCall.w)
                   [] eCall.msg = "EM_LINELENGTH" -> E!LineLength(E!ControlUnit, eText, eSel, E!ConvertIn(eText, eCall.w))
  <2>1. CASE eCall.msg = "EM_SETSEL"
    <3>1. c = IF eCall.w = -1 THEN eCall
              ELSE [eCall EXCEPT !.w = E!ConvertIn(eCopy, eCall.w), !.l = E!ConvertIn(eCopy, eCall.l)]
      BY <1>3, <2>1 DEF E!ConvertEditSelToAnsiByteOffsets, E!KernelfnEDIT_SETSEL
    <3>2. c.msg = "EM_SETSEL" BY <1>3, <2>1, <3>1
    <3>3. a = E!SetSel(E!ControlUnit, eText, eSel, c.w, c.l) BY <2>1, <3>2 DEF E!Answer
    <3>4. eCall.w # -1 => eCopy = eText /\ c.w = E!ConvertIn(eCopy, eCall.w) /\ c.l = E!ConvertIn(eCopy, eCall.l)
      BY <1>3, <1>5, <2>1, <3>1 DEF E!CapturesFirst
    <3>5. eCall.w = -1 => c.w = -1 /\ c.l = eCall.l BY <3>1
    <3> HIDE DEF a, c
    <3> QED BY <2>1, <3>3, <3>4, <3>5
  <2>2. CASE eCall.msg = "EM_LINELENGTH"
    <3>1. c.msg = "EM_LINELENGTH" /\ c.w = E!ConvertIn(eCopy, eCall.w) BY <1>3, <2>2
    <3>2. eCopy = eText BY <1>5, <2>2 DEF E!CapturesFirst
    <3> HIDE DEF c
    <3> QED BY <2>2, <3>1, <3>2 DEF E!Answer
  <2>3. CASE eCall.msg \in {"EM_GETSEL", "EM_LINEINDEX"}
    <3>1. c = eCall BY <2>3
    <3> HIDE DEF c
    <3> QED BY <2>3, <3>1 DEF E!Answer
  <2> QED BY <1>4, <2>1, <2>2, <2>3
<1> HIDE DEF a, c
<1>6. eGot' = [answer |-> eGot'.answer, caret |-> eGot'.caret] /\ eGot'.answer = a BY <1>2, <1>3
<1>7. E!CallTypes'
  <2>1. eBefore' = [eBefore EXCEPT !.failed = eBefore'.failed] /\ eBefore'.failed \in BOOLEAN BY <1>2, <1>3
  <2> QED BY <1>1, <1>2, <1>6, <2>1, TypesKept DEF Calling
<1>8. ePc' \in {"reply", "askLine", "capture"} /\ eCall'.msg # "none" BY <1>1, <1>2, <1>4
<1>9. ASSUME ~eBefore'.failed PROVE E!Stages'
  <2>1. E!Stages BY <1>2, <1>9 DEF E!EditInv
  <2>2. eSel = eBefore.sel /\ (E!CapturesFirst => eCopy = eText) BY <1>1, <2>1 DEF E!Stages
  <2>3. E!Answered'
    <3>1. CASE eCall.msg = "EM_SETSEL"
      <4>1. eSel' = a BY <1>2, <3>1
      <4>2. eCall'.msg = "EM_SETSEL" /\ eBefore'.sel = eBefore.sel BY <1>2, <3>1
      <4>3. a = IF eCall.w = -1 THEN E!SetSel(E!ControlUnit, eText, eSel, -1, eCall.l)
                ELSE E!SetSel(E!ControlUnit, eText, eSel, E!ConvertIn(eText, eCall.w), E!ConvertIn(eText, eCall.l))
        BY <1>5, <2>2, <3>1
      <4> QED BY <1>2, <2>2, <4>1, <4>2, <4>3 DEF E!Answered, E!ControlUnit, E!ConvertIn
    <3>2. CASE eCall.msg \in {"EM_GETSEL", "EM_LINEINDEX", "EM_LINELENGTH"}
      <4>1. eSel' = eSel /\ eBefore'.sel = eBefore.sel BY <1>2, <3>2
      <4>2. /\ eCall.msg = "EM_GETSEL" => a = eSel
            /\ eCall.msg = "EM_LINEINDEX" => a = E!LineIndex(E!ControlUnit, eText, eSel, eCall.w)
            /\ eCall.msg = "EM_LINELENGTH" => a = E!LineLength(E!ControlUnit, eText, eSel, E!ConvertIn(eText, eCall.w))
        BY <1>5, <2>2, <3>2
      <4> QED BY <1>2, <1>6, <2>2, <3>2, <4>1, <4>2 DEF E!Answered, E!ControlUnit, E!ConvertIn
    <3> QED BY <1>4, <3>1, <3>2
  <2>4. CASE eCall.msg = "EM_SETSEL"
    <3>1. ePc' = "reply" /\ eCall'.msg = "EM_SETSEL" BY <1>2, <2>4
    <3> QED BY <2>3, <3>1 DEF E!Stages
  <2>5. CASE eCall.msg = "EM_LINELENGTH"
    <3>1. eCopy' = eText' BY <1>2, <2>2, <2>5 DEF E!CapturesFirst
    <3>2. ePc' = (IF eCall.w = -1 THEN "askLine" ELSE "reply") /\ eCall' = eCall
      BY <1>2, <1>3, <2>5, <3>1
    <3> QED BY <2>3, <2>5, <3>1, <3>2 DEF E!Stages
  <2>6. CASE eCall.msg \in {"EM_GETSEL", "EM_LINEINDEX"}
    <3>1. /\ ePc' = IF eCall.msg = "EM_LINEINDEX" /\ a = -1 THEN "reply" ELSE "capture"
          /\ eCall' = eCall
      BY <1>2, <2>6
    <3>2. ~E!CapturesFirst' BY <2>6, <3>1 DEF E!CapturesFirst
    <3> QED BY <1>6, <2>3, <2>6, <3>1, <3>2 DEF E!Stages
  <2> QED BY <1>4, <2>4, <2>5, <2>6
<1> QED BY <1>7, <1>8, <1>9 DEF E!EditInv, E!Transparent

LEMMA AskLineKeeps ==
  ASSUME E!EditInv, E!AskLine
  PROVE  E!EditInv'
<1>1. /\ E!CallTypes /\ ePc = "askLine" /\ eCall.msg # "none" BY DEF E!EditInv, E!AskLine
<1>2. /\ eGot' = [eGot EXCEPT !.caret = E!LineIndex(E!ControlUnit, eText, eSel, -1)] /\ ePc' = "reply"
      /\ eSide' = eSide /\ eText' = eText /\ eSel' = eSel /\ eCall' = eCall /\ eCopy' = eCopy /\ eBefore' = eBefore
  BY DEF E!AskLine
<1>3. /\ eGot = [answer |-> eGot.answer, caret |-> eGot.caret]
      /\ eBefore = [text |-> eText, sel |-> eBefore.sel, failed |-> eBefore.failed] /\ eBefore.failed \in BOOLEAN
  BY <1>1 DEF E!CallTypes
<1>4. /\ eGot' = [answer |-> eGot'.answer, caret |-> eGot'.caret] /\ eGot'.answer = eGot.answer
      /\ eGot'.caret = E!LineIndex(E!ControlUnit, eText, eSel, -1)
  BY <1>2, <1>3
<1>5. E!CallTypes'
  <2>1. eBefore' = [eBefore EXCEPT !.failed = eBefore'.failed] /\ eBefore'.failed \in BOOLEAN BY <1>2, <1>3
  <2> QED BY <1>1, <1>2, <1>4, <2>1, TypesKept DEF Calling
<1>6. ASSUME ~eBefore'.failed PROVE E!Stages'
  <2>1. E!Stages BY <1>2, <1>6 DEF E!EditInv
  <2>2. eCall.msg = "EM_LINELENGTH" /\ E!Answered /\ eCopy = eText BY <1>1, <2>1 DEF E!Stages
  <2>3. E!Answered' BY <1>2, <1>4, <2>2, AnsweredKept DEF Calling
  <2>4. eGot'.caret = E!LineIndex(E!ControlUnit, eText, eSel, -1)' BY <1>2, <1>4 DEF E!ControlUnit
  <2> QED BY <1>1, <1>2, <2>2, <2>3, <2>4 DEF E!Stages
<1> QED BY <1>1, <1>2, <1>5, <1>6 DEF E!EditInv, E!Transparent

LEMMA ReplyKeeps ==
  ASSUME E!EditInv, E!Reply
  PROVE  E!EditInv'
<1>1. /\ E!CallTypes /\ ePc = "reply" /\ eCall.msg # "none" BY DEF E!EditInv, E!Reply
<1>6. PICK rest : eReply' = Says(rest) BY DEF E!Reply, Says
<1>2. /\ eReply' = Says(rest) /\ ePc' = "done"
      /\ eSide' = eSide /\ eText' = eText /\ eSel' = eSel /\ eCall' = eCall /\ eCopy' = eCopy /\ eGot' = eGot
      /\ eBefore' = eBefore
  BY <1>6 DEF E!Reply
<1>3. E!CallTypes' BY <1>1, <1>2 DEF E!CallTypes, E!ControlUnit
<1>4. E!Stages' BY <1>2 DEF E!Stages
<1>5. E!Transparent'
  <2>1. E!CallerUnit' = E!CallerUnit /\ E!ControlUnit' = E!ControlUnit BY <1>2 DEF E!CallerUnit, E!ControlUnit
  <2>2. /\ E!Boundary(eCall.w)' = E!Boundary(eCall.w) /\ E!Boundary(eCall.l)' = E!Boundary(eCall.l)
    BY <1>2, <2>1 DEF E!Boundary
  <2>3. Mine' = Mine /\ E!Theirs(eText, eSel)' = E!Theirs(eText, eSel) BY <1>2, <2>1 DEF Mine, E!Theirs
  <2>4. E!OneLine' = E!OneLine /\ E!LastLine' = E!LastLine
    BY <1>2, <2>1 DEF E!OneLine, E!LastLine, E!LineStart, E!ConvertIn
  <2>5. ASSUME ~eBefore.failed, E!Boundary(eCall.w), E!Boundary(eCall.l) PROVE RightReply(eReply)'
    <3>1. E!Stages BY <2>5 DEF E!EditInv
    <3>2. Answering BY <1>1, <2>5, <3>1 DEF E!Stages, Answering
    <3>3. RightReply(Says(rest)) BY <3>2, RepliesRight
    <3> QED BY <1>2, <2>3, <2>4, <3>3 DEF RightReply
  <2>6. RightReply(eReply)' =>
          LET mine == E!Answer(E!CallerUnit, eBefore.text, E!Theirs(eBefore.text, eBefore.sel), eCall)'
          IN  CASE eCall'.msg = "EM_SETSEL" -> E!Theirs(eText, eSel)' = mine
                [] eCall'.msg = "EM_LINELENGTH" /\ ~(E!OneLine /\ (eSide = "Kernel" => E!LastLine))' -> TRUE
                [] OTHER -> eReply' = mine
    BY DEF RightReply, Mine
  <2> QED BY <1>2, <2>2, <2>5, <2>6 DEF E!Transparent
<1> QED BY <1>1, <1>2, <1>3, <1>4, <1>5 DEF E!EditInv

LEMMA EditStep ==
  ASSUME E!EditInv, E!Next
  PROVE  E!EditInv'
<1>1. ASSUME NEW msg \in E!IsEditTextPositionMessage, NEW w \in -1 .. E!Size(E!CallerUnit, eText) + 1,
             NEW l \in -1 .. E!Size(E!CallerUnit, eText) + 1, E!Send(msg, w, l)
      PROVE  E!EditInv'
  BY <1>1, PositionSent
<1>2. ASSUME NEW t \in {eText, E!NoText}, E!Capture(t) PROVE E!EditInv' BY <1>2, CaptureKeeps
<1> QED BY <1>1, <1>2, AskKeeps, AskLineKeeps, ReplyKeeps DEF E!Next

LEMMA NextEdit ==
  ASSUME E!EditInv, [E!Next]_(E!vars)
  PROVE  E!EditInv'
<1>1. CASE UNCHANGED E!vars
  <2>1. /\ eSide' = eSide /\ eText' = eText /\ eSel' = eSel /\ eCall' = eCall /\ ePc' = ePc
        /\ eCopy' = eCopy /\ eGot' = eGot /\ eReply' = eReply /\ eBefore' = eBefore
    BY <1>1 DEF E!vars
  <2>2. E!ControlUnit' = E!ControlUnit /\ E!CallerUnit' = E!CallerUnit
    BY <2>1 DEF E!ControlUnit, E!CallerUnit
  <2>3. E!CallTypes' = E!CallTypes BY <2>1, <2>2 DEF E!CallTypes
  <2>4. E!Answered' = E!Answered /\ E!CapturesFirst' = E!CapturesFirst
    BY <2>1, AnsweredKept DEF Calling
  <2>5. E!Stages' = E!Stages BY <2>1, <2>2, <2>4 DEF E!Stages
  <2>6. E!Transparent' = E!Transparent
    BY <2>1, <2>2 DEF E!Transparent, E!Boundary, E!OneLine, E!LastLine, E!LineStart, E!ConvertIn, E!Theirs
  <2> QED BY <2>1, <2>3, <2>5, <2>6 DEF E!EditInv
<1> QED BY <1>1, EditStep

LEMMA EditSteps ==
  ASSUME [MCNext]_MCVars, active' = "edit"
  PROVE  active = "edit" /\ [E!Next]_(E!vars)
BY DEF MCNext, MCVars, EditVars, E!vars

(* Of a control with any text and selection, and a message whose positions   *)
(* are not inside a character: the caller gets the answer, and makes the     *)
(* selection, it would with a control that counts as it does                 *)
(* (UserfnEDIT_TEXT_POSITION, KernelfnEDIT_TEXT_POSITION). A length is one   *)
(* asked for by an index in the text, or by -1 with nothing selected; told to*)
(* an ANSI caller of a Unicode control, it is the last line's.               *)
THEOREM PositionsAlwaysTransparent == MCSpec => []Transparent
<1> DEFINE Inv == active = "edit" => E!EditInv
<1>1. MCInit => Inv BY InitEdit DEF MCInit
<1>2. Inv /\ [MCNext]_MCVars => Inv' BY EditSteps, NextEdit
<1>3. Inv => Transparent BY DEF E!EditInv, Transparent
<1> QED BY <1>1, <1>2, <1>3, PTL DEF MCSpec
=============================================================================
