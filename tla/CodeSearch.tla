----------------------------- MODULE CodeSearch -----------------------------
(* How the hooks find routines that no export names, by walking over the     *)
(* instructions of routines that call them (Hooks/User32Hook.cpp,            *)
(* Gdi32Hook.cpp, Kernel32Hook.cpp, NtdllHook.cpp, Utility.cpp). A routine is*)
(* the sequence of instructions that a search's range lets it see, what lies *)
(* behind the routine's end included.                                        *)
EXTENDS Integers, Sequences, FiniteSets, SequencesExt

CONSTANTS Short, Long      \* how many instructions the routines have (bounds)

VARIABLES search,          \* the routine that is looked for
          image,           \* the code it is looked for in
          answer           \* what the search returned

vars == <<search, image, answer>>

(* An instruction is a call, named by what it calls, or one of: a return,    *)
(* one that holds the style mask C0000000, the push of                       *)
(* EVENT_OBJECT_NAMECHANGE, a leave, padding, any other.                     *)
Stubs   == {"sys1", "sys2"}                 \* system call stubs
Inner   == {"in1", "in2"}                   \* other routines of the module
Calls   == Stubs \cup Inner \cup {"far"}
InModule == Stubs \cup Inner                \* IsAddressInModule
Codes(instructions, n) == UNION {[1 .. k -> instructions] : k \in 0 .. n}

Absent == "none"

(* WalkOpCodeT: the callback sees each instruction until it stops the walk.  *)
Walk(code, Callback(_, _)) ==
  LET step(s, i) == IF s.stop THEN s ELSE Callback(s, i)
  IN FoldLeft(step, [stop |-> FALSE, found |-> Absent, seen |-> Absent], code).found

Go(s) == s
Stop(s) == [s EXCEPT !.stop = TRUE]
Found(s, r) == [s EXCEPT !.stop = TRUE, !.found = r]

-----------------------------------------------------------------------------
(* IsSystemCall, of x86: mov eax, a call, a return and nothing else of these *)
(* among the first six instructions.                                         *)
X86Ops == {"mov eax", "call", "call fs", "other fs", "call reg", "call mem", "ret", "other"}

IsSystemCall(code) ==
  LET step(s, i) ==
        IF s.over THEN s
        ELSE CASE i = "call mem" -> [s EXCEPT !.over = TRUE]
               [] i = "mov eax" -> IF s.mov \/ s.call THEN [s EXCEPT !.over = TRUE]
                                   ELSE [s EXCEPT !.mov = TRUE]
               [] i \in {"call", "call fs", "call reg"} ->
                    IF ~s.mov \/ s.call THEN [s EXCEPT !.over = TRUE] ELSE [s EXCEPT !.call = TRUE]
               [] i = "ret" -> [s EXCEPT !.over = TRUE, !.ret = s.mov /\ s.call]
               [] OTHER -> s
  IN FoldLeft(step, [over |-> FALSE, mov |-> FALSE, call |-> FALSE, ret |-> FALSE], code).ret

-----------------------------------------------------------------------------
(* x64, USER32 without win32u.                                               *)

(* mutant: the walk goes on behind the return *)
BadFindFirstX64SyscallCall(code) ==
  Walk(code, LAMBDA s, i : IF i \in Stubs THEN Found(s, i) ELSE Go(s))

FindFirstX64SyscallCall(code) ==
  Walk(code, LAMBDA s, i : CASE i \in Stubs -> Found(s, i)
                             [] i = "ret" -> Stop(s)
                             [] OTHER -> Go(s))

FindX64NtUserMessageCallNoWin32U(im) ==
  LET w == FindFirstX64SyscallCall(im.exportW)
  IN IF w # Absent THEN w ELSE FindFirstX64SyscallCall(im.exportA)

FirstInnerCall(code) ==
  Walk(code, LAMBDA s, i : CASE i \in Inner -> Found(s, i)
                             [] i = "ret" -> Stop(s)
                             [] OTHER -> Go(s))

FindX64InternalCreateWindowEx(im) ==
  LET w == FirstInnerCall(im.exportW)
  IN IF w # Absent THEN w ELSE FirstInnerCall(im.exportA)

(* The first routine called behind the style mask, whatever lies before it.  *)
VerCall(code) ==
  Walk(code, LAMBDA s, i : CASE s.seen = Absent -> [s EXCEPT !.seen = IF i = "style" THEN "style" ELSE Absent]
                             [] i \in Inner -> Found(s, i)
                             [] i = "ret" -> Stop(s)
                             [] OTHER -> Go(s))

FindX64NtUserCreateWindowExNoWin32U(im) ==
  LET internal == FindX64InternalCreateWindowEx(im)
      ver == IF internal = Absent THEN Absent ELSE VerCall(im[internal])
  IN IF ver = Absent THEN Absent ELSE FindFirstX64SyscallCall(im[ver])

(* The last routine called before the style mask.                            *)
LastCallBeforeStyle(code) ==
  Walk(code, LAMBDA s, i : CASE i = "style" -> Found(s, s.seen)
                             [] i \in Inner -> [s EXCEPT !.seen = i]
                             [] i = "ret" -> Stop(s)
                             [] OTHER -> Go(s))

FindX64RtlInitLargeUnicodeStringNoWin32U(im) ==
  LET internal == FindX64InternalCreateWindowEx(im)
  IN IF internal = Absent THEN Absent ELSE LastCallBeforeStyle(im[internal])

(* Behind the call: one call, of a stub, and then the return.                *)
CheckX64NtUserDefSetTextAfterRtlInit(code) ==
  Walk(code, LAMBDA s, i : CASE i \in Calls /\ (i \notin Stubs \/ s.seen # Absent) -> Stop(s)
                             [] i \in Stubs -> [s EXCEPT !.seen = i]
                             [] i = "ret" -> Found(s, s.seen)
                             [] OTHER -> Go(s))

(* A step of a search that goes through the text: the first place for which  *)
(* Try gives an answer.                                                      *)
FirstOf(n, Try(_)) ==
  LET at == SelectInSeq([k \in 1 .. n |-> Try(k)], LAMBDA r : r # Absent)
  IN IF at = 0 THEN Absent ELSE Try(at)

From(code, k) == SubSeq(code, k, Len(code))

FindX64NtUserDefSetTextNoWin32U(im) ==
  LET init == FindX64RtlInitLargeUnicodeStringNoWin32U(im)
      try(k) == IF im.text[k] = init THEN CheckX64NtUserDefSetTextAfterRtlInit(From(im.text, k + 1))
                ELSE Absent
  IN IF init = Absent THEN Absent ELSE FirstOf(Len(im.text), try)

-----------------------------------------------------------------------------
(* x86. Relocations: what each names, and the calls behind each.             *)

GlobalRoutines == <<"lock", "unlock", "free">>

FindNtUserMessageCall2(im) ==
  LET relocs == im.relocs
      FirstStub(code) == Walk(code, LAMBDA s, i : IF i \in Stubs THEN Found(s, i) ELSE Go(s))
      step(s, k) ==
        IF s.found # Absent THEN s
        ELSE IF relocs[k].names # GlobalRoutines[s.phase + 1] THEN [s EXCEPT !.phase = 0]
        ELSE IF s.phase < 2 THEN [s EXCEPT !.phase = @ + 1]
        ELSE [phase |-> 0, found |-> FirstStub(relocs[k - 2].code)]
  IN FoldLeft(step, [phase |-> 0, found |-> Absent], [k \in 1 .. Len(relocs) |-> k]).found

(* Behind a call through the import of                                       *)
(* RtlQueryInformationActiveActivationContext.                               *)
FindNtUserCreateWindowEx(im) ==
  LET try(k) == IF im.relocs[k].names # "query" THEN Absent ELSE FindFirstX64SyscallCall(im.relocs[k].code)
  IN FirstOf(Len(im.relocs), try)

(* The first push of EVENT_OBJECT_NAMECHANGE with the call of NotifyWinEvent *)
(* in the sixteen bytes from it, three instructions behind it; the farthest  *)
(* call in the sixteen bytes before it; and the stub called by that.         *)
Window == 3
Notifies(code, k) ==
    /\ code[k] = "push"
    /\ Contains(SubSeq(code, k + 1, Min({k + Window, Len(code)})), "notify")

FindNtUserDefSetText(im) ==
  LET code == im.text
      push == SelectInSeq([k \in 1 .. Len(code) |-> Notifies(code, k)], LAMBDA b : b)
      before == SubSeq(code, Max({1, push - Window}), push - 1)
      call == SelectInSeq(before, LAMBDA i : i \in Inner)
  IN IF push = 0 \/ call = 0 THEN Absent
     ELSE Walk(im[before[call]],
               LAMBDA s, i : CASE i \in Stubs -> Found(s, i)
                               [] i \in {"leave", "ret"} -> Stop(s)
                               [] OTHER -> Go(s))

(* GDI32: the last stub called in the range, behind a return too.            *)
FindNtGdiHfontCreate(im) == FoldLeft(LAMBDA r, i : IF i \in Stubs THEN i ELSE r, Absent, im.exportW)

(* NTDLL: the call of NtContinue in LdrInitializeThunk.                      *)
SearchLdrInitNtContinue(im) ==
  Walk(im.exportW, LAMBDA s, i : IF i = "sys1" THEN Found(s, i) ELSE Go(s))

-----------------------------------------------------------------------------
(* NTDLL: the function that calls RtlInitCodePageTable twice. It begins      *)
(* behind the nearest padding; "nls" is where RtlInitNlsTables begins, whose *)
(* calls do not count. An answer is a place, 0 for none.                     *)
FindFunctionStartByPadding(code, k) ==
  LET before == {j \in 1 .. k - 1 : code[j] = "pad"}
  IN IF before = {} THEN 0 ELSE 1 + CHOOSE j \in before : \A l \in before : l <= j

FindRtlpInitCodePageTables(im) ==
  LET code == im.text
      good(k) == /\ code[k] = "init" /\ ~Contains(SubSeq(code, 1, k), "nls")
                 /\ FindFunctionStartByPadding(code, k) # 0
                 /\ Contains(From(code, k + 1), "init")
      at == SelectInSeq([k \in 1 .. Len(code) |-> good(k)], LAMBDA b : b)
  IN IF at = 0 THEN 0 ELSE FindFunctionStartByPadding(code, at)

-----------------------------------------------------------------------------
(* The default font of EDIT controls.                                        *)

NextPlace(code, from, i) == LET at == SelectInSeq(From(code, from), LAMBDA x : x = i)
                            IN IF at = 0 THEN 0 ELSE from + at - 1
Between(code, from, to, i) == Contains(SubSeq(code, from + 1, to - 1), i)

(* Three calls of one getter with the reads of width, height and metrics     *)
(* between them; the place of the third call, 0 if it is not so.             *)
ThirdCall(code, first) ==
  LET second == NextPlace(code, first + 1, code[first])
      third == IF second = 0 THEN 0 ELSE NextPlace(code, second + 1, code[first])
  IN IF /\ code[first] \in Inner /\ second # 0 /\ Between(code, first, second, "width")
        /\ third # 0 /\ Between(code, second, third, "height")
        /\ Contains(From(code, third + 1), "metric")
     THEN third ELSE 0

FindDefaultEditDpiServerInfoGetter(im) ==
  LET code == im.text
      step(s, k) == LET third == ThirdCall(code, k)
                    IN IF s.over \/ k <= s.skip \/ third = 0 THEN s
                       ELSE IF s.found \notin {Absent, code[k]} THEN [s EXCEPT !.over = TRUE, !.found = Absent]
                       ELSE [s EXCEPT !.found = code[k], !.skip = third]
  IN FoldLeft(step, [over |-> FALSE, skip |-> 0, found |-> Absent], [k \in 1 .. Len(code) |-> k]).found

(* The routine around the anchor, the copy of a TEXTMETRIC: by the exception *)
(* table on x64, by the prologue before the anchor on x86. Behind the anchor *)
(* (x86: in the routine) a stack slot is read twice and then a byte stored.  *)
Routine(code, k) == LET begins == {j \in 1 .. k : code[j] = "begin"}
                    IN IF begins = {} THEN 0 ELSE CHOOSE j \in begins : \A l \in begins : l <= j

RoutineEnd(im, k) == LET next == NextPlace(im.text, k + 1, "begin")
                     IN IF im.arch = "x64" /\ next # 0 THEN next - 1 ELSE Len(im.text)

Slots == {"a", "b"}
Stores == {"store p", "store q"}

(* x64 goes by the first reads and takes the first that is read again with a *)
(* store behind it, x86 goes by the second ones.                             *)
CharsetOffset(im, k) ==
  LET code == im.text
      from == IF im.arch = "x64" THEN k + 1 ELSE Routine(code, k)
      places == from .. RoutineEnd(im, k)
      store(l) == SelectInSeq(SubSeq(code, l, RoutineEnd(im, k)), LAMBDA i : i \in Stores)
      again(f) == {l \in places : /\ f < l /\ store(l) # 0
                                  /\ \E s \in Slots : code[f] = "first " \o s /\ code[l] = "second " \o s}
      firsts == {f \in places : again(f) # {}}
      loads == UNION {again(f) : f \in IF im.arch = "x64" THEN {Min(firsts)} ELSE firsts}
  IN IF firsts = {} THEN Absent ELSE code[Min(loads) + store(Min(loads)) - 1]

FindDefaultEditSetFont(im) ==
  LET step(s, k) ==
        IF s.over \/ im.text[k] # "anchor" \/ Routine(im.text, k) = 0 \/ CharsetOffset(im, k) = Absent THEN s
        ELSE IF s.routine \notin {0, Routine(im.text, k)} \/ s.offset \notin {Absent, CharsetOffset(im, k)}
             THEN [over |-> TRUE, routine |-> 0, offset |-> Absent]
        ELSE [s EXCEPT !.routine = Routine(im.text, k), !.offset = CharsetOffset(im, k)]
  IN FoldLeft(step, [over |-> FALSE, routine |-> 0, offset |-> Absent], [k \in 1 .. Len(im.text) |-> k])

-----------------------------------------------------------------------------
(* The images a search is tried on.                                          *)
Fill == [exportW |-> <<>>, exportA |-> <<>>, in1 |-> <<>>, in2 |-> <<>>, text |-> <<>>,
         relocs |-> <<>>, arch |-> "x64"]
Relocs(names, codes, n) == UNION {[1 .. k -> [names : names, code : codes]] : k \in 0 .. n}
Concatenations(pieces, n) == {FoldLeft(LAMBDA r, p : r \o p, <<>>, f) : f \in [1 .. n -> pieces]}

Images ==
  [ message64 |-> {[Fill EXCEPT !.exportW = w, !.exportA = a] :
                     w, a \in Codes({"sys1", "sys2", "far", "ret"}, Short)},
    create64 |-> {[Fill EXCEPT !.exportW = w, !.exportA = a, !.in1 = i, !.in2 = v] :
                    w \in {<<"ret", "in1">>, <<"sys1", "in1">>, <<"far", "in1">>}, a \in {<<>>, <<"in2">>},
                    i \in Codes({"in1", "in2", "style", "ret"}, Short + 1),
                    v \in Codes({"sys1", "ret"}, Short)},
    text64 |-> {[Fill EXCEPT !.exportW = <<"in1">>, !.in1 = i, !.text = t] :
                  i \in {<<"in2", "style">>, <<"in1", "in2", "style">>, <<"in2", "ret", "style">>},
                  t \in Codes({"in2", "sys1", "sys2", "far", "ret"}, Long)},
    message86 |-> {[Fill EXCEPT !.relocs = r] :
                     r \in Relocs({"lock", "unlock", "free"}, {<<>>, <<"sys1">>}, Long)},
    create86 |-> {[Fill EXCEPT !.relocs = r] :
                    r \in Relocs({"query", "other"}, Codes({"sys1", "ret", "far"}, 2), 2)},
    text86 |-> {[Fill EXCEPT !.text = t, !.in1 = i, !.in2 = <<"sys2">>] :
                  t \in Codes({"push", "notify", "in1", "in2"}, Long + 2),
                  i \in {<<"sys1">>, <<"leave", "sys1">>, <<"far", "sys2">>}},
    font |-> {[Fill EXCEPT !.exportW = w] : w \in Codes({"sys1", "sys2", "ret"}, Short)},
    continue |-> {[Fill EXCEPT !.exportW = w] : w \in Codes({"sys1", "sys2", "other"}, Short)},
    nls |-> {[Fill EXCEPT !.text = t] : t \in Codes({"pad", "init", "nls", "other"}, Long)},
    call86 |-> {[Fill EXCEPT !.text = t] : t \in Codes(X86Ops, Short + 1)},
    getter |-> {[Fill EXCEPT !.text = t] :
                  t \in Concatenations({<<"in1">>, <<"in2">>, <<"width", "in1">>, <<"width", "in2">>,
                                        <<"height", "in1", "metric">>, <<"height", "in2", "metric">>}, Long + 2)},
    edit |-> {[Fill EXCEPT !.text = t, !.arch = a] : a \in {"x86", "x64"},
                t \in Concatenations({<<"begin", "anchor">>, <<"first a", "first b">>, <<"first b">>,
                                      <<"second a">>, <<"second a", "store p">>, <<"second b", "store q">>},
                                     Long + 1)} ]

Answer ==
  CASE search = "message64" -> FindX64NtUserMessageCallNoWin32U(image)
    [] search = "create64" -> FindX64NtUserCreateWindowExNoWin32U(image)
    [] search = "text64" -> FindX64NtUserDefSetTextNoWin32U(image)
    [] search = "message86" -> FindNtUserMessageCall2(image)
    [] search = "create86" -> FindNtUserCreateWindowEx(image)
    [] search = "text86" -> FindNtUserDefSetText(image)
    [] search = "font" -> FindNtGdiHfontCreate(image)
    [] search = "continue" -> SearchLdrInitNtContinue(image)
    [] search = "nls" -> FindRtlpInitCodePageTables(image)
    [] search = "call86" -> IsSystemCall(image.text)
    [] search = "getter" -> FindDefaultEditDpiServerInfoGetter(image)
    [] search = "edit" -> FindDefaultEditSetFont(image)

Init == /\ search \in DOMAIN Images /\ image \in Images[search]
        /\ answer = <<>>

Search == answer = <<>> /\ answer' = <<Answer>> /\ UNCHANGED <<search, image>>

Next == Search

Spec == Init /\ [][Next]_vars

-----------------------------------------------------------------------------
(* What the searches are for.                                                *)

OwnTo(code, ends) == LET end == SelectInSeq(code, LAMBDA i : i \in ends)
                     IN IF end = 0 THEN code ELSE SubSeq(code, 1, end - 1)
Own(code) == OwnTo(code, {"ret"})
FirstIn(code, S) == LET in == SelectSeq(code, LAMBDA i : i \in S) IN IF in = <<>> THEN Absent ELSE Head(in)
LastIn(code, S) == FirstIn(Reverse(code), S)
UpTo(code, i) == SubSeq(code, 1, NextPlace(code, 1, i))
Behind(code, i) == From(code, NextPlace(code, 1, i) + 1)

Internal == FirstIn(Own(image.exportW) \o Own(image.exportA), Inner)

(* A run of the three relocations that starts at k.                          *)
CopyGlobalData(k) == \A j \in 0 .. 2 : /\ k + j <= Len(image.relocs)
                                        /\ image.relocs[k + j].names = GlobalRoutines[j + 1]

(* SoughtIsFound: each search returns the routine that its pattern describes,*)
(* never one that is called behind the end of the routine walked over, and   *)
(* nothing when two routines fit; before the push of the x86 text routine,   *)
(* it goes by the farthest call of the sixteen bytes. Left open, since the   *)
(* code leaves it open: the style mask behind a return, the stub that        *)
(* LdrInitializeThunk and CreateFontIndirectExW call, looked for behind their*)
(* end too, the three relocations behind a lone first or second one, a       *)
(* getter's calls between those of another (User32Hook.cpp 38-336, 2726-3468,*)
(* Gdi32Hook.cpp 1081-1112, Kernel32Hook.cpp 378-450, Utility.cpp 230-292).  *)
SoughtIsFound ==
  answer # <<>> =>
    LET got == answer[1]
        text == image.text
        InFunction(code, k) == LET end == NextPlace(code, k, "pad") IN SubSeq(code, k, IF end = 0 THEN Len(code) ELSE end - 1)
        copies == {k \in DOMAIN image.relocs : CopyGlobalData(k)}
        getters == {g \in Inner :
                      LET calls == {k \in DOMAIN text : text[k] = g}
                          next(k, l) == k < l /\ ~\E j \in calls : k < j /\ j < l
                      IN \E k, l, m \in calls : /\ next(k, l) /\ Contains(SubSeq(text, k, l), "width")
                                                /\ next(l, m) /\ Contains(SubSeq(text, l, m), "height")
                                                /\ Contains(From(text, m), "metric")}
    IN CASE search = "message64" -> got = FirstIn(Own(image.exportW) \o Own(image.exportA), Stubs)
         [] search = "create64" ->
              (Internal # Absent /\ Contains(Own(image[Internal]), "style")) =>
                LET ver == FirstIn(Own(Behind(image[Internal], "style")), Inner)
                IN got = IF ver = Absent THEN Absent ELSE FirstIn(Own(image[ver]), Stubs)
         [] search = "text64" ->
              /\ got # Absent =>
                   \E k \in DOMAIN text :
                      LET own == Own(From(text, k + 1))
                      IN /\ text[k] = LastIn(UpTo(Own(image.in1), "style"), Inner)
                         /\ Len(own) < Len(From(text, k + 1))
                         /\ SelectSeq(own, LAMBDA i : i \in Calls) = <<got>>
              /\ Contains(image.in1, "ret") => got = Absent
         [] search = "message86" ->
              /\ got # Absent => \E k \in copies : image.relocs[k].code = <<got>>
              /\ got = Absent => \A k \in copies : \/ image.relocs[k].code = <<>>
                                                   \/ k > 1 /\ image.relocs[k - 1].names \in {"lock", "unlock"}
         [] search = "create86" ->
              LET own(k) == IF image.relocs[k].names = "query" THEN Own(image.relocs[k].code) ELSE <<>>
              IN got = FirstIn(FoldLeft(LAMBDA r, k : r \o own(k), <<>>, [k \in DOMAIN image.relocs |-> k]), Stubs)
         [] search = "text86" ->
              LET pushes == {k \in DOMAIN text : text[k] = "push" /\ \E n \in k + 1 .. k + Window :
                                                   n \in DOMAIN text /\ text[n] = "notify"}
                  calls == {k \in DOMAIN text : text[k] \in Inner /\ k < Min(pushes) /\ k >= Min(pushes) - Window}
              IN got = IF pushes = {} THEN Absent ELSE IF calls = {} THEN Absent
                       ELSE FirstIn(OwnTo(image[text[Min(calls)]], {"leave", "ret"}), Stubs)
         [] search \in {"font", "continue"} -> (got = Absent) <=> (SelectSeq(image.exportW, LAMBDA i :
                                                 i \in IF search = "font" THEN Stubs ELSE {"sys1"}) = <<>>)
         [] search = "nls" ->
              IF got # 0 THEN /\ text[got - 1] = "pad" /\ Contains(InFunction(text, got), "init")
                              /\ ~Contains(SubSeq(text, 1, got), "nls")
              ELSE \A k \in DOMAIN text :
                     (text[k] = "pad" /\ ~Contains(text, "nls"))
                        => Cardinality({j \in DOMAIN InFunction(text, k + 1) : InFunction(text, k + 1)[j] = "init"}) < 2
         [] search = "call86" ->
              got <=> /\ Contains(text, "ret")
                      /\ LET own == SelectSeq(Own(text), LAMBDA i : i \notin {"other", "other fs"})
                         IN Len(own) = 2 /\ own[1] = "mov eax" /\ own[2] \in {"call", "call fs", "call reg"}
         [] search = "getter" -> /\ got # Absent => got \in getters
                                 /\ Cardinality(getters) = 1 => got # Absent
         [] search = "edit" ->
              LET fits == {k \in DOMAIN text : /\ text[k] = "anchor" /\ Routine(text, k) # 0
                                               /\ CharsetOffset(image, k) # Absent}
              IN got.routine # 0 => \A k \in fits : /\ got.routine = Routine(text, k)
                                                    /\ got.offset = CharsetOffset(image, k)
=============================================================================
