------------------------- MODULE RegistryRedirection -------------------------
(* The table of redirected registry values (LocaleEmulatorPlus.cpp) that the *)
(* process fills when it starts, and what the registry and licence filters   *)
(* of Hooks/NtdllHook.cpp answer from it, from the emulated language and     *)
(* from the languages of the host. Names and data are values with a size in  *)
(* bytes; a query asks for a class of information and offers a buffer.       *)
EXTENDS Integers, Sequences, SequencesExt

CONSTANT Lengths      \* the lengths of a caller's buffer (bound)

VARIABLES modes,      \* RegistryRedirectionMode and HookUILanguageMode
          table,      \* RegistryRedirectionEntry
          step,       \* where the initialization is
          pending,    \* the configurations of the list still to do
          user,       \* the second list, the user's values, has been begun
          held,       \* the registry keys the initialization has open
          whole,      \* history: the configurations none of whose steps failed
          starved,    \* history: the table could not grow
          chain,      \* MuiInstallFallback
          query,      \* a call of the program
          reply       \* its answer

vars == <<modes, table, step, pending, user, held, whole, starved, chain, query, reply>>

-----------------------------------------------------------------------------
(* Configurations: a key, a name and the size of the emulated data.          *)

CodePage      == "Nls\\CodePage"
NlsLanguage   == "Nls\\Language"
International == "Control Panel\\International"
Desktop       == "Control Panel\\Desktop"
MuiCached     == "Control Panel\\Desktop\\MuiCached"
VirtualKey    == "MUI\\UILanguages\\ja-JP"

Config(key, name, size) == [key |-> key, name |-> name, size |-> size]

ModeEntries(mode) ==
  IF mode = 0
  THEN << Config(CodePage, "ACP", 8), Config(CodePage, "OEMCP", 8), Config(NlsLanguage, "Default", 10) >>
  ELSE << Config(CodePage, "InstallLanguage", 10), Config(CodePage, "Default", 10),
          Config(CodePage, "OEMCP", 8), Config(CodePage, "ACP", 8) >>

UserEntries == << Config(International, "Locale", 18), Config(International, "LocaleName", 12),
                  Config(Desktop, "PreferredUILanguages", 14),
                  Config(MuiCached, "MachinePreferredUILanguages", 14) >>

Target == "ja-JP"
Host   == "zh-CN"
Installed == <<Host, "en-US">>       \* the languages below UILanguages

\* The bytes of a name.
NameSize(name) == CASE name = "ACP" -> 6
                    [] name \in {"Type", "LCID"} -> 8
                    [] name \in {"OEMCP", Target, Host, "en-US"} -> 10
                    [] name = "Locale" -> 12
                    [] name = "Default" -> 14
                    [] name = "LocaleName" -> 20
                    [] name \in {"InstallLanguage", "DefaultFallback"} -> 30
                    [] name = "PreferredUILanguages" -> 40
                    [] name = "InstallLanguageFallback" -> 46
                    [] name = "MachinePreferredUILanguages" -> 54

-----------------------------------------------------------------------------
(* Filling the table. Every step of a configuration may fail; a failure ends *)
(* this configuration only.                                                  *)

NoReply == [status |-> "none"]

\* The modes the loader's profile may ask for; language mode 1 acts as 0 here.
Init == /\ modes \in [redirection : 0 .. 2, language : {0, 2}]
        /\ table = <<>>
        /\ step = "open"
        /\ pending = ModeEntries(modes.redirection)
        /\ user = FALSE
        /\ held = {}
        /\ whole = <<>>
        /\ starved = FALSE
        /\ chain = <<>>
        /\ query = NoReply
        /\ reply = NoReply

NextConfig == step' = "open" /\ pending' = Tail(pending)

RemoveLast == table' = IF table = <<>> THEN <<>> ELSE Front(table)

\* The keys of the original and of the redirected value, each below a root that is
\* closed again in either case.
OpenPredefinedKeyHandle == /\ step \in {"open", "openRedirected"}
                           /\ pending # <<>>
                           /\ \/ step' = "key" /\ held' = held \cup {"root"} /\ UNCHANGED pending
                              \/ NextConfig /\ held' = {}
                           /\ UNCHANGED <<table, user, whole, starved, chain>>

OpenKey == /\ step = "key"
           /\ \/ /\ "original" \notin held
                 /\ step' = "openRedirected" /\ held' = {"original"} /\ UNCHANGED pending
              \/ /\ "original" \in held
                 /\ step' = "add" /\ held' = {"original", "redirected"} /\ UNCHANGED pending
              \/ NextConfig /\ held' = {}
           /\ UNCHANGED <<table, user, whole, starved, chain>>

\* DynamicArray::Add, whose status is not looked at. The place of the entry is the
\* last of the table: after a failed Add that of another configuration, or none.
\* One Add fails at most (bound).
AddEntry == /\ step = "add"
            /\ step' = "path"
            /\ \/ table' = Append(table, Config("", "", 0)) /\ UNCHANGED starved
               \/ ~starved /\ starved' = TRUE /\ UNCHANGED table
            /\ UNCHANGED <<pending, user, held, whole, chain>>

(* mutant: a failure leaves the half-filled entry in the table *)
BadQueryRegKeyFullPath == /\ step = "path"
                          /\ \/ /\ held' = held \ {IF "original" \in held THEN "original" ELSE "redirected"}
                                /\ step' = IF "original" \in held THEN "path" ELSE "data"
                                /\ UNCHANGED <<table, pending>>
                             \/ held' = {} /\ NextConfig /\ UNCHANGED table
                          /\ UNCHANGED <<user, whole, starved, chain>>

\* The full path of the original key, which is closed, and then of the other.
QueryRegKeyFullPath == /\ step = "path"
                       /\ \/ /\ held' = held \ {IF "original" \in held THEN "original" ELSE "redirected"}
                             /\ step' = IF "original" \in held THEN "path" ELSE "data"
                             /\ UNCHANGED <<table, pending>>
                          \/ held' = {} /\ RemoveLast /\ NextConfig
                       /\ UNCHANGED <<user, whole, starved, chain>>

FillEntry == /\ step = "data"
             /\ \/ /\ table' = IF table = <<>> THEN <<>> ELSE [table EXCEPT ![Len(table)] = Head(pending)]
                   /\ whole' = Append(whole, Head(pending))
                \/ RemoveLast /\ UNCHANGED whole
             /\ NextConfig
             /\ UNCHANGED <<user, held, starved, chain>>

\* Mode 2 adds the values of the user, once the locale has a culture name.
InitAdvancedRegistryRedirection == /\ step = "open"
                                   /\ pending = <<>>
                                   /\ modes.redirection = 2
                                   /\ ~user
                                   /\ user' = TRUE
                                   /\ \/ pending' = UserEntries /\ UNCHANGED step
                                      \/ step' = "failed" /\ UNCHANGED pending
                                   /\ UNCHANGED <<table, held, whole, starved, chain>>

Filled == step = "open" /\ pending = <<>> /\ (modes.redirection = 2 => user)

\* The names of the emulated and of the installed language, and the host's own
\* fallback, which may be missing.
LepInitializeVirtualMuiLanguage ==
  /\ Filled
  /\ modes.language = 2
  /\ \/ step' = "ready" /\ chain' \in {<<Host>>, <<Host, "en-US">>}
     \/ step' = "failed" /\ UNCHANGED chain
  /\ UNCHANGED <<table, pending, user, held, whole, starved>>

NoVirtualLanguage == /\ Filled
                     /\ modes.language # 2
                     /\ step' = "ready"
                     /\ UNCHANGED <<table, pending, user, held, whole, starved, chain>>

InitRegistryRedirection == /\ \/ OpenPredefinedKeyHandle \/ OpenKey \/ AddEntry
                              \/ QueryRegKeyFullPath \/ FillEntry
                              \/ InitAdvancedRegistryRedirection
                              \/ LepInitializeVirtualMuiLanguage \/ NoVirtualLanguage
                           /\ UNCHANGED <<modes, query, reply>>

-----------------------------------------------------------------------------
(* Answers. What a class of information needs, and where it is written.      *)

Classes == {"basic", "full", "full64", "partial", "partial64"}
Minimum == [full |-> 20, full64 |-> 20, basic |-> 12, partial |-> 12, partial64 |-> 8]

RoundUp(n, to) == ((n + to - 1) \div to) * to

(* mutant: the offset of the data is not aligned *)
BadDataOffset(class, name) == Minimum[class] + NameSize(name)
DataOffset(class, name) == RoundUp(Minimum[class] + NameSize(name), IF class = "full64" THEN 8 ELSE 4)

Required(class, name, size) == CASE class \in {"full", "full64"} -> DataOffset(class, name) + size
                                 [] class = "basic" -> Minimum[class] + NameSize(name)
                                 [] OTHER -> Minimum[class] + size

Answer(length, min, required, end) ==
  [status   |-> IF length < min THEN "too small" ELSE IF length < required THEN "overflow" ELSE "success",
   required |-> required,
   end      |-> IF length < required THEN 0 ELSE end]

\* The last byte written is that of the data, or of the name if no data is asked for.
LepWriteVirtualKeyValue(q, name, size) ==
  Answer(q.length, Minimum[q.class], Required(q.class, name, size),
         CASE q.class \in {"full", "full64"} ->
                RoundUp(Minimum[q.class] + NameSize(name), IF q.class = "full64" THEN 8 ELSE 4) + size
           [] q.class = "basic" -> 12 + NameSize(name)
           [] q.class = "partial" -> 12 + size
           [] OTHER -> 8 + size)

Fixed(q, min, size) == Answer(q.length, min, min + size, min + size)
Error(status) == [status |-> status, required |-> 0, end |-> 0]
FromHost == Error("host")

SizeOfChain(languages) == 12 * Len(languages) - 2      \* culture names, each after a comma and a space

LepQueryVirtualMuiKeyValue(q, name) ==
  CASE name \in {"Type", "LCID"} -> LepWriteVirtualKeyValue(q, name, 4)
    [] name = "DefaultFallback" -> LepWriteVirtualKeyValue(q, name, NameSize(Host) + 2)
    [] name = Host -> LepWriteVirtualKeyValue(q, name, (IF Len(chain) = 2 THEN 10 ELSE 0) + 4)
    [] OTHER -> Error("not found")

LepQueryVirtualInstallLanguageFallback(q) ==
  LepWriteVirtualKeyValue(q, "InstallLanguageFallback", SizeOfChain(chain) + 2)

LookupRegistryRedirectionEntry(key, name) ==
  SelectInSeq(table, LAMBDA e : e.key = key /\ e.name = name)

LepNtQueryValueKey(q) ==
  LET key == q.value[1]
      name == q.value[2]
      i == LookupRegistryRedirectionEntry(key, name)
  IN IF modes.language = 2 /\ key = VirtualKey THEN LepQueryVirtualMuiKeyValue(q, name)
     ELSE IF modes.language = 2 /\ key = NlsLanguage /\ name = "InstallLanguageFallback"
     THEN LepQueryVirtualInstallLanguageFallback(q)
     ELSE IF i = 0 THEN FromHost
     ELSE LepWriteVirtualKeyValue(q, table[i].name, table[i].size)

\* The emulated language first, then those of the host under one index less.
LepNtEnumerateKey(q) == IF q.index > 0 THEN IF q.index <= Len(Installed) THEN FromHost ELSE Error("no more")
                        ELSE IF q.class # "basic" THEN Error("invalid class")
                        ELSE Fixed(q, 16, NameSize(Target))

LepNtEnumerateValueKey(q) ==
  LET names == <<"DefaultFallback", Host, "LCID", "Type">>
  IN IF q.index < Len(names) THEN LepQueryVirtualMuiKeyValue(q, names[q.index + 1]) ELSE Error("no more")

LepNtQueryKey(q) == CASE q.class = "name" -> Fixed(q, 4, 144)
                      [] q.class = "basic" -> Fixed(q, 16, NameSize(Target))
                      [] OTHER -> Error("invalid class")

LepNtQueryLicenseValue(q) == Fixed(q, NameSize(Target) + 2, 0)

-----------------------------------------------------------------------------

\* Every value there is an entry for, and those of the virtual language.
Values == {<<c.key, c.name>> : c \in Range(ModeEntries(0) \o ModeEntries(1) \o UserEntries)}
          \cup {<<NlsLanguage, "InstallLanguageFallback">>} \cup {<<VirtualKey, n>> : n \in {"Type", Host, "ACP"}}

Queries ==
  [kind : {"value"}, value : Values, class : Classes, length : Lengths]
  \cup IF modes.language # 2 THEN {}
       ELSE [kind : {"enumerate key"}, index : 0 .. 3, class : {"basic", "full"}, length : Lengths]
       \cup [kind : {"enumerate value"}, index : 0 .. 4, class : Classes, length : Lengths]
       \cup [kind : {"key"}, class : {"name", "basic", "full"}, length : Lengths]
       \cup [kind : {"license"}, length : Lengths]

Reply(q) == CASE q.kind = "value" -> LepNtQueryValueKey(q)
              [] q.kind = "enumerate key" -> LepNtEnumerateKey(q)
              [] q.kind = "enumerate value" -> LepNtEnumerateValueKey(q)
              [] q.kind = "key" -> LepNtQueryKey(q)
              [] OTHER -> LepNtQueryLicenseValue(q)

\* One query, as the answer depends on nothing earlier ones changed; and none of a
\* table whose growth failed, which promises nothing (bounds).
Query == /\ step = "ready"
         /\ query = NoReply
         /\ ~starved
         /\ \E q \in Queries : query' = q /\ reply' = Reply(q)
         /\ UNCHANGED <<modes, table, step, pending, user, held, whole, starved, chain>>

\* The caller asks again with the length it was told.
QueryAgain == /\ reply.status \in {"too small", "overflow"}
              /\ query' = [query EXCEPT !.length = reply.required]
              /\ reply' = Reply(query')
              /\ UNCHANGED <<modes, table, step, pending, user, held, whole, starved, chain>>

Next == InitRegistryRedirection \/ Query \/ QueryAgain

Spec == Init /\ [][Next]_vars

-----------------------------------------------------------------------------

\* Between two configurations no key is left open, and the table has exactly the
\* entries of the configurations that were completed, in their order, none of them
\* half filled: a failing step takes its own entry back and no other
\* (LocaleEmulatorPlus.cpp:473-525). Only a failed Add, whose status nobody looks
\* at, costs the entry of another configuration.
RedirectionIsWhole == step \in {"open", "ready", "failed"} => /\ held = {}
                                                              /\ starved \/ table = whole

\* The size an answer announces is the size it writes, whatever the class and its
\* alignment; nothing is written into a buffer that is shorter, and a caller that
\* asks again with the announced length is served (NtdllHook.cpp:805-911).
AnswerFits == "end" \in DOMAIN reply =>
  /\ reply.end <= query.length
  /\ reply.status = "success" => reply.end = reply.required
  /\ reply.status \in {"too small", "overflow"} =>
       Reply([query EXCEPT !.length = reply.required]).status = "success"
=============================================================================
