-------------------------- MODULE FontEnumeration ---------------------------
(***************************************************************************)
(* Font enumeration (Hooks/Gdi32Hook.cpp).  LEP puts its own callback      *)
(* before the program's: a font is made with the target's charset, its     *)
(* name table says whether the name the system reports is the one of the   *)
(* host's language, and the program is told the one of the target's        *)
(* language with the metrics of that font.  What was found is kept in a    *)
(* cache, which x86 reads before it looks again.                           *)
(***************************************************************************)
EXTENDS Naturals, Sequences, FiniteSets

CONSTANTS
    Tables,    \* name tables: sequences of records [name, language, text]
    Host, Target, English, \* languages
    MaxRounds  \* bound: enumerations

VARIABLES
    arch,    \* "x86" or "x64"
    font,    \* the enumerated font
    cache,   \* TextMetricCache: key -> [magic, filled, metrics]
    told,    \* what the program was told, one per enumeration; <<>>: nothing
    charset  \* the charset each enumeration asked for

vars == <<arch, font, cache, told, charset>>

(* made: the system can make the font with the target's charset. *)
Fonts == [face : {"A", "B"}, full : {"A", "B"}, charset : {"ANSI", "HOST", "OTHER"},
          raster : BOOLEAN, table : Tables \cup {<<>>}, made : BOOLEAN]
NoText == "none"

(* GetNameRecordFromNameTable: the first record of the language; without one *)
(* the last English record.                                                  *)
Records(table, name, language) ==
    {i \in DOMAIN table : table[i].name = name /\ table[i].language = language}

(* mutant: an English record before the language's own ends the search *)
BadGetNameRecordFromNameTable(table, name, language) ==
    LET own == Records(table, name, language) \cup Records(table, name, English)
    IN  IF own = {} THEN NoText ELSE table[CHOOSE i \in own : \A j \in own : i <= j].text
GetNameRecordFromNameTable(table, name, language) ==
    LET own == Records(table, name, language)
        english == Records(table, name, English)
    IN  IF own # {} THEN table[CHOOSE i \in own : \A j \in own : i <= j].text
        ELSE IF english # {} THEN table[CHOOSE i \in english : \A j \in english : i >= j].text
        ELSE NoText

(***************************************************************************)
(* AdjustFontData: the status, the names and whose metrics there are.      *)
(***************************************************************************)
AdjustFontDataInternal(f) ==
    IF f.raster THEN [status |-> "NOT_SUPPORTED", face |-> f.face, full |-> f.full]
    ELSE IF f.table = <<>> THEN [status |-> "NAME_NOT_FOUND", face |-> f.face, full |-> f.full]
    ELSE IF GetNameRecordFromNameTable(f.table, "FACENAME", Host) # f.face
         THEN [status |-> "CONTEXT_MISMATCH", face |-> f.face, full |-> f.full]
    ELSE LET face == GetNameRecordFromNameTable(f.table, "FACENAME", Target)
             full == GetNameRecordFromNameTable(f.table, "FULLNAME", Target)
         IN  IF NoText \in {face, full}
             THEN [status |-> "NOT_FOUND", face |-> f.face, full |-> f.full]
             ELSE [status |-> "SUCCESS", face |-> face, full |-> full]

AdjustFontData(f) ==
    IF ~f.made THEN [status |-> "UNSUCCESSFUL", face |-> f.face, full |-> f.full, filled |-> FALSE]
    ELSE LET r == AdjustFontDataInternal(f)
         IN  [status |-> r.status, face |-> r.face, full |-> r.full,
              filled |-> r.status # "CONTEXT_MISMATCH"]

BuildTextMetricCacheKey(full, c) == <<full, c>>

(* The charset the font is made with. *)
TargetCharset(f, asked) ==
    IF asked = "DEFAULT" /\ f.charset \in {"ANSI", "HOST"} THEN "TARGET" ELSE f.charset

(* NtGdiHfontCreate: a program's own fonts get the target's charset, those of *)
(* LEP, made under an active frame, the one they ask for.                     *)
LepNtGdiHfontCreateWorker(c, bypassed) ==
    IF ~bypassed /\ c \in {"ANSI", "DEFAULT"} THEN "TARGET" ELSE c

(***************************************************************************)
(* LepEnumFontCallbackW for one font: the entry it adds to the cache, if   *)
(* it looks, and what the program's callback is called with.               *)
(***************************************************************************)
Skip == [face |-> NoText, charset |-> "none", metrics |-> "none"]
Given(f) == [face |-> f.face, charset |-> f.charset, metrics |-> "system"]

Look(f, asked) ==
    LET a == AdjustFontData(f)
        c == LepNtGdiHfontCreateWorker(TargetCharset(f, asked), TRUE)
        skip == a.status \in {"NAME_NOT_FOUND", "CONTEXT_MISMATCH"}
    IN  [key |-> BuildTextMetricCacheKey(a.full, f.charset),
         entry |-> [magic |-> ~skip, filled |-> a.filled, metrics |-> c],
         told |-> IF skip THEN Skip
                  ELSE IF a.filled THEN [face |-> a.face, charset |-> c, metrics |-> c]
                  ELSE [Given(f) EXCEPT !.face = a.face]]

(* The names are not kept: a font found in the cache has the system's. *)
Found(f, entry) ==
    IF ~entry.magic THEN Skip
    ELSE IF ~entry.filled THEN Given(f)
    ELSE [face |-> f.face, charset |-> f.charset, metrics |-> entry.metrics]

LepEnumFontCallbackW(asked) ==
    LET key == BuildTextMetricCacheKey(font.full, font.charset)
        look == Look(font, asked)
        hit == arch = "x86" /\ key \in DOMAIN cache
    IN  /\ told' = Append(told, IF hit THEN Found(font, cache[key]) ELSE look.told)
        /\ cache' = IF hit THEN cache
                    ELSE [k \in DOMAIN cache \cup {look.key} |->
                             IF k = look.key THEN look.entry ELSE cache[k]]
        /\ charset' = Append(charset, asked)
        /\ UNCHANGED <<arch, font>>

(* The families of functions: only the Ex ones take a charset. *)
EnumFontFamiliesEx(asked) == Len(told) < MaxRounds /\ LepEnumFontCallbackW(asked)
EnumFontFamilies == Len(told) < MaxRounds /\ LepEnumFontCallbackW("DEFAULT")
EnumFonts == Len(told) < MaxRounds /\ LepEnumFontCallbackW("DEFAULT")

Init ==
    /\ arch \in {"x86", "x64"} /\ font \in Fonts
    /\ cache = [k \in {} |-> 0] /\ told = <<>> /\ charset = <<>>

Next ==
    \/ \E asked \in {"DEFAULT", "TARGET"} : EnumFontFamiliesEx(asked)
    \/ EnumFontFamilies
    \/ EnumFonts

Spec == Init /\ [][Next]_vars
------------------------------------------------------------------------------
(* EnumerationsAgree: a later enumeration reports a font exactly if the first *)
(* one did; while the names are those the system reports it does so with the  *)
(* same face name and with the metrics of the charset the first one made the  *)
(* font with.  A font is hidden only for its name table: when it has none, or *)
(* when its first name in the host's language, or its last in English where   *)
(* there is none, is not the one reported (LepEnumFontCallbackW,              *)
(* GetTextMetricFromCache).                                                   *)
NameOf(language, i) == font.table[i].name = "FACENAME" /\ font.table[i].language = language
HostNamed ==
    \E i \in DOMAIN font.table :
        /\ font.table[i].text = font.face
        /\ \/ NameOf(Host, i) /\ \A j \in 1 .. (i - 1) : ~NameOf(Host, j)
           \/ /\ \A j \in DOMAIN font.table : ~NameOf(Host, j)
              /\ NameOf(English, i) /\ \A j \in DOMAIN font.table : NameOf(English, j) => j <= i
EnumerationsAgree ==
    \A i \in DOMAIN told :
        /\ told[i] = Skip <=> font.made /\ ~font.raster /\ ~HostNamed
        /\ \A j \in 1 .. i : told[j].face = font.face =>
              /\ told[i].face = font.face
              /\ charset[i] = charset[j] => told[i].metrics = told[j].metrics

(* What makes it inductive: the cache has at most the font's entry, under    *)
(* the name told to the program; when that is the name the system reports,   *)
(* the first enumeration looks and every other one finds its entry.          *)
Asked == {"DEFAULT", "TARGET"}
Reports == {Look(font, c).told : c \in Asked} \cup {Found(font, Look(font, c).entry) : c \in Asked}
LookKey == BuildTextMetricCacheKey(AdjustFontData(font).full, font.charset)
FoundAgain == arch = "x86" /\ LookKey = BuildTextMetricCacheKey(font.full, font.charset)
EnumerationInv ==
    /\ font \in Fonts /\ arch \in {"x86", "x64"}
    /\ told \in Seq(Reports) /\ charset \in Seq(Asked) /\ Len(told) = Len(charset)
    /\ DOMAIN cache \subseteq {LookKey}
    /\ told = <<>> => DOMAIN cache = {}
    /\ \A i \in DOMAIN told :
          IF FoundAgain /\ i > 1 THEN told[i] = Found(font, Look(font, charset[1]).entry)
          ELSE told[i] = Look(font, charset[i]).told
    /\ FoundAgain /\ told # <<>> =>
          LookKey \in DOMAIN cache /\ cache[LookKey] = Look(font, charset[1]).entry
=============================================================================
