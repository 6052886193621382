----------------------------- MODULE Environment -----------------------------
(* What LoaderDll makes of the environment it is given                      *)
(* (LoaderDll/Environment.cpp) and the payload in which it travels to the   *)
(* core (LocaleEmulatorPlus.h): operators only, Startup uses them.          *)
EXTENDS Integers

(* A public environment is a version, a size and fields. The time zone's id *)
(* and the names are fine or wrong in some way.                             *)
Inputs == [version : 1 .. 5, size : {"v2", "v3", "v4"},
           id : {"empty", "path", "unterminated", "unknown", "tokyo", "other"},
           terminated : BOOLEAN, tokyoBias : BOOLEAN,
           registry : 0 .. 3, language : {0, 2, 3}]

ValidTimezoneId(id, allowEmpty) == id \notin {"path", "unterminated"} /\ (id = "empty" => allowEmpty)

OpenTimeZone(id) == id \in {"tokyo", "other"}

ResolveTimeZone(id, wellFormed) == OpenTimeZone(id) /\ wellFormed

(* The size and the version of a resolved environment have just been written. *)
LepValidateRuntimeEnvironment(e) == e.registry <= 2 /\ e.language <= 2 /\ e.terminated

Version4(input, wellFormed) ==
  /\ input.version = 4 /\ input.size = "v4"
  /\ ValidTimezoneId(input.id, FALSE) /\ input.terminated
  /\ input.registry <= 2 /\ input.language <= 2
  /\ ResolveTimeZone(input.id, wellFormed)

Version3(input) ==
  /\ input.version = 3 /\ input.size = "v3"
  /\ ValidTimezoneId(input.id, TRUE)
  /\ input.id = "tokyo" => input.tokyoBias
  /\ input.id # "empty" => OpenTimeZone(input.id)

(* The environment an input stands for, if it is accepted. The names of a   *)
(* version 4 come from the registry or a terminated override; Tokyo's name  *)
(* is replaced by one in Japanese.                                          *)
LepResolveEnvironment(input, wellFormed) ==
  LET named == \/ input.version = 4
               \/ input.version = 3 /\ input.id = "tokyo"
               \/ input.terminated
      resolved == [registry |-> input.registry, language |-> input.language, terminated |-> named]
  IN IF /\ \/ Version4(input, wellFormed)
           \/ Version3(input)
           \/ input.version = 2 /\ input.size = "v2"
        /\ LepValidateRuntimeEnvironment(resolved)
     THEN {resolved} ELSE {}

-----------------------------------------------------------------------------
(* The payload: a header of ten ULONGs, the environment, the path of the DLL *)
(* and of its directory, each with its terminator. Lengths are in bytes.     *)

HeaderSize      == 40
EnvironmentSize == 204
WideChar        == 2
MaxSize         == 16777216       \* LEP_BOOTSTRAP_PAYLOAD_MAX_SIZE

RoundUp(n, to) == ((n + to - 1) \div to) * to

LepBootstrapPayloadSize(full, dir) ==
  LET size == RoundUp(RoundUp(HeaderSize, 8) + EnvironmentSize, WideChar)
                + full + WideChar + dir + WideChar
  IN IF size <= MaxSize THEN size ELSE 0

LepPayloadRangeValid(offset, size, total) == offset <= total /\ size <= total - offset

LepValidateBootstrapPayload(p) ==
  /\ p.total \in HeaderSize .. MaxSize
  /\ p.environment >= HeaderSize /\ p.full >= HeaderSize /\ p.dir >= HeaderSize
  /\ p.fullLength <= p.total - WideChar /\ p.dirLength <= p.total - WideChar
  /\ LepPayloadRangeValid(p.environment, EnvironmentSize, p.total)
  /\ LepPayloadRangeValid(p.full, p.fullLength + WideChar, p.total)
  /\ LepPayloadRangeValid(p.dir, p.dirLength + WideChar, p.total)
  /\ p.fullLength % WideChar = 0 /\ p.dirLength % WideChar = 0
  /\ LepValidateRuntimeEnvironment(p.value)

(* The directory is the path up to and with its last separator.              *)
BadLepBuildBootstrapPayload(value, full, dir) ==   \* mutant: no room for the terminator
  LET environment == RoundUp(HeaderSize, 8)
      path == RoundUp(environment + EnvironmentSize, WideChar)
  IN [total |-> LepBootstrapPayloadSize(full, dir), value |-> value, environment |-> environment,
      full |-> path, fullLength |-> full, dir |-> path + full, dirLength |-> dir]

LepBuildBootstrapPayload(value, full, dir) ==
  LET environment == RoundUp(HeaderSize, 8)
      path == RoundUp(environment + EnvironmentSize, WideChar)
  IN [total |-> LepBootstrapPayloadSize(full, dir), value |-> value, environment |-> environment,
      full |-> path, fullLength |-> full, dir |-> path + full + WideChar, dirLength |-> dir]

(* The parts of a payload, as [first, last] bytes with their terminators.    *)
Parts(p) == << <<0, HeaderSize - 1>>,
               <<p.environment, p.environment + EnvironmentSize - 1>>,
               <<p.full, p.full + p.fullLength + WideChar - 1>>,
               <<p.dir, p.dir + p.dirLength + WideChar - 1>> >>
=============================================================================
