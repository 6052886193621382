---------------------------- MODULE ProcessLife ----------------------------
(***************************************************************************)
(* What the launcher and the child creation hook promise about the life of *)
(* each process: it is localised from its very first LdrLoadDll or not at  *)
(* all.                                                                    *)
(***************************************************************************)
CONSTANTS Procs, Launcher

VARIABLE phase

Init == phase = [p \in Procs |-> IF p = Launcher THEN "plain" ELSE "absent"]

Turn(p, from, to) == phase[p] \in from /\ phase' = [phase EXCEPT ![p] = to]

Create(p)   == Turn(p, {"absent"}, "held")
Arm(p)      == Turn(p, {"held"}, "armed")
StartPlain(p)     == Turn(p, {"held"}, "plain")
StartLocalised(p) == Turn(p, {"armed"}, "entering")
Localise(p) == Turn(p, {"entering"}, "ready")
GiveUp(p)   == Turn(p, {"entering"}, "failed")
Die(p)      == Turn(p, {"held", "armed", "plain", "entering", "ready", "failed"}, "dead")

Next == \E p \in Procs :
  Create(p) \/ Arm(p) \/ StartPlain(p) \/ StartLocalised(p) \/ Localise(p) \/ GiveUp(p) \/ Die(p)

Spec == Init /\ [][Next]_phase
=============================================================================
