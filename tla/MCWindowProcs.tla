--------------------------- MODULE MCWindowProcs ----------------------------
(* One window with three ANSI and three Unicode procedures.  The history    *)
(* variable tells whether a Unicode component has put back the procedure it *)
(* found over procedures set after its own.                                 *)
EXTENDS WindowProcs

CONSTANTS o, f, a0, a1, a2, w0, w1, w2

VARIABLE overtaken

Overtakes == \E p \in WideProcs : native' = beneath[p] /\ native # p /\ native # native'

MCInit == Init /\ overtaken = FALSE
MCNext == Next /\ overtaken' = (overtaken \/ Overtakes)
MCSpec == MCInit /\ [][MCNext]_<<vars, overtaken>>

(* When SetWindowLongA has put in a procedure, messages reach the wrapper,   *)
(* which calls it with the target's code page, and the program is told that  *)
(* its window is an ANSI window.  Not when a Unicode component has taken the *)
(* wrapper out with its own restore: the property stays and the worker does  *)
(* not wrap again (LepSetWindowLongAWorker).                                 *)
AnsiSetWraps ==
    [][\A t \in Threads :
          calls[t].step # "none" /\ calls'[t].step = "none" /\ ~overtaken
             => WrapperInForce' /\ ~LepIsWindowUnicode']_<<vars, overtaken>>
=============================================================================
