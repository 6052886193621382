---------------------------- MODULE RegistryView ----------------------------
(* What the virtual MUI keys promise to a program: a handle stands for the   *)
(* key it was opened on, virtual or not, from the return of NtOpenKey to the *)
(* call of NtClose, and every query of it is answered for that key.          *)
EXTENDS Naturals

CONSTANTS Threads, Handles, Keys, None

VARIABLES view,      \* the key a handle of the program stands for
          answer     \* the key a thread's query has been answered for

vars == <<view, answer>>

Init == /\ view = [h \in Handles |-> None]
        /\ answer = [t \in Threads |-> None]

Open(h, k) == /\ view[h] = None
              /\ view' = [view EXCEPT ![h] = k]
              /\ UNCHANGED answer

Close(h) == /\ view[h] # None
            /\ view' = [view EXCEPT ![h] = None]
            /\ UNCHANGED answer

Query(t, h) == /\ view[h] # None
               /\ answer' = [answer EXCEPT ![t] = view[h]]
               /\ UNCHANGED view

Return(t) == /\ answer' = [answer EXCEPT ![t] = None]
             /\ UNCHANGED view

Next == \/ \E h \in Handles : Close(h) \/ \E k \in Keys : Open(h, k)
        \/ \E t \in Threads : Return(t) \/ \E h \in Handles : Query(t, h)

Spec == Init /\ [][Next]_vars
=============================================================================
