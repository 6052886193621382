----------------------------- MODULE AnsiWindow -----------------------------
(* What the hooked SetWindowLongA, GetWindowLongA and IsWindowUnicode promise *)
(* of one window: until a program installs a procedure through the ANSI       *)
(* interface the window is the system's; from then on the procedure the ANSI  *)
(* interface shows is a register that only that interface changes, and each   *)
(* change returns the procedure it replaces.                                  *)
CONSTANTS Procs, Null

VARIABLES
    created,  \* the window exists
    ansi,     \* it is an ANSI window to the program
    proc,     \* what GetWindowLongA(GWLP_WNDPROC) returns
    returned  \* what the last SetWindowLongA returned

vars == <<created, ansi, proc, returned>>

Init == created = FALSE /\ ansi = FALSE /\ proc \in Procs /\ returned = Null

(* Creation decides whether the window is an ANSI window from the start. *)
Create ==
    /\ ~created
    /\ created' = TRUE
    /\ ansi' \in BOOLEAN
    /\ UNCHANGED <<proc, returned>>

(* SetWindowLongA as one exchange. *)
Exchange(new) ==
    /\ created
    /\ ansi' = TRUE
    /\ proc' = new
    /\ returned' = proc
    /\ UNCHANGED created

(* The W interface shows through only while the window is the system's. *)
WideReplaces(new) ==
    /\ created /\ ~ansi
    /\ proc' = new
    /\ UNCHANGED <<created, ansi, returned>>

Next == Create \/ \E new \in Procs : Exchange(new) \/ WideReplaces(new)

Spec == Init /\ [][Next]_vars
=============================================================================
