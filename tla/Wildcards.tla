------------------------------ MODULE Wildcards ------------------------------
(* Whether a name is in the language of an expression with wild cards        *)
(* (support/native/Path.cpp): the automaton that keeps the states it may be  *)
(* in, in increasing order, in one of two arrays, the other being filled.    *)
(* State 4k is before the character k (counted from 0) of the expression,    *)
(* state 4k+3 behind it.                                                     *)
EXTENDS Integers, Sequences, SequencesExt, FiniteSetsExt

CONSTANTS MATCHES_ARRAY_SIZE,   \* of each array of the stack
          Exprs, Names          \* the expressions and names asked for (bounds)

DOS_STAR == "<"
DOS_QM   == ">"
DOS_DOT  == "q"                 \* the double quote
WildChars == {"*", "?", DOS_STAR, DOS_QM, DOS_DOT}

Upcase(c) == IF c = "a" THEN "A" ELSE c

VARIABLES expr, name,           \* what is compared, upcased when case is ignored
          phase,                \* "called", "next", "each", "walk", "returned", "refused"
          verdict,
          at, finished,         \* how many characters are taken, NameFinished
          previous, current,    \* the two arrays
          src, skip,            \* SrcCount, PreviousDestCount
          k,                    \* ExprOffset in characters
          grown                 \* AuxBuffer # NULL

vars == <<expr, name, phase, verdict, at, finished, previous, current, src, skip, k, grown>>
array == <<previous, current, src, skip, k, grown>>

Chars == Len(expr)
MaxState == 4 * Chars
NameChar == name[at]

Init == /\ expr \in Exprs /\ name \in Names
        /\ phase = "called" /\ verdict = FALSE
        /\ at = 0 /\ finished = FALSE
        /\ previous = <<0>> /\ current = <<>> /\ src = 0 /\ skip = 0 /\ k = 0
        /\ grown = FALSE

(* IsNameInExpression: with case ignored and no table both are upcased, and  *)
(* a failure of that is a name that does not match.                          *)
IsNameInExpression ==
  /\ phase = "called"
  /\ \/ phase' = "private" /\ UNCHANGED <<expr, name>>
     \/ /\ expr' = [i \in DOMAIN expr |-> Upcase(expr[i])]
        /\ name' = [i \in DOMAIN name |-> Upcase(name[i])]
        /\ phase' = "private"
     \/ phase' = "refused" /\ UNCHANGED <<expr, name>>
  /\ UNCHANGED <<verdict, at, finished>> /\ UNCHANGED array

(* DoesNameContainWildCards looks back from the end to a backslash.          *)
DoesNameContainWildCards(n) ==
  \E i \in DOMAIN n : n[i] \in WildChars /\ \A j \in i .. Len(n) : n[j] # "\\"

Return(v) == /\ phase' = "returned" /\ verdict' = v
             /\ UNCHANGED <<expr, name, at, finished>> /\ UNCHANGED array

(* A single star, and a star before a tail without wild cards.               *)
OneStar == Chars >= 1 /\ expr[1] = "*" /\ ~DoesNameContainWildCards(Tail(expr))

ShortCut ==
  /\ phase = "private"
  /\ \/ (name = <<>> \/ expr = <<>>) /\ Return(name = <<>> /\ expr = <<>>)
     \/ name # <<>> /\ OneStar /\ Return(IsSuffix(Tail(expr), name))

Start == /\ phase = "private" /\ name # <<>> /\ expr # <<>> /\ ~OneStar
         /\ phase' = "next"
         /\ UNCHANGED <<expr, name, verdict, at, finished>> /\ UNCHANGED array

(* The head of the outer loop: another character, or one more turn behind    *)
(* the last of them unless the expression is exhausted too.                  *)
NextCharacter ==
  /\ phase = "next"
  /\ \/ /\ at < Len(name) /\ at' = at + 1 /\ UNCHANGED finished
        /\ phase' = "each" /\ UNCHANGED verdict
     \/ /\ at = Len(name) /\ ~finished /\ finished' = TRUE /\ UNCHANGED at
        /\ IF Last(previous) = MaxState
           THEN phase' = "returned" /\ verdict' = TRUE
           ELSE phase' = "each" /\ UNCHANGED verdict
     \/ /\ finished /\ phase' = "returned"
        /\ verdict' = (Last(previous) = MaxState) /\ UNCHANGED <<at, finished>>
  /\ current' = <<>> /\ src' = 0 /\ skip' = 0
  /\ UNCHANGED <<expr, name, previous, k, grown>>

(* The next state of the previous turn, taken up at its character.           *)
NextSource ==
  /\ phase = "each" /\ src < Len(previous)
  /\ src' = src + 1
  /\ k' = (previous[src + 1] + 1) \div 4
  /\ phase' = IF k' = Chars THEN "dedupe" ELSE "walk"
  /\ UNCHANGED <<expr, name, verdict, at, finished, previous, current, skip, grown>>

(* A dot is taken by DOS_STAR when another one follows in the name.          *)
ICanEatADot == \E i \in at + 1 .. Len(name) : name[i] = "."

(* (mutant: DOS_STAR takes the last dot too) *)
BadEats(c) == c \in {"*", DOS_STAR}
Eats(c) == \/ c = "*"
           \/ c = DOS_STAR /\ (finished \/ NameChar # "." \/ ICanEatADot)

(* Wild cards that may stand for nothing here: the walk goes on behind them. *)
GoesOn(c) == \/ c \in {"*", DOS_STAR}
             \/ c = DOS_QM /\ (finished \/ NameChar = ".")
             \/ c = DOS_DOT /\ finished

(* Characters that the name's character satisfies, and that it uses up.      *)
Takes(c) == /\ ~finished
            /\ \/ c = DOS_QM /\ NameChar # "."
               \/ c = DOS_DOT /\ NameChar = "."
               \/ c = "?"
               \/ c = NameChar

Entries(c) ==
  CASE c \in {"*", DOS_STAR} -> (IF Eats(c) THEN <<4 * k>> ELSE <<>>) \o <<4 * k + 3>>
    [] GoesOn(c)             -> <<>>
    [] Takes(c)              -> <<4 * k + 4>>
    [] OTHER                 -> <<>>

(* One turn of the inner loop, and the move of both arrays to the heap when  *)
(* those of the stack may not hold what comes next.                          *)
AuxBuffer == grown \/ Len(current) >= MATCHES_ARRAY_SIZE - 2

Walk ==
  /\ phase = "walk"
  /\ IF k = Chars
     THEN /\ current' = Append(current, MaxState)
          /\ phase' = "dedupe" /\ UNCHANGED <<k, grown>>
     ELSE /\ current' = current \o Entries(expr[k + 1])
          /\ grown' = AuxBuffer
          /\ IF GoesOn(expr[k + 1]) THEN k' = k + 1 /\ UNCHANGED phase
             ELSE phase' = "dedupe" /\ UNCHANGED k
  /\ UNCHANGED <<expr, name, verdict, at, finished, previous, src, skip>>

(* States that the previous turn left and that are below one just added are  *)
(* passed over, since the array must not hold one twice.                     *)
Dedupe ==
  LET past[i \in skip .. Len(current), s \in 0 .. Len(previous)] ==
        IF i = Len(current) \/ s = Len(previous) THEN <<i, s>>
        ELSE IF previous[s + 1] < current[i + 1] THEN past[i, s + 1]
        ELSE past[i + 1, s]
      end == past[skip, src]
  IN /\ phase = "dedupe"
     /\ src' = end[2] /\ skip' = end[1]
     /\ phase' = "each"
     /\ UNCHANGED <<expr, name, verdict, at, finished, previous, current, k, grown>>

(* The end of a turn: nothing matches, or the arrays change their roles.     *)
NoMatch == /\ phase = "each" /\ src = Len(previous) /\ current = <<>>
           /\ Return(FALSE)

Swap == /\ phase = "each" /\ src = Len(previous) /\ current # <<>>
        /\ previous' = current /\ phase' = "next"
        /\ UNCHANGED <<expr, name, verdict, at, finished, current, src, skip, k, grown>>

Next == \/ IsNameInExpression \/ ShortCut \/ Start \/ NextCharacter
        \/ NextSource \/ Walk \/ Dedupe \/ NoMatch \/ Swap

Spec == Init /\ [][Next]_vars /\ WF_vars(Next)

-----------------------------------------------------------------------------
(* What the wild cards mean: in[i, j] when the name from its i-th character  *)
(* is described by the expression from its j-th.                             *)
Described ==
  LET n == Len(name)
      dot(i) == name[i] = "."
      final(i) == i <= n /\ dot(i) /\ \A d \in i + 1 .. n : ~dot(d)
      last(j) == \A m \in j .. Chars : expr[m] = DOS_QM
      in[i \in 1 .. n + 1, j \in 1 .. Chars + 1] ==
        IF j = Chars + 1 THEN i = n + 1
        ELSE LET c == expr[j]
                 one == i <= n /\ in[i + 1, j + 1]       \* c stands for this character
                 none == in[i, j + 1]                    \* c stands for nothing
                 more == i <= n /\ in[i + 1, j]          \* c stands for this and more
             IN CASE c = "*" -> none \/ more
                  [] c = DOS_STAR -> none \/ IF final(i) THEN one ELSE more
                  [] c = DOS_QM -> IF i > n \/ dot(i) THEN none \/ (i = n /\ last(j)) ELSE one
                  [] c = DOS_DOT -> IF i > n THEN none ELSE dot(i) /\ one
                  [] c = "?" -> one
                  [] OTHER -> i <= n /\ name[i] = c /\ one
  IN in[1, 1]

(* The answer is whether the name is one of those that the expression        *)
(* describes (an empty name only the empty expression does), and no array is written or read beyond its end while it is     *)
(* looked for: the arrays of the stack until AuxBuffer is made, then two of  *)
(* twice the states of the expression.                                       *)
Room == IF grown THEN 2 * (Chars + 1) ELSE MATCHES_ARRAY_SIZE

NamesAreDescribed ==
  /\ phase = "returned" => verdict = IF name = <<>> THEN expr = <<>> ELSE Described
  /\ Len(current) <= Room /\ Len(previous) <= Room
=============================================================================
