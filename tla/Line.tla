-------------------------------- MODULE Line --------------------------------
(***************************************************************************)
(* What typing a line promises: characters before and after the place,     *)
(* fewer than LIMIT together, both of them on the screen and nothing       *)
(* behind them.  LineInput implements it.                                  *)
(***************************************************************************)
EXTENDS Naturals, Sequences

CONSTANTS LIMIT, CHARS

VARIABLES
  typed,         (* the characters before the place, and those after it    *)
  sight,         (* what the screen shows of them, and the place there     *)
  result         (* the line returned, or NoLine                           *)

lvars == <<typed, sight, result>>

NoLine == <<0>>   (* No character is 0.                                     *)

Before == typed[1]
After  == typed[2]
Goes(b, a) == typed' = <<b, a>> /\ sight' = [text |-> b \o a, at |-> Len(b)] /\ UNCHANGED result

Type == \E c \in CHARS : Len(Before \o After) < LIMIT - 1 /\ Goes(Append(Before, c), After)
Erase == \/ Before # <<>> /\ Goes(SubSeq(Before, 1, Len(Before) - 1), After)
         \/ After # <<>> /\ Goes(Before, Tail(After))
Move == \/ Before # <<>> /\ Goes(SubSeq(Before, 1, Len(Before) - 1), <<Before[Len(Before)]>> \o After)
        \/ After # <<>> /\ Goes(Append(Before, Head(After)), Tail(After))
        \/ Goes(<<>>, Before \o After)
        \/ Goes(Before \o After, <<>>)
Enter == result = NoLine /\ result' = Before \o After /\ UNCHANGED <<typed, sight>>

Init == typed = <<<<>>, <<>>>> /\ sight = [text |-> <<>>, at |-> 0] /\ result = NoLine
Next == result = NoLine /\ (Type \/ Erase \/ Move \/ Enter)
Spec == Init /\ [][Next]_lvars
=============================================================================
