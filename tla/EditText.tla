------------------------------ MODULE EditText ------------------------------
(***************************************************************************)
(* What the editor promises about its buffer: a text and a cursor that     *)
(* commands change, and a history of what they were at each key press.     *)
(* Undo takes the text and the cursor back to the last key press that is   *)
(* remembered.  The editor may forget key presses, the oldest first; with  *)
(* nothing remembered, Undo changes nothing.                               *)
(***************************************************************************)
EXTENDS Naturals, Sequences

CONSTANTS Char,     \* the characters a text is made of
          Limit     \* the longest text, a natural number

VARIABLES text, cursor, history, undoing

textVars == <<text, cursor, history, undoing>>

Here == [text |-> text, cursor |-> cursor]

\* What is left of a history from which the oldest key presses were dropped.
Remembered(h) == {SubSeq(h, i, Len(h)) : i \in 1..Len(h) + 1}

Removed(s, i)     == SubSeq(s, 1, i - 1) \o SubSeq(s, i + 1, Len(s))
Inserted(s, i, c) == Append(SubSeq(s, 1, i), c) \o SubSeq(s, i + 1, Len(s))

TextInit ==
  /\ Len(text) <= Limit /\ cursor = 0 /\ history = <<>> /\ ~undoing

\* A key is pressed.  A second key press in the same place adds nothing.
KeyPress ==
  /\ ~undoing
  /\ \/ history' \in Remembered(Append(history, Here))
     \/ history # <<>> /\ history[Len(history)] = Here /\ UNCHANGED history
  /\ UNCHANGED <<text, cursor, undoing>>

Move ==
  /\ ~undoing
  /\ cursor' \in (({cursor - 1, cursor + 1} \cap 0..Len(text)) \cup {cursor})
  /\ history' \in Remembered(history)
  /\ UNCHANGED <<text, undoing>>

\* One character is put in at the cursor, which stays before it or goes past it.
Insert ==
  /\ ~undoing /\ Len(text) < Limit
  /\ \E c \in Char : text' = Inserted(text, cursor, c)
  /\ cursor' \in {cursor, cursor + 1}
  /\ history' \in Remembered(history)
  /\ UNCHANGED undoing

\* The character at the cursor, or the one before it, is removed.
Delete ==
  /\ ~undoing
  /\ \/ cursor < Len(text) /\ text' = Removed(text, cursor + 1) /\ UNCHANGED cursor
     \/ cursor > 0 /\ text' = Removed(text, cursor) /\ cursor' = cursor - 1
  /\ history' \in Remembered(history)
  /\ UNCHANGED undoing

BeginUndo == ~undoing /\ undoing' /\ UNCHANGED <<text, cursor, history>>

\* On the way back the text may be anything ...
UndoSome == undoing /\ undoing' /\ history # <<>> /\ UNCHANGED history

\* ... and in the end it is what it was.
EndUndo ==
  /\ undoing /\ ~undoing'
  /\ IF history = <<>>
       THEN UNCHANGED <<text, cursor, history>>
       ELSE /\ Here' = history[Len(history)]
            /\ history' = SubSeq(history, 1, Len(history) - 1)

TextNext ==
  \/ KeyPress \/ Move \/ Insert \/ Delete \/ BeginUndo \/ UndoSome \/ EndUndo

TextSpec == TextInit /\ [][TextNext]_textVars
=============================================================================
