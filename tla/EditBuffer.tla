----------------------------- MODULE EditBuffer -----------------------------
(***************************************************************************)
(* The buffer of the internal editor (edit/edit.c): the text on both sides *)
(* of the cursor, the blocks that hold it, the counters of lines, the      *)
(* marks and the top of the screen that follow every change, and the undo  *)
(* stack, a ring with run-length coding that forgets its oldest key press  *)
(* when it is full.                                                        *)
(*                                                                         *)
(* Every command of the editor is a key press followed by calls of the     *)
(* primitives edit_insert, edit_insert_ahead, edit_delete, edit_backspace, *)
(* edit_cursor_move, edit_mark_cmd, each an action here; the mouse wheel   *)
(* calls them without a key press.  So any sequence of them may occur.     *)
(***************************************************************************)
EXTENDS Integers, Sequences, FiniteSets

CONSTANTS Char,       \* the characters of a text
          NewLine,    \* '\n'
          BufSize,    \* EDIT_BUF_SIZE, bytes in a block
          MaxBuff,    \* MAXBUFF, blocks on each side
          Height,     \* num_widget_lines
          StartStack, \* START_STACK_SIZE
          MaxUndos,   \* the values of option_max_undo
          Slack,      \* the 10 of edit_push_action
          FileSizes,  \* bound: the lengths of the files opened
          MaxSteps    \* bound: steps that are not part of an undo

SizeLimit == BufSize * (MaxBuff - 2)

ASSUME EditAssumption ==
  /\ NewLine \in Char /\ BufSize \in Nat \ {0, 1} /\ MaxBuff \in Nat \ {0, 1}
  /\ {Height, StartStack, Slack, MaxSteps} \cup MaxUndos \subseteq Nat \ {0}
  /\ StartStack > Slack /\ Slack > 4 /\ FileSizes \subseteq 0..SizeLimit - 1

VARIABLES
  before, after,       \* buffers1 up to the cursor, buffers2 from it on
  alloc1, alloc2,      \* the blocks allocated on each side
  last_byte, curs_line, total_lines,
  start_display, start_line,  \* the first character and line on the screen
  mark1, mark2,        \* the marked block; mark2 = -1 while it follows the cursor
  undo,                \* the undo stack: ring, stack_pointer sp, stack_bottom
  option_max_undo,     \* the size the undo stack may grow to
  stack_disable,       \* an undo is at work
  steps,               \* how many steps were taken
  snaps                \* history: text and cursor at the key presses remembered

sideVars == <<before, after, alloc1, alloc2>>
lineVars == <<last_byte, curs_line, total_lines>>
topVars  == <<start_display, start_line>>
markVars == <<mark1, mark2>>
userVars == <<option_max_undo, stack_disable, steps>>
vars == <<sideVars, lineVars, topVars, markVars, undo, snaps, userVars>>

curs1 == Len(before)
curs2 == Len(after)
text  == before \o after

\* edit_count_lines: the line ends among the characters from..upto - 1.
edit_count_lines(s, from, upto) ==
  Cardinality({i \in from + 1..upto : i <= Len(s) /\ s[i] = NewLine})

---------------------------------------------------------------------------
(* The undo stack.  An entry says what will undo a step; "times" on top of *)
(* an entry says how often that one was pushed.  Slots that hold nothing   *)
(* alive are cleared, which the code leaves out: it does not use them.     *)

Entry(op, arg) == [op |-> op, arg |-> arg]
Nothing == Entry("nothing", 0)
Left  == Entry("left", 0)
Right == Entry("right", 0)
IsKey(e)   == e.op = "key"
IsTimes(e) == e.op = "times"

\* An entry that stands for more than two pushes.
Repeats_Once(e) == IsTimes(e) /\ e.arg > 1
Repeats(e) == IsTimes(e) /\ e.arg > 2

stack_size(st) == Cardinality(DOMAIN st.ring)
Keys(st) == Cardinality({i \in DOMAIN st.ring : IsKey(st.ring[i])})

\* st with ring r, pointer p and bottom b.
Stack(r, b, p) ==
  LET size == Cardinality(DOMAIN r)
  IN [ring |-> [i \in DOMAIN r |-> IF (i - b) % size < (p - b) % size
                                      THEN r[i] ELSE Nothing],
      bottom |-> b, sp |-> p]

EmptyStack(size) == Stack([i \in 0..size - 1 |-> Nothing], 0, 0)

\* The stack is enlarged by doubling it.
Enlarged(st) ==
  IF st.sp > stack_size(st) - Slack /\ stack_size(st) < option_max_undo
    THEN [st EXCEPT !.ring = [i \in 0..2 * stack_size(st) - 1 |->
                                IF i \in DOMAIN st.ring THEN st.ring[i] ELSE Nothing]]
    ELSE st

\* The bottom goes up to the next key press, or to the pointer.
NextKey(r, b, p) ==
  LET size == Cardinality(DOMAIN r)
      Stops(i) == IsKey(r[(b + i) % size]) \/ (b + i) % size = p
  IN (b + CHOOSE i \in 1..size : Stops(i) /\ \A j \in 1..i - 1 : ~Stops(j)) % size

\* Ring r is now used up to p.  If that is nearly all of it, the oldest key
\* press goes; if no key press is left at the bottom, everything.
CheckBottom(r, bottom, p) ==
  LET size == Cardinality(DOMAIN r)
      full == bottom \in {(p + 2) % size, (p + 3) % size}
      b    == IF full THEN NextKey(r, bottom, p) ELSE bottom
  IN IF p # b /\ ~IsKey(r[b]) THEN EmptyStack(size) ELSE Stack(r, b, p)

\* The stack once e is pushed on st.
edit_push_action(st, e) ==
  LET big    == Enlarged(st)
      sp     == big.sp
      size   == stack_size(big)
      spm1   == (sp - 1) % size
      top    == big.ring[spm1]
      d      == IF IsTimes(top) THEN big.ring[(sp - 2) % size] ELSE top
      deep   == big.bottom \notin {sp, spm1, (sp - 2) % size}
      Times(n) == [big EXCEPT !.ring[spm1] = Entry("times", n)]
      With(x)  == CheckBottom([big.ring EXCEPT ![sp] = x], big.bottom, (sp + 1) % size)
  IN CASE deep /\ d = e /\ IsKey(e)                   -> big
       [] deep /\ d = e /\ ~IsKey(e) /\ IsTimes(top)  -> Times(top.arg + 1)
       [] deep /\ d = e /\ ~IsKey(e) /\ ~IsTimes(top) -> With(Entry("times", 2))
       [] deep /\ {d, e} = {Left, Right} /\ Repeats(top)  -> Times(top.arg - 1)
       [] deep /\ {d, e} = {Left, Right} /\ ~Repeats(top) ->
            Stack(big.ring, big.bottom, spm1)
       [] OTHER -> With(e)

\* What pop_action returns, and the stack it leaves.
Popped(st) ==
  LET top == st.ring[(st.sp - 1) % stack_size(st)]
  IN IF st.sp = st.bottom THEN Entry("bottom", 0)
     ELSE IF IsTimes(top) THEN st.ring[(st.sp - 2) % stack_size(st)] ELSE top

pop_action(st) ==
  LET spm1 == (st.sp - 1) % stack_size(st)
      top  == st.ring[spm1]
  IN IF st.sp = st.bottom THEN st
     ELSE IF Repeats(top)
       THEN [st EXCEPT !.ring[spm1] = Entry("times", top.arg - 1)]
       ELSE Stack(st.ring, st.bottom, spm1)

\* A step of the user, when no undo is at work.
Step ==
  /\ ~stack_disable /\ steps < MaxSteps /\ steps' = steps + 1
  /\ UNCHANGED <<option_max_undo, stack_disable>>

\* The stack becomes st; the snapshots of the key presses it lost go with them.
Record(st) ==
  /\ Step
  /\ undo' = st /\ snaps' = SubSeq(snaps, Len(snaps) - Keys(st) + 1, Len(snaps))

---------------------------------------------------------------------------
(* The text, and what follows its changes *)

Load(file) ==
  /\ before = <<>> /\ after = file
  /\ alloc1 = {} /\ alloc2 = 0..Len(file) \div BufSize
  /\ last_byte = Len(file) /\ curs_line = 0
  /\ total_lines = edit_count_lines(file, 0, Len(file))

Init ==
  /\ \E n \in FileSizes : \E file \in [1..n -> Char] : Load(file)
  /\ start_display = 0 /\ start_line = 0 /\ mark1 = 0 /\ mark2 = 0
  /\ undo = EmptyStack(StartStack) /\ stack_disable = FALSE /\ snaps = <<>>
  /\ option_max_undo \in MaxUndos /\ steps = 0

One(condition) == IF condition THEN 1 ELSE 0
IsEnd(c) == One(c = NewLine)

\* A place before the first character on the screen.
Above_OrAt(place) == place <= start_display
Above(place) == place < start_display

\* A block more or less on each side when the cursor crosses its edge.
MoreBlocks1  == IF curs1 % BufSize = 0 THEN alloc1 \cup {curs1 \div BufSize} ELSE alloc1
FewerBlocks1 == IF (curs1 - 1) % BufSize = 0 THEN alloc1 \ {curs1 \div BufSize} ELSE alloc1
MoreBlocks2_Late == IF curs2 % BufSize = 0 THEN alloc2 \cup {curs2 \div BufSize} ELSE alloc2
MoreBlocks2  == IF (curs2 + 1) % BufSize = 0
                  THEN alloc2 \cup {(curs2 + 1) \div BufSize} ELSE alloc2
FewerBlocks2 == IF curs2 % BufSize = 0 THEN alloc2 \ {curs2 \div BufSize} ELSE alloc2

\* The screen starts by characters later or earlier, lines lines further.
TopMoves(characters, lines) ==
  /\ start_display' = start_display + characters
  /\ start_line' = start_line + lines

Insert(c) ==
  /\ last_byte < SizeLimit
  /\ TopMoves(One(Above(curs1)), IF Above(curs1) THEN IsEnd(c) ELSE 0)
  /\ curs_line' = curs_line + IsEnd(c) /\ total_lines' = total_lines + IsEnd(c)
  /\ mark1' = mark1 + One(mark1 > curs1) /\ mark2' = mark2 + One(mark2 > curs1)
  /\ alloc1' = MoreBlocks1
  /\ before' = Append(before, c) /\ last_byte' = last_byte + 1
  /\ UNCHANGED <<after, alloc2>>

InsertAhead(c) ==
  /\ last_byte < SizeLimit
  /\ TopMoves(One(Above(curs1)), IF Above(curs1) THEN IsEnd(c) ELSE 0)
  /\ total_lines' = total_lines + IsEnd(c)
  /\ mark1' = mark1 + One(mark1 >= curs1) /\ mark2' = mark2 + One(mark2 >= curs1)
  /\ alloc2' = MoreBlocks2
  /\ after' = <<c>> \o after /\ last_byte' = last_byte + 1
  /\ UNCHANGED <<before, alloc1, curs_line>>

Delete ==
  LET c == Head(after)
  IN /\ curs2 > 0
     /\ mark1' = mark1 - One(mark1 > curs1) /\ mark2' = mark2 - One(mark2 > curs1)
     /\ alloc2' = FewerBlocks2
     /\ after' = Tail(after) /\ last_byte' = last_byte - 1
     /\ total_lines' = total_lines - IsEnd(c)
     /\ TopMoves(-One(Above(curs1)), IF Above(curs1) THEN -IsEnd(c) ELSE 0)
     /\ UNCHANGED <<before, alloc1, curs_line>>

Backspace ==
  LET c == before[curs1]
  IN /\ curs1 > 0
     /\ mark1' = mark1 - One(mark1 >= curs1) /\ mark2' = mark2 - One(mark2 >= curs1)
     /\ alloc1' = FewerBlocks1
     /\ before' = SubSeq(before, 1, curs1 - 1) /\ last_byte' = last_byte - 1
     /\ curs_line' = curs_line - IsEnd(c) /\ total_lines' = total_lines - IsEnd(c)
     /\ TopMoves(-One(Above(curs1 - 1)), IF Above(curs1 - 1) THEN -IsEnd(c) ELSE 0)
     /\ UNCHANGED <<after, alloc2>>

MoveLeft ==
  LET c == before[curs1]
  IN /\ curs1 > 0
     /\ alloc2' = MoreBlocks2
     /\ alloc1' = FewerBlocks1
     /\ after' = <<c>> \o after /\ before' = SubSeq(before, 1, curs1 - 1)
     /\ curs_line' = curs_line - IsEnd(c)
     /\ UNCHANGED <<last_byte, total_lines, topVars, markVars>>

MoveRight ==
  LET c == Head(after)
  IN /\ curs2 > 0
     /\ alloc1' = MoreBlocks1
     /\ alloc2' = FewerBlocks2
     /\ before' = Append(before, c) /\ after' = Tail(after)
     /\ curs_line' = curs_line + IsEnd(c)
     /\ UNCHANGED <<last_byte, total_lines, topVars, markVars>>

---------------------------------------------------------------------------
(* The primitives, recorded *)

edit_insert(c)       == Insert(c)      /\ Record(edit_push_action(undo, Entry("backspace", 0)))
edit_insert_ahead(c) == InsertAhead(c) /\ Record(edit_push_action(undo, Entry("delchar", 0)))
edit_delete    == Delete    /\ Record(edit_push_action(undo, Entry("ahead", Head(after))))
edit_backspace == Backspace /\ Record(edit_push_action(undo, Entry("insert", before[curs1])))
edit_cursor_left  == MoveLeft  /\ Record(edit_push_action(undo, Right))
edit_cursor_right == MoveRight /\ Record(edit_push_action(undo, Left))

edit_push_markers == edit_push_action(edit_push_action(undo, Entry("mark1", mark1)),
                                      Entry("mark2", mark2))

\* Marks are taken off, put down at the cursor, or closed at the cursor.
edit_mark_cmd(unmark) ==
  /\ Record(edit_push_markers)
  /\ mark1' = IF unmark THEN 0 ELSE IF mark2 >= 0 THEN curs1 ELSE mark1
  /\ mark2' = IF unmark THEN 0 ELSE IF mark2 >= 0 THEN -1 ELSE curs1
  /\ UNCHANGED <<sideVars, lineVars, topVars>>

\* The text and the cursor are remembered with the key press.
edit_push_key_press ==
  LET keyed  == edit_push_action(undo, Entry("key", start_display))
      marked == IF mark2 = -1 THEN edit_push_action(keyed, Entry("mark1", mark1)) ELSE keyed
      known  == IF keyed.sp = undo.sp THEN snaps
                ELSE Append(snaps, [text |-> text, cursor |-> curs1])
  IN /\ Step /\ undo' = marked
     /\ snaps' = SubSeq(known, Len(known) - Keys(marked) + 1, Len(known))
     /\ UNCHANGED <<sideVars, lineVars, topVars, markVars>>

\* Scrolling by a line, which is not recorded.
LineStarts == {0} \cup {i \in 1..last_byte : text[i] = NewLine}

ScrollTo(top, lines) ==
  /\ Step
  /\ start_display' = top /\ start_line' = start_line + lines
  /\ UNCHANGED <<sideVars, lineVars, markVars, undo, snaps>>

\* The start of the line before the one the screen starts in.
edit_scroll_upward ==
  /\ start_line > 0
  /\ \E top \in LineStarts :
       /\ top <= start_display /\ edit_count_lines(text, top, start_display) = 1
       /\ ScrollTo(top, -1)

\* The start of the line after it.
edit_scroll_downward ==
  /\ total_lines - start_line - (Height - 1) > 0
  /\ \E top \in LineStarts :
       /\ top > start_display /\ edit_count_lines(text, start_display, top) = 1
       /\ ScrollTo(top, 1)

---------------------------------------------------------------------------
(* edit_do_undo *)

BeginUndo ==
  /\ ~stack_disable /\ steps < MaxSteps
  /\ stack_disable' = TRUE /\ steps' = steps + 1
  /\ UNCHANGED <<sideVars, lineVars, topVars, markVars, undo, snaps, option_max_undo>>

\* One entry is undone by the primitives, which record nothing now, though their
\* edit_push_action may still enlarge the stack.
Undo(e) ==
  \/ e = Right /\ MoveRight
  \/ e = Left /\ MoveLeft
  \/ e.op = "backspace" /\ Backspace
  \/ e.op = "delchar" /\ Delete
  \/ e.op = "ahead" /\ InsertAhead(e.arg)
  \/ e.op = "insert" /\ Insert(e.arg)
  \/ /\ e.op = "mark1" /\ mark1' = e.arg
     /\ UNCHANGED <<sideVars, lineVars, topVars, mark2>>
  \/ /\ e.op = "mark2" /\ mark2' = e.arg
     /\ UNCHANGED <<sideVars, lineVars, topVars, mark1>>

UndoOne ==
  /\ stack_disable /\ Popped(undo).op \notin {"key", "bottom"}
  /\ Undo(Popped(undo))
  /\ undo' = IF Popped(undo).op \in {"mark1", "mark2"} THEN pop_action(undo)
             ELSE Enlarged(pop_action(undo))
  /\ UNCHANGED <<snaps, userVars>>

EndUndo ==
  LET key == Popped(undo).arg
  IN /\ stack_disable /\ Popped(undo).op \in {"key", "bottom"}
     /\ stack_disable' = FALSE
     /\ IF Popped(undo).op = "bottom" THEN UNCHANGED <<topVars, undo, snaps>>
        ELSE /\ start_display' = key
             /\ start_line' = start_line - edit_count_lines(text, key, start_display)
                                         + edit_count_lines(text, start_display, key)
             /\ undo' = pop_action(undo)
             /\ snaps' = SubSeq(snaps, 1, Len(snaps) - 1)
     /\ UNCHANGED <<sideVars, lineVars, markVars, option_max_undo, steps>>

---------------------------------------------------------------------------

Next ==
  \/ \E c \in Char : edit_insert(c) \/ edit_insert_ahead(c)
  \/ edit_delete \/ edit_backspace \/ edit_cursor_left \/ edit_cursor_right
  \/ edit_mark_cmd(TRUE) \/ edit_mark_cmd(FALSE)
  \/ edit_push_key_press \/ edit_scroll_upward \/ edit_scroll_downward
  \/ BeginUndo \/ UndoOne \/ EndUndo

Spec == Init /\ [][Next]_vars

\* What edit_save_file writes, block after block.
Block1(b, n) == SubSeq(before, b * BufSize + 1, b * BufSize + n)
Block2(b, n) == LET last == curs2 - b * BufSize IN SubSeq(after, last - n + 1, last)

Concat(n, s(_)) == LET c[i \in 0..n] == IF i = 0 THEN <<>> ELSE c[i - 1] \o s(i) IN c[n]

\* The characters in the last block of the second side, which is written first.
InLastBlock2_NoStep == curs2 % BufSize
InLastBlock2 == 1 + ((curs2 - 1) % BufSize)

Written ==
  LET full1 == curs1 \div BufSize
      full2 == (curs2 - 1) \div BufSize
  IN Concat(full1, LAMBDA i : Block1(i - 1, BufSize)) \o Block1(full1, curs1 % BufSize)
     \o IF curs2 = 0 THEN <<>>
        ELSE Block2(full2, InLastBlock2)
             \o Concat(full2, LAMBDA i : Block2(full2 - i, BufSize))

---------------------------------------------------------------------------
(* Properties *)

\* The counters never go below zero, the blocks stay within the arrays, and the
\* undo stack's pointers within the ring, through every edit and undo.
TypeOK ==
  /\ before \in Seq(Char) /\ after \in Seq(Char)
  /\ alloc1 \subseteq 0..MaxBuff /\ alloc2 \subseteq 0..MaxBuff
  /\ {last_byte, curs_line, total_lines, start_display, start_line, mark1} \subseteq Nat
  /\ mark2 \in Nat \cup {-1} /\ stack_disable \in BOOLEAN
  /\ {undo.sp, undo.bottom} \subseteq DOMAIN undo.ring

\* A block is allocated if and only if it holds text (the first block of the
\* second side always), whichever way the cursor crosses its edge: the primitives
\* write and free blocks they did not allocate themselves.
BlocksCover ==
  /\ alloc1 = {b \in 0..MaxBuff : b * BufSize < curs1}
  /\ alloc2 = 0..curs2 \div BufSize

\* The counters of bytes and lines are what counting the text would give, for the
\* cursor and for the top of the screen, after edits above and below both.
LinesCounted ==
  /\ last_byte = Len(text) /\ curs1 <= SizeLimit
  /\ total_lines = edit_count_lines(text, 0, last_byte)
  /\ curs_line = edit_count_lines(text, 0, curs1)
  /\ start_display <= last_byte
  /\ start_line = edit_count_lines(text, 0, start_display)

\* The marks that follow insertions and deletions stay inside the text.
MarksInText == mark1 <= last_byte /\ mark2 <= last_byte

\* What the primitives and edit_do_undo keep between them: blocks, counters, marks.
BufferConsistent == BlocksCover /\ LinesCounted /\ MarksInText

\* The blocks that edit_save_file writes, whatever the position of the cursor,
\* are the text, each byte once and in order.
SaveIsWhole == Written = text

\* The detailed buffer with its compressed, bounded undo stack implements EditText:
\* an undo restores the text and the cursor of the last key press it remembers,
\* and forgets only the oldest ones.
EditedText ==
  INSTANCE EditText WITH Limit <- SizeLimit, cursor <- curs1, history <- snaps,
                         undoing <- stack_disable

UndoRestores == EditedText!TextSpec
=============================================================================
