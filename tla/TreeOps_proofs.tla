-------------------------- MODULE TreeOps_proofs --------------------------
(***************************************************************************)
(* What TreeOps promises for every tree, every list of marked entries and  *)
(* every number of failures: its variables stay in their types; moving     *)
(* directories loses nothing; and copying and deleting them keep to what   *)
(* the user asked for.                                                     *)
(***************************************************************************)
EXTENDS TreeOps, SequenceTheorems, TLAPS

FrameSet == [dir : Dir, seen : SUBSET Node, st : Status]
Kept == {"none", "old", "dir", "part", "whole"}

InCopy == {"stat", "dst_stat", "mkdir", "opendir", "entry"}
InErase == {"d_opendir", "d_entry", "d_rmdirs"}
ForDir == InCopy \cup {"m_dir", "m_rename", "m_copied", "m_erase", "d_dir", "d_ask"}

\* The trees, and where the control is.
DataType ==
  /\ op \in Ops /\ dive \in {0, 1} /\ src \subseteq came /\ came \subseteq Node
  /\ dst \in [Node -> Kept] /\ linked \in Links \cup {0}
  /\ marked \subseteq Node /\ i \in 0..Len(Marked)
  /\ recursive \in Answers /\ agreed \subseteq Node
  /\ aborted \in {0, 1} /\ mishaps \in Nat

ControlType ==
  /\ erase_list \in Seq(Node) /\ stack \in Seq(FrameSet)
  /\ pc \in Labels /\ ret \in Status
  /\ pc \notin {"next", "done"} => i > 0
  /\ pc \in ForDir => Root \in Dir
  /\ pc \in InCopy \cup InErase => stack # <<>>

TInv == DataType /\ ControlType

---------------------------------------------------------------------------
(* Sequences and trees *)

\* An entry of Marked is a node, of the panel itself, and there at first.
LEMMA MarkedNode ==
  \A k \in 1..Len(Marked) : Marked[k] \in Node \ Late /\ Parent[Marked[k]] = 0
<1> DEFINE S == {n \in Node \ Late : Parent[n] = 0}
<1>1. Marked \in Seq(S)
  BY TreeAssumption DEF TreeAssumption
<1>2. \A k \in 1..Len(Marked) : Marked[k] \in S
  BY <1>1, ElementOfSeq
<1> QED
  BY <1>2

LEMMA MarkedLen == Len(Marked) \in Nat
  BY TreeAssumption, LenProperties DEF TreeAssumption

LEMMA NodeFacts == Dir \subseteq Node /\ Links \subseteq Node /\ 0 \notin Node
  BY TreeAssumption DEF TreeAssumption

\* The directory of the call at work, and those of its callers.
LEMMA Pop ==
  ASSUME stack \in Seq(FrameSet), stack # <<>>
  PROVE  /\ Top \in FrameSet /\ Rest \in Seq(FrameSet)
         /\ Len(stack) \in Nat \ {0} /\ Len(Rest) = Len(stack) - 1
         /\ \A j \in 1..Len(Rest) : Rest[j] = stack[j] /\ Rest[j] \in FrameSet
         /\ Rest # <<>> <=> Len(stack) > 1
<1>1. Len(stack) \in Nat \ {0}
  BY EmptySeq
<1>2. \A j \in 1..Len(stack) : stack[j] \in FrameSet
  BY ElementOfSeq
<1>3. Top \in FrameSet
  BY <1>1, <1>2 DEF Top
<1>4. \A j \in 1..(Len(stack) - 1) : stack[j] \in FrameSet
  BY <1>1, <1>2
<1> DEFINE L == Len(stack) - 1
<1>5. /\ Rest \in Seq(FrameSet)
      /\ Len(Rest) = IF 1 <= L THEN L - 1 + 1 ELSE 0
      /\ \A j \in 1..(L - 1 + 1) : Rest[j] = stack[1 + j - 1]
  BY <1>1, <1>4, SubSeqProperties DEF Rest
<1>6. L \in Nat
  BY <1>1
<1>7. Len(Rest) = L /\ \A j \in 1..L : Rest[j] = stack[j] /\ Rest[j] \in FrameSet
  <2> HIDE DEF L
  <2>1. L - 1 + 1 = L /\ \A j \in 1..L : 1 + j - 1 = j
    BY <1>6
  <2>2. Len(Rest) = L
    BY <1>5, <1>6, <2>1
  <2>3. \A j \in 1..L : Rest[j] = stack[j]
    BY <1>5, <1>6, <2>1
  <2> QED
    BY <2>2, <2>3, <1>4 DEF L
<1>8. Rest # <<>> <=> Len(Rest) # 0
  <2> DEFINE r == Rest
  <2>1. r \in Seq(FrameSet)
    BY <1>5
  <2>2. Len(r) = 0 => r = <<>>
    <3> HIDE DEF r
    <3> QED
      BY <2>1, EmptySeq
  <2>3. r = <<>> => Len(r) = 0
    <3> HIDE DEF r
    <3> QED
      BY EmptySeq
  <2> QED
    BY <2>2, <2>3
<1> QED
  BY <1>1, <1>3, <1>5, <1>6, <1>7, <1>8

\* A call adds a frame.
LEMMA Push ==
  ASSUME stack \in Seq(FrameSet), NEW d \in Dir, Call(d)
  PROVE  /\ stack' \in Seq(FrameSet) /\ stack' # <<>>
         /\ Len(stack) \in Nat /\ Len(stack') = Len(stack) + 1
         /\ \A j \in 1..Len(stack) : stack'[j] = stack[j]
         /\ stack'[Len(stack')] = Frame(d, {}, "CONT")
<1>1. Frame(d, {}, "CONT") \in FrameSet
  BY DEF Frame, FrameSet, Status
<1>2. /\ stack' \in Seq(FrameSet) /\ Len(stack') = Len(stack) + 1 /\ Len(stack) \in Nat
      /\ \A j \in 1..Len(stack) : stack'[j] = stack[j]
      /\ stack'[Len(stack) + 1] = Frame(d, {}, "CONT")
  BY <1>1 DEF Call
<1>3. stack' # <<>>
  BY <1>2, EmptySeq
<1> QED
  BY <1>2, <1>3

\* The frame of the directory at work is replaced.
LEMMA Put ==
  ASSUME NEW frames \in Seq(FrameSet), frames # <<>>, NEW f \in FrameSet,
         NEW t, t = [frames EXCEPT ![Len(frames)] = f]
  PROVE  /\ t \in Seq(FrameSet) /\ t # <<>> /\ Len(t) = Len(frames)
         /\ Len(frames) \in Nat \ {0} /\ t[Len(frames)] = f
         /\ \A j \in 1..Len(frames) : j # Len(frames) => t[j] = frames[j]
<1>1. Len(frames) \in Nat \ {0}
  BY EmptySeq
<1>2. Len(frames) \in 1..Len(frames)
  BY <1>1
<1>3. /\ t \in Seq(FrameSet) /\ Len(t) = Len(frames)
      /\ \A j \in 1..Len(frames) : t[j] = IF j = Len(frames) THEN f ELSE frames[j]
  BY <1>2, ExceptSeq
<1>4. t # <<>>
  BY <1>1, <1>3, EmptySeq
<1> QED
  BY <1>1, <1>2, <1>3, <1>4

\* ... or its frame gets another status.
LEMMA Restate ==
  ASSUME stack \in Seq(FrameSet), stack # <<>>, NEW f \in FrameSet, stack' = Append(Rest, f)
  PROVE  /\ stack' \in Seq(FrameSet) /\ stack' # <<>> /\ Len(stack') = Len(stack)
         /\ stack'[Len(stack)] = f
         /\ \A j \in 1..Len(stack) : j # Len(stack) => stack'[j] = stack[j]
<1> DEFINE r == Rest
<1>1. /\ r \in Seq(FrameSet) /\ Len(r) = Len(stack) - 1 /\ Len(stack) \in Nat \ {0}
      /\ \A j \in 1..Len(r) : r[j] = stack[j]
  BY Pop
<1> HIDE DEF r
<1>2. /\ Append(r, f) \in Seq(FrameSet) /\ Len(Append(r, f)) = Len(r) + 1
      /\ Append(r, f)[Len(r) + 1] = f
      /\ \A j \in 1..Len(r) : Append(r, f)[j] = r[j]
  BY <1>1
<1>3. stack' = Append(r, f)
  BY DEF r
<1>4. stack' # <<>>
  BY <1>1, <1>2, <1>3, EmptySeq
<1> QED
  BY <1>1, <1>2, <1>3, <1>4

LEMMA EntryDoneFacts ==
  ASSUME NEW frames \in Seq(FrameSet), frames # <<>>, NEW n \in Node, NEW st \in Status,
         erase_list \in Seq(Node), EntryDone(frames, n, st)
  PROVE  LET l == Len(frames)
         IN /\ stack' \in Seq(FrameSet) /\ stack' # <<>> /\ Len(stack') = l /\ l \in Nat \ {0}
            /\ \A j \in 1..l : j # l => stack'[j] = frames[j]
            /\ stack'[l] = Frame(frames[l].dir, frames[l].seen \cup {n}, st)
            /\ pc' = "entry" /\ ret' = ret
            /\ erase_list' \in Seq(Node)
            /\ erase_list' = IF op = "MOVE" /\ st = "CONT" THEN Append(erase_list, n) ELSE erase_list
<1> DEFINE l == Len(frames)
           f == Frame(frames[l].dir, frames[l].seen \cup {n}, st)
<1>1. l \in Nat \ {0}
  BY EmptySeq
<1>2. frames[l] \in FrameSet
  BY <1>1, ElementOfSeq
<1>3. f \in FrameSet
  BY <1>2 DEF FrameSet, Frame
<1>4. stack' = [frames EXCEPT ![l] = f]
  BY DEF EntryDone
<1>5. erase_list' = IF op = "MOVE" /\ st = "CONT" THEN Append(erase_list, n) ELSE erase_list
  BY DEF EntryDone, Erasable
<1>6. erase_list' \in Seq(Node) /\ pc' = "entry" /\ ret' = ret
  BY <1>5 DEF EntryDone, Goto
<1> HIDE DEF f
<1>7. /\ stack' \in Seq(FrameSet) /\ stack' # <<>> /\ Len(stack') = l
      /\ stack'[l] = f /\ \A j \in 1..l : j # l => stack'[j] = frames[j]
  BY <1>3, <1>4, Put
<1> QED
  BY <1>1, <1>5, <1>6, <1>7 DEF f

---------------------------------------------------------------------------
(* Types *)

USE DEF Mishap, Fine, Heard, Fails, Refused, Interrupted, Works, GiveUp, Goto

LEMMA StatusFacts == GiveUp \subseteq Status /\ {"CONT", "RETRY", "SKIP", "ABORT"} \subseteq Status
  BY DEF Status

LEMMA CopyDirReturnType ==
  ASSUME TInv, pc \in InCopy, NEW st \in Status, CopyDirReturn(st), i' = i
  PROVE  ControlType'
<1>1. stack \in Seq(FrameSet) /\ stack # <<>> /\ erase_list \in Seq(Node) /\ Root \in Dir /\ i > 0
  BY DEF TInv, ControlType, ForDir, InCopy
<1>2. CASE Rest # <<>>
  <2>1. EntryDone(Rest, Top.dir, st)
    BY <1>2 DEF CopyDirReturn
  <2>2. Rest \in Seq(FrameSet) /\ Top.dir \in Node
    BY <1>1, Pop, NodeFacts DEF FrameSet
  <2>3. /\ stack' \in Seq(FrameSet) /\ stack' # <<>> /\ pc' = "entry" /\ ret' = ret
        /\ erase_list' \in Seq(Node)
    BY <1>1, <1>2, <2>1, <2>2, EntryDoneFacts
  <2> QED
    BY <1>1, <2>3 DEF ControlType, TInv, Root, Labels
<1>3. CASE Rest = <<>>
  <2>1. stack' = <<>> /\ ret' = st /\ pc' \in {"after", "m_copied"} /\ erase_list' = erase_list
    BY <1>3 DEF CopyDirReturn
  <2>2. stack' \in Seq(FrameSet)
    BY <2>1, EmptySeq
  <2> QED
    BY <1>1, <2>1, <2>2 DEF ControlType, TInv, Root, Labels, InCopy, InErase, ForDir
<1> QED
  BY <1>2, <1>3

LEMMA EraseReturnType ==
  ASSUME TInv, pc \in InErase, NEW st \in Status, EraseReturn(st), i' = i, erase_list' = erase_list
  PROVE  ControlType'
<1>1. stack \in Seq(FrameSet) /\ stack # <<>> /\ erase_list \in Seq(Node) /\ i > 0 /\ ret \in Status
  BY DEF TInv, ControlType, InErase
<1>2. CASE Rest # <<>>
  <2> DEFINE f == Rest[Len(Rest)]
             g == Frame(f.dir, f.seen \cup {Top.dir}, IF st = "CONT" THEN "CONT" ELSE "RETRY")
  <2>1. Rest \in Seq(FrameSet) /\ Top.dir \in Node /\ f \in FrameSet
    BY <1>1, <1>2, Pop, NodeFacts DEF FrameSet
  <2>2. g \in FrameSet
    BY <2>1, StatusFacts DEF FrameSet, Frame
  <2>3. stack' = [Rest EXCEPT ![Len(Rest)] = g] /\ pc' = "d_entry" /\ ret' = ret
    BY <1>2 DEF EraseReturn
  <2> HIDE DEF g
  <2>4. stack' \in Seq(FrameSet) /\ stack' # <<>>
    BY <1>2, <2>1, <2>2, <2>3, Put
  <2> QED
    BY <1>1, <2>3, <2>4 DEF ControlType, Labels, InCopy, InErase, ForDir
<1>3. CASE Rest = <<>>
  <2>1. stack' = <<>> /\ ret' = st /\ pc' = "after"
    BY <1>3 DEF EraseReturn
  <2>2. stack' \in Seq(FrameSet)
    BY <2>1, EmptySeq
  <2> QED
    BY <1>1, <2>1, <2>2 DEF ControlType, TInv, Root, Labels, InCopy, InErase, ForDir
<1> QED
  BY <1>2, <1>3

LEMMA ReturnType ==
  ASSUME TInv, pc \notin {"next", "done"}, NEW st \in Status, Return(st), i' = i
  PROVE  ControlType'
<1>1. ret' = st /\ pc' = "after" /\ stack' = stack /\ erase_list' = erase_list
  BY DEF Return
<1> QED
  BY <1>1 DEF ControlType, TInv, Labels, InCopy, InErase, ForDir

\* Most steps leave the trees and the marks alone.
LEMMA DataSame ==
  ASSUME TInv, UNCHANGED <<treeVars, opVars>>, aborted' \in {0, 1}, mishaps' \in Nat
  PROVE  DataType'
  BY DEF TInv, DataType, treeVars, opVars

\* What a dialog changes.
LEMMA DialogType ==
  ASSUME TInv
  PROVE  /\ Works => aborted' \in {0, 1} /\ mishaps' \in Nat
         /\ Mishap => mishaps' \in Nat
         /\ Fine => mishaps' \in Nat
         /\ \A st : Fails(st) => st \in GiveUp /\ aborted' \in {0, 1} /\ mishaps' \in Nat
         /\ \A st : Refused(st) => st \in GiveUp /\ aborted' \in {0, 1} /\ mishaps' \in Nat
         /\ UNCHANGED aborted => aborted' \in {0, 1}
  BY DEF TInv, DataType

\* A frame with its status changed is one.
LEMMA SetStatusType ==
  ASSUME TInv, stack # <<>>, NEW st \in Status, SetStatus(st)
  PROVE  stack' \in Seq(FrameSet) /\ stack' # <<>>
<1> DEFINE f == Frame(Top.dir, Top.seen, st)
<1>1. stack \in Seq(FrameSet) /\ Top \in FrameSet
  BY Pop DEF TInv, ControlType
<1>2. f \in FrameSet
  BY <1>1 DEF FrameSet, Frame
<1>3. stack' = Append(Rest, f)
  BY DEF SetStatus
<1> HIDE DEF f
<1> QED
  BY <1>1, <1>2, <1>3, Restate

LEMMA RetriedType ==
  ASSUME TInv, pc \in InCopy, Retried, UNCHANGED <<pc, ret, erase_list, i>>
  PROVE  ControlType' /\ aborted' \in {0, 1} /\ mishaps' \in Nat
<1>1. stack # <<>> /\ SetStatus("RETRY") /\ Mishap /\ UNCHANGED aborted
  BY DEF TInv, ControlType, Retried
<1>2. stack' \in Seq(FrameSet) /\ stack' # <<>>
  BY <1>1, SetStatusType, StatusFacts
<1>3. aborted' \in {0, 1} /\ mishaps' \in Nat
  BY <1>1, DialogType
<1> QED
  BY <1>2, <1>3 DEF TInv, ControlType, Root

\* A step inside a call goes on to the label l.
LEMMA GotoType ==
  ASSUME TInv, UNCHANGED <<stack, ret, erase_list, i>>, NEW l \in Labels, pc' = l, i > 0,
         l \in ForDir => Root \in Dir, l \in InCopy \cup InErase => stack # <<>>
  PROVE  ControlType'
  BY DEF TInv, ControlType, Root

LEMMA CopyStatType == ASSUME TInv, CopyStat PROVE TInv'
<1> USE DEF CopyStat
<1>1. UNCHANGED <<treeVars, opVars>> /\ i' = i /\ pc \in InCopy /\ i > 0 /\ stack # <<>> /\ Root \in Dir
  BY DEF opVars, InCopy, TInv, ControlType, ForDir
<1>2. CASE Works /\ pc' = "dst_stat" /\ UNCHANGED <<stack, ret, erase_list>>
  BY <1>1, <1>2, GotoType, DataSame, DialogType DEF TInv, Labels
<1>3. CASE Retried /\ UNCHANGED <<pc, ret, erase_list>>
  BY <1>1, <1>3, RetriedType, DataSame DEF TInv
<1>4. CASE \E st \in GiveUp : Fails(st) /\ CopyDirReturn(st)
  <2>1. PICK st \in GiveUp : Fails(st) /\ CopyDirReturn(st)
    BY <1>4
  <2>2. ControlType'
    BY <1>1, <2>1, CopyDirReturnType, StatusFacts
  <2> QED
    BY <1>1, <2>1, <2>2, DataSame, DialogType DEF TInv
<1> QED
  BY <1>2, <1>3, <1>4

LEMMA CopyDstStatType == ASSUME TInv, CopyDstStat PROVE TInv'
<1> USE DEF CopyDstStat
<1>1. UNCHANGED <<treeVars, opVars>> /\ i' = i /\ pc \in InCopy /\ i > 0 /\ stack # <<>> /\ Root \in Dir
  BY DEF opVars, InCopy, TInv, ControlType, ForDir
<1>2. CASE Works /\ pc' \in {"mkdir", "opendir"} /\ UNCHANGED <<stack, ret, erase_list>>
  BY <1>1, <1>2, GotoType, DataSame, DialogType DEF TInv, Labels
<1>3. CASE \E st \in GiveUp : Refused(st) /\ CopyDirReturn(st)
  <2>1. PICK st \in GiveUp : Refused(st) /\ CopyDirReturn(st)
    BY <1>3
  <2>2. ControlType'
    BY <1>1, <2>1, CopyDirReturnType, StatusFacts
  <2> QED
    BY <1>1, <2>1, <2>2, DataSame, DialogType DEF TInv
<1> QED
  BY <1>2, <1>3

LEMMA CopyMkdirType == ASSUME TInv, CopyMkdir PROVE TInv'
<1> USE DEF CopyMkdir
<1>1. /\ UNCHANGED <<src, came, linked, opVars>> /\ i' = i /\ pc \in InCopy /\ i > 0
      /\ stack # <<>> /\ Root \in Dir
  BY DEF opVars, InCopy, TInv, ControlType, ForDir
<1>2. dst' \in [Node -> Kept]
  BY DEF TInv, DataType, Kept
<1>3. ASSUME aborted' \in {0, 1}, mishaps' \in Nat PROVE DataType'
  BY <1>1, <1>2, <1>3 DEF TInv, DataType, opVars
<1>4. CASE Works /\ pc' = "opendir" /\ UNCHANGED <<stack, ret, erase_list>>
  BY <1>1, <1>3, <1>4, GotoType, DialogType DEF TInv, Labels
<1>5. CASE Retried /\ UNCHANGED <<dst, pc, ret, erase_list>>
  BY <1>1, <1>3, <1>5, RetriedType DEF TInv
<1>6. CASE \E st \in GiveUp : (Fails(st) \/ Refused(st)) /\ CopyDirReturn(st)
  <2>1. PICK st \in GiveUp : (Fails(st) \/ Refused(st)) /\ CopyDirReturn(st)
    BY <1>6
  <2>2. ControlType'
    BY <1>1, <2>1, CopyDirReturnType, StatusFacts
  <2> QED
    BY <1>3, <2>1, <2>2, DialogType DEF TInv
<1> QED
  BY <1>4, <1>5, <1>6 DEF MkdirFailed

LEMMA CopyOpendirType == ASSUME TInv, CopyOpendir PROVE TInv'
<1> USE DEF CopyOpendir
<1>1. UNCHANGED <<treeVars, opVars>> /\ i' = i /\ pc \in InCopy /\ i > 0 /\ stack # <<>> /\ Root \in Dir
  BY DEF opVars, InCopy, TInv, ControlType, ForDir
<1>2. CASE Works /\ pc' = "entry" /\ UNCHANGED <<stack, ret, erase_list>>
  BY <1>1, <1>2, GotoType, DataSame, DialogType DEF TInv, Labels
<1>3. CASE Mishap /\ UNCHANGED aborted /\ CopyDirReturn(Top.st)
  <2>1. Top.st \in Status
    BY <1>1, Pop DEF TInv, ControlType, FrameSet
  <2>2. ControlType'
    BY <1>1, <1>3, <2>1, CopyDirReturnType
  <2> QED
    BY <1>1, <1>3, <2>2, DataSame, DialogType DEF TInv
<1> QED
  BY <1>2, <1>3

LEMMA CopyDirDoneType == ASSUME TInv, CopyDirDone PROVE TInv'
<1> USE DEF CopyDirDone
<1>1. UNCHANGED <<treeVars, opVars>> /\ i' = i /\ pc \in InCopy /\ i > 0 /\ stack # <<>> /\ Root \in Dir
  BY DEF opVars, InCopy, TInv, ControlType, ForDir
<1>2. Top.st \in Status
  BY <1>1, Pop DEF TInv, ControlType, FrameSet
<1>3. ControlType'
  BY <1>1, <1>2, CopyDirReturnType
<1> QED
  BY <1>1, <1>3, DataSame, DialogType DEF TInv

\* What the copy of one file does to the trees.
LEMMA CopyFileType ==
  ASSUME TInv, NEW n \in Node, NEW st \in Status, copy_file_file(n, st)
  PROVE  /\ dst' \in [Node -> Kept] /\ linked' \in Links \cup {0}
         /\ aborted' \in {0, 1} /\ mishaps' \in Nat
         /\ dst[n] = "dir" => dst' = dst
         /\ \A m \in Node : m # n => dst'[m] = dst[m]
         /\ st = "CONT" => dst' = [dst EXCEPT ![n] = "whole"]
<1>1. /\ dst \in [Node -> Kept] /\ linked \in Links \cup {0}
      /\ aborted \in {0, 1} /\ mishaps \in Nat
  BY DEF TInv, DataType
<1>2. Cached(n) => linked' \in Links \cup {0}
  BY <1>1 DEF Cached
<1>3. CASE /\ dst[n] # "dir" /\ dst' = [dst EXCEPT ![n] = "whole"] /\ Cached(n)
           /\ \/ st = "CONT" /\ Works
              \/ st = "RETRY" /\ Mishap /\ UNCHANGED aborted
  BY <1>1, <1>2, <1>3 DEF Kept
<1>4. CASE /\ n \in Links /\ linked \in src \ {n} /\ dst[n] = "none" /\ dst[linked] \notin {"none", "dir"}
           /\ st = "RETRY" /\ Works
           /\ dst' = [dst EXCEPT ![n] = dst[linked]] /\ UNCHANGED linked
  <2>1. linked \in Node
    BY <1>4 DEF TInv, DataType
  <2> QED
    BY <1>1, <1>4, <2>1
<1>5. CASE /\ dst[n] # "dir" /\ Fails(st)
           /\ \E d \in {dst[n], "none", "part", "whole"} : dst' = [dst EXCEPT ![n] = d]
           /\ Cached(n) \/ UNCHANGED linked
  BY <1>1, <1>2, <1>5 DEF Kept
<1>6. CASE dst[n] = "dir" /\ Refused(st) /\ UNCHANGED <<dst, linked>>
  BY <1>1, <1>6
<1> QED
  BY <1>3, <1>4, <1>5, <1>6 DEF copy_file_file

\* An entry of the directory at work is a node in it.
LEMMA UnseenFacts ==
  ASSUME TInv PROVE Unseen \subseteq src /\ \A n \in Unseen : n \in Node /\ Parent[n] = Top.dir /\ n \notin Top.seen
  BY DEF Unseen, In, TInv, DataType

LEMMA CopyEntryType == ASSUME TInv, CopyEntry PROVE TInv'
<1> USE DEF CopyEntry
<1>1. /\ UNCHANGED <<src, came, opVars>> /\ i' = i /\ pc \in InCopy /\ i > 0
      /\ stack # <<>> /\ stack \in Seq(FrameSet) /\ erase_list \in Seq(Node) /\ Root \in Dir
  BY DEF opVars, InCopy, TInv, ControlType, ForDir
<1>2. PICK n \in Unseen :
       \/ /\ n \in Dir /\ Works
          /\ Call(n) /\ Goto("stat") /\ UNCHANGED <<dst, linked, ret, erase_list>>
       \/ \E st \in GiveUp : Fails(st) /\ EntryDone(stack, n, st) /\ UNCHANGED <<dst, linked>>
       \/ n \notin Dir /\ \E st \in Status : copy_file_file(n, st) /\ EntryDone(stack, n, st)
  OBVIOUS
<1>3. n \in Node
  BY UnseenFacts
<1>4. ASSUME aborted' \in {0, 1}, mishaps' \in Nat, dst' \in [Node -> Kept], linked' \in Links \cup {0}
      PROVE  DataType'
  BY <1>1, <1>4 DEF TInv, DataType, opVars
<1>5. ASSUME NEW st \in Status, EntryDone(stack, n, st) PROVE ControlType'
  <2>1. stack' \in Seq(FrameSet) /\ stack' # <<>> /\ pc' = "entry" /\ ret' = ret /\ erase_list' \in Seq(Node)
    BY <1>1, <1>3, <1>5, EntryDoneFacts
  <2> QED
    BY <1>1, <2>1 DEF TInv, ControlType, Root, Labels
<1>6. dst \in [Node -> Kept] /\ linked \in Links \cup {0}
  BY DEF TInv, DataType
<1>7. CASE n \in Dir /\ Works /\ Call(n) /\ Goto("stat") /\ UNCHANGED <<dst, linked, ret, erase_list>>
  <2>1. stack' \in Seq(FrameSet) /\ stack' # <<>>
    BY <1>1, <1>7, Push
  <2>2. ControlType'
    BY <1>1, <1>7, <2>1 DEF TInv, ControlType, Root, Labels
  <2> QED
    BY <1>4, <1>6, <1>7, <2>2, DialogType DEF TInv
<1>8. CASE \E st \in GiveUp : Fails(st) /\ EntryDone(stack, n, st) /\ UNCHANGED <<dst, linked>>
  BY <1>4, <1>5, <1>6, <1>8, DialogType, StatusFacts DEF TInv
<1>9. CASE \E st \in Status : copy_file_file(n, st) /\ EntryDone(stack, n, st)
  BY <1>3, <1>4, <1>5, <1>9, CopyFileType DEF TInv
<1> QED
  BY <1>2, <1>7, <1>8, <1>9

LEMMA CopyFileStepType == ASSUME TInv, CopyFile PROVE TInv'
<1>1. PICK st \in Status : copy_file_file(Root, st) /\ Return(st)
  BY DEF CopyFile
<1>2. UNCHANGED <<src, came, opVars>> /\ pc \notin {"next", "done"} /\ i' = i
  BY DEF CopyFile, opVars
<1>3. Root \in Node
  BY <1>2, MarkedNode, MarkedLen DEF TInv, ControlType, DataType, Root
<1>4. DataType'
  BY <1>1, <1>2, <1>3, CopyFileType DEF TInv, DataType, opVars
<1> QED
  BY <1>1, <1>2, <1>4, ReturnType DEF TInv

---------------------------------------------------------------------------

\* Erasing only takes nodes out of the source tree.
LEMMA EraseFileType ==
  ASSUME TInv, NEW n, NEW st, erase_file(n, st) \/ erase_dir_iff_empty(n, st)
  PROVE  /\ src' \in {src, src \ {n}} /\ aborted' \in {0, 1} /\ mishaps' \in Nat
         /\ st \in Status
  BY DialogType, StatusFacts DEF erase_file, erase_dir_iff_empty

LEMMA DataErased ==
  ASSUME TInv, UNCHANGED <<came, dst, linked, opVars>>, aborted' \in {0, 1}, mishaps' \in Nat,
         src' \subseteq src
  PROVE  DataType'
  BY DEF TInv, DataType, opVars

LEMMA MoveDirType == ASSUME TInv, MoveDir PROVE TInv'
<1> USE DEF MoveDir
<1>1. UNCHANGED <<treeVars, opVars>> /\ pc = "m_dir" /\ i' = i /\ i > 0 /\ Root \in Dir /\ stack \in Seq(FrameSet)
  BY DEF opVars, TInv, ControlType, ForDir
<1>2. ASSUME NEW st \in Status, Return(st), aborted' \in {0, 1}, mishaps' \in Nat PROVE TInv'
  BY <1>1, <1>2, ReturnType, DataSame DEF TInv
<1>3. CASE Works /\ pc' = "m_rename" /\ UNCHANGED <<stack, ret, erase_list>>
  BY <1>1, <1>3, GotoType, DataSame, DialogType DEF TInv, Labels, InCopy, InErase
<1>4. CASE Works /\ Call(Root) /\ Goto("stat") /\ UNCHANGED <<ret, erase_list>>
  <2>1. stack' \in Seq(FrameSet) /\ stack' # <<>>
    BY <1>1, <1>4, Push
  <2>2. ControlType'
    BY <1>1, <1>4, <2>1 DEF TInv, ControlType, Root, Labels
  <2> QED
    BY <1>1, <1>4, <2>2, DataSame, DialogType DEF TInv
<1>5. CASE \E st \in GiveUp : Refused(st) /\ Return(st)
  BY <1>2, <1>5, DialogType, StatusFacts
<1>6. CASE Mishap /\ UNCHANGED aborted /\ Return("SKIP")
  BY <1>2, <1>6, DialogType, StatusFacts
<1>7. CASE Interrupted /\ Return("ABORT")
  BY <1>2, <1>7, DialogType, StatusFacts
<1> QED
  BY <1>3, <1>4, <1>5, <1>6, <1>7

LEMMA MovedType == ASSUME TInv, NEW ns PROVE Moved(ns) \in [Node -> Kept]
  BY DEF Moved, TInv, DataType, Kept

LEMMA MoveDirRenameType == ASSUME TInv, MoveDirRename PROVE TInv'
<1> USE DEF MoveDirRename
<1>1. /\ UNCHANGED <<came, linked, opVars>> /\ pc = "m_rename" /\ i' = i /\ i > 0 /\ Root \in Dir
      /\ stack \in Seq(FrameSet)
  BY DEF opVars, TInv, ControlType, ForDir
<1>2. ASSUME aborted' \in {0, 1}, mishaps' \in Nat, dst' \in [Node -> Kept], src' \subseteq src PROVE DataType'
  BY <1>1, <1>2 DEF TInv, DataType, opVars
<1>3. dst \in [Node -> Kept]
  BY DEF TInv, DataType
<1>4. ASSUME NEW st \in Status, Return(st) PROVE ControlType'
  BY <1>1, <1>4, ReturnType
<1>5. CASE Works /\ Return("CONT") /\ src' = src \ Below[Root] /\ dst' = Moved(src \cap Below[Root])
  BY <1>2, <1>4, <1>5, MovedType, DialogType, StatusFacts DEF TInv
<1>6. CASE Works /\ Call(Root) /\ Goto("stat") /\ UNCHANGED <<ret, erase_list, src, dst>>
  <2>1. stack' \in Seq(FrameSet) /\ stack' # <<>>
    BY <1>1, <1>6, Push
  <2>2. ControlType'
    BY <1>1, <1>6, <2>1 DEF TInv, ControlType, Root, Labels
  <2> QED
    BY <1>2, <1>3, <1>6, <2>2, DialogType DEF TInv
<1>7. CASE Mishap /\ UNCHANGED <<pc, stack, ret, erase_list, aborted, src, dst>>
  <2>1. ControlType'
    BY <1>1, <1>7 DEF TInv, ControlType, Root
  <2> QED
    BY <1>2, <1>3, <1>7, <2>1, DialogType DEF TInv
<1>8. CASE \E st \in GiveUp : Fails(st) /\ Return(st) /\ UNCHANGED <<src, dst>>
  BY <1>2, <1>3, <1>4, <1>8, DialogType, StatusFacts DEF TInv
<1> QED
  BY <1>5, <1>6, <1>7, <1>8

LEMMA DropListType ==
  ASSUME TInv, NEW st \in Status, DropList(st), i' = i, i > 0
  PROVE  ControlType'
<1>1. erase_list' = <<>> /\ <<>> \in Seq(Node)
  BY EmptySeq DEF DropList
<1> QED
  BY <1>1 DEF DropList, TInv, ControlType, Labels, InCopy, InErase, ForDir

LEMMA MoveCopiedType == ASSUME TInv, MoveCopied PROVE TInv'
<1> USE DEF MoveCopied
<1>1. UNCHANGED <<treeVars, opVars>> /\ pc = "m_copied" /\ i' = i /\ i > 0 /\ Root \in Dir /\ ret \in Status
  BY DEF opVars, TInv, ControlType, ForDir
<1>2. CASE Works /\ DropList(ret)
  BY <1>1, <1>2, DropListType, DataSame, DialogType DEF TInv
<1>3. CASE Works /\ pc' = "m_erase" /\ UNCHANGED <<stack, ret, erase_list>>
  BY <1>1, <1>3, GotoType, DataSame, DialogType DEF TInv, Labels, InCopy, InErase
<1>4. CASE \E st \in GiveUp : Fails(st) /\ DropList(st)
  BY <1>1, <1>4, DropListType, DataSame, DialogType, StatusFacts DEF TInv
<1> QED
  BY <1>2, <1>3, <1>4

LEMMA MoveEraseType == ASSUME TInv, MoveErase PROVE TInv'
<1> USE DEF MoveErase
<1>1. PICK st \in Status : /\ ret' = st
        /\ IF Head(erase_list) \in Dir THEN erase_dir_iff_empty(Head(erase_list), st)
                                       ELSE erase_file(Head(erase_list), st)
  OBVIOUS
<1>2. /\ UNCHANGED <<came, dst, linked, opVars, stack, pc>> /\ i' = i /\ erase_list # <<>>
      /\ erase_list \in Seq(Node) /\ erase_list' = Tail(erase_list)
  BY DEF opVars, ListRest, TInv, ControlType
<1>3. src' \subseteq src /\ aborted' \in {0, 1} /\ mishaps' \in Nat
  BY <1>1, EraseFileType
<1>4. DataType'
  BY <1>2, <1>3, DataErased
<1>5. erase_list' \in Seq(Node)
  BY <1>2, HeadTailProperties
<1> QED
  BY <1>1, <1>2, <1>4, <1>5 DEF TInv, ControlType, Root

LEMMA MoveEraseLastType == ASSUME TInv, MoveEraseLast PROVE TInv'
<1>1. PICK st \in Status : erase_dir_iff_empty(Root, st)
  BY DEF MoveEraseLast
<1>2. UNCHANGED <<came, dst, linked, opVars>> /\ i' = i /\ i > 0 /\ DropList(ret) /\ ret \in Status
  BY DEF MoveEraseLast, opVars, TInv, ControlType
<1>3. src' \subseteq src /\ aborted' \in {0, 1} /\ mishaps' \in Nat
  BY <1>1, EraseFileType
<1> QED
  BY <1>2, <1>3, DataErased, DropListType DEF TInv

LEMMA MoveFileType == ASSUME TInv, MoveFile PROVE TInv'
<1>1. PICK st \in Status :
       /\ Return(st)
       /\ \/ /\ dst[Root] # "dir"
             /\ src' = src \ {Root} /\ dst' = [dst EXCEPT ![Root] = "whole"]
             /\ \/ st = "CONT" /\ Works
                \/ Fails(st)
                \/ st = "RETRY" /\ Mishap /\ UNCHANGED aborted
             /\ Cached(Root) \/ UNCHANGED linked
          \/ st # "CONT" /\ copy_file_file(Root, st) /\ UNCHANGED src
  BY DEF MoveFile
<1>2. UNCHANGED <<came, opVars>> /\ pc \notin {"next", "done"} /\ i' = i
  BY DEF MoveFile, opVars
<1>3. Root \in Node
  BY <1>2, MarkedNode, MarkedLen DEF TInv, ControlType, DataType, Root
<1>4. ControlType'
  BY <1>1, <1>2, ReturnType
<1>5. ASSUME aborted' \in {0, 1}, mishaps' \in Nat, dst' \in [Node -> Kept], src' \subseteq src,
             linked' \in Links \cup {0}
      PROVE  DataType'
  BY <1>2, <1>5 DEF TInv, DataType, opVars
<1>6. [dst EXCEPT ![Root] = "whole"] \in [Node -> Kept] /\ (UNCHANGED linked => linked' \in Links \cup {0})
      /\ (Cached(Root) => linked' \in Links \cup {0})
  BY DEF TInv, DataType, Kept, Cached
<1>7. DataType'
  <2>1. CASE copy_file_file(Root, st) /\ UNCHANGED src
    BY <1>3, <1>5, <2>1, CopyFileType
  <2>2. CASE /\ src' = src \ {Root} /\ dst' = [dst EXCEPT ![Root] = "whole"]
             /\ Works \/ Fails(st) \/ (Mishap /\ UNCHANGED aborted)
             /\ Cached(Root) \/ UNCHANGED linked
    BY <1>5, <1>6, <2>2, DialogType
  <2> QED
    BY <1>1, <2>1, <2>2
<1> QED
  BY <1>4, <1>7 DEF TInv

---------------------------------------------------------------------------

LEMMA EraseFileStepType == ASSUME TInv, EraseFile PROVE TInv'
<1>1. UNCHANGED <<came, dst, linked, opVars>> /\ pc = "d_file" /\ i' = i
  BY DEF EraseFile, opVars
<1>2. PICK st \in Status : /\ erase_file(Root, st) \/ (src' = src \ {Root} /\ Fails(st))
                           /\ Return(st)
  BY StatusFacts DEF EraseFile
<1>3. src' \subseteq src /\ aborted' \in {0, 1} /\ mishaps' \in Nat
  BY <1>2, EraseFileType, DialogType
<1> QED
  BY <1>1, <1>2, <1>3, DataErased, ReturnType DEF TInv

LEMMA EraseDirType == ASSUME TInv, EraseDir PROVE TInv'
<1> USE DEF EraseDir
<1>1. UNCHANGED <<treeVars, opVars>> /\ pc = "d_dir" /\ i' = i /\ i > 0 /\ Root \in Dir
  BY DEF opVars, TInv, ControlType, ForDir
<1>2. CASE Interrupted /\ Return("ABORT")
  BY <1>1, <1>2, ReturnType, DataSame, DialogType, StatusFacts DEF TInv
<1>3. CASE /\ Works \/ (Mishap /\ UNCHANGED aborted)
           /\ pc' \in {"d_ask", "d_rmdir"} /\ UNCHANGED <<stack, ret, erase_list>>
  BY <1>1, <1>3, GotoType, DataSame, DialogType DEF TInv, Labels, InCopy, InErase
<1> QED
  BY <1>2, <1>3

LEMMA EraseAskType == ASSUME TInv, EraseAsk PROVE TInv'
<1> USE DEF EraseAsk
<1>1. /\ UNCHANGED <<treeVars, op, dive, marked, i>> /\ pc = "d_ask" /\ i > 0 /\ Root \in Dir
      /\ stack \in Seq(FrameSet) /\ recursive \in Answers
  BY DEF TInv, ControlType, ForDir, DataType
<1>2. PICK a \in IF recursive \in {"YES", "NO"} THEN Answers ELSE {recursive} :
       /\ recursive' = a /\ Heard(a)
       /\ agreed' = IF a \in {"YES", "ALWAYS"} THEN agreed \cup Below[Root] ELSE agreed
       /\ \/ Consent(a) /\ Call(Root) /\ Goto("d_opendir") /\ UNCHANGED <<ret, erase_list>>
          \/ ~ Consent(a) /\ Return(IF a = "ABORT" THEN "ABORT" ELSE "SKIP")
  OBVIOUS
<1>3. recursive' \in Answers
  BY <1>1, <1>2
<1>4. agreed' \subseteq Node
  <2>1. Below[Root] \subseteq Node
    BY <1>1, NodeFacts, TreeAssumption DEF TreeAssumption
  <2> QED
    BY <1>2, <2>1 DEF TInv, DataType
<1>5. aborted' \in {0, 1} /\ mishaps' \in Nat
  BY <1>2 DEF TInv, DataType
<1>6. DataType'
  BY <1>1, <1>3, <1>4, <1>5 DEF TInv, DataType, treeVars
<1>7. CASE Call(Root) /\ Goto("d_opendir") /\ UNCHANGED <<ret, erase_list>>
  <2>1. stack' \in Seq(FrameSet) /\ stack' # <<>>
    BY <1>1, <1>7, Push
  <2> QED
    BY <1>1, <1>6, <1>7, <2>1 DEF TInv, ControlType, Root, Labels, InCopy, ForDir
<1>8. CASE Return(IF a = "ABORT" THEN "ABORT" ELSE "SKIP")
  BY <1>1, <1>6, <1>8, ReturnType, StatusFacts DEF TInv
<1> QED
  BY <1>2, <1>7, <1>8

LEMMA EraseRmdirType == ASSUME TInv, EraseRmdir PROVE TInv'
<1>1. UNCHANGED <<came, dst, linked, opVars>> /\ pc = "d_rmdir" /\ i' = i
  BY DEF EraseRmdir, opVars
<1>2. PICK st \in Status : Return(st) /\ (Works \/ Fails(st) \/ Refused(st)) /\ src' \in {src, src \ {Root}}
  BY StatusFacts DEF EraseRmdir
<1>3. src' \subseteq src /\ aborted' \in {0, 1} /\ mishaps' \in Nat
  BY <1>2, DialogType
<1> QED
  BY <1>1, <1>2, <1>3, DataErased, ReturnType DEF TInv

LEMMA EraseOpendirType == ASSUME TInv, EraseOpendir PROVE TInv'
<1> USE DEF EraseOpendir
<1>1. UNCHANGED <<treeVars, opVars, erase_list>> /\ pc \in InErase /\ i' = i /\ i > 0 /\ stack # <<>>
  BY DEF opVars, TInv, ControlType, InErase
<1>2. CASE Works /\ pc' = "d_entry" /\ UNCHANGED <<stack, ret>>
  BY <1>1, <1>2, GotoType, DataSame, DialogType DEF TInv, Labels, InCopy, ForDir
<1>3. CASE Mishap /\ UNCHANGED aborted /\ EraseReturn("RETRY")
  BY <1>1, <1>3, EraseReturnType, DataSame, DialogType, StatusFacts DEF TInv
<1> QED
  BY <1>2, <1>3

LEMMA EraseEntryType == ASSUME TInv, EraseEntry PROVE TInv'
<1> USE DEF EraseEntry
<1>1. /\ UNCHANGED <<came, dst, linked, opVars, erase_list>> /\ pc \in InErase /\ pc = "d_entry"
      /\ i' = i /\ i > 0 /\ stack # <<>> /\ stack \in Seq(FrameSet)
  BY DEF opVars, TInv, ControlType, InErase
<1>2. PICK n \in Unseen :
       \/ UNCHANGED <<src, aborted>> /\ Mishap /\ EraseReturn("RETRY")
       \/ n \in Dir /\ Works /\ Call(n) /\ Goto("d_opendir") /\ UNCHANGED <<src, ret>>
       \/ /\ n \notin Dir
          /\ \E st \in Status :
               /\ erase_file(n, st) \/ (st # "CONT" /\ src' = src \ {n} /\ Fails(st))
               /\ stack' = Append(Rest, Frame(Top.dir, Top.seen \cup {n}, st))
          /\ UNCHANGED <<pc, ret>>
  OBVIOUS
<1>3. n \in Node
  BY UnseenFacts
<1>4. CASE UNCHANGED <<src, aborted>> /\ Mishap /\ EraseReturn("RETRY")
  BY <1>1, <1>4, EraseReturnType, DataErased, DialogType, StatusFacts DEF TInv
<1>5. CASE n \in Dir /\ Works /\ Call(n) /\ Goto("d_opendir") /\ UNCHANGED <<src, ret>>
  <2>1. stack' \in Seq(FrameSet) /\ stack' # <<>>
    BY <1>1, <1>5, Push
  <2>2. ControlType'
    BY <1>1, <1>5, <2>1 DEF TInv, ControlType, Root, Labels, InCopy, ForDir
  <2> QED
    BY <1>1, <1>5, <2>2, DataErased, DialogType DEF TInv
<1>6. CASE \E st \in Status :
               /\ erase_file(n, st) \/ (st # "CONT" /\ src' = src \ {n} /\ Fails(st))
               /\ stack' = Append(Rest, Frame(Top.dir, Top.seen \cup {n}, st))
               /\ UNCHANGED <<pc, ret>>
  <2>1. PICK st \in Status :
               /\ erase_file(n, st) \/ (st # "CONT" /\ src' = src \ {n} /\ Fails(st))
               /\ stack' = Append(Rest, Frame(Top.dir, Top.seen \cup {n}, st))
               /\ UNCHANGED <<pc, ret>>
    BY <1>6
  <2> DEFINE f == Frame(Top.dir, Top.seen \cup {n}, st)
  <2>2. f \in FrameSet
    BY <1>1, <1>3, Pop DEF FrameSet, Frame
  <2>3. stack' = Append(Rest, f)
    BY <2>1
  <2> HIDE DEF f
  <2>4. stack' \in Seq(FrameSet) /\ stack' # <<>>
    BY <1>1, <2>2, <2>3, Restate
  <2>5. src' \subseteq src /\ aborted' \in {0, 1} /\ mishaps' \in Nat
    BY <2>1, EraseFileType, DialogType
  <2>6. ControlType'
    BY <1>1, <2>1, <2>4 DEF TInv, ControlType, Root, ForDir, InCopy
  <2> QED
    BY <1>1, <2>5, <2>6, DataErased DEF TInv
<1> QED
  BY <1>2, <1>4, <1>5, <1>6

LEMMA EraseEntriesType == ASSUME TInv, EraseEntries PROVE TInv'
<1> USE DEF EraseEntries
<1>1. /\ UNCHANGED <<treeVars, opVars, erase_list>> /\ pc \in InErase /\ i' = i /\ i > 0 /\ stack # <<>>
      /\ stack \in Seq(FrameSet)
  BY DEF opVars, TInv, ControlType, InErase
<1>2. Top.st \in Status
  BY <1>1, Pop DEF FrameSet
<1>3. CASE EraseReturn(Top.st)
  BY <1>1, <1>2, <1>3, EraseReturnType, DataSame, DialogType DEF TInv
<1>4. CASE pc' = "d_rmdirs" /\ UNCHANGED <<stack, ret>>
  BY <1>1, <1>4, GotoType, DataSame, DialogType DEF TInv, Labels, InCopy, ForDir
<1> QED
  BY <1>3, <1>4

LEMMA EraseRmdirsType == ASSUME TInv, EraseRmdirs PROVE TInv'
<1>1. UNCHANGED <<came, dst, linked, opVars, erase_list>> /\ pc \in InErase /\ i' = i
  BY DEF EraseRmdirs, opVars, InErase
<1>2. PICK st \in Status : EraseReturn(st) /\ (Works \/ Fails(st) \/ Refused(st)) /\ src' \in {src, src \ {Top.dir}}
  BY StatusFacts DEF EraseRmdirs
<1>3. src' \subseteq src /\ aborted' \in {0, 1} /\ mishaps' \in Nat
  BY <1>2, DialogType
<1> QED
  BY <1>1, <1>2, <1>3, DataErased, EraseReturnType DEF TInv

---------------------------------------------------------------------------

LEMMA NextRootType == ASSUME TInv, NextRoot PROVE TInv'
<1> DEFINE r == Marked[i + 1]
<1>1. /\ UNCHANGED <<treeVars, op, dive, marked, recursive, agreed, ret, erase_list>>
      /\ i < Len(Marked) /\ i' = i + 1 /\ Works /\ stack \in Seq(FrameSet)
  BY DEF NextRoot, NextIndex, TInv, ControlType
<1>2. i' \in 0..Len(Marked) /\ i' > 0 /\ r \in Node /\ Root' = r
  BY <1>1, MarkedNode, MarkedLen DEF TInv, DataType, Root
<1>3. DataType'
  BY <1>1, <1>2, DialogType DEF TInv, DataType, treeVars
<1>4. op \in {"COPY", "MOVE", "DELETE"}
  BY TreeAssumption DEF TreeAssumption, TInv, DataType
<1>5. pc' = IF r \in Dir THEN First[op].dir ELSE First[op].file
  BY DEF NextRoot
<1>6. \/ pc' \in {"stat", "m_dir", "d_dir"} /\ r \in Dir /\ (pc' = "stat" => op = "COPY")
      \/ pc' \in {"c_file", "m_file", "d_file"}
  BY <1>4, <1>5 DEF First
<1>7. IF r \in Dir /\ op = "COPY" THEN Call(r) ELSE UNCHANGED stack
  BY DEF NextRoot
<1>8. stack' \in Seq(FrameSet) /\ (pc' = "stat" => stack' # <<>>)
  BY <1>1, <1>6, <1>7, Push
<1>9. ControlType'
  BY <1>1, <1>2, <1>6, <1>8 DEF TInv, ControlType, Labels, InCopy, InErase, ForDir
<1> QED
  BY <1>3, <1>9 DEF TInv

LEMMA LoopType == ASSUME TInv, NoMoreRoots \/ AfterRoot PROVE TInv'
<1>1. UNCHANGED <<treeVars, op, dive, i, recursive, agreed, erase_list, stack, ret>>
  BY DEF NoMoreRoots, AfterRoot, opVars
<1>2. pc' \in {"next", "done"} /\ marked' \subseteq Node /\ aborted' \in {0, 1} /\ mishaps' \in Nat
  BY DialogType DEF NoMoreRoots, AfterRoot, opVars, TInv, DataType
<1>3. DataType'
  BY <1>1, <1>2 DEF TInv, DataType, treeVars
<1> QED
  BY <1>1, <1>2, <1>3 DEF TInv, ControlType, Labels, InCopy, InErase, ForDir

LEMMA AppearType == ASSUME TInv, NEW n \in Late, Appear(n) PROVE TInv'
<1>1. n \in Node /\ UNCHANGED <<dst, linked, opVars, erase_list, stack, pc, ret, aborted, mishaps>>
      /\ src' = src \cup {n} /\ came' = came \cup {n}
  BY TreeAssumption DEF TreeAssumption, Appear
<1>2. DataType'
  BY <1>1 DEF TInv, DataType, opVars
<1> QED
  BY <1>1, <1>2 DEF TInv, ControlType, Root, opVars

LEMMA StutterType == ASSUME TInv, UNCHANGED vars PROVE TInv'
<1>1. DataType'
  BY DEF vars, treeVars, opVars, TInv, DataType
<1> QED
  BY <1>1 DEF vars, opVars, TInv, ControlType, Root

LEMMA InitType == ASSUME Init PROVE TInv
<1> USE DEF Init
<1>1. marked \subseteq Node
  BY MarkedNode
<1>2. dst \in [Node -> Kept]
  BY DEF Kept
<1>3. DataType
  BY <1>1, <1>2, MarkedLen DEF DataType, Answers
<1>4. erase_list \in Seq(Node) /\ stack \in Seq(FrameSet)
  BY EmptySeq
<1>5. ControlType
  BY <1>4 DEF ControlType, Labels, Status, InCopy, InErase, ForDir
<1> QED
  BY <1>3, <1>5 DEF TInv

LEMMA NextType == ASSUME TInv, [Next]_vars PROVE TInv'
<1>1. CASE CopyStep
  BY <1>1, CopyStatType, CopyDstStatType, CopyMkdirType, CopyOpendirType, CopyEntryType,
     CopyDirDoneType, CopyFileStepType DEF CopyStep
<1>2. CASE MoveStep
  BY <1>2, MoveDirType, MoveDirRenameType, MoveCopiedType, MoveEraseType, MoveEraseLastType,
     MoveFileType DEF MoveStep
<1>3. CASE EraseStep
  BY <1>3, EraseFileStepType, EraseDirType, EraseAskType, EraseRmdirType, EraseOpendirType,
     EraseEntryType, EraseEntriesType, EraseRmdirsType DEF EraseStep
<1>4. CASE NextRoot \/ NoMoreRoots \/ AfterRoot
  BY <1>4, NextRootType, LoopType
<1>5. CASE \E n \in Late : Appear(n)
  BY <1>5, AppearType
<1>6. CASE UNCHANGED vars
  BY <1>6, StutterType
<1> QED
  BY <1>1, <1>2, <1>3, <1>4, <1>5, <1>6 DEF Next, Step, Done

\* The variables of the three operations stay in their types, for every tree
\* and every number of failures.
THEOREM TypeCorrect == Spec => []TypeOK
<1>1. TInv => TypeOK
  BY DEF TInv, DataType, ControlType, TypeOK, Kept, FrameSet
<1> QED
  BY <1>1, InitType, NextType, PTL DEF Spec

---------------------------------------------------------------------------
(***************************************************************************)
(* Moving directories loses nothing, for every tree, every list of marked  *)
(* entries and every number of failures: MoveLosesNothing and              *)
(* EraseListIsOurs of TreeOps.  The argument: a node that was copied into  *)
(* erase_list lies below an entry that one of the calls in progress has    *)
(* been through, and what a call copies next does not; so nothing is       *)
(* written over it before it is erased.                                    *)
(***************************************************************************)

\* The calls in f descend from the directory r, each for an entry of the one
\* before it that is not done.
Chain(r, f) ==
  /\ f # <<>> => f[1].dir = r
  /\ \A j \in 1..Len(f) : \A m \in f[j].seen : Parent[m] = f[j].dir
  /\ \A j \in 1..Len(f) : j > 1 => Parent[f[j].dir] = f[j-1].dir /\ f[j].dir \notin f[j-1].seen
  /\ \A j, k \in 1..Len(f) : j <= k => Below[f[k].dir] \subseteq Below[f[j].dir]

\* The calls in f have been through x.
Through(f, x) == \E j \in 1..Len(f) : \E m \in f[j].seen : x \in Below[m]

MoveLabels == InCopy \cup {"next", "after", "done", "m_dir", "m_rename", "m_copied", "m_erase", "m_file"}
Between == {"next", "after", "done", "m_dir", "m_rename", "m_file"}

RootsInv ==
  /\ pc \in MoveLabels
  /\ \A k \in 1..Len(Marked) : k > i => Marked[k] \in src
  /\ pc = "m_file" => Root \in src \ Dir
  /\ pc \in Between => erase_list = <<>>
  /\ pc \notin InCopy => stack = <<>>

StackInv ==
  /\ Chain(Root, stack)
  /\ \A j \in 1..Len(stack) : j < Len(stack) \/ pc \in {"opendir", "entry"} => dst[stack[j].dir] = "dir"

Listed(x) == \E k \in 1..Len(erase_list) : erase_list[k] = x

ListInv ==
  \A x \in Node : Listed(x) =>
    Arrived(x) /\ x \in Below[Root] /\ (pc \in InCopy => Through(stack, x))

RootInv == (pc = "m_copied" /\ ret = "CONT") \/ pc = "m_erase" => dst[Root] = "dir"

NoLoss == \A n \in came \ src : Arrived(n)

DirInv == \A n \in Dir : dst[n] \in {"none", "old", "dir"}

Moving == op = "MOVE" => RootsInv /\ StackInv /\ ListInv /\ RootInv /\ NoLoss /\ DirInv

MInv == TInv /\ Moving

---------------------------------------------------------------------------
(* Trees and chains of calls *)

LEMMA Tree ==
  /\ \A n \in Node : n \in Below[n] /\ Below[n] \subseteq Node
  /\ \A m \in Node : Parent[m] \in Node => Below[m] \subseteq Below[Parent[m]]
  /\ \A m, n \in Node : m # n /\ Parent[m] = Parent[n] => Below[m] \cap Below[n] = {}
<1>1. /\ Below \in [Node -> SUBSET Node]
      /\ \A n \in Node : Below[n] = {n} \cup UNION {Below[m] : m \in {k \in Node : Parent[k] = n}}
      /\ \A m, n \in Node : m # n /\ Parent[m] = Parent[n] => Below[m] \cap Below[n] = {}
  BY TreeAssumption DEF TreeAssumption
<1>2. ASSUME NEW m \in Node, Parent[m] \in Node PROVE Below[m] \subseteq Below[Parent[m]]
  <2>1. Below[m] \in {Below[q] : q \in {k \in Node : Parent[k] = Parent[m]}}
    OBVIOUS
  <2>2. Below[Parent[m]] = {Parent[m]} \cup UNION {Below[q] : q \in {k \in Node : Parent[k] = Parent[m]}}
    BY <1>1, <1>2
  <2> QED
    BY <2>1, <2>2
<1> QED
  BY <1>1, <1>2

\* A call for an entry that is not done yet.
LEMMA ChainPush ==
  ASSUME NEW r, NEW f \in Seq(FrameSet), f # <<>>, Chain(r, f), NEW d \in Dir,
         Parent[d] = f[Len(f)].dir, d \notin f[Len(f)].seen,
         NEW t \in Seq(FrameSet), Len(t) = Len(f) + 1, \A j \in 1..Len(f) : t[j] = f[j],
         t[Len(t)] = Frame(d, {}, "CONT")
  PROVE  Chain(r, t) /\ \A x : Through(f, x) => Through(t, x)
<1> DEFINE l == Len(f)
<1>1. l \in Nat \ {0}
  BY EmptySeq
<1>2. \A j \in 1..l : f[j] \in FrameSet
  BY ElementOfSeq
<1>3. f[l].dir \in Node /\ d \in Node /\ l \in 1..l
  BY <1>1, <1>2, NodeFacts DEF FrameSet
<1>4. Below[d] \subseteq Below[f[l].dir]
  BY <1>3, Tree
<1>5. t[l+1].dir = d /\ t[l+1].seen = {}
  BY DEF Frame
<1>6. /\ f[1].dir = r
      /\ \A j \in 1..l : \A m \in f[j].seen : Parent[m] = f[j].dir
      /\ \A j \in 1..l : j > 1 => Parent[f[j].dir] = f[j-1].dir /\ f[j].dir \notin f[j-1].seen
      /\ \A j, k \in 1..l : j <= k => Below[f[k].dir] \subseteq Below[f[j].dir]
  BY DEF Chain
<1>7. Len(t) = l + 1 /\ \A j \in 1..l : t[j] = f[j]
  OBVIOUS
<1>8. Parent[d] = f[l].dir /\ d \notin f[l].seen
  OBVIOUS
<1> HIDE DEF l
<1>9. t[1].dir = r
  BY <1>1, <1>6, <1>7
<1>10. ASSUME NEW j \in 1..(l+1) PROVE \A m \in t[j].seen : Parent[m] = t[j].dir
  BY <1>1, <1>5, <1>6, <1>7, <1>10
<1>11. ASSUME NEW j \in 1..(l+1), j > 1
       PROVE  Parent[t[j].dir] = t[j-1].dir /\ t[j].dir \notin t[j-1].seen
  <2>1. CASE j = l + 1
    <3>1. j - 1 = l
      BY <1>1, <2>1
    <3>2. t[j-1] = f[l]
      BY <1>3, <1>7, <3>1
    <3> QED
      BY <1>5, <1>8, <2>1, <3>2
  <2>2. CASE j \in 1..l
    <3>1. t[j] = f[j] /\ t[j-1] = f[j-1]
      BY <1>1, <1>7, <1>11, <2>2
    <3> QED
      BY <1>6, <1>11, <2>2, <3>1
  <2> QED
    BY <1>1, <1>11, <2>1, <2>2
<1>12. ASSUME NEW j \in 1..(l+1), NEW k \in 1..(l+1), j <= k
       PROVE  Below[t[k].dir] \subseteq Below[t[j].dir]
  <2>1. CASE k \in 1..l
    <3>1. j \in 1..l
      BY <1>1, <1>12, <2>1
    <3> QED
      BY <1>6, <1>7, <1>12, <2>1, <3>1
  <2>2. CASE k = l + 1 /\ j \in 1..l
    <3>1. Below[f[l].dir] \subseteq Below[f[j].dir]
      BY <1>1, <1>3, <1>6, <2>2
    <3> QED
      BY <1>4, <1>5, <1>7, <2>2, <3>1
  <2>3. CASE k = l + 1 /\ j = l + 1
    BY <2>3
  <2> QED
    BY <1>1, <1>12, <2>1, <2>2, <2>3
<1>13. Chain(r, t)
  BY <1>7, <1>9, <1>10, <1>11, <1>12 DEF Chain
<1>14. ASSUME NEW x, Through(f, x) PROVE Through(t, x)
  <2>1. PICK j \in 1..l : \E m \in f[j].seen : x \in Below[m]
    BY <1>14 DEF Through, l
  <2>2. j \in 1..Len(t) /\ t[j] = f[j]
    BY <1>1, <1>7, <2>1
  <2> QED
    BY <2>1, <2>2 DEF Through
<1> QED
  BY <1>13, <1>14

\* The last call has been through one entry more, or has another status.
LEMMA ChainPut ==
  ASSUME NEW r, NEW f \in Seq(FrameSet), f # <<>>, Chain(r, f), NEW g,
         g.dir = f[Len(f)].dir, f[Len(f)].seen \subseteq g.seen,
         \A m \in g.seen : Parent[m] = g.dir,
         NEW t \in Seq(FrameSet), Len(t) = Len(f), t[Len(f)] = g,
         \A j \in 1..Len(f) : j # Len(f) => t[j] = f[j]
  PROVE  /\ Chain(r, t) /\ \A x : Through(f, x) => Through(t, x)
         /\ \A m \in g.seen : \A x \in Below[m] : Through(t, x)
         /\ \A j \in 1..Len(f) : t[j].dir = f[j].dir
<1> DEFINE l == Len(f)
<1>1. l \in Nat \ {0} /\ l \in 1..l
  <2>1. Len(f) \in Nat \ {0}
    BY EmptySeq
  <2> QED
    BY <2>1
<1>2. /\ f[1].dir = r
      /\ \A j \in 1..l : \A m \in f[j].seen : Parent[m] = f[j].dir
      /\ \A j \in 1..l : j > 1 => Parent[f[j].dir] = f[j-1].dir /\ f[j].dir \notin f[j-1].seen
      /\ \A j, k \in 1..l : j <= k => Below[f[k].dir] \subseteq Below[f[j].dir]
  BY DEF Chain
<1>3. /\ Len(t) = l /\ t[l] = g /\ \A j \in 1..l : j # l => t[j] = f[j]
      /\ g.dir = f[l].dir /\ f[l].seen \subseteq g.seen /\ \A m \in g.seen : Parent[m] = g.dir
  OBVIOUS
<1> HIDE DEF l
<1>4. \A j \in 1..l : t[j].dir = f[j].dir /\ f[j].seen \subseteq t[j].seen
  BY <1>3
<1>5. t[1].dir = r /\ 1 \in 1..l
  BY <1>1, <1>2, <1>4
<1>6. \A j \in 1..l : \A m \in t[j].seen : Parent[m] = t[j].dir
  BY <1>2, <1>3
<1>7. ASSUME NEW j \in 1..l, j > 1
      PROVE  Parent[t[j].dir] = t[j-1].dir /\ t[j].dir \notin t[j-1].seen
  <2>1. j - 1 \in 1..l /\ j - 1 # l
    BY <1>1, <1>7
  <2>2. t[j-1] = f[j-1]
    BY <1>3, <2>1
  <2> QED
    BY <1>2, <1>4, <1>7, <2>2
<1>8. \A j, k \in 1..l : j <= k => Below[t[k].dir] \subseteq Below[t[j].dir]
  BY <1>2, <1>4
<1>9. Chain(r, t)
  BY <1>3, <1>5, <1>6, <1>7, <1>8 DEF Chain
<1>10. \A x : Through(f, x) => Through(t, x)
  BY <1>3, <1>4 DEF Through, l
<1>11. \A m \in g.seen : \A x \in Below[m] : Through(t, x)
  BY <1>1, <1>3 DEF Through
<1> QED
  BY <1>4, <1>9, <1>10, <1>11 DEF l

\* The last call is over.
LEMMA ChainPop ==
  ASSUME NEW r, NEW f \in Seq(FrameSet), Chain(r, f), NEW t \in Seq(FrameSet), t # <<>>,
         Len(f) = Len(t) + 1, \A j \in 1..Len(t) : t[j] = f[j]
  PROVE  /\ Chain(r, t) /\ Parent[f[Len(f)].dir] = t[Len(t)].dir
         /\ \A x : Through(f, x) => Through(t, x) \/ x \in Below[f[Len(f)].dir]
<1> DEFINE l == Len(t)
<1>1. l \in Nat \ {0} /\ l \in 1..l
  <2>1. Len(t) \in Nat \ {0}
    BY EmptySeq
  <2> QED
    BY <2>1
<1>2. f # <<>>
  BY <1>1, EmptySeq
<1>3. \A j \in 1..Len(f) : f[j] \in FrameSet
  BY ElementOfSeq
<1>4. /\ f[1].dir = r
      /\ \A j \in 1..Len(f) : \A m \in f[j].seen : Parent[m] = f[j].dir
      /\ \A j \in 1..Len(f) : j > 1 => Parent[f[j].dir] = f[j-1].dir /\ f[j].dir \notin f[j-1].seen
      /\ \A j, k \in 1..Len(f) : j <= k => Below[f[k].dir] \subseteq Below[f[j].dir]
  BY <1>2 DEF Chain
<1>5. Len(f) = l + 1 /\ \A j \in 1..l : t[j] = f[j]
  OBVIOUS
<1> HIDE DEF l
<1>6. \A j \in 1..l : j \in 1..Len(f) /\ (j > 1 => j - 1 \in 1..l)
  BY <1>1, <1>5
<1>7. t[1].dir = r /\ 1 \in 1..l
  BY <1>1, <1>4, <1>5
<1>8. \A j \in 1..l : \A m \in t[j].seen : Parent[m] = t[j].dir
  BY <1>4, <1>5, <1>6
<1>9. ASSUME NEW j \in 1..l, j > 1
      PROVE  Parent[t[j].dir] = t[j-1].dir /\ t[j].dir \notin t[j-1].seen
  BY <1>4, <1>5, <1>6, <1>9
<1>10. \A j, k \in 1..l : j <= k => Below[t[k].dir] \subseteq Below[t[j].dir]
  BY <1>4, <1>5, <1>6
<1>11. Chain(r, t)
  BY <1>7, <1>8, <1>9, <1>10 DEF Chain, l
<1>12. Parent[f[Len(f)].dir] = t[l].dir
  <2>1. Len(f) \in 1..Len(f) /\ Len(f) > 1 /\ Len(f) - 1 = l
    BY <1>1, <1>5
  <2> QED
    BY <1>1, <1>4, <1>5, <2>1
<1>13. ASSUME NEW x, Through(f, x) PROVE Through(t, x) \/ x \in Below[f[Len(f)].dir]
  <2>1. PICK j \in 1..Len(f) : \E m \in f[j].seen : x \in Below[m]
    BY <1>13 DEF Through
  <2>2. PICK m \in f[j].seen : x \in Below[m]
    BY <2>1
  <2>3. CASE j \in 1..l
    BY <1>5, <2>2, <2>3 DEF Through, l
  <2>4. CASE j = Len(f)
    <3>1. Parent[m] = f[j].dir /\ m \in Node /\ f[j].dir \in Node
      BY <1>3, <1>4, <2>2, NodeFacts DEF FrameSet
    <3>2. Below[m] \subseteq Below[f[j].dir]
      BY <3>1, Tree
    <3> QED
      BY <2>2, <2>4, <3>2
  <2> QED
    BY <1>1, <1>5, <2>3, <2>4
<1> QED
  BY <1>11, <1>12, <1>13 DEF l

\* The directory at work, an entry of it that is not done, and what the calls
\* have been through.
LEMMA ChainFacts ==
  ASSUME NEW r \in Node, NEW f \in Seq(FrameSet), f # <<>>, Chain(r, f)
  PROVE  /\ Below[f[Len(f)].dir] \subseteq Below[r]
         /\ \A x : Through(f, x) => x \in Below[r]
         /\ \A n \in Node : Parent[n] = f[Len(f)].dir /\ n \notin f[Len(f)].seen => ~ Through(f, n)
<1>1. Len(f) \in Nat \ {0}
  BY EmptySeq
<1> DEFINE l == Len(f)
<1>2. \A j \in 1..l : f[j] \in FrameSet
  BY ElementOfSeq
<1>3. /\ f[1].dir = r
      /\ \A j \in 1..l : \A m \in f[j].seen : Parent[m] = f[j].dir
      /\ \A j \in 1..l : j > 1 => Parent[f[j].dir] = f[j-1].dir /\ f[j].dir \notin f[j-1].seen
      /\ \A j, k \in 1..l : j <= k => Below[f[k].dir] \subseteq Below[f[j].dir]
  BY DEF Chain
<1>4. l \in Nat \ {0} /\ 1 \in 1..l /\ l \in 1..l /\ \A j \in 1..l : 1 <= j /\ j <= l
  BY <1>1
<1>5. \A j \in 1..l : f[j].dir \in Node /\ f[j].seen \subseteq Node
  BY <1>2, NodeFacts DEF FrameSet
<1>6. \A x : Through(f, x) <=> \E j \in 1..l : \E m \in f[j].seen : x \in Below[m]
  BY DEF Through
<1> HIDE DEF l
<1>7. \A j \in 1..l : Below[f[j].dir] \subseteq Below[r]
  BY <1>3, <1>4
<1>8. \A j \in 1..l : \A m \in f[j].seen : Below[m] \subseteq Below[f[j].dir]
  BY <1>3, <1>5, Tree
<1>9. ASSUME NEW n \in Node, Parent[n] = f[l].dir, n \notin f[l].seen,
             NEW j \in 1..l, NEW m \in f[j].seen, n \in Below[m]
      PROVE  FALSE
  <2>1. m \in Node /\ Parent[m] = f[j].dir /\ n \in Below[n]
    BY <1>3, <1>5, Tree
  <2>2. CASE j = l
    BY <1>9, <2>1, <2>2, Tree
  <2>3. CASE j # l
    <3>1. j + 1 \in 1..l /\ j + 1 > 1 /\ j + 1 <= l /\ (j + 1) - 1 = j
      BY <1>4, <2>3
    <3> DEFINE e == f[j + 1].dir
    <3>2. Parent[e] = f[j].dir /\ e \notin f[j].seen /\ e \in Node
      BY <1>3, <1>5, <3>1
    <3>3. Below[n] \subseteq Below[f[l].dir]
      BY <1>4, <1>5, <1>9, Tree
    <3>4. Below[f[l].dir] \subseteq Below[e]
      BY <1>3, <1>4, <3>1
    <3>5. n \in Below[e]
      BY <2>1, <3>3, <3>4
    <3>6. m # e /\ Parent[m] = Parent[e]
      BY <1>9, <2>1, <3>2
    <3> HIDE DEF e
    <3> QED
      BY <1>9, <2>1, <3>2, <3>5, <3>6, Tree
  <2> QED
    BY <2>2, <2>3
<1>10. \A x : Through(f, x) => x \in Below[r]
  BY <1>6, <1>7, <1>8
<1>11. \A n \in Node : Parent[n] = f[l].dir /\ n \notin f[l].seen => ~ Through(f, n)
  BY <1>6, <1>9
<1> QED
  BY <1>4, <1>7, <1>10, <1>11 DEF l

---------------------------------------------------------------------------
(* The steps of a move *)

\* Later entries are not below the one at work.
LEMMA Later ==
  ASSUME TInv, i > 0, NEW k \in 1..Len(Marked), k > i
  PROVE  Marked[k] \notin Below[Root]
<1>1. i \in 1..Len(Marked)
  BY MarkedLen DEF TInv, DataType
<1>2. Marked[i] # Marked[k]
  BY <1>1, TreeAssumption DEF TreeAssumption
<1>3. Marked[k] \in Node /\ Marked[i] \in Node /\ Parent[Marked[k]] = Parent[Marked[i]]
  BY <1>1, MarkedNode
<1> QED
  BY <1>2, <1>3, Tree DEF Root

LEMMA ChainEmpty == \A r : Chain(r, <<>>)
<1> DEFINE e == <<>>
<1>1. Len(e) = 0
  BY EmptySeq
<1>2. e = <<>>
  OBVIOUS
<1> HIDE DEF e
<1>3. 1..Len(e) = {}
  BY <1>1
<1>4. \A r : Chain(r, e)
  BY <1>2, <1>3 DEF Chain
<1> QED
  BY <1>2, <1>4

LEMMA NothingListed == ASSUME erase_list = <<>> PROVE \A x : ~ Listed(x)
<1> DEFINE e == erase_list
<1>1. Len(e) = 0
  BY EmptySeq
<1> HIDE DEF e
<1>2. 1..Len(e) = {}
  BY <1>1
<1> QED
  BY <1>2 DEF Listed, e

\* What is listed once an entry is done.
LEMMA ListGrows ==
  ASSUME erase_list \in Seq(Node), NEW n \in Node, NEW st,
         erase_list' = IF op = "MOVE" /\ st = "CONT" THEN Append(erase_list, n) ELSE erase_list
  PROVE  \A k \in 1..Len(erase_list') :
           Listed(erase_list'[k]) \/ (erase_list'[k] = n /\ st = "CONT")
<1> DEFINE e == erase_list
           l == Len(e)
           a == Append(e, n)
<1>1. l \in Nat /\ Len(a) = l + 1 /\ a[l + 1] = n /\ \A k \in 1..l : a[k] = e[k]
  OBVIOUS
<1>2. CASE erase_list' = a /\ st = "CONT"
  <2> SUFFICES ASSUME NEW k \in 1..Len(a)
               PROVE  a[k] = n \/ \E j \in 1..l : e[j] = a[k]
    BY <1>2 DEF Listed
  <2> HIDE DEF l, a, e
  <2>1. k \in 1..l \/ k = l + 1
    BY <1>1
  <2> QED
    BY <1>1, <2>1
<1>3. CASE erase_list' = erase_list
  BY <1>3 DEF Listed
<1> QED
  BY <1>2, <1>3

\* The entry n of the last of the calls f is done.
LEMMA EntryDoneMove ==
  ASSUME TInv, TInv', op = "MOVE", Moving, pc \in InCopy,
         NEW f \in Seq(FrameSet), f # <<>>, Chain(Root, f),
         NEW n \in Node, Parent[n] = f[Len(f)].dir, NEW st \in Status, EntryDone(f, n, st),
         UNCHANGED <<src, came, opVars>>,
         \A j \in 1..Len(f) : dst'[f[j].dir] = "dir",
         \A x \in Node : Listed(x) => Arrived(x)' /\ (Through(f, x) \/ x \in Below[n]),
         st = "CONT" => Arrived(n)',
         NoLoss', DirInv'
  PROVE  Moving'
<1> DEFINE l == Len(f)
           g == Frame(f[l].dir, f[l].seen \cup {n}, st)
<1>1. /\ erase_list \in Seq(Node) /\ RootsInv /\ i' = i /\ op' = op /\ marked' = marked /\ src' = src
      /\ Root' = Root /\ Root \in Node /\ stack' \in Seq(FrameSet) /\ i > 0
  BY NodeFacts DEF TInv, ControlType, Moving, opVars, Root, ForDir, InCopy
<1>2. /\ stack' # <<>> /\ Len(stack') = l /\ l \in Nat \ {0}
      /\ \A j \in 1..l : j # l => stack'[j] = f[j]
      /\ stack'[l] = g /\ pc' = "entry"
      /\ erase_list' = IF op = "MOVE" /\ st = "CONT" THEN Append(erase_list, n) ELSE erase_list
  BY <1>1, EntryDoneFacts
<1>3. f[l] \in FrameSet /\ l \in 1..l
  BY <1>2, ElementOfSeq
<1>4. \A m \in f[l].seen : Parent[m] = f[l].dir
  BY <1>3 DEF Chain
<1>5. g.dir = f[l].dir /\ g.seen = f[l].seen \cup {n}
  BY DEF Frame
<1>6. \A m \in g.seen : Parent[m] = g.dir
  BY <1>4, <1>5
<1> HIDE DEF g
<1>7. /\ Chain(Root, stack') /\ \A x : Through(f, x) => Through(stack', x)
      /\ \A m \in g.seen : \A x \in Below[m] : Through(stack', x)
      /\ \A j \in 1..l : stack'[j].dir = f[j].dir
  BY <1>1, <1>2, <1>5, <1>6, ChainPut
<1>8. \A x \in Below[n] : Through(stack', x)
  BY <1>5, <1>7
<1>9. \A x : Through(stack', x) => x \in Below[Root]
  BY <1>1, <1>2, <1>7, ChainFacts
<1>10. \A x : Listed(x)' => Listed(x) \/ (x = n /\ st = "CONT")
  <2>1. erase_list \in Seq(Node)
    BY <1>1
  <2>2. erase_list' = IF op = "MOVE" /\ st = "CONT" THEN Append(erase_list, n) ELSE erase_list
    BY <1>2
  <2> QED
    BY <2>1, <2>2, ListGrows DEF Listed
<1>11. RootsInv'
  BY <1>1, <1>2 DEF RootsInv, InCopy, MoveLabels, Between
<1>12. StackInv'
  BY <1>1, <1>2, <1>7 DEF StackInv
<1>13. ListInv'
  <2> SUFFICES ASSUME NEW x \in Node, Listed(x)'
               PROVE  Arrived(x)' /\ x \in Below[Root] /\ Through(stack', x)
    BY <1>1 DEF ListInv
  <2>1. CASE Listed(x)
    BY <1>7, <1>8, <1>9, <2>1
  <2>2. CASE x = n /\ st = "CONT"
    <3>1. x \in Below[n]
      BY <2>2, Tree
    <3> QED
      BY <1>8, <1>9, <2>2, <3>1
  <2> QED
    BY <1>10, <2>1, <2>2
<1>14. RootInv'
  BY <1>2 DEF RootInv
<1> QED
  BY <1>11, <1>12, <1>13, <1>14 DEF Moving

\* copy_dir_dir returns; a directory it returns FILE_CONT for has been made.
LEMMA CopyDirReturnMove ==
  ASSUME TInv, TInv', op = "MOVE", Moving, pc \in InCopy, NEW st \in Status, CopyDirReturn(st),
         UNCHANGED <<src, came, opVars>>,
         \A x \in Node : dst'[x] = dst[x] \/ (dst[x] = "none" /\ dst'[x] = "dir"),
         st = "CONT" => dst'[Top.dir] = "dir"
  PROVE  Moving'
<1>1. /\ stack \in Seq(FrameSet) /\ stack # <<>> /\ erase_list \in Seq(Node)
      /\ RootsInv /\ StackInv /\ ListInv /\ NoLoss /\ DirInv /\ Chain(Root, stack)
      /\ i' = i /\ op' = op /\ Root' = Root /\ Root \in Node /\ src' = src /\ came' = came
      /\ came \subseteq Node
  BY NodeFacts DEF TInv, DataType, ControlType, Moving, StackInv, opVars, Root, ForDir, InCopy
<1>2. \A x \in Node : (Arrived(x) => Arrived(x)') /\ (dst[x] = "dir" => dst'[x] = "dir")
  BY DEF Arrived
<1>3. NoLoss' /\ DirInv'
  BY <1>1, <1>2, NodeFacts DEF NoLoss, DirInv
<1>4. /\ Top \in FrameSet /\ Rest \in Seq(FrameSet)
      /\ Len(stack) \in Nat \ {0} /\ Len(Rest) = Len(stack) - 1
      /\ \A j \in 1..Len(Rest) : Rest[j] = stack[j] /\ Rest[j] \in FrameSet
      /\ Rest # <<>> <=> Len(stack) > 1
  BY <1>1, Pop
<1>5. Top.dir \in Dir /\ Top.dir \in Node /\ Top = stack[Len(stack)]
  BY <1>4, NodeFacts DEF FrameSet, Top
<1>6. CASE Rest = <<>>
  <2>1. stack' = <<>> /\ ret' = st /\ pc' = "m_copied" /\ erase_list' = erase_list
    BY <1>6 DEF CopyDirReturn
  <2>2. Top.dir = Root
    <3>1. Len(stack) = 1
      BY <1>4, <1>6
    <3> QED
      BY <1>1, <1>5, <3>1 DEF Chain
  <2>3. RootsInv'
    BY <1>1, <2>1 DEF RootsInv, MoveLabels, InCopy, Between
  <2>4. StackInv'
    <3>1. Len(stack') = 0
      BY <2>1, EmptySeq
    <3>2. Chain(Root, stack')
      BY <2>1, ChainEmpty
    <3> QED
      BY <1>1, <3>1, <3>2 DEF StackInv
  <2>5. ListInv'
    BY <1>1, <1>2, <2>1 DEF ListInv, Listed, InCopy
  <2>6. RootInv'
    BY <1>1, <2>1, <2>2 DEF RootInv
  <2> QED
    BY <1>3, <2>3, <2>4, <2>5, <2>6 DEF Moving
<1>7. CASE Rest # <<>>
  <2> DEFINE f == Rest
  <2>1. EntryDone(f, Top.dir, st)
    BY <1>7 DEF CopyDirReturn
  <2>2. f \in Seq(FrameSet) /\ f # <<>> /\ Len(stack) = Len(f) + 1 /\ \A j \in 1..Len(f) : f[j] = stack[j]
    BY <1>4, <1>7
  <2>3. \A j \in 1..Len(f) : f[j] \in FrameSet /\ j \in 1..Len(stack) /\ j < Len(stack)
    BY <1>4
  <2> HIDE DEF f
  <2>4. /\ Chain(Root, f) /\ Parent[Top.dir] = f[Len(f)].dir
        /\ \A x : Through(stack, x) => Through(f, x) \/ x \in Below[Top.dir]
    BY <1>1, <1>5, <2>2, ChainPop
  <2>5. \A j \in 1..Len(f) : dst'[f[j].dir] = "dir"
    <3> SUFFICES ASSUME NEW j \in 1..Len(f) PROVE dst'[f[j].dir] = "dir"
      OBVIOUS
    <3>1. f[j].dir \in Node
      BY <2>3, NodeFacts DEF FrameSet
    <3>2. dst[f[j].dir] = "dir"
      BY <1>1, <2>2, <2>3 DEF StackInv
    <3> QED
      BY <1>2, <3>1, <3>2
  <2>6. \A x \in Node : Listed(x) => Arrived(x)' /\ (Through(f, x) \/ x \in Below[Top.dir])
    BY <1>1, <1>2, <2>4 DEF ListInv
  <2>7. PICK n \in Node : n = Top.dir
    BY <1>5
  <2>8. st = "CONT" => Arrived(n)'
    BY <1>5, <2>7 DEF Arrived
  <2>9. EntryDone(f, n, st) /\ Parent[n] = f[Len(f)].dir
    BY <2>1, <2>4, <2>7
  <2>10. \A x \in Node : Listed(x) => Arrived(x)' /\ (Through(f, x) \/ x \in Below[n])
    BY <2>6, <2>7
  <2> QED
    BY <1>3, <2>2, <2>4, <2>5, <2>8, <2>9, <2>10, EntryDoneMove
<1> QED
  BY <1>6, <1>7

\* A step of the call at work that stays in it.
LEMMA CopyGoesMove ==
  ASSUME TInv, TInv', op = "MOVE", Moving, pc \in InCopy, pc' \in InCopy,
         UNCHANGED <<src, came, opVars, erase_list>>,
         stack' = stack \/ SetStatus("RETRY"),
         \A x \in Node : dst'[x] = dst[x] \/ (dst[x] = "none" /\ dst'[x] = "dir"),
         pc' \in {"opendir", "entry"} => dst'[Top.dir] = "dir"
  PROVE  Moving'
<1>1. /\ stack \in Seq(FrameSet) /\ stack' \in Seq(FrameSet) /\ stack # <<>>
      /\ RootsInv /\ StackInv /\ ListInv /\ NoLoss /\ DirInv /\ Chain(Root, stack)
      /\ i' = i /\ op' = op /\ Root' = Root /\ src' = src /\ came' = came /\ erase_list' = erase_list
      /\ came \subseteq Node
  BY DEF TInv, DataType, ControlType, Moving, StackInv, opVars, Root, InCopy
<1>2. \A x \in Node : (Arrived(x) => Arrived(x)') /\ (dst[x] = "dir" => dst'[x] = "dir")
  BY DEF Arrived
<1>3. NoLoss' /\ DirInv'
  BY <1>1, <1>2, NodeFacts DEF NoLoss, DirInv
<1>4. /\ Top \in FrameSet /\ Len(stack) \in Nat \ {0} /\ Top = stack[Len(stack)]
      /\ \A j \in 1..Len(stack) : stack[j] \in FrameSet
  BY <1>1, Pop, ElementOfSeq DEF Top
<1>5. /\ Chain(Root, stack') /\ Len(stack') = Len(stack)
      /\ \A x : Through(stack, x) => Through(stack', x)
      /\ \A j \in 1..Len(stack) : stack'[j].dir = stack[j].dir
  <2>1. CASE stack' = stack
    BY <1>1, <2>1
  <2>2. CASE SetStatus("RETRY")
    <3> DEFINE g == Frame(Top.dir, Top.seen, "RETRY")
    <3>1. g \in FrameSet
      BY <1>4, StatusFacts DEF FrameSet, Frame
    <3>2. g.dir = stack[Len(stack)].dir /\ g.seen = stack[Len(stack)].seen
      BY <1>4 DEF Frame
    <3>3. stack' = Append(Rest, g)
      BY <2>2 DEF SetStatus
    <3>4. \A m \in g.seen : Parent[m] = g.dir
      BY <1>1, <1>4, <3>2 DEF Chain
    <3> HIDE DEF g
    <3>5. /\ Len(stack') = Len(stack) /\ stack'[Len(stack)] = g
          /\ \A j \in 1..Len(stack) : j # Len(stack) => stack'[j] = stack[j]
      BY <1>1, <3>1, <3>3, Restate
    <3> QED
      BY <1>1, <3>2, <3>4, <3>5, ChainPut
  <2> QED
    BY <2>1, <2>2
<1>6. RootsInv'
  BY <1>1 DEF RootsInv, InCopy, MoveLabels, Between
<1>7. ASSUME NEW j \in 1..Len(stack), j < Len(stack) \/ pc' \in {"opendir", "entry"}
      PROVE  dst'[stack[j].dir] = "dir"
  <2>1. CASE j < Len(stack)
    BY <1>1, <1>2, <1>4, <2>1, NodeFacts DEF StackInv, FrameSet
  <2>2. CASE j = Len(stack)
    BY <1>4, <1>7, <2>2
  <2> QED
    BY <1>4, <2>1, <2>2
<1>8. StackInv'
  BY <1>1, <1>5, <1>7 DEF StackInv
<1>9. ListInv'
  BY <1>1, <1>2, <1>5 DEF ListInv, Listed
<1>10. RootInv'
  BY DEF RootInv, InCopy
<1> QED
  BY <1>3, <1>6, <1>8, <1>9, <1>10 DEF Moving

\* copy_dir_dir is called for an entry of the panel.
LEMMA CallRootMove ==
  ASSUME TInv, TInv', op = "MOVE", Moving, pc \in {"m_dir", "m_rename"}, Call(Root), pc' = "stat",
         UNCHANGED <<src, came, dst, opVars, erase_list>>
  PROVE  Moving'
<1>1. /\ stack \in Seq(FrameSet) /\ stack' \in Seq(FrameSet) /\ stack = <<>> /\ Root \in Dir
      /\ RootsInv /\ NoLoss /\ DirInv /\ i' = i /\ op' = op /\ Root' = Root
      /\ erase_list = <<>> /\ erase_list' = <<>>
  BY DEF TInv, ControlType, Moving, RootsInv, opVars, Root, ForDir, InCopy, Between
<1>2. Len(stack) = 0
  BY <1>1, EmptySeq
<1>3. Len(stack') = 1 /\ stack'[1] = Frame(Root, {}, "CONT")
  BY <1>1, <1>2, Push
<1>4. stack'[1].dir = Root /\ stack'[1].seen = {}
  BY <1>3 DEF Frame
<1>5. \A j \in 1..Len(stack') : j = 1
  BY <1>3
<1>6. Chain(Root, stack')
  BY <1>3, <1>4, <1>5 DEF Chain
<1>7. RootsInv'
  BY <1>1 DEF RootsInv, InCopy, MoveLabels, Between
<1>8. StackInv'
  BY <1>1, <1>3, <1>5, <1>6 DEF StackInv
<1>9. \A x : ~ Listed(x)
  BY <1>1, NothingListed
<1>10. ListInv'
  BY <1>1, <1>9 DEF ListInv, Listed
<1>11. RootInv' /\ NoLoss' /\ DirInv'
  BY <1>1 DEF RootInv, NoLoss, DirInv, Arrived
<1> QED
  BY <1>7, <1>8, <1>10, <1>11 DEF Moving

\* Outside copy_dir_dir there is no list to care for.
LEMMA OutsideMove ==
  ASSUME stack' = <<>>, erase_list' = <<>>, pc' \in Between,
         (pc = "m_file" => Root \in src \ Dir)',
         \A k \in 1..Len(Marked) : k > i' => Marked[k] \in src',
         NoLoss', DirInv'
  PROVE  Moving'
<1>1. RootsInv'
  BY DEF RootsInv, Between, MoveLabels, InCopy
<1>2. Len(stack') = 0 /\ Len(erase_list') = 0
  BY EmptySeq
<1>3. Chain(Root', stack')
  BY ChainEmpty
<1>4. StackInv'
  BY <1>2, <1>3 DEF StackInv
<1>5. ListInv'
  BY <1>2 DEF ListInv, Listed
<1>6. RootInv'
  BY DEF RootInv, Between
<1> QED
  BY <1>1, <1>4, <1>5, <1>6 DEF Moving

---------------------------------------------------------------------------
(* Inside copy_dir_dir *)

\* What every step inside copy_dir_dir starts from.
LEMMA InsideCopy ==
  ASSUME TInv, op = "MOVE", Moving, pc \in InCopy
  PROVE  /\ stack \in Seq(FrameSet) /\ stack # <<>> /\ Top \in FrameSet /\ Top.dir \in Dir
         /\ Top = stack[Len(stack)] /\ Len(stack) \in Nat \ {0} /\ Len(stack) \in 1..Len(stack)
         /\ Top.st \in Status /\ dst[Top.dir] \in {"none", "old", "dir"}
         /\ pc \in {"opendir", "entry"} => dst[Top.dir] = "dir"
<1>1. stack \in Seq(FrameSet) /\ stack # <<>> /\ StackInv /\ DirInv
  BY DEF TInv, ControlType, Moving
<1>2. Top \in FrameSet /\ Len(stack) \in Nat \ {0} /\ Top = stack[Len(stack)]
  BY <1>1, Pop DEF Top
<1>3. Len(stack) \in 1..Len(stack)
  BY <1>2
<1> QED
  BY <1>1, <1>2, <1>3 DEF FrameSet, StackInv, DirInv

LEMMA CopyStatMove == ASSUME TInv, TInv', op = "MOVE", Moving, CopyStat PROVE Moving'
<1> USE DEF CopyStat
<1>1. pc \in InCopy /\ UNCHANGED <<src, came, opVars>> /\ dst' = dst
  BY DEF InCopy, treeVars
<1>2. CASE pc' = "dst_stat" /\ UNCHANGED <<stack, ret, erase_list>>
  BY <1>1, <1>2, CopyGoesMove DEF InCopy
<1>3. CASE Retried /\ UNCHANGED <<pc, ret, erase_list>>
  BY <1>1, <1>3, CopyGoesMove DEF InCopy, Retried
<1>4. CASE \E st \in GiveUp : Fails(st) /\ CopyDirReturn(st)
  BY <1>1, <1>4, CopyDirReturnMove, StatusFacts
<1> QED
  BY <1>2, <1>3, <1>4

LEMMA CopyDstStatMove == ASSUME TInv, TInv', op = "MOVE", Moving, CopyDstStat PROVE Moving'
<1> USE DEF CopyDstStat
<1>1. pc \in InCopy /\ UNCHANGED <<src, came, opVars>> /\ dst' = dst
  BY DEF InCopy, treeVars
<1>2. CASE pc' = (IF Mkdir THEN "mkdir" ELSE "opendir") /\ UNCHANGED <<stack, ret, erase_list>> /\ dst[Top.dir] # "old"
  <2>1. ~ Mkdir => dst'[Top.dir] = "dir"
    BY <1>1, <1>2, InsideCopy DEF Mkdir
  <2> QED
    BY <1>1, <1>2, <2>1, CopyGoesMove DEF InCopy
<1>3. CASE \E st \in GiveUp : Refused(st) /\ CopyDirReturn(st)
  BY <1>1, <1>3, CopyDirReturnMove, StatusFacts
<1> QED
  BY <1>2, <1>3

LEMMA CopyMkdirMove == ASSUME TInv, TInv', op = "MOVE", Moving, CopyMkdir PROVE Moving'
<1> USE DEF CopyMkdir
<1>1. pc \in InCopy /\ UNCHANGED <<src, came, opVars>> /\ Top.dir \in Node /\ dst \in [Node -> Kept]
  BY InsideCopy, NodeFacts DEF InCopy, TInv, DataType
<1>2. ASSUME \/ UNCHANGED dst
             \/ dst[Top.dir] = "none" /\ dst' = [dst EXCEPT ![Top.dir] = "dir"]
      PROVE  \A x \in Node : dst'[x] = dst[x] \/ (dst[x] = "none" /\ dst'[x] = "dir")
  BY <1>1, <1>2
<1>3. CASE /\ dst[Top.dir] = "none" /\ dst' = [dst EXCEPT ![Top.dir] = "dir"]
           /\ Goto("opendir") /\ UNCHANGED <<stack, ret, erase_list>>
  <2>1. dst'[Top.dir] = "dir"
    BY <1>1, <1>3
  <2> QED
    BY <1>1, <1>2, <1>3, <2>1, CopyGoesMove DEF InCopy
<1>4. CASE Retried /\ UNCHANGED <<dst, pc, ret, erase_list>>
  <2>1. pc' = "mkdir" /\ SetStatus("RETRY")
    BY <1>4 DEF Retried
  <2> QED
    BY <1>1, <1>2, <1>4, <2>1, CopyGoesMove DEF InCopy
<1>5. CASE /\ UNCHANGED dst \/ (dst[Top.dir] = "none" /\ dst' = [dst EXCEPT ![Top.dir] = "dir"])
           /\ \E st \in GiveUp : CopyDirReturn(st)
  BY <1>1, <1>2, <1>5, CopyDirReturnMove, StatusFacts
<1> QED
  BY <1>3, <1>4, <1>5 DEF MkdirFailed

LEMMA CopyOpendirMove == ASSUME TInv, TInv', op = "MOVE", Moving, CopyOpendir PROVE Moving'
<1> USE DEF CopyOpendir
<1>1. /\ pc \in InCopy /\ UNCHANGED <<src, came, opVars>> /\ dst' = dst /\ dst'[Top.dir] = "dir"
      /\ Top.st \in Status
  BY InsideCopy DEF InCopy, treeVars
<1>2. CASE pc' = "entry" /\ UNCHANGED <<stack, ret, erase_list>>
  BY <1>1, <1>2, CopyGoesMove DEF InCopy
<1>3. CASE CopyDirReturn(Top.st)
  <2>1. PICK st \in Status : st = Top.st
    BY <1>1
  <2> QED
    BY <1>1, <1>3, <2>1, CopyDirReturnMove
<1> QED
  BY <1>2, <1>3

LEMMA CopyDirDoneMove == ASSUME TInv, TInv', op = "MOVE", Moving, CopyDirDone PROVE Moving'
<1> USE DEF CopyDirDone
<1>1. /\ pc \in InCopy /\ UNCHANGED <<src, came, opVars>> /\ dst' = dst /\ dst'[Top.dir] = "dir"
      /\ Top.st \in Status
  BY InsideCopy DEF InCopy, treeVars
<1>2. PICK st \in Status : st = Top.st
  BY <1>1
<1> QED
  BY <1>1, <1>2, CopyDirReturnMove

\* An entry is copied, called for, or passed over after an error: it is none
\* of the nodes listed, so they are whole still.
LEMMA CopyEntryMove == ASSUME TInv, TInv', op = "MOVE", Moving, CopyEntry PROVE Moving'
<1>1. /\ pc = "entry" /\ pc \in InCopy /\ UNCHANGED <<src, came, opVars>> /\ i' = i /\ Root' = Root
      /\ stack \in Seq(FrameSet) /\ stack # <<>> /\ Top = stack[Len(stack)] /\ Root \in Dir
      /\ Len(stack) \in Nat \ {0} /\ RootsInv /\ StackInv /\ ListInv /\ NoLoss /\ DirInv
      /\ Chain(Root, stack) /\ dst \in [Node -> Kept] /\ came \subseteq Node /\ src' = src /\ came' = came
      /\ op' = op
  BY InsideCopy DEF CopyEntry, opVars, InCopy, Root, Moving, StackInv, TInv, ControlType, DataType, ForDir
<1>2. PICK n \in Unseen :
       \/ /\ n \in Dir /\ Works
          /\ Call(n) /\ Goto("stat") /\ UNCHANGED <<dst, linked, ret, erase_list>>
       \/ \E st \in GiveUp : Fails(st) /\ EntryDone(stack, n, st) /\ UNCHANGED <<dst, linked>>
       \/ n \notin Dir /\ \E st \in Status : copy_file_file(n, st) /\ EntryDone(stack, n, st)
  BY DEF CopyEntry
<1>3. n \in Node /\ n \in src /\ Parent[n] = stack[Len(stack)].dir /\ n \notin stack[Len(stack)].seen
  BY <1>1, <1>2, UnseenFacts
<1>4. \A j \in 1..Len(stack) : stack[j] \in FrameSet /\ dst[stack[j].dir] = "dir"
  BY <1>1, ElementOfSeq DEF StackInv
<1>5. ~ Through(stack, n)
  BY <1>1, <1>3, NodeFacts, ChainFacts
<1>6. \A x \in Node : Listed(x) => x # n /\ Arrived(x) /\ Through(stack, x)
  BY <1>1, <1>5 DEF ListInv
<1>7. CASE /\ n \in Dir /\ Call(n) /\ Goto("stat") /\ UNCHANGED <<dst, linked, ret, erase_list>>
  <2>1. /\ stack' \in Seq(FrameSet) /\ Len(stack') = Len(stack) + 1
        /\ \A j \in 1..Len(stack) : stack'[j] = stack[j]
        /\ stack'[Len(stack')] = Frame(n, {}, "CONT")
    BY <1>1, <1>7, Push
  <2>2. Chain(Root, stack') /\ \A x : Through(stack, x) => Through(stack', x)
    BY <1>1, <1>3, <1>7, <2>1, ChainPush
  <2>3. RootsInv'
    BY <1>1, <1>7 DEF RootsInv, InCopy, MoveLabels, Between
  <2>4. StackInv'
    <3> SUFFICES ASSUME NEW j \in 1..Len(stack'), j < Len(stack') PROVE dst'[stack'[j].dir] = "dir"
      BY <1>1, <1>7, <2>2 DEF StackInv
    <3>1. j \in 1..Len(stack)
      BY <1>1, <2>1
    <3> QED
      BY <1>4, <1>7, <2>1, <3>1
  <2>5. ListInv'
    BY <1>1, <1>7, <2>2 DEF ListInv, Listed, Arrived
  <2>6. RootInv' /\ NoLoss' /\ DirInv'
    BY <1>1, <1>7 DEF RootInv, NoLoss, DirInv, Arrived
  <2> QED
    BY <2>3, <2>4, <2>5, <2>6 DEF Moving
<1>8. ASSUME NEW st \in Status, EntryDone(stack, n, st), \A x \in Node : x # n => dst'[x] = dst[x],
             n \in Dir => dst' = dst, st = "CONT" => Arrived(n)'
      PROVE  Moving'
  <2>1. \A j \in 1..Len(stack) : dst'[stack[j].dir] = "dir"
    <3> SUFFICES ASSUME NEW j \in 1..Len(stack) PROVE dst'[stack[j].dir] = "dir"
      OBVIOUS
    <3>1. stack[j].dir \in Dir /\ stack[j].dir \in Node /\ dst[stack[j].dir] = "dir"
      BY <1>4, NodeFacts DEF FrameSet
    <3> QED
      BY <1>8, <3>1
  <2>2. \A x \in Node : Listed(x) => Arrived(x)' /\ (Through(stack, x) \/ x \in Below[n])
    BY <1>6, <1>8 DEF Arrived
  <2>3. NoLoss'
    BY <1>1, <1>3, <1>8 DEF NoLoss, Arrived
  <2>4. DirInv'
    BY <1>1, <1>8, NodeFacts DEF DirInv
  <2> QED
    BY <1>1, <1>3, <1>8, <2>1, <2>2, <2>3, <2>4, EntryDoneMove
<1>9. CASE \E st \in GiveUp : EntryDone(stack, n, st) /\ UNCHANGED <<dst, linked>>
  BY <1>8, <1>9, StatusFacts
<1>10. CASE n \notin Dir /\ \E st \in Status : copy_file_file(n, st) /\ EntryDone(stack, n, st)
  <2>1. PICK st \in Status : copy_file_file(n, st) /\ EntryDone(stack, n, st)
    BY <1>10
  <2>2. /\ \A m \in Node : m # n => dst'[m] = dst[m]
        /\ st = "CONT" => dst' = [dst EXCEPT ![n] = "whole"]
    BY <1>3, <2>1, CopyFileType
  <2>3. st = "CONT" => Arrived(n)'
    BY <1>1, <1>3, <1>10, <2>2 DEF Arrived
  <2> QED
    BY <1>8, <1>10, <2>1, <2>2, <2>3
<1> QED
  BY <1>2, <1>7, <1>9, <1>10

---------------------------------------------------------------------------
(* move_dir_dir, move_file_file and the loop *)

\* What every other step of a move starts from.
LEMMA OutsideCopy ==
  ASSUME TInv, op = "MOVE", Moving, pc \notin InCopy
  PROVE  /\ stack = <<>> /\ RootsInv /\ ListInv /\ RootInv /\ NoLoss /\ DirInv
         /\ pc \in Between => erase_list = <<>>
         /\ dst \in [Node -> Kept] /\ src \subseteq came /\ came \subseteq Node
         /\ pc \in ForDir => Root \in Dir /\ Root \in Node /\ i > 0
  BY NodeFacts DEF Moving, RootsInv, TInv, DataType, ControlType, ForDir, InCopy

LEMMA MoveDirMove == ASSUME TInv, TInv', op = "MOVE", Moving, MoveDir PROVE Moving'
<1> USE DEF MoveDir
<1>1. /\ pc = "m_dir" /\ pc \notin InCopy /\ pc \in Between /\ UNCHANGED <<src, came, dst, opVars>>
      /\ i' = i
  BY DEF InCopy, Between, treeVars, opVars
<1>2. stack = <<>> /\ erase_list = <<>> /\ RootsInv /\ NoLoss /\ DirInv
  BY <1>1, OutsideCopy
<1>3. NoLoss' /\ DirInv' /\ \A k \in 1..Len(Marked) : k > i' => Marked[k] \in src'
  BY <1>1, <1>2 DEF NoLoss, DirInv, Arrived, RootsInv
<1>4. CASE UNCHANGED <<stack, erase_list>> /\ pc' \in {"after", "m_rename"}
  BY <1>2, <1>3, <1>4, OutsideMove DEF Between
<1>5. CASE Call(Root) /\ Goto("stat") /\ UNCHANGED <<ret, erase_list>>
  BY <1>1, <1>5, CallRootMove
<1> QED
  BY <1>4, <1>5 DEF Return

\* A rename: what leaves the source tree is whole at the destination at once.
LEMMA MoveDirRenameMove == ASSUME TInv, TInv', op = "MOVE", Moving, MoveDirRename PROVE Moving'
<1> USE DEF MoveDirRename
<1>1. /\ pc = "m_rename" /\ pc \notin InCopy /\ pc \in Between /\ UNCHANGED <<came, opVars>> /\ i' = i
      /\ pc \in ForDir
  BY DEF InCopy, Between, ForDir, opVars
<1>2. /\ stack = <<>> /\ erase_list = <<>> /\ RootsInv /\ NoLoss /\ DirInv /\ came \subseteq Node /\ i > 0
      /\ dst \in [Node -> Kept]
  BY <1>1, OutsideCopy
<1>3. CASE UNCHANGED <<stack, erase_list, src, dst>> /\ pc' \in {"after", "m_rename"}
  <2>1. NoLoss' /\ DirInv' /\ \A k \in 1..Len(Marked) : k > i' => Marked[k] \in src'
    BY <1>1, <1>2, <1>3 DEF NoLoss, DirInv, Arrived, RootsInv
  <2> QED
    BY <1>2, <1>3, <2>1, OutsideMove DEF Between
<1>4. CASE Call(Root) /\ Goto("stat") /\ UNCHANGED <<ret, erase_list, src, dst>>
  BY <1>1, <1>4, CallRootMove
<1>5. CASE Return("CONT") /\ src' = src \ Below[Root] /\ dst' = Moved(src \cap Below[Root])
  <2>1. \A x \in Node : dst'[x] = IF x \notin src \cap Below[Root] THEN dst[x]
                                  ELSE IF x \in Dir THEN "dir" ELSE "whole"
    BY <1>5 DEF Moved
  <2>2. NoLoss'
    <3> SUFFICES ASSUME NEW x \in came, x \notin src' PROVE Arrived(x)'
      BY <1>1 DEF NoLoss
    <3>1. x \in Node
      BY <1>2
    <3>2. CASE x \in src \cap Below[Root]
      BY <2>1, <3>1, <3>2 DEF Arrived
    <3>3. CASE x \notin src
      BY <1>2, <2>1, <3>1, <3>3 DEF Arrived, NoLoss
    <3> QED
      BY <1>5, <3>2, <3>3
  <2>3. DirInv'
    BY <1>2, <2>1, NodeFacts DEF DirInv
  <2>4. \A k \in 1..Len(Marked) : k > i' => Marked[k] \in src'
    BY <1>1, <1>2, <1>5, Later DEF RootsInv
  <2> QED
    BY <1>2, <1>5, <2>2, <2>3, <2>4, OutsideMove DEF Between, Return
<1> QED
  BY <1>1, <1>3, <1>4, <1>5 DEF Return

LEMMA MoveCopiedMove == ASSUME TInv, TInv', op = "MOVE", Moving, MoveCopied PROVE Moving'
<1> USE DEF MoveCopied
<1>1. /\ pc = "m_copied" /\ pc \notin InCopy /\ UNCHANGED <<src, came, dst, opVars>> /\ i' = i
      /\ op' = op /\ Root' = Root
  BY DEF InCopy, treeVars, opVars, Root
<1>2. stack = <<>> /\ RootsInv /\ NoLoss /\ DirInv /\ ListInv /\ RootInv
  BY <1>1, OutsideCopy
<1>3. NoLoss' /\ DirInv' /\ \A k \in 1..Len(Marked) : k > i' => Marked[k] \in src'
  BY <1>1, <1>2 DEF NoLoss, DirInv, Arrived, RootsInv
<1>4. CASE UNCHANGED stack /\ erase_list' = <<>> /\ pc' = "after"
  BY <1>2, <1>3, <1>4, OutsideMove DEF Between
<1>5. CASE ret = "CONT" /\ pc' = "m_erase" /\ UNCHANGED <<stack, ret, erase_list>>
  <2>1. RootsInv'
    BY <1>1, <1>2, <1>5 DEF RootsInv, InCopy, MoveLabels, Between
  <2>2. Chain(Root', stack') /\ Len(stack') = 0
    BY <1>2, <1>5, ChainEmpty, EmptySeq
  <2>3. StackInv'
    BY <2>2 DEF StackInv
  <2>4. ListInv'
    BY <1>1, <1>2, <1>5 DEF ListInv, Listed, Arrived, InCopy
  <2>5. RootInv'
    BY <1>1, <1>2, <1>5 DEF RootInv
  <2> QED
    BY <1>3, <2>1, <2>3, <2>4, <2>5 DEF Moving
<1> QED
  BY <1>4, <1>5 DEF DropList

\* What is erased was listed, so it is whole at the destination.
LEMMA MoveEraseMove == ASSUME TInv, TInv', op = "MOVE", Moving, MoveErase PROVE Moving'
<1>1. /\ pc = "m_erase" /\ pc' = pc /\ pc \notin InCopy /\ pc \in ForDir /\ i' = i /\ op' = op /\ Root' = Root
      /\ UNCHANGED <<came, dst, stack>> /\ erase_list # <<>> /\ erase_list' = Tail(erase_list)
      /\ erase_list \in Seq(Node)
  BY DEF MoveErase, InCopy, ForDir, opVars, Root, ListRest, TInv, ControlType
<1>2. /\ stack = <<>> /\ RootsInv /\ NoLoss /\ DirInv /\ ListInv /\ RootInv /\ came \subseteq Node
      /\ Root \in Dir /\ i > 0
  BY <1>1, OutsideCopy
<1>3. PICK h \in Node : h = Head(erase_list)
  BY <1>1, HeadTailProperties
<1>4. Listed(h) /\ \A x : Listed(x)' => Listed(x)
  <2> DEFINE e == erase_list
             t == Tail(erase_list)
  <2>1. e \in Seq(Node) /\ e # <<>>
    BY <1>1
  <2>2. Len(e) \in Nat \ {0} /\ h = e[1]
    BY <1>3, <2>1, EmptySeq
  <2>3. Len(t) = Len(e) - 1 /\ \A k \in 1..Len(t) : t[k] = e[k + 1]
    BY <2>1, HeadTailProperties
  <2>4. 1 \in 1..Len(e)
    BY <2>2
  <2>5. Listed(h)
    BY <2>2, <2>4 DEF Listed
  <2> HIDE DEF e, t
  <2>6. \A k \in 1..Len(t) : k + 1 \in 1..Len(e)
    BY <2>2, <2>3
  <2>7. \A x : (\E k \in 1..Len(t) : t[k] = x) => \E k \in 1..Len(e) : e[k] = x
    BY <2>3, <2>6
  <2>8. erase_list' = t
    BY <1>1 DEF t
  <2> QED
    BY <2>5, <2>7, <2>8 DEF Listed, e
<1>5. src' \in {src, src \ {h}}
  <2>1. PICK st \in Status : erase_dir_iff_empty(h, st) \/ erase_file(h, st)
    BY <1>3 DEF MoveErase
  <2> QED
    BY <2>1, EraseFileType
<1>6. Arrived(h) /\ h \in Below[Root]
  BY <1>2, <1>4 DEF ListInv
<1>7. NoLoss' /\ DirInv'
  BY <1>1, <1>2, <1>5, <1>6 DEF NoLoss, DirInv, Arrived
<1>8. RootsInv'
  BY <1>1, <1>2, <1>5, <1>6, Later DEF RootsInv, InCopy, Between
<1>9. Chain(Root', stack') /\ Len(stack') = 0
  BY <1>1, <1>2, ChainEmpty, EmptySeq
<1>10. StackInv'
  BY <1>9 DEF StackInv
<1>11. ListInv'
  BY <1>1, <1>2, <1>4 DEF ListInv, Arrived
<1>12. RootInv'
  BY <1>1, <1>2 DEF RootInv
<1> QED
  BY <1>7, <1>8, <1>10, <1>11, <1>12 DEF Moving

LEMMA MoveEraseLastMove == ASSUME TInv, TInv', op = "MOVE", Moving, MoveEraseLast PROVE Moving'
<1>1. /\ pc = "m_erase" /\ pc \notin InCopy /\ pc \in ForDir /\ i' = i /\ UNCHANGED <<came, dst>>
      /\ stack' = stack /\ erase_list' = <<>> /\ pc' = "after"
  BY DEF MoveEraseLast, InCopy, ForDir, opVars, DropList
<1>2. /\ stack = <<>> /\ RootsInv /\ NoLoss /\ DirInv /\ RootInv /\ came \subseteq Node
      /\ Root \in Dir /\ Root \in Node /\ i > 0
  BY <1>1, OutsideCopy
<1>3. PICK h \in Node : h = Root
  BY <1>2
<1>4. src' \in {src, src \ {h}}
  BY <1>3, EraseFileType DEF MoveEraseLast
<1>5. Arrived(h) /\ h \in Below[Root]
  BY <1>1, <1>2, <1>3, Tree DEF RootInv, Arrived
<1>6. NoLoss' /\ DirInv'
  BY <1>1, <1>2, <1>4, <1>5 DEF NoLoss, DirInv, Arrived
<1>7. \A k \in 1..Len(Marked) : k > i' => Marked[k] \in src'
  BY <1>1, <1>2, <1>4, <1>5, Later DEF RootsInv
<1> QED
  BY <1>1, <1>2, <1>6, <1>7, OutsideMove DEF Between

LEMMA MoveFileMove == ASSUME TInv, TInv', op = "MOVE", Moving, MoveFile PROVE Moving'
<1>1. /\ pc = "m_file" /\ pc \notin InCopy /\ pc \in Between /\ i' = i /\ came' = came /\ i > 0
  BY DEF MoveFile, InCopy, Between, opVars, TInv, ControlType
<1>2. /\ stack = <<>> /\ erase_list = <<>> /\ RootsInv /\ NoLoss /\ DirInv /\ came \subseteq Node
      /\ dst \in [Node -> Kept] /\ src \subseteq came
  BY <1>1, OutsideCopy
<1>3. PICK h \in Node : h = Root /\ h \in src /\ h \notin Dir
  BY <1>1, <1>2 DEF RootsInv
<1>4. PICK st \in Status :
       /\ Return(st)
       /\ \/ src' = src \ {h} /\ dst' = [dst EXCEPT ![h] = "whole"]
          \/ copy_file_file(h, st) /\ UNCHANGED src
  BY <1>3 DEF MoveFile
<1>5. \A x \in Node : x # h => dst'[x] = dst[x]
  BY <1>2, <1>3, <1>4, CopyFileType
<1>6. src' = src \/ (src' = src \ {h} /\ dst'[h] = "whole")
  BY <1>2, <1>3, <1>4
<1>7. NoLoss'
  BY <1>1, <1>2, <1>3, <1>5, <1>6 DEF NoLoss, Arrived
<1>8. DirInv'
  BY <1>2, <1>3, <1>5, NodeFacts DEF DirInv
<1>9. h \in Below[Root]
  BY <1>3, Tree
<1>10. \A k \in 1..Len(Marked) : k > i' => Marked[k] \in src'
  BY <1>1, <1>2, <1>6, <1>9, Later DEF RootsInv
<1> QED
  BY <1>2, <1>4, <1>7, <1>8, <1>10, OutsideMove DEF Between, Return

LEMMA NextRootMove == ASSUME TInv, TInv', op = "MOVE", Moving, NextRoot PROVE Moving'
<1> DEFINE r == Marked[i + 1]
<1>1. /\ pc = "next" /\ pc \notin InCopy /\ pc \in Between /\ UNCHANGED <<src, came, dst, erase_list, stack>>
      /\ i < Len(Marked) /\ i' = i + 1 /\ i \in 0..Len(Marked) /\ op' = op
      /\ pc' = IF r \in Dir THEN First[op].dir ELSE First[op].file
  BY DEF NextRoot, NextIndex, InCopy, Between, treeVars, TInv, DataType
<1>2. stack = <<>> /\ erase_list = <<>> /\ RootsInv /\ NoLoss /\ DirInv
  BY <1>1, OutsideCopy
<1>3. pc' = IF r \in Dir THEN "m_dir" ELSE "m_file"
  BY <1>1 DEF First
<1>4. i + 1 \in 1..Len(Marked) /\ i + 1 > i /\ Root' = r
  BY <1>1, MarkedLen DEF Root
<1>5. r \in src
  BY <1>2, <1>4 DEF RootsInv
<1>6. \A k \in 1..Len(Marked) : k > i' => Marked[k] \in src'
  BY <1>1, <1>2, MarkedLen DEF RootsInv
<1>7. (pc = "m_file" => Root \in src \ Dir)'
  BY <1>1, <1>3, <1>4, <1>5
<1>8. NoLoss' /\ DirInv' /\ pc' \in Between
  BY <1>1, <1>2, <1>3 DEF NoLoss, DirInv, Arrived, Between
<1> QED
  BY <1>1, <1>2, <1>6, <1>7, <1>8, OutsideMove

LEMMA LoopMove == ASSUME TInv, TInv', op = "MOVE", Moving, NoMoreRoots \/ AfterRoot PROVE Moving'
<1>1. /\ pc \in {"next", "after"} /\ pc \notin InCopy /\ pc \in Between /\ i' = i
      /\ UNCHANGED <<src, came, dst, erase_list, stack>> /\ pc' \in {"next", "done"}
  BY DEF NoMoreRoots, AfterRoot, InCopy, Between, treeVars, opVars
<1>2. stack = <<>> /\ erase_list = <<>> /\ RootsInv /\ NoLoss /\ DirInv
  BY <1>1, OutsideCopy
<1>3. NoLoss' /\ DirInv' /\ \A k \in 1..Len(Marked) : k > i' => Marked[k] \in src'
  BY <1>1, <1>2 DEF NoLoss, DirInv, Arrived, RootsInv
<1> QED
  BY <1>1, <1>2, <1>3, OutsideMove DEF Between

\* What other programs add was never there before.
LEMMA AppearMove == ASSUME TInv, TInv', op = "MOVE", Moving, NEW n \in Late, Appear(n) PROVE Moving'
<1>1. /\ n \notin came /\ src' = src \cup {n} /\ came' = came \cup {n} /\ op' = op /\ i' = i /\ Root' = Root
      /\ UNCHANGED <<dst, erase_list, stack, pc, ret>>
  BY DEF Appear, opVars, Root
<1>2. RootsInv /\ StackInv /\ ListInv /\ RootInv /\ NoLoss /\ DirInv
  BY DEF Moving
<1>3. RootsInv'
  BY <1>1, <1>2 DEF RootsInv
<1>4. StackInv' /\ ListInv' /\ RootInv' /\ DirInv'
  BY <1>1, <1>2 DEF StackInv, ListInv, Listed, Arrived, RootInv, DirInv
<1>5. NoLoss'
  BY <1>1, <1>2 DEF NoLoss, Arrived
<1> QED
  BY <1>2, <1>3, <1>4, <1>5 DEF Moving

LEMMA StutterMove == ASSUME Moving, UNCHANGED vars PROVE Moving'
  BY DEF vars, treeVars, opVars, Moving, RootsInv, StackInv, ListInv, Listed, Arrived, RootInv,
     NoLoss, DirInv, Root

LEMMA InitMove == ASSUME Init PROVE Moving
<1> USE DEF Init
<1>1. src = Node \ Late /\ came = src /\ i = 0 /\ stack = <<>> /\ erase_list = <<>> /\ pc = "next"
  OBVIOUS
<1>2. RootsInv
  BY <1>1, MarkedNode DEF RootsInv, MoveLabels, InCopy
<1>3. Len(stack) = 0 /\ Chain(Root, stack)
  BY <1>1, EmptySeq, ChainEmpty
<1>4. StackInv
  BY <1>3 DEF StackInv
<1>5. ListInv
  BY <1>1, NothingListed DEF ListInv
<1>6. RootInv /\ NoLoss /\ DirInv
  BY <1>1, NodeFacts DEF RootInv, NoLoss, DirInv
<1> QED
  BY <1>2, <1>4, <1>5, <1>6 DEF Moving

LEMMA SameOp == ASSUME [Next]_vars PROVE op' = op
<1>1. CASE Step
  BY <1>1 DEF Step, CopyStep, MoveStep, EraseStep, CopyStat, CopyDstStat, CopyMkdir, CopyOpendir,
     CopyEntry, CopyDirDone, CopyFile, MoveDir, MoveDirRename, MoveCopied, MoveErase,
     MoveEraseLast, MoveFile, EraseFile, EraseDir, EraseAsk, EraseRmdir, EraseOpendir,
     EraseEntry, EraseEntries, EraseRmdirs, NextRoot, NoMoreRoots, AfterRoot, opVars
<1>2. CASE \E n \in Late : Appear(n)
  BY <1>2 DEF Appear, opVars
<1>3. CASE UNCHANGED vars
  BY <1>3 DEF vars, opVars
<1> QED
  BY <1>1, <1>2, <1>3 DEF Next, Done

LEMMA NextMove == ASSUME MInv, [Next]_vars PROVE MInv'
<1>1. TInv /\ Moving /\ TInv'
  BY NextType DEF MInv
<1>2. CASE op # "MOVE"
  <2>1. op' = op
    BY SameOp
  <2> QED
    BY <1>1, <1>2, <2>1 DEF MInv, Moving
<1>3. CASE op = "MOVE"
  <2>1. pc \in MoveLabels
    BY <1>1, <1>3 DEF Moving, RootsInv
  <2>2. CASE CopyStep
    <3>1. ~ CopyFile
      BY <2>1 DEF CopyFile, MoveLabels, InCopy
    <3> QED
      BY <1>1, <1>3, <2>2, <3>1, CopyStatMove, CopyDstStatMove, CopyMkdirMove, CopyOpendirMove,
         CopyEntryMove, CopyDirDoneMove DEF CopyStep, MInv
  <2>3. CASE MoveStep
    BY <1>1, <1>3, <2>3, MoveDirMove, MoveDirRenameMove, MoveCopiedMove, MoveEraseMove,
       MoveEraseLastMove, MoveFileMove DEF MoveStep, MInv
  <2>4. ~ EraseStep
    BY <2>1 DEF EraseStep, EraseFile, EraseDir, EraseAsk, EraseRmdir, EraseOpendir, EraseEntry,
       EraseEntries, EraseRmdirs, MoveLabels, InCopy
  <2>5. CASE NextRoot \/ NoMoreRoots \/ AfterRoot
    BY <1>1, <1>3, <2>5, NextRootMove, LoopMove DEF MInv
  <2>6. CASE \E n \in Late : Appear(n)
    BY <1>1, <1>3, <2>6, AppearMove DEF MInv
  <2>7. CASE UNCHANGED vars
    BY <1>1, <2>7, StutterMove DEF MInv
  <2> QED
    BY <2>2, <2>3, <2>4, <2>5, <2>6, <2>7 DEF Next, Step, Done
<1> QED
  BY <1>2, <1>3

\* A move loses nothing, for every tree, whatever fails and whatever other
\* programs add: what is no longer in the source tree is whole at the
\* destination.
THEOREM TreeMoveLosesNothing == Spec => []MoveLosesNothing
<1>1. Init => MInv
  BY InitType, InitMove DEF MInv
<1>2. MInv => MoveLosesNothing
  BY DEF MInv, Moving, NoLoss, MoveLosesNothing
<1> QED
  BY <1>1, <1>2, NextMove, PTL DEF Spec

\* A copy or a deletion lists nothing.
NoList == op # "MOVE" => erase_list = <<>>

LEMMA NextNoList == ASSUME NoList, [Next]_vars PROVE NoList'
<1> SUFFICES ASSUME op # "MOVE", erase_list = <<>>
             PROVE  erase_list' = <<>>
  BY SameOp DEF NoList
<1>1. ASSUME NEW f, NEW n, NEW st, EntryDone(f, n, st) PROVE erase_list' = <<>>
  BY <1>1 DEF EntryDone
<1>2. ASSUME NEW st, CopyDirReturn(st) PROVE erase_list' = <<>>
  BY <1>1, <1>2 DEF CopyDirReturn
<1>3. CASE CopyStep
  <2>1. CASE CopyStat \/ CopyDstStat \/ CopyMkdir
    BY <1>2, <2>1 DEF CopyStat, CopyDstStat, CopyMkdir, MkdirFailed
  <2>2. CASE CopyOpendir \/ CopyDirDone \/ CopyFile
    BY <1>2, <2>2 DEF CopyOpendir, CopyDirDone, CopyFile, Return
  <2>3. CASE CopyEntry
    BY <1>1, <2>3 DEF CopyEntry
  <2> QED
    BY <1>3, <2>1, <2>2, <2>3 DEF CopyStep
<1>4. CASE MoveStep
  BY <1>4 DEF MoveStep, MoveDir, MoveDirRename, MoveCopied, MoveErase, MoveEraseLast, MoveFile,
     Return, DropList
<1>5. CASE EraseStep
  BY <1>5 DEF EraseStep, EraseFile, EraseDir, EraseAsk, EraseRmdir, EraseOpendir, EraseEntry,
     EraseEntries, EraseRmdirs, Return
<1>6. CASE NextRoot \/ NoMoreRoots \/ AfterRoot
  BY <1>6 DEF NextRoot, NoMoreRoots, AfterRoot
<1>7. CASE \E n \in Late : Appear(n)
  BY <1>7 DEF Appear
<1>8. CASE UNCHANGED vars
  BY <1>8 DEF vars
<1> QED
  BY <1>3, <1>4, <1>5, <1>6, <1>7, <1>8 DEF Next, Step, Done

\* The list of what a move will erase never holds a node that was not copied,
\* and never one of another marked entry, for every tree.
THEOREM TreeEraseListIsOurs == Spec => []EraseListIsOurs
<1>1. Init => MInv /\ NoList
  BY InitType, InitMove DEF MInv, NoList, Init
<1>2. MInv /\ NoList => EraseListIsOurs
  <2> SUFFICES ASSUME MInv, NoList PROVE EraseListIsOurs
    OBVIOUS
  <2>1. CASE op = "MOVE"
    <3>1. RootsInv /\ ListInv /\ erase_list \in Seq(Node)
      BY <2>1 DEF MInv, Moving, TInv, ControlType
    <3>2. \A k \in 1..Len(erase_list) : erase_list[k] \in Node
      BY <3>1, ElementOfSeq
    <3>3. \A k \in 1..Len(erase_list) : Arrived(erase_list[k])
      BY <3>1, <3>2 DEF ListInv, Listed
    <3> QED
      BY <3>1, <3>3 DEF EraseListIsOurs, RootsInv, Between
  <2>2. CASE erase_list = <<>>
    <3>1. Len(erase_list) = 0
      BY <2>2, EmptySeq
    <3> QED
      BY <2>2, <3>1 DEF EraseListIsOurs
  <2> QED
    BY <2>1, <2>2 DEF NoList
<1> QED
  BY <1>1, <1>2, NextMove, NextNoList, PTL DEF Spec

---------------------------------------------------------------------------
(***************************************************************************)
(* What copying and deleting directories promise, for every tree: nothing  *)
(* is deleted below a directory the user did not agree to lose, an entry   *)
(* that lost its mark is gone with all below it, a copy never stands in a  *)
(* directory that could not be made, and Abort ends a copy at once.  The   *)
(* arguments: what is there has its directory there too, so the last       *)
(* removal of a deletion finds nothing left below; and the calls in        *)
(* progress form a chain of subdirectories, of which all but the last have *)
(* been made at the destination.                                           *)
(***************************************************************************)

Files == {"c_file", "m_file", "d_file"}

\* What is not there has nothing below it.
Closed == \A m \in Node : m \notin src => Below[m] \cap src = {}

SourceInv == Closed /\ (pc \in Files => Root \notin Dir)

SInv == TInv /\ SourceInv

\* The calls in s descend from the directory r, into what is in a.
Agreed(r, s, a) ==
  /\ s # <<>> => s[1].dir = r
  /\ \A j \in 1..Len(s) : Below[s[j].dir] \subseteq a

DeleteLabels == InErase \cup {"next", "after", "done", "d_file", "d_dir", "d_ask", "d_rmdir"}

DeleteStack ==
  /\ pc \in DeleteLabels /\ (pc \notin InErase => stack = <<>>)
  /\ Agreed(Root, stack, agreed)

ConsentInv == \A n \in came \ src : Parent[n] = 0 \/ n \in agreed

GoneInv ==
  /\ pc = "after" /\ ret = "CONT" => Root \notin src
  /\ \A k \in 1..Len(Marked) : Marked[k] \notin marked => Marked[k] \notin src

Deleting == op = "DELETE" => DeleteStack /\ ConsentInv /\ GoneInv

CopyLabels == InCopy \cup {"next", "after", "done", "c_file", "m_dir", "m_rename", "m_copied",
                           "m_erase", "m_file"}

HaveDirectories == \A n \in Node : Parent[n] # 0 /\ dst[n] # "none" => dst[Parent[n]] = "dir"

CopyStack == pc \in CopyLabels /\ (pc \notin InCopy => stack = <<>>) /\ StackInv

Copying == HaveDirectories /\ DirInv /\ (op # "DELETE" => CopyStack)

CopyOnly == InCopy \cup {"next", "after", "done", "c_file"}

\* Where a copy is once the user pressed Abort.
Stopped ==
  \/ pc = "done"
  \/ pc = "after" /\ ret = "ABORT"
  \/ pc = "entry" /\ Top.st = "ABORT"

Aborting == op = "COPY" => pc \in CopyOnly /\ (aborted = 1 => Stopped)

---------------------------------------------------------------------------
(* What is there, and its directory *)

\* A subtree holds the subtrees of its nodes, and their directories.
LEMMA Subtrees ==
  /\ \A m, n \in Node : m \in Below[n] => Below[m] \subseteq Below[n]
  /\ \A m, n \in Node : m \in Below[n] /\ m # n => Parent[m] \in Below[n]
  BY TreeAssumption DEF TreeAssumption

\* What has nothing in it can be removed.
LEMMA ClosedErase ==
  ASSUME TInv, Closed, NEW n \in Node, In(n) = {}, src' = src \ {n}
  PROVE  Closed'
<1>1. /\ Below \in [Node -> SUBSET Node]
      /\ Below[n] = {n} \cup UNION {Below[m] : m \in {k \in Node : Parent[k] = n}}
  BY TreeAssumption DEF TreeAssumption
<1>2. \A k \in Node : Parent[k] = n => Below[k] \cap src = {}
  BY DEF Closed, In
<1>3. Below[n] \cap src \subseteq {n}
  BY <1>1, <1>2
<1> QED
  BY <1>3 DEF Closed

\* Nothing is in a file.
LEMMA FileEmpty ==
  ASSUME TInv, NEW n \in Node \ Dir
  PROVE  In(n) = {}
<1>1. src \subseteq Node /\ Parent \in [Node -> Dir \cup {0}] /\ n # 0
  BY NodeFacts, TreeAssumption DEF TreeAssumption, TInv, DataType
<1> QED
  BY <1>1 DEF In

\* The entry at work is one of the panel, and was there at first.
LEMMA RootNode == ASSUME TInv, i > 0 PROVE Root \in Node \ Late /\ Parent[Root] = 0
<1>1. i \in 1..Len(Marked)
  BY MarkedLen DEF TInv, DataType
<1> QED
  BY <1>1, MarkedNode DEF Root

\* A step removes one node with nothing in it, or nothing.
LEMMA Removes ==
  ASSUME TInv, Closed, NEW n \in Node, src' = src \/ (src' = src \ {n} /\ In(n) = {})
  PROVE  Closed'
<1>1. CASE src' = src
  BY <1>1 DEF Closed
<1> QED
  BY <1>1, ClosedErase

\* Only the loop goes to the copy, move or deletion of a marked file.
LEMMA FilesStep == ASSUME Step PROVE NextRoot \/ pc' \notin Files
<1> USE DEF Files
<1>1. ASSUME NEW st, CopyDirReturn(st) PROVE pc' \notin Files
  BY <1>1 DEF CopyDirReturn, EntryDone
<1>2. ASSUME NEW st, EraseReturn(st) PROVE pc' \notin Files
  BY <1>2 DEF EraseReturn
<1>3. CASE CopyStat \/ CopyDstStat \/ CopyMkdir
  BY <1>1, <1>3 DEF CopyStat, CopyDstStat, CopyMkdir, MkdirFailed
<1>4. CASE CopyOpendir \/ CopyEntry \/ CopyDirDone \/ CopyFile
  BY <1>1, <1>4 DEF CopyOpendir, CopyEntry, CopyDirDone, CopyFile, Return, EntryDone
<1>5. CASE MoveStep
  BY <1>5 DEF MoveStep, MoveDir, MoveDirRename, MoveCopied, MoveErase, MoveEraseLast, MoveFile,
     Return, DropList
<1>6. CASE EraseFile \/ EraseDir \/ EraseAsk \/ EraseRmdir
  BY <1>6 DEF EraseFile, EraseDir, EraseAsk, EraseRmdir, Return
<1>7. CASE EraseOpendir \/ EraseEntry \/ EraseEntries \/ EraseRmdirs
  BY <1>2, <1>7 DEF EraseOpendir, EraseEntry, EraseEntries, EraseRmdirs
<1>8. CASE NoMoreRoots \/ AfterRoot
  BY <1>8 DEF NoMoreRoots, AfterRoot
<1> QED
  BY <1>3, <1>4, <1>5, <1>6, <1>7, <1>8 DEF Step, CopyStep, EraseStep

\* A move takes a whole subtree, or one node with nothing in it.
LEMMA MoveClosed == ASSUME SInv, MoveStep PROVE Closed'
<1>1. TInv /\ Closed /\ src \subseteq Node
  BY DEF SInv, SourceInv, TInv, DataType
<1>2. CASE MoveDir \/ MoveCopied
  BY <1>1, <1>2 DEF MoveDir, MoveCopied, treeVars, Closed
<1>3. CASE MoveDirRename
  <2>1. src' = src \/ src' = src \ Below[Root]
    BY <1>3 DEF MoveDirRename
  <2>2. Root \in Node
    BY <1>1, <1>3, RootNode DEF MoveDirRename, TInv, ControlType
  <2> QED
    BY <1>1, <2>1, <2>2, Subtrees DEF Closed
<1>4. CASE MoveErase
  <2>1. PICK st : IF Head(erase_list) \in Dir THEN erase_dir_iff_empty(Head(erase_list), st)
                                               ELSE erase_file(Head(erase_list), st)
    BY <1>4 DEF MoveErase
  <2>2. PICK h \in Node : h = Head(erase_list)
    BY <1>1, <1>4, HeadTailProperties DEF MoveErase, TInv, ControlType
  <2>3. h \notin Dir => In(h) = {}
    BY <1>1, FileEmpty
  <2>4. src' = src \/ (src' = src \ {h} /\ In(h) = {})
    BY <2>1, <2>2, <2>3 DEF erase_dir_iff_empty, erase_file
  <2> QED
    BY <1>1, <2>4, Removes
<1>5. CASE MoveEraseLast
  <2>1. Root \in Node
    BY <1>1, <1>5, RootNode DEF MoveEraseLast, TInv, ControlType
  <2>2. src' = src \/ (src' = src \ {Root} /\ In(Root) = {})
    BY <1>5 DEF MoveEraseLast, erase_dir_iff_empty
  <2> QED
    BY <1>1, <2>1, <2>2, Removes
<1>6. CASE MoveFile
  <2>1. Root \in Node \ Dir
    BY <1>1, <1>6, RootNode DEF MoveFile, TInv, ControlType, SInv, SourceInv, Files
  <2>2. src' = src \/ src' = src \ {Root}
    BY <1>6 DEF MoveFile
  <2> QED
    BY <1>1, <2>1, <2>2, FileEmpty, Removes
<1> QED
  BY <1>2, <1>3, <1>4, <1>5, <1>6 DEF MoveStep

\* The directory of the call at work, and an entry of it.
LEMMA AtWork ==
  ASSUME TInv, pc \in InErase \cup InCopy
  PROVE  /\ stack \in Seq(FrameSet) /\ stack # <<>> /\ Top \in FrameSet
         /\ Top.dir \in Dir /\ Top.dir \in Node /\ Top.st \in Status /\ i > 0
         /\ Top = stack[Len(stack)] /\ Len(stack) \in Nat \ {0} /\ Len(stack) \in 1..Len(stack)
         /\ \A n \in Unseen : n \in Node /\ Parent[n] = Top.dir /\ n \notin Top.seen
<1>1. stack \in Seq(FrameSet) /\ stack # <<>> /\ src \subseteq Node
  BY DEF TInv, DataType, ControlType
<1>2. Top \in FrameSet /\ Len(stack) \in Nat \ {0} /\ Top = stack[Len(stack)]
  BY <1>1, Pop DEF Top
<1>3. Top.dir \in Dir /\ Top.dir \in Node /\ Top.st \in Status /\ Len(stack) \in 1..Len(stack)
  BY <1>2, NodeFacts DEF FrameSet
<1>4. i > 0
  BY DEF TInv, ControlType, InCopy, InErase
<1>5. \A n \in Unseen : n \in Node /\ Parent[n] = Top.dir /\ n \notin Top.seen
  BY <1>1 DEF Unseen, In
<1> QED
  BY <1>1, <1>2, <1>3, <1>4, <1>5

\* What a step of erase_dir or recursive_erase removes.
LEMMA EraseRemoves ==
  ASSUME SInv, EraseStep
  PROVE  /\ came' = came
         /\ \/ src' = src
            \/ EraseFile /\ src' = src \ {Root} /\ Root \in Node \ Dir
            \/ EraseRmdir /\ src' = src \ {Root} /\ In(Root) = {} /\ Root \in Node
            \/ EraseRmdirs /\ src' = src \ {Top.dir} /\ In(Top.dir) = {} /\ Top.dir \in Node
            \/ EraseEntry /\ \E n \in Unseen : n \in Node \ Dir /\ src' = src \ {n}
<1>1. TInv
  BY DEF SInv
<1>2. CASE EraseFile
  <2>1. Root \in Node \ Dir
    BY <1>1, <1>2, RootNode DEF EraseFile, TInv, ControlType, SInv, SourceInv, Files
  <2> QED
    BY <1>2, <2>1 DEF EraseFile, erase_file
<1>3. CASE EraseRmdir
  <2>1. Root \in Node
    BY <1>1, <1>3, RootNode DEF EraseRmdir, TInv, ControlType
  <2> QED
    BY <1>3, <2>1 DEF EraseRmdir
<1>4. CASE EraseRmdirs
  BY <1>1, <1>4, AtWork DEF EraseRmdirs, InErase
<1>5. CASE EraseEntry
  BY <1>1, <1>5, AtWork DEF EraseEntry, InErase, erase_file
<1>6. CASE EraseDir \/ EraseAsk \/ EraseOpendir \/ EraseEntries
  BY <1>6 DEF EraseDir, EraseAsk, EraseOpendir, EraseEntries, treeVars
<1> QED
  BY <1>2, <1>3, <1>4, <1>5, <1>6 DEF EraseStep

LEMMA EraseClosed == ASSUME SInv, EraseStep PROVE Closed'
<1>1. TInv /\ Closed
  BY DEF SInv, SourceInv
<1>2. CASE src' = src
  BY <1>1, <1>2 DEF Closed
<1>3. ASSUME NEW n \in Node, n \notin Dir \/ In(n) = {}, src' = src \ {n} PROVE Closed'
  BY <1>1, <1>3, FileEmpty, ClosedErase
<1> QED
  BY <1>2, <1>3, EraseRemoves

\* Copying, and the loop, remove nothing.
LEMMA KeepsSource ==
  ASSUME CopyStep \/ NextRoot \/ NoMoreRoots \/ AfterRoot
  PROVE  src' = src /\ came' = came
<1>1. CASE CopyStep
  BY <1>1 DEF CopyStep, CopyStat, CopyDstStat, CopyMkdir, CopyOpendir, CopyEntry, CopyDirDone,
     CopyFile, treeVars
<1>2. CASE NextRoot \/ NoMoreRoots \/ AfterRoot
  BY <1>2 DEF NextRoot, NoMoreRoots, AfterRoot, treeVars
<1> QED
  BY <1>1, <1>2

\* Files are added only to directories that are there.
LEMMA NextSource == ASSUME SInv, [Next]_vars PROVE SInv'
<1>1. TInv /\ Closed /\ SourceInv /\ TInv'
  BY NextType DEF SInv, SourceInv
<1>2. ASSUME CopyStep \/ NextRoot \/ NoMoreRoots \/ AfterRoot PROVE Closed'
  <2>1. src' = src
    BY <1>2, KeepsSource
  <2> QED
    BY <1>1, <2>1 DEF Closed
<1>3. ASSUME NextRoot PROVE (pc \in Files => Root \notin Dir)'
  <2> DEFINE r == Marked[i + 1]
  <2>1. pc' = IF r \in Dir THEN First[op].dir ELSE First[op].file
    BY <1>3 DEF NextRoot
  <2>2. Root' = r /\ op \in {"COPY", "MOVE", "DELETE"}
    BY <1>1, <1>3, TreeAssumption DEF NextRoot, NextIndex, Root, TInv, DataType, TreeAssumption
  <2>3. First[op].dir \notin Files
    BY <2>2 DEF First, Files
  <2> QED
    BY <2>1, <2>2, <2>3
<1>4. CASE Step
  <2>1. Closed'
    BY <1>1, <1>2, <1>4, MoveClosed, EraseClosed DEF Step, SInv
  <2>2. (pc \in Files => Root \notin Dir)'
    BY <1>3, <1>4, FilesStep
  <2> QED
    BY <1>1, <2>1, <2>2 DEF SInv, SourceInv
<1>5. ASSUME NEW n \in Late, Appear(n) PROVE SInv'
  <2>1. n \in Node /\ Parent[n] \in src /\ src' = src \cup {n} /\ Parent[n] \in Node /\ pc' = pc /\ Root' = Root
    BY <1>1, <1>5, TreeAssumption DEF Appear, TreeAssumption, TInv, DataType, opVars, Root
  <2>2. Closed'
    <3> SUFFICES ASSUME NEW m \in Node, m \notin src' PROVE Below[m] \cap src' = {}
      BY DEF Closed
    <3>1. m # n /\ Below[m] \cap src = {}
      BY <1>1, <2>1 DEF Closed
    <3>2. n \notin Below[m]
      BY <2>1, <3>1, Subtrees
    <3> QED
      BY <2>1, <3>1, <3>2
  <2> QED
    BY <1>1, <2>1, <2>2 DEF SInv, SourceInv
<1>6. CASE UNCHANGED vars
  BY <1>1, <1>6 DEF SInv, SourceInv, Closed, vars, treeVars, opVars, Root
<1> QED
  BY <1>4, <1>5, <1>6 DEF Next, Done

LEMMA InitSource == ASSUME Init PROVE SInv
<1>1. src = Node \ Late /\ pc = "next"
  BY DEF Init
<1>2. ASSUME NEW m \in Late PROVE Below[m] = {m}
  <2>1. /\ m \in Node \ Dir /\ Parent \in [Node -> Dir \cup {0}] /\ m # 0
        /\ Below[m] = {m} \cup UNION {Below[q] : q \in {k \in Node : Parent[k] = m}}
    BY TreeAssumption, NodeFacts DEF TreeAssumption
  <2>2. {k \in Node : Parent[k] = m} = {}
    BY <2>1
  <2> QED
    BY <2>1, <2>2
<1>3. SourceInv
  BY <1>1, <1>2 DEF SourceInv, Closed, Files
<1> QED
  BY <1>3, InitType DEF SInv

---------------------------------------------------------------------------
(* erase_dir and recursive_erase *)

\* recursive_erase returns st to its caller, or to the loop.
LEMMA AgreedPop ==
  ASSUME TInv, pc \in InErase, Agreed(Root, stack, agreed), NEW st, EraseReturn(st)
  PROVE  \/ pc' = "d_entry" /\ Agreed(Root, stack', agreed)
         \/ pc' = "after" /\ ret' = st /\ stack' = <<>> /\ Top.dir = Root
<1>1. stack \in Seq(FrameSet) /\ stack # <<>> /\ Top = stack[Len(stack)]
  BY AtWork
<1>2. /\ Rest \in Seq(FrameSet) /\ Len(stack) \in Nat \ {0} /\ Len(Rest) = Len(stack) - 1
      /\ \A j \in 1..Len(Rest) : Rest[j] = stack[j] /\ Rest[j] \in FrameSet
      /\ Rest # <<>> <=> Len(stack) > 1
  BY <1>1, Pop
<1>3. stack[1].dir = Root /\ \A j \in 1..Len(stack) : Below[stack[j].dir] \subseteq agreed
  BY <1>1 DEF Agreed
<1>4. CASE Rest = <<>>
  <2>1. pc' = "after" /\ ret' = st /\ stack' = <<>>
    BY <1>4 DEF EraseReturn
  <2>2. Len(stack) = 1
    BY <1>2, <1>4
  <2> QED
    BY <1>1, <1>3, <2>1, <2>2
<1>5. CASE Rest # <<>>
  <2> DEFINE r == Rest
             l == Len(r)
             f == r[l]
             g == Frame(f.dir, f.seen \cup {Top.dir}, IF st = "CONT" THEN "CONT" ELSE "RETRY")
  <2>1. pc' = "d_entry" /\ stack' = [r EXCEPT ![l] = g]
    BY <1>5 DEF EraseReturn
  <2>2. r \in Seq(FrameSet) /\ l \in Nat \ {0} /\ Len(stack) = l + 1
    BY <1>2, <1>5
  <2>3. l \in 1..l /\ 1 \in 1..l /\ \A j \in 1..l : j \in 1..Len(stack) /\ r[j] = stack[j]
    BY <1>2, <2>2
  <2>4. f \in FrameSet /\ Top.dir \in Node
    BY <1>2, <2>3, AtWork
  <2>5. g \in FrameSet
    BY <2>4, StatusFacts DEF FrameSet, Frame
  <2>6. g.dir = f.dir
    BY DEF Frame
  <2>7. r # <<>>
    BY <1>5
  <2> HIDE DEF g, r
  <2>8. Len(stack') = l /\ stack'[l] = g /\ \A j \in 1..l : j # l => stack'[j] = r[j]
    BY <2>1, <2>2, <2>5, <2>7, Put
  <2>9. \A j \in 1..l : stack'[j].dir = stack[j].dir
    BY <2>3, <2>6, <2>8
  <2>10. Agreed(Root, stack', agreed)
    BY <1>3, <2>3, <2>8, <2>9 DEF Agreed
  <2> QED
    BY <2>1, <2>10
<1> QED
  BY <1>4, <1>5

\* recursive_erase is called for a directory that may be lost.
LEMMA AgreedPush ==
  ASSUME stack \in Seq(FrameSet), NEW r, NEW a, Agreed(r, stack, a), NEW d \in Dir, Call(d),
         Below[d] \subseteq a, stack = <<>> => d = r
  PROVE  Agreed(r, stack', a)
<1> DEFINE l == Len(stack)
<1>1. /\ Len(stack') = l + 1 /\ l \in Nat /\ \A j \in 1..l : stack'[j] = stack[j]
      /\ stack'[l + 1] = Frame(d, {}, "CONT")
  BY Push
<1>2. stack'[l + 1].dir = d
  BY <1>1 DEF Frame
<1>3. stack # <<>> => stack[1].dir = r /\ l > 0
  <2>1. stack # <<>> => l \in Nat \ {0}
    BY EmptySeq
  <2> QED
    BY <2>1 DEF Agreed
<1>4. stack = <<>> => l = 0
  BY EmptySeq
<1>5. \A j \in 1..l : Below[stack[j].dir] \subseteq a
  BY DEF Agreed
<1> HIDE DEF l
<1>6. stack'[1].dir = r
  BY <1>1, <1>2, <1>3, <1>4
<1>7. \A j \in 1..(l + 1) : Below[stack'[j].dir] \subseteq a
  BY <1>1, <1>2, <1>5
<1> QED
  BY <1>1, <1>6, <1>7 DEF Agreed

\* The frame of the call at work is replaced.
LEMMA AgreedPut ==
  ASSUME stack \in Seq(FrameSet), stack # <<>>, NEW r, NEW a, Agreed(r, stack, a),
         NEW f \in FrameSet, f.dir = Top.dir, stack' = Append(Rest, f)
  PROVE  Agreed(r, stack', a)
<1> DEFINE l == Len(stack)
<1>1. /\ Len(stack') = l /\ stack'[l] = f /\ \A j \in 1..l : j # l => stack'[j] = stack[j]
  BY Restate
<1>2. l \in Nat \ {0} /\ Top = stack[l]
  BY Pop DEF Top
<1>3. stack[1].dir = r /\ \A j \in 1..l : Below[stack[j].dir] \subseteq a
  BY DEF Agreed
<1> HIDE DEF l
<1>4. 1 \in 1..l /\ \A j \in 1..l : stack'[j].dir = stack[j].dir
  BY <1>1, <1>2
<1> QED
  BY <1>1, <1>3, <1>4 DEF Agreed

\* Agreement holds of the directory at work, of what is below it too.
LEMMA AgreedTop ==
  ASSUME TInv, pc \in InErase, Agreed(Root, stack, agreed)
  PROVE  Top.dir \in agreed /\ \A n \in Unseen : n \in agreed /\ Below[n] \subseteq agreed
<1>1. /\ Top.dir \in Node /\ Top = stack[Len(stack)] /\ Len(stack) \in 1..Len(stack)
      /\ \A n \in Unseen : n \in Node /\ Parent[n] = Top.dir
  BY AtWork
<1>2. Below[Top.dir] \subseteq agreed
  BY <1>1 DEF Agreed
<1>3. \A n \in Unseen : Below[n] \subseteq Below[Top.dir] /\ n \in Below[n]
  BY <1>1, Tree
<1> QED
  BY <1>1, <1>2, <1>3, Tree

\* The calls in progress, after a step of a deletion.
LEMMA EraseStack ==
  ASSUME SInv, TInv', DeleteStack, EraseStep
  PROVE  DeleteStack'
<1>1. /\ TInv /\ Agreed(Root, stack, agreed) /\ stack \in Seq(FrameSet)
      /\ pc \notin InErase => stack = <<>>
  BY DEF SInv, DeleteStack, TInv, ControlType
<1>2. ASSUME Root' = Root, agreed' = agreed, Agreed(Root, stack', agreed), pc' \in InErase
      PROVE  DeleteStack'
  BY <1>2 DEF DeleteStack, DeleteLabels
<1>3. ASSUME stack' = <<>>, pc' \in DeleteLabels PROVE DeleteStack'
  <2>1. \A e : e = <<>> => 1..Len(e) = {}
    <3> SUFFICES ASSUME NEW e, e = <<>> PROVE 1..Len(e) = {}
      OBVIOUS
    <3>1. Len(e) = 0
      BY EmptySeq
    <3> QED
      BY <3>1
  <2>2. \A r, a : Agreed(r, stack', a)
    BY <1>3, <2>1 DEF Agreed
  <2> QED
    BY <1>3, <2>2 DEF DeleteStack
<1>4. ASSUME pc \in InErase, NEW st, EraseReturn(st), Root' = Root, agreed' = agreed PROVE DeleteStack'
  <2>1. \/ pc' = "d_entry" /\ Agreed(Root, stack', agreed)
        \/ pc' = "after" /\ stack' = <<>>
    BY <1>1, <1>4, AgreedPop
  <2> QED
    BY <1>2, <1>3, <1>4, <2>1 DEF DeleteLabels, InErase
<1>5. CASE EraseFile \/ EraseDir \/ EraseRmdir
  <2>1. stack' = stack /\ pc \notin InErase /\ pc' \in DeleteLabels
    BY <1>5 DEF EraseFile, EraseDir, EraseRmdir, Return, InErase, DeleteLabels
  <2> QED
    BY <1>1, <1>3, <2>1
<1>6. CASE EraseAsk
  <2>1. pc \notin InErase /\ stack = <<>> /\ Root' = Root /\ Root \in Dir
    BY <1>1, <1>6 DEF EraseAsk, InErase, Root, TInv, ControlType, ForDir
  <2>2. CASE Call(Root) /\ Goto("d_opendir") /\ agreed' = agreed \cup Below[Root]
    <3> DEFINE a == agreed \cup Below[Root]
    <3>1. Agreed(Root, stack, a)
      BY <1>1 DEF Agreed
    <3>2. Agreed(Root, stack', a)
      <4>1. Below[Root] \subseteq a
        OBVIOUS
      <4> HIDE DEF a
      <4> QED
        BY <1>1, <2>1, <2>2, <3>1, <4>1, AgreedPush
    <3> QED
      BY <2>1, <2>2, <3>2 DEF DeleteStack, DeleteLabels, InErase
  <2>3. CASE stack' = stack /\ pc' = "after"
    BY <1>3, <2>1, <2>3 DEF DeleteLabels
  <2> QED
    BY <1>6, <2>2, <2>3 DEF EraseAsk, Return, Consent
<1>7. ASSUME EraseOpendir \/ EraseEntry \/ EraseEntries \/ EraseRmdirs
      PROVE  /\ pc \in InErase /\ Root' = Root /\ agreed' = agreed /\ stack # <<>>
             /\ Top \in FrameSet /\ Top.dir \in Node
  <2>1. pc \in InErase /\ Root' = Root /\ agreed' = agreed
    BY <1>7 DEF EraseOpendir, EraseEntry, EraseEntries, EraseRmdirs, InErase, opVars, Root
  <2> QED
    BY <1>1, <2>1, AtWork
<1>8. CASE EraseOpendir
  <2>1. CASE Goto("d_entry") /\ UNCHANGED stack
    BY <1>1, <1>2, <1>7, <1>8, <2>1 DEF InErase
  <2> QED
    BY <1>4, <1>7, <1>8, <2>1 DEF EraseOpendir
<1>9. CASE EraseEntries
  <2>1. CASE Goto("d_rmdirs") /\ UNCHANGED stack
    BY <1>1, <1>2, <1>7, <1>9, <2>1 DEF InErase
  <2> QED
    BY <1>4, <1>7, <1>9, <2>1 DEF EraseEntries
<1>10. CASE EraseRmdirs
  BY <1>4, <1>7, <1>10 DEF EraseRmdirs
<1>11. CASE EraseEntry
  <2>1. PICK n \in Unseen :
       \/ EraseReturn("RETRY")
       \/ n \in Dir /\ Call(n) /\ Goto("d_opendir")
       \/ /\ n \notin Dir /\ UNCHANGED pc
          /\ \E st \in Status : stack' = Append(Rest, Frame(Top.dir, Top.seen \cup {n}, st))
    BY <1>11 DEF EraseEntry
  <2>2. n \in Node /\ Below[n] \subseteq agreed
    BY <1>1, <1>7, <1>11, AgreedTop, AtWork
  <2>3. CASE n \in Dir /\ Call(n) /\ Goto("d_opendir")
    <3>1. Agreed(Root, stack', agreed)
      BY <1>1, <1>7, <1>11, <2>2, <2>3, AgreedPush
    <3> QED
      BY <1>2, <1>7, <1>11, <2>3, <3>1 DEF InErase
  <2>4. CASE \E st \in Status : stack' = Append(Rest, Frame(Top.dir, Top.seen \cup {n}, st)) /\ UNCHANGED pc
    <3>1. PICK st \in Status : stack' = Append(Rest, Frame(Top.dir, Top.seen \cup {n}, st))
      BY <2>4
    <3> DEFINE f == Frame(Top.dir, Top.seen \cup {n}, st)
    <3>2. f \in FrameSet /\ f.dir = Top.dir
      BY <1>7, <1>11, <2>2 DEF Frame, FrameSet
    <3>3. stack' = Append(Rest, f)
      BY <3>1
    <3> HIDE DEF f
    <3>4. Agreed(Root, stack', agreed)
      BY <1>1, <1>7, <1>11, <3>2, <3>3, AgreedPut
    <3> QED
      BY <1>2, <1>7, <1>11, <2>4, <3>4
  <2> QED
    BY <1>4, <1>7, <1>11, <2>1, <2>3, <2>4
<1> QED
  BY <1>5, <1>6, <1>8, <1>9, <1>10, <1>11 DEF EraseStep

\* What a step of a deletion removes was an entry of the panel, or below a
\* directory the user agreed to lose.
LEMMA EraseConsent ==
  ASSUME SInv, DeleteStack, ConsentInv, EraseStep
  PROVE  ConsentInv'
<1>1. TInv /\ Agreed(Root, stack, agreed) /\ came' = came
  BY EraseRemoves DEF SInv, DeleteStack
<1>2. agreed \subseteq agreed'
  BY DEF EraseStep, EraseFile, EraseDir, EraseAsk, EraseRmdir, EraseOpendir, EraseEntry,
     EraseEntries, EraseRmdirs, opVars
<1>3. ASSUME NEW m, src' = src \ {m}, Parent[m] = 0 \/ m \in agreed PROVE ConsentInv'
  BY <1>1, <1>2, <1>3 DEF ConsentInv
<1>4. CASE src' = src
  BY <1>1, <1>2, <1>4 DEF ConsentInv
<1>5. CASE (EraseFile \/ EraseRmdir) /\ src' = src \ {Root}
  <2>1. Parent[Root] = 0
    BY <1>1, <1>5, RootNode DEF EraseFile, EraseRmdir, TInv, ControlType
  <2> QED
    BY <1>3, <1>5, <2>1
<1>6. CASE EraseRmdirs /\ src' = src \ {Top.dir}
  <2>1. Top.dir \in agreed
    BY <1>1, <1>6, AgreedTop DEF EraseRmdirs, InErase
  <2> QED
    BY <1>3, <1>6, <2>1
<1>7. CASE EraseEntry /\ \E n \in Unseen : src' = src \ {n}
  <2>1. \A n \in Unseen : n \in agreed
    BY <1>1, <1>7, AgreedTop DEF EraseEntry, InErase
  <2> QED
    BY <1>3, <1>7, <2>1
<1> QED
  BY <1>4, <1>5, <1>6, <1>7, EraseRemoves

\* A deletion that ends with FILE_CONT has removed its entry.
LEMMA EraseGone ==
  ASSUME SInv, DeleteStack, GoneInv, EraseStep
  PROVE  GoneInv'
<1>1. TInv /\ Agreed(Root, stack, agreed) /\ src' \subseteq src
  BY EraseRemoves DEF SInv, DeleteStack
<1>2. marked' = marked /\ i' = i /\ Root' = Root
  BY DEF EraseStep, EraseFile, EraseDir, EraseAsk, EraseRmdir, EraseOpendir, EraseEntry,
     EraseEntries, EraseRmdirs, opVars, Root
<1>3. \A k \in 1..Len(Marked) : Marked[k] \notin marked' => Marked[k] \notin src'
  BY <1>1, <1>2 DEF GoneInv
<1>4. ASSUME NEW st, pc \in InErase, EraseReturn(st), st = "CONT" => src' = src \ {Top.dir}
      PROVE  (pc = "after" /\ ret = "CONT" => Root \notin src)'
  <2>1. \/ pc' = "d_entry"
        \/ pc' = "after" /\ ret' = st /\ Top.dir = Root
    BY <1>1, <1>4, AgreedPop
  <2> QED
    BY <1>2, <1>4, <2>1
<1>5. CASE EraseFile
  BY <1>2, <1>3, <1>5 DEF EraseFile, erase_file, Return, GoneInv
<1>6. CASE EraseDir \/ EraseAsk
  BY <1>3, <1>6 DEF EraseDir, EraseAsk, Return, GoneInv
<1>7. CASE EraseRmdir
  BY <1>2, <1>3, <1>7 DEF EraseRmdir, Return, GoneInv
<1>8. CASE EraseOpendir
  <2>1. pc \in InErase /\ (pc' = "d_entry" \/ EraseReturn("RETRY"))
    BY <1>8 DEF EraseOpendir, InErase
  <2>2. (pc = "after" /\ ret = "CONT" => Root \notin src)'
    BY <1>4, <2>1
  <2> QED
    BY <1>3, <2>2 DEF GoneInv
<1>9. CASE EraseEntry
  <2>1. pc \in InErase /\ (pc' \in {"d_entry", "d_opendir"} \/ EraseReturn("RETRY"))
    BY <1>9 DEF EraseEntry, InErase
  <2>2. (pc = "after" /\ ret = "CONT" => Root \notin src)'
    BY <1>4, <2>1
  <2> QED
    BY <1>3, <2>2 DEF GoneInv
<1>10. CASE EraseEntries
  <2>1. pc \in InErase /\ (pc' = "d_rmdirs" \/ (Top.st # "CONT" /\ EraseReturn(Top.st)))
    BY <1>10 DEF EraseEntries, InErase
  <2>2. (pc = "after" /\ ret = "CONT" => Root \notin src)'
    BY <1>4, <2>1
  <2> QED
    BY <1>3, <2>2 DEF GoneInv
<1>11. CASE EraseRmdirs
  <2>1. /\ pc \in InErase
        /\ \E st \in Status : EraseReturn(st) /\ (st = "CONT" => src' = src \ {Top.dir})
    BY <1>11, StatusFacts DEF EraseRmdirs, InErase
  <2>2. (pc = "after" /\ ret = "CONT" => Root \notin src)'
    BY <1>4, <2>1
  <2> QED
    BY <1>3, <2>2 DEF GoneInv
<1> QED
  BY <1>5, <1>6, <1>7, <1>8, <1>9, <1>10, <1>11 DEF EraseStep

LEMMA AgreedEmpty == \A r, s, a : s = <<>> => Agreed(r, s, a)
<1> SUFFICES ASSUME NEW r, NEW s, NEW a, s = <<>> PROVE Agreed(r, s, a)
  OBVIOUS
<1>1. Len(s) = 0
  BY EmptySeq
<1> QED
  BY <1>1 DEF Agreed

\* The loop untags what a deletion ended with FILE_CONT for.
LEMMA LoopDelete ==
  ASSUME SInv, op = "DELETE", Deleting, NextRoot \/ NoMoreRoots \/ AfterRoot
  PROVE  Deleting'
<1>1. /\ DeleteStack /\ ConsentInv /\ GoneInv /\ pc \in {"next", "after"} /\ stack = <<>>
      /\ src' = src /\ came' = came /\ agreed' = agreed
  BY KeepsSource DEF Deleting, DeleteStack, NextRoot, NoMoreRoots, AfterRoot, InErase, opVars
<1>2. stack' = <<>> /\ pc' \in DeleteLabels \ {"after"}
  <2>1. CASE NextRoot
    BY <1>1, <2>1 DEF NextRoot, First, DeleteLabels
  <2>2. CASE NoMoreRoots \/ AfterRoot
    BY <1>1, <2>2 DEF NoMoreRoots, AfterRoot, DeleteLabels
  <2> QED
    BY <2>1, <2>2
<1>3. DeleteStack' /\ ConsentInv'
  BY <1>1, <1>2, AgreedEmpty DEF DeleteStack, ConsentInv
<1>4. marked' = marked \/ (marked' = marked \ {Root} /\ Root \notin src)
  BY <1>1 DEF NextRoot, NoMoreRoots, AfterRoot, Untags, opVars, GoneInv
<1>5. GoneInv'
  BY <1>1, <1>2, <1>4 DEF GoneInv
<1> QED
  BY <1>3, <1>5 DEF Deleting

\* What other programs add was never marked, and is not missed.
LEMMA AppearDelete ==
  ASSUME SInv, op = "DELETE", Deleting, NEW n \in Late, Appear(n)
  PROVE  Deleting'
<1>1. /\ DeleteStack /\ ConsentInv /\ GoneInv /\ src' = src \cup {n} /\ came' = came \cup {n}
      /\ UNCHANGED <<agreed, marked, i, stack, pc, ret>> /\ Root' = Root
  BY DEF Deleting, Appear, opVars, Root
<1>2. DeleteStack' /\ ConsentInv'
  BY <1>1 DEF DeleteStack, ConsentInv
<1>3. \A k \in 1..Len(Marked) : Marked[k] # n
  BY MarkedNode
<1>4. pc = "after" => Root # n
  BY RootNode DEF SInv, TInv, ControlType
<1> QED
  BY <1>1, <1>2, <1>3, <1>4 DEF Deleting, GoneInv

\* A deletion takes no step of a copy or a move.
LEMMA DeleteSteps ==
  ASSUME op = "DELETE", Deleting, Step
  PROVE  EraseStep \/ NextRoot \/ NoMoreRoots \/ AfterRoot
<1>1. pc \in DeleteLabels
  BY DEF Deleting, DeleteStack
<1>2. ~ CopyStep
  BY <1>1 DEF DeleteLabels, InErase, CopyStep, CopyStat, CopyDstStat, CopyMkdir, CopyOpendir,
     CopyEntry, CopyDirDone, CopyFile
<1>3. ~ MoveStep
  BY <1>1 DEF DeleteLabels, InErase, MoveStep, MoveDir, MoveDirRename, MoveCopied, MoveErase,
     MoveEraseLast, MoveFile
<1> QED
  BY <1>2, <1>3 DEF Step

LEMMA NextDelete == ASSUME SInv, Deleting, [Next]_vars PROVE Deleting'
<1>1. SInv' /\ TInv' /\ op' = op
  BY NextSource, SameOp DEF SInv
<1>2. CASE op # "DELETE"
  BY <1>1, <1>2 DEF Deleting
<1>3. CASE op = "DELETE"
  <2>1. DeleteStack /\ ConsentInv /\ GoneInv
    BY <1>3 DEF Deleting
  <2>2. CASE EraseStep
    BY <1>1, <2>1, <2>2, EraseStack, EraseConsent, EraseGone DEF Deleting
  <2>3. CASE NextRoot \/ NoMoreRoots \/ AfterRoot
    BY <1>3, <2>3, LoopDelete
  <2>4. CASE \E n \in Late : Appear(n)
    BY <1>3, <2>4, AppearDelete
  <2>5. CASE UNCHANGED vars
    BY <2>5 DEF vars, treeVars, opVars, Deleting, DeleteStack, ConsentInv, GoneInv, Root
  <2> QED
    BY <1>3, <2>2, <2>3, <2>4, <2>5, DeleteSteps DEF Next, Done
<1> QED
  BY <1>2, <1>3

LEMMA InitDelete == ASSUME Init PROVE Deleting
<1>1. /\ src = came /\ stack = <<>> /\ pc = "next" /\ \A k \in 1..Len(Marked) : Marked[k] \in marked
  BY DEF Init
<1> QED
  BY <1>1, AgreedEmpty DEF Deleting, DeleteStack, DeleteLabels, ConsentInv, GoneInv

\* A directory with something in it is deleted only with the user's consent,
\* for every tree and however files are added while it is deleted.
THEOREM TreeDeletesWithConsent == Spec => []DeletedWithConsent
<1>1. Init => SInv /\ Deleting
  BY InitSource, InitDelete
<1>2. SInv /\ Deleting /\ [Next]_vars => SInv' /\ Deleting'
  BY NextSource, NextDelete
<1>3. Deleting => DeletedWithConsent
  BY DEF Deleting, ConsentInv, DeletedWithConsent
<1> QED
  BY <1>1, <1>2, <1>3, PTL DEF Spec

\* An entry of a deletion that lost its mark is gone with everything in it,
\* for every tree.
THEOREM TreeUntaggedIsGone == Spec => []UntaggedIsGone
<1>1. Init => SInv /\ Deleting
  BY InitSource, InitDelete
<1>2. SInv /\ Deleting /\ [Next]_vars => SInv' /\ Deleting'
  BY NextSource, NextDelete
<1>3. SInv /\ Deleting => UntaggedIsGone
  <2> SUFFICES ASSUME SInv, Deleting, op = "DELETE", NEW k \in 1..Len(Marked),
                      Marked[k] \notin marked
               PROVE  Below[Marked[k]] \cap src = {}
    BY DEF UntaggedIsGone
  <2>1. Marked[k] \in Node /\ Marked[k] \notin src
    BY MarkedNode DEF Deleting, GoneInv
  <2> QED
    BY <2>1 DEF SInv, SourceInv, Closed
<1> QED
  BY <1>1, <1>2, <1>3, PTL DEF Spec

---------------------------------------------------------------------------
(* copy_dir_dir: every copy has its directory *)

\* One node changes at the destination, or none.
LEMMA DirsKept ==
  ASSUME TInv, HaveDirectories, DirInv, NEW n \in Node, \A x \in Node : x # n => dst'[x] = dst[x],
         n \in Dir => dst'[n] \in {dst[n], "dir"},
         Parent[n] # 0 => dst'[n] = dst[n] \/ dst[Parent[n]] = "dir"
  PROVE  HaveDirectories' /\ DirInv'
<1>1. Parent \in [Node -> Dir \cup {0}] /\ Dir \subseteq Node
  BY TreeAssumption DEF TreeAssumption
<1>2. \A d \in Dir : dst[d] = "dir" => dst'[d] = "dir"
  BY <1>1
<1>3. \A m \in Node : Parent[m] # 0 /\ dst'[m] # "none" => dst[Parent[m]] = "dir"
  BY DEF HaveDirectories
<1>4. HaveDirectories'
  BY <1>1, <1>2, <1>3 DEF HaveDirectories
<1>5. DirInv'
  BY <1>1 DEF DirInv
<1> QED
  BY <1>4, <1>5

\* Nothing changes at the destination.
LEMMA DstSame == ASSUME HaveDirectories, DirInv, dst' = dst PROVE HaveDirectories' /\ DirInv'
  BY DEF HaveDirectories, DirInv

\* A file is copied where its directory is.
LEMMA FileCopied ==
  ASSUME TInv, HaveDirectories, DirInv, NEW n \in Node \ Dir, Parent[n] = 0 \/ dst[Parent[n]] = "dir",
         \A x \in Node : x # n => dst'[x] = dst[x]
  PROVE  HaveDirectories' /\ DirInv'
  BY DirsKept

\* No copy_dir_dir is active.
LEMMA CopyEmpty ==
  ASSUME stack' = <<>>, pc' \in CopyLabels \ InCopy
  PROVE  CopyStack'
<1>1. Len(stack') = 0
  BY EmptySeq
<1>2. Chain(Root', stack')
  BY ChainEmpty
<1> QED
  BY <1>1, <1>2 DEF CopyStack, StackInv

\* copy_dir_dir is called for an entry of the panel.
LEMMA CopyCalled ==
  ASSUME TInv, stack = <<>>, NEW r \in Dir, Call(r), pc' = "stat", Root' = r
  PROVE  CopyStack'
<1>1. stack \in Seq(FrameSet) /\ Len(stack) = 0
  BY EmptySeq DEF TInv, ControlType
<1>2. Len(stack') = 1 /\ stack'[1] = Frame(r, {}, "CONT")
  BY <1>1, Push
<1>3. stack'[1].dir = r /\ stack'[1].seen = {}
  BY <1>2 DEF Frame
<1>4. \A j \in 1..Len(stack') : j = 1
  BY <1>2
<1>5. Chain(Root', stack')
  BY <1>2, <1>3, <1>4 DEF Chain
<1> QED
  BY <1>2, <1>4, <1>5 DEF CopyStack, StackInv, CopyLabels, InCopy

\* The entry n of the last of the calls f is done.
LEMMA CopiedEntry ==
  ASSUME TInv, pc \in InCopy, UNCHANGED opVars,
         NEW f \in Seq(FrameSet), f # <<>>, Chain(Root, f),
         NEW n \in Node, Parent[n] = f[Len(f)].dir, NEW st \in Status, EntryDone(f, n, st),
         \A j \in 1..Len(f) : dst'[f[j].dir] = "dir"
  PROVE  CopyStack'
<1> DEFINE l == Len(f)
           g == Frame(f[l].dir, f[l].seen \cup {n}, st)
<1>1. Root' = Root /\ erase_list \in Seq(Node)
  BY DEF opVars, Root, TInv, ControlType
<1>2. /\ stack' \in Seq(FrameSet) /\ stack' # <<>> /\ Len(stack') = l /\ l \in Nat \ {0}
      /\ \A j \in 1..l : j # l => stack'[j] = f[j]
      /\ stack'[l] = g /\ pc' = "entry"
  BY <1>1, EntryDoneFacts
<1>3. l \in 1..l
  BY <1>2
<1>4. \A m \in f[l].seen : Parent[m] = f[l].dir
  BY <1>3 DEF Chain
<1>5. g.dir = f[l].dir /\ g.seen = f[l].seen \cup {n}
  BY DEF Frame
<1>6. \A m \in g.seen : Parent[m] = g.dir
  BY <1>4, <1>5
<1> HIDE DEF g
<1>7. Chain(Root, stack') /\ \A j \in 1..l : stack'[j].dir = f[j].dir
  BY <1>2, <1>5, <1>6, ChainPut
<1> QED
  BY <1>1, <1>2, <1>7 DEF CopyStack, StackInv, CopyLabels, InCopy

\* copy_dir_dir returns.
LEMMA CopyReturned ==
  ASSUME TInv, pc \in InCopy, CopyStack, NEW st \in Status, CopyDirReturn(st), UNCHANGED opVars,
         \A x \in Dir : dst[x] = "dir" => dst'[x] = "dir"
  PROVE  CopyStack'
<1>1. /\ stack \in Seq(FrameSet) /\ stack # <<>> /\ Chain(Root, stack) /\ StackInv
      /\ Top.dir \in Dir /\ Top.dir \in Node /\ Top = stack[Len(stack)]
  BY AtWork DEF CopyStack, StackInv
<1>2. /\ Rest \in Seq(FrameSet) /\ Len(stack) \in Nat \ {0} /\ Len(Rest) = Len(stack) - 1
      /\ \A j \in 1..Len(Rest) : Rest[j] = stack[j] /\ Rest[j] \in FrameSet
  BY <1>1, Pop
<1>3. CASE Rest = <<>>
  BY <1>3, CopyEmpty DEF CopyDirReturn, CopyLabels, InCopy
<1>4. CASE Rest # <<>>
  <2> DEFINE f == Rest
  <2>1. f # <<>> /\ EntryDone(f, Top.dir, st)
    BY <1>4 DEF CopyDirReturn
  <2>2. /\ f \in Seq(FrameSet) /\ Len(stack) = Len(f) + 1
        /\ \A j \in 1..Len(f) : f[j] = stack[j] /\ f[j] \in FrameSet /\ j \in 1..Len(stack) /\ j < Len(stack)
    BY <1>2
  <2> HIDE DEF f
  <2>3. Chain(Root, f) /\ Parent[Top.dir] = f[Len(f)].dir
    BY <1>1, <2>1, <2>2, ChainPop
  <2>4. \A j \in 1..Len(f) : f[j].dir \in Dir /\ dst[f[j].dir] = "dir"
    BY <1>1, <2>2 DEF StackInv, FrameSet
  <2>5. PICK n \in Node : n = Top.dir
    BY <1>1
  <2>6. EntryDone(f, n, st) /\ Parent[n] = f[Len(f)].dir
    BY <2>1, <2>3, <2>5
  <2>7. \A j \in 1..Len(f) : dst'[f[j].dir] = "dir"
    BY <2>4
  <2> QED
    BY <2>1, <2>2, <2>3, <2>6, <2>7, CopiedEntry
<1> QED
  BY <1>3, <1>4

\* A step of the call at work that stays in it.
LEMMA CopyGoes ==
  ASSUME TInv, TInv', pc \in InCopy, CopyStack, pc' \in InCopy, UNCHANGED opVars,
         stack' = stack \/ SetStatus("RETRY"),
         \A x \in Dir : dst[x] = "dir" => dst'[x] = "dir",
         pc' \in {"opendir", "entry"} => dst'[Top.dir] = "dir"
  PROVE  CopyStack'
<1>1. /\ stack \in Seq(FrameSet) /\ stack' \in Seq(FrameSet) /\ stack # <<>> /\ Root' = Root
      /\ Chain(Root, stack) /\ StackInv /\ Top \in FrameSet /\ Top = stack[Len(stack)]
      /\ Len(stack) \in Nat \ {0} /\ \A j \in 1..Len(stack) : stack[j] \in FrameSet
  BY AtWork, ElementOfSeq DEF CopyStack, StackInv, TInv, ControlType, opVars, Root
<1>2. /\ Chain(Root, stack') /\ Len(stack') = Len(stack)
      /\ \A j \in 1..Len(stack) : stack'[j].dir = stack[j].dir
  <2>1. CASE stack' = stack
    BY <1>1, <2>1
  <2>2. CASE SetStatus("RETRY")
    <3> DEFINE g == Frame(Top.dir, Top.seen, "RETRY")
    <3>1. g \in FrameSet
      BY <1>1, StatusFacts DEF FrameSet, Frame
    <3>2. g.dir = stack[Len(stack)].dir /\ g.seen = stack[Len(stack)].seen
      BY <1>1 DEF Frame
    <3>3. stack' = Append(Rest, g)
      BY <2>2 DEF SetStatus
    <3>4. \A m \in g.seen : Parent[m] = g.dir
      BY <1>1, <3>2 DEF Chain
    <3> HIDE DEF g
    <3>5. /\ Len(stack') = Len(stack) /\ stack'[Len(stack)] = g
          /\ \A j \in 1..Len(stack) : j # Len(stack) => stack'[j] = stack[j]
      BY <1>1, <3>1, <3>3, Restate
    <3> QED
      BY <1>1, <3>2, <3>4, <3>5, ChainPut
  <2> QED
    BY <2>1, <2>2
<1>3. ASSUME NEW j \in 1..Len(stack), j < Len(stack) \/ pc' \in {"opendir", "entry"}
      PROVE  dst'[stack[j].dir] = "dir"
  <2>1. CASE j < Len(stack)
    BY <1>1, <2>1 DEF StackInv, FrameSet
  <2>2. CASE j = Len(stack)
    BY <1>1, <1>3, <2>2
  <2> QED
    BY <1>1, <2>1, <2>2
<1> QED
  BY <1>1, <1>2, <1>3 DEF CopyStack, StackInv, CopyLabels

\* The directory that holds the one at work has been made.
LEMMA CopyParent ==
  ASSUME TInv, pc \in InCopy, CopyStack
  PROVE  /\ Parent[Top.dir] = 0 \/ dst[Parent[Top.dir]] = "dir"
         /\ pc \in {"opendir", "entry"} => dst[Top.dir] = "dir"
<1>1. /\ stack \in Seq(FrameSet) /\ stack # <<>> /\ Chain(Root, stack) /\ StackInv
      /\ Top = stack[Len(stack)] /\ Len(stack) \in Nat \ {0} /\ Len(stack) \in 1..Len(stack) /\ i > 0
  BY AtWork DEF CopyStack, StackInv
<1>2. CASE Len(stack) = 1
  <2>1. Top.dir = Root
    BY <1>1, <1>2 DEF Chain
  <2> QED
    BY <1>1, <2>1, RootNode DEF StackInv
<1>3. CASE Len(stack) # 1
  <2> DEFINE l == Len(stack)
  <2>1. l > 1 /\ l \in 1..l /\ l - 1 \in 1..l /\ l - 1 < l
    <3>1. l \in Nat \ {0} /\ l # 1
      BY <1>1, <1>3
    <3> HIDE DEF l
    <3> QED
      BY <3>1
  <2>2. \A j \in 1..l : j > 1 => Parent[stack[j].dir] = stack[j-1].dir
    BY <1>1 DEF Chain
  <2>3. Parent[stack[l].dir] = stack[l-1].dir
    <3> HIDE DEF l
    <3> QED
      BY <2>1, <2>2
  <2>4. Parent[Top.dir] = stack[l-1].dir
    BY <1>1, <2>3
  <2> QED
    BY <1>1, <2>1, <2>4 DEF StackInv
<1> QED
  BY <1>2, <1>3

\* Steps of copy_dir_dir that make nothing.
LEMMA CopyDirCopies ==
  ASSUME TInv, TInv', Copying, op # "DELETE", CopyStat \/ CopyDstStat \/ CopyOpendir \/ CopyDirDone
  PROVE  Copying'
<1>1. /\ pc \in InCopy /\ UNCHANGED opVars /\ dst' = dst /\ op' = op /\ CopyStack /\ HaveDirectories
      /\ DirInv
  BY DEF CopyStat, CopyDstStat, CopyOpendir, CopyDirDone, InCopy, treeVars, opVars, Copying
<1>2. Top.dir \in Dir /\ Top.st \in Status /\ (pc \in {"opendir", "entry"} => dst[Top.dir] = "dir")
  BY <1>1, AtWork, CopyParent
<1>3. HaveDirectories' /\ DirInv'
  BY <1>1, DstSame
<1>4. CASE \E st \in Status : CopyDirReturn(st)
  BY <1>1, <1>3, <1>4, CopyReturned DEF Copying
<1>5. ASSUME stack' = stack \/ SetStatus("RETRY"), pc' \in InCopy,
             pc' \in {"opendir", "entry"} => dst[Top.dir] = "dir"
      PROVE  Copying'
  BY <1>1, <1>3, <1>5, CopyGoes DEF Copying
<1>6. CASE CopyStat
  <2>1. \/ pc' = "dst_stat" /\ stack' = stack
        \/ pc' = "stat" /\ SetStatus("RETRY")
        \/ \E st \in Status : CopyDirReturn(st)
    BY <1>6, StatusFacts DEF CopyStat, Retried
  <2> QED
    BY <1>4, <1>5, <2>1 DEF InCopy
<1>7. CASE CopyDstStat
  <2>1. \/ dst[Top.dir] # "old" /\ pc' = (IF Mkdir THEN "mkdir" ELSE "opendir") /\ stack' = stack
        \/ \E st \in Status : CopyDirReturn(st)
    BY <1>7, StatusFacts DEF CopyDstStat
  <2>2. dst[Top.dir] # "old" /\ ~ Mkdir => dst[Top.dir] = "dir"
    BY <1>1, <1>2 DEF DirInv, Mkdir
  <2> QED
    BY <1>4, <1>5, <2>1, <2>2 DEF InCopy
<1>8. CASE CopyOpendir \/ CopyDirDone
  <2>1. pc \in {"opendir", "entry"}
    BY <1>8 DEF CopyOpendir, CopyDirDone
  <2>2. (pc' = "entry" /\ stack' = stack) \/ CopyDirReturn(Top.st)
    BY <1>8 DEF CopyOpendir, CopyDirDone
  <2> QED
    BY <1>2, <1>4, <1>5, <2>1, <2>2 DEF InCopy
<1> QED
  BY <1>6, <1>7, <1>8

\* A directory is made in one that was.
LEMMA CopyMkdirCopies ==
  ASSUME TInv, TInv', Copying, op # "DELETE", CopyMkdir
  PROVE  Copying'
<1>1. /\ pc \in InCopy /\ UNCHANGED opVars /\ op' = op /\ CopyStack /\ HaveDirectories /\ DirInv
      /\ dst \in [Node -> Kept] /\ pc = "mkdir"
  BY DEF CopyMkdir, InCopy, opVars, Copying, TInv, DataType
<1>2. /\ Top.dir \in Dir /\ Top.dir \in Node
      /\ Parent[Top.dir] = 0 \/ dst[Parent[Top.dir]] = "dir"
  BY <1>1, AtWork, CopyParent
<1>3. dst' = dst \/ dst' = [dst EXCEPT ![Top.dir] = "dir"]
  BY DEF CopyMkdir
<1>4. \A x \in Node : x # Top.dir => dst'[x] = dst[x]
  BY <1>1, <1>2, <1>3
<1>5. dst'[Top.dir] \in {dst[Top.dir], "dir"}
  BY <1>1, <1>2, <1>3
<1>6. HaveDirectories' /\ DirInv'
  BY <1>1, <1>2, <1>4, <1>5, DirsKept
<1>7. \A x \in Dir : dst[x] = "dir" => dst'[x] = "dir"
  BY <1>4, <1>5, NodeFacts
<1>8. CASE \E st \in Status : CopyDirReturn(st)
  BY <1>1, <1>6, <1>7, <1>8, CopyReturned DEF Copying
<1>9. CASE pc' = "opendir" /\ stack' = stack /\ dst' = [dst EXCEPT ![Top.dir] = "dir"]
  <2>1. dst'[Top.dir] = "dir"
    BY <1>1, <1>2, <1>9
  <2> QED
    BY <1>1, <1>6, <1>7, <1>9, <2>1, CopyGoes DEF Copying, InCopy
<1>10. CASE pc' = "mkdir" /\ SetStatus("RETRY")
  BY <1>1, <1>6, <1>7, <1>10, CopyGoes DEF Copying, InCopy
<1>11. \/ pc' = "opendir" /\ stack' = stack /\ dst' = [dst EXCEPT ![Top.dir] = "dir"]
       \/ pc' = "mkdir" /\ SetStatus("RETRY")
       \/ \E st \in Status : CopyDirReturn(st)
  BY StatusFacts DEF CopyMkdir, Retried, MkdirFailed
<1> QED
  BY <1>8, <1>9, <1>10, <1>11

\* An entry is copied into a directory that was made.
LEMMA CopyEntryCopies ==
  ASSUME TInv, TInv', Copying, op # "DELETE", CopyEntry
  PROVE  Copying'
<1>1. /\ pc \in InCopy /\ pc = "entry" /\ UNCHANGED opVars /\ op' = op /\ CopyStack /\ HaveDirectories
      /\ DirInv /\ StackInv /\ Chain(Root, stack) /\ Root' = Root
  BY DEF CopyEntry, InCopy, opVars, Copying, CopyStack, StackInv, Root
<1>2. /\ stack \in Seq(FrameSet) /\ stack # <<>> /\ Top = stack[Len(stack)]
      /\ Len(stack) \in Nat \ {0} /\ dst[Top.dir] = "dir"
  BY <1>1, AtWork, CopyParent
<1>3. PICK n \in Unseen :
       \/ n \in Dir /\ Call(n) /\ pc' = "stat" /\ dst' = dst
       \/ \E st \in Status : EntryDone(stack, n, st) /\ dst' = dst
       \/ n \notin Dir /\ \E st \in Status : copy_file_file(n, st) /\ EntryDone(stack, n, st)
  BY StatusFacts DEF CopyEntry
<1>4. n \in Node /\ Parent[n] = Top.dir /\ n \notin Top.seen
  BY <1>1, AtWork
<1>5. \A j \in 1..Len(stack) : stack[j].dir \in Dir /\ dst[stack[j].dir] = "dir"
  <2>1. \A j \in 1..Len(stack) : stack[j] \in FrameSet
    BY <1>2, ElementOfSeq
  <2>2. \A j \in 1..Len(stack) : dst[stack[j].dir] = "dir"
    BY <1>1 DEF StackInv
  <2> QED
    BY <2>1, <2>2 DEF FrameSet
<1>6. CASE n \in Dir /\ Call(n) /\ pc' = "stat" /\ dst' = dst
  <2>1. /\ stack' \in Seq(FrameSet) /\ Len(stack') = Len(stack) + 1
        /\ \A j \in 1..Len(stack) : stack'[j] = stack[j]
        /\ stack'[Len(stack')] = Frame(n, {}, "CONT")
    BY <1>2, <1>6, Push
  <2>2. Chain(Root, stack')
    BY <1>1, <1>2, <1>4, <1>6, <2>1, ChainPush
  <2>3. ASSUME NEW j \in 1..Len(stack'), j < Len(stack') PROVE dst'[stack'[j].dir] = "dir"
    <3>1. j \in 1..Len(stack)
      BY <1>2, <2>1, <2>3
    <3> QED
      BY <1>5, <1>6, <2>1, <3>1
  <2>4. CopyStack'
    BY <1>1, <1>6, <2>2, <2>3 DEF CopyStack, StackInv, CopyLabels, InCopy
  <2> QED
    BY <1>1, <1>6, <2>4, DstSame DEF Copying
<1>7. ASSUME NEW st \in Status, EntryDone(stack, n, st), \A x \in Dir : dst'[x] = dst[x]
      PROVE  CopyStack'
  BY <1>1, <1>2, <1>4, <1>5, <1>7, CopiedEntry
<1>8. CASE \E st \in Status : EntryDone(stack, n, st) /\ dst' = dst
  BY <1>1, <1>7, <1>8, DstSame DEF Copying
<1>9. CASE n \notin Dir /\ \E st \in Status : copy_file_file(n, st) /\ EntryDone(stack, n, st)
  <2>1. PICK st \in Status : copy_file_file(n, st) /\ EntryDone(stack, n, st)
    BY <1>9
  <2>2. \A x \in Node : x # n => dst'[x] = dst[x]
    BY <1>4, <2>1, CopyFileType
  <2>3. \A x \in Dir : dst'[x] = dst[x]
    BY <1>9, <2>2, NodeFacts
  <2>4. HaveDirectories' /\ DirInv'
    BY <1>1, <1>2, <1>4, <1>9, <2>2, FileCopied
  <2> QED
    BY <1>1, <1>7, <2>1, <2>3, <2>4 DEF Copying
<1> QED
  BY <1>3, <1>6, <1>8, <1>9

\* The copy of a marked file.
LEMMA CopyFileCopies ==
  ASSUME SInv, Copying, op # "DELETE", CopyFile
  PROVE  Copying'
<1>1. /\ TInv /\ op' = op /\ pc = "c_file" /\ i > 0 /\ Root \notin Dir /\ CopyStack /\ HaveDirectories
      /\ DirInv /\ stack = <<>>
  BY DEF SInv, SourceInv, Files, CopyFile, opVars, TInv, ControlType, Copying, CopyStack, InCopy
<1>2. PICK n \in Node \ Dir : n = Root /\ Parent[n] = 0
  BY <1>1, RootNode
<1>3. \E st \in Status : copy_file_file(n, st) /\ stack' = stack /\ pc' = "after"
  BY <1>2 DEF CopyFile, Return
<1>4. \A x \in Node : x # n => dst'[x] = dst[x]
  BY <1>1, <1>3, CopyFileType
<1>5. HaveDirectories' /\ DirInv'
  BY <1>1, <1>2, <1>4, FileCopied
<1>6. CopyStack'
  BY <1>1, <1>3, CopyEmpty DEF CopyLabels, InCopy
<1> QED
  BY <1>5, <1>6 DEF Copying

\* A rename takes what is there, so with each node its directory.
LEMMA RenameCopies ==
  ASSUME SInv, Copying, op # "DELETE", MoveDirRename
  PROVE  Copying'
<1>1. /\ TInv /\ op' = op /\ pc = "m_rename" /\ i > 0 /\ Root \in Dir /\ CopyStack /\ HaveDirectories
      /\ DirInv /\ stack = <<>> /\ Root' = Root /\ Closed /\ src \subseteq Node /\ dst \in [Node -> Kept]
  BY DEF SInv, SourceInv, MoveDirRename, opVars, TInv, ControlType, DataType, Copying, CopyStack,
     InCopy, Root, ForDir
<1>2. Root \in Node /\ Parent[Root] = 0
  BY <1>1, RootNode
<1>3. CASE dst' = dst /\ stack' = stack /\ pc' \in {"m_rename", "after"}
  BY <1>1, <1>3, DstSame, CopyEmpty DEF Copying, CopyLabels, InCopy
<1>4. CASE dst' = dst /\ Call(Root) /\ pc' = "stat"
  BY <1>1, <1>4, DstSame, CopyCalled DEF Copying
<1>5. CASE dst' = Moved(src \cap Below[Root]) /\ stack' = stack /\ pc' = "after"
  <2> DEFINE S == src \cap Below[Root]
  <2>1. \A x \in Node : dst'[x] = IF x \notin S THEN dst[x] ELSE IF x \in Dir THEN "dir" ELSE "whole"
    BY <1>5 DEF Moved
  <2>2. Parent \in [Node -> Dir \cup {0}] /\ Dir \subseteq Node
    BY TreeAssumption DEF TreeAssumption
  <2>3. ASSUME NEW n \in Node, Parent[n] # 0, n \in S PROVE Parent[n] \in S
    <3>1. Parent[n] \in Node /\ n \in Below[Root] /\ n # Root /\ n \in src
      BY <1>2, <2>2, <2>3
    <3>2. Parent[n] \in Below[Root]
      BY <1>2, <3>1, Subtrees
    <3>3. n \in Below[Parent[n]]
      BY <3>1, Tree
    <3>4. Parent[n] \in src
      BY <1>1, <3>1, <3>3 DEF Closed
    <3> QED
      BY <3>2, <3>4
  <2> HIDE DEF S
  <2>4. HaveDirectories'
    <3> SUFFICES ASSUME NEW n \in Node, Parent[n] # 0, dst'[n] # "none" PROVE dst'[Parent[n]] = "dir"
      BY DEF HaveDirectories
    <3>1. Parent[n] \in Dir /\ Parent[n] \in Node
      BY <2>2
    <3>2. CASE Parent[n] \in S
      BY <2>1, <3>1, <3>2
    <3>3. CASE Parent[n] \notin S
      <4>1. n \notin S /\ dst[n] # "none"
        BY <2>1, <2>3, <3>3
      <4> QED
        BY <1>1, <2>1, <3>1, <3>3, <4>1 DEF HaveDirectories
    <3> QED
      BY <3>2, <3>3
  <2>5. DirInv'
    BY <1>1, <2>1, <2>2 DEF DirInv
  <2> QED
    BY <1>1, <1>5, <2>4, <2>5, CopyEmpty DEF Copying, CopyLabels, InCopy
<1> QED
  BY <1>3, <1>4, <1>5 DEF MoveDirRename, Return

LEMMA MoveCopies ==
  ASSUME SInv, Copying, op # "DELETE", MoveStep
  PROVE  Copying'
<1>1. TInv /\ CopyStack /\ HaveDirectories /\ DirInv
  BY DEF SInv, Copying
<1>2. ASSUME dst' = dst, stack' = stack, pc \notin InCopy, pc' \in CopyLabels \ InCopy PROVE Copying'
  BY <1>1, <1>2, DstSame, CopyEmpty DEF Copying, CopyStack
<1>3. CASE MoveDir
  <2>1. dst' = dst /\ pc = "m_dir" /\ pc \notin InCopy /\ Root' = Root /\ Root \in Dir /\ stack = <<>>
    BY <1>1, <1>3 DEF MoveDir, treeVars, opVars, Root, TInv, ControlType, ForDir, InCopy, CopyStack
  <2>2. CASE Call(Root) /\ pc' = "stat"
    BY <1>1, <2>1, <2>2, DstSame, CopyCalled DEF Copying
  <2>3. (stack' = stack /\ pc' \in {"m_rename", "after"}) \/ (Call(Root) /\ pc' = "stat")
    BY <1>3 DEF MoveDir, Return
  <2> QED
    BY <1>2, <2>1, <2>2, <2>3 DEF CopyLabels, InCopy
<1>4. CASE MoveCopied \/ MoveErase \/ MoveEraseLast
  <2>1. dst' = dst /\ stack' = stack /\ pc \notin InCopy /\ pc' \in {"after", "m_erase"}
    BY <1>4 DEF MoveCopied, MoveErase, MoveEraseLast, DropList, treeVars, InCopy
  <2> QED
    BY <1>2, <2>1 DEF CopyLabels, InCopy
<1>5. CASE MoveFile
  <2>1. /\ pc = "m_file" /\ i > 0 /\ Root \notin Dir /\ stack = <<>> /\ stack' = stack /\ pc' = "after"
        /\ dst \in [Node -> Kept]
    BY <1>1, <1>5 DEF SInv, SourceInv, Files, MoveFile, TInv, DataType, ControlType, CopyStack, InCopy, Return
  <2>2. PICK n \in Node \ Dir : n = Root /\ Parent[n] = 0
    BY <1>1, <2>1, RootNode
  <2>3. dst' = [dst EXCEPT ![n] = "whole"] \/ \E st \in Status : copy_file_file(n, st)
    BY <1>5, <2>2 DEF MoveFile
  <2>4. \A x \in Node : x # n => dst'[x] = dst[x]
    BY <1>1, <2>1, <2>3, CopyFileType
  <2>5. HaveDirectories' /\ DirInv'
    BY <1>1, <2>2, <2>4, FileCopied
  <2> QED
    BY <2>1, <2>5, CopyEmpty DEF Copying, CopyLabels, InCopy
<1> QED
  BY <1>3, <1>4, <1>5, RenameCopies DEF MoveStep

LEMMA LoopCopies ==
  ASSUME SInv, Copying, op # "DELETE", NextRoot \/ NoMoreRoots \/ AfterRoot
  PROVE  Copying'
<1>1. /\ TInv /\ CopyStack /\ HaveDirectories /\ DirInv /\ dst' = dst /\ pc \notin InCopy /\ stack = <<>>
      /\ op \in {"COPY", "MOVE"}
  BY TreeAssumption DEF SInv, Copying, CopyStack, NextRoot, NoMoreRoots, AfterRoot, InCopy, treeVars,
     TInv, DataType, TreeAssumption
<1>2. HaveDirectories' /\ DirInv'
  BY <1>1, DstSame
<1>3. CASE NoMoreRoots \/ AfterRoot
  BY <1>1, <1>2, <1>3, CopyEmpty DEF Copying, NoMoreRoots, AfterRoot, CopyLabels, InCopy
<1>4. CASE NextRoot
  <2> DEFINE r == Marked[i + 1]
  <2>1. Root' = r
    BY <1>4 DEF NextRoot, NextIndex, Root
  <2>2. CASE r \in Dir /\ op = "COPY"
    <3>1. Call(r) /\ pc' = "stat"
      BY <1>4, <2>2 DEF NextRoot, First
    <3> QED
      BY <1>1, <1>2, <2>1, <2>2, <3>1, CopyCalled DEF Copying
  <2>3. CASE ~ (r \in Dir /\ op = "COPY")
    <3>1. stack' = stack /\ pc' \in {"c_file", "m_dir", "m_file"}
      BY <1>1, <1>4, <2>3 DEF NextRoot, First
    <3> QED
      BY <1>1, <1>2, <3>1, CopyEmpty DEF Copying, CopyLabels, InCopy
  <2> QED
    BY <2>2, <2>3
<1> QED
  BY <1>3, <1>4

LEMMA NextCopies == ASSUME SInv, Deleting, Copying, [Next]_vars PROVE Copying'
<1>1. TInv /\ TInv' /\ op' = op
  BY NextSource, SameOp DEF SInv
<1>2. CASE UNCHANGED vars
  BY <1>2 DEF vars, treeVars, opVars, Copying, HaveDirectories, DirInv, CopyStack, StackInv, Root
<1>3. CASE \E n \in Late : Appear(n)
  BY <1>3 DEF Appear, opVars, Copying, HaveDirectories, DirInv, CopyStack, StackInv, Root
<1>4. CASE op = "DELETE" /\ Step
  <2>1. EraseStep \/ NextRoot \/ NoMoreRoots \/ AfterRoot
    BY <1>4, DeleteSteps
  <2>2. dst' = dst
    BY <2>1 DEF EraseStep, EraseFile, EraseDir, EraseAsk, EraseRmdir, EraseOpendir, EraseEntry,
       EraseEntries, EraseRmdirs, NextRoot, NoMoreRoots, AfterRoot, treeVars
  <2> QED
    BY <1>1, <1>4, <2>2, DstSame DEF Copying
<1>5. CASE op # "DELETE" /\ Step
  <2>1. CASE CopyStep
    BY <1>1, <1>5, <2>1, CopyDirCopies, CopyMkdirCopies, CopyEntryCopies, CopyFileCopies DEF CopyStep
  <2>2. ~ EraseStep
    BY <1>5 DEF Copying, CopyStack, CopyLabels, InCopy, EraseStep, EraseFile, EraseDir, EraseAsk,
       EraseRmdir, EraseOpendir, EraseEntry, EraseEntries, EraseRmdirs
  <2> QED
    BY <1>5, <2>1, <2>2, MoveCopies, LoopCopies DEF Step
<1> QED
  BY <1>2, <1>3, <1>4, <1>5 DEF Next, Done

LEMMA InitCopies == ASSUME Init PROVE Copying
<1>1. /\ HaveDirectories /\ DirInv /\ stack = <<>> /\ pc = "next"
  BY NodeFacts DEF Init, HaveDirectories, DirInv
<1>2. Len(stack) = 0 /\ Chain(Root, stack)
  BY <1>1, EmptySeq, ChainEmpty
<1> QED
  BY <1>1, <1>2 DEF Copying, CopyStack, StackInv, CopyLabels, InCopy

\* Nothing is copied to a directory that could not be made, for every tree and
\* whatever fails.
THEOREM TreeCopiesHaveDirectories == Spec => []CopiesHaveDirectories
<1>1. Init => SInv /\ Deleting /\ Copying
  BY InitSource, InitDelete, InitCopies
<1>2. SInv /\ Deleting /\ Copying /\ [Next]_vars => SInv' /\ Deleting' /\ Copying'
  BY NextSource, NextDelete, NextCopies
<1>3. SInv /\ Copying => CopiesHaveDirectories
  BY DEF SInv, TInv, DataType, Copying, HaveDirectories, CopiesHaveDirectories
<1> QED
  BY <1>1, <1>2, <1>3, PTL DEF Spec

---------------------------------------------------------------------------
(* Abort *)

\* A copy takes no step of a move or a deletion.
LEMMA CopySteps ==
  ASSUME pc \in CopyOnly
  PROVE  ~ MoveStep /\ ~ EraseStep
<1>1. ~ MoveStep
  BY DEF CopyOnly, InCopy, MoveStep, MoveDir, MoveDirRename, MoveCopied, MoveErase, MoveEraseLast,
     MoveFile
<1>2. ~ EraseStep
  BY DEF CopyOnly, InCopy, EraseStep, EraseFile, EraseDir, EraseAsk, EraseRmdir, EraseOpendir,
     EraseEntry, EraseEntries, EraseRmdirs
<1> QED
  BY <1>1, <1>2

\* An entry is done: Abort ends the calls in progress.
LEMMA AbortEntry ==
  ASSUME op = "COPY", NEW f \in Seq(FrameSet), f # <<>>, NEW n \in Node, NEW st \in Status,
         erase_list \in Seq(Node), EntryDone(f, n, st)
  PROVE  pc' \in CopyOnly /\ (st = "ABORT" => Stopped')
<1> DEFINE l == Len(f)
           g == Frame(f[l].dir, f[l].seen \cup {n}, st)
<1>1. Len(stack') = l /\ stack'[l] = g /\ pc' = "entry"
  BY EntryDoneFacts
<1>2. g.st = st
  BY DEF Frame
<1> HIDE DEF g, l
<1>3. (Top.st)' = st
  BY <1>1, <1>2 DEF Top
<1> QED
  BY <1>1, <1>3 DEF CopyOnly, InCopy, Stopped

\* copy_dir_dir returns in a copy, to its caller or to the loop.
LEMMA AbortReturns ==
  ASSUME TInv, op = "COPY", pc \in InCopy, NEW st \in Status, CopyDirReturn(st)
  PROVE  pc' \in CopyOnly /\ (st = "ABORT" => Stopped')
<1>1. stack \in Seq(FrameSet) /\ stack # <<>> /\ Top.dir \in Node /\ erase_list \in Seq(Node)
  BY AtWork DEF TInv, ControlType
<1>2. CASE Rest = <<>>
  BY <1>2 DEF CopyDirReturn, CopyOnly, Stopped
<1>3. CASE Rest # <<>>
  <2>1. Rest \in Seq(FrameSet) /\ EntryDone(Rest, Top.dir, st)
    BY <1>1, <1>3, Pop DEF CopyDirReturn
  <2> QED
    BY <1>1, <1>3, <2>1, AbortEntry
<1> QED
  BY <1>2, <1>3

\* Once the user pressed Abort, copy_dir_dir only returns.
LEMMA AbortedStep ==
  ASSUME op = "COPY", Aborting, aborted = 1, Step
  PROVE  AfterRoot \/ (CopyDirDone /\ Top.st = "ABORT")
<1>1. pc \in CopyOnly /\ Stopped
  BY DEF Aborting
<1>2. CopyStep => CopyDirDone /\ Top.st = "ABORT"
  BY <1>1 DEF Stopped, CopyStep, CopyStat, CopyDstStat, CopyMkdir, CopyOpendir, CopyEntry,
     CopyDirDone, CopyFile, LastEntry
<1>3. ~ NextRoot /\ ~ NoMoreRoots
  BY <1>1 DEF Stopped, NextRoot, NoMoreRoots
<1> QED
  BY <1>1, <1>2, <1>3, CopySteps DEF Step

\* A step that hears of Abort, or knows of it, is on its way out.
LEMMA CopyAborts ==
  ASSUME TInv, op = "COPY", Aborting, CopyStep
  PROVE  pc' \in CopyOnly /\ (aborted' = 1 => Stopped')
<1>1. aborted = 1 => CopyDirDone /\ Top.st = "ABORT"
  <2>1. ~ AfterRoot
    BY DEF AfterRoot, CopyStep, CopyStat, CopyDstStat, CopyMkdir, CopyOpendir, CopyEntry, CopyDirDone,
       CopyFile
  <2> QED
    BY <2>1, AbortedStep DEF Step
<1>2. ASSUME pc \in InCopy, \E st \in Status : CopyDirReturn(st) /\ (aborted' = 1 => st = "ABORT")
      PROVE  pc' \in CopyOnly /\ (aborted' = 1 => Stopped')
  BY <1>2, AbortReturns
<1>3. CASE CopyDirDone
  <2>1. pc \in InCopy /\ Top.st \in Status /\ CopyDirReturn(Top.st) /\ aborted' = aborted
    BY <1>3, AtWork DEF CopyDirDone, InCopy
  <2> QED
    BY <1>1, <1>2, <2>1
<1>4. ASSUME ~ CopyDirDone PROVE aborted # 1
  BY <1>1, <1>4
<1>5. ASSUME pc' \in CopyOnly, aborted # 1, aborted' = aborted
      PROVE  pc' \in CopyOnly /\ (aborted' = 1 => Stopped')
  BY <1>5
<1>6. CASE CopyStat \/ CopyDstStat
  <2>1. aborted # 1 /\ pc \in InCopy
    BY <1>4, <1>6 DEF CopyStat, CopyDstStat, CopyDirDone, InCopy
  <2>2. \/ pc' \in CopyOnly /\ aborted' = aborted
        \/ \E st \in Status : CopyDirReturn(st) /\ (aborted' = 1 => st = "ABORT")
    BY <1>6, <2>1, StatusFacts DEF CopyStat, CopyDstStat, Retried, CopyOnly, InCopy
  <2> QED
    BY <1>2, <1>5, <2>1, <2>2
<1>7. CASE CopyMkdir \/ CopyOpendir
  <2>1. aborted # 1 /\ pc \in InCopy
    BY <1>4, <1>7 DEF CopyMkdir, CopyOpendir, CopyDirDone, InCopy
  <2>2. Top.st \in Status
    BY <2>1, AtWork
  <2>3. \/ pc' \in CopyOnly /\ aborted' = aborted
        \/ \E st \in Status : CopyDirReturn(st) /\ (aborted' = 1 => st = "ABORT")
    BY <1>7, <2>1, <2>2, StatusFacts DEF CopyMkdir, CopyOpendir, MkdirFailed, Retried, CopyOnly, InCopy
  <2> QED
    BY <1>2, <1>5, <2>1, <2>3
<1>8. CASE CopyEntry
  <2>1. aborted # 1 /\ pc \in InCopy
    BY <1>1, <1>8 DEF CopyEntry, InCopy, LastEntry
  <2>2. stack \in Seq(FrameSet) /\ stack # <<>> /\ erase_list \in Seq(Node) /\ \A n \in Unseen : n \in Node
    BY <2>1, AtWork DEF TInv, ControlType
  <2>3. PICK n \in Unseen :
         \/ pc' = "stat" /\ aborted' = aborted
         \/ \E st \in Status : EntryDone(stack, n, st) /\ (aborted' = 1 => st = "ABORT")
    BY <1>8, <2>1, StatusFacts DEF CopyEntry, copy_file_file
  <2>4. CASE \E st \in Status : EntryDone(stack, n, st) /\ (aborted' = 1 => st = "ABORT")
    BY <2>2, <2>4, AbortEntry
  <2> QED
    BY <1>5, <2>1, <2>3, <2>4 DEF CopyOnly, InCopy
<1>9. CASE CopyFile
  <2>1. aborted # 1
    BY <1>4, <1>9 DEF CopyFile, CopyDirDone
  <2>2. \E st \in Status : pc' = "after" /\ ret' = st /\ (aborted' = 1 => st = "ABORT")
    BY <1>9, <2>1 DEF CopyFile, copy_file_file, Return
  <2> QED
    BY <2>2 DEF CopyOnly, Stopped
<1> QED
  BY <1>3, <1>6, <1>7, <1>8, <1>9 DEF CopyStep

LEMMA LoopAborts ==
  ASSUME op = "COPY", Aborting, NextRoot \/ NoMoreRoots \/ AfterRoot
  PROVE  pc' \in CopyOnly /\ (aborted' = 1 => Stopped')
<1>1. CASE NextRoot
  <2>1. aborted # 1 /\ aborted' = aborted
    BY <1>1 DEF NextRoot, Aborting, Stopped
  <2>2. pc' \in {"stat", "c_file"}
    BY <1>1 DEF NextRoot, First
  <2> QED
    BY <2>1, <2>2 DEF CopyOnly, InCopy
<1>2. CASE NoMoreRoots
  BY <1>2 DEF NoMoreRoots, CopyOnly, Stopped
<1>3. CASE AfterRoot
  <2>1. pc' \in {"next", "done"} /\ (pc' = "next" => ret # "ABORT" /\ aborted' = aborted)
    BY <1>3 DEF AfterRoot
  <2>2. pc' = "next" => aborted # 1
    BY <1>3, <2>1 DEF AfterRoot, Aborting, Stopped
  <2> QED
    BY <2>1, <2>2 DEF CopyOnly, Stopped
<1> QED
  BY <1>1, <1>2, <1>3

LEMMA NextAborts == ASSUME TInv, Aborting, [Next]_vars PROVE Aborting'
<1>1. op' = op
  BY SameOp
<1>2. CASE op = "COPY" /\ Step
  <2>1. CopyStep \/ NextRoot \/ NoMoreRoots \/ AfterRoot
    BY <1>2, CopySteps DEF Aborting, Step
  <2> QED
    BY <1>1, <1>2, <2>1, CopyAborts, LoopAborts DEF Aborting
<1>3. CASE op # "COPY"
  BY <1>1, <1>3 DEF Aborting
<1>4. CASE (\E n \in Late : Appear(n)) \/ UNCHANGED vars
  BY <1>1, <1>4 DEF Appear, vars, opVars, Aborting, Stopped, Top
<1> QED
  BY <1>2, <1>3, <1>4 DEF Next, Done

\* After Abort a copy changes nothing more at the destination, however deep in
\* the tree it was, for every tree.
THEOREM TreeCopyStopsAtAbort == Spec => CopyStopsAtAbort
<1>1. Init => TInv /\ Aborting
  BY InitType DEF Init, Aborting, CopyOnly
<1>2. TInv /\ Aborting /\ [Next]_vars => TInv' /\ Aborting'
  BY NextType, NextAborts
<1>3. TInv /\ Aborting /\ [Next]_vars => [op = "COPY" /\ aborted = 1 => UNCHANGED dst]_vars
  <2> SUFFICES ASSUME Aborting, [Next]_vars, op = "COPY", aborted = 1 PROVE UNCHANGED dst
    OBVIOUS
  <2>1. CASE Step
    BY <2>1, AbortedStep DEF AfterRoot, CopyDirDone, treeVars
  <2> QED
    BY <2>1 DEF Next, Appear, Done, vars, treeVars
<1> QED
  BY <1>1, <1>2, <1>3, PTL DEF Spec, CopyStopsAtAbort
===========================================================================
