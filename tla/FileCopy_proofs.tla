------------------------- MODULE FileCopy_proofs --------------------------
(***************************************************************************)
(* What FileCopy promises for every number of files, every length and      *)
(* every number of failures: its variables stay in their types, a move     *)
(* never loses a file, and the destinations become what the user was told. *)
(***************************************************************************)
EXTENDS FileCopy, TLAPS

\* A call is being made for a file, so cur is one.
CurInv == pc \notin {"next", "done"} => cur \in File

TInv == TypeOK /\ CurInv

InNode == {"l_read", "l_make", "n_make", "n_attr"}
InCopy == {"c_begin", "c_dst", "c_stat", "c_ask", "c_link", "c_open", "c_seek",
           "c_fstat", "c_create", "c_fstat2", "c_show", "c_read", "c_write",
           "c_close", "c_close2", "c_end"} \cup InNode
InMove == {"m_lstat", "m_dst", "m_rename", "m_after", "m_unlink"}
Unopened == {"c_dst", "c_stat", "c_ask", "c_link", "c_open", "c_seek",
             "c_fstat", "c_create"}
Untaken  == {"m_lstat", "m_dst", "m_rename", "c_begin", "l_read", "l_make", "n_make"}
            \cup Unopened
Opened   == {"c_fstat2", "c_show", "c_read", "c_write"}
Closing  == {"c_close", "c_close2", "c_end"}

Complete(f) == dname[f] # 0 /\ Holds(dname[f], f)

\* Sources not yet worked off are there, and their destination names stand
\* for their own inodes; a destination name never stands for a later inode.
NamesInv ==
  /\ \A f \in File : dname[f] <= f /\ (f > cur => f \in src /\ dname[f] \in {0, f})
  /\ \A i \in File : linklist[i] <= cur
  /\ pc \in InCopy \cup InMove => cur \in src
  /\ pc \in Untaken => dname[cur] \in {0, cur}

\* How far the copy below a move has come.
CopyInv == op = "MOVE" =>
  /\ pc \in Unopened => reget = 0 /\ pos = 0 /\ pend = 0
  /\ pc \in {"c_dst", "c_stat", "c_ask", "c_link"} => ret # "CONT"
  /\ pc \in Opened =>
       /\ data[cur].of = ino[cur] /\ data[cur].from = 0
       /\ data[cur].n + pend = pos /\ pos <= Blocks
       /\ pc # "c_write" => pend = 0
  /\ pc \in Closing /\ ret = "CONT" => dstStatus = "FULL" /\ Complete(cur)

\* The source is removed only after a copy that reports FILE_CONT; a copy
\* writes to the inode of its own file.
AfterInv ==
  /\ pc = "m_after" /\ ret = "CONT" => Complete(cur)
  /\ pc \in {"m_unlink", "n_attr"} => Complete(cur)
  /\ pc \in InMove => op = "MOVE"
  /\ pc \in Opened => dname[cur] = cur
  /\ op \in {"COPY", "MOVE"}

MInv == TInv /\ NamesInv /\ CopyInv /\ AfterInv /\ NoLoss
-----------------------------------------------------------------------------
USE DEF Goto, Mishap, Fine, Button, CopyReturn, MoveReturn, GiveUp, Status,
        cfgVars, fsVars, opVars, ctxVars, cpVars

\* Lengths are naturals.
LEMMA SizesNat == \A x : x \in OldSizes \cup {0} => x \in Nat
  BY FileCopyAssumption DEF FileCopyAssumption

\* The initial states have the types.
LEMMA InitType == Init => TInv
<1> SUFFICES ASSUME Init PROVE TypeOK
  BY DEF Init, TInv, CurInv
<1> USE DEF Init
<1>1. old \in [File -> Nat]
  <2>1. old \in [File -> OldSizes \cup {0}]
    OBVIOUS
  <2>2. QED
    BY <2>1, SizesNat
<1>2. dname \in [File -> File0] /\ linklist \in [File -> File0] /\ cur \in File0
  BY DEF File0
<1>3. data \in [File -> Content]
  BY <1>1 DEF Content, Untouched, File0
<1>4. asked \in [File -> Kinds] /\ reply \in Reply
  BY DEF Kinds, Reply
<1>5. QED
  BY <1>1, <1>2, <1>3, <1>4 DEF TypeOK, Labels

\* Every step keeps the types: one step of the proof per action.
LEMMA NextType == TInv /\ [Next]_vars => TInv'
<1> USE DEF TInv, TypeOK, CurInv, Labels
<1>1. ASSUME TInv, NextFile PROVE TInv'
  <2>1. cur \in File0
    BY <1>1
  <2>2. cur # N => cur + 1 \in File
    BY <2>1, FileCopyAssumption DEF FileCopyAssumption, File, File0
  <2>3. cur' \in File0 /\ (pc' \notin {"next", "done"} => cur' \in File)
    BY <1>1, <2>2 DEF NextFile, NoMoreFiles, File0
  <2>4. QED
    BY <1>1, <2>3 DEF NextFile, NoMoreFiles
<1>2. ASSUME TInv, AfterFile PROVE TInv'
  BY <1>2 DEF  AfterFile
<1>3. ASSUME TInv, MoveLstat PROVE TInv'
  BY <1>3 DEF  MoveLstat
<1>4. ASSUME TInv, MoveDst PROVE TInv'
  BY <1>4 DEF  MoveDst, QueryReplace, Promise, Kinds, Reply, Sticky
<1>5. ASSUME TInv, MoveRename PROVE TInv'
  <2>1. cur \in File /\ cur \in File0 /\ Whole(cur) \in Content
    BY <1>5, FileCopyAssumption DEF FileCopyAssumption, MoveRename, Whole, Content, File0
  <2>2. dname' \in [File -> File0] /\ data' \in [File -> Content]
    BY <1>5, <2>1 DEF MoveRename
  <2>3. QED
    BY <1>5, <2>2 DEF MoveRename, Remade
<1>6. ASSUME TInv, MoveAfter PROVE TInv'
  BY <1>6 DEF  MoveAfter, CopyFailed
<1>7. ASSUME TInv, MoveUnlink PROVE TInv'
  BY <1>7 DEF  MoveUnlink
<1>8. ASSUME TInv, CopyBegin PROVE TInv'
  BY <1>8 DEF  CopyBegin
<1>9. ASSUME TInv, CopyDst PROVE TInv'
  BY <1>9 DEF  CopyDst
<1>10. ASSUME TInv, CopyStat PROVE TInv'
  BY <1>10 DEF  CopyStat
<1>11. ASSUME TInv, CopyAsk PROVE TInv'
  BY <1>11 DEF  CopyAsk, AskOverwrite, QueryReplace, Promise, Kinds, Reply, Sticky
<1>12. ASSUME TInv, CopyLink PROVE TInv'
  BY <1>12 DEF CopyLink, CallFor, LinkMade, File0
<1>13. ASSUME TInv, CopyOpen PROVE TInv'
  <2>1. open' \subseteq {"src", "dst"}
    BY <1>13 DEF CopyOpen
  <2>2. append' \in {0, 1} /\ ret' \in Status /\ pc' \in Labels /\ mishaps' \in Nat
    BY <1>13 DEF CopyOpen, ClearAppend
  <2>3. QED
    BY <1>13, <2>1, <2>2 DEF CopyOpen
<1>14. ASSUME TInv, CopySeek PROVE TInv'
  BY <1>14, FileCopyAssumption DEF FileCopyAssumption,  CopySeek, Kinds
<1>15. ASSUME TInv, CopyFstat PROVE TInv'
  BY <1>15 DEF  CopyFstat, ClearAppend, Bail
<1>16. ASSUME TInv, CopyCreate PROVE TInv'
  <2> DEFINE d == IF dname[cur] = 0 THEN cur ELSE dname[cur]
  <2>1. cur \in File /\ d \in File /\ File \subseteq File0
    BY <1>16 DEF CopyCreate, File0
  <2>2. dname' \in [File -> File0]
    BY <1>16, <2>1 DEF CopyCreate
  <2>3. data[d] \in Content
    BY <1>16, <2>1
  <2>4. Before(d) \in Nat
    BY <2>3 DEF Before, Content
  <2>5. ino[cur] \in File0 /\ pos \in Nat
    BY <1>16, <2>1
  <2>6. [pre |-> Before(d), of |-> ino[cur], from |-> pos, n |-> 0] \in Content
    BY <2>4, <2>5 DEF Content
  <2>7. data' \in [File -> Content]
    BY <1>16, <2>1, <2>6 DEF CopyCreate
  <2>8. open' \subseteq {"src", "dst"}
    BY <1>16 DEF CopyCreate
  <2>9. QED
    BY <1>16, <2>2, <2>7, <2>8 DEF CopyCreate, ClearAppend, Bail
<1>17. ASSUME TInv, CopyFstat2 PROVE TInv'
  BY <1>17 DEF  CopyFstat2, Bail
<1>18. ASSUME TInv, CopyShow PROVE TInv'
  BY <1>18 DEF  CopyShow
<1>19. ASSUME TInv, CopyRead PROVE TInv'
  BY <1>19 DEF  CopyRead, Bail, Eof
<1>20. ASSUME TInv, CopyWrite PROVE TInv'
  BY <1>20 DEF  CopyWrite, Bail, Grown, Content
<1>21. ASSUME TInv, CopyCloseSrc PROVE TInv'
  BY <1>21 DEF  CopyCloseSrc
<1>22. ASSUME TInv, CopyCloseDst PROVE TInv'
  BY <1>22 DEF  CopyCloseDst
<1>23. ASSUME TInv, CopyEnd PROVE TInv'
  BY <1>23 DEF  CopyEnd, File0
<1>24. ASSUME TInv, LinkRead PROVE TInv'
  BY <1>24 DEF LinkRead, LinkReturn
<1>25. ASSUME TInv, LinkMake PROVE TInv'
  <2>1. cur \in File /\ cur \in File0 /\ 0 \in File0 /\ Whole(cur) \in Content
    BY <1>25, FileCopyAssumption DEF FileCopyAssumption, LinkMake, Whole, Content, File0
  <2>2. dname' \in [File -> File0] /\ data' \in [File -> Content]
    BY <1>25, <2>1 DEF LinkMake
  <2>3. QED
    BY <1>25, <2>2 DEF LinkMake, LinkReturn
<1>26. ASSUME TInv, NodeMake PROVE TInv'
  <2>1. cur \in File /\ cur \in File0 /\ Whole(cur) \in Content
    BY <1>26, FileCopyAssumption DEF FileCopyAssumption, NodeMake, Whole, Content, File0
  <2>2. dname' \in [File -> File0] /\ data' \in [File -> Content]
    BY <1>26, <2>1 DEF NodeMake
  <2>3. QED
    BY <1>26, <2>2 DEF NodeMake
<1>27. ASSUME TInv, NodeAttr PROVE TInv'
  BY <1>27 DEF NodeAttr
<1>28. ASSUME TInv, UNCHANGED vars PROVE TInv'
  BY <1>28 DEF vars
<1>29. QED
  BY <1>1, <1>2, <1>3, <1>4, <1>5, <1>6, <1>7, <1>8,
     <1>9, <1>10, <1>11, <1>12, <1>13, <1>14, <1>15, <1>16,
     <1>17, <1>18, <1>19, <1>20, <1>21, <1>22, <1>23, <1>24,
     <1>25, <1>26, <1>27, <1>28
     DEF Next, Done, Step, CopyStep, MoveStep

\* The type invariant, for every number of files, every length and every
\* number of failures.
THEOREM TypeCorrect == Spec => []TypeOK
<1>1. Init => TInv
  BY InitType
<1>2. TInv /\ [Next]_vars => TInv'
  BY NextType
<1>3. TInv => TypeOK
  BY DEF TInv
<1>4. QED
  BY <1>1, <1>2, <1>3, PTL DEF Spec
\* A move never loses a file.  First what the steps of one file leave alone:
\* whatever happens at the destination of cur, the other files that are gone
\* keep their copies.
LEMMA FileNat == /\ \A x \in File0 : x \in Nat /\ (x # 0 => x \in File)
                 /\ \A x \in File : x \in Nat /\ x # 0
  BY FileCopyAssumption DEF FileCopyAssumption, File, File0

LEMMA BlocksNat == Blocks \in Nat
  BY FileCopyAssumption DEF FileCopyAssumption

LEMMA OthersSafe ==
  ASSUME TypeOK, NamesInv, NoLoss, cur \in File, cur \in src, ino' = ino,
         \A f \in File : f # cur => dname'[f] = dname[f],
         \A d \in File : d # cur => data'[d] = data[d]
  PROVE  \A f \in File : f # cur /\ f \notin src =>
           (dname[f] # 0 /\ Holds(dname[f], f))'
<1> TAKE f \in File
<1> SUFFICES ASSUME f # cur, f \notin src
             PROVE  (dname[f] # 0 /\ Holds(dname[f], f))'
  OBVIOUS
<1>1. dname[f] \in File /\ Holds(dname[f], f)
  BY FileNat DEF NoLoss, TypeOK
<1>2. dname[f] <= f /\ f < cur
  BY FileNat DEF NamesInv
<1>3. dname[f] # cur
  BY <1>1, <1>2, FileNat
<1>4. dname'[f] = dname[f] /\ data'[dname[f]] = data[dname[f]] /\ ino' = ino
  BY <1>1, <1>3
<1>5. QED
  BY <1>1, <1>4, FileNat DEF Holds

\* The invariant behind it holds after every step.
LEMMA NextMove == MInv /\ [Next]_vars => (NamesInv /\ CopyInv /\ AfterInv /\ NoLoss)'
<1> USE DEF MInv, TInv, CurInv, NamesInv, CopyInv, AfterInv, NoLoss, Complete, Holds,
            InCopy, InNode, InMove, Unopened, Untaken, Opened, Closing
<1>1. ASSUME MInv, NextFile PROVE (NamesInv /\ CopyInv /\ AfterInv /\ NoLoss)'
  <2>1. NamesInv'
    <3>1. cur' = cur \/ (cur # N /\ cur' = cur + 1)
      BY <1>1 DEF NextFile, NoMoreFiles
    <3>2. cur \in File0 /\ dname \in [File -> File0] /\ linklist \in [File -> File0]
      BY <1>1 DEF TypeOK
    <3>3. cur # N => cur + 1 \in File
      BY <3>2, FileCopyAssumption DEF FileCopyAssumption, File, File0
    <3>4. UNCHANGED <<dname, src, linklist>>
      BY <1>1 DEF NextFile, NoMoreFiles
    <3>5. \A f \in File : dname[f] <= f /\ (f > cur' => f \in src /\ dname[f] \in {0, f})
      BY <1>1, <3>1, <3>2, FileNat
    <3>6. \A i \in File : linklist[i] <= cur'
      BY <1>1, <3>1, <3>2, FileNat
    <3>7. pc' \in InCopy \cup InMove => cur # N /\ cur' = cur + 1
      BY <1>1 DEF NextFile, NoMoreFiles
    <3>8. cur # N => cur + 1 \in src /\ dname[cur + 1] \in {0, cur + 1}
      BY <1>1, <3>2, <3>3, FileNat
    <3>9. pc' \in Untaken => pc' \in InCopy \cup InMove
      OBVIOUS
    <3>10. QED
      BY <3>3, <3>4, <3>5, <3>6, <3>7, <3>8, <3>9 DEF NamesInv
  <2>2. CopyInv'
    BY <1>1 DEF CopyInv, NextFile, NoMoreFiles
  <2>3. AfterInv'
    BY <1>1 DEF AfterInv, NextFile, NoMoreFiles
  <2>4. NoLoss'
    BY <1>1 DEF NoLoss, NextFile, NoMoreFiles
  <2>5. QED
    BY <2>1, <2>2, <2>3, <2>4
<1>2. ASSUME MInv, AfterFile PROVE (NamesInv /\ CopyInv /\ AfterInv /\ NoLoss)'
  BY <1>2 DEF AfterFile
<1>3. ASSUME MInv, MoveLstat PROVE (NamesInv /\ CopyInv /\ AfterInv /\ NoLoss)'
  BY <1>3 DEF MoveLstat
<1>4. ASSUME MInv, MoveDst PROVE (NamesInv /\ CopyInv /\ AfterInv /\ NoLoss)'
  BY <1>4 DEF MoveDst, QueryReplace
<1>5. ASSUME MInv, MoveRename PROVE (NamesInv /\ CopyInv /\ AfterInv /\ NoLoss)'
  <2>1. NamesInv'
    <3>1. cur \in File /\ dname \in [File -> File0]
      BY <1>5 DEF TypeOK, MoveRename
    <3>2. \A f \in File : dname'[f] = dname[f] \/ (f = cur /\ dname'[f] \in {0, cur})
      BY <1>5, <3>1 DEF MoveRename
    <3>3. linklist' = linklist /\ cur' = cur /\ (pc' \in InCopy \cup InMove => cur \in src')
      BY <1>5 DEF MoveRename
    <3>4. \A f \in File : f > cur /\ f \in src => f \in src'
      BY <1>5, <3>1, FileNat DEF MoveRename
    <3>5. pc' \in Untaken => dname' = dname
      BY <1>5 DEF MoveRename
    <3>6. \A f \in File : dname'[f] <= f /\ (f > cur => f \in src' /\ dname'[f] \in {0, f})
      BY <1>5, <3>1, <3>2, <3>4, FileNat
    <3>7. QED
      BY <1>5, <3>3, <3>5, <3>6 DEF NamesInv, MoveRename
  <2>2. CopyInv'
    BY <1>5 DEF CopyInv, MoveRename
  <2>3. AfterInv'
    BY <1>5 DEF AfterInv, MoveRename
  <2>4. NoLoss'
    <3>1. \A f \in File : f # cur => dname'[f] = dname[f]
      BY <1>5 DEF TypeOK, MoveRename
    <3>2. \A d \in File : d # cur => data'[d] = data[d]
      BY <1>5 DEF TypeOK, MoveRename
    <3>3. ino' = ino /\ cur' = cur /\ cur \in File /\ cur \in src
      BY <1>5 DEF MoveRename
    <3>4. \A f \in File : f # cur /\ f \notin src => (dname[f] # 0 /\ Holds(dname[f], f))'
      BY <1>5, <3>1, <3>2, <3>3, OthersSafe
    <3>5. cur \notin src' => (dname[cur] # 0 /\ Holds(dname[cur], cur))'
      <4>1. CASE src' = src
        BY <3>3, <4>1
      <4>2. CASE src' # src
        <5>1. dname'[cur] = cur /\ data'[cur] = Whole(cur)
          BY <1>5, <4>2 DEF TypeOK, MoveRename
        <5>2. Whole(cur).of = ino[cur] /\ Whole(cur).from = 0 /\ Whole(cur).n = Blocks
          BY DEF Whole
        <5>3. QED
          BY <5>1, <5>2, <3>3, FileNat, BlocksNat DEF Holds
      <4>3. QED
        BY <4>1, <4>2
    <3>6. \A f \in File : f # cur /\ f \notin src' => f \notin src
      BY <1>5 DEF MoveRename
    <3>7. QED
      BY <3>3, <3>4, <3>5, <3>6 DEF NoLoss
  <2>5. QED
    BY <2>1, <2>2, <2>3, <2>4
<1>6. ASSUME MInv, MoveAfter PROVE (NamesInv /\ CopyInv /\ AfterInv /\ NoLoss)'
  BY <1>6 DEF MoveAfter, CopyFailed
<1>7. ASSUME MInv, MoveUnlink PROVE (NamesInv /\ CopyInv /\ AfterInv /\ NoLoss)'
  <2>1. NamesInv'
    <3>1. cur \in File /\ dname \in [File -> File0]
      BY <1>7 DEF TypeOK, MoveUnlink
    <3>2. \A f \in File : dname'[f] = dname[f] \/ (f = cur /\ dname'[f] \in {0, cur})
      BY <1>7, <3>1 DEF MoveUnlink
    <3>3. linklist' = linklist /\ cur' = cur /\ (pc' \in InCopy \cup InMove => cur \in src')
      BY <1>7 DEF MoveUnlink
    <3>4. \A f \in File : f > cur /\ f \in src => f \in src'
      BY <1>7, <3>1, FileNat DEF MoveUnlink
    <3>5. pc' \in Untaken => dname' = dname
      BY <1>7 DEF MoveUnlink
    <3>6. \A f \in File : dname'[f] <= f /\ (f > cur => f \in src' /\ dname'[f] \in {0, f})
      BY <1>7, <3>1, <3>2, <3>4, FileNat
    <3>7. QED
      BY <1>7, <3>3, <3>5, <3>6 DEF NamesInv, MoveUnlink
  <2>2. CopyInv'
    BY <1>7 DEF CopyInv, MoveUnlink
  <2>3. AfterInv'
    BY <1>7 DEF AfterInv, MoveUnlink
  <2>4. NoLoss'
    BY <1>7 DEF NoLoss, MoveUnlink
  <2>5. QED
    BY <2>1, <2>2, <2>3, <2>4
<1>8. ASSUME MInv, CopyBegin PROVE (NamesInv /\ CopyInv /\ AfterInv /\ NoLoss)'
  <2>1. NamesInv'
    BY <1>8 DEF NamesInv, CopyBegin
  <2>2. CopyInv'
    BY <1>8 DEF CopyInv, CopyBegin
  <2>3. AfterInv'
    BY <1>8 DEF AfterInv, CopyBegin
  <2>4. NoLoss'
    BY <1>8 DEF NoLoss, CopyBegin
  <2>5. QED
    BY <2>1, <2>2, <2>3, <2>4
<1>9. ASSUME MInv, CopyDst PROVE (NamesInv /\ CopyInv /\ AfterInv /\ NoLoss)'
  <2>1. NamesInv'
    BY <1>9 DEF NamesInv, CopyDst
  <2>2. CopyInv'
    BY <1>9 DEF CopyInv, CopyDst
  <2>3. AfterInv'
    BY <1>9 DEF AfterInv, CopyDst
  <2>4. NoLoss'
    BY <1>9 DEF NoLoss, CopyDst
  <2>5. QED
    BY <2>1, <2>2, <2>3, <2>4
<1>10. ASSUME MInv, CopyStat PROVE (NamesInv /\ CopyInv /\ AfterInv /\ NoLoss)'
  <2>1. NamesInv'
    BY <1>10 DEF NamesInv, CopyStat
  <2>2. CopyInv'
    BY <1>10 DEF CopyInv, CopyStat
  <2>3. AfterInv'
    BY <1>10 DEF AfterInv, CopyStat
  <2>4. NoLoss'
    BY <1>10 DEF NoLoss, CopyStat
  <2>5. QED
    BY <2>1, <2>2, <2>3, <2>4
<1>11. ASSUME MInv, CopyAsk PROVE (NamesInv /\ CopyInv /\ AfterInv /\ NoLoss)'
  <2>1. NamesInv'
    BY <1>11 DEF NamesInv, CopyAsk, AskOverwrite, QueryReplace
  <2>2. CopyInv'
    BY <1>11 DEF CopyInv, CopyAsk, AskOverwrite, QueryReplace
  <2>3. AfterInv'
    BY <1>11 DEF AfterInv, CopyAsk, AskOverwrite, QueryReplace
  <2>4. NoLoss'
    BY <1>11 DEF NoLoss, CopyAsk, AskOverwrite, QueryReplace
  <2>5. QED
    BY <2>1, <2>2, <2>3, <2>4
<1>12. ASSUME MInv, CopyLink PROVE (NamesInv /\ CopyInv /\ AfterInv /\ NoLoss)'
  <2>1. NamesInv'
    <3>1. cur \in File /\ ino[cur] \in File /\ dname \in [File -> File0] /\ linklist \in [File -> File0]
      BY <1>12 DEF TypeOK, CopyLink, LinkMade
    <3>2. linklist' = linklist \/ linklist' = [linklist EXCEPT ![ino[cur]] = cur]
      BY <1>12 DEF CopyLink, LinkMade
    <3>3. \A i \in File : linklist'[i] <= cur
      BY <1>12, <3>1, <3>2, FileNat
    <3>4. ASSUME dname' # dname
          PROVE  \E g \in File : g <= cur /\ dname' = [dname EXCEPT ![cur] = dname[g]]
      <4>1. linklist[ino[cur]] \in File /\ linklist[ino[cur]] <= cur
        BY <1>12, <3>1, <3>4 DEF CopyLink, LinkMade, File0
      <4>2. QED
        BY <1>12, <3>4, <4>1 DEF CopyLink, LinkMade
    <3>5. \A f \in File : dname'[f] <= f /\ (f > cur => dname'[f] \in {0, f})
      BY <1>12, <3>1, <3>4, FileNat
    <3>6. pc' \in Unopened => dname' = dname
      BY <1>12 DEF CopyLink, CallFor, LinkMade
    <3>7. UNCHANGED <<src, cur>>
      BY <1>12 DEF CopyLink, LinkMade
    <3>8. pc' \in {"c_open", "l_read", "n_make", "after", "m_after"}
          /\ (pc' \in {"l_read", "n_make"} => dname' = dname)
      BY <1>12 DEF CopyLink, CallFor, LinkMade
    <3>9. QED
      BY <1>12, <3>3, <3>5, <3>6, <3>7, <3>8 DEF NamesInv, CopyLink
  <2>2. CopyInv'
    BY <1>12 DEF CopyInv, CopyLink, CallFor, LinkMade
  <2>3. AfterInv'
    BY <1>12 DEF AfterInv, CopyLink, CallFor, LinkMade
  <2>4. NoLoss'
    <3>1. \A f \in File : f # cur => dname'[f] = dname[f]
      BY <1>12 DEF TypeOK, CopyLink, LinkMade
    <3>2. \A d \in File : d # cur => data'[d] = data[d]
      BY <1>12 DEF TypeOK, CopyLink, LinkMade
    <3>3. cur \in src /\ cur \in File /\ src' = src /\ ino' = ino
      BY <1>12 DEF CopyLink, LinkMade
    <3>4. QED
      BY <1>12, <3>1, <3>2, <3>3, OthersSafe DEF NoLoss
  <2>5. QED
    BY <2>1, <2>2, <2>3, <2>4
<1>13. ASSUME MInv, CopyOpen PROVE (NamesInv /\ CopyInv /\ AfterInv /\ NoLoss)'
  <2>1. NamesInv'
    BY <1>13 DEF NamesInv, CopyOpen, ClearAppend
  <2>2. CopyInv'
    BY <1>13 DEF CopyInv, CopyOpen, ClearAppend
  <2>3. AfterInv'
    BY <1>13 DEF AfterInv, CopyOpen, ClearAppend
  <2>4. NoLoss'
    BY <1>13 DEF NoLoss, CopyOpen, ClearAppend
  <2>5. QED
    BY <2>1, <2>2, <2>3, <2>4
<1>14. ASSUME MInv, CopySeek PROVE (NamesInv /\ CopyInv /\ AfterInv /\ NoLoss)'
  BY <1>14 DEF CopySeek
<1>15. ASSUME MInv, CopyFstat PROVE (NamesInv /\ CopyInv /\ AfterInv /\ NoLoss)'
  BY <1>15 DEF CopyFstat, ClearAppend, Bail
<1>16. ASSUME MInv, CopyCreate PROVE (NamesInv /\ CopyInv /\ AfterInv /\ NoLoss)'
  <2>1. NamesInv'
    <3>1. cur \in File /\ dname \in [File -> File0]
      BY <1>16 DEF TypeOK, CopyCreate, ClearAppend, Bail, Before
    <3>2. \A f \in File : dname'[f] = dname[f] \/ (f = cur /\ dname'[f] \in {0, cur})
      BY <1>16, <3>1 DEF CopyCreate, ClearAppend, Bail, Before
    <3>3. linklist' = linklist /\ cur' = cur /\ (pc' \in InCopy \cup InMove => cur \in src')
      BY <1>16 DEF CopyCreate, ClearAppend, Bail, Before
    <3>4. \A f \in File : f > cur /\ f \in src => f \in src'
      BY <1>16, <3>1, FileNat DEF CopyCreate, ClearAppend, Bail, Before
    <3>5. pc' \in Untaken => dname' = dname
      BY <1>16 DEF CopyCreate, ClearAppend, Bail, Before
    <3>6. \A f \in File : dname'[f] <= f /\ (f > cur => f \in src' /\ dname'[f] \in {0, f})
      BY <1>16, <3>1, <3>2, <3>4, FileNat
    <3>7. QED
      BY <1>16, <3>3, <3>5, <3>6 DEF NamesInv, CopyCreate, ClearAppend, Bail, Before
  <2>2. CopyInv'
    <3> SUFFICES ASSUME op = "MOVE", pc' = "c_fstat2"
                 PROVE  /\ data'[cur].of = ino[cur] /\ data'[cur].from = 0
                        /\ data'[cur].n + pend' = pos' /\ pos' <= Blocks /\ pend' = 0
      BY <1>16 DEF CopyInv, CopyCreate, ClearAppend, Bail, Before
    <3>1. cur \in File /\ cur # 0
      BY <1>16, FileNat DEF CopyCreate
    <3>3. pos = 0 /\ pend = 0 /\ pos' = pos /\ pend' = pend
      BY <1>16 DEF CopyCreate, ClearAppend, Bail, Before
    <3>4. data'[cur].of = ino[cur] /\ data'[cur].from = pos /\ data'[cur].n = 0
      BY <1>16, <3>1 DEF TypeOK, CopyCreate, ClearAppend, Bail, Before
    <3>5. QED
      BY <3>3, <3>4, BlocksNat
  <2>3. AfterInv'
    <3>1. cur \in File /\ cur # 0
      BY <1>16, FileNat DEF CopyCreate
    <3>2. pc' = "c_fstat2" => dname'[cur] = cur /\ cur' = cur
      BY <1>16, <3>1 DEF TypeOK, CopyCreate, ClearAppend, Bail, Before
    <3>3. pc' \in {"c_create", "c_close", "c_fstat2"} /\ op' = op
      BY <1>16 DEF CopyCreate, ClearAppend, Bail, Before
    <3>4. QED
      BY <1>16, <3>2, <3>3 DEF AfterInv
  <2>4. NoLoss'
    <3>1. \A f \in File : f # cur => dname'[f] = dname[f]
      BY <1>16 DEF TypeOK, CopyCreate, ClearAppend, Bail, Before
    <3>2. \A d \in File : d # cur => data'[d] = data[d]
      BY <1>16 DEF TypeOK, CopyCreate, ClearAppend, Bail, Before
    <3>3. cur \in src /\ cur \in File /\ src' = src /\ ino' = ino
      BY <1>16 DEF CopyCreate, ClearAppend, Bail, Before
    <3>4. QED
      BY <1>16, <3>1, <3>2, <3>3, OthersSafe DEF NoLoss
  <2>5. QED
    BY <2>1, <2>2, <2>3, <2>4
<1>17. ASSUME MInv, CopyFstat2 PROVE (NamesInv /\ CopyInv /\ AfterInv /\ NoLoss)'
  BY <1>17 DEF CopyFstat2, Bail
<1>18. ASSUME MInv, CopyShow PROVE (NamesInv /\ CopyInv /\ AfterInv /\ NoLoss)'
  BY <1>18 DEF CopyShow
<1>19. ASSUME MInv, CopyRead PROVE (NamesInv /\ CopyInv /\ AfterInv /\ NoLoss)'
  <2>1. NamesInv'
    BY <1>19 DEF NamesInv, CopyRead, Bail, Eof
  <2>2. CopyInv'
    <3> SUFFICES ASSUME op = "MOVE" PROVE CopyInv'
      BY <1>19 DEF CopyInv, CopyRead, Bail, Eof
    <3>1. /\ dname[cur] = cur /\ data[cur].of = ino[cur] /\ data[cur].from = 0
          /\ data[cur].n + pend = pos /\ pos <= Blocks /\ pend = 0
      BY <1>19 DEF CopyRead, Bail, Eof
    <3>2. cur \in File /\ cur # 0 /\ pos \in Nat /\ data[cur].n \in Nat
      BY <1>19, FileNat DEF CopyRead, Bail, Eof, TypeOK, Content
    <3>3. UNCHANGED <<op, ino, dname, data, cur>>
      BY <1>19 DEF CopyRead, Bail, Eof
    <3>4. CASE Eof /\ UNCHANGED <<ret, pos, pend>> /\ pos >= Blocks
      <4>1. data[cur].n = Blocks
        BY <3>1, <3>2, <3>4, BlocksNat
      <4>2. Complete(cur)'
        BY <3>1, <3>2, <3>3, <4>1, BlocksNat DEF Complete, Holds
      <4>3. pc' = "c_close" /\ dstStatus' = "FULL"
        BY <3>4 DEF Eof
      <4>4. QED
        BY <4>2, <4>3 DEF CopyInv
    <3>5. CASE \E j \in 1..BufBlocks : pos + j <= Blocks /\ pos' = pos + j /\ pend' = j /\ pc' = "c_write"
      <4>1. data[cur].n + pend' = pos' /\ pos' <= Blocks
        BY <3>1, <3>2, <3>5, BlocksNat
      <4>2. QED
        BY <3>1, <3>3, <3>5, <4>1 DEF CopyInv
    <3>6. CASE pc' \in {"c_show", "c_read"} /\ UNCHANGED <<pos, pend>>
      BY <3>1, <3>3, <3>6 DEF CopyInv
    <3>7. CASE Bail
      BY <3>7 DEF CopyInv, Bail
    <3>8. QED
      BY <1>19, <3>4, <3>5, <3>6, <3>7 DEF CopyRead
  <2>3. AfterInv'
    BY <1>19 DEF AfterInv, CopyRead, Bail, Eof
  <2>4. NoLoss'
    BY <1>19 DEF NoLoss, CopyRead, Bail, Eof
  <2>5. QED
    BY <2>1, <2>2, <2>3, <2>4
<1>20. ASSUME MInv, CopyWrite PROVE (NamesInv /\ CopyInv /\ AfterInv /\ NoLoss)'
  <2>1. NamesInv'
    BY <1>20 DEF NamesInv, CopyWrite, Bail, Grown
  <2>2. CopyInv'
    <3> SUFFICES ASSUME op = "MOVE" PROVE CopyInv'
      BY <1>20 DEF CopyInv, CopyWrite, Bail, Grown
    <3>1. /\ dname[cur] = cur /\ data[cur].of = ino[cur] /\ data[cur].from = 0
          /\ data[cur].n + pend = pos /\ pos <= Blocks
      BY <1>20 DEF CopyWrite, Bail, Grown
    <3>2. cur \in File /\ pos \in Nat /\ pend \in Nat /\ data[cur].n \in Nat
      BY <1>20 DEF CopyWrite, Bail, Grown, TypeOK, Content
    <3>3. UNCHANGED <<op, ino, dname, cur, pos>>
      BY <1>20 DEF CopyWrite, Bail, Grown
    <3>4. CASE pc' = "c_write" /\ UNCHANGED <<data, pend>>
      BY <3>1, <3>3, <3>4 DEF CopyInv
    <3>5. CASE Bail
      BY <3>5 DEF CopyInv, Bail
    <3>6. ASSUME NEW j \in 1..pend, data' = [data EXCEPT ![dname[cur]] = Grown(@, j)],
                 pend' = pend - j, pc' = IF j = pend THEN "c_show" ELSE "c_write"
          PROVE  CopyInv'
      <4>1. data'[cur] = Grown(data[cur], j)
        BY <1>20, <3>1, <3>2, <3>6 DEF TypeOK
      <4>2. data'[cur].of = ino[cur] /\ data'[cur].from = 0 /\ data'[cur].n = data[cur].n + j
        BY <3>1, <4>1 DEF Grown
      <4>3. data'[cur].n + pend' = pos
        BY <3>1, <3>2, <3>6, <4>2
      <4>4. j = pend => pend' = 0
        BY <3>2, <3>6
      <4>5. QED
        BY <3>1, <3>3, <3>6, <4>2, <4>3, <4>4 DEF CopyInv
    <3>7. QED
      BY <1>20, <3>4, <3>5, <3>6 DEF CopyWrite
  <2>3. AfterInv'
    BY <1>20 DEF AfterInv, CopyWrite, Bail, Grown
  <2>4. NoLoss'
    <3>1. \A f \in File : f # cur => dname'[f] = dname[f]
      BY <1>20 DEF TypeOK, CopyWrite, Bail, Grown
    <3>2. \A d \in File : d # cur => data'[d] = data[d]
      BY <1>20 DEF TypeOK, AfterInv, CopyWrite, Bail, Grown
    <3>3. cur \in src /\ cur \in File /\ src' = src /\ ino' = ino
      BY <1>20 DEF CopyWrite, Bail, Grown
    <3>4. QED
      BY <1>20, <3>1, <3>2, <3>3, OthersSafe DEF NoLoss
  <2>5. QED
    BY <2>1, <2>2, <2>3, <2>4
<1>21. ASSUME MInv, CopyCloseSrc PROVE (NamesInv /\ CopyInv /\ AfterInv /\ NoLoss)'
  BY <1>21 DEF CopyCloseSrc
<1>22. ASSUME MInv, CopyCloseDst PROVE (NamesInv /\ CopyInv /\ AfterInv /\ NoLoss)'
  BY <1>22 DEF CopyCloseDst
<1>23. ASSUME MInv, CopyEnd PROVE (NamesInv /\ CopyInv /\ AfterInv /\ NoLoss)'
  <2>1. NamesInv'
    <3>1. cur \in File /\ dname \in [File -> File0]
      BY <1>23 DEF TypeOK, CopyEnd
    <3>2. \A f \in File : dname'[f] = dname[f] \/ (f = cur /\ dname'[f] \in {0, cur})
      BY <1>23, <3>1 DEF CopyEnd
    <3>3. linklist' = linklist /\ cur' = cur /\ (pc' \in InCopy \cup InMove => cur \in src')
      BY <1>23 DEF CopyEnd
    <3>4. \A f \in File : f > cur /\ f \in src => f \in src'
      BY <1>23, <3>1, FileNat DEF CopyEnd
    <3>5. pc' \in Untaken => dname' = dname
      BY <1>23 DEF CopyEnd
    <3>6. \A f \in File : dname'[f] <= f /\ (f > cur => f \in src' /\ dname'[f] \in {0, f})
      BY <1>23, <3>1, <3>2, <3>4, FileNat
    <3>7. QED
      BY <1>23, <3>3, <3>5, <3>6 DEF NamesInv, CopyEnd
  <2>2. CopyInv'
    BY <1>23 DEF CopyInv, CopyEnd
  <2>3. AfterInv'
    BY <1>23 DEF AfterInv, CopyEnd
  <2>4. NoLoss'
    <3>1. \A f \in File : f # cur => dname'[f] = dname[f]
      BY <1>23 DEF TypeOK, CopyEnd
    <3>2. \A d \in File : d # cur => data'[d] = data[d]
      BY <1>23 DEF TypeOK, CopyEnd
    <3>3. cur \in src /\ cur \in File /\ src' = src /\ ino' = ino
      BY <1>23 DEF CopyEnd
    <3>4. QED
      BY <1>23, <3>1, <3>2, <3>3, OthersSafe DEF NoLoss
  <2>5. QED
    BY <2>1, <2>2, <2>3, <2>4
<1>24. ASSUME MInv, LinkRead PROVE (NamesInv /\ CopyInv /\ AfterInv /\ NoLoss)'
  <2>1. NamesInv'
    BY <1>24 DEF NamesInv, LinkRead, LinkReturn
  <2>2. CopyInv'
    BY <1>24 DEF CopyInv, LinkRead, LinkReturn
  <2>3. AfterInv'
    BY <1>24 DEF AfterInv, LinkRead, LinkReturn
  <2>4. NoLoss'
    BY <1>24 DEF NoLoss, LinkRead, LinkReturn
  <2>5. QED
    BY <2>1, <2>2, <2>3, <2>4
<1>25. ASSUME MInv, LinkMake PROVE (NamesInv /\ CopyInv /\ AfterInv /\ NoLoss)'
  <2>1. cur \in File /\ cur # 0 /\ cur \in src /\ dname[cur] \in {0, cur}
    BY <1>25, FileNat DEF LinkMake
  <2>2. /\ \A f \in File : f # cur => dname'[f] = dname[f]
        /\ \A d \in File : d # cur => data'[d] = data[d]
        /\ dname'[cur] \in {0, cur}
    BY <1>25, <2>1 DEF TypeOK, LinkMake, LinkReturn
  <2>3. UNCHANGED <<src, ino, op, cur, linklist>>
    BY <1>25 DEF LinkMake
  <2>4. NamesInv'
    <3>1. \A f \in File : dname'[f] <= f /\ (f > cur => f \in src /\ dname'[f] \in {0, f})
      BY <1>25, <2>1, <2>2, FileNat
    <3>2. QED
      BY <1>25, <2>1, <2>2, <2>3, <3>1 DEF NamesInv
  <2>5. CopyInv'
    BY <1>25 DEF CopyInv, LinkMake, LinkReturn
  <2>6. AfterInv'
    <3>1. pc' \in {"n_attr", "m_unlink"} \/ (pc' = "m_after" /\ ret' = "CONT") => Complete(cur)'
      <4>1. Whole(cur).of = ino[cur] /\ Whole(cur).from = 0 /\ Whole(cur).n = Blocks
        BY DEF Whole
      <4>2. pc' \in {"n_attr", "m_unlink"} \/ (pc' = "m_after" /\ ret' = "CONT")
              => dname'[cur] = cur /\ data'[cur] = Whole(cur)
        BY <1>25, <2>1 DEF TypeOK, LinkMake, LinkReturn
      <4>3. QED
        BY <2>1, <2>3, <4>1, <4>2, BlocksNat DEF Complete, Holds
    <3>2. pc' \in InMove => op = "MOVE"
      BY <1>25, <2>1 DEF LinkMake, LinkReturn
    <3>3. pc' \notin Opened
      BY <1>25 DEF LinkMake, LinkReturn
    <3>4. QED
      BY <1>25, <2>3, <3>1, <3>2, <3>3 DEF AfterInv
  <2>7. NoLoss'
    BY <1>25, <2>1, <2>2, <2>3, OthersSafe DEF NoLoss
  <2>8. QED
    BY <2>4, <2>5, <2>6, <2>7
<1>26. ASSUME MInv, NodeMake PROVE (NamesInv /\ CopyInv /\ AfterInv /\ NoLoss)'
  <2>1. cur \in File /\ cur # 0 /\ cur \in src /\ dname[cur] \in {0, cur}
    BY <1>26, FileNat DEF NodeMake
  <2>2. /\ \A f \in File : f # cur => dname'[f] = dname[f]
        /\ \A d \in File : d # cur => data'[d] = data[d]
        /\ dname'[cur] \in {0, cur}
    BY <1>26, <2>1 DEF TypeOK, NodeMake
  <2>3. UNCHANGED <<src, ino, op, cur, linklist>>
    BY <1>26 DEF NodeMake
  <2>4. NamesInv'
    <3>1. \A f \in File : dname'[f] <= f /\ (f > cur => f \in src /\ dname'[f] \in {0, f})
      BY <1>26, <2>1, <2>2, FileNat
    <3>2. QED
      BY <1>26, <2>1, <2>2, <2>3, <3>1 DEF NamesInv
  <2>5. CopyInv'
    BY <1>26 DEF CopyInv, NodeMake
  <2>6. AfterInv'
    <3>1. pc' \in {"n_attr", "m_unlink"} \/ (pc' = "m_after" /\ ret' = "CONT") => Complete(cur)'
      <4>1. Whole(cur).of = ino[cur] /\ Whole(cur).from = 0 /\ Whole(cur).n = Blocks
        BY DEF Whole
      <4>2. pc' \in {"n_attr", "m_unlink"} \/ (pc' = "m_after" /\ ret' = "CONT")
              => dname'[cur] = cur /\ data'[cur] = Whole(cur)
        BY <1>26, <2>1 DEF TypeOK, NodeMake
      <4>3. QED
        BY <2>1, <2>3, <4>1, <4>2, BlocksNat DEF Complete, Holds
    <3>2. pc' \in InMove => op = "MOVE"
      BY <1>26, <2>1 DEF NodeMake
    <3>3. pc' \notin Opened
      BY <1>26 DEF NodeMake
    <3>4. QED
      BY <1>26, <2>3, <3>1, <3>2, <3>3 DEF AfterInv
  <2>7. NoLoss'
    BY <1>26, <2>1, <2>2, <2>3, OthersSafe DEF NoLoss
  <2>8. QED
    BY <2>4, <2>5, <2>6, <2>7
<1>27. ASSUME MInv, NodeAttr PROVE (NamesInv /\ CopyInv /\ AfterInv /\ NoLoss)'
  <2>1. NamesInv'
    BY <1>27 DEF NamesInv, NodeAttr
  <2>2. CopyInv'
    BY <1>27 DEF CopyInv, NodeAttr
  <2>3. AfterInv'
    BY <1>27 DEF AfterInv, NodeAttr
  <2>4. NoLoss'
    BY <1>27 DEF NoLoss, NodeAttr
  <2>5. QED
    BY <2>1, <2>2, <2>3, <2>4
<1>28. ASSUME MInv, UNCHANGED vars PROVE (NamesInv /\ CopyInv /\ AfterInv /\ NoLoss)'
  BY <1>28 DEF vars
<1>29. QED
  BY <1>1, <1>2, <1>3, <1>4, <1>5, <1>6, <1>7, <1>8,
     <1>9, <1>10, <1>11, <1>12, <1>13, <1>14, <1>15, <1>16,
     <1>17, <1>18, <1>19, <1>20, <1>21, <1>22, <1>23, <1>24,
     <1>25, <1>26, <1>27, <1>28
     DEF Next, Done, Step, CopyStep, MoveStep

\* The initial states satisfy it.
LEMMA InitMove == Init => MInv
<1> SUFFICES ASSUME Init PROVE MInv
  OBVIOUS
<1>1. TInv
  BY InitType
<1>2. NamesInv
  BY FileNat, FileCopyAssumption DEF Init, NamesInv, InCopy, InNode, InMove, Unopened, Untaken, FileCopyAssumption
<1>3. CopyInv /\ AfterInv /\ NoLoss
  BY FileCopyAssumption DEF Init, CopyInv, AfterInv, NoLoss, Unopened, Opened, Closing, InMove, FileCopyAssumption
<1>4. QED
  BY <1>1, <1>2, <1>3 DEF MInv

\* A source name that is gone has its whole contents at the destination, for
\* every number of files, every length, every way to fail and every answer
\* (the rename and the unlink of move_file_file).
THEOREM MoveLosesNothing == Spec => []NoLoss
<1>1. Init => MInv
  BY InitMove
<1>2. MInv /\ [Next]_vars => MInv'
  BY NextType, NextMove DEF MInv
<1>3. MInv => NoLoss
  BY DEF MInv
<1>4. QED
  BY <1>1, <1>2, <1>3, PTL DEF Spec

---------------------------------------------------------------------------
(***************************************************************************)
(* What FileCopy does to the destinations, for every number of files,      *)
(* every length and every number of failures: they become what the user    *)
(* was told, and nothing but the destination of the file at work changes.  *)
(***************************************************************************)

\* Where the destination is looked at and the user asked; where he has agreed
\* and nothing is written yet; where a link or special file is made.
Asking   == {"c_begin", "c_dst", "c_stat", "c_ask"}
Agreed   == {"c_link", "c_open", "c_seek", "c_fstat", "c_create"}
Renewing == {"l_read", "l_make", "n_make"}

\* A copy below a move: the user was asked before.
Below == op = "MOVE" /\ pc \in Asking

\* Nothing has been done to the destination of f.
Fresh(f) == /\ data[f] = Untouched(f)
            /\ dname[f] = IF dst0[f] = "none" THEN 0 ELSE f

\* What the user's answer means for the destination of f: whether its old
\* blocks stay, from which block the source is copied, and behind how many.
Keeping(f) == asked[f] \in {"append", "reget"}
FromOf(f)  == IF asked[f] = "reget" THEN old[f] ELSE 0
PreOf(f)   == IF Keeping(f) THEN old[f] ELSE 0

\* Files to come are as they were, the one at work until it is opened.
FreshInv ==
  /\ \A f \in File : f > cur => Fresh(f) /\ asked[f] = "create" /\ f \in marked
  /\ pc \in {"m_lstat", "m_dst", "m_rename"} \cup Asking \cup Agreed => Fresh(cur)
  /\ pc \notin {"next", "done"} => cur \in marked

\* The user is asked once, and do_append is set while Append or Reget is in force.
ToldInv ==
  /\ pc \in {"m_lstat", "m_dst"} \/ (op = "COPY" /\ pc \in Asking)
       => asked[cur] = "create"
  /\ pc \in {"m_rename"} \cup Agreed \/ Below => (Keeping(cur) => append = 1)
  /\ pc \in Renewing => append = 0 /\ ~Keeping(cur)
  /\ pc \in {"m_rename", "m_after", "m_unlink", "n_attr"} \cup Agreed \cup Renewing
            \cup Opened \cup Closing \/ Below =>
       (dst0[cur] \in OldKinds => asked[cur] # "create")

\* How far a copy has come.
ProgressInv == op = "COPY" =>
  /\ pc \notin Agreed => append = 0
  /\ pc \in Agreed /\ append = 1 => Keeping(cur)
  /\ pc \in {"c_dst", "c_stat", "c_ask"} => ret = "RETRY" /\ reget = 0
  /\ pc \in {"c_dst", "c_stat", "c_ask", "c_link", "c_open", "c_seek"} => pos = 0
  /\ pc \in {"c_dst", "c_stat", "c_ask"} \cup Agreed => pend = 0
  /\ pc = "c_link" /\ ret = "CONT" => dst0[cur] # "none"
  /\ pc \in {"c_link", "c_open", "c_seek"} => reget = FromOf(cur)
  /\ pc \in {"c_fstat", "c_create"} => pos = FromOf(cur)
  /\ pc \in Opened =>
       /\ data[cur].of = ino[cur] /\ data[cur].pre = PreOf(cur)
       /\ data[cur].from = FromOf(cur)
       /\ data[cur].from + data[cur].n + pend = pos
       /\ pos <= Blocks \/ (pos = data[cur].from /\ pend = 0)
       /\ pc # "c_write" => pend = 0
  /\ pc \in Closing /\ ret = "CONT" => dstStatus = "FULL" /\ Kept(cur)
  /\ pc = "n_attr" \/ (pc = "after" /\ ret = "CONT") => Kept(cur)

\* What is taken from the other proofs, and what is added.
RInv == TInv /\ NamesInv /\ AfterInv
TGInv == FreshInv /\ ToldInv /\ ProgressInv /\ OldDataKept /\ CopiedAsAsked
-----------------------------------------------------------------------------

\* Nobody who answers Append or Reget skips the file.
LEMMA AppendGoesOn ==
  \A r, f, st : st \in ReplyStatus(r, f) /\ r \in {"APPEND", "REGET"} => st = "CONT"
  BY Zenon DEF ReplyStatus

\* What the steps of one file leave alone.
OnlyCur ==
  /\ UNCHANGED <<cfgVars, cur, marked>>
  /\ \A f \in File : f # cur =>
       dname'[f] = dname[f] /\ data'[f] = data[f] /\ asked'[f] = asked[f]

\* Such a step leaves the files to come as they were.
LEMMA LaterFresh ==
  ASSUME TypeOK, FreshInv, cur \in File, OnlyCur
  PROVE  \A f \in File : f > cur => (Fresh(f) /\ asked[f] = "create" /\ f \in marked)'
<1> TAKE f \in File
<1> SUFFICES ASSUME f > cur PROVE (Fresh(f) /\ asked[f] = "create" /\ f \in marked)'
  OBVIOUS
<1>1. f # cur
  BY FileNat
<1>2. UNCHANGED <<data[f], dname[f], asked[f], marked, dst0, old>>
  BY <1>1 DEF OnlyCur
<1>3. Fresh(f) /\ asked[f] = "create" /\ f \in marked
  BY DEF FreshInv
<1>4. QED
  BY <1>2, <1>3 DEF Fresh, Untouched

\* And the copies made before it.
LEMMA EarlierKept ==
  ASSUME TypeOK, NamesInv, CopiedAsAsked, cur \in File, cur \in marked, OnlyCur,
         \A f \in File : f > cur => f \in marked
  PROVE  CopiedAsAsked'
<1> SUFFICES ASSUME op = "COPY", NEW f \in File, f \notin marked PROVE Kept(f)'
  BY DEF CopiedAsAsked, OnlyCur
<1>1. f # cur /\ f < cur
  BY FileNat
<1>2. Kept(f) /\ dname[f] \in File /\ dname[f] <= f
  BY FileNat DEF CopiedAsAsked, Kept, TypeOK, NamesInv
<1>3. dname[f] # cur
  BY <1>1, <1>2, FileNat
<1>4. UNCHANGED <<dname[f], data[dname[f]], asked[f], ino, old>>
  BY <1>1, <1>2, <1>3 DEF OnlyCur
<1>5. QED
  BY <1>2, <1>4 DEF Kept

\* The invariant holds after every step.
LEMMA NextTarget == RInv /\ TGInv /\ [Next]_vars => TGInv'
<1> USE DEF RInv, TGInv, TInv, TypeOK, CurInv, NamesInv, AfterInv, OldKinds, InCopy,
       InMove, InNode, Untaken, Unopened, Opened, Closing, Asking, Agreed, Renewing,
       Below, Fresh, Keeping, FromOf, PreOf, Untouched, Kept
<1>1. ASSUME RInv, TGInv, NextFile PROVE TGInv'
  <2> DEFINE l == cur + 1
  <2>0. cur' = cur \/ (cur # N /\ cur' = l)
    BY <1>1 DEF NextFile, NoMoreFiles
  <2>a. cur # N => l \in File /\ Fresh(l) /\ asked[l] = "create" /\ l \in marked
    <3>1. cur \in File0
      BY <1>1
    <3>2. cur # N => cur + 1 \in File
      BY <3>1, FileCopyAssumption DEF FileCopyAssumption, File, File0
    <3>3. cur # N => cur + 1 > cur
      BY <3>1, FileNat
    <3>4. QED
      BY <1>1, <3>2, <3>3 DEF FreshInv
  <2>b. UNCHANGED <<data, dname, asked, marked, old, dst0, op, append>>
    BY <1>1 DEF NextFile, NoMoreFiles
  <2>c. \/ pc' \in {"next", "done"} /\ cur' = cur
        \/ pc' \in {"c_begin", "m_lstat", "after"} /\ cur' = l /\ cur # N
    BY <1>1 DEF NextFile, NoMoreFiles
  <2> HIDE DEF l
  <2>1. FreshInv'
    <3>1. \A f \in File : f > cur' => f > cur
      BY <1>1, <2>0, FileNat DEF l
    <3>2. \A f \in File : f > cur' => (Fresh(f) /\ asked[f] = "create" /\ f \in marked)'
      BY <1>1, <2>b, <3>1 DEF FreshInv
    <3>3. QED
      BY <2>a, <2>b, <2>c, <3>2 DEF FreshInv
  <2>2. ToldInv'
    <3>1. pc' = "c_begin" => op = "COPY"
      BY <1>1 DEF NextFile, NoMoreFiles
    <3>2. QED
      BY <2>a, <2>b, <2>c, <3>1 DEF ToldInv
  <2>3. ProgressInv'
    BY <1>1 DEF NextFile, NoMoreFiles, ProgressInv
  <2>4. OldDataKept'
    BY <1>1 DEF NextFile, NoMoreFiles, OldDataKept
  <2>5. CopiedAsAsked'
    BY <1>1 DEF NextFile, NoMoreFiles, CopiedAsAsked
  <2>6. QED
    BY <2>1, <2>2, <2>3, <2>4, <2>5
<1>2. ASSUME RInv, TGInv, AfterFile PROVE TGInv'
  <2>1. FreshInv'
    <3>1. \A f \in File : f > cur => f # cur
      BY <1>2, FileNat DEF AfterFile
    <3>2. \A f \in File : f > cur => (Fresh(f) /\ asked[f] = "create" /\ f \in marked)'
      BY <1>2, <3>1 DEF AfterFile, FreshInv
    <3>3. QED
      BY <1>2, <3>2 DEF AfterFile, FreshInv
  <2>2. ToldInv'
    BY <1>2 DEF AfterFile, ToldInv
  <2>3. ProgressInv'
    BY <1>2 DEF AfterFile, ProgressInv
  <2>4. OldDataKept'
    BY <1>2 DEF AfterFile, OldDataKept
  <2>5. CopiedAsAsked'
    BY <1>2 DEF AfterFile, FreshInv, ToldInv, ProgressInv, OldDataKept, CopiedAsAsked
  <2>6. QED
    BY <2>1, <2>2, <2>3, <2>4, <2>5
<1>3. ASSUME RInv, TGInv, MoveLstat PROVE TGInv'
  BY <1>3 DEF MoveLstat, FreshInv, ToldInv, ProgressInv, OldDataKept, CopiedAsAsked
<1>4. ASSUME RInv, TGInv, MoveDst PROVE TGInv'
  <2>0. OnlyCur /\ cur \in File
    BY <1>4 DEF OnlyCur, MoveDst, QueryReplace, Promise
  <2>1. FreshInv'
    BY <1>4, <2>0, LaterFresh DEF MoveDst, QueryReplace, Promise, FreshInv
  <2>2. ToldInv'
    BY <1>4, AppendGoesOn DEF MoveDst, QueryReplace, Promise, ToldInv
  <2>3. ProgressInv'
    BY <1>4, AppendGoesOn DEF MoveDst, QueryReplace, Promise, ProgressInv
  <2>4. OldDataKept'
    BY <1>4 DEF MoveDst, QueryReplace, Promise, FreshInv, ToldInv, OldDataKept
  <2>5. CopiedAsAsked'
    BY <1>4 DEF MoveDst, QueryReplace, Promise, CopiedAsAsked
  <2>6. QED
    BY <2>1, <2>2, <2>3, <2>4, <2>5
<1>5. ASSUME RInv, TGInv, MoveRename PROVE TGInv'
  <2>0. OnlyCur /\ cur \in File
    BY <1>5 DEF OnlyCur, MoveRename, Remade, Whole
  <2>1. FreshInv'
    BY <1>5, <2>0, LaterFresh DEF MoveRename, Remade, Whole, FreshInv
  <2>2. ToldInv'
    BY <1>5 DEF MoveRename, Remade, Whole, ToldInv
  <2>3. ProgressInv'
    BY <1>5 DEF MoveRename, Remade, Whole, ProgressInv
  <2>4. OldDataKept'
    BY <1>5 DEF MoveRename, Remade, Whole, FreshInv, ToldInv, OldDataKept
  <2>5. CopiedAsAsked'
    BY <1>5 DEF MoveRename, Remade, Whole, CopiedAsAsked
  <2>6. QED
    BY <2>1, <2>2, <2>3, <2>4, <2>5
<1>6. ASSUME RInv, TGInv, MoveAfter PROVE TGInv'
  BY <1>6 DEF MoveAfter, CopyFailed, FreshInv, ToldInv, ProgressInv, OldDataKept,
     CopiedAsAsked
<1>7. ASSUME RInv, TGInv, MoveUnlink PROVE TGInv'
  BY <1>7 DEF MoveUnlink, FreshInv, ToldInv, ProgressInv, OldDataKept, CopiedAsAsked
<1>8. ASSUME RInv, TGInv, CopyBegin PROVE TGInv'
  BY <1>8 DEF CopyBegin, FreshInv, ToldInv, ProgressInv, OldDataKept, CopiedAsAsked
<1>9. ASSUME RInv, TGInv, CopyDst PROVE TGInv'
  BY <1>9 DEF CopyDst, FreshInv, ToldInv, ProgressInv, OldDataKept, CopiedAsAsked
<1>10. ASSUME RInv, TGInv, CopyStat PROVE TGInv'
  BY <1>10 DEF CopyStat, FreshInv, ToldInv, ProgressInv, OldDataKept, CopiedAsAsked
<1>11. ASSUME RInv, TGInv, CopyAsk PROVE TGInv'
  <2>0. OnlyCur /\ cur \in File
    BY <1>11 DEF OnlyCur, CopyAsk, AskOverwrite, QueryReplace, Promise
  <2>1. FreshInv'
    BY <1>11, <2>0, LaterFresh DEF CopyAsk, AskOverwrite, QueryReplace, Promise,
       FreshInv
  <2>2. ToldInv'
    BY <1>11, AppendGoesOn DEF CopyAsk, AskOverwrite, QueryReplace, Promise, ToldInv
  <2>3. ProgressInv'
    BY <1>11, AppendGoesOn DEF CopyAsk, AskOverwrite, QueryReplace, Promise,
       FreshInv, ToldInv, ProgressInv
  <2>4. OldDataKept'
    BY <1>11 DEF CopyAsk, AskOverwrite, QueryReplace, Promise, FreshInv, ToldInv,
       OldDataKept
  <2>5. CopiedAsAsked'
    BY <1>11 DEF CopyAsk, AskOverwrite, QueryReplace, Promise, FreshInv, ToldInv,
       CopiedAsAsked
  <2>6. QED
    BY <2>1, <2>2, <2>3, <2>4, <2>5
<1>12. ASSUME RInv, TGInv, CopyLink PROVE TGInv'
  <2>0. OnlyCur /\ cur \in File
    BY <1>12 DEF OnlyCur, CopyLink, CallFor, LinkMade
  <2>1. FreshInv'
    BY <1>12, <2>0, LaterFresh DEF CopyLink, CallFor, LinkMade, FreshInv
  <2>2. ToldInv'
    BY <1>12 DEF CopyLink, CallFor, LinkMade, ToldInv
  <2>3. ProgressInv'
    <3>1. cur \in File /\ cur # 0
      BY <1>12, FileNat DEF CopyLink, LinkMade
    <3>2. dname' # dname => ret # "CONT" \/ op = "MOVE"
      BY <1>12, <3>1 DEF CopyLink, LinkMade, CallFor, FreshInv, ProgressInv
    <3>3. pc' # "after" \/ dname' # dname \/ op = "MOVE"
      <4>1. CASE dname' = dname
        <5>1. dname[cur] = 0 /\ dname' = [dname EXCEPT ![cur] = dname[linklist[ino[cur]]]]
                => dname[linklist[ino[cur]]] = 0
          BY <3>1, <4>1, <1>12
        <5>2. QED
          BY <1>12, <4>1, <5>1 DEF CopyLink, LinkMade, CallFor
      <4>2. QED
        BY <4>1
    <3>4. QED
      BY <1>12, <3>2, <3>3 DEF CopyLink, CallFor, LinkMade, FreshInv, ToldInv,
         ProgressInv
  <2>4. OldDataKept'
    BY <1>12 DEF CopyLink, CallFor, LinkMade, FreshInv, ToldInv, OldDataKept
  <2>5. CopiedAsAsked'
    BY <1>12 DEF CopyLink, CallFor, LinkMade, CopiedAsAsked
  <2>6. QED
    BY <2>1, <2>2, <2>3, <2>4, <2>5
<1>13. ASSUME RInv, TGInv, LinkRead PROVE TGInv'
  BY <1>13 DEF LinkRead, LinkReturn, FreshInv, ToldInv, ProgressInv, OldDataKept,
     CopiedAsAsked
<1>14. ASSUME RInv, TGInv, LinkMake PROVE TGInv'
  <2>0. OnlyCur /\ cur \in File
    BY <1>14 DEF OnlyCur, LinkMake, LinkReturn, Whole
  <2>1. FreshInv'
    BY <1>14, <2>0, LaterFresh DEF LinkMake, LinkReturn, Whole, FreshInv
  <2>2. ToldInv'
    BY <1>14 DEF LinkMake, LinkReturn, Whole, ToldInv
  <2>3. ProgressInv'
    <3>1. /\ Whole(cur).pre = 0 /\ Whole(cur).of = ino[cur]
          /\ Whole(cur).from = 0 /\ Whole(cur).n = Blocks
      BY DEF Whole
    <3>2. data' = [data EXCEPT ![cur] = Whole(cur)] /\ dname' = [dname EXCEPT ![cur] = cur]
            => Kept(cur)'
      <4> HAVE data' = [data EXCEPT ![cur] = Whole(cur)] /\ dname' = [dname EXCEPT ![cur] = cur]
      <4>1. cur \in File /\ cur # 0 /\ cur' = cur /\ ~Keeping(cur) /\ UNCHANGED <<asked, ino, old>>
        BY <1>14, FileNat DEF LinkMake, LinkReturn, ToldInv
      <4>2. data'[cur] = Whole(cur) /\ dname'[cur] = cur
        BY <1>14, <4>1
      <4>3. QED
        BY <3>1, <4>1, <4>2, BlocksNat
    <3>3. QED
      BY <1>14, <3>2 DEF LinkMake, LinkReturn, ProgressInv
  <2>4. OldDataKept'
    BY <1>14 DEF LinkMake, LinkReturn, Whole, FreshInv, ToldInv, OldDataKept
  <2>5. CopiedAsAsked'
    BY <1>14, <2>0, EarlierKept DEF LinkMake, LinkReturn, Whole, FreshInv
  <2>6. QED
    BY <2>1, <2>2, <2>3, <2>4, <2>5
<1>15. ASSUME RInv, TGInv, NodeMake PROVE TGInv'
  <2>0. OnlyCur /\ cur \in File
    BY <1>15 DEF OnlyCur, NodeMake, Whole
  <2>1. FreshInv'
    BY <1>15, <2>0, LaterFresh DEF NodeMake, Whole, FreshInv
  <2>2. ToldInv'
    BY <1>15 DEF NodeMake, Whole, ToldInv
  <2>3. ProgressInv'
    <3>1. /\ Whole(cur).pre = 0 /\ Whole(cur).of = ino[cur]
          /\ Whole(cur).from = 0 /\ Whole(cur).n = Blocks
      BY DEF Whole
    <3>2. data' = [data EXCEPT ![cur] = Whole(cur)] /\ dname' = [dname EXCEPT ![cur] = cur]
            => Kept(cur)'
      <4> HAVE data' = [data EXCEPT ![cur] = Whole(cur)] /\ dname' = [dname EXCEPT ![cur] = cur]
      <4>1. cur \in File /\ cur # 0 /\ cur' = cur /\ ~Keeping(cur) /\ UNCHANGED <<asked, ino, old>>
        BY <1>15, FileNat DEF NodeMake, ToldInv
      <4>2. data'[cur] = Whole(cur) /\ dname'[cur] = cur
        BY <1>15, <4>1
      <4>3. QED
        BY <3>1, <4>1, <4>2, BlocksNat
    <3>3. QED
      BY <1>15, <3>2 DEF NodeMake, ProgressInv
  <2>4. OldDataKept'
    BY <1>15 DEF NodeMake, Whole, FreshInv, ToldInv, OldDataKept
  <2>5. CopiedAsAsked'
    BY <1>15, <2>0, EarlierKept DEF NodeMake, Whole, FreshInv
  <2>6. QED
    BY <2>1, <2>2, <2>3, <2>4, <2>5
<1>16. ASSUME RInv, TGInv, NodeAttr PROVE TGInv'
  BY <1>16 DEF NodeAttr, FreshInv, ToldInv, ProgressInv, OldDataKept, CopiedAsAsked
<1>17. ASSUME RInv, TGInv, CopyOpen PROVE TGInv'
  BY <1>17 DEF CopyOpen, ClearAppend, FreshInv, ToldInv, ProgressInv, OldDataKept,
     CopiedAsAsked
<1>18. ASSUME RInv, TGInv, CopySeek PROVE TGInv'
  <2>0. OnlyCur /\ cur \in File
    BY <1>18 DEF OnlyCur, CopySeek
  <2>1. FreshInv'
    BY <1>18, <2>0, LaterFresh DEF CopySeek, FreshInv
  <2>2. ToldInv'
    BY <1>18 DEF CopySeek, ToldInv
  <2>3. ProgressInv'
    BY <1>18 DEF CopySeek, ProgressInv
  <2>4. OldDataKept'
    BY <1>18 DEF CopySeek, OldDataKept
  <2>5. CopiedAsAsked'
    BY <1>18 DEF CopySeek, FreshInv, ToldInv, CopiedAsAsked
  <2>6. QED
    BY <2>1, <2>2, <2>3, <2>4, <2>5
<1>19. ASSUME RInv, TGInv, CopyFstat PROVE TGInv'
  BY <1>19 DEF CopyFstat, ClearAppend, Bail, FreshInv, ToldInv, ProgressInv,
     OldDataKept, CopiedAsAsked
<1>20. ASSUME RInv, TGInv, CopyCreate PROVE TGInv'
  <2>0. OnlyCur /\ cur \in File
    BY <1>20 DEF OnlyCur, CopyCreate, ClearAppend, Bail, Before
  <2>1. FreshInv'
    BY <1>20, <2>0, LaterFresh DEF CopyCreate, ClearAppend, Bail, Before, FreshInv
  <2>2. ToldInv'
    BY <1>20 DEF CopyCreate, ClearAppend, Bail, Before, ToldInv
  <2>3. ProgressInv'
    BY <1>20 DEF CopyCreate, ClearAppend, Bail, Before, FreshInv, ToldInv, ProgressInv
  <2>4. OldDataKept'
    BY <1>20 DEF CopyCreate, ClearAppend, Bail, Before, FreshInv, ToldInv, OldDataKept
  <2>5. CopiedAsAsked'
    BY <1>20, <2>0, EarlierKept DEF CopyCreate, ClearAppend, Bail, Before, FreshInv
  <2>6. QED
    BY <2>1, <2>2, <2>3, <2>4, <2>5
<1>21. ASSUME RInv, TGInv, CopyFstat2 PROVE TGInv'
  BY <1>21 DEF CopyFstat2, Bail, FreshInv, ToldInv, ProgressInv, OldDataKept,
     CopiedAsAsked
<1>22. ASSUME RInv, TGInv, CopyShow PROVE TGInv'
  BY <1>22 DEF CopyShow, FreshInv, ToldInv, ProgressInv, OldDataKept, CopiedAsAsked
<1>23. ASSUME RInv, TGInv, CopyRead PROVE TGInv'
  <2>1. FreshInv'
    BY <1>23 DEF CopyRead, Bail, Eof, FreshInv
  <2>2. ToldInv'
    BY <1>23 DEF CopyRead, Bail, Eof, ToldInv
  <2>3. ProgressInv'
    <3> SUFFICES ASSUME op = "COPY" PROVE ProgressInv'
      BY <1>23 DEF CopyRead, Bail, Eof, ProgressInv
    <3>1. /\ data[cur].of = ino[cur] /\ data[cur].pre = PreOf(cur)
          /\ data[cur].from = FromOf(cur) /\ data[cur].from + data[cur].n + pend = pos
          /\ pos <= Blocks \/ (pos = data[cur].from /\ pend = 0)
          /\ pend = 0 /\ append = 0
      BY <1>23 DEF CopyRead, ProgressInv
    <3>2. /\ cur \in File /\ cur # 0 /\ dname[cur] = cur /\ pos \in Nat
          /\ data[cur].n \in Nat /\ data[cur].from \in Nat
      BY <1>23, FileNat DEF CopyRead, Content
    <3>3. UNCHANGED <<op, ino, old, asked, dname, data, cur, append>>
      BY <1>23 DEF CopyRead
    <3>4. CASE Eof /\ UNCHANGED <<ret, pos, pend>> /\ pos >= Blocks
      <4>1. data[cur].n = IF data[cur].from < Blocks THEN Blocks - data[cur].from ELSE 0
        BY <3>1, <3>2, <3>4, BlocksNat
      <4>2. Kept(cur)'
        BY <3>1, <3>2, <3>3, <4>1
      <4>3. pc' = "c_close" /\ dstStatus' = "FULL"
        BY <3>4 DEF Eof
      <4>4. QED
        BY <3>1, <3>3, <4>2, <4>3 DEF ProgressInv
    <3>5. CASE \E k \in 1..BufBlocks :
               pos + k <= Blocks /\ pos' = pos + k /\ pend' = k /\ pc' = "c_write"
      <4>1. data[cur].from + data[cur].n + pend' = pos' /\ pos' <= Blocks
        BY <3>1, <3>2, <3>5, BlocksNat
      <4>2. QED
        BY <3>1, <3>3, <3>5, <4>1 DEF ProgressInv
    <3>6. CASE pc' \in {"c_show", "c_read"} /\ UNCHANGED <<pos, pend>>
      BY <3>1, <3>3, <3>6 DEF ProgressInv
    <3>7. CASE pc' = "c_close" /\ ret' # "CONT"
      BY <3>1, <3>3, <3>7 DEF ProgressInv
    <3>8. QED
      BY <1>23, <3>4, <3>5, <3>6, <3>7 DEF CopyRead, Bail
  <2>4. OldDataKept'
    BY <1>23 DEF CopyRead, Bail, Eof, OldDataKept
  <2>5. CopiedAsAsked'
    BY <1>23 DEF CopyRead, Bail, Eof, CopiedAsAsked
  <2>6. QED
    BY <2>1, <2>2, <2>3, <2>4, <2>5
<1>24. ASSUME RInv, TGInv, CopyWrite PROVE TGInv'
  <2>0. OnlyCur /\ cur \in File
    BY <1>24 DEF OnlyCur, CopyWrite, Bail, Grown
  <2>1. FreshInv'
    BY <1>24, <2>0, LaterFresh DEF CopyWrite, Bail, Grown, FreshInv
  <2>2. ToldInv'
    BY <1>24 DEF CopyWrite, Bail, Grown, ToldInv
  <2>3. ProgressInv'
    <3> SUFFICES ASSUME op = "COPY" PROVE ProgressInv'
      BY <1>24 DEF CopyWrite, Bail, ProgressInv
    <3>1. /\ data[cur].of = ino[cur] /\ data[cur].pre = PreOf(cur)
          /\ data[cur].from = FromOf(cur) /\ data[cur].from + data[cur].n + pend = pos
          /\ append = 0
          /\ pos <= Blocks \/ (pos = data[cur].from /\ pend = 0)
      BY <1>24 DEF CopyWrite, ProgressInv
    <3>2. /\ cur \in File /\ dname[cur] = cur /\ pos \in Nat /\ pend \in Nat
          /\ data[cur].n \in Nat /\ data[cur].from \in Nat
      BY <1>24 DEF CopyWrite, Content
    <3>3. UNCHANGED <<op, ino, old, asked, dname, cur, append, pos>>
      BY <1>24 DEF CopyWrite
    <3>4. ASSUME NEW k \in 1..pend, data' = [data EXCEPT ![cur] = Grown(@, k)],
                 pend' = pend - k, pc' = IF k = pend THEN "c_show" ELSE "c_write"
          PROVE  ProgressInv'
      <4>1. data'[cur] = Grown(data[cur], k)
        BY <1>24, <3>2, <3>4
      <4>2. /\ data'[cur].of = ino[cur] /\ data'[cur].pre = PreOf(cur)
            /\ data'[cur].from = FromOf(cur) /\ data'[cur].n = data[cur].n + k
        BY <3>1, <4>1 DEF Grown
      <4>3. data'[cur].from + data'[cur].n + pend' = pos
        BY <3>1, <3>2, <3>4, <4>2
      <4>4. pos <= Blocks
        BY <3>1, <3>2, <3>4
      <4>5. pc' # "c_write" => pend' = 0
        BY <3>2, <3>4
      <4>6. pc' \in {"c_show", "c_write"}
        BY <3>4
      <4>7. QED
        BY <3>1, <3>3, <4>2, <4>3, <4>4, <4>5, <4>6 DEF ProgressInv
    <3>5. CASE pc' = "c_write" /\ UNCHANGED <<data, pend>>
      BY <3>1, <3>3, <3>5 DEF ProgressInv
    <3>6. CASE pc' = "c_close" /\ ret' # "CONT"
      BY <3>1, <3>3, <3>6 DEF ProgressInv
    <3>7. QED
      BY <1>24, <3>2, <3>4, <3>5, <3>6 DEF CopyWrite, Bail
  <2>4. OldDataKept'
    BY <1>24 DEF CopyWrite, Bail, Grown, OldDataKept
  <2>5. CopiedAsAsked'
    BY <1>24, <2>0, EarlierKept DEF CopyWrite, Bail, Grown, FreshInv
  <2>6. QED
    BY <2>1, <2>2, <2>3, <2>4, <2>5
<1>25. ASSUME RInv, TGInv, CopyCloseSrc PROVE TGInv'
  BY <1>25 DEF CopyCloseSrc, FreshInv, ToldInv, ProgressInv, OldDataKept, CopiedAsAsked
<1>26. ASSUME RInv, TGInv, CopyCloseDst PROVE TGInv'
  BY <1>26 DEF CopyCloseDst, FreshInv, ToldInv, ProgressInv, OldDataKept, CopiedAsAsked
<1>27. ASSUME RInv, TGInv, CopyEnd PROVE TGInv'
  <2>0. OnlyCur /\ cur \in File
    BY <1>27 DEF OnlyCur, CopyEnd
  <2>1. FreshInv'
    BY <1>27, <2>0, LaterFresh DEF CopyEnd, FreshInv
  <2>2. ToldInv'
    BY <1>27 DEF CopyEnd, ToldInv
  <2>3. ProgressInv'
    BY <1>27 DEF CopyEnd, ProgressInv
  <2>4. OldDataKept'
    BY <1>27, <2>0, FileNat DEF CopyEnd, OldDataKept, OnlyCur
  <2>5. CopiedAsAsked'
    BY <1>27 DEF CopyEnd, FreshInv, ToldInv, CopiedAsAsked
  <2>6. QED
    BY <2>1, <2>2, <2>3, <2>4, <2>5
<1>28. ASSUME RInv, TGInv, UNCHANGED vars PROVE TGInv'
  BY <1>28 DEF vars, FreshInv, ToldInv, ProgressInv, OldDataKept, CopiedAsAsked
<1>29. QED
  BY <1>1, <1>2, <1>3, <1>4, <1>5, <1>6, <1>7, <1>8, <1>9, <1>10, <1>11, <1>12,
     <1>13, <1>14, <1>15, <1>16, <1>17, <1>18, <1>19, <1>20, <1>21, <1>22, <1>23,
     <1>24, <1>25, <1>26, <1>27, <1>28
     DEF Next, Done, Step, CopyStep, MoveStep

\* The initial states satisfy it.
LEMMA InitTarget == Init => RInv /\ TGInv
<1> SUFFICES ASSUME Init PROVE RInv /\ TGInv
  OBVIOUS
<1>1. TInv /\ MInv
  BY InitType, InitMove
<1>2. RInv
  BY <1>1 DEF MInv, RInv
<1>3. FreshInv
  BY FileNat DEF Init, FreshInv, Fresh, Asking, Agreed
<1>4. ToldInv /\ ProgressInv
  BY DEF Init, ToldInv, ProgressInv, Asking, Agreed, Renewing, Opened, Closing, Below
<1>5. OldDataKept /\ CopiedAsAsked
  BY DEF Init, OldDataKept, CopiedAsAsked
<1>6. QED
  BY <1>2, <1>3, <1>4, <1>5 DEF TGInv

\* Together with what the proof that a move loses nothing uses.
TMInv == MInv /\ TGInv

LEMMA TargetHolds == Spec => []TMInv
<1>1. Init => TMInv
  BY InitMove, InitTarget DEF TMInv
<1>2. TMInv /\ [Next]_vars => TMInv'
  BY NextType, NextMove, NextTarget DEF TMInv, MInv, RInv
<1>3. QED
  BY <1>1, <1>2, PTL DEF Spec

\* An entry of a copy loses its mark only when its destination has become what the
\* user was told, and what he wanted kept is never truncated: for any number of
\* files, any lengths and any failures (copy_file_file, query_replace).
THEOREM DestinationsAsTold == Spec => []AsTheUserWasTold
<1>1. TMInv => AsTheUserWasTold
  BY DEF TMInv, TGInv, AsTheUserWasTold
<1>2. QED
  BY <1>1, TargetHolds, PTL

\* The action that OnlyTheAskedTarget requires of every step.
Aims ==
  \A f \in File :
    dname'[f] # dname[f] \/ (dname[f] # 0 /\ data'[dname[f]] # data[dname[f]])
      => f = cur /\ (dst0[f] \in OldKinds => asked[f] # "create")

\* A step that touches only the destination of the file at work, which may be touched.
LEMMA Aimed ==
  ASSUME TypeOK, NamesInv, cur \in File,
         dst0[cur] \in OldKinds => asked[cur] # "create",
         \A f \in File : f # cur => dname'[f] = dname[f],
         \A d \in File : d # cur => data'[d] = data[d],
         dname[cur] \in {0, cur} \/ data' = data
  PROVE  Aims
<1> SUFFICES ASSUME NEW f \in File,
                    dname'[f] # dname[f] \/ (dname[f] # 0 /\ data'[dname[f]] # data[dname[f]])
             PROVE  f = cur
  BY DEF Aims
<1>1. dname[f] \in File0 /\ dname[f] <= f /\ (f > cur => dname[f] \in {0, f})
  BY DEF TypeOK, NamesInv
<1>2. CASE dname'[f] # dname[f]
  BY <1>2
<1>3. CASE dname[f] # 0 /\ data'[dname[f]] # data[dname[f]]
  <2>1. dname[f] = cur
    BY <1>1, <1>3, FileNat
  <2>2. f >= cur
    BY <1>1, <2>1, FileNat
  <2>3. QED
    BY <1>1, <2>1, <2>2, FileNat
<1>4. QED
  BY <1>2, <1>3

\* Steps that touch no destination.
LEMMA Idle == ASSUME UNCHANGED <<dname, data>> PROVE Aims
  BY DEF Aims

\* Every step is of one kind or the other.
LEMMA NextAims == TMInv /\ [Next]_vars => Aims
<1> USE DEF TMInv, MInv, TInv, CurInv, TGInv, InCopy, InMove, InNode, Untaken, Unopened, Opened,
       Closing, Asking, Agreed, Renewing, Below
<1>1. ASSUME TMInv, NextFile PROVE Aims
  BY <1>1, Idle DEF NextFile, NoMoreFiles
<1>2. ASSUME TMInv, AfterFile PROVE Aims
  BY <1>2, Idle DEF AfterFile
<1>3. ASSUME TMInv, MoveLstat PROVE Aims
  BY <1>3, Idle DEF MoveLstat
<1>4. ASSUME TMInv, MoveDst PROVE Aims
  BY <1>4, Idle DEF MoveDst, QueryReplace, Promise
<1>5. ASSUME TMInv, MoveRename PROVE Aims
  <2>1. cur \in File
    BY <1>5 DEF MoveRename
  <2>2. dst0[cur] \in OldKinds => asked[cur] # "create"
    BY <1>5 DEF MoveRename, ToldInv
  <2>3. /\ \A f \in File : f # cur => dname'[f] = dname[f]
        /\ \A f \in File : f # cur => data'[f] = data[f]
    BY <1>5, <2>1 DEF MoveRename, Remade, Whole, TypeOK
  <2>4. dname[cur] \in {0, cur} \/ data' = data
    BY <1>5 DEF MoveRename, Remade, Whole, NamesInv, AfterInv
  <2>5. QED
    BY <1>5, <2>1, <2>2, <2>3, <2>4, Aimed
<1>6. ASSUME TMInv, MoveAfter PROVE Aims
  BY <1>6, Idle DEF MoveAfter, CopyFailed
<1>7. ASSUME TMInv, MoveUnlink PROVE Aims
  BY <1>7, Idle DEF MoveUnlink
<1>8. ASSUME TMInv, CopyBegin PROVE Aims
  BY <1>8, Idle DEF CopyBegin
<1>9. ASSUME TMInv, CopyDst PROVE Aims
  BY <1>9, Idle DEF CopyDst
<1>10. ASSUME TMInv, CopyStat PROVE Aims
  BY <1>10, Idle DEF CopyStat
<1>11. ASSUME TMInv, CopyAsk PROVE Aims
  BY <1>11, Idle DEF CopyAsk, AskOverwrite, QueryReplace, Promise
<1>12. ASSUME TMInv, CopyLink PROVE Aims
  <2>1. cur \in File
    BY <1>12 DEF CopyLink
  <2>2. dst0[cur] \in OldKinds => asked[cur] # "create"
    BY <1>12 DEF CopyLink, ToldInv
  <2>3. /\ \A f \in File : f # cur => dname'[f] = dname[f]
        /\ \A f \in File : f # cur => data'[f] = data[f]
    BY <1>12, <2>1 DEF CopyLink, CallFor, LinkMade, TypeOK
  <2>4. dname[cur] \in {0, cur} \/ data' = data
    BY <1>12 DEF CopyLink, CallFor, LinkMade, NamesInv, AfterInv
  <2>5. QED
    BY <1>12, <2>1, <2>2, <2>3, <2>4, Aimed
<1>13. ASSUME TMInv, LinkRead PROVE Aims
  BY <1>13, Idle DEF LinkRead, LinkReturn
<1>14. ASSUME TMInv, LinkMake PROVE Aims
  <2>1. cur \in File
    BY <1>14 DEF LinkMake
  <2>2. dst0[cur] \in OldKinds => asked[cur] # "create"
    BY <1>14 DEF LinkMake, ToldInv
  <2>3. /\ \A f \in File : f # cur => dname'[f] = dname[f]
        /\ \A f \in File : f # cur => data'[f] = data[f]
    BY <1>14, <2>1 DEF LinkMake, LinkReturn, Whole, TypeOK
  <2>4. dname[cur] \in {0, cur} \/ data' = data
    BY <1>14 DEF LinkMake, LinkReturn, Whole, NamesInv, AfterInv
  <2>5. QED
    BY <1>14, <2>1, <2>2, <2>3, <2>4, Aimed
<1>15. ASSUME TMInv, NodeMake PROVE Aims
  <2>1. cur \in File
    BY <1>15 DEF NodeMake
  <2>2. dst0[cur] \in OldKinds => asked[cur] # "create"
    BY <1>15 DEF NodeMake, ToldInv
  <2>3. /\ \A f \in File : f # cur => dname'[f] = dname[f]
        /\ \A f \in File : f # cur => data'[f] = data[f]
    BY <1>15, <2>1 DEF NodeMake, Whole, TypeOK
  <2>4. dname[cur] \in {0, cur} \/ data' = data
    BY <1>15 DEF NodeMake, Whole, NamesInv, AfterInv
  <2>5. QED
    BY <1>15, <2>1, <2>2, <2>3, <2>4, Aimed
<1>16. ASSUME TMInv, NodeAttr PROVE Aims
  BY <1>16, Idle DEF NodeAttr
<1>17. ASSUME TMInv, CopyOpen PROVE Aims
  BY <1>17, Idle DEF CopyOpen, ClearAppend
<1>18. ASSUME TMInv, CopySeek PROVE Aims
  BY <1>18, Idle DEF CopySeek
<1>19. ASSUME TMInv, CopyFstat PROVE Aims
  BY <1>19, Idle DEF CopyFstat, ClearAppend, Bail
<1>20. ASSUME TMInv, CopyCreate PROVE Aims
  <2>1. cur \in File
    BY <1>20 DEF CopyCreate
  <2>2. dst0[cur] \in OldKinds => asked[cur] # "create"
    BY <1>20 DEF CopyCreate, ToldInv
  <2>3. /\ \A f \in File : f # cur => dname'[f] = dname[f]
        /\ \A f \in File : f # cur => data'[f] = data[f]
    BY <1>20, <2>1 DEF CopyCreate, ClearAppend, Bail, Before, TypeOK, NamesInv
  <2>4. dname[cur] \in {0, cur} \/ data' = data
    BY <1>20 DEF CopyCreate, ClearAppend, Bail, Before, NamesInv, AfterInv
  <2>5. QED
    BY <1>20, <2>1, <2>2, <2>3, <2>4, Aimed
<1>21. ASSUME TMInv, CopyFstat2 PROVE Aims
  BY <1>21, Idle DEF CopyFstat2, Bail
<1>22. ASSUME TMInv, CopyShow PROVE Aims
  BY <1>22, Idle DEF CopyShow
<1>23. ASSUME TMInv, CopyRead PROVE Aims
  BY <1>23, Idle DEF CopyRead, Bail, Eof
<1>24. ASSUME TMInv, CopyWrite PROVE Aims
  <2>1. cur \in File
    BY <1>24 DEF CopyWrite
  <2>2. dst0[cur] \in OldKinds => asked[cur] # "create"
    BY <1>24 DEF CopyWrite, ToldInv
  <2>3. /\ \A f \in File : f # cur => dname'[f] = dname[f]
        /\ \A f \in File : f # cur => data'[f] = data[f]
    BY <1>24, <2>1 DEF CopyWrite, Bail, Grown, TypeOK, AfterInv
  <2>4. dname[cur] \in {0, cur} \/ data' = data
    BY <1>24 DEF CopyWrite, Bail, Grown, NamesInv, AfterInv
  <2>5. QED
    BY <1>24, <2>1, <2>2, <2>3, <2>4, Aimed
<1>25. ASSUME TMInv, CopyCloseSrc PROVE Aims
  BY <1>25, Idle DEF CopyCloseSrc
<1>26. ASSUME TMInv, CopyCloseDst PROVE Aims
  BY <1>26, Idle DEF CopyCloseDst
<1>27. ASSUME TMInv, CopyEnd PROVE Aims
  <2>1. cur \in File
    BY <1>27 DEF CopyEnd
  <2>2. dst0[cur] \in OldKinds => asked[cur] # "create"
    BY <1>27 DEF CopyEnd, ToldInv
  <2>3. /\ \A f \in File : f # cur => dname'[f] = dname[f]
        /\ \A f \in File : f # cur => data'[f] = data[f]
    BY <1>27, <2>1 DEF CopyEnd, TypeOK
  <2>4. dname[cur] \in {0, cur} \/ data' = data
    BY <1>27 DEF CopyEnd, NamesInv, AfterInv
  <2>5. QED
    BY <1>27, <2>1, <2>2, <2>3, <2>4, Aimed
<1>28. ASSUME UNCHANGED vars PROVE Aims
  BY <1>28, Idle DEF vars
<1>29. QED
  BY <1>1, <1>2, <1>3, <1>4, <1>5, <1>6, <1>7, <1>8, <1>9, <1>10, <1>11, <1>12,
     <1>13, <1>14, <1>15, <1>16, <1>17, <1>18, <1>19, <1>20, <1>21, <1>22, <1>23,
     <1>24, <1>25, <1>26, <1>27, <1>28
     DEF Next, Done, Step, CopyStep, MoveStep

\* Whatever is done for one file touches its own destination only, and an old one only
\* after the user agreed to that: no call of the loop, for any number of files, goes round the
\* question (panel_operate, copy_file_file, make_symlink, check_hardlinks).
THEOREM TargetsAsAsked == Spec => OnlyTheAskedTarget
<1>1. TMInv /\ [Next]_vars => [Aims]_vars
  BY NextAims
<1>2. QED
  BY <1>1, TargetHolds, PTL DEF Spec, OnlyTheAskedTarget, Aims
===========================================================================
