------------------------------- MODULE TreeOps -------------------------------
(***************************************************************************)
(* Copying, moving and deleting marked directories: the loop of            *)
(* panel_operate with copy_dir_dir, move_dir_dir, erase_dir and            *)
(* recursive_erase (src/file.c), which recurse through the source tree.    *)
(* A file is copied or moved in one step here, with the outcomes that the  *)
(* module FileCopy shows it can have.  Every call may fail; what the user  *)
(* answers is part of the step.  Meanwhile other programs may put files    *)
(* into the source tree.                                                   *)
(*                                                                         *)
(* The destination lies outside the source tree, which has no cyclic       *)
(* symbolic links and no hard-linked directories: the lists dest_dirs and  *)
(* parent_dirs find nothing.  erase_at_end is always set.                  *)
(***************************************************************************)
EXTENDS Integers, Sequences

CONSTANTS Node, Dir,    \* the files and directories; the directories
          Parent,       \* the directory a node is in, 0 for the panel's
          Below,        \* the subtree of a node
          Marked,       \* the marked entries in panel order
          Late,         \* files that are not there at first
          Links,        \* names of one file
          Ops,          \* the operations a run looks at
          MaxMishaps    \* bound: failures and presses of Skip/Abort/Retry

ASSUME TreeAssumption ==
  /\ Node \subseteq Nat \ {0} /\ Dir \subseteq Node
  /\ Parent \in [Node -> Dir \cup {0}]
  /\ Below \in [Node -> SUBSET Node]
  /\ \A n \in Node : Below[n] = {n} \cup UNION {Below[m] : m \in {k \in Node : Parent[k] = n}}
  /\ \A m, n \in Node : m # n /\ Parent[m] = Parent[n] => Below[m] \cap Below[n] = {}
  /\ \A m, n \in Node :
       m \in Below[n] => Below[m] \subseteq Below[n] /\ (m # n => Parent[m] \in Below[n])
  /\ Late \cup Links \subseteq Node \ Dir
  /\ Marked \in Seq({n \in Node \ Late : Parent[n] = 0})
  /\ \A j, k \in 1..Len(Marked) : Marked[j] = Marked[k] => j = k
  /\ Ops \subseteq {"COPY", "MOVE", "DELETE"} /\ MaxMishaps \in Nat

VARIABLES
  op, dive,           \* the operation; ctx->dive_into_subdirs
  src, came,          \* the source nodes that exist; those that ever did
  dst,                \* what is at the destination name of a node
  linked,             \* the name of Links in the cache linklist, or 0
  marked, i,          \* entries still marked; the number of the one at work
  recursive, agreed,  \* ctx->recursive_result; what was deleted with consent
  erase_list,
  stack,              \* calls of copy_dir_dir or recursive_erase
  pc, ret,            \* the call about to be made; what the last one returned
  aborted,            \* the user pressed Abort
  mishaps

treeVars == <<src, came, dst, linked>>
opVars   == <<op, dive, marked, i, recursive, agreed>>
vars == <<treeVars, opVars, erase_list, stack, pc, ret, aborted, mishaps>>

GiveUp == {"SKIP", "ABORT"}
Status == GiveUp \cup {"CONT", "RETRY"}
Answers == {"YES", "NO", "ALWAYS", "NEVER", "ABORT"}

\* A call for the directory d: the entries it has been through, its status.
Frame(d, seen, st) == [dir |-> d, seen |-> seen, st |-> st]

Root == Marked[i]
Top == stack[Len(stack)]
Rest == SubSeq(stack, 1, Len(stack) - 1)
Call(d) == stack' = Append(stack, Frame(d, {}, "CONT"))
Goto(l) == pc' = l

In(d) == {n \in src : Parent[n] = d}

Init ==
  /\ op \in Ops /\ dive \in {0, 1}
  /\ src = Node \ Late /\ came = src
  /\ dst \in [Node -> {"none", "old", "dir"}]
  /\ \A n \in Node : Parent[n] # 0 /\ dst[n] # "none" => dst[Parent[n]] = "dir"
  /\ linked = 0 /\ marked = {Marked[k] : k \in 1..Len(Marked)} /\ i = 0
  /\ recursive = "YES" /\ agreed = {} /\ erase_list = <<>> /\ stack = <<>>
  /\ pc = "next" /\ ret = "CONT" /\ aborted = 0 /\ mishaps = 0

---------------------------------------------------------------------------
(* What the user answers *)

Mishap == mishaps < MaxMishaps /\ mishaps' = mishaps + 1
Fine   == UNCHANGED mishaps
Heard(st) == aborted' = IF st = "ABORT" THEN 1 ELSE aborted

\* An error dialog ends in Skip or Abort; Retry starts the call over.
Fails(st) == st \in GiveUp /\ Mishap /\ Heard(st)

\* The same for an error that no Retry makes go away.
Refused(st) == st \in GiveUp /\ Fine /\ Heard(st)

\* Abort is pressed while the progress of an operation is shown.
Interrupted == Fails("ABORT")

Works == Fine /\ UNCHANGED aborted

---------------------------------------------------------------------------
(* Returning to the caller *)

Erasable_Skipped(st) == st # "ABORT"
Erasable(st) == st = "CONT"

\* copy_dir_dir is back from the entry n with st: a node copied by a move is
\* put on the list of those to erase.
EntryDone(frames, n, st) ==
  LET f == frames[Len(frames)]
  IN /\ stack' = [frames EXCEPT ![Len(frames)] = Frame(f.dir, f.seen \cup {n}, st)]
     /\ erase_list' = IF op = "MOVE" /\ Erasable(st) THEN Append(erase_list, n) ELSE erase_list
     /\ Goto("entry") /\ UNCHANGED ret

\* copy_dir_dir itself returns st.
CopyDirReturn(st) ==
  IF Rest # <<>> THEN EntryDone(Rest, Top.dir, st)
  ELSE /\ stack' = <<>> /\ ret' = st
       /\ Goto(IF op = "COPY" THEN "after" ELSE "m_copied")
       /\ UNCHANGED erase_list

\* recursive_erase returns st; its caller makes of that 0 or 1, FILE_RETRY.
EraseReturn(st) ==
  IF Rest = <<>> THEN stack' = <<>> /\ ret' = st /\ Goto("after")
  ELSE LET f == Rest[Len(Rest)]
       IN /\ stack' = [Rest EXCEPT ![Len(Rest)] =
                         Frame(f.dir, f.seen \cup {Top.dir}, IF st = "CONT" THEN "CONT" ELSE "RETRY")]
          /\ Goto("d_entry") /\ UNCHANGED ret

Return(st) == ret' = st /\ Goto("after") /\ UNCHANGED <<stack, erase_list>>

SetStatus(st) == stack' = Append(Rest, Frame(Top.dir, Top.seen, st))
Retried == Mishap /\ UNCHANGED aborted /\ SetStatus("RETRY")

---------------------------------------------------------------------------
(* copy_file_file, for the file n with the outcome st *)

Cached(n) == linked' = IF n \in Links /\ linked = 0 THEN n ELSE linked

copy_file_file(n, st) ==
  \/ /\ dst[n] # "dir" /\ dst' = [dst EXCEPT ![n] = "whole"] /\ Cached(n)
     /\ \/ st = "CONT" /\ Works
        \/ st = "RETRY" /\ Mishap /\ UNCHANGED aborted       \* after a Retry at end of file
  \/ /\ n \in Links /\ linked \in src \ {n} /\ dst[n] = "none" /\ dst[linked] \notin {"none", "dir"}
     /\ st = "RETRY" /\ Works                                \* the status of a hard link
     /\ dst' = [dst EXCEPT ![n] = dst[linked]] /\ UNCHANGED linked
  \/ /\ dst[n] # "dir" /\ Fails(st)
     /\ \E d \in {dst[n], "none", "part", "whole"} : dst' = [dst EXCEPT ![n] = d]
     /\ Cached(n) \/ UNCHANGED linked
  \/ dst[n] = "dir" /\ Refused(st) /\ UNCHANGED <<dst, linked>>

---------------------------------------------------------------------------
(* copy_dir_dir *)

CopyStat ==
  /\ pc = "stat"
  /\ \/ Works /\ Goto("dst_stat") /\ UNCHANGED <<stack, ret, erase_list>>
     \/ Retried /\ UNCHANGED <<pc, ret, erase_list>>
     \/ \E st \in GiveUp : Fails(st) /\ CopyDirReturn(st)
  /\ UNCHANGED <<treeVars, opVars>>

\* With dive_into_subdirs a directory is made in the one that is there.
Mkdir == dst[Top.dir] = "none" \/ (dive = 1 /\ op = "COPY" /\ Rest = <<>>)

CopyDstStat ==
  /\ pc = "dst_stat"
  /\ \/ /\ dst[Top.dir] # "old" /\ Works
        /\ Goto(IF Mkdir THEN "mkdir" ELSE "opendir") /\ UNCHANGED <<stack, ret, erase_list>>
     \/ /\ dst[Top.dir] = "old"
        /\ \E st \in GiveUp : Refused(st) /\ CopyDirReturn(st)
  /\ UNCHANGED <<treeVars, opVars>>

MkdirFailed_GoesOn(st) == Goto("opendir") /\ UNCHANGED <<stack, ret, erase_list>>
MkdirFailed(st) == CopyDirReturn(st)

\* my_mkdir, and mc_chown for the superuser.
CopyMkdir ==
  /\ pc = "mkdir"
  /\ \/ /\ dst[Top.dir] = "none" /\ dst' = [dst EXCEPT ![Top.dir] = "dir"]
        /\ \/ Works /\ Goto("opendir") /\ UNCHANGED <<stack, ret, erase_list>>
           \/ \E st \in GiveUp : Fails(st) /\ CopyDirReturn(st)
     \/ Retried /\ UNCHANGED <<dst, pc, ret, erase_list>>
     \/ \E st \in GiveUp : Fails(st) /\ MkdirFailed(st) /\ UNCHANGED dst
     \/ dst[Top.dir] # "none" /\ (\E st \in GiveUp : Refused(st) /\ CopyDirReturn(st)) /\ UNCHANGED dst
  /\ UNCHANGED <<src, came, linked, opVars>>

\* A directory that cannot be read is passed over in silence.
CopyOpendir ==
  /\ pc = "opendir"
  /\ \/ Works /\ Goto("entry") /\ UNCHANGED <<stack, ret, erase_list>>
     \/ Mishap /\ UNCHANGED aborted /\ CopyDirReturn(Top.st)
  /\ UNCHANGED <<treeVars, opVars>>

\* readdir may or may not tell of what came since the directory was opened.
Unseen == In(Top.dir) \ Top.seen

LastEntry_Aborts == FALSE
LastEntry == Top.st = "ABORT"

CopyEntry ==
  /\ pc = "entry" /\ ~ LastEntry
  /\ \E n \in Unseen :
       \/ /\ n \in Dir /\ Works
          /\ Call(n) /\ Goto("stat") /\ UNCHANGED <<dst, linked, ret, erase_list>>
       \/ \E st \in GiveUp : Fails(st) /\ EntryDone(stack, n, st) /\ UNCHANGED <<dst, linked>>
       \/ n \notin Dir /\ \E st \in Status : copy_file_file(n, st) /\ EntryDone(stack, n, st)
  /\ UNCHANGED <<src, came, opVars>>

CopyDirDone ==
  /\ pc = "entry" /\ (LastEntry \/ Unseen \subseteq Late)
  /\ Works /\ CopyDirReturn(Top.st)
  /\ UNCHANGED <<treeVars, opVars>>

---------------------------------------------------------------------------
(* erase_file and erase_dir_iff_empty *)

erase_file(n, st) ==
  \/ src' = src \ {n} /\ st = "CONT" /\ Works
  \/ UNCHANGED src /\ Fails(st)

erase_dir_iff_empty(n, st) ==
  \/ In(n) = {} /\ src' = src \ {n} /\ st = "CONT" /\ Works
  \/ In(n) # {} /\ UNCHANGED src /\ st = "CONT" /\ Works
  \/ UNCHANGED src /\ Fails(st)
  \/ UNCHANGED <<src, aborted>> /\ st = "CONT" /\ Mishap        \* it cannot be read

---------------------------------------------------------------------------
(* move_dir_dir and move_file_file *)

MoveDir ==
  /\ pc = "m_dir"
  /\ \/ Interrupted /\ Return("ABORT")
     \/ dst[Root] = "none" /\ Works /\ Goto("m_rename") /\ UNCHANGED <<stack, ret, erase_list>>
     \/ /\ dst[Root] = "none" /\ Mishap /\ UNCHANGED aborted      \* dbuf was never written
        /\ Return("SKIP")
     \/ /\ dst[Root] = "dir" /\ dive = 0 /\ Works
        /\ Call(Root) /\ Goto("stat") /\ UNCHANGED <<ret, erase_list>>
     \/ /\ dst[Root] = "old" \/ (dst[Root] = "dir" /\ dive = 1)
        /\ \E st \in GiveUp : Refused(st) /\ Return(st)
  /\ UNCHANGED <<treeVars, opVars>>

Moved(ns) == [n \in Node |-> IF n \notin ns THEN dst[n] ELSE IF n \in Dir THEN "dir" ELSE "whole"]

\* The whole subtree changes its name, or the rename would cross devices.
MoveDirRename ==
  /\ pc = "m_rename"
  /\ \/ /\ Works /\ Return("CONT")
        /\ src' = src \ Below[Root] /\ dst' = Moved(src \cap Below[Root])
     \/ Works /\ Call(Root) /\ Goto("stat") /\ UNCHANGED <<ret, erase_list, src, dst>>
     \/ Mishap /\ UNCHANGED <<pc, stack, ret, erase_list, aborted, src, dst>>
     \/ \E st \in GiveUp : Fails(st) /\ Return(st) /\ UNCHANGED <<src, dst>>
  /\ UNCHANGED <<came, linked, opVars>>

DropList_Not(st) == ret' = st /\ Goto("after") /\ UNCHANGED <<stack, erase_list>>
DropList(st) == ret' = st /\ Goto("after") /\ erase_list' = <<>> /\ UNCHANGED stack

MoveCopied ==
  /\ pc = "m_copied"
  /\ \/ ret # "CONT" /\ Works /\ DropList(ret)
     \/ ret = "CONT" /\ Works /\ Goto("m_erase") /\ UNCHANGED <<stack, ret, erase_list>>
     \/ ret = "CONT" /\ \E st \in GiveUp : Fails(st) /\ DropList(st)
  /\ UNCHANGED <<treeVars, opVars>>

ListRest_OnlyErased == IF Head(erase_list) \in src' THEN erase_list ELSE Tail(erase_list)
ListRest == Tail(erase_list)

MoveErase ==
  /\ pc = "m_erase" /\ erase_list # <<>> /\ ret # "ABORT"
  /\ \E st \in Status :
       /\ ret' = st
       /\ IF Head(erase_list) \in Dir THEN erase_dir_iff_empty(Head(erase_list), st)
                                      ELSE erase_file(Head(erase_list), st)
  /\ erase_list' = ListRest
  /\ UNCHANGED <<came, dst, linked, opVars, stack, pc>>

\* Nobody looks at what the last erase_dir_iff_empty returns.
MoveEraseLast ==
  /\ pc = "m_erase" /\ (erase_list = <<>> \/ ret = "ABORT")
  /\ \E st \in Status : erase_dir_iff_empty(Root, st)
  /\ DropList(ret)
  /\ UNCHANGED <<came, dst, linked, opVars>>

MoveFile ==
  /\ pc = "m_file"
  /\ \E st \in Status :
       /\ Return(st)
       /\ \/ /\ dst[Root] # "dir"
             /\ src' = src \ {Root} /\ dst' = [dst EXCEPT ![Root] = "whole"]
             /\ \/ st = "CONT" /\ Works
                \/ Fails(st)                                     \* the progress update
                \/ st = "RETRY" /\ Mishap /\ UNCHANGED aborted   \* unlinked at a second try
             /\ Cached(Root) \/ UNCHANGED linked
          \/ st # "CONT" /\ copy_file_file(Root, st) /\ UNCHANGED src
  /\ UNCHANGED <<came, opVars>>

CopyFile ==
  /\ pc = "c_file"
  /\ \E st \in Status : copy_file_file(Root, st) /\ Return(st)
  /\ UNCHANGED <<src, came, opVars>>

---------------------------------------------------------------------------
(* erase_dir and recursive_erase *)

EraseFile ==
  /\ pc = "d_file"
  /\ \/ \E st \in Status : erase_file(Root, st) /\ Return(st)
     \/ \E st \in GiveUp : src' = src \ {Root} /\ Fails(st) /\ Return(st)   \* the progress update
  /\ UNCHANGED <<came, dst, linked, opVars>>

EraseDir ==
  /\ pc = "d_dir"
  /\ \/ Interrupted /\ Return("ABORT")
     \/ In(Root) # {} /\ Works /\ Goto("d_ask") /\ UNCHANGED <<stack, ret, erase_list>>
     \/ In(Root) = {} /\ Works /\ Goto("d_rmdir") /\ UNCHANGED <<stack, ret, erase_list>>
     \/ Mishap /\ UNCHANGED aborted /\ Goto("d_rmdir") /\ UNCHANGED <<stack, ret, erase_list>>
  /\ UNCHANGED <<treeVars, opVars>>

Consent_Always(a) == TRUE
Consent(a) == a \in {"YES", "ALWAYS"}

\* query_recursive: All and None are kept, the rest is asked for again.
EraseAsk ==
  /\ pc = "d_ask" /\ Fine
  /\ \E a \in IF recursive \in {"YES", "NO"} THEN Answers ELSE {recursive} :
       /\ recursive' = a /\ Heard(a)
       /\ agreed' = IF a \in {"YES", "ALWAYS"} THEN agreed \cup Below[Root] ELSE agreed
       /\ \/ Consent(a) /\ Call(Root) /\ Goto("d_opendir") /\ UNCHANGED <<ret, erase_list>>
          \/ ~ Consent(a) /\ Return(IF a = "ABORT" THEN "ABORT" ELSE "SKIP")
  /\ UNCHANGED <<treeVars, op, dive, marked, i>>

EraseRmdir ==
  /\ pc = "d_rmdir"
  /\ \/ In(Root) = {} /\ src' = src \ {Root} /\ Works /\ Return("CONT")
     \/ UNCHANGED src /\ \E st \in GiveUp : Fails(st) /\ Return(st)
     \/ In(Root) # {} /\ UNCHANGED src /\ \E st \in GiveUp : Refused(st) /\ Return(st)
  /\ UNCHANGED <<came, dst, linked, opVars>>

EraseOpendir ==
  /\ pc = "d_opendir"
  /\ \/ Works /\ Goto("d_entry") /\ UNCHANGED <<stack, ret>>
     \/ Mishap /\ UNCHANGED aborted /\ EraseReturn("RETRY")
  /\ UNCHANGED <<treeVars, opVars, erase_list>>

EraseEntry ==
  /\ pc = "d_entry" /\ Top.st = "CONT"
  /\ \E n \in Unseen :
       \/ UNCHANGED <<src, aborted>> /\ Mishap /\ EraseReturn("RETRY")      \* no lstat
       \/ n \in Dir /\ Works /\ Call(n) /\ Goto("d_opendir") /\ UNCHANGED <<src, ret>>
       \/ /\ n \notin Dir
          /\ \E st \in Status :
               /\ erase_file(n, st) \/ (st # "CONT" /\ src' = src \ {n} /\ Fails(st))
               /\ stack' = Append(Rest, Frame(Top.dir, Top.seen \cup {n}, st))
          /\ UNCHANGED <<pc, ret>>
  /\ UNCHANGED <<came, dst, linked, opVars, erase_list>>

EraseEntries ==
  /\ pc = "d_entry" /\ (Top.st # "CONT" \/ Unseen \subseteq Late)
  /\ Works
  /\ IF Top.st # "CONT" THEN EraseReturn(Top.st) ELSE Goto("d_rmdirs") /\ UNCHANGED <<stack, ret>>
  /\ UNCHANGED <<treeVars, opVars, erase_list>>

EraseRmdirs ==
  /\ pc = "d_rmdirs"
  /\ \/ In(Top.dir) = {} /\ src' = src \ {Top.dir} /\ Works /\ EraseReturn("CONT")
     \/ UNCHANGED src /\ \E st \in GiveUp : Fails(st) /\ EraseReturn(st)
     \/ In(Top.dir) # {} /\ UNCHANGED src /\ \E st \in GiveUp : Refused(st) /\ EraseReturn(st)
  /\ UNCHANGED <<came, dst, linked, opVars, erase_list>>

---------------------------------------------------------------------------
(* The loop of panel_operate over the marked entries *)

First == [COPY |-> [dir |-> "stat", file |-> "c_file"],
          MOVE |-> [dir |-> "m_dir", file |-> "m_file"],
          DELETE |-> [dir |-> "d_dir", file |-> "d_file"]]

NextIndex == i + 1

NextRoot ==
  /\ pc = "next" /\ i < Len(Marked) /\ Works
  /\ i' = NextIndex
  /\ LET r == Marked[i + 1]
     IN /\ IF r \in Dir THEN Goto(First[op].dir) ELSE Goto(First[op].file)
        /\ IF r \in Dir /\ op = "COPY" THEN Call(r) ELSE UNCHANGED stack
  /\ UNCHANGED <<treeVars, op, dive, marked, recursive, agreed, ret, erase_list>>

NoMoreRoots ==
  /\ pc = "next" /\ i = Len(Marked) /\ Works
  /\ Goto("done") /\ UNCHANGED <<treeVars, opVars, erase_list, stack, ret>>

Untags_Skipped == ret \in {"CONT", "SKIP"}
Untags == ret = "CONT"

AfterRoot ==
  /\ pc = "after"
  /\ marked' = IF Untags THEN marked \ {Root} ELSE marked
  /\ \/ Works /\ Goto(IF ret = "ABORT" THEN "done" ELSE "next")
     \/ Interrupted /\ Goto("done")
  /\ UNCHANGED <<treeVars, op, dive, i, recursive, agreed, erase_list, stack, ret>>

\* Another program puts a file into the source tree.
Appear(n) ==
  /\ pc # "done" /\ n \in Late \ came /\ Parent[n] \in src
  /\ src' = src \cup {n} /\ came' = came \cup {n}
  /\ UNCHANGED <<dst, linked, opVars, erase_list, stack, pc, ret, aborted, mishaps>>

Done == pc = "done" /\ UNCHANGED vars

CopyStep == CopyStat \/ CopyDstStat \/ CopyMkdir \/ CopyOpendir \/ CopyEntry \/ CopyDirDone \/ CopyFile
MoveStep == MoveDir \/ MoveDirRename \/ MoveCopied \/ MoveErase \/ MoveEraseLast \/ MoveFile
EraseStep == \/ EraseFile \/ EraseDir \/ EraseAsk \/ EraseRmdir
             \/ EraseOpendir \/ EraseEntry \/ EraseEntries \/ EraseRmdirs
Step == NextRoot \/ NoMoreRoots \/ AfterRoot \/ CopyStep \/ MoveStep \/ EraseStep

Next == Step \/ (\E n \in Late : Appear(n)) \/ Done

Spec == Init /\ [][Next]_vars

\* The loop is sequential code and the user answers every dialog.
FairSpec == Spec /\ WF_vars(Step)

---------------------------------------------------------------------------
(* Properties *)

Labels == {"next", "after", "done", "stat", "dst_stat", "mkdir", "opendir", "entry", "c_file",
           "m_dir", "m_rename", "m_copied", "m_erase", "m_file", "d_file", "d_dir", "d_ask",
           "d_rmdir", "d_opendir", "d_entry", "d_rmdirs"}

\* Every variable keeps its kind; a call in progress is for a directory, and
\* the loop is at a marked entry when it works on one.
TypeOK ==
  /\ op \in Ops /\ dive \in {0, 1} /\ src \subseteq came /\ came \subseteq Node
  /\ dst \in [Node -> {"none", "old", "dir", "part", "whole"}]
  /\ linked \in Links \cup {0} /\ marked \subseteq Node
  /\ i \in 0..Len(Marked) /\ (pc \notin {"next", "done"} => i > 0)
  /\ recursive \in Answers /\ agreed \subseteq Node
  /\ erase_list \in Seq(Node)
  /\ stack \in Seq([dir : Dir, seen : SUBSET Node, st : Status])
  /\ pc \in Labels /\ ret \in Status /\ aborted \in {0, 1} /\ mishaps \in Nat

\* What is at the destination name of n is the copy of it.
Arrived(n) == dst[n] = IF n \in Dir THEN "dir" ELSE "whole"

\* A move loses nothing: whatever fails, and though files are added while it
\* runs, what is no longer in the source tree is whole at the destination
\* (move_dir_dir, erase_list, erase_dir_iff_empty).
MoveLosesNothing == op = "MOVE" => \A n \in came \ src : Arrived(n)

\* The list of what a move will erase holds only nodes that were copied, and
\* nothing of an earlier entry: it is empty between two entries.
EraseListIsOurs ==
  /\ \A k \in 1..Len(erase_list) : Arrived(erase_list[k])
  /\ pc \in {"next", "m_dir", "m_file", "done"} => erase_list = <<>>

\* Nothing is copied to a directory that could not be made (copy_dir_dir).
CopiesHaveDirectories ==
  \A n \in came : Parent[n] # 0 /\ dst[n] # "none" => dst[Parent[n]] = "dir"

\* A directory with something in it is deleted only with the user's consent
\* to that, All and None included, although files are added between the check
\* and the deletion (check_dir_is_empty, query_recursive).
DeletedWithConsent ==
  op = "DELETE" => \A n \in came \ src : Parent[n] = 0 \/ n \in agreed

\* "only the files on which the operation succeeded are untagged": an entry of
\* a deletion that lost its mark is gone with everything in it.
UntaggedIsGone ==
  op = "DELETE" =>
    \A k \in 1..Len(Marked) : Marked[k] \notin marked => Below[Marked[k]] \cap src = {}

\* After Abort a copy changes nothing more, however deep in the tree it was
\* (the FILE_ABORT tests of copy_dir_dir and panel_operate).
CopyStopsAtAbort ==
  [][op = "COPY" /\ aborted = 1 => UNCHANGED dst]_vars

\* The operation comes to its end.
OperationEnds == <>(pc = "done")

\* "Pressing the Abort button will abort the whole operation, the rest of the
\* files are skipped" (mc.1.in:2204): also when files are deleted.
DeletionStopsAtAbort ==
  [][op = "DELETE" /\ aborted = 1 => src \subseteq src']_vars
=============================================================================
