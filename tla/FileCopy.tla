------------------------------ MODULE FileCopy ------------------------------
(***************************************************************************)
(* Copying or moving the marked files of a panel: the "many files" loop of *)
(* panel_operate (src/file.c) with move_file_file, copy_file_file and      *)
(* check_hardlinks, call by call.  Every system call may fail; the failure *)
(* opens a modal dialog whose answer (Skip, Retry, Abort) is part of the   *)
(* same step, because nothing else runs while it is open.  A file is       *)
(* Blocks blocks long; a block is the unit of a short read or write.       *)
(*                                                                         *)
(* A marked entry is a regular file, a symbolic link or a special file.     *)
(* Destinations that exist beforehand are distinct files or symbolic links *)
(* to such, and no two sources are given one destination name.             *)
(***************************************************************************)
EXTENDS Integers

CONSTANTS N,            \* number of marked files, handled in panel order 1..N
          Blocks,       \* length of a source file
          OldSizes,     \* lengths of the destination files that exist beforehand
          BufBlocks,    \* blocks read at once
          MaxMishaps,   \* bound: failures and presses of Skip/Abort together
          FollowLinks,  \* ctx->follow_links
          Ops,          \* the operations a run looks at, of {"COPY", "MOVE"}
          Sources       \* what is marked, of {"file", "link", "special"}

ASSUME FileCopyAssumption ==
  /\ N \in Nat /\ Blocks \in Nat /\ OldSizes \subseteq Nat
  /\ BufBlocks \in Nat \ {0} /\ MaxMishaps \in Nat
  /\ FollowLinks \in {0, 1} /\ Ops \subseteq {"COPY", "MOVE"}
  /\ Sources \subseteq {"file", "link", "special"}

File  == 1..N
File0 == File \cup {0}     \* 0 for none

VARIABLES
  op, confirm, stable, \* the operation; confirm_overwrite; ctx->stable_symlinks
  ino, kind,          \* the inode a source name refers to; what each inode is
  dst0, old,          \* what is at the destination name at the start; its length
  src,                \* the source names that still exist
  dname,              \* the inode at a destination name, 0 for none
  data,               \* what a destination inode holds
  marked,             \* entries still marked in the panel
  asked,              \* what the user was told would happen to a destination
  linklist,           \* per source inode, the file whose copy is cached, or 0
  append, reget,      \* ctx->do_append, ctx->do_reget
  reply,              \* ui->replace_result, the last answer to "File exists"
  pc, cur,            \* the call about to be made, for which file
  ret,                \* return_status
  dstStatus,          \* dst_status
  appending,
  open,               \* which of src_desc and dest_desc are open
  pos, pend,          \* source blocks read; of those, not yet written
  mishaps

cfgVars == <<op, confirm, stable, ino, kind, dst0, old>>
fsVars  == <<src, dname, data>>
ctxVars == <<append, reget, reply>>
cpVars  == <<dstStatus, appending, open, pos, pend>>
opVars  == <<marked, asked, linklist>>
vars == <<cfgVars, fsVars, opVars, ctxVars, pc, cur, ret, cpVars, mishaps>>

Status == {"CONT", "RETRY", "SKIP", "ABORT"}
Sticky == {"ALWAYS", "UPDATE", "NEVER", "ABORT", "SIZE", "REGET"}
GiveUp == {"SKIP", "ABORT"}     \* the answers that end a file

Labels == {"next", "m_lstat", "m_dst", "m_rename", "m_after", "m_unlink",
           "c_begin", "c_dst", "c_stat", "c_ask", "c_link", "c_open", "c_seek",
           "c_fstat", "c_create", "c_fstat2", "c_show", "c_read", "c_write",
           "c_close", "c_close2", "c_end", "l_read", "l_make", "n_make", "n_attr",
           "after", "done"}

Content == [pre : Nat, of : File0, from : Nat, n : Nat]

\* Inode f at first; a file copied later is the blocks from..from+n-1 of
\* source inode "of" behind "pre" blocks of what was there before.
Untouched(f) == [pre |-> old[f], of |-> 0, from |-> 0, n |-> 0]
Whole(f)     == [pre |-> 0, of |-> ino[f], from |-> 0, n |-> Blocks]

\* Destinations that were there and may be overwritten.
OldKinds == {"file", "link"}

\* An inode has the number of the first file that refers to it.  Options that are
\* not looked at are off, and only a link finds a link instead of a file.
Normal ==
  /\ \A f \in File : ino[f] <= f /\ ino[ino[f]] = ino[f] /\ kind[f] = kind[ino[f]]
  /\ op = "COPY" => confirm = 0 /\ stable = 0
  /\ stable = 1 => \E f \in File : kind[f] = "link"
  /\ \A f \in File : dst0[f] = "link" => kind[f] = "link"

Init ==
  /\ op \in Ops /\ confirm \in {0, 1} /\ stable \in {0, 1}
  /\ ino \in [File -> File] /\ kind \in [File -> Sources]
  /\ dst0 \in [File -> {"none", "same", "dir"} \cup OldKinds]
  /\ old \in [File -> OldSizes \cup {0}]
  /\ \A f \in File : IF dst0[f] \in OldKinds THEN old[f] \in OldSizes ELSE old[f] = 0
  /\ Normal
  /\ src = File
  /\ dname = [f \in File |-> IF dst0[f] = "none" THEN 0 ELSE f]
  /\ data = [f \in File |-> Untouched(f)]
  /\ marked = File
  /\ asked = [f \in File |-> "create"]
  /\ linklist = [i \in File |-> 0]
  /\ append = 0 /\ reget = 0 /\ reply = "YES"
  /\ pc = "next" /\ cur = 0 /\ ret = "CONT"
  /\ dstStatus = "NONE" /\ appending = 0
  /\ open = {} /\ pos = 0 /\ pend = 0
  /\ mishaps = 0
-----------------------------------------------------------------------------
Mishap == mishaps < MaxMishaps /\ mishaps' = mishaps + 1
Fine   == UNCHANGED mishaps

\* check_progress_buttons: the status of a progress update.
Button(st) == IF st = "CONT" THEN Fine ELSE st \in GiveUp /\ Mishap

Goto(l) == pc' = l
Linked(f) == \E g \in File : g # f /\ ino[g] = ino[f]      \* st_nlink > 1

\* copy_file_file returns to panel_operate or to move_file_file.
CopyReturn(st) == ret' = st /\ Goto(IF op = "COPY" THEN "after" ELSE "m_after")
MoveReturn(st) == ret' = st /\ Goto("after")

\* The answers of the "File exists" dialog.  Those from ALWAYS on in the
\* order of the enum are kept in replace_result and not asked for again.
Reply  == {"YES", "NO", "APPEND"} \cup Sticky
Refuse == {"NO", "NEVER", "ABORT"}

ReplyStatus(r, f) ==
  CASE r \in {"YES", "APPEND", "ALWAYS", "REGET"} -> {"CONT"}
    [] r = "UPDATE" -> {"CONT", "SKIP"}           \* by modification time
    [] r = "SIZE" -> {IF Blocks = old[f] THEN "SKIP" ELSE "CONT"}
    [] r \in {"NO", "NEVER"} -> {"SKIP"}
    [] r = "ABORT" -> {"ABORT"}

Promise(r) == IF r = "APPEND" THEN "append"
              ELSE IF r = "REGET" THEN "reget" ELSE "overwrite"

\* file_progress_real_query_replace with status st.
QueryReplace(st) == \E r \in Reply :
  /\ IF reply \in Sticky THEN r = reply /\ Fine
     ELSE /\ r = "REGET" => old[cur] # 0 /\ Blocks > old[cur]
          /\ IF r \in Refuse THEN Mishap ELSE Fine
  /\ st \in ReplyStatus(r, cur)
  /\ reply' = r
  /\ append' = IF r \in {"APPEND", "REGET"} THEN 1 ELSE append
  /\ reget' = IF r = "REGET" THEN old[cur] ELSE reget
  /\ asked' = IF st = "CONT" THEN [asked EXCEPT ![cur] = Promise(r)] ELSE asked

\* Every way out of copy_file_file before the target is open clears do_append.
ClearAppend_Missing == UNCHANGED append
ClearAppend == append' = 0

\* "goto ret" with the answer of the dialog as the status.
Bail == ret' \in GiveUp /\ Goto("c_close")

Kinds == {"create", "overwrite", "append", "reget"}
-----------------------------------------------------------------------------
(* panel_operate *)

NoMoreFiles == cur = N

NextFile ==
  /\ pc = "next"
  /\ IF NoMoreFiles THEN Goto("done") /\ UNCHANGED <<cur, ret, mishaps>>
     ELSE /\ cur' = cur + 1
          /\ \/ op = "COPY" /\ Goto("c_begin") /\ UNCHANGED ret /\ Fine
             \/ op = "MOVE" /\ Goto("m_lstat") /\ ret' = "CONT" /\ Fine
             \/ op = "MOVE" /\ MoveReturn("ABORT") /\ Mishap
  /\ UNCHANGED <<cfgVars, fsVars, opVars, ctxVars, cpVars>>

AfterFile ==
  /\ pc = "after"
  /\ marked' = IF ret = "CONT" THEN marked \ {cur} ELSE marked
  /\ \E st \in {"CONT", "ABORT"} :
       /\ IF ret = "ABORT" THEN st = "ABORT" /\ Fine ELSE Button(st)
       /\ Goto(IF st = "ABORT" THEN "done" ELSE "next")
  /\ UNCHANGED <<cfgVars, fsVars, asked, linklist, ctxVars, cur, ret, cpVars>>
-----------------------------------------------------------------------------
(* move_file_file *)

MoveLstat ==
  /\ pc = "m_lstat"
  /\ \/ Fine /\ Goto("m_dst") /\ UNCHANGED ret
     \/ Mishap /\ ret' = "RETRY" /\ UNCHANGED pc
     \/ Mishap /\ \E st \in GiveUp : MoveReturn(st)
  /\ UNCHANGED <<cfgVars, fsVars, opVars, ctxVars, cur, cpVars>>

MoveDst ==
  /\ pc = "m_dst"
  /\ \/ /\ dst0[cur] = "none"
        /\ Goto("m_rename") /\ UNCHANGED <<ret, asked, ctxVars>> /\ Fine
     \/ /\ dst0[cur] \in {"same", "dir"}
        /\ MoveReturn("SKIP") /\ UNCHANGED <<asked, ctxVars>> /\ Fine
     \/ /\ dst0[cur] \in OldKinds /\ confirm = 0
        /\ Goto("m_rename") /\ asked' = [asked EXCEPT ![cur] = "overwrite"]
        /\ UNCHANGED <<ret, ctxVars>> /\ Fine
     \/ /\ dst0[cur] \in OldKinds /\ confirm = 1
        /\ \E st \in Status :
             /\ QueryReplace(st)
             /\ IF st = "CONT" THEN ret' = "CONT" /\ Goto("m_rename")
                ELSE MoveReturn(st)
  /\ UNCHANGED <<cfgVars, fsVars, marked, linklist, cur, cpVars>>

\* A symbolic link that is to stay stable is made again.
Remade(f) == append = 0 /\ stable = 1 /\ kind[ino[f]] = "link"

\* A rename that fails for whatever reason falls back to copy and delete.
MoveRename ==
  /\ pc = "m_rename"
  /\ \/ /\ append = 0 /\ ~Remade(cur)
        /\ src' = src \ {cur}
        /\ dname' = [dname EXCEPT ![cur] = cur]
        /\ data' = [data EXCEPT ![cur] = Whole(cur)]
        /\ MoveReturn("CONT")
     \/ /\ Goto(IF Remade(cur) THEN "l_read" ELSE "c_begin")
        /\ UNCHANGED <<fsVars, ret>>
  /\ UNCHANGED <<cfgVars, opVars, ctxVars, cur, cpVars, mishaps>>

CopyFailed_SkipIgnored == ret = "ABORT"
CopyFailed == ret # "CONT"

MoveAfter ==
  /\ pc = "m_after"
  /\ IF CopyFailed THEN MoveReturn(ret) /\ Fine
     ELSE \E st \in {"CONT"} \cup GiveUp :
            /\ Button(st)
            /\ IF st = "CONT" THEN Goto("m_unlink") /\ UNCHANGED ret
               ELSE MoveReturn(st)
  /\ UNCHANGED <<cfgVars, fsVars, opVars, ctxVars, cur, cpVars>>

MoveUnlink ==
  /\ pc = "m_unlink"
  /\ \/ /\ src' = src \ {cur}
        /\ \E st \in {"CONT"} \cup GiveUp :
             IF ret = "CONT" THEN Button(st) /\ MoveReturn(st)
             ELSE st = "CONT" /\ Fine /\ MoveReturn(ret)
     \/ Mishap /\ ret' = "RETRY" /\ UNCHANGED <<pc, src>>
     \/ Mishap /\ \E st \in GiveUp : MoveReturn(st) /\ UNCHANGED src
  /\ UNCHANGED <<cfgVars, dname, data, opVars, ctxVars, cur, cpVars>>
-----------------------------------------------------------------------------
(* copy_file_file *)

CopyBegin ==
  /\ pc = "c_begin"
  /\ reget' = 0 /\ UNCHANGED <<append, reply>>
  /\ dstStatus' = "NONE" /\ appending' = 0
  /\ open' = {} /\ pos' = 0 /\ pend' = 0
  /\ \/ Fine /\ Goto("c_dst") /\ ret' = "RETRY"
     \/ Mishap /\ CopyReturn("ABORT")
  /\ UNCHANGED <<cfgVars, fsVars, opVars, cur>>

CopyDst ==
  /\ pc = "c_dst"
  /\ \/ dst0[cur] # "dir" /\ Goto("c_stat") /\ UNCHANGED ret /\ Fine
     \/ dst0[cur] = "dir" /\ Mishap /\ ret' = "RETRY" /\ UNCHANGED pc
     \/ dst0[cur] = "dir" /\ Fine /\ \E st \in GiveUp : CopyReturn(st)
  /\ UNCHANGED <<cfgVars, fsVars, opVars, ctxVars, cur, cpVars>>

CopyStat ==
  /\ pc = "c_stat"
  /\ \/ Fine /\ Goto("c_ask") /\ UNCHANGED ret
     \/ Mishap /\ ret' = "RETRY" /\ UNCHANGED pc
     \/ Mishap /\ \E st \in GiveUp : CopyReturn(st)
  /\ UNCHANGED <<cfgVars, fsVars, opVars, ctxVars, cur, cpVars>>

\* ask_overwrite is 1 for a copy and 0 below a move, which has asked already.
AskOverwrite == op = "COPY"

CopyAsk ==
  /\ pc = "c_ask"
  /\ \/ /\ dst0[cur] = "none" \/ (dst0[cur] \in OldKinds /\ ~AskOverwrite)
        /\ Goto("c_link") /\ UNCHANGED <<ret, asked, ctxVars>> /\ Fine
     \/ /\ dst0[cur] = "same"
        /\ CopyReturn("SKIP") /\ UNCHANGED <<asked, ctxVars>> /\ Fine
     \/ /\ dst0[cur] \in OldKinds /\ AskOverwrite
        /\ \E st \in Status :
             /\ QueryReplace(st)
             /\ IF st = "CONT" THEN ret' = "CONT" /\ Goto("c_link")
                ELSE CopyReturn(st)
  /\ UNCHANGED <<cfgVars, fsVars, marked, linklist, cur, cpVars>>

\* check_hardlinks.  The cache names the first file seen with this inode;
\* a link is made to that file's copy if the file is still there.
LinkMade_GoesOn == UNCHANGED ret /\ Goto("c_open")
LinkMade == CopyReturn(ret)

\* The call after it.  For appending, and when links are followed, one is opened.
CallFor(f) ==
  IF append = 1 THEN "c_open"
  ELSE IF kind[ino[f]] = "special" THEN "n_make"
  ELSE IF kind[ino[f]] = "link" /\ FollowLinks = 0 THEN "l_read" ELSE "c_open"

CopyLink ==
  /\ pc = "c_link"
  /\ LET first == linklist[ino[cur]]
         check == append = 0 /\ FollowLinks = 0 /\ Linked(cur)
     IN \/ /\ check /\ first # 0
           /\ first \in src /\ dname[first] # 0 /\ dname[cur] = 0
           /\ dname' = [dname EXCEPT ![cur] = dname[first]]
           /\ LinkMade /\ UNCHANGED linklist
        \/ /\ linklist' = IF check /\ first = 0
                          THEN [linklist EXCEPT ![ino[cur]] = cur] ELSE linklist
           /\ Goto(CallFor(cur)) /\ UNCHANGED <<ret, dname>>
  /\ UNCHANGED <<cfgVars, src, data, marked, asked, ctxVars, cur, cpVars, mishaps>>

(* make_symlink, called by copy_file_file or by move_file_file *)

LinkReturn(st) ==
  IF op = "MOVE" /\ stable = 1
  THEN ret' = st /\ Goto(IF st = "CONT" THEN "m_unlink" ELSE "after")
  ELSE CopyReturn(st)

LinkRead ==
  /\ pc = "l_read"
  /\ \/ Fine /\ Goto("l_make") /\ UNCHANGED ret
     \/ Mishap /\ UNCHANGED <<pc, ret>>
     \/ Mishap /\ \E st \in GiveUp : LinkReturn(st)
  /\ UNCHANGED <<cfgVars, fsVars, opVars, ctxVars, cur, cpVars>>

\* A link that is there is deleted first, though the new one may fail then too;
\* nothing else that is there gives way.
Blocked == dname[cur] # 0 /\ dst0[cur] # "link"

LinkMake ==
  /\ pc = "l_make"
  /\ \/ /\ ~Blocked /\ Fine
        /\ dname' = [dname EXCEPT ![cur] = cur]
        /\ data' = [data EXCEPT ![cur] = Whole(cur)]
        /\ LinkReturn("CONT")
     \/ /\ dname' \in {dname, IF Blocked THEN dname ELSE [dname EXCEPT ![cur] = 0]}
        /\ UNCHANGED data
        /\ \/ Mishap /\ UNCHANGED <<pc, ret>>
           \/ (IF Blocked THEN Fine ELSE Mishap) /\ \E st \in GiveUp : LinkReturn(st)
  /\ UNCHANGED <<cfgVars, src, opVars, ctxVars, cur, cpVars>>

(* Special files *)

NodeMake ==
  /\ pc = "n_make"
  /\ \/ /\ dname[cur] = 0 /\ Fine
        /\ dname' = [dname EXCEPT ![cur] = cur]
        /\ data' = [data EXCEPT ![cur] = Whole(cur)]
        /\ Goto("n_attr") /\ UNCHANGED ret
     \/ Mishap /\ ret' = "RETRY" /\ UNCHANGED <<pc, dname, data>>
     \/ /\ IF dname[cur] # 0 THEN Fine ELSE Mishap
        /\ UNCHANGED <<dname, data>>
        /\ \E st \in GiveUp : CopyReturn(st)
  /\ UNCHANGED <<cfgVars, src, opVars, ctxVars, cur, cpVars>>

\* Its owner and mode.
NodeAttr ==
  /\ pc = "n_attr"
  /\ \/ Fine /\ CopyReturn("CONT")
     \/ Mishap /\ UNCHANGED <<pc, ret>>
     \/ Mishap /\ \E st \in GiveUp : CopyReturn(st)
  /\ UNCHANGED <<cfgVars, fsVars, opVars, ctxVars, cur, cpVars>>

(* Regular files *)

CopyOpen ==
  /\ pc = "c_open"
  /\ \/ Fine /\ open' = {"src"} /\ Goto("c_seek") /\ UNCHANGED <<ret, append>>
     \/ Mishap /\ ret' = "RETRY" /\ UNCHANGED <<pc, open, append>>
     \/ /\ Mishap /\ ClearAppend /\ UNCHANGED open
        /\ \E st \in GiveUp : CopyReturn(st)
  /\ UNCHANGED <<cfgVars, fsVars, opVars, reget, reply, cur,
                 dstStatus, appending, pos, pend>>

\* "Reget failed, about to overwrite file"
CopySeek ==
  /\ pc = "c_seek" /\ Goto("c_fstat")
  /\ \/ pos' = reget /\ UNCHANGED <<append, reget, asked>> /\ Fine
     \/ /\ reget # 0 /\ Mishap
        /\ reget' = 0 /\ append' = 0 /\ UNCHANGED pos
        /\ asked' = [asked EXCEPT ![cur] = "overwrite"]
  /\ UNCHANGED <<cfgVars, fsVars, marked, linklist, reply, cur, ret,
                 dstStatus, appending, open, pend>>

CopyFstat ==
  /\ pc = "c_fstat"
  /\ \/ Fine /\ Goto("c_create") /\ UNCHANGED <<ret, append>>
     \/ Mishap /\ ret' = "RETRY" /\ UNCHANGED <<pc, append>>
     \/ Mishap /\ ClearAppend /\ Bail
  /\ UNCHANGED <<cfgVars, fsVars, opVars, reget, reply, cur, cpVars>>

\* O_APPEND without O_CREAT, or O_CREAT | O_TRUNC.
Before(d) == IF append = 1 THEN data[d].pre + data[d].n ELSE 0

CopyCreate ==
  /\ pc = "c_create"
  /\ LET d == IF dname[cur] = 0 THEN cur ELSE dname[cur]
     IN \/ /\ append = 1 => dname[cur] # 0
           /\ dname' = [dname EXCEPT ![cur] = d]
           /\ data' = [data EXCEPT ![d] =
                [pre |-> Before(d), of |-> ino[cur], from |-> pos, n |-> 0]]
           /\ open' = open \cup {"dst"} /\ dstStatus' = "SHORT"
           /\ appending' = append /\ append' = 0
           /\ Goto("c_fstat2") /\ UNCHANGED ret /\ Fine
        \/ /\ Mishap /\ ret' = "RETRY"
           /\ UNCHANGED <<pc, dname, data, open, dstStatus, appending, append>>
        \/ /\ IF append = 1 /\ dname[cur] = 0 THEN Fine ELSE Mishap
           /\ ClearAppend /\ Bail
           /\ UNCHANGED <<dname, data, open, dstStatus, appending>>
  /\ UNCHANGED <<cfgVars, src, opVars, reget, reply, cur, pos, pend>>

CopyFstat2 ==
  /\ pc = "c_fstat2"
  /\ \/ Fine /\ Goto("c_show") /\ UNCHANGED ret
     \/ Mishap /\ ret' = "RETRY" /\ UNCHANGED pc
     \/ Mishap /\ Bail
  /\ UNCHANGED <<cfgVars, fsVars, opVars, ctxVars, cur, cpVars>>

\* A progress update, before the first read and after every block.
CopyShow ==
  /\ pc = "c_show"
  /\ \E st \in {"CONT"} \cup GiveUp :
       /\ Button(st) /\ ret' = st
       /\ Goto(IF st = "CONT" THEN "c_read" ELSE "c_close")
  /\ UNCHANGED <<cfgVars, fsVars, opVars, ctxVars, cur, cpVars>>

Eof_LoopsOn == Goto("c_show") /\ UNCHANGED dstStatus
Eof == Goto("c_close") /\ dstStatus' = "FULL"

\* VFS_CTL_IS_NOTREADY only updates the display, as does the third disjunct.
CopyRead ==
  /\ pc = "c_read"
  /\ \/ /\ pos >= Blocks /\ Fine
        /\ Eof /\ UNCHANGED <<ret, pos, pend>>
     \/ /\ Fine /\ \E k \in 1..BufBlocks :
             pos + k <= Blocks /\ pos' = pos + k /\ pend' = k
        /\ Goto("c_write") /\ UNCHANGED <<ret, dstStatus>>
     \/ Mishap /\ Goto("c_show") /\ UNCHANGED <<ret, pos, pend, dstStatus>>
     \/ Mishap /\ ret' = "RETRY" /\ UNCHANGED <<pc, pos, pend, dstStatus>>
     \/ Mishap /\ Bail /\ UNCHANGED <<pos, pend, dstStatus>>
  /\ UNCHANGED <<cfgVars, fsVars, opVars, ctxVars, cur, appending, open>>

Grown(c, k) == [pre |-> c.pre, of |-> c.of, from |-> c.from, n |-> c.n + k]

CopyWrite ==
  /\ pc = "c_write"
  /\ \/ \E k \in 1..pend :
          /\ data' = [data EXCEPT ![dname[cur]] = Grown(@, k)]
          /\ pend' = pend - k
          /\ Goto(IF k = pend THEN "c_show" ELSE "c_write")
          /\ UNCHANGED ret /\ Fine
     \/ Mishap /\ ret' = "RETRY" /\ UNCHANGED <<pc, data, pend>>
     \/ Mishap /\ Bail /\ UNCHANGED <<data, pend>>
  /\ UNCHANGED <<cfgVars, src, dname, opVars, ctxVars, cur,
                 dstStatus, appending, open, pos>>

\* Closing the source: only Abort changes the outcome.
CopyCloseSrc ==
  /\ pc = "c_close" /\ open' = open \ {"src"} /\ Goto("c_close2")
  /\ \/ Fine /\ UNCHANGED ret
     \/ Mishap /\ \E st \in GiveUp : ret' = IF st = "ABORT" THEN st ELSE ret
  /\ UNCHANGED <<cfgVars, fsVars, opVars, ctxVars, cur,
                 dstStatus, appending, pos, pend>>

CopyCloseDst ==
  /\ pc = "c_close2" /\ open' = open \ {"dst"} /\ Goto("c_end")
  /\ \/ Fine /\ UNCHANGED ret
     \/ "dst" \in open /\ Mishap /\ ret' \in GiveUp
  /\ UNCHANGED <<cfgVars, fsVars, opVars, ctxVars, cur,
                 dstStatus, appending, pos, pend>>

\* A short file is kept or deleted as the user says; a full one gets its
\* owner, mode and times, which may fail; then the totals are updated.
CopyEnd ==
  /\ pc = "c_end"
  /\ \/ /\ dstStatus = "SHORT" /\ dname' = [dname EXCEPT ![cur] = 0]
        /\ CopyReturn(ret) /\ Fine
     \/ /\ dstStatus # "FULL" /\ CopyReturn(ret) /\ UNCHANGED dname /\ Fine
     \/ /\ dstStatus = "FULL" /\ UNCHANGED dname
        /\ \E st \in {"CONT"} \cup GiveUp :
             /\ st = "CONT" \/ ret = "CONT" \/ appending = 0
             /\ Button(st) /\ CopyReturn(IF st = "CONT" THEN ret ELSE st)
  /\ UNCHANGED <<cfgVars, src, data, opVars, ctxVars, cur, cpVars>>
-----------------------------------------------------------------------------
Done == pc = "done" /\ UNCHANGED vars

CopyStep == \/ CopyBegin \/ CopyDst \/ CopyStat \/ CopyAsk \/ CopyLink
            \/ LinkRead \/ LinkMake \/ NodeMake \/ NodeAttr
            \/ CopyOpen \/ CopySeek \/ CopyFstat \/ CopyCreate \/ CopyFstat2
            \/ CopyShow \/ CopyRead \/ CopyWrite
            \/ CopyCloseSrc \/ CopyCloseDst \/ CopyEnd

MoveStep == MoveLstat \/ MoveDst \/ MoveRename \/ MoveAfter \/ MoveUnlink

Step == NextFile \/ AfterFile \/ MoveStep \/ CopyStep
Next == Step \/ Done

Spec == Init /\ [][Next]_vars

\* The loop is sequential code and the user answers every dialog.
FairSpec == Spec /\ WF_vars(Step)
-----------------------------------------------------------------------------
TypeOK ==
  /\ op \in Ops /\ confirm \in {0, 1} /\ stable \in {0, 1}
  /\ ino \in [File -> File] /\ kind \in [File -> Sources]
  /\ dst0 \in [File -> {"none", "same", "dir"} \cup OldKinds]
  /\ old \in [File -> Nat]
  /\ src \subseteq File /\ dname \in [File -> File0]
  /\ data \in [File -> Content]
  /\ marked \subseteq File /\ asked \in [File -> Kinds]
  /\ linklist \in [File -> File0]
  /\ append \in {0, 1} /\ reget \in Nat /\ reply \in Reply
  /\ pc \in Labels /\ cur \in File0 /\ ret \in Status
  /\ dstStatus \in {"NONE", "SHORT", "FULL"} /\ appending \in {0, 1}
  /\ open \subseteq {"src", "dst"}
  /\ pos \in Nat /\ pend \in Nat /\ mishaps \in Nat

\* Destination inode d holds every block of source file f, in one piece.
Holds(d, f) == /\ data[d].of = ino[f]
               /\ data[d].from + data[d].n = Blocks
               /\ data[d].from = 0 \/ data[d].pre = data[d].from

\* A move never loses a file: a source name is removed only when the
\* destination name holds its whole contents, whatever failed on the way
\* and however the user answered (move_file_file, the unlink of s).
NoLoss ==
  \A f \in File : f \notin src => dname[f] # 0 /\ Holds(dname[f], f)

\* What the destination of f was to become, given the answer the user gave.
Kept(f) ==
  LET c == data[dname[f]]
  IN /\ dname[f] # 0 /\ c.of = ino[f]
     /\ c.pre = IF asked[f] \in {"append", "reget"} THEN old[f] ELSE 0
     /\ c.from = IF asked[f] = "reget" THEN old[f] ELSE 0
     /\ c.n = IF c.from < Blocks THEN Blocks - c.from ELSE 0

\* An entry of a copy loses its mark only if its destination became what
\* the user was told: new, overwritten, appended to or continued
\* (copy_file_file's return_status and do_file_mark in panel_operate).
CopiedAsAsked ==
  op = "COPY" => \A f \in File : f \notin marked => Kept(f)

\* Whoever chose Append or Reget keeps the old contents of the destination:
\* they are never truncated as long as the file has its name, not even when
\* the copy that follows fails.
OldDataKept ==
  \A f \in File :
    asked[f] \in {"append", "reget"} /\ dname[f] = f => data[f].pre = old[f]

\* Destinations hold what the user was told they would, before and after the end
\* of their copy.
AsTheUserWasTold == CopiedAsAsked /\ OldDataKept

\* What is done for one file touches its own destination only, and a
\* destination that was there before only after the user agreed to that for this
\* very file: a name made by check_hardlinks is not opened for writing later,
\* the "Delete" of a short file removes that file alone, and no path leads round
\* the question (ask_overwrite, confirm_overwrite).
OnlyTheAskedTarget ==
  [][\A f \in File :
       dname'[f] # dname[f] \/ (dname[f] # 0 /\ data'[dname[f]] # data[dname[f]])
         => f = cur /\ (dst0[f] \in OldKinds => asked[f] # "create")]_vars

\* The loop over the marked files comes to its end when the user answers
\* every dialog and does not press Retry for ever (MaxMishaps).
OperationEnds == <>(pc = "done")

\* "Reget", one of the buttons for "this target", completes the target: it
\* becomes equal to the source (filegui.c, rd_widgets and init_replace).
RegetCompletes ==
  op = "COPY" => \A f \in File :
    f \notin marked /\ asked[f] = "reget" => Holds(dname[f], f)
=============================================================================
