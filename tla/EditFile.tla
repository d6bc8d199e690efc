------------------------------ MODULE EditFile ------------------------------
(***************************************************************************)
(* Files of the internal editor: opening, saving and locking them.         *)
(* Several editor processes work on the same files.  A file at work is     *)
(* locked by a symbolic link that names the process (edit/editlock.c);     *)
(* locking, unlocking, saving (edit_save_file and its three modes) and     *)
(* loading are sequences of system calls, which those of the other         *)
(* processes, failures and crashes come between.                           *)
(*                                                                         *)
(* todo[p] is what the command at work in p still has to call, innermost   *)
(* first: each action does the first call, or replaces it by what is left  *)
(* of it.                                                                  *)
(***************************************************************************)
EXTENDS Integers, Sequences, FiniteSets, TLC

CONSTANTS Editor,      \* the processes
          Dead,        \* a process that ended before, leaving its locks
          File,        \* the names of files
          NoName,      \* the empty name of a text that was not loaded
          Closed,      \* no editor window
          NoLock,
          Modes,       \* the values of option_save_mode if one editor is open at a time
          ModesTogether, \* and if several are
          Filtered,    \* the files that are saved through a filter (.gz, .bz2)
          MaxVersion,  \* bound: changes of a text
          MaxCommands, \* bound: commands of the users
          MaxFailures, \* bound: calls that fail
          MaxCrashes   \* bound: processes that are killed

ASSUME EditFileAssumption ==
  /\ Modes \cup ModesTogether \subseteq {"quick", "safe", "backup"} /\ Filtered \subseteq File
  /\ Dead \notin Editor /\ NoLock \notin Editor \cup {Dead} /\ NoName \notin File /\ Closed \notin File
  /\ {MaxCommands, MaxFailures, MaxCrashes} \subseteq Nat /\ MaxVersion \in Nat \ {0}

\* What a file holds: a version of a text (0 is the empty one), or part of one.
Absent == -2
Broken == -1

\* The paths: a file, its backup, and the temporary files of saves, enough for
\* those that failures and crashes leave behind.
At(f)     == <<"file", f>>
Backup(f) == <<"backup", f>>
Temps     == {<<"temp", i>> : i \in 1..MaxFailures + MaxCrashes + Cardinality(Editor)}
Path == {At(f) : f \in File} \cup {Backup(f) : f \in File} \cup Temps
NoPath == <<"none">>

\* A name mkstemps finds unused.
IsFree(d, q) == d[q] = Absent
FreeTemp(d) == CHOOSE q \in Temps : IsFree(d, q)

VARIABLES
  disk,       \* what is at each path
  lock,       \* for each file, the process its lock names
  alive,      \* the processes that run
  ed,         \* the editor window of each process
  new,        \* the window it loads a file into
  todo,       \* the calls it still has to make
  got,        \* what its last edit_lock_file returned
  result,     \* what its last edit_save_file returned
  savename,   \* where edit_save_file writes first
  fd,         \* where the file it writes is now, if it has a path
  option_save_mode,
  together,   \* editors are open at the same time
  versions, commands, failures, \* how many there were
  refused,    \* history: processes that modify a file without a lock
  robbed,     \* history: processes whose lock was removed by another
  acknowledged \* history: the version of each file that must not be lost: the last one
              \* whose save was reported done, until an older text is to replace it
              \* or a save takes the file for absent because it cannot be opened

procVars == <<ed, new, todo, got, result, savename, fd>>
modeVars == <<option_save_mode, together>>
boundVars == <<versions, commands, failures>>
historyVars == <<refused, robbed, acknowledged>>
vars == <<disk, lock, alive, procVars, modeVars, boundVars, historyVars>>

Window(f, v, created) ==
  [file |-> f, text |-> v, modified |-> FALSE, locked |-> FALSE, delete_file |-> created]

Call(name, f) == [call |-> name, file |-> f]
If(condition, calls) == IF condition THEN calls ELSE <<>>

Init ==
  /\ disk \in {d \in [Path -> {Absent, 1}] : \A q \in Path : q[1] # "file" => d[q] = Absent}
  /\ lock \in [File -> {NoLock, Dead}]
  /\ alive = Editor
  /\ ed = [p \in Editor |-> Window(Closed, 0, FALSE)] /\ new = ed
  /\ todo = [p \in Editor |-> <<>>]
  /\ got = [p \in Editor |-> FALSE] /\ result = [p \in Editor |-> FALSE]
  /\ savename = [p \in Editor |-> NoPath] /\ fd = [p \in Editor |-> NoPath]
  /\ together \in BOOLEAN /\ option_save_mode \in IF together THEN ModesTogether ELSE Modes
  /\ versions = 1 /\ commands = 0 /\ failures = 0
  /\ refused = {} /\ robbed = {} /\ acknowledged = [f \in File |-> 0]

---------------------------------------------------------------------------
(* Calls *)

Top(p) == Head(todo[p])
Calls(p, name) == todo[p] # <<>> /\ Top(p).call = name

\* The first call becomes these calls.
Become(p, calls) == todo' = [todo EXCEPT ![p] = calls \o Tail(@)]
Goto(p, name) == Become(p, <<Call(name, Top(p).file)>>)
Done(p) == Become(p, <<>>)

\* The command ends with these calls.
EndWith(p, calls) == todo' = [todo EXCEPT ![p] = calls]

\* A call succeeds, or fails.
Outcome(ok) ==
  IF ok THEN UNCHANGED failures
  ELSE failures < MaxFailures /\ failures' = failures + 1

\* Writers of a path follow the file when it is renamed or removed.
Follow(from, to) ==
  fd' = [q \in Editor |-> CASE fd[q] = to -> NoPath
                            [] fd[q] = from /\ fd[q] # to -> to
                            [] OTHER -> fd[q]]

Rename(from, to) ==
  /\ disk' = [disk EXCEPT ![to] = disk[from], ![from] = Absent]
  /\ Follow(from, to)

---------------------------------------------------------------------------
(* edit_lock_file *)

\* The link is looked at.
Lock(p) ==
  LET f == Top(p).file
  IN /\ Calls(p, "lock")
     /\ got' = [got EXCEPT ![p] = FALSE]
     /\ IF f \notin File THEN Done(p)
        ELSE IF lock[f] = NoLock THEN Goto(p, "symlink") ELSE Goto(p, "readlink")
     /\ UNCHANGED <<disk, lock, alive, ed, new, result, savename, fd, modeVars,
                    boundVars, historyVars>>

\* It is read; the user is asked when its process lives.
LockRead(p) ==
  LET f == Top(p).file
  IN /\ Calls(p, "readlink")
     /\ IF lock[f] = NoLock THEN Done(p)
        ELSE IF lock[f] \in alive THEN Goto(p, "ask") ELSE Goto(p, "lock_unlink")
     /\ UNCHANGED <<disk, lock, alive, ed, new, got, result, savename, fd,
                    modeVars, boundVars, historyVars>>

\* Grab lock or Ignore lock.
LockAnswer(p) ==
  /\ Calls(p, "ask")
  /\ \E grab \in BOOLEAN : IF grab THEN Goto(p, "lock_unlink") ELSE Done(p)
  /\ UNCHANGED <<disk, lock, alive, ed, new, got, result, savename, fd,
                 modeVars, boundVars, historyVars>>

Unlinked(p, f) ==
  /\ lock' = [lock EXCEPT ![f] = NoLock]
  /\ robbed' = robbed \cup ({lock[f]} \cap (Editor \ {p}))

LockUnlink(p) ==
  /\ Calls(p, "lock_unlink") /\ Unlinked(p, Top(p).file) /\ Goto(p, "symlink")
  /\ UNCHANGED <<disk, alive, ed, new, got, result, savename, fd, modeVars,
                 boundVars, refused, acknowledged>>

\* The link is made; that fails when there is one.
LockSymlink(p) ==
  LET f == Top(p).file
  IN /\ Calls(p, "symlink")
     /\ \E ok \in BOOLEAN :
          /\ IF lock[f] # NoLock THEN ~ok /\ UNCHANGED failures ELSE Outcome(ok)
          /\ got' = [got EXCEPT ![p] = ok]
          /\ lock' = IF ok THEN [lock EXCEPT ![f] = p] ELSE lock
          /\ robbed' = IF ok THEN robbed \ {p} ELSE robbed
     /\ Done(p)
     /\ UNCHANGED <<disk, alive, ed, new, result, savename, fd, modeVars,
                    versions, commands, refused, acknowledged>>

---------------------------------------------------------------------------
(* edit_unlock_file, whose result its callers put into edit->locked *)

Unlocked(p) ==
  /\ Done(p)
  /\ ed' = IF Top(p).file = ed[p].file THEN [ed EXCEPT ![p].locked = FALSE] ELSE ed

Unlock(p) ==
  LET f == Top(p).file
  IN /\ Calls(p, "unlock")
     /\ IF f \notin File THEN Unlocked(p)
        ELSE IF lock[f] = NoLock THEN Unlocked(p)
        ELSE Goto(p, "unlock_read") /\ UNCHANGED ed
     /\ UNCHANGED <<disk, lock, alive, new, got, result, savename, fd, modeVars,
                    boundVars, historyVars>>

\* A lock that cannot be read any more goes too.
UnlockRead(p) ==
  /\ Calls(p, "unlock_read")
  /\ IF lock[Top(p).file] \in {p, NoLock} THEN Goto(p, "unlock_unlink") /\ UNCHANGED ed
     ELSE Unlocked(p)
  /\ UNCHANGED <<disk, lock, alive, new, got, result, savename, fd, modeVars,
                 boundVars, historyVars>>

UnlockUnlink(p) ==
  /\ Calls(p, "unlock_unlink") /\ Unlinked(p, Top(p).file) /\ Unlocked(p)
  /\ UNCHANGED <<disk, alive, new, got, result, savename, fd, modeVars,
                 boundVars, refused, acknowledged>>

---------------------------------------------------------------------------
(* edit_save_file *)

Returns(p, ok) ==
  /\ result' = [result EXCEPT ![p] = ok] /\ Done(p)
  /\ acknowledged' = IF ok THEN [acknowledged EXCEPT ![Top(p).file] = ed[p].text]
                     ELSE acknowledged

\* Mutant.
InPlace_UnlessBackup(found) == option_save_mode # "backup" \/ ~found

\* A file that cannot be opened for writing is taken for one that is not there,
\* and written in place.
InPlace(found) == option_save_mode = "quick" \/ ~found

Save(p) ==
  LET f == Top(p).file
      there == disk[At(f)] # Absent
  IN /\ Calls(p, "save")
     /\ IF f \notin File THEN Returns(p, FALSE) /\ UNCHANGED <<savename, failures>>
        ELSE \E found \in BOOLEAN :
          /\ IF there THEN Outcome(found) ELSE ~found /\ UNCHANGED failures
          /\ savename' = [savename EXCEPT ![p] = IF InPlace(found) THEN At(f) ELSE NoPath]
          /\ Goto(p, IF InPlace(found) THEN "open_save" ELSE "mkstemps")
          /\ acknowledged' = [acknowledged EXCEPT ![f] =
               IF ed[p].text < @ \/ (there /\ ~found /\ @ > 0) THEN 0 ELSE @]
          /\ UNCHANGED result
     /\ UNCHANGED <<disk, lock, alive, ed, new, got, fd, modeVars,
                    versions, commands, refused, robbed>>

SaveTemp(p) ==
  LET temp == FreeTemp(disk)
  IN /\ Calls(p, "mkstemps")
     /\ \E ok \in BOOLEAN :
          /\ Outcome(ok)
          /\ ok => \E q \in Temps : IsFree(disk, q)   \* bound: the names there are
          /\ IF ok THEN /\ disk' = [disk EXCEPT ![temp] = 0]
                        /\ savename' = [savename EXCEPT ![p] = temp]
                        /\ Goto(p, "open_save") /\ UNCHANGED <<result, acknowledged>>
             ELSE Returns(p, FALSE) /\ UNCHANGED <<disk, savename>>
     /\ UNCHANGED <<lock, alive, ed, new, got, fd, modeVars,
                    versions, commands, refused, robbed>>

\* The file that is written is created or truncated.
SaveOpen(p) ==
  /\ Calls(p, "open_save")
  /\ \E ok \in BOOLEAN :
       /\ Outcome(ok)
       /\ IF ok THEN /\ disk' = [disk EXCEPT ![savename[p]] = Broken]
                     /\ fd' = [fd EXCEPT ![p] = savename[p]]
                     /\ Goto(p, "write") /\ UNCHANGED <<result, acknowledged>>
          ELSE Returns(p, FALSE) /\ UNCHANGED <<disk, fd>>
  /\ UNCHANGED <<lock, alive, ed, new, got, savename, modeVars,
                 versions, commands, refused, robbed>>

\* What edit_save_file goes on with when all seems to be written.
AfterWrite(p) ==
  IF savename[p] = At(Top(p).file) THEN Returns(p, TRUE)
  ELSE /\ Goto(p, IF option_save_mode = "backup" THEN "backup" ELSE "replace")
       /\ UNCHANGED <<result, acknowledged>>

\* Mutant.
SeemsWhole_Always(p, ok) == TRUE

\* The bytes written are counted; the status of a filter is not looked at (pclose).
SeemsWhole(p, ok) == ok \/ Top(p).file \in Filtered

\* Mutant.
Close_WhenWhole(p, ok) == fd' = IF ok THEN [fd EXCEPT ![p] = NoPath] ELSE fd

\* The file is closed on every way out.
Close(p, ok) == fd' = [fd EXCEPT ![p] = NoPath]

SaveWrite(p) ==
  /\ Calls(p, "write")
  /\ \E ok \in BOOLEAN :
       /\ Outcome(ok)
       /\ disk' = IF ok /\ fd[p] \in Path THEN [disk EXCEPT ![fd[p]] = ed[p].text] ELSE disk
       /\ IF SeemsWhole(p, ok) THEN AfterWrite(p) ELSE Returns(p, FALSE)
       /\ Close(p, ok)
  /\ UNCHANGED <<lock, alive, ed, new, got, savename, modeVars,
                 versions, commands, refused, robbed>>

SaveBackup(p) ==
  LET f == Top(p).file
  IN /\ Calls(p, "backup")
     /\ \E ok \in BOOLEAN :
          /\ IF disk[At(f)] = Absent THEN ~ok /\ UNCHANGED failures ELSE Outcome(ok)
          /\ IF ok THEN /\ Rename(At(f), Backup(f))
                        /\ Goto(p, "replace") /\ UNCHANGED <<result, acknowledged>>
             ELSE Returns(p, FALSE) /\ UNCHANGED <<disk, fd>>
     /\ UNCHANGED <<lock, alive, ed, new, got, savename, modeVars,
                    versions, commands, refused, robbed>>

SaveReplace(p) ==
  LET f == Top(p).file
  IN /\ Calls(p, "replace")
     /\ \E ok \in BOOLEAN :
          /\ Outcome(ok)
          /\ IF ok THEN Rename(savename[p], At(f)) ELSE UNCHANGED <<disk, fd>>
          /\ Returns(p, ok)
     /\ UNCHANGED <<lock, alive, ed, new, got, savename, modeVars,
                    versions, commands, refused, robbed>>

---------------------------------------------------------------------------
(* The commands that save *)

AtRest(p)  == p \in alive /\ todo[p] = <<>>
Editing(p) == AtRest(p) /\ ed[p].file # Closed

Command(p, calls) ==
  /\ commands < MaxCommands /\ commands' = commands + 1
  /\ EndWith(p, calls) /\ got' = [got EXCEPT ![p] = FALSE]

\* edit_save_cmd
SaveCalls(p) ==
  If(~ed[p].locked /\ ~ed[p].delete_file, <<Call("lock", ed[p].file)>>)
  \o <<Call("save", ed[p].file), Call("saved", ed[p].file)>>

SaveCommand(p) ==
  /\ Editing(p) /\ Command(p, SaveCalls(p))
  /\ UNCHANGED <<disk, lock, alive, ed, new, result, savename, fd, modeVars,
                 versions, failures, historyVars>>

\* The local variables end with their function.
Forget(p) ==
  /\ got' = [got EXCEPT ![p] = FALSE] /\ result' = [result EXCEPT ![p] = FALSE]
  /\ savename' = [savename EXCEPT ![p] = NoPath]

Saved(p) ==
  /\ Calls(p, "saved")
  /\ Become(p, If((result[p] /\ ed[p].locked) \/ got[p], <<Call("unlock", ed[p].file)>>)
               \o <<Call(IF result[p] THEN "named" ELSE "ask_name", ed[p].file)>>)
  /\ Forget(p)
  /\ UNCHANGED <<disk, lock, alive, ed, new, fd, modeVars, boundVars, historyVars>>

\* edit_save_as_cmd, with the name the user enters
SaveAsCalls(p, exp) ==
  (IF exp # ed[p].file THEN <<Call("exists", exp), Call("lock", exp)>>
   ELSE If(~ed[p].locked /\ ~ed[p].delete_file, <<Call("lock", exp)>>))
  \o <<Call("save", exp), Call("saved_as", exp)>>

SaveAsCommand(p) ==
  /\ Editing(p) /\ \E exp \in File : Command(p, SaveAsCalls(p, exp))
  /\ UNCHANGED <<disk, lock, alive, ed, new, result, savename, fd, modeVars,
                 versions, failures, historyVars>>

\* After a failure edit_save_cmd asks for a name.
AskName(p) ==
  /\ Calls(p, "ask_name")
  /\ \/ EndWith(p, <<>>)
     \/ \E exp \in File : Become(p, SaveAsCalls(p, exp))
  /\ got' = [got EXCEPT ![p] = FALSE]
  /\ UNCHANGED <<disk, lock, alive, ed, new, result, savename, fd, modeVars,
                 boundVars, historyVars>>

\* A file that exists is overwritten only when the user agrees.
Exists(p) ==
  /\ Calls(p, "exists")
  /\ \/ Done(p)
     \/ disk[At(Top(p).file)] # Absent /\ EndWith(p, <<>>)
  /\ UNCHANGED <<disk, lock, alive, ed, new, got, result, savename, fd,
                 modeVars, boundVars, historyVars>>

\* Mutant.
LocksToDrop_NotOther(p, exp) ==
  If((result[p] /\ ed[p].locked) \/ (got[p] /\ exp = ed[p].file), <<Call("unlock", ed[p].file)>>)

\* The locks that go when the save as exp succeeded, or failed.
LocksToDrop(p, exp) ==
  LET file == ed[p].file
      other == exp # file
  IN If(other /\ got[p], <<Call("unlock", exp)>>)
     \o IF result[p] THEN If(ed[p].locked \/ (got[p] /\ ~other), <<Call("unlock", file)>>)
        ELSE If(got[p], <<Call("unlock", file)>>)

SavedAs(p) ==
  LET exp == Top(p).file
  IN /\ Calls(p, "saved_as")
     /\ IF result[p] THEN Become(p, LocksToDrop(p, exp) \o <<Call("named", exp)>>)
        ELSE EndWith(p, LocksToDrop(p, exp))
     /\ Forget(p)
     /\ UNCHANGED <<disk, lock, alive, ed, new, fd, modeVars, boundVars, historyVars>>

\* The text is saved under this name now.
Named(p) ==
  LET exp == Top(p).file
  IN /\ Calls(p, "named")
     /\ ed' = [ed EXCEPT ![p].file = exp, ![p].modified = FALSE, ![p].delete_file = FALSE]
     /\ Done(p)
     /\ UNCHANGED <<disk, lock, alive, new, got, result, savename, fd, modeVars,
                    boundVars, historyVars>>

---------------------------------------------------------------------------
(* Modifying the text *)

Change(p, locked) ==
  /\ versions < MaxVersion /\ versions' = versions + 1
  /\ ed' = [ed EXCEPT ![p].text = versions + 1, ![p].modified = TRUE, ![p].locked = locked]

\* edit_modification locks a file that was not modified.
Modify(p) ==
  /\ Editing(p)
  /\ IF ed[p].modified \/ ed[p].delete_file
       THEN Command(p, <<>>) /\ Change(p, ed[p].locked)
       ELSE /\ Command(p, <<Call("lock", ed[p].file), Call("modify", ed[p].file)>>)
            /\ versions < MaxVersion /\ UNCHANGED <<versions, ed>>
  /\ UNCHANGED <<disk, lock, alive, new, result, savename, fd, modeVars,
                 failures, historyVars>>

Modified(p) ==
  /\ Calls(p, "modify")
  /\ Change(p, got[p]) /\ Done(p) /\ got' = [got EXCEPT ![p] = FALSE]
  /\ refused' = IF got[p] THEN refused \ {p} ELSE refused \cup {p}
  /\ UNCHANGED <<disk, lock, alive, new, result, savename, fd, modeVars,
                 commands, failures, robbed, acknowledged>>

---------------------------------------------------------------------------
(* Opening and closing *)

\* check_file_access: the file is opened, or created.
Open(p) ==
  LET f == Top(p).file
  IN /\ Calls(p, "open")
     /\ IF disk[At(f)] = Absent THEN Goto(p, "create") /\ UNCHANGED new
        ELSE /\ new' = [new EXCEPT ![p] = Window(f, disk[At(f)], FALSE)]
             /\ Goto(p, "read")
     /\ UNCHANGED <<disk, lock, alive, ed, got, result, savename, fd, modeVars,
                    boundVars, historyVars>>

Create(p) ==
  LET f == Top(p).file
  IN /\ Calls(p, "create")
     /\ \E ok \in BOOLEAN :
          /\ IF disk[At(f)] # Absent THEN ~ok /\ UNCHANGED failures ELSE Outcome(ok)
          /\ IF ok THEN /\ disk' = [disk EXCEPT ![At(f)] = 0]
                        /\ new' = [new EXCEPT ![p] = Window(f, 0, TRUE)]
                        /\ Goto(p, "read")
             ELSE EndWith(p, <<>>) /\ UNCHANGED <<disk, new>>
     /\ UNCHANGED <<lock, alive, ed, got, result, savename, fd, modeVars,
                    versions, commands, historyVars>>

\* As many bytes as the file had are read from what is there now.  A filter
\* that finds nothing whole fails.
Read(p) ==
  LET f    == Top(p).file
      seen == new[p].text
  IN /\ Calls(p, "read")
     /\ IF f \in Filtered
          THEN IF disk[At(f)] > 0
                 THEN new' = [new EXCEPT ![p].text = disk[At(f)]] /\ Done(p)
                 ELSE /\ EndWith(p, If(new[p].delete_file, <<Call("unlink", f)>>))
                      /\ UNCHANGED new
          ELSE /\ Done(p)
               /\ new' = IF seen \in {0, disk[At(f)]} THEN new
                         ELSE [new EXCEPT ![p].text = Broken]
     /\ UNCHANGED <<disk, lock, alive, ed, got, result, savename, fd, modeVars,
                    boundVars, historyVars>>

\* The window is taken over.
Take(p) ==
  /\ Calls(p, "take") /\ Done(p)
  /\ ed' = [ed EXCEPT ![p] = new[p]] /\ new' = [new EXCEPT ![p] = Window(Closed, 0, FALSE)]
  /\ refused' = refused \ {p}
  /\ UNCHANGED <<disk, lock, alive, got, result, savename, fd, modeVars,
                 boundVars, robbed, acknowledged>>

\* edit_clean
CleanCalls(p) ==
  If(ed[p].locked, <<Call("unlock", ed[p].file)>>)
  \o If(ed[p].delete_file, <<Call("unlink", ed[p].file)>>)

Clean(p) ==
  /\ Calls(p, "clean") /\ Become(p, CleanCalls(p))
  /\ UNCHANGED <<disk, lock, alive, ed, new, got, result, savename, fd,
                 modeVars, boundVars, historyVars>>

Unlink(p) ==
  LET f == Top(p).file
  IN /\ Calls(p, "unlink") /\ Done(p)
     /\ disk' = [disk EXCEPT ![At(f)] = Absent] /\ Follow(<<"nowhere">>, At(f))
     /\ UNCHANGED <<lock, alive, ed, new, got, result, savename, modeVars,
                    boundVars, historyVars>>

\* The window is closed, or begins a text without a name.
Leave(p) ==
  /\ \/ Calls(p, "close") /\ ed' = [ed EXCEPT ![p] = Window(Closed, 0, FALSE)]
     \/ Calls(p, "renew") /\ ed' = [ed EXCEPT ![p] = Window(NoName, 0, FALSE)]
  /\ Done(p) /\ refused' = refused \ {p} /\ robbed' = robbed \ {p}
  /\ UNCHANGED <<disk, lock, alive, new, got, result, savename, fd, modeVars,
                 boundVars, acknowledged>>

\* An editor starts on a file, or without one.
Start(p) ==
  /\ AtRest(p) /\ ed[p].file = Closed
  /\ together \/ \A q \in alive : ed[q].file = Closed /\ todo[q] = <<>>
  /\ \/ \E f \in File : Command(p, <<Call("open", f), Call("take", f)>>)
     \/ Command(p, <<Call("renew", NoName)>>)
  /\ UNCHANGED <<disk, lock, alive, ed, new, result, savename, fd, modeVars,
                 versions, failures, historyVars>>

\* edit_load_cmd; unsaved changes are discarded when the user agrees.
LoadCommand(p) ==
  /\ Editing(p)
  /\ \E f \in File :
       Command(p, <<Call("open", f), Call("clean", f), Call("take", f)>>
                  \o If(ed[p].locked, <<Call("unlock", ed[p].file)>>))
  /\ UNCHANGED <<disk, lock, alive, ed, new, result, savename, fd, modeVars,
                 versions, failures, historyVars>>

\* edit_new_cmd
NewCommand(p) ==
  /\ Editing(p)
  /\ Command(p, If(ed[p].locked, <<Call("unlock", ed[p].file)>>)
                \o <<Call("clean", ed[p].file), Call("renew", ed[p].file)>>)
  /\ UNCHANGED <<disk, lock, alive, ed, new, result, savename, fd, modeVars,
                 versions, failures, historyVars>>

\* edit_ok_to_exit: a modified text is saved, or not.
QuitCommand(p) ==
  LET close == <<Call("clean", ed[p].file), Call("close", ed[p].file)>>
  IN /\ Editing(p)
     /\ \/ Command(p, If(ed[p].locked, <<Call("unlock", ed[p].file)>>) \o close)
        \/ ed[p].modified /\ Command(p, SaveCalls(p) \o close)
     /\ UNCHANGED <<disk, lock, alive, ed, new, result, savename, fd, modeVars,
                    versions, failures, historyVars>>

\* A process is killed.  What it left on the disk stays.
Crash(p) ==
  /\ p \in alive /\ Cardinality(Editor \ alive) < MaxCrashes
  /\ alive' = alive \ {p}
  /\ ed' = [ed EXCEPT ![p] = Window(Closed, 0, FALSE)]
  /\ todo' = [todo EXCEPT ![p] = <<>>] /\ fd' = [fd EXCEPT ![p] = NoPath]
  /\ refused' = refused \ {p} /\ robbed' = robbed \ {p}
  /\ new' = [new EXCEPT ![p] = Window(Closed, 0, FALSE)] /\ Forget(p)
  /\ UNCHANGED <<disk, lock, modeVars, boundVars, acknowledged>>

---------------------------------------------------------------------------

Step(p) ==
  \/ Lock(p) \/ LockRead(p) \/ LockAnswer(p) \/ LockUnlink(p) \/ LockSymlink(p)
  \/ Unlock(p) \/ UnlockRead(p) \/ UnlockUnlink(p)
  \/ Save(p) \/ SaveTemp(p) \/ SaveOpen(p) \/ SaveWrite(p) \/ SaveBackup(p)
  \/ SaveReplace(p) \/ Saved(p) \/ AskName(p) \/ Exists(p) \/ SavedAs(p) \/ Named(p)
  \/ Modified(p) \/ Open(p) \/ Create(p) \/ Read(p) \/ Take(p)
  \/ Clean(p) \/ Unlink(p) \/ Leave(p)
  \/ SaveCommand(p) \/ SaveAsCommand(p) \/ Modify(p) \/ Start(p) \/ LoadCommand(p)
  \/ NewCommand(p) \/ QuitCommand(p) \/ Crash(p)

Next == \E p \in Editor : Step(p)

Spec == Init /\ [][Next]_vars

\* The processes are alike, and so are the files if none is saved through a filter.
Editors == Permutations(Editor) \cup Permutations(File)

---------------------------------------------------------------------------
(* Properties *)

\* The state is of its type, and a file is open only while it is written.
TypeOK ==
  /\ disk \in [Path -> Absent..MaxVersion]
  /\ lock \in [File -> Editor \cup {Dead, NoLock}] /\ alive \subseteq Editor
  /\ \A p \in Editor :
       /\ {ed[p].file, new[p].file} \subseteq File \cup {NoName, Closed}
       /\ ed[p].text \in Broken..MaxVersion
       /\ \A i \in DOMAIN todo[p] : todo[p][i].file \in File \cup {NoName, Closed}
  /\ fd \in [Editor -> Path \cup {NoPath}] /\ savename \in [Editor -> Path \cup {NoPath}]
  /\ \A p \in Editor : fd[p] # NoPath => Calls(p, "write")
  /\ refused \cup robbed \subseteq Editor /\ together \in BOOLEAN

\* Between two commands a process and its locks agree: each lock that names it is
\* on the file it edits and knows to be locked, so none is left behind by any way
\* out of saving, loading or closing; and a file it believes locked has its lock
\* and an unsaved text, unless another process took the lock away.  (An unlink of a
\* lock always works here; the code does not look whether it did.)
LocksAgree ==
  \A p \in alive : todo[p] = <<>> =>
    /\ \A f \in File : lock[f] = p => ed[p].file = f /\ ed[p].locked
    /\ ed[p].locked => ed[p].modified /\ (lock[ed[p].file] = p \/ p \in robbed)

\* A text that was modified under a lock stays locked until it is saved or
\* discarded, whatever saves fail in between.
ModifyLockKept ==
  \A p \in alive : todo[p] = <<>> /\ ed[p].modified /\ ~ed[p].delete_file =>
    ed[p].locked \/ p \in refused

\* When edit_save_file reports a save done, the file holds the whole text, in every
\* mode and on every way through its renames, unless it is written by a filter or
\* another editor is open at the same time.
SavedIsWhole ==
  [][\A f \in File \ Filtered : ~together /\ acknowledged'[f] > acknowledged[f] =>
       disk'[At(f)] = acknowledged'[f]]_vars

\* With safe saves or backups, a version whose save was reported done, or a newer
\* one, is whole in the file, its backup or a temporary file, at every moment,
\* wherever the process is killed and whichever call fails but one: a save that
\* cannot open the file that is there writes over it in place, as OriginalUntouched
\* shows, and gives the version up until a save is reported done again.  (Nor is it
\* kept when the user has an older text written over it, when a filter writes it, or
\* when another editor is open at the same time.)
NothingSavedIsLost ==
  option_save_mode # "quick" /\ ~together =>
    \A f \in File \ Filtered :
      \E q \in {At(f), Backup(f)} \cup Temps :
        acknowledged[f] # 0 => disk[q] >= acknowledged[f]

\* doc/mcedit.1.in:416 says of the safe save: "In the event of an problem, the original
\* file is untouched".  A file with a text in it is then never truncated, only replaced
\* by a whole one.  It is truncated, though, when it cannot be opened at the start of the
\* save (editcmd.c:227), which is taken to mean that it is not there.
OriginalUntouched ==
  [][option_save_mode = "safe" /\ ~together =>
       \A f \in File \ Filtered : disk[At(f)] > 0 => disk'[At(f)] # Broken]_vars
=============================================================================
