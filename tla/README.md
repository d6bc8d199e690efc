# Verification of GNU Midnight Commander (mcvox)

mcvox is the Midnight Commander with speech output: a two-panel file manager
with file operations, background jobs, a concurrent shell, a virtual file
system (VFS), an editor and a viewer.  This directory holds TLA+ models of its
core logic, the TLC runs that check them on small instances, and proofs, checked
by TLAPS, of what should hold for every size.  Paths below are relative to
`src/mcvox/`.

## 1. Inventory

The program is one process with one thread.  It is event-driven: `run_dlg`
(`src/dialog.c`) draws a dialog and calls `get_event` (`src/key.c`), which
selects on the keyboard, the mouse and the descriptors of `select_list`.
Handlers open further dialogs, so event loops nest.  Concurrency comes from child
processes (background jobs, the subshell and what it runs), from signals
(SIGCHLD above all), from other programs that use the same files, and from
callbacks that change a structure their caller is walking through.

| component | state it keeps | operations | hard behaviour |
|---|---|---|---|
| file operations on files (`src/file.c`, `filegui.c`, `fileopctx.c`) | the operation context (`do_append`, `do_reget`, kept answers), the hard-link cache `linklist`, marks | `copy_file_file`, `move_file_file`, `panel_operate` | one call of several fails; answers kept too long; short copies before an unlink; hard links to an incomplete copy |
| file operations on directories (`src/file.c`) | `erase_list`, `dest_dirs`, `parent_dirs`, `recursive_result` | `copy_dir_dir`, `move_dir_dir`, `erase_dir`, `recursive_erase` | recursion with Skip/Abort at any depth; writers in the source tree; a static list that outlives a call |
| background jobs (`src/background.c`, `key.c`, `boxes.c`) | `task_list`, `select_list`, the pipes, `parent_fd` | `do_background`, `parent_call`, `background_attention`, jobs dialog | nested loops over one list; a stale `fd_set`; the node at work freed by its callback; death before SIGCHLD; POSIX pipes are one-way |
| subshell (`src/subshell.c`, `execute.c`) | `subshell_state`, `subshell_alive`, `subshell_stopped`, `subshell_cwd`, the pty, the pipe | `invoke_subshell`, `feed_subshell`, `synchronize`, `sigchld_handler`, `init_subshell` | hand-over by SIGSTOP; keys typed ahead; the shell dies anywhere; one SIGCHLD for two events |
| VFS core (`vfs/vfs.c`, `gc.c`) | `current_dir`, handles, stamps with time-outs | `mc_open`, `mc_chdir`, `vfs_stamp_create`, `vfs_expire` | an archive freed while a panel, a file or the current directory is in it |
| VFS cached directories (`vfs/direntry.c`) | inodes, entries, local copies, reference counts | `vfs_s_open`, `vfs_s_close`, invalidation | counts on error paths; a store that fails after the write; readdir during invalidation |
| VFS archives (`extfs.c`, `tar.c`, `cpio.c`, `sfs.c`) | the trees of the archives, open counts | open, close, free | free while a file is open |
| VFS network (`ftpfs.c`, `fish.c`, `mcfs.c`, `mcserv.c`, `shared_ftp_fish.c`) | control and data connection, pending transfer | open, linear read, abort, reconnect | abort against a late answer; a transfer that holds the control connection |
| VFS of Samba and undelete, local, helpers | sessions; none | wrappers | their state is in the vendored client and the kernel |
| editor buffer (`edit/edit.c`, `editcmd.c`, `bookmark.c`) | two-ended buffer, undo ring, marks, bookmarks | insert, delete, undo, block commands, save | undo with run-length coding at the limit of its ring; marks that follow edits; save in three modes that may fail halfway |
| editor locks (`edit/editlock.c`) | symbolic links as lock files | `edit_lock_file`, `edit_unlock_file` | two editors, a crash, a reused pid |
| editor syntax, screen, menus | rule cache; none | | cached automaton over text |
| dialogs and widgets (`dialog.c`, `widget.c`, `wtools.c`, `menu.c`, ...) | widget ring, focus | messages, nested loops | callbacks that delete widgets |
| keyboard and mouse (`key.c`, `mouse.c`, `win.c`) | trie of escape sequences, pending keys | `get_key_code` | a sequence against its time-out |
| panels and lists (`screen.c`, `dir.c`, `panelize.c`) | the list, marks, selection | reload, sort | reload while entries are marked and a command is at work |
| main program (`main.c`, `layout.c`, `setup.c`, `profile.c`) | globals, ini cache | `do_cd`, quitting | a quit begun and given up |
| panel commands, user menu, find, hotlist, tree, viewer, completion, help, options, attributes, console saver, ext | each its own, see `components` in PROJECT.json | | idle loops suspended and resumed (find); entries moved while listed (hotlist); growing buffers (viewer); mark and sweep (treestore) |
| vendored code (`slang/`, `intl/`, `vfs/samba/`, `popt`, regex) | | | not part of this work |

How they interact: `panel_operate` runs in the foreground, or in a child that
`do_background` forks; there each dialog of a file operation goes through
`parent_call` to the event loop of the parent.  The panels' `do_cd` and every
command go to the subshell.  All file operations call `mc_*` of the VFS, which
passes local files on to the kernel.  The subshell's pty and the channels of the
jobs share the one `select` of `key.c`.

What makes each component correct is stated as properties in the modules that
exist (section 3), and as hazards in PROJECT.json, each at its line.

## 2. Plan

Modules, most important first.  Those of 1 to 9 exist.

1. `FileCopy`, `FileCopy_proofs` -- files are copied and moved.
2. `Background`, `Background_proofs` -- jobs, channels and nested loops.
3. `Subshell`, `Subshell_proofs` -- the concurrent shell.
4. `TreeOps`, `TreeOps_MC`, `TreeOps_proofs` -- directories are copied, moved and deleted.
5. `ArchivePromise`, `ArchiveCache`, `ArchiveCache_MC` -- `vfs/gc.c`, `mc_chdir`, the
   superblocks of `direntry.c` and `extfs.c`, and the panel that uses them.
   `ArchivePromise` is the abstract specification: archives in memory, with users.
6. `EditText`, `EditBuffer`, `EditBuffer_proofs` -- buffer, undo ring and marks of `edit/edit.c`.
   `EditText`, a text with a history, is the abstract specification; the refinement
   mapping takes the two sides of the buffer to it.
7. `EditFile`, `EditFile_proofs` -- saving, loading, locking, with two editors and crashes.
8. `Ftpfs`, `Ftpfs_proofs` -- the FTP connection, the cached directories and the copies over it.
9. `Panel`, `Panel_proofs` -- the list of a panel with its marks, its cursor and what is kept to avoid a reload.
10. To come: `DirEntry`, the inodes and entries of `vfs/direntry.c` with their counts; viewer buffer,
   hotlist, treestore, key trie, dialog focus, find.

Compositions: `ArchiveCache` composes the stamps with both classes of archives, the
panel and `mc_chdir`; `EditFile` the lock files with saving and loading; `Panel` the list with the
loops of `panel_operate` and `chmod_cmd` that work through it.  To come:
`FileCopy` below `Background` (a job whose dialogs are requests); the select list of
`Background` with the subshell's signal handler, which frees a node of it.

Abstract specifications still worth stating: a move as "each file is at its old or
its new name, whole", which `FileCopy` and `TreeOps` implement; a job as a
question-and-answer channel, for `Background`; the shell as a server that is
idle or busy, for `Subshell`.

Theorems to prove next: `ToldIsTrue` of `Ftpfs`, which needs in addition what is in each block that is on its way; the invariants of
`ArchiveCache`, once its calls are written without recursive operators.

## 3. What is modelled

### FileCopy

`panel_operate`'s loop over the marked files, `move_file_file`, `copy_file_file`
and `check_hardlinks`, one action per system call.  `pc` is the call about to be
made (`c_...` in the copy, `m_...` in the move), `ret` is `return_status`, `cur`
the file.  `src`, `dname` and `data` are the file system: source names that
exist, the inode at a destination name, and what it holds, as the source inode
it comes from (`of`), the first block of it (`from`), the number of blocks (`n`)
and the old blocks before them (`pre`).  `append`, `reget` and `reply` are in the
operation context and outlive a file; `linklist` is the hard-link cache.  A
dialog is part of the step whose failure opens it, since nothing else runs
meanwhile; each failure, and each press of a button, counts in `mishaps`.

`kind` says whether an inode is a regular file, a symbolic link or a special file;
`stable` is `ctx->stable_symlinks`.  A link is made again by `make_symlink`
(`LinkRead`, `LinkMake`): by a copy that does not follow links, and by a move with
stable links instead of the rename.  A link at the destination is unlinked to make
room, even if the new one then cannot be made; for anything else at the destination
`mc_symlink` and `mc_mknod` fail (`Blocked`).  To append, a link is opened and
copied like a file.

Left out: attributes of regular files other than that setting them may fail, what
a link says (`diff_two_paths`), the switching off of stable links between file
systems, the mask of the destination name, progress totals.  Destinations that
exist at first are distinct files, or symbolic links to such; without loss, only
what a link is copied to is such a link, and options nobody looks at are off
(`Normal`).

### Background

`select_list` and `task_list` are sets with `born` as their order, since a node is
put in front.  `stack` is the nest of dialogs, each with its loop: `idle` at
`select`, `walk` at a node of the list with the set found `ready`, `read` in
`background_attention`, `return` after the handler, on its way to the next node
of a list that the handler may have changed; `ghost` is the `next` pointer in a
freed node.  A child works, asks (`Ask`: the message of `parent_call`), waits,
takes its answer, ends; the user may stop, resume and kill it from the jobs
dialog.  A request of `file_progress_real_query_replace` copies the child's
context over the parent's, which drops `pid` and `ui` (`lost`).  `Pipes` holds the kinds of
pipe the system may give; `two_way` is the one it does give.  A one-way pipe is
that of POSIX: nothing reaches the child.  Signals that hit the wrong
process are recorded in `harm`, and most properties speak of the program as
long as that has not happened (`Up`).

### Subshell

The Commander (`pc`, `caller`, `how`), the shell process (`shell`, `hook`, `line`,
`shell_dir`), its signals (`status`, `sigchld`), the pty (`keys`, `part`, `output`) and
the pipe.  The feed loop is cut at each `select`, read, write and wait, and the
handler of SIGCHLD may run between any two, except where `synchronize` blocks it.
A pty carries whole lines.  Stops of the shell from elsewhere, start-up of the
pty, resizing and quoting are left out.

### TreeOps

The recursion over a tree: `stack` holds a frame for each active call of
`copy_dir_dir` or `recursive_erase` (directory, entries been through, status).
`src` and `dst` say what exists at a node's source and destination name, `came` which
sources ever did, `agreed` what was deleted with consent.  A file is copied or
moved in one step with the outcomes that `FileCopy` has for it, the hard-link
outcome with its status FILE_RETRY included.  `Appear` is another program that
puts a file into the source tree at any moment.  `erase_list` is the static list of
`file.c`.  The destination is outside the source tree, and there are no cyclic
links, so `dest_dirs` and `parent_dirs` find nothing.

### ArchiveCache and ArchivePromise

The archives are in two classes, `Tar` (superblocks of `direntry.c`; `cpio.c` works the
same way) and `Extfs`, and an archive may lie in another.  The code is a net of
calls that return before anything else runs, so one user command or one tick of the
timer is one action, and the calls below it are operators from a state of the cache
`vfs` to the next, in the code's order: looking at a nested archive looks at, and
may reload, the one around it (`GetTarPath`, `GetExtfsPath`); freeing it closes a
file there (`Close`), which may stamp or free that one; `vfs_expire` walks the list of
stamps while its own calls add to it and take from it (`ExpireFrom`).  A stamp is
only young or `old`: `Tick` is the passing of a timeout.  `harm` is set
when freed memory is used; the model stops there.

The refinement maps `cached` to the archives in memory, `used` to those the panel and the
current directory are in and those of `Extfs` with open files, `busy` to these and every
other archive with open files, `spoilt` to those whose file was changed behind the cache,
whose listing is inconsistent, or that were only glimpsed (section 6).  Its liveness part says
that what is no longer used leaves the memory.

There is one panel because this fork shows a listing in one panel only
(`layout.c`, `get_display_type`).  `Panelize` sets the panel's directory without
`mc_chdir`, as `find.c` does.  A file in use (`Viewing`) is one of the panel's archive.
Other programs write to the file of an outermost archive only.  Left out:
`vfs_gc_done` at the exit, compressed archives, the handles of `mc_opendir`.

### EditBuffer and EditText

`before` and `after` are the text on both sides of the cursor, `alloc1` and `alloc2` the blocks
that hold it; that the characters are where the arithmetic of `edit_get_byte` looks for them is what
`BufferConsistent` says of the blocks.  `undo` is the ring with its pointers, its run
lengths and its entries as `edit_push_action` writes them, annihilation of opposite moves
included.  `EditText` has a text, a cursor and a history of key presses; undo
takes it back to the last one remembered.  `snaps`, a history variable, holds the text at each
key press that the ring still has.  Left out: column blocks, word wrap, indenting and block
commands, which are made of these primitives, and macros.

### EditFile

Two editors, files with versions for contents, and lock files.  A command of an editor is a list
of calls (`SaveCalls`, `CleanCalls`, ...), each an action: `lstat`, `readlink`, the question, `unlink` and
`symlink` of a lock; open, write, close, unlink and the two renames of a save in the three modes (quick,
safe, with backup).  A call may fail, and the process may be killed before any call; only the `unlink` of a lock or of a
created file is taken to work.  Files are local: what is on a VFS is not locked, and saved like in quick mode.
A save first opens the file for writing, only to see whether it is there (`found` in `Save`).  That may fail although it is, for want of
permission (which `mc_chmod` may give a moment later) or of descriptors; in every mode the file is then written in place.
`fd` follows the file being written through a rename or an unlink by the other editor.
`together` says whether the two editors may be at work at the same time; if not, only one is at a time, but they
follow each other on the files and meet each other's remains.  Nothing in the code keeps two editors that share a file
after the question from overwriting each other, so what is saved is only promised to one at a time.
`acknowledged` is the contents the user was told are saved and that must not be lost: it is given up (lowered to 0) when an older
text is to be written over it, and when a save takes an existing file for absent, until a save is reported done again.  There are as many temporary names (`Temps`) as failures and
kills can leave behind, and one for each editor, so `mkstemps` always finds one.  A file in `Filtered` is written through a
compressor: that `pclose` succeeded says nothing of what it wrote, so such a file may be broken after a save that is
reported done, and what is said of saved texts is said of the other files.

### Panel

`panel` has the fields of `WPanel` that decide what the next command works on: `cwd`, the list with names, sizes and marks,
`selected`, the counters `marked`, `dirs_marked` and `total`, `is_panelized`.  In place of the times in `dir_stat` it has
the set of directories that would now be found unchanged (`Aged`: a change in the same second may leave the times as they
are).  `wanted`, a history variable,
has what the user marked, as long as neither he nor a reload has taken the mark off.  There are two directories, one in the other, and a panelized list may have names
of both.  A command is one action, but for those with a dialog for each file or a child process (`pc`): between their steps
other programs make, remove and enlarge files.  An operation on an entry is one step with the outcomes that `FileCopy` and
`TreeOps` have for it.  `do_sort` gives any order with ".." in front.

Left out: the second panel, quick search, filters and hidden files, marking with the mouse (`mark_file` with the cursor set), panelized names that
are absolute or listed twice, and `chown.c` and `achown.c`, whose loops are that of `chmod.c`.

### Ftpfs

The Commander waits for each answer, so it is one stack of calls, `todo`; `okay` and `answer` are what the
last call returned.  Each `write` to the control connection, each reply read from it and each block read from or
written to a data connection is an action.  A user's job is a listing, a copy from, to or within the server, or a deletion;
`Copying` and `Closing` are the calls that `panel_operate` and `copy_file_file` make for it through `direntry.c`.
`super`, `isbinary`, `cwdir`, `strict`, `use_passive_connection` and `ctl_connection_busy` are the fields of the
superblock, `listing` and `want_stale` its cached directories.

The server is external: it takes one command after the other (`Obey`), waits for the end of a transfer before the next,
except for ABOR, may refuse any command, fail in any transfer and drop the session.  `data` has the data connections, which
hold `Cap` blocks; the kernel takes a write whose other end is closed.  A reply carries the command it is to (`to`): the program
cannot see that, the properties can.  `told` is what the user was told last, `ended` that a copy
was reported whole.

`harm` is "astray" once a reply is left unread or a command is sent in the middle of a transfer, and "crashed" when
`vfs_s_open` goes on without a directory; the model stops there, because from then on every answer
is taken for that of another command (section 6).  `MaxFaults` counts expiries of a listing, refusals, failures, retries and dropped
sessions.  Left out: names and symbolic links, proxies, REST (no caller gives an offset), appending, PWD, retrieving a file as a whole.

## 4. What is checked

| run | instance | what it shows |
|---|---|---|
| `filecopy` | 2 entries, each a file of 2 blocks, a link or a special file, any inode sharing, old files of 1 block and links to such, 2 mishaps, copy and move | what the user was told of a target is so, and old data stays unless he gave it up; a move removes a source only when the target is whole; nothing but the target at work is touched, and an old one not unasked; the loop ends |
| `background_ask` | 2 jobs, 2 questions each, stop/resume/kill | answers reach the job that asked in the order it asked; every question is accounted for; a killed job is reported |
| `background_ends` | 2 jobs, both kinds of request, both kinds of pipe, fair | running jobs are listed, every question is answered, every end noticed, though contexts are overwritten and loops block on taken requests |
| `background_one_way` | one-way pipes | **violation**: a job takes the number of its arguments for the user's answer (`background.c:377`) |
| `subshell_commands` | 2 directories, 2 lines typed ahead, no death | INACTIVE means idle; the Commander knows the shell's directory, and commands run where the panel is; stops are awaited; quiet feeds end |
| `subshell_killed` | the shell killed at any moment, failing cds, a time-out, 1 line | a death is noticed, and no feed outlives the shell |
| `archives` | tar archives `t`, `tt` in `t`, `te` in `e`, scripts' archives `e`, `ee` in `e`; 5 commands, 1 change by another program, fair | `ArchivePromise` is implemented: nothing in use is freed, nothing unused stays for ever; what is unused has a stamp |
| `tree` | directory 1 with directory 2 and files, hard links 3 and 4, file 5 that appears, marked file 6, 2 mishaps | a move loses nothing; the list is of copied nodes of this entry; nothing lands in a directory that could not be made; nothing is deleted without consent; unmarked is gone; a copy stops at Abort; the operation ends |
| `editbuffer` | 6 steps from an empty text or one of 3 characters; blocks of 2; undo rings that wrap, grow and overflow | blocks, lines, marks and the top of the screen follow the text; a save would write it whole; undo restores it (`EditText` is implemented) |
| `editfile` | 2 editors, together or in turn, 2 files, stale locks, 3 save modes, 4 commands, 1 failing call, 1 crash | what an editor believes about its lock is so, on every way out of every command; what was reported saved is whole, and stays on the disk until it is replaced or a save takes its file for absent |
| `ftp` | 2 blocks, 1 in flight, both kinds of data connection, 2 jobs, 1 fault, interrupts at any time, fair | the Commander reads the replies to what it said, and knows the type and directory of its session; what it tells the user of a copy is so; no call waits for ever |
| `panels` | 2 directories, 1 file name in each, sizes to 2, panelized lists that begin with 2 names, 1 change by others, with and without fast reload | the counters agree with the marks; nothing is marked that the user did not mark; a reread shows the directory; the cursor stays on its name |

Why these bounds are enough to meet the interesting cases: two files are needed
for state that leaks from one to the next, and two blocks for a short copy that
is not empty; two mishaps reach every error path and a second one during its
clean-up.  Two jobs give every nesting of dialogs, and two questions each let a
job ask again while its last answer is on its way.  Two directories tell the panel's and
the shell's apart; one line typed ahead is one that is in the pty when the shell
stops, and a second can be behind it.  The tree has a directory in a directory, so a status passes
through two returns, and an entry after it.  The five archives are each kind in each kind but
one (a script's archive in a tar archive takes the path of `te` and `ee` together), and two nested in one
archive; five commands enter one, leave it for another, open and close a file there and look at
a third, and any number of timeouts lie between them.  One change is made to the files, because
an archive whose file is spoilt and then repaired is forgotten for good (section 6).
Six steps fill an undo ring of eight, wrap it and drop its first key press; texts up to
four characters cross a block's edge on both sides.  Four commands lock a file, fail, save under
another name and leave, or let a second editor find what a crash of the first left and save over it.
One file name in each of two directories and the lower directory itself give a panel of three entries, in which a mark has one
before it and one after it, a name that exists in both directories, and a list with a name below; the
marks, loads and operations are not bounded, only what other programs do is.
Two jobs let one meet the session, the cached listings and the replies that the one before has left; one fault can
fall between any two calls of either.  With two faults and files of one block the run gives the same result, in four minutes.
Every action and every disjunct is taken in some passing run.

Deadlock is checked except in the runs where the system may really stop:
`Background` with all jobs gone or a parent killed by its own signal,
`Subshell` after quitting, `ArchiveCache`, `EditBuffer`, `EditFile` and `Ftpfs` with all commands used up,
`Ftpfs` also after a harm, and `EditFile` also when all editors have been killed.  In `Panel` it is checked.

Each property is broken by at least one mutant of the modelled code, listed
in PROJECT.json.

### Fairness

* `FileCopy`, `TreeOps`: `WF_vars(Step)`.  The loop is sequential code and the user
  answers each modal dialog; Retry is pressed finitely often (`MaxMishaps`).
  Other programs (`Appear`) are not fair.
* `Background`: weak fairness of the event loops, of the user's answer to a dialog
  that is shown, and of a child that has been answered or has no more to ask.
  Nothing makes a job start, a stopped job resume, or the user kill one.
* `Subshell`: weak fairness of the shell, of signal delivery, of the Commander's loop
  and its ten-second timer.  No key ever has to come, and a program run by the
  shell need not read its input or end because of a key.
* `ArchiveCache`: weak fairness of time (`Tick`), of `get_event`'s call of the timeout
  handler, and of closing a file that is viewed.  Without a mouse the wait for a key has no
  timeout (`key.c:961`), so "in the end" means with the next key.  The fairness of the two
  handlers is written out with their guards, which TLC evaluates faster than ENABLED.
* `Ftpfs`: weak fairness of the Commander, which does nothing else until a call returns (and gives up an `accept` when
  the server has gone), and of the server's own steps.  Not of interrupts, of the abort's time-out, of faults, nor of a new job.
* `EditBuffer`, `EditFile`: none; the user may stop at any point.

## 5. What is proved

For every value of the constants that satisfies the named assumptions
(`FileCopyAssumption`: lengths and counts are naturals; `TreeAssumption`: `Below` gives
subtrees, what is below a node has its own subtree and its directory there too, siblings'
subtrees are disjoint, marked entries are distinct top-level
nodes that exist; `BackgroundAssumption`: finitely many jobs, each of which may ask at least
once; `SubshellAssumption`: the Commander starts in one of the directories;
`PanelAssumption`: finitely many names, all different, and bounds that are naturals;
`EditFileAssumption`: the modes are those of the option, the names of processes and files differ from the
values that stand for none, and bounds are naturals; `EditAssumption`: the line end is a character, a block has at least two bytes, sizes and bounds are
positive naturals, the undo ring starts with more slots than the ten it keeps free before it grows, and a file is opened only if it
is below the limit, as `edit_load_file` checks; `FtpfsAssumption`: the file and the buffer of the network hold at least one block,
bounds are naturals, and the value that stands for none is not one of the others):

* `FileCopy_proofs`: `TypeCorrect` (`TypeOK`), `MoveLosesNothing` (`NoLoss`), `DestinationsAsTold` (`AsTheUserWasTold`) and `TargetsAsAsked`
  (`OnlyTheAskedTarget`, an action property).
* `TreeOps_proofs`: `TypeCorrect` (`TypeOK`), `TreeMoveLosesNothing` (`MoveLosesNothing`),
  `TreeEraseListIsOurs` (`EraseListIsOurs`), `TreeDeletesWithConsent` (`DeletedWithConsent`), `TreeUntaggedIsGone`
  (`UntaggedIsGone`), `TreeCopiesHaveDirectories` (`CopiesHaveDirectories`) and `TreeCopyStopsAtAbort`
  (`CopyStopsAtAbort`, an action property).  With these every safety property of `TreeOps` is proved.
* `Background_proofs`: `TypeCorrect` (`TypeOK`) and `JobsAreListed` (`RunningIsListed`); as long as no
  child asks about replacing a file (`Kinds` has "error" only), `DeathsAreReported`
  (`DeathReported`), and on two-way pipes `AnswersReturn` (`AnswersGoBack`); on two-way pipes, whatever the children
  ask, `QuestionsAreAccounted` (`QuestionsAccounted`).
* `Subshell_proofs`: `TypeCorrect` (`TypeOK`); while nothing kills the shell and no line comes in one read
  with the switch key, `HandOverHolds` (`HandOver`); if moreover every cd works, `DirectoriesAlwaysAgree`
  (`DirectoriesAgree`).  Section 6 has what happens without these assumptions.
* `Panel_proofs`: `TypeCorrect` (`TypeOK`), `CountsAlwaysAgree` (`CountsAgree`), `MarkedAlwaysAgrees` (`MarkedAgrees`, the
  part of it that the loops over marked files depend on), `MarksAlwaysWanted` (`MarksAreWanted`), `CursorAlwaysStays`
  (`CursorStays`) and `RereadAlwaysShows` (`RereadShowsAll`), the last two action properties: every property of `Panel` that
  a run checks.
* `EditFile_proofs`: `TypeCorrect` (`TypeOK`), `LocksAgreeCorrect` (`LocksAgree`), `SavedIsWholeCorrect` (`SavedIsWhole`, an
  action property) and `NothingSavedIsLostCorrect` (`NothingSavedIsLost`): every property of `EditFile` that a passing run checks.

* `EditBuffer_proofs`: `BufferTyped` (`TypeOK`), `BufferAlwaysConsistent` (`BufferConsistent`), `SaveIsAlwaysWhole`
  (`SaveIsWhole`) and `BufferImplementsText` (`UndoRestores`, the refinement of `EditText`): every property of `EditBuffer` that
  a run checks.
* `Ftpfs_proofs`: `FtpInvariant`, the inductive invariant, and from it `FtpTyped` (`TypeOK`) and `FtpInStep` (`InStep`).

*FileCopy.*  `NoLoss` alone is not inductive: that the target is whole at the
unlink follows from what happened many calls before.  `MInv` adds `TInv` (types,
and a file at work), `NamesInv` (files not yet reached have their own names, so
that nobody else writes to them), `CopyInv` (below a move no answer of "Append" is in
force at `c_open`; blocks written and pending add up to the blocks read; a FULL status
means that all is there) and `AfterInv` (FILE_CONT comes back only with a whole
target).  Each action has one step in the proof that they are kept.

For the destinations, `TGInv` adds to these `FreshInv` (files to come, and the one at
work until its destination is opened, are as the user left them), `ToldInv` (`do_append`
is set as long as an answer of Append or Reget is to be carried out, and no call between
the question and the end of the file finds an old destination unasked for), `ProgressInv`
(in a copy the blocks at the destination begin where the answer says and add up to those
read, and FILE_CONT comes back only with the promised contents) and the two parts of
`AsTheUserWasTold`.  Two lemmas carry most of it: a step that touches only the file at work
leaves the files to come fresh (`LaterFresh`) and the copies made before as they are
(`EarlierKept`), also where two names are hard links of one copy, since a destination name
never stands for a later inode.  `OnlyTheAskedTarget` is an action property: `TMInv` holds
before each step, and `NextAims` shows what it then touches.

*TreeOps.*  A move copies a tree and then erases a list.  The danger is that a
node on the list, or one that has left the source, is written over by a later
copy.  `StackInv` says that the active calls form a chain in the tree (`Chain`),
each for an entry its caller has not been through; `ListInv` that each listed node has
arrived and lies below an entry that some active call *has* been through.
`ChainFacts` is the heart: since siblings' subtrees are disjoint, the entry copied
next is below none of those, so it is not on the list.  `RootsInv` says
that later marked entries are still in the source, `RootInv` that the directory
erased last was made, `DirInv` that nothing but a directory comes to a directory's
name.  No induction over the tree is needed, because `Chain` states the inclusion of
subtrees for all pairs of calls.

For deletions, `Closed` says that below a node that is gone nothing is left: single nodes
are removed only with nothing in them, a rename takes a whole subtree, and what other programs add
comes to directories that are there.  So `UntaggedIsGone` needs only that the entry itself was
removed (`GoneInv`).  `DeleteStack` says that every active call works below the marked entry and in what the
user agreed to lose; that a file added after the question may still be removed is covered, since consent is for the
subtree.  For copies and moves `CopyStack` keeps the chain of the move proof for every
operation: the directory of each call but the last was made, which is what `CopyParent` uses at the next mkdir; a rename
keeps `HaveDirectories` because of `Closed`.  `Stopped` names the three places
a copy can be in once Abort was pressed, each on its way out.

*Background.*  Dialogs nest to any depth and each loop works on one list, so what a
handler finds after its dialog may have been changed below it.  `StackInv` says that a dialog
about an error stands right above the loop that is at its job; the answer therefore goes to the
job whose channel the loop was reading.  The first node of `select_list` is the youngest job of it; that there is one
is shown by well-founded induction on the order of birth, used as a fact about a minimal
element.  `RunningIsListed` needs that a job leaves the lists only when the end of its channel was
read.  `DeathInv` adds that no context was overwritten (a replaced one has no pid to wait for),
that a job whose status was read has left the list, and that only a job that has ended was killed.
`QuestionInv` keeps an account of each child while the parent is up: its questions in the pipe, the dialogs open for it
(`Shown`), the answers under way and those it has acted upon; a child waits if and only if it has asked once more than it was answered.

*Subshell.*  `HandOver` looks at the moment the Commander returns to the panels, but what makes
it true happened in the shell and the pty before.  `SignalInv` ties a pending SIGCHLD to the
state the shell is in; `PipeInv` says that the pipe holds one directory, the shell's own, from the stop
until `synchronize`; `CallInv` who called `feed_subshell` and how; `ReadyInv` that a shell called ready has
nothing to do unless it was just sent a cd; `QuietInv` follows that cd from the pty to its
announcement.  For the directories, `CommandInv` adds that a command of the Commander is the
next line of a shell that is in the directory the panel showed.

*Panel.*  Marks are entries of a list that is sorted, loaded again and cut by operations, and the user's
marks are names; what holds the two together is that no two entries of a list have the same name (`IsList`),
so that taking the mark off one entry takes it off its name.  `From` says of two panels that each mark of the second
is, by its name, one of the first; every reload, sort and update is shown to be so, and `StaysWanted` carries the
user's marks across.  That the counter is the number of marked entries (`Tally`) needs that `do_file_mark` counts
only entries it changes, and for a sort the bijection between the old places and the new.  `Summed` adds that directories and
bytes are those of the marked entries.  The bytes are a sum over a set, a recursive function (`MapThenSumSet`) that takes
the members in an order of its own; that it exists, and that the order does not matter, is shown by the least
counterexample over the number of members (`SumsExist`, `SumOfMembers`), which gives the sum of two disjoint sets (`BytesOfBoth`) and of a
set moved by a bijection (`BytesOfMoved`).  For the cursor, every way to load, sort or mark ends with a list that has the same names in
the same places or with `try_to_select` for the old name (`StaysOn`, `SelectedOn`, `UpdatedOn`).  `Shows` says that a list
is the directory; only a load establishes it, and marks and summaries keep it (`ShownSame`).

*EditFile.*  A command is a list of calls still to make, and what a call does depends on those that come after it.
`Shape` says which lists there are: which call may follow which (`Linked`), that the calls from the question to the
end of a save are for one file (`OneFile`), and where a lock may still be given up (`UnlocksFirst`).  With `PathInv`, where a
save writes, it makes up `TInv`.  `AllLocks` has, for each call, what the process knows of its locks there; another
process can only take a lock away by asking for it, which is `robbed`.  While editors follow each other (`Alone`),
`WriteInv` says how much of the text is in the file being written.  `Loads` says that a file which was opened to be created, and so
may be removed again, is the one the new window is taken over for.  A save in place (`InPlace`) begins with nothing
acknowledged of its file, because it is not there or was given up.  `LossInv` says of every file that what was acknowledged is
whole somewhere (`Kept`), and of a call that is about to remove or replace one copy (`MayRemove`) that another one
has it (`KeptElsewhere`); that is what carries a save from rename to rename, and past a kill between them, after which
the next editor may start with the file, the backup and the temporary files in any of the states that a save leaves.

*EditBuffer.*  The inductive invariant `BufferInv` has two halves.  `BufferOK` is `BufferConsistent` with the ranges it
relies on, and is kept by each primitive on its own: `LinesOne`, `LinesShift` and the like say what one character more or less
does to a count of lines, `BlockEdge` and `Multiples` when a byte more or less is a block more or less.  The top of the screen is
counted from the start of the text, so an edit above it moves both of its numbers.
`UndoOK` is about the ring.  `Good` says that it is well formed (`Ring`: four slots stay free, a ring that may still grow
starts at slot 0, slots outside it are clear), that its oldest entry is a key press, and that there is a *trail*: a state of text and cursor for
each slot, the last one that of the buffer, such that undoing the entry of a slot leads from its state to the one below (`Link`), and at each
key press that state is the snapshot remembered for it.  A count on top of an entry stands for a path of as many
states (`Back`).  The invariant does not say which states these are, only that they exist: that is what survives the
coding, since a repeated entry makes a path longer by one (`Back`), two opposite moves cancel since they lead back to where they
came from, and a ring that grows, wraps or drops its oldest key presses keeps the trail of the slots that are
left (`Slot` counts them from the bottom).  `PushStep` then asks of a primitive only that its entry undoes it (`InsertOK` to `MoveRightOK`), and
an undo follows the trail down to the next key press, where the text and the cursor are those of the snapshot.
A second key press in the same place adds nothing; while the marked block follows the cursor a key press has the mark
pushed on top of it, so no key press is bare then (`Closed`), and where one is swallowed no mark goes on top of the first.
`SaveIsWhole` is about a recursive function, the blocks written so far.  A least counterexample over the number of blocks (`PiecesJoin`) shows
that they are the text up to the edge of the last one; the partial block of the second side makes the edges of the rest fall on
`k + i * m`.

*Ftpfs.*  Nothing on the control connection says which command a reply is to, so that the Commander takes each reply for the right one
depends on who waits for what.  `FtpInv` says so in two parts that meet at the top of the stack.  `Shape` says which call may wait for which
(`Below`), with `Level` ordering the calls of a job from the superblock to its end, so that no call of an earlier part is left
under one of a later part (`Under`); `Fits` what each call that waits says of the files of the copy, and `Ends` what the first and the last say.
`Expected` says, of the call on top, what the server has still to do and to say: nothing (`Quiet`), a transfer and the reply that ends it (`Owes`), one command or
its reply (`Asked`), a transfer that begins (`AskedTransfer`), or ABOR with what the transfer still owes (`Aborts`).  A call that returns must leave the
one below it with what that one expects: the steps `GoConnect`, `GoLooked`, `GoClosing` and their like put the two parts together.  The server does not know the stack:
of its steps it is shown that each of these expectations stays true (`Follows`), for a transfer that ends between two calls, a refusal, an answer to ABOR that crosses
the end of the transfer (`AbortFollows`, `AnswerFollows`), and that a session which is gone has nothing more to say.
`TypeKnown`, `DirKnown` and `ReadyKnown` follow a TYPE, CWD, PORT or PASV from its sending over the server's agreement to the reply; `FlowKnown` and `FlowOK` the blocks in the data
connections, which `TypeOK` needs for the count of blocks read.  `InStep` then is what an idle Commander and one with a command to send expect.
Where the model ends with a harm, `FtpInv` keeps only the types, and `InStep` says nothing: that a reply is left unread in these cases is a fact about the code (section 6).

Only model-checked: all liveness, which is out of the prover's reach; everything in `ArchiveCache`, which has
recursive operators, since its calls recurse through each other, and these exclude proofs; and `ToldIsTrue` of `Ftpfs`.
The strengthened invariants above were checked as invariants of the same instances
before they were proved; for that of `EditBuffer` the trail, of which the entries determine each state from the one above, was followed down.

## 6. Where the code and its documents differ

The violation run is listed in PROJECT.json under `findings`.  The following were met
while modelling and are not kept as runs; where a property is named, the module
defines it, and a run with the constants given shows it violated.

File operations:

* Reget, once chosen, is applied to later targets unasked, longer ones too (`filegui.c:671`).
* `check_hardlinks` (`file.c:325`) links to a cached destination whose own copy was
  short or failed; the link is reported FILE_RETRY, so its mark stays.
* In a move, `copy_file_file` clears `do_reget` (`file.c:487`) after the user has
  answered Reget, and keeps `do_append`: the whole source is appended.
* Skip in `copy_file_file` when the source cannot be stat'ed (`file.c:513`) leaves `do_append` set; in a move the
  next file is then appended to whatever the user answers, or fails if there is nothing to append to.
* The comment at `file.c:346` says that upper levels take care of what exists at the destination of a link.  They do not
  in a copy when that is a dangling link: `mc_stat` (`file.c:497`) does not see it, and it is replaced unasked.
* A link or a special file never replaces a regular file, though the user has agreed: `mc_symlink` and `mc_mknod`
  fail, and Retry cannot help.
* A directory copy reports the status of its last entry only, so a directory with
  skipped entries may lose its mark.
* Abort below the first level does not end a deletion (`file.c:1404`).
* An Abort while a file is copied is lost when the close or chmod of the target then fails and the user presses
  Skip (`file.c:802`, 824); `CopyStopsAtAbort` speaks of the Aborts that `copy_file_file` returns.
* `move_dir_dir` compares an inode buffer it never filled when the destination
  does not exist (`file.c:1228`); the model lets the comparison come out either way.

Background jobs:

* After `file_progress_real_query_replace` the parent's context has pid 0: a Kill from the
  jobs dialog then goes to the process group, the Commander included.
* The jobs dialog lists tasks by pointer and may act on one that has ended
  (`boxes.c:930`).
* A job that is stopped in the middle of its question keeps the parent's loop in
  `read` (`background.c:203`); then nobody can resume it.
* A job killed between its question and the answer lets the parent write to a
  closed pipe.

Subshell:

* With `CanPaste` TRUE, `HandOver` fails: a line and the switch key that arrive in one read
  make the subshell INACTIVE while the shell runs the line (`subshell.c:971`).
* When a cd of `do_subshell_chdir` fails, a warning is printed (`subshell.c:789`) and nothing else: the shell stays where it
  was, so the directories differ and the next command runs there.  `DirectoriesAgree` holds only while every cd works.
* With `exit` typed at the shell, EIO on the pty may be read before SIGCHLD arrives, and the Commander ends
  with it (`subshell.c:918`).
* `exit_subshell` frees `pty_buffer` also when the user answers No to quitting
  (`subshell.c:663`).

Archives:

* `vfs_s_nothingisopen` always says that nothing is open (`direntry.c:1060`, under the comment "Our data
  structures should survive free of superblock at any time"), so "Free VFSs now" frees a tar archive while a nested
  archive has a file of it open, and closing that file uses freed memory.  `SurvivesFree` of
  `ArchiveCache` states the contrary and is violated: enter `t`, then `tt`, then `e`, free.
* Closing a file of a tar archive that was rewritten meanwhile frees the superblock and then stamps it;
  a tar archive whose file is removed while it is entered is never stamped and stays with its
  descriptor.
* An extfs archive that was only looked at is never stamped (`extfs.c`, `extfs_get_path_mangle`), and a file extracted for it stays.
* "Inconsistent extfs archive" leaves a half-read archive in the list; later visits take it for whole.
* The expiry of one nested archive may read another archive in again.

Panels:

* `reload_panelized` takes the mark off an entry and then tests it (`main.c:290` to 306), so all marks are lost
  although its comment says "else we have to mark the file again".  `MarksAreKept` of `Panel` states it and is violated.
* When the directory of a panel has gone, `panel_reload` climbs to its parent (`screen.c:1087`), and entries
  there with the names of marked ones are marked: `MarksAreOfThisDirectory` is violated.
* "Unsorted" loads the directory into a panelized panel, which stays flagged so (`screen.c:2478`).
* `try_to_select` looks for the last part of a name (`screen.c:899`), so in a panelized list the cursor leaves a
  name with a directory in it.
* `init_chmod` clears `need_update`, so a chmod loop that is cancelled or breaks off leaves the list as it was (`chmod.c:164`).
* With fast reload, `panel_operate` keeps the times of the directory before it asks (`cmd.c:382`), whatever the list was
  loaded from; a directory that was changed before then shows a stale list until its times change again.
* `_do_panel_cd` does not reset `dir_stat`, so the times kept may be those of another directory; `panel_reload` compares
  the times alone (`screen.c:1083`), so two directories changed in the same second are taken for one.
* `reload_panelized` overwrites the size of a directory that `dirsizes_cmd` has computed, and leaves `dir_size_computed` set.

Editor:

* A save takes a file that it cannot open for writing for one that does not exist (`editcmd.c:226`; the comment there says "The file
  does not exists yet, so no safe save or backup are necessary") and writes it in place.  If `mc_chmod` (`editcmd.c:262`) has
  made it writable, or a descriptor has become free, the open with O_TRUNC (`editcmd.c:264`) destroys the original, and
  a full disk or a kill then loses it, with safe saves and with backups.  `doc/mcedit.1.in:416` says "In the event of an problem, the original
  file is untouched".  `OriginalUntouched` of `EditFile` states it and is violated with one editor, one file, `Modes` = {"safe"} and
  one failing call; it holds with none, crashes or not.
* The `unlink` of a lock is not checked (`editlock.c:165`, 211): a lock that cannot be removed stays behind.
* A save under another name that fails drops the lock of the modified text whenever it had locked the other name
  (`editcmd.c:522`; the comment at `editcmd.c:518` says "Failed, so maintain modify (not save) lock").  `ModifyLockKept` of
  `EditFile` states it and is violated with one editor, two files, `Modes` = {"safe"} and one failing call.
* `edit_backspace` of a line end calls `book_mark_dec` with `curs_line` before it is lowered, and undo does not restore
  marks that an edit has moved.
* Between the `readlink` of a stale lock and its `unlink` (`editlock.c:165`) another editor may have taken
  the lock over; both then hold the file.
* `edit_clean` unlinks a file it created and found empty at the load, though another editor may have saved to
  it (`edit.c:590`; the comment at `edit.c:366` says "Don't delete non-empty files").
* The status of a write filter is not used, so with `Filtered` = {f} `SavedIsWhole` fails (`editcmd.c:270`).
* A quick save that fails in the write leaves a truncated file; if the text was unmodified it is still shown as such.
* A new file that `edit_clean` would delete is saved without a lock.
* The size of a file is taken before it is opened again for the fast load.
* The lock of a path with a directory is made from `".#"` and the whole path, which names no file.
* Nothing checks at a save whether the file has changed since it was loaded.
* After a crash between the two renames of a save with backup, the next save of an
  empty text under that name loses the backup as well; `acknowledged` is lowered there.

FTP:

* `ftpfs_linear_abort` reads a second reply only if the first is 426 (`ftpfs.c:1019`).  If the transfer ended just before ABOR, its own 226 is read and the
  answer to ABOR stays: all later replies are one behind.
* The same follows an interrupted `accept` (`ftpfs.c:961`: the reply to the transfer is not read), and the time-out of an abort when no new session is to
  be had (`ftpfs.c:1012`).
* A listing that expires during a copy is loaded again though the transfer has the control connection (`ctl_connection_busy` is looked at in
  `ftpfs_fh_open` only); server and Commander may then wait for each other.
* Most error returns of `ftpfs_open_data_connection` leave its socket open (`ftpfs.c:940` to 956).
* An interrupt while waiting to log in again returns success with the socket closed (`ftpfs.c:728`).
* The second attempt at a listing adds to what the first has inserted (`ftpfs.c:1288`).
* Reget over FTP: `vfs_s_lseek` only sets a position that a linear read never looks at, and says that it worked (`direntry.c:839`), so the whole file is appended.  With
  `Starts` = {0, 1} `ToldIsTrue` fails.
* `vfs_s_open` uses the directory it looked up without a check (`direntry.c:719`, "FIXME: check if vfs_s_find_inode returns NULL").
* If the directory cannot be loaded when the copy is over, `want_stale` stays set, and the cached listings are never dropped again (`direntry.c:1020`).
* If PWD fails after the login, the directory is taken to be "/" (`ftpfs.c:741`).
* NEWS:194 says "you can ftp your files in the background now", but `vfs_s_setctl` does not know VFS_SETCTL_FORGET: parent and job share the control
  connection.

## 7. What is not modelled

See `components` and `hazards` in PROJECT.json, each with its reason.  In short: the
components of plan item 10 are still to come; a directory copied into itself or along a cyclic link
(`dest_dirs`, `parent_dirs`) has no model; parsers of archive formats,
regular expressions, syntax rules and everything that only draws are data
transformations without the hazards this project is after; vendored libraries (about half of
the lines of the repository) are not part of it.
