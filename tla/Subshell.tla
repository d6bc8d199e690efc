------------------------------ MODULE Subshell ------------------------------
(***************************************************************************)
(* The concurrent shell (src/subshell.c) and the calls into it:            *)
(* invoke_subshell, do_subshell_chdir, feed_subshell, synchronize,         *)
(* sigchld_handler and init_subshell, with shell_execute, toggle_panels    *)
(* and the panels' cd, which use them.                                     *)
(*                                                                         *)
(* The Commander types at the shell through a pty.  After each command the *)
(* shell writes its directory to a pipe and stops itself; the Commander    *)
(* reads the pipe, waits for the stop (SIGCHLD), throws away what was      *)
(* typed ahead and resumes the shell, which prompts again.                 *)
(*                                                                         *)
(* A pty carries whole lines here, and its output is only there or not.    *)
(* Stops of the shell that come from elsewhere are not modelled.           *)
(***************************************************************************)
EXTENDS Integers, Sequences

CONSTANTS Dirs, Home,   \* directories; where a new shell starts
          Garbled,      \* what subshell_cwd holds after two answers in one read
          CanKill,      \* the shell may be killed
          CanPaste,     \* a line and the switch key may come in one read of stdin
          CanTimeout,   \* a new shell may take more than ten seconds
          CdFails,      \* a cd may fail
          MaxKeys       \* bound: lines typed ahead

ASSUME SubshellAssumption ==
  /\ Home \in Dirs /\ Garbled \notin Dirs /\ MaxKeys \in Nat
  /\ {CanKill, CanPaste, CanTimeout, CdFails} \subseteq BOOLEAN

VARIABLES
  pc,                \* where the Commander is
  caller,            \* on whose behalf feed_subshell runs
  how,               \* "VISIBLY" or "QUIETLY"
  newDir,            \* invoke_subshell set *new_dir
  use_subshell, quit,
  subshell_state, subshell_ready, subshell_alive, subshell_stopped, subshell_cwd,
  panel_cwd,         \* current_panel->cwd
  freed,             \* pty_buffer was freed by exit_subshell
  refused,           \* why the last command was refused, if it was
  shell,             \* what the shell is doing
  hook,              \* it has its PROMPT_COMMAND
  line, shell_dir,   \* the line it executes; its directory
  fate,              \* how it ends
  status, sigchld,   \* what waitpid would report; a SIGCHLD is pending
  keys, part,        \* lines typed and not read; the start of one
  output,            \* the pty has something to read
  pipe               \* directories written to subshell_pipe

flagVars  == <<subshell_ready, subshell_alive, subshell_stopped>>
mcVars    == <<pc, caller, how, newDir, use_subshell, quit, subshell_state, flagVars,
               subshell_cwd, panel_cwd, freed, refused>>
shellVars == <<shell, hook, line, shell_dir, fate>>
sigVars   == <<status, sigchld>>
ioVars    == <<keys, part, output, pipe>>
vars == <<mcVars, shellVars, sigVars, ioVars>>

\* A line: what it does, for cd the directory, and for a command of the
\* Commander the directory it was meant to run in.
NoDir == Garbled
Line(do, dir, at) == [do |-> do, dir |-> dir, at |-> at]
Precmd == Line("precmd", NoDir, NoDir)
Cd(d) == Line("cd", d, NoDir)

\* The user's own lines.
Typed == {Line("run", NoDir, NoDir), Line("exit", NoDir, NoDir)} \cup {Cd(d) : d \in Dirs}

Feeding == {"feed", "pty", "pipe", "stdin", "sync"}
Closed == shell \in {"closed", "zombie"}
Hung == shell \in {"forked", "closed", "zombie"}     \* no slave side is open

\* The subshell has been started: its first prompt has been waited for.
Init ==
  /\ pc = "idle" /\ caller = "init" /\ how = "QUIETLY" /\ newDir = 0
  /\ use_subshell = 1 /\ quit = 0
  /\ subshell_state = "INACTIVE" /\ subshell_ready = 1
  /\ subshell_alive = 1 /\ subshell_stopped = 0
  /\ subshell_cwd = Home /\ panel_cwd \in Dirs
  /\ freed = 0 /\ refused = "no"
  /\ shell = "resuming" /\ hook = 1 /\ line = Precmd /\ shell_dir = Home
  /\ fate = "running" /\ status = "none" /\ sigchld = 0
  /\ keys = <<>> /\ part = 0 /\ output = 0 /\ pipe = <<>>

---------------------------------------------------------------------------
(* The shell and the kernel *)

Shell(from, to) == shell = from /\ shell' = to

OpenSlave ==
  /\ Shell("forked", "starting")
  /\ UNCHANGED <<mcVars, hook, line, shell_dir, fate, sigVars, ioVars>>

\* From its init files, or from the end of a prompt command, to a prompt.
Prompt ==
  /\ Shell("starting", "prompt") \/ Shell("resuming", "prompt")
  /\ output' = 1
  /\ UNCHANGED <<mcVars, hook, line, shell_dir, fate, sigVars, keys, part, pipe>>

TakeLine ==
  /\ Shell("prompt", "running")
  /\ keys # <<>>
  /\ line' = Head(keys) /\ keys' = Tail(keys)
  /\ UNCHANGED <<mcVars, hook, shell_dir, fate, sigVars, part, output, pipe>>

\* A program that runs in the shell reads what is typed.
ProgramReads ==
  /\ shell = "running" /\ line.do = "run" /\ keys # <<>>
  /\ keys' = Tail(keys)
  /\ UNCHANGED <<mcVars, shellVars, sigVars, part, output, pipe>>

LineDone ==
  /\ shell = "running"
  /\ hook' = IF line.do = "precmd" THEN 1 ELSE hook
  /\ shell_dir' \in IF line.do # "cd" THEN {shell_dir}
                    ELSE {line.dir} \cup (IF CdFails THEN {shell_dir} ELSE {})
  /\ shell' = IF line.do = "exit" THEN "closed" ELSE IF hook' = 1 THEN "announce" ELSE "prompt"
  /\ fate' = IF line.do = "exit" THEN "exit" ELSE fate
  /\ output' \in {output, 1}
  /\ UNCHANGED <<mcVars, line, sigVars, keys, part, pipe>>

\* PROMPT_COMMAND='pwd>&fd;kill -STOP $$'
Announce ==
  /\ Shell("announce", "stopping")
  /\ pipe' = Append(pipe, shell_dir)
  /\ UNCHANGED <<mcVars, hook, line, shell_dir, fate, sigVars, keys, part, output>>

Stop ==
  /\ Shell("stopping", "stopped")
  /\ status' = "stop" /\ sigchld' = 1
  /\ UNCHANGED <<mcVars, hook, line, shell_dir, fate, ioVars>>

\* The descriptors of a process are closed before its status can be had.
Die ==
  /\ Shell("closed", "zombie")
  /\ status' = fate /\ sigchld' = 1
  /\ UNCHANGED <<mcVars, hook, line, shell_dir, fate, ioVars>>

Kill ==
  /\ CanKill /\ ~Closed
  /\ shell' = "closed" /\ fate' = "killed"
  /\ UNCHANGED <<mcVars, hook, line, shell_dir, sigVars, ioVars>>

---------------------------------------------------------------------------
(* Signals *)

sigchld_handler_Blocked ==
  /\ sigchld = 1 /\ sigchld' = 0
  /\ pc \notin {"gone", "sync"} \/ (pc = "sync" /\ status = "stop" /\ subshell_stopped = 0)
  /\ status' = "none"
  /\ subshell_stopped' = IF status = "stop" THEN 1 ELSE subshell_stopped
  /\ subshell_alive' = IF status \in {"exit", "killed"} THEN 0 ELSE subshell_alive
  /\ quit' = IF status = "exit" THEN 1 ELSE quit
  /\ UNCHANGED <<pc, caller, how, newDir, use_subshell, subshell_state, subshell_ready,
                 subshell_cwd, panel_cwd, freed, refused, shellVars, ioVars>>

\* SIGCHLD is blocked in synchronize but for its sigsuspend.
sigchld_handler ==
  /\ sigchld = 1 /\ sigchld' = 0
  /\ pc # "gone"
  /\ pc = "sync" => subshell_alive = 1 /\ subshell_stopped = 0
  /\ status' = "none"
  /\ subshell_stopped' = IF status = "stop" THEN 1 ELSE subshell_stopped
  /\ subshell_alive' = IF status \in {"exit", "killed"} THEN 0 ELSE subshell_alive
  /\ quit' = IF status = "exit" THEN 1 ELSE quit
  /\ UNCHANGED <<pc, caller, how, newDir, use_subshell, subshell_state, subshell_ready,
                 subshell_cwd, panel_cwd, freed, refused, shellVars, ioVars>>

---------------------------------------------------------------------------
(* feed_subshell *)

Feed(h, c) == pc' = "feed" /\ how' = h /\ caller' = c

\* Back to the caller with the value ok.
Return(ok) ==
  /\ pc' = CASE caller = "chdir" -> "idle"
             [] caller \in {"command", "toggle"} -> caller
             [] caller = "invoke" -> "invoked"
             [] caller = "init" -> "restart"
  /\ use_subshell' = IF caller = "init" /\ (ok = 0 \/ subshell_alive = 0) THEN 0 ELSE use_subshell

FeedDead ==
  /\ pc = "feed" /\ subshell_alive = 0
  /\ Return(0)
  /\ UNCHANGED <<caller, how, newDir, quit, subshell_state, flagVars, subshell_cwd,
                 panel_cwd, freed, refused, shellVars, sigVars, ioVars>>

\* select: the pty first, then the pipe, then the keyboard.
FeedSelect ==
  /\ pc = "feed" /\ subshell_alive = 1
  /\ \/ (output = 1 \/ Hung) /\ pc' = "pty"
     \/ output = 0 /\ ~Hung /\ pipe # <<>> /\ pc' = "pipe"
  /\ UNCHANGED <<caller, how, newDir, use_subshell, quit, subshell_state, flagVars,
                 subshell_cwd, panel_cwd, freed, refused, shellVars, sigVars, ioVars>>

\* There is a key, and nothing else.
FeedSelectKey ==
  /\ pc = "feed" /\ subshell_alive = 1 /\ how = "VISIBLY"
  /\ output = 0 /\ ~Hung /\ pipe = <<>>
  /\ pc' = "stdin"
  /\ UNCHANGED <<caller, how, newDir, use_subshell, quit, subshell_state, flagVars,
                 subshell_cwd, panel_cwd, freed, refused, shellVars, sigVars, ioVars>>

FeedTimeout ==
  /\ pc = "feed" /\ caller = "init" /\ CanTimeout
  /\ output = 0 /\ ~Hung /\ pipe = <<>>
  /\ Return(0)
  /\ UNCHANGED <<caller, how, newDir, quit, subshell_state, flagVars, subshell_cwd,
                 panel_cwd, freed, refused, shellVars, sigVars, ioVars>>

\* With the slave side closed the read fails with EIO.
FeedPty ==
  /\ pc = "pty"
  /\ output' = 0
  /\ IF output = 1 THEN pc' = "feed" /\ UNCHANGED use_subshell
     ELSE IF ~Hung THEN UNCHANGED <<pc, use_subshell>>
     ELSE IF subshell_alive = 0 THEN Return(0)
     ELSE pc' = "aborted" /\ UNCHANGED use_subshell
  /\ UNCHANGED <<caller, how, newDir, quit, subshell_state, flagVars, subshell_cwd,
                 panel_cwd, freed, refused, shellVars, sigVars, keys, part, pipe>>

FeedPipe ==
  /\ pc = "pipe"
  /\ subshell_cwd' = IF Len(pipe) = 1 THEN pipe[1] ELSE Garbled
  /\ pipe' = <<>>
  /\ pc' = "sync"
  /\ UNCHANGED <<caller, how, newDir, use_subshell, quit, subshell_state, flagVars,
                 panel_cwd, freed, refused, shellVars, sigVars, keys, part, output>>

\* synchronize waits until the shell has stopped or died.
SyncOver == subshell_alive = 0 \/ subshell_stopped = 1

\* SIGCONT
Revived_Not == shell
Revived == IF shell = "stopped" THEN "resuming" ELSE shell

synchronize ==
  /\ pc = "sync"
  /\ SyncOver
  /\ keys' = <<>> /\ part' = 0                      \* TCOFLUSH
  /\ subshell_stopped' = 0
  /\ shell' = Revived
  /\ subshell_ready' = 1
  /\ IF subshell_state = "RUNNING_COMMAND"
       THEN subshell_state' = "INACTIVE" /\ Return(1)
       ELSE pc' = "feed" /\ UNCHANGED <<subshell_state, use_subshell>>
  /\ UNCHANGED <<caller, how, newDir, quit, subshell_alive, subshell_cwd, panel_cwd,
                 freed, refused, hook, line, shell_dir, fate, sigVars, output, pipe>>

\* Keys for the shell.
FeedKeys ==
  /\ pc = "stdin"
  /\ pc' = "feed" /\ subshell_ready' = 0
  /\ \/ part' = 1 /\ UNCHANGED keys
     \/ /\ Len(keys) < MaxKeys /\ part' = 0
        /\ \E l \in Typed : keys' = Append(keys, l)
  /\ UNCHANGED <<caller, how, newDir, use_subshell, quit, subshell_state, subshell_alive,
                 subshell_stopped, subshell_cwd, panel_cwd, freed, refused, shellVars,
                 sigVars, output, pipe>>

\* The switch key, perhaps after a line in the same buffer.
FeedSwitchKey ==
  /\ pc = "stdin"
  /\ \/ UNCHANGED <<keys, part>>
     \/ /\ CanPaste /\ Len(keys) < MaxKeys /\ part' = 0
        /\ \E l \in Typed : keys' = Append(keys, l)
  /\ subshell_state' = IF subshell_ready = 1 THEN "INACTIVE" ELSE subshell_state
  /\ Return(1)
  /\ UNCHANGED <<caller, how, newDir, quit, flagVars, subshell_cwd, panel_cwd, freed,
                 refused, shellVars, sigVars, output, pipe>>

---------------------------------------------------------------------------
(* The calls from the panels and the command line *)

\* do_subshell_chdir: the shell is sent to the directory d of the panel, if it
\* is idle and elsewhere; then it goes on as c.
Elsewhere_Never(d) == FALSE
Elsewhere(d) == subshell_state = "INACTIVE" /\ subshell_cwd # d
SendCd(d, c) ==
  /\ keys' = Append(keys, Cd(d))
  /\ subshell_state' = "RUNNING_COMMAND"
  /\ Feed("QUIETLY", c)

PanelCd(d) ==
  /\ pc = "idle" /\ panel_cwd' = d /\ d # panel_cwd
  /\ IF use_subshell = 1 /\ Elsewhere(d)
       THEN SendCd(d, "chdir")
       ELSE UNCHANGED <<keys, subshell_state, pc, how, caller>>
  /\ UNCHANGED <<newDir, use_subshell, quit, flagVars, subshell_cwd, freed, refused,
                 shellVars, sigVars, part, output, pipe>>

\* invoke_subshell begins: for a command, or for the switch key.
Invoke(c) ==
  /\ IF Elsewhere(panel_cwd)
       THEN SendCd(panel_cwd, c)
       ELSE pc' = c /\ UNCHANGED <<keys, subshell_state, how, caller>>
  /\ UNCHANGED <<newDir, use_subshell, quit, flagVars, subshell_cwd, panel_cwd, freed,
                 shellVars, sigVars, part, output, pipe>>

shell_execute ==
  /\ pc = "idle" /\ use_subshell = 1
  /\ IF subshell_state = "INACTIVE"
       THEN refused' = "no" /\ Invoke("command")
       ELSE /\ refused' = IF subshell_alive = 1 THEN "running" ELSE "dead"
            /\ UNCHANGED <<pc, caller, how, newDir, use_subshell, quit, subshell_state, flagVars,
                           subshell_cwd, panel_cwd, freed, shellVars, sigVars, ioVars>>

toggle_panels ==
  /\ pc = "idle" /\ use_subshell = 1
  /\ Invoke("toggle") /\ UNCHANGED refused

SendCommand_KeepsReady ==
  /\ pc = "command"
  /\ keys' = Append(keys, Line("run", NoDir, panel_cwd))
  /\ subshell_state' = "RUNNING_COMMAND"
  /\ Feed("VISIBLY", "invoke")
  /\ UNCHANGED <<newDir, use_subshell, quit, flagVars, subshell_cwd, panel_cwd, freed,
                 refused, shellVars, sigVars, part, output, pipe>>

SendCommand ==
  /\ pc = "command"
  /\ keys' = Append(keys, Line("run", NoDir, panel_cwd))
  /\ subshell_state' = "RUNNING_COMMAND" /\ subshell_ready' = 0
  /\ Feed("VISIBLY", "invoke")
  /\ UNCHANGED <<newDir, use_subshell, quit, subshell_alive, subshell_stopped, subshell_cwd,
                 panel_cwd, freed, refused, shellVars, sigVars, part, output, pipe>>

ShowShell ==
  /\ pc = "toggle"
  /\ subshell_state' = IF subshell_state = "INACTIVE" THEN "ACTIVE" ELSE subshell_state
  /\ Feed("VISIBLY", "invoke")
  /\ UNCHANGED <<newDir, use_subshell, quit, flagVars, subshell_cwd, panel_cwd, freed,
                 refused, shellVars, sigVars, ioVars>>

Invoked ==
  /\ pc = "invoked" /\ pc' = "restart"
  /\ newDir' = IF subshell_alive = 1 /\ subshell_cwd # panel_cwd THEN 1 ELSE 0
  /\ UNCHANGED <<caller, how, use_subshell, quit, subshell_state, flagVars, subshell_cwd,
                 panel_cwd, freed, refused, shellVars, sigVars, ioVars>>

\* What the dead shell did not read may still be in the pty.
init_subshell ==
  /\ pc = "restart" /\ subshell_alive = 0 /\ quit = 0 /\ use_subshell = 1
  /\ subshell_alive' = 1 /\ subshell_stopped' = 0
  /\ shell' = "forked" /\ hook' = 0 /\ shell_dir' = Home /\ fate' = "running"
  /\ keys' \in {Append(keys, Precmd), <<Precmd>>} /\ part' = 0
  /\ subshell_state' = "RUNNING_COMMAND"
  /\ Feed("QUIETLY", "init")
  /\ UNCHANGED <<newDir, use_subshell, quit, subshell_ready, subshell_cwd, panel_cwd, freed,
                 refused, line, sigVars, output, pipe>>

\* invoke_subshell returns; the panel follows the shell, or the program ends.
Leave ==
  /\ pc = "restart" /\ ~(subshell_alive = 0 /\ quit = 0 /\ use_subshell = 1)
  /\ pc' = IF quit = 1 THEN "gone" ELSE "idle"
  /\ panel_cwd' = IF newDir = 1 /\ subshell_cwd \in Dirs THEN subshell_cwd ELSE panel_cwd
  /\ newDir' = 0
  /\ UNCHANGED <<caller, how, use_subshell, quit, subshell_state, flagVars, subshell_cwd,
                 freed, refused, shellVars, sigVars, ioVars>>

\* The prompt is read while the panels are shown.
load_prompt ==
  /\ pc = "idle" /\ use_subshell = 1 /\ subshell_alive = 1 /\ output = 1
  /\ output' = 0
  /\ UNCHANGED <<mcVars, shellVars, sigVars, keys, part, pipe>>

\* Quit; if the shell is still active the user may think better of it.
exit_subshell ==
  /\ pc = "idle"
  /\ freed' = use_subshell
  /\ \/ pc' = "gone"
     \/ use_subshell = 1 /\ subshell_state # "INACTIVE" /\ subshell_alive = 1 /\ UNCHANGED pc
  /\ UNCHANGED <<caller, how, newDir, use_subshell, quit, subshell_state, flagVars,
                 subshell_cwd, panel_cwd, refused, shellVars, sigVars, ioVars>>

---------------------------------------------------------------------------

ShellStep == OpenSlave \/ Prompt \/ TakeLine \/ LineDone \/ Announce \/ Stop \/ Die

feed_subshell == FeedDead \/ FeedSelect \/ FeedPty \/ FeedPipe \/ synchronize

Call == SendCommand \/ ShowShell \/ Invoked \/ init_subshell \/ Leave

FeedStdin == FeedKeys \/ FeedSwitchKey

User == \/ FeedSelectKey \/ FeedStdin
        \/ shell_execute \/ toggle_panels \/ exit_subshell
        \/ \E d \in Dirs : PanelCd(d)

Next == \/ ShellStep \/ ProgramReads \/ Kill
        \/ sigchld_handler \/ feed_subshell \/ FeedTimeout \/ Call \/ load_prompt \/ User

Spec == Init /\ [][Next]_vars

\* The shell and what it runs go on, signals are delivered, and the Commander
\* runs, its timer too, and reads a key it was told of; no key has to come.
Fairness == WF_vars(ShellStep) /\ WF_vars(sigchld_handler) /\ WF_vars(feed_subshell)
            /\ WF_vars(FeedStdin) /\ WF_vars(FeedTimeout) /\ WF_vars(Call)

FairSpec == Spec /\ Fairness

---------------------------------------------------------------------------
(* Properties *)

\* Every variable keeps its kind; subshell_cwd is a directory or two of them
\* read at once.
TypeOK ==
  /\ pc \in Feeding \cup {"idle", "command", "toggle", "invoked", "restart", "gone", "aborted"}
  /\ caller \in {"chdir", "command", "toggle", "invoke", "init"}
  /\ how \in {"VISIBLY", "QUIETLY"}
  /\ {newDir, use_subshell, quit, subshell_ready, subshell_alive, subshell_stopped, freed,
      hook, sigchld, part, output} \subseteq {0, 1}
  /\ subshell_state \in {"INACTIVE", "ACTIVE", "RUNNING_COMMAND"}
  /\ panel_cwd \in Dirs /\ shell_dir \in Dirs /\ subshell_cwd \in Dirs \cup {Garbled}
  /\ refused \in {"no", "running", "dead"}
  /\ shell \in {"forked", "starting", "prompt", "running", "announce", "stopping", "stopped",
                "resuming", "closed", "zombie"}
  /\ fate \in {"running", "exit", "killed"} /\ status \in {"none", "stop", "exit", "killed"}
  /\ keys \in Seq([do : {"run", "exit", "cd", "precmd"}, dir : Dirs \cup {NoDir}, at : Dirs \cup {NoDir}])
  /\ pipe \in Seq(Dirs)

\* "INACTIVE: the default state; awaiting a command" (subshell.c:101): in this
\* state a shell that is alive is at its prompt, or about to be, with nothing
\* typed at it, so that the next command or cd is read by the shell itself.
InactiveIsIdle ==
  pc \in {"idle", "command"} /\ subshell_state = "INACTIVE" /\ ~Closed =>
    shell \in {"resuming", "prompt"} /\ keys = <<>> /\ part = 0 /\ pipe = <<>>

\* ... and the Commander knows in which directory it is (the pipe).
CwdKnown ==
  pc \in {"idle", "command"} /\ subshell_state = "INACTIVE" /\ ~Closed => subshell_cwd = shell_dir

\* "Make the subshell change to MC's working directory" (subshell.c:531): a
\* command of the Commander runs where the panel was when it was given.
RunsWhereAsked ==
  shell = "running" /\ line.at # NoDir => shell_dir = line.at

\* The directories of the two agree whenever it matters.
DirectoriesAgree == CwdKnown /\ RunsWhereAsked

\* The stop of a shell is always waited for: no stopped shell is left behind
\* by a feed that has seen its answer (synchronize, sigchld_handler).
StopIsAwaited ==
  shell \in {"stopping", "stopped"} => pipe # <<>> \/ pc = "sync"

\* The hand-over between the two is sound: a shell called idle is idle, and one
\* that stops is waited for (invoke_subshell, feed_subshell, synchronize).
HandOver == InactiveIsIdle /\ StopIsAwaited

\* What the Commander does with the keyboard dead comes to an end: the cd of
\* the panels, and the start of a shell, for which "we wait up to 10 seconds if
\* fail_on_error" (subshell.c:877).
QuietFeedEnds == (pc \in Feeding /\ how = "QUIETLY") ~> pc \notin Feeding

\* The death of the shell is noticed, though one SIGCHLD may stand for a stop
\* and a death, and though synchronize blocks it (subshell_alive); and a feed,
\* with the synchronize inside it, does not outlive the shell.
DeathIsHandled ==
  /\ Closed ~> ~Closed \/ subshell_alive = 0 \/ pc \in {"gone", "aborted"}
  /\ (Closed /\ pc \in Feeding) ~> pc \notin Feeding

\* "Restart the subshell if it has died by SIGHUP, SIGQUIT, etc."
\* (subshell.c:561): the Commander does not die with it.
SurvivesShell == pc # "aborted"
=============================================================================
