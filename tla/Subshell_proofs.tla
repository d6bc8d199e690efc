--------------------------- MODULE Subshell_proofs ---------------------------
(***************************************************************************)
(* What Subshell promises for any directories and any number of lines      *)
(* typed ahead: variables stay in their types, and, as long as nobody      *)
(* kills the shell and no line is pasted together with the switch key, the *)
(* Commander and the shell agree about who waits for whom, and where.      *)
(***************************************************************************)
EXTENDS Subshell, SequenceTheorems, TLAPS

Lines == {l \in [do : {"run", "exit", "cd", "precmd"}, dir : Dirs \cup {NoDir},
                 at : Dirs \cup {NoDir}] : l.do = "cd" => l.dir \in Dirs}

(* What TypeOK says, with the lines as they are typed, and that the end of *)
(* a shell has a status.                                                   *)
CallType ==
  /\ pc \in Feeding \cup {"idle", "command", "toggle", "invoked", "restart", "gone", "aborted"}
  /\ caller \in {"chdir", "command", "toggle", "invoke", "init"}
  /\ how \in {"VISIBLY", "QUIETLY"} /\ newDir \in {0, 1} /\ use_subshell \in {0, 1}
  /\ subshell_state \in {"INACTIVE", "ACTIVE", "RUNNING_COMMAND"}

McType ==
  /\ quit \in {0, 1} /\ subshell_ready \in {0, 1} /\ subshell_alive \in {0, 1}
  /\ subshell_stopped \in {0, 1} /\ freed \in {0, 1}
  /\ panel_cwd \in Dirs /\ subshell_cwd \in Dirs \cup {Garbled}
  /\ refused \in {"no", "running", "dead"}

ShellType ==
  /\ shell \in {"forked", "starting", "prompt", "running", "announce", "stopping", "stopped",
                "resuming", "closed", "zombie"}
  /\ hook \in {0, 1} /\ shell_dir \in Dirs /\ line \in Lines
  /\ fate \in {"running", "exit", "killed"}
  /\ Closed => fate # "running"
  /\ status \in {"none", "stop", "exit", "killed"} /\ sigchld \in {0, 1}

IoType ==
  /\ keys \in Seq(Lines) /\ part \in {0, 1} /\ output \in {0, 1} /\ pipe \in Seq(Dirs)

TInv == CallType /\ McType /\ ShellType /\ IoType

\* Somebody waits for the shell with the keyboard off.
Quiet == pc \in Feeding /\ how = "QUIETLY"

AtPrompt == shell \in {"resuming", "prompt"}
AtRest == AtPrompt /\ keys = <<>> /\ part = 0 /\ subshell_cwd = shell_dir

(* Signals: one that is pending tells of the state the shell is in.        *)
SignalInv ==
  /\ hook = 1 /\ shell \notin {"forked", "starting"} /\ fate \in {"running", "exit"}
  /\ status \in {"none", "stop", "exit"}
  /\ shell = "closed" => fate = "exit"
  /\ status = "stop" => shell = "stopped"
  /\ status = "exit" => shell = "zombie"
  /\ subshell_stopped = 1 => shell = "stopped" /\ status = "none"
  /\ subshell_alive = 0 => shell = "zombie" /\ quit = 1

(* The pipe: one directory, the shell's own, until synchronize is on its way. *)
PipeInv ==
  /\ pipe # <<>> => pipe = <<shell_dir>> /\ shell \in {"stopping", "stopped"} /\ pc # "sync"
  /\ shell \in {"stopping", "stopped"} => pipe # <<>> \/ pc = "sync"
  /\ pc = "sync" => shell \in {"stopping", "stopped"} /\ subshell_cwd = shell_dir
  /\ pc = "pipe" => pipe # <<>>

(* Who called feed_subshell, and how.                                      *)
CallInv ==
  /\ pc \in Feeding => /\ subshell_state # "INACTIVE"
                       /\ how = "QUIETLY" => caller \in {"chdir", "command", "toggle"}
                       /\ how = "VISIBLY" => caller = "invoke"
  /\ pc = "stdin" => how = "VISIBLY"

(* A shell called ready has nothing to do, unless it was just sent a cd.   *)
ReadyInv ==
  /\ subshell_state = "INACTIVE" => subshell_ready = 1
  /\ subshell_ready = 1 /\ ~ Quiet => AtRest

(* The way of a cd: typed, executed, announced.                            *)
QuietInv ==
  Quiet =>
    /\ subshell_state = "RUNNING_COMMAND" /\ subshell_ready = 1 /\ part = 0
    /\ \/ AtPrompt /\ keys = <<Cd(panel_cwd)>>
       \/ shell = "running" /\ line = Cd(panel_cwd) /\ keys = <<>>
       \/ /\ shell \in {"announce", "stopping", "stopped"} /\ keys = <<>>
          /\ CdFails = FALSE => shell_dir = panel_cwd

OrderInv == SignalInv /\ PipeInv /\ CallInv /\ ReadyInv /\ QuietInv

(* A command of the Commander is the next line, at a shell in its directory. *)
CommandInv ==
  /\ pc = "command" => subshell_state = "INACTIVE" /\ subshell_cwd = panel_cwd
  /\ ~ Closed => \A i \in 1..Len(keys) :
       keys[i].at # NoDir => i = 1 /\ AtPrompt /\ shell_dir = keys[i].at
  /\ RunsWhereAsked
-----------------------------------------------------------------------------
(* Types *)

LEMMA LineIn ==
  /\ Precmd \in Lines /\ Precmd.at = NoDir /\ Precmd.do = "precmd"
  /\ \A d \in Dirs : /\ Cd(d) \in Lines /\ Cd(d).at = NoDir /\ Cd(d).do = "cd"
                     /\ Cd(d).dir = d
  /\ \A l \in Typed : l \in Lines /\ l.at = NoDir
  /\ \A d \in Dirs : Line("run", NoDir, d) \in Lines /\ Line("run", NoDir, d).at = d
  BY DEF Lines, Line, Precmd, Cd, Typed

LEMMA ReturnIs ==
  ASSUME NEW ok, Return(ok)
  PROVE  /\ caller = "chdir" => pc' = "idle"
         /\ caller \in {"command", "toggle"} => pc' = caller
         /\ caller = "invoke" => pc' = "invoked"
         /\ caller = "init" => pc' = "restart"
         /\ use_subshell' \in {0, use_subshell}
<1>1. /\ caller = "chdir" => pc' = "idle"
      /\ caller \in {"command", "toggle"} => pc' = caller
      /\ caller = "invoke" => pc' = "invoked"
      /\ caller = "init" => pc' = "restart"
  BY Zenon DEF Return
<1>2. use_subshell' \in {0, use_subshell}
  BY DEF Return
<1> QED
  BY <1>1, <1>2

\* What feed_subshell returns to.
LEMMA ReturnType ==
  ASSUME NEW ok, Return(ok), caller \in {"chdir", "command", "toggle", "invoke", "init"},
         use_subshell \in {0, 1}
  PROVE  /\ pc' \in {"idle", "command", "toggle", "invoked", "restart"}
         /\ use_subshell' \in {0, 1}
  BY ReturnIs

\* A line is typed.
LEMMA TypedKeys ==
  ASSUME keys \in Seq(Lines), NEW l \in Lines
  PROVE  /\ Append(keys, l) \in Seq(Lines) /\ Len(Append(keys, l)) = Len(keys) + 1
         /\ Len(keys) \in Nat
         /\ Append(keys, l)[Len(keys) + 1] = l
         /\ \A i \in 1..Len(keys) : Append(keys, l)[i] = keys[i]
  BY AppendProperties, LenProperties

LEMMA ReadKeys ==
  ASSUME keys \in Seq(Lines), keys # <<>>
  PROVE  /\ Tail(keys) \in Seq(Lines) /\ Head(keys) \in Lines /\ Head(keys) = keys[1]
         /\ Len(keys) \in Nat \ {0} /\ Len(Tail(keys)) = Len(keys) - 1
         /\ \A i \in 1..Len(Tail(keys)) : Tail(keys)[i] = keys[i + 1]
<1>1. Tail(keys) \in Seq(Lines) /\ Head(keys) \in Lines
  BY HeadTailProperties
<1>2. Len(keys) \in Nat \ {0} /\ Len(Tail(keys)) = Len(keys) - 1
  BY LenProperties, EmptySeq, HeadTailProperties
<1> QED
  BY <1>1, <1>2, HeadTailProperties

LEMMA TypeSame == ASSUME TInv, UNCHANGED vars PROVE TInv'
  BY DEF TInv, CallType, McType, ShellType, IoType, Closed,
         vars, mcVars, flagVars, shellVars, sigVars, ioVars

LEMMA TypeShell == ASSUME TInv, ShellStep \/ Kill PROVE TInv'
<1> USE DEF TInv, CallType, McType, ShellType, IoType, Closed,
            mcVars, flagVars, shellVars, sigVars, ioVars, Shell
<1>1. CASE OpenSlave
  BY <1>1 DEF OpenSlave
<1>2. CASE Prompt
  BY <1>2 DEF Prompt
<1>3. CASE TakeLine
  BY <1>3, ReadKeys DEF TakeLine
<1>4. CASE LineDone
  <2>1. shell_dir' \in Dirs
    BY <1>4 DEF LineDone, Lines
  <2> QED
    BY <1>4, <2>1 DEF LineDone
<1>5. CASE Announce
  BY <1>5, AppendProperties DEF Announce
<1>6. CASE Stop
  BY <1>6 DEF Stop
<1>7. CASE Die
  BY <1>7 DEF Die
<1>8. CASE Kill
  BY <1>8 DEF Kill
<1> QED
  BY <1>1, <1>2, <1>3, <1>4, <1>5, <1>6, <1>7, <1>8 DEF ShellStep

LEMMA TypeFeed == ASSUME TInv, feed_subshell \/ FeedTimeout PROVE TInv'
<1> USE DEF TInv, CallType, McType, ShellType, IoType, Closed,
            mcVars, flagVars, shellVars, sigVars, ioVars, Feeding
<1>1. CASE FeedDead
  BY <1>1, ReturnType DEF FeedDead
<1>2. CASE FeedSelect
  BY <1>2 DEF FeedSelect
<1>3. CASE FeedPty
  <2>1. (pc' \in {"feed", "pty", "aborted"} /\ UNCHANGED use_subshell) \/ Return(0)
    BY <1>3 DEF FeedPty
  <2>2. CallType'
    BY <1>3, <2>1, ReturnType DEF FeedPty
  <2> QED
    BY <1>3, <2>2 DEF FeedPty
<1>4. CASE FeedPipe
  <2>1. subshell_cwd' \in Dirs \cup {Garbled}
    BY <1>4, LenProperties, ElementOfSeq DEF FeedPipe
  <2>2. pipe' \in Seq(Dirs)
    BY <1>4, EmptySeq DEF FeedPipe
  <2> QED
    BY <1>4, <2>1, <2>2 DEF FeedPipe
<1>5. CASE synchronize
  <2>1. \/ pc' = "feed" /\ UNCHANGED <<subshell_state, use_subshell>>
        \/ subshell_state' = "INACTIVE" /\ Return(1)
    BY <1>5 DEF synchronize
  <2>2. CallType'
    BY <1>5, <2>1, ReturnType DEF synchronize
  <2>3. shell' \in {shell, "resuming"} /\ (Closed' => Closed)
    BY <1>5 DEF synchronize, Revived
  <2>4. keys' \in Seq(Lines)
    BY <1>5, EmptySeq DEF synchronize
  <2> QED
    BY <1>5, <2>2, <2>3, <2>4 DEF synchronize
<1>6. CASE FeedTimeout
  BY <1>6, ReturnType DEF FeedTimeout
<1> QED
  BY <1>1, <1>2, <1>3, <1>4, <1>5, <1>6 DEF feed_subshell

LEMMA TypeStdin == ASSUME TInv, FeedSelectKey \/ FeedStdin \/ ProgramReads PROVE TInv'
<1> USE DEF TInv, CallType, McType, ShellType, IoType, Closed,
            mcVars, flagVars, shellVars, sigVars, ioVars, Feeding
<1>1. CASE FeedSelectKey
  BY <1>1 DEF FeedSelectKey
<1>2. CASE FeedKeys
  <2>1. keys' \in Seq(Lines)
    <3>1. keys' = keys \/ \E l \in Typed : keys' = Append(keys, l)
      BY <1>2 DEF FeedKeys
    <3>2. \A l \in Typed : Append(keys, l) \in Seq(Lines)
      BY TypedKeys, LineIn
    <3> QED
      BY <3>1, <3>2
  <2> QED
    BY <1>2, <2>1 DEF FeedKeys
<1>3. CASE FeedSwitchKey
  <2>1. keys' \in Seq(Lines) /\ part' \in {0, 1}
    BY <1>3, TypedKeys, LineIn DEF FeedSwitchKey
  <2>2. pc' \in {"idle", "command", "toggle", "invoked", "restart"} /\ use_subshell' \in {0, 1}
    BY <1>3, ReturnType DEF FeedSwitchKey
  <2> QED
    BY <1>3, <2>1, <2>2 DEF FeedSwitchKey
<1>4. CASE ProgramReads
  BY <1>4, ReadKeys DEF ProgramReads
<1> QED
  BY <1>1, <1>2, <1>3, <1>4 DEF FeedStdin

\* A cd is typed, and waited for.
LEMMA SendCdType ==
  ASSUME TInv, NEW d \in Dirs, NEW c \in {"chdir", "command", "toggle"}, SendCd(d, c)
  PROVE  /\ keys' \in Seq(Lines) /\ pc' = "feed" /\ how' = "QUIETLY" /\ caller' = c
         /\ subshell_state' = "RUNNING_COMMAND"
  BY TypedKeys, LineIn DEF SendCd, Feed, TInv, IoType

LEMMA TypeInvoke ==
  ASSUME TInv, NEW c \in {"command", "toggle"}, Invoke(c), refused' \in {"no", "running", "dead"}
  PROVE  TInv'
<1> USE DEF TInv, CallType, McType, ShellType, IoType, Closed,
            mcVars, flagVars, shellVars, sigVars, ioVars, Feeding
<1>1. CASE Elsewhere(panel_cwd)
  <2>1. SendCd(panel_cwd, c)
    BY <1>1 DEF Invoke
  <2>2. /\ keys' \in Seq(Lines) /\ pc' = "feed" /\ how' = "QUIETLY" /\ caller' = c
        /\ subshell_state' = "RUNNING_COMMAND"
    BY <2>1, SendCdType
  <2> QED
    BY <2>2 DEF Invoke
<1>2. CASE ~ Elsewhere(panel_cwd)
  BY <1>2 DEF Invoke
<1> QED
  BY <1>1, <1>2

LEMMA TypeUser ==
  ASSUME TInv, \/ shell_execute \/ toggle_panels \/ exit_subshell
               \/ \E d \in Dirs : PanelCd(d)
  PROVE  TInv'
<1> USE DEF TInv, CallType, McType, ShellType, IoType, Closed,
            mcVars, flagVars, shellVars, sigVars, ioVars, Feeding
<1>1. CASE shell_execute
  <2>1. CASE subshell_state = "INACTIVE"
    BY <1>1, <2>1, TypeInvoke DEF shell_execute
  <2>2. CASE subshell_state # "INACTIVE"
    BY <1>1, <2>2 DEF shell_execute
  <2> QED
    BY <2>1, <2>2
<1>2. CASE toggle_panels
  BY <1>2, TypeInvoke DEF toggle_panels
<1>3. CASE exit_subshell
  BY <1>3 DEF exit_subshell
<1>4. ASSUME NEW d \in Dirs, PanelCd(d) PROVE TInv'
  <2>1. SendCd(d, "chdir") \/ UNCHANGED <<keys, subshell_state, pc, how, caller>>
    BY <1>4 DEF PanelCd
  <2>2. keys' \in Seq(Lines) /\ CallType'
    BY <1>4, <2>1, SendCdType DEF PanelCd
  <2> QED
    BY <1>4, <2>2 DEF PanelCd
<1> QED
  BY <1>1, <1>2, <1>3, <1>4

LEMMA TypeCall == ASSUME TInv, Call \/ load_prompt \/ sigchld_handler PROVE TInv'
<1> USE DEF TInv, CallType, McType, ShellType, IoType, Closed,
            mcVars, flagVars, shellVars, sigVars, ioVars, Feeding, Feed
<1>1. CASE SendCommand
  <2>1. keys' \in Seq(Lines)
    BY <1>1, TypedKeys, LineIn DEF SendCommand
  <2> QED
    BY <1>1, <2>1 DEF SendCommand
<1>2. CASE ShowShell
  BY <1>2 DEF ShowShell
<1>3. CASE Invoked
  BY <1>3 DEF Invoked
<1>4. CASE init_subshell
  <2> DEFINE l == Precmd
  <2>1. keys' \in {Append(keys, l), <<l>>}
    BY <1>4 DEF init_subshell
  <2>3. l \in Lines
    BY LineIn
  <2>4. keys' \in Seq(Lines)
    <3> HIDE DEF l
    <3>1. Append(keys, l) \in Seq(Lines) /\ <<l>> \in Seq(Lines)
      BY <2>3, TypedKeys
    <3> QED
      BY <2>1, <3>1
  <2>2. Home \in Dirs
    BY SubshellAssumption DEF SubshellAssumption
  <2> QED
    BY <1>4, <2>2, <2>4 DEF init_subshell
<1>5. CASE Leave
  BY <1>5 DEF Leave
<1>6. CASE load_prompt
  BY <1>6 DEF load_prompt
<1>7. CASE sigchld_handler
  BY <1>7 DEF sigchld_handler
<1> QED
  BY <1>1, <1>2, <1>3, <1>4, <1>5, <1>6, <1>7 DEF Call

LEMMA InitTypes == ASSUME Init PROVE TInv
<1>1. Home \in Dirs
  BY SubshellAssumption DEF SubshellAssumption
<1> QED
  BY <1>1, LineIn, EmptySeq
     DEF Init, TInv, CallType, McType, ShellType, IoType, Closed, Feeding

LEMMA TypesHold == Spec => []TInv
<1>1. Init => TInv
  BY InitTypes
<1>2. TInv /\ [Next]_vars => TInv'
  <2> SUFFICES ASSUME TInv, [Next]_vars PROVE TInv'
    OBVIOUS
  <2> QED
    BY TypeSame, TypeShell, TypeFeed, TypeStdin, TypeUser, TypeCall DEF Next, User
<1> QED
  BY <1>1, <1>2, PTL DEF Spec

\* The variables of the Commander, the shell and what lies between them keep
\* their types, whatever is typed ahead and whoever kills the shell.
THEOREM TypeCorrect == Spec => []TypeOK
<1>1. TInv => TypeOK
  <2>1. Lines \subseteq [do : {"run", "exit", "cd", "precmd"}, dir : Dirs \cup {NoDir},
                         at : Dirs \cup {NoDir}]
    BY DEF Lines
  <2> DEFINE Plain == [do : {"run", "exit", "cd", "precmd"}, dir : Dirs \cup {NoDir},
                       at : Dirs \cup {NoDir}]
  <2>2. keys \in Seq(Lines) => keys \in Seq(Plain)
    <3> HIDE DEF Plain
    <3>1. Lines \subseteq Plain
      BY <2>1 DEF Plain
    <3> QED
      BY <3>1, SeqMonotonic
  <2> SUFFICES ASSUME TInv PROVE TypeOK
    OBVIOUS
  <2>3. keys \in Seq(Plain)
    BY <2>2 DEF TInv, IoType
  <2> QED
    BY <2>3 DEF TInv, CallType, McType, ShellType, IoType, TypeOK
<1> QED
  BY <1>1, TypesHold, PTL

---------------------------------------------------------------------------
(* The hand-over, while nobody kills the shell and no paste ends in the    *)
(* switch key                                                              *)

LEMMA OrderSame == ASSUME OrderInv, UNCHANGED vars PROVE OrderInv'
  BY DEF OrderInv, SignalInv, PipeInv, CallInv, ReadyInv, QuietInv, Quiet, AtPrompt, AtRest,
         Closed, vars, mcVars, flagVars, shellVars, sigVars, ioVars

\* The parts, for steps that leave the other parts alone.
LEMMA SignalSame ==
  ASSUME SignalInv, UNCHANGED <<shellVars, sigVars, subshell_stopped, subshell_alive, quit>>
  PROVE  SignalInv'
  BY DEF SignalInv, shellVars, sigVars

LEMMA PipeSame ==
  ASSUME PipeInv, UNCHANGED <<shell, shell_dir, pipe, subshell_cwd>>,
         pc # "sync", pc' \notin {"sync", "pipe"}
  PROVE  PipeInv'
  BY DEF PipeInv

LEMMA OrderShell ==
  ASSUME TInv, OrderInv, ShellStep
  PROVE  OrderInv'
<1> USE DEF TInv, ShellType, OrderInv, SignalInv, PipeInv, CallInv, ReadyInv, QuietInv,
            Quiet, AtPrompt, AtRest, Feeding,
            mcVars, flagVars, shellVars, sigVars, ioVars, Shell
<1>1. CASE OpenSlave
  BY <1>1 DEF OpenSlave
<1>2. CASE Prompt
  BY <1>2 DEF Prompt
<1>3. CASE TakeLine
  <2>1. keys = <<Cd(panel_cwd)>> => Head(keys) = Cd(panel_cwd) /\ Tail(keys) = <<>>
    OBVIOUS
  <2> QED
    BY <1>3, <2>1 DEF TakeLine
<1>4. CASE LineDone
  <2>1. panel_cwd \in Dirs
    BY DEF TInv, McType
  <2>2. Cd(panel_cwd).do = "cd" /\ Cd(panel_cwd).dir = panel_cwd
    BY <2>1, LineIn
  <2>3. line = Cd(panel_cwd) /\ CdFails = FALSE => shell_dir' = panel_cwd
    BY <1>4, <2>2 DEF LineDone
  <2>4. line.do = "exit" => line # Cd(panel_cwd)
    BY <2>2
  <2> QED
    BY <1>4, <2>3, <2>4 DEF LineDone
<1>5. CASE Announce
  <2>1. Append(<<>>, shell_dir) = <<shell_dir>>
    OBVIOUS
  <2>2. pipe = <<>> /\ shell = "announce" /\ shell' = "stopping"
    BY <1>5 DEF Announce
  <2>3. pipe' = <<shell_dir>> /\ pipe' # <<>>
    BY <1>5, <2>1, <2>2 DEF Announce
  <2> QED
    BY <1>5, <2>2, <2>3 DEF Announce
<1>6. CASE Stop
  BY <1>6 DEF Stop
<1>7. CASE Die
  BY <1>7 DEF Die
<1> QED
  BY <1>1, <1>2, <1>3, <1>4, <1>5, <1>6, <1>7 DEF ShellStep

LEMMA OrderFeed ==
  ASSUME TInv, OrderInv, feed_subshell
  PROVE  OrderInv'
<1> USE DEF TInv, ShellType, CallType, OrderInv, SignalInv, PipeInv, CallInv, ReadyInv, QuietInv,
            Quiet, AtPrompt, AtRest, Feeding,
            mcVars, flagVars, shellVars, sigVars, ioVars
<1>1. CASE FeedDead
  BY <1>1, ReturnIs DEF FeedDead
<1>2. CASE FeedSelect
  BY <1>2 DEF FeedSelect, Hung
<1>3. CASE FeedPty
  <2>1. pc' = "feed" \/ pc' = "pty" \/ (pc' = "aborted" /\ Hung) \/ (Return(0) /\ subshell_alive = 0)
    BY <1>3 DEF FeedPty
  <2> QED
    BY <1>3, <2>1, ReturnIs DEF FeedPty, Hung
<1>4. CASE FeedPipe
  <2>1. Len(<<shell_dir>>) = 1 /\ <<shell_dir>>[1] = shell_dir
    OBVIOUS
  <2>2. pipe = <<shell_dir>> /\ shell \in {"stopping", "stopped"}
    BY <1>4 DEF FeedPipe
  <2>3. subshell_cwd' = shell_dir
    BY <1>4, <2>1, <2>2 DEF FeedPipe
  <2> QED
    BY <1>4, <2>2, <2>3 DEF FeedPipe
<1>5. CASE synchronize
  <2>1. /\ shell = "stopped" /\ shell' = "resuming" /\ subshell_alive = 1 /\ pipe = <<>>
        /\ subshell_stopped = 1 /\ status = "none"
    BY <1>5 DEF synchronize, SyncOver, Revived, McType
  <2>2. \/ subshell_state # "RUNNING_COMMAND" /\ pc' = "feed" /\ UNCHANGED <<subshell_state, use_subshell>>
        \/ subshell_state = "RUNNING_COMMAND" /\ subshell_state' = "INACTIVE" /\ Return(1)
    BY <1>5 DEF synchronize
  <2>3. /\ keys' = <<>> /\ part' = 0 /\ subshell_cwd' = shell_dir' /\ pipe' = <<>>
        /\ subshell_ready' = 1 /\ subshell_stopped' = 0
    BY <1>5, <2>1 DEF synchronize
  <2>4. SignalInv'
    <3>1. UNCHANGED <<hook, fate, status, subshell_alive, quit>>
      BY <1>5 DEF synchronize
    <3> QED
      BY <2>1, <2>3, <3>1
  <2>5. CASE pc' = "feed" /\ UNCHANGED subshell_state /\ subshell_state # "RUNNING_COMMAND"
    <3>1. how = "VISIBLY" /\ how' = how /\ caller' = caller
      BY <1>5, <2>5 DEF synchronize
    <3> QED
      BY <1>5, <2>1, <2>3, <2>4, <2>5, <3>1
  <2>6. CASE subshell_state' = "INACTIVE" /\ Return(1)
    <3>1. pc' \in {"idle", "command", "toggle", "invoked", "restart"}
      BY <2>6, ReturnType
    <3> QED
      BY <1>5, <2>1, <2>3, <2>4, <2>6, <3>1
  <2> QED
    BY <2>2, <2>5, <2>6
<1> QED
  BY <1>1, <1>2, <1>3, <1>4, <1>5 DEF feed_subshell

LEMMA OrderStdin ==
  ASSUME CanPaste = FALSE, TInv, OrderInv, FeedSelectKey \/ FeedStdin \/ FeedTimeout \/ ProgramReads
  PROVE  OrderInv'
<1> USE DEF TInv, ShellType, CallType, OrderInv, SignalInv, PipeInv, CallInv, ReadyInv, QuietInv,
            Quiet, AtPrompt, AtRest, Feeding,
            mcVars, flagVars, shellVars, sigVars, ioVars
<1>1. CASE FeedSelectKey
  BY <1>1 DEF FeedSelectKey
<1>2. CASE FeedKeys
  BY <1>2 DEF FeedKeys
<1>3. CASE FeedSwitchKey
  BY <1>3, ReturnIs DEF FeedSwitchKey
<1>4. CASE FeedTimeout
  BY <1>4 DEF FeedTimeout
<1>5. CASE ProgramReads
  <2>1. keys # <<>> /\ shell = "running"
    BY <1>5 DEF ProgramReads
  <2> QED
    BY <1>5, <2>1 DEF ProgramReads
<1> QED
  BY <1>1, <1>2, <1>3, <1>4, <1>5 DEF FeedStdin

\* A cd is sent only to a shell at rest.
LEMMA OrderSendCd ==
  ASSUME TInv, OrderInv, NEW d \in Dirs, NEW c \in {"chdir", "command", "toggle"},
         pc = "idle", Elsewhere(d), SendCd(d, c), panel_cwd' = d,
         UNCHANGED <<flagVars, subshell_cwd, quit, shellVars, sigVars, part, output, pipe>>
  PROVE  OrderInv'
<1>1. AtRest /\ subshell_ready = 1
  BY DEF OrderInv, ReadyInv, Elsewhere, Quiet, Feeding
<1>2. keys' = <<Cd(panel_cwd')>>
  <2> DEFINE l == Cd(d)
  <2>1. keys' = Append(<<>>, l)
    BY <1>1 DEF SendCd, AtRest
  <2> HIDE DEF l
  <2>2. keys' = <<l>>
    BY <2>1
  <2> QED
    BY <2>2 DEF l, Cd, Line
<1>3. QuietInv'
  BY <1>1, <1>2 DEF SendCd, Feed, QuietInv, AtRest, AtPrompt, shellVars, flagVars
<1>4. SignalInv' /\ PipeInv'
  BY SignalSame, PipeSame DEF OrderInv, SendCd, Feed, flagVars, shellVars
<1>5. CallInv' /\ ReadyInv'
  BY DEF SendCd, Feed, CallInv, ReadyInv, Quiet, Feeding
<1> QED
  BY <1>3, <1>4, <1>5 DEF OrderInv

\* The Commander does something else than feeding, and changes nothing of the shell's.
LEMMA OrderElse ==
  ASSUME TInv, OrderInv, pc \notin Feeding, pc' \notin Feeding,
         UNCHANGED <<flagVars, subshell_state, subshell_cwd, quit, shellVars, sigVars, keys,
                     part, pipe>>
  PROVE  OrderInv'
<1>1. SignalInv' /\ PipeInv'
  BY SignalSame, PipeSame DEF OrderInv, flagVars, shellVars, Feeding
<1>2. CallInv' /\ ReadyInv' /\ QuietInv'
  BY DEF OrderInv, CallInv, ReadyInv, QuietInv, Quiet, Feeding, AtRest, AtPrompt, flagVars,
         shellVars
<1> QED
  BY <1>1, <1>2 DEF OrderInv

LEMMA OrderInvoke ==
  ASSUME TInv, OrderInv, NEW c \in {"command", "toggle"}, pc = "idle", Invoke(c)
  PROVE  OrderInv'
<1>1. CASE Elsewhere(panel_cwd)
  BY <1>1, OrderSendCd DEF Invoke, TInv, McType
<1>2. CASE ~ Elsewhere(panel_cwd)
  BY <1>2, OrderElse DEF Invoke, Feeding
<1> QED
  BY <1>1, <1>2

LEMMA OrderUser ==
  ASSUME TInv, OrderInv, \/ shell_execute \/ toggle_panels \/ exit_subshell
                         \/ \E d \in Dirs : PanelCd(d)
  PROVE  OrderInv'
<1>1. CASE shell_execute
  <2>1. CASE subshell_state = "INACTIVE"
    BY <1>1, <2>1, OrderInvoke DEF shell_execute
  <2>2. CASE subshell_state # "INACTIVE"
    BY <1>1, <2>2, OrderElse DEF shell_execute, Feeding, ioVars
  <2> QED
    BY <2>1, <2>2
<1>2. CASE toggle_panels
  BY <1>2, OrderInvoke DEF toggle_panels
<1>3. CASE exit_subshell
  BY <1>3, OrderElse DEF exit_subshell, Feeding, ioVars
<1>4. ASSUME NEW d \in Dirs, PanelCd(d) PROVE OrderInv'
  <2>1. CASE Elsewhere(d) /\ use_subshell = 1
    BY <1>4, <2>1, OrderSendCd DEF PanelCd
  <2>2. CASE ~ (Elsewhere(d) /\ use_subshell = 1)
    BY <1>4, <2>2, OrderElse DEF PanelCd, Feeding
  <2> QED
    BY <2>1, <2>2
<1> QED
  BY <1>1, <1>2, <1>3, <1>4

LEMMA OrderCall ==
  ASSUME TInv, OrderInv, Call \/ load_prompt \/ sigchld_handler
  PROVE  OrderInv'
<1>1. CASE SendCommand \/ ShowShell
  <2>1. SignalInv' /\ PipeInv'
    BY <1>1, SignalSame, PipeSame
       DEF OrderInv, SendCommand, ShowShell, Feed, shellVars, flagVars, ioVars
  <2>2. CallInv' /\ ReadyInv' /\ QuietInv'
    BY <1>1 DEF OrderInv, CallInv, ReadyInv, QuietInv, Quiet, Feeding, AtRest, AtPrompt,
       SendCommand, ShowShell, Feed, shellVars, flagVars, ioVars
  <2> QED
    BY <2>1, <2>2 DEF OrderInv
<1>2. CASE Invoked
  BY <1>2, OrderElse DEF Invoked, Feeding, ioVars
<1>3. CASE init_subshell
  BY <1>3 DEF init_subshell, OrderInv, SignalInv
<1>4. CASE Leave
  BY <1>4, OrderElse DEF Leave, Feeding, ioVars
<1>5. CASE load_prompt
  BY <1>5, OrderElse DEF load_prompt, Feeding, mcVars, flagVars, sigVars
<1>6. CASE sigchld_handler
  BY <1>6 DEF sigchld_handler, OrderInv, SignalInv, PipeInv, CallInv, ReadyInv, QuietInv, Quiet,
     AtRest, AtPrompt, TInv, ShellType, McType, shellVars, ioVars
<1> QED
  BY <1>1, <1>2, <1>3, <1>4, <1>5, <1>6 DEF Call

LEMMA OrderNext ==
  ASSUME CanKill = FALSE, CanPaste = FALSE, TInv, OrderInv, [Next]_vars
  PROVE  OrderInv'
  BY OrderSame, OrderShell, OrderFeed, OrderStdin, OrderUser, OrderCall DEF Next, User, Kill

LEMMA OrderHolds ==
  ASSUME CanKill = FALSE, CanPaste = FALSE
  PROVE  Spec => []OrderInv
<1>1. Init => OrderInv
  BY DEF Init, OrderInv, SignalInv, PipeInv, CallInv, ReadyInv, QuietInv, Quiet, AtRest, AtPrompt,
         Feeding
<1>2. TInv /\ OrderInv /\ [Next]_vars => OrderInv'
  BY OrderNext
<1> QED
  BY <1>1, <1>2, TypesHold, PTL DEF Spec

\* The hand-over is sound whatever is typed ahead and whether or not a cd
\* fails: a shell called idle is idle, and one that stops is waited for.
THEOREM HandOverHolds ==
  ASSUME CanKill = FALSE, CanPaste = FALSE
  PROVE  Spec => []HandOver
<1>1. OrderInv => HandOver
  BY DEF OrderInv, SignalInv, PipeInv, ReadyInv, Quiet, AtRest, AtPrompt, Feeding,
         HandOver, InactiveIsIdle, StopIsAwaited
<1> QED
  BY <1>1, OrderHolds, PTL

---------------------------------------------------------------------------
(* The directories, while a cd does not fail either                        *)

\* Nothing is typed or read, and the shell goes where it may.
LEMMA CommandSame ==
  ASSUME CommandInv, UNCHANGED <<shellVars, keys>>,
         pc' = "command" => subshell_state' = "INACTIVE" /\ subshell_cwd' = panel_cwd'
  PROVE  CommandInv'
  BY DEF CommandInv, shellVars, Closed, AtPrompt, RunsWhereAsked

\* A line of no particular directory is typed.
LEMMA CommandTyped ==
  ASSUME TInv, CommandInv, NEW l \in Lines, l.at = NoDir, keys' = Append(keys, l),
         UNCHANGED shellVars, pc' # "command"
  PROVE  CommandInv'
<1>1. /\ Len(keys') = Len(keys) + 1 /\ Len(keys) \in Nat /\ keys'[Len(keys) + 1] = l
      /\ \A i \in 1..Len(keys) : keys'[i] = keys[i]
  BY TypedKeys DEF TInv, IoType
<1>2. ~ Closed' => \A i \in 1..Len(keys') :
        keys'[i].at # NoDir => i = 1 /\ AtPrompt' /\ shell_dir' = keys'[i].at
  <2> SUFFICES ASSUME ~ Closed', NEW i \in 1..Len(keys'), keys'[i].at # NoDir
               PROVE  i = 1 /\ AtPrompt' /\ shell_dir' = keys'[i].at
    OBVIOUS
  <2>1. i \in 1..Len(keys) /\ keys'[i] = keys[i]
    BY <1>1
  <2> QED
    BY <2>1 DEF CommandInv, Closed, AtPrompt, shellVars
<1> QED
  BY <1>2 DEF CommandInv, RunsWhereAsked, shellVars

LEMMA CommandShell ==
  ASSUME CanKill = FALSE, TInv, OrderInv, CommandInv, ShellStep \/ ProgramReads
  PROVE  CommandInv'
<1>0. pc = "command" => AtRest
  BY DEF CommandInv, OrderInv, ReadyInv, Quiet, Feeding
<1> USE DEF Shell, mcVars, shellVars, sigVars, ioVars, flagVars
<1>1. CASE TakeLine \/ ProgramReads
  <2>1. /\ Len(keys) \in Nat \ {0} /\ Len(keys') = Len(keys) - 1
        /\ \A i \in 1..Len(keys') : keys'[i] = keys[i + 1]
    BY <1>1, ReadKeys DEF TakeLine, ProgramReads, TInv, IoType
  <2>2. ~ Closed
    BY <1>1 DEF TakeLine, ProgramReads, Closed
  <2>3. \A i \in 1..Len(keys') : keys'[i].at = NoDir
    <3> SUFFICES ASSUME NEW i \in 1..Len(keys'), keys'[i].at # NoDir PROVE FALSE
      OBVIOUS
    <3>1. i + 1 \in 1..Len(keys) /\ keys'[i] = keys[i + 1] /\ i + 1 # 1
      BY <2>1
    <3> QED
      BY <2>2, <3>1 DEF CommandInv
  <2>4. RunsWhereAsked'
    <3>1. CASE TakeLine
      <4>1. line' = keys[1] /\ 1 \in 1..Len(keys) /\ shell_dir' = shell_dir
        BY <2>1, <3>1, ReadKeys DEF TakeLine, TInv, IoType
      <4> QED
        BY <2>2, <4>1 DEF CommandInv, RunsWhereAsked
    <3>2. CASE ProgramReads
      BY <3>2 DEF ProgramReads, CommandInv, RunsWhereAsked
    <3> QED
      BY <1>1, <3>1, <3>2
  <2>5. pc' = "command" => subshell_state' = "INACTIVE" /\ subshell_cwd' = panel_cwd'
    BY <1>1 DEF TakeLine, ProgramReads, CommandInv
  <2> QED
    BY <2>3, <2>4, <2>5 DEF CommandInv
<1>2. CASE LineDone \/ Announce \/ Stop \/ Die
  <2>1. UNCHANGED keys /\ shell \in {"running", "announce", "stopping", "closed"}
    BY <1>2 DEF LineDone, Announce, Stop, Die
  <2>2. ~ Closed' => ~ Closed /\ \A i \in 1..Len(keys') : keys'[i].at = NoDir
    BY <1>2, <2>1 DEF CommandInv, AtPrompt, Closed, LineDone, Announce, Stop, Die
  <2>3. shell' # "running"
    BY <1>2 DEF LineDone, Announce, Stop, Die
  <2>4. pc' = "command" => subshell_state' = "INACTIVE" /\ subshell_cwd' = panel_cwd'
    BY <1>2 DEF LineDone, Announce, Stop, Die, CommandInv
  <2> QED
    BY <2>2, <2>3, <2>4 DEF CommandInv, RunsWhereAsked
<1>3. CASE OpenSlave \/ Prompt
  <2>1. AtPrompt /\ shell' = "prompt"
    BY <1>3 DEF OpenSlave, Prompt, OrderInv, SignalInv, AtPrompt
  <2> QED
    BY <1>3, <2>1 DEF OpenSlave, Prompt, CommandInv, AtPrompt, Closed, RunsWhereAsked
<1> QED
  BY <1>1, <1>2, <1>3 DEF ShellStep

\* feed_subshell returns to a command when the cd before it has been executed.
LEMMA CommandFeed ==
  ASSUME CdFails = FALSE, TInv, OrderInv, CommandInv, feed_subshell \/ FeedTimeout
  PROVE  CommandInv'
<1> USE DEF Feeding, ioVars
<1>1. CASE FeedDead \/ FeedPty \/ FeedTimeout
  <2>1. (pc' = "command" => caller = "command") /\ UNCHANGED <<shellVars, keys>>
    BY <1>1, ReturnIs DEF FeedDead, FeedPty, FeedTimeout, TInv, CallType
  <2>2. pc' = "command" => how = "QUIETLY"
    BY <1>1, <2>1 DEF OrderInv, CallInv, FeedDead, FeedPty, FeedTimeout, TInv, CallType
  <2>3. pc' # "command"
    <3>1. CASE FeedDead
      BY <2>2, <3>1 DEF FeedDead, OrderInv, QuietInv, Quiet, SignalInv, AtPrompt
    <3>2. CASE FeedPty
      <4>1. pc' = "command" => subshell_alive = 0
        BY <3>2 DEF FeedPty
      <4> QED
        BY <2>2, <3>2, <4>1 DEF FeedPty, OrderInv, QuietInv, Quiet, SignalInv, AtPrompt
    <3>3. CASE FeedTimeout
      BY <3>3 DEF FeedTimeout, OrderInv, CallInv, TInv, CallType
    <3> QED
      BY <1>1, <3>1, <3>2, <3>3
  <2> QED
    BY <2>1, <2>3, CommandSame
<1>2. CASE FeedSelect
  BY <1>2, CommandSame DEF FeedSelect
<1>3. CASE FeedPipe
  BY <1>3, CommandSame DEF FeedPipe
<1>4. CASE synchronize
  <2>2. shell \in {"stopping", "stopped"} /\ shell' # "running" /\ keys' = <<>>
    BY <1>4 DEF synchronize, Revived, OrderInv, PipeInv
  <2>3. pc' = "command" => subshell_state' = "INACTIVE" /\ caller = "command"
    BY <1>4, ReturnIs DEF synchronize, TInv, CallType
  <2>4. pc' = "command" => how = "QUIETLY"
    BY <1>4, <2>3 DEF OrderInv, CallInv, synchronize, TInv, CallType
  <2>5. pc' = "command" => shell_dir = panel_cwd
    BY <1>4, <2>2, <2>4 DEF OrderInv, QuietInv, Quiet, synchronize, AtPrompt
  <2>6. pc' = "command" => subshell_cwd' = panel_cwd'
    BY <1>4, <2>5 DEF synchronize, OrderInv, PipeInv
  <2> QED
    BY <2>2, <2>3, <2>6 DEF CommandInv, RunsWhereAsked
<1> QED
  BY <1>1, <1>2, <1>3, <1>4 DEF feed_subshell

LEMMA CommandUser ==
  ASSUME CanPaste = FALSE, TInv, OrderInv, CommandInv, User
  PROVE  CommandInv'
<1> USE DEF ioVars
<1>1. CASE FeedSelectKey \/ exit_subshell
  BY <1>1, CommandSame DEF FeedSelectKey, exit_subshell, CommandInv
<1>2. CASE FeedKeys
  <2>1. keys' = keys \/ \E l \in Typed : keys' = Append(keys, l)
    BY <1>2 DEF FeedKeys
  <2>2. UNCHANGED shellVars /\ pc' # "command"
    BY <1>2 DEF FeedKeys
  <2> QED
    BY <2>1, <2>2, LineIn, CommandSame, CommandTyped
<1>3. CASE FeedSwitchKey
  <2>1. caller = "invoke"
    BY <1>3 DEF FeedSwitchKey, OrderInv, CallInv, Feeding
  <2>2. pc' = "invoked" /\ UNCHANGED <<shellVars, keys>>
    BY <1>3, <2>1, ReturnIs DEF FeedSwitchKey
  <2> QED
    BY <2>2, CommandSame
<1>4. ASSUME NEW d \in Dirs, NEW c, SendCd(d, c), UNCHANGED shellVars PROVE CommandInv'
  BY <1>4, LineIn, CommandTyped DEF SendCd, Feed
<1>5. ASSUME NEW c \in {"command", "toggle"}, Invoke(c), c = "command" => subshell_state = "INACTIVE"
      PROVE  CommandInv'
  <2>1. CASE Elsewhere(panel_cwd)
    BY <1>4, <1>5, <2>1 DEF Invoke, TInv, McType
  <2>2. CASE ~ Elsewhere(panel_cwd)
    BY <1>5, <2>2, CommandSame DEF Invoke, Elsewhere
  <2> QED
    BY <2>1, <2>2
<1>6. CASE shell_execute \/ toggle_panels
  <2>1. CASE shell_execute /\ subshell_state # "INACTIVE"
    BY <2>1, CommandSame DEF shell_execute
  <2> QED
    BY <1>5, <1>6, <2>1 DEF shell_execute, toggle_panels
<1>7. ASSUME NEW d \in Dirs, PanelCd(d) PROVE CommandInv'
  <2>1. SendCd(d, "chdir") \/ UNCHANGED <<keys, pc>>
    BY <1>7 DEF PanelCd
  <2>2. pc = "idle" /\ UNCHANGED shellVars
    BY <1>7 DEF PanelCd
  <2> QED
    BY <1>4, <2>1, <2>2, CommandSame
<1> QED
  BY <1>1, <1>2, <1>3, <1>6, <1>7 DEF User, FeedStdin

LEMMA CommandCall ==
  ASSUME TInv, OrderInv, CommandInv, Call \/ load_prompt \/ sigchld_handler
  PROVE  CommandInv'
<1> USE DEF ioVars
\* The command goes to a shell at rest in the panel's directory.
<1>1. CASE SendCommand
  <2>1. AtRest /\ shell_dir = panel_cwd
    BY <1>1 DEF SendCommand, CommandInv, OrderInv, ReadyInv, Quiet, Feeding, AtRest
  <2>2. keys' = Append(<<>>, Line("run", NoDir, panel_cwd)) /\ UNCHANGED shellVars /\ pc' = "feed"
    BY <1>1, <2>1 DEF SendCommand, Feed, AtRest
  <2> DEFINE l == Line("run", NoDir, panel_cwd)
  <2>3. l.at = panel_cwd
    BY LineIn DEF TInv, McType
  <2>4. Len(keys') = 1 /\ keys'[1] = l
    <3>1. keys' = Append(<<>>, l)
      BY <2>2
    <3> HIDE DEF l
    <3> QED
      BY <3>1
  <2>5. \A i \in 1..Len(keys') : i = 1 /\ AtPrompt' /\ shell_dir' = keys'[i].at
    BY <2>1, <2>2, <2>3, <2>4 DEF AtRest, AtPrompt, shellVars
  <2> QED
    BY <2>2, <2>5 DEF CommandInv, RunsWhereAsked, shellVars
<1>2. CASE ShowShell \/ Invoked \/ Leave
  BY <1>2, CommandSame DEF ShowShell, Invoked, Leave, Feed
<1>3. CASE init_subshell
  BY <1>3 DEF init_subshell, OrderInv, SignalInv
<1>4. CASE load_prompt
  BY <1>4, CommandSame DEF load_prompt, mcVars
<1>5. CASE sigchld_handler
  BY <1>5, CommandSame DEF sigchld_handler, CommandInv
<1> QED
  BY <1>1, <1>2, <1>3, <1>4, <1>5 DEF Call

LEMMA CommandNext ==
  ASSUME CanKill = FALSE, CanPaste = FALSE, CdFails = FALSE, TInv, OrderInv, CommandInv,
         [Next]_vars
  PROVE  CommandInv'
<1>1. CASE UNCHANGED vars
  BY <1>1, CommandSame DEF CommandInv, vars, mcVars, ioVars
<1> QED
  BY <1>1, CommandShell, CommandFeed, CommandUser, CommandCall DEF Next, Kill

\* When the shell is idle the Commander knows its directory, and a command runs
\* in the directory the panel showed when it was given: for any directories and
\* any number of lines typed ahead, while every cd works.
THEOREM DirectoriesAlwaysAgree ==
  ASSUME CanKill = FALSE, CanPaste = FALSE, CdFails = FALSE
  PROVE  Spec => []DirectoriesAgree
<1>1. Init => CommandInv
  BY DEF Init, CommandInv, RunsWhereAsked, Precmd, Line, Closed
<1>2. TInv /\ OrderInv /\ CommandInv /\ [Next]_vars => CommandInv'
  BY CommandNext
<1>3. OrderInv /\ CommandInv => DirectoriesAgree
  BY DEF OrderInv, ReadyInv, Quiet, Feeding, AtRest, CommandInv, DirectoriesAgree, CwdKnown
<1> QED
  BY <1>1, <1>2, <1>3, OrderHolds, TypesHold, PTL DEF Spec
=============================================================================
