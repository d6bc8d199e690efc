----------------------------- MODULE Background -----------------------------
(***************************************************************************)
(* Background copies and moves: the parent's list of tasks and channels    *)
(* (src/background.c), the event loop that watches the channels            *)
(* (check_selects, try_channels and get_event in src/key.c), the dialogs   *)
(* that a request opens, and the jobs dialog (src/boxes.c).                *)
(*                                                                         *)
(* A background child asks its parent a question and waits for the answer. *)
(* The parent's handler opens a dialog, which runs an event loop of its    *)
(* own, which may handle the request of another child: the loops nest.     *)
(* Each loop goes through select_list with the descriptors that were ready *)
(* at its own select, a set that the loops inside it make out of date.     *)
(*                                                                         *)
(* A request is one message: a child killed halfway through writing one,   *)
(* whose parent then reads uninitialised sizes, is not modelled.           *)
(***************************************************************************)
EXTENDS Integers, Sequences, FiniteSets

CONSTANTS Task,        \* the background jobs of a session
          Nil,         \* a null pointer
          Answer,      \* what the user can choose in an error dialog
          Kinds,       \* the requests children make, of {"error", "replace"}
          Pipes,       \* whether what pipe() returns carries data both ways: TRUE as
                       \* in SVR4, FALSE as in POSIX
          CanSignal,   \* the user stops, resumes and kills jobs
          MaxAsks      \* bound: requests made by one child (one when pipes are one-way)

ASSUME BackgroundAssumption ==
  /\ IsFiniteSet(Task) /\ Nil \notin Task /\ Kinds \subseteq {"error", "replace"}
  /\ Pipes \subseteq BOOLEAN /\ CanSignal \in BOOLEAN /\ MaxAsks \in Nat \ {0}

VARIABLES
  two_way,      \* the pipes of this system carry data both ways
  task_list,    \* the tasks the jobs dialog shows
  select_list,  \* the tasks whose channel the event loops watch
  born,         \* how many tasks were registered before this one
  ghost,        \* the next pointer left in a freed node of select_list
  lost,         \* tasks whose ctx was overwritten by the child's: pid 0, no ui
  stack,        \* the dialogs, one inside the other
  child,        \* life of a child process
  fate,         \* how it ends: "ok", _exit (0), or "killed"
  stopped,      \* children stopped by SIGSTOP
  request,      \* requests written and not read
  reply,        \* answers written and not read
  asked,        \* how many requests a child has made
  got,          \* the answers a child acted upon
  given,        \* the answers the user gave to a child's questions
  reported,     \* children whose end was shown as an error
  harm          \* signals gone wrong: to the whole "group", to a "stale" task,
                \* or SIGPIPE to the parent ("pipe")

listVars  == <<task_list, select_list, born, ghost, lost>>
childVars == <<child, fate, stopped>>
pipeVars  == <<request, reply, asked, got>>
vars == <<two_way, listVars, stack, childVars, pipeVars, given, reported, harm>>

Life == {"unborn", "working", "waiting", "exiting", "zombie", "reaped"}
Running == {t \in Task : child[t] \in {"working", "waiting"}}

(* A dialog and its event loop: what it shows and for which task, the      *)
(* descriptors found ready, the node of select_list it has come to, where  *)
(* in the loop it is, and the tasks it lists (the jobs dialog).            *)
Dialog(d, t, items) == [dlg |-> d, task |-> t, ready |-> {}, at |-> Nil,
                        mode |-> "idle", items |-> items]

Init ==
  /\ two_way \in Pipes
  /\ task_list = {} /\ select_list = {} /\ lost = {}
  /\ born = [t \in Task |-> 0] /\ ghost = [t \in Task |-> Nil]
  /\ stack = <<Dialog("main", Nil, {})>>
  /\ child = [t \in Task |-> "unborn"] /\ fate = [t \in Task |-> "ok"]
  /\ stopped = {}
  /\ request = [t \in Task |-> <<>>] /\ reply = [t \in Task |-> <<>>]
  /\ asked = [t \in Task |-> 0] /\ got = [t \in Task |-> <<>>]
  /\ given = [t \in Task |-> <<>>]
  /\ reported = {} /\ harm = {}

Top == stack[Len(stack)]
Below == SubSeq(stack, 1, Len(stack) - 1)
OnTop(frame) == Append(Below, frame)
Up == harm \cap {"group", "pipe"} = {}           \* the parent is alive
At(dlg, mode) == Up /\ Top.dlg \in dlg /\ Top.mode = mode
AnyDialog == {"main", "jobs", "error", "alert"}

---------------------------------------------------------------------------
(* The child *)

\* What the child's read finds when no answer can come: parent_call returns i,
\* which still holds the number of arguments, 1 or 3.
Unanswered(kind) == IF kind = "error" THEN "retry" ELSE "abort"

Ask(t, kind) ==
  /\ child[t] = "working" /\ t \notin stopped /\ asked[t] < IF two_way THEN MaxAsks ELSE 1
  /\ request' = [request EXCEPT ![t] = Append(@, kind)]
  /\ asked' = [asked EXCEPT ![t] = @ + 1]
  /\ IF two_way
       THEN child' = [child EXCEPT ![t] = "waiting"] /\ UNCHANGED got
       ELSE /\ got' = [got EXCEPT ![t] = Append(@, Unanswered(kind))]
            /\ UNCHANGED child
  /\ UNCHANGED <<two_way, listVars, stack, fate, stopped, reply, given, reported, harm>>

GetAnswer(t) ==
  /\ child[t] = "waiting" /\ t \notin stopped /\ reply[t] # <<>>
  /\ child' = [child EXCEPT ![t] = "working"]
  /\ got' = [got EXCEPT ![t] = Append(@, Head(reply[t]))]
  /\ reply' = [reply EXCEPT ![t] = Tail(@)]
  /\ UNCHANGED <<two_way, listVars, stack, fate, stopped, request, asked, given, reported,
                 harm>>

\* vfs_shut (); _exit (0): the kernel closes the pipe first ...
Finish(t) ==
  /\ child[t] = "working" /\ t \notin stopped
  /\ child' = [child EXCEPT ![t] = "exiting"]
  /\ UNCHANGED <<two_way, listVars, stack, fate, stopped, pipeVars, given, reported, harm>>

\* ... and leaves the status for waitpid later.
Die(t) ==
  /\ child[t] = "exiting"
  /\ child' = [child EXCEPT ![t] = "zombie"]
  /\ UNCHANGED <<two_way, listVars, stack, fate, stopped, pipeVars, given, reported, harm>>

\* SIGKILL, or SIGTERM, which none of the children handles, sent to ts.
Killed(ts) ==
  /\ child' = [t \in Task |-> IF t \in ts \cap Running THEN "exiting" ELSE child[t]]
  /\ fate' = [t \in Task |-> IF t \in ts \cap Running THEN "killed" ELSE fate[t]]

---------------------------------------------------------------------------
(* The lists.  A new node goes to the head of select_list, so a node is    *)
(* followed by the youngest of those older than it.                        *)

Youngest(ts) ==
  IF ts = {} THEN Nil ELSE CHOOSE t \in ts : \A u \in ts : born[u] <= born[t]
After(t) == Youngest({u \in select_list : born[u] < born[t]})

\* p->next.  In a node that was freed, it may still be there, or be cleared.
NextNodes(t) == IF t \in select_list THEN {After(t)} ELSE {ghost[t], Nil}

unregister_task_running_Early(t) ==
  /\ task_list' = IF t \in lost THEN task_list ELSE task_list \ {t}
  /\ select_list' = select_list \ {t, After(t)}
  /\ ghost' = IF t \in select_list THEN [ghost EXCEPT ![t] = After(t)] ELSE ghost

unregister_task_running_NoChannel(t) ==
  /\ task_list' = IF t \in lost THEN task_list ELSE task_list \ {t}
  /\ UNCHANGED <<select_list, ghost>>

\* A task whose ctx was overwritten is looked up under pid 0, and not found.
unregister_task_running(t) ==
  /\ task_list' = IF t \in lost THEN task_list ELSE task_list \ {t}
  /\ select_list' = select_list \ {t}
  /\ ghost' = IF t \in select_list THEN [ghost EXCEPT ![t] = After(t)] ELSE ghost

do_background_NoChannel(t) ==
  /\ At({"main"}, "idle") /\ child[t] = "unborn"
  /\ child' = [child EXCEPT ![t] = "working"]
  /\ task_list' = task_list \cup {t}
  /\ UNCHANGED <<two_way, select_list, born, ghost, lost, stack, fate, stopped, pipeVars,
                 given, reported, harm>>

\* panel_operate hands the operation to a child (fork succeeds).
do_background(t) ==
  /\ At({"main"}, "idle") /\ child[t] = "unborn"
  /\ child' = [child EXCEPT ![t] = "working"]
  /\ task_list' = task_list \cup {t}
  /\ select_list' = select_list \cup {t}
  /\ born' = [born EXCEPT ![t] = 1 + Cardinality({u \in Task : child[u] # "unborn"})]
  /\ UNCHANGED <<two_way, ghost, lost, stack, fate, stopped, pipeVars, given, reported, harm>>

---------------------------------------------------------------------------
(* An event loop: select, then the walk over select_list *)

Ended(t) == child[t] \in {"exiting", "zombie", "reaped"}
Readable(t) == request[t] # <<>> \/ Ended(t)

Step(mode, t) == stack' = OnTop([Top EXCEPT !.mode = mode, !.at = t])
Push(dialog) == stack' = Append(OnTop([Top EXCEPT !.mode = "return"]), dialog)

Select ==
  /\ At(AnyDialog, "idle")
  /\ \E t \in select_list : Readable(t)
  /\ stack' = OnTop([Top EXCEPT !.ready = {t \in select_list : Readable(t)},
                                !.at = Youngest(select_list), !.mode = "walk"])
  /\ UNCHANGED <<two_way, listVars, childVars, pipeVars, given, reported, harm>>

\* The next node, or the end of the list.
Visit ==
  /\ At(AnyDialog, "walk")
  /\ IF Top.at = Nil
       THEN stack' = OnTop(Dialog(Top.dlg, Top.task, Top.items))
       ELSE Step(IF Top.at \in Top.ready THEN "read" ELSE "return", Top.at)
  /\ UNCHANGED <<two_way, listVars, childVars, pipeVars, given, reported, harm>>

GoOn ==
  /\ At(AnyDialog, "return")
  /\ \E t \in NextNodes(Top.at) : Step("walk", t)
  /\ UNCHANGED <<two_way, listVars, childVars, pipeVars, given, reported, harm>>

---------------------------------------------------------------------------
(* background_attention.  It blocks while its descriptor has nothing.      *)

Reads(t) == At(AnyDialog, "read") /\ Top.at = t

TakeError_Drops(t) ==
  /\ Reads(t) /\ request[t] # <<>> /\ Head(request[t]) = "error"
  /\ request' = [request EXCEPT ![t] = Tail(@)]
  /\ IF Len(stack) > 2 THEN Step("return", t) ELSE Push(Dialog("error", t, {}))
  /\ UNCHANGED <<two_way, listVars, childVars, reply, asked, got, given, reported, harm>>

\* real_do_file_error opens its dialog.
TakeError(t) ==
  /\ Reads(t) /\ request[t] # <<>> /\ Head(request[t]) = "error"
  /\ request' = [request EXCEPT ![t] = Tail(@)]
  /\ Push(Dialog("error", t, {}))
  /\ UNCHANGED <<two_way, listVars, childVars, reply, asked, got, given, reported, harm>>

\* A request with a ctx: the child's, with no pid and no ui, replaces the
\* parent's, and file_progress_real_query_replace returns FILE_CONT at once.
TakeReplace(t) ==
  /\ Reads(t) /\ request[t] # <<>> /\ Head(request[t]) = "replace"
  /\ request' = [request EXCEPT ![t] = Tail(@)]
  /\ lost' = lost \cup {t}
  /\ IF Ended(t) /\ two_way
       THEN harm' = harm \cup {"pipe"} /\ UNCHANGED reply
       ELSE /\ reply' = IF two_way THEN [reply EXCEPT ![t] = Append(@, "cont")] ELSE reply
            /\ UNCHANGED harm
  /\ Step("return", t)
  /\ UNCHANGED <<two_way, task_list, select_list, born, ghost, childVars, asked, got, given,
                 reported>>

\* End of file.  The children ctx->pid stands for: 0 is the process group.
Eof(t) == Reads(t) /\ request[t] = <<>> /\ Ended(t)
Denoted(t) == {u \in IF t \in lost THEN Task ELSE {t} : child[u] \notin {"unborn", "reaped"}}

EofRunning(t) ==
  /\ Eof(t) /\ Denoted(t) # {} /\ \A u \in Denoted(t) : child[u] # "zombie"
  /\ unregister_task_running(t)
  /\ Killed(Denoted(t))
  /\ harm' = IF t \in lost THEN harm \cup {"group"} ELSE harm
  /\ reported' = reported \cup {t}
  /\ Push(Dialog("alert", t, {}))
  /\ UNCHANGED <<two_way, born, lost, stopped, pipeVars, given>>

Died_Unchecked(z) == FALSE
Died(z) == fate[z] = "killed"

EofReaped(t) ==
  /\ Eof(t)
  /\ \E z \in Denoted(t) :
       /\ child[z] = "zombie"
       /\ child' = [child EXCEPT ![z] = "reaped"]
       /\ IF Died(z) THEN reported' = reported \cup {t} /\ Push(Dialog("alert", t, {}))
                     ELSE UNCHANGED reported /\ Step("return", t)
  /\ unregister_task_running(t)
  /\ UNCHANGED <<two_way, born, lost, fate, stopped, pipeVars, given, harm>>

\* waitpid fails and the status it did not write is looked at.
EofNoChild(t) ==
  /\ Eof(t) /\ Denoted(t) = {}
  /\ unregister_task_running(t)
  /\ \/ reported' = reported \cup {t} /\ Push(Dialog("alert", t, {}))
     \/ UNCHANGED reported /\ Step("return", t)
  /\ UNCHANGED <<two_way, born, lost, childVars, pipeVars, given, harm>>

---------------------------------------------------------------------------
(* The user *)

\* The channel a handler writes its result to is the one it was called for.
ReplyTo_Youngest ==
  IF Running = {} THEN stack[Len(stack) - 1].at ELSE Youngest(Running)
ReplyTo == stack[Len(stack) - 1].at

AnswerError(a) ==
  /\ At({"error"}, "idle")
  /\ given' = [given EXCEPT ![Top.task] = Append(@, a)]
  /\ IF Ended(ReplyTo) /\ two_way
       THEN harm' = harm \cup {"pipe"} /\ UNCHANGED reply
       ELSE /\ reply' = IF two_way THEN [reply EXCEPT ![ReplyTo] = Append(@, a)] ELSE reply
            /\ UNCHANGED harm
  /\ stack' = Below
  /\ UNCHANGED <<two_way, listVars, childVars, request, asked, got, reported>>

Dismiss ==
  /\ At({"alert", "jobs"}, "idle")
  /\ stack' = Below
  /\ UNCHANGED <<two_way, listVars, childVars, pipeVars, given, reported, harm>>

jobs_cmd ==
  /\ At({"main"}, "idle")
  /\ stack' = Append(stack, Dialog("jobs", Nil, task_list))
  /\ UNCHANGED <<two_way, listVars, childVars, pipeVars, given, reported, harm>>

\* Stop, Resume and Kill act on a listed node, which may have been freed since.
task_cb(t, sig) ==
  /\ CanSignal /\ At({"jobs"}, "idle") /\ t \in Top.items
  /\ IF t \notin task_list
       THEN harm' = harm \cup {"stale"} /\ UNCHANGED childVars
       ELSE /\ IF sig = "KILL" THEN Killed({t}) ELSE UNCHANGED <<child, fate>>
            /\ stopped' = IF sig = "STOP" THEN stopped \cup ({t} \cap Running)
                                          ELSE stopped \ {t}
            /\ UNCHANGED harm
  /\ stack' = OnTop([Top EXCEPT !.items = task_list])
  /\ UNCHANGED <<two_way, listVars, pipeVars, given, reported>>

---------------------------------------------------------------------------

Child(t) == (\E k \in Kinds : Ask(t, k)) \/ GetAnswer(t) \/ Finish(t) \/ Die(t)

background_attention(t) ==
  TakeError(t) \/ TakeReplace(t) \/ EofRunning(t) \/ EofReaped(t) \/ EofNoChild(t)

EventLoop == Select \/ Visit \/ GoOn \/ \E t \in Task : background_attention(t)

User == (\E a \in Answer : AnswerError(a)) \/ Dismiss

Next ==
  \/ EventLoop \/ User \/ jobs_cmd
  \/ \E t \in Task : Child(t) \/ do_background(t)
  \/ \E t \in Task, sig \in {"STOP", "RESUME", "KILL"} : task_cb(t, sig)

Spec == Init /\ [][Next]_vars

(* The loops run, the kernel runs the children, and the user closes the    *)
(* dialogs that are shown and lets a child finish once it has asked enough.*)
Fairness ==
  /\ WF_vars(EventLoop) /\ WF_vars(User)
  /\ \A t \in Task : WF_vars(GetAnswer(t)) /\ WF_vars(Finish(t)) /\ WF_vars(Die(t))

FairSpec == Spec /\ Fairness

---------------------------------------------------------------------------
(* Properties *)

\* Every variable keeps its kind: lists are sets of jobs, the stack starts
\* with the panels' own loop, and nodes are jobs or null.
TypeOK ==
  /\ two_way \in BOOLEAN
  /\ task_list \subseteq Task /\ select_list \subseteq Task /\ lost \subseteq Task
  /\ born \in [Task -> Nat] /\ ghost \in [Task -> Task \cup {Nil}]
  /\ Len(stack) > 0 /\ stack[1].dlg = "main"
  /\ \A i \in 1..Len(stack) :
       /\ stack[i].dlg \in AnyDialog /\ stack[i].mode \in {"idle", "walk", "read", "return"}
       /\ stack[i].at \in Task \cup {Nil} /\ stack[i].task \in Task \cup {Nil}
       /\ stack[i].ready \subseteq Task /\ stack[i].items \subseteq Task
  /\ child \in [Task -> Life] /\ fate \in [Task -> {"ok", "killed"}]
  /\ stopped \subseteq Task /\ asked \in [Task -> 0..MaxAsks]
  /\ \A t \in Task : /\ request[t] \in Seq({"error", "replace"})
                     /\ reply[t] \in Seq(Answer \cup {"cont"})
                     /\ got[t] \in Seq(Answer \cup {"cont", "retry", "abort"})
                     /\ given[t] \in Seq(Answer)
  /\ reported \subseteq Task /\ harm \subseteq {"group", "stale", "pipe"}

\* Whatever dialogs are nested in one another, and whichever loop read a
\* request, the answers a child acts upon are those the user gave to its own
\* questions, in their order (background_attention writes to fd, parent_call
\* reads from parent_fd).
AnswersGoBack == Up => \A t \in Task : got[t] \o reply[t] = given[t]

\* A question of a child is in its pipe, in one open dialog, answered, or acted
\* upon; and a child waits exactly as long as one question of its own is open:
\* no loop drops a request or reads one twice.
QuestionsAccounted ==
  Up => \A t \in Task :
    LET shown == {i \in 1..Len(stack) : stack[i].dlg = "error" /\ stack[i].task = t}
    IN /\ asked[t] = Len(request[t]) + Cardinality(shown) + Len(reply[t]) + Len(got[t])
       /\ t \in Running => (child[t] = "waiting" <=> asked[t] = Len(got[t]) + 1)

\* A child that runs is in the jobs dialog, where it can be stopped or killed,
\* and its channel is watched, so that it can ask (register_task_running,
\* unregister_task_running, delete_select_channel).
RunningIsListed == Running \subseteq task_list \cap select_list

\* A child that was killed is not forgotten silently: when its channel is no
\* longer watched, an error has been shown for it (the status tests of
\* background_attention).
DeathReported ==
  \A t \in Task : fate[t] = "killed" /\ t \notin select_list => t \in reported

\* The end of a child is noticed: its channel does not stay watched for ever,
\* however the loops nest (check_selects, unregister_task_running), as long as
\* the Commander has not been killed by a signal of its own.
EndIsNoticed == \A t \in Task : Ended(t) ~> t \notin select_list \/ ~Up

\* A child that asked gets an answer, whichever dialogs are open when it asks
\* and although a loop may block on a descriptor it was told about too long ago.
QuestionIsAnswered == \A t \in Task : child[t] = "waiting" ~> child[t] # "waiting" \/ ~Up

\* "the parent then writes an int to the child with the return value from the
\* routine" (background.c:172), and "The replace dialog is shown when you attempt
\* to copy or move a file on the top of an existing file" (mc.1.in:2216): a child
\* acts on no answer that the user did not give.
UserDecides == \A t \in Task : Len(got[t]) <= Len(given[t])
=============================================================================
