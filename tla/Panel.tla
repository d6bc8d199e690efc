-------------------------------- MODULE Panel --------------------------------
(***************************************************************************)
(* The panel: a list of file names with marks, kept in step with a         *)
(* directory that other programs change.  screen.c, dir.c and main.c load, *)
(* reload and mark; panelize.c and find.c put any names into the list;     *)
(* cmd.c, chmod.c and panel_operate of file.c work through the marks.      *)
(*                                                                         *)
(* There are two directories, "above" and "below" in it, and the panel is  *)
(* in one of them.  Handlers run to their end before anything else does,   *)
(* except that other programs go on while a dialog or a command is open.   *)
(* The order that sorting gives is any order, ".." in front.               *)
(***************************************************************************)
EXTENDS Integers, SequencesExt

CONSTANTS File,        \* names of files
          Sub,         \* the name of "below" in "above"
          DotDot,      \* ".."
          MaxSize,     \* bound: size of a file
          MaxChanges,  \* bound: changes made by other programs
          MaxFound     \* bound: names that a panelized list begins with

ASSUME PanelAssumption ==
  /\ IsFiniteSet(File) /\ Sub \notin File /\ DotDot \notin File \cup {Sub}
  /\ {MaxSize, MaxFound} \subseteq Nat \ {0} /\ MaxChanges \in Nat
  /\ \A n \in File \cup {Sub, DotDot} : n \notin {Sub} \X File

VARIABLES
  size,         \* the files: their sizes by place, 0 for none
  panel,        \* current_panel: cwd, list, selected, marked, dirs_marked, total,
                \* is_panelized, and in dir_stat the directories whose times are those kept there
  fast_reload,  \* the option
  pc,           \* "idle", or the command at work: "single", "many", "chmod", "command"
  op,           \* what panel_operate does: "COPY", or "DELETE" as a move does too
  force,        \* force_single
  at,           \* the entry it is at, c_file of chmod.c
  wanted,       \* history: the places the user has marked, by directory and name, as long as
                \* neither he nor a reload has taken the mark off
  changes       \* how often other programs have changed something

vars == <<size, panel, fast_reload, pc, op, force, at, wanted, changes>>
work == <<pc, op, force, at>>
AtRest == pc' = "idle" /\ op' = "NONE" /\ force' = FALSE /\ at' = 0

Path == {Sub} \X File                     \* "below/f", as find gives it
AnyName == File \cup {Sub, DotDot} \cup Path
Dir == {"above", "below"}
Place == ({"above"} \X (File \cup {Sub})) \cup ({"below"} \X File)

Exists(f, d) == d = "above" \/ f[<<"above", Sub>>] # 0
PlaceOf(d, n) == IF n \in Path THEN <<"below", n[2]>> ELSE <<d, n>>

\* Whether mc_lstat finds the name in the directory.
lstat(f, d, n) ==
  \/ n = DotDot
  \/ PlaceOf(d, n) \in Place /\ f[PlaceOf(d, n)] # 0 /\ (n \in Path => d = "above")
SizeOf(f, d, n) == IF n = DotDot THEN 1 ELSE f[PlaceOf(d, n)]

IsDir(e) == e.name \in {Sub, DotDot}
ZeroDir == <<[name |-> DotDot, size |-> 0, computed |-> FALSE, marked |-> FALSE]>>
Bytes(e) == IF IsDir(e) /\ ~ e.computed THEN 0 ELSE e.size
-----------------------------------------------------------------------------
(* Marks *)

Marked(p) == {i \in DOMAIN p.list : p.list[i].marked}

BytesOf(p, S) == MapThenSumSet(LAMBDA i : Bytes(p.list[i]), S)

\* do_file_mark for each entry of S: what is so already, and "..", stay.
do_file_mark(p, S, mark) ==
  LET C == {i \in S : p.list[i].marked # mark /\ p.list[i].name # DotDot}
      sign == IF mark THEN 1 ELSE -1
  IN  [p EXCEPT !.list = [i \in DOMAIN @ |-> IF i \in C THEN [@[i] EXCEPT !.marked = mark] ELSE @[i]],
                !.marked = @ + sign * Cardinality(C),
                !.dirs_marked = @ + sign * Cardinality({i \in C : IsDir(p.list[i])}),
                !.total = @ + sign * BytesOf(p, C)]

recalculate_panel_summary_AddsOn(p) ==
  do_file_mark([p EXCEPT !.list = [i \in DOMAIN @ |-> [@[i] EXCEPT !.marked = FALSE]]], Marked(p), TRUE)

recalculate_panel_summary(p) ==
  do_file_mark([p EXCEPT !.list = [i \in DOMAIN @ |-> [@[i] EXCEPT !.marked = FALSE]],
                         !.marked = 0, !.dirs_marked = 0, !.total = 0], Marked(p), TRUE)

unmark_files(p) ==
  IF p.marked = 0 THEN p
  ELSE [p EXCEPT !.list = [i \in DOMAIN @ |-> [@[i] EXCEPT !.marked = FALSE]],
                 !.marked = 0, !.dirs_marked = 0, !.total = 0]

FirstMarked(p, i) ==
  IF \E j \in Marked(p) : j >= i THEN Min({j \in Marked(p) : j >= i}) ELSE Len(p.list) + 1

-----------------------------------------------------------------------------
(* The list *)

do_sort(l) == {s \in {[i \in DOMAIN l |-> l[q[i]]] : q \in SetToSeqs(DOMAIN l)} :
                 (\E i \in DOMAIN l : l[i].name = DotDot) => s[1].name = DotDot}

\* A directory as it is read, ".." in front; or none of it, if it cannot be.
ListsOf(f, d, names) ==
  LET S == {n \in File \cup {Sub} : lstat(f, d, n)}
      l(q) == [i \in DOMAIN q |-> [name |-> q[i], size |-> SizeOf(f, d, q[i]), computed |-> FALSE,
                                   marked |-> q[i] \in names]]
  IN  {ZeroDir} \cup {ZeroDir \o l(q) : q \in SetToSeqs(S)}

do_reload_dir_ByPlace(f, d, l) ==
  {[i \in DOMAIN r |-> [r[i] EXCEPT !.marked = i \in DOMAIN l /\ i # 1 /\ l[i].marked]] : r \in ListsOf(f, d, {})}

do_load_dir(f, d) == ListsOf(f, d, {})
do_reload_dir(f, d, l) ==
  ListsOf(f, d, {l[i].name : i \in {j \in DOMAIN l : l[j].marked}})

panel_clean_dir(p) == [p EXCEPT !.list = <<>>, !.selected = 1, !.marked = 0, !.dirs_marked = 0,
                                !.total = 0, !.is_panelized = FALSE]

IndexesOf(p, n) == {i \in DOMAIN p.list : p.list[i].name = n}
BaseName(n) == IF n \in Path THEN n[2] ELSE n

try_to_select_OnlyNear(p, n) == [p EXCEPT !.selected = Min({@, Len(p.list)})]

try_to_select(p, n) ==
  [p EXCEPT !.selected = IF IndexesOf(p, BaseName(n)) # {} THEN Min(IndexesOf(p, BaseName(n)))
                         ELSE Min({@, Len(p.list)})]

panel_reload(f, p) ==
  IF fast_reload /\ Exists(f, p.cwd) /\ p.cwd \in p.dir_stat
  THEN {p}
  ELSE LET q == IF Exists(f, p.cwd) THEN p ELSE [p EXCEPT !.cwd = "above", !.dir_stat = {}]
       IN  {recalculate_panel_summary([q EXCEPT !.list = l, !.selected = Min({@, Len(l)})]) :
              l \in do_reload_dir(f, q.cwd, q.list)}

\* The indexes of a set in their order: the one sequence in this set.
InOrder(S) == {q \in [1..Cardinality(S) -> S] : \A j \in DOMAIN q : \A i \in 1..j - 1 : q[i] < q[j]}

\* The marks are taken off first; what is tested after mc_lstat is therefore off.
reload_panelized(f, p) ==
  LET u == do_file_mark(p, Marked(p), FALSE)
      l(q) == [i \in DOMAIN q |-> [u.list[q[i]] EXCEPT !.size = SizeOf(f, p.cwd, u.list[q[i]].name)]]
      again(v) == do_file_mark(v, Marked(v), TRUE)
  IN  {again([u EXCEPT !.list = IF q = <<>> THEN ZeroDir ELSE l(q)]) :
         q \in InOrder({i \in DOMAIN u.list : lstat(f, p.cwd, u.list[i].name)})}

\* What a step makes of dir_stat when it changes directories, in this second or a later one.
Aged(p, D) == {p, [p EXCEPT !.dir_stat = @ \ D]}

\* UP_RELOAD: what was kept to avoid a reload is forgotten.
Reload_KeepsStat(p) == [p EXCEPT !.is_panelized = FALSE]
Reload(p) == [p EXCEPT !.is_panelized = FALSE, !.dir_stat = {}]

\* update_panels of the one panel there is, with UP_KEEPSEL; reload: UP_RELOAD.
update_panels(f, p, reload) ==
  LET q == IF reload THEN Reload(p) ELSE p
      n == p.list[p.selected].name
  IN  {try_to_select(r, n) : r \in IF q.is_panelized THEN reload_panelized(f, q)
                                   ELSE panel_reload(f, q)}

save_cwds_stat(p) ==
  IF fast_reload /\ Exists(size, p.cwd)
  THEN {[p EXCEPT !.dir_stat = D] : D \in {D \in SUBSET Dir : p.cwd \in D}} ELSE {p}

panel_re_sort(p) ==
  {[p EXCEPT !.list = l, !.selected = Max({i \in DOMAIN l : l[i].name = p.list[p.selected].name})] :
     l \in do_sort(p.list)}
-----------------------------------------------------------------------------
(* Marking *)

Here(i) == <<panel.cwd, panel.list[i].name>>

\* What is left of the marks in w when the list was loaded again.
Kept(w, p) == {x \in w : \E i \in Marked(p) : p.list[i].name = x[2]}

\* Marks the entries of S, or takes their marks off.
Mark(S, mark) ==
  LET T == {i \in S : panel.list[i].name # DotDot}
  IN  /\ panel' = do_file_mark(panel, S, mark)
      /\ wanted' = IF mark THEN wanted \cup {Here(i) : i \in T} ELSE wanted \ {Here(i) : i \in T}

\* Insert: the mark of the current entry is turned over, and the cursor may move down.
MarkFile ==
  LET i == panel.selected
  IN  /\ pc = "idle"
      /\ \E down \in {0, 1} :
           LET p == do_file_mark(panel, {i}, ~ panel.list[i].marked)
           IN  panel' = [p EXCEPT !.selected = Min({i + down, Len(p.list)})]
      /\ wanted' = IF panel.list[i].name = DotDot THEN wanted
                   ELSE IF panel.list[i].marked THEN wanted \ {Here(i)} ELSE wanted \cup {Here(i)}
      /\ UNCHANGED <<size, fast_reload, work, changes>>

\* select_cmd and unselect_cmd: names by a pattern, either files or directories.
SelectCmd(mark) ==
  /\ pc = "idle"
  /\ \E dirflag \in BOOLEAN :
       LET kind == {i \in DOMAIN panel.list : panel.list[i].name # DotDot /\ IsDir(panel.list[i]) = dirflag}
       IN  \E pattern \in SUBSET {panel.list[i].name : i \in kind} \ {{}} :
             Mark({i \in kind : panel.list[i].name \in pattern}, mark)
  /\ UNCHANGED <<size, fast_reload, work, changes>>

reverse_selection_cmd ==
  LET files == {i \in DOMAIN panel.list : ~ IsDir(panel.list[i])}
      off == files \cap Marked(panel)
  IN  /\ pc = "idle"
      /\ panel' = do_file_mark(do_file_mark(panel, off, FALSE), files \ off, TRUE)
      /\ wanted' = (wanted \ {Here(i) : i \in off}) \cup {Here(i) : i \in files \ off}
      /\ UNCHANGED <<size, fast_reload, work, changes>>

\* compute_dir_size of "below".
SizeBelow == MapThenSumSet(LAMBDA n : size[<<"below", n>>], File)

dirsizes_cmd ==
  LET due(e) == e.name = Sub /\ (panel.dirs_marked = 0 \/ e.marked)
      l == [i \in DOMAIN panel.list |->
              IF due(panel.list[i]) THEN [panel.list[i] EXCEPT !.size = SizeBelow, !.computed = TRUE]
              ELSE panel.list[i]]
  IN  /\ pc = "idle"
      /\ panel' = recalculate_panel_summary([panel EXCEPT !.list = l])
      /\ UNCHANGED <<size, fast_reload, work, wanted, changes>>

MoveCursor ==
  /\ pc = "idle"
  /\ \E i \in DOMAIN panel.list : panel' = [panel EXCEPT !.selected = i]
  /\ UNCHANGED <<size, fast_reload, work, wanted, changes>>

-----------------------------------------------------------------------------
(* Loading *)

reread_cmd ==
  /\ pc = "idle"
  /\ panel' \in update_panels(size, panel, TRUE) /\ wanted' = Kept(wanted, panel')
  /\ UNCHANGED <<size, fast_reload, work, changes>>

\* _do_panel_cd into the directory below, or out of it.  dir_stat stays as it is.
do_cd(d) ==
  /\ pc = "idle" /\ d # panel.cwd /\ Exists(size, d)
  /\ \E l \in do_load_dir(size, d) :
       panel' = try_to_select([panel_clean_dir(panel) EXCEPT !.cwd = d, !.list = l],
                              IF d = "above" THEN Sub ELSE DotDot)
  /\ wanted' = {}
  /\ UNCHANGED <<size, fast_reload, work, changes>>

\* The lines of an external command, each another name; those that name no file are left out.
do_external_panelize ==
  /\ pc = "idle"
  /\ \E S \in {S \in SUBSET (AnyName \ {DotDot}) : Cardinality(S) <= MaxFound} :
     \E names \in SetToSeqs({n \in S : lstat(size, panel.cwd, n)}) :
       LET l == [i \in DOMAIN names |-> [name |-> names[i], size |-> SizeOf(size, panel.cwd, names[i]),
                                         computed |-> FALSE, marked |-> FALSE]]
       IN  panel' \in panel_re_sort([panel_clean_dir(panel) EXCEPT
                                       !.list = IF l = <<>> THEN ZeroDir ELSE l, !.is_panelized = TRUE])
  /\ wanted' = {}
  /\ UNCHANGED <<size, fast_reload, work, changes>>

\* panel_set_sort_order; the directory is read again to show it unsorted.
panel_set_sort_order(unsorted) ==
  /\ pc = "idle"
  /\ \E p \in IF unsorted THEN {try_to_select(q, panel.list[panel.selected].name) : q \in panel_reload(size, panel)}
              ELSE {panel} :
       panel' \in panel_re_sort(p)
  /\ wanted' = Kept(wanted, panel')
  /\ UNCHANGED <<size, fast_reload, work, changes>>

\* A command in the shell, or an editor without the first step, and the update after it.
shell_execute ==
  /\ pc = "idle" /\ pc' = "command"
  /\ \E saved \in BOOLEAN : panel' \in IF saved THEN save_cwds_stat(panel) ELSE {panel}
  /\ UNCHANGED <<size, fast_reload, op, force, at, wanted, changes>>

CommandDone ==
  /\ pc = "command" /\ AtRest
  /\ panel' \in update_panels(size, panel, FALSE) /\ wanted' = Kept(wanted, panel')
  /\ UNCHANGED <<size, fast_reload, changes>>
-----------------------------------------------------------------------------
(* Operations on the marked entries *)

Subtree(q) == IF q[2] = Sub THEN {q} \cup ({"below"} \X File) ELSE {q}
Without(P) == [q \in Place |-> IF q \in P THEN 0 ELSE size[q]]
Changed(P) == {q[1] : q \in P}

\* What goes from the disk when an operation succeeds: the entry after a move or a deletion.
Target(i) == IF op = "COPY" THEN {} ELSE Subtree(PlaceOf(panel.cwd, panel.list[i].name))

\* panel_operate up to the first file, when the user has agreed; ignoring the marks if forced.
panel_operate(o, f) ==
  LET single == panel.marked <= 1 \/ f
      i == IF ~ f /\ panel.marked # 0 THEN FirstMarked(panel, 1)
           ELSE IF single THEN panel.selected ELSE 1
  IN  /\ pc = "idle"
      /\ panel' \in save_cwds_stat(panel)
      /\ IF single /\ panel.list[i].name = DotDot
         THEN UNCHANGED work
         ELSE /\ pc' = IF single THEN "single" ELSE "many"
              /\ op' = o /\ force' = f /\ at' = i
      /\ UNCHANGED <<size, fast_reload, wanted, changes>>

\* The user does not agree.
OperateCancelled ==
  /\ pc = "idle" /\ panel' \in save_cwds_stat(panel)
  /\ UNCHANGED <<size, fast_reload, work, wanted, changes>>

\* What may have gone when it fails: part of what is in a directory.
Remnant(i) == SUBSET (Target(i) \ {PlaceOf(panel.cwd, panel.list[i].name)})

\* copy_cmd, ren_cmd and delete_cmd, and their local forms, which ignore the marks.
FileCommand == OperateCancelled \/ \E o \in {"COPY", "DELETE"}, f \in BOOLEAN : panel_operate(o, f)

\* One entry: its operation succeeds, if there is something to work on, or does not.
OperateSingle ==
  /\ pc = "single" /\ AtRest
  /\ \/ /\ lstat(size, panel.cwd, panel.list[at].name)
        /\ size' = Without(Target(at))
        /\ \E p \in Aged(IF force THEN panel ELSE unmark_files(panel), Changed(Target(at))) :
             panel' \in update_panels(size', p, FALSE)
        /\ wanted' = Kept(IF force THEN wanted ELSE wanted \ {Here(at)}, panel')
     \/ /\ \E P \in Remnant(at) :
             /\ size' = Without(P)
             /\ \E p \in Aged(panel, Changed(P)) : panel' \in update_panels(size', p, FALSE)
        /\ wanted' = Kept(wanted, panel')
  /\ UNCHANGED <<fast_reload, changes>>

OperateNext ==
  /\ pc = "many" /\ at <= Len(panel.list)
  /\ \/ /\ lstat(size, panel.cwd, panel.list[at].name)      \* FILE_CONT
        /\ size' = Without(Target(at))
        /\ panel' \in Aged(do_file_mark(panel, {at}, FALSE), Changed(Target(at)))
        /\ wanted' = wanted \ {Here(at)}
     \/ /\ \E P \in Remnant(at) : size' = Without(P) /\ panel' \in Aged(panel, Changed(P))
        /\ UNCHANGED wanted                                  \* FILE_SKIP
  /\ at' = FirstMarked(panel, at + 1)
  /\ UNCHANGED <<fast_reload, pc, op, force, changes>>

\* After the last one, or FILE_ABORT.
OperateDone ==
  /\ pc = "many" /\ AtRest
  /\ panel' \in update_panels(size, panel, FALSE) /\ wanted' = Kept(wanted, panel')
  /\ UNCHANGED <<size, fast_reload, changes>>

\* chmod_cmd: a dialog for one file after the other.  next_file runs through the list until it
\* finds a mark.
NextChmod(p) ==
  LET i == IF p.marked # 0 THEN FirstMarked(p, 1) ELSE p.selected
  IN  IF i > Len(p.list) \/ lstat(size, p.cwd, p.list[i].name)
      THEN pc' = "chmod" /\ at' = i /\ UNCHANGED <<op, force>>
      ELSE AtRest                          \* need_update was cleared by init_chmod

chmod_cmd ==
  /\ pc = "idle" /\ NextChmod(panel)
  /\ UNCHANGED <<size, panel, fast_reload, wanted, changes>>

ChmodEnter ==
  LET p == IF panel.marked # 0 THEN do_file_mark(panel, {at}, FALSE) ELSE panel
      w == IF panel.marked # 0 THEN wanted \ {Here(at)} ELSE wanted
  IN  /\ pc = "chmod"
      /\ IF p.marked # 0 THEN panel' = p /\ wanted' = w /\ NextChmod(p)
         ELSE panel' \in update_panels(size, p, FALSE) /\ wanted' = Kept(w, panel') /\ AtRest
      /\ UNCHANGED <<size, fast_reload, changes>>

\* Cancel ends the loop, without an update.
ChmodCancel ==
  /\ pc = "chmod" /\ AtRest
  /\ UNCHANGED <<size, panel, fast_reload, wanted, changes>>

\* apply_mask: all the marked, until one cannot be found; that one loses its mark too.
ChmodApply ==
  LET gone == {i \in Marked(panel) : i > at /\ ~ lstat(size, panel.cwd, panel.list[i].name)}
      S == {i \in Marked(panel) : \A j \in gone : i <= j}
  IN  /\ pc = "chmod" /\ panel.marked >= 2 /\ AtRest
      /\ panel' \in update_panels(size, do_file_mark(panel, S, FALSE), FALSE)
      /\ wanted' = Kept(wanted \ {Here(i) : i \in S}, panel')
      /\ UNCHANGED <<size, fast_reload, changes>>

-----------------------------------------------------------------------------
(* Other programs *)

Others(f, D) ==
  /\ size' = f /\ panel' \in Aged(panel, D)
  /\ changes < MaxChanges /\ changes' = changes + 1
  /\ UNCHANGED <<fast_reload, work, wanted>>

Appear == \E q \in Place, k \in 1..MaxSize :
  /\ size[q] = 0 /\ Exists(size, q[1]) /\ (q[2] = Sub => k = 1)
  /\ Others([size EXCEPT ![q] = k], {q[1]})

Vanish == \E q \in Place : size[q] # 0 /\ Others(Without(Subtree(q)), Changed(Subtree(q)))

Grow == \E q \in Place :
  /\ size[q] \in 1..(MaxSize - 1) /\ q[2] # Sub
  /\ Others([size EXCEPT ![q] = @ + 1], {})

-----------------------------------------------------------------------------
Init ==
  /\ fast_reload \in BOOLEAN
  /\ size \in [Place -> {0, 1}]
  /\ \A q \in Place : ~ Exists(size, q[1]) => size[q] = 0
  /\ \E d \in Dir :
       /\ Exists(size, d)
       /\ panel \in {[cwd |-> d, list |-> l, selected |-> 1, marked |-> 0, dirs_marked |-> 0, total |-> 0,
                      is_panelized |-> FALSE, dir_stat |-> {}] : l \in do_load_dir(size, d)}
  /\ pc = "idle" /\ op = "NONE" /\ force = FALSE /\ at = 0
  /\ wanted = {} /\ changes = 0

Marks == \/ MarkFile \/ reverse_selection_cmd \/ dirsizes_cmd \/ MoveCursor
         \/ \E mark \in BOOLEAN : SelectCmd(mark)
Loads == \/ reread_cmd \/ do_external_panelize \/ shell_execute \/ CommandDone
         \/ \E d \in Dir : do_cd(d)
         \/ \E unsorted \in BOOLEAN : panel_set_sort_order(unsorted)
Operations ==
  \/ FileCommand \/ OperateSingle \/ OperateNext \/ OperateDone
  \/ chmod_cmd \/ ChmodEnter \/ ChmodCancel \/ ChmodApply
Elsewhere == Appear \/ Vanish \/ Grow

Next == Marks \/ Loads \/ Operations \/ Elsewhere
Spec == Init /\ [][Next]_vars

-----------------------------------------------------------------------------
(* Properties *)

\* An entry, whatever its size.
EntryOK(e) ==
  /\ DOMAIN e = {"name", "size", "computed", "marked"}
  /\ e.name \in AnyName /\ e.computed \in BOOLEAN /\ e.marked \in BOOLEAN

\* The variables have their types, the cursor and the entry an operation is at are in the list, and
\* no name is in it twice.
TypeOK ==
  /\ size \in [Place -> 0..MaxSize] /\ changes \in 0..MaxChanges /\ fast_reload \in BOOLEAN
  /\ panel.cwd \in Dir /\ panel.is_panelized \in BOOLEAN /\ panel.dir_stat \subseteq Dir
  /\ panel.list \in Seq(Range(panel.list)) /\ panel.selected \in DOMAIN panel.list
  /\ \A e \in Range(panel.list) : EntryOK(e)
  /\ \A i, j \in DOMAIN panel.list : i # j => panel.list[i].name # panel.list[j].name
  /\ pc \in {"idle", "single", "many", "chmod", "command"}
  /\ op \in {"NONE", "COPY", "DELETE"} /\ force \in BOOLEAN
  /\ pc \in {"single", "chmod"} => at \in DOMAIN panel.list
  /\ pc = "many" => at \in Nat \ {0}
  /\ wanted \subseteq Dir \X AnyName

\* The number of marks is the number of marked entries, and ".." is none of them.
MarkedAgrees ==
  /\ panel.marked = Cardinality(Marked(panel))
  /\ \A i \in Marked(panel) : panel.list[i].name # DotDot

SumsAgree ==
  LET M == Marked(panel)
  IN  /\ panel.dirs_marked = Cardinality({i \in M : IsDir(panel.list[i])})
      /\ panel.total = BytesOf(panel, M)

\* The summary the panel keeps agrees with the marks in the list: the loops of chmod.c and
\* panel_get_file look for a mark without an end because marked is not 0 (chmod.c:212,
\* file.c:1545), and dirsizes_cmd, the prompts and the progress of an operation go by the sums.
CountsAgree == MarkedAgrees /\ SumsAgree

\* What is marked is what the user has marked, by name, in this directory, and a mark once taken off or
\* lost does not come back; if a directory has gone the names marked in it are marked in its parent
\* (screen.c:1087).
MarksAreWanted ==
  \A i \in Marked(panel) :
    \/ Here(i) \in wanted
    \/ panel.cwd = "above" /\ <<"below", panel.list[i].name>> \in wanted

\* Without that exception.
MarksAreOfThisDirectory == \A i \in Marked(panel) : Here(i) \in wanted

\* The list is the directory as it is, or nothing of it.
ShowsAll ==
  LET l == panel.list
      seen == {l[i].name : i \in DOMAIN l}
  IN  /\ seen \in {{DotDot}, {n \in AnyName \ Path : lstat(size, panel.cwd, n)}}
      /\ \A i \in 2..Len(l) : l[i].size = SizeOf(size, panel.cwd, l[i].name)
      /\ ~ panel.is_panelized

\* A manual reload shows the directory as it is, whatever fast_reload has left out: "In this case
\* you'll need to do a manual reload of the directory" (main.c:994).
RereadShowsAll == [][ShowsAll' \/ ~ reread_cmd]_vars

\* The cursor stays on the name it is on as long as that is listed, through every reload, sort and
\* operation: the next command works on the file the user last chose.  A name with a directory in
\* it is not looked for (screen.c:900).
CursorStays ==
  [][LET n == panel.list[panel.selected].name
     IN  n \notin Path /\ IndexesOf(panel', n) # {} /\ panel'.list[panel'.selected].name # n
         => MarkFile \/ MoveCursor \/ do_external_panelize \/ \E d \in Dir : do_cd(d)]_vars

\* A mark stays when a panelized list is reloaded and the file is there: "else we have to mark the
\* file again" (main.c:294).
MarksAreKept ==
  [][CommandDone /\ panel.is_panelized =>
       \A i \in Marked(panel) : lstat(size, panel.cwd, panel.list[i].name) =>
         \E j \in Marked(panel') : panel'.list[j].name = panel.list[i].name]_vars
=============================================================================
