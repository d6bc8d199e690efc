---------------------------- MODULE ArchiveCache ----------------------------
(***************************************************************************)
(* The archives the VFS keeps in memory, from the first time a path in one *)
(* is looked at to the time its stamp expires: the superblocks of          *)
(* vfs/direntry.c as vfs/tar.c uses them, the archives of vfs/extfs.c, the *)
(* stamps of vfs/gc.c, mc_chdir of vfs/vfs.c, and what the one panel of    *)
(* the Commander does with them.  Everything runs in one process, in calls *)
(* that call each other: looking at a nested archive looks at the one      *)
(* around it, freeing it closes a file there, and both may stamp or free   *)
(* others.  The calls are operators from a state of the cache to the next. *)
(***************************************************************************)
EXTENDS Naturals, Sequences, FiniteSets, SequencesExt

CONSTANTS Tar,           \* archives of the classes built on direntry.c
          Extfs,         \* archives read through a script
          Outer,         \* the archive an archive's file is in, or Local
          Local,         \* a local directory
          None,          \* no archive: vfsid NULL
          Viewer,        \* the program part that has a file open
          MaxCommands,   \* bound on what the user does
          MaxChanges     \* bound on what others do to the files

Archives == Tar \cup Extfs
Dirs == Archives \cup {Local}

ASSUME KindsDiffer == Tar \cap Extfs = {} /\ Local \notin Archives
ASSUME NestedOnce == /\ Outer \in [Archives -> Dirs]
                     /\ \A a \in Archives : Outer[a] # Local => Outer[Outer[a]] = Local

VARIABLES
  vfs,        \* the state of the cache, see Cache
  disk,       \* the files of the archives: "good", "bad", "odd" or "gone"
  commands,   \* user commands so far
  changes     \* changes to the files so far

vars == <<vfs, disk, commands, changes>>

\* A handle: by whom, in which archive, and whether the archive it is in
\* was freed meanwhile.
Handles == [by : Archives \cup {Viewer}, in : Archives, lost : BOOLEAN]

Cache == [live     : SUBSET Archives,   \* in supers or first_archive
          stale    : SUBSET Archives,   \* whose file is newer than they are
          glimpsed : SUBSET Archives,   \* of Extfs, never entered or opened
          stamps   : Seq([id : Archives, old : BOOLEAN]),
          open     : SUBSET Handles,
          cur      : Dirs,              \* current_dir
          cwd      : Dirs,              \* current_panel->cwd
          harm     : BOOLEAN]           \* freed memory was used

Result(s, id) == [s |-> s, id |-> id]

-----------------------------------------------------------------------------
(* Stamps. *)

Stamped(s, a) == \E i \in DOMAIN s.stamps : s.stamps[i].id = a

vfs_stamp(s, a) ==
  [s EXCEPT !.stamps = [i \in DOMAIN @ |->
     IF @[i].id = a THEN [id |-> a, old |-> FALSE] ELSE @[i]]]

vfs_addstamp(s, a) ==
  IF Stamped(s, a) THEN vfs_stamp(s, a)
  ELSE [s EXCEPT !.stamps = Append(@, [id |-> a, old |-> FALSE])]

vfs_rmstamp(s, a) ==
  [s EXCEPT !.stamps = SelectSeq(@, LAMBDA x : x.id # a)]

\* The stamp behind that of a.
NextStamp(s, a) ==
  LET after == {i \in DOMAIN s.stamps : i > 1 /\ s.stamps[i - 1].id = a}
  IN IF after = {} THEN None ELSE s.stamps[CHOOSE i \in after : TRUE].id

-----------------------------------------------------------------------------
(* The two classes. *)

fd_usage(s, a) == Cardinality({h \in s.open : h.in = a /\ ~h.lost})

\* direntry.c: "Our data structures should survive free of superblock at any
\* time".
vfs_s_nothingisopen(s, a) == TRUE

\* Mutant.
extfs_nothingisopen_Always(s, a) == TRUE

extfs_nothingisopen(s, a) == fd_usage(s, a) = 0

nothingisopen(s, a) ==
  IF a \in Tar THEN vfs_s_nothingisopen(s, a) ELSE extfs_nothingisopen(s, a)

RECURSIVE GetPath(_, _, _), vfs_stamp_create(_, _)

vfs_getid(s, d) == IF d = Local THEN Result(s, None) ELSE GetPath(s, d, TRUE)

\* a is no longer needed by the caller: it gets a stamp if nobody else needs
\* it.  Finding the archives of the directories may free a itself.
vfs_stamp_create(s, a) ==
  LET Panel(r) ==
        CASE r.id = a -> r.s
          [] r.id # a /\ a \in s.stale \ r.s.stale -> [r.s EXCEPT !.harm = TRUE]
          [] OTHER -> IF nothingisopen(r.s, a) THEN vfs_addstamp(r.s, a) ELSE r.s
      Left(s1, here) == IF a \in {here, None} THEN s1 ELSE Panel(vfs_getid(s1, s.cwd))
      Current(r) == Left(IF r.id = None THEN r.s ELSE vfs_rmstamp(r.s, r.id), r.id)
  IN Current(vfs_getid(s, s.cur))

\* Mutant: the last close forgets the stamp.
Close_NoStamp(s, h) ==
  [s EXCEPT !.open = @ \ {h}, !.harm = @ \/ h.lost]

\* mc_close, and mc_ungetlocalcopy for the archives of Extfs.
Close(s, h) ==
  LET Closed(s1) == CASE h.lost -> [s1 EXCEPT !.harm = TRUE]
                      [] ~h.lost /\ fd_usage(s1, h.in) = 0 -> vfs_stamp_create(s1, h.in)
                      [] OTHER -> s1
  IN Closed([s EXCEPT !.open = @ \ {h}])

HandlesBy(s, who) == {h \in s.open : h.by = who}

CloseBy(s, who) ==
  IF HandlesBy(s, who) = {} THEN s
  ELSE Close(s, CHOOSE h \in HandlesBy(s, who) : TRUE)

\* The superblock leaves the list and its files, then what it has open itself
\* is closed.
Free(s, a) ==
  CloseBy([s EXCEPT !.live = @ \ {a}, !.stale = @ \ {a}, !.glimpsed = @ \ {a},
                !.open = {[h EXCEPT !.lost = @ \/ h.in = a] : h \in @}], a)

\* Open a file in archive a.
Open(s, who, a) ==
  LET Found(r) ==
        IF r.id = None THEN r.s
        ELSE [vfs_rmstamp(r.s, a) EXCEPT !.glimpsed = @ \ {a},
                !.open = @ \cup {[by |-> who, in |-> a, lost |-> FALSE]}]
  IN Found(GetPath(s, a, FALSE))

-----------------------------------------------------------------------------
(* Finding the archive of a path. *)

\* Opening the file of archive a: a tar archive keeps it open, an archive of
\* Extfs keeps a local copy, which only an outer one of Extfs counts as open.
OpenFileOf(s, a) ==
  LET opened == Open(s, a, Outer[a])
  IN CASE Outer[a] = Local -> s
       [] Outer[a] \in Tar /\ a \in Extfs -> CloseBy(opened, a)
       [] OTHER -> opened

\* tar_open_archive and vfs_s_get_path_mangle.  A new archive is stamped at
\* once if nobody is in it.
LoadTar(s, a) ==
  LET Opened(s1) == IF disk[a] # "good" \/ (Outer[a] # Local /\ HandlesBy(s1, a) = {})
                    THEN Result(CloseBy(s1, a), None)
                    ELSE Result(vfs_stamp_create([s1 EXCEPT !.live = @ \cup {a}], a), a)
  IN Opened(OpenFileOf(s, a))

\* extfs_read_archive.  An "odd" listing, with an entry that has no place in
\* the tree, is an error that leaves the archive in the list.
LoadExtfs(s, a) ==
  LET Opened(s1) ==
        IF disk[a] \in {"good", "odd"}
        THEN Result([s1 EXCEPT !.live = @ \cup {a}, !.glimpsed = @ \cup {a}],
                    IF disk[a] = "good" THEN a ELSE None)
        ELSE Result(CloseBy(s1, a), None)
  IN Opened(OpenFileOf(s, a))

\* tar_super_check: whether the archive's own file can be looked at.
Check(s, a) ==
  IF Outer[a] = Local THEN Result(s, IF disk[a] = "gone" THEN None ELSE a)
  ELSE GetPath(s, Outer[a], FALSE)

\* Mutant: a changed archive is freed and keeps its stamp.
GetTarPath_KeepsStamp(s, a, no_open) ==
  LET Search(fresh) == CASE a \in fresh.live -> Result(vfs_stamp(fresh, a), a)
                         [] a \notin fresh.live /\ no_open -> Result(fresh, None)
                         [] OTHER -> LoadTar(fresh, a)
      Checked(c) == IF c.id = None THEN c
                    ELSE Search(IF a \in c.s.stale THEN Free(c.s, a) ELSE c.s)
  IN Checked(Check(s, a))

\* vfs_s_get_path_mangle and extfs_get_path_mangle.
GetTarPath(s, a, no_open) ==
  LET Search(fresh) == CASE a \in fresh.live -> Result(vfs_stamp(fresh, a), a)
                         [] a \notin fresh.live /\ no_open -> Result(fresh, None)
                         [] OTHER -> LoadTar(fresh, a)
      Checked(c) == IF c.id = None THEN c
                    ELSE Search(IF a \in c.s.stale THEN vfs_rmstamp(Free(c.s, a), a) ELSE c.s)
  IN Checked(Check(s, a))

GetExtfsPath(s, a, no_open) ==
  LET Checked(c) == IF c.id = None THEN c ELSE LoadExtfs(c.s, a)
  IN CASE a \in s.live -> Result(vfs_stamp(s, a), a)
       [] a \notin s.live /\ no_open -> Result(s, None)
       [] OTHER -> Checked(Check(s, a))

GetPath(s, a, no_open) ==
  IF a \in Tar THEN GetTarPath(s, a, no_open) ELSE GetExtfsPath(s, a, no_open)

-----------------------------------------------------------------------------
(* Directories. *)

\* mc_chdir: the result's id is the directory, or None.
mc_chdir(s, d) ==
  LET Leave(old) ==
        Result(vfs_stamp_create([old.s EXCEPT !.cur = d, !.glimpsed = @ \ {d}], old.id), d)
      Found(r) == IF r.id = None THEN r ELSE Leave(vfs_getid(r.s, r.s.cur))
  IN Found(IF d = Local THEN Result(s, Local) ELSE GetPath(s, d, FALSE))

\* mc_opendir of a directory that is then read and closed.
ReadDir(s, d) == IF d = Local THEN s ELSE GetPath(s, d, FALSE).s

\* _do_panel_cd with vfs_release_path of the old directory, and do_load_dir.
_do_panel_cd(s, d) ==
  LET Release(old) == ReadDir(vfs_stamp_create(old.s, old.id), d)
      Changed(r) == IF r.id = None THEN r.s
                    ELSE Release(vfs_getid([r.s EXCEPT !.cwd = d], s.cwd))
  IN Changed(mc_chdir(s, d))

\* panel_reload: up until a directory can be entered.
RECURSIVE panel_reload(_)
panel_reload(s) ==
  LET Changed(r) == IF r.id = None THEN panel_reload([r.s EXCEPT !.cwd = Outer[@]])
                    ELSE ReadDir(r.s, r.s.cwd)
  IN Changed(mc_chdir(s, s.cwd))

-----------------------------------------------------------------------------
(* Expiry: the loop of vfs_expire from the stamp of a on.  The stamp it goes *)
(* to next was found before the archive was freed.                           *)

Expired(s, a) == \E i \in DOMAIN s.stamps : s.stamps[i] = [id |-> a, old |-> TRUE]

RECURSIVE ExpireFrom(_, _, _)
ExpireFrom(s, a, now) ==
  LET Go(s1, next) == IF next # None /\ ~Stamped(s1, next)
                      THEN [s1 EXCEPT !.harm = TRUE]
                      ELSE ExpireFrom(s1, next, now)
      Visited(s1) == Go(s1, NextStamp(s, a))
  IN IF s.harm \/ a = None THEN s
     ELSE Visited(IF now \/ Expired(s, a) THEN vfs_rmstamp(Free(s, a), a) ELSE s)

vfs_expire(s, now) ==
  IF s.stamps = <<>> THEN s ELSE ExpireFrom(s, s.stamps[1].id, now)

-----------------------------------------------------------------------------
Init ==
  /\ vfs = [live |-> {}, stale |-> {}, glimpsed |-> {}, stamps |-> <<>>, open |-> {},
            cur |-> Local, cwd |-> Local, harm |-> FALSE]
  /\ disk \in {f \in [Archives -> {"good", "odd"}] : \A a \in Archives :
                 f[a] = "odd" => a \in Extfs /\ Outer[a] # Local}
  /\ commands = 0
  /\ changes = 0

\* A file is open only while one part of the program is at work on it.
Viewing == HandlesBy(vfs, Viewer) # {}

Command ==
  /\ ~vfs.harm
  /\ commands < MaxCommands
  /\ commands' = commands + 1
  /\ UNCHANGED <<disk, changes>>

\* A path in archive a is looked at, or cannot be entered after all.
Look(a) == Command /\ vfs' = GetPath(vfs, a, FALSE).s

do_panel_cd(d) == ~Viewing /\ Command /\ vfs' = _do_panel_cd(vfs, d)

\* The panel is read again, and is the current directory again.
update_panels ==
  /\ ~Viewing
  /\ Command
  /\ LET Again(s) == mc_chdir(s, s.cwd).s IN vfs' = Again(panel_reload(vfs))

\* The files found in an archive are put into the panel: its directory is "/",
\* without a change of directory in the VFS.
Panelize ==
  /\ ~Viewing
  /\ vfs.cwd # Local
  /\ Command
  /\ vfs' = [vfs EXCEPT !.cwd = Local]

OpenFile == vfs.cwd # Local /\ ~Viewing /\ Command /\ vfs' = Open(vfs, Viewer, vfs.cwd)

CloseFile ==
  /\ ~vfs.harm
  /\ Viewing
  /\ vfs' = CloseBy(vfs, Viewer)
  /\ UNCHANGED <<disk, commands, changes>>

FreeVfssNow == ~Viewing /\ Command /\ vfs' = vfs_expire(vfs, TRUE)

Overdue == ~vfs.harm /\ \E i \in DOMAIN vfs.stamps : vfs.stamps[i].old

vfs_timeout_handler ==
  /\ Overdue
  /\ vfs' = vfs_expire(vfs, FALSE)
  /\ UNCHANGED <<disk, commands, changes>>

\* The timeout passes for every stamp there is.
Tick ==
  /\ ~vfs.harm
  /\ \E i \in DOMAIN vfs.stamps : ~vfs.stamps[i].old
  /\ vfs' = [vfs EXCEPT !.stamps = [i \in DOMAIN @ |-> [@[i] EXCEPT !.old = TRUE]]]
  /\ UNCHANGED <<disk, commands, changes>>

\* Another program rewrites or removes the file of archive a.
Change(a, content) ==
  /\ ~vfs.harm
  /\ changes < MaxChanges
  /\ Outer[a] = Local
  /\ disk[a] # "gone"
  /\ content = "odd" => a \in Extfs
  /\ disk' = [disk EXCEPT ![a] = content]
  /\ vfs' = [vfs EXCEPT !.stale =
       IF content # "gone" /\ a \in Tar \cap vfs.live THEN @ \cup {a} ELSE @]
  /\ changes' = changes + 1
  /\ UNCHANGED commands

Next ==
  \/ \E a \in Archives : Look(a)
  \/ \E d \in Dirs : do_panel_cd(d)
  \/ update_panels
  \/ Panelize
  \/ OpenFile
  \/ CloseFile
  \/ FreeVfssNow
  \/ vfs_timeout_handler
  \/ Tick
  \/ \E a \in Archives, content \in {"good", "bad", "odd", "gone"} : Change(a, content)

\* get_event calls the timeout handler each time, and at least every ten
\* seconds while it waits with a mouse; files are closed when they were seen.
\* The last two are weak fairness too, with the guards written out in place of
\* ENABLED, which would evaluate the chain of calls without remembering any.
Fairness ==
  /\ WF_vars(Tick)
  /\ []<><<vfs_timeout_handler>>_vars \/ []<>~Overdue
  /\ []<><<CloseFile>>_vars \/ []<>(vfs.harm \/ ~Viewing)

Spec == Init /\ [][Next]_vars /\ Fairness

-----------------------------------------------------------------------------
(* Properties. *)

\* The variables have their types, each part of the program has one file open,
\* and every stamp is the only one of an archive that is in memory: vfs_expire
\* frees what it names.
TypeOK ==
  /\ vfs.live \subseteq Archives /\ vfs.stale \subseteq vfs.live \cap Tar
  /\ vfs.glimpsed \subseteq vfs.live \cap Extfs
  /\ \A i \in DOMAIN vfs.stamps : vfs.stamps[i] \in [id : Archives, old : BOOLEAN]
  /\ vfs.open \subseteq Handles
  /\ vfs.cur \in Dirs /\ vfs.cwd \in Dirs /\ vfs.harm \in BOOLEAN
  /\ disk \in [Archives -> {"good", "bad", "odd", "gone"}]
  /\ commands \in 0 .. MaxCommands /\ changes \in 0 .. MaxChanges
  /\ \A h, k \in vfs.open : h.by = k.by => h = k
  /\ ~vfs.harm => /\ IsInjective([i \in DOMAIN vfs.stamps |-> vfs.stamps[i].id])
                  /\ \A i \in DOMAIN vfs.stamps : vfs.stamps[i].id \in vfs.live

\* The directories, and the archives with open files.
Entered == {vfs.cur, vfs.cwd} \ {Local}
WithOpenFiles == {h.in : h \in vfs.open}

Root(a) == IF Outer[a] = Local THEN a ELSE Outer[a]

\* Nothing is promised of an archive whose file, or the file of the archive
\* around it, was changed or removed, of one whose listing is odd, of one of
\* Extfs that was only glimpsed, and of any once freed memory was used.
Spoilt ==
  {a \in Archives : \/ vfs.harm
                   \/ {a, Root(a)} \cap vfs.stale # {}
                   \/ a \in vfs.glimpsed
                   \/ disk[a] # "good"
                   \/ disk[Root(a)] # "good"}

\* Open files keep an archive of Extfs only.
Promise == INSTANCE ArchivePromise WITH
  cached <- vfs.live,
  used   <- Entered \cup (WithOpenFiles \cap Extfs),
  busy   <- Entered \cup WithOpenFiles,
  spoilt <- Spoilt

\* The cache implements the promise: no look, change of directory, close or
\* expiry takes an archive from under the current directory, the panel or the
\* local copy of an archive within (vfs_stamp_create, nothingisopen), and one
\* that is left is freed in the end (vfs_expire).
KeepsPromise == Promise!Spec

\* No archive is forgotten: one that is neither entered nor open has a stamp,
\* whichever of the nested calls was the last to leave it (vfs_stamp_create in
\* mc_chdir, vfs_release_path, vfs_s_get_path_mangle and vfs_s_close).
UnusedIsStamped ==
  \A a \in vfs.live \ (Entered \cup Spoilt) : fd_usage(vfs, a) > 0 \/ Stamped(vfs, a)

\* "Our data structures should survive free of superblock at any time"
\* (direntry.c:1060).  It does not hold: an archive is freed while a nested one
\* has its file open in it, and closing that file uses the freed superblock.
SurvivesFree == ~vfs.harm
=============================================================================
