------------------------------- MODULE Ftpfs -------------------------------
(***************************************************************************)
(* The FTP file system (vfs/ftpfs.c) with what vfs/direntry.c makes of it: *)
(* one server, its control connection, the data connections, the cached    *)
(* listings, and the copies and commands that use them.                    *)
(*                                                                         *)
(* The Commander waits for each answer, so it is one stack of calls.  The  *)
(* server, the network and the user do not know what it waits for: a       *)
(* transfer may end, fail or be aborted while they are at something else,  *)
(* and nothing on the control connection says which command a reply is to. *)
(***************************************************************************)
EXTENDS Naturals, Sequences

CONSTANTS Blocks,      \* the length of the file that is copied
          Cap,         \* what the network holds of a data connection
          Starts,      \* where a reader may seek to before its first read
          Passive,     \* the option ftpfs_use_passive_connections, and
          Lists,       \* how directories are listed at first
          MaxJobs,     \* bound on what the user does
          MaxFaults,   \* bound on what fails
          None

ASSUME FtpfsAssumption ==
  /\ {Blocks, Cap} \subseteq Nat \ {0} /\ {MaxJobs, MaxFaults} \subseteq Nat
  /\ Starts \subseteq 0..Blocks /\ Passive \subseteq BOOLEAN /\ Lists \subseteq {"auto", "strict"}
  /\ None \notin BOOLEAN
  /\ None \notin {"from", "to", "home", "src", "dst", "list", "up", "stale", "open", "gone",
                  "direct", "temp", "stored", "deleted", "failed", "astray", "crashed"}

Dirs  == {"from", "to"}          \* the directories of the source and the target
Owner == {"src", "dst", "list"}  \* whose a data connection is

VARIABLES
  todo,       \* the calls that are active and what they still do, innermost first
  answer,     \* the last reply: the command it is to, and its class
  okay,       \* whether the last call succeeded
  super,      \* the superblock: None, "up", or "stale" with its socket closed
  use_passive_connection, strict, isbinary, cwdir, ctl_connection_busy,
  want_stale, \* whether the cached listings are to be kept though files change
  saved,      \* the directories for which a copy has asked that
  listing,    \* for each directory, which one its cached entries are of
  lines,      \* which directory the entries being read are of
  src, dst,   \* the files the copy has open
  got, put,   \* blocks read and written by the copy
  wanted,     \* where the reader asked to begin
  exact,      \* whether what it read is as it is in the file
  ended,      \* whether it was told that this was all
  told,       \* what the user was told of the target, or of his command
  server,     \* the server's end of the control connection
  data,       \* the data connections
  stored,     \* the target on the server: blocks, and whether as they were sent
  jobs, faults,
  harm        \* None, "astray" when a reply is left unread, or "crashed": the model ends

superVars == <<super, use_passive_connection, strict, isbinary, cwdir, ctl_connection_busy>>
cacheVars == <<want_stale, saved, listing, lines>>
copyVars  == <<src, dst, got, put, wanted, exact, ended, told>>
netVars   == <<server, data, stored>>
vars == <<todo, answer, okay, superVars, cacheVars, copyVars, netVars, jobs, faults, harm>>

Unknown == [d \in Dirs |-> None]
NoData  == [client |-> FALSE, link |-> "none", flow |-> 0, binary |-> FALSE, of |-> None]
Fresh   == [up |-> TRUE, logged |-> TRUE, cmds |-> <<>>, replies |-> <<>>, cwd |-> "home",
            binary |-> FALSE, ready |-> None, xfer |-> None, task |-> None, n |-> 0,
            reset |-> FALSE]
Dead    == [Fresh EXCEPT !.up = FALSE]

Init ==
  /\ todo = <<>> /\ answer = [to |-> None, class |-> "FAILED"] /\ okay = TRUE
  /\ super = None /\ use_passive_connection = TRUE /\ strict = "auto"
  /\ isbinary = None /\ cwdir = None /\ ctl_connection_busy = FALSE
  /\ want_stale = FALSE /\ saved = {} /\ listing = Unknown /\ lines = None
  /\ src = None /\ dst = None /\ got = 0 /\ put = 0 /\ wanted = 0
  /\ exact = TRUE /\ ended = FALSE /\ told = None
  /\ server = Dead /\ data = [o \in Owner |-> NoData] /\ stored = None
  /\ jobs = 0 /\ faults = 0 /\ harm = None

Call(name, arg) == [call |-> name, arg |-> arg]
Do(name) == Call(name, None)
\* A command is sent, and its reply taken.
Ask(name, arg) == Call("command", [name |-> name, arg |-> arg])
\* If the last call failed, these calls are all that is left to do.
Or(calls) == Call("or", calls)

At(name) == todo # <<>> /\ Head(todo).call = name /\ harm = None
Arg == Head(todo).arg

\* The call on top goes on with these.
Then(calls) == todo' = calls \o Tail(todo)
Return(result) == Then(<<>>) /\ okay' = result

Fault == faults < MaxFaults /\ faults' = faults + 1

Failed == [to |-> None, class |-> "FAILED"]
Complete == answer.class = "COMPLETE"

-----------------------------------------------------------------------------
(* The control connection. *)

\* The server's ends of the data connections go with the session.
HangUp(d) ==
  [o \in Owner |-> [d[o] EXCEPT !.link = IF @ = "open" THEN "closed" ELSE @]]

\* What ftpfs_reconnect may come to: logged in and back in the directory; no
\* connection; a login that fails and leaves its socket in use; no way back to
\* the directory, which is then forgotten.  The dialogue with a new session is
\* in step.
Reconnections ==
  {[done |-> TRUE, new |-> TRUE, cwdir |-> cwdir,
    server |-> [Fresh EXCEPT !.cwd = IF cwdir = None THEN "home" ELSE cwdir]],
   [done |-> FALSE, new |-> FALSE, cwdir |-> cwdir, server |-> server],
   [done |-> FALSE, new |-> TRUE, cwdir |-> cwdir, server |-> [Fresh EXCEPT !.logged = FALSE]],
   [done |-> FALSE, new |-> TRUE, cwdir |-> None, server |-> Fresh]}

\* What goes wrong if the type of the old session is taken to be that of the new.
ftpfs_reconnect_Typed(r) ==
  /\ IF r.done THEN UNCHANGED faults ELSE Fault
  /\ cwdir' = r.cwdir
  /\ UNCHANGED isbinary
  /\ data' = IF r.new THEN HangUp(data) ELSE data

ftpfs_reconnect(r) ==
  /\ IF r.done THEN UNCHANGED faults ELSE Fault
  /\ cwdir' = r.cwdir
  /\ isbinary' = IF r.new THEN None ELSE isbinary
  /\ data' = IF r.new THEN HangUp(data) ELSE data

\* With ABOR the reply is not waited for here.
Sent == IF Arg.name = "ABOR"
        THEN Then(<<>>) /\ answer' = [to |-> None, class |-> "COMPLETE"]
        ELSE Then(<<Do("get_reply")>>) /\ UNCHANGED answer
NotSent == Then(<<>>) /\ answer' = Failed

Received(s) == [s EXCEPT !.cmds = Append(@, Arg)]

\* A command while a transfer has the control connection: the replies to the
\* transfer will be taken for those to the command.
Overlaps == ctl_connection_busy /\ Arg.name # "ABOR"

ftpfs_command ==
  /\ At("command")
  /\ \/ /\ super = "up" /\ server.up
        /\ server' = Received(server)
        /\ harm' = IF Overlaps THEN "astray" ELSE harm
        /\ Sent
        /\ UNCHANGED <<isbinary, cwdir, data, faults>>
     \* The server has gone, but the first write does not notice.
     \/ /\ super = "up" /\ ~server.up /\ ~server.reset
        /\ server' = [server EXCEPT !.reset = TRUE]
        /\ Sent
        /\ UNCHANGED <<isbinary, cwdir, data, faults, harm>>
     \* EPIPE
     \/ /\ super = "up" /\ ~server.up
        /\ \E r \in Reconnections :
             /\ ftpfs_reconnect(r)
             /\ server' = IF r.done THEN Received(r.server) ELSE r.server
             /\ IF r.done THEN Sent ELSE NotSent
        /\ UNCHANGED harm
     \* EBADF
     \/ /\ super = "stale"
        /\ NotSent
        /\ UNCHANGED <<isbinary, cwdir, server, data, faults, harm>>
  /\ UNCHANGED <<okay, super, use_passive_connection, strict, ctl_connection_busy, cacheVars,
                 copyVars, stored, jobs>>

ftpfs_get_reply ==
  /\ At("get_reply")
  /\ \/ /\ server.replies # <<>>
        /\ answer' = Head(server.replies)
        /\ server' = [server EXCEPT !.replies = Tail(@)]
     \/ /\ server.replies = <<>> /\ ~server.up
        /\ answer' = Failed
        /\ UNCHANGED server
  /\ Then(<<>>)
  /\ UNCHANGED <<okay, superVars, cacheVars, copyVars, data, stored, jobs, faults, harm>>

\* vfs_s_get_path_mangle: the superblock is there, or is opened.  A login that
\* is refused is tried again after a while; a user who does not want to wait
\* gets a superblock whose socket is closed.
get_super ==
  /\ At("get_super")
  /\ \/ super # None /\ Return(TRUE) /\ UNCHANGED <<superVars, server, faults>>
     \/ /\ super = None
        /\ super' = "up" /\ server' = Fresh /\ cwdir' = "home"
        /\ use_passive_connection' \in Passive /\ strict' \in Lists
        /\ Return(TRUE)
        /\ UNCHANGED <<isbinary, ctl_connection_busy, faults>>
     \/ /\ super = None
        /\ Fault
        /\ super' = "stale"
        /\ Return(TRUE)
        /\ UNCHANGED <<use_passive_connection, strict, isbinary, cwdir, ctl_connection_busy,
                       server>>
     \/ super = None /\ Fault /\ Return(FALSE) /\ UNCHANGED <<superVars, server>>
  /\ UNCHANGED <<answer, cacheVars, copyVars, data, stored, jobs, harm>>

-----------------------------------------------------------------------------
(* Data connections.  A request says whose the connection is, for which      *)
(* command, and in which type.                                               *)

Request(o, cmd, arg, binary) == [owner |-> o, cmd |-> cmd, arg |-> arg, binary |-> binary]

ftpfs_open_data_connection(o, cmd, arg, binary) ==
  Call("initconn", Request(o, cmd, arg, binary))

\* ftpfs_changetype, and the command
Start(r) ==
  IF isbinary # r.binary THEN <<Ask("TYPE", r.binary), Call("typed", r)>>
                         ELSE <<Ask(r.cmd, r.arg), Call("started", r)>>

\* A step of a call that changes only the stack, okay, and what the step says.
Quietly == UNCHANGED <<answer, super, jobs, stored>>

initconn ==
  /\ At("initconn")
  /\ \/ super = "stale" /\ Return(FALSE)
     \/ /\ super = "up"
        /\ IF use_passive_connection
           THEN Then(<<Ask("PASV", Arg.owner), Call("passive", Arg)>>)
           ELSE Then(<<Ask("PORT", Arg.owner), Call("port", Arg)>>)
        /\ UNCHANGED okay
  /\ Quietly
  /\ UNCHANGED <<superVars, cacheVars, copyVars, server, data, faults, harm>>

ftpfs_setup_passive ==
  /\ At("passive")
  /\ \/ /\ Complete /\ answer.to = "PASV" /\ server.up /\ server.ready = Arg.owner
        /\ data' = [data EXCEPT ![Arg.owner] = [NoData EXCEPT !.client = TRUE, !.link = "open"]]
        /\ Then(Start(Arg))
        /\ UNCHANGED <<use_passive_connection, faults>>
     \/ /\ \/ Fault
           \/ ~(Complete /\ answer.to = "PASV" /\ server.up) /\ UNCHANGED faults
        /\ use_passive_connection' = FALSE
        /\ Then(<<Call("initconn", Arg)>>)
        /\ UNCHANGED data
  /\ Quietly
  /\ UNCHANGED <<okay, strict, isbinary, cwdir, ctl_connection_busy, cacheVars, copyVars, server,
                 harm>>

port ==
  /\ At("port")
  /\ IF Complete
     THEN /\ data' = [data EXCEPT ![Arg.owner] = [NoData EXCEPT !.client = TRUE]]
          /\ Then(Start(Arg)) /\ UNCHANGED okay
     ELSE Return(FALSE) /\ UNCHANGED data
  /\ Quietly
  /\ UNCHANGED <<superVars, cacheVars, copyVars, server, faults, harm>>

typed ==
  /\ At("typed")
  /\ IF Complete
     THEN /\ isbinary' = Arg.binary
          /\ Then(<<Ask(Arg.cmd, Arg.arg), Call("started", Arg)>>) /\ UNCHANGED okay
     ELSE Return(FALSE) /\ UNCHANGED isbinary
  /\ Quietly
  /\ UNCHANGED <<use_passive_connection, strict, cwdir, ctl_connection_busy, cacheVars, copyVars,
                 server, data, faults, harm>>

\* The transfer has begun.  An active connection is accepted once it is there.
started ==
  /\ At("started")
  /\ \/ answer.class # "PRELIM" /\ Return(FALSE)
     \/ /\ answer.class = "PRELIM"
        /\ use_passive_connection \/ data[Arg.owner].link # "none"
        /\ Return(TRUE)
  /\ Quietly
  /\ UNCHANGED <<superVars, cacheVars, copyVars, server, data, faults, harm>>

\* The user does not wait for it: the reply that ends the transfer stays unread.
GiveUp ==
  /\ At("started") /\ answer.class = "PRELIM"
  /\ ~use_passive_connection /\ data[Arg.owner].link = "none"
  /\ data' = [data EXCEPT ![Arg.owner].client = FALSE]
  /\ harm' = "astray"
  /\ Return(FALSE)
  /\ Quietly
  /\ UNCHANGED <<superVars, cacheVars, copyVars, server, faults>>
interrupt_accept == server.up /\ GiveUp
give_up_accept == ~server.up /\ GiveUp

DataConnection ==
  initconn \/ ftpfs_setup_passive \/ port \/ typed \/ started \/ give_up_accept

-----------------------------------------------------------------------------
(* Cached directories. *)

Find(d) == Call("find", d)

\* A listing may have expired: it is dropped first.
vfs_s_find_entry_linear ==
  /\ At("find")
  /\ \/ listing[Arg] # None /\ Return(TRUE) /\ UNCHANGED <<listing, lines, faults>>
     \/ /\ IF listing[Arg] = None THEN UNCHANGED faults ELSE Fault
        /\ listing' = [listing EXCEPT ![Arg] = None] /\ lines' = None
        /\ Then(<<Call("dir_load", Arg)>>) /\ UNCHANGED okay
  /\ Quietly
  /\ UNCHANGED <<superVars, want_stale, saved, copyVars, server, data, harm>>

List(d) ==
  <<ftpfs_open_data_connection("list", "LIST", IF strict = "strict" THEN None ELSE d, FALSE),
    Call("listing", d)>>

\* The directory is changed first if the server is not asked for it by name.
ftpfs_dir_load ==
  /\ At("dir_load")
  /\ Then(IF strict = "strict" /\ cwdir # Arg
          THEN <<Ask("CWD", Arg), Call("cwd_done", Arg)>> ELSE List(Arg))
  /\ Quietly
  /\ UNCHANGED <<okay, superVars, cacheVars, copyVars, server, data, faults, harm>>

cwd_done ==
  /\ At("cwd_done")
  /\ IF Complete THEN cwdir' = Arg /\ Then(List(Arg)) /\ UNCHANGED okay
     ELSE Return(FALSE) /\ UNCHANGED cwdir
  /\ Quietly
  /\ UNCHANGED <<use_passive_connection, strict, isbinary, ctl_connection_busy, cacheVars,
                 copyVars, server, data, faults, harm>>

\* The first listing that fails is tried again as RFC 959 has it.
Fallback(d) ==
  IF strict = "auto"
  THEN strict' = "strict" /\ Then(<<Call("dir_load", d)>>) /\ UNCHANGED okay
  ELSE Return(FALSE) /\ UNCHANGED strict

Close(o) == data' = [data EXCEPT ![o].client = FALSE]
Take(o)  == data[o].flow > 0 /\ data' = [data EXCEPT ![o].flow = @ - 1]
AtEnd(o) == data[o].flow = 0 /\ data[o].link # "open"

read_listing ==
  /\ At("listing")
  /\ \/ ~okay /\ Fallback(Arg) /\ UNCHANGED <<lines, data>>
     \/ /\ okay /\ Take("list")
        /\ lines' = data["list"].of
        /\ UNCHANGED <<todo, okay, strict>>
     \/ /\ okay /\ AtEnd("list") /\ Close("list")
        /\ Then(<<Do("get_reply"), Call("listed", Arg)>>)
        /\ UNCHANGED <<okay, strict, lines>>
  /\ Quietly
  /\ UNCHANGED <<use_passive_connection, isbinary, cwdir, ctl_connection_busy, want_stale, saved,
                 listing, copyVars, server, faults, harm>>

\* ... if the reply to an interrupted transfer is not read
interrupt_listing_Unread ==
  /\ At("listing") /\ okay
  /\ Close("list")
  /\ Then(<<Do("fail")>>)
  /\ Quietly
  /\ UNCHANGED <<okay, superVars, cacheVars, copyVars, server, faults, harm>>

interrupt_listing ==
  /\ At("listing") /\ okay
  /\ Close("list")
  /\ Then(<<Do("get_reply"), Do("fail")>>)
  /\ Quietly
  /\ UNCHANGED <<okay, superVars, cacheVars, copyVars, server, faults, harm>>

fail ==
  /\ At("fail")
  /\ Return(FALSE)
  /\ Quietly
  /\ UNCHANGED <<superVars, cacheVars, copyVars, server, data, faults, harm>>

listed ==
  /\ At("listed")
  /\ IF Complete /\ lines # None
     THEN /\ listing' = [listing EXCEPT ![Arg] = lines]
          /\ strict' = IF strict = "auto" THEN "daring" ELSE strict
          /\ Return(TRUE)
     ELSE Fallback(Arg) /\ UNCHANGED listing
  /\ Quietly
  /\ UNCHANGED <<use_passive_connection, isbinary, cwdir, ctl_connection_busy, want_stale, saved,
                 lines, copyVars, server, data, faults, harm>>

Directory ==
  \/ vfs_s_find_entry_linear \/ ftpfs_dir_load \/ cwd_done \/ read_listing \/ fail \/ listed

vfs_s_invalidate == listing' = IF want_stale' THEN listing ELSE Unknown

\* VFS_SETCTL_STALE_DATA: switched on where the directory can be found, and off
\* for those for which it was switched on.
setctl ==
  /\ At("setctl")
  /\ Then(IF Arg.on \/ Arg.dir \in saved THEN <<Find(Arg.dir), Call("stale", Arg)>> ELSE <<>>)
  /\ Quietly
  /\ UNCHANGED <<okay, superVars, cacheVars, copyVars, server, data, faults, harm>>

stale ==
  /\ At("stale")
  /\ want_stale' = IF okay THEN Arg.on ELSE want_stale
  /\ saved' = IF okay /\ Arg.on THEN saved \cup {Arg.dir} ELSE saved
  /\ IF okay /\ ~Arg.on THEN vfs_s_invalidate ELSE UNCHANGED listing
  /\ Then(<<>>)
  /\ Quietly
  /\ UNCHANGED <<okay, superVars, lines, copyVars, server, data, faults, harm>>

-----------------------------------------------------------------------------
(* A copy.  Its argument says where it is from and to: "ftp" or "local".     *)

Stale(where, d, on) ==
  IF where = "ftp" THEN <<Call("setctl", [dir |-> d, on |-> on])>> ELSE <<>>

\* What copy_file_file and panel_operate do once the copy has ended or failed.
Closing(a) ==
  <<Do("close_src"), Do("close_dst"), Do("chmod")>>
    \o Stale(a.from, "from", FALSE) \o Stale(a.to, "to", FALSE) \o <<Do("over")>>

Copying(a) ==
  Stale(a.to, "to", TRUE) \o Stale(a.from, "from", TRUE)
    \o (IF a.from = "ftp" THEN <<Find("from"), Or(Closing(a)),
          ftpfs_open_data_connection("src", "RETR", None, TRUE), Do("ftpfs_linear_start"), Or(Closing(a)),
          Do("seek")>>
        ELSE <<>>)
    \o (IF a.to = "ftp" THEN <<Find("to"), Do("again"), Do("fh_open"), Or(Closing(a))>> ELSE <<>>)
    \o <<Call("copy", a)>>

or ==
  /\ At("or")
  /\ todo' = IF okay THEN Tail(todo) ELSE Arg
  /\ Quietly
  /\ UNCHANGED <<okay, superVars, cacheVars, copyVars, server, data, faults, harm>>

\* ... if the control connection is not marked as busy
ftpfs_linear_start_Idle ==
  /\ At("ftpfs_linear_start")
  /\ src' = IF okay THEN "open" ELSE src
  /\ Then(<<>>)
  /\ Quietly
  /\ UNCHANGED <<okay, superVars, cacheVars, dst, got, put, wanted, exact, ended, told, server, data,
                 faults, harm>>

\* The connection is open, or not.
ftpfs_linear_start ==
  /\ At("ftpfs_linear_start")
  /\ src' = IF okay THEN "open" ELSE src
  /\ ctl_connection_busy' = (ctl_connection_busy \/ okay)
  /\ Then(<<>>)
  /\ Quietly
  /\ UNCHANGED <<okay, use_passive_connection, strict, isbinary, cwdir, cacheVars, dst, got, put,
                 wanted, exact, ended, told, server, data, faults, harm>>

\* The transfer has begun at the start of the file, wherever the reader seeks.
vfs_s_lseek ==
  /\ At("seek")
  /\ wanted' \in Starts
  /\ Then(<<>>)
  /\ Quietly
  /\ UNCHANGED <<okay, superVars, cacheVars, src, dst, got, put, exact, ended, told, server, data,
                 faults, harm>>

\* vfs_s_open looks the directory up again for a target that is not there yet,
\* and uses what it gets.
again ==
  /\ At("again")
  /\ \/ Then(<<Find("to")>>)
     \/ okay /\ Then(<<>>)
  /\ Quietly
  /\ UNCHANGED <<okay, superVars, cacheVars, copyVars, server, data, faults, harm>>

\* While the control connection is busy the target is kept in a local file.
ftpfs_fh_open ==
  /\ At("fh_open")
  /\ harm' = IF okay THEN harm ELSE "crashed"
  /\ dst' = IF okay /\ ctl_connection_busy THEN "temp" ELSE dst
  /\ Then(IF ctl_connection_busy \/ ~okay THEN <<>>
          ELSE <<ftpfs_open_data_connection("dst", "STOR", None, TRUE), Do("stor_opened")>>)
  /\ Quietly
  /\ UNCHANGED <<okay, superVars, cacheVars, src, got, put, wanted, exact, ended, told, server,
                 data, faults>>

stor_opened ==
  /\ At("stor_opened")
  /\ dst' = IF okay THEN "direct" ELSE dst
  /\ Then(<<>>)
  /\ Quietly
  /\ UNCHANGED <<okay, superVars, cacheVars, src, got, put, wanted, exact, ended, told, server,
                 data, faults, harm>>

Opening ==
  or \/ ftpfs_linear_start \/ vfs_s_lseek \/ again \/ ftpfs_fh_open \/ stor_opened

local_read ==
  /\ At("copy") /\ Arg.from = "local" /\ put = got
  /\ got' = IF got < Blocks THEN got + 1 ELSE got
  /\ ended' = (got = Blocks)
  /\ Then(IF got = Blocks THEN Closing(Arg) ELSE <<Call("copy", Arg)>>)
  /\ Quietly
  /\ UNCHANGED <<okay, superVars, cacheVars, src, dst, put, wanted, exact, told, server, data,
                 faults, harm>>

\* A read after the connection was closed fails, and is aborted like any other.
ftpfs_linear_read ==
  /\ At("copy") /\ Arg.from = "ftp" /\ put = got
  /\ \/ /\ src = "open" /\ Take("src")
        /\ got' = got + 1 /\ exact' = (exact /\ data["src"].binary)
        /\ UNCHANGED <<todo, src, ctl_connection_busy>>
     \/ /\ src = "open" /\ AtEnd("src") /\ data["src"].link = "closed"
        /\ Close("src") /\ src' = "gone" /\ ctl_connection_busy' = FALSE
        /\ Then(<<Do("get_reply"), Call("read_end", Arg)>>)
        /\ UNCHANGED <<got, exact>>
     \/ /\ src = "gone" \/ data["src"].link = "broken"
        /\ Then(<<Do("abort"), Call("read_failed", Arg)>>)
        /\ UNCHANGED <<src, got, exact, ctl_connection_busy, data>>
  /\ Quietly
  /\ UNCHANGED <<okay, use_passive_connection, strict, isbinary, cwdir, cacheVars, dst, put, wanted,
                 ended, told, server, faults, harm>>

read_end ==
  /\ At("read_end")
  /\ ended' = Complete
  /\ Then(IF Complete THEN Closing(Arg) ELSE <<Call("read_failed", Arg)>>)
  /\ Quietly
  /\ UNCHANGED <<okay, superVars, cacheVars, src, dst, got, put, wanted, exact, told, server, data,
                 faults, harm>>

\* The user presses Retry, or gives up.
read_failed ==
  /\ At("read_failed")
  /\ \/ Fault /\ Then(<<Call("copy", Arg)>>)
     \/ Then(Closing(Arg)) /\ UNCHANGED faults
  /\ Quietly
  /\ UNCHANGED <<okay, superVars, cacheVars, copyVars, server, data, harm>>

\* A block is written to a data connection.  One that the server has closed
\* takes it at first.
Write(o) ==
  \/ /\ data[o].link = "open" /\ data[o].flow < Cap
     /\ data' = [data EXCEPT ![o].flow = @ + 1]
  \/ data[o].link # "open" /\ UNCHANGED data
WriteFails(o) == data[o].link # "open"

vfs_s_write ==
  /\ At("copy") /\ put < got
  /\ \/ /\ IF dst = "direct" THEN Write("dst") ELSE UNCHANGED data
        /\ put' = put + 1
        /\ UNCHANGED todo
     \/ /\ dst = "direct" /\ WriteFails("dst")
        /\ Then(Closing(Arg))
        /\ UNCHANGED <<put, data>>
  /\ Quietly
  /\ UNCHANGED <<okay, superVars, cacheVars, src, dst, got, wanted, exact, ended, told, server,
                 faults, harm>>

user_abort ==
  /\ At("copy") /\ put = got
  /\ Then(Closing(Arg))
  /\ Quietly
  /\ UNCHANGED <<okay, superVars, cacheVars, copyVars, server, data, faults, harm>>

Transferring == local_read \/ ftpfs_linear_read \/ read_end \/ read_failed \/ vfs_s_write

-----------------------------------------------------------------------------
(* The end of a transfer. *)

\* ftpfs_linear_abort
abort ==
  /\ At("abort")
  /\ src' = "gone" /\ ctl_connection_busy' = FALSE
  /\ \/ /\ super = "stale" \/ ~server.up
        /\ server' = [server EXCEPT !.reset = TRUE]
        /\ Close("src") /\ Then(<<>>)
     \/ /\ super = "up"
        /\ Then(<<Ask("ABOR", None), Call("aborting", src = "open")>>) /\ UNCHANGED <<server, data>>
  /\ Quietly
  /\ UNCHANGED <<okay, use_passive_connection, strict, isbinary, cwdir, cacheVars, dst, got, put,
                 wanted, exact, ended, told, faults, harm>>

\* What still comes of the file is read and dropped.
aborting ==
  /\ At("aborting")
  /\ \/ ~Complete /\ Close("src") /\ Then(<<>>)
     \/ Complete /\ ~Arg /\ Then(<<Do("get_reply"), Do("aborted")>>) /\ UNCHANGED data
     \/ Complete /\ Arg /\ Take("src") /\ UNCHANGED todo
     \/ /\ Complete /\ Arg /\ AtEnd("src")
        /\ Close("src") /\ Then(<<Do("get_reply"), Do("aborted")>>)
  /\ Quietly
  /\ UNCHANGED <<okay, superVars, cacheVars, copyVars, server, faults, harm>>

\* A server that keeps sending is left, if there is another session to be had.
abort_timeout ==
  /\ At("aborting") /\ Complete /\ Arg /\ data["src"].link = "open"
  /\ \E r \in Reconnections :
       /\ ftpfs_reconnect(r)
       /\ server' = r.server
       /\ harm' = IF r.new THEN harm ELSE "astray"
  /\ Then(<<>>)
  /\ Quietly
  /\ UNCHANGED <<okay, super, use_passive_connection, strict, ctl_connection_busy, cacheVars,
                 copyVars>>

\* ... if two replies are read whatever the first is
aborted_Twice ==
  /\ At("aborted")
  /\ harm' = IF answer.to = "RETR" /\ answer.class # "ABORTED" THEN "astray" ELSE harm
  /\ Then(<<Do("get_reply")>>)
  /\ Quietly
  /\ UNCHANGED <<okay, superVars, cacheVars, copyVars, server, data, faults>>

\* One reply is read, and another if the first is that the transfer was cut
\* short.  If the transfer had ended by itself the other one stays unread.
aborted ==
  /\ At("aborted")
  /\ harm' = IF answer.to = "RETR" /\ answer.class # "ABORTED" THEN "astray" ELSE harm
  /\ Then(IF answer.class = "ABORTED" THEN <<Do("get_reply")>> ELSE <<>>)
  /\ Quietly
  /\ UNCHANGED <<okay, superVars, cacheVars, copyVars, server, data, faults>>

\* vfs_s_close of the source and of the target
close_src ==
  /\ At("close_src")
  /\ Then(IF src = "open" THEN <<Do("abort")>> ELSE <<>>)
  /\ Quietly
  /\ UNCHANGED <<okay, superVars, cacheVars, copyVars, server, data, faults, harm>>

close_dst ==
  /\ At("close_dst")
  /\ IF dst = "direct" THEN Close("dst") ELSE UNCHANGED data
  /\ Then(CASE dst = "direct" -> <<Do("get_reply"), Do("stored")>>
            [] dst = "temp" -> <<ftpfs_open_data_connection("dst", "STOR", None, TRUE),
                                 Call("file_store", 0)>>
            [] OTHER -> <<>>)
  /\ Quietly
  /\ UNCHANGED <<okay, superVars, cacheVars, copyVars, server, faults, harm>>

Tell(what) == told' = what /\ UNCHANGED <<src, dst, got, put, wanted, exact, ended>>

\* ftpfs_file_store writes the local file; Arg is how much of it.
ftpfs_file_store ==
  /\ At("file_store")
  /\ \/ ~okay /\ Then(<<Do("store_failed")>>) /\ UNCHANGED <<copyVars, data>>
     \/ /\ okay /\ Arg < put /\ Write("dst")
        /\ Then(<<Call("file_store", Arg + 1)>>) /\ UNCHANGED copyVars
     \/ /\ okay /\ Arg = put /\ Close("dst")
        /\ Then(<<Do("get_reply"), Do("stored")>>) /\ UNCHANGED copyVars
     \/ /\ okay /\ Arg < put /\ WriteFails("dst") /\ Close("dst")
        /\ Then(<<Do("get_reply"), Do("store_failed")>>) /\ UNCHANGED copyVars
  /\ Quietly
  /\ UNCHANGED <<okay, superVars, cacheVars, server, faults, harm>>

interrupt_store ==
  /\ At("file_store") /\ okay /\ Arg < put
  /\ Close("dst")
  /\ Then(<<Do("get_reply"), Do("store_failed")>>)
  /\ Quietly
  /\ UNCHANGED <<okay, superVars, cacheVars, copyVars, server, faults, harm>>

\* The end of close_dst: the user hears of a copy that failed.  Whatever comes
\* of it, a target that was kept in a local file drops the listings.
stored_or_not ==
  /\ \/ At("stored") /\ Tell(IF Complete /\ ended THEN "stored" ELSE "failed")
     \/ At("store_failed") /\ Tell("failed")
  /\ UNCHANGED want_stale
  /\ IF Complete \/ dst = "temp" THEN vfs_s_invalidate ELSE UNCHANGED listing
  /\ Then(<<>>)
  /\ Quietly
  /\ UNCHANGED <<okay, superVars, saved, lines, server, data, faults, harm>>

\* A complete target gets its mode; of a short one the user is asked whether to
\* keep it.
chmod ==
  /\ At("chmod")
  /\ \/ ended /\ dst # None /\ Then(<<Ask("SITE", None), Do("flush")>>)
     \/ ~ended /\ dst # None /\ Then(<<Ask("DELE", None), Do("flush")>>)
     \/ (~ended \/ dst = None) /\ Then(<<>>)
  /\ Quietly
  /\ UNCHANGED <<okay, superVars, cacheVars, copyVars, server, data, faults, harm>>

\* The end of a command that changes files.
flush ==
  /\ At("flush")
  /\ UNCHANGED want_stale
  /\ IF Complete THEN vfs_s_invalidate ELSE UNCHANGED listing
  /\ Then(<<>>)
  /\ Quietly
  /\ UNCHANGED <<okay, superVars, saved, lines, copyVars, server, data, faults, harm>>

over ==
  /\ At("over")
  /\ Then(<<>>)
  /\ src' = None /\ dst' = None /\ got' = 0 /\ put' = 0 /\ wanted' = 0
  /\ exact' = TRUE /\ ended' = FALSE /\ told' = None /\ saved' = {}
  /\ Quietly
  /\ UNCHANGED <<okay, superVars, want_stale, listing, lines, server, data, faults, harm>>

Ending ==
  \/ abort \/ aborting \/ aborted \/ close_src \/ close_dst \/ ftpfs_file_store \/ stored_or_not
  \/ chmod \/ flush \/ over

-----------------------------------------------------------------------------
(* What the user asks for. *)

Idle == todo = <<>> /\ harm = None

Job(calls) ==
  /\ Idle /\ jobs < MaxJobs
  /\ jobs' = jobs + 1
  /\ todo' = calls
  /\ answer' = Failed /\ okay' = TRUE      \* of no use any more
  /\ UNCHANGED <<superVars, cacheVars, copyVars, netVars, faults, harm>>

Copies == [from : {"ftp", "local"}, to : {"ftp", "local"}] \ {[from |-> "local", to |-> "local"]}

ListDirectory(d) == Job(<<Do("get_super"), Or(<<>>), Find(d)>>)
Copy(a)          == Job(<<Do("get_super"), Or(<<>>)>> \o Copying(a))
DeleteTarget     == Job(<<Do("get_super"), Or(<<>>), Ask("DELE", None), Do("commanded"), Do("over")>>)

\* The rest of ftpfs_send_command
commanded ==
  /\ At("commanded")
  /\ Tell(IF Complete THEN "deleted" ELSE "failed")
  /\ UNCHANGED want_stale
  /\ IF Complete THEN vfs_s_invalidate ELSE UNCHANGED listing
  /\ Then(<<>>)
  /\ Quietly
  /\ UNCHANGED <<okay, superVars, saved, lines, server, data, faults, harm>>

ftpfs_free_archive ==
  /\ Idle /\ super # None /\ jobs < MaxJobs
  /\ jobs' = jobs + 1
  /\ super' = None /\ use_passive_connection' = TRUE /\ strict' = "auto"
  /\ isbinary' = None /\ cwdir' = None /\ ctl_connection_busy' = FALSE
  /\ want_stale' = FALSE /\ listing' = Unknown
  /\ server' = Dead /\ data' = HangUp(data)
  /\ UNCHANGED <<todo, answer, okay, saved, lines, copyVars, stored, faults, harm>>

User ==
  \/ \E d \in Dirs : ListDirectory(d)
  \/ \E a \in Copies : Copy(a)
  \/ DeleteTarget \/ ftpfs_free_archive
  \/ interrupt_accept \/ interrupt_listing \/ interrupt_store \/ user_abort

-----------------------------------------------------------------------------
(* The server. *)

Transfers == {"LIST", "RETR", "STOR"}

Reply(s, command, class) == [s EXCEPT !.replies = Append(@, [to |-> command, class |-> class])]

\* What a command other than a transfer changes in the session.
Carried(s, c) ==
  CASE c.name \in {"PASV", "PORT"} -> [s EXCEPT !.ready = c.arg]
    [] c.name = "TYPE"             -> [s EXCEPT !.binary = c.arg]
    [] c.name = "CWD"              -> [s EXCEPT !.cwd = c.arg]
    [] OTHER                       -> s

MustRefuse(c) == ~server.logged \/ (c.name \in Transfers /\ server.ready = None)

\* The next command, which waits for the end of a transfer.
Obey ==
  /\ server.up /\ server.cmds # <<>> /\ server.xfer = None
  /\ LET c == Head(server.cmds)
         s == [server EXCEPT !.cmds = Tail(@)]
     IN \/ /\ IF MustRefuse(c) THEN UNCHANGED faults ELSE Fault
           /\ server' = Reply(s, c.name, "FAILED")
           /\ UNCHANGED <<data, stored>>
        \/ /\ ~MustRefuse(c) /\ c.name \notin Transfers
           /\ server' = Reply(Carried(s, c), c.name, "COMPLETE")
           /\ stored' = IF c.name = "DELE" THEN None ELSE stored
           /\ UNCHANGED <<data, faults>>
        \/ /\ ~MustRefuse(c) /\ c.name \in Transfers
           /\ server' = Reply([s EXCEPT !.xfer = s.ready, !.ready = None, !.task = c.name, !.n = 0],
                              c.name, "PRELIM")
           /\ data' = [data EXCEPT ![s.ready].binary = s.binary,
                                   ![s.ready].of = IF c.arg = None THEN s.cwd ELSE c.arg]
           /\ stored' = IF c.name = "STOR" THEN [n |-> 0, binary |-> s.binary] ELSE stored
           /\ UNCHANGED faults

Busy == server.up /\ server.xfer # None
Link == data[server.xfer].link
Size == IF server.task = "LIST" THEN 1 ELSE Blocks

Connect ==
  /\ Busy /\ Link = "none"
  /\ data' = [data EXCEPT ![server.xfer].link = "open"]
  /\ UNCHANGED <<server, stored, faults>>

Send ==
  /\ Busy /\ Link = "open" /\ server.task # "STOR" /\ server.n < Size
  /\ data[server.xfer].client /\ data[server.xfer].flow < Cap
  /\ data' = [data EXCEPT ![server.xfer].flow = @ + 1]
  /\ server' = [server EXCEPT !.n = @ + 1]
  /\ UNCHANGED <<stored, faults>>

Receive ==
  /\ Busy /\ server.task = "STOR" /\ Take(server.xfer)
  /\ stored' = [stored EXCEPT !.n = @ + 1]
  /\ UNCHANGED <<server, faults>>

Finish(class) ==
  server' = Reply([server EXCEPT !.xfer = None, !.task = None, !.n = 0], server.task, class)
Hang(link) == data' = [data EXCEPT ![server.xfer].link = link,
                                   ![server.xfer].flow = IF link = "broken" THEN 0 ELSE @]

End ==
  /\ Busy /\ Link = "open"
  /\ IF server.task = "STOR" THEN ~data[server.xfer].client /\ data[server.xfer].flow = 0
                             ELSE server.n = Size
  /\ Hang("closed") /\ Finish("COMPLETE")
  /\ UNCHANGED <<stored, faults>>

\* A transfer fails, as it must when nobody reads it.
Fail ==
  /\ Busy /\ Link = "open"
  /\ IF server.task # "STOR" /\ ~data[server.xfer].client THEN UNCHANGED faults ELSE Fault
  /\ \E link \in {"closed", "broken"} : Hang(link)
  /\ \E class \in {"FAILED", "ABORTED"} : Finish(class)
  /\ UNCHANGED stored

Abort ==
  /\ Busy /\ server.cmds # <<>> /\ Head(server.cmds).name = "ABOR"
  /\ Hang("closed")
  /\ server' = Reply(Reply([server EXCEPT !.cmds = Tail(@), !.xfer = None, !.task = None, !.n = 0],
                           server.task, "ABORTED"), "ABOR", "COMPLETE")
  /\ UNCHANGED <<stored, faults>>

\* The server goes down, or drops the session.
Drop ==
  /\ server.up /\ Fault
  /\ server' = [Dead EXCEPT !.replies = server.replies]
  /\ data' = HangUp(data)
  /\ UNCHANGED stored

Serve == Obey \/ Connect \/ Send \/ Receive \/ End \/ Fail \/ Abort
Remote(A) == harm = None /\ A /\ UNCHANGED <<todo, answer, okay, superVars, cacheVars, copyVars, jobs, harm>>

Commander ==
  \/ ftpfs_command \/ ftpfs_get_reply \/ get_super \/ DataConnection \/ Directory \/ setctl \/ stale
  \/ Opening \/ Transferring \/ Ending \/ commanded

Next == Commander \/ User \/ abort_timeout \/ Remote(Serve) \/ Remote(Drop)

Spec == Init /\ [][Next]_vars /\ WF_vars(Commander) /\ WF_vars(Remote(Serve))

-----------------------------------------------------------------------------
(* Properties *)

\* The variables keep to what the code can put into them.
TypeOK ==
  /\ super \in {None, "up", "stale"} /\ strict \in {"auto", "strict", "daring"}
  /\ {okay, use_passive_connection, ctl_connection_busy, want_stale, exact, ended} \subseteq BOOLEAN
  /\ isbinary \in BOOLEAN \cup {None} /\ {cwdir, lines} \subseteq Dirs \cup {None, "home"}
  /\ saved \subseteq Dirs /\ listing \in [Dirs -> Dirs \cup {None, "home"}]
  /\ src \in {None, "open", "gone"} /\ dst \in {None, "direct", "temp"}
  /\ put <= got /\ got <= Blocks /\ wanted \in Starts \cup {0}
  /\ told \in {None, "stored", "deleted", "failed"} /\ harm \in {None, "astray", "crashed"}
  /\ server.ready \in Owner \cup {None} /\ server.xfer \in Owner \cup {None}
  /\ \A o \in Owner : data[o].link \in {"none", "open", "closed", "broken"} /\ data[o].flow \in 0..Cap
  /\ stored # None => stored.n <= Blocks
  /\ ctl_connection_busy <=> src = "open"

\* When the Commander is about to say something, and whenever it is idle, every
\* reply to what it said before has been read, and no transfer goes on: whatever
\* was interrupted, refused, timed out or reconnected in between.
RepliesRead ==
  (Idle \/ (At("command") /\ Arg.name # "ABOR")) /\ ~ctl_connection_busy /\ super = "up" /\ server.up
    => server.cmds = <<>> /\ server.replies = <<>> /\ server.xfer = None

\* What the superblock remembers of the session, its type and its directory, is
\* what the session is in, through all reconnections.
SessionKnown ==
  Idle /\ super = "up" /\ server.up /\ server.logged
    => isbinary \in {None, server.binary} /\ cwdir \in {None, server.cwd}

\* The Commander and the server are in step.
InStep == RepliesRead /\ SessionKnown

\* A copy that is told to be complete has the whole file, from where it was asked
\* for, as it is; a target that is told to be stored is on the server, whole; what
\* is told to be deleted is; and a listing is that of the directory it is kept for.
ToldIsTrue ==
  [][/\ ended' /\ ~ended => wanted + got = Blocks /\ exact
     /\ told' = "stored" /\ told = None => stored = [n |-> put, binary |-> TRUE]
     /\ told' = "deleted" => stored = None
     /\ \A d \in Dirs : listing'[d] \in {None, d}]_vars

\* The Commander never waits for ever: each call ends.
CallsEnd == []<>(todo = <<>> \/ harm # None)
=============================================================================
